# A TLA+ model of the X Layer bridge service

The bridge service watches an L1 and one or more L2 networks, copies the events
of the bridge contracts into PostgreSQL, keeps the exit trees that claim proofs
are computed from, and sends the claim transactions of deposits that are ready.
This directory holds TLA+ modules for its concurrent and failure-prone parts,
TLC configurations that check them on small instances, and TLAPS proofs of the
main safety properties. Paths below are relative to `src/`.

## The system

| Part | State | Operations that change it | Talks to |
|---|---|---|---|
| Synchronizer, one per network (`synchronizer/`) | `lastBlockSynced`, `synced`, `l1RollupExitRoot` | `Sync`, `syncBlocks`, `checkReorg`, `resetState`, `processBlockRange`, `syncTrustedState` | RPC node, database, exit tree, channel to the claim managers |
| Exit tree (`bridgectrl/`) | `count`, `siblings` in memory, nodes in the database | `addLeaf`, `resetLeaf`, `addRollupExitLeaf` | synchronizer, API server |
| Claim manager (`claimtxman/`) | `l1Synced`, `l2Synced`, the pending exit root | `Start`/`StartXLayer`, `updateDepositsStatus`, `addClaimTx` | synchronizers (channels), database, Redis, Kafka |
| Compressed claims monitor (`claimtxman/monitor_compressed_txs.go`) | rows of `monitored_txs` and `monitored_txs_group` | `MonitorTxs`: `SendClaims`, `CheckReceipts`, `OutdateClaims`, `createNewGroups` | L2 node, database |
| Individual claims monitor (`claimtxman/monitortxs.go`, `xlayer_claimtxman.go`) | rows of `monitored_txs`, nonce cache | `MonitorTxs`, `monitorTxsXLayer`, `GetNextNonce` | L2 node, database |
| Auto claim service (`autoclaimservice/`) | none of its own | `claimIndividually`, `claimGrouped` | API server, L2 node |
| Push tasks (`xlayer/pushtask/`) | block and batch numbers in Redis, a Redis lock | `L1BlockNumTask`, `CommittedBatchHandler`, `VerifiedBatchHandler` | L1 node, Redis, Kafka |
| Caches (`xlayer/localcache`, `xlayer/estimatetime`, nonce cache) | maps refreshed by tickers | `doRefresh`, `refresh` | database, API server |
| API server (`server/`) | none | queries, claim proofs | database |

What is hard in it: chains reorganise between any two RPC calls; the process may
die between any two transactions; memory (tree, cursor, last root sent) runs
ahead of or behind the database when a transaction fails; a claim that was sent
cannot be rolled back with the transaction that records it; receipts, retries
and timeouts race; exit roots are announced once, on unbuffered channels.
`PROJECT.json` lists each such hazard with its line.

## Modules

| Module | Models | Uses |
|---|---|---|
| `BridgeLedger` | abstract: what a synchronizer promises the readers of its tables | |
| `Synchronizer` | `synchronizer/synchronizer.go`, the tree count of `bridgectrl`, the block queries of `pgstorage` | implements `BridgeLedger` |
| `SyncHistory` | `Synchronizer` with history variables: which blocks left the chain, whether an announcement was cut off, the tree torn by a failure, or a range put together from several chains | |
| `SynchronizerProofs` | theorems about `Synchronizer` and `SyncHistory` | |
| `Merkle` | the algorithms of `bridgectrl/merkletree.go`: frontier, nodes, proofs, rollup tree | |
| `DepositTree` | `bridgectrl/bridgectrl.go` and `merkletree.go`: the tree of one network, its tables and its memory | `Merkle` |
| `DepositTreeProofs` | theorems about `Merkle` and `DepositTree` | |
| `ExitRoots` | composition: two synchronizers, the rollup tree, `claimtxman.go`, `GetClaimProof` | `Merkle` |
| `ExitRootsProofs` | theorems about `ExitRoots` | |
| `ClaimLifecycle` | abstract: the life of a row of `monitored_txs` | |
| `CompressedClaims` | `monitor_compressed_txs.go`, `pending_txs.go`, `groups_trigger.go`, `store_changes.go`, the group types and queries | implements `ClaimLifecycle` |
| `ClaimsProofs` | theorems about `CompressedClaims` | |
| `MonitorTxs` | `xlayer_claimtxman.go` (`monitorTxsXLayer`), `nonce_cache.go`, `xlayer_nonce_cache.go` | implements `ClaimLifecycle` |
| `MonitorProofs` | theorems about `MonitorTxs` | |
| `ClaimManager` | `xlayer_claimtxman.go` (`StartXLayer`), `xlayer_claimtxman_helpers.go` | |
| `ManagerProofs` | theorems about `ClaimManager` | |
| `AutoClaim`, `AutoClaimProofs` | `autoclaimservice/`, and the requests it makes of `server/service.go` | |
| `PushTasks`, `PushProofs` | `xlayer/pushtask/`, the lock and lists of `xlayer/redisstorage/` | |
| `MCSynchronizer`, `MCCompressedClaims`, `MCClaimManager`, `MCDepositTree`, `MCAutoClaim`, `MCPushTasks` | instances for TLC | |
| `MCLostRoot`, `MCExitRoots` | the same with history variables, for properties that name what happened before | |

### Synchronizer

A block is a hash with a number, its set of ancestors, how many deposits it has
and the number of its last exit root. `db` is the set of blocks stored with their
events: one transaction of `processBlockRange` adds a block, `resetState` deletes
the blocks above a number and everything hanging on them (`ON DELETE CASCADE`).
`pc` says where the goroutine is; each RPC call and each transaction is a step:

| Action | Code |
|---|---|
| `SyncBlocks`, `ChooseRange`, `Fetch*`, `Finish` | `syncBlocks`: head, range, fetch, second check, next range |
| `CheckReorg` | one round of the loop of `checkReorg`, and what its caller does with the result |
| `Reset` | `resetState` with `ReorgMT` |
| `StoreBlock`, `StoreBlockFails` | one transaction of `processBlockRange` and its error paths |
| `Notify`, `NotifyFails` | the exit root sent after the last block |
| `Reload`, `After`, `AfterFails` | what `Sync` does after `syncBlocks` returned |
| `SyncTrustedState`, `SendTrusted` | `syncTrustedState`: store, then send |
| `Crash`, `Restart`, `RpcFails` | the process and its RPC node |
| `MoveHead` | the chain (external): growth, reorganisation, a lagging node |

The order of exit roots is their number: managers only care whether they know a
root at least as new. Claims and token wrappers are stored in the same
transaction as the deposits of a block and have no control flow of their own.

Some error paths of `processBlockRange` return without a rollback (lines 481, 499, 508,
517, 526, 534 and 844) and leave their transaction open. Nothing of it is ever committed,
which is what the model has; that it holds a connection and its locks is left out.

`SyncHistory` adds five variables that no guard reads: `gone`, the stored blocks that
left the canonical chain since they were stored; `cut`, a failure or crash between the
commit of a root and its announcement; `torn`, a rolled back transaction that had
changed the tree in memory; and for `forceSyncChunk` `asked`, the chain that the range at
hand was fetched from, and `stray`, that the node answered the second check or the header
of `toBlock` (line 409) from another one. All runs of the synchronizer use it.

### CompressedClaims

One cycle of `MonitorTxs` is one database transaction. Steps of the cycle work on
`work`, the groups in memory; `Commit` makes them `groups` and settles the rows,
`Rollback` forgets them. `chain` is what was really sent, and is never rolled
back. Time is a tick between cycles and ages saturate at `MaxAge`, above every
period. The compressor contract is external: a mined call claims any of its deposits that
were not claimed before, and counts as successful when it claims one, since it then has
logs. The code confirms all rows of such a group (line 249), so a confirmed row says that a
call with its claim was successful (`Carried`), not that its deposit is claimed. A call may
also be taken by the node although it returns an error. Rows have no history of their own:
grouping is enabled before the first row is added.

### ClaimManager

A root is a number; `Mainnet` and `Rollup` say how many deposits it covers, which is
what the sub-selects of `UpdateL1DepositsStatusXLayer` and
`UpdateL2DepositsStatusXLayer` compute. The unbuffered channel makes the send of the
synchronizer and the receive of the loop one step (`L1Root`, `TrustedRoot` with
`Receive`). A goroutine is `spawned` until it reads `ger`, which is whatever the
loop assigned last; then its event is in the bag `jobs`. Without `optClaim` it
handles the root in one transaction (`UpdateL1`, `UpdateL2`): the row locks of its
`UPDATE` order it with the others. With `optClaim` it lists the deposits under a lock
(`LockL1`) and handles each in a transaction (`QueueOne`). Both flags are chosen by
`Init`. A crash resets the loops and keeps what the synchronizers take for sent. The
L1 deposits a root covers are taken to be stored when the root arrives.

Deposits may go to networks that the process does not serve. A root marks every deposit it
covers as ready, wherever it goes, and gives a row to those of the manager's own network
only. Among these some are refused (`ignored`: claimed already, or a message that is not
authorized) and some have no gas estimate at the last try (`dropped`): the error is
swallowed, and the deposit is ready without a row.

`cmd/xlayer_run.go` starts `StartXLayer`, which this module models; `cmd/run.go` starts
`Start` of `claimtxman.go`, which has the same loop and whose handling of a root is part
of `ExitRoots`.

### Merkle, DepositTree

A hash is a term: a leaf, a zero hash of a height, or the pair of its children. So the
tree that `addLeaf` builds from the siblings it keeps, the nodes it stores in `mt.rht`
and the proofs read back from them can be compared with `RootOf`, the root by definition.
The loops of the code over the levels of a tree are recursive functions of the level.
`DepositTree` has one action for the transaction of a block, one for a rewind, one for a
restart, and their failures before and after the tree in memory was changed: the tables
are rolled back, the memory is not.

### ExitRoots

Two synchronizers, of L1 and of a sovereign L2, write the table of exit roots: L1 stores
roots with both their halves, L2 only hashes; each completes the rows of the other. The
transactions are read and write steps of their own, so they overlap. A goroutine of the
manager holds its root in `events` until it marks the deposits the root covers. A removal
on L2 takes flags back, a reorganisation of L1 drops leaves and rows. The rows of
`mt.rollup_exit` that `storeLeaves` inserts together are one batch of leaves, with its root
and its block (`exits`); their ids grow with the block, so the row with the highest id of a
rollup is the one of its latest batch. `GetClaimProof`
takes the latest root and the two proofs from the tables as they are. A goroutine
processes the root it was started for, or the root is lost: it came before both networks
were synced, a later one took its place (see `ClaimManager`), or its transaction failed.
No root is tried a second time. A root that is removed while L1 has not stored its last
deposit, or that has no row before it, is an error (`L2RemoveRefused`), since the block is
rolled back and retried. `MCExitRoots` keeps the deposits that missed a root (`missed`),
until another one makes them ready.

### MonitorTxs

A cycle of `monitorTxsXLayer` is one database transaction over at most `limit` rows, newest
first: `Begin`, then for every row `Check`, `SetTxNonce` and `Send` or one of their
failures, then `Commit`. Calls to the node are steps: transactions are mined, lost or
refused, users claim, and rows are added between any two of them. `cache` is the nonce
cache; `Decr` gives a nonce back.

### AutoClaim

One tick: `GetPendingBridges` for assets and for each address, `GetProofs`, then
`SendClaim` for each bridge, or `Estimate` and `SendCompressedClaims` for each group. A
proof is the pair of its deposit and its root; `ExitRoots` is about its nodes. The
contract accepts a claim once, under a root it has. `grouped` is chosen by `Init`.

### PushTasks

Two or more instances run a task under a lock in Redis that expires. The three tasks have
keys of their own and do not meet, so a behaviour has one of them (`task`). Each call to
Redis, a node or the database is an action. `pushes` counts the goroutines that were given
a message, and the failed ones are taken off; `lost` and `shifted` remember the failures
that the properties name as exceptions, `expired` a lock that expired under its holder. An
error of Redis means that the command was not applied. A reorganisation (`Reorg`) deletes
the rows of a block and those after it, and not their lists in Redis; the deposits may be
stored again. A deposit that is mined again in another block counts as another deposit:
the list of the old block still has it, so its message may be sent once for each of the two
blocks. A list expires (`ListExpires`) when nothing was announced for 24 hours.

## Runs

| Run | Bounds | Checks |
|---|---|---|
| `sync_l1` | 11 blocks on 3 forks, chunk 1, head may drop, 1 fault of any kind, fair | the inductive invariant `HInv` (with `OneFork` and the cursor), `TreeUnlessTorn`, `AnnouncedUnlessCut`, `NoNeedlessRewind`, `Recovers`, refinement of `BridgeLedger` |
| `sync_l2` | 8 blocks on 3 forks, zkEVM L2 with `ForceL2SyncChunk`, lagging node, a trusted root, no fault, fair | `OneForkUnlessStray`, `CatchesUp` |
| `deposit_tree` | height 3, 3 deposits in a block, 7 in all, 2 contents, 2 faults | `RootsRight`, `ProofsVerify`, `RefusesOnlyAfterFailure`, `RestartAccepts` |
| `exit_roots` | height 2, 2 L1 blocks, 2 roots on L2, 1 L2 deposit, 1 reorganisation, 1 removal, fair | `LeavesFollowL1`, `RowsCompleted`, `ReadyCovered`, `ProofsGood`, `DepositsBecomeReady`, `ExitsBecomeReady` |
| `claims` | 3 deposits, 2 exit roots, groups of 2, 2 retries | `GroupsPartitionRows`, `OnePendingClaim`, `SuccessIsKept`, refinement of `ClaimLifecycle` |
| `claims_live` | 2 deposits, 1 fault, fair | `SendsBounded`, `EverythingSettles` |
| `monitor_txs` | 2 deposits, limits 1 and 2, histories of 2, 1 fault, fair | `StatusIsFinal`, `OneInFlight`, `NoGap`, `Settles`, refinement of `ClaimLifecycle` |
| `manager` | 1 L2 and a network that is not served, 3 L1 deposits, 3 roots, all 4 configurations, 1 fault | `QueuedOnDestination`, `ReadyOnL1`, `ReadyIsQueued`, the inductive invariant `IInv` |
| `auto_claim` | 5 deposits of 2 networks, 2 of them unclaimable, 2 roots, groups and pages of 2, 1 fault, fair | `ProvenByItsRoot`, `EverythingClaimed` |
| `push_tasks` | 2 instances, 2 L1 and 2 L2 deposits, 3 blocks or batches, pages of 1, 1 reorganisation of L1, 1 fault, fair | `LockExclusive`, `NoneSkipped`, `PushedOnce`, `NumbersOnlyGrow`, `Announced` |

What each run shows is the comment above its properties; in short:

* `sync_l1`, `sync_l2`: the tables are the complete history of one fork at every moment,
  a rewind deletes only what left the chain, and the service recovers once the chain
  stays. The exceptions are named in the properties: a root whose announcement was cut
  off, a tree that a rolled back transaction changed, a `Sync` that returned for good, and
  with `forceSyncChunk` answers of the node from several chains.
* `deposit_tree`, `exit_roots`: the stored roots are those of the deposits, the proofs
  that the API hands out verify, and only an overlap of the two synchronizers leaves a
  row of exit roots incomplete. A deposit is ready in the end if one of the roots that
  cover it was announced and processed; the code does not promise that one is.
* `claims`, `claims_live`, `monitor_txs`: a row is settled once, and the retries are
  bounded, through rollbacks, crashes and late receipts. `EverythingSettles` counts a
  failing gas estimation or call among the failures, which end: a group whose estimation
  fails for ever is tried for ever, as the code counts no retry for it.
* `manager`, `auto_claim`: a claim is queued, and sent, only under a root that its
  destination has. In `auto_claim` the deposits `u` and `v`, which cannot be claimed, are a
  whole group in front of `m` once the second root has come: `m` is then excepted when
  claims are grouped, and the others are not.
* `push_tasks`: the messages to the users are complete and not repeated, but for the
  failures named.

Deadlock is not checked in the `manager` runs, `exit_roots` and `monitor_txs`: roots,
blocks and rows are finite there, and a service that has nothing to do waits.

### Bounds

* Block tree: the forks meet at two heights, have blocks with and without events, and
  differ in deposits and roots. That is enough for a walk back over several rows, a range
  that is cut by the head, a fork with fewer deposits, and a reorganisation at every step
  of an iteration once the initial sync is over. During the initial sync there is none
  between the first check and the end of the range, where no hash is compared:
  `sync_initial_reorg` is about that window. With a chunk of 1 an initial sync takes
  several ranges. The L2 has a smaller tree, of the same shape.
* Trees: height 3 has all positions of a leaf relative to the siblings kept in memory;
  up to three deposits in a block let a failure come in the middle of one. Height 2
  separates the rollup tree from the trees under it.
* Exit roots: two L1 blocks and two L2 roots let each synchronizer be ahead of the
  other, and one removal or reorganisation can come at any point. The exception for two
  removals in a row needs three roots and two removals, and is out of the instance.
* Groups: two exit roots and groups of two give full, partial and waiting groups; two
  retries give a first, a repeated and a last send. Ages saturate above every period.
* Individual claims: two rows and a limit of 1 or 2 let a row wait behind another; a
  history of 2 is full after one repetition.
* Roots of the managers: with three roots one can overtake, replace or repeat another in
  each direction; one of the three L1 deposits goes to a network without a manager.
* Auto claim: groups and pages of 2 with five deposits give a full page, a second group
  and a deposit that reverts beside one that does not.
* Push tasks: the two L1 deposits share a transaction, which makes them share a field in
  Redis; the second batch has no block; pages of one row make every row a page. L1 is
  reorganised once; reorganisations of L2 are left to the proofs (`MaxReorgs` is a bound for
  each task).

These runs are expected to fail and document a disagreement between the code and
its own comments (`findings` in `PROJECT.json` quotes both):

| Run | What happens |
|---|---|
| `sync_initial_reorg` | a reorg between check and fetch of an initial sync is not seen: two forks are stored |
| `manager_lost_root` | without grouping, a root is replaced in the shared variable before its goroutine reads it; its deposits wait for another root |

### Fairness

* `SyncHistory!HFairSpec`: the goroutine of `Sync` keeps running (its loop ends only on
  errors the model has as `stopped`) and a dead process is started again. The chain is
  not fair; `CatchesUp` and `Recovers` are about heads that stay.
* `CompressedClaims!FairSpec`: the ticker keeps firing and time passes between cycles.
  Time is enabled only between cycles, hence strong fairness. Nothing has to be mined.
* `ExitRoots!Fairness`: both synchronizers go on and their transactions end, and a root
  that was announced is processed or lost in the end; which of the two is left open.
  Reorganisations and removals are not fair.
* `MonitorTxs!Spec`: the ticker of the monitor fires, the node mines or drops what is in
  its pool, and the synchronizer stores the claims of the network.
* `PushTasks!Spec`: tickers fire, a run of a task comes to its end, and Redis deletes a
  key that expires. No instance has to get the lock.
* `AutoClaim!FairSpec`: the ticker fires, the roots reach the L2, a transaction is mined
  and the claim is stored by the bridge service.
* `MCLostRoot!MCFairSpec`: goroutines get to run and the ticker fires; no further root
  has to arrive.

Failures are never fair: they may happen, up to `MaxFaults` of them.

## Proofs

Every theorem holds for all values of the constants that the named assumptions of its
module allow; TLC evaluates these assumptions for the instances it checks. Each inductive
invariant was checked by TLC on a small instance before it was proved. A proof that a step
keeps an invariant has a lemma, or a step, for each action.

### Synchronizer (`SynchronizerProofs`)

Assumptions: ancestors are closed and numbered one by one (`ChainAssumption`), the
contract numbers deposits consecutively and the bridge starts at `GenBlock`
(`EventAssumption`), roots are natural numbers (`GerAssumption`), and only an L2 has
`forceSyncChunk` (`ConfigAssumption`).

* `TypeCorrect`: `Spec => []TypeOK`.
* `Inductive`, `DatabaseIsOneFork`, `CursorFollowsDatabase`: `IInv`, `OneFork` and
  `CursorIsLastStored` hold if `Guarded`: no `forceSyncChunk`, no reorganisation
  where no hash check would see it, and no L2 head below the stored blocks. Each
  condition is necessary: `sync_initial_reorg` drops the second, and an L2 cursor
  does go stale when its node falls behind.
* `ImplementsLedger`: under `Guarded` the synchronizer implements `BridgeLedger`.

`OneFork` is not inductive: a range is fetched at one time and stored later. `IInv`
adds what the code knows at each `pc`: the cursor is the last row (`CursorInv`), the
walk stands on a row or the placeholder (`WalkInv`), an initial sync has stored
exactly the prefix of the canonical chain below `from` (`InitialSyncInv`), and the
pending blocks continue the stored fork (`StoreInv`). The key fact (`MatchedPrefix`) is
that when the last row is on the canonical chain and the rows are one whole fork, they
are a prefix of the canonical history.

### History of the synchronizer (`SynchronizerProofs`)

All under `Guarded`, from the inductive invariant `HInv` (`HistoryInductive`), which adds
to `IInv`:

* `TreeInv`, while the tree is not torn: the count in memory is the number of stored
  deposits. `TreeTornByFailureOnly` (`TreeUnlessTorn`) follows, and
  `TreeFollowsDatabase`: without failing transactions the tree is never out of step.
* `AnnounceInv`, while nothing was cut off: only a range that is being stored, or a
  trusted root about to be sent, is ahead of what the managers were told.
  `RootsAnnounced` (`AnnouncedUnlessCut`) follows.
* `RewindInv`: the row that `checkReorg` stands at is the one at offset `depth`, and all
  rows above it have left the chain since they were stored. `RewindsAreNeeded`
  (`NoNeedlessRewind`) follows. That the n-th row from the top is the one `OFFSET n`
  returns needs the least element of a set of block numbers, which is proved from the
  well-foundedness of `<`.

### ClaimManager (`ManagerProofs`)

`RootAssumption` says that a later root covers at least what an earlier one did, which
the append-only trees of the contracts give.

* `ManagerInductive`, `ReadyOnlyOnL1`, `ListStaysFresh`: `IInv`, `ReadyOnL1` and
  `ListIsFresh`, for any number of L2 networks.
* `QueuedMeansCovered`, `ReadyMeansQueued`: `QueuedOnDestination` and `ReadyIsQueued`, for
  any number of networks, served or not. A deposit may be ready without a row when the
  manager of another network was first, as the deposits are listed without regard to their
  destination; `OneNetworkQueues` shows that with one manager this does not happen to the
  deposits of its own network.

A goroutine reads `ger` late, so that no property follows from what the loop knew
when it started the goroutine. `IInv` says instead that every event in the loop or in
a goroutine is at most what its synchronizer has announced to this manager
(`Announced`), which stays true while roots only grow; that at most one list exists;
and that what is listed is covered, not ready and without a row.

### CompressedClaims (`ClaimsProofs`)

* `GroupsArePartition`, `OneClaimPending`, `SuccessStays`, `ClaimsImplementLifecycle`:
  `GroupsPartitionRows`, `OnePendingClaim`, `SuccessIsKept` and the refinement of
  `ClaimLifecycle`, from the invariant `CInv`. A group counts what it sent and only its
  last claim is pending (`HistoryInv`), rows and groups name each other (`RowInv`), and
  the groups a cycle works on are those of the database and one new one (`CycleInv`).
* `SendsAreBounded`: `SendsBounded`, if `MaxRetries # 0` (without retries the first claim
  is sent all the same). `SendInv` splits the claims of a deposit that are on the chain
  into those the history of its group knows, at most `MaxRetries`, and those it does not
  know, at most one for each cycle that was rolled back and each answer that was lost.

### MonitorTxs (`MonitorProofs`)

`MonitorTypes`, `FinalStatus`, `OneClaimInFlight`, `NoncesWithoutGap` and
`MonitorImplementsLifecycle`, from `MonitorInvariant`: the histories have room for what is
to be sent (`HistoryInv`); the pool has every nonce from that of the account to the cached
one unless a transaction was lost (`NonceInv`); a cycle still has what it read (`CycleInv`,
`SettleInv`); what is confirmed is claimed (`ConfirmInv`); and as long as nothing failed
the histories know all of the pool (`FlightInv`).

### DepositTree (`DepositTreeProofs`)

For every height of the tree, any contents and any number of failures:

* `RootsAreRight`, `ProofsAlwaysVerify`: `RootsRight` and `ProofsVerify`. What is stored is
  the tree over the deposits that are stored, and the proof that `getSiblings` walks out of
  `mt.rht` leads to the root asked for, through rollbacks, rewinds and restarts.
* `RefusalNeedsFailure`, `RestartBringsBack`: `RefusesOnlyAfterFailure` and
  `RestartAccepts`. A tree that refuses the next deposit had a failure, and a restart
  accepts it again unless it fails as well.

The properties compare a root with one computed from scratch, while `addLeaf` reads one
path of the tree and the siblings it kept. The invariant `TreeInv` (`TreeInvariant`) says
what these are: the nodes on the way to every deposit and left of it are stored, with that
deposit or an earlier one, so that a rewind which deletes the rows of later deposits leaves
them (`Tables`, with `Covered`); and a sibling that the next leaf will read, where its
position has the bit of that level, is the node to the left (`Frontier`). Nothing is said
of the siblings that are overwritten before they are read, nor of a memory whose count is
not that of the table: such a tree refuses the next deposit.

The proof of a deposit needs less than `Tables`: a table that has the nodes of the tree and
any others under their hashes (`Readable`, `SharedTable`). `ExitRootsProofs` uses this for
`mt.rht`, which both networks share.

The lemmas under it are about `Merkle`: the levels of a tree (`Complete`), how a position
climbs to the next level, and that nodes left of a position do not change when leaves are
added to its right (`NodeKept`). They are proved by induction over the level, with the well
foundedness of `<` on a set of numbers, and the loops of the code are recursive functions
whose defining equations are proved first.

### ExitRoots (`ExitRootsProofs`)

For every chain of L1, tree height and number of roots, reorganisations and removals:

* `RowsAreCompleted`: `RowsCompleted`. `Exchange`: as long as the two transactions did not
  overlap, an incomplete row waits for a root that L1 has not stored yet, an open L1
  transaction has read every row that it completes, and a row that is being stored was
  looked up in what L1 has now.
* `ReadyIsCovered`: `ReadyCovered`. `Flags`: as long as no root was removed under a
  goroutine and no two roots in a row were removed, every L2 root that waits for its
  goroutine is allowed, and every deposit that is ready is covered by an allowed row.
  The second part is not inductive without the first, as the goroutine sets flags later.
  When L1 grows a row still covers what it covered, as the deposits of the stored blocks
  are a prefix of the new ones (`DepositsGrow`); when it is reorganised, the deposits that
  keep a flag are in blocks that both forks have (`DepositsAgree`).

* `LeavesAlwaysFollow`: `LeavesFollowL1`. `Leaves`: the batches that are stored are exactly
  those of the stored blocks that verify a rollup, each with the leaves that the contract
  has after it, up to the last rollup that has any (`Filled`). `storeLeaves` leaves a root
  out that is there already, and a batch is looked up by its root alone, so the proof needs
  that the tree which `buildMTRoot` builds from a list of leaves, padding each level, is the
  complete tree over them (`LevelsBuilt`, `BuiltRight`) and that trees with different leaves
  have different roots (`RootsTellLeaves`), both by induction over the level.
* `ProofsAlwaysGood`: `ProofsGood`. What the server reads is spread over four tables;
  `Unforked` relates them as long as L1 was not reorganised (`Sound`): L1 has the roots that
  it announced; an L2 deposit that is ready is verified, and what is verified is stored; an
  open L1 transaction completes rows of its own root only; and the rows of L2 are in the
  order of the chain, complete only when L1 has their root. So the latest allowed row covers
  what an earlier one covers, and with `Flags` and `Leaves` every deposit that is ready is
  below a root whose leaves are stored. That the proof then verifies is shown for the tree
  of the rollups from its levels (`RollupProof`: the siblings that `ComputeSiblings` indexes
  exist and lead to the root), and for the deposit trees by an instance of
  `DepositTreeProofs` (`Trees`): a table which has the nodes of two trees gives the proofs of
  both (`SharedTable`, `AllProvable`), as every row is stored under its hash.

The exception for removals in a row was found by stating the theorem: `AddRemoveL2GER`
takes back the flags of the deposits that the removed root has more than the row before it,
whether or not that row was removed too. With three roots, the deposits between the first
and the second keep their flags when the second is removed, the third is inserted and
processed, and then removed. The run has one removal, where this cannot happen: an instance
with three blocks, three roots and two removals has it, and is too large for the liveness
properties.

### AutoClaim (`AutoClaimProofs`)

`ClaimsAreProven`: `ProvenByItsRoot`. `AInv` keeps the lists of a cycle as long as its
place says (`CycleInv`), the proof at each place that of the bridge there under a root
that covers it (`PairInv`), and what is collected or sent proven (`ClaimInv`).

### PushTasks (`PushProofs`)

* `OneAtWork`, `NumbersGrow`: `LockExclusive` and `NumbersOnlyGrow`, from `PInv`: who works
  has the lock and nobody else does (`LockInv`), it knows the number in Redis (`NumInv`),
  and the block number there is the end of a batch (`BlockInv`).
* `PushedOnlyOnce`: `PushedOnce`, from `OInv`: a deposit was pushed once for every failure,
  and once more only if it is behind the task (`Behind`): its block is passed and no page
  that is still to be read has it (`Ahead`). A reorganisation does not bring it back, as the
  number in Redis stays.
* `NoneIsSkipped`: `NoneSkipped` for all tasks, whether or not the lock expires. For L1,
  Redis has every deposit that is not ready (`ListInv`), and one that nobody was given to
  push is ahead of the number and of every instance (`ScanInv`). For committed batches, it
  is on a page that is still to be read, or its block has not been passed (`PageInv`). The
  last page is found by its length, so the proof needs that a page is full when a row
  comes after it (`FullPage`): the rows before one in descending order take all the places
  before it (`PlacesTaken`), again by a least element.

### Only model-checked

* Liveness (`CatchesUp`, `Recovers`, `EverythingSettles`, `Settles`, `EverythingClaimed`,
  `Announced`, `DepositsBecomeReady`, `ExitsBecomeReady`): fairness and `ENABLED` are out
  of the reach of the prover.
* `sync_l2`: the theorems about `OneFork` exclude `forceSyncChunk`, with which the newest
  row may be fetched twice and the cursor may not be a row. `OneForkUnlessStray` is checked
  on the instance only.

## Not modelled

* Contract bindings and protobuf code are generated; they are most of the lines of the
  repository.
* The RPC, Kafka, Nacos and Sentinel clients are I/O without state. The decoding of logs
  and the packing of call data (`compose_compress_claim.go`) have the contracts as their
  reference, which are not in the repository.
* `xlayer/localcache` and `xlayer/estimatetime` refresh a map or an average from one
  goroutine; they have no protocol.
* `monitortxs.go` is an earlier form of `monitorTxsXLayer`; `updateLeaf` and `getLeaves`
  of the tree have no caller in the service; claims between two L2s do not occur in the
  deployment that is modelled, which has one; `ManualClaim` sends the one transaction that
  a user asks for.
* Read-only requests of the API, other than those that compute proofs and list pending
  bridges.
