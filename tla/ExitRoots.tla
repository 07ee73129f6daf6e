----------------------------- MODULE ExitRoots -----------------------------
(***************************************************************************)
(* What travels from the two synchronizers to a proof: the synchronizer of *)
(* L1 and the one of a sovereign L2 store global exit roots in the table   *)
(* they share, each completing the rows of the other, and announce them;   *)
(* goroutines of the claim manager mark the deposits a root covers; the    *)
(* server proves a marked deposit against the latest root.                 *)
(*                                                                         *)
(* A global exit root is the pair of what its two roots are roots of: the  *)
(* deposits of L1, and how many deposits of each rollup are verified.      *)
(***************************************************************************)
EXTENDS Merkle, FiniteSetsExt

CONSTANTS
  Content,       \* the contents of L1 deposits, different on two forks
  Synced,        \* the rollup that is synchronized
  Foreign,       \* a rollup that is not
  L2Deposits,    \* how many deposits are made on the rollup Synced
  MaxBlocks,     \* the blocks of L1
  MaxRoots,      \* bound on the roots inserted on L2
  MaxLate,       \* bound on the goroutines that are running
  MaxReorgs,     \* bound on the reorganisations of L1
  MaxRemovals    \* bound on the roots that are removed on L2

Rollup == {Synced, Foreign}

ASSUME ExitRootsAssumption ==
  /\ Rollup \subseteq 1..Width[0] /\ Synced # Foreign
  /\ Content \subseteq Nat \ Rollup
  /\ {L2Deposits, MaxBlocks} \subseteq 1..(Width[0] - 1)
  /\ {MaxRoots, MaxLate, MaxReorgs, MaxRemovals} \subseteq Nat

VARIABLES
  chain,     \* the blocks of L1, each with a deposit or a verified batch
  synced,    \* how many of them the L1 synchronizer has stored
  exits,     \* mt.rollup_exit: the leaves that were stored together, with root and block
  made,      \* how many deposits of L2 are stored
  gers,      \* the rows of sync.exit_root of L2, in the order of id
  ready,     \* the deposits <<network, number>> with ready_for_claim
  l1Tx,      \* <<>>, or <<the rows of gers that the open L1 transaction has read>>
  l2Pc,      \* where the L2 synchronizer is
  l2Row,     \* <<>>, or <<the row that the open L2 transaction stores>>
  known,     \* <<>>, or <<the rollups of l1RollupExitRoot>>
  events,    \* the roots that goroutines of the manager have still to process
  reorgs, removals   \* how many there were

l1Vars == <<chain, synced, exits, l1Tx, known, reorgs>>
l2Vars == <<made, l2Pc, l2Row, removals>>
vars == <<l1Vars, l2Vars, gers, ready, events>>

-----------------------------------------------------------------------------
(***************************************************************************)
(* The chains: every event of L1 changes the global exit root.             *)
(***************************************************************************)
Deposit(c) == [deposit |-> <<c>>, verified |-> 0]
Verified(r) == [deposit |-> <<>>, verified |-> r]

\* The transactions of L1, one in a block: deposits, and a batch of each rollup.
Transactions == {Deposit(c) : c \in Content} \cup {Verified(r) : r \in Rollup}
Chains == {c \in [1..MaxBlocks -> Transactions] : IsInjective(c)}

DepositsOf(blocks, n) ==
  LET main[m \in 0..MaxBlocks] == IF m = 0 THEN <<>> ELSE main[m - 1] \o blocks[m].deposit
  IN  main[n]
MainnetDeposits(n) == DepositsOf(chain, n)
Exits(n) == [r \in Rollup |-> Cardinality({i \in 1..n : chain[i].verified = r})]
Ger(n) == [main |-> MainnetDeposits(n), rollups |-> Exits(n)]

\* The deposits of a rollup all look alike.
L2Tree(r, k) == [i \in 1..k |-> r]

ExitRoot(deposits) == RootOf([i \in DOMAIN deposits |-> Leaf(deposits[i])])

\* The leaf of rollup r: zero before its first deposit is verified.
LocalExitRoot(r, k) == IF k = 0 THEN ZeroHash[0] ELSE ExitRoot(L2Tree(r, k))

\* The rollup exit root, as the contract computes it.
RollupExitRoot(rollups) ==
  RootOf([r \in 1..Width[0] |->
            IF r \in Rollup THEN LocalExitRoot(r, rollups[r]) ELSE ZeroHash[0]])

-----------------------------------------------------------------------------
(***************************************************************************)
(* The tables.                                                             *)
(***************************************************************************)
\* Rollups 1 to Len(leaves) have their leaves in the rows of a batch, and the ids of a
\* batch are above those of the blocks before.
Batch(leaves, root, block) == [leaves |-> leaves, root |-> root, block |-> block]

\* The batches that have a row of rollup r.
With(rows, r) == {b \in rows : r \in DOMAIN b.leaves}

\* How many rollups have a row.
Rollups(rows) == Max({0} \cup {Len(b.leaves) : b \in rows})

\* Mutant: the first row of each rollup.
FirstLeaves(rows) ==
  [r \in 1..Rollups(rows) |->
     (CHOOSE b \in With(rows, r) : \A c \in With(rows, r) : b.block <= c.block).leaves[r]]

\* GetLatestRollupExitLeaves: the row with the highest id of each rollup.
LatestLeaves(rows) ==
  [r \in 1..Rollups(rows) |->
     (CHOOSE b \in With(rows, r) : \A c \in With(rows, r) : c.block <= b.block).leaves[r]]

\* IsRollupExitRoot
IsRollupExitRoot(rows, root) == \E b \in rows : b.root = root

\* GetRollupExitLeavesByRoot: storeLeaves stores a root once.
LeavesByRoot(rows, root) ==
  IF IsRollupExitRoot(rows, root) THEN (CHOOSE b \in rows : b.root = root).leaves ELSE <<>>

\* storeLeaves: a row for each leaf, unless the root is there already.
StoreLeaves(rows, leaves, block) ==
  LET root == BuildMTRoot(leaves)
  IN  IF IsRollupExitRoot(rows, root) THEN rows
      ELSE rows \cup {Batch(leaves, root, block)}

\* addRollupExitLeaf: the leaves up to r that are missing are zero.
AddRollupExitLeaf(rows, r, leaf, block) ==
  LET latest == LatestLeaves(rows)
  IN  StoreLeaves(rows, [i \in 1..Max({r, Len(latest)}) |->
                           IF i = r THEN leaf
                           ELSE IF i <= Len(latest) THEN latest[i] ELSE ZeroHash[0]], block)

\* s is how t begins.
Starts(s, t) == Len(s) <= Len(t) /\ s = SubSeq(t, 1, Len(s))

\* mt.root has the root of the L1 deposits ds.
IsMainnetRoot(ds) == ds # <<>> /\ Starts(ds, MainnetDeposits(synced))

\* GetL1ExitRootByGER
IsL1Ger(ger) == \E n \in 1..synced : Ger(n) = ger

\* GetLatestTrustedExitRoot: the row of the last root that is allowed, or 0.
LatestTrusted == Max({0} \cup {i \in DOMAIN gers : gers[i].allowed})

\* It can be used when it is complete, or L1 has the missing roots.
Usable(i) == i > 0 /\ (gers[i].full \/ IsL1Ger(gers[i].ger))

-----------------------------------------------------------------------------
(***************************************************************************)
(* The L1 synchronizer.                                                    *)
(***************************************************************************)
\* Mutant: the root of the rollup is not looked up.
AnyRoot(n) == TRUE

\* CheckIfRootExists, for a batch of the rollup that is synchronized: its root is
\* stored with the L2 deposit.  While it is not, the block is rolled back.
RootExists(n) == chain[n].verified = Synced => Exits(n)[Synced] <= made

\* Mutant: the rows of L2 are not looked up.
NoneIncomplete(ger) == {}

\* GetL2ExitRootsByGER: the rows of L2 that wait for this root.
Incomplete(ger) ==
  {i \in DOMAIN gers : gers[i].allowed /\ ~gers[i].full /\ gers[i].ger = ger}

\* processGlobalExitRoot reads these rows outside its transaction.
L1Begin ==
  /\ l1Tx = <<>> /\ synced < Len(chain)
  /\ RootExists(synced + 1)
  /\ l1Tx' = <<Incomplete(Ger(synced + 1))>>
  /\ UNCHANGED <<chain, synced, exits, known, reorgs, l2Vars, gers, ready, events>>

\* UpdateL2GER, AddGlobalExitRoot and AddRollupExitLeaf commit; the root is sent to the
\* managers when its rollup root differs from the one that was sent last.
L1Commit ==
  LET n == synced + 1
  IN  /\ l1Tx # <<>> /\ Cardinality(events) < MaxLate
      /\ l1Tx' = <<>> /\ synced' = n
      /\ exits' = LET r == chain[n].verified
                  IN  IF r = 0 THEN exits
                      ELSE AddRollupExitLeaf(exits, r, LocalExitRoot(r, Exits(n)[r]), n)
      /\ gers' = [i \in DOMAIN gers |->
                    IF i \in l1Tx[1] THEN [gers[i] EXCEPT !.full = TRUE] ELSE gers[i]]
      /\ known' = <<Exits(n)>>
      /\ events' = IF known = <<Exits(n)>> THEN events
                   ELSE events \cup {[ger |-> Ger(n), l1 |-> TRUE]}
      /\ UNCHANGED <<chain, reorgs, l2Vars, ready>>

\* The flags that are left when only n blocks are: those of L2 deposits all are.
FlagsUpTo(n) == {d \in ready : d[1] = 0 => d[2] <= Len(MainnetDeposits(n))}

\* The transactions after block n are mined again in another order, and the
\* synchronizer resets its tables to n; the flags of L2 deposits and what L2 stored stay.
Reorg(n, fork) ==
  /\ reorgs < MaxReorgs /\ l1Tx = <<>>
  /\ fork # chain /\ SubSeq(fork, 1, n) = SubSeq(chain, 1, n)
  /\ Range(fork) = Range(chain)
  /\ reorgs' = reorgs + 1
  /\ chain' = fork
  /\ synced' = Min({synced, n})
  /\ exits' = {b \in exits : b.block <= n}
  /\ ready' = FlagsUpTo(synced')
  /\ UNCHANGED <<l1Tx, known, l2Vars, gers, events>>

-----------------------------------------------------------------------------
(***************************************************************************)
(* The synchronizer of the sovereign L2.                                   *)
(***************************************************************************)
\* A deposit of L2 is stored.
L2Deposit ==
  /\ l2Pc = "idle" /\ made < L2Deposits
  /\ made' = made + 1
  /\ UNCHANGED <<l1Vars, l2Pc, l2Row, removals, gers, ready, events>>

\* Root n of L1 is inserted on L2, after the ones before it.  processGlobalExitRoot
\* reads, outside its transaction, whether L1 has its two roots.
L2Begin(n) ==
  /\ l2Pc = "idle" /\ Len(gers) < MaxRoots
  /\ \A i \in DOMAIN gers : \A m \in n..Len(chain) : gers[i].ger # Ger(m)
  /\ l2Pc' = "store"
  /\ l2Row' = <<[ger |-> Ger(n), full |-> IsL1Ger(Ger(n)), allowed |-> TRUE]>>
  /\ UNCHANGED <<l1Vars, made, removals, gers, ready, events>>

\* AddGlobalExitRoot commits.
L2Commit ==
  /\ l2Pc = "store"
  /\ l2Pc' = "announce" /\ l2Row' = <<>>
  /\ gers' = Append(gers, l2Row[1])
  /\ UNCHANGED <<l1Vars, made, removals, ready, events>>

\* The latest root is sent to the manager; when L1 does not have it yet this is an
\* error, and nothing is sent.
L2Announce ==
  /\ l2Pc = "announce" /\ Cardinality(events) < MaxLate
  /\ l2Pc' = "idle"
  /\ events' = IF Usable(LatestTrusted)
               THEN events \cup {[ger |-> gers[LatestTrusted].ger, l1 |-> FALSE]} ELSE events
  /\ UNCHANGED <<l1Vars, made, l2Row, removals, gers, ready>>

\* GetDepositCountByGER of row i: the L1 deposits its root covers, or none.
Found(i) == gers[i].full /\ IsMainnetRoot(gers[i].ger.main)

\* Mutant: no flag is reset.
NoneDisabled(i) == {}

\* The L1 deposits that AddRemoveL2GER makes not ready: those after the ones of the
\* row before, whether that one is allowed or not.
Disabled(i) ==
  {d \in 1..Len(MainnetDeposits(synced)) :
     /\ Found(i - 1) => d > Len(gers[i - 1].ger.main)
     /\ d <= Len(gers[i].ger.main)}

\* The root of row i is removed on L2.
L2Remove(i) ==
  /\ l2Pc = "idle" /\ removals < MaxRemovals
  /\ i > 1 /\ gers[i].allowed /\ Found(i)
  /\ removals' = removals + 1
  /\ gers' = [gers EXCEPT ![i].allowed = FALSE]
  /\ ready' = ready \ ({0} \X Disabled(i))
  /\ UNCHANGED <<l1Vars, made, l2Pc, l2Row, events>>

\* A root is removed that has no row before it, or whose last L1 deposit is not found
\* (MaxUint64 in its place is no id of a deposit): an error, and the block is rolled back
\* and tried again, for ever or until L2Remove, when L1 has stored the deposit.
L2RemoveRefused ==
  /\ l2Pc = "idle" /\ removals < MaxRemovals
  /\ \E i \in DOMAIN gers : gers[i].allowed /\ (i = 1 \/ ~Found(i))
  /\ removals' = removals + 1
  /\ l2Pc' = "refused"
  /\ UNCHANGED <<l1Vars, made, l2Row, gers, ready, events>>

-----------------------------------------------------------------------------
(***************************************************************************)
(* The goroutines of the manager.                                          *)
(***************************************************************************)
\* UpdateL2DepositsStatus: the L2 deposits of the leaf stored with the rollup root.
CoveredL2(ger) ==
  LET leaves == LeavesByRoot(exits, RollupExitRoot(ger.rollups))
  IN  {k \in 1..made : Synced \in DOMAIN leaves
                       /\ \E n \in k..made : leaves[Synced] = LocalExitRoot(Synced, n)}

\* Mutant: the last deposit is left out.
CoveredBelow(ger) == IF IsMainnetRoot(ger.main) THEN 1..(Len(ger.main) - 1) ELSE {}

\* UpdateL1DepositsStatus: the L1 deposits up to the one stored with the root.
CoveredL1(ger) == IF IsMainnetRoot(ger.main) THEN 1..Len(ger.main) ELSE {}

\* processDepositStatus: what the root covers is ready; nothing, when the root is not
\* in the tables (any more).  Or the root is lost: it came before both networks were
\* synced, a later one took its place before a goroutine read it, or an error rolled the
\* transaction back, as the proof of an L1 deposit that is to be claimed in it does when
\* L1 has no row for the root any more.  None of them is tried again.
Process(e) ==
  /\ e \in events
  /\ events' = events \ {e}
  /\ \/ ready' = ready \cup (IF e.l1 THEN {Synced} \X CoveredL2(e.ger)
                                     ELSE {0} \X CoveredL1(e.ger))
     \/ UNCHANGED ready
  /\ UNCHANGED <<l1Vars, l2Vars, gers>>

-----------------------------------------------------------------------------
(***************************************************************************)
(* The server, which changes nothing: what GetClaimProof answers for the   *)
(* deposit d of a network, <<network, number>>, when it is ready.          *)
(***************************************************************************)
ContentOf(d) == IF d[1] = 0 THEN MainnetDeposits(synced)[d[2]] ELSE Synced

\* mt.rht: the nodes of both deposit trees.
Rht == AddAll(EmptyTree, MainnetDeposits(synced)).rht
       \cup AddAll(EmptyTree, L2Tree(Synced, made)).rht

\* getProof, and what its result is worth to whoever asked.
Prove(root, d) ==
  LET index == d[2] - 1
  IN  IF ~WayStored(Rht, root, index) THEN "error"
      ELSE IF CalculateRoot(Leaf(ContentOf(d)), GetProof(Rht, root, index), index) = root
      THEN "good" ELSE "bad"

\* Mutant: the index of the rollup is its id.
RollupIdAsIndex == Synced

\* networkID-1
RollupIndex == Synced - 1

\* getRollupExitProof, then getProof.
ProveRollup(root, d) ==
  LET leaves == LeavesByRoot(exits, root)
  IN  IF OutOfRange(RollupIndex, leaves) THEN "panic"
      ELSE IF BuildMTRoot(leaves) # root \/ Len(leaves) <= RollupIndex THEN "error"
      ELSE IF CalculateRoot(leaves[RollupIndex + 1], ComputeSiblings(RollupIndex, leaves),
                            RollupIndex) # root
      THEN "bad"
      ELSE Prove(leaves[RollupIndex + 1], d)

\* GetLatestExitRoot and the proof against it; "unsynced" when L1 does not have the
\* latest root of L2 yet.
Proof(d) ==
  IF d[1] = 0
  THEN IF Usable(LatestTrusted) THEN Prove(ExitRoot(gers[LatestTrusted].ger.main), d)
       ELSE "unsynced"
  ELSE IF synced > 0 THEN ProveRollup(RollupExitRoot(Exits(synced)), d) ELSE "error"

-----------------------------------------------------------------------------
Init ==
  /\ chain \in Chains
  /\ synced = 0 /\ exits = {} /\ l1Tx = <<>> /\ known = <<>> /\ reorgs = 0
  /\ made = 0 /\ l2Pc = "idle" /\ l2Row = <<>> /\ removals = 0
  /\ gers = <<>> /\ ready = {} /\ events = {}

Next ==
  \/ L1Begin \/ L1Commit
  \/ \E n \in 0..(MaxBlocks - 1), fork \in Chains : Reorg(n, fork)
  \/ L2Deposit
  \/ \E n \in DOMAIN chain : L2Begin(n)
  \/ L2Commit \/ L2Announce
  \/ \E i \in DOMAIN gers : L2Remove(i)
  \/ L2RemoveRefused
  \/ \E e \in events : Process(e)

\* The synchronizers run for ever; a root is dropped or its goroutine runs to its end.  Only
\* L1Commit closes an L1 transaction and only Process takes an event, so that the
\* fairness of the two is stated by these effects.
Fairness ==
  /\ WF_vars(L1Begin)
  /\ WF_l1Tx(l1Tx # <<>> /\ Cardinality(events) < MaxLate /\ l1Tx' = <<>>)
  /\ WF_vars(L2Deposit) /\ WF_vars(L2Commit) /\ WF_vars(L2Announce)
  /\ WF_events(\E e \in events : events' = events \ {e})

Spec == Init /\ [][Next]_vars /\ Fairness

-----------------------------------------------------------------------------
\* Every variable has its type, and the rows and flags that a reorganisation of L1
\* leaves belong to blocks and deposits that still are stored (Reset).
TypeOK ==
  /\ chain \in Chains /\ synced \in 0..MaxBlocks
  /\ \A b \in exits : b.block \in 1..synced
  /\ made \in 0..L2Deposits
  /\ ready \subseteq ({0} \X (1..Len(MainnetDeposits(synced)))) \cup ({Synced} \X (1..made))
  /\ l1Tx # <<>> => l1Tx[1] \subseteq DOMAIN gers
  /\ l2Pc \in {"idle", "store", "announce", "refused"}
  /\ (l2Row # <<>>) = (l2Pc = "store")
=============================================================================
