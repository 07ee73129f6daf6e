---------------------------- MODULE ClaimManager ----------------------------
(***************************************************************************)
(* The claim transaction managers (claimtxman/xlayer_claimtxman.go and     *)
(* xlayer_claimtxman_helpers.go), one per L2 network of the process.  Each *)
(* receives the exit roots its synchronizers announce and starts a         *)
(* goroutine that marks the deposits the root covers as ready and adds the *)
(* row of their claim transaction.                                         *)
(*                                                                         *)
(* The goroutine shares the variable ger with the loop that started it and *)
(* reads it when it gets to run.                                           *)
(***************************************************************************)
EXTENDS Integers, FiniteSets, Bags

CONSTANTS
  Network,      \* the L2 networks with a manager
  NumRoots,     \* the global exit roots are 1..NumRoots, in the order of L1
  L1Deposit,    \* the deposits made on L1, numbered from 1
  Dest,         \* Dest[d]: the destination network of L1 deposit d, served or not
  Mainnet,      \* Mainnet[r]: how many L1 deposits root r covers
  Rollup,       \* Rollup[r][n]: how many deposits of L2 n root r covers
  MaxFaults     \* bound on the failures and crashes of a behaviour

Root == 0..NumRoots
\* A root announced by the L1 synchronizer (BlockID # 0) or by the trusted sync of
\* the L2 (BlockID = 0).
Event == [root : Root, fromL1 : BOOLEAN]

ASSUME RootAssumption ==
  /\ NumRoots \in Nat /\ MaxFaults \in Nat
  /\ L1Deposit \subseteq Nat \ {0} /\ DOMAIN Dest = L1Deposit
  /\ Mainnet \in [Root -> Nat] /\ Rollup \in [Root -> [Network -> Nat]]
  /\ Mainnet[0] = 0 /\ \A n \in Network : Rollup[0][n] = 0
  /\ \A r, s \in Root : r <= s =>
       Mainnet[r] <= Mainnet[s] /\ \A n \in Network : Rollup[r][n] <= Rollup[s][n]

VARIABLES
  optClaim,  \* the flag optClaim: one transaction per deposit
  grouping,  \* cfg.GroupingClaims.Enabled
  l1Seen,    \* l1Seen[n]: the last root the L1 synchronizer sent to manager n
  l2Seen,    \* l2Seen[n]: the last root the trusted sync of n sent
  synced,    \* synced[n]: which of l1Synced and l2Synced are set
  ger,       \* ger[n]: the variable ger of the loop
  latest,    \* latest[n]: latestProcessedGer
  spawned,   \* spawned[n]: goroutines that have not read ger yet
  jobs,      \* jobs[n]: the bag of events that goroutines have read
  lists,     \* the deposits listed by the lists of updateDepositsL1Mutex
  ready1,    \* L1 deposits with ready_for_claim
  ready2,    \* ready2[n]: how many deposits of L2 n have ready_for_claim
  rows,      \* L1 deposits with a row in sync.monitored_txs
  ignored,   \* L1 deposits their manager decided not to claim
  dropped,   \* L1 deposits whose claim no gas was estimated for
  claimed,   \* L1 deposits claimed on their destination, by anybody
  faults     \* how many failures the behaviour still has

cfgVars  == <<optClaim, grouping>>
seenVars == <<l1Seen, l2Seen>>
loopVars == <<synced, ger, latest>>
jobVars  == <<spawned, jobs, lists>>
dbVars   == <<ready1, ready2, rows, ignored, dropped>>
vars == <<cfgVars, seenVars, loopVars, jobVars, dbVars, claimed, faults>>

NoEvent == [root |-> 0, fromL1 |-> FALSE]

-----------------------------------------------------------------------------
(***************************************************************************)
(* The loop of StartXLayer.                                                *)
(***************************************************************************)
BothSynced(n) == synced[n] = {"l1", "l2"}

Spawn(n) == spawned' = [spawned EXCEPT ![n] = @ + 1]

Synced(n, net) ==
  /\ net \notin synced[n]
  /\ synced' = [synced EXCEPT ![n] = @ \cup {net}]
  /\ UNCHANGED <<cfgVars, seenVars, ger, latest, jobVars, dbVars, claimed, faults>>

\* case ger = <-tm.chExitRootEvent.
Receive(n, e) ==
  /\ ger' = [ger EXCEPT ![n] = e]
  /\ IF BothSynced(n) /\ ~grouping THEN Spawn(n) ELSE UNCHANGED spawned
  /\ UNCHANGED <<cfgVars, synced, latest, jobs, lists, dbVars, claimed, faults>>

\* The L1 synchronizer announces its latest root if the rollup root of it is new.
L1Root(n, r) ==
  /\ r > l1Seen[n] /\ Rollup[r] # Rollup[l1Seen[n]]
  /\ l1Seen' = [l1Seen EXCEPT ![n] = r]
  /\ Receive(n, [root |-> r, fromL1 |-> TRUE])
  /\ UNCHANGED l2Seen

\* The L2 synchronizer, once synced, announces the roots of the trusted node.
TrustedRoot(n, r) ==
  /\ "l2" \in synced[n] /\ r > l2Seen[n]
  /\ l2Seen' = [l2Seen EXCEPT ![n] = r]
  /\ Receive(n, [root |-> r, fromL1 |-> FALSE])
  /\ UNCHANGED l1Seen

\* case <-compressorTicker.C.
CompressorTick(n) ==
  /\ BothSynced(n) /\ grouping
  /\ ger[n].root # latest[n]
  /\ latest' = [latest EXCEPT ![n] = ger[n].root]
  /\ Spawn(n)
  /\ UNCHANGED <<cfgVars, seenVars, synced, ger, jobs, lists, dbVars, claimed, faults>>

-----------------------------------------------------------------------------
(***************************************************************************)
(* The goroutines: updateDepositsStatusXLayer.                             *)
(***************************************************************************)
Done(n, e) == jobs' = [jobs EXCEPT ![n] = @ (-) SetToBag({e})]

\* The goroutine gets to run and evaluates its argument.
ReadGer(n) ==
  /\ spawned[n] > 0
  /\ spawned' = [spawned EXCEPT ![n] = @ - 1]
  /\ jobs' = [jobs EXCEPT ![n] = @ (+) SetToBag({ger[n]})]
  /\ UNCHANGED <<cfgVars, seenVars, loopVars, lists, dbVars, claimed, faults>>

\* Mutants: every event is taken for one of the trusted state, or of L1.
NoEventFromL1(e) == FALSE
EveryEventFromL1(e) == TRUE

\* ger.BlockID # 0: the L2 exit root is updated.
FromL1(e) == e.fromL1

\* UpdateL2DepositsStatusXLayer, in a transaction of its own.
UpdateL2(n, e) ==
  /\ BagIn(e, jobs[n]) /\ FromL1(e)
  /\ ready2' = [ready2 EXCEPT ![n] = IF @ < Rollup[e.root][n] THEN Rollup[e.root][n] ELSE @]
  /\ Done(n, e)
  /\ UNCHANGED <<cfgVars, seenVars, loopVars, spawned, lists, ready1, rows, ignored,
                 dropped, claimed, faults>>

\* GetL1Deposits: the L1 deposits under the root that are not ready.
GetL1Deposits(r) == {d \in L1Deposit : d <= Mainnet[r]} \ ready1

\* Mutant: the deposit is made ready and its row is forgotten.
ReadyWithoutRow(n, D) ==
  /\ ready1' = ready1 \cup D
  /\ UNCHANGED <<rows, ignored, dropped>>

\* addClaimTxXLayer for the deposits of S: a row for each, but for those, E, whose gas
\* estimation still fails, or reverts, at the last try: the error is not returned.
AddClaimTx(S) ==
  \E E \in SUBSET S :
    /\ rows' = rows \cup (S \ E)
    /\ dropped' = dropped \cup E

\* Manager n marks the deposits of D as ready, whichever network they go to, and adds a
\* row for each that goes to its own, unless it is claimed already or is a message of an
\* address that is not authorized, R.
QueueClaims(n, D) ==
  LET mine == {d \in D : Dest[d] = n}
  IN  \E R \in SUBSET (mine \ claimed) :
        /\ ready1' = ready1 \cup D
        /\ ignored' = ignored \cup (mine \cap (claimed \cup R))
        /\ AddClaimTx(mine \ (claimed \cup R))

\* processDepositStatusXLayer: all deposits of the root in one transaction.
UpdateL1(n, e) ==
  /\ ~optClaim
  /\ BagIn(e, jobs[n]) /\ ~FromL1(e)
  /\ QueueClaims(n, GetL1Deposits(e.root))
  /\ Done(n, e)
  /\ UNCHANGED <<cfgVars, seenVars, loopVars, spawned, lists, ready2, claimed, faults>>

\* Mutant: the list is made without the lock.
Unlocked == TRUE

\* updateDepositsL1Mutex, shared by all managers of the process.
LockFree == lists = {}

\* processDepositStatusL1: the deposits are listed once the lock is taken ...
LockL1(n, e) ==
  /\ optClaim /\ LockFree
  /\ BagIn(e, jobs[n]) /\ ~FromL1(e)
  /\ lists' = lists \cup {[mgr |-> n, todo |-> GetL1Deposits(e.root)]}
  /\ Done(n, e)
  /\ UNCHANGED <<cfgVars, seenVars, loopVars, spawned, dbVars, claimed, faults>>

\* ... and each is processed in a transaction of its own.
QueueOne(l, d) ==
  /\ d \in l.todo
  /\ QueueClaims(l.mgr, {d})
  /\ lists' = (lists \ {l}) \cup {[l EXCEPT !.todo = @ \ {d}]}
  /\ UNCHANGED <<cfgVars, seenVars, loopVars, spawned, jobs, ready2, claimed, faults>>

UnlockL1(l) ==
  /\ l.todo = {}
  /\ lists' = lists \ {l}
  /\ UNCHANGED <<cfgVars, seenVars, loopVars, spawned, jobs, dbVars, claimed, faults>>

\* A query or the L2 node fails: the transaction is rolled back, the error is
\* logged, and the goroutine ends with what is left of its work.
JobFails(n, e) ==
  /\ faults > 0 /\ BagIn(e, jobs[n])
  /\ faults' = faults - 1
  /\ Done(n, e)
  /\ UNCHANGED <<cfgVars, seenVars, loopVars, spawned, lists, dbVars, claimed>>

QueueOneFails(l) ==
  /\ faults > 0
  /\ faults' = faults - 1
  /\ lists' = lists \ {l}
  /\ UNCHANGED <<cfgVars, seenVars, loopVars, spawned, jobs, dbVars, claimed>>

-----------------------------------------------------------------------------
(***************************************************************************)
(* The environment.                                                        *)
(***************************************************************************)
Started ==
  /\ synced' = [n \in Network |-> {}]
  /\ ger' = [n \in Network |-> NoEvent]
  /\ latest' = [n \in Network |-> 0]
  /\ spawned' = [n \in Network |-> 0]
  /\ jobs' = [n \in Network |-> EmptyBag]
  /\ lists' = {}

\* The process dies (also by log.Fatalf when a commit fails) and is started again;
\* its synchronizers take the roots they stored for sent.
Crash ==
  /\ faults > 0
  /\ faults' = faults - 1
  /\ Started
  /\ UNCHANGED <<cfgVars, seenVars, dbVars, claimed>>

\* The destination is a network of the process and has a root that covers the deposit.
Covered(d) == Dest[d] \in Network /\ d <= Mainnet[l2Seen[Dest[d]]]

\* Anybody may claim a deposit once its destination has a root that covers it.
UserClaim(d) ==
  /\ d \notin claimed /\ Covered(d)
  /\ claimed' = claimed \cup {d}
  /\ UNCHANGED <<cfgVars, seenVars, loopVars, jobVars, dbVars, faults>>

Init ==
  /\ optClaim \in BOOLEAN /\ grouping \in BOOLEAN
  /\ l1Seen = [n \in Network |-> 0] /\ l2Seen = [n \in Network |-> 0]
  /\ synced = [n \in Network |-> {}]
  /\ ger = [n \in Network |-> NoEvent]
  /\ latest = [n \in Network |-> 0]
  /\ spawned = [n \in Network |-> 0]
  /\ jobs = [n \in Network |-> EmptyBag]
  /\ lists = {}
  /\ ready1 = {} /\ ready2 = [n \in Network |-> 0]
  /\ rows = {} /\ ignored = {} /\ dropped = {} /\ claimed = {}
  /\ faults = MaxFaults

\* What the process does by itself once an event has arrived.
ManagerStep ==
  \/ \E n \in Network :
       \/ CompressorTick(n) \/ ReadGer(n)
       \/ \E e \in BagToSet(jobs[n]) : UpdateL2(n, e) \/ UpdateL1(n, e) \/ LockL1(n, e)
  \/ \E l \in lists : UnlockL1(l) \/ \E d \in L1Deposit : QueueOne(l, d)

Next ==
  \/ ManagerStep
  \/ \E n \in Network :
       \/ \E net \in {"l1", "l2"} : Synced(n, net)
       \/ \E r \in Root : L1Root(n, r) \/ TrustedRoot(n, r)
       \/ \E e \in BagToSet(jobs[n]) : JobFails(n, e)
  \/ \E l \in lists : QueueOneFails(l)
  \/ \E d \in L1Deposit : UserClaim(d)
  \/ Crash

Spec == Init /\ [][Next]_vars

-----------------------------------------------------------------------------
\* Types of the managers' state.
TypeOK ==
  /\ {optClaim, grouping} \subseteq BOOLEAN
  /\ l1Seen \in [Network -> Root] /\ l2Seen \in [Network -> Root]
  /\ synced \in [Network -> SUBSET {"l1", "l2"}]
  /\ ger \in [Network -> Event] /\ latest \in [Network -> Root]
  /\ spawned \in [Network -> Nat]
  /\ \A n \in Network : BagToSet(jobs[n]) \subseteq Event
  /\ lists \subseteq [mgr : Network, todo : SUBSET L1Deposit]
  /\ {ready1, rows, ignored, dropped, claimed} \subseteq SUBSET L1Deposit
  /\ ready2 \in [Network -> Nat]
  /\ faults \in 0..MaxFaults

\* A claim is queued only when the destination network has a root that covers the deposit,
\* whichever events arrived, in whichever order, before the goroutine ran, and whichever
\* manager had the deposit in its list (processDepositStatusXLayer): the claim can be proved.
QueuedOnDestination == \A d \in rows : Covered(d)

\* An L2 deposit is ready only when L1 has a rollup root that covers it.
ReadyOnL1 == \A n \in Network : ready2[n] <= Rollup[l1Seen[n]][n]

\* A deposit that is ready, hence skipped by every later root (GetL1Deposits selects
\* ready_for_claim = false), has a row, unless its manager decided not to claim it, no gas
\* was estimated for its claim (xlayer_claimtxman_helpers.go, lines 352-355), or the manager
\* of another network was first: no other failure and no crash leaves it without one.
ReadyIsQueued ==
  \A d \in ready1 \ (rows \cup ignored \cup dropped) :
    \E n \in Network : n # Dest[d] /\ d <= Mainnet[l2Seen[n]]

\* The list of deposits a goroutine works through stays true while it does: none of
\* them is made ready, or gets a row, by anybody else (updateDepositsL1Mutex), so
\* the primary key of monitored_txs never refuses the row.
ListIsFresh == \A l \in lists : l.todo \cap (ready1 \cup rows) = {}

-----------------------------------------------------------------------------
\* What a goroutine has read, and what the loop holds, was announced before.
Announced ==
  \A n \in Network : \A e \in BagToSet(jobs[n]) \cup {ger[n]} :
    e.root <= IF e.fromL1 THEN l1Seen[n] ELSE l2Seen[n]

\* The inductive invariant behind the properties: an event in flight is never ahead
\* of what its synchronizer announced, however late the goroutine reads ger; at
\* most one goroutine holds the mutex; what it has listed its network covers and is
\* still to be done.
IInv ==
  /\ TypeOK /\ jobs = [n \in Network |-> jobs[n]]
  /\ Announced
  /\ \A l, m \in lists : l = m
  /\ lists # {} => optClaim
  /\ \A l \in lists : \A d \in l.todo : d <= Mainnet[l2Seen[l.mgr]]
  /\ rows \subseteq ready1 /\ QueuedOnDestination /\ ReadyIsQueued
  /\ ListIsFresh /\ ReadyOnL1
=============================================================================
