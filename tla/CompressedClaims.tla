-------------------------- MODULE CompressedClaims --------------------------
(***************************************************************************)
(* The claim transaction manager with grouped claims                       *)
(* (claimtxman/monitor_compressed_txs.go, pending_txs.go, groups_trigger.go*)
(* and store_changes.go): every cycle loads the pending rows, sends the    *)
(* claim of each group, looks at receipts, gives up on old transactions,   *)
(* makes a new group and writes everything back.  The whole cycle is one   *)
(* database transaction, but what it sends to the chain cannot be undone.  *)
(***************************************************************************)
EXTENDS Integers, Sequences, FiniteSets

CONSTANTS
  Deposit,
  GlobalExitRoot,             \* GlobalExitRoot[d]: the root d is proved with
  TriggerNumberOfClaims,
  MaxNumberOfClaimsPerGroup,
  TriggerRetainedClaimPeriod, \* the periods are in ticks
  MaxRetries,
  RetryInterval,
  RetryTimeout,
  MaxAge,                     \* ages stop here, above every period
  MaxFaults                   \* bound on the failures of a behaviour

ASSUME ConfigAssumption ==
  /\ {TriggerNumberOfClaims, MaxNumberOfClaimsPerGroup, MaxRetries, MaxFaults} \subseteq Nat
  /\ {TriggerRetainedClaimPeriod, RetryInterval, RetryTimeout, MaxAge} \subseteq Nat
  /\ TriggerRetainedClaimPeriod < MaxAge /\ RetryTimeout < MaxAge /\ RetryInterval <= MaxAge

VARIABLES
  queue,     \* the rows of sync.monitored_txs by created_at
  txStatus,  \* their status
  groupOf,   \* their group_id, or 0
  groups,    \* the rows of sync.monitored_txs_group by group_id
  age,       \* time since created_at of each row
  chain,     \* the transactions sent: what they claim, their fate and age
  claimed,   \* the deposits claimed on the destination network
  pc,        \* where MonitorTxs is
  todo,      \* the groups the current loop still has to visit
  work,      \* the groups as changed by this cycle
  cand,      \* TxCandidatesForGroup
  faults     \* how many failures the behaviour still has

dbVars    == <<queue, txStatus, groupOf, groups>>
chainVars == <<chain, claimed>>
cycleVars == <<pc, todo, work, cand>>
vars == <<dbVars, age, chainVars, cycleVars, faults>>

Final == {"confirmed", "failed"}

-----------------------------------------------------------------------------
(***************************************************************************)
(* The environment: the manager of deposits adds rows, transactions are    *)
(* mined, time passes.                                                     *)
(***************************************************************************)
AddClaimTx(d) ==
  /\ txStatus[d] = "none"
  /\ txStatus' = [txStatus EXCEPT ![d] = "created"]
  /\ queue' = Append(queue, d)
  /\ UNCHANGED <<groupOf, groups, age, chainVars, cycleVars, faults>>

\* A transaction is mined.  The contract goes on after a claim of the call that fails, so
\* any of the deposits not claimed before may be claimed, S.  A call that claims none has
\* failed or has no logs; one that claims some has logs and counts as successful.
Mine(t) ==
  /\ chain[t].fate = "pool"
  /\ \E S \in SUBSET (chain[t].deposits \ claimed) :
       /\ claimed' = claimed \cup S
       /\ chain' = [chain EXCEPT ![t].fate = IF S = {} THEN "failed" ELSE "claimed"]
  /\ UNCHANGED <<dbVars, age, cycleVars, faults>>

Older(n) == IF n < MaxAge THEN n + 1 ELSE n

\* Time passes.  A cycle is short compared with the periods, and the age of a row
\* is of no use once it is in a group.
Tick ==
  /\ pc = "idle"
  /\ age' = [d \in Deposit |-> IF txStatus[d] = "created" /\ groupOf[d] = 0
                               THEN Older(age[d]) ELSE 0]
  /\ chain' = [t \in DOMAIN chain |-> [chain[t] EXCEPT !.age = Older(@)]]
  /\ UNCHANGED <<dbVars, claimed, cycleVars, faults>>

-----------------------------------------------------------------------------
(***************************************************************************)
(* getPendingTxs.                                                          *)
(***************************************************************************)
\* GetClaimTxsByStatus: the rows that are still worked on, and their order.
GetClaimTxsByStatus == {d \in Deposit : txStatus[d] = "created"}

Before(d, e) == \E m, n \in DOMAIN queue : m < n /\ queue[m] = d /\ queue[n] = e

Oldest(d) == d \in GetClaimTxsByStatus /\ \A e \in GetClaimTxsByStatus : ~Before(e, d)

\* Mutant: rows of every global exit root are candidates.
AnyGer(d) == groupOf[d] = 0

\* Only rows with the root of the oldest row can be grouped.  (A row has no history
\* of its own: grouping was enabled before it was added.)
IsCandidateToBeGrouped(d) ==
  /\ groupOf[d] = 0
  /\ \E e \in Deposit : Oldest(e) /\ GlobalExitRoot[d] = GlobalExitRoot[e]

\* The groups with a row that is still worked on.
Pending == {groupOf[d] : d \in GetClaimTxsByStatus} \ {0}

\* c lists the candidates, oldest first.
Candidates(c) ==
  /\ {c[i] : i \in DOMAIN c} = {d \in GetClaimTxsByStatus : IsCandidateToBeGrouped(d)}
  /\ \A i, j \in DOMAIN c : i < j => Before(c[i], c[j])

GetPendingTxs ==
  /\ pc = "idle"
  /\ \E n \in 0..Len(queue) : \E c \in [1..n -> Deposit] :
       /\ Candidates(c)
       /\ \/ /\ Pending = {} /\ c = << >>
             /\ UNCHANGED cycleVars
          \/ /\ Pending # {} \/ c # << >>
             /\ cand' = c
             /\ work' = groups
             /\ todo' = Pending
             /\ pc' = "send"
  /\ UNCHANGED <<dbVars, age, chainVars, faults>>

-----------------------------------------------------------------------------
(***************************************************************************)
(* Process.                                                                *)
(***************************************************************************)
History(g) == work[g].history
PendingTxs(g) == {i \in DOMAIN History(g) : History(g)[i].receipt = "pending"}
LastSent(g) == chain[History(g)[Len(History(g))].tx]

\* RetryInterval has passed since the last claim, and there are retries left.
MayRetry(g) == work[g].retries < MaxRetries /\ LastSent(g).age >= RetryInterval

\* Mutant: transactions that are pending do not hold back a new one.
CanSendImpatiently(g) ==
  IF work[g].status = "created" \/ History(g) = << >> THEN TRUE ELSE MayRetry(g)

CanSendNewClaimCall(g) ==
  IF work[g].status = "created" \/ History(g) = << >> THEN TRUE
  ELSE PendingTxs(g) = {} /\ MayRetry(g)

\* The call is with the node.
Call(g) == Append(chain, [deposits |-> groups[g].deposits, fate |-> "pool", age |-> 0])

\* Mutant: the retry is not counted.
SendUncounted(g) ==
  /\ chain' = Call(g)
  /\ work' = [work EXCEPT ![g].status = "claiming",
                ![g].history = Append(@, [tx |-> Len(chain) + 1, receipt |-> "pending"])]

\* A claim is sent: the chain has it at once, the history gets it in memory.
Send(g) ==
  /\ chain' = Call(g)
  /\ work' = [work EXCEPT ![g].status = "claiming", ![g].retries = @ + 1,
                ![g].history = Append(@, [tx |-> Len(chain) + 1, receipt |-> "pending"])]

SendClaims ==
  /\ pc = "send"
  /\ \/ \E g \in todo :
          /\ todo' = todo \ {g}
          /\ pc' = pc
          /\ \/ ~CanSendNewClaimCall(g) /\ UNCHANGED <<chain, work, faults>>
             \/ CanSendNewClaimCall(g) /\ Send(g) /\ UNCHANGED faults
             \* Gas estimation or the call fails: nothing is counted, though the node may
             \* have taken the call before its answer was lost.
             \/ /\ CanSendNewClaimCall(g) /\ faults > 0
                /\ faults' = faults - 1
                /\ chain' \in {chain, Call(g)}
                /\ UNCHANGED work
     \/ /\ todo = {}
        /\ todo' = Pending /\ pc' = "receipts"
        /\ UNCHANGED <<chain, work, faults>>
  /\ UNCHANGED <<dbVars, age, claimed, cand>>

\* Mutant: any receipt confirms the group.
AnyReceipt(t) == chain[t].fate # "pool"

\* The receipt is successful and has logs.
ReceiptOk(t) == chain[t].fate = "claimed"

\* OnFinishClaimGroupTxFailed for the entries in F, then
\* OnFinishClaimGroupTxSuccessful for those in S (at most one).
Finish(g, F, S) ==
  [g EXCEPT !.history = [i \in DOMAIN @ |->
                IF i \in S THEN [@[i] EXCEPT !.receipt = "successful"]
                ELSE IF i \in F THEN [@[i] EXCEPT !.receipt = "failed"] ELSE @[i]],
            !.status = IF S # {} THEN "confirmed" ELSE @]

\* CheckReceipts: the pending entries of a claiming group in order, up to the
\* first that succeeded.  The node answers for the entries in R.
CheckReceipts ==
  /\ pc = "receipts"
  /\ \/ \E g \in todo :
          /\ todo' = todo \ {g}
          /\ pc' = pc
          /\ \E R \in IF work[g].status = "claiming" THEN SUBSET PendingTxs(g) ELSE {{}} :
               LET mined == {i \in R : chain[History(g)[i].tx].fate # "pool"}
                   good == {i \in mined : ReceiptOk(History(g)[i].tx)}
                   first == {i \in good : \A j \in good : i <= j}
                   bad == {i \in mined \ good : \A j \in first : i < j}
               IN  work' = [work EXCEPT ![g] = Finish(@, bad, first)]
     \/ /\ todo = {}
        /\ todo' = {} /\ pc' = "outdate"
        /\ UNCHANGED work
  /\ UNCHANGED <<dbVars, age, chainVars, cand, faults>>

IsExhausted(t) == chain[t].age > RetryTimeout

\* Mutant: a group that used up its retries is left as it is.
OutdatedForever(g) ==
  IF work[g].status # "claiming" THEN work[g]
  ELSE Finish(work[g], {i \in PendingTxs(g) : IsExhausted(History(g)[i].tx)}, {})

\* Mutant: a group fails when it has one retry left.
OutdatedEarly(g) ==
  LET old == IF work[g].status # "claiming" THEN work[g]
             ELSE Finish(work[g], {i \in PendingTxs(g) : IsExhausted(History(g)[i].tx)}, {})
  IN  IF old.retries + 1 >= MaxRetries THEN [old EXCEPT !.status = "failed"] ELSE old

\* Entries older than the timeout count as failed, and a group that has used up
\* its retries fails, whatever its status is by then.
Outdated(g) ==
  LET old == IF work[g].status # "claiming" THEN work[g]
             ELSE Finish(work[g], {i \in PendingTxs(g) : IsExhausted(History(g)[i].tx)}, {})
  IN  IF old.retries >= MaxRetries THEN [old EXCEPT !.status = "failed"] ELSE old

OutdateClaims ==
  /\ pc = "outdate"
  /\ work' = [g \in DOMAIN work |-> IF g \in Pending THEN Outdated(g) ELSE work[g]]
  /\ pc' = "create"
  /\ UNCHANGED <<dbVars, age, chainVars, todo, cand, faults>>

Triggered ==
  \/ \E i \in DOMAIN cand : age[cand[i]] > TriggerRetainedClaimPeriod
  \/ Len(cand) >= TriggerNumberOfClaims

\* chooseGroupTx: a limit of 0 is no limit.
ChooseGroupTx ==
  IF MaxNumberOfClaimsPerGroup \in 1..Len(cand)
  THEN SubSeq(cand, 1, MaxNumberOfClaimsPerGroup) ELSE cand

NewGroup(S) == [deposits |-> S, status |-> "created", history |-> << >>, retries |-> 0]

CreateNewGroups ==
  /\ pc = "create"
  /\ pc' = "commit"
  /\ \/ /\ ~Triggered \/ cand = << >>
        /\ UNCHANGED work
     \/ /\ Triggered /\ cand # << >>
        /\ work' = Append(work, NewGroup({ChooseGroupTx[i] : i \in DOMAIN ChooseGroupTx}))
  /\ UNCHANGED <<dbVars, age, chainVars, todo, cand, faults>>

-----------------------------------------------------------------------------
(***************************************************************************)
(* GenerateStoreUpdate, StoreChanges.Execute and Commit: the groups and    *)
(* the rows of the groups.  A row has the status of its group when that is *)
(* final.  The cycle ends; an error anywhere before rolls all of it back.  *)
(***************************************************************************)
EndCycle == pc' = "idle" /\ todo' = {} /\ work' = << >> /\ cand' = << >>

GroupIn(S, d) == {g \in DOMAIN S : d \in S[g].deposits}

\* group_id of the row after the cycle.
NewGroupOf(d) ==
  IF groupOf[d] = 0 /\ GroupIn(work, d) # {} THEN Len(work) ELSE groupOf[d]

Commit ==
  /\ pc = "commit"
  /\ groups' = work
  /\ groupOf' = [d \in Deposit |-> NewGroupOf(d)]
  /\ txStatus' = [d \in Deposit |->
       IF groupOf[d] \in Pending /\ work[groupOf[d]].status \in Final
       THEN work[groupOf[d]].status ELSE txStatus[d]]
  /\ EndCycle
  /\ UNCHANGED <<queue, age, chainVars, faults>>

\* A query, the call that compresses the claims, or the commit fails, or the
\* process dies: the database is as it was, the chain is not.
Rollback ==
  /\ pc # "idle" /\ faults > 0
  /\ faults' = faults - 1
  /\ EndCycle
  /\ UNCHANGED <<dbVars, age, chainVars>>

-----------------------------------------------------------------------------
Init ==
  /\ queue = << >>
  /\ txStatus = [d \in Deposit |-> "none"]
  /\ groupOf = [d \in Deposit |-> 0]
  /\ groups = << >>
  /\ age = [d \in Deposit |-> 0]
  /\ chain = << >> /\ claimed = {}
  /\ pc = "idle" /\ todo = {} /\ work = << >> /\ cand = << >>
  /\ faults = MaxFaults

MonitorTxs ==
  \/ GetPendingTxs \/ SendClaims \/ CheckReceipts \/ OutdateClaims
  \/ CreateNewGroups \/ Commit

Next ==
  \/ MonitorTxs \/ Rollback \/ Tick
  \/ \E d \in Deposit : AddClaimTx(d)
  \/ \E t \in DOMAIN chain : Mine(t)

Spec == Init /\ [][Next]_vars

\* The ticker of the manager keeps firing, and time passes between its cycles; no
\* transaction has to be mined.
FairSpec == Spec /\ WF_vars(MonitorTxs) /\ SF_vars(Tick)

-----------------------------------------------------------------------------
Entry == [tx : Nat, receipt : {"pending", "failed", "successful"}]
Group == [deposits : SUBSET Deposit, status : {"created", "claiming"} \cup Final,
          history : Seq(Entry), retries : Nat]
Tx == [deposits : SUBSET Deposit, fate : {"pool", "failed", "claimed"}, age : Nat]

\* Types of the rows, the groups and what the chain knows of the claims.
TypeOK ==
  /\ queue \in Seq(Deposit) /\ cand \in Seq(Deposit)
  /\ txStatus \in [Deposit -> {"none", "created"} \cup Final]
  /\ groupOf \in [Deposit -> Nat]
  /\ groups \in Seq(Group) /\ work \in Seq(Group)
  /\ chain \in Seq(Tx)
  /\ claimed \subseteq Deposit
  /\ pc \in {"idle", "send", "receipts", "outdate", "create", "commit"}

\* Every group is a set of rows with one global exit root (the compressed call has
\* one pair of exit roots for all its claims), no row is in two groups, and
\* group_id of a row names the group whose deposit_ids list it.
GroupsPartitionRows ==
  /\ \A g \in DOMAIN groups :
       /\ groups[g].deposits # {}
       /\ MaxNumberOfClaimsPerGroup > 0 =>
            Cardinality(groups[g].deposits) <= MaxNumberOfClaimsPerGroup
       /\ \A d, e \in groups[g].deposits : GlobalExitRoot[d] = GlobalExitRoot[e]
  /\ \A d \in Deposit : GroupIn(groups, d) = {groupOf[d]} \ {0}

\* The claims of one group that are known to be pending are never two: a second
\* claim of the group waits for the first to be mined or to time out
\* (CanSendNewClaimCall).
OnePendingClaim ==
  \A g \in DOMAIN groups :
    \A i, j \in DOMAIN groups[g].history :
      groups[g].history[i].receipt = "pending" /\ groups[g].history[j].receipt = "pending"
        => i = j

\* No group is sent more often than MaxRetries allows (config.go, line 41), and once more
\* for every failure: a cycle that is rolled back after it has sent forgets the claim and
\* the retry, and so does a call that returns an error after the node has taken it.
SendsBounded ==
  \A d \in Deposit :
    Cardinality({t \in DOMAIN chain : d \in chain[t].deposits})
      <= MaxRetries + (MaxFaults - faults)

\* A successful receipt confirms its group for good (types/monitoredtx.go, line 111), unless
\* it is that of the last claim the group may send: OutdateClaims counts that one as failed
\* in the cycle that sends it, whatever its receipt says.
SuccessIsKept ==
  \A g \in DOMAIN groups : \A i \in DOMAIN groups[g].history :
    groups[g].history[i].receipt = "successful" /\ i < MaxRetries
      => groups[g].status = "confirmed"

\* Every row ends as confirmed or failed.
EverythingSettles ==
  \A d \in Deposit : txStatus[d] = "created" ~> txStatus[d] \in Final

\* The deposits of the calls that were mined with a successful receipt and logs.  A deposit
\* of such a call may still be unclaimed, and the manager never looks again.
Carried == {d \in Deposit : \E t \in DOMAIN chain :
                              chain[t].fate = "claimed" /\ d \in chain[t].deposits}

\* Rows are added once and settle once, for good, and a row is confirmed only when a call
\* that carries its claim has been mined successfully (types/monitoredtx.go, line 24).
Lifecycle == INSTANCE ClaimLifecycle WITH row <- txStatus, claims <- Carried

LifecycleSpec == Lifecycle!Spec
=============================================================================
