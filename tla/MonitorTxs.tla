----------------------------- MODULE MonitorTxs -----------------------------
(***************************************************************************)
(* The monitor of claims that are sent one by one (monitorTxsXLayer), with *)
(* the nonce cache it takes its nonces from (NonceCache) and the node that *)
(* its transactions go to.  A cycle of the monitor is one database         *)
(* transaction over the rows of sync.monitored_txs that are "created".     *)
(***************************************************************************)
EXTENDS Integers, FiniteSets

CONSTANTS
  Deposit,     \* the deposits, numbered in the order their rows are created
  Limits,      \* the values that SetMonitorTxsLimit may be called with
  MaxHistory,  \* maxHistorySize
  MaxFaults    \* bound on the failures of a behaviour

ASSUME MonitorAssumption ==
  /\ Deposit \subseteq Nat /\ IsFiniteSet(Deposit)
  /\ Limits \subseteq Nat \ {0} /\ MaxHistory \in Nat \ {0} /\ MaxFaults \in Nat

VARIABLES
  limit,    \* monitorTxsLimit, which SetMonitorTxsLimit sets at the start
  rows,     \* sync.monitored_txs
  claims,   \* the deposits whose claim is in sync.claim
  work,     \* the rows as the open transaction has them
  todo,     \* the deposits the cycle has still to process
  pc,       \* where the monitor is with the next of them
  reset,    \* isResetNonce
  cache,    \* the cached nonce of the sender; None when there is none
  account,  \* the nonce of the sender in the latest block
  pool,     \* the transactions in the pool of the node
  mined,    \* the transactions that were mined
  claimed,  \* the deposits that are claimed on L2
  refused,  \* the deposits whose claim L2 does not accept any more
  faults,   \* how many failures the behaviour still has
  lost      \* whether one of them lost a nonce that the cache had given out

dbVars == <<limit, rows, claims>>
cycleVars == <<work, todo, pc, reset>>
l2Vars == <<claimed, refused>>
nodeVars == <<account, pool, mined, l2Vars>>
faultVars == <<faults, lost>>
vars == <<dbVars, cycleVars, cache, nodeVars, faultVars>>

None == -1

\* A transaction is known by its deposit and its nonce: the data of a claim, its gas
\* price (with free gas) and its sender are always the same.
Tx(d, n) == [deposit |-> d, nonce |-> n]

NoRows == [d \in Deposit |-> [status |-> "none", history |-> {}]]

Fault == faults > 0 /\ faults' = faults - 1 /\ UNCHANGED lost
FaultWithNonce == faults > 0 /\ faults' = faults - 1 /\ lost' = TRUE

-----------------------------------------------------------------------------
(***************************************************************************)
(* The node and the others who use it.                                     *)
(***************************************************************************)
Nonces == {t.nonce : t \in pool}

\* The claims whose gas cannot be estimated, because they would revert.
Reverting == claimed \cup refused

\* The next transaction of the sender is mined.  A claim fails when the deposit is
\* claimed already, or when L2 does not accept it, or not yet.
Mine(t, ok) ==
  /\ t.nonce = account
  /\ ok => t.deposit \notin Reverting
  /\ account' = account + 1
  /\ pool' = pool \ {t}
  /\ mined' = mined \cup {[sent |-> t, ok |-> ok]}
  /\ claimed' = IF ok THEN claimed \cup {t.deposit} ELSE claimed
  /\ UNCHANGED <<dbVars, cycleVars, cache, refused, faultVars>>

\* The node loses a transaction.
Drop(t) ==
  /\ FaultWithNonce
  /\ pool' = pool \ {t}
  /\ UNCHANGED <<dbVars, cycleVars, cache, account, mined, l2Vars>>

\* Somebody else claims the deposit.
UserClaim(d) ==
  /\ d \notin Reverting
  /\ claimed' = claimed \cup {d}
  /\ UNCHANGED <<dbVars, cycleVars, cache, account, pool, mined, refused, faultVars>>

\* The claim starts to revert for good, as a message does whose receiver rejects it.
Refuse(d) ==
  /\ d \notin Reverting
  /\ refused' = refused \cup {d}
  /\ UNCHANGED <<dbVars, cycleVars, cache, account, pool, mined, claimed, faultVars>>

\* The synchronizer stores the claim.
SyncClaim(d) ==
  /\ d \in claimed \ claims
  /\ claims' = claims \cup {d}
  /\ UNCHANGED <<limit, rows, cycleVars, cache, nodeVars, faultVars>>

\* addClaimTxXLayer, in the order of the deposits.  A claim whose gas cannot be estimated
\* is ignored: it gets no row.
AddRow(d, status) ==
  /\ rows[d].status = "none"
  /\ \A e \in Deposit : e < d => rows[e].status # "none"
  /\ rows' = [rows EXCEPT ![d].status = status]
  /\ UNCHANGED <<limit, claims, cycleVars, cache, nodeVars>>

AddClaimTx(d) ==
  AddRow(d, IF d \in Reverting THEN "ignored" ELSE "created") /\ UNCHANGED faultVars

AddClaimTxFails(d) == AddRow(d, "ignored") /\ Fault

-----------------------------------------------------------------------------
(***************************************************************************)
(* The nonce cache.                                                        *)
(***************************************************************************)
\* GetNextNonce, when the node answers n.
NextNonce(n) == IF cache # None /\ cache >= n THEN cache + 1 ELSE n

\* Mutant: the nonce of a transaction that was refused is not given back.
KeepNonce(n) == cache

\* decr, when the node answers n.
Decr(n) == IF cache # None /\ cache - 1 >= n THEN cache - 1 ELSE None

-----------------------------------------------------------------------------
(***************************************************************************)
(* A cycle of the monitor.                                                 *)
(***************************************************************************)
Created == {d \in Deposit : rows[d].status = "created"}

\* GetClaimTxsByStatusWithLimit: ORDER BY created_at DESC LIMIT limit.
Newest(S) == {d \in S : Cardinality({e \in S : e > d}) < limit}

Begin ==
  /\ pc = "idle" /\ Created # {}
  /\ pc' = "check"
  /\ todo' = Newest(Created)
  /\ work' = rows
  /\ reset' = FALSE
  /\ UNCHANGED <<dbVars, cache, nodeVars, faultVars>>

\* d is the row that the cycle is at, the newest that it has not processed.
IsNext(d) == d \in todo /\ \A e \in todo : e <= d

\* Mutant: a transaction in the pool does not keep the row waiting.
NothingPending(seen) == TRUE

\* allHistoryTxMined: none of the transactions seen is in the pool.
AllMined(seen) == seen \cap pool = {}

Succeeded(seen) == \E t \in seen : [sent |-> t, ok |-> TRUE] \in mined

\* Mutant: a row at the limit is given up though a transaction is pending.
AtLimit(seen, history) == Cardinality(history) >= MaxHistory

\* The row has used up its transactions.
GivenUp(seen, history) == AllMined(seen) /\ Cardinality(history) >= MaxHistory

\* Mutant: the claim of a row whose transactions fail is not looked up.
OwnSuccess(d, seen) ==
  IF Succeeded(seen) THEN "confirmed"
  ELSE IF GivenUp(seen, work[d].history) THEN "failed"
  ELSE "created"

\* The status that the row gets: its claim is stored, one of its transactions
\* succeeded, or there were too many.
NewStatus(d, seen) ==
  IF d \in claims \/ Succeeded(seen) THEN "confirmed"
  ELSE IF GivenUp(seen, work[d].history) THEN "failed"
  ELSE "created"

\* ReviewMonitoredTxXLayer, when all transactions failed or disappeared: the gas of a
\* claim that would revert cannot be estimated.
ReviewFails(d, seen) == seen # {} /\ d \in Reverting

\* A transaction is to be sent for the row.
Sends(d, seen) ==
  NewStatus(d, seen) = "created" /\ AllMined(seen) /\ ~ReviewFails(d, seen)

\* The checks of a row; seen are the transactions of its history whose state the node
\* tells.  Those it fails to tell are left out, as if they were mined.
CheckRow(d, seen) ==
  /\ pc = "check"
  /\ work' = [work EXCEPT ![d].status = NewStatus(d, seen)]
  /\ pc' = IF Sends(d, seen) THEN "nonce" ELSE "check"
  /\ todo' = IF Sends(d, seen) THEN todo ELSE todo \ {d}
  /\ UNCHANGED <<dbVars, reset, cache, nodeVars>>

Check(d) == CheckRow(d, work[d].history) /\ UNCHANGED faultVars

CheckFails(d) ==
  \E seen \in SUBSET work[d].history :
    seen # work[d].history /\ CheckRow(d, seen) /\ Fault

\* setTxNonce, the signature and AddHistory.
SetTxNonce(d) ==
  /\ pc = "nonce"
  /\ pc' = "send"
  /\ cache' = NextNonce(account)
  /\ work' = [work EXCEPT ![d].history = @ \cup {Tx(d, NextNonce(account))}]
  /\ UNCHANGED <<dbVars, todo, reset, nodeVars, faultVars>>

\* The row is done; what work holds of it is stored in the transaction.
NextRow(d) == pc' = "check" /\ todo' = todo \ {d}

\* The gas, its price or the nonce of the sender cannot be had: the row is skipped.
SkipRow(d) ==
  /\ Fault
  /\ pc = "nonce"
  /\ NextRow(d)
  /\ UNCHANGED <<dbVars, work, reset, cache, nodeVars>>

Known(t) == t \in pool \/ \E m \in mined : m.sent = t

\* The transaction of d is taken out of the history again.
RemoveHistory(d) == work' = [work EXCEPT ![d].history = @ \ {Tx(d, cache)}]

\* SendTransaction is accepted, in the place of another transaction with its nonce, or
\* the node has the transaction already.
Send(d) ==
  /\ pc = "send"
  /\ \/ Known(Tx(d, cache)) /\ UNCHANGED pool
     \/ /\ ~Known(Tx(d, cache)) /\ cache >= account
        /\ pool' = {t \in pool : t.nonce # cache} \cup {Tx(d, cache)}
  /\ NextRow(d)
  /\ UNCHANGED <<dbVars, work, reset, cache, account, mined, l2Vars, faultVars>>

\* The nonce is lost: the signature fails, and the row is skipped; or the node does not
\* tell whether it has the transaction, which then is stored and not sent; or it refuses
\* the transaction and does not tell decr the nonce of the account.
NotSent(d) ==
  /\ FaultWithNonce
  /\ pc = "send"
  /\ UNCHANGED work \/ RemoveHistory(d)
  /\ NextRow(d)
  /\ UNCHANGED <<dbVars, reset, cache, nodeVars>>

\* What follows when SendTransaction returns an error: the first error about the nonce
\* empties the cache, the nonce is given back and the transaction forgotten.
SendError(d, aboutNonce) ==
  /\ reset' = (reset \/ aboutNonce)
  /\ cache' = IF aboutNonce /\ ~reset THEN None ELSE Decr(account)
  /\ RemoveHistory(d)
  /\ NextRow(d)

\* The node refuses the transaction: its nonce is too low, or too high, or that of
\* another one that pays as much.
SendRefused(d) ==
  /\ pc = "send" /\ ~Known(Tx(d, cache))
  /\ \/ cache < account /\ SendError(d, TRUE)
     \/ account..(cache - 1) \ Nonces # {} /\ SendError(d, TRUE)
     \/ cache \in Nonces /\ SendError(d, FALSE)
  /\ UNCHANGED <<dbVars, nodeVars, faultVars>>

\* The node accepts the transaction, or does not, and the answer is lost.
SendUnanswered(d) ==
  /\ Fault
  /\ pc = "send" /\ ~Known(Tx(d, cache))
  /\ cache >= account /\ cache \notin Nonces
  /\ UNCHANGED pool \/ pool' = pool \cup {Tx(d, cache)}
  /\ SendError(d, FALSE)
  /\ UNCHANGED <<dbVars, account, mined, l2Vars>>

\* Mutant: what the cycle read is stored over a row that was added since it began.
AllOfWork(d) == work[d]

\* The row of d once the transaction commits; a row that was added since it began is
\* not in it.
Merged(d) == IF work[d].status = "none" THEN rows[d] ELSE work[d]

Commit ==
  /\ pc = "check" /\ todo = {}
  /\ pc' = "idle"
  /\ rows' = [d \in Deposit |-> Merged(d)]
  /\ work' = NoRows
  /\ UNCHANGED <<limit, claims, todo, reset, cache, nodeVars, faultVars>>

\* GetClaim or the commit fails, which undoes all that the cycle stored, but not what it
\* sent; or the process dies, and the cache with it.
CycleFails(crash) ==
  /\ Fault
  /\ pc = "check" \/ crash
  /\ pc' = "idle" /\ todo' = {} /\ work' = NoRows
  /\ cache' = IF crash THEN None ELSE cache
  /\ UNCHANGED <<dbVars, reset, nodeVars>>

-----------------------------------------------------------------------------
Init ==
  /\ limit \in Limits
  /\ rows = NoRows /\ claims = {}
  /\ work = NoRows /\ todo = {} /\ pc = "idle" /\ reset = FALSE
  /\ cache = None
  /\ account = 0 /\ pool = {} /\ mined = {} /\ claimed = {} /\ refused = {}
  /\ faults = MaxFaults /\ lost = FALSE

MonitorStep ==
  \/ Begin \/ Commit
  \/ \E d \in todo :
       IsNext(d) /\ (Check(d) \/ SetTxNonce(d) \/ Send(d) \/ SendRefused(d))
NodeStep == \E t \in pool : Mine(t, TRUE) \/ Mine(t, FALSE)

Next ==
  \/ MonitorStep \/ NodeStep
  \/ \E d \in todo :
       IsNext(d) /\ (CheckFails(d) \/ SkipRow(d) \/ NotSent(d) \/ SendUnanswered(d))
  \/ \E crash \in BOOLEAN : CycleFails(crash)
  \/ \E t \in pool : Drop(t)
  \/ \E d \in Deposit :
       AddClaimTx(d) \/ AddClaimTxFails(d) \/ UserClaim(d) \/ Refuse(d) \/ SyncClaim(d)

\* The ticker of startMonitorTxs never stops, the node mines what it can, and the claims
\* of L2 are synchronized.
Spec ==
  /\ Init /\ [][Next]_vars
  /\ WF_vars(MonitorStep) /\ WF_vars(NodeStep)
  /\ \A d \in Deposit : WF_vars(SyncClaim(d))

-----------------------------------------------------------------------------
Statuses == {"none", "ignored", "created", "confirmed", "failed"}
Txs == [deposit : Deposit, nonce : Nat]
Rows == [status : Statuses, history : SUBSET Txs]

\* The state has the shape the code gives it, and no row has more transactions than
\* maxHistorySize.
TypeOK ==
  /\ limit \in Limits
  /\ rows \in [Deposit -> Rows] /\ work \in [Deposit -> Rows]
  /\ \A d \in Deposit : /\ Cardinality(rows[d].history) <= MaxHistory
                        /\ Cardinality(work[d].history) <= MaxHistory
  /\ todo \subseteq Deposit
  /\ pc \in {"idle", "check", "nonce", "send"} /\ reset \in BOOLEAN
  /\ cache \in Nat \cup {None} /\ account \in Nat
  /\ pool \subseteq Txs /\ mined \subseteq [sent : Txs, ok : BOOLEAN]
  /\ claims \subseteq claimed /\ claimed \subseteq Deposit /\ refused \subseteq Deposit
  /\ faults \in 0..MaxFaults /\ lost \in BOOLEAN

\* A row is confirmed only when its deposit is claimed on L2, and it is given up only
\* when none of its transactions can claim it any more: as long as nothing failed.
StatusIsFinal ==
  \A d \in Deposit :
    /\ rows[d].status = "confirmed" => d \in claimed
    /\ rows[d].status = "failed" /\ faults = MaxFaults => \A t \in pool : t.deposit # d

\* Two transactions for the same deposit are never in the pool together, as long as
\* nothing failed: the second would be paid for and revert (allHistoryTxMined).
OneInFlight ==
  faults = MaxFaults =>
    \A t, u \in pool : t.deposit = u.deposit => t = u

\* The nonces of the pool have no gap, which would hold up all that follow it, unless
\* the node or the monitor lost a transaction: one that the node refuses or does not
\* answer, a failed cycle and a restart leave none (GetNextNonce, decr).
NoGap == ~lost => \A t \in pool : account..t.nonce \subseteq Nonces

\* The node waits for a nonce that is not in its pool, and later ones are used.
Stuck ==
  account \notin Nonces /\ (pool # {} \/ (cache # None /\ cache >= account))

\* As many rows as a cycle takes can never be settled, and no others are looked at.
Crowded == Cardinality(refused \cap Created) >= limit

\* Every row is confirmed or given up in the end, whatever fails once, unless the node
\* waits for a nonce for ever, as the cache never gives out a used one again, L2 refuses
\* the claim, or rows that are refused fill every cycle (ORDER BY created_at DESC LIMIT).
Settles ==
  []<>~Stuck =>
    \A d \in Deposit :
      rows[d].status = "created"
        ~> rows[d].status \in {"confirmed", "failed"} \/ d \in refused \/ Crowded

\* What the rows promise; a claim that is ignored has no row.
Lifecycle ==
  INSTANCE ClaimLifecycle
    WITH row <- [d \in Deposit |-> IF rows[d].status = "ignored" THEN "none"
                                   ELSE rows[d].status],
         claims <- claimed

\* Every row is added once, leaves "created" once, for good, and is confirmed only when
\* its deposit is claimed, whatever the cycles that fail or begin before others are added:
\* claims sent one by one keep the promise that compressed claims keep.
LifecycleSpec == Lifecycle!Spec
=============================================================================
