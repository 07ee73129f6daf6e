----------------------------- MODULE PushTasks -----------------------------
(***************************************************************************)
(* The tasks of the push service: L1BlockNumTask, which announces the      *)
(* deposits of L1 that have enough confirmations, CommittedBatchHandler,   *)
(* which announces the deposits of committed batches, and                  *)
(* VerifiedBatchHandler, which only keeps the pace of the batches.  Every  *)
(* instance of the service runs each of them; those that run the same task *)
(* share a lock in Redis that expires.  The three use different keys and   *)
(* do not meet, so a behaviour has one of them.                            *)
(***************************************************************************)
EXTENDS Integers, FiniteSets

CONSTANTS
  Instance,       \* the instances of the push service
  L1Deposit,      \* the deposits of L1, one that is mined again elsewhere being another
  L2Deposit,      \* the deposits of L2, numbered in the order they are made
  BlockOf,        \* BlockOf[d]: the block of the deposit
  TxOf,           \* TxOf[d]: the transaction of the deposit
  MaxHead,        \* bound on the blocks of L1
  Confirmations,  \* L1TargetBlockConfirmations
  Batches,        \* bound on the batches of L2
  BatchEnd,       \* BatchEnd[b]: the last block of batch b, or 0 if it has none
  PageLimit,      \* l1PendingDepositQueryLimit
  ListLen,        \* commitDurationListLen, verifyDurationListLen
  MaxReorgs,      \* MaxReorgs[t]: bound on the reorganisations that task t meets
  MaxFaults       \* bound on the failures of a behaviour

Task == {"l1", "commit", "verify"}

ASSUME PushAssumption ==
  /\ IsFiniteSet(L1Deposit) /\ IsFiniteSet(L2Deposit) /\ L2Deposit \subseteq Nat
  /\ L1Deposit \cap L2Deposit = {}
  /\ {MaxHead, Confirmations, Batches, ListLen, MaxFaults} \subseteq Nat
  /\ PageLimit \in Nat \ {0}
  /\ MaxReorgs \in [Task -> Nat]
  /\ BlockOf \in [L1Deposit \cup L2Deposit -> Nat \ {0}]
  /\ TxOf \in [L1Deposit -> Nat]
  /\ BatchEnd \in [0..Batches -> Nat]
  /\ \A b, c \in 0..Batches : b < c /\ BatchEnd[c] # 0 => BatchEnd[b] < BatchEnd[c]

VARIABLES
  task,     \* the task of this behaviour
  top,      \* the head of L1, or the latest batch that is committed or verified
  stored,   \* the deposits that are synchronized
  ready,    \* those that are ready_for_claim
  reorgs,   \* how many reorganisations there were
  lock,     \* whether the key of the lock exists
  num,      \* the block or batch number in Redis
  maxBlock, \* the committed block number in Redis
  list,     \* the deposits of L1 in Redis
  times,    \* the length of the list of commit or verify times
  pc,       \* where an instance is
  seen,     \* the number the node told it
  old,      \* the block up to which it has nothing to announce
  next,     \* the next block of L1 it has to announce, or the offset of the next page
  pushes,   \* pushes[d]: the goroutines that were given d to push, without the failed ones
  faults,   \* how many failures the behaviour still has
  expired,  \* whether the lock expired while an instance was working
  lost,     \* the deposits that a failure, or their late arrival, may leave out
  shifted   \* whether the rows changed while an instance was reading its pages

redisVars == <<lock, num, maxBlock, list, times>>
localVars == <<seen, old, next>>
envVars == <<task, top, stored, ready, reorgs>>
vars == <<envVars, redisVars, pc, localVars, pushes, faults, expired, lost, shifted>>

Deposit == CASE task = "l1" -> L1Deposit [] task = "commit" -> L2Deposit [] OTHER -> {}
None == [d \in L1Deposit \cup L2Deposit |-> 0]
Fault == faults > 0 /\ faults' = faults - 1
Goto(i, p) == pc' = [pc EXCEPT ![i] = p]
Working(i) == pc[i] # "idle"

\* The instance leaves its task, and its variables with it.
Leave(i) ==
  /\ Goto(i, "idle")
  /\ seen' = [seen EXCEPT ![i] = 0]
  /\ old' = [old EXCEPT ![i] = 0]
  /\ next' = [next EXCEPT ![i] = 0]

-----------------------------------------------------------------------------
(***************************************************************************)
(* The lock in Redis.                                                      *)
(***************************************************************************)
\* Mutant: the key is set whether it exists or not.
SetKey == lock' = TRUE

\* TryLock: SetNX.
TryLock == ~lock /\ lock' = TRUE

\* ReleaseLock: Del, whoever set the key.
ReleaseLock == lock' = FALSE

\* The key of a task that ended without releasing it expires.
LockExpires ==
  /\ lock /\ lock' = FALSE
  /\ \A i \in Instance : ~Working(i)
  /\ UNCHANGED <<envVars, num, maxBlock, list, times, pc, localVars, faults, expired, lost,
                 shifted, pushes>>

\* A task takes longer than lockExpire.
LockExpiresEarly ==
  /\ Fault
  /\ lock /\ lock' = FALSE
  /\ \E i \in Instance : Working(i)
  /\ expired' = TRUE
  /\ UNCHANGED <<envVars, num, maxBlock, list, times, pc, localVars, lost, shifted, pushes>>

-----------------------------------------------------------------------------
(***************************************************************************)
(* The chains, the synchronizers and the claim manager.                    *)
(***************************************************************************)
Grow ==
  /\ top < (IF task = "l1" THEN MaxHead ELSE Batches)
  /\ top' = top + 1
  /\ UNCHANGED <<task, stored, ready, reorgs, redisVars, pc, localVars, faults, expired, lost,
                 shifted, pushes>>

\* blockNum -= min(L1TargetBlockConfirmations, blockNum)
Confirmed(n) == IF n < Confirmations THEN 0 ELSE n - Confirmations

\* The last block that instance i announces.
LastBlock(i) == IF task = "l1" THEN Confirmed(seen[i]) ELSE BatchEnd[seen[i]]

\* The block is announced already, or may be when the row is stored.
Passed(b) ==
  \/ b <= (IF task = "l1" THEN Confirmed(num) ELSE maxBlock)
  \/ \E i \in Instance : Working(i) /\ b <= LastBlock(i)

\* The rows that the pages of i have.
InRange(i, d) == old[i] < BlockOf[d] /\ BlockOf[d] <= LastBlock(i)
Rows(i) == {d \in stored \ ready : InRange(i, d)}
Shifts(d) == \E i \in Instance : pc[i] = "page" /\ InRange(i, d)

SameKey(d, e) == BlockOf[d] = BlockOf[e] /\ TxOf[d] = TxOf[e]
Others(d) == IF task = "l1" THEN {e \in list : e # d /\ SameKey(d, e)} ELSE {}

\* AddBlockDeposit for L1: HSet, the field is the hash of the transaction.
AddBlockDeposit(d) ==
  IF task = "l1" THEN {e \in list : ~SameKey(d, e)} \cup {d} ELSE list

\* DeleteBlockDeposit for L1: HDel.
DeleteBlockDeposit(d) == IF task = "l1" THEN {e \in list : ~SameKey(d, e)} ELSE list

\* processDeposit of a deposit of the chain, and the commit of its block.
SyncDeposit(d) ==
  /\ d \notin stored
  /\ task = "l1" => BlockOf[d] <= top
  /\ stored' = stored \cup {d}
  /\ list' = AddBlockDeposit(d)
  /\ lost' = lost \cup Others(d) \cup (IF Passed(BlockOf[d]) THEN {d} ELSE {})
  /\ shifted' = (shifted \/ Shifts(d))
  /\ UNCHANGED <<task, top, ready, reorgs, lock, num, maxBlock, times, pc, localVars, faults,
                 expired, pushes>>

\* The chain is reorganised from block b on, and Reset deletes the rows: those of the
\* deposits that are mined again are stored again.  The lists in Redis stay.
Reorg(b) ==
  LET gone == {d \in stored : BlockOf[d] >= b}
  IN  /\ gone # {} /\ reorgs < MaxReorgs[task]
      /\ reorgs' = reorgs + 1
      /\ stored' = stored \ gone /\ ready' = ready \ gone
      /\ shifted' = (shifted \/ \E d \in gone : Shifts(d))
      /\ UNCHANGED <<task, top, redisVars, pc, localVars, faults, expired, lost, pushes>>

\* The deposit becomes ready_for_claim.  One that the manager does not claim keeps its
\* place in Redis.
MakeReady(d) ==
  /\ d \in stored \ ready
  /\ ready' = ready \cup {d}
  /\ \/ list' = DeleteBlockDeposit(d) /\ lost' = lost \cup Others(d)
     \/ UNCHANGED <<list, lost>>
  /\ shifted' = (shifted \/ Shifts(d))
  /\ UNCHANGED <<task, top, stored, reorgs, lock, num, maxBlock, times, pc, localVars, faults,
                 expired, pushes>>

\* Redis is written, and the transaction is rolled back afterwards.
SyncFails(d) ==
  /\ Fault
  /\ task = "l1" /\ d \notin stored /\ BlockOf[d] <= top
  /\ list' = AddBlockDeposit(d)
  /\ lost' = lost \cup Others(d)
  /\ UNCHANGED <<envVars, lock, num, maxBlock, times, pc, localVars, expired, shifted,
                 pushes>>

MakeReadyFails(d) ==
  /\ Fault
  /\ task = "l1" /\ d \in stored \ ready
  /\ list' = DeleteBlockDeposit(d)
  /\ lost' = lost \cup Others(d) \cup {d}
  /\ UNCHANGED <<envVars, lock, num, maxBlock, times, pc, localVars, expired, shifted,
                 pushes>>

\* Nothing was announced for l1BlockDepositListExpiry, and the list of block b expires.
ListExpires(b) ==
  /\ Fault
  /\ \E d \in list : BlockOf[d] = b
  /\ list' = {d \in list : BlockOf[d] # b}
  /\ lost' = lost \cup {d \in list : BlockOf[d] = b}
  /\ UNCHANGED <<envVars, lock, num, maxBlock, times, pc, localVars, expired, shifted,
                 pushes>>

-----------------------------------------------------------------------------
(***************************************************************************)
(* A run of a task.  Each action is one call to Redis, a node or the       *)
(* database and what follows it.                                           *)
(***************************************************************************)
Begin(i) ==
  /\ pc[i] = "idle" /\ TryLock
  /\ Goto(i, "query")
  /\ UNCHANGED <<envVars, num, maxBlock, list, times, localVars, faults, expired, lost,
                 shifted, pushes>>

\* BlockNumber, QueryLatestCommitBatch or QueryLatestVerifyBatch, of a node that may be
\* behind the others.
Query(i, n) ==
  /\ pc[i] = "query"
  /\ seen' = [seen EXCEPT ![i] = n]
  /\ Goto(i, "get")
  /\ UNCHANGED <<envVars, redisVars, old, next, expired, lost, shifted, pushes>>

\* Mutant: any change of the number is taken for a new one.
IsOther(n) == n # num

\* Mutant: a number is new when more than one block or batch was added.
IsFarAhead(n) == n > num + 1

\* blockNum > oldBlockNum, checkLatestBatchLegal
IsNew(n) == n > num

\* Mutant: the block after the last one announced is left out.
SkipBlock(n) == Confirmed(n) + 2

\* Mutant: the last block announced is announced again.
RepeatBlock(n) == Confirmed(n)

\* The first block that is not announced when the number n is in Redis.
FirstBlock(n) == Confirmed(n) + 1

\* GetL1BlockNum, and what doTask has to announce.
GetL1BlockNum(i) ==
  /\ task = "l1" /\ pc[i] = "get"
  /\ next' = [next EXCEPT ![i] = FirstBlock(num)]
  /\ Goto(i, IF ~IsNew(seen[i]) THEN "release"
             ELSE IF Confirmed(seen[i]) <= Confirmed(num) THEN "set" ELSE "scan")
  /\ UNCHANGED <<envVars, redisVars, seen, old, faults, expired, lost, shifted, pushes>>

\* The goroutines that push the deposits of D.
Push(D) == pushes' = [d \in DOMAIN pushes |-> IF d \in D THEN pushes[d] + 1 ELSE pushes[d]]

\* GetBlockDepositList of the next block.
GetBlockDepositList(i) ==
  /\ pc[i] = "scan"
  /\ Push({d \in list : BlockOf[d] = next[i]})
  /\ next' = [next EXCEPT ![i] = @ + 1]
  /\ Goto(i, IF next[i] < LastBlock(i) THEN "scan" ELSE "set")
  /\ UNCHANGED <<envVars, redisVars, seen, old, faults, expired, lost, shifted>>

\* The deferred SetL1BlockNum.
SetL1BlockNum(i) ==
  /\ pc[i] = "set"
  /\ num' = seen[i]
  /\ Goto(i, "release")
  /\ UNCHANGED <<envVars, lock, maxBlock, list, times, localVars, faults, expired, lost,
                 shifted, pushes>>

\* checkLatestBatchLegal
CheckLatestBatchLegal(i) ==
  /\ task # "l1" /\ pc[i] = "get"
  /\ Goto(i, IF IsNew(seen[i]) THEN "setBatch" ELSE "release")
  /\ UNCHANGED <<envVars, redisVars, localVars, faults, expired, lost, shifted, pushes>>

\* SetCommitBatchNum, SetVerifyBatchNum
SetBatchNum(i) ==
  /\ pc[i] = "setBatch"
  /\ num' = seen[i]
  /\ Goto(i, "lpush")
  /\ UNCHANGED <<envVars, lock, maxBlock, list, times, localVars, faults, expired, lost,
                 shifted, pushes>>

\* LPushCommitTime, LPushVerifyTime
LPushTime(i) ==
  /\ pc[i] = "lpush"
  /\ times' = times + 1
  /\ Goto(i, "llen")
  /\ UNCHANGED <<envVars, lock, num, maxBlock, list, localVars, faults, expired, lost,
                 shifted, pushes>>

AfterTimes == IF task = "commit" THEN "getMax" ELSE "release"

\* listLen <= commitDurationListLen is not enough for an average.
IsTooLong == times > ListLen

\* LLenCommitTimeList, LLenVerifyTimeList
LLenTimes(i) ==
  /\ pc[i] = "llen"
  /\ Goto(i, IF IsTooLong THEN "rpop" ELSE AfterTimes)
  /\ UNCHANGED <<envVars, redisVars, localVars, faults, expired, lost, shifted, pushes>>

\* RPopCommitTime and SetAvgCommitDuration, or those of the verified batches: an empty
\* list is an error.
RPopTime(i) ==
  /\ pc[i] = "rpop"
  /\ times' = IF times = 0 THEN 0 ELSE times - 1
  /\ Goto(i, IF times = 0 THEN "release" ELSE AfterTimes)
  /\ UNCHANGED <<envVars, lock, num, maxBlock, list, localVars, faults, expired, lost,
                 shifted, pushes>>

\* GetCommitMaxBlockNum, and getMaxBlockNumByBatchNum: a batch may have no block.
GetMaxBlockNum(i) ==
  /\ pc[i] = "getMax"
  /\ old' = [old EXCEPT ![i] = maxBlock]
  /\ Goto(i, IF LastBlock(i) = 0 THEN "release" ELSE "setMax")
  /\ UNCHANGED <<envVars, redisVars, seen, next, faults, expired, lost, shifted, pushes>>

\* SetCommitMaxBlockNum; the commit time of every block is stored, too.
SetMaxBlockNum(i) ==
  /\ pc[i] = "setMax"
  /\ maxBlock' = LastBlock(i)
  /\ next' = [next EXCEPT ![i] = 0]
  /\ Goto(i, IF old[i] >= LastBlock(i) THEN "release" ELSE "page")
  /\ UNCHANGED <<envVars, lock, num, list, times, seen, old, faults, expired, lost, shifted,
                 pushes>>

\* GetNotReadyTransactionsWithBlockRange: ORDER BY deposit_cnt DESC LIMIT and OFFSET.
Page(i) ==
  {d \in Rows(i) : LET k == Cardinality({e \in Rows(i) : e > d})
                   IN  next[i] <= k /\ k < next[i] + PageLimit}

\* A page of pushStatusChangedMsg.
PushStatusChangedMsg(i) ==
  /\ pc[i] = "page"
  /\ Push(Page(i))
  /\ next' = [next EXCEPT ![i] = @ + PageLimit]
  /\ Goto(i, IF Cardinality(Page(i)) < PageLimit THEN "release" ELSE "page")
  /\ UNCHANGED <<envVars, redisVars, seen, old, faults, expired, lost, shifted>>

\* The deferred ReleaseLock.
End(i) ==
  /\ pc[i] = "release"
  /\ ReleaseLock
  /\ Leave(i)
  /\ UNCHANGED <<envVars, num, maxBlock, list, times, faults, expired, lost, shifted,
                 pushes>>

-----------------------------------------------------------------------------
(***************************************************************************)
(* Failures.                                                               *)
(***************************************************************************)
\* The deposits that instance i has still to announce and will not come back to.
Unannounced(i) ==
  {d \in Deposit : \/ pc[i] = "scan" /\ BlockOf[d] \in next[i]..LastBlock(i)
                   \/ pc[i] = "page" /\ InRange(i, d)}

\* The call that instance i is at returns an error, and the task ends: doTask stores the
\* number all the same when a list cannot be read.
CallFails(i) ==
  /\ Fault
  /\ pc[i] \notin {"idle", "release"}
  /\ lost' = lost \cup Unannounced(i)
  /\ Goto(i, IF pc[i] = "scan" THEN "set" ELSE "release")
  /\ UNCHANGED <<envVars, redisVars, localVars, expired, shifted, pushes>>

\* SetAvgCommitDuration fails, after the time was taken from the list.
SetAvgFails(i) ==
  /\ Fault
  /\ pc[i] = "rpop" /\ times > 0
  /\ times' = times - 1
  /\ Goto(i, "release")
  /\ UNCHANGED <<envVars, lock, num, maxBlock, list, localVars, expired, lost, shifted,
                 pushes>>

\* The lock cannot be released, and stays until it expires.
ReleaseFails(i) ==
  /\ Fault
  /\ pc[i] = "release"
  /\ Leave(i)
  /\ UNCHANGED <<envVars, redisVars, expired, lost, shifted, pushes>>

\* The messages of D, which goroutines were given, are not sent, and nobody sends them again.
Dropped(D) == [d \in DOMAIN pushes |-> IF d \in D THEN pushes[d] - 1 ELSE pushes[d]]

\* Kafka does not take a message.
PushFails(d) ==
  /\ Fault
  /\ pushes[d] > 0
  /\ pushes' = Dropped({d})
  /\ lost' = lost \cup {d}
  /\ UNCHANGED <<envVars, redisVars, pc, localVars, expired, shifted>>

\* An instance dies, and its goroutines with it; the lock stays until it expires.
Crash(i) ==
  /\ Fault
  /\ \E D \in SUBSET {d \in Deposit : pushes[d] > 0} :
       /\ Working(i) \/ D # {}
       /\ pushes' = Dropped(D)
       /\ lost' = lost \cup D \cup (IF pc[i] = "page" THEN Unannounced(i) ELSE {})
  /\ Leave(i)
  /\ UNCHANGED <<envVars, redisVars, expired, shifted>>

-----------------------------------------------------------------------------
Init ==
  /\ task \in Task
  /\ top = 0 /\ stored = {} /\ ready = {} /\ reorgs = 0
  /\ lock = FALSE /\ num = 0 /\ maxBlock = 0 /\ list = {} /\ times = 0
  /\ pc = [i \in Instance |-> "idle"]
  /\ seen = [i \in Instance |-> 0] /\ old = seen /\ next = seen
  /\ pushes = None
  /\ faults = MaxFaults
  /\ expired = FALSE /\ lost = {} /\ shifted = FALSE

\* What instance i does next.
TaskStep(i) ==
  \/ Begin(i) \/ (Query(i, top) /\ UNCHANGED faults)
  \/ GetL1BlockNum(i) \/ GetBlockDepositList(i) \/ SetL1BlockNum(i)
  \/ CheckLatestBatchLegal(i) \/ SetBatchNum(i)
  \/ LPushTime(i) \/ LLenTimes(i) \/ RPopTime(i)
  \/ GetMaxBlockNum(i) \/ SetMaxBlockNum(i) \/ PushStatusChangedMsg(i)
  \/ End(i)

Next ==
  \/ Grow \/ LockExpires \/ LockExpiresEarly
  \/ \E d \in Deposit : SyncDeposit(d) \/ MakeReady(d) \/ SyncFails(d) \/ MakeReadyFails(d)
                        \/ PushFails(d)
  \/ \E b \in {BlockOf[d] : d \in Deposit} : Reorg(b) \/ ListExpires(b)
  \/ \E i \in Instance :
       \/ TaskStep(i)
       \/ top > 0 /\ Query(i, top - 1) /\ Fault
       \/ CallFails(i) \/ SetAvgFails(i) \/ ReleaseFails(i) \/ Crash(i)

\* A run of a task comes to its end, the tickers of the instances never stop, Kafka takes
\* messages and a key that expires is deleted.
Spec ==
  /\ Init /\ [][Next]_vars
  /\ WF_vars(LockExpires)
  /\ \A i \in Instance : WF_vars(TaskStep(i))

-----------------------------------------------------------------------------
(***************************************************************************)
(* Properties.                                                             *)
(***************************************************************************)
\* Redis and the instances hold only block and batch numbers that a node has told them.
TypeOK ==
  /\ task \in Task
  /\ top \in Nat /\ num \in 0..top /\ maxBlock \in Nat /\ expired \in BOOLEAN
  /\ task # "l1" => top <= Batches
  /\ DOMAIN pc = Instance
  /\ seen \in [Instance -> 0..top]

\* As long as the lock does not expire under the task that holds it, one instance at a time
\* does the task (TryLock and ReleaseLock).
LockExclusive ==
  ~expired => \A i, j \in Instance : Working(i) /\ Working(j) => i = j

\* As long as the lock does not expire under the task that holds it, the numbers in Redis
\* never go back, whatever node answers (SetL1BlockNum, SetCommitBatchNum,
\* SetCommitMaxBlockNum).
NumbersOnlyGrow ==
  [][~expired' => num' >= num /\ maxBlock' >= maxBlock]_vars

\* A deposit that the number in Redis has passed is pushed, or will be by a goroutine or a
\* page that is on its way.  The exceptions are: it was synchronized too late, rows came
\* or went while the pages were read, its list expired or its list or page could not be
\* read, Kafka or the process failed while its message was on its way, the transaction that
\* made it ready was rolled back after its place in Redis was deleted, or another deposit of
\* its transaction took or deleted that place.  Reorganisations, expired locks, overtaking
\* instances and the other failures leave none out.
NoneSkipped ==
  \A d \in stored \ ready :
    (IF task = "l1" THEN BlockOf[d] <= Confirmed(num) ELSE BlockOf[d] <= maxBlock) =>
      \/ pushes[d] > 0
      \/ \E i \in Instance : pc[i] = "page" /\ InRange(i, d)
      \/ d \in lost \/ shifted

\* A deposit is pushed once for every block it is mined in, and once more for each failure,
\* as long as the lock does not expire under the task that holds it and the rows do not
\* change while pages are read: also when it is synchronized again after a reorganisation.
PushedOnce ==
  ~expired /\ ~shifted =>
    \A d \in Deposit : pushes[d] <= 1 + (MaxFaults - faults)

\* Again and again no deposit is due that is not pushed: one of L1 is due when it has its
\* confirmations, one of L2 while the latest batch reaches its block and no call has failed.
\* The exceptions are those of NoneSkipped and deposits that became ready.
Announced ==
  []<>(\A d \in stored \ ready :
         \/ task = "l1" /\ BlockOf[d] + Confirmations > top
         \/ task = "commit" /\ (faults < MaxFaults \/ BlockOf[d] > BatchEnd[top])
         \/ pushes[d] > 0 \/ d \in lost \/ shifted)
=============================================================================
