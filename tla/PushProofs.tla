----------------------------- MODULE PushProofs -----------------------------
(***************************************************************************)
(* The push tasks, for any number of instances, blocks, batches, deposits  *)
(* and failures and any page size: the lock and the numbers in Redis, no   *)
(* deposit left out without one of the exceptions named, and none pushed   *)
(* twice without a failure.                                                *)
(***************************************************************************)
EXTENDS PushTasks, FiniteSetTheorems, FunctionTheorems, WellFoundedInduction, TLAPS

\* Who is at work has the lock, and nobody else is.
LockInv ==
  /\ \A i \in Instance : pc[i] # "idle" => lock
  /\ \A i, j \in Instance : pc[i] # "idle" /\ pc[j] # "idle" => i = j

\* What an instance knows of the number in Redis, which nobody else writes.
NumInv ==
  \A i \in Instance :
    /\ pc[i] \in {"scan", "set"} => task = "l1" /\ num < seen[i]
    /\ pc[i] = "setBatch" => task # "l1" /\ num < seen[i]
    /\ pc[i] \in {"lpush", "llen", "rpop", "getMax", "setMax"} => task # "l1" /\ num = seen[i]
    /\ pc[i] = "setMax" => BatchEnd[seen[i]] # 0

\* The block number in Redis is the last one of a batch that Redis knows of.
BlockInv == maxBlock = 0 \/ (task # "l1" /\ \E b \in 0..num : maxBlock = BatchEnd[b])

PInv == TypeOK /\ (~expired => LockInv /\ NumInv /\ BlockInv)

-----------------------------------------------------------------------------
\* The initial state has the invariant: nobody is at work and Redis is empty.
LEMMA PInvInit == Init => PInv
<1> SUFFICES ASSUME Init PROVE PInv
  BY Zenon
<1>1. Batches \in Nat
  BY Zenon, PushAssumption
<1>2. TypeOK
  <2>1. top = 0 /\ num = 0 /\ maxBlock = 0 /\ task \in Task
    BY Zenon DEF Init
  <2>2. seen = [i \in Instance |-> 0] /\ pc = [i \in Instance |-> "idle"]
    BY Zenon DEF Init
  <2>3. expired \in BOOLEAN
    BY Zenon DEF Init
  <2> QED
    BY <1>1, <2>1, <2>2, <2>3 DEF TypeOK
<1>3. LockInv /\ NumInv /\ BlockInv
  BY Zenon DEF Init, LockInv, NumInv, BlockInv
<1> QED
  BY Zenon, <1>2, <1>3 DEF PInv

\* A block number that is stored is that of a later batch than the one it replaces.
LEMMA LaterBatch ==
  ASSUME NEW i \in Instance, PInv, ~expired, SetMaxBlockNum(i)
  PROVE  maxBlock' >= maxBlock /\ maxBlock' \in Nat /\ maxBlock' = BatchEnd[num]
<1>1. num = seen[i] /\ task # "l1" /\ BatchEnd[num] # 0 /\ num \in 0..Batches
  BY PushAssumption DEF PInv, TypeOK, NumInv, SetMaxBlockNum
<1>2. maxBlock' = BatchEnd[num]
  BY Zenon, <1>1 DEF SetMaxBlockNum, LastBlock
<1>3. BatchEnd[num] \in Nat /\ Batches \in Nat
  BY Zenon, <1>1, PushAssumption
<1>4. ASSUME NEW b \in 0..num PROVE BatchEnd[b] <= BatchEnd[num]
  <2>1. CASE b = num
    BY <2>1, <1>3
  <2>2. CASE b < num
    <3>1. b \in 0..Batches
      BY <1>1, <1>3
    <3>2. BatchEnd[b] < BatchEnd[num] /\ BatchEnd[b] \in Nat
      BY Zenon, <1>1, <2>2, <3>1, PushAssumption
    <3> QED
      BY <3>2, <1>3
  <2> QED
    BY <2>1, <2>2, <1>1, <1>3
<1>5. maxBlock = 0 \/ \E b \in 0..num : maxBlock = BatchEnd[b]
  BY Zenon DEF PInv, BlockInv
<1> QED
  BY <1>2, <1>3, <1>4, <1>5

\* An instance that goes on in its task, from a place p, keeps the lock to itself.
LEMMA LockKept ==
  ASSUME NEW i \in Instance, NEW p, PInv, pc[i] # "idle", Goto(i, p), lock' = lock
  PROVE  ~expired => LockInv'
BY Zenon DEF PInv, TypeOK, LockInv, Goto

-----------------------------------------------------------------------------
\* A step of the chain, the synchronizer or the claim manager keeps the invariant.
LEMMA EnvStep ==
  ASSUME PInv,
         \/ Grow \/ LockExpires \/ LockExpiresEarly
         \/ \E d \in Deposit : \/ SyncDeposit(d) \/ MakeReady(d) \/ SyncFails(d)
                               \/ MakeReadyFails(d) \/ PushFails(d)
         \/ \E b : Reorg(b) \/ ListExpires(b)
         \/ UNCHANGED vars
  PROVE  PInv'
<1>1. CASE Grow
  BY <1>1, PushAssumption
  DEF Grow, PInv, TypeOK, LockInv, NumInv, BlockInv, redisVars, localVars
<1>2. CASE LockExpires
  BY Zenon, <1>2 DEF LockExpires, Working, PInv, TypeOK, LockInv, NumInv, BlockInv, envVars,
     localVars
<1>3. CASE LockExpiresEarly
  BY Zenon, <1>3 DEF LockExpiresEarly, PInv, TypeOK, envVars, localVars
<1>4. CASE \E d \in Deposit : \/ SyncDeposit(d) \/ MakeReady(d) \/ SyncFails(d)
                              \/ MakeReadyFails(d) \/ PushFails(d)
  <2>1. UNCHANGED <<task, top, num, maxBlock, expired, lock, pc, seen>>
    BY Zenon, <1>4 DEF SyncDeposit, MakeReady, SyncFails, MakeReadyFails, PushFails, envVars,
                redisVars, localVars
  <2> QED
    BY Zenon, <2>1 DEF PInv, TypeOK, LockInv, NumInv, BlockInv
<1>5. CASE UNCHANGED vars
  BY Zenon, <1>5 DEF vars, envVars, redisVars, localVars, PInv, TypeOK, LockInv, NumInv, BlockInv
<1>6. CASE \E b : Reorg(b) \/ ListExpires(b)
  <2>1. UNCHANGED <<task, top, num, maxBlock, expired, lock, pc, seen>>
    BY Zenon, <1>6 DEF Reorg, ListExpires, envVars, redisVars, localVars
  <2> QED
    BY Zenon, <2>1 DEF PInv, TypeOK, LockInv, NumInv, BlockInv
<1> QED
  BY Zenon, <1>1, <1>2, <1>3, <1>4, <1>5, <1>6

\* A step of a task that gets the lock, leaves the task, or ends it keeps the invariant.
LEMMA LockStep ==
  ASSUME NEW i \in Instance, PInv,
         Begin(i) \/ End(i) \/ ReleaseFails(i) \/ Crash(i)
  PROVE  PInv'
<1>1. TypeOK'
  <2>1. UNCHANGED <<task, top, num, maxBlock, expired>>
    BY Zenon DEF Begin, End, ReleaseFails, Crash, envVars, redisVars
  <2>2. DOMAIN pc' = Instance /\ seen' \in [Instance -> 0..top]
    BY DEF Begin, End, ReleaseFails, Crash, localVars, Leave, Goto, PInv, TypeOK
  <2> QED
    BY Zenon, <2>1, <2>2 DEF PInv, TypeOK
<1> SUFFICES ASSUME ~expired' PROVE LockInv' /\ NumInv' /\ BlockInv'
  BY Zenon, <1>1 DEF PInv
<1>2. ~expired /\ LockInv /\ NumInv /\ BlockInv
  BY DEF Begin, End, ReleaseFails, Crash, PInv
<1>3. UNCHANGED <<task, num, maxBlock>>
  BY Zenon DEF Begin, End, ReleaseFails, Crash, envVars, redisVars
<1>4. CASE Begin(i)
  <2>1. pc' = [pc EXCEPT ![i] = "query"] /\ seen' = seen /\ lock' /\ ~lock
    BY Zenon, <1>4 DEF Begin, Goto, TryLock, localVars
  <2> QED
    BY Zenon, <1>2, <1>3, <2>1 DEF PInv, TypeOK, LockInv, NumInv, BlockInv
<1>5. CASE End(i) \/ ReleaseFails(i) \/ Crash(i)
  <2>1. pc' = [pc EXCEPT ![i] = "idle"] /\ seen' = [seen EXCEPT ![i] = 0]
    BY Zenon, <1>5 DEF End, ReleaseFails, Crash, Leave, Goto
  <2>2. lock' = lock \/ pc[i] # "idle"
    BY Zenon, <1>5 DEF End, ReleaseFails, Crash, redisVars
  <2> QED
    BY <1>2, <1>3, <2>1, <2>2 DEF PInv, TypeOK, LockInv, NumInv, BlockInv
<1> QED
  BY Zenon, <1>4, <1>5

\* A step that writes no number in Redis and goes on in the task keeps the invariant.
LEMMA ReadStep ==
  ASSUME NEW i \in Instance, PInv,
         \/ \E n \in 0..top : Query(i, n)
         \/ GetL1BlockNum(i) \/ GetBlockDepositList(i) \/ CheckLatestBatchLegal(i)
         \/ LPushTime(i) \/ LLenTimes(i) \/ RPopTime(i) \/ GetMaxBlockNum(i)
         \/ PushStatusChangedMsg(i) \/ CallFails(i) \/ SetAvgFails(i)
  PROVE  PInv'
<1>1. UNCHANGED <<task, top, num, maxBlock, expired, lock>> /\ pc[i] # "idle"
  BY Zenon DEF Query, GetL1BlockNum, GetBlockDepositList, CheckLatestBatchLegal, LPushTime,
     LLenTimes,
         RPopTime, GetMaxBlockNum, PushStatusChangedMsg, CallFails, SetAvgFails, envVars,
         redisVars
<1>2. PICK p : Goto(i, p)
  BY Zenon DEF Query, GetL1BlockNum, GetBlockDepositList, CheckLatestBatchLegal, LPushTime,
     LLenTimes,
         RPopTime, GetMaxBlockNum, PushStatusChangedMsg, CallFails, SetAvgFails
<1>3. seen' \in [Instance -> 0..top] /\ \A j \in Instance \ {i} : seen'[j] = seen[j]
  BY Zenon DEF Query, GetL1BlockNum, GetBlockDepositList, CheckLatestBatchLegal, LPushTime,
     LLenTimes,
         RPopTime, GetMaxBlockNum, PushStatusChangedMsg, CallFails, SetAvgFails, localVars,
         PInv, TypeOK
<1>4. DOMAIN pc' = Instance /\ pc'[i] = p /\ \A j \in Instance \ {i} : pc'[j] = pc[j]
  BY Zenon, <1>2 DEF Goto, PInv, TypeOK
<1>5. TypeOK'
  BY Zenon, <1>1, <1>3, <1>4 DEF PInv, TypeOK
<1> SUFFICES ASSUME ~expired PROVE LockInv' /\ NumInv' /\ BlockInv'
  BY Zenon, <1>1, <1>5 DEF PInv
<1>6. LockInv'
  BY Zenon, <1>1, <1>2, LockKept
<1>7. BlockInv'
  BY Zenon, <1>1 DEF PInv, BlockInv
<1>8. NumInv'
  <2> SUFFICES
        /\ pc'[i] \in {"scan", "set"} => task = "l1" /\ num < seen'[i]
        /\ pc'[i] = "setBatch" => task # "l1" /\ num < seen'[i]
        /\ pc'[i] \in {"lpush", "llen", "rpop", "getMax", "setMax"} =>
             task # "l1" /\ num = seen'[i]
        /\ pc'[i] = "setMax" => BatchEnd[seen'[i]] # 0
    BY Zenon, <1>1, <1>3, <1>4 DEF PInv, NumInv
  <2>1. CASE \E n \in 0..top : Query(i, n)
    BY Zenon, <2>1 DEF Query, Goto, PInv, TypeOK
  <2>2. CASE GetL1BlockNum(i)
    BY Zenon, <2>2 DEF GetL1BlockNum, IsNew, Goto, PInv, TypeOK
  <2>3. CASE GetBlockDepositList(i)
    BY Zenon, <2>3 DEF GetBlockDepositList, Goto, PInv, TypeOK, NumInv
  <2>4. CASE CheckLatestBatchLegal(i)
    BY Zenon, <2>4 DEF CheckLatestBatchLegal, IsNew, Goto, PInv, TypeOK, localVars
  <2>5. CASE LPushTime(i) \/ LLenTimes(i) \/ RPopTime(i) \/ SetAvgFails(i)
    BY Zenon, <2>5 DEF LPushTime, LLenTimes, RPopTime, SetAvgFails, AfterTimes, Goto, PInv,
       TypeOK,
                NumInv, localVars
  <2>6. CASE GetMaxBlockNum(i)
    BY Zenon, <2>6 DEF GetMaxBlockNum, LastBlock, Goto, PInv, TypeOK, NumInv
  <2>7. CASE PushStatusChangedMsg(i)
    BY Zenon, <2>7 DEF PushStatusChangedMsg, Goto, PInv, TypeOK
  <2>8. CASE CallFails(i)
    BY Zenon, <2>8 DEF CallFails, Goto, PInv, TypeOK, NumInv, localVars
  <2> QED
    BY Zenon, <2>1, <2>2, <2>3, <2>4, <2>5, <2>6, <2>7, <2>8
<1> QED
  BY Zenon, <1>6, <1>7, <1>8

\* A step that writes a number in Redis keeps the invariant, and does not lower a number.
LEMMA WriteStep ==
  ASSUME NEW i \in Instance, PInv,
         SetL1BlockNum(i) \/ SetBatchNum(i) \/ SetMaxBlockNum(i)
  PROVE  PInv' /\ (~expired => num' >= num /\ maxBlock' >= maxBlock)
<1>1. UNCHANGED <<task, top, expired, lock, seen>> /\ pc[i] # "idle"
  BY Zenon DEF SetL1BlockNum, SetBatchNum, SetMaxBlockNum, envVars, localVars
<1>2. PICK p : Goto(i, p)
  BY Zenon DEF SetL1BlockNum, SetBatchNum, SetMaxBlockNum
<1>3. ~expired => LockInv'
  BY Zenon, <1>1, <1>2, LockKept
<1>4. \A j \in Instance : ~expired /\ j # i => pc'[j] = "idle"
  BY Zenon, <1>1, <1>2 DEF Goto, PInv, TypeOK, LockInv
<1>5. CASE SetL1BlockNum(i) \/ SetBatchNum(i)
  <2>1. num' = seen[i] /\ maxBlock' = maxBlock /\ num' \in 0..top
    BY Zenon, <1>5 DEF SetL1BlockNum, SetBatchNum, PInv, TypeOK
  <2>2. TypeOK'
    BY Zenon, <1>1, <1>2, <2>1 DEF Goto, PInv, TypeOK
  <2>3. ~expired => num' > num
    BY Zenon, <1>5, <2>1 DEF SetL1BlockNum, SetBatchNum, PInv, NumInv
  <2>4. ~expired => NumInv'
    BY Zenon, <1>1, <1>4, <1>5, <2>1
    DEF SetL1BlockNum, SetBatchNum, Goto, PInv, TypeOK, NumInv
  <2>5. ~expired => BlockInv'
    BY <1>1, <2>1, <2>3 DEF PInv, TypeOK, BlockInv
  <2> QED
    BY <1>1, <1>3, <2>1, <2>2, <2>3, <2>4, <2>5 DEF PInv, TypeOK
<1>6. CASE SetMaxBlockNum(i)
  <2>1. num' = num /\ maxBlock' = LastBlock(i)
    BY Zenon, <1>6 DEF SetMaxBlockNum
  <2>2. LastBlock(i) \in Nat
    <3>1. seen[i] \in Nat /\ (task # "l1" => seen[i] \in 0..Batches)
      BY PushAssumption DEF PInv, TypeOK
    <3> QED
      BY <3>1, PushAssumption DEF LastBlock, Confirmed
  <2>3. TypeOK'
    BY Zenon, <1>1, <1>2, <2>1, <2>2 DEF Goto, PInv, TypeOK
  <2>4. ASSUME ~expired
        PROVE  /\ NumInv' /\ BlockInv'
               /\ maxBlock' >= maxBlock
    <3>1. maxBlock' >= maxBlock /\ maxBlock' = BatchEnd[num] /\ task # "l1"
      BY Zenon, <1>6, <2>4, LaterBatch DEF SetMaxBlockNum, PInv, NumInv
    <3>2. pc'[i] \in {"release", "page"}
      BY Zenon, <1>6 DEF SetMaxBlockNum, Goto, PInv, TypeOK
    <3>3. NumInv'
      BY Zenon, <1>4, <2>4, <3>2 DEF NumInv
    <3>4. BlockInv'
      BY <1>1, <2>1, <3>1 DEF BlockInv, PInv, TypeOK
    <3> QED
      BY Zenon, <3>1, <3>3, <3>4
  <2> QED
    BY <1>1, <1>3, <2>1, <2>3, <2>4 DEF PInv, TypeOK
<1> QED
  BY Zenon, <1>5, <1>6

\* Every step is one of the four kinds.
LEMMA StepKinds ==
  ASSUME PInv, [Next]_vars
  PROVE  \/ \/ Grow \/ LockExpires \/ LockExpiresEarly
            \/ \E d \in Deposit : \/ SyncDeposit(d) \/ MakeReady(d) \/ SyncFails(d)
                                  \/ MakeReadyFails(d) \/ PushFails(d)
            \/ \E b : Reorg(b) \/ ListExpires(b)
            \/ UNCHANGED vars
         \/ \E i \in Instance : Begin(i) \/ End(i) \/ ReleaseFails(i) \/ Crash(i)
         \/ \E i \in Instance :
              \/ \E n \in 0..top : Query(i, n)
              \/ GetL1BlockNum(i) \/ GetBlockDepositList(i) \/ CheckLatestBatchLegal(i)
              \/ LPushTime(i) \/ LLenTimes(i) \/ RPopTime(i) \/ GetMaxBlockNum(i)
              \/ PushStatusChangedMsg(i) \/ CallFails(i) \/ SetAvgFails(i)
         \/ \E i \in Instance : SetL1BlockNum(i) \/ SetBatchNum(i) \/ SetMaxBlockNum(i)
<1>1. top \in 0..top /\ (top > 0 => top - 1 \in 0..top)
  BY DEF PInv, TypeOK
<1> QED
  BY Zenon, <1>1 DEF Next, TaskStep

-----------------------------------------------------------------------------
\* Every step keeps the invariant.
LEMMA PInvStep == PInv /\ [Next]_vars => PInv'
BY Zenon, StepKinds, EnvStep, LockStep, ReadStep, WriteStep

\* The invariant holds in every state.
THEOREM PushInvariant == Spec => []PInv
<1> QED
  BY PInvInit, PInvStep, PTL DEF Spec

\* For any number of instances, at most one is at work as long as the lock does not expire
\* under the task that holds it.
THEOREM OneAtWork == Spec => []LockExclusive
<1>1. PInv => LockExclusive
  BY Zenon DEF PInv, LockInv, LockExclusive, Working
<1> QED
  BY <1>1, PushInvariant, PTL

\* For any number of instances, blocks and batches, the numbers in Redis never go back as
\* long as the lock does not expire under the task that holds it.
THEOREM NumbersGrow == Spec => NumbersOnlyGrow
<1>1. ASSUME PInv, [Next]_vars, ~expired'
      PROVE  num' >= num /\ maxBlock' >= maxBlock
  <2>1. num \in Nat /\ maxBlock \in Nat
    BY <1>1 DEF PInv, TypeOK
  <2>2. ~expired
    BY Zenon, <1>1, StepKinds
    DEF Grow, LockExpires, LockExpiresEarly, SyncDeposit, MakeReady, SyncFails, MakeReadyFails,
        PushFails, Reorg, ListExpires, vars, Begin, End, ReleaseFails, Crash, Query, GetL1BlockNum,
        GetBlockDepositList, CheckLatestBatchLegal, LPushTime, LLenTimes, RPopTime,
        GetMaxBlockNum, PushStatusChangedMsg, CallFails, SetAvgFails, SetL1BlockNum,
        SetBatchNum, SetMaxBlockNum
  <2>3. CASE \E i \in Instance : SetL1BlockNum(i) \/ SetBatchNum(i) \/ SetMaxBlockNum(i)
    BY Zenon, <1>1, <2>2, <2>3, WriteStep
  <2>4. CASE ~\E i \in Instance : SetL1BlockNum(i) \/ SetBatchNum(i) \/ SetMaxBlockNum(i)
    <3>1. num' = num /\ maxBlock' = maxBlock
      BY Zenon, <1>1, <2>4, StepKinds
      DEF Grow, LockExpires, LockExpiresEarly, SyncDeposit, MakeReady, SyncFails,
          MakeReadyFails, PushFails, Reorg, ListExpires, vars, redisVars, Begin, End,
          ReleaseFails, Crash, Query, GetL1BlockNum, GetBlockDepositList,
          CheckLatestBatchLegal, LPushTime, LLenTimes,
          RPopTime, GetMaxBlockNum, PushStatusChangedMsg, CallFails, SetAvgFails
    <3> QED
      BY <2>1, <3>1
  <2> QED
    BY Zenon, <2>3, <2>4
<1>2. PInv /\ [Next]_vars => [~expired' => num' >= num /\ maxBlock' >= maxBlock]_vars
  BY Zenon, <1>1
<1> QED
  BY <1>2, PushInvariant, PTL DEF Spec, NumbersOnlyGrow

-----------------------------------------------------------------------------
(***************************************************************************)
(* L1BlockNumTask leaves no deposit out, whatever becomes of the lock.     *)
(***************************************************************************)
\* A deposit that nobody was given to push, and that has no excuse.
Open(d) == d \in stored /\ d \notin ready /\ d \notin lost /\ pushes[d] = 0

SkipTypes ==
  /\ stored \subseteq Deposit
  /\ pushes \in [L1Deposit \cup L2Deposit -> Nat]
  /\ next \in [Instance -> Nat]

\* Redis has every deposit that is not ready.
ListInv == \A d \in stored : d \in ready \cup lost \cup list

\* An open deposit is ahead of the number in Redis and of every instance, whether the others
\* wait for it or not.
ScanInv ==
  /\ \A i \in Instance : pc[i] # "setBatch"
  /\ \A i \in Instance : pc[i] = "scan" => next[i] <= Confirmed(seen[i])
  /\ \A d \in stored : Open(d) =>
       /\ BlockOf[d] > Confirmed(num)
       /\ \A i \in Instance : /\ pc[i] = "scan" => BlockOf[d] >= next[i]
                              /\ pc[i] = "set" => BlockOf[d] > Confirmed(seen[i])

SInv == SkipTypes /\ (task = "l1" => ListInv /\ ScanInv)

\* The initial state has the invariant: there is no deposit.
LEMMA SInvInit == Init => SInv
BY DEF Init, SInv, SkipTypes, ListInv, ScanInv, Open, None

\* The numbers that are compared are natural numbers.
LEMMA Numbers ==
  ASSUME PInv, SInv, task = "l1"
  PROVE  /\ num \in Nat /\ Confirmed(num) \in Nat
         /\ \A i \in Instance :
              seen[i] \in Nat /\ Confirmed(seen[i]) \in Nat /\ next[i] \in Nat
         /\ \A d \in stored : BlockOf[d] \in Nat /\ d \in L1Deposit
<1>1. Confirmations \in Nat
  BY Zenon, PushAssumption
<1>2. \A n \in Nat : Confirmed(n) \in Nat
  BY <1>1 DEF Confirmed
<1>3. num \in Nat /\ \A i \in Instance : seen[i] \in Nat /\ next[i] \in Nat
  BY DEF PInv, TypeOK, SInv, SkipTypes
<1>4. \A d \in stored : BlockOf[d] \in Nat /\ d \in L1Deposit
  BY Zenon, PushAssumption DEF SInv, SkipTypes, Deposit
<1> QED
  BY Zenon, <1>2, <1>3, <1>4

\* A step that writes neither the number nor a message and neither starts nor ends a scan
\* keeps the invariant.
LEMMA IdleStep ==
  ASSUME PInv, SInv, SkipTypes', UNCHANGED <<task, stored, ready, list, lost, pushes, num>>,
         \A i \in Instance : pc'[i] \in {"scan", "set", "setBatch"} =>
           pc'[i] = pc[i] /\ next'[i] = next[i] /\ seen'[i] = seen[i]
  PROVE  SInv'
BY Zenon DEF SInv, ListInv, ScanInv, Open, Confirmed

\* The types of the second invariant are kept.
LEMMA SkipTypesStep ==
  ASSUME PInv, SInv, [Next]_vars
  PROVE  SkipTypes' /\ task' = task
<1>1. task' = task
  BY Zenon, StepKinds
  DEF Grow, LockExpires, LockExpiresEarly, SyncDeposit, MakeReady, SyncFails, MakeReadyFails,
      PushFails, Reorg, ListExpires, vars, envVars, Begin, End, ReleaseFails, Crash, Query,
      GetL1BlockNum, GetBlockDepositList, CheckLatestBatchLegal, LPushTime, LLenTimes, RPopTime,
      GetMaxBlockNum, PushStatusChangedMsg, CallFails, SetAvgFails, SetL1BlockNum, SetBatchNum,
      SetMaxBlockNum
<1>2. stored' \subseteq Deposit
  BY Zenon, StepKinds
  DEF Grow, LockExpires, LockExpiresEarly, SyncDeposit, MakeReady, SyncFails, MakeReadyFails,
      PushFails, Reorg, ListExpires, vars, envVars, Begin, End, ReleaseFails, Crash, Query,
      GetL1BlockNum, GetBlockDepositList, CheckLatestBatchLegal, LPushTime, LLenTimes, RPopTime,
      GetMaxBlockNum, PushStatusChangedMsg, CallFails, SetAvgFails, SetL1BlockNum, SetBatchNum,
      SetMaxBlockNum, SInv, SkipTypes
<1>3. pushes' \in [L1Deposit \cup L2Deposit -> Nat]
  <2>1. CASE pushes' = pushes
    BY Zenon, <2>1 DEF SInv, SkipTypes
  <2>2. CASE \E D : Push(D)
    BY <2>2 DEF Push, SInv, SkipTypes
  <2>3. CASE \E D \in SUBSET {d \in Deposit : pushes[d] > 0} : pushes' = Dropped(D)
    BY <2>3 DEF Dropped, SInv, SkipTypes
  <2>4. ASSUME NEW d \in Deposit, PushFails(d)
        PROVE  \E D \in SUBSET {e \in Deposit : pushes[e] > 0} : pushes' = Dropped(D)
    BY Zenon, <2>4 DEF PushFails
  <2> QED
    BY Zenon, <2>1, <2>2, <2>3, <2>4, StepKinds
    DEF Grow, LockExpires, LockExpiresEarly, SyncDeposit, MakeReady, SyncFails, MakeReadyFails,
        Reorg, ListExpires, vars, Begin, End, ReleaseFails, Crash, Query, GetL1BlockNum,
        GetBlockDepositList, CheckLatestBatchLegal, LPushTime, LLenTimes, RPopTime,
        GetMaxBlockNum, PushStatusChangedMsg, CallFails, SetAvgFails, SetL1BlockNum,
        SetBatchNum, SetMaxBlockNum
<1>4. next' \in [Instance -> Nat]
  <2>1. CASE next' = next
    BY Zenon, <2>1 DEF SInv, SkipTypes
  <2>2. ASSUME NEW i \in Instance, NEW n \in Nat, next' = [next EXCEPT ![i] = n]
        PROVE  next' \in [Instance -> Nat]
    BY Zenon, <2>2 DEF SInv, SkipTypes
  <2>3. /\ FirstBlock(num) \in Nat
        /\ \A i \in Instance : next[i] + 1 \in Nat /\ next[i] + PageLimit \in Nat
    <3>1. num \in Nat /\ Confirmations \in Nat /\ PageLimit \in Nat
      BY PushAssumption DEF PInv, TypeOK
    <3> QED
      BY <3>1 DEF FirstBlock, Confirmed, SInv, SkipTypes
  <2>4. ASSUME NEW i \in Instance,
               \/ GetL1BlockNum(i) \/ GetBlockDepositList(i) \/ SetMaxBlockNum(i)
               \/ PushStatusChangedMsg(i) \/ Leave(i)
        PROVE  next' \in [Instance -> Nat]
    BY Zenon, <2>4, <2>2, <2>3
    DEF GetL1BlockNum, GetBlockDepositList, SetMaxBlockNum, PushStatusChangedMsg, Leave
  <2> QED
    BY Zenon, <2>1, <2>4, StepKinds
    DEF Grow, LockExpires, LockExpiresEarly, SyncDeposit, MakeReady, SyncFails, MakeReadyFails,
        PushFails, Reorg, ListExpires, vars, localVars, Begin, End, ReleaseFails, Crash, Query,
        CheckLatestBatchLegal, LPushTime, LLenTimes, RPopTime, GetMaxBlockNum, CallFails,
        SetAvgFails, SetL1BlockNum, SetBatchNum
<1> QED
  BY Zenon, <1>1, <1>2, <1>3, <1>4 DEF SkipTypes, Deposit

\* A reorganisation deletes rows, and changes no other.
LEMMA ReorgRows ==
  ASSUME NEW b, Reorg(b)
  PROVE  /\ stored' \subseteq stored
         /\ \A d : d \in stored' => (d \in ready' <=> d \in ready)
         /\ ~shifted' => ~shifted /\ \A d \in stored \ stored' : ~Shifts(d)
         /\ UNCHANGED <<task, num, maxBlock, list, lost, pushes, pc, seen, old, next, faults,
                        expired>>
BY Zenon DEF Reorg, redisVars, localVars

\* The list of a block expires: its deposits are lost.
LEMMA ListRows ==
  ASSUME NEW b, ListExpires(b)
  PROVE  /\ \A d : d \in list \cup lost => d \in list' \cup lost'
         /\ lost \subseteq lost'
         /\ UNCHANGED <<task, stored, ready, num, maxBlock, pushes, pc, seen, old, next,
                        expired, shifted>>
BY Zenon DEF ListExpires, envVars, localVars

\* A step of the chain, the synchronizer, the claim manager or Kafka leaves no deposit behind.
LEMMA SkipEnvStep ==
  ASSUME PInv, SInv, SkipTypes', task = "l1", task' = task,
         \/ Grow \/ LockExpires \/ LockExpiresEarly
         \/ \E d \in Deposit : \/ SyncDeposit(d) \/ MakeReady(d) \/ SyncFails(d)
                               \/ MakeReadyFails(d) \/ PushFails(d)
         \/ \E b : Reorg(b) \/ ListExpires(b)
         \/ UNCHANGED vars
  PROVE  SInv'
<1>1. CASE Grow \/ LockExpires \/ LockExpiresEarly \/ UNCHANGED vars
  BY Zenon, <1>1, IdleStep
  DEF Grow, LockExpires, LockExpiresEarly, vars, envVars, redisVars, localVars
<1>2. ASSUME NEW d \in Deposit, SyncDeposit(d)
      PROVE  SInv'
  <2>1. UNCHANGED <<ready, pushes, num, pc, seen, next>> /\ stored' = stored \cup {d}
    BY Zenon, <1>2 DEF SyncDeposit, localVars
  <2>2. ListInv'
    BY Zenon, <1>2, <2>1 DEF SyncDeposit, AddBlockDeposit, Others, SInv, ListInv
  <2>3. Open(d)' => /\ BlockOf[d] > Confirmed(num)
                    /\ \A i \in Instance : Working(i) => BlockOf[d] > Confirmed(seen[i])
    <3>1. BlockOf[d] \in Nat
      BY Zenon, PushAssumption DEF Deposit
    <3>2. Open(d)' => ~Passed(BlockOf[d])
      BY Zenon, <1>2 DEF SyncDeposit, Open
    <3>3. /\ Confirmed(num) \in Nat
          /\ \A i \in Instance : Confirmed(seen[i]) \in Nat
      BY Zenon, Numbers
    <3>4. ASSUME ~Passed(BlockOf[d])
          PROVE  /\ ~(BlockOf[d] <= Confirmed(num))
                 /\ \A i \in Instance : Working(i) => ~(BlockOf[d] <= Confirmed(seen[i]))
      BY Zenon, <3>4 DEF Passed, LastBlock
    <3> QED
      BY <3>1, <3>2, <3>3, <3>4
  <2>4. \A e \in stored : Open(e)' => Open(e)
    BY Zenon, <1>2, <2>1 DEF SyncDeposit, Open
  <2>5. ScanInv'
    <3>1. BlockOf[d] \in Nat
      BY Zenon, PushAssumption DEF Deposit
    <3>2. \A i \in Instance :
            pc[i] # "setBatch" /\ (pc[i] = "scan" => next[i] <= Confirmed(seen[i]))
      BY Zenon DEF SInv, ScanInv
    <3>3. Open(d)' => /\ BlockOf[d] > Confirmed(num)
                      /\ \A i \in Instance : /\ pc[i] = "scan" => BlockOf[d] >= next[i]
                                             /\ pc[i] = "set" => BlockOf[d] > Confirmed(seen[i])
      BY <2>3, <3>1, <3>2, Numbers DEF Working
    <3>4. \A e \in stored : Open(e)' =>
            /\ BlockOf[e] > Confirmed(num)
            /\ \A i \in Instance : /\ pc[i] = "scan" => BlockOf[e] >= next[i]
                                   /\ pc[i] = "set" => BlockOf[e] > Confirmed(seen[i])
      BY Zenon, <2>4 DEF SInv, ScanInv
    <3> QED
      BY Zenon, <2>1, <3>2, <3>3, <3>4 DEF ScanInv, Confirmed
  <2> QED
    BY Zenon, <2>2, <2>5 DEF SInv
<1>3. ASSUME NEW d \in Deposit,
             MakeReady(d) \/ SyncFails(d) \/ MakeReadyFails(d) \/ PushFails(d)
      PROVE  SInv'
  <2>1. UNCHANGED <<stored, num, pc, seen, next>>
    BY Zenon, <1>3 DEF MakeReady, SyncFails, MakeReadyFails, PushFails, envVars, redisVars,
       localVars
  <2>2. ListInv'
    <3>1. CASE MakeReady(d)
      BY Zenon, <3>1, <2>1 DEF MakeReady, DeleteBlockDeposit, Others, SInv, ListInv
    <3>2. CASE SyncFails(d)
      BY Zenon, <3>2, <2>1 DEF SyncFails, AddBlockDeposit, Others, SInv, ListInv, envVars
    <3>3. CASE MakeReadyFails(d)
      BY Zenon, <3>3, <2>1 DEF MakeReadyFails, DeleteBlockDeposit, Others, SInv, ListInv, envVars
    <3>4. CASE PushFails(d)
      BY Zenon, <3>4, <2>1 DEF PushFails, SInv, ListInv, envVars, redisVars
    <3> QED
      BY Zenon, <1>3, <3>1, <3>2, <3>3, <3>4
  <2>3. \A e \in stored : Open(e)' => Open(e)
    <3>1. CASE MakeReady(d)
      BY Zenon, <3>1 DEF MakeReady, Open
    <3>2. CASE SyncFails(d) \/ MakeReadyFails(d)
      BY Zenon, <3>2 DEF SyncFails, MakeReadyFails, Open, envVars
    <3>3. CASE PushFails(d)
      <4>1. \A e \in stored : e # d => pushes'[e] = pushes[e]
        BY Zenon, <3>3 DEF PushFails, Dropped, SInv, SkipTypes, Deposit
      <4> QED
        BY Zenon, <3>3, <4>1 DEF PushFails, Open, envVars
    <3> QED
      BY Zenon, <1>3, <3>1, <3>2, <3>3
  <2>4. ScanInv'
    BY Zenon, <2>1, <2>3 DEF SInv, ScanInv, Confirmed
  <2> QED
    BY Zenon, <2>2, <2>4 DEF SInv
<1>4. ASSUME NEW b, Reorg(b) \/ ListExpires(b)
      PROVE  SInv'
  <2>1. /\ UNCHANGED <<num, pc, seen, next, pushes>> /\ stored' \subseteq stored
        /\ lost \subseteq lost' /\ \A d : d \in list \cup lost => d \in list' \cup lost'
        /\ \A d : d \in stored' => (d \in ready' <=> d \in ready)
    BY Zenon, <1>4, ReorgRows, ListRows
  <2>2. ListInv'
    BY Zenon, <2>1 DEF SInv, ListInv
  <2>3. \A e \in stored' : Open(e)' => Open(e)
    BY Zenon, <2>1 DEF Open
  <2>4. ScanInv'
    BY Zenon, <2>1, <2>3 DEF SInv, ScanInv, Confirmed
  <2> QED
    BY Zenon, <2>2, <2>4 DEF SInv
<1> QED
  BY Zenon, <1>1, <1>2, <1>3, <1>4

\* Neither does a step of an instance.
LEMMA SkipTaskStep ==
  ASSUME PInv, SInv, SkipTypes', task = "l1", task' = task, NEW i \in Instance,
         \/ Begin(i) \/ End(i) \/ ReleaseFails(i) \/ Crash(i)
         \/ \E n \in 0..top : Query(i, n)
         \/ GetL1BlockNum(i) \/ GetBlockDepositList(i) \/ CheckLatestBatchLegal(i)
         \/ LPushTime(i) \/ LLenTimes(i) \/ RPopTime(i) \/ GetMaxBlockNum(i)
         \/ PushStatusChangedMsg(i) \/ CallFails(i) \/ SetAvgFails(i)
         \/ SetL1BlockNum(i) \/ SetBatchNum(i) \/ SetMaxBlockNum(i)
  PROVE  SInv'
<1>0. ListInv /\ ScanInv
  BY Zenon DEF SInv
<1>n. /\ num \in Nat /\ Confirmed(num) \in Nat
      /\ \A j \in Instance : seen[j] \in Nat /\ Confirmed(seen[j]) \in Nat /\ next[j] \in Nat
      /\ \A d \in stored : BlockOf[d] \in Nat /\ d \in L1Deposit
  BY Zenon, Numbers
<1>1. CASE Begin(i) \/ End(i) \/ ReleaseFails(i) \/ \E n \in 0..top : Query(i, n)
  BY Zenon, <1>1, IdleStep
  DEF Begin, End, ReleaseFails, Query, Leave, Goto, envVars, redisVars, localVars, PInv, TypeOK,
      SInv, SkipTypes
<1>2. CASE \/ CheckLatestBatchLegal(i) \/ LPushTime(i) \/ LLenTimes(i) \/ RPopTime(i)
           \/ GetMaxBlockNum(i) \/ SetAvgFails(i)
  BY Zenon, <1>2, IdleStep
  DEF CheckLatestBatchLegal, LPushTime, LLenTimes, RPopTime, GetMaxBlockNum, SetAvgFails,
      AfterTimes, Goto, envVars, redisVars, localVars, PInv, TypeOK
<1>3. CASE PushStatusChangedMsg(i)
  <2>1. UNCHANGED <<stored, ready, list, lost, num, seen>>
    BY Zenon, <1>3 DEF PushStatusChangedMsg, envVars, redisVars
  <2>2. \A d \in stored : Open(d)' => Open(d)
    BY <1>3, <1>n, <2>1 DEF PushStatusChangedMsg, Push, Open, SInv, SkipTypes, Deposit
  <2>3. \A j \in Instance :
          pc'[j] \in {"scan", "set", "setBatch"} => pc'[j] = pc[j] /\ next'[j] = next[j]
    BY Zenon, <1>3 DEF PushStatusChangedMsg, Goto, PInv, TypeOK, SInv, SkipTypes
  <2> QED
    BY Zenon, <2>1, <2>2, <2>3 DEF SInv, ListInv, ScanInv, Confirmed
<1>4. CASE SetMaxBlockNum(i) \/ SetBatchNum(i)
  <2>1. CASE SetMaxBlockNum(i)
    BY Zenon, <2>1, IdleStep
    DEF SetMaxBlockNum, Goto, envVars, redisVars, localVars, PInv, TypeOK, SInv, SkipTypes
  <2>2. CASE SetBatchNum(i)
    BY Zenon, <1>0, <2>2 DEF SetBatchNum, ScanInv
  <2> QED
    BY Zenon, <1>4, <2>1, <2>2
<1>5. CASE Crash(i)
  <2>1. UNCHANGED <<stored, ready, list, num>> /\ lost \subseteq lost'
    BY Zenon, <1>5 DEF Crash, envVars, redisVars
  <2>2. \A d \in stored : Open(d)' => Open(d)
    BY Zenon, <1>5, <1>n, <2>1 DEF Crash, Dropped, Open, SInv, SkipTypes, Deposit
  <2>3. \A j \in Instance : pc'[j] \in {"scan", "set", "setBatch"} =>
          pc'[j] = pc[j] /\ next'[j] = next[j] /\ seen'[j] = seen[j]
    BY Zenon, <1>5 DEF Crash, Leave, Goto, PInv, TypeOK, SInv, SkipTypes
  <2> QED
    BY Zenon, <2>1, <2>2, <2>3 DEF SInv, ListInv, ScanInv, Confirmed
<1>6. CASE GetL1BlockNum(i)
  <2>1. UNCHANGED <<stored, ready, list, lost, pushes, num, seen>>
    BY Zenon, <1>6 DEF GetL1BlockNum, envVars, redisVars
  <2>2. /\ next'[i] = Confirmed(num) + 1 /\ pc'[i] # "setBatch"
        /\ pc'[i] = "scan" => Confirmed(num) < Confirmed(seen[i])
        /\ pc'[i] = "set" => Confirmed(seen[i]) <= Confirmed(num)
    BY <1>6, <1>n DEF GetL1BlockNum, FirstBlock, Goto, PInv, TypeOK, SInv, SkipTypes
  <2>3. \A j \in Instance \ {i} : pc'[j] = pc[j] /\ next'[j] = next[j]
    BY Zenon, <1>6 DEF GetL1BlockNum, Goto, PInv, TypeOK, SInv, SkipTypes
  <2>4. \A d \in stored : Open(d)' = Open(d)
    BY Zenon, <2>1 DEF Open
  <2>5. pc'[i] = "scan" => next'[i] <= Confirmed(seen[i])
    BY <1>n, <2>2
  <2>6. ASSUME NEW d \in stored, Open(d)'
        PROVE  /\ BlockOf[d] > Confirmed(num)
               /\ pc'[i] = "scan" => BlockOf[d] >= next'[i]
               /\ pc'[i] = "set" => BlockOf[d] > Confirmed(seen[i])
    <3>1. BlockOf[d] > Confirmed(num)
      BY Zenon, <1>0, <2>4, <2>6 DEF ScanInv
    <3> QED
      BY <1>n, <2>2, <3>1
  <2>7. \A j \in Instance \ {i} :
          /\ pc'[j] # "setBatch" /\ (pc'[j] = "scan" => next'[j] <= Confirmed(seen[j]))
          /\ \A d \in stored : Open(d)' =>
               /\ pc'[j] = "scan" => BlockOf[d] >= next'[j]
               /\ pc'[j] = "set" => BlockOf[d] > Confirmed(seen[j])
    BY Zenon, <1>0, <2>3, <2>4 DEF ScanInv
  <2>8. ScanInv'
    BY Zenon, <2>1, <2>2, <2>5, <2>6, <2>7 DEF ScanInv, Confirmed
  <2> QED
    BY Zenon, <2>1, <2>8 DEF SInv, ListInv
<1>7. CASE GetBlockDepositList(i)
  <2>1. UNCHANGED <<stored, ready, list, lost, num, seen>> /\ pc[i] = "scan"
    BY Zenon, <1>7 DEF GetBlockDepositList, envVars, redisVars
  <2>2. /\ next'[i] = next[i] + 1 /\ pc'[i] # "setBatch"
        /\ pc'[i] = "scan" => next[i] < Confirmed(seen[i])
        /\ pc'[i] = "set" => ~(next[i] < Confirmed(seen[i]))
    BY Zenon, <1>7 DEF GetBlockDepositList, LastBlock, Goto, PInv, TypeOK, SInv, SkipTypes
  <2>3. \A j \in Instance \ {i} : pc'[j] = pc[j] /\ next'[j] = next[j]
    BY Zenon, <1>7 DEF GetBlockDepositList, Goto, PInv, TypeOK, SInv, SkipTypes
  <2>4. \A d \in stored : Open(d)' => Open(d) /\ BlockOf[d] # next[i]
    <3>1. ASSUME NEW d \in stored, Open(d)' PROVE Open(d) /\ BlockOf[d] # next[i]
      <4>1. d \in L1Deposit /\ pushes[d] \in Nat /\ d \in DOMAIN pushes
        BY Zenon, <1>n DEF SInv, SkipTypes
      <4>2. pushes'[d] = 0 /\ d \notin ready /\ d \notin lost
        BY Zenon, <3>1, <2>1 DEF Open
      <4> DEFINE D == {e \in list : BlockOf[e] = next[i]}
      <4>p. pushes'[d] = IF d \in D THEN pushes[d] + 1 ELSE pushes[d]
        BY Zenon, <1>7, <4>1 DEF GetBlockDepositList, Push
      <4>3. d \notin D /\ pushes[d] = 0
        BY <4>1, <4>2, <4>p
      <4>4. d \in list
        BY Zenon, <4>2 DEF SInv, ListInv
      <4> QED
        BY Zenon, <4>2, <4>3, <4>4 DEF Open
    <3> QED
      BY Zenon, <3>1
  <2>5. \A d \in stored : Open(d)' =>
          BlockOf[d] > Confirmed(num) /\ BlockOf[d] >= next[i] + 1
    <3>1. ASSUME NEW d \in stored, Open(d)'
          PROVE  BlockOf[d] > Confirmed(num) /\ BlockOf[d] >= next[i] + 1
      <4>1. Open(d) /\ BlockOf[d] # next[i] /\ BlockOf[d] \in Nat /\ next[i] \in Nat
        BY Zenon, <1>n, <2>4, <3>1
      <4>2. BlockOf[d] > Confirmed(num) /\ BlockOf[d] >= next[i]
        BY Zenon, <1>0, <2>1, <4>1 DEF ScanInv
      <4> QED
        BY <4>1, <4>2
    <3> QED
      BY Zenon, <3>1
  <2>6. \A d \in stored : Open(d)' => \A j \in Instance \ {i} :
          /\ pc[j] = "scan" => BlockOf[d] >= next[j]
          /\ pc[j] = "set" => BlockOf[d] > Confirmed(seen[j])
    BY Zenon, <1>0, <2>4 DEF ScanInv, Open
  <2>7. pc'[i] = "scan" => next'[i] <= Confirmed(seen[i])
    BY <1>n, <2>2
  <2>8. pc'[i] = "set" => \A d \in stored : Open(d)' => BlockOf[d] > Confirmed(seen[i])
    BY <1>n, <2>2, <2>5
  <2>9. ScanInv'
    BY Zenon, <1>0, <2>1, <2>2, <2>3, <2>5, <2>6, <2>7, <2>8 DEF ScanInv
  <2> QED
    BY Zenon, <2>1, <2>9 DEF SInv, ListInv
<1>8. CASE SetL1BlockNum(i)
  <2>1. UNCHANGED <<stored, ready, list, lost, pushes, seen, next>> /\ num' = seen[i]
    BY Zenon, <1>8 DEF SetL1BlockNum, envVars, localVars
  <2>2. pc[i] = "set" /\ pc'[i] = "release" /\ \A j \in Instance \ {i} : pc'[j] = pc[j]
    BY Zenon, <1>8 DEF SetL1BlockNum, Goto, PInv, TypeOK
  <2>3. \A d \in stored : Open(d)' = Open(d)
    BY Zenon, <2>1 DEF Open
  <2>4. ScanInv'
    BY Zenon, <2>1, <2>2, <2>3 DEF SInv, ScanInv, Confirmed
  <2> QED
    BY Zenon, <2>1, <2>4 DEF SInv, ListInv
<1>9. CASE CallFails(i)
  <2>1. UNCHANGED <<stored, ready, list, pushes, num, seen, next>>
    BY Zenon, <1>9 DEF CallFails, envVars, redisVars, localVars
  <2>2. /\ pc'[i] \notin {"scan", "setBatch"} /\ (pc'[i] = "set" => pc[i] = "scan")
        /\ \A j \in Instance \ {i} : pc'[j] = pc[j]
    BY Zenon, <1>9 DEF CallFails, Goto, PInv, TypeOK
  <2>3. \A d \in stored : d \in Deposit
    BY Zenon DEF SInv, SkipTypes
  <2>4. /\ lost \subseteq lost'
        /\ pc[i] = "scan" => \A d \in Deposit :
             BlockOf[d] \in next[i]..Confirmed(seen[i]) => d \in lost'
    BY Zenon, <1>9 DEF CallFails, Unannounced, LastBlock
  <2>5. \A d \in stored : Open(d)' =>
          /\ Open(d)
          /\ pc'[i] = "set" => BlockOf[d] > Confirmed(seen[i])
    <3>1. ASSUME NEW d \in stored, Open(d)'
          PROVE  Open(d) /\ (pc'[i] = "set" => BlockOf[d] > Confirmed(seen[i]))
      <4>1. Open(d) /\ d \notin lost'
        BY Zenon, <3>1, <2>1, <2>4 DEF Open
      <4>2. pc[i] = "scan" => BlockOf[d] >= next[i]
        BY Zenon, <1>0, <4>1 DEF ScanInv, Open
      <4>3. pc[i] = "scan" => ~(BlockOf[d] \in next[i]..Confirmed(seen[i]))
        BY Zenon, <2>3, <2>4, <4>1
      <4>4. pc[i] = "scan" => BlockOf[d] > Confirmed(seen[i])
        BY <1>n, <4>2, <4>3
      <4> QED
        BY Zenon, <2>2, <4>1, <4>4
    <3> QED
      BY Zenon, <3>1
  <2>6. ScanInv'
    BY Zenon, <2>1, <2>2, <2>5 DEF SInv, ScanInv, Confirmed
  <2> QED
    BY Zenon, <2>1, <2>4, <2>6 DEF SInv, ListInv
<1> QED
  BY Zenon, <1>1, <1>2, <1>3, <1>4, <1>5, <1>6, <1>7, <1>8, <1>9

\* The second invariant holds in every state.
THEOREM SkipInvariant == Spec => []SInv
<1>1. PInv /\ SInv /\ [Next]_vars => SInv'
  <2> SUFFICES ASSUME PInv, SInv, [Next]_vars PROVE SInv'
    BY Zenon
  <2>1. SkipTypes' /\ task' = task
    BY Zenon, SkipTypesStep
  <2>2. CASE task # "l1"
    BY Zenon, <2>1, <2>2 DEF SInv
  <2>3. CASE task = "l1"
    BY Zenon, <2>1, <2>3, StepKinds, SkipEnvStep, SkipTaskStep
  <2> QED
    BY Zenon, <2>2, <2>3
<1> QED
  BY <1>1, SInvInit, PushInvariant, PTL DEF Spec

-----------------------------------------------------------------------------
(***************************************************************************)
(* No task pushes a deposit twice without a failure.                       *)
(***************************************************************************)
\* The rows before d in the pages of i: the order is descending.
Rank(i, d) == Cardinality({e \in Rows(i) : e > d})

\* Instance i has d on a page that it has not read yet.
Ahead(i, d) == pc[i] = "page" /\ d \in Rows(i) /\ next[i] <= Rank(i, d)

\* The block of d is behind the task, which comes back to it only after a failure.
Behind(d) ==
  IF task = "l1"
  THEN \/ BlockOf[d] <= Confirmed(num)
       \/ \E i \in Instance : \/ pc[i] = "scan" /\ BlockOf[d] < next[i]
                              \/ pc[i] = "set" /\ BlockOf[d] <= Confirmed(seen[i])
  ELSE BlockOf[d] <= maxBlock /\ \A i \in Instance : ~Ahead(i, d)

\* Where an instance is when it may push something.
PlaceInv ==
  \A i \in Instance :
    /\ pc[i] = "scan" => Confirmed(num) < next[i]
    /\ pc[i] = "setMax" => old[i] = maxBlock
    /\ pc[i] = "page" => task # "l1" /\ BatchEnd[seen[i]] = maxBlock

CountInv ==
  \A d \in Deposit : pushes[d] <= (MaxFaults - faults) + (IF Behind(d) THEN 1 ELSE 0)

OInv ==
  /\ faults \in Nat /\ faults <= MaxFaults
  /\ old \in [Instance -> Nat]
  /\ ~expired /\ ~shifted => PlaceInv /\ CountInv

\* The initial state has the invariant: nothing is pushed.
LEMMA OInvInit == Init => OInv
<1> SUFFICES ASSUME Init PROVE OInv
  BY Zenon
<1>1. faults = MaxFaults /\ MaxFaults \in Nat
  BY Zenon, PushAssumption DEF Init
<1>2. old \in [Instance -> Nat] /\ PlaceInv
  BY Zenon DEF Init, PlaceInv
<1>3. \A d \in Deposit : pushes[d] = 0
  BY Zenon DEF Init, None, Deposit
<1> QED
  BY <1>1, <1>2, <1>3 DEF OInv, CountInv

\* The numbers that are compared are natural numbers.
LEMMA OnceTypes ==
  ASSUME PInv, SInv, OInv
  PROVE  /\ MaxFaults \in Nat /\ faults \in Nat /\ faults <= MaxFaults
         /\ maxBlock \in Nat /\ num \in Nat /\ PageLimit \in Nat \ {0}
         /\ \A n \in Nat : Confirmed(n) \in Nat
         /\ \A i \in Instance : seen[i] \in Nat /\ next[i] \in Nat /\ old[i] \in Nat
         /\ \A d \in Deposit : /\ BlockOf[d] \in Nat /\ pushes[d] \in Nat
                               /\ d \in L1Deposit \cup L2Deposit
<1>1. MaxFaults \in Nat /\ Confirmations \in Nat /\ PageLimit \in Nat \ {0}
  BY Zenon, PushAssumption
<1>2. \A n \in Nat : Confirmed(n) \in Nat
  BY <1>1 DEF Confirmed
<1>3. \A d \in Deposit : d \in L1Deposit \cup L2Deposit
  BY Zenon DEF PInv, TypeOK, Deposit
<1>4. \A d \in Deposit : BlockOf[d] \in Nat /\ pushes[d] \in Nat
  BY Zenon, <1>3, PushAssumption DEF SInv, SkipTypes
<1>5. /\ faults \in Nat /\ faults <= MaxFaults /\ maxBlock \in Nat /\ num \in Nat
      /\ \A i \in Instance : seen[i] \in Nat /\ next[i] \in Nat /\ old[i] \in Nat
  BY DEF PInv, TypeOK, SInv, SkipTypes, OInv
<1> QED
  BY Zenon, <1>1, <1>2, <1>3, <1>4, <1>5

\* A deposit that is not pushed again stays within its count, when what is behind the task
\* stays there or a failure is used up.
LEMMA CountKept ==
  ASSUME PInv, SInv, OInv, CountInv, NEW d \in Deposit,
         pushes'[d] \in Nat, pushes'[d] <= pushes[d], faults' \in Nat, faults' <= faults,
         faults' = faults => (Behind(d) => Behind(d)')
  PROVE  pushes'[d] <= (MaxFaults - faults') + (IF Behind(d)' THEN 1 ELSE 0)
<1>1. MaxFaults \in Nat /\ faults \in Nat /\ pushes[d] \in Nat
  BY Zenon, OnceTypes
<1>2. pushes[d] <= (MaxFaults - faults) + (IF Behind(d) THEN 1 ELSE 0)
  BY Zenon DEF CountInv
<1>3. CASE faults' = faults
  BY <1>1, <1>2, <1>3
<1>4. CASE faults' # faults
  <2>1. pushes[d] <= (MaxFaults - faults) + 1
    BY <1>1, <1>2
  <2>2. pushes'[d] <= MaxFaults - faults'
    BY <1>1, <1>4, <2>1
  <2> QED
    BY <1>1, <2>2
<1> QED
  BY Zenon, <1>3, <1>4

\* Where an instance is that may push something, or is about to.
Pushing == {"scan", "set", "setMax", "page"}

\* The pages of an instance do not change when its bounds and the rows do not.
LEMMA SameRows ==
  ASSUME NEW i \in Instance, UNCHANGED <<task, stored, ready>>,
         seen'[i] = seen[i], old'[i] = old[i]
  PROVE  Rows(i)' = Rows(i)
BY Zenon DEF Rows, InRange, LastBlock, Confirmed

\* The pages of an instance do not change when the rows that are deleted are not on them.
LEMMA ReorgPages ==
  ASSUME NEW b, Reorg(b), ~shifted', NEW j \in Instance, pc[j] = "page"
  PROVE  Rows(j)' = Rows(j)
<1>1. \A e : InRange(j, e)' <=> InRange(j, e)
  BY Zenon, ReorgRows DEF InRange, LastBlock, Confirmed
<1>2. \A e : InRange(j, e) => (e \in stored' <=> e \in stored)
  BY Zenon, ReorgRows DEF Shifts
<1> QED
  BY Zenon, <1>1, <1>2, ReorgRows DEF Rows

\* A step that pushes nothing and leaves alone those who may keeps the invariant.
LEMMA OnceStill ==
  ASSUME PInv, SInv, OInv, SkipTypes', UNCHANGED <<task, maxBlock>>,
         task = "l1" => num' = num,
         \A d \in Deposit : pushes'[d] <= pushes[d],
         faults' \in Nat, faults' <= faults, old' \in [Instance -> Nat],
         ~expired' /\ ~shifted' =>
           /\ ~expired /\ ~shifted
           /\ \A j \in Instance : pc[j] = "page" => Rows(j)' = Rows(j),
         \A j \in Instance : pc[j] \in Pushing \/ pc'[j] \in Pushing =>
           /\ pc'[j] = pc[j] /\ seen'[j] = seen[j]
           /\ old'[j] = old[j] /\ next'[j] = next[j]
  PROVE  OInv'
<1>1. MaxFaults \in Nat /\ faults \in Nat /\ faults <= MaxFaults
  BY Zenon, OnceTypes
<1>2. faults' <= MaxFaults
  BY <1>1
<1>3. ASSUME ~expired', ~shifted' PROVE PlaceInv' /\ CountInv'
  <2>1. ~expired /\ ~shifted /\ PlaceInv /\ CountInv /\ NumInv
    BY Zenon, <1>3 DEF OInv, PInv
  <2>2. PlaceInv'
    BY Zenon, <2>1 DEF PlaceInv, Pushing, NumInv, Confirmed
  <2>3. ASSUME NEW j \in Instance, NEW d PROVE Ahead(j, d)' = Ahead(j, d)
    <3>1. CASE pc[j] = "page"
      BY Zenon, <1>3, <3>1 DEF Ahead, Rank, Pushing
    <3>2. CASE pc[j] # "page"
      BY Zenon, <3>2 DEF Ahead, Pushing
    <3> QED
      BY Zenon, <3>1, <3>2
  <2>4. ASSUME NEW d \in Deposit, Behind(d) PROVE Behind(d)'
    <3>1. CASE task = "l1"
      BY Zenon, <2>4, <3>1 DEF Behind, Confirmed, Pushing
    <3>2. CASE task # "l1"
      BY Zenon, <2>3, <2>4, <3>2 DEF Behind
    <3> QED
      BY Zenon, <3>1, <3>2
  <2>5. \A d \in Deposit : pushes'[d] \in Nat
    BY Zenon, OnceTypes DEF SkipTypes
  <2>6. ASSUME NEW d \in Deposit
        PROVE  pushes'[d] <= (MaxFaults - faults') + (IF Behind(d)' THEN 1 ELSE 0)
    BY Zenon, <2>1, <2>4, <2>5, CountKept
  <2>7. Deposit' = Deposit
    BY Zenon DEF Deposit
  <2> QED
    BY Zenon, <2>2, <2>6, <2>7 DEF CountInv
<1> QED
  BY Zenon, <1>2, <1>3 DEF OInv

\* A step of the chain, the synchronizer, the claim manager or Kafka pushes nothing.  When it
\* changes the rows that somebody is reading, the pages are shifted.
LEMMA OnceEnvStep ==
  ASSUME PInv, SInv, OInv, SkipTypes',
         \/ Grow \/ LockExpires \/ LockExpiresEarly
         \/ \E d \in Deposit : \/ SyncDeposit(d) \/ MakeReady(d) \/ SyncFails(d)
                               \/ MakeReadyFails(d) \/ PushFails(d)
         \/ \E b : Reorg(b) \/ ListExpires(b)
         \/ UNCHANGED vars
  PROVE  OInv'
<1>t. /\ faults \in Nat /\ old \in [Instance -> Nat]
      /\ \A d \in Deposit : pushes[d] \in Nat /\ d \in DOMAIN pushes
  BY Zenon, OnceTypes DEF OInv, SInv, SkipTypes
<1>1. CASE Grow \/ LockExpires \/ UNCHANGED vars
  <2>1. UNCHANGED <<task, stored, ready, maxBlock, num, pushes, faults, expired, shifted, pc,
                    seen, old, next>>
    BY Zenon, <1>1 DEF Grow, LockExpires, vars, envVars, redisVars, localVars
  <2> QED
    BY <1>t, <2>1, SameRows, OnceStill
<1>2. CASE LockExpiresEarly
  <2>1. UNCHANGED old /\ expired' /\ faults' = faults - 1 /\ faults > 0
    BY Zenon, <1>2 DEF LockExpiresEarly, Fault, localVars
  <2>2. faults' \in Nat /\ faults' <= MaxFaults
    BY <2>1, OnceTypes
  <2> QED
    BY Zenon, <1>t, <2>1, <2>2 DEF OInv
<1>3. ASSUME NEW d \in Deposit, SyncDeposit(d) \/ MakeReady(d) PROVE OInv'
  <2>1. /\ UNCHANGED <<task, maxBlock, num, pushes, faults, expired, pc, seen, old, next>>
        /\ shifted' = (shifted \/ Shifts(d))
        /\ stored' \ {d} = stored \ {d} /\ ready' \ {d} = ready \ {d}
    BY Zenon, <1>3 DEF SyncDeposit, MakeReady, localVars
  <2>2. ASSUME NEW j \in Instance, pc[j] = "page", ~shifted' PROVE Rows(j)' = Rows(j)
    <3>1. ~InRange(j, d)
      BY Zenon, <2>1, <2>2 DEF Shifts
    <3>2. \A e : InRange(j, e)' <=> InRange(j, e)
      BY Zenon, <2>1 DEF InRange, LastBlock, Confirmed
    <3>3. \A e : e # d => (e \in stored' \ ready' <=> e \in stored \ ready)
      BY Zenon, <2>1
    <3> QED
      BY Zenon, <3>1, <3>2, <3>3 DEF Rows
  <2>3. ~shifted' => ~shifted
    BY Zenon, <2>1
  <2> QED
    BY <1>t, <2>1, <2>2, <2>3, OnceStill
<1>4. ASSUME NEW d \in Deposit, SyncFails(d) \/ MakeReadyFails(d) \/ PushFails(d) PROVE OInv'
  <2>1. /\ UNCHANGED <<task, stored, ready, maxBlock, num, expired, shifted, pc, seen, old, next>>
        /\ faults' = faults - 1 /\ faults > 0
    BY Zenon, <1>4 DEF SyncFails, MakeReadyFails, PushFails, Fault, envVars, redisVars, localVars
  <2>2. faults' \in Nat /\ faults' <= faults
    BY <1>t, <2>1
  <2>3. \A e \in Deposit : pushes'[e] <= pushes[e]
    <3>1. CASE UNCHANGED pushes
      BY <1>t, <3>1
    <3>2. CASE pushes' = Dropped({d})
      BY <1>t, <3>2 DEF Dropped
    <3> QED
      BY Zenon, <1>4, <3>1, <3>2 DEF SyncFails, MakeReadyFails, PushFails
  <2> QED
    BY Zenon, <1>t, <2>1, <2>2, <2>3, SameRows, OnceStill
<1>5. ASSUME NEW b, Reorg(b) PROVE OInv'
  <2>1. /\ UNCHANGED <<task, maxBlock, num, pushes, faults, expired, pc, seen, old, next>>
        /\ ~shifted' => ~shifted
    BY Zenon, <1>5, ReorgRows
  <2>2. ~shifted' => \A j \in Instance : pc[j] = "page" => Rows(j)' = Rows(j)
    BY Zenon, <1>5, ReorgPages
  <2>3. \A e \in Deposit : pushes'[e] <= pushes[e]
    BY <1>t, <2>1
  <2>4. faults' <= faults
    BY <1>t, <2>1
  <2> QED
    BY Zenon, <1>t, <2>1, <2>2, <2>3, <2>4, OnceStill
<1>6. ASSUME NEW b, ListExpires(b) PROVE OInv'
  <2>1. UNCHANGED <<task, stored, ready, maxBlock, num, pushes, expired, shifted, pc, seen, old,
                    next>>
    BY Zenon, <1>6, ListRows
  <2>2. faults' \in Nat /\ faults' <= faults
    BY <1>t, <1>6 DEF ListExpires, Fault
  <2>3. \A e \in Deposit : pushes'[e] <= pushes[e]
    BY <1>t, <2>1
  <2> QED
    BY Zenon, <1>t, <2>1, <2>2, <2>3, SameRows, OnceStill
<1> QED
  BY Zenon, <1>1, <1>2, <1>3, <1>4, <1>5, <1>6

\* A step of an instance that neither pushes nor is about to.
LEMMA OnceQuietStep ==
  ASSUME PInv, SInv, OInv, SkipTypes', NEW i \in Instance, faults' \in Nat, faults' <= faults,
         \/ Begin(i) \/ End(i) \/ ReleaseFails(i) \/ \E n \in 0..top : Query(i, n)
         \/ CheckLatestBatchLegal(i) \/ LPushTime(i) \/ LLenTimes(i) \/ RPopTime(i)
         \/ SetAvgFails(i)
  PROVE  OInv'
<1>1. UNCHANGED <<task, stored, ready, maxBlock, num, pushes, expired, shifted>>
  BY Zenon DEF Begin, End, ReleaseFails, Query, CheckLatestBatchLegal, LPushTime, LLenTimes,
     RPopTime,
         SetAvgFails, envVars, redisVars
<1>2. pc[i] \notin Pushing /\ pc'[i] \notin Pushing
  BY Zenon DEF Begin, End, ReleaseFails, Query, CheckLatestBatchLegal, LPushTime, LLenTimes,
     RPopTime,
         SetAvgFails, AfterTimes, Leave, Goto, Pushing, PInv, TypeOK
<1>3. \A j \in Instance \ {i} :
        pc'[j] = pc[j] /\ seen'[j] = seen[j] /\ old'[j] = old[j] /\ next'[j] = next[j]
  BY Zenon DEF Begin, End, ReleaseFails, Query, CheckLatestBatchLegal, LPushTime, LLenTimes,
     RPopTime,
         SetAvgFails, Leave, Goto, localVars, PInv, TypeOK, SInv, SkipTypes, OInv
<1>4. old' \in [Instance -> Nat]
  BY DEF Begin, End, ReleaseFails, Query, CheckLatestBatchLegal, LPushTime, LLenTimes, RPopTime,
         SetAvgFails, Leave, localVars, OInv
<1>5. \A j \in Instance : pc[j] = "page" => Rows(j)' = Rows(j)
  BY Zenon, <1>1, <1>2, <1>3, SameRows DEF Pushing
<1>6. \A d \in Deposit : pushes'[d] <= pushes[d]
  BY <1>1, OnceTypes
<1> QED
  BY Zenon, <1>1, <1>2, <1>3, <1>4, <1>5, <1>6, OnceStill

\* The call of an instance fails, or it dies: a failure is used up.
LEMMA OnceFails ==
  ASSUME PInv, SInv, OInv, SkipTypes', NEW i \in Instance, CallFails(i) \/ Crash(i)
  PROVE  OInv'
<1>1. /\ UNCHANGED <<task, stored, ready, maxBlock, num, expired, shifted>>
      /\ faults' = faults - 1 /\ faults > 0
  BY Zenon DEF CallFails, Crash, Fault, envVars, redisVars
<1>2. faults' \in Nat /\ faults' <= faults /\ faults' # faults /\ faults' <= MaxFaults
  BY <1>1, OnceTypes
<1>3. pc'[i] \notin {"scan", "setMax", "page"}
  BY Zenon DEF CallFails, Crash, Leave, Goto, PInv, TypeOK
<1>4. \A j \in Instance \ {i} :
        pc'[j] = pc[j] /\ seen'[j] = seen[j] /\ old'[j] = old[j] /\ next'[j] = next[j]
  BY Zenon DEF CallFails, Crash, Leave, Goto, localVars, PInv, TypeOK, SInv, SkipTypes, OInv
<1>5. old' \in [Instance -> Nat]
  BY DEF CallFails, Crash, Leave, localVars, OInv
<1>6. \A d \in Deposit : pushes'[d] <= pushes[d] /\ pushes'[d] \in Nat
  <2>1. \A d \in Deposit : pushes[d] \in Nat /\ d \in DOMAIN pushes /\ pushes'[d] \in Nat
    BY Zenon, OnceTypes DEF SInv, SkipTypes
  <2>2. CASE UNCHANGED pushes
    BY <2>1, <2>2
  <2>3. ASSUME NEW D, pushes' = Dropped(D) PROVE \A d \in Deposit : pushes'[d] <= pushes[d]
    BY <2>1, <2>3 DEF Dropped
  <2> QED
    BY Zenon, <2>1, <2>2, <2>3 DEF CallFails, Crash
<1>7. ASSUME ~expired', ~shifted' PROVE PlaceInv' /\ CountInv'
  <2>1. PlaceInv /\ CountInv
    BY Zenon, <1>1, <1>7 DEF OInv
  <2>2. PlaceInv'
    BY Zenon, <1>1, <1>3, <1>4, <2>1 DEF PlaceInv, Confirmed
  <2>3. \A d \in Deposit :
          pushes'[d] <= (MaxFaults - faults') + (IF Behind(d)' THEN 1 ELSE 0)
    BY Zenon, <1>2, <1>6, <2>1, CountKept
  <2>4. Deposit' = Deposit
    BY Zenon, <1>1 DEF Deposit
  <2> QED
    BY Zenon, <2>2, <2>3, <2>4 DEF CountInv
<1> QED
  BY Zenon, <1>2, <1>5, <1>7 DEF OInv

\* Only one instance is at work, so that a step of it has to be looked at for itself only.
LEMMA OnlyOne ==
  ASSUME PInv, OInv, ~expired, ~shifted, NEW i \in Instance, pc[i] # "idle"
  PROVE  /\ PlaceInv /\ CountInv /\ NumInv
         /\ \A j \in Instance \ {i} : pc[j] = "idle"
BY Zenon DEF PInv, LockInv, OInv

\* The block number is read, or a new one is stored.
LEMMA OnceNumber ==
  ASSUME PInv, SInv, OInv, SkipTypes', NEW i \in Instance, task = "l1",
         GetL1BlockNum(i) \/ SetL1BlockNum(i)
  PROVE  OInv'
<1>1. UNCHANGED <<task, maxBlock, pushes, faults, expired, shifted, old, seen>>
  BY Zenon DEF GetL1BlockNum, SetL1BlockNum, envVars, redisVars, localVars
<1>2. /\ \A d \in Deposit : pushes'[d] <= pushes[d] /\ pushes'[d] \in Nat
      /\ faults' \in Nat /\ faults' <= faults /\ faults' <= MaxFaults
      /\ old' \in [Instance -> Nat] /\ Deposit' = Deposit
  BY <1>1, OnceTypes DEF OInv, Deposit
<1>3. \A j \in Instance \ {i} : pc'[j] = pc[j]
  BY Zenon DEF GetL1BlockNum, SetL1BlockNum, Goto, PInv, TypeOK
<1>4. ASSUME ~expired', ~shifted' PROVE PlaceInv' /\ CountInv'
  <2>1. /\ PlaceInv /\ CountInv /\ NumInv
        /\ \A j \in Instance \ {i} : pc[j] = "idle" /\ pc'[j] = "idle"
    <3>1. pc[i] # "idle"
      BY Zenon DEF GetL1BlockNum, SetL1BlockNum
    <3> QED
      BY Zenon, <1>1, <1>3, <1>4, <3>1, OnlyOne
  <2>2. CASE GetL1BlockNum(i)
    <3>1. /\ pc[i] = "get" /\ num' = num /\ next'[i] = Confirmed(num) + 1
          /\ pc'[i] \in {"release", "set", "scan"}
      BY Zenon, <2>2 DEF GetL1BlockNum, FirstBlock, Goto, redisVars, PInv, TypeOK, SInv, SkipTypes
    <3>2. Confirmed(num) \in Nat
      BY Zenon, OnceTypes
    <3>3. PlaceInv'
      <4>1. Confirmed(num)' = Confirmed(num) /\ Confirmed(num) < Confirmed(num) + 1
        BY <3>1, <3>2 DEF Confirmed
      <4> QED
        BY Zenon, <2>1, <3>1, <4>1 DEF PlaceInv
    <3>4. ASSUME NEW d \in Deposit, Behind(d) PROVE Behind(d)'
      BY Zenon, <1>1, <2>1, <3>1, <3>4 DEF Behind, Confirmed
    <3> QED
      BY Zenon, <1>2, <2>1, <3>3, <3>4, CountKept DEF CountInv
  <2>3. CASE SetL1BlockNum(i)
    <3>1. pc[i] = "set" /\ num' = seen[i] /\ pc'[i] = "release"
      BY Zenon, <2>3 DEF SetL1BlockNum, Goto, PInv, TypeOK
    <3>2. PlaceInv'
      BY Zenon, <2>1, <3>1 DEF PlaceInv
    <3>3. Confirmed(num) <= Confirmed(seen[i])
      <4>1. num < seen[i] /\ num \in Nat /\ seen[i] \in Nat /\ Confirmations \in Nat
        BY Zenon, <2>1, <3>1, OnceTypes, PushAssumption DEF NumInv
      <4> QED
        BY <4>1 DEF Confirmed
    <3>4. ASSUME NEW d \in Deposit, Behind(d) PROVE Behind(d)'
      <4>1. BlockOf[d] <= Confirmed(num) \/ BlockOf[d] <= Confirmed(seen[i])
        BY Zenon, <2>1, <3>1, <3>4 DEF Behind
      <4>2. /\ BlockOf[d] \in Nat /\ Confirmed(num) \in Nat /\ Confirmed(seen[i]) \in Nat
        BY Zenon, OnceTypes
      <4>3. BlockOf[d] <= Confirmed(seen[i])
        BY <3>3, <4>1, <4>2
      <4> QED
        BY Zenon, <1>1, <3>1, <4>3 DEF Behind, Confirmed
    <3> QED
      BY Zenon, <1>2, <2>1, <3>2, <3>4, CountKept DEF CountInv
  <2> QED
    BY Zenon, <2>2, <2>3
<1> QED
  BY Zenon, <1>2, <1>4 DEF OInv

\* The deposits of a block are pushed: the block was not behind the task, and is now.
LEMMA OnceScan ==
  ASSUME PInv, SInv, OInv, SkipTypes', NEW i \in Instance, task = "l1", GetBlockDepositList(i)
  PROVE  OInv'
<1>1. /\ UNCHANGED <<task, maxBlock, num, faults, expired, shifted, old, seen>>
      /\ pc[i] = "scan" /\ next'[i] = next[i] + 1
      /\ pc'[i] = IF next[i] < Confirmed(seen[i]) THEN "scan" ELSE "set"
  BY Zenon DEF GetBlockDepositList, LastBlock, Goto, envVars, redisVars, PInv, TypeOK, SInv,
     SkipTypes
<1>2. /\ faults' \in Nat /\ faults' <= faults /\ faults' <= MaxFaults
      /\ old' \in [Instance -> Nat] /\ Deposit' = Deposit
  BY <1>1, OnceTypes DEF OInv, Deposit
<1>3. /\ next[i] \in Nat /\ Confirmed(num) \in Nat /\ Confirmed(seen[i]) \in Nat
      /\ next[i] <= Confirmed(seen[i])
  BY Zenon, <1>1, OnceTypes DEF SInv, ScanInv
<1>4. ASSUME ~expired', ~shifted' PROVE PlaceInv' /\ CountInv'
  <2>1. PlaceInv /\ CountInv /\ \A j \in Instance \ {i} : pc[j] = "idle" /\ pc'[j] = "idle"
    <3>1. \A j \in Instance \ {i} : pc'[j] = pc[j]
      BY Zenon DEF GetBlockDepositList, Goto, PInv, TypeOK
    <3> QED
      BY Zenon, <1>1, <1>4, <3>1, OnlyOne
  <2>2. Confirmed(num) < next[i]
    BY Zenon, <1>1, <2>1 DEF PlaceInv
  <2>3. PlaceInv'
    <3>1. Confirmed(num)' = Confirmed(num) /\ Confirmed(num) < next[i] + 1
      BY <1>1, <1>3, <2>2 DEF Confirmed
    <3> QED
      BY Zenon, <1>1, <2>1, <3>1 DEF PlaceInv
  <2>4. ASSUME NEW d \in Deposit
        PROVE  /\ Behind(d) <=> BlockOf[d] < next[i]
               /\ BlockOf[d] <= next[i] => Behind(d)'
    <3>1. BlockOf[d] \in Nat
      BY Zenon, OnceTypes
    <3>2. Behind(d) <=> BlockOf[d] <= Confirmed(num) \/ BlockOf[d] < next[i]
      BY Zenon, <1>1, <2>1 DEF Behind
    <3>3. Behind(d) <=> BlockOf[d] < next[i]
      BY <1>3, <2>2, <3>1, <3>2
    <3>4. BlockOf[d] <= next[i] => BlockOf[d] < next[i] + 1 /\ BlockOf[d] <= Confirmed(seen[i])
      BY <1>3, <3>1
    <3>5. /\ pc'[i] = "scan" /\ BlockOf[d] < next[i] + 1 => Behind(d)'
          /\ pc'[i] = "set" /\ BlockOf[d] <= Confirmed(seen[i]) => Behind(d)'
      BY Zenon, <1>1 DEF Behind, Confirmed
    <3> QED
      BY Zenon, <1>1, <3>3, <3>4, <3>5
  <2>5. ASSUME NEW d \in Deposit
        PROVE  pushes'[d] <= (MaxFaults - faults') + (IF Behind(d)' THEN 1 ELSE 0)
    <3>1. BlockOf[d] \in Nat /\ pushes[d] \in Nat /\ MaxFaults \in Nat /\ faults \in Nat
      BY Zenon, OnceTypes
    <3> DEFINE D == {e \in list : BlockOf[e] = next[i]}
    <3>2. pushes'[d] = IF d \in D THEN pushes[d] + 1 ELSE pushes[d]
      BY Zenon, OnceTypes DEF GetBlockDepositList, Push, SInv, SkipTypes
    <3>3. CASE d \in D
      <4>1. BlockOf[d] = next[i]
        BY Zenon, <3>3
      <4>2. ~Behind(d) /\ Behind(d)'
        BY <1>3, <2>4, <4>1
      <4>3. pushes[d] <= MaxFaults - faults
        BY <2>1, <3>1, <4>2 DEF CountInv
      <4>4. pushes'[d] = pushes[d] + 1
        BY Zenon, <3>2, <3>3
      <4> QED
        BY <1>1, <3>1, <4>2, <4>3, <4>4
    <3>4. CASE d \notin D
      <4>1. pushes'[d] = pushes[d]
        BY Zenon, <3>2, <3>4
      <4>2. Behind(d) => Behind(d)'
        BY <1>3, <2>4, <3>1
      <4>3. pushes'[d] \in Nat /\ pushes'[d] <= pushes[d]
        BY <3>1, <4>1
      <4> HIDE DEF D
      <4> QED
        BY Zenon, <1>2, <2>1, <4>2, <4>3, CountKept
    <3> QED
      BY Zenon, <3>3, <3>4
  <2> QED
    BY Zenon, <1>2, <2>3, <2>5 DEF CountInv
<1> QED
  BY Zenon, <1>2, <1>4 DEF OInv

\* The block number of the batches is read, or a new batch or block number is stored: the
\* blocks that were behind the task stay there, the new ones are ahead.
LEMMA OnceBatch ==
  ASSUME PInv, SInv, OInv, SkipTypes', NEW i \in Instance,
         SetBatchNum(i) \/ GetMaxBlockNum(i) \/ SetMaxBlockNum(i)
  PROVE  OInv'
<1>1. UNCHANGED <<task, stored, ready, pushes, faults, expired, shifted, seen>>
  BY Zenon DEF SetBatchNum, GetMaxBlockNum, SetMaxBlockNum, envVars, redisVars, localVars
<1>2. /\ \A d \in Deposit : pushes'[d] <= pushes[d] /\ pushes'[d] \in Nat
      /\ faults' \in Nat /\ faults' <= faults /\ faults' <= MaxFaults /\ Deposit' = Deposit
  BY <1>1, OnceTypes DEF OInv, Deposit
<1>3. old' \in [Instance -> Nat]
  BY Zenon, OnceTypes DEF SetBatchNum, GetMaxBlockNum, SetMaxBlockNum, localVars, OInv
<1>4. ASSUME ~expired', ~shifted' PROVE PlaceInv' /\ CountInv'
  <2>1. /\ PlaceInv /\ CountInv /\ NumInv /\ ~expired
        /\ \A j \in Instance \ {i} : pc[j] = "idle" /\ pc'[j] = "idle"
    <3>1. pc[i] # "idle" /\ \A j \in Instance \ {i} : pc'[j] = pc[j]
      BY Zenon DEF SetBatchNum, GetMaxBlockNum, SetMaxBlockNum, Goto, PInv, TypeOK
    <3> QED
      BY Zenon, <1>1, <1>4, <3>1, OnlyOne
  <2>2. task # "l1" /\ pc[i] # "page"
    BY Zenon, <2>1 DEF SetBatchNum, GetMaxBlockNum, SetMaxBlockNum, NumInv
  <2>3. CASE SetBatchNum(i) \/ GetMaxBlockNum(i)
    <3>1. /\ maxBlock' = maxBlock /\ pc'[i] \notin {"scan", "page"}
          /\ pc'[i] = "setMax" => old'[i] = maxBlock
      BY Zenon, <2>3 DEF SetBatchNum, GetMaxBlockNum, Goto, redisVars, PInv, TypeOK, OInv
    <3>2. PlaceInv'
      BY Zenon, <2>1, <3>1 DEF PlaceInv
    <3>3. \A d \in Deposit : Behind(d) => Behind(d)'
      BY Zenon, <1>1, <2>1, <2>2, <3>1 DEF Behind, Ahead
    <3> QED
      BY Zenon, <1>2, <2>1, <3>2, <3>3, CountKept DEF CountInv
  <2>4. CASE SetMaxBlockNum(i)
    <3>1. /\ maxBlock' = BatchEnd[seen[i]] /\ pc[i] = "setMax" /\ old' = old
          /\ pc'[i] \in {"release", "page"}
      BY Zenon, <2>2, <2>4 DEF SetMaxBlockNum, LastBlock, Goto, PInv, TypeOK
    <3>2. PlaceInv'
      BY Zenon, <1>1, <2>1, <2>2, <3>1 DEF PlaceInv
    <3>3. old[i] = maxBlock /\ maxBlock' >= maxBlock /\ maxBlock' \in Nat /\ maxBlock \in Nat
      BY Zenon, <2>1, <2>4, <3>1, LaterBatch, OnceTypes DEF PlaceInv
    <3>4. ASSUME NEW d \in Deposit, Behind(d) PROVE Behind(d)'
      <4>1. BlockOf[d] <= maxBlock /\ BlockOf[d] \in Nat
        BY Zenon, <2>2, <3>4, OnceTypes DEF Behind
      <4>2. BlockOf[d] <= maxBlock'
        BY <3>3, <4>1
      <4>3. ~(old'[i] < BlockOf[d])
        BY <3>1, <3>3, <4>1
      <4>4. \A j \in Instance : ~Ahead(j, d)'
        BY Zenon, <2>1, <4>3 DEF Ahead, Rows, InRange
      <4> QED
        BY Zenon, <1>1, <2>2, <4>2, <4>4 DEF Behind
    <3> QED
      BY Zenon, <1>2, <2>1, <3>2, <3>4, CountKept DEF CountInv
  <2> QED
    BY Zenon, <2>3, <2>4
<1> QED
  BY Zenon, <1>2, <1>3, <1>4 DEF OInv

\* A page is pushed: its rows were ahead, and are behind the task now.  The rows do not
\* change while they are read, so the pages have no row in common.
LEMMA OncePage ==
  ASSUME PInv, SInv, OInv, SkipTypes', NEW i \in Instance, PushStatusChangedMsg(i)
  PROVE  OInv'
<1>1. /\ UNCHANGED <<task, stored, ready, maxBlock, num, faults, expired, shifted, old, seen>>
      /\ pc[i] = "page" /\ next'[i] = next[i] + PageLimit /\ pc'[i] \in {"page", "release"}
  BY Zenon DEF PushStatusChangedMsg, Goto, envVars, redisVars, PInv, TypeOK, SInv, SkipTypes
<1>2. /\ faults' \in Nat /\ faults' <= faults /\ faults' <= MaxFaults
      /\ old' \in [Instance -> Nat] /\ Deposit' = Deposit
  BY <1>1, OnceTypes DEF OInv, Deposit
<1>3. next[i] \in Nat /\ PageLimit \in Nat \ {0}
  BY Zenon, OnceTypes
<1>4. ASSUME ~expired', ~shifted' PROVE PlaceInv' /\ CountInv'
  <2>1. PlaceInv /\ CountInv /\ \A j \in Instance \ {i} : pc[j] = "idle" /\ pc'[j] = "idle"
    <3>1. \A j \in Instance \ {i} : pc'[j] = pc[j]
      BY Zenon DEF PushStatusChangedMsg, Goto, PInv, TypeOK
    <3> QED
      BY Zenon, <1>1, <1>4, <3>1, OnlyOne
  <2>2. task # "l1" /\ BatchEnd[seen[i]] = maxBlock
    BY Zenon, <1>1, <2>1 DEF PlaceInv
  <2>3. PlaceInv'
    BY Zenon, <1>1, <2>1, <2>2 DEF PlaceInv
  <2>4. Rows(i)' = Rows(i)
    BY Zenon, <1>1, SameRows
  <2>5. ASSUME NEW d \in Deposit PROVE Rank(i, d) \in Nat /\ Rank(i, d)' = Rank(i, d)
    <3>1. IsFiniteSet(L1Deposit) /\ IsFiniteSet(L2Deposit)
      BY Zenon, PushAssumption
    <3>2. IsFiniteSet(Deposit)
      BY Zenon, <3>1, FS_EmptySet DEF Deposit, PInv, TypeOK
    <3>3. {e \in Rows(i) : e > d} \subseteq Deposit
      BY Zenon DEF Rows, SInv, SkipTypes
    <3>4. IsFiniteSet({e \in Rows(i) : e > d})
      BY Zenon, <3>2, <3>3, FS_Subset
    <3> QED
      BY Zenon, <2>4, <3>4, FS_CardinalityType DEF Rank
  <2>6. ASSUME NEW d \in Deposit
        PROVE  /\ Behind(d) <=> BlockOf[d] <= maxBlock /\ ~Ahead(i, d)
               /\ Behind(d)' <=> BlockOf[d] <= maxBlock /\ ~Ahead(i, d)'
               /\ Ahead(i, d) <=> d \in Rows(i) /\ next[i] <= Rank(i, d)
               /\ Ahead(i, d)' => d \in Rows(i) /\ next[i] + PageLimit <= Rank(i, d)
    <3>1. \A j \in Instance \ {i} : ~Ahead(j, d) /\ ~Ahead(j, d)'
      BY Zenon, <2>1 DEF Ahead
    <3>2. /\ Behind(d) <=> BlockOf[d] <= maxBlock /\ ~Ahead(i, d)
          /\ Behind(d)' <=> BlockOf[d] <= maxBlock /\ ~Ahead(i, d)'
      BY Zenon, <1>1, <2>2, <3>1 DEF Behind
    <3>3. Ahead(i, d) <=> d \in Rows(i) /\ next[i] <= Rank(i, d)
      BY Zenon, <1>1 DEF Ahead
    <3>4. Ahead(i, d)' => d \in Rows(i) /\ next[i] + PageLimit <= Rank(i, d)
      BY Zenon, <1>1, <2>4, <2>5 DEF Ahead
    <3> QED
      BY Zenon, <3>2, <3>3, <3>4
  <2>7. ASSUME NEW d \in Deposit
        PROVE  pushes'[d] <= (MaxFaults - faults') + (IF Behind(d)' THEN 1 ELSE 0)
    <3>1. BlockOf[d] \in Nat /\ pushes[d] \in Nat /\ MaxFaults \in Nat /\ faults \in Nat
      BY Zenon, OnceTypes
    <3>2. pushes'[d] = IF d \in Page(i) THEN pushes[d] + 1 ELSE pushes[d]
      BY Zenon, OnceTypes DEF PushStatusChangedMsg, Push, SInv, SkipTypes
    <3>3. CASE d \in Page(i)
      <4>1. d \in Rows(i) /\ next[i] <= Rank(i, d) /\ Rank(i, d) < next[i] + PageLimit
        BY Zenon, <3>3 DEF Page, Rank
      <4>2. ~(next[i] + PageLimit <= Rank(i, d))
        BY <1>3, <2>5, <4>1
      <4>3. BlockOf[d] <= maxBlock
        BY Zenon, <2>2, <4>1 DEF Rows, InRange, LastBlock
      <4>4. ~Behind(d) /\ Behind(d)'
        BY Zenon, <2>6, <4>1, <4>2, <4>3
      <4>5. pushes[d] <= MaxFaults - faults
        BY <2>1, <3>1, <4>4 DEF CountInv
      <4>6. pushes'[d] = pushes[d] + 1
        BY Zenon, <3>2, <3>3
      <4> QED
        BY <1>1, <3>1, <4>4, <4>5, <4>6
    <3>4. CASE d \notin Page(i)
      <4>1. pushes'[d] \in Nat /\ pushes'[d] <= pushes[d]
        BY <3>1, <3>2, <3>4
      <4>2. next[i] + PageLimit <= Rank(i, d) => next[i] <= Rank(i, d)
        BY <1>3, <2>5
      <4>3. Behind(d) => Behind(d)'
        BY Zenon, <2>6, <4>2
      <4> QED
        BY Zenon, <1>2, <2>1, <4>1, <4>3, CountKept
    <3> QED
      BY Zenon, <3>3, <3>4
  <2> QED
    BY Zenon, <1>2, <2>3, <2>7 DEF CountInv
<1> QED
  BY Zenon, <1>2, <1>4 DEF OInv

\* The third invariant holds in every state.
THEOREM OnceInvariant == Spec => []OInv
<1>1. PInv /\ SInv /\ OInv /\ [Next]_vars => OInv'
  <2> SUFFICES ASSUME PInv, SInv, OInv, [Next]_vars PROVE OInv'
    BY Zenon
  <2>1. SkipTypes' /\ faults \in Nat
    BY Zenon, SkipTypesStep, OnceTypes
  <2>2. ASSUME Fault PROVE faults' \in Nat /\ faults' <= faults
    BY <2>1, <2>2 DEF Fault
  <2>3. CASE \/ Grow \/ LockExpires \/ LockExpiresEarly
             \/ \E d \in Deposit : \/ SyncDeposit(d) \/ MakeReady(d) \/ SyncFails(d)
                                   \/ MakeReadyFails(d) \/ PushFails(d)
             \/ \E b : Reorg(b) \/ ListExpires(b)
             \/ UNCHANGED vars
    BY Zenon, <2>1, <2>3, OnceEnvStep
  <2>4. ASSUME NEW i \in Instance,
               \/ Query(i, top) /\ UNCHANGED faults
               \/ top > 0 /\ Query(i, top - 1) /\ Fault
        PROVE  OInv'
    <3>1. /\ \E n \in 0..top : Query(i, n)
          /\ faults' \in Nat /\ faults' <= faults
      BY <2>1, <2>2, <2>4 DEF PInv, TypeOK
    <3> QED
      BY Zenon, <2>1, <3>1, OnceQuietStep
  <2>5. ASSUME NEW i \in Instance,
               \/ Begin(i) \/ End(i) \/ ReleaseFails(i) \/ CheckLatestBatchLegal(i)
               \/ LPushTime(i) \/ LLenTimes(i) \/ RPopTime(i) \/ SetAvgFails(i)
        PROVE  OInv'
    <3>1. faults' \in Nat /\ faults' <= faults
      BY <2>1, <2>2, <2>5 DEF Begin, End, ReleaseFails, CheckLatestBatchLegal, LPushTime,
                              LLenTimes, RPopTime, SetAvgFails
    <3> QED
      BY Zenon, <2>1, <2>5, <3>1, OnceQuietStep
  <2>6. ASSUME NEW i \in Instance, GetL1BlockNum(i) \/ SetL1BlockNum(i) \/ GetBlockDepositList(i)
        PROVE  OInv'
    <3>1. CASE task = "l1"
      BY Zenon, <2>1, <2>6, <3>1, OnceNumber, OnceScan
    <3>2. CASE task # "l1"
      <4>1. expired' = expired /\ UNCHANGED <<faults, old>>
        BY Zenon, <2>6 DEF GetL1BlockNum, SetL1BlockNum, GetBlockDepositList, localVars
      <4>2. expired
        BY Zenon, <2>6, <3>2 DEF GetL1BlockNum, SetL1BlockNum, GetBlockDepositList, PInv, NumInv
      <4> QED
        BY Zenon, <4>1, <4>2 DEF OInv
    <3> QED
      BY Zenon, <3>1, <3>2
  <2>7. ASSUME NEW i \in Instance,
               \/ SetBatchNum(i) \/ GetMaxBlockNum(i) \/ SetMaxBlockNum(i)
               \/ PushStatusChangedMsg(i) \/ CallFails(i) \/ Crash(i)
        PROVE  OInv'
    BY Zenon, <2>1, <2>7, OnceBatch, OncePage, OnceFails
  <2> QED
    BY Zenon, <2>3, <2>4, <2>5, <2>6, <2>7 DEF Next, TaskStep
<1> QED
  BY <1>1, OInvInit, SkipInvariant, PushInvariant, PTL DEF Spec

\* For any number of instances, blocks, batches, page sizes, reorganisations and failures: as
\* long as the lock does not expire under the task that holds it and the rows do not change
\* while their pages are read, a deposit is pushed once for every block it is mined in, and
\* once more for each failure (TryLock, doTask, pushStatusChangedMsg).
THEOREM PushedOnlyOnce == Spec => []PushedOnce
<1>1. PInv /\ SInv /\ OInv => PushedOnce
  <2> SUFFICES ASSUME PInv, SInv, OInv, ~expired, ~shifted, NEW d \in Deposit
               PROVE  pushes[d] <= 1 + (MaxFaults - faults)
    BY Zenon DEF PushedOnce
  <2>1. pushes[d] <= (MaxFaults - faults) + (IF Behind(d) THEN 1 ELSE 0)
    BY Zenon DEF OInv, CountInv
  <2> QED
    BY <2>1, OnceTypes
<1> QED
  BY <1>1, OnceInvariant, SkipInvariant, PushInvariant, PTL

-----------------------------------------------------------------------------
(***************************************************************************)
(* A page that is not full is the last one.                                *)
(***************************************************************************)
\* How many numbers of S are greater than d.
Greater(S, d) == Cardinality({e \in S : e > d})

\* Every nonempty set of natural numbers has a least element.
LEMMA LeastOf ==
  ASSUME NEW T \in SUBSET Nat, T # {}
  PROVE  \E x \in T : \A y \in T : x <= y
<1> DEFINE Less == OpToRel(<, Nat)
<1>1. PICK x \in T : \A y \in T : <<y, x>> \notin Less
  BY Zenon, NatLessThanWellFounded, WFMin
<1>2. ASSUME NEW y \in T PROVE x <= y
  <2>1. ~(y < x)
    BY Zenon, <1>1 DEF OpToRel
  <2> QED
    BY <2>1
<1> QED
  BY Zenon, <1>2

\* The greater a number, the fewer are greater still.
LEMMA GreaterFalls ==
  ASSUME NEW S \in SUBSET Nat, IsFiniteSet(S), NEW d \in S, NEW e \in S, d < e
  PROVE  Greater(S, d) \in Nat /\ Greater(S, e) \in Nat /\ Greater(S, e) < Greater(S, d)
<1> DEFINE D == {x \in S : x > d}
           E == {x \in S : x > e}
<1>1. IsFiniteSet(D)
  <2>1. D \in SUBSET S
    BY Zenon
  <2> QED
    BY Zenon, <2>1, FS_Subset
<1>n. \A x \in S : x \in Nat
  BY Zenon
<1>a. E \in SUBSET D
  <2>1. ASSUME NEW x \in S, x > e PROVE x > d
    BY <1>n, <2>1
  <2> QED
    BY Zenon, <2>1
<1>b. e \in D /\ e \notin E
  BY <1>n
<1>2. E \in SUBSET D /\ e \in D /\ e \notin E
  BY Zenon, <1>a, <1>b
<1> HIDE DEF D, E
<1>3. IsFiniteSet(E) /\ Cardinality(E) <= Cardinality(D) /\ Cardinality(D) # Cardinality(E)
  BY Zenon, <1>1, <1>2, FS_Subset
<1>4. Cardinality(D) \in Nat /\ Cardinality(E) \in Nat
  BY Zenon, <1>1, <1>3, FS_CardinalityType
<1>5. Cardinality(E) < Cardinality(D)
  BY <1>3, <1>4
<1> QED
  BY Zenon, <1>4, <1>5 DEF Greater, D, E

\* A nonempty part of a finite set of numbers has a greatest one.
LEMMA GreatestOf ==
  ASSUME NEW S \in SUBSET Nat, IsFiniteSet(S), NEW T \in SUBSET S, T # {}
  PROVE  \E m \in T : \A x \in T : x <= m
<1> DEFINE R == {Greater(S, x) : x \in T}
<1>1. \A x \in S : Greater(S, x) \in Nat
  <2> TAKE x \in S
  <2>1. {e \in S : e > x} \in SUBSET S
    BY Zenon
  <2> QED
    BY Zenon, <2>1, FS_Subset, FS_CardinalityType DEF Greater
<1>2. R \in SUBSET Nat /\ R # {}
  BY Zenon, <1>1
<1>3. PICK r \in R : \A q \in R : r <= q
  BY Zenon, <1>2, LeastOf
<1>4. PICK m \in T : r = Greater(S, m)
  BY Zenon
<1>5. ASSUME NEW x \in T PROVE x <= m
  <2>1. Greater(S, m) <= Greater(S, x)
    BY Zenon, <1>3, <1>4
  <2>2. ~(m < x)
    <3> SUFFICES ASSUME m < x PROVE FALSE
      BY Zenon
    <3>1. /\ Greater(S, m) \in Nat /\ Greater(S, x) \in Nat
          /\ Greater(S, x) < Greater(S, m)
      BY Zenon, GreaterFalls
    <3> QED
      BY <2>1, <3>1
  <2> QED
    BY <2>2
<1> QED
  BY Zenon, <1>5

\* The places before that of a number are all taken.
LEMMA PlacesTaken ==
  ASSUME NEW S \in SUBSET Nat, IsFiniteSet(S), NEW d \in S, NEW k \in Nat, k <= Greater(S, d)
  PROVE  \E e \in S : Greater(S, e) = k
<1> DEFINE B == {n \in 0..Greater(S, d) : \A e \in S : Greater(S, e) # n}
<1>n. \A x \in S : x \in Nat
  BY Zenon
<1>g. \A x \in S : /\ IsFiniteSet({e \in S : e > x})
                   /\ Greater(S, x) \in Nat
  <2> TAKE x \in S
  <2>1. {e \in S : e > x} \in SUBSET S
    BY Zenon
  <2> QED
    BY Zenon, <2>1, FS_Subset, FS_CardinalityType DEF Greater
<1> SUFFICES ASSUME B # {} PROVE FALSE
  BY <1>g
<1>1. PICK n \in B : \A m \in B : n <= m
  <2>1. B \in SUBSET Nat
    BY <1>g
  <2> HIDE DEF B
  <2> QED
    BY Zenon, <2>1, LeastOf
<1>2. n \in Nat /\ n <= Greater(S, d) /\ \A e \in S : Greater(S, e) # n
  BY <1>g, <1>1
<1>3. CASE n = 0
  <2>1. PICK m \in S : \A x \in S : x <= m
    BY Zenon, GreatestOf
  <2>2. {e \in S : e > m} = {}
    <3>1. \A e \in S : ~(e > m)
      BY <1>n, <2>1
    <3> QED
      BY Zenon, <3>1
  <2>3. Greater(S, m) = 0
    BY Zenon, <2>2, FS_EmptySet DEF Greater
  <2> QED
    BY Zenon, <1>2, <1>3, <2>3
<1>4. CASE n # 0
  <2>1. PICK e \in S : Greater(S, e) = n - 1
    <3>0. Greater(S, d) \in Nat
      BY Zenon, <1>g
    <3>1. n - 1 \in 0..Greater(S, d)
      BY <1>2, <1>4, <3>0
    <3>2. n - 1 \notin B
      <4>1. ~(n <= n - 1)
        BY <1>2
      <4> HIDE DEF B
      <4> QED
        BY Zenon, <1>1, <4>1
    <3> QED
      BY Zenon, <3>1, <3>2
  <2> DEFINE T == {x \in S : x < e}
  <2>2. d \in T
    <3>1. d # e /\ ~(e < d)
      <4>0. Greater(S, d) \in Nat /\ Greater(S, e) \in Nat
        BY Zenon, <1>g
      <4>1. Greater(S, e) < Greater(S, d)
        BY <1>2, <2>1, <4>0
      <4>2. ~(e < d)
        <5> SUFFICES ASSUME e < d PROVE FALSE
          BY Zenon
        <5>1. Greater(S, d) < Greater(S, e)
          BY Zenon, GreaterFalls
        <5> QED
          BY <4>0, <4>1, <5>1
      <4>3. d # e
        BY <4>0, <4>1
      <4> QED
        BY Zenon, <4>2, <4>3
    <3> QED
      BY <1>n, <3>1
  <2>3. PICK m \in T : \A x \in T : x <= m
    <3>1. T \in SUBSET S /\ T # {}
      BY Zenon, <2>2
    <3> HIDE DEF T
    <3> QED
      BY Zenon, <3>1, GreatestOf
  <2>4. {x \in S : x > m} = {x \in S : x > e} \cup {e}
    <3>1. m \in S /\ m < e
      BY Zenon, <2>3
    <3>2. ASSUME NEW x \in S, x > m, x # e PROVE x > e
      <4>1. ~(x < e)
        BY <1>n, <2>3, <3>1, <3>2
      <4> QED
        BY <1>n, <3>2, <4>1
    <3>3. ASSUME NEW x \in S, x > e \/ x = e PROVE x > m
      BY <1>n, <3>1, <3>3
    <3> QED
      BY Zenon, <3>2, <3>3
  <2>5. Greater(S, m) = n
    <3>1. e \notin {x \in S : x > e} /\ IsFiniteSet({x \in S : x > e})
      BY <1>g
    <3>2. Cardinality({x \in S : x > e} \cup {e}) = Cardinality({x \in S : x > e}) + 1
      BY Zenon, <3>1, FS_AddElement
    <3>3. Greater(S, m) = Greater(S, e) + 1
      BY Zenon, <2>4, <3>2 DEF Greater
    <3> QED
      BY <1>2, <2>1, <3>3
  <2> QED
    BY Zenon, <1>2, <2>3, <2>5
<1> QED
  BY Zenon, <1>3, <1>4

\* When a row comes after the page that starts at n, the page is full.
LEMMA FullPage ==
  ASSUME NEW S \in SUBSET Nat, IsFiniteSet(S), NEW d \in S, NEW n \in Nat, NEW m \in Nat,
         n + m <= Greater(S, d)
  PROVE  m <= Cardinality({e \in S : n <= Greater(S, e) /\ Greater(S, e) < n + m})
<1> DEFINE P == {e \in S : n <= Greater(S, e) /\ Greater(S, e) < n + m}
           K == n..(n + m - 1)
           f == [k \in K |-> CHOOSE e \in S : Greater(S, e) = k]
<1>1. \A k \in K : f[k] \in S /\ Greater(S, f[k]) = k
  <2> TAKE k \in K
  <2>1. Greater(S, d) \in Nat
    <3>1. {e \in S : e > d} \in SUBSET S
      BY Zenon
    <3> QED
      BY Zenon, <3>1, FS_Subset, FS_CardinalityType DEF Greater
  <2>2. k \in Nat /\ k <= Greater(S, d)
    BY <2>1
  <2>3. \E e \in S : Greater(S, e) = k
    BY Zenon, <2>2, PlacesTaken
  <2> QED
    BY Zenon, <2>3
<1>2. f \in [K -> P]
  BY <1>1
<1>3. \A j, k \in K : f[j] = f[k] => j = k
  BY Zenon, <1>1
<1>4. IsFiniteSet(P)
  <2>1. P \in SUBSET S
    BY Zenon
  <2> QED
    BY Zenon, <2>1, FS_Subset
<1>5. Cardinality(K) = m
  BY FS_Interval
<1> HIDE DEF P, K, f
<1>6. f \in Injection(K, P)
  BY Zenon, <1>2, <1>3, Fun_IsInj
<1>7. Cardinality(K) <= Cardinality(P)
  BY Zenon, <1>4, <1>6, FS_Injection
<1> QED
  BY Zenon, <1>5, <1>7 DEF P

-----------------------------------------------------------------------------
(***************************************************************************)
(* CommittedBatchHandler leaves no deposit out, either.                    *)
(***************************************************************************)
\* The block of d is after those that Redis and the instances at work have passed.
Untouched(d) ==
  /\ BlockOf[d] > maxBlock
  /\ \A i \in Instance : pc[i] = "setMax" /\ BlockOf[d] <= BatchEnd[seen[i]] => old[i] < BlockOf[d]

\* An open deposit is on a page that an instance has still to read, or its block has not been
\* passed.
PageInv == \A d \in stored : Open(d) => (\E i \in Instance : Ahead(i, d)) \/ Untouched(d)

QInv == task = "commit" /\ ~shifted => PageInv

\* A step that opens no deposit, takes none from its page and leaves alone the numbers.
LEMMA PageStill ==
  ASSUME PageInv, UNCHANGED maxBlock,
         \A d \in stored' : Open(d)' =>
           d \in stored /\ Open(d) /\ \A i \in Instance : Ahead(i, d) => Ahead(i, d)',
         \A j \in Instance : pc'[j] = "setMax" =>
           pc[j] = "setMax" /\ seen'[j] = seen[j] /\ old'[j] = old[j]
  PROVE  PageInv'
<1> SUFFICES ASSUME NEW d \in stored', Open(d)'
             PROVE  (\E i \in Instance : Ahead(i, d)') \/ Untouched(d)'
  BY Zenon DEF PageInv
<1>1. (\E i \in Instance : Ahead(i, d)) \/ Untouched(d)
  BY Zenon DEF PageInv
<1>2. Untouched(d) => Untouched(d)'
  BY Zenon DEF Untouched
<1> QED
  BY Zenon, <1>1, <1>2

\* The place of a row does not change when the instance and its rows do not.
LEMMA AheadKept ==
  ASSUME NEW i \in Instance, NEW d, pc'[i] = pc[i], next'[i] = next[i], Rows(i)' = Rows(i)
  PROVE  Ahead(i, d) => Ahead(i, d)'
BY Zenon DEF Ahead, Rank

\* A step of the chain, the synchronizer, the claim manager or Kafka.  A deposit that arrives
\* too late is an exception, and so is a change of the rows that somebody is reading.
LEMMA PageEnvStep ==
  ASSUME PInv, SInv, OInv, SkipTypes', task = "commit", ~shifted', ~shifted => PageInv,
         \/ Grow \/ LockExpires \/ LockExpiresEarly
         \/ \E d \in Deposit : \/ SyncDeposit(d) \/ MakeReady(d) \/ SyncFails(d)
                               \/ MakeReadyFails(d) \/ PushFails(d)
         \/ \E b : Reorg(b) \/ ListExpires(b)
         \/ UNCHANGED vars
  PROVE  PageInv'
<1>1. CASE Grow \/ LockExpires \/ LockExpiresEarly \/ UNCHANGED vars
  <2>1. UNCHANGED <<task, stored, ready, lost, maxBlock, pushes, shifted, pc, seen, old, next>>
    BY Zenon, <1>1 DEF Grow, LockExpires, LockExpiresEarly, vars, envVars, redisVars, localVars
  <2>2. \A i \in Instance, d \in stored : Ahead(i, d) => Ahead(i, d)'
    BY Zenon, <2>1, SameRows, AheadKept
  <2> QED
    BY Zenon, <2>1, <2>2, PageStill DEF Open
<1>2. ASSUME NEW d \in Deposit, SyncDeposit(d) \/ MakeReady(d) PROVE PageInv'
  <2>1. /\ UNCHANGED <<task, maxBlock, pushes, pc, seen, old, next>>
        /\ shifted' = (shifted \/ Shifts(d)) /\ lost \subseteq lost'
        /\ stored' \ {d} = stored \ {d} /\ ready' \ {d} = ready \ {d}
    BY Zenon, <1>2 DEF SyncDeposit, MakeReady, localVars
  <2>2. ~shifted /\ ~Shifts(d) /\ PageInv
    BY Zenon, <2>1
  <2>3. ASSUME NEW j \in Instance, pc[j] = "page" PROVE Rows(j)' = Rows(j)
    <3>1. ~InRange(j, d)
      BY Zenon, <2>2, <2>3 DEF Shifts
    <3>2. \A e : InRange(j, e)' <=> InRange(j, e)
      BY Zenon, <2>1 DEF InRange, LastBlock, Confirmed
    <3>3. \A e : e # d => (e \in stored' \ ready' <=> e \in stored \ ready)
      BY Zenon, <2>1
    <3> QED
      BY Zenon, <3>1, <3>2, <3>3 DEF Rows
  <2>4. \A j \in Instance : \A e : Ahead(j, e) => Ahead(j, e)'
    <3> TAKE j \in Instance
    <3>1. CASE pc[j] = "page"
      BY Zenon, <2>1, <2>3, <3>1, AheadKept
    <3>2. CASE pc[j] # "page"
      BY Zenon, <3>2 DEF Ahead
    <3> QED
      BY Zenon, <3>1, <3>2
  <2>5. CASE MakeReady(d)
    <3>1. ~Open(d)' /\ stored' = stored
      BY Zenon, <2>5 DEF MakeReady, Open
    <3>2. \A e \in stored' : Open(e)' => Open(e)
      BY Zenon, <2>1, <3>1 DEF Open
    <3> QED
      BY Zenon, <2>1, <2>2, <2>4, <3>1, <3>2, PageStill
  <2>6. CASE SyncDeposit(d)
    <3> SUFFICES ASSUME NEW e \in stored', Open(e)'
                 PROVE  (\E i \in Instance : Ahead(i, e)') \/ Untouched(e)'
      BY Zenon DEF PageInv
    <3>1. CASE e = d
      <4>1. ~Passed(BlockOf[d])
        BY Zenon, <2>6, <3>1 DEF SyncDeposit, Open
      <4>2. /\ ~(BlockOf[d] <= maxBlock)
            /\ \A i \in Instance : pc[i] = "setMax" => ~(BlockOf[d] <= BatchEnd[seen[i]])
        BY Zenon, <4>1 DEF Passed, Working, LastBlock
      <4>3. BlockOf[d] > maxBlock
        BY <4>2, OnceTypes
      <4> QED
        BY Zenon, <2>1, <3>1, <4>2, <4>3 DEF Untouched
    <3>2. CASE e # d
      <4>1. e \in stored /\ Open(e)
        BY Zenon, <2>1, <3>2 DEF Open
      <4>2. (\E i \in Instance : Ahead(i, e)) \/ Untouched(e)
        BY Zenon, <2>2, <4>1 DEF PageInv
      <4>3. Untouched(e) => Untouched(e)'
        BY Zenon, <2>1 DEF Untouched
      <4> QED
        BY Zenon, <2>4, <4>2, <4>3
    <3> QED
      BY Zenon, <3>1, <3>2
  <2> QED
    BY Zenon, <1>2, <2>5, <2>6
<1>3. ASSUME NEW d \in Deposit, PushFails(d) PROVE PageInv'
  <2>1. /\ UNCHANGED <<task, stored, ready, maxBlock, shifted, pc, seen, old, next>>
        /\ lost' = lost \cup {d} /\ pushes' = Dropped({d})
    BY Zenon, <1>3 DEF PushFails, envVars, redisVars, localVars
  <2>2. \A i \in Instance, e \in stored : Ahead(i, e) => Ahead(i, e)'
    BY Zenon, <2>1, SameRows, AheadKept
  <2>3. ASSUME NEW e \in stored, Open(e)' PROVE Open(e)
    <3>1. e # d /\ e \notin lost
      BY Zenon, <2>1, <2>3 DEF Open
    <3>2. e \in DOMAIN pushes
      BY Zenon, OnceTypes DEF SInv, SkipTypes
    <3>3. pushes'[e] = pushes[e]
      BY Zenon, <2>1, <3>1, <3>2 DEF Dropped
    <3> QED
      BY Zenon, <2>1, <2>3, <3>1, <3>3 DEF Open
  <2> QED
    BY Zenon, <2>1, <2>2, <2>3, PageStill
<1>4. ASSUME NEW d \in Deposit PROVE ~SyncFails(d) /\ ~MakeReadyFails(d)
  BY Zenon DEF SyncFails, MakeReadyFails
<1>5. ASSUME NEW b, Reorg(b) \/ ListExpires(b) PROVE PageInv'
  <2>1. /\ UNCHANGED <<maxBlock, pushes, pc, seen, old, next>> /\ stored' \subseteq stored
        /\ lost \subseteq lost' /\ ~shifted
        /\ \A d : d \in stored' => (d \in ready' <=> d \in ready)
    BY Zenon, <1>5, ReorgRows, ListRows
  <2>2. \A j \in Instance : pc[j] = "page" => Rows(j)' = Rows(j)
    BY Zenon, <1>5, ReorgPages, ListRows, SameRows
  <2>3. ASSUME NEW j \in Instance, NEW e, Ahead(j, e) PROVE Ahead(j, e)'
    BY Zenon, <2>1, <2>2, <2>3, AheadKept DEF Ahead
  <2>4. \A e \in stored' : Open(e)' => e \in stored /\ Open(e)
    BY Zenon, <2>1 DEF Open
  <2> QED
    BY Zenon, <2>1, <2>3, <2>4, PageStill
<1> QED
  BY Zenon, <1>1, <1>2, <1>3, <1>4, <1>5

\* A step of an instance that reads no page and is not about to.
LEMMA PageQuietStep ==
  ASSUME PInv, SInv, OInv, SkipTypes', task = "commit", PageInv, NEW i \in Instance,
         \/ Begin(i) \/ End(i) \/ ReleaseFails(i) \/ \E n \in 0..top : Query(i, n)
         \/ CheckLatestBatchLegal(i) \/ LPushTime(i) \/ LLenTimes(i) \/ RPopTime(i)
         \/ SetAvgFails(i) \/ SetBatchNum(i) \/ SetL1BlockNum(i) \/ GetBlockDepositList(i)
  PROVE  PageInv'
<1>1. UNCHANGED <<task, stored, ready, lost, maxBlock>>
  BY Zenon DEF Begin, End, ReleaseFails, Query, CheckLatestBatchLegal, LPushTime, LLenTimes,
     RPopTime,
         SetAvgFails, SetBatchNum, SetL1BlockNum, GetBlockDepositList, envVars, redisVars
<1>2. pc[i] # "page" /\ pc'[i] # "setMax"
  BY Zenon DEF Begin, End, ReleaseFails, Query, CheckLatestBatchLegal, LPushTime, LLenTimes,
     RPopTime,
         SetAvgFails, SetBatchNum, SetL1BlockNum, GetBlockDepositList, AfterTimes, Leave, Goto,
         PInv, TypeOK
<1>3. \A j \in Instance \ {i} :
        pc'[j] = pc[j] /\ seen'[j] = seen[j] /\ old'[j] = old[j] /\ next'[j] = next[j]
  BY Zenon DEF Begin, End, ReleaseFails, Query, CheckLatestBatchLegal, LPushTime, LLenTimes,
     RPopTime,
         SetAvgFails, SetBatchNum, SetL1BlockNum, GetBlockDepositList, Leave, Goto, localVars,
         PInv, TypeOK, SInv, SkipTypes, OInv
<1>4. ASSUME NEW j \in Instance, NEW d, Ahead(j, d) PROVE Ahead(j, d)'
  <2>1. j # i
    BY Zenon, <1>2, <1>4 DEF Ahead
  <2> QED
    BY Zenon, <1>1, <1>3, <1>4, <2>1, SameRows, AheadKept
<1>5. ASSUME NEW d \in stored, Open(d)' PROVE Open(d)
  <2>1. pushes[d] \in Nat /\ d \in DOMAIN pushes
    BY Zenon, OnceTypes DEF SInv, SkipTypes
  <2>2. pushes' = pushes \/ \E D : Push(D)
    BY Zenon DEF Begin, End, ReleaseFails, Query, CheckLatestBatchLegal, LPushTime, LLenTimes,
           RPopTime, SetAvgFails, SetBatchNum, SetL1BlockNum, GetBlockDepositList
  <2>3. pushes[d] = 0
    BY <1>5, <2>1, <2>2 DEF Open, Push
  <2> QED
    BY Zenon, <1>1, <1>5, <2>3 DEF Open
<1> QED
  BY Zenon, <1>1, <1>2, <1>3, <1>4, <1>5, PageStill

\* The call of an instance fails, or it dies: what it had still to push is lost.
LEMMA PageFails ==
  ASSUME PInv, SInv, OInv, SkipTypes', task = "commit", PageInv, NEW i \in Instance,
         CallFails(i) \/ Crash(i)
  PROVE  PageInv'
<1>1. UNCHANGED <<task, stored, ready, maxBlock>>
  BY Zenon DEF CallFails, Crash, envVars, redisVars
<1>2. pc'[i] # "setMax" /\ pc'[i] # "page"
  BY Zenon DEF CallFails, Crash, Leave, Goto, PInv, TypeOK
<1>3. \A j \in Instance \ {i} :
        pc'[j] = pc[j] /\ seen'[j] = seen[j] /\ old'[j] = old[j] /\ next'[j] = next[j]
  BY Zenon DEF CallFails, Crash, Leave, Goto, localVars, PInv, TypeOK, SInv, SkipTypes, OInv
<1>4. pc[i] = "page" => Unannounced(i) \subseteq lost'
  BY Zenon DEF CallFails, Crash
<1>5. ASSUME NEW d \in stored, Open(d)' PROVE Open(d)
  <2>1. pushes[d] \in Nat /\ d \in DOMAIN pushes
    BY Zenon, OnceTypes DEF SInv, SkipTypes
  <2>2. PICK D : pushes' = Dropped(D) /\ lost \cup D \subseteq lost'
    <3>1. CASE CallFails(i)
      <4>1. pushes' = Dropped({}) /\ lost \subseteq lost'
        BY Zenon, <3>1 DEF CallFails, Dropped, SInv, SkipTypes
      <4> QED
        BY <4>1
    <3>2. CASE Crash(i)
      BY Zenon, <3>2 DEF Crash
    <3> QED
      BY Zenon, <3>1, <3>2
  <2>3. d \notin D /\ d \notin lost
    BY Zenon, <1>5, <2>2 DEF Open
  <2>4. pushes'[d] = pushes[d]
    BY Zenon, <2>1, <2>2, <2>3 DEF Dropped
  <2> QED
    BY Zenon, <1>1, <1>5, <2>3, <2>4 DEF Open
<1>6. ASSUME NEW j \in Instance, NEW d \in stored, Open(d)', Ahead(j, d) PROVE Ahead(j, d)'
  <2>1. j # i
    <3> SUFFICES ASSUME j = i PROVE FALSE
      BY Zenon
    <3>1. pc[i] = "page" /\ InRange(i, d) /\ d \in Deposit
      BY Zenon, <1>6 DEF Ahead, Rows, SInv, SkipTypes
    <3>2. d \in Unannounced(i)
      BY Zenon, <3>1 DEF Unannounced
    <3> QED
      BY Zenon, <1>4, <1>6, <3>1, <3>2 DEF Open
  <2> QED
    BY Zenon, <1>1, <1>3, <1>6, <2>1, SameRows, AheadKept
<1> QED
  BY Zenon, <1>1, <1>2, <1>3, <1>5, <1>6, PageStill

\* The instance reads the block that Redis has passed, and passes it on.
LEMMA PageMax ==
  ASSUME PInv, SInv, OInv, SkipTypes', task = "commit", PageInv, NEW i \in Instance,
         GetMaxBlockNum(i) \/ SetMaxBlockNum(i)
  PROVE  PageInv'
<1>1. UNCHANGED <<task, stored, ready, lost, pushes, seen>> /\ pc[i] # "page"
  BY Zenon DEF GetMaxBlockNum, SetMaxBlockNum, envVars, redisVars, localVars
<1>2. \A j \in Instance \ {i} : pc'[j] = pc[j] /\ old'[j] = old[j] /\ next'[j] = next[j]
  BY Zenon DEF GetMaxBlockNum, SetMaxBlockNum, Goto, localVars, PInv, TypeOK, SInv, SkipTypes,
     OInv
<1>3. ASSUME NEW j \in Instance, NEW d, Ahead(j, d) PROVE Ahead(j, d)'
  <2>1. j # i
    BY Zenon, <1>1, <1>3 DEF Ahead
  <2> QED
    BY Zenon, <1>1, <1>2, <1>3, <2>1, SameRows, AheadKept
<1> SUFFICES ASSUME NEW d \in stored', Open(d)', Untouched(d)
             PROVE  (\E j \in Instance : Ahead(j, d)') \/ Untouched(d)'
  <2>1. \A d \in stored' : Open(d)' => d \in stored /\ Open(d)
    BY Zenon, <1>1 DEF Open
  <2> QED
    BY Zenon, <1>3, <2>1 DEF PageInv
<1>4. CASE GetMaxBlockNum(i)
  <2>1. maxBlock' = maxBlock /\ old'[i] = maxBlock
    BY Zenon, <1>4 DEF GetMaxBlockNum, redisVars, OInv
  <2>2. maxBlock < BlockOf[d]
    BY Zenon, OnceTypes DEF Untouched, SInv, SkipTypes
  <2> QED
    BY Zenon, <1>1, <1>2, <2>1, <2>2 DEF Untouched
<1>5. CASE SetMaxBlockNum(i)
  <2>1. /\ maxBlock' = BatchEnd[seen[i]] /\ old' = old /\ next'[i] = 0 /\ pc[i] = "setMax"
        /\ pc'[i] = IF old[i] >= BatchEnd[seen[i]] THEN "release" ELSE "page"
    BY Zenon, <1>5 DEF SetMaxBlockNum, LastBlock, Goto, PInv, TypeOK, SInv, SkipTypes
  <2>2. BlockOf[d] \in Nat /\ old[i] \in Nat /\ BatchEnd[seen[i]] \in Nat
    <3>1. BlockOf[d] \in Nat /\ old[i] \in Nat
      BY Zenon, <1>1, OnceTypes DEF SInv, SkipTypes
    <3>2. seen[i] \in 0..Batches
      BY PushAssumption DEF PInv, TypeOK
    <3> QED
      BY Zenon, <3>1, <3>2, PushAssumption
  <2>3. CASE BlockOf[d] <= BatchEnd[seen[i]]
    <3>1. old[i] < BlockOf[d]
      BY Zenon, <2>1, <2>3 DEF Untouched
    <3>2. pc'[i] = "page"
      BY <2>1, <2>2, <2>3, <3>1
    <3>3. d \in Rows(i)'
      BY Zenon, <1>1, <2>1, <2>3, <3>1 DEF Rows, InRange, LastBlock, Open
    <3>4. Rank(i, d)' \in Nat
      <4>1. IsFiniteSet(L2Deposit)
        BY Zenon, PushAssumption
      <4>2. {e \in Rows(i)' : e > d} \subseteq L2Deposit
        BY Zenon, <1>1 DEF Rows, SInv, SkipTypes, Deposit
      <4>3. IsFiniteSet({e \in Rows(i)' : e > d})
        BY Zenon, <4>1, <4>2, FS_Subset
      <4> QED
        BY Zenon, <4>3, FS_CardinalityType DEF Rank
    <3>5. next'[i] <= Rank(i, d)'
      BY <2>1, <3>4
    <3> QED
      BY Zenon, <3>2, <3>3, <3>5 DEF Ahead
  <2>4. CASE ~(BlockOf[d] <= BatchEnd[seen[i]])
    <3>1. BlockOf[d] > maxBlock'
      BY <2>1, <2>2, <2>4
    <3>2. pc'[i] # "setMax"
      BY Zenon, <2>1
    <3> QED
      BY Zenon, <1>1, <1>2, <3>1, <3>2 DEF Untouched
  <2> QED
    BY Zenon, <2>3, <2>4
<1> QED
  BY Zenon, <1>4, <1>5

\* A page is pushed.  A row that is not on it comes on a later one, and there is one: the page
\* is full.
LEMMA PagePushed ==
  ASSUME PInv, SInv, OInv, SkipTypes', task = "commit", PageInv, NEW i \in Instance,
         PushStatusChangedMsg(i)
  PROVE  PageInv'
<1>1. /\ UNCHANGED <<task, stored, ready, lost, maxBlock, old, seen>>
      /\ pc[i] = "page" /\ next'[i] = next[i] + PageLimit
      /\ pc'[i] = IF Cardinality(Page(i)) < PageLimit THEN "release" ELSE "page"
  BY Zenon DEF PushStatusChangedMsg, Goto, envVars, redisVars, PInv, TypeOK, SInv, SkipTypes
<1>2. \A j \in Instance \ {i} : pc'[j] = pc[j] /\ next'[j] = next[j]
  BY Zenon DEF PushStatusChangedMsg, Goto, PInv, TypeOK, SInv, SkipTypes
<1>3. next[i] \in Nat /\ PageLimit \in Nat
  BY Zenon, OnceTypes
<1>4. Rows(i)' = Rows(i)
  BY Zenon, <1>1, SameRows
<1>5. Rows(i) \in SUBSET Nat /\ IsFiniteSet(Rows(i))
  <2>1. IsFiniteSet(L2Deposit) /\ L2Deposit \subseteq Nat
    BY Zenon, PushAssumption
  <2>2. Rows(i) \subseteq L2Deposit
    BY Zenon DEF Rows, SInv, SkipTypes, Deposit
  <2> QED
    BY Zenon, <2>1, <2>2, FS_Subset
<1>6. ASSUME NEW d \in stored, Open(d)'
      PROVE  Open(d) /\ d \notin Page(i)
  <2>1. pushes[d] \in Nat /\ d \in DOMAIN pushes
    BY Zenon, OnceTypes DEF SInv, SkipTypes
  <2>2. pushes'[d] = IF d \in Page(i) THEN pushes[d] + 1 ELSE pushes[d]
    BY Zenon, <2>1 DEF PushStatusChangedMsg, Push
  <2>3. d \notin Page(i) /\ pushes[d] = 0
    BY <1>6, <2>1, <2>2 DEF Open
  <2> QED
    BY Zenon, <1>1, <1>6, <2>3 DEF Open
<1>7. ASSUME NEW d \in stored, Open(d)', Ahead(i, d) PROVE Ahead(i, d)'
  <2>1. d \in Rows(i) /\ next[i] <= Rank(i, d) /\ d \notin Page(i)
    BY Zenon, <1>6, <1>7 DEF Ahead
  <2>2. Rank(i, d) \in Nat /\ Rank(i, d) = Greater(Rows(i), d) /\ Rank(i, d)' = Rank(i, d)
    <3>1. {e \in Rows(i) : e > d} \in SUBSET Rows(i)
      BY Zenon
    <3>2. IsFiniteSet({e \in Rows(i) : e > d})
      BY Zenon, <1>5, <3>1, FS_Subset
    <3> QED
      BY Zenon, <1>4, <3>2, FS_CardinalityType DEF Rank, Greater
  <2>3. next[i] + PageLimit <= Rank(i, d)
    <3>1. ~(Rank(i, d) < next[i] + PageLimit)
      BY Zenon, <2>1 DEF Page, Rank
    <3> QED
      BY <1>3, <2>2, <3>1
  <2>4. PageLimit <= Cardinality({e \in Rows(i) : /\ next[i] <= Greater(Rows(i), e)
                                                  /\ Greater(Rows(i), e) < next[i] + PageLimit})
    BY Zenon, <1>3, <1>5, <2>1, <2>2, <2>3, FullPage
  <2>5. Page(i) = {e \in Rows(i) : /\ next[i] <= Greater(Rows(i), e)
                                   /\ Greater(Rows(i), e) < next[i] + PageLimit}
    BY Zenon DEF Page, Greater
  <2>6. Cardinality(Page(i)) \in Nat
    <3>1. Page(i) \subseteq Rows(i)
      BY Zenon DEF Page
    <3> QED
      BY Zenon, <1>5, <3>1, FS_Subset, FS_CardinalityType
  <2>7. ~(Cardinality(Page(i)) < PageLimit)
    BY <1>3, <2>4, <2>5, <2>6
  <2>8. pc'[i] = "page"
    BY Zenon, <1>1, <2>7
  <2> QED
    BY Zenon, <1>1, <1>4, <2>1, <2>2, <2>3, <2>8 DEF Ahead
<1>8. ASSUME NEW j \in Instance \ {i}, NEW d \in stored, Ahead(j, d) PROVE Ahead(j, d)'
  BY Zenon, <1>1, <1>2, <1>8, SameRows, AheadKept
<1>9. pc'[i] # "setMax"
  BY Zenon, <1>1
<1> QED
  BY Zenon, <1>1, <1>2, <1>6, <1>7, <1>8, <1>9, PageStill

\* Whatever the number of instances, blocks, batches, page sizes, reorganisations and failures,
\* and whether or not the lock expires: a deposit that the block number in Redis has passed was
\* given to a goroutine to push or is on a page on its way, or is one of the exceptions of
\* NoneSkipped (doTask of L1BlockNumTask, pushStatusChangedMsg of CommittedBatchHandler).
THEOREM NoneIsSkipped == Spec => []NoneSkipped
<1>1. Init => QInv
  BY Zenon DEF Init, QInv, PageInv
<1>2. PInv /\ SInv /\ OInv /\ QInv /\ [Next]_vars => QInv'
  <2> SUFFICES ASSUME PInv, SInv, OInv, QInv, [Next]_vars, task' = "commit", ~shifted'
               PROVE  PageInv'
    BY Zenon DEF QInv
  <2>1. SkipTypes' /\ task = "commit"
    BY Zenon, SkipTypesStep
  <2>2. ~shifted => PageInv
    BY Zenon, <2>1 DEF QInv
  <2>3. CASE \/ Grow \/ LockExpires \/ LockExpiresEarly
             \/ \E d \in Deposit : \/ SyncDeposit(d) \/ MakeReady(d) \/ SyncFails(d)
                                   \/ MakeReadyFails(d) \/ PushFails(d)
             \/ \E b : Reorg(b) \/ ListExpires(b)
             \/ UNCHANGED vars
    BY Zenon, <2>1, <2>2, <2>3, PageEnvStep
  <2>4. ASSUME NEW i \in Instance,
               \/ Begin(i) \/ End(i) \/ ReleaseFails(i) \/ \E n \in 0..top : Query(i, n)
               \/ CheckLatestBatchLegal(i) \/ LPushTime(i) \/ LLenTimes(i) \/ RPopTime(i)
               \/ SetAvgFails(i) \/ SetBatchNum(i) \/ SetL1BlockNum(i)
               \/ GetBlockDepositList(i)
        PROVE  PageInv'
    <3>1. ~shifted
      BY Zenon, <2>4 DEF Begin, End, ReleaseFails, Query, CheckLatestBatchLegal, LPushTime,
         LLenTimes,
             RPopTime, SetAvgFails, SetBatchNum, SetL1BlockNum, GetBlockDepositList
    <3> QED
      BY Zenon, <2>1, <2>2, <2>4, <3>1, PageQuietStep
  <2>5. ASSUME NEW i \in Instance,
               \/ CallFails(i) \/ Crash(i) \/ GetMaxBlockNum(i) \/ SetMaxBlockNum(i)
               \/ PushStatusChangedMsg(i)
        PROVE  PageInv'
    <3>1. ~shifted
      BY Zenon, <2>5 DEF CallFails, Crash, GetMaxBlockNum, SetMaxBlockNum, PushStatusChangedMsg
    <3> QED
      BY Zenon, <2>1, <2>2, <2>5, <3>1, PageFails, PageMax, PagePushed
  <2>6. ASSUME NEW i \in Instance PROVE ~GetL1BlockNum(i)
    BY Zenon, <2>1 DEF GetL1BlockNum
  <2> QED
    BY Zenon, <2>3, <2>4, <2>5, <2>6, StepKinds
<1>3. PInv /\ SInv /\ OInv /\ QInv => NoneSkipped
  <2> SUFFICES ASSUME PInv, SInv, OInv, QInv, NEW d \in stored \ ready, d \notin lost, ~shifted,
                      IF task = "l1" THEN BlockOf[d] <= Confirmed(num) ELSE BlockOf[d] <= maxBlock
               PROVE  pushes[d] > 0 \/ \E i \in Instance : pc[i] = "page" /\ InRange(i, d)
    BY Zenon DEF NoneSkipped
  <2>1. /\ d \in Deposit /\ BlockOf[d] \in Nat /\ pushes[d] \in Nat /\ maxBlock \in Nat
        /\ Confirmed(num) \in Nat
    BY Zenon, OnceTypes DEF SInv, SkipTypes
  <2>2. task \in {"l1", "commit"}
    BY Zenon, <2>1 DEF Deposit, PInv, TypeOK
  <2> SUFFICES ASSUME pushes[d] = 0
               PROVE  \E i \in Instance : pc[i] = "page" /\ InRange(i, d)
    BY <2>1
  <2>3. Open(d)
    BY Zenon DEF Open
  <2>4. task # "l1"
    BY <2>1, <2>3 DEF SInv, ScanInv
  <2>5. ~Untouched(d)
    BY <2>1, <2>4 DEF Untouched
  <2> QED
    BY Zenon, <2>2, <2>3, <2>4, <2>5 DEF QInv, PageInv, Ahead, Rows
<1> QED
  BY <1>1, <1>2, <1>3, OnceInvariant, SkipInvariant, PushInvariant, PTL DEF Spec
=============================================================================
