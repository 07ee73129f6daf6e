---------------------------- MODULE MonitorProofs ---------------------------
(***************************************************************************)
(* The safety properties of MonitorTxs for every number of deposits, every *)
(* limit and every number of failures.                                     *)
(***************************************************************************)
EXTENDS MonitorTxs, FiniteSetTheorems, TLAPS

\* The types, without the size of the histories.
Types ==
  /\ limit \in Limits
  /\ rows \in [Deposit -> Rows] /\ work \in [Deposit -> Rows]
  /\ todo \subseteq Deposit
  /\ pc \in {"idle", "check", "nonce", "send"} /\ reset \in BOOLEAN
  /\ cache \in Nat \cup {None} /\ account \in Nat
  /\ pool \subseteq Txs /\ mined \subseteq [sent : Txs, ok : BOOLEAN]
  /\ claims \subseteq claimed /\ claimed \subseteq Deposit /\ refused \subseteq Deposit
  /\ faults \in 0..MaxFaults /\ lost \in BOOLEAN

\* The histories are finite and have room for one more when one is to be sent.
HistoryInv ==
  /\ \A d \in Deposit : /\ IsFiniteSet(rows[d].history) /\ IsFiniteSet(work[d].history)
                        /\ Cardinality(rows[d].history) <= MaxHistory
                        /\ Cardinality(work[d].history) <= MaxHistory
  /\ pc = "nonce" =>
       \A d \in todo : IsNext(d) => Cardinality(work[d].history) < MaxHistory

\* A nonce is in the pool once, above all that were mined; and unless one was lost, the
\* pool has all nonces up to the cached one, which is on its way when pc = "send".
NonceInv ==
  /\ \A t, u \in pool : t.nonce = u.nonce => t = u
  /\ \A t \in pool : t.nonce >= account
  /\ \A m \in mined : m.sent.nonce < account
  /\ pc = "send" => cache # None
  /\ ~lost =>
       /\ \A t \in pool : account..t.nonce \subseteq Nonces
       /\ cache # None /\ pc # "send" => account..cache \subseteq Nonces
       /\ pc = "send" => account..(cache - 1) \subseteq Nonces

\* What a cycle has read is still so: only rows that are "created" are processed, and a
\* row that it does not have is new.
CycleInv ==
  /\ \A d \in todo : work[d].status = "created"
  /\ pc = "idle" => work = NoRows
  /\ \A d \in Deposit :
       /\ rows[d].status = "none" => work[d].status = "none"
       /\ rows[d].status = "failed" => Merged(d).status = "failed"

\* A confirmed row and a transaction that succeeded are claims, and a history only has
\* transactions of its deposit.
ConfirmInv ==
  /\ \A m \in mined : m.ok => m.sent.deposit \in claimed
  /\ \A d \in Deposit : /\ rows[d].status = "confirmed" => d \in claimed
                        /\ work[d].status = "confirmed" => d \in claimed
                        /\ \A t \in rows[d].history \cup work[d].history : t.deposit = d

\* A cycle has the status that the row has, or settles a row that is created.
SettleInv ==
  \A d \in Deposit :
    \/ work[d].status \in {"none", rows[d].status}
    \/ rows[d].status = "created" /\ work[d].status \in {"confirmed", "failed"}

\* The deposit has no transaction in the pool.
Idle(d) == \A t \in pool : t.deposit # d

\* As long as nothing failed the histories know all of the pool, and a deposit has no
\* transaction there when one is to be sent or the row was given up.
FlightInv ==
  faults = MaxFaults =>
    /\ \A t \in pool : t \in Merged(t.deposit).history
    /\ \A d \in Deposit : Merged(d).status = "failed" => Idle(d)
    /\ pc \in {"nonce", "send"} => \A d \in todo : IsNext(d) => Idle(d)
    /\ pc = "send" => \A d \in todo : IsNext(d) => Tx(d, cache) \in work[d].history
    /\ \A t, u \in pool : t.deposit = u.deposit => t = u

-----------------------------------------------------------------------------
\* The rows keep their type when the status of one of them changes.
LEMMA StatusType ==
  ASSUME NEW R \in [Deposit -> Rows], NEW d \in Deposit, NEW s \in Statuses
  PROVE  [R EXCEPT ![d].status = s] \in [Deposit -> Rows]
  BY Zenon DEF Rows

\* The rows keep their type when the history of one of them changes.
LEMMA HistoryType ==
  ASSUME NEW R \in [Deposit -> Rows], NEW d \in Deposit, NEW h \in SUBSET Txs
  PROVE  [R EXCEPT ![d].history = h] \in [Deposit -> Rows]
  BY Zenon DEF Rows

\* Every step keeps the types.
LEMMA TypesStep == Types /\ [Next]_vars => Types'
<1> SUFFICES ASSUME Types, [Next]_vars PROVE Types'
  BY Zenon
<1> USE MonitorAssumption
<1>1. CASE Begin
  BY Zenon, <1>1 DEF Types, Begin, Newest, Created, dbVars, nodeVars, l2Vars, faultVars
<1>2. CASE Commit
  BY Zenon, <1>2 DEF Types, Commit, Merged, NoRows, Rows, Statuses, nodeVars, l2Vars, faultVars
<1>3. ASSUME NEW d \in todo, NEW seen \in SUBSET work[d].history, CheckRow(d, seen),
             (UNCHANGED faultVars) \/ Fault
      PROVE  Types'
  <2>1. NewStatus(d, seen) \in Statuses
    BY Zenon DEF NewStatus, Statuses
  <2>2. work' \in [Deposit -> Rows]
    BY Zenon, <1>3, <2>1, StatusType DEF Types, CheckRow
  <2>3. todo' \subseteq Deposit /\ pc' \in {"idle", "check", "nonce", "send"}
    BY Zenon, <1>3 DEF Types, CheckRow
  <2> QED
    BY <1>3, <2>2, <2>3 DEF Types, CheckRow, dbVars, nodeVars, l2Vars, faultVars, Fault
<1>4. ASSUME NEW d \in todo, SetTxNonce(d) PROVE Types'
  <2>1. NextNonce(account) \in Nat
    BY DEF Types, NextNonce, None
  <2> DEFINE h == work[d].history \cup {Tx(d, NextNonce(account))}
  <2>2. h \in SUBSET Txs /\ work \in [Deposit -> Rows] /\ d \in Deposit
    BY <2>1 DEF Types, Tx, Txs, Rows
  <2>4. work' = [work EXCEPT ![d].history = h]
    BY Zenon, <1>4 DEF SetTxNonce
  <2>3. work' \in [Deposit -> Rows]
    <3> HIDE DEF h
    <3> QED BY Zenon, <2>2, <2>4, HistoryType
  <2> QED
    BY Zenon, <1>4, <2>1, <2>3 DEF Types, SetTxNonce, dbVars, nodeVars, l2Vars, faultVars
<1>5. ASSUME NEW d \in todo, RemoveHistory(d) PROVE work' \in [Deposit -> Rows]
  BY Zenon, <1>5, HistoryType DEF Types, RemoveHistory, Rows
<1>6. ASSUME NEW d \in todo, cache # None PROVE Tx(d, cache) \in Txs
  BY Zenon, <1>6 DEF Types, Tx, Txs
<1>7. ASSUME NEW d \in todo, Send(d) PROVE Types'
  <2>1. pool' \subseteq Txs
    BY <1>7, <1>6 DEF Types, Send, None
  <2> QED
    BY Zenon, <1>7, <2>1 DEF Types, Send, NextRow, dbVars, l2Vars, faultVars
<1>8. ASSUME NEW d \in todo, NEW b \in BOOLEAN, SendError(d, b)
      PROVE  /\ work' \in [Deposit -> Rows] /\ reset' \in BOOLEAN
             /\ cache' \in Nat \cup {None}
             /\ pc' \in {"idle", "check", "nonce", "send"} /\ todo' \subseteq Deposit
  BY <1>8, <1>5 DEF SendError, NextRow, Decr, None, Types
<1>9. ASSUME NEW d \in todo, SendRefused(d) PROVE Types'
  BY Zenon, <1>9, <1>8 DEF Types, SendRefused, dbVars, nodeVars, l2Vars, faultVars
<1>10. ASSUME NEW d \in todo, SendUnanswered(d) PROVE Types'
  <2>1. pool' \subseteq Txs
    BY <1>10, <1>6 DEF Types, SendUnanswered, None
  <2> QED
    <3>1. SendError(d, FALSE)
      BY Zenon, <1>10 DEF SendUnanswered
    <3>2. /\ work' \in [Deposit -> Rows] /\ reset' \in BOOLEAN
          /\ cache' \in Nat \cup {None}
          /\ pc' \in {"idle", "check", "nonce", "send"} /\ todo' \subseteq Deposit
      BY Zenon, <3>1, <1>8
    <3> QED
      BY <1>10, <2>1, <3>2 DEF Types, SendUnanswered, dbVars, l2Vars, Fault
<1>11. ASSUME NEW d \in todo, NotSent(d) PROVE Types'
  <2>1. work' \in [Deposit -> Rows]
    BY Zenon, <1>11, <1>5 DEF Types, NotSent
  <2> QED
    BY <1>11, <2>1 DEF Types, NotSent, NextRow, dbVars, nodeVars, l2Vars, FaultWithNonce
<1>12. ASSUME NEW d \in todo, SkipRow(d) PROVE Types'
  BY <1>12 DEF Types, SkipRow, NextRow, dbVars, nodeVars, l2Vars, Fault
<1>13. ASSUME NEW crash \in BOOLEAN, CycleFails(crash) PROVE Types'
  BY <1>13 DEF Types, CycleFails, NoRows, Rows, Statuses, dbVars, nodeVars, l2Vars, Fault
<1>14. ASSUME NEW t \in pool, Mine(t, TRUE) \/ Mine(t, FALSE) PROVE Types'
  <2>1. t \in Txs /\ t.deposit \in Deposit
    BY Zenon DEF Types, Txs
  <2>2. \A ok \in BOOLEAN : [sent |-> t, ok |-> ok] \in [sent : Txs, ok : BOOLEAN]
    BY Zenon, <2>1
  <2>3. pool' \subseteq Txs /\ mined' \subseteq [sent : Txs, ok : BOOLEAN]
    BY Zenon, <1>14, <2>2 DEF Types, Mine
  <2>4. claimed' = claimed \/ claimed' = claimed \cup {t.deposit}
    BY Zenon, <1>14 DEF Mine
  <2>5. account' \in Nat /\ UNCHANGED <<dbVars, cycleVars, cache, refused, faultVars>>
    BY <1>14 DEF Types, Mine
  <2> QED
    BY Zenon, <2>1, <2>3, <2>4, <2>5 DEF Types, dbVars, cycleVars, faultVars
<1>15. ASSUME NEW t \in pool, Drop(t) PROVE Types'
  BY <1>15 DEF Types, Drop, dbVars, cycleVars, l2Vars, FaultWithNonce
<1>16. ASSUME NEW d \in Deposit, NEW s \in Statuses, AddRow(d, s),
              (UNCHANGED faultVars) \/ Fault
       PROVE  Types'
  <2>1. rows' \in [Deposit -> Rows]
    BY Zenon, <1>16, StatusType DEF Types, AddRow
  <2> QED
    BY <1>16, <2>1 DEF Types, AddRow, cycleVars, nodeVars, l2Vars, faultVars, Fault
<1>17. ASSUME NEW d \in Deposit, UserClaim(d) \/ Refuse(d) \/ SyncClaim(d) PROVE Types'
  BY Zenon, <1>17 DEF Types, UserClaim, Refuse, SyncClaim, dbVars, cycleVars, nodeVars, l2Vars,
               faultVars
<1>18. CASE UNCHANGED vars
  BY Zenon, <1>18 DEF Types, vars, dbVars, cycleVars, nodeVars, l2Vars, faultVars
<1>19. ASSUME NEW d \in Deposit, AddClaimTx(d) \/ AddClaimTxFails(d) PROVE Types'
  BY Zenon, <1>19, <1>16 DEF AddClaimTx, AddClaimTxFails, Statuses
<1>20. ASSUME NEW d \in todo, Check(d) \/ CheckFails(d) PROVE Types'
  BY Zenon, <1>20, <1>3 DEF Check, CheckFails
<1> QED
  BY Zenon, <1>1, <1>2, <1>4, <1>7, <1>9, <1>10, <1>11, <1>12, <1>13, <1>14, <1>15, <1>17, <1>18,
     <1>19, <1>20 DEF Next, MonitorStep, NodeStep
-----------------------------------------------------------------------------
\* A set with room for one more element keeps within the bound when it gets one.
LEMMA AddOne ==
  ASSUME NEW S, NEW x, NEW n \in Nat, IsFiniteSet(S), Cardinality(S) < n
  PROVE  IsFiniteSet(S \cup {x}) /\ Cardinality(S \cup {x}) <= n
<1>1. Cardinality(S) \in Nat
  BY Zenon, FS_CardinalityType
<1>2. /\ IsFiniteSet(S \cup {x})
      /\ \/ Cardinality(S \cup {x}) = Cardinality(S)
         \/ Cardinality(S \cup {x}) = Cardinality(S) + 1
  BY Zenon, FS_AddElement
<1> QED
  BY <1>1, <1>2

\* A set keeps within the bound when it loses an element.
LEMMA RemoveOne ==
  ASSUME NEW S, NEW x, NEW n \in Nat, IsFiniteSet(S), Cardinality(S) <= n
  PROVE  IsFiniteSet(S \ {x}) /\ Cardinality(S \ {x}) <= n
<1>1. Cardinality(S) \in Nat
  BY Zenon, FS_CardinalityType
<1>2. /\ IsFiniteSet(S \ {x})
      /\ \/ Cardinality(S \ {x}) = Cardinality(S)
         \/ Cardinality(S \ {x}) = Cardinality(S) - 1
  BY Zenon, FS_RemoveElement
<1> QED
  BY <1>1, <1>2

\* No history grows past MaxHistory: a transaction is sent for a row only when GivenUp
\* has found room for it.
LEMMA HistoryStep == Types /\ HistoryInv /\ [Next]_vars => HistoryInv'
<1> SUFFICES ASSUME Types, HistoryInv, [Next]_vars PROVE HistoryInv'
  BY Zenon
<1> USE MonitorAssumption
<1>1. CASE Begin
  BY Zenon, <1>1 DEF HistoryInv, Begin, dbVars
<1>2. ASSUME UNCHANGED work PROVE \A d \in Deposit : work'[d] = work[d]
  BY Zenon, <1>2
<1>3. IsFiniteSet({}) /\ Cardinality({}) = 0
  BY Zenon, FS_EmptySet
<1>4. ASSUME NEW d \in Deposit
      PROVE  /\ IsFiniteSet(NoRows[d].history)
             /\ Cardinality(NoRows[d].history) <= MaxHistory
  BY <1>3 DEF NoRows
<1>5. CASE Commit
  BY Zenon, <1>5, <1>4 DEF Types, HistoryInv, Commit, Merged
<1>6. ASSUME NEW crash \in BOOLEAN, CycleFails(crash) PROVE HistoryInv'
  BY Zenon, <1>6, <1>4 DEF HistoryInv, CycleFails, dbVars
<1>7. ASSUME NEW d \in todo, NEW seen \in SUBSET work[d].history, IsNext(d), CheckRow(d, seen)
      PROVE  HistoryInv'
  <2>1. \A e \in Deposit : work'[e].history = work[e].history
    BY Zenon, <1>7 DEF Types, CheckRow, Rows
  <2>2. ASSUME pc' = "nonce", NEW e \in todo', IsNext(e)'
        PROVE  Cardinality(work'[e].history) < MaxHistory
    <3>1. Sends(d, seen) /\ todo' = todo
      BY Zenon, <1>7, <2>2 DEF CheckRow
    <3>2. e = d
      <4>1. d \in Nat /\ e \in Nat
        BY Zenon, <2>2, <3>1 DEF Types
      <4>2. e <= d /\ d <= e
        BY Zenon, <1>7, <2>2, <3>1 DEF IsNext
      <4> QED
        BY <4>1, <4>2
    <3>3. ~(Cardinality(work[d].history) >= MaxHistory)
      BY Zenon, <3>1 DEF Sends, NewStatus, GivenUp
    <3>4. Cardinality(work[d].history) \in Nat
      BY Zenon, FS_CardinalityType DEF HistoryInv, Types
    <3> QED
      <4>1. work'[e].history = work[d].history
        BY Zenon, <2>1, <3>2 DEF Types
      <4>2. Cardinality(work[d].history) < MaxHistory
        BY <3>3, <3>4
      <4> QED
        BY Zenon, <4>1, <4>2
  <2> QED
    BY Zenon, <1>7, <2>1, <2>2 DEF HistoryInv, CheckRow, dbVars
<1>8. ASSUME NEW d \in todo, IsNext(d), SetTxNonce(d) PROVE HistoryInv'
  <2> DEFINE t == Tx(d, NextNonce(account))
  <2>1. IsFiniteSet(work[d].history) /\ Cardinality(work[d].history) < MaxHistory
    BY Zenon, <1>8 DEF HistoryInv, SetTxNonce, Types
  <2>2. /\ IsFiniteSet(work[d].history \cup {t})
        /\ Cardinality(work[d].history \cup {t}) <= MaxHistory
    BY Zenon, <2>1, AddOne
  <2>3. work'[d].history = work[d].history \cup {t}
    BY Zenon, <1>8 DEF SetTxNonce, Types, Rows
  <2>4. \A e \in Deposit \ {d} : work'[e] = work[e]
    BY Zenon, <1>8 DEF SetTxNonce, Types
  <2> QED
    BY Zenon, <1>8, <2>2, <2>3, <2>4 DEF HistoryInv, SetTxNonce, dbVars
<1>9. ASSUME NEW d \in todo, RemoveHistory(d), pc' = "check", UNCHANGED rows
      PROVE  HistoryInv'
  <2>1. IsFiniteSet(work[d].history) /\ Cardinality(work[d].history) <= MaxHistory
    BY Zenon DEF HistoryInv, Types
  <2>2. /\ IsFiniteSet(work[d].history \ {Tx(d, cache)})
        /\ Cardinality(work[d].history \ {Tx(d, cache)}) <= MaxHistory
    BY Zenon, <2>1, RemoveOne
  <2>3. work'[d].history = work[d].history \ {Tx(d, cache)}
    BY Zenon, <1>9 DEF RemoveHistory, Types, Rows
  <2>4. \A e \in Deposit \ {d} : work'[e] = work[e]
    BY Zenon, <1>9 DEF RemoveHistory, Types
  <2> QED
    BY Zenon, <1>9, <2>2, <2>3, <2>4 DEF HistoryInv
<1>10. ASSUME UNCHANGED <<rows, work>>, pc' = "check" PROVE HistoryInv'
  BY Zenon, <1>10 DEF HistoryInv
<1>11. ASSUME UNCHANGED cycleVars, \A d \in Deposit : rows'[d].history = rows[d].history
       PROVE  HistoryInv'
  BY Zenon, <1>11 DEF HistoryInv, cycleVars, IsNext
<1>12. ASSUME NEW d \in todo, Send(d) \/ SkipRow(d) PROVE HistoryInv'
  BY Zenon, <1>12, <1>10 DEF Send, SkipRow, NextRow, dbVars
<1>13. ASSUME NEW d \in todo, NotSent(d) PROVE HistoryInv'
  BY Zenon, <1>13, <1>9, <1>10 DEF NotSent, NextRow, dbVars
<1>14. ASSUME NEW d \in todo, SendRefused(d) \/ SendUnanswered(d) PROVE HistoryInv'
  BY Zenon, <1>14, <1>9 DEF SendRefused, SendUnanswered, SendError, NextRow, dbVars
<1>15. ASSUME NEW d \in Deposit, AddClaimTx(d) \/ AddClaimTxFails(d) PROVE HistoryInv'
  BY <1>15, <1>11 DEF AddClaimTx, AddClaimTxFails, AddRow, Types, Rows
<1>16. ASSUME NEW d \in Deposit, UserClaim(d) \/ Refuse(d) \/ SyncClaim(d)
       PROVE HistoryInv'
  BY Zenon, <1>16, <1>11 DEF UserClaim, Refuse, SyncClaim, dbVars
<1>17. ASSUME NEW t \in pool, Mine(t, TRUE) \/ Mine(t, FALSE) \/ Drop(t) PROVE HistoryInv'
  BY Zenon, <1>17, <1>11 DEF Mine, Drop, dbVars
<1>18. CASE UNCHANGED vars
  BY Zenon, <1>18, <1>11 DEF vars, dbVars
<1>19. ASSUME NEW d \in todo, IsNext(d), Check(d) \/ CheckFails(d) PROVE HistoryInv'
  BY Zenon, <1>19, <1>7 DEF Check, CheckFails
<1> QED
  BY Zenon, <1>1, <1>5, <1>6, <1>8, <1>12, <1>13, <1>14, <1>15, <1>16, <1>17, <1>18, <1>19
     DEF Next, MonitorStep, NodeStep
-----------------------------------------------------------------------------
\* The pool stays without gap: a transaction takes the nonce after the last one that the
\* pool has, and one that is refused gives it back.
LEMMA NonceStep == Types /\ NonceInv /\ [Next]_vars => NonceInv'
<1> SUFFICES ASSUME Types, NonceInv, [Next]_vars PROVE NonceInv'
  BY Zenon
<1>1. ASSUME UNCHANGED <<account, pool, mined, cache>>,
             pc' = pc \/ pc' # "send",
             lost' = TRUE \/ (lost' = lost /\ (pc' = pc \/ pc # "send"))
      PROVE  NonceInv'
  BY <1>1 DEF NonceInv, Nonces
<1>2. CASE Begin \/ Commit
  BY Zenon, <1>2, <1>1 DEF Begin, Commit, nodeVars, faultVars
<1>3. ASSUME NEW d \in todo, Check(d) \/ CheckFails(d) \/ SkipRow(d) \/ NotSent(d)
      PROVE  NonceInv'
  BY Zenon, <1>3, <1>1 DEF Check, CheckFails, CheckRow, SkipRow, NotSent, NextRow, nodeVars,
                    faultVars, Fault, FaultWithNonce
<1>4. ASSUME NEW d \in Deposit,
             \/ AddClaimTx(d) \/ AddClaimTxFails(d)
             \/ UserClaim(d) \/ Refuse(d) \/ SyncClaim(d)
      PROVE  NonceInv'
  BY Zenon, <1>4, <1>1 DEF AddClaimTx, AddClaimTxFails, AddRow, UserClaim, Refuse, SyncClaim,
                    cycleVars, nodeVars, faultVars, Fault
<1>5. ASSUME UNCHANGED <<account, pool, mined, lost>>, cache' = None, pc' # "send"
      PROVE  NonceInv'
  BY Zenon, <1>5 DEF NonceInv, Nonces
<1>6. ASSUME NEW crash \in BOOLEAN, CycleFails(crash) PROVE NonceInv'
  BY Zenon, <1>6, <1>1, <1>5 DEF CycleFails, nodeVars, Fault
<1>7. CASE UNCHANGED vars
  BY Zenon, <1>7, <1>1 DEF vars, cycleVars, nodeVars, faultVars
<1>8. ASSUME NEW d \in todo, SetTxNonce(d) PROVE NonceInv'
  <2>1. UNCHANGED <<account, pool, mined, lost>> /\ pc' = "send" /\ pc # "send"
    BY Zenon, <1>8 DEF SetTxNonce, nodeVars, faultVars
  <2>2. cache' = NextNonce(account)
    BY Zenon, <1>8 DEF SetTxNonce
  <2>3. ~lost => account..(cache' - 1) \subseteq Nonces
    BY <2>1, <2>2 DEF NonceInv, NextNonce, Types, None
  <2>4. cache' # None
    BY <2>2 DEF NextNonce, Types, None
  <2> QED
    BY Zenon, <2>1, <2>3, <2>4 DEF NonceInv, Nonces
<1>9. ASSUME NEW t \in pool, Mine(t, TRUE) \/ Mine(t, FALSE) PROVE NonceInv'
  <2>1. /\ t.nonce = account /\ account' = account + 1 /\ pool' = pool \ {t}
        /\ \A m \in mined' : m \in mined \/ m.sent = t
        /\ UNCHANGED <<cache, pc, lost>>
    BY <1>9 DEF Mine, cycleVars, faultVars
  <2>2. \A u \in pool : u.nonce \in Nat
    BY Zenon DEF Types, Txs
  <2>3. \A m \in mined : m.sent.nonce \in Nat
    BY Zenon DEF Types, Txs
  <2>4. \A n \in Nonces : n # account => n \in Nonces'
    BY Zenon, <2>1 DEF Nonces
  <2>5. \A u \in pool' : u.nonce >= account'
    BY <2>1, <2>2 DEF NonceInv, Types
  <2>6. \A m \in mined' : m.sent.nonce < account'
    BY <2>1, <2>3 DEF NonceInv, Types
  <2>7. \A n \in Int : account..n \subseteq Nonces => account'..n \subseteq Nonces'
    BY <2>1, <2>4 DEF Types
  <2>8. ASSUME ~lost, NEW u \in pool' PROVE account'..u.nonce \subseteq Nonces'
    BY <2>1, <2>2, <2>7, <2>8 DEF NonceInv
  <2>9. cache \in Int /\ cache - 1 \in Int
    BY DEF Types, None
  <2> QED
    BY Zenon, <2>1, <2>5, <2>6, <2>7, <2>8, <2>9 DEF NonceInv
<1>10. ASSUME NEW t \in pool, Drop(t) PROVE NonceInv'
  BY Zenon, <1>10 DEF NonceInv, Drop, cycleVars, FaultWithNonce
<1>11. ASSUME NEW d \in todo, pc = "send",
              pool' = {t \in pool : t.nonce # cache} \cup {Tx(d, cache)}, cache >= account
       PROVE  /\ \A t, u \in pool' : t.nonce = u.nonce => t = u
              /\ \A t \in pool' : t.nonce >= account
              /\ Nonces' = Nonces \cup {cache}
              /\ ~lost => /\ \A t \in pool' : account..t.nonce \subseteq Nonces'
                          /\ account..cache \subseteq Nonces'
  <2>1. Tx(d, cache).nonce = cache
    BY Zenon DEF Tx
  <2>2. /\ \A t, u \in pool' : t.nonce = u.nonce => t = u
        /\ \A t \in pool' : t.nonce >= account
    BY Zenon, <1>11, <2>1 DEF NonceInv
  <2>3. Nonces' = Nonces \cup {cache}
    BY Zenon, <1>11, <2>1 DEF Nonces
  <2>4. cache \in Nat /\ account \in Nat
    BY Zenon, <1>11 DEF NonceInv, Types
  <2>5. ~lost => account..cache \subseteq Nonces'
    BY <1>11, <2>3, <2>4 DEF NonceInv
  <2>6. ~lost => \A t \in pool' : account..t.nonce \subseteq Nonces'
    BY Zenon, <1>11, <2>1, <2>3, <2>5 DEF NonceInv
  <2> QED
    BY Zenon, <2>2, <2>3, <2>5, <2>6
<1>12. ASSUME NEW d \in todo, Send(d) PROVE NonceInv'
  <2>1. CASE Known(Tx(d, cache)) /\ UNCHANGED pool
    <3>1. /\ pc = "send" /\ pc' = "check" /\ UNCHANGED <<account, mined, pool, cache, lost>>
      BY Zenon, <1>12, <2>1 DEF Send, NextRow, faultVars
    <3>2. cache \in Nonces \/ cache < account
      BY <2>1 DEF Known, Tx, Nonces, NonceInv
    <3>3. cache \in Nat /\ account \in Nat
      BY Zenon, <3>1 DEF NonceInv, Types
    <3>4. ~lost => account..cache \subseteq Nonces
      BY <3>1, <3>2, <3>3 DEF NonceInv
    <3> QED
      BY Zenon, <3>1, <3>4 DEF NonceInv, Nonces
  <2>2. CASE ~(Known(Tx(d, cache)) /\ UNCHANGED pool)
    <3>1. /\ pc = "send" /\ pc' = "check" /\ UNCHANGED <<account, mined, cache, lost>>
          /\ pool' = {t \in pool : t.nonce # cache} \cup {Tx(d, cache)}
          /\ cache >= account
      BY Zenon, <1>12, <2>2 DEF Send, NextRow, faultVars
    <3> QED
      BY Zenon, <3>1, <1>11 DEF NonceInv
  <2> QED
    BY Zenon, <2>1, <2>2
<1>13. ASSUME NEW d \in todo, NEW b \in BOOLEAN, pc = "send", SendError(d, b)
       PROVE  /\ pc' = "check"
              /\ ~lost /\ cache' # None => account..cache' \subseteq Nonces
  <2>1. cache' = None \/ cache' = cache - 1
    BY Zenon, <1>13 DEF SendError, Decr
  <2> QED
    BY Zenon, <1>13, <2>1 DEF SendError, NextRow, NonceInv
<1>14. ASSUME NEW d \in todo, SendRefused(d) PROVE NonceInv'
  <2>1. pc = "send" /\ UNCHANGED <<account, pool, mined, lost>>
    BY Zenon, <1>14 DEF SendRefused, nodeVars, faultVars
  <2>2. SendError(d, TRUE) \/ SendError(d, FALSE)
    BY Zenon, <1>14 DEF SendRefused
  <2>3. pc' = "check" /\ (~lost /\ cache' # None => account..cache' \subseteq Nonces)
    BY Zenon, <2>1, <2>2, <1>13
  <2> QED
    BY Zenon, <2>1, <2>3 DEF NonceInv, Nonces
<1>15. ASSUME NEW d \in todo, SendUnanswered(d) PROVE NonceInv'
  <2>1. pc = "send" /\ UNCHANGED <<account, mined, lost>> /\ cache >= account
    BY Zenon, <1>15 DEF SendUnanswered, Fault
  <2>2. SendError(d, FALSE)
    BY Zenon, <1>15 DEF SendUnanswered
  <2>3. pc' = "check" /\ (~lost /\ cache' # None => account..cache' \subseteq Nonces)
    BY Zenon, <2>1, <2>2, <1>13
  <2>4. CASE UNCHANGED pool
    BY Zenon, <2>1, <2>3, <2>4 DEF NonceInv, Nonces
  <2>5. CASE pool' = pool \cup {Tx(d, cache)}
    <3>1. pool' = {t \in pool : t.nonce # cache} \cup {Tx(d, cache)}
      BY Zenon, <1>15, <2>5 DEF SendUnanswered, Nonces
    <3>2. /\ \A t, u \in pool' : t.nonce = u.nonce => t = u
          /\ \A t \in pool' : t.nonce >= account
          /\ Nonces' = Nonces \cup {cache}
          /\ ~lost => \A t \in pool' : account..t.nonce \subseteq Nonces'
      BY Zenon, <3>1, <2>1, <1>11
    <3> QED
      BY Zenon, <2>1, <2>3, <3>2 DEF NonceInv
  <2> QED
    BY Zenon, <1>15, <2>4, <2>5 DEF SendUnanswered
<1> QED
  BY Zenon, <1>2, <1>3, <1>4, <1>6, <1>7, <1>8, <1>9, <1>10, <1>12, <1>14, <1>15
     DEF Next, MonitorStep, NodeStep
-----------------------------------------------------------------------------
\* A step of the monitor on the row of d, which gets the status s.
OnRow(d, s) ==
  /\ todo' \subseteq todo /\ UNCHANGED rows
  /\ d \in todo' => s = "created"
  /\ pc' # "idle"
  /\ work'[d].status = s
  /\ \A t \in work'[d].history : t \in work[d].history \/ t.deposit = d
  /\ \A e \in Deposit \ {d} : work'[e] = work[e]
  /\ DOMAIN work' = Deposit

\* The steps of the monitor work on the row they are at, and only Check changes its
\* status.
LEMMA MonitorOnRow ==
  ASSUME Types, CycleInv, NEW d \in todo,
         SetTxNonce(d) \/ Send(d) \/ SendRefused(d) \/ SkipRow(d) \/ NotSent(d)
           \/ SendUnanswered(d)
  PROVE  OnRow(d, "created") /\ UNCHANGED claims
<1>1. work[d].status = "created" /\ d \in Deposit
  BY Zenon DEF CycleInv, Types
<1>2. CASE SetTxNonce(d)
  <2>1. /\ work'[d].status = "created" /\ DOMAIN work' = Deposit
        /\ work'[d].history = work[d].history \cup {Tx(d, NextNonce(account))}
        /\ \A e \in Deposit \ {d} : work'[e] = work[e]
    BY Zenon, <1>1, <1>2 DEF SetTxNonce, Types, Rows
  <2>2. Tx(d, NextNonce(account)).deposit = d
    BY Zenon DEF Tx
  <2> QED
    BY Zenon, <1>2, <2>1, <2>2 DEF SetTxNonce, OnRow, dbVars
<1>3. ASSUME UNCHANGED work \/ RemoveHistory(d)
      PROVE  /\ work'[d].status = "created" /\ DOMAIN work' = Deposit
             /\ \A e \in Deposit \ {d} : work'[e] = work[e]
             /\ work'[d].history \subseteq work[d].history
  BY <1>1, <1>3 DEF RemoveHistory, Types, Rows
<1>4. ASSUME UNCHANGED work \/ RemoveHistory(d), NextRow(d), UNCHANGED dbVars
      PROVE  OnRow(d, "created") /\ UNCHANGED claims
  BY Zenon, <1>3, <1>4 DEF OnRow, NextRow, dbVars
<1>5. CASE Send(d) \/ SkipRow(d) \/ NotSent(d)
  BY Zenon, <1>4, <1>5 DEF Send, SkipRow, NotSent
<1>6. CASE SendRefused(d) \/ SendUnanswered(d)
  BY Zenon, <1>4, <1>6 DEF SendRefused, SendUnanswered, SendError
<1> QED
  BY Zenon, <1>2, <1>5, <1>6

\* The checks of a row work on it, and give it a status that is "created" if it stays.
LEMMA CheckOnRow ==
  ASSUME Types, NEW d \in todo, NEW seen, CheckRow(d, seen)
  PROVE  OnRow(d, NewStatus(d, seen)) /\ UNCHANGED claims
<1>1. d \in Deposit
  BY Zenon DEF Types
<1>2. d \in todo' => Sends(d, seen)
  BY Zenon DEF CheckRow
<1> QED
  BY Zenon, <1>1, <1>2 DEF CheckRow, OnRow, Types, Rows, dbVars, Sends

\* A cycle only processes rows that are created, and what it knows of the others stays.
LEMMA CycleStep == Types /\ CycleInv /\ [Next]_vars => CycleInv'
<1> SUFFICES ASSUME Types, CycleInv, [Next]_vars PROVE CycleInv'
  BY Zenon
<1>1. CASE Begin
  <2>1. \A d \in todo' : d \in Deposit /\ rows[d].status = "created"
    BY Zenon, <1>1 DEF Begin, Newest, Created
  <2> QED
    BY Zenon, <1>1, <2>1 DEF CycleInv, Begin, Merged, dbVars
<1>2. CASE Commit
  BY Zenon, <1>2 DEF CycleInv, Commit, Merged, NoRows
<1>3. ASSUME NEW d \in todo, NEW s, OnRow(d, s), s # "none" PROVE CycleInv'
  <2>1. d \in Deposit /\ rows[d].status \notin {"none", "failed"}
    BY Zenon DEF CycleInv, Types, Merged
  <2>2. \A e \in todo' : work'[e].status = "created"
    BY Zenon, <1>3 DEF OnRow, CycleInv, Types
  <2> QED
    BY Zenon, <1>3, <2>1, <2>2 DEF OnRow, CycleInv, Merged
<1>4. ASSUME NEW d \in todo,
             SetTxNonce(d) \/ Send(d) \/ SendRefused(d) \/ SkipRow(d) \/ NotSent(d)
               \/ SendUnanswered(d)
      PROVE  CycleInv'
  BY Zenon, <1>3, <1>4, MonitorOnRow
<1>5. ASSUME NEW d \in todo, Check(d) \/ CheckFails(d) PROVE CycleInv'
  <2>1. PICK seen : CheckRow(d, seen)
    BY Zenon, <1>5 DEF Check, CheckFails
  <2>2. NewStatus(d, seen) # "none"
    BY Zenon DEF NewStatus
  <2> QED
    BY Zenon, <2>1, <2>2, <1>3, CheckOnRow
<1>6. ASSUME NEW crash \in BOOLEAN, CycleFails(crash) PROVE CycleInv'
  BY Zenon, <1>6 DEF CycleInv, CycleFails, Merged, NoRows, dbVars
<1>7. ASSUME NEW d \in Deposit, NEW s, AddRow(d, s), s \notin {"none", "failed"}
      PROVE  CycleInv'
  <2>1. rows[d].status = "none" /\ rows'[d].status = s
    BY Zenon, <1>7 DEF AddRow, Types, Rows
  <2>2. \A e \in Deposit \ {d} : rows'[e] = rows[e]
    BY Zenon, <1>7 DEF AddRow, Types
  <2>3. UNCHANGED <<work, todo, pc>>
    BY Zenon, <1>7 DEF AddRow, cycleVars
  <2> QED
    BY Zenon, <1>7, <2>1, <2>2, <2>3 DEF CycleInv, Merged
<1>8. ASSUME NEW d \in Deposit, AddClaimTx(d) \/ AddClaimTxFails(d) PROVE CycleInv'
  BY Zenon, <1>7, <1>8 DEF AddClaimTx, AddClaimTxFails
<1>9. ASSUME UNCHANGED <<rows, cycleVars>> PROVE CycleInv'
  BY Zenon, <1>9 DEF CycleInv, cycleVars, Merged
<1>10. ASSUME NEW d \in Deposit, UserClaim(d) \/ Refuse(d) \/ SyncClaim(d) PROVE CycleInv'
  BY Zenon, <1>9, <1>10 DEF UserClaim, Refuse, SyncClaim, dbVars
<1>11. ASSUME NEW t \in pool, Mine(t, TRUE) \/ Mine(t, FALSE) \/ Drop(t) PROVE CycleInv'
  BY Zenon, <1>9, <1>11 DEF Mine, Drop, dbVars
<1>12. CASE UNCHANGED vars
  BY Zenon, <1>9, <1>12 DEF vars, dbVars
<1> QED
  BY Zenon, <1>1, <1>2, <1>4, <1>5, <1>6, <1>8, <1>10, <1>11, <1>12 DEF Next, MonitorStep,
     NodeStep
-----------------------------------------------------------------------------
\* A row is confirmed by a claim or by a transaction that succeeded.
LEMMA ConfirmStep == Types /\ CycleInv /\ ConfirmInv /\ [Next]_vars => ConfirmInv'
<1> SUFFICES ASSUME Types, CycleInv, ConfirmInv, [Next]_vars PROVE ConfirmInv'
  BY Zenon
<1>1. CASE Begin
  BY Zenon, <1>1 DEF ConfirmInv, Begin, dbVars, nodeVars, l2Vars
<1>2. CASE Commit
  BY Zenon, <1>2 DEF ConfirmInv, Commit, Merged, NoRows, nodeVars, l2Vars
<1>3. ASSUME NEW d \in todo, NEW s, OnRow(d, s), s = "confirmed" => d \in claimed,
             UNCHANGED <<mined, claimed>>
      PROVE  ConfirmInv'
  BY Zenon, <1>3 DEF OnRow, ConfirmInv, Types
<1>4. ASSUME NEW d \in todo,
             SetTxNonce(d) \/ Send(d) \/ SendRefused(d) \/ SkipRow(d) \/ NotSent(d)
               \/ SendUnanswered(d)
      PROVE  ConfirmInv'
  <2>1. UNCHANGED <<mined, claimed>>
    BY Zenon, <1>4 DEF SetTxNonce, Send, SendRefused, SkipRow, NotSent, SendUnanswered, nodeVars,
                l2Vars
  <2> QED
    BY Zenon, <1>3, <1>4, <2>1, MonitorOnRow
<1>5. ASSUME NEW d \in todo, Check(d) \/ CheckFails(d) PROVE ConfirmInv'
  <2>1. PICK seen \in SUBSET work[d].history : CheckRow(d, seen)
    BY Zenon, <1>5 DEF Check, CheckFails
  <2>2. UNCHANGED <<mined, claimed>>
    BY Zenon, <2>1 DEF CheckRow, nodeVars, l2Vars
  <2>3. \A t \in seen : t.deposit = d
    BY Zenon DEF ConfirmInv, CycleInv, Types
  <2>4. NewStatus(d, seen) = "confirmed" => d \in claimed
    <3>1. ASSUME NEW t \in seen, [sent |-> t, ok |-> TRUE] \in mined PROVE d \in claimed
      <4>1. [sent |-> t, ok |-> TRUE].ok /\ [sent |-> t, ok |-> TRUE].sent = t
        BY Zenon
      <4>2. t.deposit \in claimed
        BY Zenon, <3>1, <4>1 DEF ConfirmInv
      <4> QED BY Zenon, <2>3, <4>2
    <3>2. NewStatus(d, seen) = "confirmed" => d \in claims \/ Succeeded(seen)
      BY Zenon DEF NewStatus
    <3> QED
      BY Zenon, <3>1, <3>2 DEF Succeeded, Types
  <2> QED
    BY Zenon, <2>1, <2>2, <2>4, <1>3, CheckOnRow
<1>6. ASSUME NEW crash \in BOOLEAN, CycleFails(crash) PROVE ConfirmInv'
  BY Zenon, <1>6 DEF ConfirmInv, CycleFails, NoRows, dbVars, nodeVars, l2Vars
<1>7. ASSUME NEW d \in Deposit, AddClaimTx(d) \/ AddClaimTxFails(d) PROVE ConfirmInv'
  <2>1. PICK s : AddRow(d, s) /\ s # "confirmed"
    BY <1>7 DEF AddClaimTx, AddClaimTxFails
  <2>2. /\ rows'[d].status = s /\ rows'[d].history = rows[d].history
        /\ \A e \in Deposit \ {d} : rows'[e] = rows[e]
    BY Zenon, <2>1 DEF AddRow, Types, Rows
  <2> QED
    BY Zenon, <2>1, <2>2 DEF AddRow, ConfirmInv, cycleVars, nodeVars, l2Vars
<1>8. ASSUME UNCHANGED <<rows, work, mined>>, claimed \subseteq claimed' PROVE ConfirmInv'
  BY Zenon, <1>8 DEF ConfirmInv
<1>9. ASSUME NEW d \in Deposit, UserClaim(d) \/ Refuse(d) \/ SyncClaim(d) PROVE ConfirmInv'
  BY Zenon, <1>8, <1>9 DEF UserClaim, Refuse, SyncClaim, dbVars, cycleVars, nodeVars, l2Vars
<1>10. ASSUME NEW t \in pool, Drop(t) PROVE ConfirmInv'
  BY Zenon, <1>8, <1>10 DEF Drop, dbVars, cycleVars, l2Vars
<1>11. ASSUME NEW t \in pool, Mine(t, TRUE) \/ Mine(t, FALSE) PROVE ConfirmInv'
  BY <1>11 DEF ConfirmInv, Mine, dbVars, cycleVars
<1>12. CASE UNCHANGED vars
  BY Zenon, <1>8, <1>12 DEF vars, dbVars, cycleVars, nodeVars, l2Vars
<1> QED
  BY Zenon, <1>1, <1>2, <1>4, <1>5, <1>6, <1>7, <1>9, <1>10, <1>11, <1>12
     DEF Next, MonitorStep, NodeStep
-----------------------------------------------------------------------------
\* As long as nothing fails, a transaction is sent only for a deposit that has none in
\* the pool, and the history of its row has it.
LEMMA FlightStep ==
  Types /\ CycleInv /\ ConfirmInv /\ FlightInv /\ [Next]_vars => FlightInv'
<1> SUFFICES ASSUME Types, CycleInv, ConfirmInv, FlightInv, [Next]_vars, faults' = MaxFaults
             PROVE  FlightInv'
  BY Zenon DEF FlightInv
<1> USE MonitorAssumption
<1>1. ~Fault /\ ~FaultWithNonce
  BY DEF Fault, FaultWithNonce, Types
<1>2. ASSUME UNCHANGED faults
      PROVE  /\ \A t \in pool : t \in Merged(t.deposit).history
             /\ \A d \in Deposit : Merged(d).status = "failed" => Idle(d)
             /\ pc \in {"nonce", "send"} => \A d \in todo : IsNext(d) => Idle(d)
             /\ pc = "send" => \A d \in todo : IsNext(d) => Tx(d, cache) \in work[d].history
             /\ \A t, u \in pool : t.deposit = u.deposit => t = u
  BY Zenon, <1>2 DEF FlightInv
<1>3. \A t \in pool : t.deposit \in Deposit
  BY Zenon DEF Types, Txs
<1>4. ASSUME UNCHANGED <<pool, faults>>, pc' \in {"idle", "check"},
             \A e \in Deposit : Merged(e)' = Merged(e)
      PROVE  FlightInv'
  BY Zenon, <1>2, <1>3, <1>4 DEF FlightInv, Idle
<1>5. CASE Begin
  <2>1. \A e \in Deposit : Merged(e)' = Merged(e)
    <3> TAKE e \in Deposit
    <3>1. NoRows[e].status = "none"
      BY Zenon DEF NoRows
    <3>2. work = NoRows /\ work' = rows /\ rows' = rows
      BY Zenon, <1>5 DEF Begin, CycleInv, dbVars
    <3> QED
      BY Zenon, <3>1, <3>2 DEF Merged
  <2> QED
    BY Zenon, <1>4, <1>5, <2>1 DEF Begin, nodeVars, faultVars
<1>6. CASE Commit
  <2>1. \A e \in Deposit : Merged(e)' = Merged(e)
    BY Zenon, <1>6 DEF Commit, Merged, NoRows
  <2> QED
    BY Zenon, <1>4, <1>6, <2>1 DEF Commit, nodeVars, faultVars
<1>7. ASSUME NEW d \in todo
      PROVE  d \in Deposit /\ Merged(d) = work[d] /\ work[d].status = "created"
  BY Zenon DEF CycleInv, Types, Merged
<1>8. ASSUME NEW d \in todo, NEW s, OnRow(d, s), s # "none"
      PROVE  /\ Merged(d)' = work'[d]
             /\ \A e \in Deposit \ {d} : Merged(e)' = Merged(e)
  BY Zenon, <1>8, <1>7 DEF OnRow, Merged
<1>9. ASSUME NEW d \in todo, IsNext(d), Check(d) PROVE FlightInv'
  <2> DEFINE h == work[d].history
  <2>1. CheckRow(d, h) /\ UNCHANGED <<pool, faults, cache>>
    BY Zenon, <1>9 DEF Check, CheckRow, nodeVars, faultVars
  <2>2. NewStatus(d, h) # "none"
    BY Zenon DEF NewStatus
  <2>3. OnRow(d, NewStatus(d, h))
    BY Zenon, <2>1, CheckOnRow
  <2>4. /\ Merged(d)' = work'[d]
        /\ \A e \in Deposit \ {d} : Merged(e)' = Merged(e)
    BY Zenon, <2>2, <2>3, <1>8
  <2>5. work'[d].history = h /\ work'[d].status = NewStatus(d, h)
    BY Zenon, <2>1, <1>7 DEF CheckRow, Types, Rows
  <2>6. AllMined(h) => Idle(d)
    BY Zenon, <2>1, <1>2, <1>7 DEF AllMined, Idle
  <2>7. NewStatus(d, h) = "failed" => Idle(d)
    BY Zenon, <2>6 DEF NewStatus, GivenUp
  <2>8. \A t \in pool' : t \in Merged(t.deposit)'.history
    BY Zenon, <2>1, <2>4, <2>5, <1>2, <1>3, <1>7
  <2>9. \A e \in Deposit : Merged(e)'.status = "failed" => Idle(e)'
    BY Zenon, <2>1, <2>4, <2>5, <2>7, <1>2 DEF Idle
  <2>10. pc' = "nonce" => \A e \in todo' : IsNext(e)' => Idle(e)'
    <3>1. pc' = "nonce" => todo' = todo /\ Idle(d)
      BY Zenon, <2>1, <2>6 DEF CheckRow, Sends
    <3>2. \A e \in todo : (\A f \in todo : f <= e) => e = d
      BY <1>9 DEF IsNext, Types
    <3> QED
      BY Zenon, <2>1, <3>1, <3>2 DEF IsNext, Idle
  <2>11. pc' # "send"
    BY Zenon, <2>1 DEF CheckRow
  <2> QED
    BY Zenon, <2>1, <2>8, <2>9, <2>10, <2>11, <1>2 DEF FlightInv
<1>10. ASSUME NEW d \in todo, IsNext(d), SetTxNonce(d) PROVE FlightInv'
  <2>1. /\ UNCHANGED <<pool, faults, todo>> /\ pc = "nonce" /\ pc' = "send"
        /\ cache' = NextNonce(account)
    BY Zenon, <1>10 DEF SetTxNonce, nodeVars, faultVars
  <2>2. OnRow(d, "created")
    BY Zenon, <1>10, MonitorOnRow
  <2>3. /\ Merged(d)' = work'[d]
        /\ \A e \in Deposit \ {d} : Merged(e)' = Merged(e)
    BY Zenon, <2>2, <1>8
  <2>4. work'[d].history = work[d].history \cup {Tx(d, cache')}
    BY Zenon, <1>10, <1>7, <2>1 DEF SetTxNonce, Types, Rows
  <2>5. \A t \in pool' : t \in Merged(t.deposit)'.history
    BY Zenon, <2>1, <2>3, <2>4, <1>2, <1>3, <1>7
  <2>6. \A e \in Deposit : Merged(e)'.status = "failed" => Idle(e)'
    BY Zenon, <2>1, <2>2, <2>3, <1>2 DEF Idle, OnRow
  <2>7. \A e \in todo' : IsNext(e)' => Idle(e)'
    BY Zenon, <2>1, <1>2 DEF IsNext, Idle
  <2>8. \A e \in todo : (\A f \in todo : f <= e) => e = d
    BY <1>10 DEF IsNext, Types
  <2>9. \A e \in todo' : IsNext(e)' => Tx(e, cache') \in work'[e].history
    BY Zenon, <2>1, <2>4, <2>8 DEF IsNext
  <2> QED
    BY Zenon, <2>1, <2>5, <2>6, <2>7, <2>9, <1>2 DEF FlightInv
<1>11. ASSUME NEW d \in todo, IsNext(d), Send(d) PROVE FlightInv'
  <2>1. /\ UNCHANGED <<work, faults>> /\ pc = "send" /\ pc' = "check"
        /\ \A t \in pool' : t \in pool \/ t = Tx(d, cache)
    BY Zenon, <1>11 DEF Send, NextRow, faultVars
  <2>2. Tx(d, cache).deposit = d /\ Tx(d, cache) \in work[d].history /\ Idle(d)
    BY Zenon, <1>11, <2>1, <1>2 DEF Tx
  <2>3. \A e \in Deposit : Merged(e)' = Merged(e)
    BY Zenon, <1>11, <2>1 DEF Send, Merged, dbVars
  <2>4. \A t \in pool' : t \in Merged(t.deposit)'.history
    BY Zenon, <2>1, <2>2, <2>3, <1>2, <1>3, <1>7
  <2>5. \A e \in Deposit : Merged(e)'.status = "failed" => Idle(e)'
    BY Zenon, <2>1, <2>2, <2>3, <1>2, <1>7 DEF Idle
  <2>6. \A t, u \in pool' : t.deposit = u.deposit => t = u
    BY Zenon, <2>1, <2>2, <1>2 DEF Idle
  <2> QED
    BY Zenon, <2>1, <2>4, <2>5, <2>6 DEF FlightInv
<1>12. ASSUME NEW d \in todo, IsNext(d), SendRefused(d) PROVE FlightInv'
  <2>1. UNCHANGED <<pool, faults>> /\ pc = "send" /\ RemoveHistory(d) /\ pc' = "check"
    BY Zenon, <1>12 DEF SendRefused, SendError, NextRow, nodeVars, faultVars
  <2>2. OnRow(d, "created")
    BY Zenon, <1>12, MonitorOnRow
  <2>3. /\ Merged(d)' = work'[d]
        /\ \A e \in Deposit \ {d} : Merged(e)' = Merged(e)
    BY Zenon, <2>2, <1>8
  <2>4. Idle(d)
    BY Zenon, <1>12, <2>1, <1>2
  <2>5. \A t \in pool' : t \in Merged(t.deposit)'.history
    BY Zenon, <2>1, <2>3, <2>4, <1>2, <1>3 DEF Idle
  <2>6. \A e \in Deposit : Merged(e)'.status = "failed" => Idle(e)'
    BY Zenon, <2>1, <2>2, <2>3, <1>2 DEF Idle, OnRow
  <2> QED
    BY Zenon, <2>1, <2>5, <2>6, <1>2 DEF FlightInv
<1>13. ASSUME UNCHANGED <<faults, cycleVars, cache>>, pool' \subseteq pool,
              \A e \in Deposit : /\ Merged(e)'.history = Merged(e).history
                                 /\ Merged(e)'.status = "failed" => Merged(e).status = "failed"
       PROVE  FlightInv'
  BY Zenon, <1>2, <1>3, <1>13 DEF FlightInv, Idle, IsNext, cycleVars
<1>14. ASSUME NEW d \in Deposit, AddClaimTx(d) PROVE FlightInv'
  <2>1. PICK s : AddRow(d, s) /\ s # "failed"
    BY <1>14 DEF AddClaimTx
  <2>2. /\ rows'[d].status = s /\ rows'[d].history = rows[d].history
        /\ \A e \in Deposit \ {d} : rows'[e] = rows[e]
    BY Zenon, <2>1 DEF AddRow, Types, Rows
  <2>3. UNCHANGED <<faults, cycleVars, cache, pool>>
    BY Zenon, <1>14, <2>1 DEF AddClaimTx, AddRow, faultVars, nodeVars
  <2>4. work[d].status = "none" /\ UNCHANGED work
    BY Zenon, <2>1, <2>3 DEF AddRow, CycleInv, cycleVars
  <2>5. \A e \in Deposit : /\ Merged(e)'.history = Merged(e).history
                           /\ Merged(e)'.status = "failed" => Merged(e).status = "failed"
    BY Zenon, <2>1, <2>2, <2>4 DEF Merged
  <2> QED
    BY Zenon, <2>3, <2>5, <1>13
<1>15. ASSUME UNCHANGED <<faults, cycleVars, cache, rows>>, pool' \subseteq pool
       PROVE  FlightInv'
  BY Zenon, <1>13, <1>15 DEF Merged, cycleVars
<1>16. ASSUME NEW d \in Deposit, UserClaim(d) \/ Refuse(d) \/ SyncClaim(d) PROVE FlightInv'
  BY Zenon, <1>15, <1>16 DEF UserClaim, Refuse, SyncClaim, dbVars, nodeVars, faultVars
<1>17. ASSUME NEW t \in pool, Mine(t, TRUE) \/ Mine(t, FALSE) PROVE FlightInv'
  BY Zenon, <1>15, <1>17 DEF Mine, dbVars, faultVars
<1>18. CASE UNCHANGED vars
  BY Zenon, <1>15, <1>18 DEF vars, dbVars, nodeVars, faultVars
<1> QED
  BY Zenon, <1>1, <1>5, <1>6, <1>9, <1>10, <1>11, <1>12, <1>14, <1>16, <1>17, <1>18
     DEF Next, MonitorStep, NodeStep, CheckFails, SkipRow, NotSent, SendUnanswered,
         CycleFails, Drop, AddClaimTxFails
-----------------------------------------------------------------------------
\* A cycle changes the status of created rows only, and nobody else changes theirs.
LEMMA SettleStep == Types /\ CycleInv /\ SettleInv /\ [Next]_vars => SettleInv'
<1> SUFFICES ASSUME Types, CycleInv, SettleInv, [Next]_vars PROVE SettleInv'
  BY Zenon
<1>1. CASE Begin
  BY Zenon, <1>1 DEF SettleInv, Begin, dbVars
<1>2. ASSUME work' = NoRows PROVE SettleInv'
  BY Zenon, <1>2 DEF SettleInv, NoRows
<1>3. ASSUME NEW d \in todo, NEW s, OnRow(d, s), s \in {"created", "confirmed", "failed"}
      PROVE  SettleInv'
  <2>1. d \in Deposit /\ rows[d].status = "created"
    BY Zenon DEF CycleInv, SettleInv, Types
  <2> QED
    BY Zenon, <1>3, <2>1 DEF OnRow, SettleInv
<1>4. ASSUME NEW d \in todo,
             SetTxNonce(d) \/ Send(d) \/ SendRefused(d) \/ SkipRow(d) \/ NotSent(d)
               \/ SendUnanswered(d)
      PROVE  SettleInv'
  BY Zenon, <1>3, <1>4, MonitorOnRow
<1>5. ASSUME NEW d \in todo, Check(d) \/ CheckFails(d) PROVE SettleInv'
  <2>1. PICK seen : CheckRow(d, seen)
    BY Zenon, <1>5 DEF Check, CheckFails
  <2>2. NewStatus(d, seen) \in {"created", "confirmed", "failed"}
    BY Zenon DEF NewStatus
  <2> QED
    BY Zenon, <2>1, <2>2, <1>3, CheckOnRow
<1>6. ASSUME NEW d \in Deposit, AddClaimTx(d) \/ AddClaimTxFails(d) PROVE SettleInv'
  <2>1. PICK s : AddRow(d, s)
    BY Zenon, <1>6 DEF AddClaimTx, AddClaimTxFails
  <2>2. rows[d].status = "none" /\ \A e \in Deposit \ {d} : rows'[e] = rows[e]
    BY Zenon, <2>1 DEF AddRow, Types
  <2>3. work[d].status = "none" /\ UNCHANGED work
    BY Zenon, <2>1, <2>2 DEF AddRow, CycleInv, cycleVars
  <2> QED
    BY Zenon, <2>2, <2>3 DEF SettleInv
<1>7. ASSUME UNCHANGED <<rows, work>> PROVE SettleInv'
  BY Zenon, <1>7 DEF SettleInv
<1>8. ASSUME NEW d \in Deposit, UserClaim(d) \/ Refuse(d) \/ SyncClaim(d) PROVE SettleInv'
  BY Zenon, <1>7, <1>8 DEF UserClaim, Refuse, SyncClaim, dbVars, cycleVars
<1>9. ASSUME NEW t \in pool, Mine(t, TRUE) \/ Mine(t, FALSE) \/ Drop(t) PROVE SettleInv'
  BY Zenon, <1>7, <1>9 DEF Mine, Drop, dbVars, cycleVars
<1>10. CASE UNCHANGED vars
  BY Zenon, <1>7, <1>10 DEF vars, dbVars, cycleVars
<1>11. CASE Commit \/ \E crash \in BOOLEAN : CycleFails(crash)
  BY Zenon, <1>2, <1>11 DEF Commit, CycleFails
<1> QED
  BY Zenon, <1>1, <1>4, <1>5, <1>6, <1>8, <1>9, <1>10, <1>11 DEF Next, MonitorStep, NodeStep
-----------------------------------------------------------------------------
\* The inductive invariant.
MonitorInv ==
  Types /\ HistoryInv /\ NonceInv /\ CycleInv /\ ConfirmInv /\ SettleInv /\ FlightInv

\* The invariant holds for every set of deposits, limit, history size and number of
\* failures.
THEOREM MonitorInvariant == Spec => []MonitorInv
<1>1. Init => MonitorInv
  <2> SUFFICES ASSUME Init PROVE MonitorInv
    BY Zenon
  <2> USE MonitorAssumption
  <2>1. \A d \in Deposit : NoRows[d].status = "none" /\ NoRows[d].history = {}
    BY Zenon DEF NoRows
  <2>2. Types
    <3>1. NoRows \in [Deposit -> Rows]
      BY Zenon DEF NoRows, Rows, Statuses
    <3>2. MaxFaults \in 0..MaxFaults
      OBVIOUS
    <3> QED
      BY Zenon, <3>1, <3>2 DEF Init, Types
  <2>3. HistoryInv
    <3>1. IsFiniteSet({}) /\ Cardinality({}) = 0 /\ 0 <= MaxHistory
      BY FS_EmptySet
    <3> QED
      BY Zenon, <2>1, <3>1 DEF Init, HistoryInv
  <2>4. NonceInv
    BY Zenon DEF Init, NonceInv
  <2>5. CycleInv
    BY Zenon, <2>1 DEF Init, CycleInv
  <2>6. ConfirmInv
    BY Zenon, <2>1 DEF Init, ConfirmInv
  <2>7. FlightInv
    BY Zenon, <2>1 DEF Init, FlightInv, Merged
  <2>8. SettleInv
    BY Zenon, <2>1 DEF Init, SettleInv
  <2> QED
    BY Zenon, <2>2, <2>3, <2>4, <2>5, <2>6, <2>7, <2>8 DEF MonitorInv
<1>2. MonitorInv /\ [Next]_vars => MonitorInv'
  BY Zenon, TypesStep, HistoryStep, NonceStep, CycleStep, ConfirmStep, SettleStep, FlightStep
     DEF MonitorInv
<1> QED
  BY <1>1, <1>2, PTL DEF Spec

\* The state keeps its types, and no row gets more than maxHistorySize transactions.
THEOREM MonitorTypes == Spec => []TypeOK
<1>1. MonitorInv => TypeOK
  BY Zenon DEF MonitorInv, Types, HistoryInv, TypeOK
<1> QED
  BY <1>1, MonitorInvariant, PTL

\* A confirmed row is claimed, and a row that was given up has nothing in the pool as
\* long as nothing failed.
THEOREM FinalStatus == Spec => []StatusIsFinal
<1>1. MonitorInv => StatusIsFinal
  BY Zenon DEF MonitorInv, CycleInv, ConfirmInv, FlightInv, Idle, StatusIsFinal
<1> QED
  BY <1>1, MonitorInvariant, PTL

\* A deposit has one transaction in the pool at most, as long as nothing failed.
THEOREM OneClaimInFlight == Spec => []OneInFlight
<1>1. MonitorInv => OneInFlight
  BY Zenon DEF MonitorInv, FlightInv, OneInFlight
<1> QED
  BY <1>1, MonitorInvariant, PTL

\* The nonces of the pool have no gap unless a transaction was lost: refusals, answers
\* that do not arrive, failed cycles and restarts leave none.
THEOREM NoncesWithoutGap == Spec => []NoGap
<1>1. MonitorInv => NoGap
  BY Zenon DEF MonitorInv, NonceInv, NoGap
<1> QED
  BY <1>1, MonitorInvariant, PTL

-----------------------------------------------------------------------------
\* Every step is one of the abstract specification or leaves its variables alone.
LEMMA LifecycleStep ==
  MonitorInv /\ [Next]_vars
    => [Lifecycle!Next]_<<[d \in Deposit |-> IF rows[d].status = "ignored" THEN "none"
                                             ELSE rows[d].status], claimed>>
<1> DEFINE row == [d \in Deposit |-> IF rows[d].status = "ignored" THEN "none"
                                     ELSE rows[d].status]
<1> SUFFICES ASSUME MonitorInv, [Next]_vars
             PROVE  Lifecycle!Next \/ UNCHANGED <<row, claimed>>
  BY Zenon
<1>1. ASSUME UNCHANGED <<rows, claimed>> PROVE UNCHANGED <<row, claimed>>
  BY Zenon, <1>1
<1>2. ASSUME NEW C \in SUBSET Deposit, claimed' = claimed \cup C, UNCHANGED rows
      PROVE  Lifecycle!Next
  <2>1. Lifecycle!Claim(C)
    BY Zenon, <1>2 DEF Lifecycle!Claim
  <2> QED
    BY Zenon, <2>1 DEF Lifecycle!Next
<1>3. CASE Begin \/ (\E crash \in BOOLEAN : CycleFails(crash)) \/ UNCHANGED vars
  BY Zenon, <1>1, <1>3 DEF Begin, CycleFails, vars, dbVars, nodeVars, l2Vars
<1>4. ASSUME NEW d \in todo,
             Check(d) \/ CheckFails(d) \/ SetTxNonce(d) \/ Send(d) \/ SendRefused(d)
               \/ SkipRow(d) \/ NotSent(d) \/ SendUnanswered(d)
      PROVE  UNCHANGED <<rows, claimed>>
  BY Zenon, <1>4 DEF Check, CheckFails, CheckRow, SetTxNonce, Send, SendRefused, SkipRow, NotSent,
              SendUnanswered, dbVars, nodeVars, l2Vars
<1>5. ASSUME NEW t \in pool, Mine(t, TRUE) \/ Mine(t, FALSE)
      PROVE  Lifecycle!Next \/ UNCHANGED <<rows, claimed>>
  <2>1. {t.deposit} \in SUBSET Deposit
    BY Zenon DEF MonitorInv, Types, Txs
  <2>2. UNCHANGED rows /\ claimed' \in {claimed, claimed \cup {t.deposit}}
    BY Zenon, <1>5 DEF Mine, dbVars
  <2> QED
    BY Zenon, <2>1, <2>2, <1>2
<1>6. ASSUME NEW d \in Deposit, UserClaim(d) PROVE Lifecycle!Next
  <2>1. {d} \in SUBSET Deposit
    BY Zenon
  <2> QED
    BY Zenon, <2>1, <1>2, <1>6 DEF UserClaim, dbVars
<1>7. ASSUME NEW d \in Deposit, Refuse(d) \/ SyncClaim(d) PROVE UNCHANGED <<rows, claimed>>
  BY Zenon, <1>7 DEF Refuse, SyncClaim, dbVars, nodeVars, l2Vars
<1>8. ASSUME NEW t \in pool, Drop(t) PROVE UNCHANGED <<rows, claimed>>
  BY Zenon, <1>8 DEF Drop, dbVars, l2Vars
<1>9. ASSUME NEW d \in Deposit, NEW s \in {"ignored", "created"}, AddRow(d, s)
      PROVE  Lifecycle!Next \/ UNCHANGED <<row, claimed>>
  <2>1. /\ rows[d].status = "none" /\ rows'[d].status = s /\ UNCHANGED claimed
        /\ \A e \in Deposit \ {d} : rows'[e] = rows[e]
    BY Zenon, <1>9 DEF AddRow, MonitorInv, Types, Rows, nodeVars, l2Vars
  <2>2. CASE s = "ignored"
    BY Zenon, <2>1, <2>2
  <2>3. CASE s = "created"
    <3>1. row' = [row EXCEPT ![d] = "created"]
      BY Zenon, <2>1, <2>3
    <3>2. Lifecycle!Add(d)
      BY Zenon, <2>1, <3>1 DEF Lifecycle!Add
    <3> QED
      BY Zenon, <3>2 DEF Lifecycle!Next
  <2> QED
    BY Zenon, <2>2, <2>3
<1>10. ASSUME NEW d \in Deposit, AddClaimTx(d) \/ AddClaimTxFails(d)
       PROVE  Lifecycle!Next \/ UNCHANGED <<row, claimed>>
  BY Zenon, <1>9, <1>10 DEF AddClaimTx, AddClaimTxFails
<1>11. CASE Commit
  <2> DEFINE Become(s) ==
               {d \in Deposit : rows[d].status = "created" /\ Merged(d).status = s}
  <2>0. PICK ok \in SUBSET Deposit, bad \in SUBSET Deposit :
          ok = Become("confirmed") /\ bad = Become("failed")
    BY Zenon
  <2>1. \A d \in Deposit : rows'[d] = Merged(d)
    BY Zenon, <1>11 DEF Commit
  <2>2. \A d \in Deposit :
          \/ Merged(d).status = rows[d].status
          \/ rows[d].status = "created" /\ Merged(d).status \in {"confirmed", "failed"}
    BY Zenon DEF MonitorInv, SettleInv, Merged
  <2>3. ok \subseteq claimed
    BY Zenon, <2>0 DEF MonitorInv, ConfirmInv, Merged
  <2>4. UNCHANGED claimed
    BY Zenon, <1>11 DEF Commit, nodeVars, l2Vars
  <2>5. row' = [d \in Deposit |-> IF d \in ok THEN "confirmed"
                                  ELSE IF d \in bad THEN "failed" ELSE row[d]]
    BY Zenon, <2>0, <2>1, <2>2
  <2>6. ok \cap bad = {} /\ \A d \in ok \cup bad : row[d] = "created"
    BY Zenon, <2>0
  <2>7. Lifecycle!Settle(ok, bad)
    BY Zenon, <2>3, <2>4, <2>5, <2>6 DEF Lifecycle!Settle
  <2> QED
    BY Zenon, <2>7 DEF Lifecycle!Next
<1> QED
  BY Zenon, <1>1, <1>3, <1>4, <1>5, <1>6, <1>7, <1>8, <1>10, <1>11 DEF Next, MonitorStep, NodeStep

\* Claims sent one by one keep the life cycle of rows that the manager promises: a row is
\* added once, leaves "created" once, and is confirmed only when its deposit is claimed.
THEOREM MonitorImplementsLifecycle == Spec => LifecycleSpec
<1>1. Init => Lifecycle!Init
  BY DEF Init, NoRows, Lifecycle!Init
<1> QED
  BY <1>1, LifecycleStep, MonitorInvariant, PTL DEF Spec, LifecycleSpec, Lifecycle!Spec
=============================================================================
