------------------------- MODULE SynchronizerProofs -------------------------
(***************************************************************************)
(* Proofs about Synchronizer and SyncHistory, for every block tree and     *)
(* every configuration the assumptions of Synchronizer allow: types; the   *)
(* database is the complete history of one fork, and refines BridgeLedger; *)
(* what a rewind deletes, which roots the claim managers are told of, and  *)
(* the count of the in-memory tree, through every reorganisation, failure  *)
(* and crash.                                                              *)
(***************************************************************************)
EXTENDS SyncHistory, FiniteSetTheorems, WellFoundedInduction, TLAPS

-----------------------------------------------------------------------------
(***************************************************************************)
(* The values the queries and the helpers return.                          *)
(***************************************************************************)

\* A stored block has a record.
LEMMA RecType == \A b \in Block : Rec(b) \in BlockRec
  BY Zenon, ChainAssumption DEF Rec, BlockRec

\* The genesis placeholder, and the zero block of line 355, are records.
LEMMA PlaceholderType ==
  Placeholder \in BlockRec /\ [num |-> 0, hash |-> NoHash] \in BlockRec
  BY Zenon, ConfigAssumption DEF Placeholder, BlockRec

\* GetLastBlock, GetPreviousBlock, GetNumberDeposits and GetLatestExitRoot return
\* values of their types.
LEMMA QueryType ==
  ASSUME NEW S \in SUBSET Block
  PROVE  /\ GetLastBlock(S) \subseteq BlockRec
         /\ \A d \in Nat : GetPreviousBlock(S, d) \subseteq BlockRec
         /\ GetNumberDeposits(S) \subseteq Nat
         /\ GetLatestExitRoot(S) \subseteq Nat
<1>1. GetLastBlock(S) \subseteq BlockRec
  BY Zenon, RecType, PlaceholderType DEF GetLastBlock, Highest
<1>2. \A d \in Nat : GetPreviousBlock(S, d) \subseteq BlockRec
  BY Zenon, RecType DEF GetPreviousBlock
<1>3. GetNumberDeposits(S) \subseteq Nat
  BY EventAssumption DEF GetNumberDeposits
<1>4. GetLatestExitRoot(S) \subseteq Nat
  BY EventAssumption DEF GetLatestExitRoot, Highest
<1> QED BY Zenon, <1>1, <1>2, <1>3, <1>4

-----------------------------------------------------------------------------
(***************************************************************************)
(* Type correctness.                                                       *)
(***************************************************************************)

\* The numeric constants of the configuration.
LEMMA ConfigType == GenBlock \in Nat /\ SyncChunkSize \in Nat /\ MaxFaults \in Nat
  BY Zenon, ConfigAssumption

\* The initial state is well typed.
LEMMA TypeInit == Init => TypeOK
<1> SUFFICES ASSUME Init PROVE TypeOK
  BY Zenon
<1> QED BY Zenon, PlaceholderType, ConfigType DEF Init, TypeOK

\* Starting a walk of checkReorg at a block record.
LEMMA StartWalkType ==
  ASSUME NEW s \in {"first", "second", "prev"}, NEW r \in BlockRec, NEW d \in Nat,
         StartWalk(s, r, d)
  PROVE  stage' \in {"first", "second", "prev"} /\ rb' \in BlockRec /\ depth' \in Nat
  BY Zenon DEF StartWalk

\* Leaving syncBlocks.
LEMMA ReturnType ==
  ASSUME Return
  PROVE  /\ stage' \in {"first", "second", "prev"} /\ rb' \in BlockRec /\ depth' \in Nat
         /\ known' \in Nat /\ from' \in Nat /\ to' \in Nat
         /\ pend' \subseteq Block /\ tip' \in BlockRec /\ newGer' \in BOOLEAN
  BY Zenon, PlaceholderType DEF Return

\* One step of the walk.
LEMMA WalkBackType ==
  ASSUME TypeOK, NEW s \in {"first", "second", "prev"}, NEW d \in Nat, WalkBack(s, d)
  PROVE  /\ stage' \in {"first", "second", "prev"} /\ rb' \in BlockRec /\ depth' \in Nat
         /\ pc' \in {"check", "reset"}
<1>1. db \in SUBSET Block
  BY Zenon DEF TypeOK
<1>2. CASE \E r \in GetPreviousBlock(db, d) : StartWalk(s, r, d) /\ pc' = "check"
  BY Zenon, <1>1, <1>2, QueryType DEF StartWalk
<1>3. CASE StartWalk(s, Placeholder, d) /\ pc' = "reset"
  BY Zenon, <1>3, PlaceholderType DEF StartWalk
<1> QED BY Zenon, <1>2, <1>3 DEF WalkBack

\* Every step preserves the types.
LEMMA TypeNext == TypeOK /\ [Next]_vars => TypeOK'
<1> SUFFICES ASSUME TypeOK, [Next]_vars PROVE TypeOK'
  BY Zenon
<1> db \in SUBSET Block
  BY Zenon DEF TypeOK
<1> Number \in [Block -> Nat]
  BY Zenon, ChainAssumption
<1> USE ConfigType, PlaceholderType DEF trustVars
<1>1. CASE SyncBlocks
  BY Zenon, <1>1 DEF SyncBlocks, StartWalk, TypeOK, dbVars, gerVars, storeVars
<1>2. CASE CheckReorg
  <2>1. CASE pc' = "failed" /\ UNCHANGED <<walkVars, from, to>>
    BY Zenon, <1>2, <2>1 DEF CheckReorg, TypeOK, dbVars, gerVars, storeVars, walkVars
  <2>2. CASE WalkBack(stage, depth + 1) /\ UNCHANGED <<from, to>>
    <3>1. /\ stage' \in {"first", "second", "prev"} /\ rb' \in BlockRec /\ depth' \in Nat
          /\ pc' \in {"check", "reset"}
      BY <2>2, WalkBackType DEF TypeOK
    <3> QED BY Zenon, <1>2, <2>2, <3>1 DEF CheckReorg, TypeOK, dbVars, gerVars, storeVars
  <2>3. CASE WalkDone /\ UNCHANGED walkVars
    <3>1. from' \in Nat /\ to' \in Nat /\ pc' \in {"reset", "range", "store"}
      BY <2>3 DEF WalkDone, FirstFrom, TypeOK, BlockRec
    <3> QED BY Zenon, <1>2, <2>3, <3>1 DEF CheckReorg, TypeOK, dbVars, gerVars, storeVars,
       walkVars
  <2> QED BY Zenon, <1>2, <2>1, <2>2, <2>3 DEF CheckReorg
<1>3. CASE Reset
  <2>1. Kept(rb.num) \in SUBSET Block
    BY Zenon DEF Kept
  <2>2. GetNumberDeposits(Kept(rb.num)) \subseteq Nat
    BY Zenon, <2>1, QueryType
  <2>3. db' \subseteq Block /\ mtCount' \in Nat /\ faults' \in Nat
    BY <1>3, <2>1, <2>2 DEF Reset, ResetState, ResetStateFails, TypeOK
  <2>4. last' \in BlockRec /\ pc' \in {"after", "failed"}
    BY Zenon, <1>3 DEF Reset, TypeOK
  <2> QED BY Zenon, <1>3, <2>3, <2>4 DEF Reset, TypeOK, gerVars, storeVars, walkVars, rangeVars
<1>4. CASE ChooseRange
  <2>1. LastKnown \in Nat
    BY Zenon DEF LastKnown, TypeOK
  <2>2. RangeFrom \in Nat /\ RangeTo \in Nat
    BY Zenon, <2>1 DEF RangeFrom, RangeTo, TypeOK, BlockRec
  <2>3. synced' \in BOOLEAN /\ pc' \in {"after", "fetch"}
    BY Zenon, <1>4 DEF ChooseRange
  <2> QED BY Zenon, <1>4, <2>1, <2>2, <2>3
          DEF ChooseRange, TypeOK, dbVars, gerVars, walkVars, storeVars
<1>5. CASE Fetch
  <2>1. RollupInfo \in SUBSET Block
    BY Zenon, EventAssumption DEF RollupInfo
  <2>2. \A S \in SUBSET Block :
          TakeBlocks(S) => pend' \subseteq Block /\ tip' \in BlockRec /\ newGer' \in BOOLEAN
    BY Zenon, RecType DEF TakeBlocks, TypeOK, Highest
  <2> DEFINE Goal == /\ stage' \in {"first", "second", "prev"} /\ rb' \in BlockRec
                     /\ depth' \in Nat
                     /\ pend' \subseteq Block /\ tip' \in BlockRec /\ newGer' \in BOOLEAN
                     /\ pc' \in {"failed", "store", "check", "reset"}
  <2>3. ASSUME pc' = "failed" /\ UNCHANGED <<walkVars, storeVars, newGer>> PROVE Goal
    BY Zenon, <2>3 DEF TypeOK, walkVars, storeVars
  <2>4. ASSUME FetchUnchecked PROVE Goal
    BY Zenon, <2>4, <2>1, <2>2 DEF FetchUnchecked, TypeOK, walkVars
  <2>5. ASSUME FetchForced PROVE Goal
    BY Zenon, <2>5, <2>1, <2>2 DEF FetchForced, StartWalk, TypeOK
  <2>6. ASSUME FetchChecked PROVE Goal
    <3>1. PICK b : \/ /\ TakeBlocks(RollupInfo \ {b}) /\ pc' = "store" /\ UNCHANGED walkVars
                   \/ WalkBack("second", 1) /\ UNCHANGED <<storeVars, newGer>>
      BY Zenon, <2>6 DEF FetchChecked
    <3>2. CASE TakeBlocks(RollupInfo \ {b}) /\ pc' = "store" /\ UNCHANGED walkVars
      BY Zenon, <3>2, <2>1, <2>2 DEF TypeOK, walkVars
    <3>3. CASE WalkBack("second", 1) /\ UNCHANGED <<storeVars, newGer>>
      BY Zenon, <3>3, WalkBackType DEF TypeOK, storeVars
    <3> QED BY Zenon, <3>1, <3>2, <3>3
  <2>7. ASSUME FetchNothing PROVE Goal
    <3>1. rb' \in BlockRec /\ stage' = "prev" /\ depth' = 0
      BY Zenon, <2>7, QueryType DEF FetchNothing, StartWalk
    <3> QED BY Zenon, <2>7, <3>1 DEF FetchNothing, TypeOK, storeVars
  <2>8. Goal
    BY Zenon, <1>5, <2>3, <2>4, <2>5, <2>6, <2>7 DEF Fetch
  <2> QED BY Zenon, <1>5, <2>8 DEF Fetch, TypeOK, dbVars, rangeVars
<1>6. ASSUME NEW b \in pend, StoreBlock(b) PROVE TypeOK'
  <2>1. b \in Block /\ DepositCount[b] \in Nat
    BY Zenon, EventAssumption DEF TypeOK
  <2>2. newGer' \in BOOLEAN
    BY Zenon, <1>6 DEF StoreBlock, IsNewGer
  <2> QED BY Zenon, <1>6, <2>1, <2>2 DEF StoreBlock, TypeOK, walkVars, rangeVars
<1>7. ASSUME NEW b \in pend, StoreBlockFails(b) PROVE TypeOK'
  <2>1. b \in Block /\ FirstDeposit[b] \in Nat /\ DepositCount[b] \in Nat
    BY Zenon, EventAssumption DEF TypeOK
  <2>2. mtCount' \in Nat /\ faults' \in Nat
    BY <1>7, <2>1 DEF StoreBlockFails, TypeOK
  <2> QED BY Zenon, <1>7, <2>2 DEF StoreBlockFails, TypeOK, gerVars, walkVars, rangeVars,
     storeVars
<1>8. CASE Notify
  <2>1. GetLatestExitRoot(db) \subseteq Nat
    BY Zenon, QueryType
  <2>2. sent' \in Nat /\ delivered' \in Nat
    BY Zenon, <1>8, <2>1 DEF Notify, Larger, TypeOK
  <2> QED BY Zenon, <1>8, <2>2 DEF Notify, TypeOK, dbVars, walkVars, rangeVars, storeVars
<1>9. CASE NotifyFails
  BY <1>9 DEF NotifyFails, TypeOK, dbVars, gerVars, walkVars, rangeVars, storeVars
<1>10. CASE Finish
  <2>1. LastOfRange \subseteq BlockRec
    BY ChainAssumption, RecType DEF LastOfRange, HeaderByNumber, TypeOK
  <2>2. last' \in BlockRec
    BY Zenon, <1>10, <2>1 DEF Finish, TypeOK
  <2>3. from' \in Nat /\ to' \in Nat
    BY <1>10, <2>2 DEF Finish, NextFrom, TypeOK, BlockRec
  <2>4. synced' \in BOOLEAN /\ pc' \in {"failed", "after", "range"}
    BY Zenon, <1>10 DEF Finish, TypeOK
  <2> QED BY Zenon, <1>10, <2>2, <2>3, <2>4
          DEF Finish, TypeOK, dbVars, gerVars, walkVars, storeVars
<1>11. CASE Reload
  BY Zenon, <1>11, QueryType DEF Reload, TypeOK, dbVars, gerVars, walkVars, rangeVars, storeVars
<1>12. CASE ReloadFails
  BY <1>12 DEF ReloadFails, TypeOK, dbVars, gerVars, walkVars, rangeVars, storeVars
<1>13. CASE After
  <2>1. Kept(Number[head]) \in SUBSET Block
    BY Zenon DEF Kept
  <2>2. GetNumberDeposits(Kept(Number[head])) \subseteq Nat
    BY Zenon, <2>1, QueryType
  <2>3. db' \subseteq Block /\ mtCount' \in Nat /\ faults' \in Nat
    BY <1>13, <2>1, <2>2 DEF After, ResetState, ResetStateFails, TypeOK, dbVars
  <2>4. synced' \in BOOLEAN /\ pc' \in {"idle", "trusted", "stopped"}
    BY Zenon, <1>13 DEF After, TypeOK
  <2> QED BY Zenon, <1>13, <2>3, <2>4, ReturnType DEF After, TypeOK
<1>14. CASE AfterFails
  <2>1. Return /\ faults' \in Nat
    BY <1>14 DEF AfterFails, TypeOK
  <2> QED BY Zenon, <1>14, <2>1, ReturnType DEF AfterFails, TypeOK, dbVars
<1>15. CASE RpcFails
  BY <1>15 DEF RpcFails, TypeOK, dbVars, gerVars, walkVars, rangeVars, storeVars
<1>16. CASE Crash
  <2>1. Return /\ faults' \in Nat
    BY <1>16 DEF Crash, TypeOK
  <2> QED BY Zenon, <1>16, <2>1, ReturnType DEF Crash, TypeOK, dbVars
<1>17. CASE Restart
  <2>1. mtCount' \in Nat /\ sent' \in Nat /\ last' \in BlockRec
    BY <1>17, QueryType DEF Restart
  <2> QED BY Zenon, <1>17, <2>1 DEF Restart, TypeOK, walkVars, rangeVars, storeVars
<1>18. ASSUME NEW h \in Block, MoveHead(h) PROVE TypeOK'
  BY Zenon, <1>18 DEF MoveHead, TypeOK, dbVars, gerVars, walkVars, rangeVars, storeVars
<1>19. CASE UNCHANGED vars
  BY Zenon, <1>19 DEF vars, TypeOK, dbVars, gerVars, walkVars, rangeVars, storeVars
<1>20. CASE SyncTrustedState
  <2>1. trusted' \subseteq TrustedRoots /\ tger' \in Nat /\ pc' \in {"idle", "send"}
    BY Zenon, <1>20, ConfigAssumption DEF SyncTrustedState, TypeOK
  <2> QED BY Zenon, <1>20, <2>1 DEF SyncTrustedState, TypeOK, dbVars, gerVars, walkVars,
                             rangeVars, storeVars
<1>21. CASE SendTrusted
  BY Zenon, <1>21 DEF SendTrusted, Larger, TypeOK, dbVars, walkVars, rangeVars, storeVars
<1> QED
  BY Zenon, <1>1, <1>2, <1>3, <1>4, <1>5, <1>6, <1>7, <1>8, <1>9, <1>10, <1>11, <1>12,
     <1>13, <1>14, <1>15, <1>16, <1>17, <1>18, <1>19, <1>20, <1>21 DEF Next, SyncStep

\* The state of the synchronizer keeps its types, whatever the chain does and
\* whatever fails.
THEOREM TypeCorrect == Spec => []TypeOK
<1>1. Init => TypeOK
  BY Zenon, TypeInit
<1>2. TypeOK /\ [Next]_vars => TypeOK'
  BY Zenon, TypeNext
<1> QED BY <1>1, <1>2, PTL DEF Spec

-----------------------------------------------------------------------------
(***************************************************************************)
(* Block trees.                                                            *)
(***************************************************************************)

\* Ancestors of an ancestor, and their numbers.
LEMMA AncClosed ==
  ASSUME NEW b \in Block, NEW c \in Anc[b]
  PROVE  c \in Block /\ Number[c] \in Nat /\ Number[b] \in Nat
         /\ Number[c] <= Number[b] /\ Anc[c] \subseteq Anc[b] /\ c \in Anc[c]
<1>1. c \in Block
  BY Zenon, ChainAssumption
<1> QED BY Zenon, <1>1, ChainAssumption

\* Two ancestors of a block are ordered by their numbers.
LEMMA AncOrdered ==
  ASSUME NEW b \in Block, NEW c \in Anc[b], NEW d \in Anc[b]
  PROVE  /\ Number[c] <= Number[d] => c \in Anc[d]
         /\ Number[c] = Number[d] => c = d
  BY Zenon, ChainAssumption

\* The stored history of an ancestor is a prefix by number.
LEMMA StoredPrefix ==
  ASSUME NEW b \in Block, NEW c \in Anc[b]
  PROVE  Stored(c) = {d \in Stored(b) : Number[d] <= Number[c]}
<1>1. ASSUME NEW d \in Stored(c) PROVE d \in Stored(b) /\ Number[d] <= Number[c]
  BY Zenon, <1>1, AncClosed DEF Stored
<1>2. ASSUME NEW d \in Stored(b), Number[d] <= Number[c] PROVE d \in Stored(c)
  BY Zenon, <1>2, AncOrdered DEF Stored
<1> QED BY Zenon, <1>1, <1>2

\* A prefix of a stored history is whole.
LEMMA PrefixWhole ==
  ASSUME NEW b \in Block, NEW n \in Int
  PROVE  Whole({d \in Stored(b) : Number[d] <= n})
<1> DEFINE S == {d \in Stored(b) : Number[d] <= n}
<1>1. \A c \in S : c \in Events /\ Number[c] > GenBlock
  BY Zenon DEF Stored
<1>2. ASSUME NEW c \in S, NEW d \in S PROVE c \in Anc[d] \/ d \in Anc[c]
  <2>1. c \in Anc[b] /\ d \in Anc[b]
    BY Zenon DEF Stored
  <2>2. Number[c] \in Nat /\ Number[d] \in Nat
    BY Zenon, <2>1, AncClosed
  <2> QED BY <2>1, <2>2, AncOrdered
<1>3. ASSUME NEW c \in S, NEW d \in Stored(c) PROVE d \in S
  <2>1. c \in Anc[b]
    BY Zenon DEF Stored
  <2>2. d \in Stored(b) /\ Number[d] <= Number[c]
    BY Zenon, <2>1, StoredPrefix
  <2>3. Number[c] \in Nat /\ Number[d] \in Nat
    BY Zenon, <2>1, <2>2, AncClosed DEF Stored
  <2> QED BY <2>2, <2>3
<1> QED BY Zenon, <1>1, <1>2, <1>3 DEF Whole

\* Blocks of a whole set with the same number are the same block; the lower is
\* an ancestor of the higher.
LEMMA WholeOrdered ==
  ASSUME NEW S \in SUBSET Block, Whole(S), NEW b \in S, NEW c \in S,
         Number[b] <= Number[c]
  PROVE  b \in Anc[c] /\ (Number[b] = Number[c] => b = c)
<1>1. b \in Anc[b] /\ c \in Anc[c]
  BY Zenon, ChainAssumption
<1>2. CASE b \in Anc[c]
  BY Zenon, <1>1, <1>2, AncOrdered
<1>3. CASE c \in Anc[b]
  <2>1. Number[c] <= Number[b] /\ Number[b] \in Nat /\ Number[c] \in Nat
    BY Zenon, <1>3, AncClosed
  <2>2. Number[b] = Number[c]
    BY <2>1
  <2> QED BY Zenon, <1>1, <1>3, <2>2, AncOrdered
<1> QED BY Zenon, <1>2, <1>3 DEF Whole

\* What resetState keeps of a whole set is whole, and ends in the block it was
\* rewound to.
LEMMA KeptWhole ==
  ASSUME NEW S \in SUBSET Block, Whole(S), NEW n \in Int
  PROVE  Whole({c \in S : Number[c] <= n})
<1> DEFINE K == {c \in S : Number[c] <= n}
<1>1. ASSUME NEW c \in K, NEW d \in Stored(c) PROVE d \in K
  <2>1. d \in S
    BY Zenon DEF Whole
  <2>2. Number[d] <= Number[c] /\ Number[d] \in Nat /\ Number[c] \in Nat
    BY Zenon, AncClosed DEF Stored
  <2> QED BY <2>1, <2>2
<1> QED BY Zenon, <1>1 DEF Whole

\* A whole set is the history of each of its blocks, up to that block.
LEMMA KeptStored ==
  ASSUME NEW S \in SUBSET Block, Whole(S), NEW b \in S
  PROVE  /\ {c \in S : Number[c] <= Number[b]} = Stored(b)
         /\ b \in Highest({c \in S : Number[c] <= Number[b]})
<1>1. b \in Stored(b) /\ Number[b] \in Nat
  BY Zenon, ChainAssumption DEF Stored, Whole
<1>2. ASSUME NEW c \in S, Number[c] <= Number[b] PROVE c \in Stored(b)
  BY Zenon, <1>2, WholeOrdered DEF Stored, Whole
<1>3. ASSUME NEW c \in Stored(b) PROVE c \in S /\ Number[c] <= Number[b]
  BY Zenon, AncClosed DEF Stored, Whole
<1>4. b \in S /\ Number[b] <= Number[b]
  BY <1>1
<1> QED BY Zenon, <1>2, <1>3, <1>4 DEF Highest

\* The last block of a whole set has the set as its history.
LEMMA WholeIsStored ==
  ASSUME NEW S \in SUBSET Block, Whole(S), NEW b \in Highest(S)
  PROVE  S = Stored(b)
<1>1. b \in S /\ S = {c \in S : Number[c] <= Number[b]}
  BY Zenon DEF Highest
<1> QED BY Zenon, <1>1, KeptStored

\* A chain that grows keeps its history up to any number it had reached.
LEMMA GrowthKeepsPrefix ==
  ASSUME NEW h \in Block, NEW g \in Anc[h], NEW n \in Int, n <= Number[g]
  PROVE  {d \in Stored(h) : Number[d] <= n} = {d \in Stored(g) : Number[d] <= n}
<1>1. Stored(g) = {d \in Stored(h) : Number[d] <= Number[g]}
  BY Zenon, StoredPrefix
<1>2. \A d \in Stored(h) : Number[d] \in Nat
  BY Zenon, AncClosed DEF Stored
<1>3. Number[g] \in Nat
  BY Zenon, AncClosed
<1> QED BY <1>1, <1>2, <1>3

-----------------------------------------------------------------------------
(***************************************************************************)
(* The inductive invariant.                                                *)
(***************************************************************************)

\* It holds in the initial states.
LEMMA IInvInit == Init => IInv
<1> SUFFICES ASSUME Init PROVE IInv
  BY Zenon
<1>1. TypeOK
  BY Zenon, TypeInit
<1>2. Whole(db) /\ (HeadMayDrop \/ Covers(head))
  BY Zenon DEF Init, Whole
<1>3. LastOf(last, db) /\ last.num = GenBlock
  BY ConfigType DEF Init, LastOf, Placeholder
<1>4. WalkInv /\ CursorInv /\ InitialSyncInv /\ StoreInv
  BY Zenon, <1>3 DEF Init, WalkInv, CursorInv, InitialSyncInv, StoreInv
<1> QED BY Zenon, <1>1, <1>2, <1>4 DEF IInv

\* A step that leaves syncBlocks or Sync with an error keeps it: nothing is
\* claimed of the variables until the database is read again.
LEMMA IInvGiveUp ==
  ASSUME IInv, TypeOK', db' = db, head' = head, pend' \in {pend, {}},
         pc' \in {"failed", "stopped", "down"}
  PROVE  IInv'
<1>1. Whole(db)' /\ (HeadMayDrop \/ Covers(head))'
  BY Zenon DEF IInv, Whole, Stored, Covers
<1>2. WalkInv' /\ CursorInv' /\ InitialSyncInv' /\ StoreInv'
  BY Zenon DEF WalkInv, CursorInv, InitialSyncInv, StoreInv
<1> QED BY Zenon, <1>1, <1>2 DEF IInv

\* The queries for the last block return the last block.
LEMMA GetLastBlockIsLast ==
  ASSUME NEW S \in SUBSET Block, NEW r \in GetLastBlock(S)
  PROVE  LastOf(r, S) /\ (r.hash = NoHash => r.num = GenBlock)
<1>1. CASE S = {}
  BY <1>1, ConfigType DEF GetLastBlock, LastOf, Placeholder
<1>2. CASE S # {}
  BY <1>2, ChainAssumption DEF GetLastBlock, LastOf, Rec, Highest
<1> QED BY Zenon, <1>1, <1>2

\* GetPreviousBlock with a positive offset returns a stored block that is not
\* the last one.
LEMMA GetPreviousBlockIsOlder ==
  ASSUME NEW S \in SUBSET Block, NEW d \in Nat, NEW r \in GetPreviousBlock(S, d)
  PROVE  /\ r.hash \in S /\ r.num = Number[r.hash] /\ r.hash # NoHash
         /\ d # 0 => r.hash \notin Highest(S)
<1>1. PICK x \in S : r = Rec(x) /\ Cardinality({c \in S : Number[c] > Number[x]}) = d
  BY Zenon DEF GetPreviousBlock
<1>2. r.hash = x /\ r.num = Number[x]
  BY Zenon, <1>1 DEF Rec
<1>3. ASSUME x \in Highest(S) PROVE d = 0
  <2>1. {c \in S : Number[c] > Number[x]} = {}
    BY <1>3, ChainAssumption DEF Highest
  <2> QED BY Zenon, <1>1, <2>1, FS_EmptySet
<1> QED BY Zenon, <1>2, <1>3, ChainAssumption

\* A step of checkReorg to an older block keeps the walk at a stored block.
LEMMA WalkBackInv ==
  ASSUME TypeOK, LastOf(last, db), last' = last, db' = db, synced' = synced,
         NEW s \in {"first", "second", "prev"}, NEW d \in Nat, d # 0,
         ~synced => s = "first",
         WalkBack(s, d)
  PROVE  WalkInv'
<1>1. ASSUME NEW r \in GetPreviousBlock(db, d), StartWalk(s, r, d), pc' = "check"
      PROVE  WalkInv'
  <2>1. r.hash \in db /\ r.num = Number[r.hash] /\ r.hash # NoHash /\ r.hash \notin Highest(db)
    BY Zenon, GetPreviousBlockIsOlder DEF TypeOK
  <2>2. r.hash # last.hash
    BY Zenon, <2>1 DEF LastOf
  <2> QED BY Zenon, <1>1, <2>1, <2>2 DEF WalkInv, StartWalk
<1>2. ASSUME StartWalk(s, Placeholder, d), pc' = "reset" PROVE WalkInv'
  BY <1>2, ConfigType DEF WalkInv, StartWalk, Placeholder
<1> QED BY Zenon, <1>1, <1>2 DEF WalkBack

\* syncBlocks starts with checkReorg at lastBlockSynced.
LEMMA IInvSyncBlocks ==
  ASSUME Guarded, IInv, TypeOK', SyncBlocks
  PROVE  IInv'
<1> USE DEF SyncBlocks, dbVars, storeVars
<1>1. LastOf(last, db) /\ (~synced /\ last.hash = NoHash => last.num = GenBlock)
  BY Zenon DEF IInv, CursorInv
<1>2. Whole(db)' /\ (HeadMayDrop \/ Covers(head))'
  BY Zenon DEF IInv, Whole, Stored, Covers
<1>3. WalkInv'
  BY Zenon, <1>1 DEF WalkInv, StartWalk, LastOf, Highest
<1>4. CursorInv'
  BY Zenon, <1>1 DEF CursorInv, LastOf
<1>5. Number[head] <= Number[head]
  BY Zenon, ChainAssumption DEF IInv, TypeOK
<1>6. InitialSyncInv' /\ StoreInv'
  BY Zenon, <1>5 DEF InitialSyncInv, StoreInv
<1> QED BY Zenon, <1>2, <1>3, <1>4, <1>6 DEF IInv

\* checkReorg found lastBlockSynced on the chain: the whole database is the
\* history of the chain below the range that will be fetched.
LEMMA MatchedPrefix ==
  ASSUME IInv, ~synced, pc = "check", last.hash = rb.hash,
         NEW b \in HeaderByNumber(rb.num), ~Mismatch(b, rb)
  PROVE  /\ GenBlock < last.num + 1 /\ last.num + 1 <= Number[head] + 1
         /\ db = {c \in Stored(head) : Number[c] < last.num + 1}
<1>1. b \in Anc[head] /\ Number[b] = rb.num /\ head \in Block
  BY Zenon DEF HeaderByNumber, IInv, TypeOK
<1>2. Number[b] \in Nat /\ Number[head] \in Nat /\ Number[b] <= Number[head] /\ GenBlock \in Nat
  BY Zenon, <1>1, AncClosed, ConfigType
<1>3. LastOf(last, db) /\ db \in SUBSET Block /\ Whole(db)
  BY Zenon DEF IInv, CursorInv, TypeOK
<1>4. \A c \in Stored(head) : Number[c] \in Nat /\ Number[c] > GenBlock
  BY Zenon, <1>1, AncClosed DEF Stored
<1>5. CASE last.hash = NoHash
  <2>1. last.num = GenBlock /\ rb.num = GenBlock
    BY Zenon, <1>5 DEF IInv, CursorInv, WalkInv
  <2>2. db = {}
    BY Zenon, <1>3, <1>5, ChainAssumption DEF LastOf, Highest
  <2> QED BY <1>1, <1>2, <1>4, <2>1, <2>2
<1>6. CASE last.hash # NoHash
  <2>1. last.hash \in Highest(db) /\ last.num = Number[last.hash]
    BY Zenon, <1>3, <1>6 DEF LastOf
  <2>2. last.hash \in db /\ Number[last.hash] > GenBlock
    BY Zenon, <1>3, <2>1 DEF Highest, Whole
  <2>3. rb.num = Number[last.hash]
    BY Zenon, <1>6 DEF IInv, WalkInv
  <2>4. b = last.hash
    BY Zenon, <2>2, <2>3 DEF Mismatch
  <2>5. db = Stored(b)
    BY Zenon, <1>3, <2>1, <2>4, WholeIsStored
  <2>6. Stored(b) = {c \in Stored(head) : Number[c] <= Number[b]}
    BY Zenon, <1>1, StoredPrefix
  <2> QED BY <1>2, <1>4, <2>1, <2>2, <2>4, <2>5, <2>6
<1> QED BY Zenon, <1>5, <1>6

\* One header of checkReorg.
LEMMA IInvCheckReorg ==
  ASSUME Guarded, IInv, TypeOK', CheckReorg
  PROVE  IInv'
<1> USE DEF CheckReorg, dbVars, storeVars
<1>1. /\ LastOf(last, db) /\ (~synced /\ last.hash = NoHash => last.num = GenBlock)
      /\ TypeOK /\ depth \in Nat /\ stage \in {"first", "second", "prev"}
      /\ ~synced => known <= Number[head] /\ stage = "first"
  BY Zenon DEF IInv, CursorInv, InitialSyncInv, WalkInv, TypeOK
<1>2. Whole(db)' /\ (HeadMayDrop \/ Covers(head))'
  BY Zenon DEF IInv, Whole, Stored, Covers
<1>3. CASE pc' = "failed"
  BY Zenon, <1>3, IInvGiveUp
<1>4. CASE WalkBack(stage, depth + 1)
  <2>1. WalkInv'
    BY <1>1, <1>4, WalkBackInv
  <2>2. pc' \in {"check", "reset"}
    BY Zenon, <1>4 DEF WalkBack
  <2>3. CursorInv' /\ InitialSyncInv' /\ StoreInv'
    BY Zenon, <1>1, <2>2 DEF CursorInv, InitialSyncInv, StoreInv, LastOf
  <2> QED BY Zenon, <1>2, <2>1, <2>3 DEF IInv
<1>5. ASSUME NEW b \in HeaderByNumber(rb.num), ~Mismatch(b, rb), WalkDone, UNCHANGED walkVars
      PROVE  IInv'
  <2>1. CASE pc' = "reset"
    <3>1. WalkInv'
      BY Zenon, <1>5, <2>1 DEF IInv, WalkInv, walkVars
    <3>2. CursorInv' /\ InitialSyncInv' /\ StoreInv'
      BY Zenon, <1>1, <2>1 DEF CursorInv, InitialSyncInv, StoreInv, LastOf
    <3> QED BY Zenon, <1>2, <3>1, <3>2 DEF IInv
  <2>2. CASE stage = "first" /\ last.hash = rb.hash /\ from' = FirstFrom /\ pc' = "range"
    <3>1. ~synced => /\ GenBlock < last.num + 1 /\ last.num + 1 <= Number[head] + 1
                     /\ db = {c \in Stored(head) : Number[c] < last.num + 1}
      BY Zenon, <1>5, <2>2, MatchedPrefix
    <3>2. IF synced THEN from' = last.num ELSE from' = last.num + 1
      BY Zenon, <2>2 DEF FirstFrom, Guarded
    <3>3. WalkInv' /\ StoreInv' /\ CursorInv'
      BY Zenon, <1>1, <2>2, <3>2 DEF WalkInv, CursorInv, StoreInv, LastOf
    <3>4. InitialSyncInv'
      BY Zenon, <1>1, <2>2, <3>1, <3>2 DEF InitialSyncInv, Stored
    <3> QED BY Zenon, <1>2, <3>3, <3>4 DEF IInv
  <2>3. CASE stage = "second" /\ last.hash = rb.hash
    BY Zenon, <2>3 DEF IInv, WalkInv
  <2> QED BY Zenon, <1>5, <2>1, <2>2, <2>3 DEF WalkDone
<1> QED BY Zenon, <1>3, <1>4, <1>5

\* resetState rewinds to the block checkReorg stopped at.
LEMMA IInvReset ==
  ASSUME Guarded, IInv, TypeOK', Reset
  PROVE  IInv'
<1> USE DEF Reset, storeVars
<1>1. CASE pc' = "failed"
  BY Zenon, <1>1, IInvGiveUp DEF ResetStateFails
<1>2. CASE ResetState(rb.num) /\ last' = rb /\ pc' = "after"
  <2>1. db' = {c \in db : Number[c] <= rb.num} /\ db \in SUBSET Block /\ rb.num \in Int
    BY <1>2 DEF ResetState, Kept, IInv, TypeOK, BlockRec
  <2>2. Whole(db)'
    BY Zenon, <2>1, KeptWhole DEF IInv, Whole, Stored
  <2>3. (HeadMayDrop \/ Covers(head))'
    BY Zenon, <2>1 DEF IInv, Covers
  <2>4. LastOf(rb, db')
    <3>1. CASE rb.hash = NoHash /\ rb.num <= GenBlock
      <4>1. ASSUME NEW c \in db, Number[c] <= rb.num PROVE FALSE
        BY <3>1, <4>1, <2>1, ConfigType, ChainAssumption DEF IInv, Whole
      <4> QED BY Zenon, <2>1, <3>1, <4>1 DEF LastOf
    <3>2. CASE rb.hash \in db /\ rb.num = Number[rb.hash]
      BY Zenon, <2>1, <3>2, KeptStored DEF LastOf, IInv
    <3> QED BY Zenon, <3>1, <3>2 DEF IInv, WalkInv
  <2>5. ~synced /\ rb.hash = NoHash => rb.num = GenBlock
    BY Zenon DEF IInv, WalkInv
  <2>6. WalkInv' /\ CursorInv' /\ InitialSyncInv' /\ StoreInv'
    BY Zenon, <1>2, <2>4, <2>5 DEF WalkInv, CursorInv, InitialSyncInv, StoreInv, LastOf
  <2> QED BY Zenon, <2>2, <2>3, <2>6 DEF IInv
<1> QED BY Zenon, <1>1, <1>2

\* The range is cut at the head, which may end the initial sync.
LEMMA IInvChooseRange ==
  ASSUME Guarded, IInv, TypeOK', ChooseRange
  PROVE  IInv'
<1> USE DEF ChooseRange, dbVars, storeVars
<1>1. /\ LastOf(last, db) /\ (~synced /\ last.hash = NoHash => last.num = GenBlock)
      /\ synced => from = last.num
  BY Zenon DEF IInv, CursorInv
<1>2. Whole(db)' /\ (HeadMayDrop \/ Covers(head))'
  BY Zenon DEF IInv, Whole, Stored, Covers
<1>3. /\ Number[head] \in Nat /\ known \in Nat /\ to \in Nat /\ from \in Nat
      /\ synced \in BOOLEAN
  BY Zenon, ChainAssumption DEF IInv, TypeOK
<1>4. synced' => from' = last.num
  BY Zenon, <1>1 DEF RangeFrom, Guarded
<1>5. WalkInv' /\ CursorInv' /\ StoreInv'
  BY Zenon, <1>1, <1>4 DEF WalkInv, CursorInv, StoreInv, LastOf
<1>6. ASSUME ~synced'
      PROVE  /\ from' = from /\ to' = to /\ ~synced
             /\ known' <= Number[head] /\ to' <= Number[head]
  <2>1. ~synced /\ ~Clamped
    BY Zenon, <1>6
  <2>2. known <= Number[head]
    BY Zenon, <2>1 DEF IInv, InitialSyncInv
  <2> QED BY <1>3, <2>1, <2>2 DEF RangeFrom, RangeTo, Clamped, LastKnown
<1>7. pc' = "fetch" => from' <= to'
  BY <1>3 DEF RangeFrom, RangeTo, LastKnown, IInv, TypeOK, BlockRec
<1>8. InitialSyncInv'
  BY Zenon, <1>6, <1>7 DEF IInv, InitialSyncInv, Stored
<1> QED BY Zenon, <1>2, <1>5, <1>8 DEF IInv

\* The blocks taken from a range continue the database when together they are a
\* prefix of the history of a block.
LEMMA TakeBlocksInv ==
  ASSUME IInv, NEW S \in SUBSET Block, TakeBlocks(S), LastOf(last, db),
         ~synced /\ last.hash = NoHash => last.num = GenBlock,
         NEW h \in Block, db \cup S = {b \in Stored(h) : Number[b] <= to},
         \A b \in db, c \in S : Number[b] < Number[c],
         db' = db, synced' = synced, pc' = "store"
  PROVE  StoreInv'
<1>1. pend' = S /\ db \in SUBSET Block /\ to \in Int
  BY DEF TakeBlocks, IInv, TypeOK
<1>2. Whole(db \cup S)
  BY Zenon, <1>1, PrefixWhole
<1>3. LastOf(tip', db \cup S) /\ (~synced /\ tip'.hash = NoHash => tip'.num = GenBlock)
  <2>1. CASE S = {}
    BY Zenon, <2>1 DEF TakeBlocks
  <2>2. CASE S # {}
    <3>1. PICK t \in Highest(S) : tip' = Rec(t)
      BY Zenon, <2>2 DEF TakeBlocks
    <3>2. \A b \in db : Number[b] <= Number[t]
      BY <1>1, <3>1, ChainAssumption DEF Highest
    <3>3. t \in Highest(db \cup S) /\ t # NoHash
      BY Zenon, <3>1, <3>2, ChainAssumption DEF Highest
    <3> QED BY Zenon, <3>1, <3>3 DEF LastOf, Rec
  <2> QED BY Zenon, <2>1, <2>2
<1>4. /\ Whole(db \cup pend)' /\ LastOf(tip, db \cup pend)'
      /\ (\A b \in db, c \in pend : Number[b] < Number[c])'
  BY Zenon, <1>1, <1>2, <1>3 DEF Whole, Stored, LastOf, Highest
<1> QED BY Zenon, <1>3, <1>4 DEF StoreInv

\* An initial sync fetches the events right above the database.
LEMMA FetchUncheckedPrefix ==
  ASSUME IInv, pc = "fetch", ~synced
  PROVE  /\ db \cup RollupInfo = {b \in Stored(head) : Number[b] <= to}
         /\ \A b \in db, c \in RollupInfo : Number[b] < Number[c]
<1>1. /\ GenBlock < from /\ from <= to /\ db = {b \in Stored(head) : Number[b] < from}
      /\ head \in Block /\ from \in Nat /\ to \in Nat /\ GenBlock \in Nat
  BY Zenon, ConfigType DEF IInv, InitialSyncInv, TypeOK
<1>2. \A b \in Anc[head] : Number[b] \in Nat
  BY Zenon, <1>1, AncClosed
<1>3. \A b : b \in db \cup RollupInfo <=> b \in Stored(head) /\ Number[b] <= to
  BY <1>1, <1>2 DEF Stored, RollupInfo
<1>4. \A b \in db, c \in RollupInfo : Number[b] < Number[c]
  BY <1>1, <1>2 DEF Stored, RollupInfo
<1> QED BY Zenon, <1>3, <1>4

\* A synced range starts at lastBlockSynced: what follows the first block received
\* is the events right above the database, when that block is the expected one.
LEMMA FetchCheckedPrefix ==
  ASSUME Guarded, IInv, pc = "fetch", synced, from >= GenBlock, NEW b,
         ~Mismatch(b, last),
         IF from = GenBlock /\ ~\E c \in RollupInfo : Number[c] = GenBlock
         THEN b = NoHash ELSE b \in Lowest(RollupInfo)
  PROVE  /\ db \cup (RollupInfo \ {b}) = {c \in Stored(head) : Number[c] <= to}
         /\ \A d \in db, c \in RollupInfo \ {b} : Number[d] < Number[c]
<1>1. /\ from = last.num /\ LastOf(last, db) /\ db \in SUBSET Block /\ Whole(db)
      /\ head \in Block /\ from \in Nat /\ to \in Nat /\ GenBlock \in Nat
  BY Zenon, ConfigType DEF IInv, CursorInv, TypeOK
<1>2. \A c \in Anc[head] : Number[c] \in Nat /\ c # NoHash
  BY Zenon, <1>1, AncClosed, ChainAssumption
<1>3. CASE last.hash = NoHash
  <2>1. db = {} /\ from = GenBlock
    BY <1>1, <1>3, ChainAssumption DEF LastOf, Highest
  <2>2. \A c \in RollupInfo \ {b} : Number[c] > GenBlock
    <3>1. CASE \E c \in RollupInfo : Number[c] = GenBlock
      <4>1. PICK c \in RollupInfo : Number[c] = GenBlock
        BY Zenon, <3>1
      <4>2. b \in RollupInfo /\ Number[b] <= GenBlock
        BY Zenon, <2>1, <3>1, <4>1 DEF Lowest
      <4>3. Number[b] = GenBlock
        BY <1>1, <1>2, <2>1, <4>2 DEF RollupInfo
      <4>4. ASSUME NEW d \in RollupInfo, Number[d] = GenBlock PROVE d = b
        BY Zenon, <1>1, <4>2, <4>3, <4>4, AncOrdered DEF RollupInfo
      <4> QED BY <1>1, <1>2, <2>1, <4>4 DEF RollupInfo
    <3>2. CASE ~\E c \in RollupInfo : Number[c] = GenBlock
      BY <1>1, <1>2, <2>1, <3>2 DEF RollupInfo
    <3> QED BY Zenon, <3>1, <3>2
  <2>3. b = NoHash \/ Number[b] = GenBlock
    BY <1>1, <1>2, <2>1 DEF Lowest, RollupInfo
  <2>4. \A c : c \in RollupInfo \ {b} <=> c \in Stored(head) /\ Number[c] <= to
    BY <1>1, <1>2, <2>1, <2>2, <2>3 DEF RollupInfo, Stored
  <2> QED BY Zenon, <2>1, <2>4
<1>4. CASE last.hash # NoHash
  <2>1. last.hash \in Highest(db) /\ last.num = Number[last.hash]
    BY Zenon, <1>1, <1>4 DEF LastOf
  <2>2. Number[last.hash] > GenBlock /\ last.hash \in db
    BY Zenon, <1>1, <2>1 DEF Highest, Whole
  <2>3. b = last.hash /\ b \in Lowest(RollupInfo)
    BY <1>1, <2>1, <2>2 DEF Mismatch
  <2>4. b \in Anc[head] /\ Number[b] = from /\ Number[b] \in Nat
    BY Zenon, <1>1, <1>2, <2>1, <2>3 DEF Lowest, RollupInfo
  <2>5. db = {c \in Stored(head) : Number[c] <= from}
    <3>1. db = Stored(b)
      BY Zenon, <1>1, <2>1, <2>3, WholeIsStored
    <3>2. Stored(b) = {c \in Stored(head) : Number[c] <= Number[b]}
      BY Zenon, <1>1, <2>4, StoredPrefix
    <3> QED BY Zenon, <2>4, <3>1, <3>2
  <2>6. ASSUME NEW c \in RollupInfo \ {b} PROVE Number[c] > from
    <3>1. c \in Anc[head] /\ Number[c] \in Nat /\ Number[c] >= from
      BY Zenon, <1>2 DEF RollupInfo
    <3>2. Number[c] # from
      BY Zenon, <1>1, <2>4, <3>1, AncOrdered
    <3> QED BY <1>1, <3>1, <3>2
  <2>7. \A c : c \in db \cup (RollupInfo \ {b}) <=> c \in Stored(head) /\ Number[c] <= to
    <3>1. from <= to
      BY Zenon, <1>1, <2>3, <2>4 DEF Lowest, RollupInfo
    <3>2. ASSUME NEW c \in Stored(head), Number[c] <= to PROVE c \in db \cup (RollupInfo \ {b})
      BY <1>1, <1>2, <2>3, <2>2, <2>5, <3>2 DEF Stored, RollupInfo
    <3>3. ASSUME NEW c \in RollupInfo \ {b} PROVE c \in Stored(head) /\ Number[c] <= to
      BY <1>1, <1>2, <2>6 DEF Stored, RollupInfo
    <3>4. ASSUME NEW c \in db PROVE c \in Stored(head) /\ Number[c] <= to
      BY <1>1, <1>2, <2>5, <3>1 DEF Stored
    <3> QED BY Zenon, <3>2, <3>3, <3>4
  <2>8. \A d \in db, c \in RollupInfo \ {b} : Number[d] < Number[c]
    BY <1>1, <1>2, <2>5, <2>6 DEF Stored, RollupInfo
  <2> QED BY Zenon, <2>7, <2>8
<1> QED BY Zenon, <1>3, <1>4

\* Reading the events of a range.
LEMMA IInvFetch ==
  ASSUME Guarded, IInv, TypeOK', Fetch
  PROVE  IInv'
<1> USE DEF Fetch, dbVars, rangeVars
<1>1. /\ LastOf(last, db) /\ (~synced /\ last.hash = NoHash => last.num = GenBlock)
      /\ TypeOK /\ head \in Block
  BY Zenon DEF IInv, CursorInv, TypeOK
<1>2. Whole(db)'
  BY Zenon DEF IInv, Whole, Stored
<1>3. RollupInfo \in SUBSET Block /\ \A b \in RollupInfo : Number[b] <= Number[head]
  BY Zenon, <1>1, AncClosed DEF RollupInfo
<1>4. ASSUME pend' \subseteq RollupInfo \/ pend' = pend PROVE (HeadMayDrop \/ Covers(head))'
  BY Zenon, <1>3, <1>4 DEF IInv, Covers
<1>5. ASSUME NEW S \in SUBSET RollupInfo, TakeBlocks(S), pc' = "store",
             db \cup S = {b \in Stored(head) : Number[b] <= to},
             \A b \in db, c \in S : Number[b] < Number[c]
      PROVE  IInv'
  <2>1. StoreInv'
    BY Zenon, <1>1, <1>3, <1>5, TakeBlocksInv
  <2>2. WalkInv' /\ CursorInv'
    BY Zenon, <1>5 DEF WalkInv, CursorInv
  <2>3. ASSUME ~synced PROVE known <= Number[head] /\ to <= Number[head] /\ GenBlock <= to
    BY <2>3, ConfigType DEF IInv, InitialSyncInv, TypeOK
  <2>4. InitialSyncInv'
    BY Zenon, <1>5, <2>3 DEF InitialSyncInv, TakeBlocks, Stored
  <2>5. (HeadMayDrop \/ Covers(head))'
    BY Zenon, <1>4, <1>5 DEF TakeBlocks
  <2> QED BY Zenon, <1>2, <2>1, <2>2, <2>4, <2>5 DEF IInv
<1>6. ASSUME WalkInv', synced, UNCHANGED storeVars, pc' \in {"check", "reset"} PROVE IInv'
  <2>1. CursorInv' /\ InitialSyncInv' /\ StoreInv'
    BY Zenon, <1>1, <1>6 DEF CursorInv, InitialSyncInv, StoreInv, LastOf
  <2>2. (HeadMayDrop \/ Covers(head))'
    BY Zenon, <1>4, <1>6 DEF storeVars
  <2> QED BY Zenon, <1>2, <1>6, <2>1, <2>2 DEF IInv
<1>7. CASE pc' = "failed" /\ UNCHANGED storeVars
  BY Zenon, <1>7, IInvGiveUp DEF storeVars
<1>8. CASE FetchUnchecked
  <2>1. /\ db \cup RollupInfo = {b \in Stored(head) : Number[b] <= to}
        /\ \A b \in db, c \in RollupInfo : Number[b] < Number[c]
    BY Zenon, <1>8, FetchUncheckedPrefix DEF FetchUnchecked
  <2> QED BY Zenon, <1>5, <1>8, <2>1 DEF FetchUnchecked
<1>9. CASE from >= GenBlock /\ FetchChecked
  <2>1. PICK b : /\ IF from = GenBlock /\ ~\E c \in RollupInfo : Number[c] = GenBlock
                    THEN b = NoHash ELSE b \in Lowest(RollupInfo)
                 /\ \/ ~Mismatch(b, last) /\ TakeBlocks(RollupInfo \ {b}) /\ pc' = "store"
                    \/ WalkBack("second", 1) /\ UNCHANGED storeVars
    BY Zenon, <1>9 DEF FetchChecked
  <2>2. CASE ~Mismatch(b, last) /\ TakeBlocks(RollupInfo \ {b}) /\ pc' = "store"
    <3>1. synced
      BY Zenon, <1>9 DEF FetchChecked
    <3>2. /\ db \cup (RollupInfo \ {b}) = {c \in Stored(head) : Number[c] <= to}
          /\ \A d \in db, c \in RollupInfo \ {b} : Number[d] < Number[c]
      BY Zenon, <1>9, <2>1, <2>2, <3>1, FetchCheckedPrefix
    <3> QED BY Zenon, <1>5, <2>2, <3>2
  <2>3. CASE WalkBack("second", 1) /\ UNCHANGED storeVars
    <3>1. synced /\ pc' \in {"check", "reset"}
      BY Zenon, <1>9, <2>3 DEF FetchChecked, WalkBack
    <3>2. WalkInv'
      BY <1>1, <2>3, <3>1, WalkBackInv
    <3> QED BY Zenon, <1>6, <2>3, <3>1, <3>2
  <2> QED BY Zenon, <2>1, <2>2, <2>3
<1>10. CASE FetchNothing
  <2>1. PICK r : /\ StartWalk("prev", r, 0)
                 /\ \/ r = [num |-> 0, hash |-> NoHash]
                    \/ r \in GetPreviousBlock(db, 1)
    BY Zenon, <1>10 DEF FetchNothing
  <2>2. \/ r.hash = NoHash /\ r.num <= GenBlock
        \/ r.hash \in db /\ r.num = Number[r.hash]
    <3>1. CASE r = [num |-> 0, hash |-> NoHash]
      BY <3>1, ConfigType
    <3>2. CASE r \in GetPreviousBlock(db, 1)
      <4>1. db \in SUBSET Block
        BY Zenon DEF IInv, TypeOK
      <4> QED BY Zenon, <3>2, <4>1, GetPreviousBlockIsOlder
    <3> QED BY Zenon, <2>1, <3>1, <3>2
  <2>3. synced /\ pc' = "check" /\ UNCHANGED storeVars
    BY Zenon, <1>10 DEF FetchNothing
  <2>4. WalkInv'
    BY Zenon, <2>1, <2>2, <2>3 DEF WalkInv, StartWalk
  <2> QED BY Zenon, <1>6, <2>3, <2>4
<1>11. ~FetchForced
  BY Zenon DEF FetchForced, Guarded
<1> QED BY Zenon, <1>7, <1>8, <1>9, <1>10, <1>11

\* The transaction of one block.
LEMMA IInvStoreBlock ==
  ASSUME Guarded, IInv, TypeOK', NEW b \in pend, StoreBlock(b)
  PROVE  IInv'
<1> USE DEF StoreBlock, rangeVars
<1>1. /\ Whole(db \cup pend) /\ LastOf(tip, db \cup pend)
      /\ \A d \in db, c \in pend : Number[d] < Number[c]
      /\ ~synced /\ tip.hash = NoHash => tip.num = GenBlock
      /\ db \in SUBSET Block /\ pend \in SUBSET Block /\ (db \cup pend) \in SUBSET Block
  BY Zenon DEF IInv, StoreInv, TypeOK
<1>2. (db \cup pend)' = db \cup pend
  BY Zenon
<1>3. \A c \in pend \ {b} : Number[b] < Number[c]
  <2> SUFFICES ASSUME NEW c \in pend \ {b} PROVE Number[b] < Number[c]
    BY Zenon
  <2>1. Number[b] <= Number[c] /\ Number[b] \in Nat /\ Number[c] \in Nat
    BY Zenon, <1>1, ChainAssumption DEF Lowest
  <2>2. Number[b] # Number[c]
    BY Zenon, <1>1, <2>1, WholeOrdered
  <2> QED BY <2>1, <2>2
<1>4. Whole(db')
  <2>1. Stored(b) \subseteq db \cup {b}
    <3> SUFFICES ASSUME NEW c \in Stored(b) PROVE c \in db \cup {b}
      BY Zenon
    <3>1. c \in db \cup pend /\ Number[c] <= Number[b] /\ Number[c] \in Nat /\ Number[b] \in Nat
      BY Zenon, <1>1, AncClosed DEF Whole, Stored
    <3>2. c \in pend \ {b} => ~(Number[c] <= Number[b])
      <4> HIDE DEF StoreBlock
      <4> QED BY <1>3, <3>1
    <3> QED BY Zenon, <3>1, <3>2
  <2> QED BY Zenon, <1>1, <2>1 DEF Whole, IInv
<1>5. Whole(db)' /\ (HeadMayDrop \/ Covers(head))'
  BY Zenon, <1>2, <1>4 DEF Whole, Stored, IInv, Covers
<1>6. \A d \in db', c \in pend' : Number[d] < Number[c]
  BY Zenon, <1>1, <1>3
<1>7. StoreInv'
  BY Zenon, <1>1, <1>2, <1>6 DEF StoreInv, Whole, Stored, LastOf, Highest
<1>8. WalkInv' /\ CursorInv'
  BY Zenon DEF WalkInv, CursorInv
<1>9. InitialSyncInv'
  BY Zenon, <1>2 DEF IInv, InitialSyncInv, Stored
<1> QED BY Zenon, <1>5, <1>7, <1>8, <1>9 DEF IInv

\* Telling the claim managers.
LEMMA IInvNotify ==
  ASSUME Guarded, IInv, TypeOK', Notify
  PROVE  IInv'
<1> USE DEF Notify, dbVars, storeVars, rangeVars
<1>1. Whole(db)' /\ (HeadMayDrop \/ Covers(head))'
  BY Zenon DEF IInv, Whole, Stored, Covers
<1>2. WalkInv' /\ CursorInv' /\ InitialSyncInv'
  BY Zenon DEF IInv, WalkInv, CursorInv, InitialSyncInv, Stored
<1>3. StoreInv'
  BY Zenon DEF IInv, StoreInv, Whole, Stored, LastOf, Highest
<1> QED BY Zenon, <1>1, <1>2, <1>3 DEF IInv

\* The end of a range.
LEMMA IInvFinish ==
  ASSUME Guarded, IInv, TypeOK', Finish
  PROVE  IInv'
<1> USE DEF Finish, NextFrom, dbVars, storeVars
<1>1. /\ pend = {} /\ LastOf(tip, db) /\ (~synced /\ tip.hash = NoHash => tip.num = GenBlock)
      /\ to \in Nat /\ Number[head] \in Nat
  <2>1. pend = {} /\ LastOf(tip, db \cup pend)
    BY Zenon DEF IInv, StoreInv
  <2>2. db \cup pend = db
    BY Zenon, <2>1
  <2>3. ~synced /\ tip.hash = NoHash => tip.num = GenBlock
    BY Zenon DEF IInv, StoreInv
  <2>4. to \in Nat /\ Number[head] \in Nat
    BY Zenon, ChainAssumption DEF IInv, TypeOK
  <2> QED BY Zenon, <2>1, <2>2, <2>3, <2>4
<1>2. Whole(db)' /\ (HeadMayDrop \/ Covers(head))'
  BY Zenon DEF IInv, Whole, Stored, Covers
<1>3. CASE pc' = "failed"
  BY Zenon, <1>3, IInvGiveUp
<1>4. CASE last' = tip /\ pc' = "after" /\ synced'
  <2>1. WalkInv' /\ CursorInv' /\ InitialSyncInv' /\ StoreInv'
    BY Zenon, <1>1, <1>4 DEF WalkInv, CursorInv, InitialSyncInv, StoreInv, LastOf
  <2> QED BY Zenon, <1>2, <2>1 DEF IInv
<1>5. CASE last' = tip /\ ~synced /\ from' = to + 1 /\ pc' = "range" /\ UNCHANGED synced
  <2>1. WalkInv' /\ CursorInv' /\ StoreInv'
    BY Zenon, <1>1, <1>5 DEF WalkInv, CursorInv, StoreInv, LastOf
  <2>2. /\ known <= Number[head] /\ to <= Number[head] /\ GenBlock <= to
        /\ db = {b \in Stored(head) : Number[b] <= to}
    BY Zenon, <1>1, <1>5 DEF IInv, InitialSyncInv
  <2>3. \A b \in Stored(head) : Number[b] \in Nat
    BY Zenon, AncClosed DEF IInv, TypeOK, Stored
  <2>4. db = {b \in Stored(head) : Number[b] < to + 1}
    BY <1>1, <2>2, <2>3
  <2>5. GenBlock < to + 1 /\ to + 1 <= Number[head] + 1
    BY <1>1, <2>2, ConfigType
  <2>6. InitialSyncInv'
    BY Zenon, <1>5, <2>2, <2>4, <2>5 DEF InitialSyncInv, Stored
  <2> QED BY Zenon, <1>2, <2>1, <2>6 DEF IInv
<1>6. CASE last' = tip /\ synced /\ from' = last'.num /\ pc' = "range" /\ UNCHANGED synced
  <2>1. WalkInv' /\ CursorInv' /\ InitialSyncInv' /\ StoreInv'
    BY Zenon, <1>1, <1>6 DEF WalkInv, CursorInv, InitialSyncInv, StoreInv, LastOf
  <2> QED BY Zenon, <1>2, <2>1 DEF IInv
<1>7. LastOfRange = {tip}
  BY Zenon DEF LastOfRange, Guarded
<1> QED BY Zenon, <1>3, <1>4, <1>5, <1>6, <1>7 DEF Guarded

\* After an error lastBlockSynced is read from the database.
LEMMA IInvReload ==
  ASSUME Guarded, IInv, TypeOK', Reload
  PROVE  IInv'
<1> USE DEF Reload, dbVars, storeVars
<1>1. LastOf(last', db) /\ (last'.hash = NoHash => last'.num = GenBlock)
  BY Zenon, GetLastBlockIsLast DEF IInv, TypeOK
<1>2. Whole(db)' /\ (HeadMayDrop \/ Covers(head))'
  BY Zenon DEF IInv, Whole, Stored, Covers
<1>3. WalkInv' /\ CursorInv' /\ InitialSyncInv' /\ StoreInv'
  BY Zenon, <1>1 DEF WalkInv, CursorInv, InitialSyncInv, StoreInv, LastOf
<1> QED BY Zenon, <1>2, <1>3 DEF IInv

\* The end of an iteration of Sync.  The rewind of an L2 synchronizer is out of
\* reach: the head never falls below what it stored.
LEMMA IInvAfter ==
  ASSUME Guarded, IInv, TypeOK', After \/ AfterFails
  PROVE  IInv'
<1> USE DEF After, AfterFails, Return, dbVars
<1>1. LastOf(last, db) /\ (~synced /\ last.hash = NoHash => last.num = GenBlock)
  BY Zenon DEF IInv, CursorInv
<1>2. ASSUME db' = db, pc' \in {"idle", "trusted"}, synced => synced' PROVE IInv'
  <2>1. Whole(db)' /\ (HeadMayDrop \/ Covers(head))'
    BY Zenon, <1>2 DEF IInv, Whole, Stored, Covers
  <2>2. WalkInv' /\ CursorInv' /\ InitialSyncInv' /\ StoreInv'
    BY Zenon, <1>1, <1>2 DEF WalkInv, CursorInv, InitialSyncInv, StoreInv, LastOf
  <2> QED BY Zenon, <2>1, <2>2 DEF IInv
<1>3. ASSUME pc' = "stopped" PROVE IInv'
  BY Zenon, <1>3, IInvGiveUp
<1>4. ASSUME ~IsL1, last.num > Number[head] PROVE FALSE
  <2>1. Covers(head)
    BY Zenon, <1>4 DEF Guarded, IInv
  <2>2. last.num <= GenBlock \/ (last.hash \in db /\ last.num = Number[last.hash])
    BY Zenon, <1>1 DEF LastOf, Highest
  <2>3. Number[head] \in Nat /\ last.num \in Nat
    BY Zenon, ChainAssumption DEF IInv, TypeOK, BlockRec
  <2> QED BY <1>4, <2>1, <2>2, <2>3, ConfigType DEF Covers
<1> QED BY <1>2, <1>3, <1>4

\* The trusted sync leaves the blocks and the cursor alone.
LEMMA IInvTrusted ==
  ASSUME Guarded, IInv, TypeOK', SyncTrustedState \/ SendTrusted
  PROVE  IInv'
<1> USE DEF SyncTrustedState, SendTrusted, dbVars, storeVars
<1>1. Whole(db)' /\ (HeadMayDrop \/ Covers(head))'
  BY Zenon DEF IInv, Whole, Stored, Covers
<1>2. LastOf(last, db)' /\ (~synced /\ last.hash = NoHash => last.num = GenBlock)'
  BY Zenon DEF IInv, CursorInv, LastOf, Highest
<1>3. WalkInv' /\ CursorInv' /\ InitialSyncInv' /\ StoreInv'
  BY Zenon, <1>2 DEF WalkInv, CursorInv, InitialSyncInv, StoreInv
<1> QED BY Zenon, <1>1, <1>3 DEF IInv

\* A new process reads everything from the database.
LEMMA IInvRestart ==
  ASSUME Guarded, IInv, TypeOK', Restart
  PROVE  IInv'
<1> USE DEF Restart, storeVars
<1>1. LastOf(last', db) /\ (last'.hash = NoHash => last'.num = GenBlock)
  BY Zenon, GetLastBlockIsLast DEF IInv, TypeOK
<1>2. Whole(db)' /\ (HeadMayDrop \/ Covers(head))'
  BY Zenon DEF IInv, Whole, Stored, Covers
<1>3. WalkInv' /\ CursorInv' /\ InitialSyncInv' /\ StoreInv'
  BY Zenon, <1>1 DEF WalkInv, CursorInv, InitialSyncInv, StoreInv, LastOf
<1> QED BY Zenon, <1>2, <1>3 DEF IInv

\* The chain moves.  Only InitialSyncInv speaks about the chain, and only where it
\* may do nothing but grow.
LEMMA IInvMoveHead ==
  ASSUME Guarded, IInv, TypeOK', NEW h \in Block, MoveHead(h)
  PROVE  IInv'
<1> USE DEF MoveHead, dbVars, walkVars, rangeVars, storeVars
<1>1. Whole(db)' /\ (HeadMayDrop \/ Covers(head))'
  BY Zenon DEF IInv, Whole, Stored, Covers
<1>2. WalkInv' /\ CursorInv'
  BY Zenon DEF IInv, WalkInv, CursorInv, LastOf
<1>3. StoreInv'
  BY Zenon DEF IInv, StoreInv, Whole, Stored, LastOf, Highest
<1>4. InitialSyncInv'
  <2> SUFFICES ASSUME ~synced, pc \in {"check", "range", "fetch", "store", "finish"}
               PROVE  InitialSyncInv'
    BY Zenon DEF InitialSyncInv
  <2>1. Harmless(h)
    BY Zenon DEF Guarded, Unchecked
  <2>2. /\ head \in Block /\ Number[head] \in Nat /\ Number[h] \in Nat
        /\ known \in Nat /\ from \in Nat /\ to \in Nat
    BY Zenon, ChainAssumption DEF IInv, TypeOK
  <2>3. known <= Number[head]
    BY Zenon DEF IInv, InitialSyncInv
  <2>4. CASE pc = "check" /\ known <= Number[h]
    BY Zenon, <2>4 DEF InitialSyncInv
  <2>5. CASE head \in Anc[h]
    <3>1. Number[head] <= Number[h]
      BY Zenon, <2>5, AncClosed
    <3>2. known <= Number[h]
      BY <2>2, <2>3, <3>1
    <3>3. CASE pc = "check"
      BY Zenon, <3>2, <3>3 DEF InitialSyncInv
    <3>4. CASE pc \in {"range", "fetch"}
      <4>1. /\ GenBlock < from /\ from <= Number[head] + 1
            /\ db = {b \in Stored(head) : Number[b] < from}
            /\ pc = "fetch" => from <= to /\ to <= Number[head]
        BY Zenon, <3>4 DEF IInv, InitialSyncInv
      <4>2. {b \in Stored(h) : Number[b] <= from - 1} = {b \in Stored(head) : Number[b] <= from - 1}
        <5>1. from - 1 \in Int /\ from - 1 <= Number[head]
          BY <2>2, <4>1
        <5> QED BY Zenon, <2>2, <2>5, <5>1, GrowthKeepsPrefix
      <4>3. \A b \in Stored(h) \cup Stored(head) : Number[b] \in Nat
        BY Zenon, <2>2, AncClosed DEF Stored
      <4>4. db = {b \in Stored(h) : Number[b] < from}
        BY <2>2, <4>1, <4>2, <4>3
      <4>5. from <= Number[h] + 1 /\ (pc = "fetch" => to <= Number[h])
        BY <2>2, <3>1, <4>1
      <4> QED BY Zenon, <3>2, <3>4, <4>1, <4>4, <4>5 DEF InitialSyncInv, Stored
    <3>5. CASE pc \in {"store", "finish"}
      <4>1. /\ to <= Number[head] /\ GenBlock <= to
            /\ db \cup pend = {b \in Stored(head) : Number[b] <= to}
        BY Zenon, <3>5 DEF IInv, InitialSyncInv
      <4>2. db \cup pend = {b \in Stored(h) : Number[b] <= to}
        BY <2>2, <2>5, <4>1, GrowthKeepsPrefix
      <4>3. to <= Number[h]
        BY <2>2, <3>1, <4>1
      <4> QED BY Zenon, <3>2, <3>5, <4>1, <4>2, <4>3 DEF InitialSyncInv, Stored
    <3> QED BY Zenon, <3>3, <3>4, <3>5
  <2> QED BY Zenon, <2>1, <2>4, <2>5 DEF Harmless
<1> QED BY Zenon, <1>1, <1>2, <1>3, <1>4 DEF IInv

\* Every step keeps the inductive invariant.
LEMMA IInvNext == Guarded /\ IInv /\ [Next]_vars => IInv'
<1> SUFFICES ASSUME Guarded, IInv, [Next]_vars PROVE IInv'
  BY Zenon
<1>1. TypeOK'
  BY Zenon, TypeNext DEF IInv
<1>2. ASSUME NEW b \in pend, StoreBlockFails(b) PROVE IInv'
  BY Zenon, <1>1, <1>2, IInvGiveUp DEF StoreBlockFails, storeVars
<1>3. CASE NotifyFails \/ ReloadFails \/ RpcFails
  BY Zenon, <1>1, <1>3, IInvGiveUp DEF NotifyFails, ReloadFails, RpcFails, dbVars, storeVars
<1>4. CASE Crash
  BY Zenon, <1>1, <1>4, IInvGiveUp DEF Crash, Return, dbVars
<1>5. CASE UNCHANGED vars
  <2> USE <1>5 DEF vars, dbVars, walkVars, rangeVars, storeVars
  <2>1. Whole(db)' /\ (HeadMayDrop \/ Covers(head))'
    BY Zenon DEF IInv, Whole, Stored, Covers
  <2>2. WalkInv' /\ CursorInv' /\ InitialSyncInv'
    BY Zenon DEF IInv, WalkInv, CursorInv, InitialSyncInv, LastOf, Stored
  <2>3. StoreInv'
    BY Zenon DEF IInv, StoreInv, Whole, Stored, LastOf, Highest
  <2> QED BY Zenon, <1>1, <2>1, <2>2, <2>3 DEF IInv
<1>6. CASE SyncBlocks \/ CheckReorg \/ Reset \/ ChooseRange \/ Fetch
  BY Zenon, <1>1, <1>6, IInvSyncBlocks, IInvCheckReorg, IInvReset, IInvChooseRange, IInvFetch
<1>7. ASSUME NEW b \in pend, StoreBlock(b) PROVE IInv'
  BY Zenon, <1>1, <1>7, IInvStoreBlock
<1>8. CASE Notify \/ Finish \/ Reload \/ After \/ AfterFails \/ Restart
  BY Zenon, <1>1, <1>8, IInvNotify, IInvFinish, IInvReload, IInvAfter, IInvRestart
<1>9. ASSUME NEW h \in Block, MoveHead(h) PROVE IInv'
  BY Zenon, <1>1, <1>9, IInvMoveHead
<1>10. CASE SyncTrustedState \/ SendTrusted
  BY Zenon, <1>1, <1>10, IInvTrusted
<1> QED BY Zenon, <1>2, <1>3, <1>4, <1>5, <1>6, <1>7, <1>8, <1>9, <1>10 DEF Next, SyncStep

\* Every reachable state satisfies the inductive invariant.
THEOREM Inductive ==
  ASSUME Guarded PROVE Spec => []IInv
<1>1. Init => IInv
  BY Zenon, IInvInit
<1>2. IInv /\ [Next]_vars => IInv'
  BY Zenon, IInvNext
<1> QED BY <1>1, <1>2, PTL DEF Spec

\* The database is always the complete bridge history of one fork: no
\* interleaving of reorganisations, failures and restarts makes the synchronizer
\* mix two forks or skip a block with events.
THEOREM DatabaseIsOneFork ==
  ASSUME Guarded PROVE Spec => []OneFork
<1>1. IInv => OneFork
  BY Zenon DEF IInv, OneFork
<1> QED BY <1>1, Inductive, PTL

\* Between two iterations lastBlockSynced is the last block of the database.
THEOREM CursorFollowsDatabase ==
  ASSUME Guarded PROVE Spec => []CursorIsLastStored
<1>1. IInv => CursorIsLastStored
  <2> SUFFICES ASSUME IInv, pc = "idle" PROVE CursorIsLastStored
    BY Zenon DEF CursorIsLastStored
  <2>1. LastOf(last, db) /\ last \in BlockRec
    BY Zenon DEF IInv, CursorInv, TypeOK
  <2>2. CASE last.hash \in Highest(db) /\ last.num = Number[last.hash]
    <3>1. last = Rec(last.hash)
      BY Zenon, <2>1, <2>2 DEF Rec, BlockRec
    <3> QED BY Zenon, <2>2, <3>1 DEF CursorIsLastStored
  <2> QED BY Zenon, <2>1, <2>2 DEF LastOf, CursorIsLastStored
<1> QED BY <1>1, Inductive, PTL

-----------------------------------------------------------------------------
(***************************************************************************)
(* Refinement of BridgeLedger.                                             *)
(***************************************************************************)

\* What resetState does to the database is a rewind of the ledger.
LEMMA ResetIsRewind ==
  ASSUME IInv, NEW n, ResetState(n),
         \/ n \in Nat /\ n <= GenBlock
         \/ \E b \in Block : n = Number[b]
  PROVE  Ledger!Next
<1>1. db' = {b \in db : Number[b] <= n}
  BY Zenon DEF ResetState, Kept
<1>2. CASE n \in Nat /\ n <= GenBlock
  <2>1. db' = {b \in db : Number[b] <= GenBlock}
    BY <1>1, <1>2, ChainAssumption, ConfigType DEF IInv, Whole, TypeOK
  <2> QED BY Zenon, <2>1 DEF Ledger!Next, Ledger!Rewind
<1>3. CASE \E b \in Block : n = Number[b]
  BY Zenon, <1>1, <1>3 DEF Ledger!Next, Ledger!Rewind
<1> QED BY Zenon, <1>2, <1>3

\* Storing a block appends it to the ledger.
LEMMA StoreIsAppend ==
  ASSUME Guarded, IInv, IInv', NEW b \in pend, StoreBlock(b)
  PROVE  Ledger!Next
<1>1. b \in Block /\ Number[b] \in Nat /\ db \in SUBSET Block /\ db' \in SUBSET Block
  BY Zenon, ChainAssumption DEF IInv, TypeOK
<1>2. b \in Events /\ Number[b] > GenBlock /\ \A d \in db : Number[d] < Number[b]
  BY Zenon DEF IInv, StoreInv, StoreBlock, Whole
<1>3. b \notin db /\ db' = db \cup {b}
  <2>1. b \notin db
    BY <1>1, <1>2
  <2> QED
    BY Zenon, <2>1 DEF StoreBlock
<1>4. b \in Highest(db')
  BY <1>1, <1>2, <1>3, ChainAssumption DEF Highest
<1>5. Whole(db')
  BY Zenon DEF IInv, Whole, Stored
<1>6. db' = Stored(b)
  BY Zenon, <1>1, <1>4, <1>5, WholeIsStored
<1>7. Ledger!Append(b)
  BY Zenon, <1>2, <1>3, <1>6 DEF Ledger!Append, Ledger!History, Stored
<1> QED BY Zenon, <1>1, <1>7 DEF Ledger!Next

\* The synchronizer implements the ledger.
THEOREM ImplementsLedger ==
  ASSUME Guarded PROVE Spec => LedgerSpec
<1>1. Init => Ledger!Init
  BY Zenon DEF Init, Ledger!Init
<1>2. IInv /\ IInv' /\ [Next]_vars => [Ledger!Next]_db
  <2> SUFFICES ASSUME IInv, IInv', [Next]_vars, db' # db PROVE Ledger!Next
    BY Zenon
  <2>1. CASE Reset
    <3>1. ResetState(rb.num)
      BY Zenon, <2>1 DEF Reset, ResetStateFails
    <3>2. (rb.num \in Nat /\ rb.num <= GenBlock) \/ \E b \in Block : rb.num = Number[b]
      BY Zenon, <2>1 DEF Reset, IInv, WalkInv, TypeOK, BlockRec
    <3> QED BY Zenon, <3>1, <3>2, ResetIsRewind
  <2>2. CASE After
    <3>1. ResetState(Number[head])
      BY Zenon, <2>2 DEF After, ResetStateFails, dbVars
    <3>2. \E b \in Block : Number[head] = Number[b]
      BY Zenon DEF IInv, TypeOK
    <3> QED BY Zenon, <3>1, <3>2, ResetIsRewind
  <2>3. ASSUME NEW b \in pend, StoreBlock(b) PROVE Ledger!Next
    BY Zenon, <2>3, StoreIsAppend
  <2>4. ASSUME NEW b \in pend, StoreBlockFails(b) PROVE FALSE
    BY Zenon, <2>4 DEF StoreBlockFails
  <2>5. CASE SyncBlocks \/ CheckReorg \/ ChooseRange \/ Fetch \/ Notify \/ NotifyFails
    BY Zenon, <2>5 DEF SyncBlocks, CheckReorg, ChooseRange, Fetch, Notify, NotifyFails, dbVars
  <2>6. CASE Finish \/ Reload \/ ReloadFails \/ AfterFails \/ RpcFails \/ Crash \/ Restart
    BY Zenon, <2>6 DEF Finish, Reload, ReloadFails, AfterFails, RpcFails, Crash, Restart, dbVars
  <2>7. ASSUME NEW h \in Block, MoveHead(h) PROVE FALSE
    BY Zenon, <2>7 DEF MoveHead, dbVars
  <2>8. CASE UNCHANGED vars
    BY Zenon, <2>8 DEF vars, dbVars
  <2>9. CASE SyncTrustedState \/ SendTrusted
    BY Zenon, <2>9 DEF SyncTrustedState, SendTrusted, dbVars
  <2> QED BY Zenon, <2>1, <2>2, <2>3, <2>4, <2>5, <2>6, <2>7, <2>8, <2>9 DEF Next, SyncStep
<1> QED BY <1>1, <1>2, Inductive, PTL DEF Spec, LedgerSpec, Ledger!Spec

-----------------------------------------------------------------------------
(***************************************************************************)
(* Rows and offsets.                                                       *)
(***************************************************************************)
Less == {ss \in Nat \X Nat : ss[1] < ss[2]}

\* The order of the natural numbers is well-founded.
LEMMA LessWellFounded == IsWellFoundedOn(Less, Nat)
  BY Zenon, NatLessThanWellFounded DEF OpToRel, Less

\* Every nonempty set of natural numbers has a least element.
LEMMA LeastNat ==
  ASSUME NEW T \in SUBSET Nat, T # {}
  PROVE  \E x \in T : \A y \in T : x <= y
<1>1. PICK x \in T : \A y \in T : <<y, x>> \notin Less
  BY Zenon, LessWellFounded, WFMin
<1>2. ASSUME NEW y \in T PROVE x <= y
  <2>1. ~(y < x)
    BY Zenon, <1>1 DEF Less
  <2> QED BY <2>1
<1> QED BY Zenon, <1>2

\* A stored block with rows below it has a next older row.
LEMMA NextOlder ==
  ASSUME NEW S \in SUBSET Block, NEW n \in Nat, NEW c \in S, Number[c] < n
  PROVE  \E x \in S : /\ Number[x] < n
                      /\ \A y \in S : Number[y] < n => Number[y] <= Number[x]
<1>1. \A y \in S : Number[y] \in Nat
  BY Zenon, ChainAssumption
<1> DEFINE T == {n - Number[y] : y \in {z \in S : Number[z] < n}}
<1>2. T \in SUBSET Nat
  BY <1>1
<1>3. T # {}
  BY Zenon
<1>4. PICK t \in T : \A u \in T : t <= u
  BY Zenon, <1>2, <1>3, LeastNat
<1>5. PICK x \in S : Number[x] < n /\ t = n - Number[x]
  BY Zenon, <1>4
<1>6. ASSUME NEW y \in S, Number[y] < n PROVE Number[y] <= Number[x]
  <2>1. n - Number[x] <= n - Number[y]
    BY Zenon, <1>4, <1>5, <1>6
  <2> QED BY <1>1, <2>1
<1> QED BY Zenon, <1>5, <1>6

\* The rows above a row of the database: how many they are decides where the row is.
LEMMA AboveRow ==
  ASSUME IInv, RewindInv, NEW x \in db, NEW y \in db, Number[x] < Number[y]
  PROVE  /\ (Above(Number[y]) \cup {y}) \in SUBSET Above(Number[x])
         /\ IsFiniteSet(Above(Number[x])) /\ IsFiniteSet(Above(Number[y]))
         /\ Cardinality(Above(Number[x])) \in Nat /\ Cardinality(Above(Number[y])) \in Nat
         /\ Cardinality(Above(Number[y]) \cup {y}) = Cardinality(Above(Number[y])) + 1
         /\ Cardinality(Above(Number[y])) + 1 <= Cardinality(Above(Number[x]))
<1>1. db \in SUBSET Block /\ IsFiniteSet(db) /\ \A c \in db : Number[c] \in Nat
  BY Zenon, ChainAssumption DEF IInv, TypeOK, RewindInv
<1>2. Above(Number[x]) \in SUBSET db /\ Above(Number[y]) \in SUBSET db
  BY Zenon DEF Above
<1>3. /\ IsFiniteSet(Above(Number[x])) /\ IsFiniteSet(Above(Number[y]))
      /\ Cardinality(Above(Number[x])) \in Nat /\ Cardinality(Above(Number[y])) \in Nat
  BY Zenon, <1>1, <1>2, FS_Subset, FS_CardinalityType
<1>4. (Above(Number[y]) \cup {y}) \in SUBSET Above(Number[x])
  BY <1>1 DEF Above
<1>5. y \notin Above(Number[y])
  BY <1>1 DEF Above
<1>6. Cardinality(Above(Number[y]) \cup {y}) = Cardinality(Above(Number[y])) + 1
  BY Zenon, <1>3, <1>5, FS_AddElement
<1>7. Cardinality(Above(Number[y]) \cup {y}) <= Cardinality(Above(Number[x]))
  BY Zenon, <1>3, <1>4, FS_Subset
<1> QED BY Zenon, <1>3, <1>4, <1>6, <1>7

\* GetPreviousBlock one offset below a row returns the next older row.
LEMMA PreviousOfRow ==
  ASSUME IInv, RewindInv, NEW y \in db,
         NEW r \in GetPreviousBlock(db, Cardinality(Above(Number[y])) + 1)
  PROVE  Above(r.num) = Above(Number[y]) \cup {y}
<1>1. PICK x \in db : /\ r = Rec(x)
                      /\ Cardinality(Above(Number[x])) = Cardinality(Above(Number[y])) + 1
  BY Zenon DEF GetPreviousBlock, Above
<1>2. /\ db \in SUBSET Block /\ Number[x] \in Nat /\ Number[y] \in Nat /\ IsFiniteSet(db)
      /\ Above(Number[y]) \in SUBSET db
  BY Zenon, ChainAssumption DEF IInv, TypeOK, RewindInv, Above
<1>3. Cardinality(Above(Number[y])) \in Nat
  BY Zenon, <1>2, FS_Subset, FS_CardinalityType
<1>4. Number[x] # Number[y]
  <2> SUFFICES ASSUME Number[x] = Number[y] PROVE FALSE
    BY Zenon
  <2>1. Above(Number[x]) = Above(Number[y])
    BY Zenon
  <2> QED BY <1>1, <1>3, <2>1
<1>5. ~(Number[y] < Number[x])
  <2> SUFFICES ASSUME Number[y] < Number[x] PROVE FALSE
    BY Zenon
  <2>1. /\ Cardinality(Above(Number[x])) + 1 <= Cardinality(Above(Number[y]))
        /\ Cardinality(Above(Number[x])) \in Nat
    BY Zenon, AboveRow
  <2> QED BY <1>1, <1>3, <2>1
<1>6. Number[x] < Number[y]
  BY <1>2, <1>4, <1>5
<1>7. /\ (Above(Number[y]) \cup {y}) \in SUBSET Above(Number[x])
      /\ IsFiniteSet(Above(Number[x]))
      /\ Cardinality(Above(Number[y]) \cup {y}) = Cardinality(Above(Number[x]))
  BY Zenon, <1>1, <1>6, AboveRow
<1>8. Above(Number[x]) = Above(Number[y]) \cup {y}
  BY Zenon, <1>7, FS_Subset
<1> QED BY Zenon, <1>1, <1>8 DEF Rec

\* When it returns nothing there is no row below.
LEMMA NoPreviousOfRow ==
  ASSUME IInv, RewindInv, NEW y \in db,
         GetPreviousBlock(db, Cardinality(Above(Number[y])) + 1) = {}
  PROVE  db = Above(Number[y]) \cup {y}
<1>1. db \in SUBSET Block /\ Whole(db) /\ \A c \in db : Number[c] \in Nat
  BY Zenon, ChainAssumption DEF IInv, TypeOK
<1>2. ASSUME NEW c \in db, Number[c] < Number[y] PROVE FALSE
  <2>1. PICK x \in db : /\ Number[x] < Number[y]
                        /\ \A z \in db : Number[z] < Number[y] => Number[z] <= Number[x]
    BY Zenon, <1>1, <1>2, NextOlder
  <2>2. ASSUME NEW z \in Above(Number[x]) PROVE z \in Above(Number[y]) \cup {y}
    <3>1. z \in db /\ Number[z] > Number[x]
      BY Zenon DEF Above
    <3>2. Number[z] >= Number[y]
      BY <1>1, <2>1, <3>1
    <3>3. Number[z] = Number[y] => z = y
      BY <1>1, <3>1, WholeOrdered
    <3> QED BY <1>1, <3>1, <3>2, <3>3 DEF Above
  <2>3. /\ Above(Number[x]) = Above(Number[y]) \cup {y}
        /\ Cardinality(Above(Number[x])) = Cardinality(Above(Number[y])) + 1
    BY Zenon, <2>1, <2>2, AboveRow
  <2>4. Rec(x) \in GetPreviousBlock(db, Cardinality(Above(Number[y])) + 1)
    BY Zenon, <2>3 DEF GetPreviousBlock, Above
  <2> QED BY Zenon, <2>4
<1>3. ASSUME NEW c \in db PROVE c \in Above(Number[y]) \cup {y}
  <2>1. Number[c] = Number[y] => c = y
    BY <1>1, WholeOrdered
  <2> QED BY <1>1, <1>2, <2>1 DEF Above
<1> QED BY Zenon, <1>3 DEF Above

-----------------------------------------------------------------------------
(***************************************************************************)
(* Rewinds.                                                                *)
(***************************************************************************)

\* What a step does to the database.
LEMMA DbStep ==
  ASSUME [Next]_vars
  PROVE  \/ db' = db
         \/ Reset /\ db' = Kept(rb.num)
         \/ After /\ db' = Kept(Number[head])
         \/ \E b \in pend : StoreBlock(b)
<1> USE DEF dbVars
<1>1. CASE Reset
  BY Zenon, <1>1 DEF Reset, ResetState, ResetStateFails
<1>2. CASE After
  BY Zenon, <1>2 DEF After, ResetState, ResetStateFails
<1>3. CASE SyncBlocks \/ CheckReorg \/ ChooseRange \/ Fetch \/ Notify \/ NotifyFails
  BY Zenon, <1>3 DEF SyncBlocks, CheckReorg, ChooseRange, Fetch, Notify, NotifyFails
<1>4. CASE Finish \/ Reload \/ ReloadFails \/ AfterFails \/ RpcFails \/ Crash \/ Restart
  BY Zenon, <1>4 DEF Finish, Reload, ReloadFails, AfterFails, RpcFails, Crash, Restart
<1>5. CASE SyncTrustedState \/ SendTrusted
  BY Zenon, <1>5 DEF SyncTrustedState, SendTrusted
<1>6. ASSUME NEW b \in pend, StoreBlockFails(b) PROVE db' = db
  BY Zenon, <1>6 DEF StoreBlockFails
<1>7. ASSUME NEW h \in Block, MoveHead(h) PROVE db' = db
  BY Zenon, <1>7 DEF MoveHead
<1>8. CASE UNCHANGED vars
  BY Zenon, <1>8 DEF vars
<1> QED BY Zenon, <1>1, <1>2, <1>3, <1>4, <1>5, <1>6, <1>7, <1>8 DEF Next, SyncStep

\* The database stays finite, and a row the chain has dropped is recorded.
LEMMA RewindCommon ==
  ASSUME IInv, RewindInv, Next, Record
  PROVE  /\ IsFiniteSet(db')
         /\ (\A b \in db : b \notin Anc[head] => b \in gone)'
         /\ \A b \in db' : b \in gone => b \in gone'
<1>1. IsFiniteSet(db)
  BY Zenon DEF RewindInv
<1>2. CASE db' \in SUBSET db
  BY Zenon, <1>1, <1>2, FS_Subset DEF Record
<1>3. ASSUME NEW b \in pend, StoreBlock(b) PROVE IsFiniteSet(db')
  <2>1. db' = db \cup {b}
    BY Zenon, <1>3 DEF StoreBlock
  <2> QED BY Zenon, <1>1, <2>1, FS_AddElement
<1>4. IsFiniteSet(db')
  BY Zenon, <1>2, <1>3, DbStep DEF Kept
<1> QED BY Zenon, <1>4 DEF Record

\* A step of checkReorg from a row that is not on the chain leaves only such rows above.
LEMMA WalkBackRewind ==
  ASSUME IInv, RewindInv, Record, db' = db, NEW y \in db, y \notin Anc[head],
         Above(Number[y]) \subseteq gone,
         NEW s, WalkBack(s, Cardinality(Above(Number[y])) + 1)
  PROVE  /\ Above(rb.num)' \subseteq gone'
         /\ pc' = "check" => Cardinality(Above(rb.num)') = depth'
<1> DEFINE d == Cardinality(Above(Number[y])) + 1
<1>1. y \in gone
  BY Zenon DEF RewindInv
<1>2. ASSUME NEW T, T \subseteq Above(Number[y]) \cup {y} PROVE T \subseteq gone'
  BY Zenon, <1>1, <1>2 DEF Above, Record
<1>3. ASSUME NEW r \in GetPreviousBlock(db, d), StartWalk(s, r, d)
      PROVE  /\ Above(rb.num)' \subseteq gone'
             /\ Cardinality(Above(rb.num)') = depth'
  <2>1. Above(r.num) = Above(Number[y]) \cup {y}
    BY Zenon, PreviousOfRow
  <2>2. Cardinality(Above(r.num)) = d
    <3>1. PICK x \in db : r = Rec(x) /\ Cardinality(Above(Number[x])) = d
      BY Zenon DEF GetPreviousBlock, Above
    <3> QED BY Zenon, <3>1 DEF Rec
  <2>3. Above(rb.num)' = Above(r.num) /\ depth' = d
    BY Zenon, <1>3 DEF StartWalk, Above
  <2> QED BY Zenon, <1>2, <2>1, <2>2, <2>3
<1>4. ASSUME GetPreviousBlock(db, d) = {} PROVE Above(rb.num)' \subseteq gone'
  <2>1. db = Above(Number[y]) \cup {y}
    BY Zenon, <1>4, NoPreviousOfRow
  <2>2. Above(rb.num)' \subseteq db
    BY Zenon DEF Above
  <2> QED BY Zenon, <1>2, <2>1, <2>2
<1>5. CASE \E r \in GetPreviousBlock(db, d) : StartWalk(s, r, d) /\ pc' = "check"
  BY Zenon, <1>3, <1>5
<1>6. CASE GetPreviousBlock(db, d) = {} /\ pc' = "reset"
  BY Zenon, <1>4, <1>6
<1> QED BY Zenon, <1>5, <1>6 DEF WalkBack

\* A block of the database that the chain has where the header of another is read
\* cannot be: it left the chain.
LEMMA MismatchIsGone ==
  ASSUME IInv, NEW y \in db, NEW b \in HeaderByNumber(Number[y]), b # y
  PROVE  y \notin Anc[head]
<1>1. head \in Block /\ b \in Anc[head] /\ Number[b] = Number[y]
  BY Zenon DEF IInv, TypeOK, HeaderByNumber
<1> QED BY Zenon, <1>1, AncOrdered

\* One header of checkReorg.
LEMMA RewindCheckReorg ==
  ASSUME Guarded, IInv, IInv', RewindInv, Next, Record, CheckReorg
  PROVE  RewindInv'
<1>1. db' = db
  BY Zenon DEF CheckReorg, dbVars
<1>2. /\ Above(rb.num) \subseteq gone /\ IsFiniteSet(db)
      /\ rb.hash \in db =>
           \/ Cardinality(Above(rb.num)) = depth
           \/ stage = "prev" /\ depth = 0 /\ Cardinality(Above(rb.num)) = 1
  BY Zenon DEF CheckReorg, RewindInv
<1>3. /\ IsFiniteSet(db') /\ (\A b \in db : b \notin Anc[head] => b \in gone)'
      /\ \A b \in db' : b \in gone => b \in gone'
  BY Zenon, RewindCommon
<1>4. CASE pc' \notin {"check", "reset", "fetch"}
  BY Zenon, <1>3, <1>4 DEF RewindInv
<1>5. ASSUME NEW b \in HeaderByNumber(rb.num), Mismatch(b, rb), WalkBack(stage, depth + 1)
      PROVE  RewindInv'
  <2>1. rb.hash \in db /\ rb.num = Number[rb.hash]
    <3>1. rb.num \in Nat
      BY Zenon DEF IInv, TypeOK, BlockRec
    <3> QED BY <1>5, <3>1, ConfigType DEF IInv, WalkInv, CheckReorg, Mismatch
  <2>2. rb.hash \notin Anc[head]
    BY Zenon, <1>5, <2>1, MismatchIsGone DEF Mismatch
  <2>3. pc' \in {"check", "reset"}
    BY Zenon, <1>5 DEF WalkBack
  <2>4. CASE Cardinality(Above(rb.num)) = depth
    <3>1. /\ Above(rb.num)' \subseteq gone'
          /\ pc' = "check" => Cardinality(Above(rb.num)') = depth'
      BY Zenon, <1>1, <1>2, <1>5, <2>1, <2>2, <2>4, WalkBackRewind
    <3> QED BY Zenon, <1>3, <2>3, <3>1 DEF RewindInv
  <2>5. CASE stage = "prev" /\ depth = 0 /\ Cardinality(Above(rb.num)) = 1
    <3>1. Rec(rb.hash) \in GetPreviousBlock(db, 1)
      BY Zenon, <2>1, <2>5 DEF GetPreviousBlock, Above
    <3>2. PICK r \in GetPreviousBlock(db, 1) : rb' = r /\ depth' = 1 /\ pc' = "check"
      BY <1>5, <2>5, <3>1 DEF WalkBack, StartWalk
    <3>3. PICK x \in db : r = Rec(x) /\ Cardinality(Above(Number[x])) = 1
      BY Zenon DEF GetPreviousBlock, Above
    <3>4. Number[x] \in Nat /\ rb.num \in Nat
      BY <2>1, ChainAssumption DEF IInv, TypeOK
    <3>5. ~(Number[x] < rb.num)
      <4> SUFFICES ASSUME Number[x] < rb.num PROVE FALSE
        BY Zenon
      <4>1. Cardinality(Above(rb.num)) + 1 <= Cardinality(Above(Number[x]))
        BY Zenon, <2>1, AboveRow
      <4> QED BY <2>5, <3>3, <4>1
    <3>6. ~(rb.num < Number[x])
      <4> SUFFICES ASSUME rb.num < Number[x] PROVE FALSE
        BY Zenon
      <4>1. Cardinality(Above(Number[x])) + 1 <= Cardinality(Above(rb.num))
        BY Zenon, <2>1, AboveRow
      <4> QED BY <2>5, <3>3, <4>1
    <3>7. rb'.num = rb.num
      BY <3>2, <3>3, <3>4, <3>5, <3>6 DEF Rec
    <3>8. Above(rb.num)' = Above(rb.num)
      BY Zenon, <1>1, <3>7 DEF Above
    <3>9. Above(rb.num)' \subseteq gone' /\ Cardinality(Above(rb.num)') = depth'
      BY Zenon, <1>1, <1>2, <1>3, <2>5, <3>2, <3>8 DEF Above
    <3> QED BY Zenon, <1>3, <3>2, <3>9 DEF RewindInv
  <2> QED BY Zenon, <1>2, <2>1, <2>4, <2>5
<1>6. ASSUME pc' = "reset", rb' = rb PROVE RewindInv'
  <2>1. Above(rb.num)' = Above(rb.num)
    BY Zenon, <1>1, <1>6 DEF Above
  <2>2. Above(rb.num)' \subseteq gone'
    BY Zenon, <1>1, <1>2, <1>3, <2>1 DEF Above
  <2> QED BY Zenon, <1>3, <1>6, <2>2 DEF RewindInv
<1>7. CASE WalkDone /\ UNCHANGED walkVars
  BY Zenon, <1>4, <1>6, <1>7 DEF WalkDone, walkVars
<1> QED BY Zenon, <1>4, <1>5, <1>7 DEF CheckReorg

\* Reading the events of a range.
LEMMA RewindFetch ==
  ASSUME Guarded, IInv, IInv', RewindInv, Next, Record, Fetch
  PROVE  RewindInv'
<1>1. db' = db /\ pc = "fetch" /\ from <= to
  BY Zenon DEF Fetch, dbVars, RewindInv
<1>2. /\ IsFiniteSet(db') /\ (\A b \in db : b \notin Anc[head] => b \in gone)'
      /\ \A b \in db' : b \in gone => b \in gone'
  BY Zenon, RewindCommon
<1>3. /\ db \in SUBSET Block /\ Whole(db) /\ head \in Block /\ LastOf(last, db)
      /\ from \in Nat /\ to \in Nat /\ last.num \in Nat /\ GenBlock \in Nat
      /\ \A c \in db : Number[c] \in Nat
  BY Zenon, <1>1, ConfigType, ChainAssumption DEF IInv, CursorInv, TypeOK, BlockRec
<1>4. synced => from = last.num
  BY Zenon, <1>1 DEF IInv, CursorInv
<1>5. CASE pc' \notin {"check", "reset", "fetch"}
  BY Zenon, <1>2, <1>5 DEF RewindInv
<1>6. ASSUME last.num > GenBlock
      PROVE  /\ last.hash \in db /\ last.num = Number[last.hash] /\ Above(last.num) = {}
             /\ Cardinality(Above(last.num)) = 0
  <2>1. last.hash \in Highest(db) /\ last.num = Number[last.hash]
    BY <1>3, <1>6 DEF LastOf
  <2>2. last.hash \in db /\ Above(last.num) = {}
    BY <1>3, <2>1 DEF Highest, Above
  <2> QED BY Zenon, <2>1, <2>2, FS_EmptySet
<1>7. ASSUME last.num > GenBlock, synced, last.hash \in Anc[head] PROVE last.hash \in RollupInfo
  <2>1. last.hash \in db /\ last.num = Number[last.hash]
    BY Zenon, <1>6, <1>7
  <2> QED BY <1>1, <1>3, <1>4, <1>7, <2>1 DEF RollupInfo, Whole
<1>8. CASE FetchChecked
  <2>1. PICK b : /\ IF from = GenBlock /\ ~\E c \in RollupInfo : Number[c] = GenBlock
                    THEN b = NoHash ELSE b \in Lowest(RollupInfo)
                 /\ pc' = "store" \/ (Mismatch(b, last) /\ WalkBack("second", 1))
    BY Zenon, <1>8 DEF FetchChecked
  <2>2. CASE Mismatch(b, last) /\ WalkBack("second", 1)
    <3>1. last.num > GenBlock /\ b # last.hash /\ synced
      BY Zenon, <1>8, <2>2 DEF Mismatch, FetchChecked
    <3>2. b \in Lowest(RollupInfo)
      BY <1>3, <1>4, <2>1, <3>1
    <3>3. last.hash \notin Anc[head]
      <4> SUFFICES ASSUME last.hash \in Anc[head] PROVE FALSE
        BY Zenon
      <4>1. last.hash \in RollupInfo /\ last.num = Number[last.hash]
        BY Zenon, <1>6, <1>7, <3>1
      <4>2. b \in Anc[head] /\ from <= Number[b] /\ Number[b] <= last.num /\ Number[b] \in Nat
        BY Zenon, <1>3, <3>2, <4>1, AncClosed DEF Lowest, RollupInfo
      <4>3. Number[b] = Number[last.hash]
        BY <1>3, <1>4, <3>1, <4>1, <4>2
      <4> QED BY Zenon, <1>3, <3>1, <4>2, <4>3, AncOrdered
    <3>4. last.hash \in db /\ last.num = Number[last.hash] /\ Above(last.num) = {}
          /\ Cardinality(Above(last.num)) + 1 = 1
      BY <1>6, <3>1
    <3>5. /\ Above(rb.num)' \subseteq gone'
          /\ pc' = "check" => Cardinality(Above(rb.num)') = depth'
      <4>1. WalkBack("second", Cardinality(Above(Number[last.hash])) + 1)
        BY Zenon, <2>2, <3>4
      <4>2. Above(Number[last.hash]) \subseteq gone
        BY Zenon, <3>4
      <4> QED BY Zenon, <1>1, <3>3, <3>4, <4>1, <4>2, WalkBackRewind
    <3>6. pc' \in {"check", "reset"}
      BY Zenon, <2>2 DEF WalkBack
    <3> QED BY Zenon, <1>2, <3>5, <3>6 DEF RewindInv
  <2> QED BY Zenon, <1>5, <2>1, <2>2
<1>9. CASE from >= GenBlock /\ FetchNothing
  <2>1. /\ synced /\ RollupInfo = {} /\ last.num > GenBlock /\ pc' = "check"
    BY <1>3, <1>4, <1>9 DEF FetchNothing
  <2>2. /\ last.hash \notin Anc[head] /\ last.hash \in db /\ last.hash \in gone
        /\ last.num = Number[last.hash]
        /\ Above(Number[last.hash]) = {} /\ Cardinality(Above(Number[last.hash])) + 1 = 1
    BY <1>6, <1>7, <2>1 DEF RewindInv
  <2>3. CASE GetPreviousBlock(db, 1) = {}
    <3>1. db = {last.hash}
      BY Zenon, <2>2, <2>3, NoPreviousOfRow
    <3>2. Above(rb.num)' \subseteq gone'
      BY Zenon, <1>1, <1>2, <2>2, <3>1 DEF Above
    <3>3. rb'.hash \notin db'
      BY <1>1, <1>3, <1>9, <2>3, ChainAssumption DEF FetchNothing, StartWalk
    <3> QED BY Zenon, <1>2, <2>1, <3>2, <3>3 DEF RewindInv
  <2>4. CASE GetPreviousBlock(db, 1) # {}
    <3>1. PICK r \in GetPreviousBlock(db, 1) : rb' = r /\ stage' = "prev" /\ depth' = 0
      BY Zenon, <1>9, <2>4 DEF FetchNothing, StartWalk
    <3>2. Above(r.num) = {last.hash}
      BY Zenon, <2>2, PreviousOfRow
    <3>3. Above(rb.num)' = {last.hash}
      BY Zenon, <1>1, <3>1, <3>2 DEF Above
    <3>4. Above(rb.num)' \subseteq gone' /\ Cardinality(Above(rb.num)') = 1
      BY Zenon, <1>1, <1>2, <2>2, <3>3, FS_Singleton
    <3> QED BY Zenon, <1>2, <2>1, <3>1, <3>4 DEF RewindInv
  <2> QED BY Zenon, <2>3, <2>4
<1>10. ~FetchForced
  BY Zenon DEF FetchForced, Guarded
<1> QED BY Zenon, <1>5, <1>8, <1>9, <1>10 DEF Fetch, FetchUnchecked

\* Every step keeps the walk of checkReorg among rows the chain has dropped.
LEMMA RewindNext ==
  ASSUME Guarded, IInv, IInv', RewindInv, Next, Record
  PROVE  RewindInv'
<1>1. /\ IsFiniteSet(db') /\ (\A b \in db : b \notin Anc[head] => b \in gone)'
      /\ \A b \in db' : b \in gone => b \in gone'
  BY Zenon, RewindCommon
<1>2. ASSUME pc' \notin {"check", "reset", "fetch"} PROVE RewindInv'
  BY Zenon, <1>1, <1>2 DEF RewindInv
<1>3. CASE SyncBlocks
  <2>1. db' = db /\ pc' = "check" /\ rb' = last /\ depth' = 0 /\ LastOf(last, db)
    BY Zenon, <1>3 DEF SyncBlocks, dbVars, StartWalk, IInv, CursorInv
  <2>2. \A c \in db : Number[c] \in Nat
    BY Zenon, ChainAssumption DEF IInv, TypeOK
  <2>3. Above(rb.num)' = {}
    BY <2>1, <2>2 DEF Above, LastOf, Highest
  <2>4. Cardinality(Above(rb.num)') = depth' /\ Above(rb.num)' \subseteq gone'
    BY Zenon, <2>1, <2>3, FS_EmptySet
  <2> QED BY Zenon, <1>1, <2>1, <2>4 DEF RewindInv
<1>4. CASE CheckReorg \/ Fetch
  BY Zenon, <1>4, RewindCheckReorg, RewindFetch
<1>5. CASE ChooseRange
  <2>1. RangeFrom \in Nat /\ RangeTo \in Nat
    <3>1. Number[head] \in Nat
      BY Zenon, ChainAssumption DEF IInv, TypeOK
    <3> QED BY Zenon, <3>1 DEF RangeFrom, RangeTo, LastKnown, IInv, TypeOK, BlockRec
  <2>2. pc' = "after" \/ (pc' = "fetch" /\ from' <= to')
    BY <1>5, <2>1 DEF ChooseRange
  <2> QED BY Zenon, <1>1, <2>2 DEF RewindInv
<1>6. CASE Reset \/ Notify \/ NotifyFails \/ Finish \/ Reload \/ ReloadFails
  BY Zenon, <1>2, <1>6 DEF Reset, Notify, NotifyFails, Finish, Reload, ReloadFails
<1>7. CASE After \/ AfterFails \/ RpcFails \/ Crash \/ Restart
  BY Zenon, <1>2, <1>7 DEF After, AfterFails, RpcFails, Crash, Restart
<1>8. CASE SyncTrustedState \/ SendTrusted
  BY Zenon, <1>2, <1>8 DEF SyncTrustedState, SendTrusted
<1>9. ASSUME NEW b \in pend, StoreBlock(b) \/ StoreBlockFails(b) PROVE RewindInv'
  BY Zenon, <1>2, <1>9 DEF StoreBlock, StoreBlockFails
<1>10. ASSUME NEW h \in Block, MoveHead(h) PROVE RewindInv'
  <2>1. UNCHANGED <<db, pc, stage, rb, depth, from, to>>
    BY Zenon, <1>10 DEF MoveHead, dbVars, walkVars, rangeVars
  <2>2. Above(rb.num)' = Above(rb.num)
    BY Zenon, <2>1 DEF Above
  <2>3. Above(rb.num) \subseteq gone => Above(rb.num)' \subseteq gone'
    BY Zenon, <1>1, <2>1, <2>2 DEF Above
  <2> QED BY Zenon, <1>1, <2>1, <2>2, <2>3 DEF RewindInv
<1> QED BY Zenon, <1>3, <1>4, <1>5, <1>6, <1>7, <1>8, <1>9, <1>10 DEF Next, SyncStep

\* A step deletes only rows that left the chain.
LEMMA DropsOnlyGone ==
  ASSUME IInv, RewindInv, [Next]_vars, NEW b \in db \ db'
  PROVE  b \in gone
<1>1. head \in Block /\ b \in Block /\ Number[b] \in Nat /\ rb.num \in Nat
  BY Zenon, ChainAssumption DEF IInv, TypeOK, BlockRec
<1>2. CASE Reset /\ db' = Kept(rb.num)
  <2>1. b \in Above(rb.num)
    BY <1>1, <1>2 DEF Kept, Above
  <2> QED BY Zenon, <1>2, <2>1 DEF Reset, RewindInv
<1>3. CASE db' = Kept(Number[head])
  <2>1. ~(Number[b] <= Number[head])
    BY Zenon, <1>3 DEF Kept
  <2>2. b \notin Anc[head]
    BY Zenon, <1>1, <2>1, AncClosed
  <2> QED BY Zenon, <2>2 DEF RewindInv
<1> QED BY Zenon, <1>2, <1>3, DbStep DEF StoreBlock

-----------------------------------------------------------------------------
(***************************************************************************)
(* Announcements.                                                          *)
(***************************************************************************)

\* The latest exit root of a whole set is the highest: no row has a later one.
LEMMA LatestIsHighest ==
  ASSUME NEW S \in SUBSET Block, Whole(S), NEW r \in GetLatestExitRoot(S), NEW b \in S
  PROVE  r \in Nat /\ Ger[b] \in Nat /\ Ger[b] <= r
<1> DEFINE G == {c \in S : Ger[c] # 0}
<1>1. \A c \in S : Ger[c] \in Nat /\ Number[c] \in Nat
  BY Zenon, EventAssumption, ChainAssumption
<1>2. CASE G = {}
  <2>1. r = 0 /\ Ger[b] = 0
    BY Zenon, <1>2 DEF GetLatestExitRoot
  <2> QED BY <2>1
<1>3. CASE G # {}
  <2>1. PICK t \in Highest(G) : r = Ger[t]
    BY Zenon, <1>3 DEF GetLatestExitRoot
  <2>2. t \in S /\ Ger[t] # 0 /\ \A c \in G : Number[c] <= Number[t]
    BY Zenon, <2>1 DEF Highest
  <2>3. CASE Ger[b] = 0
    BY <1>1, <2>1, <2>2, <2>3
  <2>4. CASE Ger[b] # 0
    <3>1. b \in Anc[t]
      BY Zenon, <2>2, <2>4, WholeOrdered
    <3>2. b = t \/ b \in ProperAnc(t)
      BY Zenon, <3>1 DEF ProperAnc
    <3>3. b \in ProperAnc(t) => Ger[b] <= Ger[t]
      BY Zenon, <2>2, GerAssumption
    <3> QED BY <1>1, <2>1, <2>2, <3>2, <3>3
  <2> QED BY Zenon, <2>3, <2>4
<1> QED BY Zenon, <1>2, <1>3

\* It is zero or the root of a row.
LEMMA LatestIsStored ==
  ASSUME NEW S \in SUBSET Block, NEW r \in GetLatestExitRoot(S)
  PROVE  r = 0 \/ \E b \in S : r = Ger[b]
  BY Zenon DEF GetLatestExitRoot, Highest

\* Every step keeps the announcements complete, or cuts one off.
LEMMA AnnounceNext ==
  ASSUME IInv, AnnounceInv, Next, ~CutOff
  PROVE  AnnounceInv'
<1> USE DEF AnnounceInv, dbVars, gerVars, trustVars
<1>1. /\ sent \in Nat /\ delivered \in Nat /\ tger \in Nat /\ db \in SUBSET Block /\ Whole(db)
      /\ trusted \subseteq Nat /\ \A b \in db \cup pend : Ger[b] \in Nat
  BY Zenon, EventAssumption, ConfigAssumption DEF IInv, TypeOK
<1>2. ASSUME db' \in SUBSET db, pc \notin {"store", "send"}, UNCHANGED <<sent, delivered, trusted>>
      PROVE  AnnounceInv'
  BY Zenon, <1>2
<1>3. CASE SyncBlocks \/ CheckReorg \/ ChooseRange \/ Fetch \/ Finish \/ Reload \/ ReloadFails
  BY Zenon, <1>2, <1>3 DEF SyncBlocks, CheckReorg, ChooseRange, Fetch, Finish, Reload, ReloadFails
<1>4. CASE AfterFails \/ RpcFails
  BY Zenon, <1>2, <1>4 DEF AfterFails, RpcFails
<1>5. CASE Reset \/ After
  <2>1. db' \in SUBSET db
    BY Zenon, <1>5 DEF Reset, After, ResetState, ResetStateFails, Kept
  <2> QED BY Zenon, <1>2, <1>5, <2>1 DEF Reset, After
<1>6. ASSUME NEW b \in pend, StoreBlock(b) PROVE AnnounceInv'
  <2>1. /\ pc = "store" /\ pc' = "store" /\ db' = db \cup {b}
        /\ UNCHANGED <<sent, delivered, trusted, tger>>
    BY Zenon, <1>6 DEF StoreBlock
  <2>2. newGer => newGer'
    BY Zenon, <1>6 DEF StoreBlock, IsNewGer
  <2>3. Ger[b] # 0 => newGer'
    BY Zenon, <1>6 DEF StoreBlock, IsNewGer
  <2>4. Ger[b] > delivered => Ger[b] # 0
    BY <1>1
  <2> QED BY Zenon, <2>1, <2>2, <2>3, <2>4
<1>7. ASSUME NEW b \in pend, StoreBlockFails(b) PROVE AnnounceInv'
  BY Zenon, <1>7 DEF StoreBlockFails, CutOff
<1>8. CASE NotifyFails
  BY Zenon, <1>8 DEF NotifyFails, CutOff
<1>9. CASE Notify
  <2>1. CASE ~newGer /\ UNCHANGED <<sent, delivered>>
    BY Zenon, <1>9, <2>1 DEF Notify
  <2>2. ASSUME NEW r \in GetLatestExitRoot(db),
               \/ IsL1 /\ sent = r /\ UNCHANGED <<sent, delivered>>
               \/ sent' = (IF IsL1 THEN r ELSE sent) /\ delivered' = Larger(delivered, r)
        PROVE  AnnounceInv'
    <3>1. \A b \in db : Ger[b] <= r /\ Ger[b] \in Nat
      BY Zenon, <1>1, LatestIsHighest
    <3>2. r \in Nat
      BY Zenon, <1>1, QueryType
    <3>3. r <= delivered' /\ delivered <= delivered' /\ sent' <= delivered' /\ delivered' \in Nat
      BY <1>1, <2>2, <3>2 DEF Larger
    <3>4. \A b \in db : ~(Ger[b] > delivered')
      BY <3>1, <3>2, <3>3
    <3>5. \A t \in trusted : t <= delivered'
      BY <1>1, <1>9, <3>3 DEF Notify
    <3> QED BY Zenon, <1>9, <3>3, <3>4, <3>5 DEF Notify
  <2> QED BY Zenon, <1>9, <2>1, <2>2 DEF Notify
<1>10. CASE Crash
  <2>1. ~(pc = "store" /\ newGer) /\ pc # "send"
    BY Zenon, <1>10 DEF Crash, CutOff
  <2> QED BY Zenon, <1>10, <2>1 DEF Crash
<1>11. CASE Restart
  <2>1. pc = "down" /\ db' = db /\ delivered' = delivered /\ trusted' = trusted
    BY Zenon, <1>11 DEF Restart
  <2>2. \A b \in db : ~(Ger[b] > delivered)
    BY Zenon, <2>1
  <2>3. sent' = 0 \/ \E b \in db : sent' = Ger[b]
    BY Zenon, <1>1, <1>11, LatestIsStored DEF Restart
  <2>4. sent' <= delivered
    BY <1>1, <2>2, <2>3
  <2> QED BY Zenon, <2>1, <2>2, <2>4
<1>12. CASE SyncTrustedState
  BY Zenon, <1>12 DEF SyncTrustedState
<1>13. CASE SendTrusted
  <2>1. delivered <= delivered' /\ tger <= delivered' /\ delivered' \in Nat
    BY <1>1, <1>13 DEF SendTrusted, Larger
  <2>2. sent' <= delivered' /\ db' = db /\ trusted' = trusted /\ pc = "send"
    BY <1>1, <1>13, <2>1 DEF SendTrusted
  <2>3. \A b \in db : ~(Ger[b] > delivered')
    BY <1>1, <2>1, <2>2
  <2>4. \A r \in trusted : r <= delivered'
    BY <1>1, <2>1, <2>2
  <2> QED BY Zenon, <2>2, <2>3, <2>4
<1>14. ASSUME NEW h \in Block, MoveHead(h) PROVE AnnounceInv'
  BY Zenon, <1>14 DEF MoveHead
<1> QED BY Zenon, <1>3, <1>4, <1>5, <1>6, <1>7, <1>8, <1>9, <1>10, <1>11, <1>12, <1>13, <1>14
        DEF Next, SyncStep

-----------------------------------------------------------------------------
(***************************************************************************)
(* The count of the in-memory exit tree.                                   *)
(***************************************************************************)

\* A block that continues the stored fork has the highest deposit count.
LEMMA CountAfterStore ==
  ASSUME IInv, TreeInv, NEW b \in pend, StoreBlock(b)
  PROVE  TreeInv'
<1>1. /\ (db \cup pend) \in SUBSET Block /\ Whole(db \cup pend)
      /\ \A c \in db : Number[c] < Number[b]
      /\ b \in Block /\ db' = db \cup {b}
  BY Zenon DEF IInv, StoreInv, TypeOK, StoreBlock
<1>2. CASE ~HasDeposits(b)
  <2>1. {c \in db' : HasDeposits(c)} = {c \in db : HasDeposits(c)}
    BY Zenon, <1>1, <1>2
  <2>2. mtCount' = mtCount
    BY Zenon, <1>2 DEF StoreBlock
  <2> QED BY Zenon, <2>1, <2>2 DEF TreeInv, GetNumberDeposits
<1>3. CASE HasDeposits(b)
  <2>1. mtCount' = DepositCount[b] /\ DepositCount[b] \in Nat
    BY Zenon, <1>1, <1>3, EventAssumption DEF StoreBlock
  <2>2. ASSUME NEW c \in db PROVE DepositCount[c] <= DepositCount[b]
    <3>1. Number[c] < Number[b] /\ Number[c] \in Nat /\ Number[b] \in Nat /\ c \in Block
      BY Zenon, <1>1, ChainAssumption
    <3>2. c \in Anc[b] /\ c # b
      BY <1>1, <3>1, WholeOrdered
    <3>3. DepositCount[c] <= FirstDeposit[b] /\ FirstDeposit[b] <= DepositCount[b]
      BY Zenon, <1>1, <3>2, EventAssumption DEF ProperAnc
    <3>4. DepositCount[c] \in Nat /\ FirstDeposit[b] \in Nat
      BY Zenon, <1>1, <3>1, EventAssumption
    <3> QED BY <2>1, <3>3, <3>4
  <2> DEFINE D == {c \in db' : HasDeposits(c)}
  <2>3. b \in D /\ \A c \in D : DepositCount[c] <= DepositCount[b]
    BY <1>1, <1>3, <2>1, <2>2
  <2>4. DepositCount[b] \in GetNumberDeposits(db')
    BY Zenon, <2>3 DEF GetNumberDeposits
  <2> QED BY Zenon, <2>1, <2>4 DEF TreeInv, GetNumberDeposits
<1> QED BY Zenon, <1>2, <1>3

\* A step keeps the count in step with the database, and a step that loads the tree
\* brings it back in step, unless the step is a failure that changes the tree.
LEMMA TreeNext ==
  ASSUME IInv, TreeInv \/ Reloaded, [Next]_vars
  PROVE  TreeInv' \/ (DbFaults /\ faults' # faults /\ mtCount' # mtCount)
<1>1. faults \in Nat /\ mtCount \in Nat
  BY Zenon DEF IInv, TypeOK
<1> DEFINE Torn == DbFaults /\ faults' # faults /\ mtCount' # mtCount
<1>2. ASSUME UNCHANGED dbVars, ~(pc = "down" /\ pc' = "idle") PROVE TreeInv'
  BY Zenon, <1>2 DEF TreeInv, dbVars, GetNumberDeposits, Reloaded
<1>3. ASSUME NEW n, ResetState(n) PROVE TreeInv'
  BY Zenon, <1>3 DEF ResetState, TreeInv, GetNumberDeposits
<1>4. ASSUME DbFaults, faults > 0, faults' = faults - 1, db' = db,
             ~(pc = "down" /\ pc' = "idle")
      PROVE  TreeInv' \/ Torn
  <2>1. faults' # faults
    BY <1>1, <1>4
  <2>2. CASE mtCount' = mtCount
    BY Zenon, <1>2, <1>4, <2>2 DEF dbVars
  <2> QED BY Zenon, <1>4, <2>1, <2>2
<1>5. CASE Reset
  BY Zenon, <1>3, <1>4, <1>5 DEF Reset, ResetStateFails
<1>6. CASE After
  BY Zenon, <1>2, <1>3, <1>4, <1>6 DEF After, ResetStateFails
<1>7. CASE Restart
  BY Zenon, <1>7 DEF Restart, TreeInv, GetNumberDeposits
<1>8. ASSUME NEW b \in pend, StoreBlock(b) PROVE TreeInv'
  <2>1. ~Reloaded
    BY Zenon, <1>8 DEF StoreBlock, Reloaded
  <2> QED BY Zenon, <1>8, <2>1, CountAfterStore
<1>9. ASSUME NEW b \in pend, StoreBlockFails(b) PROVE TreeInv' \/ Torn
  BY Zenon, <1>2, <1>4, <1>9 DEF StoreBlockFails, dbVars
<1>10. CASE SyncBlocks \/ CheckReorg \/ ChooseRange \/ Fetch \/ Notify \/ NotifyFails
  BY Zenon, <1>2, <1>10 DEF SyncBlocks, CheckReorg, ChooseRange, Fetch, Notify, NotifyFails
<1>11. CASE Finish \/ Reload \/ ReloadFails \/ AfterFails \/ RpcFails \/ Crash
  BY Zenon, <1>2, <1>11 DEF Finish, Reload, ReloadFails, AfterFails, RpcFails, Crash
<1>12. ASSUME NEW h \in Block, MoveHead(h) PROVE TreeInv'
  BY Zenon, <1>2, <1>12 DEF MoveHead
<1>13. CASE UNCHANGED vars
  BY Zenon, <1>2, <1>13 DEF vars
<1>14. CASE SyncTrustedState \/ SendTrusted
  BY Zenon, <1>2, <1>14 DEF SyncTrustedState, SendTrusted
<1> QED BY Zenon, <1>5, <1>6, <1>7, <1>8, <1>9, <1>10, <1>11, <1>12, <1>13, <1>14
        DEF Next, SyncStep

\* Reorganisations, RPC errors and restarts never take the in-memory tree out of
\* step with the stored deposits: only a failing database transaction can.
THEOREM TreeFollowsDatabase ==
  ASSUME Guarded, ~DbFaults PROVE Spec => []TreeMatchesDb
<1>1. Init => TreeInv
  BY Zenon DEF Init, TreeInv, GetNumberDeposits
<1>2. IInv /\ TreeInv /\ [Next]_vars => TreeInv'
  BY Zenon, TreeNext
<1>3. TreeInv => TreeMatchesDb
  BY Zenon DEF TreeInv, TreeMatchesDb
<1> QED BY <1>1, <1>2, <1>3, Inductive, PTL DEF Spec

-----------------------------------------------------------------------------
(***************************************************************************)
(* The synchronizer with its history.                                      *)
(***************************************************************************)

\* The inductive invariant holds in the initial states.
LEMMA HInvInit == HInit => HInv
<1> SUFFICES ASSUME HInit PROVE HInv
  BY Zenon
<1>1. IInv
  BY Zenon, IInvInit DEF HInit
<1>2. TreeInv /\ AnnounceInv
  BY DEF HInit, Init, TreeInv, GetNumberDeposits, AnnounceInv
<1>3. RewindInv
  BY Zenon, FS_EmptySet DEF HInit, Init, RewindInv
<1> QED BY Zenon, <1>1, <1>2, <1>3 DEF HInv

\* Every step keeps it.
LEMMA HInvNext == Guarded /\ HInv /\ [HNext]_allVars => HInv'
<1> SUFFICES ASSUME Guarded, HInv, [HNext]_allVars PROVE HInv'
  BY Zenon
<1>1. CASE HNext
  <2>1. Next /\ Record /\ IInv /\ RewindInv
    BY Zenon, <1>1 DEF HNext, HInv
  <2>2. IInv'
    BY Zenon, <2>1, IInvNext
  <2>3. RewindInv'
    BY Zenon, <2>1, <2>2, RewindNext
  <2>4. ~cut' => AnnounceInv'
    BY Zenon, <2>1, AnnounceNext DEF Record, HInv
  <2>5. ~torn' => TreeInv'
    BY Zenon, <2>1, TreeNext DEF Record, HInv
  <2> QED BY Zenon, <2>2, <2>3, <2>4, <2>5 DEF HInv
<1>2. CASE UNCHANGED allVars
  <2> USE <1>2 DEF allVars, history
  <2>1. UNCHANGED vars
    BY Zenon
  <2>2. IInv'
    BY Zenon, <2>1, IInvNext DEF HInv
  <2> USE DEF vars, dbVars, gerVars, trustVars, walkVars, rangeVars, storeVars
  <2>3. (~torn => TreeInv)' /\ (~cut => AnnounceInv)'
    BY Zenon DEF HInv, TreeInv, GetNumberDeposits, AnnounceInv
  <2>4. RewindInv'
    BY Zenon DEF HInv, RewindInv, Above
  <2> QED BY Zenon, <2>2, <2>3, <2>4 DEF HInv
<1> QED BY Zenon, <1>1, <1>2

\* Every reachable state satisfies the inductive invariant.
THEOREM HistoryInductive ==
  ASSUME Guarded PROVE HSpec => []HInv
<1>1. HInit => HInv
  BY Zenon, HInvInit
<1>2. HInv /\ [HNext]_allVars => HInv'
  BY Zenon, HInvNext
<1> QED BY <1>1, <1>2, PTL DEF HSpec

\* A rewind never deletes a block that has stayed on the canonical chain since it was
\* stored, whatever the chain does between the headers checkReorg reads.
THEOREM RewindsAreNeeded ==
  ASSUME Guarded PROVE HSpec => NoNeedlessRewind
<1>1. HInv /\ [HNext]_allVars => [\A b \in db \ db' : b \in gone]_allVars
  <2> SUFFICES ASSUME HInv, HNext, NEW b \in db \ db' PROVE b \in gone
    BY Zenon
  <2> QED BY Zenon, DropsOnlyGone DEF HInv, HNext
<1> QED BY <1>1, HistoryInductive, PTL DEF HSpec, NoNeedlessRewind

\* As long as no failure or crash comes between the commit of a root and its
\* announcement, a finished range leaves no stored root unannounced.
THEOREM RootsAnnounced ==
  ASSUME Guarded PROVE HSpec => []AnnouncedUnlessCut
<1>1. HInv => AnnouncedUnlessCut
  <2> SUFFICES ASSUME HInv, ~cut, pc \in {"idle", "finish"}
               PROVE  /\ \A r \in GetLatestExitRoot(db) : r <= delivered
                      /\ \A r \in trusted : r <= delivered
    BY Zenon DEF AnnouncedUnlessCut, NoMissedRoot
  <2>1. AnnounceInv /\ db \in SUBSET Block /\ delivered \in Nat
    BY Zenon DEF HInv, IInv, TypeOK
  <2>2. \A b \in db : Ger[b] <= delivered
    <3>1. \A b \in db : Ger[b] \in Nat
      BY Zenon, <2>1, EventAssumption
    <3> QED BY <2>1, <3>1 DEF AnnounceInv
  <2>3. \A r \in trusted : r <= delivered
    BY Zenon, <2>1 DEF AnnounceInv
  <2> QED BY <2>1, <2>2, <2>3, LatestIsStored
<1> QED BY <1>1, HistoryInductive, PTL

\* The tree is out of step with the stored deposits only after a transaction that was
\* rolled back, and only until a restart or a rewind loads it again.
THEOREM TreeTornByFailureOnly ==
  ASSUME Guarded PROVE HSpec => []TreeUnlessTorn
<1>1. HInv => TreeUnlessTorn
  BY Zenon DEF HInv, TreeUnlessTorn, TreeInv, TreeMatchesDb
<1> QED BY <1>1, HistoryInductive, PTL
=============================================================================
