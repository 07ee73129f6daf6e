---------------------------- MODULE Synchronizer ----------------------------
(***************************************************************************)
(* The synchronizer of one network (synchronizer/synchronizer.go): it      *)
(* copies the bridge events of a chain that may reorganise into the        *)
(* database, rewinds the database when the chain it copied is no longer    *)
(* the canonical one, keeps the in-memory exit tree (bridgectrl) in step   *)
(* and tells the claim transaction manager about new global exit roots.    *)
(*                                                                         *)
(* Every RPC call and every database transaction is a step of its own: the *)
(* chain may reorganise, and the process may die, between any two of them. *)
(***************************************************************************)
EXTENDS Integers, FiniteSets

CONSTANTS
  Block,          \* the blocks (hashes) of every fork of the chain
  NoHash,         \* the zero hash of a placeholder block
  Number,         \* Number[b]: the number of block b
  Anc,            \* Anc[b]: b and all its ancestors
  Events,         \* the blocks with a log of the bridge contracts
  FirstDeposit,   \* FirstDeposit[b]: the contract's deposit count before b
  DepositCount,   \* DepositCount[b]: the contract's deposit count after b
  Ger,            \* Ger[b]: number of the last exit root event of b, or 0
  GenBlock,       \* genBlockNumber: where the synchronization starts
  SyncChunkSize,  \* cfg.SyncChunkSize
  IsL1,           \* networkID = 0
  ForceSyncChunk, \* forceSyncChunk (L2 only)
  Sovereign,      \* sovereignChain (L2 only)
  TrustedRoots,   \* numbers of the exit roots a trusted node may report
  MaxFaults,      \* bound on the failures and crashes of a behaviour
  DbFaults,       \* database transactions may fail
  HeadMayDrop,    \* the head may fall below a block already stored
  ReorgUnchecked  \* the chain may reorganise where no hash check would see it

ProperAnc(b) == Anc[b] \ {b}

HasDeposits(b) == FirstDeposit[b] < DepositCount[b]

\* Blocks of one chain: ancestors are closed, ordered and numbered one by one.
ASSUME ChainAssumption ==
  /\ Number \in [Block -> Nat]
  /\ Anc \in [Block -> SUBSET Block]
  /\ NoHash \notin Block
  /\ \A b \in Block :
       /\ b \in Anc[b]
       /\ \A n \in 0..Number[b] : \E c \in Anc[b] : Number[c] = n
       /\ \A c \in Anc[b] : Number[c] <= Number[b] /\ Anc[c] \subseteq Anc[b]
       /\ \A c, d \in Anc[b] : Number[c] <= Number[d] => c \in Anc[d]
       /\ \A c, d \in Anc[b] : Number[c] = Number[d] => c = d

\* The contract numbers deposits consecutively along every fork, and the
\* bridge is deployed in block GenBlock.
ASSUME EventAssumption ==
  /\ Events \subseteq Block
  /\ FirstDeposit \in [Block -> Nat] /\ DepositCount \in [Block -> Nat]
  /\ Ger \in [Block -> Nat]
  /\ \A b \in Block :
       /\ FirstDeposit[b] <= DepositCount[b]
       /\ HasDeposits(b) => b \in Events /\ Number[b] > GenBlock
       /\ Ger[b] # 0 => b \in Events
       /\ \A c \in ProperAnc(b) : DepositCount[c] <= FirstDeposit[b]

\* Exit roots are numbered in the order in which a fork has them.
ASSUME GerAssumption ==
  \A b \in Block : \A c \in ProperAnc(b) : Ger[b] # 0 => Ger[c] <= Ger[b]

ASSUME ConfigAssumption ==
  /\ GenBlock \in Nat /\ SyncChunkSize \in Nat /\ MaxFaults \in Nat
  /\ TrustedRoots \subseteq Nat
  /\ {IsL1, ForceSyncChunk, Sovereign, DbFaults, HeadMayDrop, ReorgUnchecked}
       \subseteq BOOLEAN
  /\ IsL1 => ~ForceSyncChunk

VARIABLES
  head,       \* the head of the canonical chain, as the RPC node sees it
  db,         \* the blocks stored in sync.block, with their events
  mtCount,    \* count of the in-memory MerkleTree of this network
  sent,       \* l1RollupExitRoot: the last root sent to the claim managers
  delivered,  \* the highest root a claim manager was told of
  trusted,    \* the roots stored by the trusted sync (block_id = 0)
  tger,       \* the trusted root stored and not yet sent, or 0
  synced,     \* s.synced
  last,       \* lastBlockSynced: number and hash
  pc,         \* where Sync is
  stage,      \* which of its three calls checkReorg is serving
  rb, depth,  \* reorgedBlock and depth of checkReorg
  known,      \* lastKnownBlock
  from, to,   \* fromBlock and toBlock
  pend,       \* the blocks of the range that are still to be stored
  tip,        \* the last block of the range
  newGer,     \* isNewL1Ger or isNewL2Ger
  faults      \* how many failures the behaviour still has

dbVars    == <<db, mtCount>>
gerVars   == <<sent, delivered, newGer>>
trustVars == <<trusted, tger>>
walkVars  == <<stage, rb, depth>>
rangeVars == <<known, from, to>>
storeVars == <<pend, tip>>
vars == <<head, dbVars, gerVars, trustVars, synced, last, pc, walkVars,
          rangeVars, storeVars, faults>>

-----------------------------------------------------------------------------
(***************************************************************************)
(* Blocks, and the queries of db/pgstorage.  The queries that return the   *)
(* extreme row of a table are the set of rows they may return.             *)
(***************************************************************************)
Rec(b) == [num |-> Number[b], hash |-> b]
BlockRec == [num : Nat, hash : Block \cup {NoHash}]
Placeholder == [num |-> GenBlock, hash |-> NoHash]

\* The rows a full history of the chain that ends in b has in sync.block.
Stored(b) == {c \in Anc[b] : c \in Events /\ Number[c] > GenBlock}

Highest(S) == {b \in S : \A c \in S : Number[c] <= Number[b]}
\* Mutant: the blocks of a range are taken newest first.
NewestFirst(S) == Highest(S)

Lowest(S) == {b \in S : \A c \in S : Number[b] <= Number[c]}

\* GetLastBlock, with the genesis placeholder when there is no row.
GetLastBlock(S) == IF S = {} THEN {Placeholder} ELSE {Rec(b) : b \in Highest(S)}

\* Mutant: the offset of GetPreviousBlock is one too large.
SkippingPrevious(S, d) ==
  {Rec(b) : b \in {x \in S : Cardinality({c \in S : Number[c] > Number[x]}) = d + 1}}

\* GetPreviousBlock: the row at offset d, the newest block first.
GetPreviousBlock(S, d) ==
  {Rec(b) : b \in {x \in S : Cardinality({c \in S : Number[c] > Number[x]}) = d}}

\* GetNumberDeposits (and GetLastDepositCount + 1): what the tree is reset to.
GetNumberDeposits(S) ==
  LET D == {b \in S : HasDeposits(b)}
  IN  IF D = {} THEN {0}
      ELSE {DepositCount[b] : b \in {x \in D : \A c \in D : DepositCount[c] <= DepositCount[x]}}

\* GetLatestL1SyncedExitRoot and GetLatestTrustedExitRoot.
GetLatestExitRoot(S) ==
  LET G == {b \in S : Ger[b] # 0}
  IN  IF G = {} THEN {0} ELSE {Ger[b] : b \in Highest(G)}

\* HeaderByNumber(n) on the canonical chain.
HeaderByNumber(n) == {b \in Anc[head] : Number[b] = n}

-----------------------------------------------------------------------------
(***************************************************************************)
(* The environment.  The head moves to any block the RPC node may report:  *)
(* the chain grows, reorganises, or a lagging node answers.                *)
(***************************************************************************)

\* From the header read first to the last block stored, an initial sync looks at
\* hashes in the first checkReorg only.
Unchecked ==
  /\ ~synced
  /\ pc \in {"check", "range", "fetch", "store", "finish"}

\* What the chain may do there without ReorgUnchecked: grow or, as long as
\* checkReorg is still to compare hashes, become a fork that is no shorter.
Harmless(h) ==
  \/ head \in Anc[h]
  \/ pc = "check" /\ stage = "first" /\ known <= Number[h]

\* h is no lower than genesis and every block that is or will be stored.
Covers(h) == GenBlock <= Number[h] /\ \A b \in db \cup pend : Number[b] <= Number[h]

MoveHead(h) ==
  /\ h # head
  /\ ReorgUnchecked \/ ~Unchecked \/ Harmless(h)
  /\ HeadMayDrop \/ Covers(h)
  /\ head' = h
  /\ UNCHANGED <<dbVars, gerVars, trustVars, synced, last, pc, walkVars,
                 rangeVars, storeVars, faults>>

-----------------------------------------------------------------------------
(***************************************************************************)
(* NewSynchronizer and the first lines of Sync read everything the process *)
(* keeps in memory from the database.                                      *)
(***************************************************************************)
\* The variables of syncBlocks and the functions it calls go out of scope.
Return ==
  /\ stage' = "first" /\ rb' = Placeholder /\ depth' = 0
  /\ known' = 0 /\ from' = 0 /\ to' = 0
  /\ pend' = {} /\ tip' = Placeholder /\ newGer' = FALSE

Init ==
  /\ head \in Block
  /\ db = {} /\ mtCount = 0
  /\ sent = 0 /\ delivered = 0 /\ newGer = FALSE
  /\ trusted = {} /\ tger = 0
  /\ synced = FALSE
  /\ last = Placeholder
  /\ pc = "idle"
  /\ stage = "first" /\ rb = Placeholder /\ depth = 0
  /\ known = 0 /\ from = 0 /\ to = 0
  /\ pend = {} /\ tip = Placeholder
  /\ faults = MaxFaults
  /\ HeadMayDrop \/ Covers(head)

Restart ==
  /\ pc = "down"
  /\ mtCount' \in GetNumberDeposits(db)
  /\ sent' \in IF IsL1 THEN GetLatestExitRoot(db) ELSE {0}
  /\ last' \in GetLastBlock(db)
  /\ synced' = FALSE
  /\ pc' = "idle"
  /\ UNCHANGED <<head, trustVars, db, delivered, newGer, walkVars, rangeVars, storeVars, faults>>

Crash ==
  /\ pc # "down" /\ faults > 0
  /\ faults' = faults - 1
  /\ pc' = "down"
  /\ tger' = 0
  /\ Return
  /\ UNCHANGED <<head, trusted, dbVars, sent, delivered, synced, last>>

\* An RPC call returns an error: syncBlocks gives up.
RpcFails ==
  /\ \/ pc \in {"idle", "check", "fetch"}
     \/ pc = "range" /\ to > known
     \/ pc = "finish" /\ ForceSyncChunk
  /\ faults > 0
  /\ faults' = faults - 1
  /\ pc' = "failed"
  /\ UNCHANGED <<head, trustVars, dbVars, gerVars, synced, last, walkVars, rangeVars, storeVars>>

-----------------------------------------------------------------------------
(***************************************************************************)
(* syncBlocks.                                                             *)
(***************************************************************************)
StartWalk(s, r, d) == stage' = s /\ rb' = r /\ depth' = d

SyncBlocks ==
  /\ pc = "idle"
  /\ known' = Number[head]
  /\ StartWalk("first", last, 0)
  /\ pc' = "check"
  /\ UNCHANGED <<head, trustVars, dbVars, gerVars, synced, last, from, to, storeVars, faults>>

\* A block with hash h was found where checkReorg expects r.
Mismatch(h, r) == h # r.hash /\ r.num > GenBlock

\* The body of checkReorg's loop after a mismatch: the next older row, or the
\* genesis placeholder when there is none.
WalkBack(s, d) ==
  \/ \E r \in GetPreviousBlock(db, d) :
       StartWalk(s, r, d) /\ pc' = "check"
  \/ /\ GetPreviousBlock(db, d) = {}
     /\ StartWalk(s, Placeholder, d) /\ pc' = "reset"

\* Mutant: the range starts one block late.
AfterLast == last.num + 1

\* fromBlock of the first range of an iteration.
FirstFrom == IF synced /\ ~ForceSyncChunk THEN last.num ELSE last.num + 1

\* checkReorg found a block of the canonical chain.  The caller rewinds to it
\* if it is not the block it asked about (line 367: or in any case).
WalkDone ==
  \/ /\ stage = "prev" \/ last.hash # rb.hash
     /\ pc' = "reset"
     /\ UNCHANGED <<from, to>>
  \/ /\ stage = "first" /\ last.hash = rb.hash
     /\ from' = FirstFrom
     /\ to' = FirstFrom + SyncChunkSize
     /\ pc' = "range"
  \/ /\ stage = "second" /\ last.hash = rb.hash
     /\ pc' = "store"
     /\ UNCHANGED <<from, to>>

CheckReorg ==
  /\ pc = "check"
  /\ \/ /\ HeaderByNumber(rb.num) = {}
        /\ pc' = "failed"
        /\ UNCHANGED <<walkVars, from, to>>
     \/ \E b \in HeaderByNumber(rb.num) :
          /\ Mismatch(b, rb)
          /\ WalkBack(stage, depth + 1)
          /\ UNCHANGED <<from, to>>
     \/ \E b \in HeaderByNumber(rb.num) :
          /\ ~Mismatch(b, rb)
          /\ WalkDone
          /\ UNCHANGED walkVars
  /\ UNCHANGED <<head, trustVars, dbVars, gerVars, synced, last, known, storeVars, faults>>

\* resetState: one transaction deletes the blocks above n (their events go with
\* them by ON DELETE CASCADE) and ReorgMT reloads the in-memory tree.
Kept(n) == {b \in db : Number[b] <= n}

\* Mutant: ReorgMT is not called.
ResetWithoutTree(n) == db' = Kept(n) /\ UNCHANGED mtCount

ResetState(n) ==
  /\ db' = Kept(n)
  /\ mtCount' \in GetNumberDeposits(Kept(n))

\* The transaction fails before or after ReorgMT has replaced the tree.
ResetStateFails(n) ==
  /\ DbFaults /\ faults > 0
  /\ faults' = faults - 1
  /\ db' = db
  /\ mtCount' \in {mtCount} \cup GetNumberDeposits(Kept(n))

Reset ==
  /\ pc = "reset"
  /\ \/ /\ ResetState(rb.num)
        /\ last' = rb
        /\ pc' = "after"
        /\ UNCHANGED faults
     \/ /\ ResetStateFails(rb.num)
        /\ pc' = "failed"
        /\ UNCHANGED last
  /\ UNCHANGED <<head, trustVars, gerVars, synced, walkVars, rangeVars, storeVars>>

\* The head is read again when the range reaches past it; a range cut short by
\* the head ends the initial sync.
LastKnown == IF to > known THEN Number[head] ELSE known
Clamped == to > LastKnown
\* Mutant: a range cut short by the head does not go back to the last block.
RangeFromKept == from

RangeFrom == IF Clamped /\ ~synced /\ ~ForceSyncChunk THEN last.num ELSE from

RangeTo == IF Clamped THEN LastKnown ELSE to

ChooseRange ==
  /\ pc = "range"
  /\ known' = LastKnown
  /\ from' = RangeFrom
  /\ to' = RangeTo
  /\ synced' = (synced \/ Clamped)
  /\ pc' = IF RangeFrom > RangeTo THEN "after" ELSE "fetch"
  /\ UNCHANGED <<head, trustVars, dbVars, gerVars, last, walkVars, storeVars, faults>>

\* GetRollupInfoByBlockRange: the blocks of the range with events.
RollupInfo == {b \in Anc[head] : b \in Events /\ from <= Number[b] /\ Number[b] <= to}

TakeBlocks(S) ==
  /\ pend' = S
  /\ tip' \in IF S = {} THEN {last} ELSE {Rec(b) : b \in Highest(S)}
  /\ newGer' = FALSE

\* Initial sync: the blocks are stored as they come.
FetchUnchecked ==
  /\ ~synced
  /\ TakeBlocks(RollupInfo)
  /\ pc' = "store"
  /\ UNCHANGED walkVars

\* Mutant: the last block is not asked for again.
FetchForcedOnce ==
  /\ synced /\ ForceSyncChunk
  /\ TakeBlocks(RollupInfo)
  /\ pc' = "store"
  /\ UNCHANGED walkVars

\* forceSyncChunk: the last block is asked for again after the fetch.
FetchForced ==
  /\ synced /\ ForceSyncChunk
  /\ TakeBlocks(RollupInfo)
  /\ StartWalk("second", last, 0)
  /\ pc' = "check"

\* The range starts at the last block synced: the first block received must be
\* that very block (an empty block stands for a genesis without events).
FetchChecked ==
  /\ synced /\ ~ForceSyncChunk
  /\ LET empty == from = GenBlock /\ ~\E b \in RollupInfo : Number[b] = GenBlock
         first == IF empty THEN {NoHash} ELSE Lowest(RollupInfo)
     IN  \E b \in first :
           \/ /\ ~Mismatch(b, last)
              /\ TakeBlocks(RollupInfo \ {b})
              /\ pc' = "store"
              /\ UNCHANGED walkVars
           \/ /\ Mismatch(b, last)
              /\ WalkBack("second", 1)
              /\ UNCHANGED <<storeVars, newGer>>

\* The last block synced has no events any more: back to the row before it.
FetchNothing ==
  /\ synced /\ ~ForceSyncChunk
  /\ RollupInfo = {} /\ from # GenBlock
  /\ \E r \in (IF GetPreviousBlock(db, 1) = {} THEN {[num |-> 0, hash |-> NoHash]}
               ELSE GetPreviousBlock(db, 1)) : StartWalk("prev", r, 0)
  /\ pc' = "check"
  /\ UNCHANGED <<storeVars, newGer>>

Fetch ==
  /\ pc = "fetch"
  /\ \/ /\ from < GenBlock
        /\ pc' = "failed"
        /\ UNCHANGED <<walkVars, storeVars, newGer>>
     \/ /\ from >= GenBlock
        /\ FetchUnchecked \/ FetchForced \/ FetchChecked \/ FetchNothing
  /\ UNCHANGED <<head, trustVars, dbVars, sent, delivered, synced, last, rangeVars, faults>>

-----------------------------------------------------------------------------
(***************************************************************************)
(* processBlockRange: one transaction per block, oldest first.  addLeaf    *)
(* refuses a deposit whose index is not the count of the in-memory tree,   *)
(* and counts it in memory before the transaction commits.                 *)
(***************************************************************************)
AddLeafOk(b) == HasDeposits(b) => mtCount = FirstDeposit[b]

\* Mutant: the last block of a range decides alone.
LastBlockHasGer(b) == Ger[b] # 0

IsNewGer(b) == newGer \/ Ger[b] # 0

StoreBlock(b) ==
  /\ pc = "store" /\ b \in Lowest(pend)
  /\ AddLeafOk(b)
  /\ db' = db \cup {b}
  /\ mtCount' = IF HasDeposits(b) THEN DepositCount[b] ELSE mtCount
  /\ newGer' = IsNewGer(b)
  /\ pend' = pend \ {b}
  /\ UNCHANGED <<head, trustVars, sent, delivered, synced, last, pc, walkVars, rangeVars,
                 tip, faults>>

\* The transaction of b is rolled back: the deposit does not fit the tree, or a
\* statement or the commit fails after some of the deposits were added to it.
StoreBlockFails(b) ==
  /\ pc = "store" /\ b \in Lowest(pend)
  /\ \/ ~AddLeafOk(b) /\ UNCHANGED <<mtCount, faults>>
     \/ /\ AddLeafOk(b)
        /\ DbFaults /\ faults > 0
        /\ faults' = faults - 1
        /\ mtCount' \in IF HasDeposits(b) THEN FirstDeposit[b]..DepositCount[b] ELSE {mtCount}
  /\ pc' = "failed"
  /\ UNCHANGED <<head, trustVars, db, gerVars, synced, last, walkVars, rangeVars, storeVars>>

Larger(m, n) == IF m < n THEN n ELSE m

\* After the last block of the range the latest exit root goes to the claim
\* managers; the L1 synchronizer skips one whose rollup root it already sent.
Notify ==
  /\ pc = "store" /\ pend = {}
  /\ \/ ~newGer /\ UNCHANGED <<sent, delivered>>
     \/ /\ newGer
        /\ \E r \in GetLatestExitRoot(db) :
             \/ IsL1 /\ sent = r /\ UNCHANGED <<sent, delivered>>
             \/ /\ IsL1 => sent # r
                /\ sent' = IF IsL1 THEN r ELSE sent
                /\ delivered' = Larger(delivered, r)
  /\ newGer' = FALSE
  /\ pc' = "finish"
  /\ UNCHANGED <<head, trustVars, dbVars, synced, last, walkVars, rangeVars, storeVars, faults>>

\* The query for the latest exit root fails.
NotifyFails ==
  /\ pc = "store" /\ pend = {} /\ newGer
  /\ DbFaults /\ faults > 0
  /\ faults' = faults - 1
  /\ pc' = "failed"
  /\ UNCHANGED <<head, trustVars, dbVars, gerVars, synced, last, walkVars, rangeVars, storeVars>>

\* lastBlockSynced after a range: its last block with events or, with
\* forceSyncChunk, the header of toBlock whether it has events or not.
LastOfRange == IF ForceSyncChunk THEN {Rec(b) : b \in HeaderByNumber(to)} ELSE {tip}

\* fromBlock of the next range of an initial or forced sync.
NextFrom == to + 1

\* The end of the loop body of syncBlocks: done at the head, else the next range.
Finish ==
  /\ pc = "finish"
  /\ \/ /\ LastOfRange = {}
        /\ pc' = "failed"
        /\ UNCHANGED <<last, synced, from, to>>
     \/ /\ last' \in LastOfRange
        /\ \/ /\ known <= to
              /\ synced' = TRUE
              /\ pc' = "after"
              /\ UNCHANGED <<from, to>>
           \/ /\ known > to
              /\ ~synced \/ ForceSyncChunk
              /\ from' = NextFrom
              /\ to' = NextFrom + SyncChunkSize
              /\ pc' = "range"
              /\ UNCHANGED synced
           \/ /\ known > to
              /\ synced /\ ~ForceSyncChunk
              /\ from' = last'.num
              /\ to' = to + SyncChunkSize
              /\ pc' = "range"
              /\ UNCHANGED synced
  /\ UNCHANGED <<head, trustVars, dbVars, gerVars, walkVars, known, storeVars, faults>>

-----------------------------------------------------------------------------
(***************************************************************************)
(* Sync: what follows syncBlocks in an iteration.                          *)
(***************************************************************************)

\* syncBlocks returned an error: lastBlockSynced is read from the database.
Reload ==
  /\ pc = "failed"
  /\ last' \in GetLastBlock(db)
  /\ pc' = "after"
  /\ UNCHANGED <<head, trustVars, dbVars, gerVars, synced, walkVars, rangeVars, storeVars, faults>>

\* That query fails too: Sync returns.
ReloadFails ==
  /\ pc = "failed" /\ DbFaults /\ faults > 0
  /\ faults' = faults - 1
  /\ pc' = "stopped"
  /\ UNCHANGED <<head, trustVars, dbVars, gerVars, synced, last, walkVars, rangeVars, storeVars>>

\* While not synced the head is compared with lastBlockSynced: equal is synced;
\* a lower head stops the L1 synchronizer, and an L2 one drops what it stored
\* above the head.  lastBlockSynced is left alone.
After ==
  /\ pc = "after"
  /\ \/ /\ synced
        /\ pc' = IF IsL1 \/ Sovereign THEN "idle" ELSE "trusted"
        /\ UNCHANGED <<synced, dbVars, faults>>
     \/ /\ ~synced /\ last.num <= Number[head]
        /\ synced' = (last.num = Number[head])
        /\ pc' = "idle"
        /\ UNCHANGED <<dbVars, faults>>
     \/ /\ ~synced /\ last.num > Number[head] /\ IsL1
        /\ pc' = "stopped"
        /\ UNCHANGED <<synced, dbVars, faults>>
     \/ /\ ~synced /\ last.num > Number[head] /\ ~IsL1
        /\ \/ ResetState(Number[head]) /\ UNCHANGED faults
           \/ ResetStateFails(Number[head])
        /\ pc' = "idle"
        /\ UNCHANGED synced
  /\ Return
  /\ UNCHANGED <<head, trustVars, sent, delivered, last>>

\* The head cannot be read: the next iteration tries again.
AfterFails ==
  /\ pc = "after" /\ ~synced /\ faults > 0
  /\ faults' = faults - 1
  /\ pc' = "idle"
  /\ Return
  /\ UNCHANGED <<head, trustVars, dbVars, sent, delivered, synced, last>>

\* syncTrustedState: the trusted node reports nothing, fails or reports a root
\* that is stored already; or its root is new, and is stored and then sent.
SyncTrustedState ==
  /\ pc = "trusted"
  /\ \/ pc' = "idle" /\ UNCHANGED trustVars
     \/ \E r \in TrustedRoots \ trusted :
          /\ trusted' = trusted \cup {r}
          /\ tger' = r
          /\ pc' = "send"
  /\ UNCHANGED <<head, dbVars, gerVars, synced, last, walkVars, rangeVars,
                 storeVars, faults>>

SendTrusted ==
  /\ pc = "send"
  /\ delivered' = Larger(delivered, tger)
  /\ tger' = 0
  /\ pc' = "idle"
  /\ UNCHANGED <<head, trusted, dbVars, sent, newGer, synced, last, walkVars,
                 rangeVars, storeVars, faults>>

-----------------------------------------------------------------------------
SyncStep ==
  \/ SyncBlocks \/ CheckReorg \/ Reset \/ ChooseRange \/ Fetch
  \/ \E b \in pend : StoreBlock(b) \/ StoreBlockFails(b)
  \/ Notify \/ NotifyFails \/ Finish
  \/ Reload \/ ReloadFails \/ After \/ AfterFails
  \/ SyncTrustedState \/ SendTrusted

Next ==
  \/ SyncStep
  \/ RpcFails \/ Crash \/ Restart
  \/ \E h \in Block : MoveHead(h)

Spec == Init /\ [][Next]_vars

\* The goroutine of Sync keeps running, and a process that died is started again.
FairSpec == Spec /\ WF_vars(SyncStep) /\ WF_vars(Restart)

-----------------------------------------------------------------------------
\* Types of the synchronizer's state.
TypeOK ==
  /\ head \in Block
  /\ db \subseteq Block /\ mtCount \in Nat
  /\ sent \in Nat /\ delivered \in Nat /\ newGer \in BOOLEAN
  /\ trusted \subseteq TrustedRoots /\ tger \in Nat
  /\ synced \in BOOLEAN
  /\ last \in BlockRec
  /\ pc \in {"idle", "check", "reset", "range", "fetch", "store", "finish",
             "failed", "after", "trusted", "send", "stopped", "down"}
  /\ stage \in {"first", "second", "prev"} /\ rb \in BlockRec /\ depth \in Nat
  /\ known \in Nat /\ from \in Nat /\ to \in Nat
  /\ pend \subseteq Block /\ tip \in BlockRec
  /\ faults \in Nat

\* S is the complete bridge history of one fork.
Whole(S) ==
  /\ \A b \in S : b \in Events /\ Number[b] > GenBlock
  /\ \A b, c \in S : b \in Anc[c] \/ c \in Anc[b]
  /\ \A b \in S : Stored(b) \subseteq S

\* The database is the complete bridge history of one fork: every stored block
\* has events, any two are on the same chain, and no block with events between
\* genesis and a stored block is missing.  This is what lets checkReorg look at
\* the hash of the last block only.
OneFork == Whole(db)

\* Between two iterations lastBlockSynced is the last block stored, or a
\* placeholder without hash when nothing is stored: Sync continues from what the
\* database holds (Sync, line 121).
CursorIsLastStored ==
  pc = "idle" /\ ~ForceSyncChunk =>
    \/ db = {} /\ last.hash = NoHash
    \/ \E b \in Highest(db) : last = Rec(b)

\* The in-memory exit tree has as many leaves as there are deposits stored
\* (MerkleTree.count) whenever no transaction is open.
TreeMatchesDb ==
  pc \notin {"down", "stopped"} => mtCount \in GetNumberDeposits(db)

\* Once the range is finished, the claim managers were told of a root that covers
\* the latest exit root stored (processBlockRange, line 557) and of every root
\* the trusted sync stored.
NoMissedRoot ==
  pc \in {"idle", "finish"} =>
    /\ \A r \in GetLatestExitRoot(db) : r <= delivered
    /\ \A r \in trusted : r <= delivered

\* The database refines the ledger the rest of the service relies on.
Ledger == INSTANCE BridgeLedger WITH ledger <- db

\* Every transaction of the synchronizer appends the next block with events of
\* the stored fork or drops the blocks above a number (processBlockRange and
\* resetState), and nothing else ever changes the stored history.
LedgerSpec == Ledger!Spec

-----------------------------------------------------------------------------
(***************************************************************************)
(* The inductive invariant behind OneFork, for a synchronizer without      *)
(* forceSyncChunk whose chain does not reorganise unchecked and, on an L2, *)
(* does not fall below what is stored.                                     *)
(***************************************************************************)
Guarded == ~ForceSyncChunk /\ ~ReorgUnchecked /\ (IsL1 \/ ~HeadMayDrop)

\* r is the last block of S, or a placeholder when S is empty.
LastOf(r, S) ==
  \/ S = {} /\ r.hash = NoHash /\ r.num <= GenBlock
  \/ r.hash \in Highest(S) /\ r.num = Number[r.hash]

\* checkReorg stands at a stored block or at a placeholder.
WalkInv ==
  pc \in {"check", "reset"} =>
    /\ \/ rb.hash = NoHash /\ rb.num <= GenBlock
       \/ rb.hash \in db /\ rb.num = Number[rb.hash]
    /\ ~synced => (rb.hash = NoHash => rb.num = GenBlock) /\ stage = "first"
    /\ pc = "check" /\ stage = "second" => rb.hash # last.hash

\* lastBlockSynced is the last block stored; a synced range starts there.
CursorInv ==
  /\ pc \in {"idle", "check", "reset", "range", "fetch", "after", "trusted", "send"} =>
       /\ LastOf(last, db)
       /\ ~synced /\ last.hash = NoHash => last.num = GenBlock
  /\ pc \in {"range", "fetch"} /\ synced => from = last.num

\* What an initial sync knows of the canonical chain while nobody checks it.
InitialSyncInv ==
  ~synced =>
    /\ pc \in {"check", "range", "fetch", "store", "finish"} => known <= Number[head]
    /\ pc \in {"range", "fetch"} =>
         /\ GenBlock < from /\ from <= Number[head] + 1
         /\ db = {b \in Stored(head) : Number[b] < from}
    /\ pc = "fetch" => from <= to
    /\ pc \in {"fetch", "store", "finish"} => to <= Number[head]
    /\ pc \in {"store", "finish"} =>
         /\ GenBlock <= to
         /\ db \cup pend = {b \in Stored(head) : Number[b] <= to}

\* The blocks to be stored continue the stored fork.
StoreInv ==
  pc \in {"store", "finish"} =>
    /\ Whole(db \cup pend)
    /\ \A b \in db, c \in pend : Number[b] < Number[c]
    /\ LastOf(tip, db \cup pend)
    /\ ~synced /\ tip.hash = NoHash => tip.num = GenBlock
    /\ pc = "finish" => pend = {}

\* The inductive invariant: each clause is what syncBlocks relies on at the step
\* named by pc, from the header it read first to the last block it stores.
IInv ==
  /\ TypeOK
  /\ Whole(db)
  /\ HeadMayDrop \/ Covers(head)
  /\ WalkInv /\ CursorInv /\ InitialSyncInv /\ StoreInv
=============================================================================
