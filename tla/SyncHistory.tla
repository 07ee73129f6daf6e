---------------------------- MODULE SyncHistory ----------------------------
(***************************************************************************)
(* Synchronizer with the history that tells a needless rewind from a       *)
(* necessary one, a root whose announcement was cut off from one that was  *)
(* forgotten, and a tree that a failure left behind from a wrong one.      *)
(***************************************************************************)
EXTENDS Synchronizer

VARIABLES
  gone,  \* the stored blocks that left the canonical chain since they were stored
  cut,   \* a failure or crash came between the commit and the announcement of a root
  torn,  \* a transaction that was rolled back has changed the in-memory tree, and no
         \* restart or rewind has loaded it again since
  asked, \* with forceSyncChunk: the chain that the range at hand was fetched from
  stray  \* lastBlockSynced was moved, or rows were stored, on another chain than that

history == <<gone, cut, torn, asked, stray>>
allVars == <<vars, history>>

\* The process died or a statement failed before the claim managers were told of a root
\* that is committed.
CutOff ==
  \/ pc = "store" /\ newGer /\ pc' \in {"down", "failed"}
  \/ pc = "send" /\ pc' = "down"

\* The tree is loaded from the database.
Reloaded == (pc = "down" /\ pc' = "idle") \/ ~(db \subseteq db')

\* With forceSyncChunk nothing ties three answers of the node together: the chain had
\* turned away from lastBlockSynced when the range was fetched and was back when the second
\* check was made; or the header of toBlock, read after the range was stored, is not of the
\* chain that the range was fetched from (which may not have reached toBlock).
Strays ==
  /\ ForceSyncChunk
  /\ \/ pc = "check" /\ pc' = "store" /\ last.hash \in Block \ asked
     \/ pc = "finish" /\ pc' \in {"range", "after"} /\ last'.hash \notin asked

Record ==
  /\ gone' = {b \in db' : b \in gone \/ b \notin Anc[head']}
  /\ cut' = (cut \/ CutOff)
  /\ torn' = ((torn /\ ~Reloaded) \/ (faults' # faults /\ mtCount' # mtCount))
  /\ asked' = IF ForceSyncChunk /\ pc = "fetch" THEN Anc[head]
              ELSE IF pc' \in {"check", "store", "finish"} THEN asked ELSE {}
  /\ stray' = (stray \/ Strays)

HInit == Init /\ gone = {} /\ cut = FALSE /\ torn = FALSE
         /\ asked = {} /\ stray = FALSE
HNext == Next /\ Record
HSpec == HInit /\ [][HNext]_allVars

\* The goroutine of Sync keeps running, and a process that died is started again.
HFairSpec == HSpec /\ WF_vars(SyncStep) /\ WF_vars(Restart)

-----------------------------------------------------------------------------
\* A rewind (checkReorg and resetState, or the empty answer of line 354) deletes
\* only blocks that really left the canonical chain: the last block that still
\* matches, and everything below it, is kept.
NoNeedlessRewind == [][\A b \in db \ db' : b \in gone]_allVars

\* A range is not finished before the claim managers know of its latest exit root
\* (processBlockRange, line 557), unless the process died or a statement failed after the
\* commit of a block with a root: the next iteration starts after that block, and the
\* next process reads its root back as known (l1RollupExitRoot).
AnnouncedUnlessCut == ~cut => NoMissedRoot

\* The in-memory tree has as many leaves as there are deposits stored, through every
\* reorganisation, crash and failure, unless a transaction was rolled back after addLeaf
\* or ReorgMT had changed the tree.
TreeUnlessTorn == ~torn => TreeMatchesDb

\* If the head stays where the chain is longest, the database ends up holding exactly
\* the bridge history of that head, whatever failed before, unless the tree stays out of
\* step with the database, which refuses every deposit, or Sync has returned.
Recovers ==
  \A h \in Block :
    (\A b \in Block : Number[b] <= Number[h]) =>
      (<>[](head = h) => <>[](db = Stored(h) \/ torn \/ pc = "stopped"))

\* The database is the complete bridge history of one fork also when ranges are fetched
\* with forceSyncChunk, where lastBlockSynced need not be a row: whenever the chain turns,
\* one of the two calls of checkReorg sees it (lines 274 and 380), unless the header of
\* toBlock (line 409) went past blocks that the range did not have.
OneForkUnlessStray == ~stray => OneFork

\* With the same exception, if the head stays where the chain is longest, the database
\* ends up holding exactly the bridge history of that head.
CatchesUp ==
  \A h \in Block :
    (\A b \in Block : Number[b] <= Number[h]) =>
      (<>[](head = h) => <>[](db = Stored(h) \/ stray))
-----------------------------------------------------------------------------
(***************************************************************************)
(* The inductive invariants behind these properties.                       *)
(***************************************************************************)
TreeInv == mtCount \in GetNumberDeposits(db)

\* What the claim managers were told, while no announcement was cut off: only a range
\* that is being stored, and a trusted root about to be sent, are ahead of it.
AnnounceInv ==
  /\ sent <= delivered
  /\ \A b \in db : Ger[b] > delivered => pc = "store" /\ newGer
  /\ \A r \in trusted : r <= delivered \/ (pc = "send" /\ r = tger)

Above(n) == {c \in db : Number[c] > n}

\* The row checkReorg stands at is the one at offset depth (the walk of line 354 starts
\* at offset 1), and every row above it has left the chain.
RewindInv ==
  /\ IsFiniteSet(db)
  /\ \A b \in db : b \notin Anc[head] => b \in gone
  /\ pc = "fetch" => from <= to
  /\ pc \in {"check", "reset"} => Above(rb.num) \subseteq gone
  /\ pc = "check" /\ rb.hash \in db =>
       \/ Cardinality(Above(rb.num)) = depth
       \/ stage = "prev" /\ depth = 0 /\ Cardinality(Above(rb.num)) = 1

\* The inductive invariant: besides the one of OneFork, a tree that is not torn counts
\* the stored deposits, roots that were not cut off are announced, and a walk of
\* checkReorg leaves only blocks behind that the chain has dropped.
HInv ==
  /\ IInv
  /\ ~torn => TreeInv
  /\ ~cut => AnnounceInv
  /\ RewindInv
=============================================================================
