---------------------------- MODULE MCExitRoots ----------------------------
(***************************************************************************)
(* An instance of ExitRoots, with what happened before: the ways in which  *)
(* the exchange between the synchronizers goes wrong, and the deposits     *)
(* that missed the roots that would have made them ready.                  *)
(***************************************************************************)
EXTENDS ExitRoots

VARIABLES past, missed

MCvars == <<vars, past, missed>>

\* The transactions of the two synchronizers were open at the same time.
Overlap == l1Tx' # <<>> /\ l2Pc' = "store"
\* A root was removed while a goroutine still had one of L2 to process.
Late == removals' > removals /\ \E e \in events : ~e.l1
\* A root was removed when the one before it had been removed already.
Stacked ==
  \E i \in DOMAIN gers :
    i > 1 /\ gers[i].allowed /\ ~gers'[i].allowed /\ ~gers[i - 1].allowed

Happened ==
  (IF Overlap THEN {"overlap"} ELSE {}) \cup (IF Late THEN {"late"} ELSE {})
  \cup (IF Stacked THEN {"stacked"} ELSE {})

\* The deposits of the latest root of L2, which was not announced as L1 did not have it.
Unannounced ==
  IF l2Pc = "announce" /\ l2Pc' = "idle" /\ ~Usable(LatestTrusted) /\ LatestTrusted > 0
  THEN {0} \X (1..Len(gers[LatestTrusted].ger.main)) ELSE {}
\* The deposits of the roots that the manager has taken, which a lost one leaves unmarked.
Taken ==
  UNION {IF e.l1 THEN {Synced} \X CoveredL2(e.ger) ELSE {0} \X CoveredL1(e.ger) :
           e \in events \ events'}

MCInit == Init /\ past = {} /\ missed = {}
MCNext ==
  /\ Next
  /\ past' = past \cup Happened
  /\ missed' = (missed \cup Unannounced \cup Taken) \ ready'
MCSpec == MCInit /\ [][MCNext]_MCvars /\ Fairness

-----------------------------------------------------------------------------
\* The leaves of the rollup tree are those of the blocks that are stored, and every
\* root that L1 had can be looked up, also after a reorganisation deleted rows, of which
\* none is left over (addRollupExitLeaf, storeLeaves, GetLatestRollupExitLeaves, Reset).
LeavesFollowL1 ==
  /\ TypeOK
  /\ BuildMTRoot(LatestLeaves(exits)) = RollupExitRoot(Exits(synced))
  /\ \A n \in 1..synced : \A r \in Rollup :
       Exits(n)[r] > 0 =>
         LeavesByRoot(exits, RollupExitRoot(Exits(n)))[r] = LocalExitRoot(r, Exits(n)[r])

\* A row of L2 is incomplete only while L1 does not have its roots, whichever of the
\* two comes first, unless the two transactions overlapped (processGlobalExitRoot).
RowsCompleted ==
  \A i \in DOMAIN gers :
    gers[i].allowed /\ ~gers[i].full /\ IsL1Ger(gers[i].ger) => "overlap" \in past

\* An L1 deposit is ready only while L2 has a root that covers it: a removal takes the
\* flag back, unless a goroutine sets it again later, or the root before had been
\* removed too: its deposits, which a later root made ready again, then keep their
\* flags (AddRemoveL2GER).
ReadyCovered ==
  \A d \in 1..Len(MainnetDeposits(synced)) :
    <<0, d>> \in ready =>
      \/ {"late", "stacked"} \cap past # {}
      \/ \E i \in DOMAIN gers : /\ gers[i].allowed
                                /\ Starts(SubSeq(MainnetDeposits(synced), 1, d), gers[i].ger.main)

\* A deposit that is ready gets a proof that leads from it to the root it comes with,
\* wherever the two synchronizers are and whatever was removed on L2, or an error as
\* L1 is behind L2; unless a flag outlived its root, or L1 was reorganised
\* (GetClaimProof).
ProofsGood ==
  reorgs = 0 /\ {"late", "stacked"} \cap past = {} =>
    \A d \in ready : Proof(d) \in {"good", "unsynced"}

-----------------------------------------------------------------------------
\* A deposit that a root of L2 covers is ready in the end, unless every root that covers
\* it was lost on the way or not announced: one that arrives makes up for those before it.
\* Removals and reorganisations take flags back (processBlockRange, processDepositStatus).
DepositsBecomeReady ==
  \A d \in 1..MaxBlocks :
    <>[](\/ ~ \E i \in DOMAIN gers : gers[i].allowed /\ d <= Len(gers[i].ger.main)
         \/ <<0, d>> \in ready \cup missed \/ reorgs > 0 \/ removals > 0)

\* A deposit of L2 whose batch L1 has verified is ready in the end, whichever synchronizer
\* is ahead of the other, unless every rollup root that covers it was lost on the way to
\* the manager or L1 was reorganised (processVerifyBatch, processDepositStatus).
ExitsBecomeReady ==
  \A k \in 1..L2Deposits :
    <>[](\/ Exits(MaxBlocks)[Synced] < k \/ <<Synced, k>> \in ready \cup missed
         \/ reorgs > 0 \/ l2Pc = "refused")
=============================================================================
