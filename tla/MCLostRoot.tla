----------------------------- MODULE MCLostRoot -----------------------------
(***************************************************************************)
(* ClaimManager without grouping, with the history that tells a root which *)
(* was received before both networks were synced, and is dropped, from one *)
(* that was received to be processed.                                      *)
(***************************************************************************)
EXTENDS MCClaimManager

\* The last root that the trusted sync sent to a manager that had both networks
\* synced.
VARIABLE heard

MCInit == Init /\ ~grouping /\ heard = [n \in Network |-> 0]
MCNext ==
  /\ Next
  /\ heard' = [n \in Network |-> IF BothSynced(n) /\ l2Seen'[n] # l2Seen[n]
                                 THEN l2Seen'[n] ELSE heard[n]]
\* Goroutines get to run, and the tickers of the process keep firing.
MCFairSpec == MCInit /\ [][MCNext]_<<vars, heard>> /\ WF_vars(ManagerStep)

\* An L1 deposit is claimed automatically once its manager, with both networks
\* synced, has received a root of its destination that covers it: it gets a row,
\* unless the manager decides not to claim it or cannot estimate its gas
\* (docs/e2e-realnetwork-test.md, line 4: an L1 to L2 transfer expects auto-claim).
AutoClaimed ==
  \A d \in {e \in L1Deposit : Dest[e] \in Network} :
    d <= Mainnet[heard[Dest[d]]] ~> d \in rows \cup ignored \cup dropped \cup claimed
=============================================================================
