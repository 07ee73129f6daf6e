---------------------------- MODULE MCPushTasks ----------------------------
(***************************************************************************)
(* The instance of PushTasks for TLC.  The deposits of L1 are of one       *)
(* transaction, in the first block, and L1 is reorganised once.  The       *)
(* second batch of L2 is empty.                                            *)
(***************************************************************************)
EXTENDS PushTasks, TLC

MCL1Deposit == {11, 12}
MCL2Deposit == {1, 2}
MCBlockOf == 11 :> 1 @@ 12 :> 1 @@ 1 :> 1 @@ 2 :> 2
MCTxOf == 11 :> 1 @@ 12 :> 1
MCMaxReorgs == [t \in Task |-> IF t = "l1" THEN 1 ELSE 0]
MCBatchEnd == 0 :> 0 @@ 1 :> 1 @@ 2 :> 0 @@ 3 :> 2
=============================================================================
