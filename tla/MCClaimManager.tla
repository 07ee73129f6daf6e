--------------------------- MODULE MCClaimManager ---------------------------
(***************************************************************************)
(* Instances of ClaimManager: one L2 with two deposits in each direction,  *)
(* and an L1 deposit for a network that the process does not serve; the    *)
(* roots are a first deposit on L1 and in a verified batch, one with       *)
(* nothing new, and all deposits.                                          *)
(***************************************************************************)
EXTENDS ClaimManager

CONSTANTS n1, elsewhere

MCDest == <<n1, elsewhere, n1>>
MCMainnet == [r \in 0..3 |-> IF r = 3 THEN 3 ELSE IF r > 0 THEN 1 ELSE 0]
MCRollup == [r \in 0..3 |-> [n \in {n1} |-> (r + 1) \div 2]]
=============================================================================
