------------------------- MODULE MCCompressedClaims -------------------------
(***************************************************************************)
(* Instances of CompressedClaims: three deposits, the last with another    *)
(* global exit root.                                                       *)
(***************************************************************************)
EXTENDS CompressedClaims, TLC

CONSTANTS d1, d2, d3

Deposits == {d1, d2, d3}
TwoDeposits == {d1, d3}
Roots == [d \in Deposits |-> IF d = d3 THEN 2 ELSE 1]
TwoRoots == [d \in TwoDeposits |-> IF d = d3 THEN 2 ELSE 1]
SwapEqualRoots == Permutations({d1, d2})
=============================================================================
