--------------------------- MODULE MCDepositTree ---------------------------
(***************************************************************************)
(* An instance of DepositTree: two forks of at most seven deposits.        *)
(***************************************************************************)
EXTENDS DepositTree, TLC

CONSTANTS c1, c2

MCContent == {c1, c2}
Swap == Permutations(MCContent)
=============================================================================
