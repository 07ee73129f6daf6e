----------------------------- MODULE MCAutoClaim -----------------------------
(***************************************************************************)
(* An instance of AutoClaim: deposits a and x of two networks with one     *)
(* index, a deposit u that cannot be claimed, and the messages v and m to  *)
(* an authorized address, of which v cannot be claimed: once root 2 has    *)
(* come, u and v are a whole group in front of m, and of no other deposit. *)
(***************************************************************************)
EXTENDS AutoClaim, TLC

CONSTANTS a, x, u, m, v

Deposits == {a, x, u, m, v}
Counts == (a :> 0) @@ (x :> 0) @@ (u :> 1) @@ (v :> 2) @@ (m :> 3)
Origins == [d \in Deposits |-> IF d = x THEN 2 ELSE 0]
AddressOf == [d \in Deposits |-> IF d \in {m, v} THEN "r" ELSE "asset"]
FirstRoots == [d \in Deposits |-> IF d \in {x, v} THEN 2 ELSE 1]
Reverting == {u, v}
Addresses == <<"r">>
=============================================================================
