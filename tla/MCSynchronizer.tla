-------------------------- MODULE MCSynchronizer --------------------------
(***************************************************************************)
(* A small block tree for Synchronizer.                                    *)
(*                                                                         *)
(*   g0 - g1 - a2 - a3 - a4 - a5                                           *)
(*         \    \-- c3                                                     *)
(*          \- b2 - b3 - b4 - b5                                           *)
(*                                                                         *)
(* a2: a deposit.  a4: a deposit and root 2.  c3: two deposits and root 1. *)
(* b2: a deposit and root 1.  b4: two deposits and root 2.  b5: a claim.   *)
(* g1: the bridge is initialised.  a3, a5 and b3 have no events.           *)
(***************************************************************************)
EXTENDS SyncHistory, FiniteSetsExt

Parent == [g0 |-> "g0", g1 |-> "g0",
           a2 |-> "g1", a3 |-> "a2", a4 |-> "a3", a5 |-> "a4",
           b2 |-> "g1", b3 |-> "b2", b4 |-> "b3", b5 |-> "b4",
           c3 |-> "a2"]
MCBlock == DOMAIN Parent
MCNumber == [g0 |-> 0, g1 |-> 1, a2 |-> 2, a3 |-> 3, a4 |-> 4, a5 |-> 5,
             b2 |-> 2, b3 |-> 3, b4 |-> 4, b5 |-> 5, c3 |-> 3]
Up(S) == S \cup {Parent[b] : b \in S}
MCAnc == [b \in MCBlock |-> Up(Up(Up(Up(Up({b})))))]
MCEvents == {"g1", "a2", "a4", "b2", "b4", "b5", "c3"}
NewDeposits == [b \in MCBlock |-> CASE b \in {"a2", "a4", "b2"} -> 1
                                    [] b \in {"b4", "c3"} -> 2
                                    [] OTHER -> 0]
DepositsUpTo(b) == MapThenSumSet(LAMBDA c : NewDeposits[c], MCAnc[b])
MCDepositCount == [b \in MCBlock |-> DepositsUpTo(b)]
MCFirstDeposit == [b \in MCBlock |-> DepositsUpTo(b) - NewDeposits[b]]
MCGer == [b \in MCBlock |-> CASE b \in {"b2", "c3"} -> 1
                              [] b \in {"a4", "b4"} -> 2
                              [] OTHER -> 0]

\* The same tree without a5, b5 and c3, for the L2: three answers of a node are compared there.
L2Block == MCBlock \ {"a5", "b5", "c3"}
L2Number == [b \in L2Block |-> MCNumber[b]]
L2Anc == [b \in L2Block |-> MCAnc[b]]
L2Events == MCEvents \cap L2Block
L2FirstDeposit == [b \in L2Block |-> MCFirstDeposit[b]]
L2DepositCount == [b \in L2Block |-> MCDepositCount[b]]
L2Ger == [b \in L2Block |-> MCGer[b]]
=============================================================================
