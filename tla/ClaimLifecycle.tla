--------------------------- MODULE ClaimLifecycle ---------------------------
(***************************************************************************)
(* What the claim transaction manager promises about the row a deposit has *)
(* in sync.monitored_txs: it is added once, is worked on while "created",  *)
(* and ends, for good, as "confirmed" or "failed"; a row is confirmed only *)
(* when the chain shows that its claim went through.  What shows it is the *)
(* claim itself for individual claims, and for a group no more than the    *)
(* receipt of the call that carries the claim.                             *)
(***************************************************************************)
CONSTANT Deposit

VARIABLES
  row,    \* row[d]: status of the monitored transaction of d, or "none"
  claims  \* the deposits whose claim the chain shows

Init == row = [d \in Deposit |-> "none"] /\ claims = {}

Add(d) ==
  /\ row[d] = "none"
  /\ row' = [row EXCEPT ![d] = "created"]
  /\ UNCHANGED claims

\* A transaction of the manager, or of anybody else, is mined.
Claim(S) == claims' = claims \cup S /\ UNCHANGED row

\* One transaction may settle a whole group of rows.
Settle(ok, bad) ==
  /\ ok \cap bad = {}
  /\ \A d \in ok \cup bad : row[d] = "created"
  /\ ok \subseteq claims
  /\ row' = [d \in Deposit |-> IF d \in ok THEN "confirmed"
                               ELSE IF d \in bad THEN "failed" ELSE row[d]]
  /\ UNCHANGED claims

Next ==
  \/ \E d \in Deposit : Add(d)
  \/ \E S \in SUBSET Deposit : Claim(S)
  \/ \E ok, bad \in SUBSET Deposit : Settle(ok, bad)

Spec == Init /\ [][Next]_<<row, claims>>
=============================================================================
