---------------------------- MODULE BridgeLedger ----------------------------
(***************************************************************************)
(* What a synchronizer promises to the rest of the service: a ledger of    *)
(* the blocks with bridge events that is, at any time, the complete        *)
(* history of some block.  It changes in two ways only: the next block     *)
(* with events of the same fork is appended, or the blocks above some      *)
(* block number are dropped.  Readers of the database (the claim           *)
(* managers, the API server) rely on nothing else.                         *)
(***************************************************************************)
EXTENDS Integers

CONSTANTS Block, Number, Anc, Events, GenBlock

VARIABLE ledger

History(b) == {c \in Anc[b] : c \in Events /\ Number[c] > GenBlock}

Init == ledger = {}

Append(b) ==
  /\ b \in Events /\ Number[b] > GenBlock
  /\ b \notin ledger
  /\ ledger' = ledger \cup {b}
  /\ ledger' = History(b)

Rewind(n) == ledger' = {b \in ledger : Number[b] <= n}

Next ==
  \/ \E b \in Block : Append(b)
  \/ \E n \in {0, GenBlock} \cup {Number[b] : b \in Block} : Rewind(n)

Spec == Init /\ [][Next]_ledger
=============================================================================
