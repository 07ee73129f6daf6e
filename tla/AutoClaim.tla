------------------------------ MODULE AutoClaim ------------------------------
(***************************************************************************)
(* The auto claim service (autoclaimservice/autoclaim/autoclaim.go and     *)
(* blockchainmanager/manager.go): on every tick it asks the bridge service *)
(* for the deposits that are ready and not claimed, asks for a proof of    *)
(* each, and claims them on its network, one by one or in groups that one  *)
(* compressed call claims.  Every request is a step of its own: exit roots *)
(* arrive, claims are mined and synchronized between any two of them.      *)
(***************************************************************************)
EXTENDS Integers, Sequences, FiniteSets

CONSTANTS
  Deposit,       \* the deposits whose destination is the network of the service
  Count,         \* deposit_cnt
  Origin,        \* network_id: 0 is L1, the others are rollups
  Receiver,      \* "asset", or the address a message is for
  CoveredBy,     \* the first global exit root that covers each deposit
  Unclaimable,   \* the deposits whose claim reverts, whenever it is made
  AuthorizedClaimMessageAddresses,  \* in the order of the configuration
  MaxNumberOfClaimsPerGroup,
  PageLimit,     \* DefaultPageLimit of the bridge service
  MaxRoot,       \* bound on the global exit roots of L1
  MaxFaults      \* bound on the failures of a behaviour

ASSUME AutoClaimAssumption ==
  /\ IsFiniteSet(Deposit)
  /\ Count \in [Deposit -> Nat] /\ Origin \in [Deposit -> Nat]
  /\ CoveredBy \in [Deposit -> 1..MaxRoot]
  /\ Unclaimable \subseteq Deposit
  /\ AuthorizedClaimMessageAddresses \in Seq(STRING)
  /\ \A i \in DOMAIN AuthorizedClaimMessageAddresses :
       AuthorizedClaimMessageAddresses[i] # "asset"
  /\ {MaxNumberOfClaimsPerGroup, PageLimit} \subseteq Nat \ {0}
  /\ {MaxRoot, MaxFaults} \subseteq Nat

VARIABLES
  grouped,    \* whether a compressor is configured
  l1Root,     \* the last global exit root of L1
  l2Root,     \* the last one that the network of the service has
  pool,       \* the claim transactions that are sent and not mined
  claimed,    \* the deposits claimed on the network
  stored,     \* those whose claim is in sync.claim
  pc,         \* where the service is
  query,      \* how many of the requests for bridges are answered
  bridges, proofs, ger, \* the variables of claimIndividually and claimGrouped
  from,       \* how many bridges are in earlier groups
  pos,        \* how many bridges have been tried
  data,       \* allClaimData
  faults      \* how many failures the behaviour still has

rootVars == <<l1Root, l2Root>>
chainVars == <<pool, claimed, stored>>
listVars == <<query, bridges>>
proofVars == <<proofs, ger>>
groupVars == <<from, pos, data>>
vars == <<grouped, rootVars, chainVars, pc, listVars, proofVars, groupVars, faults>>

-----------------------------------------------------------------------------
(***************************************************************************)
(* The networks and the bridge service.                                    *)
(***************************************************************************)
\* L1 has a new root, with new deposits of L1 and of rollups under it.
NewRoot ==
  /\ l1Root < MaxRoot
  /\ l1Root' = l1Root + 1
  /\ UNCHANGED <<grouped, l2Root, chainVars, pc, listVars, proofVars, groupVars, faults>>

\* The network of the service receives the last root.
TrustedRoot ==
  /\ l2Root < l1Root
  /\ l2Root' = l1Root
  /\ UNCHANGED <<grouped, l1Root, chainVars, pc, listVars, proofVars, groupVars, faults>>

\* GetLatestExitRoot: for a deposit of L1 the last root of its destination, for a
\* deposit of a rollup the last root of L1.
LatestExitRoot(d) == IF Origin[d] = 0 THEN l2Root ELSE l1Root

\* ready_for_claim: the claim manager has seen a root that covers the deposit.
Ready(d) == CoveredBy[d] <= LatestExitRoot(d)

\* A claim of d is in the pool.
Pooled(d) == \E t \in pool : \E c \in t.claims : c.deposit = d

\* The contract accepts a claim once, if it is proved by a root it knows.
Valid(c) == c.deposit \notin Unclaimable \cup claimed /\ c.proof.root <= l2Root

Mine(t) ==
  /\ pool' = pool \ {t}
  /\ claimed' = claimed \cup {c.deposit : c \in {x \in t.claims : Valid(x)}}
  /\ UNCHANGED <<grouped, rootVars, stored, pc, listVars, proofVars, groupVars, faults>>

\* Receivers may claim for themselves.
UserClaims(d) ==
  /\ CoveredBy[d] <= l2Root /\ d \notin Unclaimable \cup claimed
  /\ claimed' = claimed \cup {d}
  /\ UNCHANGED <<grouped, rootVars, pool, stored, pc, listVars, proofVars, groupVars, faults>>

\* The synchronizer of the network stores a claim.
StoreClaim(d) ==
  /\ d \in claimed \ stored
  /\ stored' = stored \cup {d}
  /\ UNCHANGED <<grouped, rootVars, pool, claimed, pc, listVars, proofVars, groupVars, faults>>

-----------------------------------------------------------------------------
(***************************************************************************)
(* getBridgesToClaim                                                       *)
(***************************************************************************)
\* A cycle ends, with or without an error: the next tick starts again.
Return ==
  /\ pc' = "idle" /\ query' = 0 /\ bridges' = << >> /\ proofs' = << >> /\ ger' = 0
  /\ from' = 0 /\ pos' = 0 /\ data' = {}

\* GetPendingDepositsToClaim: a claim on this network hides every deposit with its
\* index, whatever network that one is from.
Listed(d) == Ready(d) /\ \A e \in stored : Count[e] # Count[d]

\* What a request lists.
Matching(receiver) == {d \in Deposit : Receiver[d] = receiver /\ Listed(d)}

\* A page of it in the order of deposit_cnt, which leaves the order of deposits of
\* several networks open.
Pages(D) ==
  {s \in [1..(IF Cardinality(D) < PageLimit THEN Cardinality(D) ELSE PageLimit) -> D] :
     /\ \A i, j \in DOMAIN s : i < j => s[i] # s[j] /\ Count[s[i]] <= Count[s[j]]
     /\ \A d \in D : (\A i \in DOMAIN s : s[i] # d) =>
                        \A i \in DOMAIN s : Count[s[i]] <= Count[d]}

Receivers == <<"asset">> \o AuthorizedClaimMessageAddresses

\* getPendingBridges for assets, then for the messages to each address; then, unless
\* there are none, the proofs.
GetPendingBridges ==
  /\ pc = "idle"
  /\ \E page \in Pages(Matching(Receivers[query + 1])) :
       LET all == bridges \o page
       IN  \/ /\ query + 1 < Len(Receivers)
              /\ query' = query + 1 /\ bridges' = all
              /\ UNCHANGED <<pc, proofVars, groupVars>>
           \/ /\ query + 1 = Len(Receivers) /\ all # << >>
              /\ pc' = "proofs" /\ query' = 0 /\ bridges' = all
              /\ UNCHANGED <<proofVars, groupVars>>
           \/ /\ query + 1 = Len(Receivers) /\ all = << >>
              /\ Return
  /\ UNCHANGED <<grouped, rootVars, chainVars, faults>>

-----------------------------------------------------------------------------
(***************************************************************************)
(* The proofs.  A proof is that of a deposit under a root.                 *)
(***************************************************************************)
Proof(d, root) == [of |-> d, root |-> root]

\* The bridge that is next in line for a proof.
Current == bridges[Len(proofs) + 1]

\* getProof
GetProof ==
  /\ Ready(Current)
  /\ proofs' = Append(proofs, Proof(Current, LatestExitRoot(Current)))

\* Mutant: each proof of a group is taken under the last root.
GetLatestProof == GetProof

\* getProofByGER: the root must cover the deposit.
GetProofByGER ==
  /\ CoveredBy[Current] <= ger
  /\ proofs' = Append(proofs, Proof(Current, ger))

\* claimIndividually asks for each proof under the last root; claimGrouped does so for
\* the first, and for the others under the root of the first.
GetProofs ==
  /\ pc = "proofs" /\ Len(proofs) < Len(bridges)
  /\ \/ /\ ~grouped \/ proofs = << >>
        /\ GetProof
        /\ ger' = IF grouped THEN LatestExitRoot(Current) ELSE ger
        /\ UNCHANGED <<pc, listVars, groupVars>>
     \/ /\ grouped /\ proofs # << >>
        /\ GetProofByGER
        /\ UNCHANGED <<pc, listVars, groupVars, ger>>
     \* One bridge that the root does not cover ends the cycle for all of them.
     \/ /\ grouped /\ proofs # << >> /\ CoveredBy[Current] > ger
        /\ Return
  /\ UNCHANGED <<grouped, rootVars, chainVars, faults>>

ProofsDone ==
  /\ pc = "proofs" /\ Len(proofs) = Len(bridges)
  /\ pc' = IF grouped THEN "estimate" ELSE "claim"
  /\ UNCHANGED <<grouped, rootVars, chainVars, listVars, proofVars, groupVars, faults>>

-----------------------------------------------------------------------------
(***************************************************************************)
(* The claims.                                                             *)
(***************************************************************************)
\* EstimateGasClaim, and the estimate within SendClaim, accept a claim only if it is
\* valid; one that is in the pool may already count as made.
MayRefuse(c) == ~Valid(c) \/ Pooled(c.deposit)

Claim(d, p) == [deposit |-> d, proof |-> p]

\* claimIndividually: a claim that fails is logged, and the next one is sent.
SendClaim ==
  /\ pc = "claim"
  /\ LET c == Claim(bridges[pos + 1], proofs[pos + 1])
     IN  \/ Valid(c) /\ pool' = pool \cup {[root |-> c.proof.root, claims |-> {c}]}
         \/ MayRefuse(c) /\ pool' = pool
  /\ IF pos + 1 = Len(bridges) THEN Return
     ELSE pos' = pos + 1 /\ UNCHANGED <<pc, listVars, proofVars, from, data>>
  /\ UNCHANGED <<grouped, rootVars, claimed, stored, faults>>

\* arraySplitter: the group that follows the first n elements.
Chunk(s, n) ==
  SubSeq(s, n + 1, IF Len(s) - n < MaxNumberOfClaimsPerGroup
                   THEN Len(s) ELSE n + MaxNumberOfClaimsPerGroup)

\* Mutant: a claim that cannot be made ends the cycle.
GiveUp == Return

\* A claim that cannot be made is skipped.
Skip == pos' = pos + 1 /\ UNCHANGED <<pc, listVars, proofVars, from, data>>

\* claimGrouped: the claims of a group that can be made are collected.
Estimate ==
  /\ pc = "estimate" /\ pos - from < Len(Chunk(bridges, from))
  /\ LET i == pos - from + 1
         c == Claim(Chunk(bridges, from)[i], Chunk(proofs, from)[i])
     IN  \/ /\ Valid(c)
            /\ data' = data \cup {c} /\ pos' = pos + 1
            /\ UNCHANGED <<pc, listVars, proofVars, from>>
         \/ MayRefuse(c) /\ Skip
  /\ UNCHANGED <<grouped, rootVars, chainVars, faults>>

\* A group without a claim that can be made ends the cycle; later groups are not
\* looked at.
NothingToSend ==
  /\ pc = "estimate" /\ pos - from = Len(Chunk(bridges, from)) /\ data = {}
  /\ Return
  /\ UNCHANGED <<grouped, rootVars, chainVars, faults>>

\* The next group, if there is one.
NextGroup ==
  IF pos = Len(bridges) THEN Return
  ELSE from' = pos /\ data' = {} /\ UNCHANGED <<pc, listVars, proofVars, pos>>

\* CompressClaimCall and SendCompressedClaims.
SendCompressedClaims ==
  /\ pc = "estimate" /\ pos - from = Len(Chunk(bridges, from)) /\ data # {}
  /\ pool' = pool \cup {[root |-> ger, claims |-> data]}
  /\ NextGroup
  /\ UNCHANGED <<grouped, rootVars, claimed, stored, faults>>

-----------------------------------------------------------------------------
(***************************************************************************)
(* Failures.                                                               *)
(***************************************************************************)
Fault == faults > 0 /\ faults' = faults - 1

\* A request for bridges or for a proof, or the send of a group, returns an error, or
\* the process dies: the cycle is over, what was sent is not undone.
CycleFails ==
  /\ pc # "idle" \/ query > 0
  /\ Fault /\ Return
  /\ UNCHANGED <<grouped, rootVars, chainVars>>

\* The node does not answer to the estimate of a claim.
EstimateFails ==
  /\ pc = "estimate" /\ pos - from < Len(Chunk(bridges, from))
  /\ Fault /\ Skip
  /\ UNCHANGED <<grouped, rootVars, chainVars>>

\* ... or to a claim that is sent alone.
SendClaimFails ==
  /\ pc = "claim" /\ pos + 1 < Len(bridges)
  /\ Fault /\ Skip
  /\ UNCHANGED <<grouped, rootVars, chainVars>>

\* The error of CompressClaimCall is dropped, and a call without claims is sent.
CompressFails ==
  /\ pc = "estimate" /\ pos - from = Len(Chunk(bridges, from)) /\ data # {}
  /\ Fault
  /\ pool' = pool \cup {[root |-> ger, claims |-> {}]}
  /\ NextGroup
  /\ UNCHANGED <<grouped, rootVars, claimed, stored>>

\* A transaction is dropped from the pool.
Drop(t) ==
  /\ Fault
  /\ pool' = pool \ {t}
  /\ UNCHANGED <<grouped, rootVars, claimed, stored, pc, listVars, proofVars, groupVars>>

-----------------------------------------------------------------------------
Init ==
  /\ grouped \in BOOLEAN
  /\ l1Root = 0 /\ l2Root = 0
  /\ pool = {} /\ claimed = {} /\ stored = {}
  /\ pc = "idle" /\ query = 0 /\ bridges = << >> /\ proofs = << >> /\ ger = 0
  /\ from = 0 /\ pos = 0 /\ data = {}
  /\ faults = MaxFaults

Start ==
  \/ GetPendingBridges \/ GetProofs \/ ProofsDone
  \/ SendClaim \/ Estimate \/ NothingToSend \/ SendCompressedClaims

Next ==
  \/ Start
  \/ NewRoot \/ TrustedRoot
  \/ \E t \in pool : Mine(t) \/ Drop(t)
  \/ \E d \in Deposit : UserClaims(d) \/ StoreClaim(d)
  \/ CycleFails \/ EstimateFails \/ SendClaimFails \/ CompressFails

Spec == Init /\ [][Next]_vars

\* The ticker keeps firing and every request is answered or fails; roots reach the
\* network, what is sent is mined or dropped, claims are synchronized.
FairSpec ==
  /\ Spec
  /\ WF_vars(Start) /\ WF_vars(TrustedRoot)
  /\ WF_vars(\E t \in pool : Mine(t))
  /\ WF_vars(\E d \in Deposit : StoreClaim(d))

-----------------------------------------------------------------------------
Claims == [deposit : Deposit, proof : [of : Deposit, root : 0..MaxRoot]]

\* Types of the service's state.
TypeOK ==
  /\ grouped \in BOOLEAN
  /\ l1Root \in 0..MaxRoot /\ l2Root \in 0..l1Root
  /\ bridges \in Seq(Deposit)
  /\ proofs \in Seq([of : Deposit, root : 0..MaxRoot])
  /\ ger \in 0..MaxRoot
  /\ from \in Nat /\ pos \in Nat /\ from <= pos /\ pos <= Len(bridges)
  /\ pc \in {"idle", "proofs", "claim", "estimate"}

\* Every claim that is sent has the proof of its own deposit, under the one root that
\* the transaction names, and the network of the service has that root: whatever roots
\* arrive while the proofs are collected and the claims are split into groups.
ProvenByItsRoot ==
  \A t \in pool : \A c \in t.claims :
    /\ c.proof = Proof(c.deposit, t.root)
    /\ CoveredBy[c.deposit] <= t.root /\ t.root <= l2Root

\* A deposit that a claim of another network's deposit hides.
Hidden(d) == \E e \in stored : e # d /\ Count[e] = Count[d]

\* The place of a receiver among the requests of a cycle.
Place(r) == CHOOSE i \in DOMAIN Receivers : Receivers[i] = r

\* u may be in front of d among the bridges of a cycle.
InFront(u, d) ==
  \/ Place(Receiver[u]) < Place(Receiver[d])
  \/ Receiver[u] = Receiver[d] /\ Count[u] <= Count[d]

\* Deposits in front of d whose claims revert fill its page or, when claims are grouped, a group.
Crowded(d) ==
  LET stuck == {u \in Unclaimable : Listed(u) /\ InFront(u, d)}
  IN  \/ Cardinality({u \in stuck : Receiver[u] = Receiver[d]}) >= PageLimit
      \/ grouped /\ Cardinality(stuck) >= MaxNumberOfClaimsPerGroup

\* Every deposit that the service is to claim is claimed in the end, unless the claim of
\* another deposit with its index hides it, or deposits that cannot be claimed fill the page
\* or a group in front of it.  Fewer of those do not hold up the others.
EverythingClaimed ==
  []<>(\A d \in Deposit \ Unclaimable :
         CoveredBy[d] <= l1Root /\ (\E i \in DOMAIN Receivers : Receivers[i] = Receiver[d])
           => d \in claimed \/ Hidden(d) \/ Crowded(d))
=============================================================================
