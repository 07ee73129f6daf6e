-------------------------- MODULE AutoClaimProofs --------------------------
(***************************************************************************)
(* What the auto claim service sends is proved by the root it is sent      *)
(* with: for any deposits, roots, group and page sizes and failures.       *)
(***************************************************************************)
EXTENDS AutoClaim, FiniteSetTheorems, TLAPS

\* The variables of a cycle have their types, and the lists are as long as the place
\* in the cycle says.
CycleInv ==
  /\ TypeOK
  /\ Len(proofs) <= Len(bridges)
  /\ pc = "idle" => proofs = << >>
  /\ pc \in {"idle", "proofs"} => from = 0 /\ pos = 0
  /\ pc = "proofs" => bridges # << >>
  /\ pc \in {"claim", "estimate"} => Len(proofs) = Len(bridges)
  /\ pc = "claim" => ~grouped /\ pos < Len(bridges)
  /\ pc = "estimate" => grouped /\ from < Len(bridges)

\* Each proof is that of the bridge at its place, under a root that covers it, and in
\* grouped mode under the root of the first.
PairInv ==
  \A i \in 1..Len(proofs) :
    /\ proofs[i].of = bridges[i]
    /\ CoveredBy[bridges[i]] <= proofs[i].root
    /\ grouped => proofs[i].root = ger

\* A claim that is sent, or waits to be sent, with root r.
Proven(c, r) ==
  /\ c \in Claims
  /\ c.proof = Proof(c.deposit, r)
  /\ CoveredBy[c.deposit] <= r /\ r <= l2Root

\* The claims that are collected, and those that are sent.
ClaimInv ==
  /\ data # {} => pc = "estimate"
  /\ \A c \in data : Proven(c, ger)
  /\ \A t \in pool : t.root \in 0..MaxRoot /\ \A c \in t.claims : Proven(c, t.root)

AInv == CycleInv /\ PairInv /\ ClaimInv

-----------------------------------------------------------------------------
\* The roots have natural numbers.
LEMMA RootBound == MaxRoot \in Nat
  BY Zenon, AutoClaimAssumption

\* What a sequence over S has at a place is in S.
LEMMA InSeq ==
  ASSUME NEW S, NEW s \in Seq(S), NEW n \in 1..Len(s)
  PROVE  s[n] \in S
  OBVIOUS

\* A page of the answer of the bridge service is a sequence of deposits.
LEMMA PageIsSeq ==
  ASSUME NEW D \in SUBSET Deposit, NEW s \in Pages(D)
  PROVE  s \in Seq(Deposit)
<1>1. IsFiniteSet(D)
  BY Zenon, AutoClaimAssumption, FS_Subset
<1>2. Cardinality(D) \in Nat
  BY Zenon, <1>1, FS_CardinalityType
<1>3. PICK n \in Nat : s \in [1..n -> D]
  BY Zenon, <1>2, AutoClaimAssumption DEF Pages
<1> QED
  BY <1>3

\* The elements of a group are those that follow the earlier groups.
LEMMA ChunkElement ==
  ASSUME NEW S, NEW s \in Seq(S), NEW n \in Nat, n < Len(s),
         NEW i \in 1..Len(Chunk(s, n))
  PROVE  /\ Chunk(s, n)[i] = s[n + i]
         /\ n + i \in 1..Len(s)
<1>1. MaxNumberOfClaimsPerGroup \in Nat /\ MaxNumberOfClaimsPerGroup > 0
  BY AutoClaimAssumption
<1> QED
  BY <1>1 DEF Chunk

\* A group ends within the list, and is not empty.
LEMMA ChunkLength ==
  ASSUME NEW S, NEW s \in Seq(S), NEW n \in Nat, n < Len(s)
  PROVE  Len(Chunk(s, n)) \in 1..(Len(s) - n)
<1>1. MaxNumberOfClaimsPerGroup \in Nat /\ MaxNumberOfClaimsPerGroup > 0
  BY AutoClaimAssumption
<1> QED
  BY <1>1 DEF Chunk

\* Two lists of one length have groups of one length.
LEMMA SameLength ==
  ASSUME NEW S, NEW s \in Seq(S), NEW T, NEW t \in Seq(T), Len(s) = Len(t),
         NEW n \in Nat, n < Len(s)
  PROVE  Len(Chunk(s, n)) = Len(Chunk(t, n))
<1>1. MaxNumberOfClaimsPerGroup \in Nat /\ MaxNumberOfClaimsPerGroup > 0
  BY AutoClaimAssumption
<1> QED
  BY <1>1 DEF Chunk

-----------------------------------------------------------------------------
\* The end of a cycle.
LEMMA ReturnStep ==
  ASSUME AInv, Return, UNCHANGED <<grouped, rootVars>>,
         \A t \in pool' : t.root \in 0..MaxRoot /\ \A c \in t.claims : Proven(c, t.root)
  PROVE  AInv'
<1>1. CycleInv'
  BY RootBound DEF AInv, CycleInv, TypeOK, Return, rootVars
<1>2. PairInv'
  BY DEF Return, PairInv
<1>3. ClaimInv'
  BY Zenon DEF ClaimInv, Return, Proven, rootVars, Claims, Proof
<1> QED
  BY Zenon, <1>1, <1>2, <1>3 DEF AInv

\* The networks: nothing of the cycle changes, and roots only grow.
LEMMA NetworkStep ==
  ASSUME AInv, UNCHANGED <<grouped, pc, listVars, proofVars, groupVars>>,
         l1Root' \in 0..MaxRoot, l2Root' \in 0..l1Root', l2Root <= l2Root',
         pool' \subseteq pool
  PROVE  AInv'
<1>1. CycleInv'
  BY Zenon DEF AInv, CycleInv, TypeOK, listVars, proofVars, groupVars
<1>2. PairInv'
  BY Zenon DEF AInv, PairInv, listVars, proofVars
<1>3. ClaimInv'
  <2>1. \A c, r : r \in 0..MaxRoot /\ Proven(c, r) => Proven(c, r)'
    BY AutoClaimAssumption DEF Proven, AInv, CycleInv, TypeOK, Claims, Proof
  <2> QED
    BY Zenon, <2>1 DEF AInv, ClaimInv, CycleInv, TypeOK, proofVars, groupVars
<1> QED
  BY Zenon, <1>1, <1>2, <1>3 DEF AInv

\* getPendingBridges
LEMMA BridgesStep ==
  ASSUME AInv, GetPendingBridges
  PROVE  AInv'
<1>1. PICK page \in Pages(Matching(Receivers[query + 1])) :
        \/ Return
        \/ /\ bridges' = bridges \o page
           /\ pc' = pc \/ (pc' = "proofs" /\ bridges' # << >>)
           /\ UNCHANGED <<proofVars, groupVars>>
  BY Zenon DEF GetPendingBridges
<1>2. page \in Seq(Deposit)
  BY Zenon, PageIsSeq DEF Matching
<1>3. pc = "idle" /\ UNCHANGED <<grouped, rootVars, chainVars>>
  BY Zenon DEF GetPendingBridges
<1>4. CASE Return
  BY Zenon, <1>3, <1>4, ReturnStep DEF AInv, ClaimInv, chainVars
<1>5. CASE ~Return
  <2>1. /\ bridges' \in Seq(Deposit) /\ Len(bridges') >= Len(bridges)
        /\ pc' = "idle" \/ (pc' = "proofs" /\ bridges' # << >>)
        /\ UNCHANGED <<proofVars, groupVars>>
    <3>1. bridges \in Seq(Deposit)
      BY Zenon DEF AInv, CycleInv, TypeOK
    <3>2. bridges \o page \in Seq(Deposit) /\ Len(bridges \o page) >= Len(bridges)
      BY <1>2, <3>1
    <3> QED
      BY Zenon, <1>1, <1>3, <1>5, <3>2
  <2>2. CycleInv'
    BY <1>3, <2>1, RootBound DEF AInv, CycleInv, TypeOK, rootVars, proofVars, groupVars
  <2>3. proofs' = << >>
    BY Zenon, <1>3, <2>1 DEF AInv, CycleInv, TypeOK, proofVars
  <2>4. PairInv'
    BY <2>3 DEF PairInv
  <2>5. ClaimInv'
    BY Zenon, <1>3, <2>1 DEF AInv, ClaimInv, chainVars, groupVars, proofVars, rootVars, Proven,
       Claims, Proof
  <2> QED
    BY Zenon, <2>2, <2>4, <2>5 DEF AInv
<1> QED
  BY Zenon, <1>4, <1>5

\* getProof and getProofByGER
LEMMA ProofsStep ==
  ASSUME AInv, GetProofs
  PROVE  AInv'
<1>1. pc = "proofs" /\ Len(proofs) < Len(bridges) /\ UNCHANGED <<grouped, rootVars, chainVars>>
  BY Zenon DEF GetProofs
<1>2. CASE Return
  BY Zenon, <1>1, <1>2, ReturnStep DEF AInv, ClaimInv, chainVars
<1>3. CASE ~Return
  <2>1. Current \in Deposit /\ CoveredBy[Current] \in 1..MaxRoot
    <3>1. bridges \in Seq(Deposit) /\ Len(proofs) \in Nat /\ Len(proofs) < Len(bridges)
      BY <1>1 DEF AInv, CycleInv, TypeOK
    <3>2. Current \in Deposit
      BY <3>1 DEF Current
    <3> QED
      BY Zenon, <3>2, AutoClaimAssumption
  <2>2. PICK r \in 0..MaxRoot :
          /\ proofs' = Append(proofs, Proof(Current, r))
          /\ CoveredBy[Current] <= r
          /\ grouped => ger' = r
          /\ grouped /\ proofs # << >> => ger' = ger
          /\ ger' \in 0..MaxRoot
    <3>1. CASE ~grouped \/ proofs = << >>
      <4>1. GetProof /\ ger' = IF grouped THEN LatestExitRoot(Current) ELSE ger
        BY Zenon, <1>1, <1>3, <3>1 DEF GetProofs
      <4>2. LatestExitRoot(Current) \in 0..MaxRoot
        BY RootBound DEF LatestExitRoot, AInv, CycleInv, TypeOK
      <4> QED
        BY Zenon, <3>1, <4>1, <4>2 DEF GetProof, Ready, AInv, CycleInv, TypeOK
    <3>2. CASE grouped /\ proofs # << >>
      BY Zenon, <1>1, <1>3, <3>2 DEF GetProofs, GetProofByGER, AInv, CycleInv, TypeOK
    <3> QED
      BY Zenon, <3>1, <3>2 DEF AInv, CycleInv, TypeOK
  <2>3. UNCHANGED <<pc, listVars, groupVars>>
    BY Zenon, <1>1, <1>3 DEF GetProofs
  <2>4. Proof(Current, r) \in [of : Deposit, root : 0..MaxRoot]
    BY Zenon, <2>1 DEF Proof
  <2>5. CycleInv'
    BY <1>1, <2>2, <2>3, <2>4 DEF AInv, CycleInv, TypeOK, rootVars, listVars, groupVars
  <2>6. PairInv'
    <3> SUFFICES ASSUME NEW i \in 1..Len(proofs')
                 PROVE  /\ proofs'[i].of = bridges'[i]
                        /\ CoveredBy[bridges'[i]] <= proofs'[i].root
                        /\ grouped' => proofs'[i].root = ger'
      BY Zenon DEF PairInv
    <3>1. Len(proofs') = Len(proofs) + 1 /\ bridges' = bridges /\ grouped' = grouped
      BY <1>1, <2>2, <2>3, <2>4 DEF AInv, CycleInv, TypeOK, listVars
    <3>2. CASE i = Len(proofs) + 1
      BY <2>2, <2>4, <3>1, <3>2 DEF AInv, CycleInv, TypeOK, Proof, Current
    <3>3. CASE i # Len(proofs) + 1
      <4>1. i \in 1..Len(proofs) /\ proofs'[i] = proofs[i] /\ proofs # << >>
        BY <2>2, <2>4, <3>1, <3>3 DEF AInv, CycleInv, TypeOK
      <4> QED
        BY Zenon, <2>2, <3>1, <4>1 DEF AInv, PairInv
    <3> QED
      BY Zenon, <3>2, <3>3
  <2>7. ClaimInv'
    BY Zenon, <1>1, <2>3 DEF AInv, ClaimInv, chainVars, groupVars, rootVars, Proven, Claims, Proof
  <2> QED
    BY Zenon, <2>5, <2>6, <2>7 DEF AInv
<1> QED
  BY Zenon, <1>2, <1>3

\* All proofs are there.
LEMMA DoneStep ==
  ASSUME AInv, ProofsDone
  PROVE  AInv'
<1>1. CycleInv'
  BY DEF AInv, CycleInv, TypeOK, ProofsDone, rootVars, listVars, proofVars, groupVars
<1>2. PairInv'
  BY Zenon DEF AInv, PairInv, ProofsDone, listVars, proofVars
<1>3. ClaimInv'
  BY Zenon DEF AInv, ClaimInv, ProofsDone, chainVars, groupVars, proofVars, rootVars, Proven,
     Claims, Proof
<1> QED
  BY Zenon, <1>1, <1>2, <1>3 DEF AInv

\* The bridge at a place and its proof make a claim that is proven, if it is valid.
LEMMA PlaceIsProven ==
  ASSUME AInv, NEW n \in 1..Len(proofs), Valid(Claim(bridges[n], proofs[n]))
  PROVE  Proven(Claim(bridges[n], proofs[n]), proofs[n].root)
<1>1. bridges[n] \in Deposit /\ proofs[n] \in [of : Deposit, root : 0..MaxRoot]
  <2>1. /\ bridges \in Seq(Deposit) /\ n \in 1..Len(bridges)
        /\ proofs \in Seq([of : Deposit, root : 0..MaxRoot])
    BY DEF AInv, CycleInv, TypeOK
  <2>2. bridges[n] \in Deposit
    BY Zenon, <2>1, InSeq
  <2>3. proofs[n] \in [of : Deposit, root : 0..MaxRoot]
    BY Zenon, <2>1, InSeq
  <2> QED
    BY Zenon, <2>2, <2>3
<1>2. proofs[n].of = bridges[n] /\ CoveredBy[bridges[n]] <= proofs[n].root
  BY Zenon DEF AInv, PairInv
<1>3. proofs[n].root <= l2Root
  BY Zenon DEF Valid, Claim
<1> QED
  BY Zenon, <1>1, <1>2, <1>3 DEF Proven, Claim, Claims, Proof

\* SendClaim
LEMMA SendStep ==
  ASSUME AInv, SendClaim
  PROVE  AInv'
<1> DEFINE c == Claim(bridges[pos + 1], proofs[pos + 1])
<1>1. /\ pc = "claim" /\ UNCHANGED <<grouped, rootVars>>
      /\ pos + 1 \in 1..Len(proofs) /\ pos < Len(bridges) /\ data = {}
  BY DEF SendClaim, AInv, CycleInv, TypeOK, ClaimInv
<1>2. \A t \in pool' : t.root \in 0..MaxRoot /\ \A x \in t.claims : Proven(x, t.root)
  <2>1. CASE pool' = pool
    BY Zenon, <2>1 DEF AInv, ClaimInv
  <2>2. CASE Valid(c) /\ pool' = pool \cup {[root |-> c.proof.root, claims |-> {c}]}
    <3>1. c.proof = proofs[pos + 1] /\ proofs[pos + 1].root \in 0..MaxRoot
      <4>1. proofs \in Seq([of : Deposit, root : 0..MaxRoot])
        BY Zenon DEF AInv, CycleInv, TypeOK
      <4>2. proofs[pos + 1] \in [of : Deposit, root : 0..MaxRoot]
        BY Zenon, <1>1, <4>1, InSeq
      <4> QED
        BY Zenon, <4>2 DEF Claim
    <3>2. Proven(c, proofs[pos + 1].root)
      BY Zenon, <1>1, <2>2, PlaceIsProven
    <3> HIDE DEF c
    <3> QED
      BY <2>2, <3>1, <3>2 DEF AInv, ClaimInv
  <2> QED
    BY Zenon, <2>1, <2>2 DEF SendClaim
<1>3. CASE Return
  BY Zenon, <1>1, <1>2, <1>3, ReturnStep
<1>4. CASE ~Return
  <2>1. /\ pos' = pos + 1 /\ pos + 1 # Len(bridges)
        /\ UNCHANGED <<pc, listVars, proofVars, from, data>>
    BY Zenon, <1>4 DEF SendClaim
  <2>2. CycleInv'
    BY <1>1, <2>1 DEF AInv, CycleInv, TypeOK, rootVars, listVars, proofVars
  <2>3. PairInv'
    BY Zenon, <1>1, <2>1 DEF AInv, PairInv, listVars, proofVars
  <2>4. ClaimInv'
    BY Zenon, <1>1, <1>2, <2>1 DEF ClaimInv, rootVars, Proven, Claims, Proof
  <2> QED
    BY Zenon, <2>2, <2>3, <2>4 DEF AInv
<1> QED
  BY Zenon, <1>3, <1>4

\* A step within a group: one more bridge is tried, and its claim may be collected.
LEMMA GroupStep ==
  ASSUME AInv, pc = "estimate", pos < Len(bridges), pos' = pos + 1,
         UNCHANGED <<grouped, rootVars, pc, listVars, proofVars, from, pool>>,
         data' = data \/ \E c : Proven(c, ger) /\ data' = data \cup {c}
  PROVE  AInv'
<1>1. CycleInv'
  BY DEF AInv, CycleInv, TypeOK, rootVars, listVars, proofVars
<1>2. PairInv'
  BY Zenon DEF AInv, PairInv, listVars, proofVars
<1>3. ClaimInv'
  <2>1. \A c \in data' : Proven(c, ger)
    BY Zenon DEF AInv, ClaimInv
  <2> QED
    BY Zenon, <2>1 DEF AInv, ClaimInv, rootVars, proofVars, Proven, Claims, Proof
<1> QED
  BY Zenon, <1>1, <1>2, <1>3 DEF AInv

\* Where the estimates are: the place in the group is a place of the lists.
LEMMA GroupPlace ==
  ASSUME AInv, pc = "estimate", pos - from < Len(Chunk(bridges, from))
  PROVE  /\ pos + 1 \in 1..Len(proofs) /\ pos < Len(bridges)
         /\ Chunk(bridges, from)[pos - from + 1] = bridges[pos + 1]
         /\ Chunk(proofs, from)[pos - from + 1] = proofs[pos + 1]
<1>1. /\ bridges \in Seq(Deposit) /\ proofs \in Seq([of : Deposit, root : 0..MaxRoot])
      /\ Len(proofs) = Len(bridges)
      /\ from \in Nat /\ pos \in Nat /\ from <= pos /\ from < Len(bridges)
  BY Zenon DEF AInv, CycleInv, TypeOK
<1>2. Len(Chunk(bridges, from)) \in 1..(Len(bridges) - from)
  BY Zenon, <1>1, ChunkLength
<1>3. Len(Chunk(proofs, from)) = Len(Chunk(bridges, from))
  BY Zenon, <1>1, SameLength
<1>4. pos - from + 1 \in 1..Len(Chunk(bridges, from))
  BY <1>1, <1>2
<1>5. Chunk(bridges, from)[pos - from + 1] = bridges[from + (pos - from + 1)]
  BY Zenon, <1>1, <1>4, ChunkElement
<1>6. Chunk(proofs, from)[pos - from + 1] = proofs[from + (pos - from + 1)]
  BY <1>1, <1>3, <1>4, ChunkElement
<1>7. from + (pos - from + 1) = pos + 1
  BY <1>1
<1> QED
  BY <1>1, <1>2, <1>4, <1>5, <1>6, <1>7

\* EstimateGasClaim
LEMMA EstimateStep ==
  ASSUME AInv, Estimate
  PROVE  AInv'
<1> DEFINE c == Claim(bridges[pos + 1], proofs[pos + 1])
<1>1. /\ pc = "estimate" /\ pos - from < Len(Chunk(bridges, from))
      /\ UNCHANGED <<grouped, rootVars, chainVars>>
  BY Zenon DEF Estimate
<1>2. /\ pos + 1 \in 1..Len(proofs) /\ pos < Len(bridges)
      /\ Chunk(bridges, from)[pos - from + 1] = bridges[pos + 1]
      /\ Chunk(proofs, from)[pos - from + 1] = proofs[pos + 1]
  BY Zenon, <1>1, GroupPlace
<1>3. /\ pos' = pos + 1 /\ UNCHANGED <<pc, listVars, proofVars, from>>
      /\ data' = data \/ (Valid(c) /\ data' = data \cup {c})
  BY Zenon, <1>2 DEF Estimate, Skip
<1>4. Valid(c) => Proven(c, ger)
  <2>1. proofs[pos + 1].root = ger
    BY Zenon, <1>1, <1>2 DEF AInv, PairInv, CycleInv, TypeOK
  <2> QED
    BY Zenon, <1>2, <2>1, PlaceIsProven
<1> HIDE DEF c
<1> QED
  BY Zenon, <1>1, <1>2, <1>3, <1>4, GroupStep DEF chainVars

\* A group is sent, with or without its claims, or the cycle ends without it.
LEMMA NextGroupStep ==
  ASSUME AInv, pc = "estimate", NextGroup, UNCHANGED <<grouped, rootVars>>,
         pool' = pool \cup {[root |-> ger, claims |-> data]}
           \/ pool' = pool \cup {[root |-> ger, claims |-> {}]}
  PROVE  AInv'
<1>1. \A t \in pool' : t.root \in 0..MaxRoot /\ \A x \in t.claims : Proven(x, t.root)
  BY DEF AInv, ClaimInv, CycleInv, TypeOK
<1>2. CASE Return
  BY Zenon, <1>1, <1>2, ReturnStep
<1>3. CASE ~Return
  <2>1. /\ pos # Len(bridges) /\ from' = pos /\ data' = {}
        /\ UNCHANGED <<pc, listVars, proofVars, pos>>
    BY Zenon, <1>3 DEF NextGroup
  <2>2. CycleInv'
    BY <2>1 DEF AInv, CycleInv, TypeOK, rootVars, listVars, proofVars
  <2>3. PairInv'
    BY Zenon, <2>1 DEF AInv, PairInv, listVars, proofVars
  <2>4. ClaimInv'
    BY Zenon, <1>1, <2>1 DEF ClaimInv, rootVars, Proven, Claims, Proof
  <2> QED
    BY Zenon, <2>2, <2>3, <2>4 DEF AInv
<1> QED
  BY Zenon, <1>2, <1>3

\* Every step keeps the invariant.
LEMMA NextStep ==
  ASSUME AInv, [Next]_vars
  PROVE  AInv'
<1>1. CASE GetPendingBridges
  BY Zenon, <1>1, BridgesStep
<1>2. CASE GetProofs
  BY Zenon, <1>2, ProofsStep
<1>3. CASE ProofsDone
  BY Zenon, <1>3, DoneStep
<1>4. CASE SendClaim
  BY Zenon, <1>4, SendStep
<1>5. CASE Estimate
  BY Zenon, <1>5, EstimateStep
<1>6. CASE NothingToSend
  BY Zenon, <1>6, ReturnStep DEF NothingToSend, AInv, ClaimInv, chainVars
<1>7. CASE SendCompressedClaims
  BY Zenon, <1>7, NextGroupStep DEF SendCompressedClaims
<1>8. CASE NewRoot
  BY <1>8, NetworkStep, RootBound DEF NewRoot, AInv, CycleInv, TypeOK, chainVars
<1>9. CASE TrustedRoot
  BY <1>9, NetworkStep, RootBound DEF TrustedRoot, AInv, CycleInv, TypeOK, chainVars
<1>10. CASE \E t \in pool : Mine(t)
  BY <1>10, NetworkStep DEF Mine, AInv, CycleInv, TypeOK, rootVars
<1>11. CASE \E t \in pool : Drop(t)
  BY <1>11, NetworkStep DEF Drop, AInv, CycleInv, TypeOK, rootVars
<1>12. CASE \E d \in Deposit : UserClaims(d)
  BY <1>12, NetworkStep DEF UserClaims, AInv, CycleInv, TypeOK, rootVars
<1>13. CASE \E d \in Deposit : StoreClaim(d)
  BY <1>13, NetworkStep DEF StoreClaim, AInv, CycleInv, TypeOK, rootVars
<1>14. CASE CycleFails
  BY Zenon, <1>14, ReturnStep DEF CycleFails, AInv, ClaimInv, chainVars
<1>15. CASE EstimateFails
  BY Zenon, <1>15, GroupPlace, GroupStep DEF EstimateFails, Skip, chainVars
<1>16. CASE SendClaimFails
  <2>1. /\ pc = "claim" /\ pos + 1 < Len(bridges) /\ pos' = pos + 1
        /\ UNCHANGED <<grouped, rootVars, chainVars, pc, listVars, proofVars, from, data>>
    BY Zenon, <1>16 DEF SendClaimFails, Skip
  <2>2. CycleInv'
    BY <2>1 DEF AInv, CycleInv, TypeOK, rootVars, listVars, proofVars
  <2>3. PairInv'
    BY Zenon, <2>1 DEF AInv, PairInv, listVars, proofVars
  <2>4. ClaimInv'
    BY Zenon, <2>1 DEF AInv, ClaimInv, chainVars, proofVars, rootVars, Proven, Claims, Proof
  <2> QED
    BY Zenon, <2>2, <2>3, <2>4 DEF AInv
<1>17. CASE CompressFails
  BY Zenon, <1>17, NextGroupStep DEF CompressFails
<1>18. CASE UNCHANGED vars
  BY <1>18, NetworkStep DEF vars, AInv, CycleInv, TypeOK, rootVars, chainVars
<1> QED
  BY Zenon, <1>1, <1>2, <1>3, <1>4, <1>5, <1>6, <1>7, <1>8, <1>9, <1>10, <1>11, <1>12, <1>13,
     <1>14, <1>15, <1>16, <1>17, <1>18 DEF Next, Start

\* The invariant of a cycle of the auto claim service: bridges, proofs, groups and what is
\* sent belong together at every step.
THEOREM AutoClaimInvariant == Spec => []AInv
<1>1. Init => AInv
  BY RootBound DEF Init, AInv, CycleInv, TypeOK, PairInv, ClaimInv
<1>2. AInv /\ [Next]_vars => AInv'
  BY Zenon, NextStep
<1> QED
  BY <1>1, <1>2, PTL DEF Spec

\* Every claim that claimIndividually or claimGrouped sends has the proof of its own deposit
\* under the root that its transaction names, and the network has that root.
THEOREM ClaimsAreProven == Spec => []ProvenByItsRoot
<1>1. AInv => ProvenByItsRoot
  BY Zenon DEF AInv, ClaimInv, ProvenByItsRoot, Proven
<1> QED
  BY <1>1, AutoClaimInvariant, PTL
=============================================================================
