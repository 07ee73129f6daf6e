-------------------------- MODULE ExitRootsProofs ---------------------------
(***************************************************************************)
(* Proofs about ExitRoots, for every chain of L1, every height of the      *)
(* trees and every bound: the synchronizers of L1 and L2 complete each     *)
(* other's rows, a deposit that is ready is covered, the leaves of the     *)
(* rollups follow L1, and the server answers with proofs that verify.      *)
(***************************************************************************)
EXTENDS MCExitRoots, FiniteSetTheorems, WellFoundedInduction, TLAPS

RowSet(S) == [ger : S, full : BOOLEAN, allowed : BOOLEAN]

\* The rows and the row that is stored have their fields.
RowTypes ==
  /\ chain \in Chains /\ synced \in Nat
  /\ \E S : gers \in Seq(RowSet(S))
  /\ l2Pc = "store" => \E S, row : row \in RowSet(S) /\ l2Row = <<row>>

\* An incomplete row whose root L1 does not have, or is about to complete.
Waits(i) ==
  gers[i].allowed /\ ~gers[i].full =>
    /\ ~IsL1Ger(gers[i].ger)
    /\ l1Tx # <<>> /\ gers[i].ger = Ger(synced + 1) => i \in l1Tx[1]

\* As long as the transactions did not overlap, every row waits for a root that L1 has
\* not stored yet, an open L1 transaction has read every row it completes, and a row
\* that is being stored was looked up in what L1 has now.
Exchange ==
  "overlap" \notin past =>
    /\ l1Tx # <<>> => l2Pc # "store"
    /\ \A i \in DOMAIN gers : Waits(i)
    /\ l2Pc = "store" => (l2Row[1].full \/ ~IsL1Ger(l2Row[1].ger))

-----------------------------------------------------------------------------
\* The smaller of two numbers.
LEMMA MinOfTwo ==
  ASSUME NEW a \in Nat, NEW b \in Nat
  PROVE  Min({a, b}) \in Nat /\ Min({a, b}) <= a /\ Min({a, b}) <= b
<1>1. \E x \in {a, b} : \A y \in {a, b} : x <= y
  OBVIOUS
<1>2. Min({a, b}) \in {a, b} /\ \A y \in {a, b} : Min({a, b}) <= y
  BY Zenon, <1>1 DEF Min
<1> QED
  BY Zenon, <1>2

\* There are finitely many blocks.
LEMMA BlocksBound == MaxBlocks \in Nat
<1>1. MaxBlocks \in 1..(Width[0] - 1)
  BY Zenon, ExitRootsAssumption
<1> QED
  BY <1>1

-----------------------------------------------------------------------------
(***************************************************************************)
(* The deposits in the blocks of L1.                                       *)
(***************************************************************************)
Less == {ss \in Nat \X Nat : ss[1] < ss[2]}

\* What holds of 0 and passes on to the next number holds of all of them.
LEMMA UpTo ==
  ASSUME NEW N \in Nat, NEW T, 0 \in T, \A m \in 0..(N - 1) : m \in T => m + 1 \in T
  PROVE  \A m \in 0..N : m \in T
<1> DEFINE C == {m \in 0..N : m \notin T}
<1> SUFFICES ASSUME C # {} PROVE FALSE
  BY Zenon
<1>1. IsWellFoundedOn(Less, Nat)
  BY Zenon, NatLessThanWellFounded DEF OpToRel, Less
<1>2. C \in SUBSET Nat
  OBVIOUS
<1>3. PICK m \in C : \A k \in C : <<k, m>> \notin Less
  BY Zenon, <1>1, <1>2, WFMin
<1>4. m \in Nat /\ m # 0 /\ m <= N
  OBVIOUS
<1>5. m - 1 \in 0..(N - 1) /\ m - 1 \in 0..N /\ m - 1 + 1 = m /\ m - 1 \in Nat
  BY <1>4
<1>6. <<m - 1, m>> \in Less
  BY <1>4, <1>5 DEF Less
<1>7. m - 1 \in T
  BY Zenon, <1>3, <1>5, <1>6
<1> QED
  BY Zenon, <1>5, <1>7

\* The largest of a set of numbers that is bounded.
LEMMA MaxOf ==
  ASSUME NEW N \in Nat, NEW S \in SUBSET (0..N), S # {}
  PROVE  Max(S) \in S /\ \A x \in S : x <= Max(S)
<1> DEFINE V(n) == \A R \in SUBSET (0..n) : R # {} => \E x \in R : \A y \in R : x >= y
           T == {n \in 0..N : V(n)}
<1>1. 0 \in T
  <2>1. 0..0 = {0} /\ 0 \in 0..N /\ 0 >= 0
    OBVIOUS
  <2>2. V(0)
    <3>1. ASSUME NEW R \in SUBSET {0}, R # {} PROVE \E x \in R : \A y \in R : x >= y
      BY Zenon, <2>1, <3>1
    <3> QED
      BY Zenon, <2>1, <3>1
  <2> QED
    BY Zenon, <2>1, <2>2
<1>2. ASSUME NEW n \in 0..(N - 1), n \in T PROVE n + 1 \in T
  <2>1. n + 1 \in 0..N
    OBVIOUS
  <2>2. ASSUME NEW R \in SUBSET (0..(n + 1)), R # {} PROVE \E x \in R : \A y \in R : x >= y
    <3>1. CASE n + 1 \in R
      BY <3>1
    <3>2. CASE n + 1 \notin R
      <4>1. R \in SUBSET (0..n)
        BY <3>2
      <4> QED
        BY Zenon, <1>2, <2>2, <4>1
    <3> QED
      BY Zenon, <3>1, <3>2
  <2> QED
    BY Zenon, <2>1, <2>2
<1>3. N \in 0..N
  OBVIOUS
<1>4. V(N)
  <2>1. N \in T
    <3> HIDE DEF T
    <3> QED
      BY Zenon, <1>1, <1>2, <1>3, UpTo
  <2> QED
    BY Zenon, <2>1
<1>5. \E x \in S : \A y \in S : x >= y
  BY Zenon, <1>4
<1>6. Max(S) \in S /\ \A y \in S : Max(S) >= y
  BY Zenon, <1>5 DEF Max
<1>7. ASSUME NEW x \in S PROVE x <= Max(S)
  BY <1>6
<1> QED
  BY Zenon, <1>6, <1>7

\* The deposits of the first blocks, block by block.
LEMMA BlockByBlock ==
  ASSUME NEW c
  PROVE  /\ DepositsOf(c, 0) = <<>>
         /\ \A m \in 0..(MaxBlocks - 1) :
              DepositsOf(c, m + 1) = DepositsOf(c, m) \o c[m + 1].deposit
<1> DEFINE U(g, m) == g[m - 1] \o c[m].deposit
           F(g, n) == [m \in 0..n |-> IF m = 0 THEN <<>> ELSE U(g, m)]
           T == {n \in 0..MaxBlocks : \E g : g = F(g, n)}
<1>0. MaxBlocks \in Nat /\ 0 \in 0..MaxBlocks /\ MaxBlocks \in 0..MaxBlocks
  BY BlocksBound
<1>1. 0 \in T
  <2> DEFINE g == [m \in 0..0 |-> <<>>]
  <2> HIDE DEF U
  <2>1. g = F(g, 0)
    OBVIOUS
  <2> QED
    BY Zenon, <1>0, <2>1
<1>2. ASSUME NEW n \in 0..(MaxBlocks - 1), n \in T PROVE n + 1 \in T
  <2>1. PICK g : g = F(g, n)
    BY Zenon, <1>2
  <2> DEFINE k == [m \in 0..(n + 1) |-> IF m = n + 1 THEN U(g, n + 1) ELSE g[m]]
  <2>2. \A m \in 0..n : k[m] = g[m]
    <3> HIDE DEF U
    <3> QED
      BY <1>0
  <2>3. ASSUME NEW m \in 1..(n + 1) PROVE U(k, m) = U(g, m)
    <3>1. m - 1 \in 0..n
      BY <1>0
    <3>2. k[m - 1] = g[m - 1]
      BY Zenon, <2>2, <3>1
    <3> HIDE DEF k
    <3> QED
      BY Zenon, <3>2
  <2> HIDE DEF U
  <2>4. k = F(k, n + 1)
    <3>1. ASSUME NEW m \in 0..(n + 1) PROVE k[m] = IF m = 0 THEN <<>> ELSE U(k, m)
      <4>1. CASE m = n + 1
        <5>1. m # 0 /\ m \in 1..(n + 1)
          BY <1>0, <4>1
        <5> QED
          BY Zenon, <2>3, <4>1, <5>1
      <4>2. CASE m # n + 1
        <5>1. m \in 0..n /\ (m # 0 => m \in 1..(n + 1))
          BY <1>0, <4>2
        <5>2. k[m] = g[m] /\ g[m] = IF m = 0 THEN <<>> ELSE U(g, m)
          BY Zenon, <2>1, <2>2, <5>1
        <5> QED
          BY Zenon, <2>3, <5>1, <5>2
      <4> QED
        BY Zenon, <4>1, <4>2
    <3> QED
      BY Zenon, <3>1
  <2>5. n + 1 \in 0..MaxBlocks
    BY <1>0
  <2> QED
    BY Zenon, <2>4, <2>5
<1>3. \E g : g = F(g, MaxBlocks)
  BY Zenon, <1>0, <1>1, <1>2, UpTo
<1>4. PICK main : main = F(main, MaxBlocks) /\ \A n : DepositsOf(c, n) = main[n]
  BY Zenon, <1>3 DEF DepositsOf
<1> HIDE DEF U
<1>5. main[0] = <<>>
  BY Zenon, <1>0, <1>4
<1>6. ASSUME NEW m \in 0..(MaxBlocks - 1) PROVE main[m + 1] = main[m] \o c[m + 1].deposit
  <2>1. PICK k : k = m + 1 /\ k \in 0..MaxBlocks /\ k # 0 /\ k - 1 = m
    BY <1>0
  <2>2. main[k] = U(main, k)
    BY Zenon, <1>4, <2>1
  <2> QED
    BY Zenon, <2>1, <2>2 DEF U
<1> QED
  BY Zenon, <1>4, <1>5, <1>6

\* What a block of a chain holds.
LEMMA InBlock ==
  ASSUME NEW c \in Chains, NEW m \in 0..(MaxBlocks - 1)
  PROVE  c[m + 1].deposit \in Seq(Content)
<1>1. m + 1 \in 1..MaxBlocks
  BY BlocksBound
<1>2. c[m + 1] \in Transactions
  BY Zenon, <1>1 DEF Chains
<1>3. CASE \E d \in Content : c[m + 1] = Deposit(d)
  <2>1. PICK d \in Content : c[m + 1] = Deposit(d)
    BY Zenon, <1>3
  <2>2. c[m + 1].deposit = <<d>>
    <3> DEFINE x == c[m + 1]
    <3> HIDE DEF x
    <3>1. x = [deposit |-> <<d>>, verified |-> 0]
      BY Zenon, <2>1 DEF Deposit, x
    <3>2. x.deposit = <<d>>
      BY <3>1
    <3> QED
      BY Zenon, <3>2 DEF x
  <2>3. <<d>> \in Seq(Content)
    OBVIOUS
  <2> QED
    BY Zenon, <2>2, <2>3
<1>4. CASE \E r \in Rollup : c[m + 1] = Verified(r)
  <2>1. c[m + 1].deposit = <<>>
    <3> DEFINE x == c[m + 1]
    <3> HIDE DEF x
    <3>1. PICK r \in Rollup : x = [deposit |-> <<>>, verified |-> r]
      BY Zenon, <1>4 DEF Verified, x
    <3>2. x.deposit = <<>>
      BY <3>1
    <3> QED
      BY Zenon, <3>2 DEF x
  <2>2. <<>> \in Seq(Content)
    OBVIOUS
  <2> QED
    BY Zenon, <2>1, <2>2
<1> QED
  BY Zenon, <1>2, <1>3, <1>4 DEF Transactions

\* The deposits are a sequence of contents.
LEMMA DepositTypes ==
  ASSUME NEW c \in Chains
  PROVE  \A m \in 0..MaxBlocks : DepositsOf(c, m) \in Seq(Content)
<1> DEFINE T == {m \in 0..MaxBlocks : DepositsOf(c, m) \in Seq(Content)}
<1>1. MaxBlocks \in Nat /\ 0 \in 0..MaxBlocks /\ <<>> \in Seq(Content)
  BY BlocksBound
<1>2. 0 \in T
  BY Zenon, <1>1, BlockByBlock
<1>3. ASSUME NEW m \in 0..(MaxBlocks - 1), m \in T PROVE m + 1 \in T
  <2>1. m + 1 \in 0..MaxBlocks
    BY <1>1
  <2>2. DepositsOf(c, m) \in Seq(Content) /\ c[m + 1].deposit \in Seq(Content)
    BY Zenon, <1>3, InBlock
  <2>3. DepositsOf(c, m) \o c[m + 1].deposit \in Seq(Content)
    BY <2>2
  <2> QED
    BY Zenon, <2>1, <2>3, BlockByBlock
<1> QED
  BY Zenon, <1>1, <1>2, <1>3, UpTo

\* Later blocks add deposits and leave the earlier ones as they are.
LEMMA DepositsGrow ==
  ASSUME NEW c \in Chains, NEW n \in 0..MaxBlocks, NEW m \in 0..MaxBlocks, n <= m
  PROVE  /\ Len(DepositsOf(c, n)) <= Len(DepositsOf(c, m))
         /\ \A i \in 1..Len(DepositsOf(c, n)) : DepositsOf(c, n)[i] = DepositsOf(c, m)[i]
<1> DEFINE D(k) == DepositsOf(c, k)
           V(k) == Len(D(n)) <= Len(D(k)) /\ \A i \in 1..Len(D(n)) : D(n)[i] = D(k)[i]
           T == {k \in 0..MaxBlocks : n <= k => V(k)}
<1>0. MaxBlocks \in Nat /\ 0 \in 0..MaxBlocks /\ n \in Nat
  BY BlocksBound
<1>1. \A k \in 0..MaxBlocks : D(k) \in Seq(Content)
  BY Zenon, DepositTypes
<1>2. V(n)
  <2>1. Len(D(n)) \in Nat
    BY <1>1
  <2>2. Len(D(n)) <= Len(D(n))
    BY <2>1
  <2> QED
    BY Zenon, <2>2
<1>3. 0 \in T
  <2>1. n <= 0 => n = 0
    BY <1>0
  <2> QED
    BY Zenon, <1>0, <1>2, <2>1
<1>4. ASSUME NEW k \in 0..(MaxBlocks - 1), k \in T PROVE k + 1 \in T
  <2>1. k + 1 \in 0..MaxBlocks /\ k \in 0..MaxBlocks
    BY <1>0
  <2>2. D(k + 1) = D(k) \o c[k + 1].deposit /\ c[k + 1].deposit \in Seq(Content)
    BY Zenon, BlockByBlock, InBlock
  <2>3. ASSUME n <= k + 1 PROVE V(k + 1)
    <3>1. CASE n = k + 1
      BY Zenon, <1>2, <3>1
    <3>2. CASE n # k + 1
      <4>1. n <= k
        BY <1>0, <2>3, <3>2
      <4>2. V(k)
        BY Zenon, <1>4, <4>1
      <4>3. D(n) \in Seq(Content) /\ D(k) \in Seq(Content)
        BY Zenon, <1>1, <2>1
      <4> HIDE DEF D
      <4> QED
        BY <2>2, <4>2, <4>3
    <3> QED
      BY Zenon, <3>1, <3>2
  <2> HIDE DEF V
  <2> QED
    BY Zenon, <2>1, <2>3
<1>5. m \in T
  BY Zenon, <1>0, <1>3, <1>4, UpTo
<1> QED
  BY Zenon, <1>5

\* Two chains with the same first blocks have the same deposits in them.
LEMMA DepositsAgree ==
  ASSUME NEW c, NEW e, NEW n \in 0..MaxBlocks, \A i \in 1..n : c[i] = e[i]
  PROVE  \A m \in 0..n : DepositsOf(c, m) = DepositsOf(e, m)
<1> DEFINE T == {m \in 0..n : DepositsOf(c, m) = DepositsOf(e, m)}
<1>0. MaxBlocks \in Nat /\ n \in Nat /\ 0 \in 0..n
  BY BlocksBound
<1>1. 0 \in T
  BY Zenon, <1>0, BlockByBlock
<1>2. ASSUME NEW m \in 0..(n - 1), m \in T PROVE m + 1 \in T
  <2>1. m + 1 \in 0..n /\ m + 1 \in 1..n /\ m \in 0..(MaxBlocks - 1)
    BY <1>0
  <2>2. DepositsOf(c, m) = DepositsOf(e, m) /\ c[m + 1] = e[m + 1]
    BY Zenon, <1>2, <2>1
  <2>3. /\ DepositsOf(c, m + 1) = DepositsOf(c, m) \o c[m + 1].deposit
        /\ DepositsOf(e, m + 1) = DepositsOf(e, m) \o e[m + 1].deposit
    BY Zenon, <2>1, BlockByBlock
  <2> QED
    BY Zenon, <2>1, <2>2, <2>3
<1> QED
  BY Zenon, <1>0, <1>1, <1>2, UpTo

\* Prefixes, element by element.
LEMMA PrefixElements ==
  ASSUME NEW s \in Seq(Content), NEW t \in Seq(Content)
  PROVE  /\ Starts(s, t) => Len(s) <= Len(t) /\ \A i \in 1..Len(s) : s[i] = t[i]
         /\ \A d \in 0..Len(s) :
              d <= Len(t) /\ (\A i \in 1..d : t[i] = s[i]) => Starts(SubSeq(s, 1, d), t)
<1>1. ASSUME Starts(s, t) PROVE Len(s) <= Len(t) /\ \A i \in 1..Len(s) : s[i] = t[i]
  <2>1. Len(s) <= Len(t) /\ s = SubSeq(t, 1, Len(s))
    BY Zenon, <1>1 DEF Starts
  <2>2. ASSUME NEW i \in 1..Len(s) PROVE s[i] = t[i]
    <3>1. SubSeq(t, 1, Len(s))[i] = t[i]
      BY <2>1
    <3> QED
      BY Zenon, <2>1, <3>1
  <2> QED
    BY Zenon, <2>1, <2>2
<1>2. ASSUME NEW d \in 0..Len(s), d <= Len(t), \A i \in 1..d : t[i] = s[i]
      PROVE  Starts(SubSeq(s, 1, d), t)
  <2> DEFINE p == SubSeq(s, 1, d)
  <2>1. p = [i \in 1..d |-> s[i]] /\ d \in Nat
    OBVIOUS
  <2>2. SubSeq(t, 1, d) = [i \in 1..d |-> t[i]]
    BY <1>2
  <2>3. [i \in 1..d |-> t[i]] = [i \in 1..d |-> s[i]]
    BY Zenon, <1>2
  <2>4. Len(p) = d
    OBVIOUS
  <2> QED
    BY Zenon, <1>2, <2>1, <2>2, <2>3, <2>4 DEF Starts
<1> QED
  BY Zenon, <1>1, <1>2

\* A root only depends on the blocks up to its own.
LEMMA GerOfPrefix ==
  ASSUME chain \in Chains, NEW n \in 0..(MaxBlocks - 1), MaxBlocks \in Nat,
         chain' \in Chains, SubSeq(chain', 1, n) = SubSeq(chain, 1, n), NEW m \in 1..n
  PROVE  Ger(m)' = Ger(m)
<1>1. chain \in Seq(Transactions) /\ chain' \in Seq(Transactions)
      /\ Len(chain) = MaxBlocks /\ Len(chain') = MaxBlocks
  BY DEF Chains
<1>2. \A i \in 1..n : chain'[i] = chain[i]
  <2> TAKE i \in 1..n
  <2>1. SubSeq(chain, 1, n)[i] = chain[i] /\ SubSeq(chain', 1, n)[i] = chain'[i]
    BY <1>1
  <2> QED
    BY Zenon, <2>1
<1>3. n \in 0..MaxBlocks /\ m \in 0..n
  OBVIOUS
<1>4. \A r \in Rollup : {i \in 1..m : chain'[i].verified = r} = {i \in 1..m : chain[i].verified = r}
  BY <1>2
<1>5. MainnetDeposits(m)' = MainnetDeposits(m)
  BY Zenon, <1>2, <1>3, DepositsAgree DEF MainnetDeposits
<1>6. Exits(m)' = Exits(m)
  BY Zenon, <1>4 DEF Exits, Rollup
<1> QED
  BY Zenon, <1>5, <1>6 DEF Ger
-----------------------------------------------------------------------------
\* A row that is completed keeps its other fields.
LEMMA CompletedRow ==
  ASSUME NEW S, NEW r \in RowSet(S)
  PROVE  /\ [r EXCEPT !.full = TRUE] \in RowSet(S)
         /\ [r EXCEPT !.full = TRUE].full = TRUE
         /\ [r EXCEPT !.full = TRUE].ger = r.ger
         /\ [r EXCEPT !.full = TRUE].allowed = r.allowed
  BY Zenon DEF RowSet

\* A row that is removed keeps its other fields.
LEMMA RemovedRow ==
  ASSUME NEW S, NEW r \in RowSet(S)
  PROVE  /\ [r EXCEPT !.allowed = FALSE] \in RowSet(S)
         /\ [r EXCEPT !.allowed = FALSE].allowed = FALSE
  BY Zenon DEF RowSet

\* A sequence over a set is one over a larger set.
LEMMA SeqGrows ==
  ASSUME NEW A, NEW B, A \subseteq B, NEW q \in Seq(A)
  PROVE  q \in Seq(B)
  OBVIOUS

\* A sequence whose elements are replaced.
LEMMA SeqMapped ==
  ASSUME NEW A, NEW q \in Seq(A), NEW p, p = [i \in DOMAIN q |-> p[i]],
         \A i \in DOMAIN q : p[i] \in A
  PROVE  p \in Seq(A)
<1>1. DOMAIN q = 1..Len(q) /\ Len(q) \in Nat
  OBVIOUS
<1>2. p \in [1..Len(q) -> A]
  BY Zenon, <1>1
<1> QED
  BY <1>1, <1>2

\* What a step does to the rows of L2 and to the row that is being stored.
LEMMA RowTypesStep == RowTypes /\ [MCNext]_MCvars => RowTypes'
<1> SUFFICES ASSUME RowTypes, [MCNext]_MCvars PROVE RowTypes'
  BY Zenon
<1>0. MaxBlocks \in Nat /\ synced \in Nat /\ chain \in Chains
  BY Zenon, BlocksBound DEF RowTypes
<1>1. PICK S : gers \in Seq(RowSet(S))
  BY Zenon DEF RowTypes
<1>2. ASSUME UNCHANGED <<chain, synced, l2Row, gers>>, l2Pc' = "store" => l2Pc = "store"
      PROVE  RowTypes'
  BY Zenon, <1>2 DEF RowTypes
<1>3. CASE L1Begin
  BY Zenon, <1>2, <1>3 DEF L1Begin, l2Vars
<1>4. CASE L1Commit
  <2>1. /\ gers' = [i \in DOMAIN gers |->
                     IF i \in l1Tx[1] THEN [gers[i] EXCEPT !.full = TRUE] ELSE gers[i]]
        /\ synced' = synced + 1 /\ UNCHANGED <<chain, l2Pc, l2Row>>
    BY Zenon, <1>4 DEF L1Commit, l2Vars
  <2>2. \A i \in DOMAIN gers : gers'[i] \in RowSet(S)
    BY <1>1, <2>1, CompletedRow
  <2>3. gers' = [i \in DOMAIN gers |-> gers'[i]]
    BY Zenon, <2>1
  <2>4. gers' \in Seq(RowSet(S))
    BY Zenon, <1>1, <2>2, <2>3, SeqMapped
  <2>5. chain' \in Chains /\ synced' \in Nat
    BY <1>0, <2>1
  <2>6. l2Pc' = "store" => \E T, row : row \in RowSet(T) /\ l2Row' = <<row>>
    BY Zenon, <2>1 DEF RowTypes
  <2> QED
    BY Zenon, <2>4, <2>5, <2>6 DEF RowTypes
<1>5. ASSUME NEW n \in 0..(MaxBlocks - 1), NEW fork \in Chains, Reorg(n, fork)
      PROVE  RowTypes'
  <2>1. chain' = fork /\ synced' = Min({synced, n}) /\ UNCHANGED <<l2Pc, l2Row, gers>>
    BY Zenon, <1>5 DEF Reorg, l2Vars
  <2>2. synced' \in Nat
    BY <1>0, <2>1, MinOfTwo
  <2> QED
    BY Zenon, <2>1, <2>2 DEF RowTypes
<1>6. CASE L2Deposit \/ L2RemoveRefused \/ L2Announce
  BY Zenon, <1>2, <1>6 DEF L2Deposit, L2RemoveRefused, L2Announce, l1Vars
<1>7. ASSUME NEW n \in DOMAIN chain, L2Begin(n) PROVE RowTypes'
  <2> DEFINE row == [ger |-> Ger(n), full |-> IsL1Ger(Ger(n)), allowed |-> TRUE]
  <2>1. l2Row' = <<row>> /\ UNCHANGED <<chain, synced, gers>>
    BY Zenon, <1>7 DEF L2Begin, l1Vars
  <2>2. IsL1Ger(Ger(n)) \in BOOLEAN
    BY Zenon DEF IsL1Ger
  <2>3. row \in RowSet({Ger(n)})
    BY Zenon, <2>2 DEF RowSet
  <2>4. \E T, r : r \in RowSet(T) /\ l2Row' = <<r>>
    BY Zenon, <2>1, <2>3
  <2> QED
    BY Zenon, <2>1, <2>4 DEF RowTypes
<1>8. CASE L2Commit
  <2>1. /\ l2Pc = "store" /\ l2Pc' # "store" /\ UNCHANGED <<chain, synced>>
        /\ gers' = Append(gers, l2Row[1])
    BY Zenon, <1>8 DEF L2Commit, l1Vars
  <2>2. PICK T, row : row \in RowSet(T) /\ l2Row = <<row>>
    BY Zenon, <2>1 DEF RowTypes
  <2>3. gers \in Seq(RowSet(S \cup T)) /\ row \in RowSet(S \cup T)
    <3>1. RowSet(S) \subseteq RowSet(S \cup T) /\ RowSet(T) \subseteq RowSet(S \cup T)
      BY Zenon DEF RowSet
    <3> QED
      BY Zenon, <3>1, <1>1, <2>2, SeqGrows
  <2>4. gers' \in Seq(RowSet(S \cup T))
    BY <2>1, <2>2, <2>3
  <2> QED
    BY Zenon, <2>1, <2>4 DEF RowTypes
<1>9. ASSUME NEW i \in DOMAIN gers, L2Remove(i) PROVE RowTypes'
  <2>1. gers' = [gers EXCEPT ![i].allowed = FALSE] /\ UNCHANGED <<chain, synced, l2Pc, l2Row>>
    BY Zenon, <1>9 DEF L2Remove, l1Vars
  <2>2. \A j \in DOMAIN gers : gers'[j] \in RowSet(S)
    <3>1. [gers[i] EXCEPT !.allowed = FALSE] \in RowSet(S)
      BY <1>1, RemovedRow
    <3> QED
      BY <1>1, <2>1, <3>1
  <2>3. gers' = [j \in DOMAIN gers |-> gers'[j]]
    BY Zenon, <2>1
  <2>4. gers' \in Seq(RowSet(S))
    BY Zenon, <1>1, <2>2, <2>3, SeqMapped
  <2> QED
    BY Zenon, <2>1, <2>4 DEF RowTypes
<1>10. ASSUME NEW e \in events, Process(e) PROVE RowTypes'
  BY Zenon, <1>2, <1>10 DEF Process, l1Vars, l2Vars
<1>11. CASE UNCHANGED MCvars
  BY Zenon, <1>2, <1>11 DEF MCvars, vars, l1Vars, l2Vars
<1> QED
  BY Zenon, <1>3, <1>4, <1>5, <1>6, <1>7, <1>8, <1>9, <1>10, <1>11 DEF MCNext, Next

-----------------------------------------------------------------------------
\* The steps that leave the rows and L1 alone, and store no row.
LEMMA ExchangeKept ==
  ASSUME Exchange, past \subseteq past', UNCHANGED <<chain, synced, l1Tx, gers>>,
         l2Pc' = "store" => l2Pc = "store" /\ l2Row' = l2Row
  PROVE  Exchange'
<1>1. \A g : IsL1Ger(g)' = IsL1Ger(g)
  BY Zenon DEF IsL1Ger, Ger, MainnetDeposits, Exits
<1>2. Ger(synced + 1)' = Ger(synced + 1)
  BY Zenon DEF Ger, MainnetDeposits, Exits
<1>3. \A i : Waits(i) => Waits(i)'
  BY Zenon, <1>1, <1>2 DEF Waits
<1> QED
  BY Zenon, <1>1, <1>3 DEF Exchange

\* When both transactions are open after a step, that is recorded.
LEMMA OverlapRecorded ==
  ASSUME past' = past \cup Happened, l1Tx' # <<>>, l2Pc' = "store"
  PROVE  "overlap" \in past'
  BY Zenon DEF Happened, Overlap

\* No step makes a row wait for a root that L1 has.
LEMMA ExchangeStep == RowTypes /\ Exchange /\ [MCNext]_MCvars => Exchange'
<1> SUFFICES ASSUME RowTypes, Exchange, [MCNext]_MCvars PROVE Exchange'
  BY Zenon
<1>0. MaxBlocks \in Nat /\ synced \in Nat /\ chain \in Chains
  BY Zenon, BlocksBound DEF RowTypes
<1>1. past \subseteq past' /\ ("overlap" \notin past' => "overlap" \notin past)
  BY Zenon DEF MCNext, MCvars
<1>2. l1Tx' # <<>> /\ l2Pc' = "store" => past' = past \/ "overlap" \in past'
  BY Zenon, OverlapRecorded DEF MCNext, MCvars
<1>3. PICK S : gers \in Seq(RowSet(S))
  BY Zenon DEF RowTypes
<1>4. CASE L1Begin
  <2> SUFFICES ASSUME "overlap" \notin past' PROVE Exchange'
    BY Zenon DEF Exchange
  <2>1. /\ l1Tx' = <<Incomplete(Ger(synced + 1))>>
        /\ UNCHANGED <<chain, synced, gers, l2Pc, l2Row>>
    BY Zenon, <1>4 DEF L1Begin, l2Vars
  <2>2. \A g : IsL1Ger(g)' = IsL1Ger(g)
    BY Zenon, <2>1 DEF IsL1Ger, Ger, MainnetDeposits, Exits
  <2>3. Ger(synced + 1)' = Ger(synced + 1)
    BY Zenon, <2>1 DEF Ger, MainnetDeposits, Exits
  <2>4. \A i \in DOMAIN gers : Waits(i)'
    BY Zenon, <1>1, <2>1, <2>2, <2>3 DEF Waits, Exchange, Incomplete
  <2>5. l2Pc' # "store"
    <3>1. MCNext
      BY <1>4, <2>1 DEF L1Begin, MCvars, vars, l1Vars
    <3> QED
      BY Zenon, <2>1, <3>1, OverlapRecorded DEF MCNext
  <2> QED
    BY Zenon, <2>1, <2>4, <2>5 DEF Exchange
<1>5. CASE L1Commit
  <2> SUFFICES ASSUME "overlap" \notin past' PROVE Exchange'
    BY Zenon DEF Exchange
  <2>1. /\ l1Tx # <<>> /\ l1Tx' = <<>> /\ synced' = synced + 1
        /\ gers' = [i \in DOMAIN gers |->
                     IF i \in l1Tx[1] THEN [gers[i] EXCEPT !.full = TRUE] ELSE gers[i]]
        /\ UNCHANGED <<chain, l2Pc, l2Row>>
    BY Zenon, <1>5 DEF L1Commit, l2Vars
  <2>2. l2Pc' # "store" /\ \A i \in DOMAIN gers : Waits(i)
    BY Zenon, <1>1, <2>1 DEF Exchange
  <2>3. \A n : Ger(n)' = Ger(n)
    BY Zenon, <2>1 DEF Ger, MainnetDeposits, Exits
  <2>4. \A g : IsL1Ger(g)' => IsL1Ger(g) \/ g = Ger(synced + 1)
    <3>1. 1..(synced + 1) = (1..synced) \cup {synced + 1}
      BY <1>0
    <3> QED
      BY Zenon, <2>1, <2>3, <3>1 DEF IsL1Ger
  <2>5. ASSUME NEW i \in DOMAIN gers, gers'[i].allowed, ~gers'[i].full
        PROVE  ~IsL1Ger(gers[i].ger)'
    <3>1. gers[i] \in RowSet(S)
      BY <1>3
    <3>2. i \notin l1Tx[1]
      BY Zenon, <2>1, <2>5, <3>1, CompletedRow
    <3>3. gers'[i] = gers[i]
      BY Zenon, <2>1, <3>2
    <3>4. ~IsL1Ger(gers[i].ger) /\ gers[i].ger # Ger(synced + 1)
      BY Zenon, <2>1, <2>2, <2>5, <3>2, <3>3 DEF Waits
    <3> QED
      BY Zenon, <2>4, <3>3, <3>4
  <2>6. DOMAIN gers' = DOMAIN gers
    BY Zenon, <2>1
  <2>7. \A i \in DOMAIN gers' : Waits(i)'
    BY Zenon, <2>1, <2>5, <2>6 DEF Waits
  <2> QED
    BY Zenon, <2>1, <2>2, <2>7 DEF Exchange
<1>6. ASSUME NEW n \in 0..(MaxBlocks - 1), NEW fork \in Chains, Reorg(n, fork)
      PROVE  Exchange'
  <2> SUFFICES ASSUME "overlap" \notin past' PROVE Exchange'
    BY Zenon DEF Exchange
  <2>1. /\ l1Tx' = <<>> /\ chain' = fork /\ synced' = Min({synced, n})
        /\ SubSeq(chain', 1, n) = SubSeq(chain, 1, n)
        /\ UNCHANGED <<l2Pc, l2Row, gers>>
    BY Zenon, <1>6 DEF Reorg, l2Vars
  <2>2. synced' \in Nat /\ synced' <= synced /\ synced' <= n
    BY <1>0, <2>1, MinOfTwo
  <2>3. ASSUME NEW g, IsL1Ger(g)' PROVE IsL1Ger(g)
    <3>1. PICK m \in 1..synced' : Ger(m)' = g
      BY Zenon, <2>3 DEF IsL1Ger
    <3>2. m \in 1..n /\ m \in 1..synced
      BY <1>0, <2>2
    <3>3. Ger(m)' = Ger(m)
      BY Zenon, <1>0, <2>1, <3>2, GerOfPrefix
    <3> QED
      BY Zenon, <3>1, <3>2, <3>3 DEF IsL1Ger
  <2>4. \A i \in DOMAIN gers' : Waits(i)'
    BY Zenon, <1>1, <2>1, <2>3 DEF Waits, Exchange
  <2>5. l2Pc' = "store" => (l2Row'[1].full \/ ~IsL1Ger(l2Row[1].ger)')
    BY Zenon, <1>1, <2>1, <2>3 DEF Exchange
  <2> QED
    BY Zenon, <2>1, <2>4, <2>5 DEF Exchange
<1>7. CASE L2Deposit \/ L2RemoveRefused \/ L2Announce
  BY Zenon, <1>1, <1>7, ExchangeKept DEF L2Deposit, L2RemoveRefused, L2Announce, l1Vars
<1>8. ASSUME NEW n \in DOMAIN chain, L2Begin(n) PROVE Exchange'
  <2> SUFFICES ASSUME "overlap" \notin past' PROVE Exchange'
    BY Zenon DEF Exchange
  <2>1. /\ l2Pc = "idle" /\ l2Pc' = "store"
        /\ l2Row' = <<[ger |-> Ger(n), full |-> IsL1Ger(Ger(n)), allowed |-> TRUE]>>
        /\ UNCHANGED <<chain, synced, l1Tx, gers>>
    BY Zenon, <1>8 DEF L2Begin, l1Vars
  <2>2. \A g : IsL1Ger(g)' = IsL1Ger(g)
    BY Zenon, <2>1 DEF IsL1Ger, Ger, MainnetDeposits, Exits
  <2>3. Ger(synced + 1)' = Ger(synced + 1)
    BY Zenon, <2>1 DEF Ger, MainnetDeposits, Exits
  <2>4. \A i \in DOMAIN gers' : Waits(i)'
    BY Zenon, <1>1, <2>1, <2>2, <2>3 DEF Waits, Exchange
  <2>5. l2Row'[1].full \/ ~IsL1Ger(l2Row[1].ger)'
    BY Zenon, <2>1, <2>2
  <2>6. l1Tx' = <<>>
    <3>1. MCNext
      BY Zenon, <1>8, <2>1 DEF MCvars, vars, l2Vars
    <3> QED
      BY Zenon, <2>1, <3>1, OverlapRecorded DEF MCNext
  <2> QED
    BY Zenon, <2>1, <2>4, <2>5, <2>6 DEF Exchange
<1>9. CASE L2Commit
  <2> SUFFICES ASSUME "overlap" \notin past' PROVE Exchange'
    BY Zenon DEF Exchange
  <2>1. /\ l2Pc = "store" /\ l2Pc' = "announce"
        /\ gers' = Append(gers, l2Row[1])
        /\ UNCHANGED <<chain, synced, l1Tx>>
    BY Zenon, <1>9 DEF L2Commit, l1Vars
  <2>2. \A g : IsL1Ger(g)' = IsL1Ger(g)
    BY Zenon, <2>1 DEF IsL1Ger, Ger, MainnetDeposits, Exits
  <2>3. l1Tx' = <<>> /\ (\A i \in DOMAIN gers : Waits(i))
        /\ (l2Row[1].full \/ ~IsL1Ger(l2Row[1].ger))
    BY Zenon, <1>1, <2>1 DEF Exchange
  <2>4. ASSUME NEW i \in DOMAIN gers', gers'[i].allowed, ~gers'[i].full
        PROVE  ~IsL1Ger(gers[i].ger)'
    <3>1. gers'[i] = l2Row[1] \/ (i \in DOMAIN gers /\ gers'[i] = gers[i])
      BY <1>3, <2>1
    <3>2. ~IsL1Ger(gers'[i].ger)
      BY Zenon, <2>3, <2>4, <3>1 DEF Waits
    <3> QED
      BY Zenon, <2>2, <3>2
  <2> QED
    BY Zenon, <2>1, <2>3, <2>4 DEF Exchange, Waits
<1>10. ASSUME NEW i \in DOMAIN gers, L2Remove(i) PROVE Exchange'
  <2> SUFFICES ASSUME "overlap" \notin past' PROVE Exchange'
    BY Zenon DEF Exchange
  <2>1. /\ gers' = [gers EXCEPT ![i].allowed = FALSE]
        /\ UNCHANGED <<chain, synced, l1Tx, l2Pc, l2Row>>
    BY Zenon, <1>10 DEF L2Remove, l1Vars
  <2>2. \A g : IsL1Ger(g)' = IsL1Ger(g)
    BY Zenon, <2>1 DEF IsL1Ger, Ger, MainnetDeposits, Exits
  <2>3. Ger(synced + 1)' = Ger(synced + 1)
    BY Zenon, <2>1 DEF Ger, MainnetDeposits, Exits
  <2>4. gers[i] \in RowSet(S)
    BY <1>3
  <2>5. gers'[i].allowed = FALSE
    BY Zenon, <1>3, <2>1, <2>4, RemovedRow
  <2>6. \A j \in DOMAIN gers \ {i} : gers'[j] = gers[j]
    BY Zenon, <2>1
  <2>7. \A j \in DOMAIN gers : Waits(j)'
    BY Zenon, <1>1, <2>1, <2>2, <2>3, <2>5, <2>6 DEF Waits, Exchange
  <2>8. DOMAIN gers' = DOMAIN gers
    BY Zenon, <2>1
  <2> QED
    BY Zenon, <1>1, <2>1, <2>2, <2>7, <2>8 DEF Exchange
<1>11. ASSUME NEW e \in events, Process(e) PROVE Exchange'
  BY Zenon, <1>1, <1>11, ExchangeKept DEF Process, l1Vars, l2Vars
<1>12. CASE UNCHANGED MCvars
  BY Zenon, <1>1, <1>12, ExchangeKept DEF MCvars, vars, l1Vars, l2Vars
<1> QED
  BY Zenon, <1>4, <1>5, <1>6, <1>7, <1>8, <1>9, <1>10, <1>11, <1>12 DEF MCNext, Next

\* Every row of L2 whose roots L1 has stored is complete, on every chain and through
\* every reorganisation and removal, unless the two transactions overlapped
\* (processGlobalExitRoot).
THEOREM RowsAreCompleted == MCSpec => []RowsCompleted
<1>1. MCInit => RowTypes /\ Exchange
  <2> SUFFICES ASSUME MCInit PROVE RowTypes /\ Exchange
    BY Zenon
  <2>1. chain \in Chains /\ synced = 0 /\ gers = <<>> /\ l1Tx = <<>> /\ l2Pc = "idle"
    BY Zenon DEF MCInit, Init
  <2>2. gers \in Seq(RowSet({}))
    BY <2>1
  <2> QED
    BY <2>1, <2>2 DEF RowTypes, Exchange
<1>2. RowTypes /\ Exchange /\ [MCNext]_MCvars => (RowTypes /\ Exchange)'
  BY Zenon, RowTypesStep, ExchangeStep
<1>3. Exchange => RowsCompleted
  BY Zenon DEF Exchange, Waits, RowsCompleted
<1> QED
  BY <1>1, <1>2, <1>3, PTL DEF MCSpec
-----------------------------------------------------------------------------
(***************************************************************************)
(* The flags of the L1 deposits.                                           *)
(***************************************************************************)
\* Row i is allowed and covers the first d deposits that L1 has now.
Covers(i, d) ==
  /\ gers[i].allowed
  /\ d <= Len(gers[i].ger.main)
  /\ \A k \in 1..d : gers[i].ger.main[k] = MainnetDeposits(synced)[k]

\* The types that the flags depend on.
FlagTypes ==
  /\ chain \in Chains /\ synced \in 0..MaxBlocks
  /\ l1Tx # <<>> => synced + 1 \in 0..MaxBlocks
  /\ \A i \in DOMAIN gers : gers[i].ger.main \in Seq(Content)
  /\ l2Pc = "store" => l2Row[1].ger.main \in Seq(Content)
  /\ \A e \in events : e.ger.main \in Seq(Content)
  /\ removals \in Nat
  /\ \A d : <<0, d>> \in ready => d \in 1..Len(MainnetDeposits(synced))

\* As long as no flag outlived its root: every root of L2 that is still to be processed
\* is allowed, and every deposit that is ready is covered.
Flags ==
  {"late", "stacked"} \cap past = {} =>
    /\ \A e \in events : ~e.l1 => \E i \in DOMAIN gers : gers[i].allowed /\ gers[i].ger = e.ger
    /\ \A d : <<0, d>> \in ready => \E i \in DOMAIN gers : Covers(i, d)

\* The latest trusted root is the last one that is allowed.
LEMMA LatestIsAllowed ==
  ASSUME RowTypes, Usable(LatestTrusted)
  PROVE  /\ LatestTrusted \in DOMAIN gers /\ gers[LatestTrusted].allowed
         /\ \A i \in DOMAIN gers : gers[i].allowed => i <= LatestTrusted
<1> DEFINE I == {i \in 1..Len(gers) : gers[i].allowed}
<1>1. PICK S : gers \in Seq(RowSet(S))
  BY Zenon DEF RowTypes
<1>2. Len(gers) \in Nat /\ DOMAIN gers = 1..Len(gers)
  BY <1>1
<1>3. LatestTrusted = Max({0} \cup I)
  BY Zenon, <1>2 DEF LatestTrusted
<1>4. {0} \cup I \in SUBSET (0..Len(gers)) /\ ~(0 > 0)
  BY <1>2
<1> HIDE DEF I
<1>5. LatestTrusted \in {0} \cup I /\ \A i \in {0} \cup I : i <= LatestTrusted
  BY Zenon, <1>2, <1>3, <1>4, MaxOf
<1>6. LatestTrusted \in I
  BY Zenon, <1>4, <1>5 DEF Usable
<1> QED
  BY Zenon, <1>2, <1>5, <1>6 DEF I

\* What the deposits of L1 are, and how the synchronizer sees them.
LEMMA MainnetFacts ==
  ASSUME FlagTypes, NEW n \in 0..MaxBlocks
  PROVE  /\ MainnetDeposits(n) \in Seq(Content) /\ Ger(n).main = MainnetDeposits(n)
         /\ Len(MainnetDeposits(n)) \in Nat
<1>1. MainnetDeposits(n) \in Seq(Content)
  BY Zenon, DepositTypes DEF MainnetDeposits, FlagTypes
<1>2. Len(MainnetDeposits(n)) \in Nat
  BY <1>1
<1>3. Ger(n).main = MainnetDeposits(n)
  <2> DEFINE m == MainnetDeposits(n)
             x == Exits(n)
  <2> HIDE DEF m, x
  <2>1. Ger(n) = [main |-> m, rollups |-> x]
    BY Zenon DEF Ger, m, x
  <2>2. Ger(n).main = m
    BY <2>1
  <2> QED
    BY Zenon, <2>2 DEF m
<1> QED
  BY Zenon, <1>1, <1>2, <1>3

\* A removal that the flags may outlive is recorded.
LEMMA OutlivedRecorded ==
  ASSUME past' = past \cup Happened, {"late", "stacked"} \cap past' = {}
  PROVE  ~Late /\ ~Stacked
  BY Zenon DEF Happened

\* A row goes on covering deposits that stay as they are.
LEMMA CoversKept ==
  ASSUME NEW i, NEW d, Covers(i, d), gers'[i].allowed, gers'[i].ger = gers[i].ger,
         \A k \in 1..d : MainnetDeposits(synced)'[k] = MainnetDeposits(synced)[k]
  PROVE  Covers(i, d)'
  BY Zenon DEF Covers

\* The steps that leave the rows of L2, the flags and L1 alone.
LEMMA FlagsKept ==
  ASSUME FlagTypes, Flags, past \subseteq past', UNCHANGED <<chain, synced, gers, ready>>,
         l1Tx' # <<>> => synced + 1 \in 0..MaxBlocks,
         l2Pc' = "store" => l2Row'[1].ger.main \in Seq(Content), removals' \in Nat,
         \A e \in events' : \/ e \in events
                            \/ \E i \in DOMAIN gers : gers[i].allowed /\ gers[i].ger = e.ger
  PROVE  FlagTypes' /\ Flags'
<1>1. MainnetDeposits(synced)' = MainnetDeposits(synced)
  BY Zenon DEF MainnetDeposits
<1>2. \A e \in events' : e.ger.main \in Seq(Content)
  BY Zenon DEF FlagTypes
<1>3. FlagTypes'
  BY Zenon, <1>1, <1>2 DEF FlagTypes
<1>4. \A i, d : Covers(i, d) => Covers(i, d)'
  BY Zenon, <1>1 DEF Covers
<1>5. {"late", "stacked"} \cap past' = {} => {"late", "stacked"} \cap past = {}
  BY Zenon
<1>6. Flags'
  BY Zenon, <1>4, <1>5 DEF Flags
<1> QED
  BY Zenon, <1>3, <1>6

\* A goroutine sets the flags of the deposits its root covers.
LEMMA ProcessFlags ==
  ASSUME FlagTypes, Flags, past \subseteq past', NEW e \in events, Process(e)
  PROVE  FlagTypes' /\ Flags'
<1> DEFINE M == MainnetDeposits(synced)
           g == e.ger.main
<1>1. /\ events' = events \ {e}
      /\ UNCHANGED <<chain, synced, gers, l1Tx, l2Pc, l2Row, removals>>
  BY Zenon DEF Process, l1Vars, l2Vars
<1>2. \A d : <<0, d>> \in ready' =>
        <<0, d>> \in ready \/ (~e.l1 /\ IsMainnetRoot(g) /\ d \in 1..Len(g))
  <2>1. Synced # 0
    <3>1. Synced \in 1..Width[0]
      BY Zenon, ExitRootsAssumption DEF Rollup
    <3> QED
      BY <3>1
  <2>2. ASSUME NEW d, NEW X, <<0, d>> \in {Synced} \X X PROVE FALSE
    BY <2>1, <2>2
  <2>3. ASSUME NEW d, <<0, d>> \in {0} \X CoveredL1(e.ger)
        PROVE  IsMainnetRoot(g) /\ d \in 1..Len(g)
    <3>1. d \in CoveredL1(e.ger)
      BY <2>3
    <3> QED
      BY Zenon, <3>1 DEF CoveredL1
  <2> QED
    BY Zenon, <2>2, <2>3 DEF Process
<1>3. M \in Seq(Content) /\ Len(M) \in Nat /\ g \in Seq(Content)
  BY Zenon, MainnetFacts DEF FlagTypes
<1>4. ASSUME IsMainnetRoot(g)
      PROVE  Len(g) <= Len(M) /\ \A k \in 1..Len(g) : g[k] = M[k]
  BY Zenon, <1>3, <1>4, PrefixElements DEF IsMainnetRoot
<1>5. MainnetDeposits(synced)' = M
  BY Zenon, <1>1 DEF MainnetDeposits
<1> HIDE DEF M, g
<1>6. \A d : <<0, d>> \in ready' => d \in 1..Len(M)
  <2>1. \A d : <<0, d>> \in ready => d \in 1..Len(M)
    BY Zenon DEF FlagTypes, M
  <2>2. ASSUME NEW d \in 1..Len(g), Len(g) <= Len(M) PROVE d \in 1..Len(M)
    BY <1>3, <2>2
  <2> QED
    BY Zenon, <1>2, <1>4, <2>1, <2>2
<1>7. \A x \in events' : x.ger.main \in Seq(Content)
  BY Zenon, <1>1 DEF FlagTypes
<1>8. FlagTypes'
  BY Zenon, <1>1, <1>5, <1>6, <1>7 DEF FlagTypes
<1>9. Flags'
  <2> SUFFICES ASSUME {"late", "stacked"} \cap past' = {} PROVE Flags'
    BY Zenon DEF Flags
  <2>1. /\ \A x \in events : ~x.l1 => \E i \in DOMAIN gers : gers[i].allowed /\ gers[i].ger = x.ger
        /\ \A d : <<0, d>> \in ready => \E i \in DOMAIN gers : Covers(i, d)
    <3>1. {"late", "stacked"} \cap past = {}
      BY Zenon
    <3> QED
      BY Zenon, <3>1 DEF Flags
  <2>2. \A i, d : Covers(i, d) => Covers(i, d)'
    BY Zenon, <1>1, <1>5 DEF Covers, M
  <2>3. ASSUME NEW d, ~e.l1, IsMainnetRoot(g), d \in 1..Len(g)
        PROVE  \E i \in DOMAIN gers : Covers(i, d)
    <3>1. PICK i \in DOMAIN gers : gers[i].allowed /\ gers[i].ger = e.ger
      BY Zenon, <2>1, <2>3
    <3>2. gers[i].ger.main = g
      BY Zenon, <3>1 DEF g
    <3>3. d <= Len(g) /\ \A k \in 1..d : k \in 1..Len(g)
      BY <1>3, <2>3
    <3>4. \A k \in 1..d : g[k] = M[k]
      BY Zenon, <1>4, <2>3, <3>3
    <3> QED
      BY Zenon, <3>1, <3>2, <3>3, <3>4 DEF Covers, M
  <2>4. \A d : <<0, d>> \in ready' => \E i \in DOMAIN gers : Covers(i, d)'
    BY Zenon, <1>2, <2>1, <2>2, <2>3
  <2> QED
    BY Zenon, <1>1, <2>1, <2>4 DEF Flags
<1> QED
  BY Zenon, <1>8, <1>9

\* L1 stores a block: the flags and what covers them stay.
LEMMA L1CommitFlags ==
  ASSUME RowTypes, FlagTypes, Flags, past \subseteq past', L1Commit
  PROVE  FlagTypes' /\ Flags'
<1> DEFINE n == synced + 1
           M == MainnetDeposits(synced)
           N == MainnetDeposits(n)
<1>1. /\ l1Tx # <<>> /\ l1Tx' = <<>> /\ synced' = n
      /\ gers' = [i \in DOMAIN gers |->
                   IF i \in l1Tx[1] THEN [gers[i] EXCEPT !.full = TRUE] ELSE gers[i]]
      /\ UNCHANGED <<chain, ready, l2Pc, l2Row, removals>>
  BY Zenon DEF L1Commit, l2Vars
<1>2. \A e \in events' : e \in events \/ e = [ger |-> Ger(n), l1 |-> TRUE]
  BY Zenon DEF L1Commit
<1>3. n \in 0..MaxBlocks /\ synced \in 0..MaxBlocks /\ chain \in Chains
  BY Zenon, <1>1 DEF FlagTypes
<1>4. synced <= n
  BY <1>3
<1>5. /\ M \in Seq(Content) /\ Len(M) \in Nat /\ N \in Seq(Content) /\ Len(N) \in Nat
      /\ Ger(n).main = N
  BY Zenon, <1>3, MainnetFacts
<1>6. Len(M) <= Len(N) /\ \A k \in 1..Len(M) : M[k] = N[k]
  BY Zenon, <1>3, <1>4, DepositsGrow DEF MainnetDeposits
<1>7. MainnetDeposits(synced)' = N
  BY Zenon, <1>1 DEF MainnetDeposits
<1>8. /\ DOMAIN gers' = DOMAIN gers
      /\ \A i \in DOMAIN gers : gers'[i].ger = gers[i].ger /\ gers'[i].allowed = gers[i].allowed
  <2>1. PICK S : gers \in Seq(RowSet(S))
    BY Zenon DEF RowTypes
  <2>2. \A i \in DOMAIN gers : gers[i] \in RowSet(S)
    BY <2>1
  <2> QED
    BY Zenon, <1>1, <2>2, CompletedRow
<1> DEFINE e0 == [ger |-> Ger(n), l1 |-> TRUE]
<1>9. e0.ger = Ger(n) /\ e0.l1
  <2> DEFINE G == Ger(n)
  <2> HIDE DEF G
  <2>1. [ger |-> G, l1 |-> TRUE].ger = G /\ [ger |-> G, l1 |-> TRUE].l1
    BY Zenon
  <2> QED
    BY Zenon, <2>1 DEF G
<1> HIDE DEF n, M, N, e0
<1>10. \A d : <<0, d>> \in ready =>
        d \in 1..Len(M) /\ d \in 1..Len(N) /\ \A k \in 1..d : k \in 1..Len(M)
  <2>1. \A d : <<0, d>> \in ready => d \in 1..Len(M)
    BY Zenon DEF FlagTypes, M
  <2>2. \A d \in 1..Len(M) : d \in 1..Len(N) /\ \A k \in 1..d : k \in 1..Len(M)
    BY <1>5, <1>6
  <2> QED
    BY Zenon, <2>1, <2>2
<1>11. FlagTypes'
  <2>1. \A e \in events' : e.ger.main \in Seq(Content)
    BY Zenon, <1>2, <1>5, <1>9 DEF FlagTypes, e0
  <2>2. \A d : <<0, d>> \in ready' => d \in 1..Len(MainnetDeposits(synced)')
    BY Zenon, <1>1, <1>7, <1>10
  <2> QED
    BY Zenon, <1>1, <1>3, <1>8, <2>1, <2>2 DEF FlagTypes
<1>12. Flags'
  <2> SUFFICES ASSUME {"late", "stacked"} \cap past' = {} PROVE Flags'
    BY Zenon DEF Flags
  <2>1. /\ \A e \in events : ~e.l1 => \E i \in DOMAIN gers : gers[i].allowed /\ gers[i].ger = e.ger
        /\ \A d : <<0, d>> \in ready => \E i \in DOMAIN gers : Covers(i, d)
    <3>1. {"late", "stacked"} \cap past = {}
      BY Zenon
    <3> QED
      BY Zenon, <3>1 DEF Flags
  <2>2. ASSUME NEW i \in DOMAIN gers, NEW d, <<0, d>> \in ready, Covers(i, d)
        PROVE  Covers(i, d)'
    <3>1. gers'[i].allowed /\ gers'[i].ger = gers[i].ger
      BY Zenon, <1>8, <2>2 DEF Covers
    <3>2. \A k \in 1..d : MainnetDeposits(synced)'[k] = MainnetDeposits(synced)[k]
      BY Zenon, <1>6, <1>7, <1>10, <2>2 DEF M
    <3> QED
      BY Zenon, <2>2, <3>1, <3>2, CoversKept
  <2>3. \A e \in events' : ~e.l1 => \E i \in DOMAIN gers' : gers'[i].allowed /\ gers'[i].ger = e.ger
    BY Zenon, <1>2, <1>8, <1>9, <2>1 DEF e0
  <2>4. \A d : <<0, d>> \in ready' => \E i \in DOMAIN gers' : Covers(i, d)'
    BY Zenon, <1>1, <1>8, <2>1, <2>2
  <2> QED
    BY Zenon, <2>3, <2>4 DEF Flags
<1> QED
  BY Zenon, <1>11, <1>12

\* L1 is reorganised: the flags of the deposits that stay are left.
LEMMA ReorgFlags ==
  ASSUME FlagTypes, Flags, past \subseteq past', NEW n \in 0..(MaxBlocks - 1),
         NEW fork \in Chains, Reorg(n, fork)
  PROVE  FlagTypes' /\ Flags'
<1> DEFINE s == Min({synced, n})
           M == MainnetDeposits(synced)
           N == MainnetDeposits(s)
<1>1. /\ l1Tx' = <<>> /\ synced' = s /\ chain' = fork /\ ready' = FlagsUpTo(s)
      /\ SubSeq(fork, 1, n) = SubSeq(chain, 1, n)
      /\ UNCHANGED <<l2Pc, l2Row, removals, gers, events>>
  BY Zenon DEF Reorg, l2Vars
<1>2. MaxBlocks \in Nat /\ synced \in 0..MaxBlocks /\ chain \in Chains /\ n \in Nat
  BY BlocksBound DEF FlagTypes
<1>3. s \in Nat /\ s <= synced /\ s <= n
  <2>1. synced \in Nat /\ n \in Nat
    BY <1>2
  <2> QED
    BY Zenon, <2>1, MinOfTwo
<1> HIDE DEF s
<1>4. s \in 0..MaxBlocks /\ s \in 0..n /\ n \in 0..MaxBlocks
  BY <1>2, <1>3
<1>5. M \in Seq(Content) /\ Len(M) \in Nat /\ N \in Seq(Content) /\ Len(N) \in Nat
  BY Zenon, <1>2, <1>4, MainnetFacts
<1>6. Len(N) <= Len(M) /\ \A k \in 1..Len(N) : N[k] = M[k]
  BY Zenon, <1>2, <1>3, <1>4, DepositsGrow DEF MainnetDeposits
<1>7. MainnetDeposits(synced)' = N
  <2>1. \A i \in 1..n : fork[i] = chain[i]
    <3>1. fork \in Seq(Transactions) /\ chain \in Seq(Transactions)
          /\ Len(fork) = MaxBlocks /\ Len(chain) = MaxBlocks
      BY <1>2 DEF Chains
    <3>2. ASSUME NEW i \in 1..n
          PROVE  SubSeq(fork, 1, n)[i] = fork[i] /\ SubSeq(chain, 1, n)[i] = chain[i]
      BY <1>2, <3>1
    <3> QED
      BY Zenon, <1>1, <3>2
  <2>2. DepositsOf(fork, s) = DepositsOf(chain, s)
    BY Zenon, <1>4, <2>1, DepositsAgree
  <2> QED
    BY Zenon, <1>1, <2>2 DEF MainnetDeposits
<1>8. \A d : <<0, d>> \in ready' => <<0, d>> \in ready /\ d <= Len(N)
  <2>1. \A d : <<0, d>>[1] = 0 /\ <<0, d>>[2] = d
    OBVIOUS
  <2> QED
    BY Zenon, <1>1, <2>1 DEF FlagsUpTo
<1> HIDE DEF M, N
<1>9. \A d : <<0, d>> \in ready' => d \in 1..Len(N) /\ \A k \in 1..d : k \in 1..Len(N)
  <2>1. \A d : <<0, d>> \in ready => d \in 1..Len(M)
    BY Zenon DEF FlagTypes, M
  <2>2. \A d \in 1..Len(M) : d <= Len(N) => d \in 1..Len(N) /\ \A k \in 1..d : k \in 1..Len(N)
    BY <1>5
  <2> QED
    BY Zenon, <1>8, <2>1, <2>2
<1>10. FlagTypes'
  BY Zenon, <1>1, <1>4, <1>7, <1>9 DEF FlagTypes
<1>11. Flags'
  <2> SUFFICES ASSUME {"late", "stacked"} \cap past' = {} PROVE Flags'
    BY Zenon DEF Flags
  <2>1. /\ \A e \in events : ~e.l1 => \E i \in DOMAIN gers : gers[i].allowed /\ gers[i].ger = e.ger
        /\ \A d : <<0, d>> \in ready => \E i \in DOMAIN gers : Covers(i, d)
    <3>1. {"late", "stacked"} \cap past = {}
      BY Zenon
    <3> QED
      BY Zenon, <3>1 DEF Flags
  <2>2. ASSUME NEW i \in DOMAIN gers, NEW d, <<0, d>> \in ready', Covers(i, d)
        PROVE  Covers(i, d)'
    <3>1. gers'[i].allowed /\ gers'[i].ger = gers[i].ger
      BY Zenon, <1>1, <2>2 DEF Covers
    <3>2. \A k \in 1..d : MainnetDeposits(synced)'[k] = MainnetDeposits(synced)[k]
      BY Zenon, <1>6, <1>7, <1>9, <2>2 DEF M
    <3> QED
      BY Zenon, <2>2, <3>1, <3>2, CoversKept
  <2>3. \A d : <<0, d>> \in ready' => \E i \in DOMAIN gers' : Covers(i, d)'
    BY Zenon, <1>1, <1>8, <2>1, <2>2
  <2> QED
    BY Zenon, <1>1, <2>1, <2>3 DEF Flags
<1> QED
  BY Zenon, <1>10, <1>11

\* L2 stores a row: the other rows stay.
LEMMA L2CommitFlags ==
  ASSUME RowTypes, FlagTypes, Flags, past \subseteq past', L2Commit
  PROVE  FlagTypes' /\ Flags'
<1>1. /\ l2Pc = "store" /\ l2Pc' = "announce" /\ gers' = Append(gers, l2Row[1])
      /\ UNCHANGED <<chain, synced, l1Tx, removals, ready, events>>
  BY Zenon DEF L2Commit, l1Vars
<1>2. /\ DOMAIN gers \subseteq DOMAIN gers'
      /\ \A i \in DOMAIN gers : gers'[i] = gers[i]
      /\ \A i \in DOMAIN gers' : i \in DOMAIN gers \/ gers'[i] = l2Row[1]
  <2> DEFINE row == l2Row[1]
  <2>1. PICK S : gers \in Seq(RowSet(S))
    BY Zenon DEF RowTypes
  <2>2. gers' = Append(gers, row)
    BY Zenon, <1>1
  <2> HIDE DEF row
  <2>3. /\ DOMAIN gers = 1..Len(gers) /\ DOMAIN gers' = 1..(Len(gers) + 1) /\ Len(gers) \in Nat
        /\ \A i \in 1..Len(gers) : gers'[i] = gers[i]
        /\ gers'[Len(gers) + 1] = row
    BY <2>1, <2>2
  <2>4. \A i \in 1..(Len(gers) + 1) : i \in 1..Len(gers) \/ i = Len(gers) + 1
    BY <2>3
  <2>5. 1..Len(gers) \subseteq 1..(Len(gers) + 1)
    BY <2>3
  <2> QED
    BY Zenon, <2>3, <2>4, <2>5 DEF row
<1>3. MainnetDeposits(synced)' = MainnetDeposits(synced)
  BY Zenon, <1>1 DEF MainnetDeposits
<1>4. FlagTypes'
  <2>1. \A i \in DOMAIN gers' : gers'[i].ger.main \in Seq(Content)
    BY Zenon, <1>1, <1>2 DEF FlagTypes
  <2> QED
    BY Zenon, <1>1, <1>3, <2>1 DEF FlagTypes
<1>5. Flags'
  <2>1. {"late", "stacked"} \cap past' = {} => {"late", "stacked"} \cap past = {}
    BY Zenon
  <2>2. \A i \in DOMAIN gers : \A d : Covers(i, d) => Covers(i, d)'
    BY Zenon, <1>2, <1>3 DEF Covers
  <2>3. (\A e \in events : ~e.l1 => \E i \in DOMAIN gers : gers[i].allowed /\ gers[i].ger = e.ger)
        => \A e \in events' :
             ~e.l1 => \E i \in DOMAIN gers' : gers'[i].allowed /\ gers'[i].ger = e.ger
    <3> SUFFICES ASSUME NEW e \in events, NEW i \in DOMAIN gers, gers[i].allowed,
                        gers[i].ger = e.ger
                 PROVE  \E j \in DOMAIN gers' : gers'[j].allowed /\ gers'[j].ger = e.ger
      BY Zenon, <1>1
    <3>1. i \in DOMAIN gers' /\ gers'[i] = gers[i]
      BY Zenon, <1>2
    <3> QED
      BY Zenon, <3>1
  <2>4. (\A d : <<0, d>> \in ready => \E i \in DOMAIN gers : Covers(i, d))
        => \A d : <<0, d>> \in ready' => \E i \in DOMAIN gers' : Covers(i, d)'
    BY Zenon, <1>1, <1>2, <2>2
  <2> QED
    BY Zenon, <2>1, <2>3, <2>4 DEF Flags
<1> QED
  BY Zenon, <1>4, <1>5

\* A root of L2 is removed: the deposits that keep their flags are covered by the row
\* before, or by another row.
LEMMA L2RemoveFlags ==
  ASSUME RowTypes, FlagTypes, Flags, past' = past \cup Happened,
         NEW i \in DOMAIN gers, L2Remove(i)
  PROVE  FlagTypes' /\ Flags'
<1> DEFINE M == MainnetDeposits(synced)
<1>1. /\ i > 1 /\ gers[i].allowed /\ gers' = [gers EXCEPT ![i].allowed = FALSE]
      /\ removals' = removals + 1 /\ ready' = ready \ ({0} \X Disabled(i))
      /\ UNCHANGED <<chain, synced, l1Tx, l2Pc, l2Row, events>>
  BY Zenon DEF L2Remove, l1Vars
<1>2. /\ DOMAIN gers' = DOMAIN gers /\ i - 1 \in DOMAIN gers /\ i - 1 # i
      /\ \A j \in DOMAIN gers : j # i => gers'[j] = gers[j]
      /\ ~gers'[i].allowed
      /\ \A j \in DOMAIN gers : gers'[j].ger = gers[j].ger
  <2>1. PICK S : gers \in Seq(RowSet(S))
    BY Zenon DEF RowTypes
  <2>2. i \in 1..Len(gers) /\ Len(gers) \in Nat /\ DOMAIN gers = 1..Len(gers)
    BY <2>1
  <2>3. i - 1 \in DOMAIN gers /\ i - 1 # i
    BY <1>1, <2>2
  <2>4. gers[i] \in RowSet(S)
    BY <2>1
  <2>5. gers'[i] = [gers[i] EXCEPT !.allowed = FALSE]
    BY Zenon, <1>1
  <2>6. ~gers'[i].allowed /\ gers'[i].ger = gers[i].ger
    BY Zenon, <2>4, <2>5 DEF RowSet
  <2>7. DOMAIN gers' = DOMAIN gers /\ \A j \in DOMAIN gers : j # i => gers'[j] = gers[j]
    BY Zenon, <1>1
  <2> QED
    BY Zenon, <2>3, <2>6, <2>7
<1>3. removals \in Nat /\ removals + 1 \in Nat /\ removals + 1 > removals
  <2>1. removals \in Nat
    BY Zenon DEF FlagTypes
  <2> QED
    BY <2>1
<1>4. M \in Seq(Content) /\ Len(M) \in Nat
  BY Zenon, MainnetFacts DEF FlagTypes
<1>5. MainnetDeposits(synced)' = M
  BY Zenon, <1>1 DEF MainnetDeposits
<1>6. FlagTypes'
  BY Zenon, <1>1, <1>2, <1>3, <1>5 DEF FlagTypes
<1>7. Flags'
  <2> SUFFICES ASSUME {"late", "stacked"} \cap past' = {} PROVE Flags'
    BY Zenon DEF Flags
  <2>1. \A d : <<0, d>> \in ready => \E j \in DOMAIN gers : Covers(j, d)
    <3>1. {"late", "stacked"} \cap past = {}
      BY Zenon
    <3> QED
      BY Zenon, <3>1 DEF Flags
  <2>2. ~Late /\ ~Stacked
    BY Zenon, OutlivedRecorded
  <2>3. \A e \in events' : e.l1
    BY Zenon, <1>1, <1>3, <2>2 DEF Late
  <2>4. gers[i - 1].allowed
    BY Zenon, <1>1, <1>2, <2>2 DEF Stacked
  <2>5. \A j \in DOMAIN gers : \A d : j # i /\ Covers(j, d) => Covers(j, d)'
    BY Zenon, <1>2, <1>5 DEF Covers, M
  <2>6. ASSUME NEW d, <<0, d>> \in ready' PROVE \E j \in DOMAIN gers : Covers(j, d)'
    <3>1. <<0, d>> \in ready /\ d \notin Disabled(i) /\ d \in 1..Len(M)
      <4>1. <<0, d>> \in ready /\ <<0, d>> \notin {0} \X Disabled(i)
        BY Zenon, <1>1, <2>6
      <4>2. d \notin Disabled(i)
        BY <4>1
      <4> QED
        BY Zenon, <4>1, <4>2 DEF FlagTypes
    <3>2. \/ Found(i - 1) /\ ~(d > Len(gers[i - 1].ger.main))
          \/ ~(d <= Len(gers[i].ger.main))
      BY Zenon, <3>1 DEF Disabled
    <3>3. CASE Found(i - 1) /\ ~(d > Len(gers[i - 1].ger.main))
      <4> DEFINE g == gers[i - 1].ger.main
      <4>1. g \in Seq(Content) /\ Starts(g, M)
        BY Zenon, <1>2, <3>3 DEF FlagTypes, Found, IsMainnetRoot
      <4>2. Len(g) <= Len(M) /\ \A k \in 1..Len(g) : g[k] = M[k]
        BY Zenon, <1>4, <4>1, PrefixElements
      <4>3. ~(d > Len(g))
        BY Zenon, <3>3
      <4> HIDE DEF g, M
      <4>4. d <= Len(g) /\ \A k \in 1..d : k \in 1..Len(g)
        BY <1>4, <3>1, <4>1, <4>3
      <4>5. \A k \in 1..d : g[k] = M[k]
        BY Zenon, <4>2, <4>4
      <4>6. Covers(i - 1, d)
        BY Zenon, <2>4, <4>4, <4>5 DEF Covers, g, M
      <4> QED
        BY Zenon, <1>2, <2>5, <4>6
    <3>4. CASE ~(d <= Len(gers[i].ger.main))
      <4>1. PICK j \in DOMAIN gers : Covers(j, d)
        BY Zenon, <2>1, <3>1
      <4>2. j # i
        BY Zenon, <3>4, <4>1 DEF Covers
      <4> QED
        BY Zenon, <2>5, <4>1, <4>2
    <3> QED
      BY Zenon, <3>2, <3>3, <3>4
  <2> QED
    BY Zenon, <1>2, <2>3, <2>6 DEF Flags
<1> QED
  BY Zenon, <1>6, <1>7

\* No step leaves a flag without a root that covers it.
LEMMA FlagsStep ==
  RowTypes /\ FlagTypes /\ Flags /\ [MCNext]_MCvars => FlagTypes' /\ Flags'
<1> SUFFICES ASSUME RowTypes, FlagTypes, Flags, [MCNext]_MCvars PROVE FlagTypes' /\ Flags'
  BY Zenon
<1>0. past \subseteq past' /\ (past' = past \cup Happened \/ UNCHANGED vars)
  BY Zenon DEF MCNext, MCvars
<1>1. removals \in Nat /\ removals + 1 \in Nat
  <2>1. removals \in Nat
    BY Zenon DEF FlagTypes
  <2> QED
    BY <2>1
<1>2. CASE L1Begin
  <2>1. /\ synced < Len(chain)
        /\ UNCHANGED <<chain, synced, gers, ready, l2Pc, l2Row, removals, events>>
    BY Zenon, <1>2 DEF L1Begin, l2Vars
  <2>2. synced + 1 \in 0..MaxBlocks
    <3>1. chain \in Chains /\ synced \in 0..MaxBlocks
      BY Zenon DEF FlagTypes
    <3>2. Len(chain) = MaxBlocks
      BY <3>1, BlocksBound DEF Chains
    <3> QED
      BY <2>1, <3>1, <3>2, BlocksBound
  <2>3. l2Pc' = "store" => l2Row'[1].ger.main \in Seq(Content)
    BY Zenon, <2>1 DEF FlagTypes
  <2> QED
    BY Zenon, <1>0, <1>1, <2>1, <2>2, <2>3, FlagsKept
<1>3. CASE L1Commit
  BY Zenon, <1>0, <1>3, L1CommitFlags
<1>4. ASSUME NEW n \in 0..(MaxBlocks - 1), NEW fork \in Chains, Reorg(n, fork)
      PROVE  FlagTypes' /\ Flags'
  BY Zenon, <1>0, <1>4, ReorgFlags
<1>5. CASE L2Deposit
  <2>1. UNCHANGED <<chain, synced, gers, ready, l1Tx, l2Pc, l2Row, removals, events>>
    BY Zenon, <1>5 DEF L2Deposit, l1Vars
  <2>2. /\ l2Pc' = "store" => l2Row'[1].ger.main \in Seq(Content)
        /\ l1Tx' # <<>> => synced + 1 \in 0..MaxBlocks
    BY Zenon, <2>1 DEF FlagTypes
  <2> QED
    BY Zenon, <1>0, <1>1, <2>1, <2>2, FlagsKept
<1>6. ASSUME NEW n \in DOMAIN chain, L2Begin(n) PROVE FlagTypes' /\ Flags'
  <2> DEFINE row == [ger |-> Ger(n), full |-> IsL1Ger(Ger(n)), allowed |-> TRUE]
  <2>1. /\ UNCHANGED <<chain, synced, gers, ready, l1Tx, removals, events>>
        /\ l2Row' = <<row>>
    BY Zenon, <1>6 DEF L2Begin, l1Vars
  <2>2. row.ger = Ger(n)
    <3> DEFINE g == Ger(n)
               f == IsL1Ger(Ger(n))
    <3> HIDE DEF g, f
    <3>1. [ger |-> g, full |-> f, allowed |-> TRUE].ger = g
      BY Zenon
    <3> QED
      BY Zenon, <3>1 DEF g, f
  <2>3. Ger(n).main \in Seq(Content)
    <3>1. chain \in Chains
      BY Zenon DEF FlagTypes
    <3>2. n \in 0..MaxBlocks
      BY <1>6, <3>1, BlocksBound DEF Chains
    <3> QED
      BY Zenon, <3>2, MainnetFacts
  <2> HIDE DEF row
  <2>4. l2Row'[1] = row
    BY <2>1
  <2>5. /\ l2Pc' = "store" => l2Row'[1].ger.main \in Seq(Content)
        /\ l1Tx' # <<>> => synced + 1 \in 0..MaxBlocks
    BY Zenon, <2>1, <2>2, <2>3, <2>4 DEF FlagTypes
  <2> QED
    BY Zenon, <1>0, <1>1, <2>1, <2>5, FlagsKept
<1>7. CASE L2Commit
  BY Zenon, <1>0, <1>7, L2CommitFlags
<1>8. CASE L2Announce
  <2> DEFINE e0 == [ger |-> gers[LatestTrusted].ger, l1 |-> FALSE]
  <2>1. /\ UNCHANGED <<chain, synced, gers, ready, l1Tx, l2Row, removals>>
        /\ l2Pc' = "idle"
        /\ events' = IF Usable(LatestTrusted) THEN events \cup {e0} ELSE events
    BY Zenon, <1>8 DEF L2Announce, l1Vars
  <2>2. e0.ger = gers[LatestTrusted].ger
    <3> DEFINE g == gers[LatestTrusted].ger
    <3> HIDE DEF g
    <3>1. [ger |-> g, l1 |-> FALSE].ger = g
      BY Zenon
    <3> QED
      BY Zenon, <3>1 DEF g
  <2> HIDE DEF e0
  <2>3. \A e \in events' : \/ e \in events
                           \/ \E i \in DOMAIN gers : gers[i].allowed /\ gers[i].ger = e.ger
    BY Zenon, <2>1, <2>2, LatestIsAllowed
  <2>4. l2Pc' # "store"
    BY <2>1
  <2>5. l1Tx' # <<>> => synced + 1 \in 0..MaxBlocks
    BY Zenon, <2>1 DEF FlagTypes
  <2> QED
    BY Zenon, <1>0, <1>1, <2>1, <2>3, <2>4, <2>5, FlagsKept
<1>9. ASSUME NEW i \in DOMAIN gers, L2Remove(i) PROVE FlagTypes' /\ Flags'
  <2>1. removals' # removals
    <3>1. removals' = removals + 1
      BY Zenon, <1>9 DEF L2Remove
    <3> QED
      BY <1>1, <3>1
  <2>2. past' = past \cup Happened
    BY Zenon, <1>0, <2>1 DEF vars, l2Vars
  <2> QED
    BY Zenon, <1>9, <2>2, L2RemoveFlags
<1>10. CASE L2RemoveRefused
  <2>1. /\ UNCHANGED <<chain, synced, gers, ready, l1Tx, l2Row, events>>
        /\ l2Pc' = "refused" /\ removals' = removals + 1
    BY Zenon, <1>10 DEF L2RemoveRefused, l1Vars
  <2>2. l2Pc' # "store"
    BY <2>1
  <2>3. l1Tx' # <<>> => synced + 1 \in 0..MaxBlocks
    BY Zenon, <2>1 DEF FlagTypes
  <2> QED
    BY Zenon, <1>0, <1>1, <2>1, <2>2, <2>3, FlagsKept
<1>11. ASSUME NEW e \in events, Process(e) PROVE FlagTypes' /\ Flags'
  BY Zenon, <1>0, <1>11, ProcessFlags
<1>12. CASE UNCHANGED MCvars
  <2>1. UNCHANGED <<chain, synced, gers, ready, l1Tx, l2Pc, l2Row, removals, events>>
    BY Zenon, <1>12 DEF MCvars, vars, l1Vars, l2Vars
  <2>2. /\ l2Pc' = "store" => l2Row'[1].ger.main \in Seq(Content)
        /\ l1Tx' # <<>> => synced + 1 \in 0..MaxBlocks
    BY Zenon, <2>1 DEF FlagTypes
  <2> QED
    BY Zenon, <1>0, <1>1, <2>1, <2>2, FlagsKept
<1> QED
  BY Zenon, <1>2, <1>3, <1>4, <1>5, <1>6, <1>7, <1>8, <1>9, <1>10, <1>11, <1>12 DEF MCNext, Next

\* At the start there is no row and no flag.
LEMMA FlagsInit == MCInit => RowTypes /\ FlagTypes /\ Flags
<1> SUFFICES ASSUME MCInit PROVE RowTypes /\ FlagTypes /\ Flags
  BY Zenon
<1>1. /\ chain \in Chains /\ synced = 0 /\ gers = <<>> /\ l1Tx = <<>> /\ l2Pc = "idle"
      /\ ready = {} /\ events = {} /\ removals = 0
  BY Zenon DEF MCInit, Init
<1>2. /\ gers \in Seq(RowSet({})) /\ DOMAIN gers = {} /\ removals \in Nat
      /\ synced \in 0..MaxBlocks /\ synced \in Nat /\ l2Pc # "store"
  BY <1>1, BlocksBound
<1>3. RowTypes
  BY Zenon, <1>1, <1>2 DEF RowTypes
<1>4. FlagTypes
  BY Zenon, <1>1, <1>2 DEF FlagTypes
<1>5. Flags
  BY Zenon, <1>1 DEF Flags
<1> QED
  BY Zenon, <1>3, <1>4, <1>5

\* Every L1 deposit that is ready is covered by a root that L2 allows, on every chain,
\* through every reorganisation and every number of removals, unless a goroutine came
\* late or the root before a removed one had been removed too (AddRemoveL2GER,
\* UpdateL1DepositsStatus).
THEOREM ReadyIsCovered == MCSpec => []ReadyCovered
<1>1. MCInit => RowTypes /\ FlagTypes /\ Flags
  BY Zenon, FlagsInit
<1>2. RowTypes /\ FlagTypes /\ Flags /\ [MCNext]_MCvars => (RowTypes /\ FlagTypes /\ Flags)'
  BY Zenon, RowTypesStep, FlagsStep
<1>3. FlagTypes /\ Flags => ReadyCovered
  <2> SUFFICES ASSUME FlagTypes, Flags, NEW d \in 1..Len(MainnetDeposits(synced)),
                      <<0, d>> \in ready, {"late", "stacked"} \cap past = {}
               PROVE  \E i \in DOMAIN gers :
                        /\ gers[i].allowed
                        /\ Starts(SubSeq(MainnetDeposits(synced), 1, d), gers[i].ger.main)
    BY Zenon DEF ReadyCovered
  <2> DEFINE M == MainnetDeposits(synced)
  <2>1. PICK i \in DOMAIN gers : Covers(i, d)
    BY Zenon DEF Flags
  <2>2. M \in Seq(Content) /\ Len(M) \in Nat /\ gers[i].ger.main \in Seq(Content)
    BY Zenon, MainnetFacts DEF FlagTypes
  <2>3. d \in 0..Len(M)
    <3> HIDE DEF M
    <3>1. d \in 1..Len(M)
      BY Zenon DEF M
    <3> QED
      BY <2>2, <3>1
  <2>4. Starts(SubSeq(M, 1, d), gers[i].ger.main)
    BY Zenon, <2>1, <2>2, <2>3, PrefixElements DEF Covers
  <2> QED
    BY Zenon, <2>1, <2>4 DEF Covers
<1> QED
  BY <1>1, <1>2, <1>3, PTL DEF MCSpec
-----------------------------------------------------------------------------
(***************************************************************************)
(* The trees: the functions of Merkle, and that the tree which is built    *)
(* from the leaves of the rollups is the complete one.                     *)
(***************************************************************************)
\* The hashes of the empty subtrees (generateZeroHashes).
LEMMA ZeroHashes ==
  /\ ZeroHash[0] = <<>>
  /\ \A h \in 0..(Height - 1) : ZeroHash[h + 1] = Hash(ZeroHash[h], ZeroHash[h])
<1> DEFINE F(g, m) == [h \in 0..m |-> IF h = 0 THEN <<>> ELSE Hash(g[h - 1], g[h - 1])]
           T == {m \in 0..Height : \E g : g = F(g, m)}
<1>0. Height \in Nat /\ 0 \in 0..Height
  BY HeightAssumption
<1>1. 0 \in T
  <2> DEFINE g == [h \in 0..0 |-> <<>>]
  <2>1. g = F(g, 0)
    OBVIOUS
  <2> QED
    BY Zenon, <1>0, <2>1
<1>2. ASSUME NEW m \in 0..(Height - 1), m \in T PROVE m + 1 \in T
  <2>1. PICK g : g = F(g, m)
    BY Zenon, <1>2
  <2> DEFINE k == [h \in 0..(m + 1) |-> IF h = m + 1 THEN Hash(g[m], g[m]) ELSE g[h]]
  <2>2. k = F(k, m + 1)
    BY <1>0, <2>1
  <2>3. m + 1 \in 0..Height
    BY <1>0
  <2> QED
    BY Zenon, <2>2, <2>3
<1>3. Height \in T
  <2>1. Height \in 0..Height
    BY <1>0
  <2> QED
    BY Zenon, <1>0, <1>1, <1>2, <2>1, UpTo
<1>4. ZeroHash = F(ZeroHash, Height)
  BY <1>3 DEF ZeroHash
<1> QED
  BY <1>0, <1>4

\* A level has twice as many nodes as the one above it.
LEMMA Widths ==
  /\ \A h \in 0..Height : Width[h] \in Nat \ {0}
  /\ Width[Height] = 1
  /\ \A h \in 0..(Height - 1) : Width[h] = 2 * Width[h + 1]
<1> DEFINE F(g, m) == [h \in (Height - m)..Height |->
                         IF h = Height THEN 1 ELSE 2 * g[h + 1]]
           T == {m \in 0..Height : \E g : g = F(g, m)}
<1>0. Height \in Nat /\ 0 \in 0..Height /\ Height \in 0..Height
  BY HeightAssumption
<1>1. 0 \in T
  <2> DEFINE g == [h \in (Height - 0)..Height |-> 1]
  <2>1. g = F(g, 0)
    BY <1>0
  <2> QED
    BY Zenon, <1>0, <2>1
<1>2. ASSUME NEW m \in 0..(Height - 1), m \in T PROVE m + 1 \in T
  <2>1. PICK g : g = F(g, m)
    BY Zenon, <1>2
  <2> DEFINE d == Height - (m + 1)
             k == [h \in d..Height |-> IF h = d THEN 2 * g[h + 1] ELSE g[h]]
  <2>2. k = F(k, m + 1)
    BY <1>0, <2>1
  <2>3. m + 1 \in 0..Height
    BY <1>0
  <2> QED
    BY Zenon, <2>2, <2>3
<1>3. Height \in T
  BY Zenon, <1>0, <1>1, <1>2, UpTo
<1>4. Width = [h \in 0..Height |-> IF h = Height THEN 1 ELSE 2 * Width[h + 1]]
  <2>1. Height - Height = 0
    BY <1>0
  <2> QED
    BY Zenon, <1>3, <2>1 DEF Width
<1>5. Width[Height] = 1 /\ \A h \in 0..(Height - 1) : Width[h] = 2 * Width[h + 1]
  BY <1>0, <1>4
<1>6. \A m \in 0..Height : Width[Height - m] \in Nat \ {0}
  <2> DEFINE P == {m \in 0..Height : Width[Height - m] \in Nat \ {0}}
  <2>1. 0 \in P
    <3>1. Height - 0 = Height
      BY <1>0
    <3> QED
      BY <1>0, <1>5, <3>1
  <2>2. ASSUME NEW m \in 0..(Height - 1), m \in P PROVE m + 1 \in P
    <3>1. /\ m + 1 \in 0..Height /\ Height - (m + 1) \in 0..(Height - 1)
          /\ Height - (m + 1) + 1 = Height - m
      BY <1>0
    <3>2. Width[Height - m] \in Nat \ {0}
      BY Zenon, <2>2
    <3>3. Width[Height - (m + 1)] = 2 * Width[Height - m]
      BY Zenon, <1>5, <3>1
    <3>4. Width[Height - (m + 1)] \in Nat \ {0}
      BY <3>2, <3>3
    <3> QED
      BY Zenon, <3>1, <3>4
  <2> QED
    BY Zenon, <1>0, <2>1, <2>2, UpTo
<1>7. ASSUME NEW h \in 0..Height PROVE Width[h] \in Nat \ {0}
  <2>1. Height - h \in 0..Height /\ Height - (Height - h) = h
    BY <1>0
  <2> QED
    BY Zenon, <1>6, <2>1
<1> QED
  BY Zenon, <1>5, <1>7

\* The levels of the complete tree over the leaves.
LEMMA CompleteTree ==
  ASSUME NEW leaves
  PROVE  /\ \A j \in 0..(Width[0] - 1) :
              Complete(leaves)[0][j] = IF j < Len(leaves) THEN leaves[j + 1] ELSE ZeroHash[0]
         /\ \A h \in 0..(Height - 1) : \A j \in 0..(Width[h + 1] - 1) :
              Complete(leaves)[h + 1][j]
                = Hash(Complete(leaves)[h][2 * j], Complete(leaves)[h][2 * j + 1])
<1> DEFINE Base == [j \in 0..(Width[0] - 1) |->
                      IF j < Len(leaves) THEN leaves[j + 1] ELSE ZeroHash[0]]
           Upper(g, h) == [j \in 0..(Width[h] - 1) |->
                             Hash(g[h - 1][2 * j], g[h - 1][2 * j + 1])]
           F(g, m) == [h \in 0..m |-> IF h = 0 THEN Base ELSE Upper(g, h)]
           G(g, m) == [h \in 0..m |->
                         [j \in 0..(Width[h] - 1) |->
                            IF h = 0 THEN IF j < Len(leaves) THEN leaves[j + 1] ELSE ZeroHash[0]
                            ELSE Hash(g[h - 1][2 * j], g[h - 1][2 * j + 1])]]
           T == {m \in 0..Height : \E g : g = F(g, m)}
<1>0. Height \in Nat /\ 0 \in 0..Height /\ Height \in 0..Height
  BY HeightAssumption
<1>1. 0 \in T
  <2> DEFINE g == [h \in 0..0 |-> Base]
  <2> HIDE DEF Base, Upper
  <2>1. g = F(g, 0)
    OBVIOUS
  <2> QED
    BY Zenon, <1>0, <2>1
<1>2. ASSUME NEW m \in 0..(Height - 1), m \in T PROVE m + 1 \in T
  <2>1. PICK g : g = F(g, m)
    BY Zenon, <1>2
  <2> DEFINE k == [h \in 0..(m + 1) |-> IF h = m + 1 THEN Upper(g, m + 1) ELSE g[h]]
  <2>2. \A h \in 0..m : k[h] = g[h]
    BY <1>0
  <2>3. \A h \in 1..(m + 1) : Upper(k, h) = Upper(g, h)
    <3> TAKE h \in 1..(m + 1)
    <3>1. h - 1 \in 0..m
      BY <1>0
    <3>2. k[h - 1] = g[h - 1]
      BY Zenon, <2>2, <3>1
    <3> HIDE DEF k
    <3> QED
      BY Zenon, <3>2
  <2> HIDE DEF Base, Upper
  <2>4. k = F(k, m + 1)
    <3>1. ASSUME NEW h \in 0..(m + 1)
          PROVE  k[h] = IF h = 0 THEN Base ELSE Upper(k, h)
      <4>1. CASE h = m + 1
        <5>1. h # 0 /\ h \in 1..(m + 1)
          BY <1>0, <4>1
        <5> QED
          BY Zenon, <2>3, <4>1, <5>1
      <4>2. CASE h # m + 1
        <5>1. h \in 0..m /\ (h # 0 => h \in 1..(m + 1))
          BY <1>0, <4>2
        <5>2. k[h] = g[h] /\ g[h] = IF h = 0 THEN Base ELSE Upper(g, h)
          BY Zenon, <2>1, <2>2, <5>1
        <5> QED
          BY Zenon, <2>3, <5>1, <5>2
      <4> QED
        BY Zenon, <4>1, <4>2
    <3> QED
      BY Zenon, <3>1
  <2>5. m + 1 \in 0..Height
    BY <1>0
  <2> QED
    BY Zenon, <2>4, <2>5
<1>3. Height \in T
  BY Zenon, <1>0, <1>1, <1>2, UpTo
<1>4. \A g : F(g, Height) = G(g, Height)
  BY Zenon
<1>5. \E g : g = G(g, Height)
  <2>1. PICK g : g = F(g, Height)
    BY Zenon, <1>3
  <2>2. F(g, Height) = G(g, Height)
    BY Zenon, <1>4
  <2> HIDE DEF F, G
  <2>3. g = G(g, Height)
    BY Zenon, <2>1, <2>2
  <2> QED
    BY Zenon, <2>3
<1>6. Complete(leaves) = G(Complete(leaves), Height)
  BY Zenon, <1>5 DEF Complete
<1>7. /\ Complete(leaves)[0] = Base
      /\ \A h \in 0..(Height - 1) : Complete(leaves)[h + 1] = Upper(Complete(leaves), h + 1)
  <2> DEFINE N == Complete(leaves)
  <2>1. N = F(N, Height)
    BY Zenon, <1>4, <1>6
  <2> HIDE DEF N, Base, Upper
  <2>2. N[0] = Base
    BY <1>0, <2>1
  <2>3. ASSUME NEW h \in 0..(Height - 1) PROVE N[h + 1] = Upper(N, h + 1)
    <3>1. h + 1 \in 0..Height /\ h + 1 # 0
      BY <1>0
    <3>2. F(N, Height)[h + 1] = Upper(N, h + 1)
      BY Zenon, <3>1
    <3> QED
      BY Zenon, <2>1, <3>2
  <2> QED
    BY Zenon, <2>2, <2>3 DEF N
<1>8. ASSUME NEW h \in 0..(Height - 1), NEW j \in 0..(Width[h + 1] - 1)
      PROVE  Complete(leaves)[h + 1][j]
               = Hash(Complete(leaves)[h][2 * j], Complete(leaves)[h][2 * j + 1])
  <2>1. h + 1 - 1 = h
    BY <1>0
  <2> HIDE DEF Upper
  <2>2. Complete(leaves)[h + 1] = Upper(Complete(leaves), h + 1)
    BY Zenon, <1>7
  <2> QED
    BY <2>1, <2>2 DEF Upper
<1>9. \A j \in 0..(Width[0] - 1) :
        Complete(leaves)[0][j] = IF j < Len(leaves) THEN leaves[j + 1] ELSE ZeroHash[0]
  BY Zenon, <1>7
<1> QED
  BY Zenon, <1>8, <1>9

-----------------------------------------------------------------------------
(***************************************************************************)
(* The levels of the tree of the rollups.                                  *)
(***************************************************************************)
LEMMA LevelFacts ==
  /\ Height \in Nat /\ 0 \in 0..Height /\ Height \in 0..Height /\ Height \in 1..Height
  /\ \A h \in 0..(Height - 1) :
       /\ h \in 0..Height /\ h + 1 \in 0..Height /\ h + 1 \in 1..Height /\ h \in Level
  /\ \A h \in 1..Height : h - 1 \in 0..(Height - 1) /\ h \in 0..Height /\ h - 1 + 1 = h
BY HeightAssumption DEF Level

\* The levels of the tree of the rollups, each built from the one below (buildMTRoot).
LEMMA LevelByLevel ==
  ASSUME NEW leaves
  PROVE  /\ Levels(leaves)[0] = Padded(IF leaves = <<>> THEN <<ZeroHash[0]>> ELSE leaves, 0)
         /\ \A h \in 0..(Height - 1) :
              Levels(leaves)[h + 1]
                = IF h + 1 = Height THEN BuildIntermediate(Levels(leaves)[h])
                  ELSE Padded(BuildIntermediate(Levels(leaves)[h]), h + 1)
<1> DEFINE Base == Padded(IF leaves = <<>> THEN <<ZeroHash[0]>> ELSE leaves, 0)
           U(g, h) == IF h = Height THEN BuildIntermediate(g[h - 1])
                      ELSE Padded(BuildIntermediate(g[h - 1]), h)
           F(g, m) == [h \in 0..m |-> IF h = 0 THEN Base ELSE U(g, h)]
           T == {m \in 0..Height : \E g : g = F(g, m)}
<1>0. Height \in Nat /\ 0 \in 0..Height /\ Height \in 0..Height
  BY HeightAssumption
<1>1. 0 \in T
  <2> DEFINE g == [h \in 0..0 |-> Base]
  <2> HIDE DEF Base, U
  <2>1. g = F(g, 0)
    OBVIOUS
  <2> QED
    BY Zenon, <1>0, <2>1
<1>2. ASSUME NEW m \in 0..(Height - 1), m \in T PROVE m + 1 \in T
  <2>1. PICK g : g = F(g, m)
    BY Zenon, <1>2
  <2> DEFINE k == [h \in 0..(m + 1) |-> IF h = m + 1 THEN U(g, m + 1) ELSE g[h]]
  <2>2. \A h \in 0..m : k[h] = g[h]
    <3> HIDE DEF U
    <3> QED
      BY <1>0
  <2>3. ASSUME NEW h \in 1..(m + 1) PROVE U(k, h) = U(g, h)
    <3>1. h - 1 \in 0..m
      BY <1>0
    <3>2. k[h - 1] = g[h - 1]
      BY Zenon, <2>2, <3>1
    <3> HIDE DEF k
    <3> QED
      BY Zenon, <3>2
  <2> HIDE DEF Base, U
  <2>4. k = F(k, m + 1)
    <3>1. ASSUME NEW h \in 0..(m + 1) PROVE k[h] = IF h = 0 THEN Base ELSE U(k, h)
      <4>1. CASE h = m + 1
        <5>1. h # 0 /\ h \in 1..(m + 1)
          BY <1>0, <4>1
        <5> QED
          BY Zenon, <2>3, <4>1, <5>1
      <4>2. CASE h # m + 1
        <5>1. h \in 0..m /\ (h # 0 => h \in 1..(m + 1))
          BY <1>0, <4>2
        <5>2. k[h] = g[h] /\ g[h] = IF h = 0 THEN Base ELSE U(g, h)
          BY Zenon, <2>1, <2>2, <5>1
        <5> QED
          BY Zenon, <2>3, <5>1, <5>2
      <4> QED
        BY Zenon, <4>1, <4>2
    <3> QED
      BY Zenon, <3>1
  <2>5. m + 1 \in 0..Height
    BY <1>0
  <2> QED
    BY Zenon, <2>4, <2>5
<1>3. \E g : g = F(g, Height)
  BY Zenon, <1>0, <1>1, <1>2, UpTo
<1>4. Levels(leaves) = F(Levels(leaves), Height)
  BY Zenon, <1>3 DEF Levels
<1> DEFINE L == Levels(leaves)
<1> HIDE DEF L, Base, U
<1>5. L = F(L, Height)
  BY Zenon, <1>4 DEF L
<1>6. L[0] = Base
  BY Zenon, <1>0, <1>5
<1>7. ASSUME NEW h \in 0..(Height - 1)
      PROVE  L[h + 1] = IF h + 1 = Height THEN BuildIntermediate(L[h])
                        ELSE Padded(BuildIntermediate(L[h]), h + 1)
  <2>1. PICK k : k = h + 1 /\ k \in 0..Height /\ k # 0 /\ k - 1 = h
    BY <1>0
  <2>2. L[k] = U(L, k)
    BY Zenon, <1>5, <2>1
  <2> QED
    BY Zenon, <2>1, <2>2 DEF U
<1> QED
  BY Zenon, <1>6, <1>7 DEF L, Base

\* A list that is built over the first n positions.
List(s, n) == n \in Nat /\ s = [i \in 1..n |-> s[i]]

\* Its length.
LEMMA ListLen == ASSUME NEW s, NEW n, List(s, n) PROVE Len(s) = n
<1>1. n \in Nat /\ s = [i \in 1..n |-> s[i]]
  BY Zenon DEF List
<1> QED
  BY <1>1

\* The next even number.
Even(n) == IF n % 2 = 1 THEN n + 1 ELSE n

\* A level is completed with a zero hash, if it needs one.
LEMMA PaddedList ==
  ASSUME NEW s, NEW n, List(s, n), NEW h
  PROVE  /\ List(Padded(s, h), Even(n))
         /\ \A i \in 1..Even(n) : Padded(s, h)[i] = IF i <= n THEN s[i] ELSE ZeroHash[h]
<1> DEFINE m == Even(n)
           z == ZeroHash[h]
<1>1. n \in Nat /\ s = [i \in 1..n |-> s[i]] /\ Len(s) = n
  BY Zenon, ListLen DEF List
<1> HIDE DEF z
<1>2. CASE n % 2 = 1
  <2>1. Padded(s, h) = Append(s, z)
    BY Zenon, <1>1, <1>2 DEF Padded, z
  <2>2. Append(s, z) = [i \in 1..(n + 1) |-> IF i = n + 1 THEN z ELSE s[i]]
    BY <1>1
  <2> DEFINE p == Padded(s, h)
  <2> HIDE DEF p
  <2>3. p = [i \in 1..(n + 1) |-> IF i = n + 1 THEN z ELSE s[i]]
    BY Zenon, <2>1, <2>2 DEF p
  <2>4. m = n + 1 /\ m \in Nat
    BY <1>1, <1>2 DEF Even
  <2>5. List(p, m)
    <3>1. p = [i \in 1..(n + 1) |-> p[i]]
      BY <2>3
    <3> QED
      BY Zenon, <2>4, <3>1 DEF List
  <2>6. \A i \in 1..m : p[i] = IF i <= n THEN s[i] ELSE z
    BY <1>1, <2>3, <2>4
  <2> QED
    BY Zenon, <2>5, <2>6 DEF p, z
<1>3. CASE n % 2 # 1
  <2>1. Padded(s, h) = s
    BY Zenon, <1>1, <1>3 DEF Padded
  <2>2. m = n /\ \A i \in 1..n : i <= n
    BY <1>1, <1>3 DEF Even
  <2> QED
    BY Zenon, <2>1, <2>2
<1> QED
  BY Zenon, <1>2, <1>3

\* The level above has half as many nodes.
LEMMA HalfList ==
  ASSUME NEW s, NEW k \in Nat, List(s, 2 * k)
  PROVE  /\ List(BuildIntermediate(s), k)
         /\ \A i \in 1..k : BuildIntermediate(s)[i] = Hash(s[2 * i - 1], s[2 * i])
<1>1. Len(s) = 2 * k
  BY Zenon, ListLen
<1>2. Len(s) \div 2 = k
  BY <1>1
<1>3. BuildIntermediate(s) = [i \in 1..k |-> Hash(s[2 * i - 1], s[2 * i])]
  BY Zenon, <1>2 DEF BuildIntermediate
<1> DEFINE b == BuildIntermediate(s)
           H(i) == Hash(s[2 * i - 1], s[2 * i])
<1> HIDE DEF b, H
<1>4. b = [i \in 1..k |-> H(i)]
  BY Zenon, <1>3 DEF b, H
<1>5. \A i \in 1..k : b[i] = H(i)
  BY Zenon, <1>4
<1>6. b = [i \in 1..k |-> b[i]]
  BY Zenon, <1>4
<1> QED
  BY Zenon, <1>5, <1>6 DEF b, H, List

\* Level h of the tree over leaves begins with the n nodes s; the rest is empty.
Begins(leaves, h, s, n) ==
  \A j \in 0..(Width[h] - 1) :
    Complete(leaves)[h][j] = IF j < n THEN s[j + 1] ELSE ZeroHash[h]

\* Level h is built: the nodes are s, an even number of them below the root.
BuiltTo(leaves, h, s) ==
  \E n \in 1..Width[h] :
    List(s, n) /\ (h # Height => n % 2 = 0) /\ Begins(leaves, h, s, n)

\* Completing a level.
LEMMA LevelPadded ==
  ASSUME NEW leaves, NEW h \in 0..(Height - 1), NEW s, NEW n \in 1..Width[h], List(s, n),
         Begins(leaves, h, s, n)
  PROVE  BuiltTo(leaves, h, Padded(s, h))
<1> DEFINE m == Even(n)
           p == Padded(s, h)
<1>1. List(p, m) /\ \A i \in 1..m : p[i] = IF i <= n THEN s[i] ELSE ZeroHash[h]
  <2>1. List(p, m)
    BY Zenon, PaddedList
  <2>2. \A i \in 1..m : p[i] = IF i <= n THEN s[i] ELSE ZeroHash[h]
    BY Zenon, PaddedList
  <2> QED
    BY Zenon, <2>1, <2>2
<1>2. /\ Width[h] = 2 * Width[h + 1] /\ Width[h + 1] \in Nat /\ Width[h] \in Nat
      /\ n \in 1..Width[h] /\ h # Height
  <2>1. Width[h] = 2 * Width[h + 1] /\ Width[h + 1] \in Nat /\ Width[h] \in Nat
    BY Zenon, LevelFacts, Widths
  <2>2. h # Height
    BY HeightAssumption
  <2> QED
    BY Zenon, <2>1, <2>2
<1> HIDE DEF p
<1>3. m \in 1..Width[h] /\ m % 2 = 0 /\ n <= m
  BY <1>2 DEF Even
<1> HIDE DEF m
<1>4. ASSUME NEW j \in 0..(Width[h] - 1)
      PROVE  Complete(leaves)[h][j] = IF j < m THEN p[j + 1] ELSE ZeroHash[h]
  <2>1. j < n => j < m /\ j + 1 <= n /\ j + 1 \in 1..m
    BY <1>2, <1>3
  <2>2. ~(j < n) /\ j < m => j + 1 \in 1..m /\ ~(j + 1 <= n)
    BY <1>2, <1>3
  <2>3. Complete(leaves)[h][j] = IF j < n THEN s[j + 1] ELSE ZeroHash[h]
    BY Zenon DEF Begins
  <2> QED
    BY Zenon, <1>1, <2>1, <2>2, <2>3
<1> QED
  BY Zenon, <1>1, <1>3, <1>4 DEF BuiltTo, Begins, p

\* The levels that are built are those of the complete tree.
LEMMA LevelsBuilt ==
  ASSUME NEW leaves, NEW n \in 0..Width[0], List(leaves, n)
  PROVE  \A h \in 0..Height : BuiltTo(leaves, h, Levels(leaves)[h])
<1> DEFINE L == Levels(leaves)
           C == Complete(leaves)
           T == {h \in 0..Height : BuiltTo(leaves, h, L[h])}
<1>0. Width[0] \in Nat \ {0} /\ 0 \in 0..(Height - 1) /\ Height \in Nat
  <2>1. 0 \in 0..(Height - 1)
    BY HeightAssumption
  <2> QED
    BY Zenon, <2>1, LevelFacts, Widths
<1>1. 0 \in T
  <2> DEFINE f == IF leaves = <<>> THEN <<ZeroHash[0]>> ELSE leaves
             k == IF n = 0 THEN 1 ELSE n
  <2>1. Len(leaves) = n
    BY Zenon, ListLen
  <2>2. k \in 1..Width[0]
    BY <1>0
  <2>3. CASE n = 0
    <3>1. leaves = <<>>
      <4>1. leaves = [i \in 1..0 |-> leaves[i]]
        BY Zenon, <2>3 DEF List
      <4> QED
        BY <4>1
    <3>2. f = <<ZeroHash[0]>> /\ k = 1
      BY Zenon, <2>3, <3>1
    <3> DEFINE z == ZeroHash[0]
    <3> HIDE DEF z
    <3>3. <<z>> = [i \in 1..1 |-> <<z>>[i]] /\ <<z>>[1] = z
      OBVIOUS
    <3>4. List(f, 1)
      BY Zenon, <3>2, <3>3 DEF List, z
    <3>5. ASSUME NEW j \in 0..(Width[0] - 1)
          PROVE  C[0][j] = IF j < 1 THEN f[j + 1] ELSE z
      <4>1. j < 1 => j + 1 = 1
        BY <1>0
      <4>2. ~(j < Len(leaves))
        BY <1>0, <2>1, <2>3
      <4>3. C[0][j] = z
        BY Zenon, <4>2, CompleteTree DEF z
      <4>4. f[1] = z
        BY Zenon, <3>2, <3>3 DEF z
      <4> QED
        BY Zenon, <4>1, <4>3, <4>4
    <3>6. 1 \in 1..Width[0]
      BY <1>0
    <3> HIDE DEF f
    <3>7. Begins(leaves, 0, f, 1)
      BY Zenon, <3>5 DEF Begins, z
    <3>8. BuiltTo(leaves, 0, Padded(f, 0))
      BY Zenon, <1>0, <3>4, <3>6, <3>7, LevelPadded
    <3> QED
      BY Zenon, <3>8, LevelByLevel, LevelFacts DEF f
  <2>4. CASE n # 0
    <3>1. leaves # <<>>
      BY <2>1, <2>4
    <3>2. n \in 1..Width[0]
      BY <1>0, <2>4
    <3>3. Begins(leaves, 0, leaves, n)
      BY Zenon, <2>1, CompleteTree DEF Begins
    <3>4. BuiltTo(leaves, 0, Padded(leaves, 0))
      BY Zenon, <1>0, <3>2, <3>3, LevelPadded
    <3> QED
      BY Zenon, <3>1, <3>4, LevelByLevel, LevelFacts
  <2> QED
    BY Zenon, <2>3, <2>4
<1>2. ASSUME NEW h \in 0..(Height - 1), h \in T PROVE h + 1 \in T
  <2>1. PICK m \in 1..Width[h] :
          /\ List(L[h], m) /\ (h # Height => m % 2 = 0)
          /\ \A j \in 0..(Width[h] - 1) :
               C[h][j] = IF j < m THEN L[h][j + 1] ELSE ZeroHash[h]
    BY Zenon, <1>2 DEF BuiltTo, Begins
  <2>2. Width[h] = 2 * Width[h + 1] /\ Width[h + 1] \in Nat /\ h + 1 \in 0..Height
    BY Zenon, LevelFacts, Widths
  <2>3. PICK k \in 1..Width[h + 1] : m = 2 * k
    <3>1. h # Height
      BY HeightAssumption
    <3>2. m % 2 = 0
      BY Zenon, <2>1, <3>1
    <3>3. m = 2 * (m \div 2) /\ m \div 2 \in 1..Width[h + 1]
      BY <2>2, <3>2
    <3> QED
      BY Zenon, <3>3
  <2> DEFINE b == BuildIntermediate(L[h])
  <2>4. List(b, k) /\ \A i \in 1..k : b[i] = Hash(L[h][2 * i - 1], L[h][2 * i])
    <3>1. k \in Nat /\ List(L[h], 2 * k)
      <4>1. k \in Nat
        BY <2>2
      <4> QED
        BY Zenon, <2>1, <2>3, <4>1
    <3> HIDE DEF L
    <3> QED
      BY Zenon, <3>1, HalfList
  <2>5. ASSUME NEW j \in 0..(Width[h + 1] - 1)
        PROVE  C[h + 1][j] = IF j < k THEN b[j + 1] ELSE ZeroHash[h + 1]
    <3>1. C[h + 1][j] = Hash(C[h][2 * j], C[h][2 * j + 1])
      BY Zenon, CompleteTree
    <3>2. 2 * j \in 0..(Width[h] - 1) /\ 2 * j + 1 \in 0..(Width[h] - 1)
      BY <2>2
    <3>3. CASE j < k
      <4>1. /\ 2 * j < m /\ 2 * j + 1 < m /\ j + 1 \in 1..k
            /\ 2 * (j + 1) - 1 = 2 * j + 1 /\ 2 * (j + 1) = 2 * j + 1 + 1
        BY <2>2, <2>3, <3>3
      <4>2. C[h][2 * j] = L[h][2 * j + 1] /\ C[h][2 * j + 1] = L[h][2 * j + 1 + 1]
        BY Zenon, <2>1, <3>2, <4>1
      <4>3. b[j + 1] = Hash(L[h][2 * (j + 1) - 1], L[h][2 * (j + 1)])
        BY Zenon, <2>4, <4>1
      <4> HIDE DEF C, L, b
      <4> QED
        BY Zenon, <3>1, <3>3, <4>1, <4>2, <4>3
    <3>4. CASE ~(j < k)
      <4>1. ~(2 * j < m) /\ ~(2 * j + 1 < m)
        BY <2>2, <2>3, <3>4
      <4>2. C[h][2 * j] = ZeroHash[h] /\ C[h][2 * j + 1] = ZeroHash[h]
        BY Zenon, <2>1, <3>2, <4>1
      <4>3. ZeroHash[h + 1] = Hash(ZeroHash[h], ZeroHash[h])
        BY Zenon, ZeroHashes
      <4> HIDE DEF C, L, b
      <4> QED
        BY Zenon, <3>1, <3>4, <4>2, <4>3
    <3> QED
      BY Zenon, <3>3, <3>4
  <2>6. Begins(leaves, h + 1, b, k)
    <3> HIDE DEF b
    <3> QED
      BY Zenon, <2>5 DEF Begins
  <2>7. CASE h + 1 = Height
    <3>1. L[h + 1] = b
      BY Zenon, <2>7, LevelByLevel
    <3> HIDE DEF C, L, b
    <3>2. BuiltTo(leaves, h + 1, b)
      BY Zenon, <2>4, <2>6, <2>7 DEF BuiltTo
    <3> QED
      BY Zenon, <2>2, <3>1, <3>2
  <2>8. CASE h + 1 # Height
    <3>1. L[h + 1] = Padded(b, h + 1)
      BY Zenon, <2>8, LevelByLevel
    <3>2. h + 1 \in 0..(Height - 1)
      BY <1>0, <2>8
    <3> HIDE DEF L, b
    <3>3. BuiltTo(leaves, h + 1, Padded(b, h + 1))
      BY Zenon, <2>4, <2>6, <3>2, LevelPadded
    <3> QED
      BY Zenon, <2>2, <3>1, <3>3
  <2> QED
    BY Zenon, <2>7, <2>8
<1>3. \A h \in 0..Height : h \in T
  <2> HIDE DEF T
  <2> QED
    BY Zenon, <1>1, <1>2, LevelFacts, UpTo
<1> QED
  BY Zenon, <1>3

\* The tree of the rollups that is built level by level is the complete one.
LEMMA BuiltRight ==
  ASSUME NEW leaves, NEW n \in 0..Width[0], List(leaves, n)
  PROVE  BuildMTRoot(leaves) = RootOf(leaves)
<1> DEFINE L == Levels(leaves)
           C == Complete(leaves)
<1>3. BuiltTo(leaves, Height, L[Height])
  BY Zenon, LevelsBuilt, LevelFacts
<1>4. PICK m \in 1..Width[Height] :
        \A j \in 0..(Width[Height] - 1) :
          C[Height][j] = IF j < m THEN L[Height][j + 1] ELSE ZeroHash[Height]
  BY Zenon, <1>3 DEF BuiltTo, Begins
<1>5. Width[Height] = 1
  BY Zenon, Widths
<1>6. 0 \in 0..(Width[Height] - 1) /\ 0 < m /\ 0 + 1 = 1
  BY <1>5
<1> HIDE DEF C, L
<1>7. C[Height][0] = L[Height][1]
  BY Zenon, <1>4, <1>6
<1> QED
  BY Zenon, <1>7 DEF C, L, BuildMTRoot, RootOf

\* Two trees have the same root exactly when they have the same leaves.
LEMMA RootsTellLeaves ==
  ASSUME NEW a, NEW b
  PROVE  (RootOf(a) = RootOf(b))
           <=> \A j \in 0..(Width[0] - 1) : Complete(a)[0][j] = Complete(b)[0][j]
<1> DEFINE A == Complete(a)
           B == Complete(b)
           Same(h) == \A j \in 0..(Width[h] - 1) : A[h][j] = B[h][j]
<1>1. ASSUME NEW h \in 0..(Height - 1)
      PROVE  /\ \A j \in 0..(Width[h + 1] - 1) : A[h + 1][j] = Hash(A[h][2 * j], A[h][2 * j + 1])
             /\ \A j \in 0..(Width[h + 1] - 1) : B[h + 1][j] = Hash(B[h][2 * j], B[h][2 * j + 1])
  BY Zenon, CompleteTree
<1>2. ASSUME NEW h \in 0..(Height - 1)
      PROVE  Width[h] = 2 * Width[h + 1] /\ Width[h + 1] \in Nat /\ h + 1 \in 0..Height
  BY Zenon, LevelFacts, Widths
<1>3. Width[Height] = 1 /\ Height \in Nat
  BY Zenon, LevelFacts, Widths
<1> HIDE DEF A, B
<1>4. Same(Height) <=> A[Height][0] = B[Height][0]
  <2>1. 0..(Width[Height] - 1) = {0}
    BY <1>3
  <2> QED
    BY Zenon, <2>1
<1>5. ASSUME Same(0) PROVE Same(Height)
  <2> DEFINE T == {h \in 0..Height : Same(h)}
  <2>1. 0 \in T
    BY Zenon, <1>5, LevelFacts
  <2>2. ASSUME NEW h \in 0..(Height - 1), h \in T PROVE h + 1 \in T
    <3>1. Same(h)
      BY Zenon, <2>2
    <3>2. ASSUME NEW j \in 0..(Width[h + 1] - 1) PROVE A[h + 1][j] = B[h + 1][j]
      <4>1. 2 * j \in 0..(Width[h] - 1) /\ 2 * j + 1 \in 0..(Width[h] - 1)
        BY <1>2
      <4>2. A[h][2 * j] = B[h][2 * j] /\ A[h][2 * j + 1] = B[h][2 * j + 1]
        BY Zenon, <3>1, <4>1
      <4> QED
        BY Zenon, <1>1, <4>2
    <3> QED
      BY Zenon, <1>2, <3>2
  <2> HIDE DEF T
  <2>3. Height \in T
    BY Zenon, <2>1, <2>2, LevelFacts, UpTo
  <2> QED
    BY Zenon, <2>3 DEF T
<1>6. ASSUME Same(Height) PROVE Same(0)
  <2> DEFINE T == {m \in 0..Height : Same(Height - m)}
  <2>1. 0 \in T
    <3>1. Height - 0 = Height
      BY <1>3
    <3> HIDE DEF Same
    <3> QED
      BY Zenon, <1>6, <3>1, LevelFacts
  <2>2. ASSUME NEW m \in 0..(Height - 1), m \in T PROVE m + 1 \in T
    <3>1. PICK h \in 0..(Height - 1) : h + 1 = Height - m /\ h = Height - (m + 1)
      BY <1>3
    <3>2. Same(h + 1)
      BY Zenon, <2>2, <3>1
    <3>3. ASSUME NEW j \in 0..(Width[h] - 1) PROVE A[h][j] = B[h][j]
      <4>1. PICK i \in 0..(Width[h + 1] - 1) : j = 2 * i \/ j = 2 * i + 1
        <5>1. j \div 2 \in 0..(Width[h + 1] - 1) /\ (j = 2 * (j \div 2) \/ j = 2 * (j \div 2) + 1)
          BY <1>2
        <5> QED
          BY Zenon, <5>1
      <4>2. Hash(A[h][2 * i], A[h][2 * i + 1]) = Hash(B[h][2 * i], B[h][2 * i + 1])
        <5>1. A[h + 1][i] = B[h + 1][i]
          BY Zenon, <3>2
        <5>2. /\ A[h + 1][i] = Hash(A[h][2 * i], A[h][2 * i + 1])
              /\ B[h + 1][i] = Hash(B[h][2 * i], B[h][2 * i + 1])
          BY Zenon, <1>1
        <5> HIDE DEF Same, T
        <5> QED
          BY Zenon, <5>1, <5>2
      <4>3. A[h][2 * i] = B[h][2 * i] /\ A[h][2 * i + 1] = B[h][2 * i + 1]
        BY <4>2 DEF Hash
      <4> QED
        BY Zenon, <4>1, <4>3
    <3>4. m + 1 \in 0..Height
      BY <1>3
    <3> QED
      BY Zenon, <3>1, <3>3, <3>4
  <2> HIDE DEF T
  <2>3. Height \in T
    BY Zenon, <2>1, <2>2, LevelFacts, UpTo
  <2>4. Height - Height = 0
    BY <1>3
  <2> HIDE DEF Same
  <2> QED
    BY Zenon, <2>3, <2>4 DEF T
<1> HIDE DEF Same
<1>7. Same(Height) <=> Same(0)
  BY Zenon, <1>5, <1>6
<1> QED
  BY Zenon, <1>4, <1>7 DEF RootOf, Same, A, B

\* The root of a tree with a leaf is not the empty leaf.
LEMMA RootNotEmpty == ASSUME NEW leaves PROVE RootOf(leaves) # ZeroHash[0]
<1>1. PICK h \in 0..(Height - 1) : h + 1 = Height
  BY HeightAssumption
<1>2. 0 \in 0..(Width[h + 1] - 1)
  <2>1. Width[h + 1] = 1
    BY Zenon, <1>1, Widths
  <2> QED
    BY <2>1
<1>3. RootOf(leaves) = Hash(Complete(leaves)[h][2 * 0], Complete(leaves)[h][2 * 0 + 1])
  BY Zenon, <1>1, <1>2, CompleteTree DEF RootOf
<1>4. ZeroHash[0] = <<>>
  BY Zenon, ZeroHashes
<1> DEFINE x == Complete(leaves)[h][2 * 0]
           y == Complete(leaves)[h][2 * 0 + 1]
<1> HIDE DEF x, y
<1>5. <<x, y>> # <<>>
  OBVIOUS
<1> QED
  BY Zenon, <1>3, <1>4, <1>5 DEF Hash, x, y

-----------------------------------------------------------------------------
(***************************************************************************)
(* The leaves of the rollups.                                              *)
(***************************************************************************)
\* The leaf of rollup r when e of them are verified, and the leaves up to the last
\* rollup that has any: what addRollupExitLeaf stores.
LeafOf(e, r) == IF r \in Rollup THEN LocalExitRoot(r, e[r]) ELSE ZeroHash[0]
Top(e) == Max({0} \cup {r \in Rollup : e[r] # 0})
Filled(e) == [r \in 1..Top(e) |-> LeafOf(e, r)]

\* A batch of rows for each stored block that verifies a rollup, with the leaves that
\* the contract has after it.
BatchOf(m) == Batch(Filled(Exits(m)), RollupExitRoot(Exits(m)), m)
Batches(n) == {BatchOf(m) : m \in {i \in 1..n : chain[i].verified # 0}}

\* Nothing else is stored.
Leaves == exits = Batches(synced)

\* The rollups have places in their tree.
LEMMA RollupPlaces == Width[0] \in Nat /\ Rollup \subseteq 1..Width[0] /\ 0 \notin Rollup
<1>1. Width[0] \in Nat /\ Rollup \subseteq 1..Width[0]
  BY Zenon, LevelFacts, Widths, ExitRootsAssumption
<1> QED
  BY <1>1

\* The last rollup that has a leaf.
LEMMA TopFacts ==
  ASSUME NEW e
  PROVE  /\ Top(e) \in 0..Width[0]
         /\ Top(e) # 0 => Top(e) \in Rollup /\ e[Top(e)] # 0
         /\ \A r \in Rollup : e[r] # 0 => r <= Top(e)
<1> DEFINE S == {0} \cup {r \in Rollup : e[r] # 0}
<1>1. S \in SUBSET (0..Width[0]) /\ 0 \in S
  <2>1. 0 \in 0..Width[0] /\ \A r \in 1..Width[0] : r \in 0..Width[0]
    BY RollupPlaces
  <2> QED
    BY Zenon, <2>1, RollupPlaces
<1>2. Max(S) \in S /\ \A x \in S : x <= Max(S)
  BY Zenon, <1>1, MaxOf, RollupPlaces
<1>3. Top(e) = Max(S)
  BY Zenon DEF Top
<1> DEFINE m == Max(S)
<1> HIDE DEF m
<1>4. m \in S /\ (\A x \in S : x <= m) /\ Top(e) = m
  BY Zenon, <1>2, <1>3 DEF m
<1>5. m \in 0..Width[0]
  BY Zenon, <1>1, <1>4
<1> QED
  BY Zenon, <1>4, <1>5

\* A leaf is empty exactly when nothing of its rollup is verified.
LEMMA LeafEmpty ==
  ASSUME NEW e, NEW r
  PROVE  LeafOf(e, r) = ZeroHash[0] <=> (r \in Rollup => e[r] = 0)
<1>1. e[r] # 0 => LocalExitRoot(r, e[r]) # ZeroHash[0]
  BY Zenon, RootNotEmpty DEF LocalExitRoot, ExitRoot
<1>2. e[r] = 0 => LocalExitRoot(r, e[r]) = ZeroHash[0]
  BY Zenon DEF LocalExitRoot
<1> QED
  BY Zenon, <1>1, <1>2 DEF LeafOf

\* The stored leaves have the root that the contract computes.
LEMMA FilledRoot ==
  ASSUME NEW e
  PROVE  BuildMTRoot(Filled(e)) = RollupExitRoot(e)
<1> DEFINE n == Top(e)
           a == Filled(e)
           b == [r \in 1..Width[0] |-> LeafOf(e, r)]
           Q(j) == LeafOf(e, j)
<1>1. n \in 0..Width[0] /\ Width[0] \in Nat
  BY Zenon, TopFacts, RollupPlaces
<1> HIDE DEF n
<1>2. a = [r \in 1..n |-> Q(r)] /\ b = [r \in 1..Width[0] |-> Q(r)]
  BY Zenon DEF Filled, n
<1> HIDE DEF Q, a, b
<1>3. n \in Nat
  BY <1>1
<1>4. a = [r \in 1..n |-> a[r]]
  BY Zenon, <1>2
<1>5. List(a, n)
  BY Zenon, <1>3, <1>4 DEF List
<1>6. BuildMTRoot(a) = RootOf(a)
  BY Zenon, <1>1, <1>5, BuiltRight
<1>7. Len(a) = n /\ Len(b) = Width[0]
  BY <1>1, <1>2, <1>3
<1>8. ASSUME NEW j \in 0..(Width[0] - 1) PROVE Complete(a)[0][j] = Complete(b)[0][j]
  <2>1. /\ j < Width[0] /\ j + 1 \in 1..Width[0]
        /\ (j < n <=> j + 1 \in 1..n) /\ (j < n <=> j + 1 <= n)
    BY <1>1, <1>3
  <2>2. Complete(a)[0][j] = IF j < n THEN a[j + 1] ELSE ZeroHash[0]
    BY Zenon, <1>7, CompleteTree
  <2>3. Complete(b)[0][j] = b[j + 1]
    BY Zenon, <1>7, <2>1, CompleteTree
  <2>4. b[j + 1] = Q(j + 1) /\ (j < n => a[j + 1] = Q(j + 1))
    BY Zenon, <1>2, <2>1
  <2>5. ~(j < n) => Q(j + 1) = ZeroHash[0]
    <3>1. j + 1 \in Rollup /\ e[j + 1] # 0 => j + 1 <= n
      BY Zenon, TopFacts DEF n
    <3> QED
      BY Zenon, <2>1, <3>1, LeafEmpty DEF Q
  <2> QED
    BY Zenon, <2>2, <2>3, <2>4, <2>5
<1>9. RootOf(a) = RootOf(b)
  BY Zenon, <1>8, RootsTellLeaves
<1>10. RootOf(b) = RollupExitRoot(e)
  BY Zenon DEF b, RollupExitRoot, LeafOf
<1> QED
  BY Zenon, <1>6, <1>9, <1>10 DEF a

\* Two rollup exit roots are different when a rollup is verified in one only.
LEMMA RootsDiffer ==
  ASSUME NEW e, NEW f, RollupExitRoot(e) = RollupExitRoot(f), NEW r \in Rollup
  PROVE  e[r] = 0 <=> f[r] = 0
<1> DEFINE a == [i \in 1..Width[0] |-> LeafOf(e, i)]
           b == [i \in 1..Width[0] |-> LeafOf(f, i)]
           P(j) == LeafOf(e, j)
           Q(j) == LeafOf(f, j)
<1>1. RootOf(a) = RootOf(b)
  BY Zenon DEF RollupExitRoot, LeafOf
<1>2. Width[0] \in Nat /\ r \in 1..Width[0]
  BY Zenon, RollupPlaces
<1>3. PICK j \in 0..(Width[0] - 1) : j + 1 = r
  BY <1>2
<1>4. a = [i \in 1..Width[0] |-> P(i)] /\ b = [i \in 1..Width[0] |-> Q(i)]
  BY Zenon
<1> HIDE DEF a, b, P, Q
<1>5. Len(a) = Width[0] /\ Len(b) = Width[0]
  BY <1>2, <1>4
<1>6. j < Width[0]
  BY <1>2
<1>7. Complete(a)[0][j] = a[r] /\ Complete(b)[0][j] = b[r]
  BY Zenon, <1>3, <1>5, <1>6, CompleteTree
<1>8. a[r] = P(r) /\ b[r] = Q(r)
  BY Zenon, <1>2, <1>4
<1>9. P(r) = Q(r)
  BY Zenon, <1>1, <1>7, <1>8, RootsTellLeaves
<1> QED
  BY Zenon, <1>9, LeafEmpty DEF P, Q

\* The fields of a batch.
LEMMA BatchFields ==
  ASSUME NEW m
  PROVE  /\ BatchOf(m).leaves = Filled(Exits(m)) /\ BatchOf(m).block = m
         /\ BatchOf(m).root = RollupExitRoot(Exits(m))
<1> DEFINE l == Filled(Exits(m))
           t == RollupExitRoot(Exits(m))
<1>1. BatchOf(m) = [leaves |-> l, root |-> t, block |-> m]
  BY Zenon DEF BatchOf, Batch
<1> HIDE DEF l, t
<1>2. BatchOf(m).leaves = l /\ BatchOf(m).root = t /\ BatchOf(m).block = m
  BY <1>1
<1> QED
  BY Zenon, <1>2 DEF l, t

\* A block verifies a rollup or none, and a rollup is verified in one block.
LEMMA VerifiedOnce ==
  ASSUME chain \in Chains
  PROVE  /\ \A i \in 1..MaxBlocks : chain[i].verified \in Rollup \cup {0}
         /\ \A i, k \in 1..MaxBlocks :
              chain[i].verified = chain[k].verified /\ chain[i].verified # 0 => i = k
<1>1. ASSUME NEW i \in 1..MaxBlocks
      PROVE  /\ chain[i].verified \in Rollup \cup {0}
             /\ chain[i].verified # 0 => chain[i] = Verified(chain[i].verified)
  <2> DEFINE x == chain[i]
  <2>1. x \in Transactions
    BY Zenon DEF Chains
  <2> HIDE DEF x
  <2>2. ASSUME NEW c, x = Deposit(c) PROVE x.verified = 0
    BY <2>2 DEF Deposit
  <2>3. ASSUME NEW r, x = Verified(r) PROVE x.verified = r
    BY <2>3 DEF Verified
  <2> QED
    BY Zenon, <2>1, <2>2, <2>3 DEF Transactions, x
<1>2. ASSUME NEW i \in 1..MaxBlocks, NEW k \in 1..MaxBlocks,
             chain[i].verified = chain[k].verified, chain[i].verified # 0
      PROVE  i = k
  <2>1. chain[i] = chain[k]
    BY Zenon, <1>1, <1>2
  <2>2. IsInjective(chain) /\ DOMAIN chain = 1..MaxBlocks
    BY Zenon DEF Chains
  <2> QED
    BY Zenon, <2>1, <2>2 DEF IsInjective
<1> QED
  BY Zenon, <1>1, <1>2

\* How often a rollup was verified.
LEMMA ExitsAre ==
  ASSUME chain \in Chains, NEW n \in 0..MaxBlocks, NEW r \in Rollup
  PROVE  Exits(n)[r] = IF \E i \in 1..n : chain[i].verified = r THEN 1 ELSE 0
<1> DEFINE S == {i \in 1..n : chain[i].verified = r}
<1>0. \A i \in 1..n : i \in 1..MaxBlocks
  BY BlocksBound
<1>1. Exits(n)[r] = Cardinality(S)
  BY Zenon DEF Exits
<1>2. CASE \E i \in 1..n : chain[i].verified = r
  <2>1. PICK i \in 1..n : chain[i].verified = r
    BY Zenon, <1>2
  <2>2. r # 0
    BY Zenon, RollupPlaces
  <2>3. S = {i}
    BY Zenon, <1>0, <2>1, <2>2, VerifiedOnce
  <2>4. Cardinality({i}) = 1
    BY Zenon, FS_Singleton
  <2> QED
    BY Zenon, <1>1, <1>2, <2>3, <2>4
<1>3. CASE ~\E i \in 1..n : chain[i].verified = r
  <2>1. S = {}
    BY Zenon, <1>3
  <2>2. Cardinality({}) = 0
    BY Zenon, FS_EmptySet
  <2> QED
    BY Zenon, <1>1, <1>3, <2>1, <2>2
<1> QED
  BY Zenon, <1>2, <1>3

\* Blocks that verify nothing leave the rollups as they are.
LEMMA ExitsSame ==
  ASSUME chain \in Chains, NEW n \in 0..MaxBlocks, NEW m \in 0..n,
         \A i \in 1..n : chain[i].verified # 0 => i <= m
  PROVE  Exits(n) = Exits(m)
<1>0. m \in 0..MaxBlocks /\ \A i \in 1..m : i \in 1..n
  BY BlocksBound
<1>1. \A i \in 1..n : i <= m => i \in 1..m
  BY BlocksBound
<1>2. ASSUME NEW r \in Rollup PROVE Exits(n)[r] = Exits(m)[r]
  <2>1. r # 0
    BY Zenon, RollupPlaces
  <2>2. (\E i \in 1..n : chain[i].verified = r) <=> \E i \in 1..m : chain[i].verified = r
    BY Zenon, <1>0, <1>1, <2>1
  <2>3. Exits(n)[r] = IF \E i \in 1..n : chain[i].verified = r THEN 1 ELSE 0
    BY Zenon, ExitsAre
  <2>4. Exits(m)[r] = IF \E i \in 1..m : chain[i].verified = r THEN 1 ELSE 0
    BY Zenon, <1>0, ExitsAre
  <2> QED
    BY Zenon, <2>2, <2>3, <2>4
<1>3. Exits(n) = [r \in Rollup |-> Exits(n)[r]] /\ Exits(m) = [r \in Rollup |-> Exits(m)[r]]
  BY Zenon DEF Exits
<1> QED
  BY Zenon, <1>2, <1>3

\* The leaves only grow in number.
LEMMA TopGrows ==
  ASSUME chain \in Chains, NEW n \in 0..MaxBlocks, NEW m \in 0..n
  PROVE  Top(Exits(m)) <= Top(Exits(n))
<1>0. m \in 0..MaxBlocks /\ \A i \in 1..m : i \in 1..n
  BY BlocksBound
<1>1. CASE Top(Exits(m)) = 0
  <2>1. Top(Exits(n)) \in 0..Width[0] /\ Width[0] \in Nat
    BY Zenon, TopFacts, RollupPlaces
  <2> QED
    BY <1>1, <2>1
<1>2. CASE Top(Exits(m)) # 0
  <2> DEFINE r == Top(Exits(m))
  <2>1. r \in Rollup /\ Exits(m)[r] # 0
    BY Zenon, <1>2, TopFacts
  <2> HIDE DEF r
  <2>2. \E i \in 1..n : chain[i].verified = r
    BY Zenon, <1>0, <2>1, ExitsAre
  <2>3. Exits(n)[r] = 1
    BY Zenon, <2>1, <2>2, ExitsAre
  <2>4. Exits(n)[r] # 0
    BY <2>3
  <2> QED
    BY Zenon, <2>1, <2>4, TopFacts DEF r
<1> QED
  BY Zenon, <1>1, <1>2

\* As many leaves as the last rollup that has one.
LEMMA FilledLen ==
  ASSUME NEW e
  PROVE  Len(Filled(e)) = Top(e) /\ DOMAIN Filled(e) = 1..Top(e)
<1> DEFINE n == Top(e)
           Q(r) == LeafOf(e, r)
<1>1. n \in 0..Width[0] /\ Width[0] \in Nat
  BY Zenon, TopFacts, RollupPlaces
<1>2. n \in Nat
  BY <1>1
<1> HIDE DEF n, Q
<1>3. Len([r \in 1..n |-> Q(r)]) = n
  BY <1>2
<1> QED
  BY Zenon, <1>3 DEF Filled, n, Q

\* The latest rows are the leaves of the last block that verifies a rollup.
LEMMA LatestAre ==
  ASSUME chain \in Chains, NEW n \in 0..MaxBlocks
  PROVE  LatestLeaves(Batches(n)) = Filled(Exits(n))
<1> DEFINE V == {i \in 1..n : chain[i].verified # 0}
           rows == Batches(n)
<1>0. n \in Nat /\ V \in SUBSET (0..n) /\ n \in 0..n /\ \A i \in V : i \in 0..n
  BY BlocksBound
<1>1. rows = {BatchOf(k) : k \in V}
  BY Zenon DEF Batches
<1>2. ASSUME NEW k PROVE BatchOf(k).leaves = Filled(Exits(k)) /\ BatchOf(k).block = k
  BY Zenon, BatchFields
<1> HIDE DEF rows
<1>3. CASE V = {}
  <2>1. rows = {}
    BY Zenon, <1>1, <1>3
  <2>2. {0} \cup {Len(b.leaves) : b \in rows} = {0}
    BY Zenon, <2>1
  <2>3. 0 \in Nat /\ {0} \in SUBSET (0..0) /\ {0} # {}
    OBVIOUS
  <2>4. Rollups(rows) = 0
    BY Zenon, <2>2, <2>3, MaxOf DEF Rollups
  <2>5. Top(Exits(n)) = 0
    <3>1. ASSUME NEW r \in Rollup PROVE Exits(n)[r] = 0
      <4>1. r # 0
        BY Zenon, RollupPlaces
      <4>2. ~\E i \in 1..n : chain[i].verified = r
        BY Zenon, <1>3, <4>1
      <4> QED
        BY Zenon, <4>2, ExitsAre
    <3> QED
      BY Zenon, <3>1, TopFacts
  <2>6. \A r : r \notin 1..0
    OBVIOUS
  <2>7. LatestLeaves(rows) = [r \in 1..0 |->
          (CHOOSE b \in With(rows, r) : \A c \in With(rows, r) : c.block <= b.block).leaves[r]]
    BY Zenon, <2>4 DEF LatestLeaves
  <2>8. Filled(Exits(n)) = [r \in 1..0 |-> LeafOf(Exits(n), r)]
    BY Zenon, <2>5 DEF Filled
  <2> QED
    BY Zenon, <2>6, <2>7, <2>8 DEF rows
<1>4. CASE V # {}
  <2> DEFINE m == Max(V)
             e == Exits(m)
  <2>1. m \in V /\ \A i \in V : i <= m
    BY Zenon, <1>0, <1>4, MaxOf
  <2>2. m \in 0..n /\ (\A i \in V : i \in 0..m)
    BY <1>0, <2>1
  <2> HIDE DEF m
  <2>3. Exits(n) = e
    <3>1. \A i \in 1..n : chain[i].verified # 0 => i <= m
      BY Zenon, <2>1
    <3> QED
      BY Zenon, <2>2, <3>1, ExitsSame
  <2>4. BatchOf(m) \in rows /\ BatchOf(m).leaves = Filled(e) /\ BatchOf(m).block = m
    BY Zenon, <1>1, <1>2, <2>1
  <2>5. m \in 0..MaxBlocks
    BY <2>2, BlocksBound
  <2>6. ASSUME NEW k \in V
        PROVE  Len(BatchOf(k).leaves) <= Top(e) /\ Len(BatchOf(k).leaves) \in 0..Width[0]
    <3>1. Len(BatchOf(k).leaves) = Top(Exits(k))
      BY Zenon, <1>2, FilledLen
    <3>2. Top(Exits(k)) <= Top(e)
      BY Zenon, <2>2, <2>5, TopGrows
    <3> QED
      BY Zenon, <3>1, <3>2, TopFacts
  <2>7. Rollups(rows) = Top(e)
    <3> DEFINE S == {0} \cup {Len(b.leaves) : b \in rows}
    <3>1. Top(e) \in S
      BY Zenon, <2>4, FilledLen
    <3>2. Top(e) \in 0..Width[0] /\ Width[0] \in Nat
      BY Zenon, TopFacts, RollupPlaces
    <3>3. 0 <= Top(e) /\ 0 \in 0..Width[0]
      BY <3>2
    <3>4. \A x \in S : x <= Top(e) /\ x \in 0..Width[0]
      BY Zenon, <1>1, <2>6, <3>3
    <3>5. Max(S) \in S /\ \A x \in S : x <= Max(S)
      BY Zenon, <3>1, <3>2, <3>4, MaxOf
    <3> HIDE DEF S
    <3>6. Max(S) = Top(e)
      <4>1. Max(S) <= Top(e) /\ Top(e) <= Max(S) /\ Max(S) \in 0..Width[0]
        BY Zenon, <3>1, <3>4, <3>5
      <4> QED
        BY <3>2, <4>1
    <3> QED
      BY Zenon, <3>6 DEF S, Rollups
  <2>8. ASSUME NEW r \in 1..Top(e)
        PROVE  (CHOOSE b \in With(rows, r) : \A c \in With(rows, r) : c.block <= b.block).leaves[r]
                 = LeafOf(e, r)
    <3> DEFINE W == With(rows, r)
               b == CHOOSE x \in W : \A c \in W : c.block <= x.block
    <3>1. BatchOf(m) \in W
      BY Zenon, <2>4, FilledLen DEF With
    <3>2. \A c \in W : \E k \in V : c = BatchOf(k)
      BY Zenon, <1>1 DEF With
    <3>3. \A c \in W : c.block <= BatchOf(m).block
      BY Zenon, <1>2, <2>1, <2>4, <3>2
    <3>4. b \in W /\ \A c \in W : c.block <= b.block
      BY Zenon, <3>1, <3>3
    <3> HIDE DEF b, W
    <3>5. PICK k \in V : b = BatchOf(k)
      BY Zenon, <3>2, <3>4
    <3>6. m <= k /\ k <= m /\ k \in 0..n
      BY Zenon, <1>0, <1>2, <2>1, <2>4, <3>1, <3>4, <3>5
    <3>7. k = m
      BY <2>2, <3>6
    <3>8. b.leaves[r] = LeafOf(e, r)
      BY Zenon, <2>4, <3>5, <3>7 DEF Filled
    <3> QED
      BY Zenon, <3>8 DEF b, W
  <2> QED
    BY Zenon, <2>3, <2>7, <2>8 DEF rows, LatestLeaves, Filled
<1> QED
  BY Zenon, <1>3, <1>4

\* The next block adds its batch, as its root is a new one (addRollupExitLeaf).
LEMMA OneBatchMore ==
  ASSUME chain \in Chains, NEW n \in 0..(MaxBlocks - 1), NEW r, r = chain[n + 1].verified
  PROVE  Batches(n + 1)
           = IF r = 0 THEN Batches(n)
             ELSE AddRollupExitLeaf(Batches(n), r, LocalExitRoot(r, Exits(n + 1)[r]), n + 1)
<1> DEFINE V(k) == {i \in 1..k : chain[i].verified # 0}
           e == Exits(n)
           f == Exits(n + 1)
<1>0. /\ n \in 0..MaxBlocks /\ n + 1 \in 0..MaxBlocks /\ n + 1 \in 1..MaxBlocks
      /\ n \in 0..(n + 1) /\ n + 1 \in 1..(n + 1)
      /\ \A i \in 1..(n + 1) : i \in 1..MaxBlocks /\ (i # n + 1 <=> i \in 1..n)
      /\ \A i \in 1..n : i \in 1..(n + 1) /\ i \in 0..MaxBlocks /\ i # n + 1
  BY BlocksBound
<1>1. \A k : Batches(k) = {BatchOf(i) : i \in V(k)}
  BY Zenon DEF Batches
<1>2. CASE r = 0
  <2>1. V(n + 1) = V(n)
    BY Zenon, <1>0, <1>2
  <2> QED
    BY Zenon, <1>1, <1>2, <2>1
<1>3. CASE r # 0
  <2>1. r \in Rollup
    BY Zenon, <1>0, <1>3, VerifiedOnce
  <2>2. V(n + 1) = V(n) \cup {n + 1}
    BY Zenon, <1>0, <1>3
  <2>3. Batches(n + 1) = Batches(n) \cup {BatchOf(n + 1)}
    BY Zenon, <1>1, <2>2
  <2>4. \A k \in 0..n : Exits(k)[r] = 0
    <3>1. ASSUME NEW k \in 0..n PROVE Exits(k)[r] = 0
      <4>1. k \in 0..MaxBlocks /\ \A i \in 1..k : i \in 1..n
        BY BlocksBound
      <4>2. ~\E i \in 1..k : chain[i].verified = r
        BY Zenon, <1>0, <1>3, <4>1, VerifiedOnce
      <4> QED
        BY Zenon, <2>1, <4>1, <4>2, ExitsAre
    <3> QED
      BY Zenon, <3>1
  <2>5. f[r] = 1 /\ f[r] # 0
    <3>1. f[r] = 1
      BY Zenon, <1>0, <2>1, ExitsAre
    <3> QED
      BY <3>1
  <2>6. ASSUME NEW q \in Rollup, q # r PROVE f[q] = e[q]
    <3>1. (\E i \in 1..(n + 1) : chain[i].verified = q) <=> \E i \in 1..n : chain[i].verified = q
      BY Zenon, <1>0, <2>6
    <3>2. e[q] = IF \E i \in 1..n : chain[i].verified = q THEN 1 ELSE 0
      BY Zenon, <1>0, ExitsAre
    <3>3. f[q] = IF \E i \in 1..(n + 1) : chain[i].verified = q THEN 1 ELSE 0
      BY Zenon, <1>0, ExitsAre
    <3> QED
      BY Zenon, <3>1, <3>2, <3>3
  <2>7. n \in 0..n
    BY BlocksBound
  <2> HIDE DEF e, f
  <2>8. e[r] = 0
    BY Zenon, <2>4, <2>7 DEF e
  <2> DEFINE x == LocalExitRoot(r, f[r])
             l == Filled(e)
             N == Max({r, Len(l)})
             new == [i \in 1..N |-> IF i = r THEN x ELSE IF i <= Len(l) THEN l[i] ELSE ZeroHash[0]]
  <2>9. Top(e) \in 0..Width[0] /\ Top(f) \in 0..Width[0] /\ Width[0] \in Nat /\ r \in 1..Width[0]
    BY Zenon, <2>1, TopFacts, RollupPlaces
  <2>10. Len(l) = Top(e)
    BY Zenon, FilledLen
  <2>11. N = Top(f)
    <3>1. {r, Top(e)} \in SUBSET (0..Width[0]) /\ {r, Top(e)} # {}
      BY <2>9
    <3>2. N \in {r, Top(e)} /\ r <= N /\ Top(e) <= N
      BY Zenon, <2>9, <2>10, <3>1, MaxOf
    <3>3. r <= Top(f)
      BY Zenon, <2>1, <2>5, TopFacts
    <3>4. Top(e) <= Top(f)
      <4>1. n + 1 \in 0..MaxBlocks /\ n \in 0..(n + 1)
        BY Zenon, <1>0
      <4> QED
        BY Zenon, <4>1, TopGrows DEF e, f
    <3>5. Top(f) # 0 => Top(f) = r \/ Top(f) <= Top(e)
      <4>1. ASSUME Top(f) # 0, Top(f) # r PROVE Top(f) <= Top(e)
        <5>1. Top(f) \in Rollup /\ f[Top(f)] # 0
          BY Zenon, <4>1, TopFacts
        <5>2. e[Top(f)] # 0
          BY Zenon, <2>6, <4>1, <5>1
        <5> QED
          BY Zenon, <5>1, <5>2, TopFacts
      <4> QED
        BY Zenon, <4>1
    <3> HIDE DEF N
    <3> QED
      BY <2>9, <3>2, <3>3, <3>4, <3>5
  <2>12. new = Filled(f)
    <3>1. ASSUME NEW i \in 1..Top(f)
          PROVE  (IF i = r THEN x ELSE IF i <= Len(l) THEN l[i] ELSE ZeroHash[0]) = LeafOf(f, i)
      <4>1. CASE i = r
        BY Zenon, <2>1, <4>1 DEF LeafOf
      <4>2. CASE i # r
        <5>1. LeafOf(f, i) = LeafOf(e, i)
          BY Zenon, <2>6, <4>2 DEF LeafOf
        <5>2. CASE i <= Len(l)
          <6>1. i \in 1..Top(e)
            BY <2>9, <2>10, <5>2
          <6> QED
            BY Zenon, <4>2, <5>1, <5>2, <6>1 DEF Filled
        <5>3. CASE ~(i <= Len(l))
          <6>1. i \in Rollup => e[i] = 0
            BY Zenon, <2>10, <5>3, TopFacts
          <6>2. LeafOf(e, i) = ZeroHash[0]
            BY Zenon, <6>1, LeafEmpty
          <6> QED
            BY Zenon, <4>2, <5>1, <5>3, <6>2
        <5> QED
          BY Zenon, <5>2, <5>3
      <4> QED
        BY Zenon, <4>1, <4>2
    <3> HIDE DEF N, x, l
    <3> QED
      BY Zenon, <2>11, <3>1 DEF Filled
  <2>13. BuildMTRoot(new) = RollupExitRoot(f)
    BY Zenon, <2>12, FilledRoot
  <2>14. ~IsRollupExitRoot(Batches(n), RollupExitRoot(f))
    <3>1. ASSUME NEW k \in V(n), BatchOf(k).root = RollupExitRoot(f) PROVE FALSE
      <4>1. RollupExitRoot(Exits(k)) = RollupExitRoot(f)
        BY Zenon, <3>1, BatchFields
      <4>2. k \in 0..n
        BY BlocksBound
      <4> QED
        BY Zenon, <2>1, <2>4, <2>5, <4>1, <4>2, RootsDiffer
    <3> QED
      BY Zenon, <1>1, <3>1 DEF IsRollupExitRoot
  <2>15. LatestLeaves(Batches(n)) = l
    BY Zenon, <1>0, LatestAre DEF e
  <2>16. AddRollupExitLeaf(Batches(n), r, x, n + 1) = StoreLeaves(Batches(n), new, n + 1)
    <3> HIDE DEF l
    <3> QED
      BY Zenon, <2>15 DEF AddRollupExitLeaf
  <2> HIDE DEF new, x
  <2>17. StoreLeaves(Batches(n), new, n + 1)
           = Batches(n) \cup {Batch(new, RollupExitRoot(f), n + 1)}
    BY Zenon, <2>13, <2>14 DEF StoreLeaves
  <2> QED
    BY Zenon, <1>3, <2>3, <2>12, <2>16, <2>17 DEF BatchOf, f, x
<1> QED
  BY Zenon, <1>2, <1>3

\* The steps of L1 keep its leaves: a block that is stored and a reorganisation.
LEMMA LeavesStep ==
  FlagTypes /\ Leaves /\ [MCNext]_MCvars => Leaves'
<1> SUFFICES ASSUME FlagTypes, Leaves, [MCNext]_MCvars PROVE Leaves'
  BY Zenon
<1>0. chain \in Chains /\ synced \in 0..MaxBlocks /\ MaxBlocks \in Nat
  BY Zenon, BlocksBound DEF FlagTypes
<1>1. ASSUME UNCHANGED <<chain, synced, exits>> PROVE Leaves'
  BY Zenon, <1>1 DEF Leaves, Batches, BatchOf, Exits
<1>2. CASE L1Commit
  <2> DEFINE n == synced + 1
             r == chain[n].verified
  <2>1. /\ l1Tx # <<>> /\ synced' = n /\ chain' = chain
        /\ exits' = IF r = 0 THEN exits
                    ELSE AddRollupExitLeaf(exits, r, LocalExitRoot(r, Exits(n)[r]), n)
    BY Zenon, <1>2 DEF L1Commit
  <2>2. synced \in 0..(MaxBlocks - 1)
    <3>1. synced + 1 \in 0..MaxBlocks
      BY Zenon, <2>1 DEF FlagTypes
    <3> QED
      BY <1>0, <3>1
  <2>3. exits' = Batches(n)
    BY Zenon, <1>0, <2>1, <2>2, OneBatchMore DEF Leaves
  <2>4. Batches(synced)' = Batches(n)
    BY Zenon, <2>1 DEF Batches, BatchOf, Exits
  <2> QED
    BY Zenon, <2>3, <2>4 DEF Leaves
<1>3. ASSUME NEW n \in 0..(MaxBlocks - 1), NEW fork \in Chains, Reorg(n, fork)
      PROVE  Leaves'
  <2> DEFINE s == Min({synced, n})
  <2>1. /\ synced' = s /\ chain' = fork /\ SubSeq(chain', 1, n) = SubSeq(chain, 1, n)
        /\ exits' = {b \in exits : b.block <= n}
    BY Zenon, <1>3 DEF Reorg
  <2>2. \A i \in 1..n : chain'[i] = chain[i]
    <3>1. fork \in Seq(Transactions) /\ chain \in Seq(Transactions)
          /\ Len(fork) = MaxBlocks /\ Len(chain) = MaxBlocks
      BY <1>0 DEF Chains
    <3>2. ASSUME NEW i \in 1..n
          PROVE  SubSeq(fork, 1, n)[i] = fork[i] /\ SubSeq(chain, 1, n)[i] = chain[i]
      BY <1>0, <3>1
    <3> QED
      BY Zenon, <2>1, <3>2
  <2>3. s \in Nat /\ s \in {synced, n} /\ s <= synced /\ s <= n
    <3>1. synced \in Nat /\ n \in Nat
      BY <1>0
    <3>2. \E x \in {synced, n} : \A y \in {synced, n} : x <= y
      BY <3>1
    <3>3. s \in {synced, n}
      BY Zenon, <3>2 DEF Min
    <3> QED
      BY Zenon, <3>1, <3>3, MinOfTwo
  <2> HIDE DEF s
  <2>4. \A m \in 1..s : m \in 1..n /\ m \in 1..synced
    BY <1>0, <2>3
  <2>5. \A m \in 1..synced : m <= n => m \in 1..s
    BY <1>0, <2>3
  <2>6. ASSUME NEW m \in 1..n PROVE Exits(m)' = Exits(m)
    <3>1. \A i \in 1..m : i \in 1..n
      BY <1>0
    <3>2. \A q \in Rollup :
            {i \in 1..m : chain'[i].verified = q} = {i \in 1..m : chain[i].verified = q}
      BY Zenon, <2>2, <3>1
    <3> QED
      BY Zenon, <3>2 DEF Exits, Rollup
  <2>7. \A k : BatchOf(k).block = k
    BY Zenon, BatchFields
  <2>8. \A m \in 1..n : BatchOf(m)' = BatchOf(m)
    BY Zenon, <2>6 DEF BatchOf, Filled, Top, LeafOf, RollupExitRoot, LocalExitRoot, Rollup
  <2>9. exits = {BatchOf(m) : m \in {i \in 1..synced : chain[i].verified # 0}}
    BY Zenon DEF Leaves, Batches
  <2>10. Batches(synced)' = {BatchOf(m)' : m \in {i \in 1..s : chain'[i].verified # 0}}
    BY Zenon, <2>1 DEF Batches
  <2>11. \A m \in 1..s : m <= n
    BY <1>0, <2>3
  <2>12. exits' = Batches(synced)'
    <3>1. ASSUME NEW b, b \in exits' PROVE b \in Batches(synced)'
      <4>1. PICK m \in 1..synced : b = BatchOf(m) /\ chain[m].verified # 0
        BY Zenon, <2>1, <2>9, <3>1
      <4>2. m <= n /\ m \in 1..s /\ m \in 1..n
        BY Zenon, <2>1, <2>4, <2>5, <2>7, <3>1, <4>1
      <4>3. b = BatchOf(m)' /\ chain'[m].verified # 0
        BY Zenon, <2>2, <2>8, <4>1, <4>2
      <4> QED
        BY Zenon, <2>10, <4>2, <4>3
    <3>2. ASSUME NEW b, b \in Batches(synced)' PROVE b \in exits'
      <4>1. PICK m \in 1..s : b = BatchOf(m)' /\ chain'[m].verified # 0
        BY Zenon, <2>10, <3>2
      <4>2. m \in 1..n /\ m \in 1..synced /\ m <= n
        BY Zenon, <2>4, <2>11
      <4>3. b = BatchOf(m) /\ chain[m].verified # 0
        BY Zenon, <2>2, <2>8, <4>1, <4>2
      <4> QED
        BY Zenon, <2>1, <2>7, <2>9, <4>2, <4>3
    <3> QED
      BY Zenon, <3>1, <3>2
  <2> QED
    BY Zenon, <2>12 DEF Leaves
<1>4. CASE L1Begin
  BY Zenon, <1>1, <1>4 DEF L1Begin
<1>5. CASE L2Deposit \/ L2Commit \/ L2Announce \/ L2RemoveRefused
  BY Zenon, <1>1, <1>5 DEF L2Deposit, L2Commit, L2Announce, L2RemoveRefused, l1Vars
<1>6. ASSUME NEW n, L2Begin(n) PROVE Leaves'
  BY Zenon, <1>1, <1>6 DEF L2Begin, l1Vars
<1>7. ASSUME NEW i, L2Remove(i) PROVE Leaves'
  BY Zenon, <1>1, <1>7 DEF L2Remove, l1Vars
<1>8. ASSUME NEW e, Process(e) PROVE Leaves'
  BY Zenon, <1>1, <1>8 DEF Process, l1Vars
<1>9. CASE UNCHANGED MCvars
  BY Zenon, <1>1, <1>9 DEF MCvars, vars, l1Vars
<1> QED
  BY Zenon, <1>2, <1>3, <1>4, <1>5, <1>6, <1>7, <1>8, <1>9 DEF MCNext, Next

\* The types of the other tables, but for the numbers of the L1 deposits.
Types ==
  /\ made \in 0..L2Deposits
  /\ ready \subseteq ({0} \X Nat) \cup ({Synced} \X (1..made))
  /\ l1Tx # <<>> => l1Tx[1] \subseteq DOMAIN gers
  /\ l2Pc \in {"idle", "store", "announce", "refused"}
  /\ (l2Row # <<>>) = (l2Pc = "store")

\* Each step keeps them.
LEMMA TypesStep ==
  RowTypes /\ FlagTypes /\ Types /\ [MCNext]_MCvars => Types'
<1> SUFFICES ASSUME RowTypes, FlagTypes, Types, [MCNext]_MCvars PROVE Types'
  BY Zenon
<1>0. made \in 0..L2Deposits /\ L2Deposits \in Nat /\ made \in Nat
  <2>1. L2Deposits \in 1..(Width[0] - 1)
    BY Zenon, ExitRootsAssumption
  <2>2. made \in 0..L2Deposits
    BY Zenon DEF Types
  <2> QED
    BY <2>1, <2>2
<1>1. ASSUME UNCHANGED <<made, l2Pc, l2Row>>, ready' \subseteq ready,
             l1Tx' # <<>> => l1Tx'[1] \subseteq DOMAIN gers'
      PROVE  Types'
  BY Zenon, <1>1 DEF Types
<1>2. ASSUME UNCHANGED <<made, ready, l1Tx, l2Row>>, l2Pc # "store",
             l2Pc' \in {"idle", "announce", "refused"}, DOMAIN gers \subseteq DOMAIN gers'
      PROVE  Types'
  <2>1. l2Pc' # "store" /\ l2Pc' \in {"idle", "store", "announce", "refused"}
    BY <1>2
  <2> QED
    BY Zenon, <1>2, <2>1 DEF Types
<1>3. CASE L1Begin
  <2>1. /\ UNCHANGED <<made, l2Pc, l2Row, ready, gers>>
        /\ l1Tx' = <<Incomplete(Ger(synced + 1))>>
    BY Zenon, <1>3 DEF L1Begin, l2Vars
  <2>2. l1Tx'[1] = Incomplete(Ger(synced + 1))
    BY <2>1
  <2>3. l1Tx'[1] \subseteq DOMAIN gers'
    BY Zenon, <2>1, <2>2 DEF Incomplete
  <2> QED
    BY Zenon, <1>1, <2>1, <2>3
<1>4. CASE L1Commit
  BY Zenon, <1>1, <1>4 DEF L1Commit, l2Vars
<1>5. ASSUME NEW n, NEW fork, Reorg(n, fork) PROVE Types'
  BY Zenon, <1>1, <1>5 DEF Reorg, l2Vars, FlagsUpTo
<1>6. CASE L2Deposit
  <2>1. made' = made + 1 /\ made < L2Deposits /\ UNCHANGED <<ready, l1Tx, l2Pc, l2Row, gers>>
    BY Zenon, <1>6 DEF L2Deposit, l1Vars
  <2>2. made' \in 0..L2Deposits /\ 1..made \subseteq 1..made'
    BY <1>0, <2>1
  <2> QED
    BY Zenon, <2>1, <2>2 DEF Types
<1>7. ASSUME NEW n, L2Begin(n) PROVE Types'
  <2>1. /\ l2Pc' = "store" /\ UNCHANGED <<made, ready, l1Tx, gers>>
        /\ \E row : l2Row' = <<row>>
    BY Zenon, <1>7 DEF L2Begin, l1Vars
  <2>2. l2Row' # <<>> /\ l2Pc' \in {"idle", "store", "announce", "refused"}
    BY <2>1
  <2> QED
    BY Zenon, <2>1, <2>2 DEF Types
<1>8. CASE L2Commit
  <2>1. /\ l2Pc' = "announce" /\ l2Row' = <<>> /\ UNCHANGED <<made, ready, l1Tx>>
        /\ gers' = Append(gers, l2Row[1])
    BY Zenon, <1>8 DEF L2Commit, l1Vars
  <2>2. l2Pc' # "store" /\ l2Pc' \in {"idle", "store", "announce", "refused"}
    BY <2>1
  <2>3. DOMAIN gers \subseteq DOMAIN gers'
    <3>1. PICK S : gers \in Seq(RowSet(S))
      BY Zenon DEF RowTypes
    <3> QED
      BY <2>1, <3>1
  <2> QED
    BY Zenon, <2>1, <2>2, <2>3 DEF Types
<1>9. CASE L2Announce
  <2>1. /\ l2Pc = "announce" /\ l2Pc' = "idle" /\ UNCHANGED <<made, ready, l1Tx, l2Row, gers>>
    BY Zenon, <1>9 DEF L2Announce, l1Vars
  <2>2. l2Pc # "store" /\ l2Pc' \in {"idle", "announce", "refused"}
    BY <2>1
  <2> QED
    BY Zenon, <1>2, <2>1, <2>2
<1>10. ASSUME NEW i, L2Remove(i) PROVE Types'
  <2>1. /\ gers' = [gers EXCEPT ![i].allowed = FALSE] /\ ready' \subseteq ready
        /\ UNCHANGED <<made, l1Tx, l2Pc, l2Row>>
    BY Zenon, <1>10 DEF L2Remove, l1Vars
  <2>2. DOMAIN gers' = DOMAIN gers
    BY Zenon, <2>1
  <2>3. l1Tx' # <<>> => l1Tx'[1] \subseteq DOMAIN gers'
    BY Zenon, <2>1, <2>2 DEF Types
  <2> QED
    BY Zenon, <1>1, <2>1, <2>3
<1>11. CASE L2RemoveRefused
  <2>1. /\ l2Pc = "idle" /\ l2Pc' = "refused" /\ UNCHANGED <<made, ready, l1Tx, l2Row, gers>>
    BY Zenon, <1>11 DEF L2RemoveRefused, l1Vars
  <2>2. l2Pc # "store" /\ l2Pc' \in {"idle", "announce", "refused"}
    BY <2>1
  <2> QED
    BY Zenon, <1>2, <2>1, <2>2
<1>12. ASSUME NEW e \in events, Process(e) PROVE Types'
  <2>1. /\ UNCHANGED <<made, l1Tx, l2Pc, l2Row, gers>>
        /\ ready' \subseteq ready \cup ({Synced} \X CoveredL2(e.ger)) \cup ({0} \X CoveredL1(e.ger))
    BY Zenon, <1>12 DEF Process, l1Vars, l2Vars
  <2>2. CoveredL2(e.ger) \subseteq 1..made
    BY Zenon DEF CoveredL2
  <2>3. CoveredL1(e.ger) \subseteq Nat
    <3>1. e.ger.main \in Seq(Content)
      BY Zenon DEF FlagTypes
    <3>2. 1..Len(e.ger.main) \subseteq Nat
      BY <3>1
    <3> QED
      BY Zenon, <3>2 DEF CoveredL1
  <2>4. ready' \subseteq ({0} \X Nat) \cup ({Synced} \X (1..made))
    BY Zenon, <2>1, <2>2, <2>3 DEF Types
  <2> QED
    BY Zenon, <2>1, <2>4 DEF Types
<1>13. CASE UNCHANGED MCvars
  <2>1. UNCHANGED <<made, ready, l1Tx, l2Pc, l2Row, gers>>
    BY Zenon, <1>13 DEF MCvars, vars, l1Vars, l2Vars
  <2> QED
    BY Zenon, <2>1 DEF Types
<1> QED
  BY Zenon, <1>3, <1>4, <1>5, <1>6, <1>7, <1>8, <1>9, <1>10, <1>11, <1>12, <1>13
     DEF MCNext, Next

\* With the numbers of the deposits these are the types.
LEMMA TypesHold == FlagTypes /\ Leaves /\ Types => TypeOK
<1> SUFFICES ASSUME FlagTypes, Leaves, Types PROVE TypeOK
  BY Zenon
<1>1. \A b \in exits : b.block \in 1..synced
  BY Zenon, BatchFields DEF Leaves, Batches
<1>2. ready \subseteq ({0} \X (1..Len(MainnetDeposits(synced)))) \cup ({Synced} \X (1..made))
  <2> SUFFICES ASSUME NEW d \in ready
               PROVE  d \in ({0} \X (1..Len(MainnetDeposits(synced)))) \cup ({Synced} \X (1..made))
    BY Zenon
  <2>1. CASE d \in {0} \X Nat
    <3>1. PICK k \in Nat : d = <<0, k>>
      BY <2>1
    <3>2. k \in 1..Len(MainnetDeposits(synced))
      BY Zenon, <3>1 DEF FlagTypes
    <3> QED
      BY Zenon, <3>1, <3>2
  <2>2. CASE d \in {Synced} \X (1..made)
    BY Zenon, <2>2
  <2> QED
    BY Zenon, <2>1, <2>2 DEF Types
<1> QED
  BY Zenon, <1>1, <1>2 DEF TypeOK, FlagTypes, Types

\* The leaves of the rollup tree are those of the stored blocks.
LEMMA LeavesLatest ==
  ASSUME FlagTypes, Leaves
  PROVE  BuildMTRoot(LatestLeaves(exits)) = RollupExitRoot(Exits(synced))
<1>1. chain \in Chains /\ synced \in 0..MaxBlocks
  BY Zenon DEF FlagTypes
<1> QED
  BY Zenon, <1>1, LatestAre, FilledRoot DEF Leaves

\* Every root that L1 had is found with its leaves.
LEMMA LeavesFound ==
  ASSUME FlagTypes, Leaves, NEW n \in 1..synced, NEW r \in Rollup, Exits(n)[r] # 0
  PROVE  LeavesByRoot(exits, RollupExitRoot(Exits(n))) = Filled(Exits(n))
<1> DEFINE V == {i \in 1..n : chain[i].verified # 0}
           e == Exits(n)
           t == RollupExitRoot(e)
<1>0. /\ chain \in Chains /\ synced \in 0..MaxBlocks /\ MaxBlocks \in Nat
      /\ n \in Nat /\ n \in 0..MaxBlocks /\ V \in SUBSET (0..n)
      /\ \A i \in 1..n : i \in 1..synced
  BY BlocksBound DEF FlagTypes
<1>1. exits = {BatchOf(i) : i \in {i \in 1..synced : chain[i].verified # 0}}
  BY Zenon DEF Leaves, Batches
<1>2. \A k : BatchOf(k).leaves = Filled(Exits(k)) /\ BatchOf(k).root = RollupExitRoot(Exits(k))
  BY Zenon, BatchFields
<1>3. V # {}
  <2>1. r # 0
    BY Zenon, RollupPlaces
  <2>2. \E i \in 1..n : chain[i].verified = r
    BY Zenon, <1>0, ExitsAre
  <2> QED
    BY Zenon, <2>1, <2>2
<1> DEFINE m == Max(V)
<1>4. m \in V /\ \A i \in V : i <= m
  BY Zenon, <1>0, <1>3, MaxOf
<1>5. m \in 0..n
  BY Zenon, <1>0, <1>4
<1> HIDE DEF m
<1>6. Exits(m) = e
  <2>1. \A i \in 1..n : chain[i].verified # 0 => i <= m
    BY Zenon, <1>4
  <2> QED
    BY Zenon, <1>0, <1>5, <2>1, ExitsSame
<1>7. BatchOf(m) \in exits /\ BatchOf(m).root = t
  BY Zenon, <1>0, <1>1, <1>2, <1>4, <1>6
<1>8. ASSUME NEW b \in exits, b.root = t PROVE b.leaves = Filled(e)
  <2>1. PICK k \in {i \in 1..synced : chain[i].verified # 0} : b = BatchOf(k)
    BY Zenon, <1>1
  <2>2. RollupExitRoot(Exits(k)) = RollupExitRoot(e) /\ b.leaves = Filled(Exits(k))
    BY Zenon, <1>2, <1>8, <2>1
  <2>3. k \in 0..MaxBlocks
    BY <1>0
  <2>4. ASSUME NEW q \in Rollup PROVE Exits(k)[q] = e[q]
    <3>1. Exits(k)[q] = 0 <=> e[q] = 0
      BY Zenon, <2>2, RootsDiffer
    <3>2. Exits(k)[q] \in {0, 1} /\ e[q] \in {0, 1}
      BY Zenon, <1>0, <2>3, ExitsAre
    <3> QED
      BY Zenon, <3>1, <3>2
  <2>5. Exits(k) = [q \in Rollup |-> Exits(k)[q]] /\ e = [q \in Rollup |-> e[q]]
    BY Zenon DEF Exits
  <2>6. Exits(k) = e
    BY Zenon, <2>4, <2>5
  <2> QED
    BY Zenon, <2>2, <2>6
<1> HIDE DEF e, t
<1>9. IsRollupExitRoot(exits, t)
  BY Zenon, <1>7 DEF IsRollupExitRoot
<1>10. LET b == CHOOSE b \in exits : b.root = t IN b \in exits /\ b.root = t
  BY Zenon, <1>7
<1> QED
  BY Zenon, <1>8, <1>9, <1>10 DEF LeavesByRoot, e, t

\* They hold at the start.
LEMMA LeavesInit == MCInit => RowTypes /\ FlagTypes /\ Flags /\ Leaves /\ Types
<1> SUFFICES ASSUME MCInit PROVE RowTypes /\ FlagTypes /\ Flags /\ Leaves /\ Types
  BY Zenon
<1>1. RowTypes /\ FlagTypes /\ Flags
  BY Zenon, FlagsInit
<1>2. /\ synced = 0 /\ exits = {} /\ l1Tx = <<>> /\ l2Pc = "idle" /\ l2Row = <<>>
      /\ made = 0 /\ ready = {}
  BY Zenon DEF MCInit, Init
<1>3. Leaves
  <2>1. \A i : i \notin 1..0
    OBVIOUS
  <2>2. Batches(0) = {}
    BY Zenon, <2>1 DEF Batches
  <2> QED
    BY Zenon, <1>2, <2>2 DEF Leaves
<1>4. Types
  <2>1. L2Deposits \in 1..(Width[0] - 1)
    BY Zenon, ExitRootsAssumption
  <2>2. made \in 0..L2Deposits
    BY <1>2, <2>1
  <2>3. l2Pc # "store" /\ l2Pc \in {"idle", "store", "announce", "refused"}
    BY <1>2
  <2> QED
    BY Zenon, <1>2, <2>2, <2>3 DEF Types
<1> QED
  BY Zenon, <1>1, <1>3, <1>4

\* The leaves of the rollup tree are those of the blocks that L1 has stored, and those of
\* every root it had can be looked up, for all trees and chains and through all
\* reorganisations (addRollupExitLeaf, storeLeaves, Reset).
THEOREM LeavesAlwaysFollow == MCSpec => []LeavesFollowL1
<1> DEFINE Inv == RowTypes /\ FlagTypes /\ Flags /\ Leaves /\ Types
<1>1. MCInit => Inv
  BY Zenon, LeavesInit
<1>2. Inv /\ [MCNext]_MCvars => Inv'
  BY Zenon, RowTypesStep, FlagsStep, LeavesStep, TypesStep
<1>3. Inv => LeavesFollowL1
  <2> SUFFICES ASSUME FlagTypes, Leaves, Types PROVE LeavesFollowL1
    BY Zenon
  <2>1. ASSUME NEW n \in 1..synced, NEW r \in Rollup, Exits(n)[r] > 0
        PROVE  LeavesByRoot(exits, RollupExitRoot(Exits(n)))[r] = LocalExitRoot(r, Exits(n)[r])
    <3> DEFINE e == Exits(n)
    <3>1. e[r] # 0
      <4>1. chain \in Chains /\ n \in 0..MaxBlocks
        BY BlocksBound DEF FlagTypes
      <4>2. e[r] = IF \E i \in 1..n : chain[i].verified = r THEN 1 ELSE 0
        BY Zenon, <4>1, ExitsAre
      <4> QED
        BY <2>1, <4>2
    <3>2. LeavesByRoot(exits, RollupExitRoot(e)) = Filled(e)
      BY Zenon, <3>1, LeavesFound
    <3> HIDE DEF e
    <3>3. r \in 1..Top(e)
      <4>1. r <= Top(e) /\ Top(e) \in 0..Width[0] /\ r \in 1..Width[0] /\ Width[0] \in Nat
        BY Zenon, <3>1, TopFacts, RollupPlaces
      <4> QED
        BY <4>1
    <3> QED
      BY Zenon, <3>2, <3>3 DEF Filled, LeafOf, e
  <2> QED
    BY Zenon, <2>1, TypesHold, LeavesLatest DEF LeavesFollowL1
<1> HIDE DEF Inv
<1> QED
  BY <1>1, <1>2, <1>3, PTL DEF MCSpec
-----------------------------------------------------------------------------
(***************************************************************************)
(* What the server finds in the tables while L1 is not reorganised.        *)
(***************************************************************************)
\* L1 has the roots that it announced.
Announced == \A e \in events : e.l1 => IsL1Ger(e.ger)

\* The L2 deposits that are ready are verified.
ReadyVerified == \A d \in ready : d[1] = Synced => d[2] <= Exits(synced)[Synced]

\* The deposits of the batches that L1 has are stored.
BatchStored ==
  Exits(synced)[Synced] <= made /\ (l1Tx # <<>> => RootExists(synced + 1))

\* An open L1 transaction completes rows of its own root.
ReadsNext == l1Tx # <<>> => \A i \in l1Tx[1] : gers[i].ger = Ger(synced + 1)

\* A row has a root of the chain, and is complete only when L1 has it too.
OfChain(row) ==
  (\E m \in 1..MaxBlocks : row.ger = Ger(m)) /\ (row.full => IsL1Ger(row.ger))

\* The rows of L2 are in the order of the chain.
InOrder ==
  /\ \A i \in DOMAIN gers : OfChain(gers[i])
  /\ \A i, j \in DOMAIN gers : i <= j => Len(gers[i].ger.main) <= Len(gers[j].ger.main)
  /\ l2Pc = "store" =>
       /\ OfChain(l2Row[1])
       /\ \A i \in DOMAIN gers : Len(gers[i].ger.main) <= Len(l2Row[1].ger.main)

Sound == Announced /\ ReadyVerified /\ BatchStored /\ ReadsNext /\ InOrder
Unforked == reorgs \in Nat /\ (reorgs = 0 => Sound)

\* The blocks that are stored.
LEMMA StoredBlocks ==
  ASSUME FlagTypes
  PROVE  /\ chain \in Chains /\ DOMAIN chain = 1..MaxBlocks /\ Len(chain) = MaxBlocks
         /\ synced \in Nat /\ synced \in 0..MaxBlocks /\ Synced \in Rollup
         /\ \A m \in 1..synced : m \in 0..synced /\ m \in 0..MaxBlocks /\ m \in 1..MaxBlocks
<1>1. chain \in Chains /\ synced \in 0..MaxBlocks
  BY Zenon DEF FlagTypes
<1>2. DOMAIN chain = 1..MaxBlocks /\ Len(chain) = MaxBlocks
  BY <1>1, BlocksBound DEF Chains
<1>3. /\ synced \in Nat
      /\ \A m \in 1..synced : m \in 0..synced /\ m \in 0..MaxBlocks /\ m \in 1..MaxBlocks
  BY <1>1, BlocksBound
<1> QED
  BY Zenon, <1>1, <1>2, <1>3 DEF Rollup

\* A rollup is verified at most once.
LEMMA ExitsCount ==
  ASSUME chain \in Chains, NEW n \in 0..MaxBlocks, NEW m \in 0..n, NEW r \in Rollup
  PROVE  /\ Exits(n)[r] \in Nat /\ Exits(m)[r] \in Nat /\ Exits(m)[r] <= Exits(n)[r]
         /\ Exits(n)[r] # 0 => n # 0 /\ Exits(n)[r] = 1
<1>0. m \in 0..MaxBlocks /\ (\A i \in 1..m : i \in 1..n) /\ \A i : i \notin 1..0
  BY BlocksBound
<1> DEFINE P(x) == \E i \in 1..x : chain[i].verified = r
<1>1. Exits(n)[r] = IF P(n) THEN 1 ELSE 0
  BY Zenon, ExitsAre
<1>2. Exits(m)[r] = IF P(m) THEN 1 ELSE 0
  BY Zenon, <1>0, ExitsAre
<1>3. (P(m) => P(n)) /\ ~P(0)
  BY Zenon, <1>0
<1> HIDE DEF P
<1>4. Exits(n)[r] # 0 => n # 0
  BY Zenon, <1>1, <1>3
<1> DEFINE a == Exits(n)[r]
           b == Exits(m)[r]
<1> HIDE DEF a, b
<1>5. a = (IF P(n) THEN 1 ELSE 0) /\ b = (IF P(m) THEN 1 ELSE 0)
  BY Zenon, <1>1, <1>2 DEF a, b
<1>6. a \in Nat /\ b \in Nat /\ b <= a /\ (a # 0 => a = 1)
  BY <1>3, <1>5
<1> QED
  BY Zenon, <1>4, <1>6 DEF a, b

\* A block without a batch of the rollup.
LEMMA NextExits ==
  ASSUME chain \in Chains, NEW n \in 0..(MaxBlocks - 1), NEW r \in Rollup,
         chain[n + 1].verified # r
  PROVE  Exits(n + 1)[r] = Exits(n)[r]
<1>0. /\ n \in 0..MaxBlocks /\ n + 1 \in 0..MaxBlocks
      /\ \A i \in 1..(n + 1) : i = n + 1 \/ i \in 1..n
      /\ \A i \in 1..n : i \in 1..(n + 1)
  BY BlocksBound
<1>1. (\E i \in 1..(n + 1) : chain[i].verified = r) <=> \E i \in 1..n : chain[i].verified = r
  BY Zenon, <1>0
<1>2. Exits(n)[r] = IF \E i \in 1..n : chain[i].verified = r THEN 1 ELSE 0
  BY Zenon, <1>0, ExitsAre
<1>3. Exits(n + 1)[r] = IF \E i \in 1..(n + 1) : chain[i].verified = r THEN 1 ELSE 0
  BY Zenon, <1>0, ExitsAre
<1> QED
  BY Zenon, <1>1, <1>2, <1>3

\* The numbers of the deposits that are ready.
LEMMA ReadyNumbers ==
  ASSUME Types, NEW d \in ready
  PROVE  /\ d[2] \in Nat /\ (d[1] = 0 \/ d[1] = Synced) /\ Synced # 0
         /\ d[1] = 0 => <<0, d[2]>> \in ready
         /\ d[1] = Synced => d[2] \in 1..made
<1>0. Synced # 0
  BY Zenon, RollupPlaces DEF Rollup
<1>1. CASE d \in {0} \X Nat
  <2>1. d[1] = 0 /\ d[2] \in Nat /\ d = <<0, d[2]>>
    BY <1>1
  <2> QED
    BY Zenon, <1>0, <2>1
<1>2. CASE d \in {Synced} \X (1..made)
  <2>1. d[1] = Synced /\ d[2] \in 1..made
    BY <1>2
  <2>2. d[2] \in Nat
    BY <2>1
  <2> QED
    BY Zenon, <1>0, <2>1, <2>2
<1> QED
  BY Zenon, <1>1, <1>2 DEF Types
\* The root of a tree of L2 deposits.
LEMMA L2Root ==
  ASSUME NEW r, NEW n \in Nat
  PROVE  ExitRoot(L2Tree(r, n)) = RootOf([i \in 1..n |-> Leaf(L2Tree(r, n)[i])])
<1>1. DOMAIN L2Tree(r, n) = 1..n
  BY Zenon DEF L2Tree
<1> QED
  BY Zenon, <1>1 DEF ExitRoot

\* The root tells a tree with one deposit from one with more.
LEMMA OneDeposit ==
  ASSUME NEW n \in 1..(Width[0] - 1), NEW r, LocalExitRoot(r, n) = LocalExitRoot(r, 1)
  PROVE  n = 1
<1> SUFFICES ASSUME n # 1 PROVE FALSE
  BY Zenon
<1> DEFINE x(k) == [i \in 1..k |-> Leaf(L2Tree(r, k)[i])]
<1>0. Width[0] \in Nat
  BY Zenon, RollupPlaces
<1>1. /\ n \in Nat /\ 1 \in Nat /\ n # 0 /\ 1 # 0 /\ 1 < n /\ ~(1 < 1)
      /\ 1 \in 0..(Width[0] - 1) /\ 2 \in 1..n /\ 1 + 1 = 2
  BY <1>0
<1>2. RootOf(x(n)) = RootOf(x(1))
  BY Zenon, <1>1, L2Root DEF LocalExitRoot
<1>3. Len(x(n)) = n /\ Len(x(1)) = 1
  <2>1. ASSUME NEW k \in Nat PROVE Len(x(k)) = k
    <3> DEFINE Q(i) == Leaf(L2Tree(r, k)[i])
    <3> HIDE DEF Q
    <3>1. Len([i \in 1..k |-> Q(i)]) = k
      OBVIOUS
    <3> QED
      BY Zenon, <3>1 DEF Q
  <2> QED
    BY Zenon, <1>1, <2>1
<1>4. x(n)[2] = Leaf(r)
  BY Zenon, <1>1 DEF L2Tree
<1> HIDE DEF x
<1>5. Complete(x(n))[0][1] = Leaf(r)
  BY Zenon, <1>1, <1>3, <1>4, CompleteTree
<1>6. Complete(x(1))[0][1] = ZeroHash[0]
  BY Zenon, <1>1, <1>3, CompleteTree
<1>7. Leaf(r) = ZeroHash[0]
  BY Zenon, <1>1, <1>2, <1>5, <1>6, RootsTellLeaves
<1>8. Leaf(r) # <<>>
  BY DEF Leaf
<1> QED
  BY Zenon, <1>7, <1>8, ZeroHashes

\* The deposits that a goroutine makes ready are verified.
LEMMA CoveredVerified ==
  ASSUME FlagTypes, Types, Leaves, NEW g, IsL1Ger(g), NEW k \in CoveredL2(g)
  PROVE  k <= Exits(synced)[Synced]
<1>1. PICK m \in 1..synced : Ger(m) = g
  BY Zenon DEF IsL1Ger
<1>2. /\ chain \in Chains /\ synced \in 0..MaxBlocks /\ Synced \in Rollup
      /\ \A i \in 1..synced : i \in 0..synced /\ i \in 0..MaxBlocks
  BY Zenon, StoredBlocks
<1>3. g.rollups = Exits(m)
  <2> DEFINE x == MainnetDeposits(m)
             y == Exits(m)
  <2> HIDE DEF x, y
  <2>1. g = [main |-> x, rollups |-> y]
    BY Zenon, <1>1 DEF Ger, x, y
  <2>2. g.rollups = y
    BY <2>1
  <2> QED
    BY Zenon, <2>2 DEF y
<1> DEFINE t == RollupExitRoot(Exits(m))
           l == LeavesByRoot(exits, t)
<1>4. /\ k \in 1..made /\ Synced \in DOMAIN l
      /\ \E n \in k..made : l[Synced] = LocalExitRoot(Synced, n)
  BY Zenon, <1>3 DEF CoveredL2
<1>5. PICK n \in k..made : l[Synced] = LocalExitRoot(Synced, n)
  BY Zenon, <1>4
<1>6. n \in 1..(Width[0] - 1) /\ n # 0 /\ k <= n
  <2>1. L2Deposits \in 1..(Width[0] - 1) /\ made \in 0..L2Deposits /\ Width[0] \in Nat
    BY Zenon, ExitRootsAssumption, RollupPlaces DEF Types
  <2> HIDE DEF l
  <2> QED
    BY <1>4, <1>5, <2>1
<1>7. PICK q \in 1..synced : /\ RollupExitRoot(Exits(q)) = t /\ l = Filled(Exits(q))
  <2>1. IsRollupExitRoot(exits, t)
    <3>1. DOMAIN <<>> = {}
      OBVIOUS
    <3> QED
      BY Zenon, <1>4, <3>1 DEF LeavesByRoot
  <2> DEFINE b == CHOOSE b \in exits : b.root = t
  <2>2. b \in exits /\ b.root = t
    BY Zenon, <2>1 DEF IsRollupExitRoot
  <2>3. l = b.leaves
    BY Zenon, <2>1 DEF LeavesByRoot
  <2> HIDE DEF b, t, l
  <2>4. PICK q \in 1..synced : b = BatchOf(q)
    BY Zenon, <2>2 DEF Leaves, Batches
  <2> QED
    BY Zenon, <2>2, <2>3, <2>4, BatchFields
<1> DEFINE e == Exits(q)
<1>8. l[Synced] = LocalExitRoot(Synced, e[Synced])
  <2>1. Synced \in 1..Top(e)
    BY Zenon, <1>4, <1>7, FilledLen
  <2> QED
    BY Zenon, <1>2, <1>7, <2>1 DEF Filled, LeafOf
<1>9. e[Synced] # 0
  <2>1. LocalExitRoot(Synced, n) # ZeroHash[0]
    BY Zenon, <1>6, RootNotEmpty DEF LocalExitRoot, ExitRoot
  <2> QED
    BY Zenon, <1>5, <1>8, <2>1 DEF LocalExitRoot
<1>10. Exits(m)[Synced] # 0
  BY Zenon, <1>2, <1>7, <1>9, RootsDiffer
<1>11. e[Synced] = 1 /\ Exits(m)[Synced] = 1
  <2>1. q \in 0..MaxBlocks /\ m \in 0..MaxBlocks /\ q \in 0..q /\ m \in 0..m
    BY StoredBlocks
  <2> QED
    BY Zenon, <1>2, <1>9, <1>10, <2>1, ExitsCount
<1>12. n = 1
  BY Zenon, <1>5, <1>6, <1>8, <1>11, OneDeposit
<1> DEFINE x == Exits(synced)[Synced]
<1>13. 1 <= x /\ x \in Nat
  BY Zenon, <1>2, <1>11, ExitsCount
<1>14. k \in Nat /\ k <= 1
  BY <1>4, <1>6, <1>12
<1> HIDE DEF x
<1>15. k <= x
  BY <1>13, <1>14
<1> QED
  BY Zenon, <1>15 DEF x
\* The roots of a chain that stays.
LEMMA SameChain ==
  ASSUME chain' = chain
  PROVE  \A n : Ger(n)' = Ger(n) /\ Exits(n)' = Exits(n)
  BY Zenon DEF Ger, MainnetDeposits, Exits

\* What a step does not touch stays as it is.
LEMMA SoundKept ==
  ASSUME Types, UNCHANGED <<chain, synced>>
  PROVE  /\ Announced /\ (\A e \in events' : e \in events \/ ~e.l1) => Announced'
         /\ ReadyVerified /\ (\A d \in ready' : d \in ready \/ d[1] = 0) => ReadyVerified'
         /\ BatchStored /\ UNCHANGED <<made, l1Tx>> => BatchStored'
         /\ /\ ReadsNext /\ l1Tx' = l1Tx
            /\ \A i \in DOMAIN gers : gers'[i].ger = gers[i].ger
            => ReadsNext'
         /\ /\ InOrder /\ DOMAIN gers' = DOMAIN gers
            /\ \A i \in DOMAIN gers : gers'[i].ger = gers[i].ger /\ gers'[i].full = gers[i].full
            /\ l2Pc' = "store" => l2Pc = "store" /\ l2Row' = l2Row
            => InOrder'
<1>0. \A g : IsL1Ger(g)' <=> IsL1Ger(g)
  BY Zenon, SameChain DEF IsL1Ger
<1>1. Announced /\ (\A e \in events' : e \in events \/ ~e.l1) => Announced'
  BY Zenon, <1>0 DEF Announced
<1>2. ReadyVerified /\ (\A d \in ready' : d \in ready \/ d[1] = 0) => ReadyVerified'
  <2>1. Synced # 0
    BY Zenon, RollupPlaces DEF Rollup
  <2> QED
    BY Zenon, <2>1, SameChain DEF ReadyVerified
<1>3. BatchStored /\ UNCHANGED <<made, l1Tx>> => BatchStored'
  BY Zenon, SameChain DEF BatchStored, RootExists
<1>4. /\ ReadsNext /\ l1Tx' = l1Tx
      /\ \A i \in DOMAIN gers : gers'[i].ger = gers[i].ger
      => ReadsNext'
  BY Zenon, SameChain DEF ReadsNext, Types
<1>5. ASSUME InOrder, DOMAIN gers' = DOMAIN gers,
             \A i \in DOMAIN gers : gers'[i].ger = gers[i].ger /\ gers'[i].full = gers[i].full,
             l2Pc' = "store" => l2Pc = "store" /\ l2Row' = l2Row
      PROVE  InOrder'
  <2>1. \A i \in DOMAIN gers' : OfChain(gers[i])'
    BY Zenon, <1>0, <1>5, SameChain DEF InOrder, OfChain
  <2>2. \A i, j \in DOMAIN gers' : i <= j => Len(gers'[i].ger.main) <= Len(gers'[j].ger.main)
    BY Zenon, <1>5 DEF InOrder
  <2>3. l2Pc' = "store" =>
          /\ OfChain(l2Row[1])'
          /\ \A i \in DOMAIN gers' : Len(gers'[i].ger.main) <= Len(l2Row'[1].ger.main)
    BY Zenon, <1>0, <1>5, SameChain DEF InOrder, OfChain
  <2> QED
    BY Zenon, <2>1, <2>2, <2>3 DEF InOrder
<1> QED
  BY Zenon, <1>1, <1>2, <1>3, <1>4, <1>5

\* L1 commits a block.
LEMMA L1CommitSound ==
  ASSUME RowTypes, FlagTypes, Types, Sound, L1Commit
  PROVE  Sound'
<1> DEFINE n == synced + 1
<1>1. /\ l1Tx # <<>> /\ l1Tx' = <<>> /\ synced' = n
      /\ UNCHANGED <<chain, ready, made, l2Pc, l2Row>>
      /\ gers' = [i \in DOMAIN gers |->
                    IF i \in l1Tx[1] THEN [gers[i] EXCEPT !.full = TRUE] ELSE gers[i]]
      /\ \A e \in events' : e \in events \/ e = [ger |-> Ger(n), l1 |-> TRUE]
  BY Zenon DEF L1Commit, l2Vars
<1>2. /\ chain \in Chains /\ synced \in Nat /\ synced \in 0..MaxBlocks /\ Synced \in Rollup
      /\ n \in 0..MaxBlocks
  BY Zenon, <1>1, StoredBlocks DEF FlagTypes
<1>3. /\ n \in 1..n /\ synced \in 0..n /\ synced \in 0..(MaxBlocks - 1)
      /\ \A i \in 1..synced : i \in 1..n
  BY <1>2, BlocksBound
<1>4. /\ \A g : IsL1Ger(g) => IsL1Ger(g)'
      /\ \A g : g = Ger(n) => IsL1Ger(g)'
  BY Zenon, <1>1, <1>3, SameChain DEF IsL1Ger
<1>5. Announced'
  <2> DEFINE g == Ger(n)
  <2>1. ASSUME NEW e, e = [ger |-> g, l1 |-> TRUE] PROVE e.ger = g
    BY Zenon, <2>1
  <2> HIDE DEF g
  <2>2. \A e \in events' : e \in events \/ e.ger = g
    BY Zenon, <1>1, <2>1 DEF g
  <2> QED
    BY Zenon, <1>4, <2>2 DEF Announced, Sound, g
<1>6. ReadyVerified'
  <2> DEFINE x == Exits(synced)[Synced]
             y == Exits(n)[Synced]
  <2>1. x \in Nat /\ y \in Nat /\ x <= y
    BY Zenon, <1>2, <1>3, ExitsCount
  <2> SUFFICES ASSUME NEW d \in ready, d[1] = Synced PROVE d[2] <= y
    BY Zenon, <1>1, SameChain DEF ReadyVerified
  <2>2. d[2] \in Nat /\ d[2] <= x
    BY Zenon, ReadyNumbers DEF Sound, ReadyVerified
  <2> HIDE DEF x, y
  <2> QED
    BY <2>1, <2>2
<1>7. BatchStored'
  <2>1. Exits(n)[Synced] <= made
    <3>1. CASE chain[n].verified = Synced
      BY Zenon, <1>1, <3>1 DEF Sound, BatchStored, RootExists
    <3>2. CASE chain[n].verified # Synced
      <4>1. Exits(n)[Synced] = Exits(synced)[Synced]
        BY Zenon, <1>2, <1>3, <3>2, NextExits
      <4> QED
        BY Zenon, <4>1 DEF Sound, BatchStored
    <3> QED
      BY Zenon, <3>1, <3>2
  <2> QED
    BY Zenon, <1>1, <2>1, SameChain DEF BatchStored
<1>8. ReadsNext'
  BY Zenon, <1>1 DEF ReadsNext
<1>9. InOrder'
  <2>1. PICK S : gers \in Seq(RowSet(S))
    BY Zenon DEF RowTypes
  <2>2. \A i \in DOMAIN gers : gers[i] \in RowSet(S)
    BY <2>1
  <2>3. DOMAIN gers' = DOMAIN gers
    BY Zenon, <1>1
  <2>4. ASSUME NEW i \in DOMAIN gers
        PROVE  /\ gers'[i].ger = gers[i].ger
               /\ gers'[i].full => gers[i].full \/ gers[i].ger = Ger(n)
    <3>1. CASE i \in l1Tx[1]
      <4>1. gers[i].ger = Ger(n)
        BY Zenon, <1>1, <3>1 DEF Sound, ReadsNext
      <4>2. gers'[i] = [gers[i] EXCEPT !.full = TRUE]
        BY Zenon, <1>1, <3>1
      <4> QED
        BY Zenon, <2>2, <4>1, <4>2, CompletedRow
    <3>2. CASE i \notin l1Tx[1]
      <4>1. gers'[i] = gers[i]
        BY Zenon, <1>1, <3>2
      <4> QED
        BY Zenon, <4>1
    <3> QED
      BY Zenon, <3>1, <3>2
  <2>5. ASSUME NEW i \in DOMAIN gers PROVE OfChain(gers[i])'
    <3>1. (\E m \in 1..MaxBlocks : gers[i].ger = Ger(m)) /\ (gers[i].full => IsL1Ger(gers[i].ger))
      BY Zenon DEF Sound, InOrder, OfChain
    <3>2. \E m \in 1..MaxBlocks : gers'[i].ger = Ger(m)'
      BY Zenon, <1>1, <2>4, <3>1, SameChain
    <3>3. gers'[i].full => IsL1Ger(gers[i].ger)'
      BY Zenon, <1>4, <2>4, <3>1
    <3> QED
      BY Zenon, <3>2, <3>3 DEF OfChain
  <2>6. \A i, j \in DOMAIN gers' : i <= j => Len(gers'[i].ger.main) <= Len(gers'[j].ger.main)
    BY Zenon, <2>3, <2>4 DEF Sound, InOrder
  <2>7. l2Pc' = "store" =>
          /\ OfChain(l2Row[1])'
          /\ \A i \in DOMAIN gers' : Len(gers'[i].ger.main) <= Len(l2Row'[1].ger.main)
    BY Zenon, <1>1, <1>4, <2>3, <2>4, SameChain DEF Sound, InOrder, OfChain
  <2> QED
    BY Zenon, <2>3, <2>5, <2>6, <2>7 DEF InOrder
<1> QED
  BY Zenon, <1>5, <1>6, <1>7, <1>8, <1>9 DEF Sound

\* L2 looks a root up.
LEMMA L2BeginSound ==
  ASSUME FlagTypes, Types, Sound, NEW n \in DOMAIN chain, L2Begin(n)
  PROVE  Sound'
<1> DEFINE g == Ger(n)
           f == IsL1Ger(Ger(n))
           row == [ger |-> g, full |-> f, allowed |-> TRUE]
<1>1. /\ UNCHANGED <<chain, synced, gers, ready, l1Tx, made, events>>
      /\ l2Row' = <<row>>
  BY Zenon DEF L2Begin, l1Vars
<1> HIDE DEF g, f
<1>2. row.ger = g /\ row.full = f
  BY Zenon
<1> HIDE DEF row
<1>3. l2Row'[1] = row
  BY <1>1
<1>4. chain \in Chains /\ DOMAIN chain = 1..MaxBlocks /\ Len(chain) = MaxBlocks
  BY Zenon, StoredBlocks
<1>5. \A h : IsL1Ger(h)' <=> IsL1Ger(h)
  BY Zenon, <1>1, SameChain DEF IsL1Ger
<1>6. OfChain(l2Row[1])'
  <2>1. (\E m \in 1..MaxBlocks : row.ger = Ger(m)) /\ (row.full => IsL1Ger(row.ger))
    BY Zenon, <1>2, <1>4 DEF g, f
  <2> QED
    BY Zenon, <1>1, <1>3, <1>5, <2>1, SameChain DEF OfChain
<1>7. ASSUME NEW i \in DOMAIN gers PROVE Len(gers[i].ger.main) <= Len(row.ger.main)
  <2>1. PICK m \in 1..MaxBlocks : gers[i].ger = Ger(m)
    BY Zenon DEF Sound, InOrder, OfChain
  <2>2. m \notin n..MaxBlocks
    <3>1. \A k \in n..Len(chain) : gers[i].ger # Ger(k)
      BY Zenon DEF L2Begin
    <3> QED
      BY Zenon, <1>4, <2>1, <3>1
  <2>3. m \in 0..MaxBlocks /\ n \in 0..MaxBlocks /\ m <= n
    BY <1>4, <2>2, BlocksBound
  <2>4. Len(MainnetDeposits(m)) <= Len(MainnetDeposits(n))
    BY Zenon, <1>4, <2>3, DepositsGrow DEF MainnetDeposits
  <2> QED
    BY Zenon, <1>2, <2>1, <2>3, <2>4, MainnetFacts DEF g
<1>8. InOrder'
  <2>1. \A i \in DOMAIN gers' : OfChain(gers[i])'
    BY Zenon, <1>1, <1>5, SameChain DEF Sound, InOrder, OfChain
  <2> QED
    BY Zenon, <1>1, <1>3, <1>6, <1>7, <2>1 DEF Sound, InOrder
<1> QED
  BY Zenon, <1>1, <1>8, SoundKept DEF Sound
\* L2 stores the row.
LEMMA L2CommitSound ==
  ASSUME RowTypes, FlagTypes, Types, Sound, L2Commit
  PROVE  Sound'
<1>1. /\ UNCHANGED <<chain, synced, ready, l1Tx, made, events>>
      /\ l2Pc = "store" /\ l2Pc' = "announce" /\ gers' = Append(gers, l2Row[1])
  BY Zenon DEF L2Commit, l1Vars
<1>2. PICK S : gers \in Seq(RowSet(S))
  BY Zenon DEF RowTypes
<1> DEFINE row == l2Row[1]
           n == Len(gers) + 1
<1> HIDE DEF row
<1>3. /\ DOMAIN gers' = DOMAIN gers \cup {n} /\ gers'[n] = row
      /\ \A i \in DOMAIN gers : gers'[i] = gers[i] /\ ~(n <= i)
      /\ l2Pc' # "store"
  BY <1>1, <1>2 DEF row
<1>4. \A g : IsL1Ger(g)' <=> IsL1Ger(g)
  BY Zenon, <1>1, SameChain DEF IsL1Ger
<1> HIDE DEF n
<1>5. InOrder'
  <2>1. \A i \in DOMAIN gers' : OfChain(gers'[i])
    BY Zenon, <1>1, <1>3 DEF Sound, InOrder, row
  <2>2. \A i \in DOMAIN gers' : OfChain(gers[i])'
    BY Zenon, <1>1, <1>4, <2>1, SameChain DEF OfChain
  <2>3. ASSUME NEW i \in DOMAIN gers', NEW j \in DOMAIN gers', i <= j
        PROVE  Len(gers'[i].ger.main) <= Len(gers'[j].ger.main)
    <3>1. CASE j \in DOMAIN gers
      BY Zenon, <1>3, <2>3, <3>1 DEF Sound, InOrder
    <3>2. CASE j = n /\ i \in DOMAIN gers
      BY Zenon, <1>1, <1>3, <3>2 DEF Sound, InOrder, row
    <3>3. CASE j = n /\ i = n
      <4>1. row.ger.main \in Seq(Content)
        BY Zenon, <1>1 DEF FlagTypes, row
      <4>2. Len(row.ger.main) <= Len(row.ger.main)
        BY <4>1
      <4> QED
        BY Zenon, <1>3, <3>3, <4>2
    <3> QED
      BY Zenon, <1>3, <2>3, <3>1, <3>2, <3>3
  <2> QED
    BY Zenon, <1>3, <2>2, <2>3 DEF InOrder
<1> QED
  BY Zenon, <1>1, <1>3, <1>5, SoundKept DEF Sound

\* L2 removes a row.
LEMMA L2RemoveSound ==
  ASSUME RowTypes, Types, Sound, NEW i \in DOMAIN gers, L2Remove(i)
  PROVE  Sound'
<1>1. /\ UNCHANGED <<chain, synced, l1Tx, made, events, l2Pc, l2Row>>
      /\ gers' = [gers EXCEPT ![i].allowed = FALSE] /\ \A d \in ready' : d \in ready
  BY Zenon DEF L2Remove, l1Vars
<1>2. PICK S : gers \in Seq(RowSet(S))
  BY Zenon DEF RowTypes
<1>3. \A j \in DOMAIN gers : gers[j] \in RowSet(S)
  BY <1>2
<1>4. DOMAIN gers' = DOMAIN gers
  BY Zenon, <1>1
<1>5. ASSUME NEW j \in DOMAIN gers
      PROVE  gers'[j].ger = gers[j].ger /\ gers'[j].full = gers[j].full
  BY Zenon, <1>1, <1>3 DEF RowSet
<1> QED
  BY Zenon, <1>1, <1>4, <1>5, SoundKept DEF Sound

\* A goroutine makes deposits ready.
LEMMA ProcessSound ==
  ASSUME FlagTypes, Types, Leaves, Sound, NEW e \in events, Process(e)
  PROVE  Sound'
<1>1. /\ UNCHANGED <<chain, synced, l1Tx, made, gers, l2Pc, l2Row>>
      /\ \A x \in events' : x \in events
      /\ \/ ready' = ready
         \/ e.l1 /\ ready' = ready \cup ({Synced} \X CoveredL2(e.ger))
         \/ ready' = ready \cup ({0} \X CoveredL1(e.ger))
  BY Zenon DEF Process, l1Vars, l2Vars
<1>2. ReadyVerified'
  <2>1. CASE ready' = ready
    BY Zenon, <1>1, <2>1, SoundKept DEF Sound
  <2>2. CASE e.l1 /\ ready' = ready \cup ({Synced} \X CoveredL2(e.ger))
    <3>1. IsL1Ger(e.ger)
      BY Zenon, <2>2 DEF Sound, Announced
    <3>2. \A k \in CoveredL2(e.ger) : k <= Exits(synced)[Synced]
      BY Zenon, <3>1, CoveredVerified
    <3> DEFINE C == CoveredL2(e.ger)
    <3> HIDE DEF C
    <3>3. ASSUME NEW d \in {Synced} \X C PROVE d[2] \in C
      BY <3>3
    <3>4. \A d \in ready' : d \in ready \/ d[2] \in C
      BY Zenon, <2>2, <3>3 DEF C
    <3> QED
      BY Zenon, <1>1, <3>2, <3>4, SameChain DEF Sound, ReadyVerified, C
  <2>3. CASE ready' = ready \cup ({0} \X CoveredL1(e.ger))
    <3> DEFINE C == CoveredL1(e.ger)
    <3> HIDE DEF C
    <3>1. ASSUME NEW d \in {0} \X C PROVE d[1] = 0
      BY <3>1
    <3>2. \A d \in ready' : d \in ready \/ d[1] = 0
      BY Zenon, <2>3, <3>1 DEF C
    <3> QED
      BY Zenon, <1>1, <3>2, SoundKept DEF Sound
  <2> QED
    BY Zenon, <1>1, <2>1, <2>2, <2>3
<1> QED
  BY Zenon, <1>1, <1>2, SoundKept DEF Sound

\* Each step keeps what the server finds, or reorganises L1.
LEMMA UnforkedStep ==
  RowTypes /\ FlagTypes /\ Types /\ Leaves /\ Unforked /\ [MCNext]_MCvars => Unforked'
<1> SUFFICES ASSUME RowTypes, FlagTypes, Types, Leaves, Unforked, [MCNext]_MCvars
             PROVE  Unforked'
  BY Zenon
<1>1. ASSUME reorgs' = reorgs, Sound => Sound' PROVE Unforked'
  BY Zenon, <1>1 DEF Unforked
<1>2. CASE L1Begin
  <2>1. /\ UNCHANGED <<chain, synced, gers, ready, l2Pc, l2Row, made, events, reorgs>>
        /\ RootExists(synced + 1) /\ l1Tx' = <<Incomplete(Ger(synced + 1))>>
    BY Zenon, <1>2 DEF L1Begin, l2Vars
  <2>2. l1Tx'[1] = Incomplete(Ger(synced + 1))
    BY <2>1
  <2>3. ReadsNext'
    BY Zenon, <2>1, <2>2, SameChain DEF ReadsNext, Incomplete
  <2>4. BatchStored => BatchStored'
    BY Zenon, <2>1, SameChain DEF BatchStored, RootExists
  <2> QED
    BY Zenon, <1>1, <2>1, <2>3, <2>4, SoundKept DEF Sound
<1>3. CASE L1Commit
  <2>1. reorgs' = reorgs
    BY Zenon, <1>3 DEF L1Commit
  <2> QED
    BY Zenon, <1>1, <1>3, <2>1, L1CommitSound
<1>4. ASSUME NEW n \in 0..(MaxBlocks - 1), NEW fork \in Chains, Reorg(n, fork) PROVE Unforked'
  <2>1. reorgs' = reorgs + 1 /\ reorgs \in Nat
    BY Zenon, <1>4 DEF Reorg, Unforked
  <2>2. reorgs' \in Nat /\ reorgs' # 0
    BY <2>1
  <2> QED
    BY Zenon, <2>2 DEF Unforked
<1>5. CASE L2Deposit
  <2>1. /\ UNCHANGED <<chain, synced, gers, ready, l1Tx, l2Pc, l2Row, events, reorgs>>
        /\ made' = made + 1
    BY Zenon, <1>5 DEF L2Deposit, l1Vars
  <2>2. BatchStored => BatchStored'
    <3> SUFFICES ASSUME BatchStored PROVE BatchStored'
      BY Zenon
    <3>1. /\ chain \in Chains /\ synced \in 0..MaxBlocks /\ Synced \in Rollup
          /\ l1Tx # <<>> => synced + 1 \in 0..MaxBlocks
      BY Zenon, StoredBlocks DEF FlagTypes
    <3>2. made \in Nat
      <4>1. L2Deposits \in 1..(Width[0] - 1) /\ made \in 0..L2Deposits
        BY Zenon, ExitRootsAssumption DEF Types
      <4> QED
        BY <4>1
    <3>3. ASSUME NEW x \in Nat, x <= made PROVE x <= made'
      BY <2>1, <3>2, <3>3
    <3>4. \A m \in 0..MaxBlocks : Exits(m)[Synced] \in Nat
      <4>1. \A m \in 0..MaxBlocks : m \in 0..m
        BY BlocksBound
      <4> QED
        BY Zenon, <3>1, <4>1, ExitsCount
    <3>5. Exits(synced)[Synced] <= made'
      BY Zenon, <3>1, <3>3, <3>4 DEF BatchStored
    <3>6. ASSUME l1Tx # <<>>, chain[synced + 1].verified = Synced
          PROVE  Exits(synced + 1)[Synced] <= made'
      BY Zenon, <3>1, <3>3, <3>4, <3>6 DEF BatchStored, RootExists
    <3> QED
      BY Zenon, <2>1, <3>5, <3>6, SameChain DEF BatchStored, RootExists
  <2> QED
    BY Zenon, <1>1, <2>1, <2>2, SoundKept DEF Sound
<1>6. ASSUME NEW n \in DOMAIN chain, L2Begin(n) PROVE Unforked'
  <2>1. reorgs' = reorgs
    BY Zenon, <1>6 DEF L2Begin, l1Vars
  <2> QED
    BY Zenon, <1>1, <1>6, <2>1, L2BeginSound
<1>7. CASE L2Commit
  <2>1. reorgs' = reorgs
    BY Zenon, <1>7 DEF L2Commit, l1Vars
  <2> QED
    BY Zenon, <1>1, <1>7, <2>1, L2CommitSound
<1>8. CASE L2Announce
  <2>1. /\ UNCHANGED <<chain, synced, gers, ready, l1Tx, l2Row, made, reorgs>>
        /\ l2Pc' = "idle"
        /\ \A e \in events' : \/ e \in events
                              \/ e = [ger |-> gers[LatestTrusted].ger, l1 |-> FALSE]
    BY Zenon, <1>8 DEF L2Announce, l1Vars
  <2>2. l2Pc' # "store"
    BY <2>1
  <2>3. ASSUME NEW g, NEW e, e = [ger |-> g, l1 |-> FALSE] PROVE ~e.l1
    BY Zenon, <2>3
  <2>4. \A e \in events' : e \in events \/ ~e.l1
    BY Zenon, <2>1, <2>3
  <2> QED
    BY Zenon, <1>1, <2>1, <2>2, <2>4, SoundKept DEF Sound
<1>9. ASSUME NEW i \in DOMAIN gers, L2Remove(i) PROVE Unforked'
  <2>1. reorgs' = reorgs
    BY Zenon, <1>9 DEF L2Remove, l1Vars
  <2> QED
    BY Zenon, <1>1, <1>9, <2>1, L2RemoveSound
<1>10. CASE L2RemoveRefused
  <2>1. /\ UNCHANGED <<chain, synced, gers, ready, l1Tx, l2Row, made, events, reorgs>>
        /\ l2Pc' = "refused"
    BY Zenon, <1>10 DEF L2RemoveRefused, l1Vars
  <2>2. l2Pc' # "store"
    BY <2>1
  <2> QED
    BY Zenon, <1>1, <2>1, <2>2, SoundKept DEF Sound
<1>11. ASSUME NEW e \in events, Process(e) PROVE Unforked'
  <2>1. reorgs' = reorgs
    BY Zenon, <1>11 DEF Process, l1Vars
  <2> QED
    BY Zenon, <1>1, <1>11, <2>1, ProcessSound
<1>12. CASE UNCHANGED vars
  <2>1. UNCHANGED <<chain, synced, gers, ready, l1Tx, l2Pc, l2Row, made, events, reorgs>>
    BY Zenon, <1>12 DEF vars, l1Vars, l2Vars
  <2> QED
    BY Zenon, <1>1, <2>1, SoundKept DEF Sound
<1>13. Next \/ UNCHANGED vars
  BY Zenon DEF MCNext, MCvars
<1> QED
  BY Zenon, <1>2, <1>3, <1>4, <1>5, <1>6, <1>7, <1>8, <1>9, <1>10, <1>11, <1>12, <1>13 DEF Next
\* A node of a level of the tree of the rollups is the hash of two below it.
LEMMA LevelAbove ==
  ASSUME NEW leaves, NEW n \in 0..Width[0], List(leaves, n), NEW h \in 0..(Height - 1)
  PROVE  \E k \in Nat :
           /\ Len(Levels(leaves)[h]) = 2 * k
           /\ \A j \in 0..(k - 1) :
                /\ j < Len(Levels(leaves)[h + 1])
                /\ Levels(leaves)[h + 1][j + 1]
                     = Hash(Levels(leaves)[h][2 * j + 1], Levels(leaves)[h][2 * j + 2])
<1> DEFINE L == Levels(leaves)
<1>1. h \in 0..Height /\ h # Height
  BY HeightAssumption
<1>2. PICK m \in 1..Width[h] : List(L[h], m) /\ m % 2 = 0
  BY Zenon, <1>1, LevelsBuilt DEF BuiltTo
<1>3. Width[h] \in Nat
  BY Zenon, <1>1, LevelFacts, Widths
<1>4. PICK k \in Nat : m = 2 * k
  <2>1. m = 2 * (m \div 2) /\ m \div 2 \in Nat
    BY <1>2, <1>3
  <2> QED
    BY Zenon, <2>1
<1> DEFINE b == BuildIntermediate(L[h])
           p == L[h + 1]
<1>5. List(b, k) /\ \A i \in 1..k : b[i] = Hash(L[h][2 * i - 1], L[h][2 * i])
  <2> HIDE DEF L
  <2> QED
    BY Zenon, <1>2, <1>4, HalfList
<1>6. Len(L[h]) = 2 * k
  BY Zenon, <1>2, <1>4, ListLen
<1>7. p = (IF h + 1 = Height THEN b ELSE Padded(b, h + 1))
  BY Zenon, LevelByLevel
<1> HIDE DEF L, b, p
<1>8. k <= Len(p) /\ Len(p) \in Nat /\ \A i \in 1..k : p[i] = b[i]
  <2>1. CASE p = b
    <3>1. Len(b) = k /\ k <= k
      <4>1. Len(b) = k
        BY Zenon, <1>5, ListLen
      <4> QED
        BY <4>1
    <3> QED
      BY Zenon, <2>1, <3>1
  <2>2. CASE p = Padded(b, h + 1)
    <3>1. List(p, Even(k))
      BY Zenon, <1>5, <2>2, PaddedList
    <3>2. \A i \in 1..Even(k) : p[i] = IF i <= k THEN b[i] ELSE ZeroHash[h + 1]
      <4>1. List(b, k)
        BY Zenon, <1>5
      <4>2. ASSUME NEW g
            PROVE  \A i \in 1..Even(k) : Padded(b, g)[i] = IF i <= k THEN b[i] ELSE ZeroHash[g]
        BY Zenon, <4>1, PaddedList
      <4> QED
        BY Zenon, <2>2, <4>2
    <3>3. Len(p) = Even(k)
      BY Zenon, <3>1, ListLen
    <3>4. k <= Even(k) /\ Even(k) \in Nat /\ \A i \in 1..k : i \in 1..Even(k) /\ i <= k
      BY DEF Even
    <3> QED
      BY Zenon, <3>2, <3>3, <3>4
  <2> QED
    BY Zenon, <1>7, <2>1, <2>2
<1>9. ASSUME NEW j \in 0..(k - 1)
      PROVE  j < Len(p) /\ p[j + 1] = Hash(L[h][2 * j + 1], L[h][2 * j + 2])
  <2>1. j + 1 \in 1..k /\ 2 * (j + 1) - 1 = 2 * j + 1 /\ 2 * (j + 1) = 2 * j + 2
    OBVIOUS
  <2>2. j < Len(p)
    BY <1>8
  <2>3. p[j + 1] = Hash(L[h][2 * (j + 1) - 1], L[h][2 * (j + 1)])
    BY Zenon, <1>5, <1>8, <2>1
  <2> QED
    BY Zenon, <2>1, <2>2, <2>3
<1> QED
  BY Zenon, <1>6, <1>9 DEF L, p

\* No more deposits than blocks.
LEMMA DepositsBound ==
  ASSUME NEW c \in Chains, NEW n \in 0..MaxBlocks
  PROVE  Len(DepositsOf(c, n)) \in 0..MaxBlocks
<1> DEFINE T == {m \in 0..MaxBlocks : Len(DepositsOf(c, m)) <= m}
<1>1. MaxBlocks \in Nat /\ 0 \in 0..MaxBlocks /\ Len(<<>>) <= 0
  BY BlocksBound
<1>2. 0 \in T
  BY Zenon, <1>1, BlockByBlock
<1>3. ASSUME NEW m \in 0..(MaxBlocks - 1), m \in T PROVE m + 1 \in T
  <2>1. m + 1 \in 0..MaxBlocks /\ m \in 0..MaxBlocks /\ m + 1 \in 1..MaxBlocks
    BY <1>1
  <2> DEFINE s == DepositsOf(c, m)
             d == c[m + 1].deposit
  <2>2. s \in Seq(Content) /\ Len(s) <= m
    BY Zenon, <1>3, <2>1, DepositTypes
  <2>3. d \in Seq(Content) /\ Len(d) <= 1
    <3>1. c[m + 1] \in Transactions
      BY Zenon, <2>1 DEF Chains
    <3>2. d \in Seq(Content)
      BY Zenon, InBlock
    <3>3. (\E x : c[m + 1] = Deposit(x)) \/ (\E r : c[m + 1] = Verified(r))
      BY Zenon, <3>1 DEF Transactions
    <3>4. Len(d) <= 1
      <4>1. ASSUME NEW x PROVE Deposit(x).deposit = <<x>> /\ Len(<<x>>) <= 1
        BY DEF Deposit
      <4>2. ASSUME NEW r PROVE Verified(r).deposit = <<>> /\ Len(<<>>) <= 1
        BY DEF Verified
      <4> QED
        BY Zenon, <3>3, <4>1, <4>2
    <3> QED
      BY Zenon, <3>2, <3>4
  <2> HIDE DEF s, d
  <2>4. Len(s \o d) <= m + 1
    BY <2>2, <2>3
  <2> QED
    BY Zenon, <2>1, <2>4, BlockByBlock DEF s, d
<1>4. n \in T
  <2> HIDE DEF T
  <2> QED
    BY Zenon, <1>1, <1>2, <1>3, UpTo
<1>5. DepositsOf(c, n) \in Seq(Content)
  BY Zenon, DepositTypes
<1> QED
  BY <1>1, <1>4, <1>5

-----------------------------------------------------------------------------
(***************************************************************************)
(* The proofs that the server answers with.                                *)
(***************************************************************************)
\* The positions on the way up from a leaf, and what the bits of its index say of them.
WayUp(i) ==
  /\ Position(i)[0] = i
  /\ \A h \in 0..(Height - 1) :
       /\ Position(i)[h] \in Nat /\ Position(i)[h + 1] \in Nat
       /\ BitSet(i, h) => Position(i)[h] = 2 * Position(i)[h + 1] + 1
       /\ ~BitSet(i, h) => Position(i)[h] = 2 * Position(i)[h + 1]

\* The hashes that a proof p gives on the way up.
HashesUp(leaf, i, p) ==
  LET c == Climb(leaf, i, p, p)
  IN  /\ c[0] = leaf
      /\ \A h \in 0..(Height - 1) :
           c[h + 1] = IF BitSet(i, h) THEN Hash(p[h], c[h]) ELSE Hash(c[h], p[h])

\* The siblings of a leaf lead to the root of the tree of the rollups.
LEMMA RollupProof ==
  ASSUME NEW leaves, NEW n \in 0..Width[0], List(leaves, n), NEW i \in 0..(n - 1),
         WayUp(i), HashesUp(leaves[i + 1], i, ComputeSiblings(i, leaves))
  PROVE  /\ ~OutOfRange(i, leaves)
         /\ CalculateRoot(leaves[i + 1], ComputeSiblings(i, leaves), i) = BuildMTRoot(leaves)
<1> DEFINE L == Levels(leaves)
           P == Position(i)
           S == ComputeSiblings(i, leaves)
           C == Climb(leaves[i + 1], i, S, S)
           On(h) == P[h] < Len(L[h]) /\ C[h] = L[h][P[h] + 1]
           T == {h \in 0..Height : On(h)}
<1>0. Width[0] \in Nat /\ Height \in Nat /\ i \in Nat /\ n \in Nat /\ n # 0 /\ i + 1 <= n
  <2>1. Width[0] \in Nat /\ Height \in Nat
    BY Zenon, LevelFacts, RollupPlaces
  <2> QED
    BY <2>1
<1>1. P[0] = i /\ C[0] = leaves[i + 1]
  BY Zenon DEF WayUp, HashesUp
<1>2. ASSUME NEW h \in 0..(Height - 1)
      PROVE  /\ P[h] \in Nat /\ P[h + 1] \in Nat
             /\ BitSet(i, h) => P[h] = 2 * P[h + 1] + 1
             /\ ~BitSet(i, h) => P[h] = 2 * P[h + 1]
             /\ BitSet(i, h) => C[h + 1] = Hash(S[h], C[h])
             /\ ~BitSet(i, h) => C[h + 1] = Hash(C[h], S[h])
  <2>1. C[h + 1] = IF BitSet(i, h) THEN Hash(S[h], C[h]) ELSE Hash(C[h], S[h])
    BY Zenon DEF HashesUp
  <2> HIDE DEF C, S
  <2> QED
    BY Zenon, <2>1 DEF WayUp
<1>3. 0 \in T
  <2>1. Len(leaves) = n /\ leaves # <<>>
    <3>1. Len(leaves) = n
      BY Zenon, ListLen
    <3> QED
      BY <1>0, <3>1
  <2>2. L[0] = Padded(leaves, 0)
    BY Zenon, <2>1, LevelByLevel
  <2>3. List(L[0], Even(n))
    BY Zenon, <2>2, PaddedList
  <2>4. \A j \in 1..Even(n) : Padded(leaves, 0)[j] = IF j <= n THEN leaves[j] ELSE ZeroHash[0]
    BY Zenon, PaddedList
  <2>5. i + 1 \in 1..Even(n) /\ i < Even(n)
    BY <1>0 DEF Even
  <2>6. Len(L[0]) = Even(n)
    BY Zenon, <2>3, ListLen
  <2>7. L[0][i + 1] = leaves[i + 1]
    BY Zenon, <1>0, <2>2, <2>4, <2>5
  <2> HIDE DEF L, P, C
  <2> QED
    BY Zenon, <1>1, <2>5, <2>6, <2>7, LevelFacts
<1>4. ASSUME NEW h \in 0..(Height - 1), P[h] < Len(L[h])
      PROVE  /\ SiblingAt(P[h]) < Len(L[h])
             /\ P[h + 1] < Len(L[h + 1])
             /\ C[h] = L[h][P[h] + 1] => C[h + 1] = L[h + 1][P[h + 1] + 1]
  <2>1. PICK k \in Nat :
          /\ Len(L[h]) = 2 * k
          /\ \A j \in 0..(k - 1) :
               j < Len(L[h + 1]) /\ L[h + 1][j + 1] = Hash(L[h][2 * j + 1], L[h][2 * j + 2])
    BY Zenon, LevelAbove
  <2> DEFINE p == P[h]
             q == P[h + 1]
             B == BitSet(i, h)
  <2>2. /\ p \in Nat /\ q \in Nat
        /\ B => p = 2 * q + 1
        /\ ~B => p = 2 * q
    BY Zenon, <1>2
  <2>3. S[h] = L[h][SiblingAt(p) + 1]
    <3>1. h \in Level
      BY Zenon, LevelFacts
    <3> QED
      BY Zenon, <3>1 DEF ComputeSiblings
  <2>4. /\ B => C[h + 1] = Hash(S[h], C[h])
        /\ ~B => C[h + 1] = Hash(C[h], S[h])
    BY Zenon, <1>2
  <2> HIDE DEF L, P, S, C, p, q, B
  <2>5. p < Len(L[h])
    BY Zenon, <1>4 DEF p
  <2>6. /\ q \in 0..(k - 1) /\ SiblingAt(p) < Len(L[h])
        /\ B => SiblingAt(p) + 1 = 2 * q + 1 /\ p + 1 = 2 * q + 2
        /\ ~B => SiblingAt(p) + 1 = 2 * q + 2 /\ p + 1 = 2 * q + 1
    <3>1. CASE B
      BY <2>1, <2>2, <2>5, <3>1 DEF SiblingAt
    <3>2. CASE ~B
      BY <2>1, <2>2, <2>5, <3>2 DEF SiblingAt
    <3> QED
      BY Zenon, <3>1, <3>2
  <2>7. q < Len(L[h + 1]) /\ L[h + 1][q + 1] = Hash(L[h][2 * q + 1], L[h][2 * q + 2])
    BY Zenon, <2>1, <2>6
  <2>8. C[h] = L[h][p + 1] => C[h + 1] = L[h + 1][q + 1]
    BY Zenon, <2>3, <2>4, <2>6, <2>7
  <2> QED
    BY Zenon, <2>6, <2>7, <2>8 DEF p, q
<1> HIDE DEF L, P, S, C
<1>5. \A h \in 0..Height : On(h)
  <2>1. ASSUME NEW h \in 0..(Height - 1), h \in T PROVE h + 1 \in T
    BY Zenon, <1>4, <2>1, LevelFacts
  <2> HIDE DEF T, On
  <2>2. \A h \in 0..Height : h \in T
    BY Zenon, <1>0, <1>3, <2>1, UpTo
  <2> QED
    BY Zenon, <2>2 DEF T
<1>6. ~OutOfRange(i, leaves)
  <2> SUFFICES ASSUME NEW h \in Level PROVE ~(SiblingAt(P[h]) >= Len(L[h]))
    BY Zenon DEF OutOfRange, L, P
  <2>1. h \in 0..(Height - 1) /\ h \in 0..Height
    BY <1>0 DEF Level
  <2>2. SiblingAt(P[h]) < Len(L[h])
    BY Zenon, <1>4, <1>5, <2>1
  <2>3. SiblingAt(P[h]) \in Int
    <3>1. P[h] \in Nat
      BY Zenon, <1>2, <2>1
    <3> DEFINE p == P[h]
    <3> HIDE DEF p
    <3>2. p \in Nat => SiblingAt(p) \in Int
      BY DEF SiblingAt
    <3> QED
      BY Zenon, <3>1, <3>2 DEF p
  <2>4. Len(L[h]) \in Int
    <3>1. PICK k \in Nat : Len(L[h]) = 2 * k
      BY Zenon, <2>1, LevelAbove DEF L
    <3> QED
      BY <3>1
  <2> DEFINE x == SiblingAt(P[h])
             y == Len(L[h])
  <2> HIDE DEF x, y
  <2>5. x \in Int /\ y \in Int /\ x < y => ~(x >= y)
    OBVIOUS
  <2> QED
    BY Zenon, <2>2, <2>3, <2>4, <2>5 DEF x, y
<1>7. C[Height] = L[Height][1]
  <2>1. On(Height)
    BY Zenon, <1>5, LevelFacts
  <2>2. PICK m \in 1..Width[Height] : List(L[Height], m)
    BY Zenon, LevelsBuilt, LevelFacts DEF BuiltTo, L
  <2>3. Width[Height] = 1
    BY Zenon, Widths
  <2>4. m = 1
    BY <2>2, <2>3
  <2>5. Len(L[Height]) = 1
    BY Zenon, <2>2, <2>4, ListLen
  <2>6. P[Height] \in Nat
    <3>1. PICK g \in 0..(Height - 1) : g + 1 = Height
      BY HeightAssumption
    <3>2. P[g + 1] \in Nat
      BY Zenon, <1>2
    <3> QED
      BY Zenon, <3>1, <3>2
  <2>7. P[Height] + 1 = 1
    <3> DEFINE p == P[Height]
    <3> HIDE DEF p
    <3>1. p \in Nat /\ p < 1
      BY Zenon, <2>1, <2>5, <2>6 DEF p
    <3>2. p + 1 = 1
      BY <3>1
    <3> QED
      BY Zenon, <3>2 DEF p
  <2> QED
    BY Zenon, <2>1, <2>7
<1> QED
  BY Zenon, <1>6, <1>7 DEF CalculateRoot, BuildMTRoot, C, L, S

\* The table has the nodes of the tree of ds and others, each under its hash.
HasTree(rows, ds) ==
  /\ ds \in Seq(Nat) /\ Len(ds) <= Width[0] - 1
  /\ AddAll(EmptyTree, ds).rht \subseteq rows
  /\ \A r \in rows : r.key = Hash(r.value[1], r.value[2])

\* The table has a proof of deposit i + 1 against the root after n deposits.
ProofIn(rows, ds, n, i) ==
  LET root == RootOf([k \in 1..n |-> Leaf(ds[k])])
  IN  /\ WayStored(rows, root, i)
      /\ CalculateRoot(Leaf(ds[i + 1]), GetProof(rows, root, i), i) = root
Provable(ds) == \A n \in 1..Len(ds) : \A i \in 0..(n - 1) : ProofIn(Rht, ds, n, i)

\* It is the answer.
LEMMA GoodProof ==
  ASSUME NEW ds, Provable(ds), NEW n \in 1..Len(ds), NEW d, d[2] - 1 \in 0..(n - 1),
         NEW root, root = RootOf([k \in 1..n |-> Leaf(ds[k])]),
         ContentOf(d) = ds[(d[2] - 1) + 1]
  PROVE  Prove(root, d) = "good"
<1>1. ProofIn(Rht, ds, n, d[2] - 1)
  BY Zenon DEF Provable
<1> QED
  BY Zenon, <1>1 DEF ProofIn, Prove

\* What the server answers for an L1 deposit.
LEMMA MainnetAnswer ==
  ASSUME RowTypes, FlagTypes, Types, Flags, Sound, {"late", "stacked"} \cap past = {},
         Provable(MainnetDeposits(synced)), NEW d \in ready, d[1] = 0
  PROVE  Proof(d) \in {"good", "unsynced"}
<1> DEFINE M == MainnetDeposits(synced)
           k == d[2]
           t == LatestTrusted
<1>1. CASE ~Usable(t)
  <2>1. Proof(d) = "unsynced"
    BY Zenon, <1>1 DEF Proof
  <2> QED
    BY Zenon, <2>1
<1>2. CASE Usable(t)
  <2>1. t \in DOMAIN gers /\ \A i \in DOMAIN gers : gers[i].allowed => i <= t
    BY Zenon, <1>2, LatestIsAllowed
  <2>2. <<0, k>> \in ready
    BY Zenon, ReadyNumbers
  <2>3. PICK i \in DOMAIN gers : gers[i].allowed /\ k <= Len(gers[i].ger.main)
    BY Zenon, <2>2 DEF Flags, Covers
  <2>4. Len(gers[i].ger.main) <= Len(gers[t].ger.main)
    BY Zenon, <2>1, <2>3 DEF Sound, InOrder
  <2>5. IsL1Ger(gers[t].ger)
    BY Zenon, <1>2, <2>1 DEF Usable, Sound, InOrder, OfChain
  <2>6. PICK m \in 1..synced : gers[t].ger = Ger(m)
    BY Zenon, <2>5 DEF IsL1Ger
  <2> DEFINE g == MainnetDeposits(m)
  <2>7. /\ chain \in Chains /\ synced \in 0..MaxBlocks /\ m \in 0..MaxBlocks /\ m <= synced
    <3>1. chain \in Chains /\ synced \in Nat /\ synced \in 0..MaxBlocks /\ m \in 0..MaxBlocks
      BY Zenon, StoredBlocks
    <3> QED
      BY <3>1
  <2>8. gers[t].ger.main = g /\ g \in Seq(Content) /\ M \in Seq(Content)
    BY Zenon, <2>6, <2>7, MainnetFacts
  <2>9. Len(g) <= Len(M) /\ \A j \in 1..Len(g) : g[j] = M[j]
    BY Zenon, <2>7, DepositsGrow DEF MainnetDeposits
  <2>10. k \in 1..Len(M)
    BY Zenon, <2>2 DEF FlagTypes
  <2>11. gers[i].ger.main \in Seq(Content)
    BY Zenon DEF FlagTypes
  <2>12. Len(gers[i].ger.main) <= Len(g)
    BY Zenon, <2>4, <2>8
  <2> DEFINE q == gers[i].ger.main
             n == Len(g)
  <2>13. k - 1 \in 0..(n - 1) /\ n \in 1..Len(M) /\ k - 1 + 1 = k
    <3> HIDE DEF q, g, M, k
    <3>1. Len(q) \in Nat /\ Len(g) \in Nat /\ Len(M) \in Nat
      BY <2>8, <2>11 DEF q
    <3>2. k <= Len(q) /\ Len(q) <= Len(g)
      BY Zenon, <2>3, <2>12 DEF q
    <3> QED
      BY <2>9, <2>10, <3>1, <3>2
  <2>14. ExitRoot(g) = RootOf([j \in 1..n |-> Leaf(M[j])])
    <3> HIDE DEF g, M
    <3>1. DOMAIN g = 1..Len(g)
      BY <2>8
    <3>2. [j \in 1..n |-> Leaf(g[j])] = [j \in 1..n |-> Leaf(M[j])]
      BY Zenon, <2>9
    <3> QED
      BY Zenon, <3>1, <3>2 DEF ExitRoot
  <2>15. ContentOf(d) = M[k]
    BY Zenon DEF ContentOf
  <2>16. Prove(ExitRoot(g), d) = "good"
    <3> HIDE DEF g, M, n
    <3>1. ContentOf(d) = M[(d[2] - 1) + 1]
      BY Zenon, <2>13, <2>15
    <3>2. Provable(M)
      BY Zenon DEF M
    <3> QED
      BY Zenon, <2>13, <2>14, <3>1, <3>2, GoodProof
  <2>17. Proof(d) = "good"
    BY Zenon, <1>2, <2>8, <2>16 DEF Proof
  <2> QED
    BY Zenon, <2>17
<1> QED
  BY Zenon, <1>1, <1>2

\* What the server answers for an L2 deposit.
LEMMA RollupAnswer ==
  ASSUME FlagTypes, Types, Leaves, Sound, Provable(L2Tree(Synced, made)),
         \A i \in Nat : WayUp(i), \A leaf, i, p : HashesUp(leaf, i, p),
         NEW d \in ready, d[1] = Synced
  PROVE  Proof(d) = "good"
<1> DEFINE e == Exits(synced)
           N == e[Synced]
           k == d[2]
           l == Filled(e)
           root == RollupExitRoot(e)
<1>1. k \in 1..made /\ Synced # 0
  BY Zenon, ReadyNumbers
<1>2. k <= N /\ N <= made
  BY Zenon DEF Sound, ReadyVerified, BatchStored
<1>3. chain \in Chains /\ synced \in Nat /\ synced \in 0..MaxBlocks /\ Synced \in Rollup
  BY Zenon, StoredBlocks
<1>4. synced \in 0..synced
  BY <1>3
<1>5. N \in Nat /\ (N # 0 => synced # 0)
  BY Zenon, <1>3, <1>4, ExitsCount
<1>6. made \in Nat
  <2>1. L2Deposits \in 1..(Width[0] - 1) /\ made \in 0..L2Deposits
    BY Zenon, ExitRootsAssumption DEF Types
  <2> QED
    BY <2>1
<1>7. N # 0 /\ N \in 1..made /\ k - 1 \in 0..(N - 1) /\ k - 1 + 1 = k
  <2> HIDE DEF N, k
  <2> QED
    BY <1>1, <1>2, <1>5, <1>6
<1>8. synced > 0 /\ synced \in 1..synced
  BY <1>3, <1>5, <1>7
<1>9. LeavesByRoot(exits, root) = l
  BY Zenon, <1>3, <1>7, <1>8, LeavesFound
<1> DEFINE n == Top(e)
<1>10. n \in 0..Width[0] /\ Synced <= n /\ Width[0] \in Nat /\ Synced \in 1..Width[0]
  BY Zenon, <1>3, <1>7, TopFacts, RollupPlaces
<1>11. RollupIndex \in 0..(n - 1) /\ RollupIndex + 1 = Synced /\ Synced \in 1..n /\ n \in Nat
       /\ ~(n <= RollupIndex) /\ RollupIndex \in Nat
  <2> HIDE DEF n
  <2> QED
    BY <1>10 DEF RollupIndex
<1>12. List(l, n) /\ Len(l) = n
  <2>1. List(l, n)
    BY Zenon, <1>11 DEF List, Filled
  <2> QED
    BY Zenon, <2>1, ListLen
<1>13. BuildMTRoot(l) = root
  BY Zenon, FilledRoot
<1>14. /\ ~OutOfRange(RollupIndex, l)
       /\ CalculateRoot(l[RollupIndex + 1], ComputeSiblings(RollupIndex, l), RollupIndex) = root
  <2> HIDE DEF l, n, root
  <2>1. WayUp(RollupIndex)
        /\ HashesUp(l[RollupIndex + 1], RollupIndex, ComputeSiblings(RollupIndex, l))
    BY Zenon, <1>11
  <2> QED
    BY Zenon, <1>10, <1>11, <1>12, <1>13, <2>1, RollupProof
<1>15. l[RollupIndex + 1] = LocalExitRoot(Synced, N)
  BY Zenon, <1>3, <1>11 DEF Filled, LeafOf
<1> DEFINE ds == L2Tree(Synced, made)
<1>16. LocalExitRoot(Synced, N) = RootOf([j \in 1..N |-> Leaf(ds[j])])
  <2> HIDE DEF N
  <2>1. \A j \in 1..N : j \in 1..made
    BY <1>6, <1>7
  <2>2. [j \in 1..N |-> Leaf(L2Tree(Synced, N)[j])] = [j \in 1..N |-> Leaf(ds[j])]
    BY Zenon, <2>1 DEF L2Tree
  <2>3. ExitRoot(L2Tree(Synced, N)) = RootOf([j \in 1..N |-> Leaf(L2Tree(Synced, N)[j])])
    BY Zenon, <1>5, L2Root
  <2> QED
    BY Zenon, <1>7, <2>2, <2>3 DEF LocalExitRoot
<1>17. Len(ds) = made
  BY <1>6 DEF L2Tree
<1>18. Prove(l[RollupIndex + 1], d) = "good"
  <2>1. ContentOf(d) = ds[(d[2] - 1) + 1]
    <3>1. ds[k] = Synced
      BY Zenon, <1>1 DEF L2Tree
    <3> HIDE DEF ds
    <3> QED
      BY Zenon, <1>1, <1>7, <3>1 DEF ContentOf
  <2>2. N \in 1..Len(ds) /\ d[2] - 1 \in 0..(N - 1)
    BY Zenon, <1>7, <1>17
  <2>3. Prove(LocalExitRoot(Synced, N), d) = "good"
    <3> HIDE DEF ds, N
    <3>1. Provable(ds)
      BY Zenon DEF ds
    <3> QED
      BY Zenon, <1>16, <2>1, <2>2, <3>1, GoodProof
  <2> QED
    BY Zenon, <1>15, <2>3
<1>19. ProveRollup(root, d) = "good"
  <2> HIDE DEF l, n, root, N
  <2> QED
    BY Zenon, <1>9, <1>11, <1>12, <1>13, <1>14, <1>18 DEF ProveRollup
<1> QED
  BY Zenon, <1>1, <1>8, <1>19 DEF Proof

-----------------------------------------------------------------------------
(***************************************************************************)
(* The deposit trees: what DepositTreeProofs shows of them.                *)
(***************************************************************************)
Trees == INSTANCE DepositTreeProofs
           WITH Content <- Nat, MaxInBlock <- 0, MaxDeposits <- Width[0] - 1, MaxFaults <- 0,
                deposits <- <<>>, roots <- <<>>, rht <- {}, count <- 0, siblings <- <<>>,
                faults <- 0

\* Trees of this height, with all the deposits that they can hold.
LEMMA TreesApply ==
  Height \in Nat \ {0} /\ 0 \in Nat /\ Width[0] - 1 \in 1..(Trees!Width[0] - 1)
<1>1. Trees!Width = Width
  BY Zenon DEF Trees!Width, Width
<1>2. MaxBlocks \in 1..(Width[0] - 1) /\ Width[0] \in Nat
  BY Zenon, ExitRootsAssumption, RollupPlaces
<1>3. Width[0] - 1 \in 1..(Width[0] - 1)
  BY <1>2
<1> QED
  BY Zenon, <1>1, <1>3, HeightAssumption

\* The way up from a leaf.
LEMMA WaysUp ==
  ASSUME NEW i \in Nat
  PROVE  WayUp(i)
<1>1. Trees!Position(i) = Position(i)
  BY Zenon DEF Trees!Position, Position
<1>2. \A h : Trees!BitSet(i, h) <=> BitSet(i, h)
  BY Zenon, <1>1 DEF Trees!BitSet, BitSet
<1>3. Trees!Position(i)[0] = i
  BY Zenon, TreesApply, Trees!Positions
<1>4. ASSUME NEW h \in 0..(Height - 1)
      PROVE  /\ Trees!Position(i)[h] \in Nat /\ Trees!Position(i)[h + 1] \in Nat
             /\ Trees!BitSet(i, h) => Trees!Position(i)[h] = 2 * Trees!Position(i)[h + 1] + 1
             /\ ~Trees!BitSet(i, h) => Trees!Position(i)[h] = 2 * Trees!Position(i)[h + 1]
  BY Zenon, TreesApply, Trees!Bits
<1> QED
  BY Zenon, <1>1, <1>2, <1>3, <1>4 DEF WayUp

\* The hashes on the way up from it.
LEMMA ProofsUp ==
  ASSUME NEW leaf, NEW i, NEW p
  PROVE  HashesUp(leaf, i, p)
<1>1. Trees!Climb(leaf, i, p, p) = Climb(leaf, i, p, p)
  BY Zenon DEF Trees!Climb, Climb, Trees!BitSet, BitSet, Trees!Position, Position,
               Trees!Hash, Hash
<1>2. \A h : Trees!BitSet(i, h) <=> BitSet(i, h)
  BY Zenon DEF Trees!BitSet, BitSet, Trees!Position, Position
<1>3. Trees!Climb(leaf, i, p, p)[0] = leaf
  BY TreesApply, Trees!Climbs
<1>4. ASSUME NEW h \in 0..(Height - 1)
      PROVE  Trees!Climb(leaf, i, p, p)[h + 1]
               = IF Trees!BitSet(i, h) THEN Trees!Hash(p[h], Trees!Climb(leaf, i, p, p)[h])
                 ELSE Trees!Hash(Trees!Climb(leaf, i, p, p)[h], p[h])
  BY TreesApply, Trees!Climbs
<1> QED
  BY Zenon, <1>1, <1>2, <1>3, <1>4 DEF HashesUp, Trees!Hash, Hash

\* The tree is the same one.
LEMMA SameTree ==
  ASSUME NEW ds
  PROVE  Trees!AddAll(Trees!EmptyTree, ds) = AddAll(EmptyTree, ds)
  BY Zenon DEF Trees!AddAll, AddAll, Trees!EmptyTree, EmptyTree, Trees!AddLeaf, AddLeaf,
               Trees!PathUp, PathUp, Trees!BulkSet, BulkSet, Trees!NewSiblings, NewSiblings,
               Trees!Leaf, Leaf, Trees!Level, Level, Trees!Climb, Climb, Trees!BitSet, BitSet,
               Trees!Position, Position, Trees!ZeroHash, ZeroHash, Trees!Hash, Hash

\* Every node of a deposit tree is stored under its hash.
LEMMA NodesHashed ==
  ASSUME NEW ds \in Seq(Nat), Len(ds) <= Width[0] - 1
  PROVE  \A r \in AddAll(EmptyTree, ds).rht : r.key = Hash(r.value[1], r.value[2])
<1>1. \A r \in Trees!AddAll(Trees!EmptyTree, ds).rht : r.key = Trees!Hash(r.value[1], r.value[2])
  BY Zenon, TreesApply, Trees!HashedRows
<1> QED
  BY Zenon, <1>1, SameTree DEF Trees!Hash, Hash

\* A proof from a table with the nodes of a deposit tree and others leads to its root.
LEMMA TableProof ==
  ASSUME NEW rows, NEW ds, HasTree(rows, ds), NEW n \in 1..Len(ds), NEW i \in 0..(n - 1)
  PROVE  ProofIn(rows, ds, n, i)
<1> DEFINE root == RootOf([k \in 1..n |-> Leaf(ds[k])])
<1>1. Trees!HasTree(rows, ds)
  <2>1. \A r \in rows : r.key = Trees!Hash(r.value[1], r.value[2])
    BY Zenon DEF HasTree, Trees!Hash, Hash
  <2> QED
    BY Zenon, <2>1, SameTree DEF HasTree, Trees!HasTree
<1>2. Trees!Leads(rows, ds, n, i)
  BY Zenon, <1>1, TreesApply, Trees!SharedTable
<1>3. Trees!RootAfter(ds, n) = root
  <2>1. \A l : Trees!RootOf(l) = RootOf(l)
    BY Zenon DEF Trees!RootOf, RootOf, Trees!Complete, Complete, Trees!Width, Width,
                 Trees!ZeroHash, ZeroHash, Trees!Hash, Hash
  <2> QED
    BY Zenon, <2>1 DEF Trees!RootAfter, Trees!Leaf, Leaf
<1>4. /\ Trees!WayStored(rows, root, i)
      /\ Trees!CalculateRoot(Trees!Leaf(ds[i + 1]), Trees!GetProof(rows, root, i), i) = root
  BY Zenon, <1>2, <1>3 DEF Trees!Leads
<1>5. Trees!WayStored(rows, root, i) <=> WayStored(rows, root, i)
  BY Zenon DEF Trees!WayStored, WayStored, Trees!Stored, Stored, Trees!Way, Way, Trees!Get, Get,
               Trees!BitSet, BitSet, Trees!Position, Position, Trees!Nil, Nil
<1>6. Trees!GetProof(rows, root, i) = GetProof(rows, root, i)
  BY Zenon DEF Trees!GetProof, GetProof, Trees!Stored, Stored, Trees!Way, Way, Trees!Get, Get,
               Trees!BitSet, BitSet, Trees!Position, Position, Trees!Nil, Nil, Trees!Level, Level
<1>7. \A l, p : Trees!CalculateRoot(l, p, i) = CalculateRoot(l, p, i)
  BY Zenon DEF Trees!CalculateRoot, CalculateRoot, Trees!Climb, Climb, Trees!BitSet, BitSet,
               Trees!Position, Position, Trees!Hash, Hash
<1>8. \A x : Trees!Leaf(x) = Leaf(x)
  BY Zenon DEF Trees!Leaf, Leaf
<1> QED
  BY Zenon, <1>4, <1>5, <1>6, <1>7, <1>8 DEF ProofIn

\* mt.rht has proofs of all the deposits of both trees.
LEMMA AllProvable ==
  ASSUME FlagTypes, Types
  PROVE  Provable(MainnetDeposits(synced)) /\ Provable(L2Tree(Synced, made))
<1> DEFINE M == MainnetDeposits(synced)
           l == L2Tree(Synced, made)
<1>1. /\ Width[0] \in Nat /\ Synced \in 1..Width[0] /\ Content \subseteq Nat
      /\ L2Deposits \in 1..(Width[0] - 1) /\ MaxBlocks \in 1..(Width[0] - 1)
      /\ made \in 0..L2Deposits
  BY Zenon, ExitRootsAssumption, RollupPlaces, StoredBlocks DEF Types
<1>2. M \in Seq(Nat) /\ Len(M) <= Width[0] - 1
  <2>1. chain \in Chains /\ synced \in 0..MaxBlocks
    BY Zenon, StoredBlocks
  <2>2. M \in Seq(Content) /\ Len(M) \in 0..MaxBlocks
    BY Zenon, <2>1, MainnetFacts, DepositsBound DEF MainnetDeposits
  <2> HIDE DEF M
  <2>3. M \in Seq(Nat)
    BY Zenon, <1>1, <2>2, SeqGrows
  <2>4. Len(M) <= Width[0] - 1
    BY <1>1, <2>2
  <2> QED
    BY Zenon, <2>3, <2>4
<1>3. l \in Seq(Nat) /\ Len(l) <= Width[0] - 1
  BY <1>1 DEF L2Tree
<1> HIDE DEF M, l
<1>4. /\ AddAll(EmptyTree, M).rht \subseteq Rht /\ AddAll(EmptyTree, l).rht \subseteq Rht
      /\ \A r \in Rht : r.key = Hash(r.value[1], r.value[2])
  <2>1. Rht = AddAll(EmptyTree, M).rht \cup AddAll(EmptyTree, l).rht
    BY Zenon DEF Rht, M, l
  <2>2. /\ \A r \in AddAll(EmptyTree, M).rht : r.key = Hash(r.value[1], r.value[2])
        /\ \A r \in AddAll(EmptyTree, l).rht : r.key = Hash(r.value[1], r.value[2])
    BY Zenon, <1>2, <1>3, NodesHashed
  <2> QED
    BY Zenon, <2>1, <2>2
<1>5. ASSUME NEW ds \in Seq(Nat), Len(ds) <= Width[0] - 1,
             AddAll(EmptyTree, ds).rht \subseteq Rht
      PROVE  Provable(ds)
  <2>1. HasTree(Rht, ds)
    BY Zenon, <1>4, <1>5 DEF HasTree
  <2> QED
    BY Zenon, <2>1, TableProof DEF Provable
<1> QED
  BY Zenon, <1>2, <1>3, <1>4, <1>5 DEF M, l

\* A deposit that is ready gets a proof that leads from it to the root it comes with, or
\* the answer that L1 is behind L2, for all trees, chains and tables, unless a flag outlived
\* its root or L1 was reorganised (GetClaimProof).
THEOREM ProofsAlwaysGood == MCSpec => []ProofsGood
<1> DEFINE Inv == RowTypes /\ FlagTypes /\ Flags /\ Leaves /\ Types /\ Unforked
<1>1. MCInit => Unforked
  <2> SUFFICES ASSUME MCInit PROVE Unforked
    BY Zenon
  <2>1. /\ chain \in Chains /\ synced = 0 /\ l1Tx = <<>> /\ l2Pc = "idle" /\ made = 0
        /\ ready = {} /\ events = {} /\ gers = <<>> /\ reorgs = 0
    BY Zenon DEF MCInit, Init
  <2>2. reorgs \in Nat /\ l2Pc # "store" /\ DOMAIN gers = {} /\ 0 <= 0
    BY <2>1
  <2>3. Exits(synced)[Synced] = 0
    <3>1. 0 \in 0..MaxBlocks /\ 0 \in 0..0
      BY BlocksBound
    <3> QED
      BY Zenon, <2>1, <3>1, ExitsCount DEF Rollup
  <2>4. Announced /\ ReadyVerified /\ ReadsNext /\ InOrder
    BY Zenon, <2>1, <2>2 DEF Announced, ReadyVerified, ReadsNext, InOrder
  <2>5. BatchStored
    BY Zenon, <2>1, <2>2, <2>3 DEF BatchStored
  <2> QED
    BY Zenon, <2>2, <2>4, <2>5 DEF Unforked, Sound
<1>2. MCInit => Inv
  BY Zenon, <1>1, LeavesInit
<1>3. Inv /\ [MCNext]_MCvars => Inv'
  BY Zenon, RowTypesStep, FlagsStep, LeavesStep, TypesStep, UnforkedStep
<1>4. Inv => ProofsGood
  <2> SUFFICES ASSUME Inv, reorgs = 0, {"late", "stacked"} \cap past = {}, NEW d \in ready
               PROVE  Proof(d) \in {"good", "unsynced"}
    BY Zenon DEF ProofsGood
  <2>1. Sound
    BY Zenon DEF Unforked
  <2>2. d[1] = 0 \/ d[1] = Synced
    BY Zenon, ReadyNumbers
  <2>3. CASE d[1] = 0
    BY Zenon, <2>1, <2>3, AllProvable, MainnetAnswer
  <2>4. CASE d[1] = Synced
    BY Zenon, <2>1, <2>4, AllProvable, WaysUp, ProofsUp, RollupAnswer
  <2> QED
    BY Zenon, <2>2, <2>3, <2>4
<1> HIDE DEF Inv
<1> QED
  BY <1>2, <1>3, <1>4, PTL DEF MCSpec
=============================================================================
