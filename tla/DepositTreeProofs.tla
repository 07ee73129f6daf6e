------------------------- MODULE DepositTreeProofs -------------------------
(***************************************************************************)
(* Proofs about DepositTree, for every height of the tree and every bound: *)
(* whatever is rolled back, the roots that are stored are those of the     *)
(* deposits, their proofs verify, and a restart brings back a tree that    *)
(* accepts the next deposit.                                               *)
(***************************************************************************)
EXTENDS DepositTree, WellFoundedInduction, TLAPS

-----------------------------------------------------------------------------
(***************************************************************************)
(* Induction, and the functions that are defined by recursion.             *)
(***************************************************************************)
Less == {ss \in Nat \X Nat : ss[1] < ss[2]}

\* What holds of 0 and passes on to the next number holds of all of them.
LEMMA UpTo ==
  ASSUME NEW N \in Nat, NEW T, 0 \in T, \A m \in 0..(N - 1) : m \in T => m + 1 \in T
  PROVE  \A m \in 0..N : m \in T
<1> DEFINE C == {m \in 0..N : m \notin T}
<1> SUFFICES ASSUME C # {} PROVE FALSE
  BY Zenon
<1>1. IsWellFoundedOn(Less, Nat)
  BY Zenon, NatLessThanWellFounded DEF OpToRel, Less
<1>2. C \in SUBSET Nat
  OBVIOUS
<1>3. PICK m \in C : \A k \in C : <<k, m>> \notin Less
  BY Zenon, <1>1, <1>2, WFMin
<1>4. m \in Nat /\ m # 0 /\ m <= N
  OBVIOUS
<1>5. m - 1 \in 0..(N - 1) /\ m - 1 \in 0..N /\ m - 1 + 1 = m /\ m - 1 \in Nat
  BY <1>4
<1>6. <<m - 1, m>> \in Less
  BY <1>4, <1>5 DEF Less
<1>7. m - 1 \in T
  BY Zenon, <1>3, <1>5, <1>6
<1> QED
  BY Zenon, <1>5, <1>7

\* The hashes of the empty subtrees (generateZeroHashes).
LEMMA ZeroHashes ==
  /\ ZeroHash[0] = <<>>
  /\ \A h \in 0..(Height - 1) : ZeroHash[h + 1] = Hash(ZeroHash[h], ZeroHash[h])
<1> DEFINE F(g, m) == [h \in 0..m |-> IF h = 0 THEN <<>> ELSE Hash(g[h - 1], g[h - 1])]
           T == {m \in 0..Height : \E g : g = F(g, m)}
<1>0. Height \in Nat /\ 0 \in 0..Height
  BY HeightAssumption
<1>1. 0 \in T
  <2> DEFINE g == [h \in 0..0 |-> <<>>]
  <2>1. g = F(g, 0)
    OBVIOUS
  <2> QED
    BY Zenon, <1>0, <2>1
<1>2. ASSUME NEW m \in 0..(Height - 1), m \in T PROVE m + 1 \in T
  <2>1. PICK g : g = F(g, m)
    BY Zenon, <1>2
  <2> DEFINE k == [h \in 0..(m + 1) |-> IF h = m + 1 THEN Hash(g[m], g[m]) ELSE g[h]]
  <2>2. k = F(k, m + 1)
    BY <1>0, <2>1
  <2>3. m + 1 \in 0..Height
    BY <1>0
  <2> QED
    BY Zenon, <2>2, <2>3
<1>3. Height \in T
  <2>1. Height \in 0..Height
    BY <1>0
  <2> QED
    BY Zenon, <1>0, <1>1, <1>2, <2>1, UpTo
<1>4. ZeroHash = F(ZeroHash, Height)
  BY <1>3 DEF ZeroHash
<1> QED
  BY <1>0, <1>4

\* The positions on the way up from a leaf are halved from level to level.
LEMMA Positions ==
  ASSUME NEW i \in Nat
  PROVE  /\ Position(i)[0] = i
         /\ \A h \in 0..Height : Position(i)[h] \in Nat
         /\ \A h \in 0..(Height - 1) : Position(i)[h + 1] = Position(i)[h] \div 2
<1> DEFINE F(g, m) == [h \in 0..m |-> IF h = 0 THEN i ELSE g[h - 1] \div 2]
           T == {m \in 0..Height : \E g : g = F(g, m)}
<1>0. Height \in Nat /\ 0 \in 0..Height
  BY HeightAssumption
<1>1. 0 \in T
  <2> DEFINE g == [h \in 0..0 |-> i]
  <2>1. g = F(g, 0)
    OBVIOUS
  <2> QED
    BY Zenon, <1>0, <2>1
<1>2. ASSUME NEW m \in 0..(Height - 1), m \in T PROVE m + 1 \in T
  <2>1. PICK g : g = F(g, m)
    BY Zenon, <1>2
  <2> DEFINE k == [h \in 0..(m + 1) |-> IF h = m + 1 THEN g[m] \div 2 ELSE g[h]]
  <2>2. k = F(k, m + 1)
    BY <1>0, <2>1
  <2>3. m + 1 \in 0..Height
    BY <1>0
  <2> QED
    BY Zenon, <2>2, <2>3
<1>3. Height \in T
  <2>1. Height \in 0..Height
    BY <1>0
  <2> QED
    BY Zenon, <1>0, <1>1, <1>2, <2>1, UpTo
<1>4. Position(i) = F(Position(i), Height)
  BY <1>3 DEF Position
<1>5. Position(i)[0] = i
  BY <1>0, <1>4
<1>6. \A h \in 0..(Height - 1) : Position(i)[h + 1] = Position(i)[h] \div 2
  BY <1>0, <1>4
<1>7. \A h \in 0..Height : Position(i)[h] \in Nat
  <2> DEFINE P == {h \in 0..Height : Position(i)[h] \in Nat}
  <2>1. 0 \in P
    BY Zenon, <1>0, <1>5
  <2>2. ASSUME NEW m \in 0..(Height - 1), m \in P PROVE m + 1 \in P
    <3>1. m + 1 \in 0..Height
      BY <1>0
    <3>2. Position(i)[m] \in Nat
      BY Zenon, <2>2
    <3>3. Position(i)[m] \div 2 \in Nat
      BY <3>2
    <3> QED
      BY Zenon, <1>6, <3>1, <3>3
  <2> QED
    BY Zenon, <1>0, <2>1, <2>2, UpTo
<1> QED
  BY Zenon, <1>5, <1>6, <1>7

\* The bit of an index at level h, and what it says of the positions.
LEMMA Bits ==
  ASSUME NEW i \in Nat, NEW h \in 0..(Height - 1)
  PROVE  /\ Position(i)[h] \in Nat /\ Position(i)[h + 1] \in Nat
         /\ BitSet(i, h) => Position(i)[h] = 2 * Position(i)[h + 1] + 1
         /\ ~BitSet(i, h) => Position(i)[h] = 2 * Position(i)[h + 1]
<1>1. h \in 0..Height /\ h + 1 \in 0..Height
  BY HeightAssumption
<1>2. Position(i)[h] \in Nat /\ Position(i)[h + 1] = Position(i)[h] \div 2
      /\ Position(i)[h + 1] \in Nat
  BY Zenon, <1>1, Positions
<1> QED
  BY <1>2 DEF BitSet

\* A level has twice as many nodes as the one above it.
LEMMA Widths ==
  /\ \A h \in 0..Height : Width[h] \in Nat \ {0}
  /\ Width[Height] = 1
  /\ \A h \in 0..(Height - 1) : Width[h] = 2 * Width[h + 1]
<1> DEFINE F(g, m) == [h \in (Height - m)..Height |->
                         IF h = Height THEN 1 ELSE 2 * g[h + 1]]
           T == {m \in 0..Height : \E g : g = F(g, m)}
<1>0. Height \in Nat /\ 0 \in 0..Height /\ Height \in 0..Height
  BY HeightAssumption
<1>1. 0 \in T
  <2> DEFINE g == [h \in (Height - 0)..Height |-> 1]
  <2>1. g = F(g, 0)
    BY <1>0
  <2> QED
    BY Zenon, <1>0, <2>1
<1>2. ASSUME NEW m \in 0..(Height - 1), m \in T PROVE m + 1 \in T
  <2>1. PICK g : g = F(g, m)
    BY Zenon, <1>2
  <2> DEFINE d == Height - (m + 1)
             k == [h \in d..Height |-> IF h = d THEN 2 * g[h + 1] ELSE g[h]]
  <2>2. k = F(k, m + 1)
    BY <1>0, <2>1
  <2>3. m + 1 \in 0..Height
    BY <1>0
  <2> QED
    BY Zenon, <2>2, <2>3
<1>3. Height \in T
  BY Zenon, <1>0, <1>1, <1>2, UpTo
<1>4. Width = [h \in 0..Height |-> IF h = Height THEN 1 ELSE 2 * Width[h + 1]]
  <2>1. Height - Height = 0
    BY <1>0
  <2> QED
    BY Zenon, <1>3, <2>1 DEF Width
<1>5. Width[Height] = 1 /\ \A h \in 0..(Height - 1) : Width[h] = 2 * Width[h + 1]
  BY <1>0, <1>4
<1>6. \A m \in 0..Height : Width[Height - m] \in Nat \ {0}
  <2> DEFINE P == {m \in 0..Height : Width[Height - m] \in Nat \ {0}}
  <2>1. 0 \in P
    <3>1. Height - 0 = Height
      BY <1>0
    <3> QED
      BY <1>0, <1>5, <3>1
  <2>2. ASSUME NEW m \in 0..(Height - 1), m \in P PROVE m + 1 \in P
    <3>1. /\ m + 1 \in 0..Height /\ Height - (m + 1) \in 0..(Height - 1)
          /\ Height - (m + 1) + 1 = Height - m
      BY <1>0
    <3>2. Width[Height - m] \in Nat \ {0}
      BY Zenon, <2>2
    <3>3. Width[Height - (m + 1)] = 2 * Width[Height - m]
      BY Zenon, <1>5, <3>1
    <3>4. Width[Height - (m + 1)] \in Nat \ {0}
      BY <3>2, <3>3
    <3> QED
      BY Zenon, <3>1, <3>4
  <2> QED
    BY Zenon, <1>0, <2>1, <2>2, UpTo
<1>7. ASSUME NEW h \in 0..Height PROVE Width[h] \in Nat \ {0}
  <2>1. Height - h \in 0..Height /\ Height - (Height - h) = h
    BY <1>0
  <2> QED
    BY Zenon, <1>6, <2>1
<1> QED
  BY Zenon, <1>5, <1>7

\* The levels of the complete tree over the leaves.
LEMMA CompleteTree ==
  ASSUME NEW leaves
  PROVE  /\ \A j \in 0..(Width[0] - 1) :
              Complete(leaves)[0][j] = IF j < Len(leaves) THEN leaves[j + 1] ELSE ZeroHash[0]
         /\ \A h \in 0..(Height - 1) : \A j \in 0..(Width[h + 1] - 1) :
              Complete(leaves)[h + 1][j]
                = Hash(Complete(leaves)[h][2 * j], Complete(leaves)[h][2 * j + 1])
<1> DEFINE Base == [j \in 0..(Width[0] - 1) |->
                      IF j < Len(leaves) THEN leaves[j + 1] ELSE ZeroHash[0]]
           Upper(g, h) == [j \in 0..(Width[h] - 1) |->
                             Hash(g[h - 1][2 * j], g[h - 1][2 * j + 1])]
           F(g, m) == [h \in 0..m |-> IF h = 0 THEN Base ELSE Upper(g, h)]
           G(g, m) == [h \in 0..m |->
                         [j \in 0..(Width[h] - 1) |->
                            IF h = 0 THEN IF j < Len(leaves) THEN leaves[j + 1] ELSE ZeroHash[0]
                            ELSE Hash(g[h - 1][2 * j], g[h - 1][2 * j + 1])]]
           T == {m \in 0..Height : \E g : g = F(g, m)}
<1>0. Height \in Nat /\ 0 \in 0..Height /\ Height \in 0..Height
  BY HeightAssumption
<1>1. 0 \in T
  <2> DEFINE g == [h \in 0..0 |-> Base]
  <2> HIDE DEF Base, Upper
  <2>1. g = F(g, 0)
    OBVIOUS
  <2> QED
    BY Zenon, <1>0, <2>1
<1>2. ASSUME NEW m \in 0..(Height - 1), m \in T PROVE m + 1 \in T
  <2>1. PICK g : g = F(g, m)
    BY Zenon, <1>2
  <2> DEFINE k == [h \in 0..(m + 1) |-> IF h = m + 1 THEN Upper(g, m + 1) ELSE g[h]]
  <2>2. \A h \in 0..m : k[h] = g[h]
    BY <1>0
  <2>3. \A h \in 1..(m + 1) : Upper(k, h) = Upper(g, h)
    <3> TAKE h \in 1..(m + 1)
    <3>1. h - 1 \in 0..m
      BY <1>0
    <3>2. k[h - 1] = g[h - 1]
      BY Zenon, <2>2, <3>1
    <3> HIDE DEF k
    <3> QED
      BY Zenon, <3>2
  <2> HIDE DEF Base, Upper
  <2>4. k = F(k, m + 1)
    <3>1. ASSUME NEW h \in 0..(m + 1)
          PROVE  k[h] = IF h = 0 THEN Base ELSE Upper(k, h)
      <4>1. CASE h = m + 1
        <5>1. h # 0 /\ h \in 1..(m + 1)
          BY <1>0, <4>1
        <5> QED
          BY Zenon, <2>3, <4>1, <5>1
      <4>2. CASE h # m + 1
        <5>1. h \in 0..m /\ (h # 0 => h \in 1..(m + 1))
          BY <1>0, <4>2
        <5>2. k[h] = g[h] /\ g[h] = IF h = 0 THEN Base ELSE Upper(g, h)
          BY Zenon, <2>1, <2>2, <5>1
        <5> QED
          BY Zenon, <2>3, <5>1, <5>2
      <4> QED
        BY Zenon, <4>1, <4>2
    <3> QED
      BY Zenon, <3>1
  <2>5. m + 1 \in 0..Height
    BY <1>0
  <2> QED
    BY Zenon, <2>4, <2>5
<1>3. Height \in T
  BY Zenon, <1>0, <1>1, <1>2, UpTo
<1>4. \A g : F(g, Height) = G(g, Height)
  BY Zenon
<1>5. \E g : g = G(g, Height)
  <2>1. PICK g : g = F(g, Height)
    BY Zenon, <1>3
  <2>2. F(g, Height) = G(g, Height)
    BY Zenon, <1>4
  <2> HIDE DEF F, G
  <2>3. g = G(g, Height)
    BY Zenon, <2>1, <2>2
  <2> QED
    BY Zenon, <2>3
<1>6. Complete(leaves) = G(Complete(leaves), Height)
  BY Zenon, <1>5 DEF Complete
<1>7. /\ Complete(leaves)[0] = Base
      /\ \A h \in 0..(Height - 1) : Complete(leaves)[h + 1] = Upper(Complete(leaves), h + 1)
  <2> DEFINE N == Complete(leaves)
  <2>1. N = F(N, Height)
    BY Zenon, <1>4, <1>6
  <2> HIDE DEF N, Base, Upper
  <2>2. N[0] = Base
    BY <1>0, <2>1
  <2>3. ASSUME NEW h \in 0..(Height - 1) PROVE N[h + 1] = Upper(N, h + 1)
    <3>1. h + 1 \in 0..Height /\ h + 1 # 0
      BY <1>0
    <3>2. F(N, Height)[h + 1] = Upper(N, h + 1)
      BY Zenon, <3>1
    <3> QED
      BY Zenon, <2>1, <3>2
  <2> QED
    BY Zenon, <2>2, <2>3 DEF N
<1>8. ASSUME NEW h \in 0..(Height - 1), NEW j \in 0..(Width[h + 1] - 1)
      PROVE  Complete(leaves)[h + 1][j]
               = Hash(Complete(leaves)[h][2 * j], Complete(leaves)[h][2 * j + 1])
  <2>1. h + 1 - 1 = h
    BY <1>0
  <2> HIDE DEF Upper
  <2>2. Complete(leaves)[h + 1] = Upper(Complete(leaves), h + 1)
    BY Zenon, <1>7
  <2> QED
    BY <2>1, <2>2 DEF Upper
<1>9. \A j \in 0..(Width[0] - 1) :
        Complete(leaves)[0][j] = IF j < Len(leaves) THEN leaves[j + 1] ELSE ZeroHash[0]
  BY Zenon, <1>7
<1> QED
  BY Zenon, <1>8, <1>9

\* The hashes on the way up from a leaf.
LEMMA Climbs ==
  ASSUME NEW leaf, NEW i, NEW left, NEW right
  PROVE  /\ Climb(leaf, i, left, right)[0] = leaf
         /\ \A h \in 0..(Height - 1) :
              Climb(leaf, i, left, right)[h + 1]
                = IF BitSet(i, h) THEN Hash(left[h], Climb(leaf, i, left, right)[h])
                                  ELSE Hash(Climb(leaf, i, left, right)[h], right[h])
<1> DEFINE U(g, h) == IF BitSet(i, h - 1) THEN Hash(left[h - 1], g[h - 1])
                                          ELSE Hash(g[h - 1], right[h - 1])
           F(g, m) == [h \in 0..m |-> IF h = 0 THEN leaf ELSE U(g, h)]
           T == {m \in 0..Height : \E g : g = F(g, m)}
<1>0. Height \in Nat /\ 0 \in 0..Height /\ Height \in 0..Height
  BY HeightAssumption
<1>1. 0 \in T
  <2> DEFINE g == [h \in 0..0 |-> leaf]
  <2> HIDE DEF U
  <2>1. g = F(g, 0)
    OBVIOUS
  <2> QED
    BY Zenon, <1>0, <2>1
<1>2. ASSUME NEW m \in 0..(Height - 1), m \in T PROVE m + 1 \in T
  <2>1. PICK g : g = F(g, m)
    BY Zenon, <1>2
  <2> DEFINE k == [h \in 0..(m + 1) |-> IF h = m + 1 THEN U(g, m + 1) ELSE g[h]]
  <2>2. \A h \in 0..m : k[h] = g[h]
    <3> HIDE DEF U
    <3> QED
      BY <1>0
  <2>3. \A h \in 1..(m + 1) : U(k, h) = U(g, h)
    <3> TAKE h \in 1..(m + 1)
    <3>1. h - 1 \in 0..m
      BY <1>0
    <3>2. k[h - 1] = g[h - 1]
      BY Zenon, <2>2, <3>1
    <3> HIDE DEF k
    <3> QED
      BY Zenon, <3>2
  <2> HIDE DEF U
  <2>4. k = F(k, m + 1)
    <3>1. ASSUME NEW h \in 0..(m + 1) PROVE k[h] = IF h = 0 THEN leaf ELSE U(k, h)
      <4>1. CASE h = m + 1
        <5>1. h # 0 /\ h \in 1..(m + 1)
          BY <1>0, <4>1
        <5> QED
          BY Zenon, <2>3, <4>1, <5>1
      <4>2. CASE h # m + 1
        <5>1. h \in 0..m /\ (h # 0 => h \in 1..(m + 1))
          BY <1>0, <4>2
        <5>2. k[h] = g[h] /\ g[h] = IF h = 0 THEN leaf ELSE U(g, h)
          BY Zenon, <2>1, <2>2, <5>1
        <5> QED
          BY Zenon, <2>3, <5>1, <5>2
      <4> QED
        BY Zenon, <4>1, <4>2
    <3> QED
      BY Zenon, <3>1
  <2>5. m + 1 \in 0..Height
    BY <1>0
  <2> QED
    BY Zenon, <2>4, <2>5
<1>3. \E g : g = F(g, Height)
  BY Zenon, <1>0, <1>1, <1>2, UpTo
<1> DEFINE C == Climb(leaf, i, left, right)
<1>4. C = F(C, Height)
  BY Zenon, <1>3 DEF Climb
<1> HIDE DEF C, U
<1>5. C[0] = leaf
  BY Zenon, <1>0, <1>4
<1>6. ASSUME NEW h \in 0..(Height - 1)
      PROVE  C[h + 1] = IF BitSet(i, h) THEN Hash(left[h], C[h]) ELSE Hash(C[h], right[h])
  <2>1. PICK k : k = h + 1 /\ k \in 0..Height /\ k # 0 /\ k - 1 = h
    BY <1>0
  <2>2. C[k] = U(C, k)
    BY Zenon, <1>4, <2>1
  <2>3. U(C, k) = IF BitSet(i, h) THEN Hash(left[h], C[h]) ELSE Hash(C[h], right[h])
    BY Zenon, <2>1 DEF U
  <2> QED
    BY Zenon, <2>1, <2>2, <2>3
<1> QED
  BY Zenon, <1>5, <1>6 DEF C

\* The nodes on the way down: each is a child of the one above it.
LEMMA Ways ==
  ASSUME NEW rows, NEW root, NEW i
  PROVE  /\ Way(rows, root, i)[Height] = root
         /\ \A h \in 0..(Height - 1) :
              Stored(rows, Way(rows, root, i)[h + 1]) =>
                Way(rows, root, i)[h]
                  = Get(rows, Way(rows, root, i)[h + 1])[IF BitSet(i, h) THEN 2 ELSE 1]
<1> DEFINE U(g, h) == IF ~Stored(rows, g[h - 1]) THEN Nil
                      ELSE Get(rows, g[h - 1])[IF BitSet(i, Height - h) THEN 2 ELSE 1]
           F(g, m) == [h \in 0..m |-> IF h = 0 THEN root ELSE U(g, h)]
           T == {m \in 0..Height : \E g : g = F(g, m)}
<1>0. Height \in Nat /\ 0 \in 0..Height /\ Height \in 0..Height
  BY HeightAssumption
<1>1. 0 \in T
  <2> DEFINE g == [h \in 0..0 |-> root]
  <2> HIDE DEF U
  <2>1. g = F(g, 0)
    OBVIOUS
  <2> QED
    BY Zenon, <1>0, <2>1
<1>2. ASSUME NEW m \in 0..(Height - 1), m \in T PROVE m + 1 \in T
  <2>1. PICK g : g = F(g, m)
    BY Zenon, <1>2
  <2> DEFINE k == [h \in 0..(m + 1) |-> IF h = m + 1 THEN U(g, m + 1) ELSE g[h]]
  <2>2. \A h \in 0..m : k[h] = g[h]
    <3> HIDE DEF U
    <3> QED
      BY <1>0
  <2>3. \A h \in 1..(m + 1) : U(k, h) = U(g, h)
    <3> TAKE h \in 1..(m + 1)
    <3>1. h - 1 \in 0..m
      BY <1>0
    <3>2. k[h - 1] = g[h - 1]
      BY Zenon, <2>2, <3>1
    <3> HIDE DEF k
    <3> QED
      BY Zenon, <3>2
  <2> HIDE DEF U
  <2>4. k = F(k, m + 1)
    <3>1. ASSUME NEW h \in 0..(m + 1) PROVE k[h] = IF h = 0 THEN root ELSE U(k, h)
      <4>1. CASE h = m + 1
        <5>1. h # 0 /\ h \in 1..(m + 1)
          BY <1>0, <4>1
        <5> QED
          BY Zenon, <2>3, <4>1, <5>1
      <4>2. CASE h # m + 1
        <5>1. h \in 0..m /\ (h # 0 => h \in 1..(m + 1))
          BY <1>0, <4>2
        <5>2. k[h] = g[h] /\ g[h] = IF h = 0 THEN root ELSE U(g, h)
          BY Zenon, <2>1, <2>2, <5>1
        <5> QED
          BY Zenon, <2>3, <5>1, <5>2
      <4> QED
        BY Zenon, <4>1, <4>2
    <3> QED
      BY Zenon, <3>1
  <2>5. m + 1 \in 0..Height
    BY <1>0
  <2> QED
    BY Zenon, <2>4, <2>5
<1>3. \E g : g = F(g, Height)
  BY Zenon, <1>0, <1>1, <1>2, UpTo
<1>4. PICK w : w = F(w, Height) /\ Way(rows, root, i) = [h \in 0..Height |-> w[Height - h]]
  BY Zenon, <1>3 DEF Way
<1> DEFINE W == Way(rows, root, i)
<1> HIDE DEF W, U
<1>5. W = [h \in 0..Height |-> w[Height - h]]
  BY Zenon, <1>4 DEF W
<1>6. W[Height] = root
  <2>1. Height - Height = 0
    BY <1>0
  <2>2. w[0] = root
    BY Zenon, <1>0, <1>4
  <2> QED
    BY Zenon, <1>0, <1>5, <2>1, <2>2
<1>7. ASSUME NEW h \in 0..(Height - 1), Stored(rows, W[h + 1])
      PROVE  W[h] = Get(rows, W[h + 1])[IF BitSet(i, h) THEN 2 ELSE 1]
  <2> DEFINE k == Height - h
  <2>1. /\ k \in 0..Height /\ k # 0 /\ Height - k = h
        /\ k - 1 = Height - (h + 1) /\ h \in 0..Height /\ h + 1 \in 0..Height
    BY <1>0
  <2> HIDE DEF k
  <2>2. W[h] = w[k] /\ W[h + 1] = w[k - 1]
    BY Zenon, <1>5, <2>1 DEF k
  <2>3. w[k] = U(w, k)
    BY Zenon, <1>4, <2>1
  <2> QED
    BY Zenon, <1>7, <2>1, <2>2, <2>3 DEF U
<1> QED
  BY Zenon, <1>6, <1>7 DEF W

\* The deposits of a block are added one after the other.
LEMMA Additions ==
  ASSUME NEW t, NEW block, Len(block) \in Nat
  PROVE  \E tree : /\ tree[0] = t /\ AddAll(t, block) = tree[Len(block)]
                   /\ \A n \in 0..(Len(block) - 1) :
                        tree[n + 1] = AddLeaf(tree[n], block[n + 1])
<1> DEFINE L == Len(block)
           U(g, h) == AddLeaf(g[h - 1], block[h])
           F(g, m) == [h \in 0..m |-> IF h = 0 THEN t ELSE U(g, h)]
           T == {m \in 0..L : \E g : g = F(g, m)}
<1>0. L \in Nat /\ 0 \in 0..L /\ L \in 0..L
  OBVIOUS
<1> HIDE DEF L
<1>1. 0 \in T
  <2> DEFINE g == [h \in 0..0 |-> t]
  <2> HIDE DEF U
  <2>1. g = F(g, 0)
    OBVIOUS
  <2> QED
    BY Zenon, <1>0, <2>1
<1>2. ASSUME NEW m \in 0..(L - 1), m \in T PROVE m + 1 \in T
  <2>1. PICK g : g = F(g, m)
    BY Zenon, <1>2
  <2> DEFINE k == [h \in 0..(m + 1) |-> IF h = m + 1 THEN U(g, m + 1) ELSE g[h]]
  <2>2. \A h \in 0..m : k[h] = g[h]
    <3> HIDE DEF U
    <3> QED
      BY <1>0
  <2>3. \A h \in 1..(m + 1) : U(k, h) = U(g, h)
    <3> TAKE h \in 1..(m + 1)
    <3>1. h - 1 \in 0..m
      BY <1>0
    <3>2. k[h - 1] = g[h - 1]
      BY Zenon, <2>2, <3>1
    <3> HIDE DEF k
    <3> QED
      BY Zenon, <3>2
  <2> HIDE DEF U
  <2>4. k = F(k, m + 1)
    <3>1. ASSUME NEW h \in 0..(m + 1) PROVE k[h] = IF h = 0 THEN t ELSE U(k, h)
      <4>1. CASE h = m + 1
        <5>1. h # 0 /\ h \in 1..(m + 1)
          BY <1>0, <4>1
        <5> QED
          BY Zenon, <2>3, <4>1, <5>1
      <4>2. CASE h # m + 1
        <5>1. h \in 0..m /\ (h # 0 => h \in 1..(m + 1))
          BY <1>0, <4>2
        <5>2. k[h] = g[h] /\ g[h] = IF h = 0 THEN t ELSE U(g, h)
          BY Zenon, <2>1, <2>2, <5>1
        <5> QED
          BY Zenon, <2>3, <5>1, <5>2
      <4> QED
        BY Zenon, <4>1, <4>2
    <3> QED
      BY Zenon, <3>1
  <2>5. m + 1 \in 0..L
    BY <1>0
  <2> QED
    BY Zenon, <2>4, <2>5
<1>3. \E g : g = F(g, L)
  BY Zenon, <1>0, <1>1, <1>2, UpTo
<1>4. PICK tree : tree = F(tree, L) /\ AddAll(t, block) = tree[L]
  BY Zenon, <1>3 DEF AddAll, L
<1> HIDE DEF U
<1>5. tree[0] = t
  BY Zenon, <1>0, <1>4
<1>6. ASSUME NEW n \in 0..(L - 1) PROVE tree[n + 1] = AddLeaf(tree[n], block[n + 1])
  <2>1. PICK k : k = n + 1 /\ k \in 0..L /\ k # 0 /\ k - 1 = n
    BY <1>0
  <2>2. tree[k] = U(tree, k)
    BY Zenon, <1>4, <2>1
  <2> QED
    BY Zenon, <2>1, <2>2 DEF U
<1> QED
  BY Zenon, <1>4, <1>5, <1>6 DEF L

-----------------------------------------------------------------------------
(***************************************************************************)
(* Positions in the tree.                                                  *)
(***************************************************************************)
LEMMA LevelFacts ==
  /\ Height \in Nat /\ 0 \in 0..Height /\ Height \in 0..Height /\ Height \in 1..Height
  /\ \A h \in 0..(Height - 1) :
       /\ h \in 0..Height /\ h + 1 \in 0..Height /\ h + 1 \in 1..Height /\ h \in Level
  /\ \A h \in 1..Height : h - 1 \in 0..(Height - 1) /\ h \in 0..Height /\ h - 1 + 1 = h
BY HeightAssumption DEF Level

\* A leaf to the left has its way to the left.
LEMMA Monotone ==
  ASSUME NEW i \in Nat, NEW k \in Nat, i <= k
  PROVE  \A h \in 0..Height : Position(i)[h] <= Position(k)[h]
<1> DEFINE T == {h \in 0..Height : Position(i)[h] <= Position(k)[h]}
<1>1. 0 \in T
  BY Zenon, LevelFacts, Positions
<1>2. ASSUME NEW m \in 0..(Height - 1), m \in T PROVE m + 1 \in T
  <2>1. /\ m + 1 \in 0..Height
        /\ Position(i)[m] \in Nat /\ Position(k)[m] \in Nat
        /\ Position(i)[m + 1] = Position(i)[m] \div 2
        /\ Position(k)[m + 1] = Position(k)[m] \div 2
    BY Zenon, LevelFacts, Positions
  <2>2. Position(i)[m] <= Position(k)[m]
    BY Zenon, <1>2
  <2>3. Position(i)[m + 1] <= Position(k)[m + 1]
    BY <2>1, <2>2
  <2> QED
    BY Zenon, <2>1, <2>3
<1> QED
  BY Zenon, <1>1, <1>2, LevelFacts, UpTo

\* A leaf of the tree has its way in the tree.
LEMMA Inside ==
  ASSUME NEW i \in Nat, i < Width[0]
  PROVE  \A h \in 0..Height : Position(i)[h] \in 0..(Width[h] - 1)
<1> DEFINE T == {h \in 0..Height : Position(i)[h] \in 0..(Width[h] - 1)}
<1>1. 0 \in T
  <2>1. Position(i)[0] = i /\ Width[0] \in Nat
    BY Zenon, LevelFacts, Positions, Widths
  <2>2. Position(i)[0] \in 0..(Width[0] - 1)
    BY <2>1
  <2> QED
    BY Zenon, <2>2, LevelFacts
<1>2. ASSUME NEW m \in 0..(Height - 1), m \in T PROVE m + 1 \in T
  <2>1. /\ m + 1 \in 0..Height
        /\ Position(i)[m] \in Nat /\ Position(i)[m + 1] = Position(i)[m] \div 2
        /\ Width[m] = 2 * Width[m + 1]
    BY Zenon, LevelFacts, Positions, Widths
  <2>2. Position(i)[m] \in 0..(Width[m] - 1)
    BY Zenon, <1>2
  <2>3. Width[m + 1] \in Nat
    BY Zenon, <2>1, Widths
  <2>4. Position(i)[m + 1] \in 0..(Width[m + 1] - 1)
    BY <2>1, <2>2, <2>3
  <2> QED
    BY Zenon, <2>1, <2>4
<1> QED
  BY Zenon, <1>1, <1>2, LevelFacts, UpTo

\* From a leaf to the next, the way moves at the levels up to the lowest bit that is
\* not set, and stays above.
LEMMA Increment ==
  ASSUME NEW k \in Nat
  PROVE  \A h \in 0..Height :
           /\ (\A g \in 0..(h - 1) : BitSet(k, g)) =>
                Position(k + 1)[h] = Position(k)[h] + 1
           /\ (\E g \in 0..(h - 1) : ~BitSet(k, g)) =>
                Position(k + 1)[h] = Position(k)[h]
<1> DEFINE All(h) == \A g \in 0..(h - 1) : BitSet(k, g)
           T == {h \in 0..Height :
                   Position(k + 1)[h] = IF All(h) THEN Position(k)[h] + 1 ELSE Position(k)[h]}
<1>0. k + 1 \in Nat
  OBVIOUS
<1>1. 0 \in T
  <2>1. Position(k + 1)[0] = k + 1 /\ Position(k)[0] = k
    BY Zenon, <1>0, Positions
  <2>2. All(0)
    OBVIOUS
  <2> QED
    BY Zenon, <2>1, <2>2, LevelFacts
<1>2. ASSUME NEW m \in 0..(Height - 1), m \in T PROVE m + 1 \in T
  <2>1. /\ m + 1 \in 0..Height
        /\ Position(k)[m] \in Nat /\ Position(k)[m + 1] = Position(k)[m] \div 2
        /\ Position(k + 1)[m + 1] = Position(k + 1)[m] \div 2
    BY Zenon, <1>0, LevelFacts, Positions
  <2>2. Position(k + 1)[m] = IF All(m) THEN Position(k)[m] + 1 ELSE Position(k)[m]
    BY Zenon, <1>2
  <2>3. All(m + 1) <=> All(m) /\ BitSet(k, m)
    <3>1. m \in Nat
      BY LevelFacts
    <3> QED
      BY <3>1
  <2> HIDE DEF All
  <2>4. BitSet(k, m) <=> Position(k)[m] % 2 = 1
    BY Zenon DEF BitSet
  <2>5. Position(k + 1)[m + 1]
          = IF All(m + 1) THEN Position(k)[m + 1] + 1 ELSE Position(k)[m + 1]
    BY <2>1, <2>2, <2>3, <2>4
  <2> QED
    BY Zenon, <2>1, <2>5
<1>3. \A h \in 0..Height : h \in T
  BY Zenon, <1>1, <1>2, LevelFacts, UpTo
<1> QED
  BY Zenon, <1>3

-----------------------------------------------------------------------------
(***************************************************************************)
(* Nodes of the complete tree: which are empty and which two trees share.  *)
(***************************************************************************)
\* Right of the way to the last leaf there are only empty subtrees.
LEMMA EmptyRight ==
  ASSUME NEW leaves, NEW k \in Nat, Len(leaves) \in Nat, Len(leaves) <= k + 1
  PROVE  \A h \in 0..Height : \A j \in 0..(Width[h] - 1) :
           Position(k)[h] < j => Complete(leaves)[h][j] = ZeroHash[h]
<1> DEFINE N == Complete(leaves)
           T == {h \in 0..Height : \A j \in 0..(Width[h] - 1) :
                   Position(k)[h] < j => N[h][j] = ZeroHash[h]}
<1>1. 0 \in T
  <2>1. Position(k)[0] = k /\ Width[0] \in Nat
    BY Zenon, Positions, LevelFacts, Widths
  <2>2. ASSUME NEW j \in 0..(Width[0] - 1), Position(k)[0] < j
        PROVE  N[0][j] = ZeroHash[0]
    <3>1. ~(j < Len(leaves))
      BY <2>1, <2>2
    <3> QED
      BY Zenon, <3>1, CompleteTree
  <2> QED
    BY Zenon, <2>2, LevelFacts
<1>2. ASSUME NEW m \in 0..(Height - 1), m \in T PROVE m + 1 \in T
  <2>1. /\ m + 1 \in 0..Height /\ m \in 0..Height
        /\ Position(k)[m] \in Nat /\ Position(k)[m + 1] = Position(k)[m] \div 2
        /\ Width[m] = 2 * Width[m + 1] /\ ZeroHash[m + 1] = Hash(ZeroHash[m], ZeroHash[m])
    BY Zenon, LevelFacts, Positions, Widths, ZeroHashes
  <2>2. Width[m + 1] \in Nat
    BY Zenon, <2>1, Widths
  <2>3. ASSUME NEW j \in 0..(Width[m + 1] - 1), Position(k)[m + 1] < j
        PROVE  N[m + 1][j] = ZeroHash[m + 1]
    <3>1. /\ 2 * j \in 0..(Width[m] - 1) /\ 2 * j + 1 \in 0..(Width[m] - 1)
          /\ Position(k)[m] < 2 * j /\ Position(k)[m] < 2 * j + 1
      BY <2>1, <2>2, <2>3
    <3>2. N[m][2 * j] = ZeroHash[m] /\ N[m][2 * j + 1] = ZeroHash[m]
      BY Zenon, <1>2, <3>1
    <3>3. N[m + 1][j] = Hash(N[m][2 * j], N[m][2 * j + 1])
      BY Zenon, CompleteTree
    <3> QED
      BY Zenon, <2>1, <3>2, <3>3
  <2> QED
    BY Zenon, <2>1, <2>3
<1> QED
  BY Zenon, <1>1, <1>2, LevelFacts, UpTo

\* Left of the way to the leaf at k, two trees with the same first k leaves agree.
LEMMA SameLeft ==
  ASSUME NEW one, NEW two, NEW k \in Nat,
         Len(one) \in Nat, Len(two) \in Nat, k <= Len(one), k <= Len(two),
         \A i \in 1..k : one[i] = two[i]
  PROVE  \A h \in 0..Height : \A j \in 0..(Width[h] - 1) :
           j < Position(k)[h] => Complete(one)[h][j] = Complete(two)[h][j]
<1> DEFINE N == Complete(one)
           M == Complete(two)
           T == {h \in 0..Height : \A j \in 0..(Width[h] - 1) :
                   j < Position(k)[h] => N[h][j] = M[h][j]}
<1>1. 0 \in T
  <2>1. Position(k)[0] = k /\ Width[0] \in Nat
    BY Zenon, Positions, LevelFacts, Widths
  <2>2. ASSUME NEW j \in 0..(Width[0] - 1), j < Position(k)[0]
        PROVE  N[0][j] = M[0][j]
    <3>1. j < Len(one) /\ j < Len(two) /\ j + 1 \in 1..k
      BY <2>1, <2>2
    <3>2. N[0][j] = one[j + 1] /\ M[0][j] = two[j + 1]
      BY Zenon, <3>1, CompleteTree
    <3> QED
      BY Zenon, <3>1, <3>2
  <2> QED
    BY Zenon, <2>2, LevelFacts
<1>2. ASSUME NEW m \in 0..(Height - 1), m \in T PROVE m + 1 \in T
  <2>1. /\ m + 1 \in 0..Height /\ m \in 0..Height
        /\ Position(k)[m] \in Nat /\ Position(k)[m + 1] = Position(k)[m] \div 2
        /\ Width[m] = 2 * Width[m + 1]
    BY Zenon, LevelFacts, Positions, Widths
  <2>2. Width[m + 1] \in Nat
    BY Zenon, <2>1, Widths
  <2>3. ASSUME NEW j \in 0..(Width[m + 1] - 1), j < Position(k)[m + 1]
        PROVE  N[m + 1][j] = M[m + 1][j]
    <3>1. /\ 2 * j \in 0..(Width[m] - 1) /\ 2 * j + 1 \in 0..(Width[m] - 1)
          /\ 2 * j < Position(k)[m] /\ 2 * j + 1 < Position(k)[m]
      BY <2>1, <2>2, <2>3
    <3>2. N[m][2 * j] = M[m][2 * j] /\ N[m][2 * j + 1] = M[m][2 * j + 1]
      BY Zenon, <1>2, <3>1
    <3>3. /\ N[m + 1][j] = Hash(N[m][2 * j], N[m][2 * j + 1])
          /\ M[m + 1][j] = Hash(M[m][2 * j], M[m][2 * j + 1])
      BY Zenon, CompleteTree
    <3> QED
      BY Zenon, <3>2, <3>3
  <2> QED
    BY Zenon, <2>1, <2>3
<1> HIDE DEF T
<1>3. \A h \in 0..Height : h \in T
  BY Zenon, <1>1, <1>2, LevelFacts, UpTo
<1> QED
  BY Zenon, <1>3 DEF T

-----------------------------------------------------------------------------
(***************************************************************************)
(* The invariant: what the tables hold, and what the frontier is while the *)
(* tree accepts a deposit.                                                 *)
(***************************************************************************)
\* The leaves of the first n deposits, and the node at position j of level h of the
\* tree over them.
LeavesOf(ds, n) == [i \in 1..n |-> Leaf(ds[i])]
Node(ds, n, h, j) == Complete(LeavesOf(ds, n))[h][j]

\* Two sequences with the same first n deposits.
Agree(ds, es, n) == \A i \in 1..n : ds[i] = es[i]

\* Every node left of the way to the n-th deposit, or on it, is stored with that
\* deposit or an earlier one.
Covered(ds, rows) ==
  \A n \in 1..Len(ds) : \A h \in 1..Height : \A j \in 0..Position(n - 1)[h] :
    \E r \in rows : r.key = Node(ds, n, h, j) /\ r.id <= n

\* Every stored node is the hash of its children and was stored with a deposit there is.
Rows(ds, rows) ==
  \A r \in rows : r.id \in 1..Len(ds) /\ r.key = Hash(r.value[1], r.value[2])

\* The three tables: deposits, the root stored with each of them, and the nodes.
Tables(ds, rs, rows) ==
  /\ ds \in Seq(Content) /\ Len(ds) <= MaxDeposits
  /\ rs = [n \in 1..Len(ds) |-> Node(ds, n, Height, 0)]
  /\ Rows(ds, rows) /\ Covered(ds, rows)

\* What getProof needs of them: there may be other rows too.
Readable(ds, rs, rows) ==
  /\ ds \in Seq(Content) /\ Len(ds) <= MaxDeposits
  /\ rs = [n \in 1..Len(ds) |-> Node(ds, n, Height, 0)]
  /\ (\A r \in rows : r.key = Hash(r.value[1], r.value[2])) /\ Covered(ds, rows)

\* The sibling at a level where the next leaf is a right child is the subtree to its
\* left; the others are not read before they are overwritten.
Frontier(ds, n, sib) ==
  /\ DOMAIN sib = Level
  /\ \A h \in Level : BitSet(n, h) => sib[h] = Node(ds, n, h, Position(n)[h] - 1)

\* The memory is known only while its count is that of the table: a failure leaves it
\* behind or ahead. As long as nothing failed it is in step.
TreeInv ==
  /\ Tables(deposits, roots, rht)
  /\ siblings # Nil /\ count = Len(deposits) => Frontier(deposits, count, siblings)
  /\ siblings = Nil \/ DOMAIN siblings = Level
  /\ count \in 0..MaxDeposits /\ faults \in 0..MaxFaults
  /\ faults = MaxFaults => siblings # Nil /\ count = Len(deposits)

-----------------------------------------------------------------------------
(***************************************************************************)
(* Nodes over the deposits.                                                *)
(***************************************************************************)
LEMMA Bound == MaxDeposits \in Nat /\ MaxDeposits < Width[0] /\ MaxDeposits # 0
<1>1. Width[0] \in Nat
  BY Zenon, LevelFacts, Widths
<1> QED
  BY <1>1, BoundAssumption

LEMMA LeavesLen ==
  ASSUME NEW ds, NEW n \in Nat
  PROVE  Len(LeavesOf(ds, n)) = n /\ \A i \in 1..n : LeavesOf(ds, n)[i] = Leaf(ds[i])
BY DEF LeavesOf

LEMMA NodeAbove ==
  ASSUME NEW ds, NEW n, NEW h \in 0..(Height - 1), NEW j \in 0..(Width[h + 1] - 1)
  PROVE  Node(ds, n, h + 1, j) = Hash(Node(ds, n, h, 2 * j), Node(ds, n, h, 2 * j + 1))
BY Zenon, CompleteTree DEF Node

LEMMA NodeLeaf ==
  ASSUME NEW ds, NEW n \in Nat, n <= Width[0], NEW i \in 0..(n - 1)
  PROVE  Node(ds, n, 0, i) = Leaf(ds[i + 1])
<1>1. Width[0] \in Nat
  BY Zenon, LevelFacts, Widths
<1>2. i \in 0..(Width[0] - 1) /\ i < n /\ i + 1 \in 1..n
  BY <1>1
<1>3. Len(LeavesOf(ds, n)) = n /\ LeavesOf(ds, n)[i + 1] = Leaf(ds[i + 1])
  BY Zenon, <1>2, LeavesLen
<1> QED
  BY Zenon, <1>2, <1>3, CompleteTree DEF Node

\* Left of the way to a new leaf the nodes stay as they are.
LEMMA NodeKept ==
  ASSUME NEW ds, NEW es, NEW k \in Nat, k < Width[0], Agree(ds, es, k),
         NEW h \in 0..Height, NEW j \in Nat, j < Position(k)[h]
  PROVE  Node(es, k + 1, h, j) = Node(ds, k, h, j)
<1> DEFINE one == LeavesOf(es, k + 1)
           two == LeavesOf(ds, k)
<1>1. /\ k + 1 \in Nat /\ k <= k + 1 /\ k <= k
      /\ \A i \in 1..k : i \in 1..(k + 1)
  OBVIOUS
<1>2. Len(one) = k + 1 /\ \A i \in 1..(k + 1) : one[i] = Leaf(es[i])
  BY Zenon, <1>1, LeavesLen
<1>2a. Len(two) = k /\ \A i \in 1..k : two[i] = Leaf(ds[i])
  BY Zenon, LeavesLen
<1> HIDE DEF one, two
<1>3. \A i \in 1..k : one[i] = two[i]
  BY Zenon, <1>1, <1>2, <1>2a DEF Agree
<1>4. Position(k)[h] \in 0..(Width[h] - 1) /\ Width[h] \in Nat
  BY Zenon, Inside, Widths
<1>5. j \in 0..(Width[h] - 1)
  BY <1>4
<1>6. Len(one) \in Nat /\ Len(two) \in Nat /\ k <= Len(one) /\ k <= Len(two)
  BY Zenon, <1>1, <1>2, <1>2a
<1>7. Complete(one)[h][j] = Complete(two)[h][j]
  BY <1>3, <1>5, <1>6, SameLeft
<1> QED
  BY Zenon, <1>7 DEF Node, one, two

\* Right of the way to the last leaf they are empty.
LEMMA NodeEmpty ==
  ASSUME NEW ds, NEW k \in Nat, NEW h \in 0..Height, NEW j \in 0..(Width[h] - 1),
         Position(k)[h] < j
  PROVE  Node(ds, k + 1, h, j) = ZeroHash[h]
<1>1. k + 1 \in Nat /\ k + 1 <= k + 1
  OBVIOUS
<1>2. Len(LeavesOf(ds, k + 1)) = k + 1
  BY Zenon, <1>1, LeavesLen
<1> QED
  BY Zenon, <1>1, <1>2, EmptyRight DEF Node

-----------------------------------------------------------------------------
(***************************************************************************)
(* Reading the table of nodes.                                             *)
(***************************************************************************)
LEMMA GetNode ==
  ASSUME NEW rows, \A r \in rows : r.key = Hash(r.value[1], r.value[2]),
         NEW a, NEW b, Stored(rows, Hash(a, b))
  PROVE  Get(rows, Hash(a, b))[1] = a /\ Get(rows, Hash(a, b))[2] = b
<1> DEFINE r == CHOOSE r \in rows : r.key = Hash(a, b)
<1>1. r \in rows /\ r.key = Hash(a, b)
  BY Zenon DEF Stored
<1>2. Get(rows, Hash(a, b)) = r.value
  BY Zenon DEF Get
<1> HIDE DEF r
<1>3. Hash(r.value[1], r.value[2]) = Hash(a, b)
  BY Zenon, <1>1
<1>4. \A x, y : Hash(x, y) = Hash(a, b) => x = a /\ y = b
  BY DEF Hash
<1> QED
  BY Zenon, <1>2, <1>3, <1>4

LEMMA TablesReadable ==
  ASSUME NEW ds, NEW rs, NEW rows, Tables(ds, rs, rows)
  PROVE  Readable(ds, rs, rows)
BY Zenon DEF Tables, Rows, Readable

\* From the root that is stored with the n-th deposit, the way to an earlier one goes
\* through stored nodes and these are the nodes of the tree.
LEMMA WayNodes ==
  ASSUME NEW ds, NEW rs, NEW rows, Readable(ds, rs, rows),
         NEW n \in 1..Len(ds), NEW i \in 0..(n - 1)
  PROVE  /\ \A h \in 0..Height : Way(rows, rs[n], i)[h] = Node(ds, n, h, Position(i)[h])
         /\ \A h \in 0..(Height - 1) :
              /\ Stored(rows, Way(rows, rs[n], i)[h + 1])
              /\ Get(rows, Way(rows, rs[n], i)[h + 1])[1]
                   = Node(ds, n, h, 2 * Position(i)[h + 1])
              /\ Get(rows, Way(rows, rs[n], i)[h + 1])[2]
                   = Node(ds, n, h, 2 * Position(i)[h + 1] + 1)
<1> DEFINE W == Way(rows, rs[n], i)
           V(h) == W[h] = Node(ds, n, h, Position(i)[h])
           T == {m \in 0..Height : V(Height - m)}
<1>1. /\ Len(ds) \in Nat /\ Len(ds) <= MaxDeposits /\ rs[n] = Node(ds, n, Height, 0)
      /\ \A r \in rows : r.key = Hash(r.value[1], r.value[2])
  BY DEF Readable
<1>2. i \in Nat /\ n \in Nat /\ n - 1 \in Nat /\ i <= n - 1 /\ i < Width[0]
  <2>1. Width[0] \in Nat
    BY Zenon, LevelFacts, Widths
  <2> QED
    BY <1>1, <2>1, Bound
<1>3. \A h \in 0..Height : /\ Position(i)[h] \in 0..(Width[h] - 1)
                           /\ Position(i)[h] <= Position(n - 1)[h]
                           /\ Position(i)[h] \in Nat /\ Position(n - 1)[h] \in Nat
  BY Zenon, <1>2, Inside, Monotone, Positions
<1>0. /\ W[Height] = rs[n]
      /\ \A h \in 0..(Height - 1) : Stored(rows, W[h + 1]) =>
           W[h] = Get(rows, W[h + 1])[IF BitSet(i, h) THEN 2 ELSE 1]
  BY Ways
<1> HIDE DEF W
<1>4. ASSUME NEW h \in 0..(Height - 1), W[h + 1] = Node(ds, n, h + 1, Position(i)[h + 1])
      PROVE  /\ Stored(rows, W[h + 1])
             /\ Get(rows, W[h + 1])[1] = Node(ds, n, h, 2 * Position(i)[h + 1])
             /\ Get(rows, W[h + 1])[2] = Node(ds, n, h, 2 * Position(i)[h + 1] + 1)
  <2> DEFINE p == Position(i)[h + 1]
  <2>1. h + 1 \in 1..Height /\ h + 1 \in 0..Height
    BY Zenon, LevelFacts
  <2>2. p \in 0..(Width[h + 1] - 1) /\ p \in Nat /\ Position(n - 1)[h + 1] \in Nat
        /\ p <= Position(n - 1)[h + 1]
    BY Zenon, <1>3, <2>1
  <2>3. p \in 0..Position(n - 1)[h + 1]
    BY <2>2
  <2> HIDE DEF p
  <2>4. \E r \in rows : r.key = Node(ds, n, h + 1, p)
    BY Zenon, <2>1, <2>3 DEF Readable, Covered
  <2>5. Stored(rows, Node(ds, n, h + 1, p))
    BY Zenon, <2>4 DEF Stored
  <2>6. Node(ds, n, h + 1, p) = Hash(Node(ds, n, h, 2 * p), Node(ds, n, h, 2 * p + 1))
    BY Zenon, <2>2, NodeAbove
  <2>7. W[h + 1] = Node(ds, n, h + 1, p)
    BY Zenon, <1>4 DEF p
  <2> DEFINE a == Node(ds, n, h, 2 * p)
             b == Node(ds, n, h, 2 * p + 1)
  <2>8. W[h + 1] = Hash(a, b) /\ Stored(rows, W[h + 1])
    BY Zenon, <2>5, <2>6, <2>7
  <2> HIDE DEF a, b
  <2>9. Get(rows, W[h + 1])[1] = a /\ Get(rows, W[h + 1])[2] = b
    BY <1>1, <2>8, GetNode
  <2> QED
    BY Zenon, <2>8, <2>9 DEF p, a, b
<1>5. 0 \in T
  <2>1. Height - 0 = Height
    BY LevelFacts
  <2>2. Position(i)[Height] \in 0..(1 - 1)
    BY Zenon, <1>3, LevelFacts, Widths
  <2>3. Position(i)[Height] = 0
    BY <2>2
  <2>4. V(Height)
    BY Zenon, <1>0, <1>1, <2>3
  <2> QED
    BY Zenon, <2>1, <2>4, LevelFacts
<1>6. ASSUME NEW m \in 0..(Height - 1), m \in T PROVE m + 1 \in T
  <2>1. PICK h \in 0..(Height - 1) : h = Height - (m + 1) /\ h + 1 = Height - m
    BY LevelFacts
  <2>2. W[h + 1] = Node(ds, n, h + 1, Position(i)[h + 1])
    BY Zenon, <1>6, <2>1
  <2>3. W[h] = Get(rows, W[h + 1])[IF BitSet(i, h) THEN 2 ELSE 1]
    BY Zenon, <1>0, <1>4, <2>2
  <2>4. W[h] = Node(ds, n, h, Position(i)[h])
    <3>1. CASE BitSet(i, h)
      BY Zenon, <1>2, <1>4, <2>2, <2>3, <3>1, Bits
    <3>2. CASE ~BitSet(i, h)
      BY Zenon, <1>2, <1>4, <2>2, <2>3, <3>2, Bits
    <3> QED
      BY Zenon, <3>1, <3>2
  <2>5. m + 1 \in 0..Height
    BY Zenon, LevelFacts
  <2> QED
    BY Zenon, <2>1, <2>4, <2>5
<1>7. \A m \in 0..Height : m \in T
  BY Zenon, <1>5, <1>6, LevelFacts, UpTo
<1>8. ASSUME NEW h \in 0..Height PROVE W[h] = Node(ds, n, h, Position(i)[h])
  <2>1. Height - h \in 0..Height /\ Height - (Height - h) = h
    BY LevelFacts
  <2> QED
    BY Zenon, <1>7, <2>1
<1> QED
  BY Zenon, <1>4, <1>8, LevelFacts DEF W

-----------------------------------------------------------------------------
(***************************************************************************)
(* initSiblings and getProof over good tables.                             *)
(***************************************************************************)
LEMMA NotNil ==
  ASSUME NEW f, DOMAIN f = Level
  PROVE  f # Nil
<1>1. 0 \in Level
  BY HeightAssumption DEF Level
<1>2. DOMAIN Nil = {}
  BY DEF Nil
<1> QED
  BY Zenon, <1>1, <1>2

LEMMA NextPosition ==
  ASSUME NEW k \in Nat, NEW h \in 0..Height
  PROVE  Position(k + 1)[h] = Position(k)[h] \/ Position(k + 1)[h] = Position(k)[h] + 1
BY Zenon, Increment

LEMMA FirstPosition == \A h \in 0..Height : Position(0)[h] = 0
<1> DEFINE T == {h \in 0..Height : Position(0)[h] = 0}
<1>1. 0 \in Nat /\ 0 \div 2 = 0
  OBVIOUS
<1>2. 0 \in T
  BY Zenon, <1>1, LevelFacts, Positions
<1>3. ASSUME NEW m \in 0..(Height - 1), m \in T PROVE m + 1 \in T
  <2>1. m + 1 \in 0..Height /\ Position(0)[m] = 0
    BY Zenon, <1>3, LevelFacts
  <2>2. Position(0)[m + 1] = Position(0)[m] \div 2
    BY Zenon, <1>1, Positions
  <2> QED
    BY Zenon, <1>1, <2>1, <2>2
<1> QED
  BY Zenon, <1>2, <1>3, LevelFacts, UpTo

\* The frontier that initSiblings reads from the tables is the one of the deposits.
LEMMA InitSiblingsGood ==
  ASSUME NEW t, Tables(t.deposits, t.roots, t.rht), NEW n \in 0..Len(t.deposits)
  PROVE  Frontier(t.deposits, n, InitSiblings(t, n)) /\ InitSiblings(t, n) # Nil
<1> DEFINE ds == t.deposits
           sib == InitSiblings(t, n)
<1> SUFFICES Frontier(ds, n, sib)
  BY Zenon, NotNil DEF Frontier
<1>0. Level = 0..(Height - 1) /\ Len(ds) \in Nat
  BY DEF Level, Tables
<1>1. CASE n = 0
  <2>1. sib = [h \in Level |-> ZeroHash[h]]
    BY Zenon, <1>1 DEF InitSiblings
  <2>2. ASSUME NEW h \in Level PROVE ~BitSet(n, h)
    <3>1. Position(0)[h] = 0
      BY Zenon, <1>0, FirstPosition, LevelFacts
    <3> QED
      BY <1>1, <3>1 DEF BitSet
  <2>3. DOMAIN sib = Level
    BY Zenon, <2>1
  <2> HIDE DEF ds, sib
  <2> QED
    BY Zenon, <2>2, <2>3 DEF Frontier
<1>2. CASE n # 0
  <2> DEFINE k == n - 1
             W == Way(t.rht, t.roots[n], k)
  <2>1. n \in 1..Len(ds) /\ k \in 0..(n - 1) /\ k \in Nat /\ k + 1 = n
    BY <1>0, <1>2
  <2>2. \A h \in 0..(Height - 1) :
          /\ Stored(t.rht, W[h + 1])
          /\ Get(t.rht, W[h + 1])[1] = Node(ds, n, h, 2 * Position(k)[h + 1])
    <3>1. Readable(ds, t.roots, t.rht)
      BY Zenon, TablesReadable
    <3> QED
      BY <2>1, <3>1, WayNodes
  <2> HIDE DEF k
  <2>3. WayStored(t.rht, t.roots[n], k)
    <3> SUFFICES ASSUME NEW h \in 1..Height PROVE Stored(t.rht, W[h])
      BY Zenon DEF WayStored
    <3> HIDE DEF W
    <3> QED
      BY Zenon, <2>2, LevelFacts
  <2>4. sib = [h \in Level |-> Get(t.rht, W[h + 1])[1]]
    BY Zenon, <1>2, <2>3 DEF InitSiblings, k
  <2> HIDE DEF sib, W, ds
  <2>5. ASSUME NEW h \in Level, BitSet(n, h)
        PROVE  sib[h] = Node(ds, n, h, Position(n)[h] - 1)
    <3>1. h \in 0..(Height - 1) /\ h \in 0..Height
      BY Zenon, <1>0, LevelFacts
    <3>2. /\ Position(k)[h] \in Nat /\ Position(k)[h + 1] = Position(k)[h] \div 2
          /\ Position(n)[h] = Position(k)[h] \/ Position(n)[h] = Position(k)[h] + 1
      BY Zenon, <2>1, <3>1, NextPosition, Positions
    <3>3. Position(n)[h] % 2 = 1
      BY Zenon, <2>5 DEF BitSet
    <3>4. 2 * Position(k)[h + 1] = Position(n)[h] - 1
      BY <3>2, <3>3
    <3>5. sib[h] = Node(ds, n, h, 2 * Position(k)[h + 1])
      BY Zenon, <2>2, <2>4, <3>1
    <3> QED
      BY Zenon, <3>4, <3>5
  <2>6. DOMAIN sib = Level
    BY Zenon, <2>4
  <2> QED
    BY Zenon, <2>5, <2>6 DEF Frontier
<1> QED
  BY Zenon, <1>1, <1>2

\* A proof made from good tables leads from the leaf to the root.
LEMMA ProofGood ==
  ASSUME NEW ds, NEW rs, NEW rows, Readable(ds, rs, rows),
         NEW n \in 1..Len(ds), NEW i \in 0..(n - 1)
  PROVE  /\ WayStored(rows, rs[n], i)
         /\ CalculateRoot(Leaf(ds[i + 1]), GetProof(rows, rs[n], i), i) = rs[n]
<1> DEFINE W == Way(rows, rs[n], i)
           pf == GetProof(rows, rs[n], i)
           cur == Climb(Leaf(ds[i + 1]), i, pf, pf)
           V(h) == cur[h] = Node(ds, n, h, Position(i)[h])
           T == {h \in 0..Height : V(h)}
<1>0. Level = 0..(Height - 1) /\ Len(ds) \in Nat /\ Len(ds) <= MaxDeposits
  BY DEF Level, Readable
<1>1. n \in Nat /\ i \in Nat /\ n <= Width[0] /\ i < Width[0]
  <2>1. Width[0] \in Nat
    BY Zenon, LevelFacts, Widths
  <2> QED
    BY <1>0, <2>1, Bound
<1>2. /\ W[Height] = Node(ds, n, Height, Position(i)[Height])
      /\ \A h \in 0..(Height - 1) :
           /\ Stored(rows, W[h + 1])
           /\ Get(rows, W[h + 1])[1] = Node(ds, n, h, 2 * Position(i)[h + 1])
           /\ Get(rows, W[h + 1])[2] = Node(ds, n, h, 2 * Position(i)[h + 1] + 1)
  <2>1. \A h \in 0..Height : W[h] = Node(ds, n, h, Position(i)[h])
    BY WayNodes
  <2>2. \A h \in 0..(Height - 1) :
          /\ Stored(rows, W[h + 1])
          /\ Get(rows, W[h + 1])[1] = Node(ds, n, h, 2 * Position(i)[h + 1])
          /\ Get(rows, W[h + 1])[2] = Node(ds, n, h, 2 * Position(i)[h + 1] + 1)
    BY WayNodes
  <2> HIDE DEF W
  <2> QED
    BY Zenon, <2>1, <2>2, LevelFacts
<1>3. WayStored(rows, rs[n], i)
  <2> SUFFICES ASSUME NEW h \in 1..Height PROVE Stored(rows, W[h])
    BY Zenon DEF WayStored
  <2> HIDE DEF W
  <2> QED
    BY Zenon, <1>2, LevelFacts
<1>4. pf = [h \in 0..(Height - 1) |-> Get(rows, W[h + 1])[IF BitSet(i, h) THEN 1 ELSE 2]]
  BY Zenon, <1>0 DEF GetProof
<1>5. /\ cur[0] = Leaf(ds[i + 1])
      /\ \A h \in 0..(Height - 1) :
           cur[h + 1] = IF BitSet(i, h) THEN Hash(pf[h], cur[h]) ELSE Hash(cur[h], pf[h])
  BY Climbs
<1>6. W[Height] = rs[n]
  BY Ways
<1>7. CalculateRoot(Leaf(ds[i + 1]), pf, i) = cur[Height]
  BY Zenon DEF CalculateRoot
<1> HIDE DEF W, pf, cur
<1>8. 0 \in T
  <2>1. Position(i)[0] = i
    BY Zenon, <1>1, Positions
  <2>2. Node(ds, n, 0, i) = Leaf(ds[i + 1])
    BY Zenon, <1>1, NodeLeaf
  <2> QED
    BY Zenon, <1>5, <2>1, <2>2, LevelFacts
<1>9. ASSUME NEW m \in 0..(Height - 1), m \in T PROVE m + 1 \in T
  <2> DEFINE p == Position(i)[m + 1]
  <2>1. m + 1 \in 0..Height
    BY Zenon, LevelFacts
  <2>2. p \in 0..(Width[m + 1] - 1)
    BY Zenon, <1>1, <2>1, Inside
  <2>3. Node(ds, n, m + 1, p) = Hash(Node(ds, n, m, 2 * p), Node(ds, n, m, 2 * p + 1))
    BY Zenon, <2>2, NodeAbove
  <2>4. cur[m] = Node(ds, n, m, Position(i)[m])
    BY Zenon, <1>9
  <2>5. CASE BitSet(i, m)
    <3>1. Position(i)[m] = 2 * p + 1
      BY Zenon, <1>1, <2>5, Bits
    <3>2. pf[m] = Node(ds, n, m, 2 * p)
      BY Zenon, <1>2, <1>4, <2>5
    <3>3. cur[m + 1] = Hash(pf[m], cur[m])
      BY Zenon, <1>5, <2>5
    <3>4. V(m + 1)
      BY Zenon, <2>3, <2>4, <3>1, <3>2, <3>3
    <3> QED
      BY Zenon, <2>1, <3>4
  <2>6. CASE ~BitSet(i, m)
    <3>1. Position(i)[m] = 2 * p
      BY Zenon, <1>1, <2>6, Bits
    <3>2. pf[m] = Node(ds, n, m, 2 * p + 1)
      BY Zenon, <1>2, <1>4, <2>6
    <3>3. cur[m + 1] = Hash(cur[m], pf[m])
      BY Zenon, <1>5, <2>6
    <3>4. V(m + 1)
      BY Zenon, <2>3, <2>4, <3>1, <3>2, <3>3
    <3> QED
      BY Zenon, <2>1, <3>4
  <2> QED
    BY Zenon, <2>5, <2>6
<1>10. V(Height)
  BY Zenon, <1>8, <1>9, LevelFacts, UpTo
<1> QED
  BY Zenon, <1>2, <1>3, <1>6, <1>7, <1>10 DEF pf

-----------------------------------------------------------------------------
(***************************************************************************)
(* addLeaf on a tree whose frontier is that of its deposits.               *)
(***************************************************************************)
Ready(t) == /\ Tables(t.deposits, t.roots, t.rht)
            /\ Frontier(t.deposits, Len(t.deposits), t.siblings)

\* The deposits with one more.
LEMMA OneMore ==
  ASSUME NEW ds \in Seq(Content), NEW c \in Content, Len(ds) < MaxDeposits
  PROVE  /\ Len(ds) \in Nat /\ Len(ds) < Width[0] /\ Len(ds) + 1 <= Width[0]
         /\ Append(ds, c) \in Seq(Content) /\ Len(Append(ds, c)) = Len(ds) + 1
         /\ Len(ds) + 1 \in Nat /\ Len(ds) + 1 <= MaxDeposits
         /\ Append(ds, c)[Len(ds) + 1] = c
         /\ \A i \in 1..Len(ds) : ds[i] = Append(ds, c)[i]
<1>1. Width[0] \in Nat
  BY Zenon, LevelFacts, Widths
<1> QED
  BY <1>1, Bound

\* The hashes that addLeaf computes are the nodes on the way to the new leaf.
LEMMA PathGood ==
  ASSUME NEW ds, NEW es, NEW k \in Nat, k < Width[0], k + 1 <= Width[0],
         Agree(ds, es, k), NEW sib, Frontier(ds, k, sib)
  PROVE  \A h \in 0..Height :
           Climb(Leaf(es[k + 1]), k, sib, ZeroHash)[h] = Node(es, k + 1, h, Position(k)[h])
<1> DEFINE cur == Climb(Leaf(es[k + 1]), k, sib, ZeroHash)
           V(h) == cur[h] = Node(es, k + 1, h, Position(k)[h])
           T == {h \in 0..Height : V(h)}
<1>1. k + 1 \in Nat /\ k \in 0..(k + 1 - 1) /\ Level = 0..(Height - 1)
  BY DEF Level
<1>2. /\ cur[0] = Leaf(es[k + 1])
      /\ \A h \in 0..(Height - 1) :
           cur[h + 1] = IF BitSet(k, h) THEN Hash(sib[h], cur[h])
                                        ELSE Hash(cur[h], ZeroHash[h])
  BY Climbs
<1> HIDE DEF cur
<1>3. 0 \in T
  <2>1. Position(k)[0] = k
    BY Zenon, Positions
  <2>2. Node(es, k + 1, 0, k) = Leaf(es[k + 1])
    BY <1>1, NodeLeaf
  <2> QED
    BY Zenon, <1>2, <2>1, <2>2, LevelFacts
<1>4. ASSUME NEW m \in 0..(Height - 1), m \in T PROVE m + 1 \in T
  <2> DEFINE p == Position(k)[m + 1]
             N(j) == Node(es, k + 1, m, j)
  <2>1. m + 1 \in 0..Height /\ m \in 0..Height
    BY Zenon, LevelFacts
  <2>2. p \in 0..(Width[m + 1] - 1) /\ Width[m] = 2 * Width[m + 1] /\ Width[m + 1] \in Nat
    BY Zenon, <2>1, Inside, Widths
  <2>3. 2 * p \in Nat /\ 2 * p + 1 \in 0..(Width[m] - 1) /\ 2 * p < 2 * p + 1
        /\ 2 * p + 1 - 1 = 2 * p
    BY <2>2
  <2>4. Node(es, k + 1, m + 1, p) = Hash(N(2 * p), N(2 * p + 1))
    BY Zenon, <2>2, NodeAbove
  <2>5. cur[m] = N(Position(k)[m])
    BY Zenon, <1>4
  <2> HIDE DEF N
  <2>6. CASE BitSet(k, m)
    <3>1. Position(k)[m] = 2 * p + 1
      BY Zenon, <2>6, Bits
    <3>2. sib[m] = Node(ds, k, m, 2 * p)
      <4>1. sib[m] = Node(ds, k, m, Position(k)[m] - 1)
        BY Zenon, <1>1, <2>6 DEF Frontier
      <4>2. Position(k)[m] - 1 = 2 * p
        BY <2>3, <3>1
      <4> QED
        BY Zenon, <4>1, <4>2
    <3>3. N(2 * p) = Node(ds, k, m, 2 * p)
      <4>1. 2 * p < Position(k)[m]
        BY Zenon, <2>3, <3>1
      <4> HIDE DEF p
      <4> QED
        BY <2>1, <2>3, <4>1, NodeKept DEF N
    <3>4. cur[m + 1] = Hash(sib[m], cur[m])
      BY Zenon, <1>2, <2>6
    <3>5. V(m + 1)
      BY Zenon, <2>4, <2>5, <3>1, <3>2, <3>3, <3>4
    <3> QED
      BY Zenon, <2>1, <3>5
  <2>7. CASE ~BitSet(k, m)
    <3>1. Position(k)[m] = 2 * p
      BY Zenon, <2>7, Bits
    <3>2. N(2 * p + 1) = ZeroHash[m]
      BY Zenon, <2>1, <2>3, <3>1, NodeEmpty DEF N
    <3>3. cur[m + 1] = Hash(cur[m], ZeroHash[m])
      BY Zenon, <1>2, <2>7
    <3>4. V(m + 1)
      BY Zenon, <2>4, <2>5, <3>1, <3>2, <3>3
    <3> QED
      BY Zenon, <2>1, <3>4
  <2> QED
    BY Zenon, <2>6, <2>7
<1> HIDE DEF T
<1>5. \A h \in 0..Height : h \in T
  BY Zenon, <1>3, <1>4, LevelFacts, UpTo
<1> QED
  BY Zenon, <1>5 DEF T, cur

\* The nodes that addLeaf stores are these.
PathRows(k, sib, cur) ==
  BulkSet([h \in Level |-> IF BitSet(k, h) THEN <<sib[h], cur[h]>> ELSE <<cur[h], ZeroHash[h]>>],
          k + 1)

LEMMA RowsAdded ==
  ASSUME NEW k \in Nat, NEW sib, NEW cur,
         \A h \in 0..(Height - 1) :
           cur[h + 1] = IF BitSet(k, h) THEN Hash(sib[h], cur[h])
                                        ELSE Hash(cur[h], ZeroHash[h])
  PROVE  /\ \A r \in PathRows(k, sib, cur) :
              r.id = k + 1 /\ r.key = Hash(r.value[1], r.value[2])
         /\ \A h \in 0..(Height - 1) :
              \E r \in PathRows(k, sib, cur) : r.key = cur[h + 1] /\ r.id = k + 1
<1> DEFINE new == PathRows(k, sib, cur)
           nodes == [h \in Level |-> IF BitSet(k, h) THEN <<sib[h], cur[h]>>
                                                    ELSE <<cur[h], ZeroHash[h]>>]
           Row(n) == [key |-> Hash(n[1], n[2]), value |-> n, id |-> k + 1]
<1>1. \A n : /\ Row(n).key = Hash(n[1], n[2]) /\ Row(n).value = n /\ Row(n).id = k + 1
  BY Zenon
<1>2. ASSUME NEW h \in 0..(Height - 1)
      PROVE  h \in Level /\ Hash(nodes[h][1], nodes[h][2]) = cur[h + 1]
  <2>1. h \in Level
    BY Zenon, LevelFacts
  <2>2. nodes[h] = IF BitSet(k, h) THEN <<sib[h], cur[h]>> ELSE <<cur[h], ZeroHash[h]>>
    BY Zenon, <2>1
  <2> HIDE DEF nodes
  <2>4. CASE BitSet(k, h)
    <3>1. cur[h + 1] = Hash(sib[h], cur[h])
      BY Zenon, <2>4
    <3>2. nodes[h][1] = sib[h] /\ nodes[h][2] = cur[h]
      BY <2>2, <2>4
    <3> QED
      BY Zenon, <2>1, <3>1, <3>2
  <2>5. CASE ~BitSet(k, h)
    <3>1. cur[h + 1] = Hash(cur[h], ZeroHash[h])
      BY Zenon, <2>5
    <3>2. nodes[h][1] = cur[h] /\ nodes[h][2] = ZeroHash[h]
      BY <2>2, <2>5
    <3> QED
      BY Zenon, <2>1, <3>1, <3>2
  <2> QED
    BY Zenon, <2>4, <2>5
<1>3. new = {Row(n) : n \in {nodes[h] : h \in Level}}
  BY Zenon DEF BulkSet, PathRows
<1> HIDE DEF Row, nodes, new
<1>4. ASSUME NEW r \in new PROVE r.id = k + 1 /\ r.key = Hash(r.value[1], r.value[2])
  <2>1. PICK n : r = Row(n)
    BY Zenon, <1>3
  <2> QED
    BY Zenon, <1>1, <2>1
<1>5. ASSUME NEW h \in 0..(Height - 1)
      PROVE  \E r \in new : r.key = cur[h + 1] /\ r.id = k + 1
  <2>1. Row(nodes[h]) \in new
    BY Zenon, <1>2, <1>3
  <2>2. Row(nodes[h]).key = cur[h + 1] /\ Row(nodes[h]).id = k + 1
    BY Zenon, <1>1, <1>2
  <2> QED
    BY Zenon, <2>1, <2>2
<1> QED
  BY Zenon, <1>4, <1>5 DEF new

LEMMA AddLeafFields ==
  ASSUME NEW t, NEW c
  PROVE  /\ AddLeaf(t, c).deposits = Append(t.deposits, c)
         /\ AddLeaf(t, c).count = t.count + 1
         /\ AddLeaf(t, c).siblings = NewSiblings(t, Leaf(c), Len(t.deposits))
         /\ AddLeaf(t, c).roots
              = Append(t.roots, PathUp(t, Leaf(c), Len(t.deposits))[Height])
         /\ AddLeaf(t, c).rht = t.rht \cup
              BulkSet([h \in Level |->
                         IF BitSet(Len(t.deposits), h)
                         THEN <<t.siblings[h], PathUp(t, Leaf(c), Len(t.deposits))[h]>>
                         ELSE <<PathUp(t, Leaf(c), Len(t.deposits))[h], ZeroHash[h]>>],
                      Len(t.deposits) + 1)
BY Zenon DEF AddLeaf

\* A leaf added to a good tree gives a good tree.
LEMMA AddLeafGood ==
  ASSUME NEW t, NEW c \in Content, Ready(t), Len(t.deposits) < MaxDeposits
  PROVE  Ready(AddLeaf(t, c)) /\ Len(AddLeaf(t, c).deposits) = Len(t.deposits) + 1
<1> DEFINE ds == t.deposits
           k == Len(ds)
           es == Append(ds, c)
           sib == t.siblings
           cur == PathUp(t, Leaf(c), k)
           new == PathRows(k, sib, cur)
           u == AddLeaf(t, c)
<1>1. u.deposits = es /\ u.siblings = NewSiblings(t, Leaf(c), k)
      /\ u.roots = Append(t.roots, cur[Height]) /\ u.rht = t.rht \cup new
  BY Zenon, AddLeafFields DEF PathRows
<1>2. /\ ds \in Seq(Content) /\ t.roots = [n \in 1..k |-> Node(ds, n, Height, 0)]
      /\ Rows(ds, t.rht) /\ Covered(ds, t.rht) /\ Frontier(ds, k, sib)
  BY Zenon DEF Ready, Tables
<1>3. /\ k \in Nat /\ k < Width[0] /\ k + 1 <= Width[0]
      /\ es \in Seq(Content) /\ Len(es) = k + 1 /\ k + 1 \in Nat /\ k + 1 <= MaxDeposits
      /\ es[k + 1] = c /\ \A i \in 1..k : ds[i] = es[i]
  BY Zenon, <1>2, OneMore
<1>4. cur = Climb(Leaf(es[k + 1]), k, sib, ZeroHash)
  BY Zenon, <1>3 DEF PathUp
<1> HIDE DEF es, k, sib, cur, new, u, ds
<1>5. \A h \in 0..Height : cur[h] = Node(es, k + 1, h, Position(k)[h])
  <2>1. k \in Nat /\ k < Width[0] /\ k + 1 <= Width[0] /\ Agree(ds, es, k)
    BY Zenon, <1>3 DEF Agree
  <2>2. Frontier(ds, k, sib)
    BY Zenon, <1>2
  <2>3. \A h \in 0..Height : Climb(Leaf(es[k + 1]), k, sib, ZeroHash)[h]
                             = Node(es, k + 1, h, Position(k)[h])
    BY Zenon, <2>1, <2>2, PathGood
  <2> QED
    BY Zenon, <1>4, <2>3
<1>6. \A h \in 0..(Height - 1) :
        cur[h + 1] = IF BitSet(k, h) THEN Hash(sib[h], cur[h]) ELSE Hash(cur[h], ZeroHash[h])
  BY <1>4, Climbs
<1>7. /\ \A r \in new : r.id = k + 1 /\ r.key = Hash(r.value[1], r.value[2])
      /\ \A h \in 0..(Height - 1) : \E r \in new : r.key = cur[h + 1] /\ r.id = k + 1
  BY Zenon, <1>3, <1>6, RowsAdded DEF new
<1>8. ASSUME NEW n \in 1..k, NEW h, NEW j PROVE Node(es, n, h, j) = Node(ds, n, h, j)
  <2>1. \A i \in 1..n : ds[i] = es[i]
    BY <1>3
  <2>2. LeavesOf(es, n) = LeavesOf(ds, n)
    BY Zenon, <2>1 DEF LeavesOf
  <2> QED
    BY Zenon, <2>2 DEF Node
<1>9. u.roots = [n \in 1..(k + 1) |-> Node(es, n, Height, 0)]
  <2>1. Position(k)[Height] \in 0..(1 - 1)
    BY Zenon, <1>3, Inside, LevelFacts, Widths
  <2>2. Position(k)[Height] = 0
    BY <2>1
  <2>3. cur[Height] = Node(es, k + 1, Height, 0)
    BY Zenon, <1>5, <2>2, LevelFacts
  <2>4. t.roots = [n \in 1..k |-> Node(es, n, Height, 0)]
    <3>1. \A n \in 1..k : Node(es, n, Height, 0) = Node(ds, n, Height, 0)
      BY Zenon, <1>8
    <3> QED
      BY Zenon, <1>2, <3>1
  <2>5. k \in Nat
    BY Zenon, <1>3
  <2> DEFINE x == [n \in 1..(k + 1) |-> Node(es, n, Height, 0)]
  <2>6. k + 1 \in 1..(k + 1) /\ \A n \in 1..k : n \in 1..(k + 1)
    BY <1>3
  <2>7. x[k + 1] = cur[Height] /\ t.roots = [n \in 1..k |-> x[n]]
        /\ x = [n \in 1..(k + 1) |-> x[n]]
    BY Zenon, <2>3, <2>4, <2>6
  <2> HIDE DEF x
  <2>8. Append(t.roots, x[k + 1]) = [n \in 1..(k + 1) |-> x[n]]
    <3> DEFINE f == t.roots
    <3>1. f = [n \in 1..k |-> x[n]]
      BY Zenon, <2>7
    <3> HIDE DEF f
    <3>2. Append(f, x[k + 1]) = [n \in 1..(k + 1) |-> x[n]]
      BY <2>5, <3>1
    <3> QED
      BY Zenon, <3>2 DEF f
  <2>9. u.roots = x
    BY Zenon, <1>1, <2>7, <2>8
  <2> QED
    BY Zenon, <2>9 DEF x
<1>10. Rows(es, t.rht \cup new)
  <2>1. k + 1 \in 1..(k + 1) /\ \A x \in 1..k : x \in 1..(k + 1)
    BY <1>3
  <2> QED
    BY Zenon, <1>2, <1>3, <1>7, <2>1 DEF Rows, k
<1>11. ASSUME NEW n \in 1..(k + 1), NEW h \in 1..Height, NEW j \in 0..Position(n - 1)[h]
       PROVE  \E r \in t.rht \cup new : r.key = Node(es, n, h, j) /\ r.id <= n
  <2>0. h - 1 \in 0..(Height - 1) /\ h \in 0..Height /\ h - 1 + 1 = h
    BY Zenon, LevelFacts
  <2>1. CASE n \in 1..k
    <3>1. \E r \in t.rht : r.key = Node(ds, n, h, j) /\ r.id <= n
      BY Zenon, <1>2, <2>1 DEF Covered, k
    <3> QED
      BY Zenon, <1>8, <2>1, <3>1
  <2>2. CASE n = k + 1
    <3>1. n - 1 = k /\ n <= n
      BY <1>3, <2>2
    <3>2. CASE j = Position(k)[h]
      <4>1. \E r \in new : r.key = cur[h] /\ r.id = n
        BY Zenon, <1>7, <2>0, <2>2
      <4>2. cur[h] = Node(es, n, h, j)
        BY Zenon, <1>5, <2>0, <2>2, <3>2
      <4> QED
        BY Zenon, <3>1, <4>1, <4>2
    <3>3. CASE j # Position(k)[h]
      <4>1. Position(k)[h] \in Nat
        BY Zenon, <1>3, <2>0, Positions
      <4>2. j \in Nat /\ j < Position(k)[h]
        BY <3>1, <3>3, <4>1
      <4>3. k \in 1..k /\ k - 1 \in Nat /\ k - 1 + 1 = k
        <5>1. k # 0
          BY <2>0, <4>2, FirstPosition
        <5> QED
          BY <1>3, <5>1
      <4>4. Position(k)[h] = Position(k - 1)[h] \/ Position(k)[h] = Position(k - 1)[h] + 1
        BY Zenon, <2>0, <4>3, NextPosition
      <4>5. Position(k - 1)[h] \in Nat
        BY Zenon, <2>0, <4>3, Positions
      <4>6. j \in 0..Position(k - 1)[h]
        BY <4>2, <4>4, <4>5
      <4>7. PICK r \in t.rht : r.key = Node(ds, k, h, j) /\ r.id <= k
        BY Zenon, <1>2, <4>3, <4>6 DEF Covered, k
      <4>8. Node(es, k + 1, h, j) = Node(ds, k, h, j)
        <5>1. k \in Nat /\ k < Width[0] /\ Agree(ds, es, k)
          BY Zenon, <1>3 DEF Agree
        <5>2. h \in 0..Height
          BY Zenon, <2>0
        <5> QED
          BY <4>2, <5>1, <5>2, NodeKept
      <4>9. r.id \in 1..k
        BY Zenon, <1>2 DEF Rows, k
      <4>10. r.id <= n
        BY <1>3, <2>2, <4>7, <4>9
      <4> QED
        BY Zenon, <2>2, <4>7, <4>8, <4>10
    <3> QED
      BY Zenon, <3>2, <3>3
  <2> QED
    BY <1>3, <2>1, <2>2
<1>12. Frontier(es, k + 1, u.siblings)
  <2> DEFINE next == u.siblings
             low(h) == \A g \in 0..(h - 1) : BitSet(k, g)
  <2>1. next = [h \in Level |-> IF ~BitSet(k, h) /\ low(h) THEN cur[h] ELSE sib[h]]
    BY Zenon, <1>1 DEF NewSiblings, cur, sib
  <2>2. DOMAIN next = Level
    BY Zenon, <2>1
  <2>3. ASSUME NEW h \in Level, BitSet(k + 1, h)
        PROVE  next[h] = Node(es, k + 1, h, Position(k + 1)[h] - 1)
    <3> DEFINE P == Position(k)[h]
               Q == Position(k + 1)[h]
    <3>0. h \in 0..Height
      BY LevelFacts DEF Level
    <3>1. /\ P \in Nat /\ Q % 2 = 1 /\ (BitSet(k, h) <=> P % 2 = 1)
          /\ (low(h) => Q = P + 1) /\ (~low(h) => Q = P)
      BY Zenon, <1>3, <2>3, <3>0, Positions, Increment DEF BitSet
    <3> HIDE DEF P, Q, next
    <3>2. CASE low(h)
      <4> HIDE DEF low
      <4>1. ~BitSet(k, h) /\ Q - 1 = P
        BY <3>1, <3>2
      <4>2. next[h] = cur[h]
        BY Zenon, <2>1, <3>2, <4>1
      <4> QED
        BY Zenon, <1>5, <3>0, <4>1, <4>2 DEF P, Q
    <3>3. CASE ~low(h)
      <4> HIDE DEF low
      <4>1. BitSet(k, h) /\ Q = P /\ P - 1 \in Nat /\ P - 1 < P
        BY <3>1, <3>3
      <4>2. next[h] = sib[h]
        BY Zenon, <2>1, <4>1
      <4>3. sib[h] = Node(ds, k, h, P - 1)
        BY Zenon, <1>2, <4>1 DEF Frontier, P
      <4>4. Node(es, k + 1, h, P - 1) = Node(ds, k, h, P - 1)
        <5>1. k \in Nat /\ k < Width[0] /\ Agree(ds, es, k)
          BY Zenon, <1>3 DEF Agree
        <5>2. P - 1 < Position(k)[h]
          BY Zenon, <4>1 DEF P
        <5> QED
          BY <3>0, <4>1, <5>1, <5>2, NodeKept
      <4> QED
        BY Zenon, <4>1, <4>2, <4>3, <4>4 DEF Q
    <3> QED
      BY Zenon, <3>2, <3>3
  <2> QED
    BY Zenon, <2>2, <2>3 DEF Frontier
<1>13. Covered(es, t.rht \cup new)
  BY Zenon, <1>3, <1>11 DEF Covered
<1>14. Tables(es, u.roots, u.rht)
  BY Zenon, <1>1, <1>3, <1>9, <1>10, <1>13 DEF Tables
<1> QED
  BY Zenon, <1>1, <1>3, <1>12, <1>14 DEF Ready, u, k, ds

\* A block added to a good tree gives a good tree.
LEMMA AddAllGood ==
  ASSUME NEW t, NEW block \in Seq(Content), Ready(t),
         Len(t.deposits) + Len(block) <= MaxDeposits, t.count \in Nat
  PROVE  /\ Ready(AddAll(t, block))
         /\ Len(AddAll(t, block).deposits) = Len(t.deposits) + Len(block)
         /\ AddAll(t, block).count = t.count + Len(block)
<1> DEFINE L == Len(block)
           k == Len(t.deposits)
           q == t.count
<1>0. L \in Nat /\ k \in Nat /\ MaxDeposits \in Nat /\ k + L <= MaxDeposits
      /\ 0 \in 0..L /\ L \in 0..L /\ \A m \in 1..L : block[m] \in Content
  BY Bound DEF Ready, Tables
<1>1. PICK tree : /\ tree[0] = t /\ AddAll(t, block) = tree[L]
                  /\ \A n \in 0..(L - 1) : tree[n + 1] = AddLeaf(tree[n], block[n + 1])
  <2>1. Len(block) \in Nat
    BY Zenon, <1>0
  <2> QED
    BY <2>1, Additions
<1> DEFINE V(n) == /\ Ready(tree[n]) /\ Len(tree[n].deposits) = k + n
                   /\ tree[n].count = q + n
           T == {n \in 0..L : V(n)}
<1>2. 0 \in T
  <2>1. k + 0 = k /\ q + 0 = q
    BY <1>0
  <2> HIDE DEF L
  <2> QED
    BY Zenon, <1>0, <1>1, <2>1
<1>3. q \in Nat
  BY Zenon
<1> HIDE DEF L, k, q
<1>4. ASSUME NEW m \in 0..(L - 1), m \in T PROVE m + 1 \in T
  <2>1. V(m)
    BY Zenon, <1>4
  <2>2. m + 1 \in 0..L /\ m + 1 \in 1..L /\ k + m < MaxDeposits
        /\ k + m + 1 = k + (m + 1) /\ q + m + 1 = q + (m + 1)
    BY <1>0, <1>3
  <2>3. block[m + 1] \in Content /\ tree[m + 1] = AddLeaf(tree[m], block[m + 1])
    BY Zenon, <1>0, <1>1, <2>2
  <2>4. Len(tree[m].deposits) < MaxDeposits
    BY Zenon, <2>1, <2>2
  <2>5. Ready(tree[m + 1]) /\ Len(tree[m + 1].deposits) = Len(tree[m].deposits) + 1
    BY Zenon, <2>1, <2>3, <2>4, AddLeafGood
  <2>6. tree[m + 1].count = tree[m].count + 1
    <3>1. AddLeaf(tree[m], block[m + 1]).count = tree[m].count + 1
      BY Zenon, AddLeafFields
    <3> QED
      BY Zenon, <2>3, <3>1
  <2>7. V(m + 1)
    BY Zenon, <2>1, <2>2, <2>5, <2>6
  <2> QED
    BY Zenon, <2>2, <2>7
<1>5. V(L)
  BY Zenon, <1>0, <1>2, <1>4, UpTo
<1> QED
  BY Zenon, <1>1, <1>5 DEF L, k, q

-----------------------------------------------------------------------------
(***************************************************************************)
(* A reorganisation.                                                       *)
(***************************************************************************)
\* What is left of good tables after the deposits beyond n are deleted is good.
LEMMA TruncateGood ==
  ASSUME NEW ds, NEW rs, NEW rows, Tables(ds, rs, rows), NEW n \in 0..Len(ds)
  PROVE  /\ Tables(SubSeq(ds, 1, n), SubSeq(rs, 1, n), {r \in rows : r.id <= n})
         /\ Len(SubSeq(ds, 1, n)) = n
<1> DEFINE es == SubSeq(ds, 1, n)
           kept == {r \in rows : r.id <= n}
<1>1. /\ ds \in Seq(Content) /\ Len(ds) \in Nat /\ Len(ds) <= MaxDeposits
      /\ rs = [m \in 1..Len(ds) |-> Node(ds, m, Height, 0)]
      /\ Rows(ds, rows) /\ Covered(ds, rows)
  BY DEF Tables
<1>2. /\ n \in Nat /\ es \in Seq(Content) /\ Len(es) = n /\ n <= MaxDeposits
      /\ \A i \in 1..n : ds[i] = es[i]
  BY <1>1, Bound
<1>3. \A m \in 1..n : m \in 1..Len(ds) /\ \A i \in 1..m : i \in 1..n
  BY <1>1
<1> HIDE DEF es
<1>4. ASSUME NEW m \in 1..n, NEW h, NEW j PROVE Node(es, m, h, j) = Node(ds, m, h, j)
  <2>1. \A i \in 1..m : ds[i] = es[i]
    BY Zenon, <1>2, <1>3
  <2>2. LeavesOf(es, m) = LeavesOf(ds, m)
    BY Zenon, <2>1 DEF LeavesOf
  <2> QED
    BY Zenon, <2>2 DEF Node
<1>5. SubSeq(rs, 1, n) = [m \in 1..n |-> Node(es, m, Height, 0)]
  <2> DEFINE x == [m \in 1..Len(ds) |-> Node(ds, m, Height, 0)]
  <2>1. \A m \in 1..n : x[m] = Node(es, m, Height, 0)
    BY Zenon, <1>3, <1>4
  <2>2. rs = x /\ x = [m \in 1..Len(ds) |-> x[m]]
    BY Zenon, <1>1
  <2> HIDE DEF x
  <2>3. SubSeq(x, 1, n) = [m \in 1..n |-> x[m]]
    BY <1>1, <2>2
  <2> QED
    BY Zenon, <2>1, <2>2, <2>3
<1>6. Rows(es, kept)
  <2> SUFFICES ASSUME NEW r \in kept
               PROVE  r.id \in 1..Len(es) /\ r.key = Hash(r.value[1], r.value[2])
    BY Zenon DEF Rows
  <2>1. r \in rows /\ r.id <= n
    BY Zenon
  <2>2. r.id \in 1..Len(ds) /\ r.key = Hash(r.value[1], r.value[2])
    BY Zenon, <1>1, <2>1 DEF Rows
  <2>3. r.id \in 1..n
    BY <1>1, <2>1, <2>2
  <2> QED
    BY Zenon, <1>2, <2>2, <2>3
<1>7. Covered(es, kept)
  <2> SUFFICES ASSUME NEW m \in 1..n, NEW h \in 1..Height, NEW j \in 0..Position(m - 1)[h]
               PROVE  \E r \in kept : r.key = Node(es, m, h, j) /\ r.id <= m
    BY Zenon, <1>2 DEF Covered
  <2>1. PICK r \in rows : r.key = Node(ds, m, h, j) /\ r.id <= m
    BY Zenon, <1>1, <1>3 DEF Covered
  <2>2. r.id \in 1..Len(ds)
    BY Zenon, <1>1 DEF Rows
  <2>3. r.id <= n
    BY <1>2, <2>1, <2>2
  <2>4. r \in kept /\ Node(es, m, h, j) = Node(ds, m, h, j)
    BY Zenon, <1>4, <2>3
  <2> QED
    BY Zenon, <2>1, <2>4
<1>8. Tables(es, SubSeq(rs, 1, n), kept)
  BY Zenon, <1>2, <1>5, <1>6, <1>7 DEF Tables
<1> QED
  BY Zenon, <1>2, <1>8 DEF es

-----------------------------------------------------------------------------
(***************************************************************************)
(* The steps of the tree.                                                  *)
(***************************************************************************)
LEMMA TreeFields ==
  /\ Tree.deposits = deposits /\ Tree.roots = roots /\ Tree.rht = rht
  /\ Tree.count = count /\ Tree.siblings = siblings
BY Zenon DEF Tree

\* The fields after resetState, and after a start with n leaves.
LEMMA ResetFields ==
  ASSUME NEW n
  PROVE  /\ Truncate(Tree, n).deposits = SubSeq(deposits, 1, n)
         /\ Truncate(Tree, n).roots = SubSeq(roots, 1, n)
         /\ Truncate(Tree, n).rht = {r \in rht : r.id <= n}
         /\ ResetLeaf(Truncate(Tree, n), n).deposits = SubSeq(deposits, 1, n)
         /\ ResetLeaf(Truncate(Tree, n), n).roots = SubSeq(roots, 1, n)
         /\ ResetLeaf(Truncate(Tree, n), n).rht = {r \in rht : r.id <= n}
         /\ ResetLeaf(Truncate(Tree, n), n).count = n
         /\ ResetLeaf(Truncate(Tree, n), n).siblings = InitSiblings(Truncate(Tree, n), n)
         /\ ResetLeaf(Tree, n).count = n
         /\ ResetLeaf(Tree, n).siblings = InitSiblings(Tree, n)
         /\ ResetLeaf(Tree, n).deposits = deposits
         /\ ResetLeaf(Tree, n).roots = roots
         /\ ResetLeaf(Tree, n).rht = rht
<1>1. /\ Truncate(Tree, n).deposits = SubSeq(deposits, 1, n)
      /\ Truncate(Tree, n).roots = SubSeq(roots, 1, n)
      /\ Truncate(Tree, n).rht = {r \in rht : r.id <= n}
  BY Zenon DEF Truncate, Tree
<1>2. /\ ResetLeaf(Truncate(Tree, n), n).deposits = SubSeq(deposits, 1, n)
      /\ ResetLeaf(Truncate(Tree, n), n).roots = SubSeq(roots, 1, n)
      /\ ResetLeaf(Truncate(Tree, n), n).rht = {r \in rht : r.id <= n}
  BY Zenon DEF ResetLeaf, Truncate, Tree
<1>3. /\ ResetLeaf(Truncate(Tree, n), n).count = n
      /\ ResetLeaf(Truncate(Tree, n), n).siblings = InitSiblings(Truncate(Tree, n), n)
  BY Zenon DEF ResetLeaf, Truncate, Tree
<1>4. /\ ResetLeaf(Tree, n).count = n
      /\ ResetLeaf(Tree, n).siblings = InitSiblings(Tree, n)
      /\ ResetLeaf(Tree, n).deposits = deposits
      /\ ResetLeaf(Tree, n).roots = roots
      /\ ResetLeaf(Tree, n).rht = rht
  BY Zenon DEF ResetLeaf, Tree
<1> QED
  BY Zenon, <1>1, <1>2, <1>3, <1>4

\* The deposits of a block.
LEMMA BlockFacts ==
  ASSUME NEW b \in Blocks
  PROVE  /\ b \in Seq(Content) /\ Len(b) \in Nat /\ Len(b) >= 1
         /\ Len(deposits) + Len(b) <= MaxDeposits
         /\ SubSeq(b, 1, Len(b) - 1) \in Seq(Content) /\ Len(SubSeq(b, 1, Len(b) - 1)) = Len(b) - 1
<1>1. /\ b \in UNION {[1..m -> Content] : m \in 1..MaxInBlock}
      /\ Len(deposits) + Len(b) <= MaxDeposits
  BY Zenon DEF Blocks
<1>2. PICK m \in 1..MaxInBlock : b \in [1..m -> Content]
  BY Zenon, <1>1
<1>3. m \in Nat /\ m >= 1
  BY BoundAssumption
<1>4. b \in Seq(Content) /\ Len(b) \in Nat /\ Len(b) >= 1
  BY <1>2, <1>3
<1>5. SubSeq(b, 1, Len(b) - 1) \in Seq(Content) /\ Len(SubSeq(b, 1, Len(b) - 1)) = Len(b) - 1
  <2> DEFINE k == Len(b) - 1
  <2>1. k \in Nat
    BY <1>1, <1>4
  <2>2. \A i \in 1..k : b[i] \in Content
    BY <1>4
  <2>3. SubSeq(b, 1, k) = [i \in 1..k |-> b[i]]
    BY <1>4
  <2> HIDE DEF k
  <2>4. [i \in 1..k |-> b[i]] \in Seq(Content) /\ Len([i \in 1..k |-> b[i]]) = k
    BY <2>1, <2>2
  <2> QED
    BY Zenon, <2>3, <2>4 DEF k
<1> QED
  BY Zenon, <1>1, <1>4, <1>5

\* Between blocks a tree that accepts a deposit is a good tree.
LEMMA AcceptingReady ==
  ASSUME TreeInv, siblings # Nil, IndexMatches(Tree)
  PROVE  Ready(Tree) /\ Tree.count \in Nat /\ count = Len(deposits) /\ Len(deposits) \in Nat
<1>1. count = Len(deposits) /\ Len(deposits) \in Nat
  <2>1. count = Len(deposits) /\ deposits \in Seq(Content)
    BY Zenon, TreeFields DEF IndexMatches, TreeInv, Tables
  <2> QED
    BY <2>1
<1>2. Tables(deposits, roots, rht) /\ Frontier(deposits, count, siblings)
  BY Zenon, <1>1 DEF TreeInv
<1> QED
  BY Zenon, <1>1, <1>2, TreeFields DEF Ready

LEMMA NewSiblingsKept ==
  ASSUME NEW t, NEW leaf, NEW k
  PROVE  /\ DOMAIN NewSiblings(t, leaf, k) = Level
         /\ \A h \in Level : BitSet(k, h) => NewSiblings(t, leaf, k)[h] = t.siblings[h]
<1> DEFINE cur == PathUp(t, leaf, k)
           low(h) == \A g \in 0..(h - 1) : BitSet(k, g)
<1>1. NewSiblings(t, leaf, k)
        = [h \in Level |-> IF ~BitSet(k, h) /\ low(h) THEN cur[h] ELSE t.siblings[h]]
  BY Zenon DEF NewSiblings
<1> HIDE DEF cur, low
<1> QED
  BY Zenon, <1>1

\* What resetLeaf and initSiblings make of good tables.
LEMMA ResetGood ==
  ASSUME Tables(deposits, roots, rht), NEW n \in 0..Len(deposits)
  PROVE  /\ Frontier(deposits, n, ResetLeaf(Tree, n).siblings)
         /\ ResetLeaf(Tree, n).siblings # Nil
         /\ Frontier(SubSeq(deposits, 1, n), n, ResetLeaf(Truncate(Tree, n), n).siblings)
         /\ ResetLeaf(Truncate(Tree, n), n).siblings # Nil
<1>1. Tables(Tree.deposits, Tree.roots, Tree.rht) /\ n \in 0..Len(Tree.deposits)
  BY Zenon, TreeFields
<1>2. /\ Frontier(deposits, n, InitSiblings(Tree, n)) /\ InitSiblings(Tree, n) # Nil
  <2>1. Frontier(Tree.deposits, n, InitSiblings(Tree, n)) /\ InitSiblings(Tree, n) # Nil
    BY Zenon, <1>1, InitSiblingsGood
  <2> QED
    BY Zenon, <2>1, TreeFields
<1> DEFINE t == Truncate(Tree, n)
<1>3. /\ Tables(t.deposits, t.roots, t.rht) /\ Len(t.deposits) = n
      /\ t.deposits = SubSeq(deposits, 1, n)
  <2>1. /\ Tables(SubSeq(deposits, 1, n), SubSeq(roots, 1, n), {r \in rht : r.id <= n})
        /\ Len(SubSeq(deposits, 1, n)) = n
    BY Zenon, TruncateGood
  <2> QED
    BY Zenon, <2>1, ResetFields
<1>4. n \in 0..Len(t.deposits)
  <2>1. n \in 0..n
    BY DEF Tables
  <2> HIDE DEF t
  <2> QED
    BY Zenon, <1>3, <2>1
<1>5. Frontier(t.deposits, n, InitSiblings(t, n)) /\ InitSiblings(t, n) # Nil
  BY Zenon, <1>3, <1>4, InitSiblingsGood
<1> QED
  BY Zenon, <1>2, <1>3, <1>5, ResetFields

LEMMA AddNone ==
  ASSUME NEW t, NEW block, Len(block) = 0
  PROVE  AddAll(t, block) = t
<1>1. Len(block) \in Nat
  OBVIOUS
<1> QED
  BY <1>1, Additions

\* A frontier is a sequence of siblings for every level.
LEMMA FrontierLevels ==
  ASSUME NEW ds, NEW n, NEW sib, Frontier(ds, n, sib)
  PROVE  DOMAIN sib = Level /\ sib # Nil
BY Zenon, NotNil DEF Frontier

-----------------------------------------------------------------------------
(***************************************************************************)
(* The invariant.                                                          *)
(***************************************************************************)
LEMMA EmptyReady ==
  /\ EmptyTree.deposits = <<>> /\ EmptyTree.count = 0 /\ Len(EmptyTree.deposits) = 0
  /\ Ready(EmptyTree)
<1> DEFINE ds == EmptyTree.deposits
           rs == EmptyTree.roots
           sib == EmptyTree.siblings
<1>1. /\ ds = <<>> /\ rs = <<>> /\ EmptyTree.rht = {} /\ EmptyTree.count = 0
      /\ sib = [h \in Level |-> ZeroHash[h]]
  BY Zenon DEF EmptyTree
<1> HIDE DEF ds, rs, sib
<1>2. ds \in Seq(Content) /\ Len(ds) = 0 /\ 0 <= MaxDeposits
  BY <1>1, Bound
<1>3. rs = [n \in 1..0 |-> Node(ds, n, Height, 0)]
  BY <1>1
<1>4. 1..0 = {}
  OBVIOUS
<1>5. Tables(ds, rs, EmptyTree.rht)
  BY Zenon, <1>1, <1>2, <1>3, <1>4 DEF Tables, Rows, Covered
<1>6. Frontier(ds, 0, sib)
  <2>1. DOMAIN sib = Level
    BY Zenon, <1>1
  <2>2. ASSUME NEW h \in Level PROVE ~BitSet(0, h)
    <3>1. h \in 0..Height
      BY HeightAssumption DEF Level
    <3>2. Position(0)[h] = 0
      BY Zenon, <3>1, FirstPosition
    <3> QED
      BY <3>2 DEF BitSet
  <2> QED
    BY Zenon, <2>1, <2>2 DEF Frontier
<1> QED
  BY Zenon, <1>1, <1>2, <1>5, <1>6 DEF Ready, ds, rs, sib

LEMMA TreeInit == Init => TreeInv
<1> SUFFICES ASSUME Init PROVE TreeInv
  BY Zenon
<1>1. /\ deposits = EmptyTree.deposits /\ roots = EmptyTree.roots /\ rht = EmptyTree.rht
      /\ count = 0 /\ siblings = EmptyTree.siblings /\ faults = MaxFaults
  BY Zenon DEF Init, EmptyTree
<1>2. Tables(deposits, roots, rht) /\ Frontier(deposits, 0, siblings) /\ Len(deposits) = 0
  BY Zenon, <1>1, EmptyReady DEF Ready
<1>3. 0 \in 0..MaxDeposits /\ MaxFaults \in 0..MaxFaults
  BY Bound, BoundAssumption
<1> QED
  BY Zenon, <1>1, <1>2, <1>3, FrontierLevels DEF TreeInv

\* The tree after a step, from what the step leaves.
LEMMA TreeNext ==
  ASSUME Tables(deposits', roots', rht'),
         siblings' # Nil /\ count' = Len(deposits') => Frontier(deposits', count', siblings'),
         siblings' = Nil \/ DOMAIN siblings' = Level,
         count' \in 0..MaxDeposits, faults' \in 0..MaxFaults,
         faults' = MaxFaults => siblings' # Nil /\ count' = Len(deposits')
  PROVE  TreeInv'
BY Zenon DEF TreeInv

\* A failure uses one up.
LEMMA FaultUsed ==
  ASSUME TreeInv, faults > 0, faults' = faults - 1
  PROVE  faults' \in 0..MaxFaults /\ faults' # MaxFaults
<1>1. faults \in 0..MaxFaults /\ MaxFaults \in Nat
  BY Zenon, BoundAssumption DEF TreeInv
<1> QED
  BY <1>1

LEMMA StoreBlockStep ==
  ASSUME TreeInv, NEW b \in Blocks, StoreBlock(b)
  PROVE  TreeInv'
<1> DEFINE u == AddAll(Tree, b)
<1>1. /\ siblings # Nil /\ IndexMatches(Tree) /\ faults' = faults
      /\ deposits' = u.deposits /\ roots' = u.roots /\ rht' = u.rht
      /\ count' = u.count /\ siblings' = u.siblings
  BY Zenon DEF StoreBlock, Database, Memory
<1>2. Ready(Tree) /\ Tree.count \in Nat /\ count = Len(deposits) /\ Len(deposits) \in Nat
  BY Zenon, <1>1, AcceptingReady
<1>3. b \in Seq(Content) /\ Len(b) \in Nat /\ Len(deposits) + Len(b) <= MaxDeposits
  BY Zenon, BlockFacts
<1>4. Len(Tree.deposits) + Len(b) <= MaxDeposits
  BY Zenon, <1>3, TreeFields
<1>5. Ready(u) /\ Len(u.deposits) = Len(Tree.deposits) + Len(b) /\ u.count = Tree.count + Len(b)
  BY Zenon, <1>2, <1>3, <1>4, AddAllGood
<1> HIDE DEF u
<1>6. Len(u.deposits) = Len(deposits) + Len(b) /\ u.count = Len(deposits) + Len(b)
  BY Zenon, <1>2, <1>5, TreeFields
<1>7. Tables(u.deposits, u.roots, u.rht) /\ Frontier(u.deposits, u.count, u.siblings)
  BY Zenon, <1>5, <1>6 DEF Ready
<1>8. u.count \in 0..MaxDeposits
  BY <1>2, <1>3, <1>6, Bound
<1>9. DOMAIN u.siblings = Level /\ u.siblings # Nil
  BY Zenon, <1>7, FrontierLevels
<1>10. faults' \in 0..MaxFaults
  BY Zenon, <1>1 DEF TreeInv
<1> QED
  BY Zenon, <1>1, <1>6, <1>7, <1>8, <1>9, <1>10, TreeNext

LEMMA StoreBlockFailsStep ==
  ASSUME TreeInv, NEW b \in Blocks, StoreBlockFails(b)
  PROVE  TreeInv'
<1> DEFINE u == AddAll(Tree, b)
<1>1. /\ siblings # Nil /\ IndexMatches(Tree) /\ faults > 0 /\ faults' = faults - 1
      /\ deposits' = deposits /\ roots' = roots /\ rht' = rht
      /\ count' = u.count /\ siblings' = u.siblings
  BY Zenon DEF StoreBlockFails, Memory, dbVars
<1>2. Ready(Tree) /\ Tree.count \in Nat /\ count = Len(deposits) /\ Len(deposits) \in Nat
  BY Zenon, <1>1, AcceptingReady
<1>3. /\ b \in Seq(Content) /\ Len(b) \in Nat /\ Len(deposits) + Len(b) <= MaxDeposits
      /\ Len(b) >= 1
  BY Zenon, BlockFacts
<1>4. Len(Tree.deposits) + Len(b) <= MaxDeposits
  BY Zenon, <1>3, TreeFields
<1>5. Ready(u) /\ u.count = Tree.count + Len(b)
  BY Zenon, <1>2, <1>3, <1>4, AddAllGood
<1> HIDE DEF u
<1>6. u.count = Len(deposits) + Len(b)
  BY Zenon, <1>2, <1>5, TreeFields
<1>7. u.count \in 0..MaxDeposits /\ u.count # Len(deposits)
  BY <1>2, <1>3, <1>6, Bound
<1>8. DOMAIN u.siblings = Level
  BY Zenon, <1>5, FrontierLevels DEF Ready
<1>9. Tables(deposits', roots', rht')
  BY Zenon, <1>1 DEF TreeInv
<1>10. faults' \in 0..MaxFaults /\ faults' # MaxFaults
  BY Zenon, <1>1, FaultUsed
<1> QED
  BY Zenon, <1>1, <1>7, <1>8, <1>9, <1>10, TreeNext

LEMMA AddLeafFailsStep ==
  ASSUME TreeInv, NEW b \in Blocks, AddLeafFails(b)
  PROVE  TreeInv'
<1> DEFINE front == SubSeq(b, 1, Len(b) - 1)
           u == AddAll(Tree, front)
           next == NewSiblings(u, Leaf(b[Len(b)]), Len(u.deposits))
           L == Len(front)
<1>1. /\ siblings # Nil /\ IndexMatches(Tree) /\ faults > 0 /\ faults' = faults - 1
      /\ deposits' = deposits /\ roots' = roots /\ rht' = rht
      /\ count' = u.count /\ siblings' = next
  BY Zenon DEF AddLeafFails, dbVars
<1>2. Ready(Tree) /\ Tree.count \in Nat /\ count = Len(deposits) /\ Len(deposits) \in Nat
  BY Zenon, <1>1, AcceptingReady
<1>3. /\ front \in Seq(Content) /\ L = Len(b) - 1 /\ Len(b) \in Nat
      /\ Len(deposits) + Len(b) <= MaxDeposits /\ Len(b) >= 1
  BY Zenon, BlockFacts
<1> HIDE DEF L
<1>4. L \in Nat /\ Len(deposits) + L <= MaxDeposits
  BY <1>2, <1>3, Bound
<1>5. Len(Tree.deposits) + L <= MaxDeposits
  BY Zenon, <1>4, TreeFields
<1>6. Ready(u) /\ u.count = Tree.count + L
  BY Zenon, <1>2, <1>3, <1>5, AddAllGood DEF L
<1>7. u.count = Len(deposits) + L
  BY Zenon, <1>2, <1>6, TreeFields
<1>8. ASSUME count' = Len(deposits') PROVE Frontier(deposits', count', siblings')
  <2>1. L = 0
    BY <1>1, <1>2, <1>4, <1>7, <1>8
  <2>2. u = Tree
    BY Zenon, <2>1, AddNone DEF L
  <2>3. /\ DOMAIN next = Level
        /\ \A h \in Level : BitSet(Len(deposits), h) => next[h] = siblings[h]
    <3>1. next = NewSiblings(Tree, Leaf(b[Len(b)]), Len(deposits))
      BY Zenon, <2>2, TreeFields
    <3> DEFINE kept == NewSiblings(Tree, Leaf(b[Len(b)]), Len(deposits))
    <3>2. /\ DOMAIN kept = Level
          /\ \A h \in Level : BitSet(Len(deposits), h) => kept[h] = Tree.siblings[h]
      <4> DEFINE leaf == Leaf(b[Len(b)])
                 tree == Tree
      <4> HIDE DEF leaf, tree, u, next
      <4>1. kept = NewSiblings(tree, leaf, Len(deposits))
        BY Zenon DEF leaf, tree
      <4>2. /\ DOMAIN kept = Level
            /\ \A h \in Level : BitSet(Len(deposits), h) => kept[h] = tree.siblings[h]
        <5> HIDE DEF kept
        <5> QED
          BY Zenon, <4>1, NewSiblingsKept
      <4> QED
        BY Zenon, <4>2 DEF tree
    <3> HIDE DEF next, u, kept
    <3>3. next = kept
      BY Zenon, <3>1 DEF kept
    <3> QED
      BY Zenon, <3>2, <3>3, TreeFields
  <2>4. Frontier(deposits, Len(deposits), siblings)
    BY Zenon, <1>1, <1>2 DEF TreeInv
  <2> HIDE DEF next, u
  <2>5. Frontier(deposits, Len(deposits), next)
    BY Zenon, <2>3, <2>4 DEF Frontier
  <2> QED
    BY Zenon, <1>1, <1>8, <2>5
<1>9. DOMAIN next = Level
  BY Zenon, NewSiblingsKept
<1>10. count' \in 0..MaxDeposits
  BY <1>1, <1>2, <1>4, <1>7, Bound
<1>11. Tables(deposits', roots', rht')
  BY Zenon, <1>1 DEF TreeInv
<1>12. faults' \in 0..MaxFaults /\ faults' # MaxFaults
  BY Zenon, <1>1, FaultUsed
<1> HIDE DEF next, u
<1> QED
  BY Zenon, <1>1, <1>8, <1>9, <1>10, <1>11, <1>12, TreeNext

LEMMA ReorgStep ==
  ASSUME TreeInv, NEW n \in 0..Len(deposits), Reorg(n)
  PROVE  TreeInv'
<1> DEFINE t == ResetLeaf(Truncate(Tree, n), n)
<1>1. /\ deposits' = t.deposits /\ roots' = t.roots /\ rht' = t.rht
      /\ count' = t.count /\ siblings' = t.siblings /\ faults' = faults
  BY Zenon DEF Reorg, Database, Memory
<1>2. Tables(deposits, roots, rht) /\ faults \in 0..MaxFaults
  BY Zenon DEF TreeInv
<1>3. /\ Tables(SubSeq(deposits, 1, n), SubSeq(roots, 1, n), {r \in rht : r.id <= n})
      /\ Len(SubSeq(deposits, 1, n)) = n
  BY Zenon, <1>2, TruncateGood
<1>4. Frontier(SubSeq(deposits, 1, n), n, t.siblings) /\ t.siblings # Nil
  BY Zenon, <1>2, ResetGood
<1>5. DOMAIN t.siblings = Level
  BY Zenon, <1>4, FrontierLevels
<1>6. n \in 0..MaxDeposits
  <2>1. Len(deposits) \in Nat /\ Len(deposits) <= MaxDeposits
    BY <1>2 DEF Tables
  <2> QED
    BY <2>1, Bound
<1>7. /\ t.deposits = SubSeq(deposits, 1, n) /\ t.roots = SubSeq(roots, 1, n)
      /\ t.rht = {r \in rht : r.id <= n} /\ t.count = n
  BY Zenon, ResetFields
<1> HIDE DEF t
<1>8. Tables(deposits', roots', rht') /\ Frontier(deposits', count', siblings')
  BY Zenon, <1>1, <1>3, <1>4, <1>7
<1>9. count' = Len(deposits') /\ count' \in 0..MaxDeposits
  BY Zenon, <1>1, <1>3, <1>6, <1>7
<1> QED
  BY Zenon, <1>1, <1>2, <1>4, <1>5, <1>8, <1>9, TreeNext

LEMMA ReorgFailsStep ==
  ASSUME TreeInv, NEW n \in 0..Len(deposits), ReorgFails(n)
  PROVE  TreeInv'
<1> DEFINE t == ResetLeaf(Truncate(Tree, n), n)
<1>1. /\ deposits' = deposits /\ roots' = roots /\ rht' = rht
      /\ faults > 0 /\ faults' = faults - 1 /\ count' = n
      /\ siblings' = t.siblings \/ siblings' = Nil
  BY Zenon, ResetFields DEF ReorgFails, Memory, dbVars
<1>2. Tables(deposits, roots, rht) /\ Len(deposits) \in Nat /\ Len(deposits) <= MaxDeposits
  BY DEF TreeInv, Tables
<1>3. Frontier(SubSeq(deposits, 1, n), n, t.siblings)
  BY Zenon, <1>2, ResetGood
<1> HIDE DEF t
<1>4. n = Len(deposits) => SubSeq(deposits, 1, n) = deposits
  <2>1. deposits \in Seq(Content)
    BY Zenon, <1>2 DEF Tables
  <2> QED
    BY <2>1
<1>5. siblings' # Nil /\ count' = Len(deposits') => Frontier(deposits', count', siblings')
  BY Zenon, <1>1, <1>3, <1>4
<1>6. siblings' = Nil \/ DOMAIN siblings' = Level
  BY Zenon, <1>1, <1>3, FrontierLevels
<1>7. count' \in 0..MaxDeposits
  BY <1>1, <1>2, Bound
<1>8. faults' \in 0..MaxFaults /\ faults' # MaxFaults
  BY Zenon, <1>1, FaultUsed
<1> QED
  BY Zenon, <1>1, <1>2, <1>5, <1>6, <1>7, <1>8, TreeNext

LEMMA RestartStep ==
  ASSUME TreeInv, Restart
  PROVE  TreeInv'
<1> DEFINE n == Len(deposits)
           t == ResetLeaf(Tree, n)
<1>1. /\ deposits' = deposits /\ roots' = roots /\ rht' = rht /\ faults' = faults
      /\ count' = n /\ siblings' = t.siblings
  BY Zenon, ResetFields DEF Restart, Memory, dbVars
<1>2. Tables(deposits, roots, rht) /\ n \in Nat /\ n <= MaxDeposits /\ faults \in 0..MaxFaults
  BY DEF TreeInv, Tables
<1>3. n \in 0..n /\ n \in 0..MaxDeposits
  BY <1>2, Bound
<1>4. Frontier(deposits, n, t.siblings)
  BY Zenon, <1>2, <1>3, ResetGood
<1> HIDE DEF t
<1>5. DOMAIN t.siblings = Level /\ t.siblings # Nil
  BY Zenon, <1>4, FrontierLevels
<1> QED
  BY Zenon, <1>1, <1>2, <1>3, <1>4, <1>5, TreeNext

LEMMA RestartMiscountedStep ==
  ASSUME TreeInv, RestartMiscounted
  PROVE  TreeInv'
<1> DEFINE t == ResetLeaf(Tree, 1)
<1>1. /\ deposits' = deposits /\ roots' = roots /\ rht' = rht
      /\ faults > 0 /\ faults' = faults - 1 /\ deposits # <<>>
      /\ count' = 1 /\ siblings' = t.siblings
  BY Zenon, ResetFields DEF RestartMiscounted, Memory, dbVars
<1>2. Tables(deposits, roots, rht) /\ deposits \in Seq(Content)
  BY Zenon DEF TreeInv, Tables
<1>3. 1 \in 0..Len(deposits) /\ 1 \in 0..MaxDeposits
  BY <1>1, <1>2, Bound
<1>4. Frontier(deposits, 1, t.siblings)
  BY Zenon, <1>2, <1>3, ResetGood
<1> HIDE DEF t
<1>5. DOMAIN t.siblings = Level
  BY Zenon, <1>4, FrontierLevels
<1>6. faults' \in 0..MaxFaults /\ faults' # MaxFaults
  BY Zenon, <1>1, FaultUsed
<1> QED
  BY Zenon, <1>1, <1>2, <1>3, <1>4, <1>5, <1>6, TreeNext

LEMMA TreeStutter ==
  ASSUME TreeInv, UNCHANGED vars
  PROVE  TreeInv'
BY Zenon DEF TreeInv, vars, dbVars, memVars

\* The invariant holds, whatever fails: a tree that accepts a deposit has the frontier
\* of the deposits that are stored, and the tables hold every node that the stored
\* roots reach (addLeaf, resetLeaf, initSiblings).
THEOREM TreeInvariant == Spec => []TreeInv
<1>1. ASSUME TreeInv, [Next]_vars PROVE TreeInv'
  <2>1. CASE \E b \in Blocks : StoreBlock(b) \/ StoreBlockFails(b)
    BY Zenon, <1>1, <2>1, StoreBlockStep, StoreBlockFailsStep
  <2>2. CASE \E b \in Blocks : AddLeafFails(b)
    BY Zenon, <1>1, <2>2, AddLeafFailsStep
  <2>3. CASE \E n \in 0..Len(deposits) : Reorg(n) \/ ReorgFails(n)
    BY Zenon, <1>1, <2>3, ReorgStep, ReorgFailsStep
  <2>4. CASE Restart
    BY Zenon, <1>1, <2>4, RestartStep
  <2>5. CASE RestartMiscounted
    BY Zenon, <1>1, <2>5, RestartMiscountedStep
  <2>6. CASE UNCHANGED vars
    BY Zenon, <1>1, <2>6, TreeStutter
  <2> QED
    BY Zenon, <1>1, <2>1, <2>2, <2>3, <2>4, <2>5, <2>6 DEF Next
<1> QED
  BY <1>1, TreeInit, PTL DEF Spec

-----------------------------------------------------------------------------
(***************************************************************************)
(* What it implies.                                                        *)
(***************************************************************************)
LEMMA RootIsNode ==
  ASSUME NEW ds, NEW n
  PROVE  RootOf([i \in 1..n |-> Leaf(ds[i])]) = Node(ds, n, Height, 0)
BY Zenon DEF RootOf, Node, LeavesOf

\* Every stored root is the root of the deposits up to its own, for every height, every
\* sequence of blocks, reorganisations, restarts and rolled back transactions (addLeaf).
THEOREM RootsAreRight == Spec => []RootsRight
<1>1. ASSUME TreeInv PROVE RootsRight
  <2>1. /\ deposits \in Seq(Content) /\ Len(deposits) \in Nat /\ Len(deposits) <= MaxDeposits
        /\ roots = [n \in 1..Len(deposits) |-> Node(deposits, n, Height, 0)]
        /\ Rows(deposits, rht) /\ Covered(deposits, rht)
    BY <1>1 DEF TreeInv, Tables
  <2>3. DOMAIN roots = 1..Len(deposits) /\ DOMAIN deposits = 1..Len(deposits)
    BY <2>1
  <2>4. Len(roots) = Len(deposits)
    <3> DEFINE k == Len(deposits)
    <3>1. k \in Nat /\ roots = [n \in 1..k |-> Node(deposits, n, Height, 0)]
      BY Zenon, <2>1
    <3> HIDE DEF k
    <3>2. Len(roots) = k
      BY <3>1
    <3> QED
      BY Zenon, <3>2 DEF k
  <2>5. ASSUME NEW n \in DOMAIN roots PROVE roots[n] = Node(deposits, n, Height, 0)
    BY Zenon, <2>1, <2>3
  <2>6. ASSUME NEW n \in DOMAIN roots PROVE roots[n] \in Hashes
    <3>1. n \in 1..Len(deposits) /\ n - 1 \in Nat
      BY <2>1, <2>3
    <3>2. Position(n - 1)[Height] \in Nat
      BY Zenon, <3>1, LevelFacts, Positions
    <3>3. 0 \in 0..Position(n - 1)[Height]
      BY <3>2
    <3>4. \E r \in rht : r.key = Node(deposits, n, Height, 0)
      BY Zenon, <2>1, <3>1, <3>3, LevelFacts DEF Covered
    <3> QED
      BY Zenon, <2>5, <3>4 DEF Hashes
  <2>7. \A r \in rht : r.id \in DOMAIN deposits /\ r.key = Hash(r.value[1], r.value[2])
    BY Zenon, <2>1, <2>3 DEF Rows
  <2>8. count \in 0..(MaxDeposits + MaxInBlock)
    <3>1. count \in 0..MaxDeposits
      BY Zenon, <1>1 DEF TreeInv
    <3> QED
      BY <3>1, Bound, BoundAssumption
  <2>9. TypeOK
    BY Zenon, <1>1, <2>1, <2>4, <2>6, <2>7, <2>8 DEF TypeOK, TreeInv
  <2> QED
    BY Zenon, <2>5, <2>9, RootIsNode DEF RootsRight
<1> QED
  BY <1>1, TreeInvariant, PTL

\* For every stored root and every deposit it covers, getProof finds its nodes and the
\* proof leads from the leaf to the root.
THEOREM ProofsAlwaysVerify == Spec => []ProofsVerify
<1>1. ASSUME TreeInv PROVE ProofsVerify
  <2>1. Tables(deposits, roots, rht)
    BY Zenon, <1>1 DEF TreeInv
  <2>2. DOMAIN roots = 1..Len(deposits)
    BY Zenon, <2>1 DEF Tables
  <2>3. ASSUME NEW n \in 1..Len(deposits), NEW i \in 0..(n - 1)
        PROVE  /\ WayStored(rht, roots[n], i)
               /\ CalculateRoot(Leaf(deposits[i + 1]), GetProof(rht, roots[n], i), i) = roots[n]
    BY <2>1, TablesReadable, ProofGood
  <2> QED
    BY Zenon, <2>2, <2>3 DEF ProofsVerify
<1> QED
  BY <1>1, TreeInvariant, PTL

\* Without a failure the tree always accepts the next deposit.
THEOREM RefusalNeedsFailure == Spec => []RefusesOnlyAfterFailure
<1>1. ASSUME TreeInv PROVE RefusesOnlyAfterFailure
  BY Zenon, <1>1, TreeFields DEF TreeInv, RefusesOnlyAfterFailure, IndexMatches
<1> QED
  BY <1>1, TreeInvariant, PTL

\* After every failure a restart finds the siblings of its tables, and the tree it makes
\* gives the next deposit the right root (NewMerkleTree, initSiblings, addLeaf).
THEOREM RestartBringsBack == Spec => []RestartAccepts
<1>1. ASSUME TreeInv PROVE RestartAccepts
  <2> DEFINE k == Len(deposits)
             t == ResetLeaf(Tree, k)
  <2>1. /\ Tables(deposits, roots, rht) /\ deposits \in Seq(Content)
        /\ k \in Nat /\ k <= MaxDeposits
        /\ roots = [n \in 1..k |-> Node(deposits, n, Height, 0)]
    BY <1>1 DEF TreeInv, Tables
  <2>2. k \in 0..k /\ k < Width[0] /\ k + 1 <= Width[0]
    <3>1. Width[0] \in Nat
      BY Zenon, LevelFacts, Widths
    <3> QED
      BY <2>1, <3>1, Bound
  <2>3. Frontier(deposits, k, t.siblings) /\ t.siblings # Nil
    BY Zenon, <2>1, <2>2, ResetGood
  <2>4. t.deposits = deposits /\ t.roots = roots
    BY Zenon, ResetFields
  <2> HIDE DEF t, k
  <2>5. ASSUME NEW c \in Content
        PROVE  AddLeaf(t, c).roots[k + 1]
                 = RootOf([i \in 1..(k + 1) |-> Leaf(Append(deposits, c)[i])])
    <3> DEFINE es == Append(deposits, c)
               cur == Climb(Leaf(c), k, t.siblings, ZeroHash)
    <3>1. es[k + 1] = c /\ \A i \in 1..k : deposits[i] = es[i]
      BY <2>1 DEF k
    <3>2. AddLeaf(t, c).roots = Append(roots, cur[Height])
      BY Zenon, <2>4, AddLeafFields DEF PathUp, k
    <3> HIDE DEF es
    <3>3. \A h \in 0..Height : Climb(Leaf(es[k + 1]), k, t.siblings, ZeroHash)[h]
                               = Node(es, k + 1, h, Position(k)[h])
      <4> DEFINE sib == t.siblings
      <4>1. k \in Nat /\ k < Width[0] /\ k + 1 <= Width[0]
        BY Zenon, <2>1, <2>2
      <4>2. Frontier(deposits, k, sib) /\ Agree(deposits, es, k)
        BY Zenon, <2>3, <3>1 DEF Agree
      <4> HIDE DEF sib
      <4>3. \A h \in 0..Height : Climb(Leaf(es[k + 1]), k, sib, ZeroHash)[h]
                                 = Node(es, k + 1, h, Position(k)[h])
        BY Zenon, <4>1, <4>2, PathGood
      <4> QED
        BY Zenon, <4>3 DEF sib
    <3>4. Position(k)[Height] \in 0..(1 - 1)
      BY Zenon, <2>1, <2>2, Inside, LevelFacts, Widths
    <3>5. Position(k)[Height] = 0
      BY <3>4
    <3>6. cur[Height] = Node(es, k + 1, Height, 0)
      BY Zenon, <3>1, <3>3, <3>5, LevelFacts
    <3> DEFINE x == [n \in 1..k |-> Node(deposits, n, Height, 0)]
    <3> HIDE DEF cur
    <3>7. \A v : Append(x, v)[k + 1] = v
      BY <2>1
    <3>8. AddLeaf(t, c).roots[k + 1] = cur[Height]
      BY Zenon, <2>1, <3>2, <3>7
    <3> QED
      BY Zenon, <3>6, <3>8, RootIsNode DEF es
  <2> QED
    BY Zenon, <2>3, <2>5 DEF RestartAccepts, t, k
<1> QED
  BY <1>1, TreeInvariant, PTL

-----------------------------------------------------------------------------
(***************************************************************************)
(* The table of nodes that several trees share.                            *)
(***************************************************************************)
\* The deposits of a tree that a block is added to are those of the block.
LEMMA Added ==
  ASSUME NEW block \in Seq(Content)
  PROVE  AddAll(EmptyTree, block).deposits = block
<1> DEFINE L == Len(block)
<1>0. L \in Nat /\ 0 \in 0..L /\ L \in 0..L /\ SubSeq(block, 1, L) = block
      /\ SubSeq(block, 1, 0) = <<>>
  OBVIOUS
<1>1. PICK tree : /\ tree[0] = EmptyTree /\ AddAll(EmptyTree, block) = tree[L]
                  /\ \A n \in 0..(L - 1) : tree[n + 1] = AddLeaf(tree[n], block[n + 1])
  <2>1. Len(block) \in Nat
    BY Zenon, <1>0
  <2> QED
    BY <2>1, Additions
<1> DEFINE T == {n \in 0..L : tree[n].deposits = SubSeq(block, 1, n)}
<1>2. 0 \in T
  BY Zenon, <1>0, <1>1, EmptyReady
<1>3. ASSUME NEW m \in 0..(L - 1), m \in T PROVE m + 1 \in T
  <2>1. Append(SubSeq(block, 1, m), block[m + 1]) = SubSeq(block, 1, m + 1) /\ m + 1 \in 0..L
    BY <1>0
  <2>2. tree[m + 1] = AddLeaf(tree[m], block[m + 1])
    BY Zenon, <1>1
  <2>3. AddLeaf(tree[m], block[m + 1]).deposits = Append(tree[m].deposits, block[m + 1])
    BY Zenon, AddLeafFields
  <2> QED
    BY Zenon, <1>3, <2>1, <2>2, <2>3
<1> HIDE DEF L
<1>4. L \in T
  <2> HIDE DEF T
  <2> QED
    BY Zenon, <1>0, <1>2, <1>3, UpTo
<1> QED
  BY Zenon, <1>0, <1>1, <1>4

\* Every node of a tree is stored under its hash.
LEMMA HashedRows ==
  ASSUME NEW ds \in Seq(Content), Len(ds) <= MaxDeposits
  PROVE  /\ \A r \in AddAll(EmptyTree, ds).rht : r.key = Hash(r.value[1], r.value[2])
         /\ Covered(ds, AddAll(EmptyTree, ds).rht)
<1>1. Len(EmptyTree.deposits) + Len(ds) <= MaxDeposits /\ EmptyTree.count \in Nat
  BY EmptyReady
<1>2. Ready(AddAll(EmptyTree, ds))
  BY Zenon, <1>1, AddAllGood, EmptyReady
<1> QED
  BY Zenon, <1>2, Added DEF Ready, Tables, Rows

\* A table with the nodes of the tree of ds and others, each under its hash.
HasTree(rows, ds) ==
  /\ ds \in Seq(Content) /\ Len(ds) <= MaxDeposits
  /\ AddAll(EmptyTree, ds).rht \subseteq rows
  /\ \A r \in rows : r.key = Hash(r.value[1], r.value[2])

\* The root after the first n deposits, and a proof that leads from deposit i + 1 to it.
RootAfter(ds, n) == RootOf([k \in 1..n |-> Leaf(ds[k])])
Leads(rows, ds, n, i) ==
  LET root == RootAfter(ds, n)
  IN  /\ WayStored(rows, root, i)
      /\ CalculateRoot(Leaf(ds[i + 1]), GetProof(rows, root, i), i) = root

\* A proof from a table that trees share leads to the root.
LEMMA SharedTable ==
  ASSUME NEW rows, NEW ds, HasTree(rows, ds), NEW n \in 1..Len(ds), NEW i \in 0..(n - 1)
  PROVE  Leads(rows, ds, n, i)
<1> DEFINE rs == [m \in 1..Len(ds) |-> Node(ds, m, Height, 0)]
           root == RootAfter(ds, n)
<1>0. /\ ds \in Seq(Content) /\ Len(ds) <= MaxDeposits
      /\ AddAll(EmptyTree, ds).rht \subseteq rows
      /\ \A r \in rows : r.key = Hash(r.value[1], r.value[2])
  BY Zenon DEF HasTree
<1>1. Covered(ds, rows)
  BY Zenon, <1>0, HashedRows DEF Covered
<1>2. Readable(ds, rs, rows)
  BY Zenon, <1>0, <1>1 DEF Readable
<1>3. rs[n] = root
  BY Zenon, <1>0, RootIsNode DEF RootAfter
<1> HIDE DEF rs
<1>4. /\ WayStored(rows, rs[n], i)
      /\ CalculateRoot(Leaf(ds[i + 1]), GetProof(rows, rs[n], i), i) = rs[n]
  BY <1>2, ProofGood
<1> QED
  BY Zenon, <1>3, <1>4 DEF Leads
=============================================================================
