------------------------------- MODULE Merkle -------------------------------
(***************************************************************************)
(* The Merkle trees of bridgectrl (hash.go, merkletree.go), as functions.  *)
(* A hash is the term it is the hash of: zero is <<>>, the leaf of content *)
(* c is <<c>> and a node is the pair of its children.  So two hashes are   *)
(* equal exactly when what was hashed is (no collisions).                  *)
(***************************************************************************)
EXTENDS Integers, FiniteSets, Sequences

CONSTANT Height   \* mt.height; the trees of the bridge have 32 levels

ASSUME HeightAssumption == Height \in Nat \ {0}

Level == 0..(Height - 1)

Hash(l, r) == <<l, r>>
Leaf(c) == <<c>>

\* generateZeroHashes: the hash of an empty subtree of each height.
ZeroHash[h \in 0..Height] == IF h = 0 THEN <<>> ELSE Hash(ZeroHash[h - 1], ZeroHash[h - 1])

\* index >> h, for each h: where at level h the way to the leaf at index passes.
Position(index) ==
  LET pos[h \in 0..Height] == IF h = 0 THEN index ELSE pos[h - 1] \div 2
  IN  pos

\* index & (1 << h) > 0
BitSet(index, h) == Position(index)[h] % 2 = 1

\* The hashes on the way up from a leaf at index, where left[h] or right[h] is the
\* other child of the node above level h.
Climb(leaf, index, left, right) ==
  LET cur[h \in 0..Height] ==
        IF h = 0 THEN leaf
        ELSE IF BitSet(index, h - 1) THEN Hash(left[h - 1], cur[h - 1])
                                     ELSE Hash(cur[h - 1], right[h - 1])
  IN  cur

\* calculateRoot: the root a verifier (and the contract) computes from a proof.
CalculateRoot(leaf, proof, index) == Climb(leaf, index, proof, proof)[Height]

\* How many nodes a level has: 2^(Height - h).
Width[h \in 0..Height] == IF h = Height THEN 1 ELSE 2 * Width[h + 1]

\* The reference: the complete tree over the leaves, with zeros to their right, level
\* by level.
Complete(leaves) ==
  LET node[h \in 0..Height] ==
        [j \in 0..(Width[h] - 1) |->
           IF h = 0 THEN IF j < Len(leaves) THEN leaves[j + 1] ELSE ZeroHash[0]
           ELSE Hash(node[h - 1][2 * j], node[h - 1][2 * j + 1])]
  IN  node

RootOf(leaves) == Complete(leaves)[Height][0]

Nil == <<>>   \* no hash, no siblings

-----------------------------------------------------------------------------
(***************************************************************************)
(* The tables of a deposit tree, as a record t: deposits, roots and rht,   *)
(* with the count and the siblings that MerkleTree has in memory.          *)
(***************************************************************************)
\* Mutant: the node above the leaf is not stored.
StoreUpper(nodes, id) == {[key |-> Hash(n[1], n[2]), value |-> n, id |-> id] :
                            n \in {nodes[h] : h \in Level \ {0}}}

\* BulkSet: the path of a new leaf, kept under its deposit.
BulkSet(nodes, id) == {[key |-> Hash(n[1], n[2]), value |-> n, id |-> id] :
                         n \in {nodes[h] : h \in Level}}

\* Get; the first of several rows with the key.
Stored(rows, key) == \E r \in rows : r.key = key
Get(rows, key) == (CHOOSE r \in rows : r.key = key).value

\* Reset deletes the blocks, and with them (ON DELETE CASCADE) the deposits, roots
\* and nodes beyond the first n deposits.
Truncate(t, n) ==
  [t EXCEPT !.deposits = SubSeq(@, 1, n), !.roots = SubSeq(@, 1, n),
            !.rht = {r \in @ : r.id <= n}]

\* The nodes on the way from root down to the leaf at index: way[h] is the node at
\* level h, Nil once a node is missing.
Way(rows, root, index) ==
  LET way[k \in 0..Height] ==
        IF k = 0 THEN root
        ELSE IF ~Stored(rows, way[k - 1]) THEN Nil
        ELSE Get(rows, way[k - 1])[IF BitSet(index, Height - k) THEN 2 ELSE 1]
  IN  [h \in 0..Height |-> way[Height - h]]

WayStored(rows, root, index) ==
  \A h \in 1..Height : Stored(rows, Way(rows, root, index)[h])

\* getProof of the server: the sibling at each level, from the leaves up.
GetProof(rows, root, index) ==
  [h \in Level |-> Get(rows, Way(rows, root, index)[h + 1])[IF BitSet(index, h) THEN 1 ELSE 2]]

-----------------------------------------------------------------------------
(***************************************************************************)
(* The tree in memory.                                                     *)
(***************************************************************************)
\* Mutant: the path of the next leaf instead of the last one.
SiblingsOfNext(t, n) ==
  IF n = 0 THEN [h \in Level |-> ZeroHash[h]]
  ELSE IF ~WayStored(t.rht, t.roots[n], n) THEN Nil
  ELSE [h \in Level |-> Get(t.rht, Way(t.rht, t.roots[n], n)[h + 1])[1]]

\* initSiblings: the left child of every node on the way to the last leaf, also
\* where that child is the way itself, a subtree that is not complete yet.
InitSiblings(t, n) ==
  IF n = 0 THEN [h \in Level |-> ZeroHash[h]]
  ELSE IF ~WayStored(t.rht, t.roots[n], n - 1) THEN Nil
  ELSE [h \in Level |-> Get(t.rht, Way(t.rht, t.roots[n], n - 1)[h + 1])[1]]

\* A tree without deposits.
EmptyTree == [deposits |-> <<>>, roots |-> <<>>, rht |-> {},
              count |-> 0, siblings |-> [h \in Level |-> ZeroHash[h]]]

\* Mutant: the count is left as it was.
ResetSiblingsOnly(t, n) == [t EXCEPT !.siblings = InitSiblings(t, n)]

\* resetLeaf.
ResetLeaf(t, n) == [t EXCEPT !.count = n, !.siblings = InitSiblings(t, n)]

\* The hash at each level of the path of a leaf added at index.
PathUp(t, leaf, index) == Climb(leaf, index, t.siblings, ZeroHash)

\* The sibling at the lowest level where index has a 0 becomes the subtree that
\* the new leaf completes.
NewSiblings(t, leaf, index) ==
  LET cur == PathUp(t, leaf, index)
  IN  [h \in Level |-> IF ~BitSet(index, h) /\ \A g \in 0..(h - 1) : BitSet(index, g)
                       THEN cur[h] ELSE t.siblings[h]]

\* AddDeposit of the storage and addLeaf, for a deposit of content c.
AddLeaf(t, c) ==
  LET index == Len(t.deposits)
      cur == PathUp(t, Leaf(c), index)
      nodes == [h \in Level |-> IF BitSet(index, h) THEN <<t.siblings[h], cur[h]>>
                                                    ELSE <<cur[h], ZeroHash[h]>>]
  IN  [deposits |-> Append(t.deposits, c),
       roots    |-> Append(t.roots, cur[Height]),
       rht      |-> t.rht \cup BulkSet(nodes, index + 1),
       count    |-> t.count + 1,
       siblings |-> NewSiblings(t, Leaf(c), index)]

\* The deposits of a block, in order.
AddAll(t, block) ==
  LET tree[n \in 0..Len(block)] == IF n = 0 THEN t ELSE AddLeaf(tree[n - 1], block[n])
  IN  tree[Len(block)]

-----------------------------------------------------------------------------
(***************************************************************************)
(* The tree of the rollups is rebuilt from all its leaves, level by level. *)
(***************************************************************************)
\* A level of odd length is completed with the zero hash of its height.
Padded(level, h) == IF Len(level) % 2 = 1 THEN Append(level, ZeroHash[h]) ELSE level

\* buildIntermediate: the level above.
BuildIntermediate(level) ==
  [i \in 1..(Len(level) \div 2) |-> Hash(level[2 * i - 1], level[2 * i])]

\* The levels of the tree over leaves, each padded.
Levels(leaves) ==
  LET level[h \in 0..Height] ==
        IF h = 0 THEN Padded(IF leaves = <<>> THEN <<ZeroHash[0]>> ELSE leaves, 0)
        ELSE IF h = Height THEN BuildIntermediate(level[h - 1])
        ELSE Padded(BuildIntermediate(level[h - 1]), h)
  IN  level

\* buildMTRoot; the code refuses more leaves than the tree holds.
BuildMTRoot(leaves) == Levels(leaves)[Height][1]

\* The sibling of position i in a level: leaves[index-1] or leaves[index+1].
SiblingAt(i) == IF i % 2 = 1 THEN i - 1 ELSE i + 1

\* ComputeSiblings indexes every level without a check: an index two or more
\* positions past the last leaf is out of range, which panics.
OutOfRange(index, leaves) ==
  \E h \in Level : SiblingAt(Position(index)[h]) >= Len(Levels(leaves)[h])

\* ComputeSiblings: the siblings of the leaf at index, from the leaves up.
ComputeSiblings(index, leaves) ==
  [h \in Level |-> Levels(leaves)[h][SiblingAt(Position(index)[h]) + 1]]
=============================================================================
