---------------------------- MODULE DepositTree ----------------------------
(***************************************************************************)
(* The exit tree of one network (bridgectrl/merkletree.go): the tables     *)
(* sync.deposit, mt.root and mt.rht, and the frontier that MerkleTree      *)
(* keeps in memory.  The synchronizer of the network adds the deposits of  *)
(* a block, or resets the tree after a reorganisation, in a database       *)
(* transaction; when the transaction is rolled back the memory is not.     *)
(***************************************************************************)
EXTENDS Merkle

CONSTANTS
  Content,      \* what distinguishes the deposits of two forks
  MaxInBlock,   \* bound on the deposits of a block
  MaxDeposits,  \* bound on the deposits of a chain
  MaxFaults     \* bound on the failures of a behaviour

ASSUME BoundAssumption ==
  /\ MaxInBlock \in Nat /\ MaxFaults \in Nat
  /\ MaxDeposits \in 1..(Width[0] - 1)   \* the contract refuses the last leaf

VARIABLES
  deposits,  \* sync.deposit: the contents, in the order of deposit_cnt
  roots,     \* mt.root: roots[i] is the root stored with the i-th deposit
  rht,       \* mt.rht: the nodes, each with the deposit that stored it
  count,     \* mt.count
  siblings,  \* mt.siblings, or Nil
  faults     \* how many failures the behaviour still has

dbVars == <<deposits, roots, rht>>
memVars == <<count, siblings>>
vars == <<dbVars, memVars, faults>>

\* The tree and its tables as one value: addLeaf and resetLeaf map it to another.
Tree == [deposits |-> deposits, roots |-> roots, rht |-> rht,
         count |-> count, siblings |-> siblings]

-----------------------------------------------------------------------------
\* Mutant: deposit_cnt is not compared with the count.
AnyIndex(t) == TRUE

\* The check at the head of addLeaf; a deposit is stored before its leaf, with the
\* number the contract gave it.
IndexMatches(t) == t.count = Len(t.deposits)

Memory(t) == count' = t.count /\ siblings' = t.siblings
Database(t) == deposits' = t.deposits /\ roots' = t.roots /\ rht' = t.rht

\* Every deposit of the block is accepted and the transaction commits.  While the
\* index does not match the block is refused and nothing changes.
StoreBlock(block) ==
  /\ siblings # Nil /\ IndexMatches(Tree)
  /\ Database(AddAll(Tree, block)) /\ Memory(AddAll(Tree, block))
  /\ UNCHANGED faults

\* The transaction is rolled back after some leaves of the block are in the tree:
\* another table refuses a row, or the commit fails.
StoreBlockFails(done) ==
  /\ faults > 0
  /\ siblings # Nil /\ IndexMatches(Tree)
  /\ Memory(AddAll(Tree, done))
  /\ faults' = faults - 1
  /\ UNCHANGED dbVars

\* SetRoot or BulkSet fails within addLeaf, for the last deposit of done: the siblings
\* are updated in place before, the count would be after.
AddLeafFails(done) ==
  LET last == Len(done)
      t == AddAll(Tree, SubSeq(done, 1, last - 1))
  IN  /\ faults > 0
      /\ siblings # Nil /\ IndexMatches(Tree)
      /\ count' = t.count
      /\ siblings' = NewSiblings(t, Leaf(done[last]), Len(t.deposits))
      /\ faults' = faults - 1
      /\ UNCHANGED dbVars

\* resetState: only the first n deposits are left (all of them, when the blocks that
\* are dropped hold none).
Reorg(n) ==
  LET t == ResetLeaf(Truncate(Tree, n), n)
  IN  /\ Database(t) /\ Memory(t)
      /\ UNCHANGED faults

\* The commit of resetState fails, or a query of initSiblings does: then the
\* siblings are nil, and the next leaf that gets past the check panics.
ReorgFails(n) ==
  /\ faults > 0
  /\ \/ Memory(ResetLeaf(Truncate(Tree, n), n))
     \/ count' = n /\ siblings' = Nil
  /\ faults' = faults - 1
  /\ UNCHANGED dbVars

\* NewMerkleTree; without its siblings the process does not start.
Restart ==
  LET t == ResetLeaf(Tree, Len(deposits))
  IN  /\ t.siblings # Nil
      /\ Memory(t)
      /\ UNCHANGED <<dbVars, faults>>

\* GetLastDepositCount returns 0 and no error when its query fails, so the tree
\* starts with one leaf.
RestartMiscounted ==
  /\ faults > 0
  /\ deposits # <<>>
  /\ Memory(ResetLeaf(Tree, 1))
  /\ faults' = faults - 1
  /\ UNCHANGED dbVars

Init ==
  /\ deposits = <<>> /\ roots = <<>> /\ rht = {}
  /\ count = 0 /\ siblings = [h \in Level |-> ZeroHash[h]]
  /\ faults = MaxFaults

\* The deposits the next blocks may bring.
Blocks == {b \in UNION {[1..n -> Content] : n \in 1..MaxInBlock} :
             Len(deposits) + Len(b) <= MaxDeposits}

Next ==
  \/ \E b \in Blocks : StoreBlock(b) \/ StoreBlockFails(b) \/ AddLeafFails(b)
  \/ \E n \in 0..Len(deposits) : Reorg(n) \/ ReorgFails(n)
  \/ Restart \/ RestartMiscounted

Spec == Init /\ [][Next]_vars

-----------------------------------------------------------------------------
Hashes == {r.key : r \in rht}

\* Types of the tree: a root and a full path of nodes for each deposit.
TypeOK ==
  /\ deposits \in Seq(Content) /\ Len(deposits) <= MaxDeposits
  /\ Len(roots) = Len(deposits) /\ \A i \in DOMAIN roots : roots[i] \in Hashes
  /\ \A r \in rht : r.id \in DOMAIN deposits /\ r.key = Hash(r.value[1], r.value[2])
  /\ count \in 0..(MaxDeposits + MaxInBlock)
  /\ siblings = Nil \/ DOMAIN siblings = Level
  /\ faults \in 0..MaxFaults

\* The tree has its type, and every root that is stored is the root of the deposits up
\* to its own, the one the bridge contract computes: whatever failed between an update
\* in memory and its commit, the tree refuses a deposit rather than storing a wrong root
\* for it (addLeaf, resetLeaf).
RootsRight ==
  /\ TypeOK
  /\ \A n \in DOMAIN roots : roots[n] = RootOf([i \in 1..n |-> Leaf(deposits[i])])

\* For every stored root and every deposit it covers, the nodes on the way are there
\* and the proof made from them leads from the deposit's leaf to the root, also after
\* reorganisations have deleted nodes that older paths may share (getProof).
ProofsVerify ==
  \A n \in DOMAIN roots : \A i \in 0..(n - 1) :
    /\ WayStored(rht, roots[n], i)
    /\ CalculateRoot(Leaf(deposits[i + 1]), GetProof(rht, roots[n], i), i) = roots[n]

\* As long as no transaction has failed, the tree in memory is the one of the tables
\* and accepts the next deposit, through any sequence of blocks, reorganisations and
\* restarts: only a rollback, which does not undo addLeaf or resetLeaf in memory, can
\* leave a tree that refuses every further block.
RefusesOnlyAfterFailure ==
  faults = MaxFaults => siblings # Nil /\ IndexMatches(Tree)

\* The process can always be started again with a tree that accepts the next
\* deposit and gives it the right root (NewMerkleTree).
RestartAccepts ==
  LET t == ResetLeaf(Tree, Len(deposits))
  IN  /\ t.siblings # Nil
      /\ \A c \in Content :
           AddLeaf(t, c).roots[Len(deposits) + 1]
             = RootOf([i \in 1..(Len(deposits) + 1) |-> Leaf(Append(deposits, c)[i])])
=============================================================================
