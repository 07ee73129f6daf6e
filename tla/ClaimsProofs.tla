---------------------------- MODULE ClaimsProofs ----------------------------
(***************************************************************************)
(* Grouped claims, for any deposits, exit roots, group sizes, retries,     *)
(* periods and failures: the groups partition the rows, one claim of a     *)
(* group is pending at a time, a success is kept, a deposit is sent only   *)
(* so often, and the rows follow the life cycle of ClaimLifecycle.         *)
(***************************************************************************)
EXTENDS CompressedClaims, FiniteSetTheorems, TLAPS

\* A group counts every claim it has sent; only the last one can be pending or have
\* succeeded, and a success ends the group.
GroupOk(G) ==
  /\ G.retries = Len(G.history)
  /\ G.status = "created" => G.history = << >>
  /\ \A i \in 1..Len(G.history) :
       /\ G.history[i].receipt = "pending" => i = Len(G.history)
       /\ G.history[i].receipt = "successful" =>
            /\ i = Len(G.history)
            /\ G.status \in Final
            /\ G.status = "failed" => MaxRetries <= Len(G.history)

\* The claims a group has sent are claims of its deposits, and those of a group that is
\* confirmed were carried by a call that succeeded.
ChainOk(G) ==
  /\ \A i \in 1..Len(G.history) :
       /\ G.history[i].tx \in 1..Len(chain)
       /\ chain[G.history[i].tx].deposits = G.deposits
  /\ G.status = "confirmed" => G.deposits \subseteq Carried

HistoryInv ==
  /\ \A g \in 1..Len(groups) : GroupOk(groups[g]) /\ ChainOk(groups[g])
  /\ \A g \in 1..Len(work) : GroupOk(work[g]) /\ ChainOk(work[g])

\* What makes a set of deposits a group: one root, and not too many.
Uniform(S) ==
  /\ S # {}
  /\ MaxNumberOfClaimsPerGroup > 0 => Cardinality(S) <= MaxNumberOfClaimsPerGroup
  /\ \A d, e \in S : GlobalExitRoot[d] = GlobalExitRoot[e]

\* The rows and the groups name each other; the rows of a group are worked on as long as
\* the group is not finished; a row that was never added is in none.
RowInv ==
  /\ \A g \in 1..Len(groups) :
       /\ Uniform(groups[g].deposits)
       /\ \A d \in groups[g].deposits : groupOf[d] = g
  /\ \A d \in Deposit :
       /\ groupOf[d] # 0 =>
            /\ groupOf[d] \in 1..Len(groups)
            /\ d \in groups[groupOf[d]].deposits
            /\ txStatus[d] = "created" <=> groups[groupOf[d]].status \notin Final
       /\ txStatus[d] = "none" => groupOf[d] = 0
       /\ txStatus[d] = "created" => \E n \in 1..Len(queue) : queue[n] = d
       /\ txStatus[d] = "confirmed" => d \in Carried

\* The cycle works on the groups of the database, and on one new group of candidates at
\* most.  It changes the groups with pending rows only.
CycleInv ==
  /\ pc = "idle" => work = << >> /\ todo = {}
  /\ todo \subseteq Pending
  /\ pc # "idle" =>
       /\ \A i \in 1..Len(cand) :
            /\ groupOf[cand[i]] = 0 /\ txStatus[cand[i]] = "created"
            /\ \A j \in 1..Len(cand) : GlobalExitRoot[cand[i]] = GlobalExitRoot[cand[j]]
       /\ Len(groups) <= Len(work)
       /\ \A g \in 1..Len(groups) :
            /\ work[g].deposits = groups[g].deposits
            /\ g \notin Pending => work[g].status = groups[g].status
       /\ pc # "commit" => Len(work) = Len(groups)
       /\ Len(work) # Len(groups) =>
            /\ Len(work) = Len(groups) + 1
            /\ work[Len(work)].status = "created"
            /\ Uniform(work[Len(work)].deposits)
            /\ \A d \in work[Len(work)].deposits : groupOf[d] = 0 /\ txStatus[d] = "created"
  /\ pc = "send" => \A g \in todo : work[g].status \notin Final

CInv == TypeOK /\ HistoryInv /\ RowInv /\ CycleInv

-----------------------------------------------------------------------------
(***************************************************************************)
(* One group.                                                              *)
(***************************************************************************)
\* What a sequence over S has at a place is in S.
LEMMA InSeq ==
  ASSUME NEW S, NEW s \in Seq(S), NEW n \in 1..Len(s)
  PROVE  s[n] \in S
  OBVIOUS

\* A sequence with one place changed, and one with the same places.
LEMMA ExceptSeq ==
  ASSUME NEW S, NEW s \in Seq(S), NEW n \in 1..Len(s), NEW e \in S
  PROVE  /\ [s EXCEPT ![n] = e] \in Seq(S) /\ Len([s EXCEPT ![n] = e]) = Len(s)
         /\ [s EXCEPT ![n] = e][n] = e
         /\ \A m \in 1..Len(s) : m # n => [s EXCEPT ![n] = e][m] = s[m]
  OBVIOUS

LEMMA SamePlaces ==
  ASSUME NEW S, NEW n \in Nat, NEW s \in [1..n -> S]
  PROVE  s \in Seq(S) /\ Len(s) = n /\ DOMAIN s = 1..n
  OBVIOUS

\* The fields of a group are changed one by one.
LEMMA Changed ==
  ASSUME NEW G \in Group, NEW h \in Seq(Entry), NEW n \in Nat,
         NEW s \in {"created", "claiming"} \cup Final
  PROVE  [G EXCEPT !.status = s, !.retries = n, !.history = h] \in Group
  BY Zenon DEF Group

\* A change of the status leaves the rest.
LEMMA ChangedStatus ==
  ASSUME NEW G \in Group, NEW s \in {"created", "claiming"} \cup Final
  PROVE  /\ [G EXCEPT !.status = s] \in Group
         /\ [G EXCEPT !.status = s].history = G.history
         /\ [G EXCEPT !.status = s].status = s
         /\ [G EXCEPT !.status = s].deposits = G.deposits
         /\ [G EXCEPT !.status = s].retries = G.retries
  BY Zenon DEF Group

\* A group that sends a claim.
Sent(G, t) ==
  [G EXCEPT !.status = "claiming", !.retries = @ + 1,
            !.history = Append(@, [tx |-> t, receipt |-> "pending"])]

\* When none of its claims is pending, the group stays as it should.
LEMMA SentGroup ==
  ASSUME NEW G \in Group, NEW t \in Nat, GroupOk(G), G.status \notin Final,
         \A i \in 1..Len(G.history) : G.history[i].receipt # "pending"
  PROVE  /\ Sent(G, t) \in Group /\ GroupOk(Sent(G, t))
         /\ Sent(G, t).deposits = G.deposits
         /\ Sent(G, t).status = "claiming"
         /\ Sent(G, t).history = Append(G.history, [tx |-> t, receipt |-> "pending"])
<1> DEFINE e == [tx |-> t, receipt |-> "pending"]
           H == Append(G.history, e)
           R == Sent(G, t)
<1>1. /\ G.history \in Seq(Entry) /\ G.retries \in Nat /\ G.deposits \in SUBSET Deposit
      /\ DOMAIN G = {"deposits", "status", "history", "retries"}
  BY Zenon DEF Group
<1>2. e \in Entry
  BY Zenon DEF Entry
<1>3. /\ H \in Seq(Entry) /\ Len(H) = Len(G.history) + 1
      /\ H[Len(H)] = e /\ \A i \in 1..Len(G.history) : H[i] = G.history[i]
  BY <1>1, <1>2
<1>4. /\ R.deposits = G.deposits /\ R.status = "claiming" /\ R.retries = G.retries + 1
      /\ R.history = H
  BY Zenon, <1>1 DEF Sent, Group
<1>5. R \in Group
  <2>1. R = [G EXCEPT !.status = "claiming", !.retries = G.retries + 1, !.history = H]
    BY Zenon DEF Sent
  <2>2. G.retries + 1 \in Nat /\ "claiming" \in {"created", "claiming"} \cup Final
    BY <1>1
  <2> HIDE DEF H, R
  <2> QED
    BY Zenon, <1>3, <2>1, <2>2, Changed
<1>6. GroupOk(R)
  <2> HIDE DEF H, R, e
  <2>1. \A i \in 1..Len(G.history) : G.history[i].receipt # "successful"
    BY Zenon DEF GroupOk
  <2>2. e.receipt = "pending"
    BY Zenon DEF e
  <2> QED
    BY <1>1, <1>3, <1>4, <2>1, <2>2 DEF GroupOk
<1> QED
  BY Zenon, <1>4, <1>5, <1>6

\* The claims in F of a group failed, those in S succeeded: all of them were pending.
LEMMA FinishedGroup ==
  ASSUME NEW G \in Group, GroupOk(G), G.status = "claiming", NEW F, NEW S,
         \A i \in F \cup S : i \in 1..Len(G.history) /\ G.history[i].receipt = "pending"
  PROVE  /\ Finish(G, F, S) \in Group /\ GroupOk(Finish(G, F, S))
         /\ Finish(G, F, S).deposits = G.deposits
         /\ Finish(G, F, S).status = IF S # {} THEN "confirmed" ELSE "claiming"
         /\ Len(Finish(G, F, S).history) = Len(G.history)
         /\ \A i \in 1..Len(G.history) : Finish(G, F, S).history[i].tx = G.history[i].tx
<1> DEFINE H == [i \in DOMAIN G.history |->
                   IF i \in S THEN [G.history[i] EXCEPT !.receipt = "successful"]
                   ELSE IF i \in F THEN [G.history[i] EXCEPT !.receipt = "failed"]
                   ELSE G.history[i]]
           st == IF S # {} THEN "confirmed" ELSE G.status
           R == Finish(G, F, S)
<1>1. G.history \in Seq(Entry) /\ DOMAIN G.history = 1..Len(G.history) /\ Len(G.history) \in Nat
  BY DEF Group
<1>2. \A i \in 1..Len(G.history) : G.history[i] \in Entry
  BY Zenon, <1>1, InSeq
<1>3. \A i \in 1..Len(G.history) :
        /\ H[i] \in Entry /\ H[i].tx = G.history[i].tx
        /\ i \in S => H[i].receipt = "successful"
        /\ i \notin S /\ i \in F => H[i].receipt = "failed"
        /\ i \notin S /\ i \notin F => H[i].receipt = G.history[i].receipt
  BY Zenon, <1>1, <1>2 DEF Entry
<1>4. H \in Seq(Entry) /\ Len(H) = Len(G.history)
  <2>1. H \in [1..Len(G.history) -> Entry]
    BY Zenon, <1>1, <1>3
  <2> HIDE DEF H
  <2> QED
    BY <1>1, <2>1
<1>5. R = [G EXCEPT !.history = H, !.status = st]
  BY Zenon DEF Finish
<1>6. st \in {"created", "claiming"} \cup Final
  BY Zenon DEF Final
<1> HIDE DEF H, st, R
<1>7. /\ R \in Group /\ R.history = H /\ R.status = st
      /\ R.deposits = G.deposits /\ R.retries = G.retries
  BY Zenon, <1>4, <1>5, <1>6 DEF Group
<1>8. GroupOk(R)
  <2>1. R.retries = Len(R.history)
    BY Zenon, <1>4, <1>7 DEF GroupOk
  <2>2. R.status # "created"
    BY Zenon, <1>7 DEF st
  <2>3. ASSUME NEW i \in 1..Len(R.history)
        PROVE  /\ R.history[i].receipt = "pending" => i = Len(R.history)
               /\ R.history[i].receipt = "successful" =>
                    i = Len(R.history) /\ R.status = "confirmed"
    <3>1. i \in 1..Len(G.history) /\ Len(R.history) = Len(G.history)
      BY Zenon, <1>4, <1>7
    <3>2. /\ G.history[i].receipt = "pending" => i = Len(G.history)
          /\ G.history[i].receipt # "successful"
      BY Zenon, <3>1 DEF GroupOk, Final
    <3> QED
      BY Zenon, <1>3, <1>7, <3>1, <3>2 DEF st
  <2> QED
    BY Zenon, <2>1, <2>2, <2>3 DEF GroupOk, Final
<1> QED
  BY Zenon, <1>3, <1>4, <1>7, <1>8 DEF st, R

\* What OutdateClaims makes of a group.
LEMMA OutdatedGroup ==
  ASSUME TypeOK, HistoryInv, NEW g \in 1..Len(work)
  PROVE  /\ Outdated(g) \in Group /\ GroupOk(Outdated(g))
         /\ Outdated(g).deposits = work[g].deposits
         /\ Outdated(g).status = "confirmed" => work[g].status = "confirmed"
         /\ Len(Outdated(g).history) = Len(work[g].history)
         /\ \A i \in 1..Len(work[g].history) :
              Outdated(g).history[i].tx = work[g].history[i].tx
<1> DEFINE F == {i \in PendingTxs(g) : IsExhausted(History(g)[i].tx)}
           old == IF work[g].status # "claiming" THEN work[g] ELSE Finish(work[g], F, {})
<1>1. work[g] \in Group /\ GroupOk(work[g])
  <2>1. work \in Seq(Group)
    BY Zenon DEF TypeOK
  <2> QED
    BY Zenon, <2>1, InSeq DEF HistoryInv
<1>2. /\ old \in Group /\ GroupOk(old) /\ old.deposits = work[g].deposits
      /\ old.status = work[g].status
      /\ Len(old.history) = Len(work[g].history)
      /\ \A i \in 1..Len(work[g].history) : old.history[i].tx = work[g].history[i].tx
  <2>1. CASE work[g].status # "claiming"
    BY Zenon, <1>1, <2>1
  <2>2. CASE work[g].status = "claiming"
    <3>1. work[g].history \in Seq(Entry)
      BY Zenon, <1>1 DEF Group
    <3>2. \A i \in F \cup {} :
            i \in 1..Len(work[g].history) /\ work[g].history[i].receipt = "pending"
      BY <3>1 DEF PendingTxs, History
    <3>3. old = Finish(work[g], F, {})
      BY Zenon, <2>2
    <3> HIDE DEF F, old
    <3> QED
      BY <1>1, <2>2, <3>2, <3>3, FinishedGroup
  <2> QED
    BY Zenon, <2>1, <2>2
<1>3. Outdated(g) = IF old.retries >= MaxRetries THEN [old EXCEPT !.status = "failed"] ELSE old
  BY Zenon DEF Outdated
<1> HIDE DEF old
<1>4. CASE old.retries >= MaxRetries
  <2>1. "failed" \in {"created", "claiming"} \cup Final
    BY Zenon DEF Final
  <2> DEFINE R == [old EXCEPT !.status = "failed"]
  <2>2. /\ R \in Group /\ R.history = old.history /\ R.status = "failed"
        /\ R.deposits = old.deposits /\ R.retries = old.retries
    BY Zenon, <1>2, <2>1, ChangedStatus
  <2> HIDE DEF R
  <2>3. GroupOk(R)
    BY Zenon, <1>2, <1>4, <2>2, ConfigAssumption DEF GroupOk, Final
  <2>4. Outdated(g) = R
    BY Zenon, <1>3, <1>4 DEF R
  <2> QED
    BY Zenon, <1>2, <2>2, <2>3, <2>4
<1>5. CASE ~(old.retries >= MaxRetries)
  BY Zenon, <1>2, <1>3, <1>5
<1> QED
  BY Zenon, <1>4, <1>5
-----------------------------------------------------------------------------
(***************************************************************************)
(* The steps.                                                              *)
(***************************************************************************)
\* The initial state.
LEMMA InitInv == Init => CInv
<1> SUFFICES ASSUME Init PROVE CInv
  BY Zenon
<1>1. TypeOK
  BY DEF Init, TypeOK
<1>2. HistoryInv
  BY DEF Init, HistoryInv
<1>3. RowInv
  BY DEF Init, RowInv
<1>4. CycleInv
  BY Zenon DEF Init, CycleInv
<1> QED
  BY Zenon, <1>1, <1>2, <1>3, <1>4 DEF CInv

\* The calls that succeed decide what is carried.
LEMMA CarriedGrows ==
  ASSUME chain \in Seq(Tx), chain' \in Seq(Tx), Len(chain') = Len(chain),
         NEW t \in 1..Len(chain), chain[t].fate = "pool",
         \A u \in 1..Len(chain) : u # t => chain'[u] = chain[u],
         chain'[t].deposits = chain[t].deposits
  PROVE  Carried' = IF chain'[t].fate = "claimed" THEN Carried \cup chain[t].deposits
                    ELSE Carried
<1>1. DOMAIN chain = 1..Len(chain) /\ DOMAIN chain' = 1..Len(chain)
  OBVIOUS
<1>2. chain[t].deposits \subseteq Deposit
  <2>1. chain[t] \in Tx
    BY Zenon, InSeq
  <2> QED
    BY Zenon, <2>1 DEF Tx
<1>3. ASSUME NEW d \in Deposit
      PROVE  d \in Carried' <=> \/ d \in Carried
                                \/ chain'[t].fate = "claimed" /\ d \in chain[t].deposits
  BY Zenon, <1>1 DEF Carried
<1>4. Carried \subseteq Deposit /\ Carried' \subseteq Deposit
  BY Zenon DEF Carried
<1> QED
  BY Zenon, <1>2, <1>3, <1>4

\* What is carried stays when the calls keep their fate, and new ones have none.
LEMMA CarriedStays ==
  ASSUME chain \in Seq(Tx), chain' \in Seq(Tx), Len(chain) <= Len(chain'),
         \A u \in 1..Len(chain) :
           chain'[u].fate = chain[u].fate /\ chain'[u].deposits = chain[u].deposits,
         \A u \in 1..Len(chain') : u > Len(chain) => chain'[u].fate = "pool"
  PROVE  Carried' = Carried
<1>1. /\ DOMAIN chain = 1..Len(chain) /\ DOMAIN chain' = 1..Len(chain')
      /\ Len(chain) \in Nat /\ Len(chain') \in Nat
  OBVIOUS
<1>2. \A u \in 1..Len(chain) : u \in 1..Len(chain')
  BY <1>1
<1>3. \A u \in 1..Len(chain') : chain'[u].fate = "claimed" => u \in 1..Len(chain)
  BY <1>1
<1> QED
  BY Zenon, <1>1, <1>2, <1>3 DEF Carried

\* What the groups of the database and of the cycle rely on is kept when the chain only
\* grows and no success is lost.
LEMMA HistoryStays ==
  ASSUME HistoryInv, UNCHANGED <<groups, work>>, Len(chain) <= Len(chain'),
         Len(chain) \in Nat, Len(chain') \in Nat,
         \A t \in 1..Len(chain) : chain'[t].deposits = chain[t].deposits,
         Carried \subseteq Carried'
  PROVE  HistoryInv'
<1>1. ASSUME NEW g \in 1..Len(groups) PROVE (GroupOk(groups[g]) /\ ChainOk(groups[g]))'
  <2>1. groups' = groups /\ GroupOk(groups[g]) /\ ChainOk(groups[g])
    BY Zenon DEF HistoryInv
  <2>2. GroupOk(groups[g])'
    BY Zenon, <2>1 DEF GroupOk, Final
  <2>3. ChainOk(groups[g])'
    <3>1. ASSUME NEW i \in 1..Len(groups[g].history)
          PROVE  /\ groups[g].history[i].tx \in 1..Len(chain')
                 /\ chain'[groups[g].history[i].tx].deposits = groups[g].deposits
      <4>1. /\ groups[g].history[i].tx \in 1..Len(chain)
            /\ chain[groups[g].history[i].tx].deposits = groups[g].deposits
        BY Zenon, <2>1 DEF ChainOk
      <4> QED
        BY <4>1
    <3>2. groups[g].status = "confirmed" => groups[g].deposits \subseteq Carried'
      BY Zenon, <2>1 DEF ChainOk
    <3> QED
      BY Zenon, <2>1, <3>1, <3>2 DEF ChainOk
  <2> QED
    BY Zenon, <2>2, <2>3
<1>2. ASSUME NEW g \in 1..Len(work) PROVE (GroupOk(work[g]) /\ ChainOk(work[g]))'
  <2>1. work' = work /\ GroupOk(work[g]) /\ ChainOk(work[g])
    BY Zenon DEF HistoryInv
  <2>2. GroupOk(work[g])'
    BY Zenon, <2>1 DEF GroupOk, Final
  <2>3. ChainOk(work[g])'
    <3>1. ASSUME NEW i \in 1..Len(work[g].history)
          PROVE  /\ work[g].history[i].tx \in 1..Len(chain')
                 /\ chain'[work[g].history[i].tx].deposits = work[g].deposits
      <4>1. /\ work[g].history[i].tx \in 1..Len(chain)
            /\ chain[work[g].history[i].tx].deposits = work[g].deposits
        BY Zenon, <2>1 DEF ChainOk
      <4> QED
        BY <4>1
    <3>2. work[g].status = "confirmed" => work[g].deposits \subseteq Carried'
      BY Zenon, <2>1 DEF ChainOk
    <3> QED
      BY Zenon, <2>1, <3>1, <3>2 DEF ChainOk
  <2> QED
    BY Zenon, <2>2, <2>3
<1> QED
  BY Zenon, <1>1, <1>2 DEF HistoryInv

\* The rows stay as they are.
LEMMA RowsStay ==
  ASSUME RowInv, UNCHANGED dbVars, Carried \subseteq Carried'
  PROVE  RowInv'
  BY DEF RowInv, dbVars, Uniform

\* Which groups have pending rows depends on the rows only.
LEMMA PendingStays ==
  ASSUME UNCHANGED <<txStatus, groupOf>>
  PROVE  Pending' = Pending
  BY Zenon DEF Pending, GetClaimTxsByStatus

\* A group with pending rows is a group of the database that is not finished.
LEMMA PendingGroups ==
  ASSUME TypeOK, RowInv, NEW g \in Pending
  PROVE  g \in 1..Len(groups) /\ groups[g].status \notin Final
  BY DEF TypeOK, RowInv, Pending, GetClaimTxsByStatus

\* The cycle stays where it is.
LEMMA CycleStays ==
  ASSUME CycleInv, UNCHANGED <<dbVars, cycleVars>>
  PROVE  CycleInv'
<1>1. Pending' = Pending
  BY Zenon, PendingStays DEF dbVars
<1> QED
  BY Zenon, <1>1 DEF CycleInv, dbVars, cycleVars, Uniform

\* A transaction is mined.
LEMMA MineStep ==
  ASSUME CInv, NEW t \in DOMAIN chain, Mine(t)
  PROVE  CInv' /\ Carried' \in {Carried, Carried \cup chain[t].deposits}
<1> USE DEF CInv
<1>1. PICK S \in SUBSET (chain[t].deposits \ claimed) :
        /\ claimed' = claimed \cup S
        /\ chain' = [chain EXCEPT ![t].fate = IF S = {} THEN "failed" ELSE "claimed"]
  BY Zenon DEF Mine
<1> DEFINE fate == IF S = {} THEN "failed" ELSE "claimed"
<1>a. chain' = [chain EXCEPT ![t].fate = fate] /\ fate \in {"failed", "claimed"}
  BY Zenon, <1>1
<1> HIDE DEF fate
<1>2. chain \in Seq(Tx) /\ t \in 1..Len(chain) /\ claimed \subseteq Deposit
  BY DEF TypeOK
<1>3. chain[t] \in Tx
  BY Zenon, <1>2, InSeq
<1>4. [chain[t] EXCEPT !.fate = fate] \in Tx /\ [chain[t] EXCEPT !.fate = fate].fate = fate
      /\ [chain[t] EXCEPT !.fate = fate].deposits = chain[t].deposits
  BY Zenon, <1>a, <1>3 DEF Tx
<1>5. /\ chain' \in Seq(Tx) /\ Len(chain') = Len(chain)
      /\ \A u \in 1..Len(chain) : chain'[u].deposits = chain[u].deposits
      /\ \A u \in 1..Len(chain) : u # t => chain'[u] = chain[u]
      /\ chain'[t].fate = fate
  <2> DEFINE c == [chain[t] EXCEPT !.fate = fate]
  <2>1. chain' = [chain EXCEPT ![t] = c]
    BY Zenon, <1>a
  <2>2. c \in Tx /\ c.fate = fate /\ c.deposits = chain[t].deposits
    BY Zenon, <1>4
  <2> HIDE DEF c
  <2>3. /\ chain' \in Seq(Tx) /\ Len(chain') = Len(chain) /\ chain'[t] = c
        /\ \A u \in 1..Len(chain) : u # t => chain'[u] = chain[u]
    BY <1>2, <2>1, <2>2, ExceptSeq
  <2> QED
    BY Zenon, <2>2, <2>3
<1>6. claimed' \subseteq Deposit
  BY Zenon, <1>1, <1>2, <1>3 DEF Tx
<1>b. Carried \subseteq Carried' /\ Carried' \in {Carried, Carried \cup chain[t].deposits}
  <2>1. chain[t].fate = "pool"
    BY Zenon DEF Mine
  <2>2. Carried' = IF chain'[t].fate = "claimed" THEN Carried \cup chain[t].deposits
                   ELSE Carried
    BY Zenon, <1>2, <1>5, <2>1, CarriedGrows
  <2> QED
    BY Zenon, <2>2
<1>7. UNCHANGED <<dbVars, cycleVars>>
  BY Zenon DEF Mine
<1>8. TypeOK'
  BY Zenon, <1>5, <1>6, <1>7 DEF TypeOK, dbVars, cycleVars
<1>9. HistoryInv'
  BY <1>2, <1>5, <1>b, <1>7, HistoryStays DEF dbVars, cycleVars
<1>10. RowInv'
  BY Zenon, <1>b, <1>7, RowsStay
<1>11. CycleInv'
  BY Zenon, <1>7, CycleStays
<1> QED
  BY Zenon, <1>b, <1>8, <1>9, <1>10, <1>11

\* Time passes.
LEMMA TickStep ==
  ASSUME CInv, Tick
  PROVE  CInv' /\ Carried' = Carried
<1> USE DEF CInv
<1>1. /\ chain' = [t \in DOMAIN chain |-> [chain[t] EXCEPT !.age = Older(chain[t].age)]]
      /\ UNCHANGED <<dbVars, cycleVars, claimed>>
  BY Zenon DEF Tick
<1>2. chain \in Seq(Tx)
  BY Zenon DEF TypeOK
<1>3. \A t \in 1..Len(chain) :
        /\ [chain[t] EXCEPT !.age = Older(chain[t].age)] \in Tx
        /\ [chain[t] EXCEPT !.age = Older(chain[t].age)].fate = chain[t].fate
        /\ [chain[t] EXCEPT !.age = Older(chain[t].age)].deposits = chain[t].deposits
  <2> SUFFICES ASSUME NEW t \in 1..Len(chain)
               PROVE  /\ [chain[t] EXCEPT !.age = Older(chain[t].age)] \in Tx
                      /\ [chain[t] EXCEPT !.age = Older(chain[t].age)].fate = chain[t].fate
                      /\ [chain[t] EXCEPT !.age = Older(chain[t].age)].deposits
                           = chain[t].deposits
    BY Zenon
  <2>1. chain[t] \in Tx
    BY Zenon, <1>2, InSeq
  <2>2. Older(chain[t].age) \in Nat
    BY <2>1 DEF Older, Tx
  <2> QED
    BY Zenon, <2>1, <2>2 DEF Tx
<1>4. /\ chain' \in Seq(Tx) /\ Len(chain') = Len(chain)
      /\ \A u \in 1..Len(chain) :
           chain'[u].deposits = chain[u].deposits /\ chain'[u].fate = chain[u].fate
  <2>1. DOMAIN chain = 1..Len(chain) /\ Len(chain) \in Nat
    BY <1>2
  <2>2. chain' \in [1..Len(chain) -> Tx]
    BY Zenon, <1>1, <1>3, <2>1
  <2>3. chain' \in Seq(Tx) /\ Len(chain') = Len(chain)
    BY Zenon, <2>1, <2>2, SamePlaces
  <2>4. \A u \in 1..Len(chain) :
          chain'[u].deposits = chain[u].deposits /\ chain'[u].fate = chain[u].fate
    BY Zenon, <1>1, <1>3, <2>1
  <2> QED
    BY Zenon, <2>3, <2>4
<1>5. TypeOK'
  BY Zenon, <1>1, <1>4 DEF TypeOK, dbVars, cycleVars
<1>a. Carried' = Carried
  <2>1. Len(chain) <= Len(chain') /\ \A u \in 1..Len(chain') : ~(u > Len(chain))
    BY <1>2, <1>4
  <2> QED
    BY Zenon, <1>2, <1>4, <2>1, CarriedStays
<1>6. HistoryInv'
  <2>2. UNCHANGED <<groups, work>> /\ Len(chain) \in Nat /\ HistoryInv
    BY <1>1, <1>2 DEF dbVars, cycleVars
  <2> QED
    BY <1>4, <1>a, <2>2, HistoryStays
<1>7. RowInv'
  BY Zenon, <1>1, <1>a, RowsStay
<1>8. CycleInv'
  BY Zenon, <1>1, CycleStays
<1> QED
  BY Zenon, <1>a, <1>5, <1>6, <1>7, <1>8

\* A row is added: it is in no group, and no candidate of the cycle.
LEMMA AddStep ==
  ASSUME CInv, NEW d \in Deposit, AddClaimTx(d)
  PROVE  CInv'
<1> USE DEF CInv
<1>1. /\ txStatus[d] = "none" /\ txStatus' = [txStatus EXCEPT ![d] = "created"]
      /\ queue' = Append(queue, d)
      /\ UNCHANGED <<groupOf, groups, chain, claimed, Carried, pc, todo, work, cand>>
  BY Zenon DEF AddClaimTx, chainVars, cycleVars, Carried
<1>2. /\ queue \in Seq(Deposit) /\ Len(queue) \in Nat
      /\ txStatus \in [Deposit -> {"none", "created"} \cup Final]
  BY DEF TypeOK
<1>3. groupOf[d] = 0
  BY Zenon, <1>1 DEF RowInv
<1>4. /\ queue' \in Seq(Deposit) /\ Len(queue') = Len(queue) + 1 /\ queue'[Len(queue) + 1] = d
      /\ \A n \in 1..Len(queue) : queue'[n] = queue[n]
  BY <1>1, <1>2
<1>5. /\ txStatus' \in [Deposit -> {"none", "created"} \cup Final]
      /\ txStatus'[d] = "created"
      /\ \A e \in Deposit : e # d => txStatus'[e] = txStatus[e]
  BY Zenon, <1>1, <1>2
<1>6. TypeOK'
  BY Zenon, <1>1, <1>4, <1>5 DEF TypeOK, Final
<1>7. HistoryInv'
  BY <1>1, HistoryStays DEF HistoryInv, TypeOK
<1>8. RowInv'
  <2>1. ASSUME NEW e \in Deposit
        PROVE  /\ groupOf[e] # 0 =>
                    /\ groupOf[e] \in 1..Len(groups)
                    /\ e \in groups[groupOf[e]].deposits
                    /\ txStatus'[e] = "created" <=> groups[groupOf[e]].status \notin Final
               /\ txStatus'[e] = "none" => groupOf[e] = 0
               /\ txStatus'[e] = "created" => \E n \in 1..Len(queue') : queue'[n] = e
               /\ txStatus'[e] = "confirmed" => e \in Carried
    <3>1. CASE e = d
      BY <1>2, <1>3, <1>4, <1>5, <3>1
    <3>2. CASE e # d
      <4>1. txStatus'[e] = txStatus[e]
        BY Zenon, <1>5, <3>2
      <4>2. txStatus[e] = "created" => \E n \in 1..Len(queue') : queue'[n] = e
        BY <1>2, <1>4 DEF RowInv
      <4> QED
        BY Zenon, <4>1, <4>2 DEF RowInv
    <3> QED
      BY Zenon, <3>1, <3>2
  <2>2. \A g \in 1..Len(groups) :
          Uniform(groups[g].deposits) /\ \A e \in groups[g].deposits : groupOf[e] = g
    BY Zenon DEF RowInv
  <2> QED
    BY <1>1, <2>1, <2>2 DEF RowInv, Uniform, Final
<1>9. Pending' = Pending
  <2>1. \A e \in Deposit : groupOf[e] # 0 => txStatus'[e] = txStatus[e]
    BY Zenon, <1>3, <1>5
  <2> QED
    BY Zenon, <1>1, <2>1 DEF Pending, GetClaimTxsByStatus
<1>10. CycleInv'
  <2>1. \A e \in Deposit : txStatus[e] = "created" => txStatus'[e] = "created"
    BY Zenon, <1>5
  <2>2. \A i \in 1..Len(cand) : cand[i] \in Deposit
    BY DEF TypeOK
  <2>3. \A g \in 1..Len(work) : work[g].deposits \subseteq Deposit
    <3>1. work \in Seq(Group)
      BY Zenon DEF TypeOK
    <3>2. \A g \in 1..Len(work) : work[g] \in Group
      BY Zenon, <3>1, InSeq
    <3> QED
      BY Zenon, <3>2 DEF Group
  <2>4. Len(work) \in Nat /\ Len(groups) \in Nat
    BY DEF TypeOK
  <2>5. pc # "idle" =>
          \A i \in 1..Len(cand) :
             /\ groupOf[cand[i]] = 0 /\ txStatus'[cand[i]] = "created"
             /\ \A j \in 1..Len(cand) : GlobalExitRoot[cand[i]] = GlobalExitRoot[cand[j]]
    BY Zenon, <2>1, <2>2 DEF CycleInv
  <2>6. pc # "idle" /\ Len(work) # Len(groups) =>
          \A e \in work[Len(work)].deposits : groupOf[e] = 0 /\ txStatus'[e] = "created"
    BY <2>1, <2>3, <2>4 DEF CycleInv
  <2>7. pc # "idle" /\ Len(work) # Len(groups) => Uniform(work[Len(work)].deposits)
    BY Zenon DEF CycleInv
  <2> QED
    BY <1>1, <1>9, <2>5, <2>6, <2>7 DEF CycleInv, Uniform, Final
<1> QED
  BY Zenon, <1>6, <1>7, <1>8, <1>10

\* The cycle ends without having written anything.
LEMMA RollbackStep ==
  ASSUME CInv, Rollback
  PROVE  CInv'
<1> USE DEF CInv
<1>1. /\ pc' = "idle" /\ todo' = {} /\ work' = << >> /\ cand' = << >>
      /\ UNCHANGED <<queue, txStatus, groupOf, groups, chain, claimed, Carried>>
  BY Zenon DEF Rollback, EndCycle, dbVars, chainVars, Carried
<1>2. TypeOK'
  BY <1>1 DEF TypeOK
<1>3. HistoryInv'
  BY <1>1 DEF HistoryInv, GroupOk, ChainOk, Final
<1>4. RowInv'
  BY Zenon, <1>1, RowsStay DEF dbVars
<1>5. CycleInv'
  BY Zenon, <1>1 DEF CycleInv
<1> QED
  BY Zenon, <1>2, <1>3, <1>4, <1>5

\* The candidates have the root of the oldest row, and there is one oldest row.
LEMMA OneRoot ==
  ASSUME TypeOK, RowInv, NEW d \in Deposit, NEW e \in Deposit,
         IsCandidateToBeGrouped(d), IsCandidateToBeGrouped(e)
  PROVE  GlobalExitRoot[d] = GlobalExitRoot[e]
<1>1. PICK x \in Deposit : Oldest(x) /\ GlobalExitRoot[d] = GlobalExitRoot[x]
  BY Zenon DEF IsCandidateToBeGrouped
<1>2. PICK y \in Deposit : Oldest(y) /\ GlobalExitRoot[e] = GlobalExitRoot[y]
  BY Zenon DEF IsCandidateToBeGrouped
<1>3. PICK m \in 1..Len(queue) : queue[m] = x
  BY Zenon, <1>1 DEF Oldest, GetClaimTxsByStatus, RowInv
<1>4. PICK n \in 1..Len(queue) : queue[n] = y
  BY Zenon, <1>2 DEF Oldest, GetClaimTxsByStatus, RowInv
<1>5. DOMAIN queue = 1..Len(queue) /\ Len(queue) \in Nat
  BY DEF TypeOK
<1>6. ~(m < n) /\ ~(n < m)
  BY Zenon, <1>1, <1>2, <1>3, <1>4, <1>5 DEF Oldest, Before
<1>7. m = n
  BY <1>5, <1>6
<1> QED
  BY Zenon, <1>1, <1>2, <1>3, <1>4, <1>7

\* A cycle starts.
LEMMA GetPendingStep ==
  ASSUME CInv, GetPendingTxs
  PROVE  CInv'
<1> USE DEF CInv
<1>1. PICK n \in 0..Len(queue) : \E c \in [1..n -> Deposit] :
        /\ Candidates(c)
        /\ \/ UNCHANGED cycleVars
           \/ cand' = c /\ work' = groups /\ todo' = Pending /\ pc' = "send"
  BY Zenon DEF GetPendingTxs
<1>2. PICK c \in [1..n -> Deposit] :
        /\ Candidates(c)
        /\ \/ UNCHANGED cycleVars
           \/ cand' = c /\ work' = groups /\ todo' = Pending /\ pc' = "send"
  BY Zenon, <1>1
<1>3. /\ UNCHANGED <<dbVars, chainVars>>
      /\ UNCHANGED <<queue, txStatus, groupOf, groups, chain, claimed, Carried>>
  BY Zenon DEF GetPendingTxs, dbVars, chainVars, Carried
<1>4. CASE UNCHANGED cycleVars
  <2>1. TypeOK'
    BY Zenon, <1>3, <1>4 DEF TypeOK, cycleVars
  <2>2. HistoryInv'
    <3>1. Len(chain) \in Nat /\ UNCHANGED <<groups, work, chain, claimed, Carried>> /\ HistoryInv
      BY <1>3, <1>4 DEF cycleVars, TypeOK
    <3> QED
      BY <3>1, HistoryStays
  <2>3. RowInv'
    BY Zenon, <1>3, RowsStay
  <2>4. CycleInv'
    BY Zenon, <1>3, <1>4, CycleStays
  <2> QED
    BY Zenon, <2>1, <2>2, <2>3, <2>4
<1>5. CASE cand' = c /\ work' = groups /\ todo' = Pending /\ pc' = "send"
  <2>1. n \in Nat /\ Len(queue) \in Nat
    BY DEF TypeOK
  <2>2. c \in Seq(Deposit) /\ Len(c) = n /\ DOMAIN c = 1..n
    BY Zenon, <2>1, SamePlaces
  <2>3. TypeOK'
    BY Zenon, <1>3, <1>5, <2>2 DEF TypeOK
  <2>4. HistoryInv'
    <3>1. ASSUME NEW g \in 1..Len(groups)
          PROVE  (GroupOk(groups[g]) /\ ChainOk(groups[g]))'
      BY Zenon, <1>3 DEF HistoryInv, GroupOk, ChainOk, Final
    <3>2. ASSUME NEW g \in 1..Len(groups)
          PROVE  (GroupOk(work[g]) /\ ChainOk(work[g]))'
      BY Zenon, <1>3, <1>5 DEF HistoryInv, GroupOk, ChainOk, Final
    <3> QED
      BY Zenon, <1>3, <1>5, <3>1, <3>2 DEF HistoryInv
  <2>5. RowInv'
    BY Zenon, <1>3, RowsStay
  <2>6. CycleInv'
    <3>1. Pending' = Pending
      BY Zenon, <1>3, PendingStays
    <3>2. \A i \in 1..n : c[i] \in Deposit /\ txStatus[c[i]] = "created"
                             /\ IsCandidateToBeGrouped(c[i])
      BY Zenon, <1>2, <2>2 DEF Candidates, GetClaimTxsByStatus
    <3>3. \A i \in 1..n : groupOf[c[i]] = 0
      BY Zenon, <3>2 DEF IsCandidateToBeGrouped
    <3>4. \A i, j \in 1..n : GlobalExitRoot[c[i]] = GlobalExitRoot[c[j]]
      BY Zenon, <3>2, OneRoot
    <3>5. Len(groups) \in Nat
      BY DEF TypeOK
    <3>6. \A g \in Pending : groups[g].status \notin Final
      BY Zenon, PendingGroups
    <3> QED
      BY <1>3, <1>5, <2>2, <3>1, <3>2, <3>3, <3>4, <3>5, <3>6 DEF CycleInv, Final
  <2> QED
    BY Zenon, <2>3, <2>4, <2>5, <2>6
<1> QED
  BY Zenon, <1>2, <1>4, <1>5

\* One group of the cycle becomes R, while the chain may grow.
LEMMA GroupChanges ==
  ASSUME TypeOK, HistoryInv, groups' = groups, Carried' = Carried, chain' \in Seq(Tx),
         Len(chain) <= Len(chain'), \A t \in 1..Len(chain) : chain'[t] = chain[t],
         NEW g \in 1..Len(work), NEW R \in Group, work' = [work EXCEPT ![g] = R],
         GroupOk(R), R.status = "confirmed" => R.deposits \subseteq Carried,
         \A i \in 1..Len(R.history) :
           /\ R.history[i].tx \in 1..Len(chain')
           /\ chain'[R.history[i].tx].deposits = R.deposits
  PROVE  /\ HistoryInv'
         /\ work' \in Seq(Group) /\ Len(work') = Len(work) /\ work'[g] = R
         /\ \A h \in 1..Len(work) : h # g => work'[h] = work[h]
<1>1. Len(chain) \in Nat /\ Len(chain') \in Nat /\ work \in Seq(Group)
  BY DEF TypeOK
<1>2. /\ work' \in Seq(Group) /\ Len(work') = Len(work) /\ work'[g] = R
      /\ \A h \in 1..Len(work) : h # g => work'[h] = work[h]
  BY <1>1, ExceptSeq
<1>3. ASSUME NEW G, ChainOk(G)
      PROVE  /\ \A i \in 1..Len(G.history) :
                  /\ G.history[i].tx \in 1..Len(chain')
                  /\ chain'[G.history[i].tx].deposits = G.deposits
             /\ G.status = "confirmed" => G.deposits \subseteq Carried
  <2> SUFFICES ASSUME NEW i \in 1..Len(G.history)
               PROVE  /\ G.history[i].tx \in 1..Len(chain')
                      /\ chain'[G.history[i].tx].deposits = G.deposits
    BY Zenon, <1>3 DEF ChainOk
  <2>1. /\ G.history[i].tx \in 1..Len(chain)
        /\ chain[G.history[i].tx].deposits = G.deposits
    BY Zenon, <1>3 DEF ChainOk
  <2> QED
    BY <1>1, <2>1
<1>4. ASSUME NEW h \in 1..Len(groups)
      PROVE  (GroupOk(groups[h]) /\ ChainOk(groups[h]))'
  <2>1. GroupOk(groups[h]) /\ ChainOk(groups[h])
    BY Zenon DEF HistoryInv
  <2>2. GroupOk(groups[h])'
    BY Zenon, <2>1 DEF GroupOk, Final
  <2>3. ChainOk(groups[h])'
    BY Zenon, <1>3, <2>1 DEF ChainOk
  <2> QED
    BY Zenon, <2>2, <2>3
<1>5. ASSUME NEW h \in 1..Len(work)
      PROVE  (GroupOk(work[h]) /\ ChainOk(work[h]))'
  <2>1. CASE h = g
    <3>1. GroupOk(work[h])'
      BY Zenon, <1>2, <2>1 DEF GroupOk, Final
    <3>2. ChainOk(work[h])'
      BY Zenon, <1>2, <2>1 DEF ChainOk
    <3> QED
      BY Zenon, <3>1, <3>2
  <2>2. CASE h # g
    <3>1. GroupOk(work[h]) /\ ChainOk(work[h]) /\ work'[h] = work[h]
      BY Zenon, <1>2, <2>2 DEF HistoryInv
    <3>2. GroupOk(work[h])'
      BY Zenon, <3>1 DEF GroupOk, Final
    <3>3. ChainOk(work[h])'
      <4>1. /\ \A i \in 1..Len(work[h].history) :
                 /\ work[h].history[i].tx \in 1..Len(chain')
                 /\ chain'[work[h].history[i].tx].deposits = work[h].deposits
            /\ work[h].status = "confirmed" => work[h].deposits \subseteq Carried
        BY Zenon, <1>3, <3>1
      <4> QED
        BY Zenon, <3>1, <4>1 DEF ChainOk
    <3> QED
      BY Zenon, <3>2, <3>3
  <2> QED
    BY Zenon, <2>1, <2>2
<1>6. HistoryInv'
  BY Zenon, <1>2, <1>4, <1>5 DEF HistoryInv
<1> QED
  BY Zenon, <1>2, <1>6

\* The groups of the cycle change, and they stay the groups of the database.
LEMMA CycleGoesOn ==
  ASSUME CInv, pc \notin {"idle", "commit"}, pc' \notin {"idle", "commit"},
         UNCHANGED <<dbVars, cand>>, Len(work') = Len(work),
         \A g \in 1..Len(work) :
           /\ work'[g].deposits = work[g].deposits
           /\ g \notin Pending => work'[g].status = work[g].status,
         todo' \subseteq Pending,
         pc' = "send" => \A g \in todo' : work'[g].status \notin Final
  PROVE  CycleInv'
<1>1. UNCHANGED <<queue, txStatus, groupOf, groups>>
  BY Zenon DEF dbVars
<1>2. Pending' = Pending
  BY Zenon, <1>1, PendingStays
<1>3. Len(work) = Len(groups) /\ Len(groups) \in Nat
  BY DEF CInv, CycleInv, TypeOK
<1>4. \A g \in 1..Len(groups) :
        /\ work'[g].deposits = groups[g].deposits
        /\ g \notin Pending => work'[g].status = groups[g].status
  BY Zenon, <1>3 DEF CInv, CycleInv
<1>5. \A i \in 1..Len(cand) :
        /\ groupOf[cand[i]] = 0 /\ txStatus[cand[i]] = "created"
        /\ \A j \in 1..Len(cand) : GlobalExitRoot[cand[i]] = GlobalExitRoot[cand[j]]
  BY Zenon DEF CInv, CycleInv
<1> QED
  BY <1>1, <1>2, <1>3, <1>4, <1>5 DEF CycleInv, Final

\* Claims are sent.
LEMMA SendStep ==
  ASSUME CInv, SendClaims
  PROVE  CInv' /\ Carried' = Carried
<1> USE DEF CInv
<1>1. /\ pc = "send" /\ UNCHANGED <<dbVars, claimed, cand>>
      /\ UNCHANGED <<queue, txStatus, groupOf, groups>>
      /\ pc' \in {"send", "receipts"}
  BY Zenon DEF SendClaims, dbVars
<1>2. /\ todo \subseteq Pending /\ Pending \subseteq 1..Len(groups)
      /\ Len(work) = Len(groups) /\ Len(groups) \in Nat /\ Len(chain) \in Nat
      /\ \A g \in todo : work[g].status \notin Final
      /\ work \in Seq(Group) /\ chain \in Seq(Tx)
  BY <1>1, PendingGroups DEF CycleInv, TypeOK
<1>a. /\ chain' \in Seq(Tx) /\ Len(chain') \in Nat /\ Len(chain) <= Len(chain')
      /\ \A u \in 1..Len(chain) : chain'[u] = chain[u]
      /\ \A u \in 1..Len(chain') : u > Len(chain) => chain'[u].fate = "pool"
  <2>1. CASE chain' = chain
    BY <1>2, <2>1
  <2>2. ASSUME NEW g \in todo, chain' = Call(g)
        PROVE  /\ chain' \in Seq(Tx) /\ Len(chain') \in Nat /\ Len(chain) <= Len(chain')
               /\ \A u \in 1..Len(chain) : chain'[u] = chain[u]
               /\ \A u \in 1..Len(chain') : u > Len(chain) => chain'[u].fate = "pool"
    <3>1. groups \in Seq(Group) /\ g \in 1..Len(groups)
      BY Zenon, <1>2 DEF TypeOK
    <3>2. groups[g] \in Group
      BY Zenon, <3>1, InSeq
    <3> DEFINE t == [deposits |-> groups[g].deposits, fate |-> "pool", age |-> 0]
    <3>3. t \in Tx /\ t.fate = "pool"
      BY <3>2 DEF Tx, Group
    <3>4. chain' = Append(chain, t)
      BY Zenon, <2>2 DEF Call
    <3> HIDE DEF t
    <3> QED
      BY <1>2, <3>3, <3>4
  <2>3. chain' = chain \/ \E g \in todo : chain' = Call(g)
    BY Zenon DEF SendClaims, Send
  <2> QED
    BY Zenon, <2>1, <2>2, <2>3
<1>b. Carried' = Carried
  BY Zenon, <1>2, <1>a, CarriedStays
<1>3. RowInv'
  BY Zenon, <1>1, <1>b, RowsStay
<1>4. CASE UNCHANGED work /\ todo' \subseteq Pending
           /\ (pc' = "send" => todo' \subseteq todo)
  <2>1. TypeOK'
    BY Zenon, <1>1, <1>a, <1>4 DEF TypeOK
  <2>2. HistoryInv'
    BY <1>1, <1>2, <1>a, <1>b, <1>4, HistoryStays
  <2>3. pc' = "send" => \A g \in todo' : work'[g].status \notin Final
    BY Zenon, <1>2, <1>4
  <2>4. CycleInv'
    BY Zenon, <1>1, <1>4, <2>3, CycleGoesOn
  <2> QED
    BY Zenon, <1>b, <1>3, <2>1, <2>2, <2>4
<1>5. ASSUME NEW g \in todo, todo' = todo \ {g}, pc' = "send", CanSendNewClaimCall(g), Send(g)
      PROVE  CInv'
  <2> DEFINE t == [deposits |-> groups[g].deposits, fate |-> "pool", age |-> 0]
             R == Sent(work[g], Len(chain) + 1)
  <2>1. g \in 1..Len(work) /\ work[g] \in Group /\ work[g].status \notin Final
    BY Zenon, <1>2, InSeq
  <2>2. GroupOk(work[g]) /\ ChainOk(work[g])
    BY Zenon, <2>1 DEF HistoryInv
  <2>3. work[g].history \in Seq(Entry)
    BY Zenon, <2>1 DEF Group
  <2>4. \A i \in 1..Len(work[g].history) : work[g].history[i].receipt # "pending"
    <3>1. CASE work[g].status = "created" \/ work[g].history = << >>
      BY <2>2, <3>1 DEF GroupOk
    <3>2. CASE ~(work[g].status = "created" \/ work[g].history = << >>)
      BY <1>5, <2>3, <3>2 DEF CanSendNewClaimCall, PendingTxs, History
    <3> QED
      BY Zenon, <3>1, <3>2
  <2>5. /\ R \in Group /\ GroupOk(R) /\ R.deposits = work[g].deposits
        /\ R.status = "claiming"
        /\ R.history = Append(work[g].history, [tx |-> Len(chain) + 1, receipt |-> "pending"])
    BY <1>2, <2>1, <2>2, <2>4, SentGroup
  <2>6. work' = [work EXCEPT ![g] = R]
    BY Zenon, <1>5, <1>2, <2>1 DEF Send, Sent
  <2>7. t \in Tx /\ t.deposits = work[g].deposits /\ t.fate = "pool"
    <3>1. groups[g].deposits = work[g].deposits
      BY Zenon, <1>1, <1>2 DEF CycleInv
    <3>2. work[g].deposits \in SUBSET Deposit
      BY Zenon, <2>1 DEF Group
    <3> QED
      BY Zenon, <3>1, <3>2 DEF Tx
  <2>8. chain' = Append(chain, t)
    BY Zenon, <1>5 DEF Send, Call
  <2> HIDE DEF R, t
  <2>9. /\ chain' \in Seq(Tx) /\ Len(chain') = Len(chain) + 1 /\ chain'[Len(chain) + 1] = t
        /\ \A u \in 1..Len(chain) : chain'[u] = chain[u]
    BY <1>2, <2>7, <2>8
  <2>10. \A i \in 1..Len(R.history) :
           /\ R.history[i].tx \in 1..Len(chain')
           /\ chain'[R.history[i].tx].deposits = R.deposits
    <3> SUFFICES ASSUME NEW i \in 1..Len(R.history)
                 PROVE  /\ R.history[i].tx \in 1..Len(chain')
                        /\ chain'[R.history[i].tx].deposits = R.deposits
      BY Zenon
    <3>1. Len(R.history) = Len(work[g].history) + 1 /\ Len(work[g].history) \in Nat
      BY <2>3, <2>5
    <3>2. CASE i = Len(work[g].history) + 1
      <4>1. R.history[i].tx = Len(chain) + 1
        BY <2>3, <2>5, <3>2
      <4> QED
        BY <1>2, <2>5, <2>7, <2>9, <4>1
    <3>3. CASE i \in 1..Len(work[g].history)
      <4>1. R.history[i] = work[g].history[i]
        BY <2>3, <2>5, <3>3
      <4>2. /\ work[g].history[i].tx \in 1..Len(chain)
            /\ chain[work[g].history[i].tx].deposits = work[g].deposits
        BY Zenon, <2>2, <3>3 DEF ChainOk
      <4> QED
        BY <1>2, <2>5, <2>9, <4>1, <4>2
    <3> QED
      BY <3>1, <3>2, <3>3
  <2>11. /\ HistoryInv'
         /\ work' \in Seq(Group) /\ Len(work') = Len(work) /\ work'[g] = R
         /\ \A h \in 1..Len(work) : h # g => work'[h] = work[h]
    <3>1. /\ groups' = groups /\ Carried' = Carried /\ Len(chain) <= Len(chain')
          /\ R.status = "confirmed" => R.deposits \subseteq Carried
      BY <1>1, <1>2, <1>b, <2>5, <2>9
    <3> QED
      BY Zenon, <2>1, <2>5, <2>6, <2>9, <2>10, <3>1, GroupChanges
  <2>12. TypeOK'
    BY Zenon, <1>1, <1>5, <2>9, <2>11 DEF TypeOK
  <2>13. CycleInv'
    <3>1. \A h \in 1..Len(work) :
            /\ work'[h].deposits = work[h].deposits
            /\ h \notin Pending => work'[h].status = work[h].status
      BY Zenon, <1>2, <2>5, <2>11
    <3>2. \A h \in todo' : work'[h].status \notin Final
      BY Zenon, <1>2, <1>5, <2>11
    <3> QED
      BY Zenon, <1>1, <1>2, <1>5, <2>11, <3>1, <3>2, CycleGoesOn
  <2> QED
    BY Zenon, <1>3, <2>11, <2>12, <2>13
<1> QED
  BY Zenon, <1>1, <1>2, <1>b, <1>4, <1>5 DEF SendClaims

\* Receipts are looked at: a claim that has one is mined, and one that succeeded carried
\* the deposits of its group.
LEMMA ReceiptsStep ==
  ASSUME CInv, CheckReceipts
  PROVE  CInv'
<1> USE DEF CInv
<1>1. /\ pc = "receipts" /\ UNCHANGED <<dbVars, chain, claimed, Carried, cand>>
      /\ UNCHANGED <<queue, txStatus, groupOf, groups>>
      /\ pc' \in {"receipts", "outdate"}
  BY Zenon DEF CheckReceipts, dbVars, chainVars, Carried
<1>2. /\ todo \subseteq Pending /\ Pending \subseteq 1..Len(groups)
      /\ Len(work) = Len(groups) /\ Len(groups) \in Nat /\ Len(chain) \in Nat
      /\ work \in Seq(Group) /\ chain \in Seq(Tx)
  BY <1>1, PendingGroups DEF CycleInv, TypeOK
<1>3. RowInv'
  BY Zenon, <1>1, RowsStay
<1>4. CASE todo' = {} /\ UNCHANGED work
  <2>1. TypeOK'
    BY Zenon, <1>1, <1>4 DEF TypeOK
  <2>2. HistoryInv'
    BY <1>1, <1>2, <1>4, HistoryStays DEF HistoryInv
  <2>3. CycleInv'
    BY Zenon, <1>1, <1>4, CycleGoesOn
  <2> QED
    BY Zenon, <1>3, <2>1, <2>2, <2>3
<1>5. ASSUME NEW g \in todo, todo' = todo \ {g}, NEW F, NEW S,
             work' = [work EXCEPT ![g] = Finish(work[g], F, S)],
             \A i \in F \cup S : i \in PendingTxs(g) /\ work[g].status = "claiming",
             \A i \in S : ReceiptOk(History(g)[i].tx)
      PROVE  CInv'
  <2> DEFINE R == Finish(work[g], F, S)
  <2>1. g \in 1..Len(work) /\ work[g] \in Group
    BY Zenon, <1>2, InSeq
  <2>2. GroupOk(work[g]) /\ ChainOk(work[g])
    BY Zenon, <2>1 DEF HistoryInv
  <2>3. work[g].history \in Seq(Entry)
    BY Zenon, <2>1 DEF Group
  <2>4. \A i \in F \cup S :
          i \in 1..Len(work[g].history) /\ work[g].history[i].receipt = "pending"
    BY <1>5, <2>3 DEF PendingTxs, History
  <2>5. /\ R \in Group /\ GroupOk(R) /\ R.deposits = work[g].deposits
        /\ Len(R.history) = Len(work[g].history)
        /\ \A i \in 1..Len(work[g].history) : R.history[i].tx = work[g].history[i].tx
        /\ R.status = "confirmed" => S # {} \/ work[g].status = "confirmed"
    <3>1. CASE work[g].status = "claiming"
      BY <2>1, <2>2, <2>4, <3>1, FinishedGroup
    <3>2. CASE work[g].status # "claiming"
      <4>1. F = {} /\ S = {}
        BY Zenon, <1>5, <3>2
      <4>2. R = work[g]
        <5>1. [i \in DOMAIN work[g].history |-> work[g].history[i]] = work[g].history
          BY <2>3
        <5>2. R = [work[g] EXCEPT !.history = work[g].history, !.status = work[g].status]
          BY Zenon, <4>1, <5>1 DEF Finish
        <5> QED
          BY Zenon, <2>1, <5>2 DEF Group
      <4> QED
        BY Zenon, <2>1, <2>2, <4>2
    <3> QED
      BY Zenon, <3>1, <3>2
  <2> HIDE DEF R
  <2>6. R.status = "confirmed" => R.deposits \subseteq Carried
    <3>1. CASE S # {}
      <4>1. PICK i \in S : ReceiptOk(work[g].history[i].tx)
        BY Zenon, <1>5, <3>1 DEF History
      <4>2. /\ work[g].history[i].tx \in 1..Len(chain)
            /\ chain[work[g].history[i].tx].deposits = work[g].deposits
        BY Zenon, <2>2, <2>4 DEF ChainOk
      <4>3. DOMAIN chain = 1..Len(chain)
        BY <1>2
      <4>4. work[g].deposits \subseteq Deposit
        BY Zenon, <2>1 DEF Group
      <4> QED
        BY Zenon, <2>5, <4>1, <4>2, <4>3, <4>4 DEF ReceiptOk, Carried
    <3>2. CASE S = {}
      BY Zenon, <2>2, <2>5, <3>2 DEF ChainOk
    <3> QED
      BY Zenon, <3>1, <3>2
  <2>7. \A i \in 1..Len(R.history) :
          /\ R.history[i].tx \in 1..Len(chain')
          /\ chain'[R.history[i].tx].deposits = R.deposits
    BY Zenon, <1>1, <2>2, <2>5 DEF ChainOk
  <2>8. /\ HistoryInv'
        /\ work' \in Seq(Group) /\ Len(work') = Len(work) /\ work'[g] = R
        /\ \A h \in 1..Len(work) : h # g => work'[h] = work[h]
    <3>1. work' = [work EXCEPT ![g] = R]
      BY Zenon, <1>5 DEF R
    <3>2. /\ groups' = groups /\ Carried' = Carried /\ chain' \in Seq(Tx)
          /\ Len(chain) <= Len(chain')
          /\ \A u \in 1..Len(chain) : chain'[u] = chain[u]
      BY <1>1, <1>2
    <3> QED
      BY Zenon, <2>1, <2>5, <2>6, <2>7, <3>1, <3>2, GroupChanges
  <2>9. TypeOK'
    BY Zenon, <1>1, <2>8 DEF TypeOK
  <2>10. CycleInv'
    <3>1. \A h \in 1..Len(work) :
            /\ work'[h].deposits = work[h].deposits
            /\ h \notin Pending => work'[h].status = work[h].status
      BY Zenon, <1>2, <2>5, <2>8
    <3> QED
      BY Zenon, <1>1, <1>2, <1>5, <2>8, <3>1, CycleGoesOn
  <2> QED
    BY Zenon, <1>3, <2>8, <2>9, <2>10
<1>6. CASE todo # {} \/ todo' # {} \/ work' # work
  <2>1. PICK g \in todo :
          /\ todo' = todo \ {g}
          /\ \E R \in IF work[g].status = "claiming" THEN SUBSET PendingTxs(g) ELSE {{}} :
               LET mined == {i \in R : chain[History(g)[i].tx].fate # "pool"}
                   good == {i \in mined : ReceiptOk(History(g)[i].tx)}
                   first == {i \in good : \A j \in good : i <= j}
                   bad == {i \in mined \ good : \A j \in first : i < j}
               IN  work' = [work EXCEPT ![g] = Finish(@, bad, first)]
    BY Zenon, <1>6 DEF CheckReceipts
  <2>2. PICK R \in IF work[g].status = "claiming" THEN SUBSET PendingTxs(g) ELSE {{}} :
          LET mined == {i \in R : chain[History(g)[i].tx].fate # "pool"}
              good == {i \in mined : ReceiptOk(History(g)[i].tx)}
              first == {i \in good : \A j \in good : i <= j}
              bad == {i \in mined \ good : \A j \in first : i < j}
          IN  work' = [work EXCEPT ![g] = Finish(@, bad, first)]
    BY Zenon, <2>1
  <2> DEFINE mined == {i \in R : chain[History(g)[i].tx].fate # "pool"}
             good == {i \in mined : ReceiptOk(History(g)[i].tx)}
             first == {i \in good : \A j \in good : i <= j}
             bad == {i \in mined \ good : \A j \in first : i < j}
  <2>3. work' = [work EXCEPT ![g] = Finish(work[g], bad, first)]
    BY Zenon, <2>2
  <2>4. \A i \in bad \cup first : i \in PendingTxs(g) /\ work[g].status = "claiming"
    BY Zenon, <2>2
  <2>5. \A i \in first : ReceiptOk(History(g)[i].tx)
    BY Zenon
  <2> HIDE DEF mined, good, first, bad
  <2> QED
    BY Zenon, <1>5, <2>1, <2>3, <2>4, <2>5
<1> QED
  BY Zenon, <1>4, <1>6

\* Claims that are too old count as failed, and groups without retries fail.
LEMMA OutdateStep ==
  ASSUME CInv, OutdateClaims
  PROVE  CInv'
<1> USE DEF CInv
<1>1. /\ pc = "outdate" /\ pc' = "create" /\ UNCHANGED <<dbVars, chain, claimed, todo, cand>>
      /\ UNCHANGED <<queue, txStatus, groupOf, groups, Carried>>
      /\ work' = [g \in DOMAIN work |-> IF g \in Pending THEN Outdated(g) ELSE work[g]]
  BY Zenon DEF OutdateClaims, dbVars, chainVars, Carried
<1>2. /\ todo \subseteq Pending /\ Pending \subseteq 1..Len(groups)
      /\ Len(work) = Len(groups) /\ Len(groups) \in Nat /\ Len(chain) \in Nat
      /\ work \in Seq(Group) /\ DOMAIN work = 1..Len(work)
  BY <1>1, PendingGroups DEF CycleInv, TypeOK
<1>3. ASSUME NEW g \in 1..Len(work)
      PROVE  /\ work'[g] \in Group /\ GroupOk(work'[g])
             /\ work'[g].deposits = work[g].deposits
             /\ work'[g].status = "confirmed" => work[g].status = "confirmed"
             /\ Len(work'[g].history) = Len(work[g].history)
             /\ \A i \in 1..Len(work[g].history) :
                  work'[g].history[i].tx = work[g].history[i].tx
             /\ g \notin Pending => work'[g].status = work[g].status
  <2>1. CASE g \in Pending
    <3>1. work'[g] = Outdated(g)
      BY Zenon, <1>1, <1>2, <2>1
    <3> QED
      BY Zenon, <2>1, <3>1, OutdatedGroup
  <2>2. CASE g \notin Pending
    <3>1. work'[g] = work[g] /\ work[g] \in Group
      BY Zenon, <1>1, <1>2, <2>2, InSeq
    <3> QED
      BY Zenon, <3>1 DEF HistoryInv
  <2> QED
    BY Zenon, <2>1, <2>2
<1>4. work' \in Seq(Group) /\ Len(work') = Len(work)
  <2>1. DOMAIN work' = 1..Len(work) /\ work' \in [1..Len(work) -> Group]
    BY Zenon, <1>1, <1>2, <1>3
  <2> QED
    BY Zenon, <1>2, <2>1, SamePlaces
<1>5. TypeOK'
  BY Zenon, <1>1, <1>4 DEF TypeOK
<1>6. HistoryInv'
  <2>1. ASSUME NEW g \in 1..Len(groups)
        PROVE  (GroupOk(groups[g]) /\ ChainOk(groups[g]))'
    BY Zenon, <1>1 DEF HistoryInv, GroupOk, ChainOk, Final
  <2>2. ASSUME NEW g \in 1..Len(work)
        PROVE  (GroupOk(work[g]) /\ ChainOk(work[g]))'
    <3>1. GroupOk(work[g])'
      BY Zenon, <1>3 DEF GroupOk, Final
    <3>2. ChainOk(work[g])
      BY Zenon DEF HistoryInv
    <3>3. ChainOk(work[g])'
      <4>1. ASSUME NEW i \in 1..Len(work'[g].history)
            PROVE  /\ work'[g].history[i].tx \in 1..Len(chain)
                   /\ chain[work'[g].history[i].tx].deposits = work'[g].deposits
        <5>1. /\ i \in 1..Len(work[g].history)
              /\ work'[g].history[i].tx = work[g].history[i].tx
              /\ work'[g].deposits = work[g].deposits
          BY Zenon, <1>3
        <5> QED
          BY Zenon, <3>2, <5>1 DEF ChainOk
      <4>2. work'[g].status = "confirmed" => work'[g].deposits \subseteq Carried
        BY Zenon, <1>3, <3>2 DEF ChainOk
      <4> QED
        BY Zenon, <1>1, <4>1, <4>2 DEF ChainOk
    <3> QED
      BY Zenon, <3>1, <3>3
  <2> QED
    BY Zenon, <1>1, <1>4, <2>1, <2>2 DEF HistoryInv
<1>7. RowInv'
  BY Zenon, <1>1, RowsStay
<1>8. CycleInv'
  BY Zenon, <1>1, <1>2, <1>3, <1>4, CycleGoesOn
<1> QED
  BY Zenon, <1>5, <1>6, <1>7, <1>8

\* What a sequence lists are not more than it has places.
LEMMA FewerThanPlaces ==
  ASSUME NEW S, NEW s \in Seq(S)
  PROVE  /\ IsFiniteSet({s[i] : i \in DOMAIN s})
         /\ Cardinality({s[i] : i \in DOMAIN s}) <= Len(s)
<1> DEFINE T == {s[i] : i \in DOMAIN s}
           n == Len(s)
<1>1. n \in Nat /\ DOMAIN s = 1..n
  OBVIOUS
<1>2. s \in Surjection(1..n, T)
  BY <1>1 DEF Surjection
<1>3. IsFiniteSet(1..n) /\ Cardinality(1..n) = n
  BY <1>1, FS_Interval
<1> HIDE DEF T, n
<1>4. IsFiniteSet(T) /\ Cardinality(T) <= Cardinality(1..n)
  BY Zenon, <1>2, <1>3, FS_Surjection
<1> QED
  BY Zenon, <1>3, <1>4 DEF T, n

\* A new group is one: its deposits have one root and are not too many.
LEMMA ChosenGroup ==
  ASSUME CInv, pc # "idle", cand # << >>
  PROVE  /\ Uniform({ChooseGroupTx[i] : i \in DOMAIN ChooseGroupTx})
         /\ \A d \in {ChooseGroupTx[i] : i \in DOMAIN ChooseGroupTx} :
              d \in Deposit /\ groupOf[d] = 0 /\ txStatus[d] = "created"
<1> DEFINE cs == ChooseGroupTx
           S == {cs[i] : i \in DOMAIN cs}
<1>1. cand \in Seq(Deposit) /\ Len(cand) \in Nat /\ Len(cand) # 0
  BY DEF CInv, TypeOK
<1>2. /\ cs \in Seq(Deposit) /\ Len(cs) \in 1..Len(cand)
      /\ \A i \in 1..Len(cs) : cs[i] = cand[i]
      /\ MaxNumberOfClaimsPerGroup > 0 => Len(cs) <= MaxNumberOfClaimsPerGroup
  <2>0. MaxNumberOfClaimsPerGroup \in Nat
    BY Zenon, ConfigAssumption
  <2>1. CASE MaxNumberOfClaimsPerGroup \in 1..Len(cand)
    BY <1>1, <2>1 DEF ChooseGroupTx
  <2>2. CASE MaxNumberOfClaimsPerGroup \notin 1..Len(cand)
    BY <1>1, <2>0, <2>2 DEF ChooseGroupTx
  <2> QED
    BY Zenon, <2>1, <2>2
<1> HIDE DEF cs
<1>3. DOMAIN cs = 1..Len(cs) /\ Len(cs) \in Nat
  BY <1>2
<1>4. \A i \in 1..Len(cs) : cs[i] \in Deposit /\ groupOf[cs[i]] = 0 /\ txStatus[cs[i]] = "created"
  BY <1>1, <1>2 DEF CInv, CycleInv
<1>5. \A i, j \in 1..Len(cs) : GlobalExitRoot[cs[i]] = GlobalExitRoot[cs[j]]
  BY <1>1, <1>2 DEF CInv, CycleInv
<1>6. IsFiniteSet(S) /\ Cardinality(S) <= Len(cs)
  BY Zenon, <1>2, FewerThanPlaces
<1>7. S # {}
  <2>1. 1 \in DOMAIN cs
    BY <1>2, <1>3
  <2> QED
    BY Zenon, <2>1
<1>8. Cardinality(S) \in Nat
  BY Zenon, <1>6, FS_CardinalityType
<1>9. MaxNumberOfClaimsPerGroup > 0 => Cardinality(S) <= MaxNumberOfClaimsPerGroup
  <2> HIDE DEF S
  <2> QED
    BY <1>2, <1>3, <1>6, <1>8, ConfigAssumption
<1>10. \A d, e \in S : GlobalExitRoot[d] = GlobalExitRoot[e]
  BY <1>3, <1>5
<1>11. \A d \in S : d \in Deposit /\ groupOf[d] = 0 /\ txStatus[d] = "created"
  BY Zenon, <1>3, <1>4
<1> QED
  BY Zenon, <1>7, <1>9, <1>10, <1>11 DEF Uniform, cs

\* A new group of candidates is made.
LEMMA CreateStep ==
  ASSUME CInv, CreateNewGroups
  PROVE  CInv'
<1> USE DEF CInv
<1>1. /\ pc = "create" /\ pc' = "commit" /\ UNCHANGED <<dbVars, chain, claimed, todo, cand>>
      /\ UNCHANGED <<queue, txStatus, groupOf, groups, Carried>>
  BY Zenon DEF CreateNewGroups, dbVars, chainVars, Carried
<1>2. /\ todo \subseteq Pending /\ Len(work) = Len(groups) /\ Len(groups) \in Nat
      /\ Len(chain) \in Nat /\ work \in Seq(Group)
  BY <1>1 DEF CycleInv, TypeOK
<1>3. RowInv'
  BY Zenon, <1>1, RowsStay
<1>4. Pending' = Pending
  BY Zenon, <1>1, PendingStays
<1>5. CASE UNCHANGED work
  <2>1. TypeOK'
    BY Zenon, <1>1, <1>5 DEF TypeOK
  <2>2. HistoryInv'
    BY <1>1, <1>2, <1>5, HistoryStays DEF HistoryInv
  <2>3. CycleInv'
    BY Zenon, <1>1, <1>2, <1>4, <1>5 DEF CycleInv, Uniform, Final
  <2> QED
    BY Zenon, <1>3, <2>1, <2>2, <2>3
<1>6. CASE /\ cand # << >>
           /\ work' = Append(work, NewGroup({ChooseGroupTx[i] : i \in DOMAIN ChooseGroupTx}))
  <2> DEFINE S == {ChooseGroupTx[i] : i \in DOMAIN ChooseGroupTx}
             N == NewGroup(S)
  <2>1. /\ Uniform(S)
        /\ \A d \in S : d \in Deposit /\ groupOf[d] = 0 /\ txStatus[d] = "created"
    BY Zenon, <1>1, <1>6, ChosenGroup
  <2>2. work' = Append(work, N)
    BY Zenon, <1>6
  <2> HIDE DEF S
  <2>3. /\ N \in Group /\ N.deposits = S /\ N.status = "created" /\ N.history = << >>
        /\ N.retries = 0
    BY <2>1 DEF NewGroup, Group
  <2> HIDE DEF N
  <2>4. /\ work' \in Seq(Group) /\ Len(work') = Len(work) + 1 /\ work'[Len(work) + 1] = N
        /\ \A g \in 1..Len(work) : work'[g] = work[g]
    BY <1>2, <2>2, <2>3
  <2>5. TypeOK'
    BY Zenon, <1>1, <2>4 DEF TypeOK
  <2>6. HistoryInv'
    <3>1. ASSUME NEW g \in 1..Len(groups)
          PROVE  (GroupOk(groups[g]) /\ ChainOk(groups[g]))'
      BY Zenon, <1>1 DEF HistoryInv, GroupOk, ChainOk, Final
    <3>2. ASSUME NEW g \in 1..Len(work')
          PROVE  (GroupOk(work[g]) /\ ChainOk(work[g]))'
      <4>1. CASE g = Len(work) + 1
        BY <2>3, <2>4, <4>1 DEF GroupOk, ChainOk
      <4>2. CASE g \in 1..Len(work)
        <5>1. work'[g] = work[g] /\ GroupOk(work[g]) /\ ChainOk(work[g])
          BY Zenon, <2>4, <4>2 DEF HistoryInv
        <5>2. GroupOk(work[g])'
          BY Zenon, <5>1 DEF GroupOk, Final
        <5>3. ChainOk(work[g])'
          BY Zenon, <1>1, <5>1 DEF ChainOk
        <5> QED
          BY Zenon, <5>2, <5>3
      <4> QED
        BY <1>2, <2>4, <4>1, <4>2
    <3> QED
      BY Zenon, <1>1, <3>1, <3>2 DEF HistoryInv
  <2>7. CycleInv'
    <3>1. \A i \in 1..Len(cand) :
            /\ groupOf[cand[i]] = 0 /\ txStatus[cand[i]] = "created"
            /\ \A j \in 1..Len(cand) : GlobalExitRoot[cand[i]] = GlobalExitRoot[cand[j]]
      BY Zenon, <1>1 DEF CycleInv
    <3>2. \A g \in 1..Len(groups) :
            /\ work'[g].deposits = groups[g].deposits
            /\ g \notin Pending => work'[g].status = groups[g].status
      BY Zenon, <1>1, <1>2, <2>4 DEF CycleInv
    <3>3. /\ Len(work') = Len(groups) + 1 /\ work'[Len(work')].status = "created"
          /\ work'[Len(work')].deposits = S
      BY Zenon, <1>2, <2>3, <2>4
    <3> QED
      BY <1>1, <1>2, <1>4, <2>1, <3>1, <3>2, <3>3 DEF CycleInv, Uniform
  <2> QED
    BY Zenon, <1>3, <2>5, <2>6, <2>7
<1> QED
  BY Zenon, <1>5, <1>6 DEF CreateNewGroups

\* The cycle is written back.
LEMMA CommitStep ==
  ASSUME CInv, Commit
  PROVE  CInv'
<1> USE DEF CInv
<1>1. /\ pc = "commit" /\ pc' = "idle" /\ todo' = {} /\ work' = << >> /\ cand' = << >>
      /\ groups' = work /\ UNCHANGED <<queue, chain, claimed, Carried>>
  BY Zenon DEF Commit, EndCycle, chainVars, Carried
<1>2. \A d \in Deposit :
        /\ groupOf'[d] = NewGroupOf(d)
        /\ txStatus'[d] = IF groupOf[d] \in Pending /\ work[groupOf[d]].status \in Final
                          THEN work[groupOf[d]].status ELSE txStatus[d]
  BY Zenon DEF Commit
<1>3. /\ work \in Seq(Group) /\ Len(work) \in Nat /\ Len(groups) \in Nat
      /\ DOMAIN work = 1..Len(work)
      /\ groupOf \in [Deposit -> Nat] /\ queue \in Seq(Deposit)
      /\ txStatus \in [Deposit -> {"none", "created"} \cup Final]
  BY DEF TypeOK
<1>4. /\ Len(groups) <= Len(work)
      /\ Len(work) # Len(groups) =>
           /\ Len(work) = Len(groups) + 1 /\ work[Len(work)].status = "created"
           /\ Uniform(work[Len(work)].deposits)
           /\ \A d \in work[Len(work)].deposits : groupOf[d] = 0 /\ txStatus[d] = "created"
      /\ \A g \in 1..Len(groups) :
           /\ work[g].deposits = groups[g].deposits
           /\ g \notin Pending => work[g].status = groups[g].status
  BY Zenon, <1>1 DEF CycleInv
<1>5. \A g \in 1..Len(work) : g \in 1..Len(groups) \/ (g = Len(work) /\ Len(work) # Len(groups))
  <2>1. Len(work) = Len(groups) \/ Len(work) = Len(groups) + 1
    BY Zenon, <1>4
  <2>2. Len(work) \in Nat /\ Len(groups) \in Nat
    BY Zenon, <1>3
  <2> QED
    BY <2>1, <2>2
<1>6. Pending \subseteq 1..Len(groups) /\ 0 \notin Pending
  BY Zenon, PendingGroups DEF Pending
<1>7. TypeOK'
  <2>1. groupOf' = [d \in Deposit |-> NewGroupOf(d)]
    BY Zenon DEF Commit
  <2>2. groupOf' \in [Deposit -> Nat]
    BY Zenon, <1>3, <2>1 DEF NewGroupOf
  <2>3. txStatus' \in [Deposit -> {"none", "created"} \cup Final]
    BY Zenon, <1>3 DEF Commit
  <2> QED
    BY <1>1, <1>3, <2>2, <2>3 DEF TypeOK
<1>8. HistoryInv'
  <2>1. ASSUME NEW g \in 1..Len(work)
        PROVE  (GroupOk(groups[g]) /\ ChainOk(groups[g]))'
    <3>1. groups'[g] = work[g] /\ GroupOk(work[g]) /\ ChainOk(work[g])
      BY Zenon, <1>1 DEF HistoryInv
    <3>2. GroupOk(groups[g])'
      BY Zenon, <3>1 DEF GroupOk, Final
    <3>3. ChainOk(groups[g])'
      BY Zenon, <1>1, <3>1 DEF ChainOk
    <3> QED
      BY Zenon, <3>2, <3>3
  <2> QED
    BY <1>1, <2>1 DEF HistoryInv
<1>9. \A g \in 1..Len(work) : work[g].deposits \subseteq Deposit
  <2>1. \A g \in 1..Len(work) : work[g] \in Group
    BY Zenon, <1>3, InSeq
  <2> QED
    BY Zenon, <2>1 DEF Group
<1>10. ASSUME NEW d \in Deposit
       PROVE  \/ /\ groupOf[d] # 0 /\ groupOf'[d] = groupOf[d]
                 /\ groupOf[d] \in 1..Len(groups) /\ d \in work[groupOf[d]].deposits
              \/ /\ groupOf[d] = 0 /\ groupOf'[d] = Len(work) /\ Len(work) # Len(groups)
                 /\ d \in work[Len(work)].deposits /\ txStatus[d] = "created"
              \/ /\ groupOf[d] = 0 /\ groupOf'[d] = 0
                 /\ \A g \in 1..Len(work) : d \notin work[g].deposits
  <2>1. CASE groupOf[d] # 0
    BY Zenon, <1>2, <1>4, <2>1 DEF NewGroupOf, RowInv
  <2>2. CASE groupOf[d] = 0 /\ GroupIn(work, d) # {}
    <3>1. PICK g \in 1..Len(work) : d \in work[g].deposits
      BY Zenon, <1>3, <2>2 DEF GroupIn
    <3>2. g \notin 1..Len(groups)
      BY <1>4, <2>2, <3>1 DEF RowInv
    <3>3. groupOf'[d] = Len(work)
      BY Zenon, <1>2, <2>2 DEF NewGroupOf
    <3>4. g = Len(work) /\ Len(work) # Len(groups)
      BY Zenon, <1>5, <3>2
    <3> QED
      BY Zenon, <1>4, <2>2, <3>1, <3>3, <3>4
  <2>3. CASE groupOf[d] = 0 /\ GroupIn(work, d) = {}
    BY Zenon, <1>2, <1>3, <2>3 DEF NewGroupOf, GroupIn
  <2> QED
    BY Zenon, <2>1, <2>2, <2>3
<1>11. RowInv'
  <2>1. ASSUME NEW g \in 1..Len(work)
        PROVE  Uniform(work[g].deposits) /\ \A d \in work[g].deposits : groupOf'[d] = g
    <3>1. CASE g \in 1..Len(groups)
      <4>1. /\ work[g].deposits = groups[g].deposits /\ Uniform(groups[g].deposits)
            /\ \A d \in groups[g].deposits : groupOf[d] = g
        BY Zenon, <1>4, <3>1 DEF RowInv
      <4>2. \A d \in work[g].deposits : d \in Deposit /\ groupOf[d] # 0
        BY <1>3, <1>9, <3>1, <4>1
      <4> QED
        BY Zenon, <1>10, <4>1, <4>2
    <3>2. CASE g = Len(work) /\ Len(work) # Len(groups)
      <4>1. /\ Uniform(work[g].deposits)
            /\ \A d \in work[g].deposits : d \in Deposit /\ groupOf[d] = 0
        BY Zenon, <1>4, <1>9, <3>2
      <4> QED
        BY Zenon, <1>10, <3>2, <4>1
    <3> QED
      BY Zenon, <1>5, <3>1, <3>2
  <2>2. ASSUME NEW d \in Deposit
        PROVE  /\ groupOf'[d] # 0 =>
                    /\ groupOf'[d] \in 1..Len(work)
                    /\ d \in work[groupOf'[d]].deposits
                    /\ txStatus'[d] = "created" <=> work[groupOf'[d]].status \notin Final
               /\ txStatus'[d] = "none" => groupOf'[d] = 0
               /\ txStatus'[d] = "created" => \E n \in 1..Len(queue) : queue[n] = d
               /\ txStatus'[d] = "confirmed" => d \in Carried
    <3>1. txStatus'[d] \in {"none", "created"} => txStatus'[d] = txStatus[d]
      BY Zenon, <1>2 DEF Final
    <3>2. CASE groupOf[d] # 0
      <4>1. /\ groupOf'[d] = groupOf[d] /\ groupOf[d] \in 1..Len(groups)
            /\ groupOf[d] \in 1..Len(work) /\ d \in work[groupOf[d]].deposits
        <5>1. /\ groupOf'[d] = groupOf[d] /\ groupOf[d] \in 1..Len(groups)
              /\ d \in work[groupOf[d]].deposits
          BY Zenon, <1>10, <3>2
        <5>2. Len(groups) <= Len(work) /\ Len(work) \in Nat /\ Len(groups) \in Nat
          BY Zenon, <1>3, <1>4
        <5> QED
          BY <5>1, <5>2
      <4>2. /\ txStatus[d] = "created" <=> groups[groupOf[d]].status \notin Final
            /\ txStatus[d] # "none"
            /\ txStatus[d] = "created" => \E n \in 1..Len(queue) : queue[n] = d
            /\ txStatus[d] = "confirmed" => d \in Carried
        BY Zenon, <3>2 DEF RowInv
      <4>3. CASE groupOf[d] \in Pending
        <5>1. txStatus[d] = "created"
          BY Zenon, <4>2, <4>3, PendingGroups
        <5>2. work[groupOf[d]].status = "confirmed" => d \in Carried
          BY Zenon, <4>1 DEF HistoryInv, ChainOk
        <5> QED
          BY Zenon, <1>2, <4>1, <4>2, <4>3, <5>1, <5>2 DEF Final
      <4>4. CASE groupOf[d] \notin Pending
        BY <1>2, <1>4, <4>1, <4>2, <4>4
      <4> QED
        BY Zenon, <4>3, <4>4
    <3>3. CASE groupOf[d] = 0 /\ groupOf'[d] = Len(work) /\ Len(work) # Len(groups)
               /\ d \in work[Len(work)].deposits /\ txStatus[d] = "created"
      <4>1. txStatus'[d] = "created"
        BY Zenon, <1>2, <1>6, <3>3
      <4>2. work[Len(work)].status = "created" /\ Len(work) \in 1..Len(work)
        BY <1>3, <1>4, <3>3
      <4> QED
        BY Zenon, <3>3, <4>1, <4>2 DEF RowInv, Final
    <3>4. CASE groupOf[d] = 0 /\ groupOf'[d] = 0
      <4>1. txStatus'[d] = txStatus[d]
        BY Zenon, <1>2, <1>6, <3>4
      <4> QED
        BY Zenon, <3>4, <4>1 DEF RowInv
    <3> QED
      BY Zenon, <1>10, <3>2, <3>3, <3>4
  <2> QED
    BY <1>1, <2>1, <2>2 DEF RowInv, Uniform, Final
<1>12. CycleInv'
  BY Zenon, <1>1 DEF CycleInv
<1> QED
  BY Zenon, <1>7, <1>8, <1>11, <1>12

-----------------------------------------------------------------------------
(***************************************************************************)
(* The theorems.                                                           *)
(***************************************************************************)
\* The invariant of the groups, the rows, the cycle and the chain holds in every state.
THEOREM ClaimsInvariant == Spec => []CInv
<1>1. CInv /\ [Next]_vars => CInv'
  <2> SUFFICES ASSUME CInv, [Next]_vars PROVE CInv'
    BY Zenon
  <2>1. CASE UNCHANGED vars
    <3>1. /\ UNCHANGED <<dbVars, cycleVars>>
          /\ UNCHANGED <<queue, txStatus, groupOf, groups, chain, claimed, Carried>>
          /\ UNCHANGED <<pc, todo, work, cand>>
      BY Zenon, <2>1 DEF vars, dbVars, cycleVars, chainVars, Carried
    <3>2. TypeOK'
      BY Zenon, <3>1 DEF CInv, TypeOK
    <3>3. HistoryInv'
      <4>1. HistoryInv /\ Len(chain) \in Nat
        BY DEF CInv, TypeOK
      <4> QED
        BY <3>1, <4>1, HistoryStays DEF HistoryInv
    <3>4. RowInv'
      BY Zenon, <3>1, RowsStay DEF CInv
    <3>5. CycleInv'
      BY Zenon, <3>1, CycleStays DEF CInv
    <3> QED
      BY Zenon, <3>2, <3>3, <3>4, <3>5 DEF CInv
  <2>2. CASE Next
    BY Zenon, <2>2, AddStep, MineStep, TickStep, GetPendingStep, SendStep, ReceiptsStep,
       OutdateStep, CreateStep, CommitStep, RollbackStep DEF Next, MonitorTxs
  <2> QED
    BY Zenon, <2>1, <2>2
<1> QED
  BY <1>1, InitInv, PTL DEF Spec

\* Groups partition the rows, have one root and are not larger than configured
\* (NewPendingTxs, chooseGroupTx, GenerateStoreUpdate).
THEOREM GroupsArePartition == Spec => []GroupsPartitionRows
<1>1. CInv => GroupsPartitionRows
  <2> SUFFICES ASSUME CInv PROVE GroupsPartitionRows
    BY Zenon
  <2>1. DOMAIN groups = 1..Len(groups) /\ Len(groups) \in Nat
    BY DEF CInv, TypeOK
  <2>2. ASSUME NEW d \in Deposit PROVE GroupIn(groups, d) = {groupOf[d]} \ {0}
    <3>1. \A g \in 1..Len(groups) : d \in groups[g].deposits => groupOf[d] = g
      BY Zenon DEF CInv, RowInv
    <3>2. groupOf[d] # 0 =>
            groupOf[d] \in 1..Len(groups) /\ d \in groups[groupOf[d]].deposits
      BY Zenon DEF CInv, RowInv
    <3> QED
      BY <2>1, <3>1, <3>2 DEF GroupIn
  <2>3. \A g \in DOMAIN groups : Uniform(groups[g].deposits)
    BY Zenon, <2>1 DEF CInv, RowInv
  <2> QED
    BY Zenon, <2>2, <2>3 DEF GroupsPartitionRows, Uniform
<1> QED
  BY <1>1, ClaimsInvariant, PTL

\* A second claim of a group waits for the first (CanSendNewClaimCall).
THEOREM OneClaimPending == Spec => []OnePendingClaim
<1>1. CInv => OnePendingClaim
  <2> SUFFICES ASSUME CInv, NEW g \in DOMAIN groups,
                      NEW i \in DOMAIN groups[g].history, NEW j \in DOMAIN groups[g].history,
                      groups[g].history[i].receipt = "pending",
                      groups[g].history[j].receipt = "pending"
               PROVE  i = j
    BY Zenon DEF OnePendingClaim
  <2>1. groups \in Seq(Group) /\ g \in 1..Len(groups)
    BY DEF CInv, TypeOK
  <2>2. groups[g] \in Group
    BY Zenon, <2>1, InSeq
  <2>3. groups[g].history \in Seq(Entry)
    BY Zenon, <2>2 DEF Group
  <2>4. GroupOk(groups[g])
    BY Zenon, <2>1 DEF CInv, HistoryInv
  <2> QED
    BY <2>3, <2>4 DEF GroupOk
<1> QED
  BY <1>1, ClaimsInvariant, PTL

\* A success that is not the last claim a group may send confirms the group for good
\* (CheckReceipts, OutdateClaims).
THEOREM SuccessStays == Spec => []SuccessIsKept
<1>1. CInv => SuccessIsKept
  <2> SUFFICES ASSUME CInv, NEW g \in DOMAIN groups, NEW i \in DOMAIN groups[g].history,
                      groups[g].history[i].receipt = "successful", i < MaxRetries
               PROVE  groups[g].status = "confirmed"
    BY Zenon DEF SuccessIsKept
  <2>1. groups \in Seq(Group) /\ g \in 1..Len(groups)
    BY DEF CInv, TypeOK
  <2>2. groups[g] \in Group
    BY Zenon, <2>1, InSeq
  <2>3. groups[g].history \in Seq(Entry)
    BY Zenon, <2>2 DEF Group
  <2>4. GroupOk(groups[g])
    BY Zenon, <2>1 DEF CInv, HistoryInv
  <2> QED
    BY <2>3, <2>4, ConfigAssumption DEF GroupOk, Final
<1> QED
  BY <1>1, ClaimsInvariant, PTL

\* A step of the manager or of the chain is a step of the life cycle, or none.
LEMMA LifecycleStep ==
  CInv /\ [Next]_vars => [Lifecycle!Next]_<<txStatus, Carried>>
<1> SUFFICES ASSUME CInv, [Next]_vars
             PROVE  Lifecycle!Next \/ UNCHANGED <<txStatus, Carried>>
  BY Zenon
<1>1. CASE UNCHANGED vars
  BY Zenon, <1>1 DEF vars, dbVars, chainVars, Carried
<1>2. CASE GetPendingTxs \/ CheckReceipts \/ OutdateClaims \/ CreateNewGroups \/ Rollback
  BY Zenon, <1>2 DEF GetPendingTxs, CheckReceipts, OutdateClaims, CreateNewGroups,
              Rollback, dbVars, chainVars, Carried
<1>6. CASE SendClaims
  BY Zenon, <1>6, SendStep DEF SendClaims, dbVars
<1>7. CASE Tick
  BY Zenon, <1>7, TickStep DEF Tick, dbVars
<1>3. ASSUME NEW d \in Deposit, AddClaimTx(d) PROVE Lifecycle!Next
  <2>1. Lifecycle!Add(d)
    BY Zenon, <1>3 DEF AddClaimTx, chainVars, Lifecycle!Add, Carried
  <2> QED
    BY Zenon, <2>1 DEF Lifecycle!Next
<1>4. ASSUME NEW t \in DOMAIN chain, Mine(t)
      PROVE  Lifecycle!Next \/ UNCHANGED <<txStatus, Carried>>
  <2>1. UNCHANGED txStatus /\ Carried' \in {Carried, Carried \cup chain[t].deposits}
    BY Zenon, <1>4, MineStep DEF Mine, dbVars
  <2>2. chain[t].deposits \in SUBSET Deposit
    <3>1. chain \in Seq(Tx) /\ t \in 1..Len(chain)
      BY DEF CInv, TypeOK
    <3>2. chain[t] \in Tx
      BY Zenon, <3>1, InSeq
    <3> QED
      BY Zenon, <3>2 DEF Tx
  <2>3. CASE Carried' = Carried \cup chain[t].deposits
    <3>1. Lifecycle!Claim(chain[t].deposits)
      BY Zenon, <2>1, <2>3 DEF Lifecycle!Claim
    <3> QED
      BY Zenon, <2>2, <3>1 DEF Lifecycle!Next
  <2> QED
    BY Zenon, <2>1, <2>3
<1>5. CASE Commit
  <2> DEFINE Become(s) ==
               {d \in Deposit : groupOf[d] \in Pending /\ work[groupOf[d]].status = s}
  <2>0. PICK ok \in SUBSET Deposit, bad \in SUBSET Deposit :
          ok = Become("confirmed") /\ bad = Become("failed")
    BY Zenon
  <2>1. UNCHANGED Carried
    BY Zenon, <1>5 DEF Commit, chainVars, Carried
  <2>2. txStatus' = [d \in Deposit |-> IF d \in ok THEN "confirmed"
                                        ELSE IF d \in bad THEN "failed" ELSE txStatus[d]]
    BY Zenon, <1>5, <2>0 DEF Commit, Final
  <2>3. ok \cap bad = {}
    BY Zenon, <2>0
  <2>4. \A d \in ok \cup bad : txStatus[d] = "created"
    <3>1. \A d \in Deposit : groupOf[d] \in Pending => txStatus[d] = "created"
      <4> SUFFICES ASSUME NEW d \in Deposit, groupOf[d] \in Pending
                   PROVE  txStatus[d] = "created"
        BY Zenon
      <4>1. groupOf[d] \in 1..Len(groups) /\ groups[groupOf[d]].status \notin Final
        BY Zenon, PendingGroups DEF CInv
      <4>2. groupOf[d] # 0
        BY Zenon DEF Pending
      <4> QED
        BY Zenon, <4>1, <4>2 DEF CInv, RowInv
    <3> QED
      BY Zenon, <2>0, <3>1
  <2>5. ok \subseteq Carried
    <3> SUFFICES ASSUME NEW d \in ok PROVE d \in Carried
      BY Zenon
    <3>1. /\ d \in Deposit /\ groupOf[d] \in Pending
          /\ work[groupOf[d]].status = "confirmed"
      BY Zenon, <2>0
    <3>2. groupOf[d] \in 1..Len(groups) /\ groupOf[d] # 0
      BY Zenon, <3>1, PendingGroups DEF CInv, Pending
    <3>3. /\ Len(groups) <= Len(work) /\ Len(work) \in Nat /\ Len(groups) \in Nat
          /\ work[groupOf[d]].deposits = groups[groupOf[d]].deposits
      BY <1>5, <3>2 DEF CInv, CycleInv, TypeOK, Commit
    <3>4. d \in work[groupOf[d]].deposits
      BY Zenon, <3>1, <3>2, <3>3 DEF CInv, RowInv
    <3>5. groupOf[d] \in 1..Len(work)
      BY <3>2, <3>3
    <3>6. ChainOk(work[groupOf[d]])
      BY Zenon, <3>5 DEF CInv, HistoryInv
    <3> QED
      BY Zenon, <3>1, <3>4, <3>6 DEF ChainOk
  <2>6. Lifecycle!Settle(ok, bad)
    BY Zenon, <2>1, <2>2, <2>3, <2>4, <2>5 DEF Lifecycle!Settle
  <2> QED
    BY Zenon, <2>6 DEF Lifecycle!Next
<1> QED
  BY Zenon, <1>1, <1>2, <1>3, <1>4, <1>5, <1>6, <1>7 DEF Next, MonitorTxs

\* Grouped claims keep the life cycle of rows that the manager promises: a row is added
\* once, leaves "created" once, and is confirmed only when a call that carries its claim was
\* mined successfully.
THEOREM ClaimsImplementLifecycle == Spec => LifecycleSpec
<1>1. Init => Lifecycle!Init
  BY DEF Init, Lifecycle!Init, Carried
<1> QED
  BY <1>1, LifecycleStep, ClaimsInvariant, PTL DEF Spec, LifecycleSpec, Lifecycle!Spec

-----------------------------------------------------------------------------
(***************************************************************************)
(* How often a group is sent.                                              *)
(***************************************************************************)
Txs(d) == {t \in 1..Len(chain) : d \in chain[t].deposits}

\* The retries of a group as the manager knows them now.
Known(g) == IF pc = "idle" THEN groups[g].retries ELSE work[g].retries

\* A cycle sends a group once at most.  What the chain has of a deposit the manager has
\* counted, but for the claims that a failed cycle or a failed call has forgotten.
SendInv ==
  /\ faults \in Nat /\ faults <= MaxFaults
  /\ \A g \in 1..Len(groups) : groups[g].retries <= MaxRetries
  /\ \A g \in 1..Len(work) : work[g].retries <= MaxRetries
  /\ pc # "idle" => \A g \in 1..Len(groups) :
       /\ work[g].retries <= groups[g].retries + 1
       /\ pc = "send" /\ g \in todo => work[g].retries = groups[g].retries
  /\ \A d \in Deposit :
       IF groupOf[d] = 0 THEN Txs(d) = {}
       ELSE Cardinality(Txs(d)) <= Known(groupOf[d]) + (MaxFaults - faults)

\* The numbers that are compared are natural numbers.
LEMMA SendTypes ==
  ASSUME CInv
  PROVE  /\ MaxRetries \in Nat /\ MaxFaults \in Nat
         /\ Len(groups) \in Nat /\ Len(work) \in Nat /\ Len(chain) \in Nat
         /\ pc # "idle" => Len(groups) <= Len(work)
         /\ \A g \in 1..Len(groups) : groups[g] \in Group /\ groups[g].retries \in Nat
         /\ \A g \in 1..Len(work) : work[g] \in Group /\ work[g].retries \in Nat
         /\ \A d \in Deposit : groupOf[d] # 0 => groupOf[d] \in 1..Len(groups)
         /\ \A d \in Deposit : IsFiniteSet(Txs(d)) /\ Cardinality(Txs(d)) \in Nat
<1>1. groups \in Seq(Group) /\ work \in Seq(Group) /\ chain \in Seq(Tx)
  BY Zenon DEF CInv, TypeOK
<1>2. Len(groups) \in Nat /\ Len(work) \in Nat /\ Len(chain) \in Nat
  BY <1>1
<1>3. /\ \A g \in 1..Len(groups) : groups[g] \in Group
      /\ \A g \in 1..Len(work) : work[g] \in Group
  BY Zenon, <1>1, InSeq
<1>4. \A G \in Group : G.retries \in Nat
  BY Zenon DEF Group
<1>5. ASSUME NEW d \in Deposit PROVE IsFiniteSet(Txs(d)) /\ Cardinality(Txs(d)) \in Nat
  <2>1. IsFiniteSet(1..Len(chain))
    BY <1>2, FS_Interval
  <2>2. Txs(d) \subseteq 1..Len(chain)
    BY Zenon DEF Txs
  <2>3. IsFiniteSet(Txs(d))
    BY Zenon, <2>1, <2>2, FS_Subset
  <2> QED
    BY Zenon, <2>3, FS_CardinalityType
<1>6. pc # "idle" => Len(groups) <= Len(work)
  BY Zenon DEF CInv, CycleInv
<1>7. \A d \in Deposit : groupOf[d] # 0 => groupOf[d] \in 1..Len(groups)
  BY Zenon DEF CInv, RowInv
<1>8. MaxRetries \in Nat /\ MaxFaults \in Nat
  BY Zenon, ConfigAssumption
<1> QED
  BY Zenon, <1>2, <1>3, <1>4, <1>5, <1>6, <1>7, <1>8

\* A step that sends nothing and knows of the same retries keeps the invariant.
LEMMA QuietStep ==
  ASSUME CInv, SendInv, UNCHANGED <<groupOf, groups>>,
         Len(chain') = Len(chain),
         \A t \in 1..Len(chain) : chain'[t].deposits = chain[t].deposits,
         faults' \in Nat, faults' <= faults,
         \A g \in 1..Len(work') : work'[g].retries <= MaxRetries,
         \A g \in 1..Len(groups) : Known(g)' = Known(g),
         pc' # "idle" => \A g \in 1..Len(groups) :
           /\ work'[g].retries <= groups[g].retries + 1
           /\ pc' = "send" /\ g \in todo' => work'[g].retries = groups[g].retries
  PROVE  SendInv'
<1>1. \A d \in Deposit : Txs(d)' = Txs(d)
  BY Zenon DEF Txs
<1>2. faults \in Nat /\ faults <= MaxFaults /\ MaxFaults \in Nat
  BY Zenon, SendTypes DEF SendInv
<1>3. ASSUME NEW d \in Deposit
      PROVE  (IF groupOf[d] = 0 THEN Txs(d) = {}
              ELSE Cardinality(Txs(d)) <= Known(groupOf[d]) + (MaxFaults - faults))'
  <2>1. CASE groupOf[d] = 0
    BY Zenon, <1>1, <2>1 DEF SendInv
  <2>2. CASE groupOf[d] # 0
    <3>1. groupOf[d] \in 1..Len(groups) /\ Cardinality(Txs(d)) \in Nat
      BY Zenon, <2>2, SendTypes
    <3>2. PICK g \in 1..Len(groups) : g = groupOf[d]
      BY Zenon, <3>1
    <3>3. Cardinality(Txs(d)) <= Known(g) + (MaxFaults - faults) /\ Known(g)' = Known(g)
      BY Zenon, <2>2, <3>2 DEF SendInv
    <3>4. Known(g) \in Nat
      BY SendTypes DEF Known
    <3>5. Known(groupOf[d])' = Known(g)
      BY Zenon, <3>2, <3>3 DEF Known
    <3>6. Cardinality(Txs(d)) <= Known(g) + (MaxFaults - faults')
      BY <1>2, <3>1, <3>3, <3>4
    <3> QED
      BY Zenon, <1>1, <2>2, <3>5, <3>6
  <2> QED
    BY Zenon, <2>1, <2>2
<1>4. faults' <= MaxFaults
  BY <1>2
<1>5. \A g \in 1..Len(groups') : groups'[g].retries <= MaxRetries
  BY Zenon DEF SendInv
<1> QED
  BY Zenon, <1>3, <1>4, <1>5 DEF SendInv

\* A group sends a claim: its deposits have one claim more, and it counts it.
LEMMA SendingStep ==
  ASSUME CInv, SendInv, MaxRetries # 0, pc = "send", pc' = "send",
         NEW g \in todo, todo' = todo \ {g}, CanSendNewClaimCall(g), Send(g),
         UNCHANGED <<groupOf, groups, faults>>
  PROVE  SendInv'
<1>1. /\ g \in 1..Len(groups) /\ g \in 1..Len(work) /\ Len(work) = Len(groups)
      /\ work \in Seq(Group) /\ chain \in Seq(Tx)
  <2>1. g \in Pending /\ TypeOK /\ RowInv /\ Len(work) = Len(groups)
    BY Zenon DEF CInv, CycleInv
  <2> QED
    BY Zenon, <2>1, PendingGroups DEF TypeOK
<1>2. /\ work[g].retries = groups[g].retries /\ groups[g].retries \in Nat
      /\ work[g] \in Group /\ GroupOk(work[g])
  BY Zenon, <1>1, SendTypes DEF SendInv, CInv, HistoryInv
<1>3. work[g].retries < MaxRetries
  <2>1. CASE work[g].status = "created" \/ work[g].history = << >>
    <3>1. work[g].retries = 0
      BY Zenon, <1>2, <2>1 DEF GroupOk
    <3> QED
      BY <3>1, SendTypes
  <2>2. CASE ~(work[g].status = "created" \/ work[g].history = << >>)
    BY Zenon, <2>2 DEF CanSendNewClaimCall, History, MayRetry
  <2> QED
    BY Zenon, <2>1, <2>2
<1>4. work' = [work EXCEPT ![g] = Sent(work[g], Len(chain) + 1)]
  BY Zenon, <1>1, <1>2 DEF Send, Sent
<1>5. /\ Len(work') = Len(work) /\ work'[g] = Sent(work[g], Len(chain) + 1)
      /\ \A h \in 1..Len(work) : h # g => work'[h] = work[h]
  BY <1>1, <1>4
<1>6. work'[g].retries = work[g].retries + 1
  BY Zenon, <1>2, <1>5 DEF Sent, Group
<1> DEFINE t == [deposits |-> groups[g].deposits, fate |-> "pool", age |-> 0]
<1>7. /\ Len(chain') = Len(chain) + 1 /\ chain'[Len(chain) + 1].deposits = groups[g].deposits
      /\ \A u \in 1..Len(chain) : chain'[u] = chain[u]
  <2>1. chain' = Append(chain, t)
    BY Zenon DEF Send, Call
  <2>2. t.deposits = groups[g].deposits
    BY Zenon
  <2> HIDE DEF t
  <2> QED
    BY <1>1, <2>1, <2>2
<1>8. ASSUME NEW d \in Deposit
      PROVE  (IF groupOf[d] = 0 THEN Txs(d) = {}
              ELSE Cardinality(Txs(d)) <= Known(groupOf[d]) + (MaxFaults - faults))'
  <2>1. d \in groups[g].deposits <=> groupOf[d] = g
    BY <1>1 DEF CInv, RowInv
  <2>2. CASE groupOf[d] = g
    <3>1. Txs(d)' = Txs(d) \cup {Len(chain) + 1}
      BY <1>7, <2>1, <2>2, SendTypes DEF Txs
    <3>2. Len(chain) + 1 \notin Txs(d)
      BY SendTypes DEF Txs
    <3>3. Cardinality(Txs(d)') = Cardinality(Txs(d)) + 1
      <4>1. IsFiniteSet(Txs(d))
        BY Zenon, SendTypes
      <4>2. Cardinality(Txs(d) \cup {Len(chain) + 1}) = Cardinality(Txs(d)) + 1
        BY Zenon, <3>2, <4>1, FS_AddElement
      <4> QED
        BY Zenon, <3>1, <4>2
    <3>4. Cardinality(Txs(d)) <= work[g].retries + (MaxFaults - faults)
      BY <1>1, <2>2 DEF SendInv, Known
    <3>5. Known(groupOf[d])' = work[g].retries + 1 /\ groupOf'[d] # 0
      BY <1>1, <1>6, <2>2 DEF Known
    <3>6. /\ Cardinality(Txs(d)) \in Nat /\ MaxFaults \in Nat /\ faults \in Nat
          /\ work[g].retries \in Nat
      BY Zenon, <1>2, SendTypes DEF SendInv
    <3>7. Cardinality(Txs(d)) + 1 <= (work[g].retries + 1) + (MaxFaults - faults)
      BY <3>4, <3>6
    <3> QED
      BY Zenon, <3>3, <3>5, <3>7
  <2>3. CASE groupOf[d] # g
    <3>1. Txs(d)' = Txs(d)
      BY <1>7, <2>1, <2>3, SendTypes DEF Txs
    <3>2. groupOf[d] # 0 => Known(groupOf[d])' = Known(groupOf[d])
      BY Zenon, <1>1, <1>5, <2>3, SendTypes DEF Known
    <3> QED
      BY Zenon, <3>1, <3>2 DEF SendInv
  <2> QED
    BY Zenon, <2>2, <2>3
<1>9. ASSUME NEW h \in 1..Len(groups)
      PROVE  /\ work'[h].retries <= groups[h].retries + 1 /\ work'[h].retries <= MaxRetries
             /\ h \in todo' => work'[h].retries = groups[h].retries
  <2>1. CASE h = g
    BY <1>2, <1>3, <1>6, <2>1, SendTypes
  <2>2. CASE h # g
    BY Zenon, <1>1, <1>5, <2>2 DEF SendInv
  <2> QED
    BY Zenon, <2>1, <2>2
<1>10. (faults \in Nat /\ faults <= MaxFaults)'
  BY Zenon DEF SendInv
<1>11. \A h \in 1..Len(groups') : groups'[h].retries <= MaxRetries
  BY Zenon DEF SendInv
<1> QED
  BY Zenon, <1>1, <1>5, <1>8, <1>9, <1>10, <1>11 DEF SendInv

\* The node takes the call of a group, but the manager gets an error and counts nothing.
LEMMA LostAnswer ==
  ASSUME CInv, SendInv, pc = "send", pc' = "send",
         NEW g \in todo, todo' = todo \ {g}, chain' = Call(g), faults > 0, faults' = faults - 1,
         UNCHANGED <<groupOf, groups, work>>
  PROVE  SendInv'
<1>1. g \in 1..Len(groups) /\ chain \in Seq(Tx)
  <2>1. g \in Pending /\ TypeOK /\ RowInv
    BY Zenon DEF CInv, CycleInv
  <2> QED
    BY Zenon, <2>1, PendingGroups DEF TypeOK
<1>2. /\ Len(chain') = Len(chain) + 1
      /\ \A u \in 1..Len(chain) : chain'[u] = chain[u]
  <2> DEFINE t == [deposits |-> groups[g].deposits, fate |-> "pool", age |-> 0]
  <2>1. chain' = Append(chain, t)
    BY Zenon DEF Call
  <2> HIDE DEF t
  <2> QED
    BY <1>1, <2>1
<1>3. chain'[Len(chain) + 1].deposits = groups[g].deposits
  BY <1>1 DEF Call
<1>4. faults \in Nat /\ faults <= MaxFaults /\ MaxFaults \in Nat
  BY Zenon, SendTypes DEF SendInv
<1>5. ASSUME NEW d \in Deposit
      PROVE  (IF groupOf[d] = 0 THEN Txs(d) = {}
              ELSE Cardinality(Txs(d)) <= Known(groupOf[d]) + (MaxFaults - faults))'
  <2>1. d \in groups[g].deposits <=> groupOf[d] = g
    BY <1>1 DEF CInv, RowInv
  <2>2. CASE groupOf[d] = 0
    <3>1. groupOf[d] # g
      BY <1>1, <2>2, SendTypes
    <3>2. Txs(d)' = Txs(d)
      BY <1>2, <1>3, <2>1, <3>1, SendTypes DEF Txs
    <3> QED
      BY Zenon, <2>2, <3>2 DEF SendInv
  <2>3. CASE groupOf[d] # 0
    <3>1. Txs(d)' \subseteq Txs(d) \cup {Len(chain) + 1}
      BY <1>2, SendTypes DEF Txs
    <3>2. Len(chain) + 1 \notin Txs(d)
      BY SendTypes DEF Txs
    <3>3. Cardinality(Txs(d)') <= Cardinality(Txs(d)) + 1 /\ Cardinality(Txs(d)') \in Nat
      <4>1. IsFiniteSet(Txs(d))
        BY Zenon, SendTypes
      <4>2. /\ IsFiniteSet(Txs(d) \cup {Len(chain) + 1})
            /\ Cardinality(Txs(d) \cup {Len(chain) + 1}) = Cardinality(Txs(d)) + 1
        BY Zenon, <3>2, <4>1, FS_AddElement
      <4>3. /\ IsFiniteSet(Txs(d)')
            /\ Cardinality(Txs(d)') <= Cardinality(Txs(d) \cup {Len(chain) + 1})
        BY Zenon, <3>1, <4>2, FS_Subset
      <4> QED
        BY Zenon, <4>2, <4>3, FS_CardinalityType
    <3>4. Cardinality(Txs(d)) <= Known(groupOf[d]) + (MaxFaults - faults)
      BY Zenon, <2>3 DEF SendInv
    <3>5. Known(groupOf[d])' = Known(groupOf[d])
      BY Zenon DEF Known
    <3>6. Cardinality(Txs(d)) \in Nat /\ Known(groupOf[d]) \in Nat
      BY <2>3, SendTypes DEF Known
    <3>7. Cardinality(Txs(d)') <= Known(groupOf[d]) + (MaxFaults - (faults - 1))
      BY <1>4, <3>3, <3>4, <3>6
    <3> QED
      BY Zenon, <2>3, <3>5, <3>7
  <2> QED
    BY Zenon, <2>2, <2>3
<1>6. (faults \in Nat /\ faults <= MaxFaults)'
  BY <1>4
<1>7. /\ \A h \in 1..Len(groups') : groups'[h].retries <= MaxRetries
      /\ \A h \in 1..Len(work') : work'[h].retries <= MaxRetries
      /\ \A h \in 1..Len(groups') :
           /\ work'[h].retries <= groups'[h].retries + 1
           /\ h \in todo' => work'[h].retries = groups'[h].retries
  BY Zenon DEF SendInv
<1> QED
  BY Zenon, <1>5, <1>6, <1>7 DEF SendInv

\* The cycle is written back: the rows that are grouped now were never sent.
LEMMA CommitSends ==
  ASSUME CInv, SendInv, Commit
  PROVE  SendInv'
<1>1. /\ pc = "commit" /\ pc' = "idle" /\ work' = << >> /\ groups' = work
      /\ UNCHANGED <<chain, faults>>
  BY Zenon DEF Commit, EndCycle, chainVars
<1>2. \A d \in Deposit : Txs(d)' = Txs(d)
  BY Zenon, <1>1 DEF Txs
<1>3. /\ faults \in Nat /\ faults <= MaxFaults /\ MaxFaults \in Nat
      /\ Len(work) \in Nat /\ DOMAIN work = 1..Len(work)
  BY SendTypes DEF SendInv, CInv, TypeOK
<1>4. ASSUME NEW d \in Deposit
      PROVE  (IF groupOf[d] = 0 THEN Txs(d) = {}
              ELSE Cardinality(Txs(d)) <= Known(groupOf[d]) + (MaxFaults - faults))'
  <2>1. groupOf'[d] = NewGroupOf(d)
    BY Zenon DEF Commit
  <2>2. CASE groupOf[d] # 0
    <3>1. groupOf'[d] = groupOf[d]
      BY Zenon, <2>1, <2>2 DEF NewGroupOf
    <3>2. Known(groupOf[d])' = Known(groupOf[d])
      BY Zenon, <1>1, <3>1 DEF Known
    <3> QED
      BY Zenon, <1>1, <1>2, <2>2, <3>1, <3>2 DEF SendInv
  <2>3. CASE groupOf[d] = 0 /\ groupOf'[d] = 0
    BY Zenon, <1>2, <2>3 DEF SendInv
  <2>4. CASE groupOf[d] = 0 /\ groupOf'[d] # 0
    <3>1. groupOf'[d] = Len(work) /\ Len(work) \in 1..Len(work)
      BY <1>3, <2>1, <2>4 DEF NewGroupOf, GroupIn
    <3>2. Txs(d)' = {}
      BY Zenon, <1>2, <2>4 DEF SendInv
    <3>3. Known(groupOf[d])' = work[Len(work)].retries /\ work[Len(work)].retries \in Nat
      BY Zenon, <1>1, <3>1, SendTypes DEF Known
    <3>4. Cardinality(Txs(d)') = 0
      BY Zenon, <3>2, FS_EmptySet
    <3>5. 0 <= work[Len(work)].retries + (MaxFaults - faults)
      BY <1>3, <3>3
    <3> QED
      BY Zenon, <1>1, <2>4, <3>3, <3>4, <3>5
  <2> QED
    BY Zenon, <2>2, <2>3, <2>4
<1>5. \A g \in 1..Len(groups') : groups'[g].retries <= MaxRetries
  BY Zenon, <1>1 DEF SendInv
<1> QED
  BY <1>1, <1>3, <1>4, <1>5 DEF SendInv

\* A cycle that fails forgets one claim of a group at most, and uses up a failure.
LEMMA RollbackSends ==
  ASSUME CInv, SendInv, Rollback
  PROVE  SendInv'
<1>1. /\ pc # "idle" /\ pc' = "idle" /\ work' = << >> /\ faults' = faults - 1 /\ faults > 0
      /\ UNCHANGED <<chain, groups, groupOf>>
  BY Zenon DEF Rollback, EndCycle, dbVars, chainVars
<1>2. faults \in Nat /\ faults <= MaxFaults /\ MaxFaults \in Nat
  BY Zenon, SendTypes DEF SendInv
<1>3. ASSUME NEW d \in Deposit
      PROVE  (IF groupOf[d] = 0 THEN Txs(d) = {}
              ELSE Cardinality(Txs(d)) <= Known(groupOf[d]) + (MaxFaults - faults))'
  <2>1. Txs(d)' = Txs(d)
    BY Zenon, <1>1 DEF Txs
  <2>2. CASE groupOf[d] = 0
    BY Zenon, <1>1, <2>1, <2>2 DEF SendInv
  <2>3. CASE groupOf[d] # 0
    <3> DEFINE c == Cardinality(Txs(d))
               w == work[groupOf[d]].retries
               k == groups[groupOf[d]].retries
    <3>1. groupOf[d] \in 1..Len(groups) /\ groupOf[d] \in 1..Len(work)
      BY <1>1, <2>3, SendTypes
    <3>2. c \in Nat /\ w \in Nat /\ k \in Nat
      BY Zenon, <3>1, SendTypes
    <3>3. c <= w + (MaxFaults - faults) /\ w <= k + 1
      BY Zenon, <1>1, <2>3, <3>1 DEF SendInv, Known
    <3>4. Known(groupOf[d])' = k
      BY Zenon, <1>1 DEF Known
    <3> HIDE DEF w, k
    <3>5. c <= k + (MaxFaults - faults')
      BY <1>1, <1>2, <3>2, <3>3
    <3> QED
      BY Zenon, <1>1, <2>1, <2>3, <3>4, <3>5
  <2> QED
    BY Zenon, <2>2, <2>3
<1>4. faults' \in Nat /\ faults' <= MaxFaults
  BY <1>1, <1>2
<1>5. \A g \in 1..Len(groups') : groups'[g].retries <= MaxRetries
  BY Zenon, <1>1 DEF SendInv
<1> QED
  BY <1>1, <1>3, <1>4, <1>5 DEF SendInv

\* A cycle that changes groups without sending keeps the invariant.
LEMMA CycleSends ==
  ASSUME CInv, SendInv, pc # "idle", pc' # "idle", UNCHANGED <<groupOf, groups, chain>>,
         faults' \in Nat, faults' <= faults,
         pc' = "send" => pc = "send" /\ todo' \subseteq todo,
         \A g \in 1..Len(groups) : work'[g].retries = work[g].retries,
         \A g \in 1..Len(work') : work'[g].retries <= MaxRetries
  PROVE  SendInv'
<1>1. \A g \in 1..Len(groups) : Known(g)' = Known(g)
  BY Zenon DEF Known
<1>2. \A g \in 1..Len(groups) :
        /\ work'[g].retries <= groups[g].retries + 1
        /\ pc' = "send" /\ g \in todo' => work'[g].retries = groups[g].retries
  BY Zenon DEF SendInv
<1> QED
  BY Zenon, <1>1, <1>2, QuietStep

\* Neither receipts nor the timeout change the number of retries.
LEMMA RetriesStay ==
  ASSUME CInv, pc # "idle"
  PROVE  /\ \A g \in 1..Len(work) : Outdated(g).retries = work[g].retries
         /\ \A g \in 1..Len(work) : \A F, S : Finish(work[g], F, S).retries = work[g].retries
<1>1. \A g \in 1..Len(work) : work[g] \in Group /\ GroupOk(work[g])
  BY Zenon, SendTypes DEF CInv, HistoryInv
<1>2. ASSUME NEW g \in 1..Len(work) PROVE Outdated(g).retries = work[g].retries
  <2>1. GroupOk(Outdated(g)) /\ Len(Outdated(g).history) = Len(work[g].history)
    BY Zenon, OutdatedGroup DEF CInv
  <2> QED
    BY Zenon, <1>1, <2>1 DEF GroupOk
<1>3. ASSUME NEW g \in 1..Len(work), NEW F, NEW S
      PROVE  Finish(work[g], F, S).retries = work[g].retries
  BY Zenon, <1>1 DEF Finish, Group
<1> QED
  BY Zenon, <1>2, <1>3

\* Every step keeps the count of what was sent.
LEMMA SendNext ==
  ASSUME CInv, SendInv, MaxRetries # 0, [Next]_vars
  PROVE  SendInv'
<1>1. /\ faults \in Nat /\ Len(work) \in Nat /\ Len(groups) \in Nat
      /\ \A g \in 1..Len(work) : work[g].retries <= MaxRetries
  BY Zenon, SendTypes DEF SendInv
<1>2. ASSUME UNCHANGED <<groupOf, groups, pc, todo, work, faults>>,
             Len(chain') = Len(chain),
             \A t \in 1..Len(chain) : chain'[t].deposits = chain[t].deposits
      PROVE  SendInv'
  <2>1. faults' \in Nat /\ faults' <= faults
    BY <1>1, <1>2
  <2>2. /\ \A g \in 1..Len(work') : work'[g].retries <= MaxRetries
        /\ \A g \in 1..Len(groups) : Known(g)' = Known(g)
    BY Zenon, <1>1, <1>2 DEF Known
  <2>3. pc' # "idle" => \A g \in 1..Len(groups) :
          /\ work'[g].retries <= groups[g].retries + 1
          /\ pc' = "send" /\ g \in todo' => work'[g].retries = groups[g].retries
    BY Zenon, <1>2 DEF SendInv
  <2> QED
    BY Zenon, <1>2, <2>1, <2>2, <2>3, QuietStep
<1>3. CASE UNCHANGED vars
  BY Zenon, <1>2, <1>3 DEF vars, dbVars, chainVars, cycleVars
<1>4. ASSUME NEW d \in Deposit, AddClaimTx(d) PROVE SendInv'
  BY Zenon, <1>2, <1>4 DEF AddClaimTx, chainVars, cycleVars
<1>5. ASSUME NEW t \in DOMAIN chain, Mine(t) PROVE SendInv'
  <2>1. chain \in Seq(Tx) /\ UNCHANGED <<groupOf, groups, pc, todo, work, faults>>
    BY Zenon, <1>5 DEF CInv, TypeOK, Mine, dbVars, cycleVars
  <2>2. PICK fate : chain' = [chain EXCEPT ![t].fate = fate]
    BY Zenon, <1>5 DEF Mine
  <2>3. \A u \in 1..Len(chain) : chain[u] \in Tx
    BY Zenon, <2>1, InSeq
  <2>4. Len(chain') = Len(chain)
    BY <2>1, <2>2
  <2>5. \A u \in 1..Len(chain) : chain'[u].deposits = chain[u].deposits
    BY <2>1, <2>2, <2>3 DEF Tx
  <2> QED
    BY Zenon, <1>2, <2>1, <2>4, <2>5
<1>6. CASE Tick
  <2>1. chain \in Seq(Tx) /\ UNCHANGED <<groupOf, groups, pc, todo, work, faults>>
    BY Zenon, <1>6 DEF CInv, TypeOK, Tick, dbVars, cycleVars
  <2>2. chain' = [t \in DOMAIN chain |-> [chain[t] EXCEPT !.age = Older(@)]]
    BY Zenon, <1>6 DEF Tick
  <2>3. \A u \in 1..Len(chain) : chain[u] \in Tx
    BY Zenon, <2>1, InSeq
  <2>4. Len(chain') = Len(chain)
    BY <2>1, <2>2
  <2>5. \A u \in 1..Len(chain) : chain'[u].deposits = chain[u].deposits
    BY <2>1, <2>2, <2>3 DEF Tx
  <2> QED
    BY Zenon, <1>2, <2>1, <2>4, <2>5
<1>7. CASE GetPendingTxs
  <2>1. pc = "idle" /\ UNCHANGED <<groupOf, groups, chain, faults>>
    BY Zenon, <1>7 DEF GetPendingTxs, dbVars, chainVars
  <2>2. CASE UNCHANGED cycleVars
    BY Zenon, <1>2, <2>1, <2>2 DEF cycleVars
  <2>3. CASE work' = groups /\ pc' = "send"
    <3>1. \A g \in 1..Len(groups) : Known(g)' = Known(g)
      BY Zenon, <2>1, <2>3 DEF Known
    <3>2. /\ \A g \in 1..Len(work') : work'[g].retries <= MaxRetries
          /\ \A g \in 1..Len(groups) : work'[g].retries <= groups[g].retries + 1
      BY <2>3, SendTypes DEF SendInv
    <3> QED
      <4>1. /\ faults' \in Nat /\ faults' <= faults /\ Len(chain') = Len(chain)
            /\ \A t \in 1..Len(chain) : chain'[t].deposits = chain[t].deposits
        BY <1>1, <2>1
      <4>2. \A g \in 1..Len(groups) : work'[g].retries = groups[g].retries
        BY Zenon, <2>3
      <4> QED
        BY Zenon, <2>1, <3>1, <3>2, <4>1, <4>2, QuietStep
  <2> QED
    BY Zenon, <1>7, <2>2, <2>3 DEF GetPendingTxs
<1>8. CASE SendClaims
  <2>1. pc = "send" /\ UNCHANGED <<groupOf, groups>>
    BY Zenon, <1>8 DEF SendClaims, dbVars
  <2>2. ASSUME UNCHANGED <<chain, work>>, faults' \in {faults, faults - 1},
               faults' # faults => faults > 0, pc' # "idle",
               pc' = "send" => todo' \subseteq todo
        PROVE  SendInv'
    <3>1. faults' \in Nat /\ faults' <= faults
      BY <1>1, <2>2
    <3> QED
      BY Zenon, <1>1, <2>1, <2>2, <3>1, CycleSends
  <2>3. ASSUME NEW g \in todo, todo' = todo \ {g}, pc' = pc,
               CanSendNewClaimCall(g), Send(g), UNCHANGED faults
        PROVE  SendInv'
    BY Zenon, <2>1, <2>3, SendingStep
  <2>4. ASSUME NEW g \in todo, todo' = todo \ {g}, pc' = pc, chain' = Call(g),
               faults > 0, faults' = faults - 1, UNCHANGED work
        PROVE  SendInv'
    BY Zenon, <2>1, <2>4, LostAnswer
  <2> QED
    BY Zenon, <1>8, <2>1, <2>2, <2>3, <2>4 DEF SendClaims
<1>9. CASE CheckReceipts
  <2>1. /\ pc = "receipts" /\ pc' \in {"receipts", "outdate"}
        /\ UNCHANGED <<groupOf, groups, chain, faults>>
    BY Zenon, <1>9 DEF CheckReceipts, dbVars, chainVars
  <2>2. /\ work \in Seq(Group) /\ Len(work) = Len(groups)
        /\ \A g \in todo : g \in 1..Len(work)
    BY Zenon, <2>1, PendingGroups DEF CInv, CycleInv, TypeOK
  <2>3. Len(work') = Len(work) /\ \A g \in 1..Len(work) : work'[g].retries = work[g].retries
    <3>1. CASE UNCHANGED work
      BY Zenon, <3>1
    <3>2. ASSUME NEW g \in todo, NEW F, NEW S, work' = [work EXCEPT ![g] = Finish(@, F, S)]
          PROVE  /\ Len(work') = Len(work)
                 /\ \A h \in 1..Len(work) : work'[h].retries = work[h].retries
      <4>1. Finish(work[g], F, S).retries = work[g].retries
        BY Zenon, <2>1, <2>2, RetriesStay
      <4> QED
        BY <2>2, <3>2, <4>1
    <3> QED
      BY Zenon, <1>9, <3>1, <3>2 DEF CheckReceipts
  <2> QED
    BY <1>1, <2>1, <2>2, <2>3, CycleSends
<1>10. CASE OutdateClaims
  <2>1. /\ pc = "outdate" /\ pc' = "create" /\ UNCHANGED <<groupOf, groups, chain, faults>>
        /\ work' = [g \in DOMAIN work |-> IF g \in Pending THEN Outdated(g) ELSE work[g]]
    BY Zenon, <1>10 DEF OutdateClaims, dbVars, chainVars
  <2>2. work \in Seq(Group) /\ Len(work) = Len(groups) /\ DOMAIN work = 1..Len(work)
    BY <2>1 DEF CInv, CycleInv, TypeOK
  <2>3. \A g \in 1..Len(work) : work'[g].retries = work[g].retries
    BY Zenon, <2>1, <2>2, RetriesStay
  <2>4. Len(work') = Len(work)
    BY <1>1, <2>1, <2>2
  <2> QED
    BY <1>1, <2>1, <2>2, <2>3, <2>4, CycleSends
<1>11. CASE CreateNewGroups
  <2>1. pc = "create" /\ pc' = "commit" /\ UNCHANGED <<groupOf, groups, chain, faults>>
    BY Zenon, <1>11 DEF CreateNewGroups, dbVars, chainVars
  <2>2. work \in Seq(Group) /\ Len(work) = Len(groups)
    BY Zenon, <2>1 DEF CInv, CycleInv, TypeOK
  <2>3. CASE UNCHANGED work
    BY <1>1, <2>1, <2>3, CycleSends
  <2>4. ASSUME NEW S, work' = Append(work, NewGroup(S)) PROVE SendInv'
    <3>1. NewGroup(S).retries = 0
      BY Zenon DEF NewGroup
    <3>2. /\ Len(work') = Len(work) + 1 /\ work'[Len(work) + 1] = NewGroup(S)
          /\ \A g \in 1..Len(work) : work'[g] = work[g]
      BY <2>2, <2>4
    <3>3. \A g \in 1..Len(work') : work'[g].retries <= MaxRetries
      BY <1>1, <3>1, <3>2, SendTypes
    <3> QED
      BY <1>1, <2>1, <2>2, <3>2, <3>3, CycleSends
  <2> QED
    BY Zenon, <1>11, <2>3, <2>4 DEF CreateNewGroups
<1> QED
  BY Zenon, <1>3, <1>4, <1>5, <1>6, <1>7, <1>8, <1>9, <1>10, <1>11, CommitSends, RollbackSends
     DEF Next, MonitorTxs

\* A deposit is claimed MaxRetries times at most, and once more for every cycle that failed
\* (CanSendNewClaimCall, Process).  Without retries the first claim of a group is
\* sent all the same, so there has to be one.
THEOREM SendsAreBounded ==
  ASSUME MaxRetries # 0
  PROVE  Spec => []SendsBounded
<1>1. Init => SendInv
  BY ConfigAssumption DEF Init, SendInv, Txs
<1>2. CInv /\ SendInv /\ [Next]_vars => SendInv'
  BY Zenon, SendNext
<1>3. CInv /\ SendInv => SendsBounded
  <2> SUFFICES ASSUME CInv, SendInv, NEW d \in Deposit
               PROVE  Cardinality({t \in DOMAIN chain : d \in chain[t].deposits})
                        <= MaxRetries + (MaxFaults - faults)
    BY Zenon DEF SendsBounded
  <2>1. {t \in DOMAIN chain : d \in chain[t].deposits} = Txs(d)
    BY DEF CInv, TypeOK, Txs
  <2>2. faults \in Nat /\ faults <= MaxFaults /\ MaxFaults \in Nat /\ MaxRetries \in Nat
    BY Zenon, SendTypes DEF SendInv
  <2>3. CASE groupOf[d] = 0
    <3>1. Cardinality(Txs(d)) = 0
      BY Zenon, <2>3, FS_EmptySet DEF SendInv
    <3>2. 0 <= MaxRetries + (MaxFaults - faults)
      BY <2>2
    <3> QED
      BY Zenon, <2>1, <3>1, <3>2
  <2>4. CASE groupOf[d] # 0
    <3>1. /\ Cardinality(Txs(d)) \in Nat /\ groupOf[d] \in 1..Len(groups)
          /\ pc # "idle" => groupOf[d] \in 1..Len(work)
      BY <2>4, SendTypes
    <3>2. Known(groupOf[d]) \in Nat /\ Known(groupOf[d]) <= MaxRetries
      BY Zenon, <3>1, SendTypes DEF Known, SendInv
    <3>3. Cardinality(Txs(d)) <= Known(groupOf[d]) + (MaxFaults - faults)
      BY Zenon, <2>4 DEF SendInv
    <3>4. Cardinality(Txs(d)) <= MaxRetries + (MaxFaults - faults)
      BY <2>2, <3>1, <3>2, <3>3
    <3> QED
      BY Zenon, <2>1, <3>4
  <2> QED
    BY Zenon, <2>3, <2>4
<1> QED
  BY <1>1, <1>2, <1>3, ClaimsInvariant, PTL DEF Spec
=============================================================================
