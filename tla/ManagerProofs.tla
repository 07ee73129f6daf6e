--------------------------- MODULE ManagerProofs ---------------------------
(***************************************************************************)
(* What the claim managers guarantee about the deposits they make ready,   *)
(* for every sequence of roots, set of deposits and number of failures.    *)
(***************************************************************************)
EXTENDS ClaimManager, TLAPS

\* A goroutine that ends takes one event out of the bag of its manager.
LEMMA DoneShrinks ==
  ASSUME jobs = [n \in Network |-> jobs[n]], NEW n \in Network, NEW e, Done(n, e)
  PROVE  /\ jobs' = [m \in Network |-> jobs'[m]]
         /\ \A m \in Network : BagToSet(jobs'[m]) \subseteq BagToSet(jobs[m])
<1>1. jobs' = [m \in Network |-> IF m = n THEN jobs[n] (-) SetToBag({e}) ELSE jobs[m]]
  BY Zenon DEF Done
<1>2. DOMAIN (jobs[n] (-) SetToBag({e})) \subseteq DOMAIN jobs[n]
  BY Zenon DEF (-)
<1> QED BY Zenon, <1>1, <1>2 DEF BagToSet

\* A goroutine that starts adds the event it reads.
LEMMA ReadAdds ==
  ASSUME jobs = [n \in Network |-> jobs[n]], NEW n \in Network, ReadGer(n)
  PROVE  /\ jobs' = [m \in Network |-> jobs'[m]]
         /\ \A m \in Network : BagToSet(jobs'[m]) \subseteq BagToSet(jobs[m]) \cup {ger[m]}
<1>1. jobs' = [m \in Network |-> IF m = n THEN jobs[n] (+) SetToBag({ger[n]}) ELSE jobs[m]]
  BY Zenon DEF ReadGer
<1>2. DOMAIN (jobs[n] (+) SetToBag({ger[n]})) = DOMAIN jobs[n] \cup {ger[n]}
  BY Zenon DEF (+), SetToBag
<1> QED BY Zenon, <1>1, <1>2 DEF BagToSet

\* A transaction over deposits that the network of the manager covers.
LEMMA QueueAdds ==
  ASSUME IInv, NEW n \in Network, NEW D \in SUBSET L1Deposit, QueueClaims(n, D),
         l2Seen' = l2Seen, \A d \in D : d <= Mainnet[l2Seen[n]]
  PROVE  /\ ready1' = ready1 \cup D
         /\ ready1' \in SUBSET L1Deposit /\ rows' \in SUBSET L1Deposit
         /\ ignored' \in SUBSET L1Deposit /\ dropped' \in SUBSET L1Deposit
         /\ rows' \subseteq rows \cup D /\ rows' \subseteq ready1'
         /\ QueuedOnDestination' /\ ReadyIsQueued'
<1> DEFINE mine == {d \in D : Dest[d] = n}
<1>1. PICK R \in SUBSET (mine \ claimed) :
        /\ ready1' = ready1 \cup D
        /\ ignored' = ignored \cup (mine \cap (claimed \cup R))
        /\ AddClaimTx(mine \ (claimed \cup R))
  BY Zenon DEF QueueClaims
<1>2. PICK E \in SUBSET (mine \ (claimed \cup R)) :
        /\ rows' = rows \cup ((mine \ (claimed \cup R)) \ E)
        /\ dropped' = dropped \cup E
  BY Zenon, <1>1 DEF AddClaimTx
<1>3. /\ ready1 \in SUBSET L1Deposit /\ rows \in SUBSET L1Deposit /\ rows \subseteq ready1
      /\ ignored \in SUBSET L1Deposit /\ dropped \in SUBSET L1Deposit
      /\ QueuedOnDestination /\ ReadyIsQueued
  BY Zenon DEF IInv, TypeOK
<1>4. mine \subseteq D /\ \A d \in mine : Dest[d] = n
  BY Zenon
<1>5. \A d \in D : d \in mine \/ Dest[d] # n
  BY Zenon
<1> HIDE DEF mine
<1>6. rows' \cup ignored' \cup dropped' = rows \cup ignored \cup dropped \cup mine
  BY Zenon, <1>1, <1>2
<1>7. /\ rows' \in SUBSET L1Deposit /\ ignored' \in SUBSET L1Deposit
      /\ dropped' \in SUBSET L1Deposit
      /\ rows' \subseteq rows \cup mine /\ rows' \subseteq rows \cup D
      /\ rows' \subseteq ready1'
  BY Zenon, <1>1, <1>2, <1>3, <1>4
<1>8. QueuedOnDestination'
  BY Zenon, <1>3, <1>4, <1>7 DEF QueuedOnDestination, Covered
<1>9. ReadyIsQueued'
  <2> SUFFICES ASSUME NEW d \in ready1' \ (rows' \cup ignored' \cup dropped')
               PROVE  \E m \in Network : m # Dest[d] /\ d <= Mainnet[l2Seen[m]]
    BY Zenon DEF ReadyIsQueued
  <2>1. CASE d \in ready1
    BY Zenon, <1>3, <1>6, <2>1 DEF ReadyIsQueued
  <2>2. CASE d \in D
    BY Zenon, <1>5, <1>6, <2>2
  <2> QED BY Zenon, <1>1, <2>1, <2>2
<1> QED BY Zenon, <1>1, <1>3, <1>7, <1>8, <1>9

\* An event in flight stays announced when the roots seen only grow.
LEMMA AnnouncedKept ==
  ASSUME IInv, ger' = ger,
         l1Seen' = l1Seen, l2Seen' = l2Seen,
         \A m \in Network : BagToSet(jobs'[m]) \subseteq BagToSet(jobs[m]) \cup {ger[m]}
  PROVE  /\ Announced'
         /\ \A m \in Network : BagToSet(jobs'[m]) \subseteq Event
<1>1. ASSUME NEW m \in Network, NEW e \in BagToSet(jobs'[m]) \cup {ger'[m]}
      PROVE  e \in BagToSet(jobs[m]) \cup {ger[m]}
  BY Zenon, <1>1
<1>2. /\ \A m \in Network : ger[m] \in Event /\ BagToSet(jobs[m]) \subseteq Event
      /\ Announced
  BY Zenon DEF IInv, TypeOK
<1> QED BY Zenon, <1>1, <1>2 DEF Announced

\* Roots are numbers.
LEMMA RootIsNat == 0 \in Root /\ \A r \in Root : r \in Nat
BY RootAssumption DEF Root

\* The loop takes an event that is newer than what its synchronizer sent before.
LEMMA ReceiveKeeps ==
  ASSUME IInv, NEW n \in Network, NEW r \in Root, L1Root(n, r) \/ TrustedRoot(n, r)
  PROVE  IInv'
<1>1. /\ l1Seen \in [Network -> Root] /\ l2Seen \in [Network -> Root]
      /\ ger \in [Network -> Event] /\ spawned \in [Network -> Nat]
      /\ Announced /\ ReadyOnL1 /\ QueuedOnDestination /\ ReadyIsQueued
      /\ ready1 \in SUBSET L1Deposit /\ rows \subseteq ready1
      /\ \A m \in Network : BagToSet(jobs[m]) \subseteq Event
      /\ ready2 \in [Network -> Nat]
  BY Zenon DEF IInv, TypeOK
<1>2. PICK e \in Event :
        /\ e.root = r /\ Receive(n, e)
        /\ IF e.fromL1 THEN l1Seen' = [l1Seen EXCEPT ![n] = r] /\ l2Seen' = l2Seen
                       ELSE l2Seen' = [l2Seen EXCEPT ![n] = r] /\ l1Seen' = l1Seen
        /\ l1Seen[n] <= l1Seen'[n] /\ l2Seen[n] <= l2Seen'[n]
  <2>1. CASE L1Root(n, r)
    <3> DEFINE f == [root |-> r, fromL1 |-> TRUE]
    <3>1. f \in Event /\ f.root = r /\ f.fromL1 = TRUE
      BY Zenon DEF Event
    <3>2. /\ Receive(n, f) /\ r > l1Seen[n]
          /\ l1Seen' = [l1Seen EXCEPT ![n] = r] /\ l2Seen' = l2Seen
      BY Zenon, <2>1 DEF L1Root
    <3>3. l1Seen[n] \in Nat /\ l2Seen[n] \in Nat /\ r \in Nat
      BY Zenon, <1>1, RootIsNat
    <3>4. l1Seen[n] <= l1Seen'[n] /\ l2Seen[n] <= l2Seen'[n]
      BY <1>1, <3>2, <3>3
    <3> HIDE DEF f
    <3> QED BY Zenon, <3>1, <3>2, <3>4
  <2>2. CASE TrustedRoot(n, r)
    <3> DEFINE f == [root |-> r, fromL1 |-> FALSE]
    <3>1. f \in Event /\ f.root = r /\ f.fromL1 = FALSE
      BY Zenon DEF Event
    <3>2. /\ Receive(n, f) /\ r > l2Seen[n]
          /\ l2Seen' = [l2Seen EXCEPT ![n] = r] /\ l1Seen' = l1Seen
      BY Zenon, <2>2 DEF TrustedRoot
    <3>3. l2Seen[n] \in Nat /\ l1Seen[n] \in Nat /\ r \in Nat
      BY Zenon, <1>1, RootIsNat
    <3>4. l2Seen[n] <= l2Seen'[n] /\ l1Seen[n] <= l1Seen'[n]
      BY <1>1, <3>2, <3>3
    <3> HIDE DEF f
    <3> QED BY Zenon, <3>1, <3>2, <3>4
  <2> QED BY Zenon, <2>1, <2>2
<1>3. /\ ger' = [ger EXCEPT ![n] = e]
      /\ spawned' \in [Network -> Nat]
      /\ UNCHANGED <<cfgVars, synced, latest, jobs, lists, dbVars, claimed, faults>>
  BY <1>1, <1>2 DEF Receive, Spawn
<1>4. /\ l1Seen' \in [Network -> Root] /\ l2Seen' \in [Network -> Root]
      /\ \A m \in Network : l1Seen[m] <= l1Seen'[m] /\ l2Seen[m] <= l2Seen'[m]
  <2>1. l1Seen' \in [Network -> Root] /\ l2Seen' \in [Network -> Root]
    BY Zenon, <1>1, <1>2
  <2>2. ASSUME NEW m \in Network PROVE l1Seen[m] <= l1Seen'[m] /\ l2Seen[m] <= l2Seen'[m]
    <3>1. l1Seen[m] \in Nat /\ l2Seen[m] \in Nat
      BY Zenon, <1>1, RootIsNat
    <3>2. CASE m = n
      BY Zenon, <1>2, <3>2
    <3>3. CASE m # n
      <4>1. l1Seen'[m] = l1Seen[m] /\ l2Seen'[m] = l2Seen[m]
        BY Zenon, <1>1, <1>2, <3>3
      <4> QED BY <3>1, <4>1
    <3> QED BY Zenon, <3>2, <3>3
  <2> QED BY Zenon, <2>1, <2>2
<1>5. /\ ger' \in [Network -> Event]
      /\ \A m \in Network : ger'[m] = IF m = n THEN e ELSE ger[m]
  BY Zenon, <1>1, <1>3
<1>6. TypeOK'
  BY Zenon, <1>3, <1>4, <1>5 DEF IInv, TypeOK, cfgVars, dbVars
<1>7. Announced'
  <2> SUFFICES ASSUME NEW m \in Network, NEW f \in BagToSet(jobs[m]) \cup {ger'[m]}
               PROVE  f.root <= IF f.fromL1 THEN l1Seen'[m] ELSE l2Seen'[m]
    BY Zenon, <1>3 DEF Announced
  <2>1. CASE f \in BagToSet(jobs[m]) \cup {ger[m]}
    <3>1. f \in Event /\ f.root <= IF f.fromL1 THEN l1Seen[m] ELSE l2Seen[m]
      BY Zenon, <1>1, <2>1 DEF Announced
    <3>2. /\ f.root \in Nat /\ l1Seen[m] \in Nat /\ l2Seen[m] \in Nat
          /\ l1Seen'[m] \in Nat /\ l2Seen'[m] \in Nat
      BY Zenon, <1>1, <1>4, <3>1, RootIsNat DEF Event
    <3> QED BY <1>4, <3>1, <3>2
  <2>2. CASE m = n /\ f = e
    <3>1. r \in Nat
      BY Zenon, RootIsNat
    <3> QED BY <1>1, <1>2, <2>2, <3>1
  <2> QED BY Zenon, <1>5, <2>1, <2>2
<1>8. ReadyOnL1'
  <2> SUFFICES ASSUME NEW m \in Network PROVE ready2[m] <= Rollup[l1Seen'[m]][m]
    BY Zenon, <1>3 DEF ReadyOnL1, dbVars
  <2>1. Rollup[l1Seen[m]][m] <= Rollup[l1Seen'[m]][m]
    BY Zenon, <1>1, <1>4, RootAssumption
  <2>2. Rollup[l1Seen[m]][m] \in Nat /\ Rollup[l1Seen'[m]][m] \in Nat /\ ready2[m] \in Nat
    BY <1>1, <1>4, RootAssumption
  <2> QED BY <1>1, <2>1, <2>2 DEF ReadyOnL1
<1>9. \A l \in lists' : \A d \in l.todo : d <= Mainnet[l2Seen'[l.mgr]]
  <2> SUFFICES ASSUME NEW l \in lists, NEW d \in l.todo PROVE d <= Mainnet[l2Seen'[l.mgr]]
    BY Zenon, <1>3
  <2>1. l.mgr \in Network /\ d \in Nat /\ d <= Mainnet[l2Seen[l.mgr]]
    BY Zenon, RootAssumption DEF IInv, TypeOK
  <2>2. Mainnet[l2Seen[l.mgr]] <= Mainnet[l2Seen'[l.mgr]]
    BY Zenon, <1>1, <1>4, <2>1, RootAssumption
  <2>3. Mainnet[l2Seen[l.mgr]] \in Nat /\ Mainnet[l2Seen'[l.mgr]] \in Nat
    BY Zenon, <1>1, <1>4, <2>1, RootAssumption
  <2> QED BY <2>1, <2>2, <2>3
<1>10. ASSUME NEW m \in Network, NEW d \in ready1, d <= Mainnet[l2Seen[m]]
       PROVE  d <= Mainnet[l2Seen'[m]]
  <2>1. d \in Nat
    BY Zenon, <1>1, RootAssumption
  <2>2. Mainnet[l2Seen[m]] <= Mainnet[l2Seen'[m]]
    BY Zenon, <1>1, <1>4, RootAssumption
  <2>3. Mainnet[l2Seen[m]] \in Nat /\ Mainnet[l2Seen'[m]] \in Nat
    BY Zenon, <1>1, <1>4, RootAssumption
  <2> QED BY <1>10, <2>1, <2>2, <2>3
<1>11. QueuedOnDestination' /\ ReadyIsQueued'
  <2>1. UNCHANGED <<ready1, rows, ignored, dropped>>
    BY Zenon, <1>3 DEF dbVars
  <2>2. QueuedOnDestination'
    BY Zenon, <1>1, <1>10, <2>1 DEF QueuedOnDestination, Covered
  <2>3. ReadyIsQueued'
    BY Zenon, <1>1, <1>10, <2>1 DEF ReadyIsQueued
  <2> QED BY Zenon, <2>2, <2>3
<1> QED BY Zenon, <1>3, <1>6, <1>7, <1>8, <1>9, <1>11 DEF IInv, ListIsFresh, cfgVars, dbVars

\* What a goroutine lists for an event of the trusted state its network covers.
LEMMA Listed ==
  ASSUME IInv, NEW n \in Network, NEW e \in BagToSet(jobs[n]), ~FromL1(e)
  PROVE  \A d \in GetL1Deposits(e.root) : d <= Mainnet[l2Seen[n]]
<1> SUFFICES ASSUME NEW d \in GetL1Deposits(e.root) PROVE d <= Mainnet[l2Seen[n]]
  BY Zenon
<1>1. e.root <= l2Seen[n] /\ e.root \in Root /\ l2Seen[n] \in Root
  BY Zenon DEF FromL1, IInv, TypeOK, Announced, Event
<1>2. d \in Nat /\ d <= Mainnet[e.root]
  BY Zenon, RootAssumption DEF GetL1Deposits
<1>3. Mainnet[e.root] <= Mainnet[l2Seen[n]]
  BY Zenon, <1>1, RootAssumption
<1>4. Mainnet[e.root] \in Nat /\ Mainnet[l2Seen[n]] \in Nat
  BY Zenon, <1>1, RootAssumption
<1> QED BY <1>2, <1>3, <1>4

\* Every step keeps the invariant.
LEMMA IInvNext == IInv /\ [Next]_vars => IInv'
<1> SUFFICES ASSUME IInv, [Next]_vars PROVE IInv'
  BY Zenon
<1> USE DEF cfgVars, seenVars, loopVars, jobVars, dbVars
<1>0. ASSUME UNCHANGED <<ready1, rows, ignored, dropped, l2Seen>>
      PROVE  (rows \subseteq ready1 /\ QueuedOnDestination /\ ReadyIsQueued)'
  BY Zenon, <1>0 DEF IInv, QueuedOnDestination, ReadyIsQueued, Covered
<1>1. CASE UNCHANGED vars
  BY Zenon, <1>0, <1>1 DEF vars, IInv, TypeOK, Announced, ListIsFresh, ReadyOnL1
<1>2. ASSUME NEW n \in Network, NEW r \in Root, L1Root(n, r) \/ TrustedRoot(n, r)
      PROVE  IInv'
  BY Zenon, <1>2, ReceiveKeeps
<1>3. ASSUME NEW n \in Network, CompressorTick(n) PROVE IInv'
  <2>1. latest' \in [Network -> Root] /\ spawned' \in [Network -> Nat]
    BY <1>3 DEF CompressorTick, Spawn, IInv, TypeOK, Event
  <2> QED BY Zenon, <1>0, <1>3, <2>1
          DEF CompressorTick, IInv, TypeOK, Announced, ListIsFresh, ReadyOnL1
<1>4. ASSUME NEW n \in Network, ReadGer(n) PROVE IInv'
  <2>1. /\ jobs' = [m \in Network |-> jobs'[m]]
        /\ Announced' /\ \A m \in Network : BagToSet(jobs'[m]) \subseteq Event
    BY Zenon, <1>4, ReadAdds, AnnouncedKept DEF ReadGer, IInv
  <2>2. spawned' \in [Network -> Nat]
    BY <1>4 DEF ReadGer, IInv, TypeOK
  <2> QED BY Zenon, <1>0, <1>4, <2>1, <2>2 DEF ReadGer, IInv, TypeOK, ListIsFresh, ReadyOnL1
<1>5. ASSUME NEW n \in Network, NEW e, Done(n, e), UNCHANGED <<ger, l1Seen, l2Seen>>
      PROVE  /\ jobs' = [m \in Network |-> jobs'[m]]
             /\ Announced' /\ \A m \in Network : BagToSet(jobs'[m]) \subseteq Event
  BY Zenon, <1>5, DoneShrinks, AnnouncedKept DEF IInv
<1>6. ASSUME NEW n \in Network, NEW e \in BagToSet(jobs[n])
      PROVE  e \in Event /\ e.root \in Root /\ e.fromL1 \in BOOLEAN
             /\ e.root <= IF e.fromL1 THEN l1Seen[n] ELSE l2Seen[n]
  BY Zenon, <1>6 DEF IInv, TypeOK, Announced, Event
<1>7. ASSUME NEW n \in Network, NEW e \in BagToSet(jobs[n]), UpdateL2(n, e) PROVE IInv'
  <2>1. /\ jobs' = [m \in Network |-> jobs'[m]]
        /\ Announced' /\ \A m \in Network : BagToSet(jobs'[m]) \subseteq Event
    BY Zenon, <1>5, <1>7 DEF UpdateL2
  <2>2. /\ e.root <= l1Seen[n] /\ e.root \in Root /\ l1Seen[n] \in Root
        /\ ready2 \in [Network -> Nat]
    BY Zenon, <1>6, <1>7 DEF UpdateL2, FromL1, IInv, TypeOK
  <2>3. /\ Rollup[e.root][n] <= Rollup[l1Seen[n]][n]
        /\ Rollup[e.root][n] \in Nat
    BY Zenon, <2>2, RootAssumption
  <2>4. ready2' \in [Network -> Nat] /\ ReadyOnL1'
    BY Zenon, <1>7, <2>2, <2>3 DEF UpdateL2, IInv, ReadyOnL1
  <2> QED BY Zenon, <1>0, <1>7, <2>1, <2>4 DEF UpdateL2, IInv, TypeOK, ListIsFresh
<1>8. ASSUME NEW n \in Network, NEW e \in BagToSet(jobs[n]), UpdateL1(n, e) PROVE IInv'
  <2>1. /\ jobs' = [m \in Network |-> jobs'[m]]
        /\ Announced' /\ \A m \in Network : BagToSet(jobs'[m]) \subseteq Event
    BY Zenon, <1>5, <1>8 DEF UpdateL1
  <2>2. GetL1Deposits(e.root) \in SUBSET L1Deposit
    BY Zenon DEF GetL1Deposits
  <2>5. \A d \in GetL1Deposits(e.root) : d <= Mainnet[l2Seen[n]]
    BY Zenon, <1>8, Listed DEF UpdateL1
  <2>3. /\ ready1' \in SUBSET L1Deposit /\ rows' \in SUBSET L1Deposit
        /\ ignored' \in SUBSET L1Deposit /\ dropped' \in SUBSET L1Deposit
        /\ rows' \subseteq ready1' /\ QueuedOnDestination' /\ ReadyIsQueued'
    BY Zenon, <1>8, <2>2, <2>5, QueueAdds DEF UpdateL1
  <2>4. lists = {} /\ lists' = {}
    BY Zenon, <1>8 DEF UpdateL1, IInv
  <2> QED BY Zenon, <1>8, <2>1, <2>3, <2>4 DEF UpdateL1, IInv, TypeOK, ListIsFresh, ReadyOnL1
<1>9. ASSUME NEW n \in Network, NEW e \in BagToSet(jobs[n]), LockL1(n, e) PROVE IInv'
  <2>1. /\ jobs' = [m \in Network |-> jobs'[m]]
        /\ Announced' /\ \A m \in Network : BagToSet(jobs'[m]) \subseteq Event
    BY Zenon, <1>5, <1>9 DEF LockL1
  <2> DEFINE l == [mgr |-> n, todo |-> GetL1Deposits(e.root)]
  <2>2. lists' = {l} /\ l \in [mgr : Network, todo : SUBSET L1Deposit]
    BY Zenon, <1>9 DEF LockL1, LockFree, GetL1Deposits
  <2>3. l.todo \cap (ready1 \cup rows) = {}
    BY Zenon DEF IInv, GetL1Deposits
  <2>4. \A d \in l.todo : d <= Mainnet[l2Seen[l.mgr]]
    BY Zenon, <1>9, Listed DEF LockL1
  <2> HIDE DEF l
  <2> QED BY Zenon, <1>0, <1>9, <2>1, <2>2, <2>3, <2>4
          DEF LockL1, IInv, TypeOK, ListIsFresh, ReadyOnL1
<1>10. ASSUME NEW l \in lists, NEW d \in L1Deposit, QueueOne(l, d) PROVE IInv'
  <2> DEFINE k == [l EXCEPT !.todo = @ \ {d}]
  <2>1. /\ l \in [mgr : Network, todo : SUBSET L1Deposit] /\ lists = {l} /\ optClaim
        /\ l.todo \cap (ready1 \cup rows) = {}
    BY Zenon DEF IInv, TypeOK, ListIsFresh
  <2>2. /\ k \in [mgr : Network, todo : SUBSET L1Deposit]
        /\ k.mgr = l.mgr /\ k.todo = l.todo \ {d}
    BY Zenon, <2>1
  <2> HIDE DEF k
  <2>3. lists' = {k}
    BY Zenon, <1>10, <2>1 DEF QueueOne, k
  <2>4. /\ ready1' = ready1 \cup {d} /\ rows' \subseteq rows \cup {d}
        /\ ready1' \in SUBSET L1Deposit /\ rows' \in SUBSET L1Deposit
        /\ ignored' \in SUBSET L1Deposit /\ dropped' \in SUBSET L1Deposit
        /\ rows' \subseteq ready1' /\ QueuedOnDestination' /\ ReadyIsQueued'
    <3>1. l.mgr \in Network /\ d <= Mainnet[l2Seen[l.mgr]]
      BY Zenon, <1>10 DEF QueueOne, IInv, TypeOK
    <3>2. {d} \in SUBSET L1Deposit /\ \A c \in {d} : c <= Mainnet[l2Seen[l.mgr]]
      BY Zenon, <3>1
    <3>3. QueueClaims(l.mgr, {d}) /\ l2Seen' = l2Seen
      BY Zenon, <1>10 DEF QueueOne
    <3> QED BY Zenon, <3>1, <3>2, <3>3, QueueAdds
  <2>5. k.todo \cap (ready1' \cup rows') = {}
    BY Zenon, <2>1, <2>2, <2>4
  <2>6. \A c \in k.todo : c <= Mainnet[l2Seen[k.mgr]]
    BY Zenon, <2>1, <2>2 DEF IInv
  <2> QED BY <1>10, <2>1, <2>2, <2>3, <2>4, <2>5, <2>6
          DEF QueueOne, IInv, TypeOK, ListIsFresh, ReadyOnL1, Announced
<1>11. ASSUME NEW l \in lists, UnlockL1(l) \/ QueueOneFails(l) PROVE IInv'
  <2>1. lists' \subseteq lists /\ faults' \in 0..MaxFaults
    BY <1>11, RootAssumption DEF UnlockL1, QueueOneFails, IInv, TypeOK
  <2> QED BY Zenon, <1>0, <1>11, <2>1
          DEF UnlockL1, QueueOneFails, IInv, TypeOK, ListIsFresh, ReadyOnL1, Announced
<1>12. ASSUME NEW n \in Network, NEW e \in BagToSet(jobs[n]), JobFails(n, e) PROVE IInv'
  <2>1. /\ jobs' = [m \in Network |-> jobs'[m]]
        /\ Announced' /\ \A m \in Network : BagToSet(jobs'[m]) \subseteq Event
    BY Zenon, <1>5, <1>12 DEF JobFails
  <2>2. faults' \in 0..MaxFaults
    BY <1>12, RootAssumption DEF JobFails, IInv, TypeOK
  <2> QED BY Zenon, <1>0, <1>12, <2>1, <2>2 DEF JobFails, IInv, TypeOK, ListIsFresh, ReadyOnL1
<1>13. ASSUME NEW n \in Network, NEW net \in {"l1", "l2"}, Synced(n, net) PROVE IInv'
  BY Zenon, <1>0, <1>13 DEF Synced, IInv, TypeOK, Announced, ListIsFresh, ReadyOnL1
<1>14. CASE Crash
  <2>1. faults' \in 0..MaxFaults
    BY <1>14, RootAssumption DEF Crash, IInv, TypeOK
  <2>2. NoEvent \in Event /\ 0 \in Root
    BY RootAssumption DEF NoEvent, Event, Root
  <2>3. \A n \in Network : BagToSet(jobs'[n]) = {} /\ ger'[n] = NoEvent
    BY Zenon, <1>14 DEF Crash, Started, BagToSet, EmptyBag, SetToBag
  <2>4. Announced'
    <3>1. \A n \in Network : l1Seen'[n] \in Nat /\ l2Seen'[n] \in Nat
      BY Zenon, <1>14, RootIsNat DEF Crash, IInv, TypeOK
    <3> QED BY <2>3, <3>1 DEF Announced, NoEvent
  <2> QED BY Zenon, <1>0, <1>14, <2>1, <2>2, <2>3, <2>4
          DEF Crash, Started, IInv, TypeOK, ListIsFresh, ReadyOnL1
<1>15. ASSUME NEW d \in L1Deposit, UserClaim(d) PROVE IInv'
  BY Zenon, <1>0, <1>15 DEF UserClaim, IInv, TypeOK, Announced, ListIsFresh, ReadyOnL1
<1> QED BY Zenon, <1>1, <1>2, <1>3, <1>4, <1>7, <1>8, <1>9, <1>10, <1>11, <1>12, <1>13, <1>14,
   <1>15
        DEF Next, ManagerStep

\* The invariant holds initially.
LEMMA IInvInit == Init => IInv
<1> SUFFICES ASSUME Init PROVE IInv
  BY Zenon
<1>1. NoEvent \in Event /\ NoEvent.root = 0 /\ 0 \in Root
  BY Zenon, RootIsNat DEF NoEvent, Event
<1>2. \A n \in Network : BagToSet(jobs[n]) = {} /\ ger[n] = NoEvent
  BY Zenon DEF Init, BagToSet, EmptyBag, SetToBag
<1>3. TypeOK
  BY <1>1, <1>2, RootAssumption DEF Init, TypeOK
<1>4. Announced
  BY <1>1, <1>2 DEF Init, Announced
<1>5. ReadyOnL1
  BY <1>1, RootAssumption DEF Init, ReadyOnL1
<1>6. QueuedOnDestination /\ ReadyIsQueued
  BY Zenon DEF Init, QueuedOnDestination, ReadyIsQueued
<1> QED BY Zenon, <1>3, <1>4, <1>5, <1>6 DEF Init, IInv, ListIsFresh

\* For any number of networks, deposits, roots and failures: the inductive
\* invariant of the managers.
THEOREM ManagerInductive == Spec => []IInv
BY IInvInit, IInvNext, PTL DEF Spec

\* An L2 deposit is never ready before L1 has a rollup root that covers it, although
\* the goroutine reads the event when it runs and not when it is started.
THEOREM ReadyOnlyOnL1 == Spec => []ReadyOnL1
<1>1. IInv => ReadyOnL1
  BY Zenon DEF IInv
<1> QED BY <1>1, ManagerInductive, PTL

\* The mutex keeps the list of deposits fresh until the goroutine is through it.
THEOREM ListStaysFresh == Spec => []ListIsFresh
<1>1. IInv => ListIsFresh
  BY Zenon DEF IInv
<1> QED BY <1>1, ManagerInductive, PTL

\* For any number of networks, whether or not the process serves the destination of a
\* deposit: a claim is queued by the manager of the destination, and only when that
\* network has a root that covers the deposit.
THEOREM QueuedMeansCovered == Spec => []QueuedOnDestination
<1>1. IInv => QueuedOnDestination
  BY Zenon DEF IInv
<1> QED BY <1>1, ManagerInductive, PTL

\* A deposit that is ready has a row, unless its manager decided against it, no gas was
\* estimated for it, or the manager of another network made it ready.
THEOREM ReadyMeansQueued == Spec => []ReadyIsQueued
<1>1. IInv => ReadyIsQueued
  BY Zenon DEF IInv
<1> QED BY <1>1, ManagerInductive, PTL

\* The service is deployed with one L2.
OneNetwork == \A m, n \in Network : m = n

\* With one L2 the deposits for it that are ready are those its manager has queued, has
\* decided against, or could estimate no gas for.
THEOREM OneNetworkQueues ==
  ASSUME OneNetwork
  PROVE  Spec => [](\A d \in ready1 : Dest[d] \in Network => d \in rows \cup ignored \cup dropped)
<1>1. IInv => \A d \in ready1 : Dest[d] \in Network => d \in rows \cup ignored \cup dropped
  BY Zenon DEF IInv, ReadyIsQueued, OneNetwork
<1> QED BY <1>1, ManagerInductive, PTL
=============================================================================
