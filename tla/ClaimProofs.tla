---------------------------- MODULE ClaimProofs ----------------------------
(***************************************************************************)
(* Theorems about what a claim may start: the next delivery of an ordered  *)
(* subscription, as many as the cap of an unordered one leaves room for,   *)
(* as many as the worker has free slots.  They need what a step may do to  *)
(* the deliveries table (QueueProofs) and to the subscriptions             *)
(* (SubscriptionProofs): which of the two rules holds a delivery back is   *)
(* for the row of its subscription to say.                                 *)
(***************************************************************************)
EXTENDS QueueProofs, SubscriptionProofs

(***************************************************************************)
(* A subscription whose PATCHes leave the flag alone keeps the one it was  *)
(* created with, and so does the row a PATCH is about to write back.       *)
(***************************************************************************)
FlagsOK ==
    \A s \in Subs : FixedOrder(s) =>
        /\ subs[s].ordered = (s \in OrderedSubs)
        /\ \A p \in Procs :
              stage[p] = "patch" /\ seen[p].sub = s =>
                  /\ seen[p].row.ordered = (s \in OrderedSubs)
                  /\ seen[p].patch.ordered = NULL

OrderInv == AttemptInv /\ FlagsOK /\ OrderedOneAtATime

LEMMA FlagsStep ==
    ASSUME TypeInv, FlagsOK, SubsStep
    PROVE  FlagsOK'
<1> SUFFICES ASSUME NEW s \in Subs, FixedOrder(s)
             PROVE  /\ subs'[s].ordered = (s \in OrderedSubs)
                    /\ \A p \in Procs :
                          stage'[p] = "patch" /\ seen'[p].sub = s =>
                              /\ seen'[p].row.ordered = (s \in OrderedSubs)
                              /\ seen'[p].patch.ordered = NULL
    BY DEF FlagsOK, FixedOrder
<1>1. subs[s].ordered = (s \in OrderedSubs)
    BY DEF FlagsOK
<1>2. subs'[s].ordered = (s \in OrderedSubs)
    <2>1. CASE subs'[s] = subs[s]
        BY <1>1, <2>1
    <2>2. CASE \E status \in {"active", "paused", "deleted"} :
                  subs'[s] = NewSub(s, status)
        BY <2>2 DEF NewSub
    <2>3. ASSUME NEW p \in Procs, stage[p] = "patch", seen[p].sub = s,
                 subs'[s] = SubStore!Updated(seen[p].row, seen[p].patch)
          PROVE  subs'[s].ordered = (s \in OrderedSubs)
        <3>1. /\ seen[p].row.ordered = (s \in OrderedSubs)
              /\ seen[p].patch.ordered = NULL
            BY <2>3 DEF FlagsOK
        <3> QED
            BY <2>3, <3>1 DEF SubStore!Updated
    <2>4. ASSUME NEW read, NEW outcome,
                 subs'[s] = SubStore!Recorded(subs[s], read, outcome)
          PROVE  subs'[s].ordered = (s \in OrderedSubs)
        <3>1. subs[s] \in SubStore!SubRow
            BY DEF TypeInv, TypeOK
        <3>2. subs'[s].ordered = subs[s].ordered
            BY <2>4, <3>1 DEF SubStore!Recorded, SubStore!SubRow
        <3> QED
            BY <1>1, <3>2
    <2> QED
        BY <2>1, <2>2, <2>3, <2>4 DEF SubsStep, SubStep
<1>3. ASSUME NEW p \in Procs, stage'[p] = "patch", seen'[p].sub = s
      PROVE  /\ seen'[p].row.ordered = (s \in OrderedSubs)
             /\ seen'[p].patch.ordered = NULL
    <2>1. CASE stage[p] = "patch" /\ seen'[p] = seen[p]
        BY <1>3, <2>1 DEF FlagsOK
    <2>2. ASSUME NEW x \in Subs, NEW patch \in Patches[x],
                 seen'[p] = [sub |-> x, row |-> subs[x], patch |-> patch]
          PROVE  /\ seen'[p].row.ordered = (s \in OrderedSubs)
                 /\ seen'[p].patch.ordered = NULL
        <3>1. x = s
            BY <1>3, <2>2
        <3> QED
            BY <1>1, <2>2, <3>1 DEF FixedOrder
    <2> QED
        BY <1>3, <2>1, <2>2 DEF SubsStep, SeenStep
<1> QED
    BY <1>2, <1>3

\* A running delivery was running before the step, or is one that claim found
\* eligible.
LEMMA BecomesRunning ==
    ASSUME TypeInv, RowsOK, NEW d \in DOMAIN deliveries, RowStep(d),
           deliveries'[d].status = "running"
    PROVE  \/ deliveries[d].status = "running"
           \/ \E p \in Procs : Claim(p) /\ d \in Eligible(deliveries, subs, at[p])
<1>1. deliveries[d] \in DeliveryRow
    BY DEF TypeInv, TypeOK
<1>2. deliveries'[d] = Cancelled(deliveries[d]) =>
         deliveries'[d].status = "cancelled"
    BY <1>1 DEF Cancelled, DeliveryRow
<1>3. ASSUME NEW outcome \in Outcome, NEW t \in Nat, NEW sch \in Schedules,
             deliveries'[d] =
                Finished(deliveries[d], Decide(deliveries[d], outcome, t, sch))
      PROVE  deliveries'[d].status # "running"
    BY <1>1, <1>3 DEF Finished, Decide, DeliveryRow
<1> QED
    BY <1>2, <1>3 DEF RowStep

LEMMA OrderStep ==
    ASSUME OrderInv, TypeInv', TableStep
    PROVE  OrderedOneAtATime'
<1> SUFFICES ASSUME NEW d \in DOMAIN deliveries', NEW e \in DOMAIN deliveries',
                    deliveries'[d].sub \in OrderedSubs,
                    FixedOrder(deliveries'[d].sub),
                    deliveries'[d].status = "running",
                    deliveries'[e].sub = deliveries'[d].sub, e < d
             PROVE  deliveries'[e].status \in Terminal
    BY DEF OrderedOneAtATime, FixedOrder
<1> DEFINE s == deliveries'[d].sub
<1>1. TypeInv /\ RowsOK /\ TypeOK /\ TypeOK'
    BY DEF OrderInv, AttemptInv, TypeInv
<1>2. /\ lastId \in Nat /\ DOMAIN deliveries \subseteq 1..lastId
      /\ d \in Nat /\ e \in Nat /\ d <= lastId'
    BY <1>1 DEF TypeOK
<1>3. d \in DOMAIN deliveries
    <2>1. \A row \in Fresh : row.status = "pending"
        BY DEF Fresh, NewRow
    <2> QED
        BY <2>1 DEF TableStep
<1>4. e \in DOMAIN deliveries
    BY <1>2, <1>3 DEF TableStep
<1>5. RowStep(d) /\ RowStep(e)
    BY <1>3, <1>4 DEF TableStep
<1>6. deliveries[d].sub = s /\ deliveries[e].sub = s
    BY <1>1, <1>3, <1>4, <1>5, RowProgress
<1>7. deliveries[e].status \in Terminal
    <2>1. CASE deliveries[d].status = "running"
        BY <1>3, <1>4, <1>6, <2>1 DEF OrderInv, OrderedOneAtATime
    <2>2. ASSUME NEW t, d \in Eligible(deliveries, subs, t)
          PROVE  deliveries[e].status \in Terminal
        <3>1. subs[s].ordered
            <4>1. s \in Subs
                BY <1>1, <1>3, <1>6 DEF TypeOK, DeliveryRow
            <4>2. subs[s].ordered = (s \in OrderedSubs)
                BY <4>1 DEF OrderInv, FlagsOK
            <4> QED
                BY <4>2
        <3>2. Unblocked(deliveries, d)
            BY <1>6, <2>2, <3>1 DEF Eligible
        <3>3. deliveries[e].status \notin Live
            BY <1>4, <1>6, <3>2 DEF Unblocked
        <3>4. deliveries[e].status \in Status
            BY <1>1, <1>4 DEF TypeOK, DeliveryRow
        <3> QED
            BY <3>3, <3>4 DEF Status
    <2> QED
        BY <1>1, <1>3, <1>5, <2>1, <2>2, BecomesRunning
<1>8. deliveries'[e] = deliveries[e]
    BY <1>1, <1>4, <1>5, <1>7, RowProgress
<1> QED
    BY <1>7, <1>8

LEMMA OrderInit == Init => OrderInv
<1> SUFFICES ASSUME Init PROVE OrderInv
    OBVIOUS
<1>1. AttemptInv
    BY AttemptInit
<1>2. FlagsOK
    BY DEF Init, FlagsOK, NewSub
<1>3. DOMAIN deliveries = {}
    BY DEF Init
<1> QED
    BY <1>1, <1>2, <1>3 DEF OrderInv, OrderedOneAtATime

\* The deliveries of an ordered subscription run one at a time and in the order
\* they were queued, whoever claims, crashes or reclaims.
THEOREM OrderIsKept == Spec => []OrderedOneAtATime
<1>1. Init => OrderInv
    BY OrderInit
<1>2. OrderInv /\ [Next]_vars => OrderInv'
    <2> SUFFICES ASSUME OrderInv, [Next]_vars PROVE OrderInv'
        OBVIOUS
    <2>1. AttemptInv'
        BY AttemptStep DEF OrderInv
    <2>2. FlagsOK'
        BY SubsEffect, FlagsStep DEF OrderInv, AttemptInv
    <2>3. OrderedOneAtATime'
        BY <2>1, StepEffect, OrderStep DEF OrderInv, AttemptInv
    <2> QED
        BY <2>1, <2>2, <2>3 DEF OrderInv
<1>3. OrderInv => OrderedOneAtATime
    BY DEF OrderInv
<1> QED
    BY <1>1, <1>2, <1>3, PTL DEF Spec

-----------------------------------------------------------------------------
(***************************************************************************)
(* Ranks.  The due statement numbers the candidates in the order of their  *)
(* due times and takes the ones with a low number.                         *)
(***************************************************************************)

\* A finite set of scheduled rows, as the candidates of a claim are.
Ranked(T, among) ==
    /\ among \in SUBSET Nat /\ IsFiniteSet(among)
    /\ \A d \in among : T[d].nextAt \in Nat

\* A rank is a number from 1 to the number of rows.
LEMMA RankRange ==
    ASSUME NEW T, NEW among, Ranked(T, among), NEW x \in among
    PROVE  Rank(T, x, among) \in 1..Cardinality(among)
<1> DEFINE upTo == {e \in among : e = x \/ Before(T, e, x)}
<1>1. upTo \in SUBSET among /\ upTo # {} /\ Rank(T, x, among) = Cardinality(upTo)
    BY DEF Rank
<1>2. IsFiniteSet(among)
    BY DEF Ranked
<1> HIDE DEF upTo
<1>3. IsFiniteSet(upTo) /\ Cardinality(upTo) <= Cardinality(among)
    BY <1>1, <1>2, FS_Subset
<1>4. Cardinality(upTo) \in Nat /\ Cardinality(among) \in Nat
    BY <1>2, <1>3, FS_CardinalityType
<1>5. Cardinality(upTo) # 0
    BY <1>1, <1>3, FS_EmptySet
<1> QED
    BY <1>1, <1>3, <1>4, <1>5

\* Different rows have different ranks.
LEMMA RankDistinct ==
    ASSUME NEW T, NEW among, Ranked(T, among),
           NEW x \in among, NEW y \in among, x # y
    PROVE  Rank(T, x, among) # Rank(T, y, among)
<1> DEFINE upTo(d) == {e \in among : e = d \/ Before(T, e, d)}
<1>1. ASSUME NEW v \in among, NEW w \in among, Before(T, v, w)
      PROVE  Rank(T, v, among) # Rank(T, w, among)
    <2>1. /\ v \in Nat /\ w \in Nat
          /\ T[v].nextAt \in Nat /\ T[w].nextAt \in Nat
        BY DEF Ranked
    <2>2. w # v /\ ~Before(T, w, v)
        BY <1>1, <2>1 DEF Before
    <2>3. upTo(v) \in SUBSET upTo(w)
        <3> SUFFICES ASSUME NEW e \in among, e = v \/ Before(T, e, v)
                     PROVE  Before(T, e, w)
            OBVIOUS
        <3>1. e \in Nat /\ T[e].nextAt \in Nat
            BY DEF Ranked
        <3> QED
            BY <1>1, <2>1, <3>1 DEF Before
    <2>4. upTo(v) # upTo(w)
        BY <2>2
    <2>5. IsFiniteSet(upTo(w))
        <3>1. upTo(w) \in SUBSET among
            OBVIOUS
        <3> QED
            BY <3>1, FS_Subset DEF Ranked
    <2> HIDE DEF upTo
    <2>6. Cardinality(upTo(v)) # Cardinality(upTo(w))
        BY <2>3, <2>4, <2>5, FS_Subset
    <2> QED
        BY <2>6 DEF upTo, Rank
<1>2. Before(T, x, y) \/ Before(T, y, x)
    <2>1. /\ x \in Nat /\ y \in Nat
          /\ T[x].nextAt \in Nat /\ T[y].nextAt \in Nat
        BY DEF Ranked
    <2> QED
        BY <2>1 DEF Before
<1> QED
    BY <1>1, <1>2

LEMMA Interval ==
    ASSUME NEW n \in Nat
    PROVE  IsFiniteSet(1..n) /\ Cardinality(1..n) = n
<1>1. 1 \in Int /\ n \in Int
    OBVIOUS
<1>2. /\ IsFiniteSet(1..n)
      /\ Cardinality(1..n) = IF 1 > n THEN 0 ELSE n - 1 + 1
    BY <1>1, FS_Interval
<1> QED
    BY <1>2

\* No more than n rows have a rank of at most n.
LEMMA RankBound ==
    ASSUME NEW T, NEW among, Ranked(T, among),
           NEW X \in SUBSET among, NEW n \in Nat,
           \A x \in X : Rank(T, x, among) <= n
    PROVE  IsFiniteSet(X) /\ Cardinality(X) <= n
<1> DEFINE rank == [x \in X |-> Rank(T, x, among)]
<1>1. ASSUME NEW x \in X PROVE Rank(T, x, among) \in 1..n
    <2>1. Rank(T, x, among) \in 1..Cardinality(among) /\ Rank(T, x, among) <= n
        BY RankRange
    <2> QED
        BY <2>1
<1>2. rank \in [X -> 1..n] /\ \A x \in X : rank[x] = Rank(T, x, among)
    BY <1>1
<1>3. IsFiniteSet(X)
    BY FS_Subset DEF Ranked
<1> HIDE DEF rank
<1>4. \A x, y \in X : x # y => rank[x] # rank[y]
    BY <1>2, RankDistinct
<1>5. Cardinality(X) \in Nat
    BY <1>3, FS_CardinalityType
<1>6. IsFiniteSet(1..n) /\ Cardinality(1..n) = n
    BY Interval
<1>7. ~(n < Cardinality(X))
    BY <1>2, <1>3, <1>4, <1>6, FS_PigeonHole
<1> QED
    BY <1>3, <1>5, <1>7

\* There are n rows with a rank of at most n, if a row has a higher one: the
\* ranks are all the numbers up to the number of rows.
LEMMA RankFull ==
    ASSUME NEW T, NEW among, Ranked(T, among), NEW n \in Nat,
           NEW d \in among, ~(Rank(T, d, among) <= n)
    PROVE  n <= Cardinality({x \in among : Rank(T, x, among) <= n})
<1> DEFINE rank == [x \in among |-> Rank(T, x, among)]
           N == Cardinality(among)
           X == {x \in among : Rank(T, x, among) <= n}
           low == [x \in X |-> rank[x]]
<1>1. IsFiniteSet(among) /\ N \in Nat
    BY FS_CardinalityType DEF Ranked
<1> HIDE DEF N
<1>2. IsFiniteSet(1..N) /\ Cardinality(1..N) = N
    BY <1>1, Interval
<1>3. \A x \in among : rank[x] = Rank(T, x, among) /\ rank[x] \in 1..N
    BY RankRange DEF N
<1>4. rank \in [among -> 1..N]
    BY <1>3
<1> HIDE DEF rank
<1>5. \A x, y \in among : rank[x] = rank[y] => x = y
    BY <1>3, RankDistinct
<1>6. rank \in Injection(among, 1..N)
    BY <1>4, <1>5 DEF Injection, IsInjective
<1>7. rank \in Surjection(among, 1..N)
    BY <1>2, <1>6, FS_Injection DEF N
<1>8. \A k \in 1..n : \E x \in X : low[x] = k
    <2> TAKE k \in 1..n
    <2>1. rank[d] \in 1..N /\ ~(rank[d] <= n)
        BY <1>3
    <2>2. k \in 1..N
        BY <1>1, <2>1
    <2>3. PICK x \in among : rank[x] = k
        BY <1>7, <2>2 DEF Surjection
    <2>4. x \in X
        BY <1>3, <2>3
    <2> QED
        BY <2>3, <2>4
<1>9. low \in [X -> 1..n]
    BY <1>3
<1>10. low \in Surjection(X, 1..n)
    <2> HIDE DEF low, X
    <2> QED
        BY <1>8, <1>9 DEF Surjection
<1>11. IsFiniteSet(X)
    <2>1. X \in SUBSET among
        OBVIOUS
    <2> HIDE DEF X
    <2> QED
        BY <1>1, <2>1, FS_Subset
<1>12. Cardinality(1..n) = n
    BY Interval
<1> HIDE DEF low, X
<1>13. n <= Cardinality(X)
    BY <1>10, <1>11, <1>12, FS_Surjection
<1> QED
    BY <1>13 DEF X

\* The candidates of a claim are finitely many scheduled rows.
LEMMA CandidatesFinite ==
    ASSUME TypeInv, NEW t, NEW C \in SUBSET Candidates(deliveries, subs, t)
    PROVE  Ranked(deliveries, C)
<1>1. lastId \in Nat /\ DOMAIN deliveries \subseteq 1..lastId
    BY DEF TypeInv, TypeOK
<1>2. 1 \in Int /\ lastId \in Int
    BY <1>1
<1>3. IsFiniteSet(1..lastId)
    BY <1>2, FS_Interval
<1>4. Candidates(deliveries, subs, t) \in SUBSET (1..lastId)
    BY <1>1 DEF Candidates
<1>5. IsFiniteSet(Candidates(deliveries, subs, t))
    BY <1>3, <1>4, FS_Subset
<1>6. \A d \in Candidates(deliveries, subs, t) : deliveries[d].nextAt \in Nat
    BY DEF Candidates, TypeInv, TypeOK, DeliveryRow, NatOrNull
<1>7. Candidates(deliveries, subs, t) \in SUBSET Nat
    BY <1>1, <1>4
<1>8. IsFiniteSet(C)
    BY <1>5, FS_Subset
<1> QED
    BY <1>6, <1>7, <1>8 DEF Ranked

\* Two finite sets together have at most as many members as both have.
LEMMA UnionBound ==
    ASSUME NEW A, NEW B, IsFiniteSet(A), IsFiniteSet(B)
    PROVE  /\ IsFiniteSet(A \cup B)
           /\ Cardinality(A \cup B) <= Cardinality(A) + Cardinality(B)
<1>1. /\ IsFiniteSet(A \cup B)
      /\ Cardinality(A \cup B) =
            Cardinality(A) + Cardinality(B) - Cardinality(A \cap B)
    BY FS_Union
<1>2. IsFiniteSet(A \cap B)
    <2>1. A \cap B \in SUBSET A
        OBVIOUS
    <2> QED
        BY <2>1, FS_Subset
<1>3. /\ Cardinality(A) \in Nat /\ Cardinality(B) \in Nat
      /\ Cardinality(A \cap B) \in Nat
    BY <1>2, FS_CardinalityType
<1> QED
    BY <1>1, <1>3

-----------------------------------------------------------------------------
(***************************************************************************)
(* Slots of a worker.                                                      *)
(***************************************************************************)
SlotsInv ==
    /\ AttemptInv
    /\ \A p \in Procs : /\ IsFiniteSet(calls[p])
                        /\ Cardinality(calls[p]) <= Concurrency

LEMMA ClaimSlots ==
    ASSUME SlotsInv, NEW p \in Procs, Claim(p)
    PROVE  IsFiniteSet(calls'[p]) /\ Cardinality(calls'[p]) <= Concurrency
<1> DEFINE free == Concurrency - Cardinality(calls[p])
           due == IF claiming[p] THEN Due(deliveries, subs, at[p], free) ELSE {}
           eligible == Eligible(deliveries, subs, at[p])
           call == [d \in due |-> [id |-> d, row |-> Started(deliveries[d], at[p])]]
           new == {call[d] : d \in due}
<1>1. /\ IsFiniteSet(calls[p]) /\ Cardinality(calls[p]) \in Nat
      /\ free \in Nat
    <2>1. IsFiniteSet(calls[p]) /\ Cardinality(calls[p]) <= Concurrency
        BY DEF SlotsInv
    <2>2. Cardinality(calls[p]) \in Nat
        BY <2>1, FS_CardinalityType
    <2> QED
        BY <2>1, <2>2, BoundsAssumption
<1>2. TypeInv
    BY DEF SlotsInv, AttemptInv
<1>3. Ranked(deliveries, eligible)
    <2>1. eligible \in SUBSET Candidates(deliveries, subs, at[p])
        BY DEF Eligible
    <2> HIDE DEF eligible
    <2> QED
        BY <1>2, <2>1, CandidatesFinite
<1>4. /\ due \in SUBSET eligible
      /\ \A d \in due : Rank(deliveries, d, eligible) <= free
    BY DEF Due
<1>5. calls'[p] = calls[p] \cup new
    BY <1>2 DEF Claim, TypeInv, TypeOK
<1> HIDE DEF free, due, eligible
<1>6. IsFiniteSet(due) /\ Cardinality(due) <= free
    BY <1>1, <1>3, <1>4, RankBound
<1>7. IsFiniteSet(new) /\ Cardinality(new) <= Cardinality(due)
    <2>1. call \in Surjection(due, new)
        BY DEF Surjection
    <2> HIDE DEF call, new
    <2> QED
        BY <1>6, <2>1, FS_Surjection
<1> HIDE DEF call, new
<1>8. Cardinality(due) \in Nat /\ Cardinality(new) \in Nat
    BY <1>6, <1>7, FS_CardinalityType
<1>9. /\ IsFiniteSet(calls[p] \cup new)
      /\ Cardinality(calls[p] \cup new) <= Cardinality(calls[p]) + Cardinality(new)
    BY <1>1, <1>7, UnionBound
<1>10. Cardinality(calls[p] \cup new) \in Nat
    BY <1>9, FS_CardinalityType
<1>11. Concurrency \in Nat
    BY BoundsAssumption
<1> QED
    BY <1>1, <1>5, <1>6, <1>7, <1>8, <1>9, <1>10, <1>11 DEF free

LEMMA SlotsInvariant == Spec => []SlotsInv
<1>1. Init => SlotsInv
    <2> SUFFICES ASSUME Init PROVE SlotsInv
        OBVIOUS
    <2>1. \A p \in Procs : calls[p] = {}
        BY DEF Init
    <2>2. IsFiniteSet({}) /\ Cardinality({}) = 0
        BY FS_EmptySet
    <2> QED
        BY <2>1, <2>2, AttemptInit, BoundsAssumption DEF SlotsInv
<1>2. SlotsInv /\ [Next]_vars => SlotsInv'
    <2> SUFFICES ASSUME SlotsInv, [Next]_vars PROVE SlotsInv'
        OBVIOUS
    <2>1. AttemptInv'
        BY AttemptStep DEF SlotsInv
    <2>2. ASSUME NEW p \in Procs
          PROVE  IsFiniteSet(calls'[p]) /\ Cardinality(calls'[p]) <= Concurrency
        <3>1. calls'[p] \subseteq calls[p] \/ Claim(p)
            BY StepEffect DEF SlotsInv, AttemptInv, CallsStep
        <3>2. CASE calls'[p] \subseteq calls[p]
            <4>1. IsFiniteSet(calls[p]) /\ Cardinality(calls[p]) <= Concurrency
                BY DEF SlotsInv
            <4>2. calls'[p] \in SUBSET calls[p]
                BY <3>2
            <4>3. /\ IsFiniteSet(calls'[p])
                  /\ Cardinality(calls'[p]) <= Cardinality(calls[p])
                BY <4>1, <4>2, FS_Subset
            <4>4. Cardinality(calls[p]) \in Nat /\ Cardinality(calls'[p]) \in Nat
                BY <4>1, <4>3, FS_CardinalityType
            <4> QED
                BY <4>1, <4>3, <4>4, BoundsAssumption
        <3> QED
            BY <3>1, <3>2, ClaimSlots
    <2> QED
        BY <2>1, <2>2 DEF SlotsInv
<1> QED
    BY <1>1, <1>2, PTL DEF Spec

\* No worker makes more calls at a time than WORKER_CONCURRENCY.
THEOREM SlotsAreBounded == Spec => []SlotsBounded
<1>1. SlotsInv => SlotsBounded
    BY DEF SlotsInv, SlotsBounded
<1> QED
    BY <1>1, SlotsInvariant, PTL

-----------------------------------------------------------------------------
(***************************************************************************)
(* The cap of an unordered subscription.                                   *)
(***************************************************************************)
CapInv == AttemptInv /\ FlagsOK /\ SubscriptionCapHolds

LEMMA RunningFinite ==
    ASSUME NEW T, NEW last \in Nat, DOMAIN T \subseteq 1..last, NEW s
    PROVE  /\ IsFiniteSet(RunningOf(T, s))
           /\ Cardinality(RunningOf(T, s)) \in Nat
<1>1. 1 \in Int /\ last \in Int
    OBVIOUS
<1>2. IsFiniteSet(1..last)
    BY <1>1, FS_Interval
<1>3. RunningOf(T, s) \in SUBSET (1..last)
    BY DEF RunningOf
<1>4. IsFiniteSet(RunningOf(T, s))
    BY <1>2, <1>3, FS_Subset
<1> QED
    BY <1>4, FS_CardinalityType

\* What runs after a step ran before it or was eligible for the claim.
LEMMA RunsOrClaimed ==
    ASSUME TypeInv, RowsOK, TableStep, NEW s, NEW d \in RunningOf(deliveries', s)
    PROVE  \/ d \in RunningOf(deliveries, s)
           \/ /\ d \in DOMAIN deliveries /\ deliveries[d].sub = s
              /\ \E p \in Procs :
                    Claim(p) /\ d \in Eligible(deliveries, subs, at[p])
<1>1. /\ d \in DOMAIN deliveries' /\ deliveries'[d].status = "running"
      /\ deliveries'[d].sub = s
    BY DEF RunningOf
<1>2. d \in DOMAIN deliveries
    <2>1. \A row \in Fresh : row.status = "pending"
        BY DEF Fresh, NewRow
    <2> QED
        BY <1>1, <2>1 DEF TableStep
<1>3. RowStep(d)
    BY <1>1, <1>2 DEF TableStep
<1>4. deliveries[d].sub = s
    BY <1>1, <1>2, <1>3, RowProgress
<1> QED
    BY <1>1, <1>2, <1>3, <1>4, BecomesRunning DEF RunningOf

LEMMA CapStep ==
    ASSUME CapInv, TableStep, TypeInv',
           NEW s \in Subs \ OrderedSubs, FixedOrder(s)
    PROVE  Cardinality(RunningOf(deliveries', s)) <= SubscriptionCap
<1> DEFINE old == RunningOf(deliveries, s)
           new == RunningOf(deliveries', s)
           begun == new \ old
<1>1. TypeInv /\ RowsOK
    BY DEF CapInv, AttemptInv
<1>2. /\ IsFiniteSet(old) /\ Cardinality(old) \in Nat
      /\ Cardinality(old) <= SubscriptionCap
    <2>1. lastId \in Nat /\ DOMAIN deliveries \subseteq 1..lastId
        BY <1>1 DEF TypeInv, TypeOK
    <2> QED
        BY <2>1, RunningFinite DEF CapInv, SubscriptionCapHolds
<1>3. IsFiniteSet(new) /\ Cardinality(new) \in Nat
    <2>1. lastId' \in Nat /\ DOMAIN deliveries' \subseteq 1..lastId'
        BY DEF TypeInv, TypeOK
    <2> QED
        BY <2>1, RunningFinite
<1>4. SubscriptionCap \in Nat
    BY CapAssumption
<1>5. CASE begun = {}
    <2>1. new \in SUBSET old
        BY <1>5
    <2> HIDE DEF new, old
    <2>2. Cardinality(new) <= Cardinality(old)
        BY <1>2, <2>1, FS_Subset
    <2> QED
        BY <1>2, <1>3, <1>4, <2>2 DEF new
<1>6. CASE begun # {}
    <2>1. PICK p \in Procs : Claim(p)
        BY <1>1, <1>6, RunsOrClaimed
    <2> DEFINE candidates == Candidates(deliveries, subs, at[p])
               rivals == {e \in candidates : deliveries[e].sub = s}
               free == SubscriptionCap - Cardinality(old)
    <2>2. ~subs[s].ordered
        BY DEF CapInv, FlagsOK
    <2>3. Ranked(deliveries, rivals)
        <3>1. rivals \in SUBSET candidates
            OBVIOUS
        <3> HIDE DEF rivals
        <3> QED
            BY <1>1, <3>1, CandidatesFinite
    <2>4. ASSUME NEW d \in begun
          PROVE  d \in rivals /\ Rank(deliveries, d, rivals) <= free
        <3>1. /\ deliveries[d].sub = s
              /\ d \in Eligible(deliveries, subs, at[p])
            BY <1>1, <2>1, RunsOrClaimed, ClaimTime
        <3>2. d \in candidates /\ WithinCap(deliveries, subs, at[p], d)
            BY <2>2, <3>1 DEF Eligible
        <3>3. Cardinality(old) + Rank(deliveries, d, rivals) <= SubscriptionCap
            BY <3>1, <3>2 DEF WithinCap
        <3>4. Rank(deliveries, d, rivals) \in Nat
            BY <2>3, <3>1, <3>2, RankRange
        <3> HIDE DEF rivals, old
        <3>5. Rank(deliveries, d, rivals) <= free
            BY <1>2, <1>4, <3>3, <3>4
        <3> QED
            BY <3>1, <3>2, <3>5 DEF rivals
    <2> HIDE DEF rivals, old
    <2>5. free \in Nat
        BY <1>2, <1>4
    <2> HIDE DEF free, begun
    <2>6. IsFiniteSet(begun) /\ Cardinality(begun) <= free
        BY <2>3, <2>4, <2>5, RankBound
    <2>7. new \in SUBSET (old \cup begun)
        BY DEF begun
    <2> HIDE DEF new
    <2>8. /\ IsFiniteSet(old \cup begun)
          /\ Cardinality(old \cup begun) <= Cardinality(old) + Cardinality(begun)
        BY <1>2, <2>6, UnionBound
    <2>9. /\ Cardinality(begun) \in Nat /\ Cardinality(old \cup begun) \in Nat
          /\ Cardinality(new) <= Cardinality(old \cup begun)
        BY <2>6, <2>7, <2>8, FS_Subset, FS_CardinalityType
    <2>10. Cardinality(new) <= SubscriptionCap
        BY <1>2, <1>3, <1>4, <2>6, <2>8, <2>9 DEF free
    <2> QED
        BY <2>10 DEF new
<1> QED
    BY <1>5, <1>6

\* An unordered subscription never has more deliveries running in all workers
\* together than its cap, batches of one claim included.
THEOREM CapIsKept == Spec => []SubscriptionCapHolds
<1>1. Init => CapInv
    <2> SUFFICES ASSUME Init PROVE CapInv
        OBVIOUS
    <2>1. \A s \in Subs : RunningOf(deliveries, s) = {}
        BY DEF Init, RunningOf
    <2>2. Cardinality({}) = 0
        BY FS_EmptySet
    <2>3. SubscriptionCapHolds
        BY <2>1, <2>2, CapAssumption DEF SubscriptionCapHolds
    <2>4. AttemptInv /\ FlagsOK
        BY OrderInit DEF OrderInv
    <2> QED
        BY <2>3, <2>4 DEF CapInv
<1>2. CapInv /\ [Next]_vars => CapInv'
    <2> SUFFICES ASSUME CapInv, [Next]_vars PROVE CapInv'
        OBVIOUS
    <2>1. AttemptInv'
        BY AttemptStep DEF CapInv
    <2>2. FlagsOK'
        BY SubsEffect, FlagsStep DEF CapInv, AttemptInv
    <2>3. TableStep
        BY StepEffect DEF CapInv, AttemptInv
    <2>4. SubscriptionCapHolds'
        BY <2>1, <2>3, CapStep DEF SubscriptionCapHolds, FixedOrder, AttemptInv
    <2> QED
        BY <2>1, <2>2, <2>4 DEF CapInv
<1>3. CapInv => SubscriptionCapHolds
    BY DEF CapInv
<1> QED
    BY <1>1, <1>2, <1>3, PTL DEF Spec

-----------------------------------------------------------------------------
(***************************************************************************)
(* A claim takes what it can.                                              *)
(***************************************************************************)
\* A claim that leaves a slot free has started every eligible row: if the limit
\* had kept one out, it would have started as many as there were slots, each
\* with a call that was not there before.
LEMMA TakesEligible ==
    ASSUME SlotsInv, NEW p \in Procs, Claim(p), claiming[p],
           Cardinality(calls'[p]) < Concurrency
    PROVE  deliveries' = [d \in DOMAIN deliveries |->
               IF d \in Eligible(deliveries, subs, at[p])
               THEN Started(deliveries[d], at[p]) ELSE deliveries[d]]
<1> DEFINE free == Concurrency - Cardinality(calls[p])
           eligible == Eligible(deliveries, subs, at[p])
           due == {d \in eligible : Rank(deliveries, d, eligible) <= free}
           call == [d \in due |-> [id |-> d, row |-> Started(deliveries[d], at[p])]]
           new == {call[d] : d \in due}
<1>1. TypeInv /\ CallsOK
    BY DEF SlotsInv, AttemptInv
<1>2. /\ IsFiniteSet(calls[p]) /\ Cardinality(calls[p]) \in Nat
      /\ free \in Nat /\ Concurrency \in Nat
    <2>1. IsFiniteSet(calls[p]) /\ Cardinality(calls[p]) <= Concurrency
        BY DEF SlotsInv
    <2>2. Cardinality(calls[p]) \in Nat
        BY <2>1, FS_CardinalityType
    <2> QED
        BY <2>1, <2>2, BoundsAssumption
<1>3. Ranked(deliveries, eligible)
    <2>1. eligible \in SUBSET Candidates(deliveries, subs, at[p])
        BY DEF Eligible
    <2> HIDE DEF eligible
    <2> QED
        BY <1>1, <2>1, CandidatesFinite
<1>4. /\ deliveries' = [d \in DOMAIN deliveries |->
             IF d \in due THEN Started(deliveries[d], at[p]) ELSE deliveries[d]]
      /\ calls'[p] = calls[p] \cup new
    BY <1>1 DEF Claim, Due, TypeInv, TypeOK
<1>5. eligible \subseteq DOMAIN deliveries
    BY DEF Eligible, Candidates
<1>6. due = eligible
    <2> SUFFICES ASSUME NEW d \in eligible,
                        ~(Rank(deliveries, d, eligible) <= free)
                 PROVE  FALSE
        OBVIOUS
    <2>1. ASSUME NEW x \in due PROVE call[x] \notin calls[p]
        <3> SUFFICES ASSUME call[x] \in calls[p] PROVE FALSE
            OBVIOUS
        <3>1. /\ x \in DOMAIN deliveries /\ deliveries[x] \in DeliveryRow
              /\ call[x].id = x /\ call[x].row = Started(deliveries[x], at[p])
            BY <1>1, <1>5 DEF TypeInv, TypeOK
        <3>2. call[x].row.attempt = deliveries[x].attempt + 1
            BY <3>1 DEF Started, DeliveryRow
        <3>3. call[x].row.attempt <= deliveries[x].attempt
            BY <1>1, <3>1 DEF CallsOK, CallOK
        <3>4. deliveries[x].attempt \in Nat
            BY <3>1 DEF DeliveryRow
        <3> QED
            BY <3>2, <3>3, <3>4
    <2>2. due \in SUBSET eligible
        OBVIOUS
    <2> HIDE DEF eligible
    <2>3. free <= Cardinality(due)
        BY <1>2, <1>3, RankFull
    <2>4. IsFiniteSet(due)
        BY <1>3, <2>2, FS_Subset DEF Ranked
    <2>5. call \in Bijection(due, new)
        <3>1. \A x, y \in due : call[x] = call[y] => x = y
            OBVIOUS
        <3>2. call \in [due -> new] /\ \A c \in new : \E x \in due : call[x] = c
            OBVIOUS
        <3> HIDE DEF call, new
        <3> QED
            BY <3>1, <3>2 DEF Bijection, Injection, Surjection, IsInjective
    <2>6. calls[p] \cap new = {}
        BY <2>1
    <2> HIDE DEF call, new, due
    <2>7. IsFiniteSet(new) /\ Cardinality(new) = Cardinality(due)
        BY <2>4, <2>5, FS_Bijection DEF ExistsBijection
    <2>8. Cardinality(calls'[p]) =
             Cardinality(calls[p]) + Cardinality(new) - Cardinality({})
        BY <1>2, <1>4, <2>6, <2>7, FS_Union
    <2>9. Cardinality(due) \in Nat /\ Cardinality({}) = 0
        BY <2>4, FS_CardinalityType, FS_EmptySet
    <2> QED
        BY <1>2, <2>3, <2>7, <2>8, <2>9
<1> HIDE DEF due
<1> QED
    BY <1>4, <1>6

\* If the cap keeps a candidate of an unordered subscription back, the rows that
\* run and the ones that are started fill it.
LEMMA CapFills ==
    ASSUME TypeInv, NEW t \in Nat, NEW s \in Subs, ~subs[s].ordered,
           NEW d \in Candidates(deliveries, subs, t), deliveries[d].sub = s,
           d \notin Eligible(deliveries, subs, t),
           deliveries' = [x \in DOMAIN deliveries |->
               IF x \in Eligible(deliveries, subs, t)
               THEN Started(deliveries[x], t) ELSE deliveries[x]]
    PROVE  Cardinality(RunningOf(deliveries', s)) >= SubscriptionCap
<1> DEFINE old == RunningOf(deliveries, s)
           new == RunningOf(deliveries', s)
           candidates == Candidates(deliveries, subs, t)
           rivals == {e \in candidates : deliveries[e].sub = s}
           n == SubscriptionCap - Cardinality(old)
           begun == {e \in rivals : Rank(deliveries, e, rivals) <= n}
<1>1. lastId \in Nat /\ DOMAIN deliveries \subseteq 1..lastId
    BY DEF TypeInv, TypeOK
<1>2. IsFiniteSet(old) /\ Cardinality(old) \in Nat
    BY <1>1, RunningFinite
<1>3. DOMAIN deliveries' = DOMAIN deliveries
    OBVIOUS
<1>4. IsFiniteSet(new) /\ Cardinality(new) \in Nat
    BY <1>1, <1>3, RunningFinite
<1>5. SubscriptionCap \in Nat
    BY CapAssumption
<1>6. Ranked(deliveries, rivals)
    <2>1. rivals \in SUBSET candidates
        OBVIOUS
    <2> HIDE DEF rivals
    <2> QED
        BY <2>1, CandidatesFinite
<1>7. \A x \in DOMAIN deliveries : deliveries[x] \in DeliveryRow
    BY DEF TypeInv, TypeOK
<1>8. rivals \subseteq DOMAIN deliveries
      /\ \A e \in rivals : deliveries[e].status \in Queued
    BY DEF Candidates
<1>9. \A e \in rivals : Rank(deliveries, e, rivals) \in Nat
    BY <1>6, RankRange
<1>10. \A e \in rivals : WithinCap(deliveries, subs, t, e)
          <=> Cardinality(old) + Rank(deliveries, e, rivals) <= SubscriptionCap
    BY DEF WithinCap
<1>11. \A e \in rivals : e \in Eligible(deliveries, subs, t)
          <=> WithinCap(deliveries, subs, t, e)
    BY DEF Eligible
<1> HIDE DEF rivals
<1>12. \A e \in rivals : e \in Eligible(deliveries, subs, t)
          <=> Rank(deliveries, e, rivals) <= n
    <2> TAKE e \in rivals
    <2>1. Rank(deliveries, e, rivals) \in Nat
        BY <1>9
    <2>2. e \in Eligible(deliveries, subs, t)
             <=> Cardinality(old) + Rank(deliveries, e, rivals) <= SubscriptionCap
        BY <1>10, <1>11
    <2> HIDE DEF old
    <2> QED
        BY <1>2, <1>5, <2>1, <2>2
<1>13. old \in SUBSET new
    <2> SUFFICES ASSUME NEW x \in old PROVE x \in new
        OBVIOUS
    <2>1. x \in DOMAIN deliveries /\ deliveries[x].status = "running"
        BY DEF RunningOf
    <2>2. deliveries'[x] = deliveries[x]
        BY <2>1 DEF Eligible, Candidates, Queued
    <2> QED
        BY <2>2 DEF RunningOf
<1>14. begun \in SUBSET new
    <2> SUFFICES ASSUME NEW x \in begun PROVE x \in new
        OBVIOUS
    <2>1. x \in DOMAIN deliveries /\ deliveries'[x] = Started(deliveries[x], t)
        BY <1>8, <1>12
    <2>2. deliveries[x].sub = s /\ deliveries[x] \in DeliveryRow
        BY <1>7, <2>1 DEF rivals
    <2>3. deliveries'[x].status = "running" /\ deliveries'[x].sub = s
        BY <2>1, <2>2 DEF Started, DeliveryRow
    <2> QED
        BY <2>1, <2>3 DEF RunningOf
<1>15. old \cap begun = {}
    BY <1>8 DEF RunningOf, Queued
<1>16. d \in rivals /\ ~(Rank(deliveries, d, rivals) <= n)
    BY <1>12 DEF rivals
<1> HIDE DEF old, new
<1>17. CASE n \in Nat
    <2>1. n <= Cardinality(begun)
        BY <1>6, <1>16, <1>17, RankFull
    <2>2. IsFiniteSet(begun)
        <3>1. begun \in SUBSET rivals
            OBVIOUS
        <3> QED
            BY <1>6, <3>1, FS_Subset DEF Ranked
    <2>3. old \cup begun \in SUBSET new
        BY <1>13, <1>14
    <2> HIDE DEF begun
    <2>4. /\ IsFiniteSet(old \cup begun)
          /\ Cardinality(old \cup begun) =
                Cardinality(old) + Cardinality(begun) - Cardinality({})
        BY <1>2, <1>15, <2>2, FS_Union
    <2>5. Cardinality(old \cup begun) <= Cardinality(new)
        BY <1>4, <2>3, FS_Subset
    <2>6. Cardinality(begun) \in Nat /\ Cardinality({}) = 0
        BY <2>2, FS_CardinalityType, FS_EmptySet
    <2>7. SubscriptionCap <= Cardinality(new)
        BY <1>2, <1>4, <1>5, <2>1, <2>4, <2>5, <2>6
    <2> QED
        BY <1>4, <1>5, <2>7 DEF new
<1>18. CASE n \notin Nat
    <2>1. SubscriptionCap < Cardinality(old)
        BY <1>2, <1>5, <1>18
    <2>2. Cardinality(old) <= Cardinality(new)
        BY <1>4, <1>13, FS_Subset
    <2>3. SubscriptionCap <= Cardinality(new)
        BY <1>2, <1>4, <1>5, <2>1, <2>2
    <2> QED
        BY <1>4, <1>5, <2>3 DEF new
<1> QED
    BY <1>17, <1>18

\* A claim with slots to spare leaves nothing behind that it could take: neither
\* the order of an ordered subscription, nor its cap, nor the limit of the batch
\* holds a delivery back that nothing stands before.
THEOREM ClaimsTakeAll == Spec => ClaimsWhatItCan
<1>1. ASSUME SlotsInv, NEW p \in Procs, Claim(p), claiming[p],
             Cardinality(calls'[p]) < Concurrency,
             NEW s \in Subs, subs[s].status = "active"
      PROVE  LET live == LiveOf(deliveries', s)
             IN  \/ /\ ~subs[s].ordered
                    /\ Cardinality(RunningOf(deliveries', s)) >= SubscriptionCap
                 \/ \A d \in live :
                       \/ deliveries'[d].status = "running"
                       \/ NotDue(deliveries'[d], at[p])
                       \/ subs[s].ordered /\ \E e \in live : e < d
    <2> SUFFICES ASSUME ~(/\ ~subs[s].ordered
                          /\ Cardinality(RunningOf(deliveries', s))
                                >= SubscriptionCap),
                        NEW d \in LiveOf(deliveries', s),
                        deliveries'[d].status # "running",
                        ~NotDue(deliveries'[d], at[p])
                 PROVE  /\ subs[s].ordered
                        /\ \E e \in LiveOf(deliveries', s) : e < d
        BY Zenon
    <2> DEFINE eligible == Eligible(deliveries, subs, at[p])
    <2>1. TypeInv /\ RowsOK /\ at[p] \in Nat
        BY <1>1, ClaimTime DEF SlotsInv, AttemptInv
    <2>2. deliveries' = [x \in DOMAIN deliveries |->
                            IF x \in eligible THEN Started(deliveries[x], at[p])
                            ELSE deliveries[x]]
        BY <1>1, TakesEligible
    <2>3. ASSUME NEW x \in eligible
          PROVE  deliveries'[x].status = "running"
                 /\ deliveries'[x].sub = deliveries[x].sub
        <3>1. x \in DOMAIN deliveries
            BY DEF Eligible, Candidates
        <3>2. deliveries[x] \in DeliveryRow
            BY <2>1, <3>1 DEF TypeInv, TypeOK
        <3> QED
            BY <2>2, <3>1, <3>2 DEF Started, DeliveryRow
    <2>4. /\ d \in DOMAIN deliveries /\ d \notin eligible
          /\ deliveries'[d] = deliveries[d]
          /\ deliveries[d].sub = s /\ deliveries[d].status \in Queued
        BY <2>2, <2>3 DEF LiveOf, Live
    <2>5. d \in Candidates(deliveries, subs, at[p])
        <3>1. deliveries[d].nextAt # NULL
            BY <2>1, <2>4 DEF RowsOK, RowOK
        <3>2. deliveries[d].nextAt \in Nat
            BY <2>1, <2>4, <3>1 DEF TypeInv, TypeOK, DeliveryRow, NatOrNull
        <3>3. deliveries[d].nextAt <= at[p]
            BY <2>1, <2>4, <3>1, <3>2 DEF NotDue
        <3> QED
            BY <1>1, <2>4, <3>1, <3>3 DEF Candidates
    <2>6. CASE ~subs[s].ordered
        BY <2>1, <2>2, <2>4, <2>5, <2>6, CapFills
    <2>7. CASE subs[s].ordered
        <3>1. ~Unblocked(deliveries, d)
            BY <2>4, <2>5, <2>7 DEF Eligible
        <3>2. PICK e \in DOMAIN deliveries :
                 deliveries[e].sub = s /\ e < d /\ deliveries[e].status \in Live
            BY <2>4, <3>1 DEF Unblocked
        <3>3. e \in LiveOf(deliveries', s)
            <4>1. CASE e \in eligible
                BY <2>2, <2>3, <3>2, <4>1 DEF LiveOf, Live
            <4>2. CASE e \notin eligible
                BY <2>2, <3>2, <4>2 DEF LiveOf
            <4> QED
                BY <4>1, <4>2
        <3> QED
            BY <2>7, <3>2, <3>3
    <2> QED
        BY <2>6, <2>7
<1>2. SlotsInv /\ [Next]_vars =>
         [\A p \in Procs :
             /\ Claim(p) /\ claiming[p]
             /\ Cardinality(calls'[p]) < Concurrency
             => \A s \in Subs : subs[s].status = "active" =>
                   LET live == LiveOf(deliveries', s)
                   IN  \/ /\ ~subs[s].ordered
                          /\ Cardinality(RunningOf(deliveries', s))
                                 >= SubscriptionCap
                       \/ \A d \in live :
                             \/ deliveries'[d].status = "running"
                             \/ NotDue(deliveries'[d], at[p])
                             \/ subs[s].ordered /\ \E e \in live : e < d]_vars
    BY <1>1
<1> QED
    BY <1>2, SlotsInvariant, PTL DEF Spec, ClaimsWhatItCan
=============================================================================
