-------------------------- MODULE WebhookOutProofs --------------------------
(***************************************************************************)
(* Facts about the operators of DeliveryStore, on which all proofs about   *)
(* the system rest, and the type correctness of WebhookOut.                *)
(***************************************************************************)
EXTENDS WebhookOut, FiniteSetTheorems, TLAPS

Decision ==
    [status : {"succeeded", "retrying", "failed"}, nextAt : NatOrNull,
     log : Seq(Nat)]

\* insert stores a row of the table's type.
LEMMA NewRowType ==
    ASSUME NEW event \in Nat, NEW sub \in Subs, NEW max \in Nat, NEW t \in Nat
    PROVE  NewRow(event, sub, max, t) \in DeliveryRow
BY DEF NewRow, DeliveryRow, NatOrNull, Status, Live, Queued

\* start turns a row into a row.
LEMMA StartedType ==
    ASSUME NEW row \in DeliveryRow, NEW t \in Nat
    PROVE  Started(row, t) \in DeliveryRow
<1>1. t + LeaseMs \in Nat /\ row.attempt + 1 \in Nat
    BY LeaseAssumption DEF DeliveryRow
<1> QED
    BY <1>1 DEF Started, DeliveryRow, NatOrNull, Status, Live

\* What Worker decides about an attempt is a decision finish can write.
LEMMA DecideType ==
    ASSUME NEW row \in DeliveryRow, NEW outcome, NEW t \in Nat,
           NEW sch \in Seq(Nat \ {0})
    PROVE  Decide(row, outcome, t, sch) \in Decision
<1>1. /\ row.attempt \in Nat
      /\ row.log \in Seq(Nat)
    BY DEF DeliveryRow
<1>2. Append(row.log, row.attempt) \in Seq(Nat)
    BY <1>1
<1>3. row.attempt \in DOMAIN sch => t + sch[row.attempt] \in Nat
    BY <1>1
<1> QED
    BY <1>1, <1>2, <1>3 DEF Decide, Decision, NatOrNull

\* finish turns a row into a row.
LEMMA FinishedType ==
    ASSUME NEW row \in DeliveryRow, NEW decision \in Decision
    PROVE  Finished(row, decision) \in DeliveryRow
BY DEF Finished, Decision, DeliveryRow, NatOrNull, Status, Live, Queued,
       Terminal

\* heartbeat turns a row into a row.
LEMMA RenewedType ==
    ASSUME NEW row \in DeliveryRow, NEW t \in Nat
    PROVE  Renewed(row, t) \in DeliveryRow
<1>1. t + LeaseMs \in Nat
    BY LeaseAssumption
<1> QED
    BY <1>1 DEF Renewed, DeliveryRow, NatOrNull

\* cancel turns a row into a row.
LEMMA CancelledType ==
    ASSUME NEW row \in DeliveryRow
    PROVE  Cancelled(row) \in DeliveryRow
BY DEF Cancelled, DeliveryRow, NatOrNull, Status, Live, Queued, Terminal

-----------------------------------------------------------------------------
(***************************************************************************)
(* The columns of a row agree with each other: its due time and owner with *)
(* its status, its attempts log and its maximum with its attempt.          *)
(***************************************************************************)
Ended(row) == IF row.status = "running" THEN row.attempt - 1 ELSE row.attempt

RowOK(row) ==
    /\ row.attempt <= row.max
    /\ row.status \in Queued <=> row.nextAt # NULL
    /\ row.status \in Queued => row.attempt < row.max
    /\ row.status = "running" => row.attempt > 0
    /\ row.owner = IF row.status = "running" THEN row.attempt ELSE NULL
    /\ row.log = [n \in 1..Ended(row) |-> n]

\* The rows insert can make.
Fresh ==
    {NewRow(x[1], x[2], x[3], x[4]) : x \in Nat \X Subs \X (Nat \ {0}) \X Nat}

LEMMA FreshType ==
    ASSUME NEW row \in Fresh
    PROVE  row \in DeliveryRow
BY NewRowType DEF Fresh

LEMMA NewRowFresh ==
    ASSUME NEW event \in Nat, NEW sub \in Subs, NEW max \in Nat \ {0},
           NEW t \in Nat
    PROVE  NewRow(event, sub, max, t) \in Fresh
<1> DEFINE x == <<event, sub, max, t>>
<1>1. x \in Nat \X Subs \X (Nat \ {0}) \X Nat
    OBVIOUS
<1>2. NewRow(event, sub, max, t) = NewRow(x[1], x[2], x[3], x[4])
    OBVIOUS
<1> QED
    BY <1>1, <1>2 DEF Fresh

LEMMA FreshOK ==
    ASSUME NEW row \in Fresh
    PROVE  RowOK(row) /\ row.status = "pending"
<1>1. PICK x \in Nat \X Subs \X (Nat \ {0}) \X Nat :
         row = NewRow(x[1], x[2], x[3], x[4])
    BY DEF Fresh
<1>2. x[3] \in Nat \ {0} /\ x[4] \in Nat
    BY <1>1
<1>3. row.log = << >> /\ row.attempt = 0 /\ row.max = x[3] /\ row.nextAt = x[4]
      /\ row.status = "pending" /\ row.owner = NULL
    BY <1>1 DEF NewRow
<1>4. [n \in 1..0 |-> n] = << >>
    OBVIOUS
<1>5. row.nextAt # NULL
    BY <1>2, <1>3, NullAssumption
<1> QED
    BY <1>2, <1>3, <1>4, <1>5 DEF RowOK, Ended, Queued

\* claim, heartbeat and cancel keep the columns in agreement.
LEMMA StartedOK ==
    ASSUME NEW row \in DeliveryRow, NEW t \in Nat, RowOK(row),
           row.status \in Queued
    PROVE  RowOK(Started(row, t))
<1>1. /\ row.attempt \in Nat /\ row.max \in Nat
      /\ row.attempt < row.max
      /\ row.log = [n \in 1..row.attempt |-> n]
    BY DEF RowOK, Ended, Queued, DeliveryRow
<1> DEFINE new == Started(row, t)
<1>2. /\ new.status = "running" /\ new.attempt = row.attempt + 1
      /\ new.max = row.max /\ new.nextAt = NULL
      /\ new.owner = row.attempt + 1 /\ new.log = row.log
    BY DEF Started, DeliveryRow
<1> HIDE DEF new
<1>3. Ended(new) = row.attempt
    BY <1>1, <1>2 DEF Ended
<1>4. RowOK(new)
    BY <1>1, <1>2, <1>3 DEF RowOK, Queued
<1> QED
    BY <1>4 DEF new

LEMMA RenewedOK ==
    ASSUME NEW row \in DeliveryRow, NEW t, RowOK(row)
    PROVE  RowOK(Renewed(row, t))
<1> DEFINE new == Renewed(row, t)
<1>1. /\ new.status = row.status /\ new.attempt = row.attempt
      /\ new.max = row.max /\ new.nextAt = row.nextAt
      /\ new.owner = row.owner /\ new.log = row.log
    BY DEF Renewed, DeliveryRow
<1> HIDE DEF new
<1>2. RowOK(new)
    BY <1>1 DEF RowOK, Ended
<1> QED
    BY <1>2 DEF new

LEMMA CancelledOK ==
    ASSUME NEW row \in DeliveryRow, RowOK(row), row.status \in Queued
    PROVE  RowOK(Cancelled(row))
<1> DEFINE new == Cancelled(row)
<1>1. /\ new.status = "cancelled" /\ new.attempt = row.attempt
      /\ new.max = row.max /\ new.nextAt = NULL
      /\ new.owner = row.owner /\ new.log = row.log
    BY DEF Cancelled, DeliveryRow
<1> HIDE DEF new
<1>2. RowOK(new)
    BY <1>1 DEF RowOK, Ended, Queued
<1> QED
    BY <1>2 DEF new

\* finish, with the decision about the row as it is, keeps them in agreement
\* under whatever schedule the decision was made.
LEMMA FinishedOK ==
    ASSUME NEW row \in DeliveryRow, NEW outcome, NEW t \in Nat,
           NEW sch \in Seq(Nat \ {0}), RowOK(row), row.status = "running"
    PROVE  RowOK(Finished(row, Decide(row, outcome, t, sch)))
<1> DEFINE decision == Decide(row, outcome, t, sch)
           new == Finished(row, decision)
           retry == /\ outcome = "retryable"
                    /\ row.attempt < row.max
                    /\ row.attempt \in DOMAIN sch
<1>1. /\ row.attempt \in Nat /\ row.max \in Nat /\ row.attempt > 0
      /\ row.attempt <= row.max
      /\ row.log = [n \in 1..(row.attempt - 1) |-> n]
    BY DEF RowOK, Ended, DeliveryRow
<1>2. /\ new.status = decision.status /\ new.attempt = row.attempt
      /\ new.max = row.max /\ new.nextAt = decision.nextAt
      /\ new.owner = NULL /\ new.log = decision.log
    BY DEF Finished, DeliveryRow
<1>3. /\ decision.status = IF outcome = "ok" THEN "succeeded"
                           ELSE IF retry THEN "retrying" ELSE "failed"
      /\ decision.nextAt = IF retry THEN t + sch[row.attempt] ELSE NULL
      /\ decision.log = Append(row.log, row.attempt)
    BY DEF Decide
<1>4. retry => t + sch[row.attempt] # NULL
    <2>1. retry => t + sch[row.attempt] \in Nat
        OBVIOUS
    <2> QED
        BY <2>1, NullAssumption
<1>5. Append(row.log, row.attempt) = [n \in 1..row.attempt |-> n]
    BY <1>1
<1> HIDE DEF new, decision
<1>6. new.status # "running" /\ (new.status \in Queued <=> retry)
    BY <1>2, <1>3 DEF Queued
<1> HIDE DEF retry
<1>7. RowOK(new)
    <2>1. new.status \in Queued <=> new.nextAt # NULL
        BY <1>2, <1>3, <1>4, <1>6
    <2>2. retry => row.attempt < row.max
        BY DEF retry
    <2>3. Ended(new) = row.attempt
        BY <1>2, <1>6 DEF Ended
    <2> QED
        BY <1>1, <1>2, <1>3, <1>5, <1>6, <2>1, <2>2, <2>3 DEF RowOK
<1> QED
    BY <1>7 DEF new, decision

-----------------------------------------------------------------------------
(***************************************************************************)
(* Facts about the steps several actions share.                            *)
(***************************************************************************)

\* A reading of the clock is a time.
LEMMA ReadingsType == now \in Nat => Readings \subseteq Nat
BY DEF Readings

\* The retry schedule of a process is a sequence of positive delays.
LEMMA ScheduleType ==
    ASSUME TypeOK, NEW p \in Procs
    PROVE  schedule[p] \in Seq(Nat \ {0}) /\ MaxAttempts(p) \in Nat \ {0}
BY ScheduleAssumption DEF TypeOK, MaxAttempts

\* Any set of subscriptions or events to list has a finite number of elements.
LEMMA ListedType ==
    ASSUME NEW S, IsFiniteSet(S), NEW order \in Listed(S)
    PROVE  /\ Cardinality(S) \in Nat
           /\ \A i \in 1..Cardinality(S) : order[i] \in S
<1>1. Cardinality(S) \in Nat
    BY FS_CardinalityType
<1> QED
    BY <1>1 DEF Listed, Bijection, Injection, Surjection

\* A table indexed like a sequence is that sequence.
LEMMA SequenceType ==
    ASSUME NEW S, NEW n \in Nat, NEW f \in [1..n -> S]
    PROVE  f \in Seq(S) /\ Len(f) = n
OBVIOUS

\* The table and its next id after an insert.
LEMMA InsertType ==
    ASSUME TypeOK, NEW rows \in Seq(DeliveryRow), Insert(rows)
    PROVE  /\ lastId' \in Nat
           /\ deliveries' \in [DOMAIN deliveries' -> DeliveryRow]
           /\ DOMAIN deliveries' \subseteq 1..lastId'
<1> DEFINE new == (lastId + 1)..(lastId + Len(rows))
<1>1. /\ lastId \in Nat /\ Len(rows) \in Nat
      /\ DOMAIN deliveries \subseteq 1..lastId
      /\ \A d \in DOMAIN deliveries : deliveries[d] \in DeliveryRow
    BY DEF TypeOK
<1>2. /\ lastId' = lastId + Len(rows)
      /\ deliveries' = [d \in DOMAIN deliveries \cup new |->
             IF d \in DOMAIN deliveries THEN deliveries[d]
             ELSE rows[d - lastId]]
    BY DEF Insert
<1>3. \A d \in new : rows[d - lastId] \in DeliveryRow
    <2> TAKE d \in new
    <2>1. d - lastId \in 1..Len(rows)
        BY <1>1
    <2> QED
        BY <2>1
<1>4. DOMAIN deliveries \cup new \subseteq 1..(lastId + Len(rows))
    BY <1>1
<1> QED
    BY <1>1, <1>2, <1>3, <1>4

\* The event table after a new event.
LEMMA AddEventType ==
    ASSUME TypeOK, NEW type \in Types \cup {NULL}, AddEvent(type)
    PROVE  /\ lastSeq' \in Nat
           /\ events' \in [DOMAIN events' -> EventRow]
           /\ DOMAIN events' \subseteq 1..lastSeq'
BY DEF AddEvent, TypeOK, EventRow

\* The columns of a subscription that PATCH writes.
LEMMA UpdatedType ==
    ASSUME NEW read \in SubStore!SubRow, NEW patch \in SubStore!PatchBody
    PROVE  SubStore!Updated(read, patch) \in SubStore!SubRow
BY DEF SubStore!Updated, SubStore!SubRow, SubStore!PatchBody,
       SubStore!PatchField, SubStore!SubStatus, SubStore!Present

\* The columns of a subscription that recordOutcome writes.
LEMMA RecordedType ==
    ASSUME NEW row \in SubStore!SubRow, NEW read \in SubStore!SubRow, NEW outcome
    PROVE  SubStore!Recorded(row, read, outcome) \in SubStore!SubRow
<1> DEFINE failures == IF outcome = "succeeded" THEN 0 ELSE read.failures + 1
<1>1. failures \in Nat
    BY DEF SubStore!SubRow
<1> HIDE DEF failures
<1>2. SubStore!Recorded(row, read, outcome) =
         [row EXCEPT !.failures = failures,
                     !.status = IF /\ outcome = "failed"
                                   /\ read.status = "active"
                                   /\ failures >= DisableAfter
                                THEN "disabled" ELSE read.status]
    BY DEF SubStore!Recorded, failures
<1> QED
    BY <1>1, <1>2 DEF SubStore!SubRow, SubStore!SubStatus, SubStore!Present

\* The list of outcomes after one of them is dealt with.
LEMMA TailType ==
    ASSUME NEW S, NEW q \in Seq(S)
    PROVE  q # << >> => Tail(q) \in Seq(S)
OBVIOUS

\* Where Following leads is a stage.
LEMMA FollowingType ==
    ASSUME NEW rest, NEW passAt, NEW last
    PROVE  Following(rest, passAt, last) \in {"apply", "idle", "purge", "claim"}
BY DEF Following

-----------------------------------------------------------------------------
(***************************************************************************)
(* Type correctness.  TypeOK is not inductive: the values a process takes  *)
(* up at a stage must have been put there, which StageOK states.           *)
(***************************************************************************)
StageOK ==
    \A p \in Procs :
        /\ stage[p] \in {"apply", "record", "reread"} => todo[p] # << >>
        /\ stage[p] \in {"record", "patch"} => seen[p] \in Read
        /\ stage[p] \in {"purge", "claim"} => at[p] \in Nat

TypeInv == TypeOK /\ StageOK

LEMMA TypeInvInit == Init => TypeInv
BY DEF Init, TypeInv, TypeOK, StageOK, Stage, NewSub,
       SubStore!SubRow, SubStore!SubStatus, SubStore!Present, NatOrNull,
       EventRow, DeliveryRow

\* A step that only inserts deliveries, and perhaps an event.
LEMMA QueueType ==
    ASSUME TypeInv, NEW rows \in Seq(Fresh), Insert(rows),
           \/ UNCHANGED <<events, lastSeq>>
           \/ \E type \in Types \cup {NULL} : AddEvent(type),
           UNCHANGED <<now, subs, step, calls, life>>
    PROVE  TypeInv'
<1>1. /\ lastId' \in Nat
      /\ deliveries' \in [DOMAIN deliveries' -> DeliveryRow]
      /\ DOMAIN deliveries' \subseteq 1..lastId'
    <2>1. rows \in Seq(DeliveryRow)
        BY FreshType
    <2> QED
        BY <2>1, InsertType DEF TypeInv
<1>2. /\ lastSeq' \in Nat
      /\ events' \in [DOMAIN events' -> EventRow]
      /\ DOMAIN events' \subseteq 1..lastSeq'
    BY AddEventType DEF TypeInv, TypeOK
<1> QED
    BY <1>1, <1>2 DEF TypeInv, TypeOK, StageOK, step, life

\* What publish, test, replay and redeliver insert are fresh deliveries.
LEMMA PublishFresh ==
    ASSUME TypeInv, NEW p \in Procs, NEW type \in Types, Publish(p, type)
    PROVE  \E rows \in Seq(Fresh) : Insert(rows)
<1> DEFINE targets == {s \in Subs : /\ subs[s].status = "active"
                                    /\ type \in Subscribed[s]}
           n == Cardinality(targets)
<1>1. PICK order \in Listed(targets) :
         Insert([i \in 1..n |->
                    NewRow(lastSeq + 1, order[i], MaxAttempts(p), now)])
    BY DEF Publish
<1>2. IsFiniteSet(targets)
    BY SubsAssumption, FS_Subset
<1>3. n \in Nat /\ \A i \in 1..n : order[i] \in Subs
    BY <1>1, <1>2, ListedType
<1> DEFINE rows == [i \in 1..n |->
                       NewRow(lastSeq + 1, order[i], MaxAttempts(p), now)]
<1>4. rows \in [1..n -> Fresh]
    <2>1. SUFFICES ASSUME NEW i \in 1..n
                   PROVE  NewRow(lastSeq + 1, order[i], MaxAttempts(p), now)
                             \in Fresh
        OBVIOUS
    <2>2. lastSeq + 1 \in Nat /\ now \in Nat /\ MaxAttempts(p) \in Nat \ {0}
        BY ScheduleType DEF TypeInv, TypeOK
    <2> QED
        BY <1>3, <2>2, NewRowFresh
<1>5. rows \in Seq(Fresh)
    BY <1>3, <1>4, SequenceType
<1> QED
    BY <1>1, <1>5

LEMMA TestFresh ==
    ASSUME TypeInv, NEW p \in Procs, NEW s \in Subs, Test(p, s)
    PROVE  \E rows \in Seq(Fresh) : Insert(rows)
<1>1. lastSeq + 1 \in Nat /\ now \in Nat /\ MaxAttempts(p) \in Nat \ {0}
    BY ScheduleType DEF TypeInv, TypeOK
<1>2. <<NewRow(lastSeq + 1, s, MaxAttempts(p), now)>> \in Seq(Fresh)
    BY <1>1, NewRowFresh
<1> QED
    BY <1>2 DEF Test

LEMMA ReplayFresh ==
    ASSUME TypeInv, NEW p \in Procs, NEW s \in Subs, NEW from, NEW to,
           Replay(p, s, from, to)
    PROVE  \E rows \in Seq(Fresh) : Insert(rows)
<1> DEFINE window == {e \in DOMAIN events : /\ events[e].type \in Subscribed[s]
                                            /\ from <= events[e].at
                                            /\ events[e].at < to}
           n == Cardinality(window)
<1>1. PICK order \in Listed(window) :
         Insert([i \in 1..n |-> NewRow(order[i], s, MaxAttempts(p), now)])
    BY DEF Replay
<1>2. window \subseteq 1..lastSeq /\ lastSeq \in Nat
    BY DEF TypeInv, TypeOK
<1>3. IsFiniteSet(window)
    BY <1>2, FS_Interval, FS_Subset
<1>4. n \in Nat /\ \A i \in 1..n : order[i] \in Nat
    <2>1. n \in Nat /\ \A i \in 1..n : order[i] \in window
        BY <1>1, <1>3, ListedType
    <2>2. window \subseteq Nat
        BY <1>2
    <2> QED
        BY <2>1, <2>2
<1> DEFINE rows == [i \in 1..n |-> NewRow(order[i], s, MaxAttempts(p), now)]
<1>5. rows \in [1..n -> Fresh]
    <2>1. SUFFICES ASSUME NEW i \in 1..n
                   PROVE  NewRow(order[i], s, MaxAttempts(p), now) \in Fresh
        OBVIOUS
    <2>2. now \in Nat /\ MaxAttempts(p) \in Nat \ {0}
        BY ScheduleType DEF TypeInv, TypeOK
    <2> QED
        BY <1>4, <2>2, NewRowFresh
<1>6. rows \in Seq(Fresh)
    BY <1>4, <1>5, SequenceType
<1> QED
    BY <1>1, <1>6

LEMMA RedeliverFresh ==
    ASSUME TypeInv, NEW p \in Procs, NEW d \in DOMAIN deliveries, Redeliver(p, d)
    PROVE  \E rows \in Seq(Fresh) : Insert(rows)
<1>1. PICK t \in Readings :
         Insert(<<NewRow(deliveries[d].event, deliveries[d].sub,
                         MaxAttempts(p), t)>>)
    BY DEF Redeliver
<1>2. /\ deliveries[d].event \in Nat /\ deliveries[d].sub \in Subs
      /\ MaxAttempts(p) \in Nat \ {0} /\ t \in Nat
    BY ScheduleType, ReadingsType DEF TypeInv, TypeOK, DeliveryRow
<1>3. <<NewRow(deliveries[d].event, deliveries[d].sub, MaxAttempts(p), t)>>
         \in Seq(Fresh)
    BY <1>2, NewRowFresh
<1> QED
    BY <1>1, <1>3

LEMMA QueueingType ==
    ASSUME TypeInv, NEW p \in Procs,
           \/ \E type \in Types : Publish(p, type)
           \/ \E s \in Subs : Test(p, s)
           \/ \E s \in Subs, from \in 0..now, to \in Int : Replay(p, s, from, to)
           \/ \E d \in DOMAIN deliveries : Redeliver(p, d)
    PROVE  TypeInv'
<1>1. PICK rows \in Seq(Fresh) : Insert(rows)
    BY PublishFresh, TestFresh, ReplayFresh, RedeliverFresh
<1>2. \/ UNCHANGED <<events, lastSeq>>
      \/ \E type \in Types \cup {NULL} : AddEvent(type)
    BY DEF Publish, Test, Replay, Redeliver
<1>3. UNCHANGED <<now, subs, step, calls, life>>
    BY DEF Publish, Test, Replay, Redeliver
<1> QED
    BY <1>1, <1>2, <1>3, QueueType

\* The API operations on one row.
LEMMA CancelType ==
    ASSUME TypeInv, NEW p \in Procs, NEW d \in DOMAIN deliveries, Cancel(p, d)
    PROVE  TypeInv'
<1>1. Cancelled(deliveries[d]) \in DeliveryRow
    BY CancelledType DEF TypeInv, TypeOK
<1>2. deliveries' = [deliveries EXCEPT ![d] = Cancelled(deliveries[d])]
    BY DEF Cancel
<1>3. /\ DOMAIN deliveries' = DOMAIN deliveries
      /\ deliveries' \in [DOMAIN deliveries' -> DeliveryRow]
    BY <1>1, <1>2 DEF TypeInv, TypeOK
<1> QED
    BY <1>3 DEF TypeInv, TypeOK, StageOK, Cancel, step, life

LEMMA NewSubType ==
    ASSUME NEW s, NEW status \in SubStore!SubStatus
    PROVE  NewSub(s, status) \in SubStore!SubRow
BY DEF NewSub, SubStore!SubRow

LEMMA CreateType ==
    ASSUME TypeInv, NEW p \in Procs, NEW s \in Subs,
           NEW status \in {"active", "paused"}, Create(p, s, status)
    PROVE  TypeInv'
<1>1. NewSub(s, status) \in SubStore!SubRow
    BY NewSubType DEF SubStore!SubStatus, SubStore!Present
<1> QED
    BY <1>1 DEF TypeInv, TypeOK, StageOK, Create, step, life

LEMMA RemoveType ==
    ASSUME TypeInv, NEW p \in Procs, NEW s \in Subs, Remove(p, s)
    PROVE  TypeInv'
<1>1. NewSub(s, "deleted") \in SubStore!SubRow
    BY NewSubType DEF SubStore!SubStatus
<1>2. /\ deliveries' \in [DOMAIN deliveries' -> DeliveryRow]
      /\ DOMAIN deliveries' \subseteq 1..lastId
    BY DEF TypeInv, TypeOK, Remove
<1> QED
    BY <1>1, <1>2 DEF TypeInv, TypeOK, StageOK, Remove, step, life

LEMMA UpdateReadType ==
    ASSUME TypeInv, NEW p \in Procs, NEW s \in Subs, NEW patch \in Patches[s],
           UpdateRead(p, s, patch)
    PROVE  TypeInv'
<1>1. [sub |-> s, row |-> subs[s], patch |-> patch] \in Read
    BY PatchesAssumption DEF TypeInv, TypeOK, Read
<1> QED
    BY <1>1 DEF TypeInv, TypeOK, StageOK, UpdateRead, Stage, db, life

LEMMA UpdateWriteType ==
    ASSUME TypeInv, NEW p \in Procs, UpdateWrite(p)
    PROVE  TypeInv'
<1>1. seen[p] \in Read
    BY DEF TypeInv, StageOK, UpdateWrite
<1>2. SubStore!Updated(seen[p].row, seen[p].patch) \in SubStore!SubRow
    BY <1>1, UpdatedType DEF Read
<1>3. subs' \in [Subs -> SubStore!SubRow]
    BY <1>1, <1>2 DEF TypeInv, TypeOK, UpdateWrite, Read
<1> QED
    BY <1>3 DEF TypeInv, TypeOK, StageOK, UpdateWrite, Stage, life

\* reclaimExpired, in start() or in a pass.
LEMMA SweepType ==
    ASSUME TypeInv, NEW p \in Procs, NEW passAt \in NatOrNull, NEW t \in Nat,
           NEW sch \in Schedules, Sweep(p, passAt, t, sch),
           claiming' \in [Procs -> BOOLEAN],
           schedule' \in [Procs -> Schedules]
    PROVE  TypeInv'
<1> DEFINE result(d) == Decide(deliveries[d], "retryable", t, sch)
           expired == Expired(deliveries, t)
           settled == {d \in expired : Holds(deliveries[d], deliveries[d].owner)}
           unapplied == {d \in expired :
                            d \in settled => result(d).status # "retrying"}
           n == Cardinality(unapplied)
<1>1. /\ deliveries \in [DOMAIN deliveries -> DeliveryRow]
      /\ DOMAIN deliveries \subseteq 1..lastId /\ lastId \in Nat
    BY DEF TypeInv, TypeOK
<1>2. \A d \in DOMAIN deliveries : result(d) \in Decision
    BY <1>1, DecideType, ScheduleAssumption
<1>3. \A d \in DOMAIN deliveries :
         Finished(deliveries[d], result(d)) \in DeliveryRow
    BY <1>1, <1>2, FinishedType
<1>4. deliveries' = [d \in DOMAIN deliveries |->
             IF d \in settled THEN Finished(deliveries[d], result(d))
             ELSE deliveries[d]]
    BY DEF Sweep
<1>5. /\ DOMAIN deliveries' = DOMAIN deliveries
      /\ deliveries' \in [DOMAIN deliveries' -> DeliveryRow]
    BY <1>1, <1>3, <1>4
<1>6. unapplied \subseteq DOMAIN deliveries /\ IsFiniteSet(unapplied)
    <2>1. unapplied \subseteq DOMAIN deliveries
        BY DEF Expired
    <2>2. unapplied \subseteq 1..lastId
        BY <1>1, <2>1
    <2>3. IsFiniteSet(1..lastId)
        BY <1>1, FS_Interval
    <2> QED
        BY <2>1, <2>2, <2>3, FS_Subset
<1>7. PICK order \in Listed(unapplied) :
         LET rest == [i \in 1..n |->
                         IF order[i] \in settled
                         THEN [id |-> order[i],
                               sub |-> deliveries[order[i]].sub,
                               status |-> result(order[i]).status]
                         ELSE NULL]
         IN  /\ todo' = [todo EXCEPT ![p] = rest]
             /\ stage' = [stage EXCEPT ![p] = Following(rest, passAt, maint[p])]
             /\ maint' = IF rest = << >> /\ maint[p] = NULL
                         THEN [maint EXCEPT ![p] = now] ELSE maint
    BY DEF Sweep
<1>8. n \in Nat /\ \A i \in 1..n : order[i] \in DOMAIN deliveries
    BY <1>6, <1>7, ListedType
<1> DEFINE entry(d) == IF d \in settled
                       THEN [id |-> d, sub |-> deliveries[d].sub,
                             status |-> result(d).status]
                       ELSE NULL
           rest == [i \in 1..n |-> entry(order[i])]
<1>9. \A d \in DOMAIN deliveries : entry(d) \in Settled \cup {NULL}
    BY <1>1, <1>2 DEF Settled, Decision, DeliveryRow
<1>10. rest \in Seq(Settled \cup {NULL})
    <2>1. rest \in [1..n -> Settled \cup {NULL}]
        BY <1>8, <1>9
    <2> QED
        BY <1>8, <2>1, SequenceType
<1>11. /\ todo' = [todo EXCEPT ![p] = rest]
       /\ stage' = [stage EXCEPT ![p] = Following(rest, passAt, maint[p])]
       /\ maint' = IF rest = << >> /\ maint[p] = NULL
                   THEN [maint EXCEPT ![p] = now] ELSE maint
    BY <1>7
<1> HIDE DEF rest
<1>12. /\ at' = [at EXCEPT ![p] = passAt]
       /\ UNCHANGED <<now, subs, events, lastSeq, lastId, seen, calls>>
    BY DEF Sweep
<1>13. TypeOK'
    BY <1>1, <1>5, <1>10, <1>11, <1>12, FollowingType
       DEF TypeInv, TypeOK, Stage, NatOrNull
<1>14. StageOK'
    BY <1>10, <1>11, <1>12 DEF TypeInv, TypeOK, StageOK, Following, NatOrNull
<1> QED
    BY <1>13, <1>14 DEF TypeInv

LEMMA StartType ==
    ASSUME TypeInv, NEW p \in Procs, Start(p)
    PROVE  TypeInv'
<1>1. PICK sch \in Schedules :
         /\ schedule' = [schedule EXCEPT ![p] = sch]
         /\ IF Works(p)
            THEN \E t \in Readings : Sweep(p, NULL, t, sch)
            ELSE /\ stage' = [stage EXCEPT ![p] = "idle"]
                 /\ UNCHANGED <<now, db, at, todo, seen, calls, maint>>
    BY DEF Start
<1>2. /\ claiming' \in [Procs -> BOOLEAN]
      /\ schedule' \in [Procs -> Schedules]
    BY <1>1 DEF Start, TypeInv, TypeOK
<1>3. CASE Works(p)
    <2>1. PICK t \in Readings : Sweep(p, NULL, t, sch)
        BY <1>1, <1>3
    <2>2. t \in Nat
        BY ReadingsType DEF TypeInv, TypeOK
    <2> QED
        BY <1>2, <2>1, <2>2, SweepType DEF NatOrNull
<1>4. CASE ~Works(p)
    BY <1>1, <1>2, <1>4 DEF TypeInv, TypeOK, StageOK, Stage, db
<1> QED
    BY <1>3, <1>4

LEMMA BeginPassType ==
    ASSUME TypeInv, NEW p \in Procs, BeginPass(p)
    PROVE  TypeInv'
<1>1. PICK t \in Readings, passAt \in Nat : Sweep(p, passAt, t, schedule[p])
    BY DEF BeginPass
<1>2. t \in Nat /\ schedule[p] \in Schedules
    BY ReadingsType DEF TypeInv, TypeOK
<1>3. UNCHANGED <<claiming, schedule>>
    BY DEF BeginPass
<1> QED
    BY <1>1, <1>2, <1>3, SweepType DEF TypeInv, TypeOK, NatOrNull

LEMMA ThrowsType ==
    ASSUME TypeInv, NEW p \in Procs, Throws(p)
    PROVE  TypeInv'
BY DEF TypeInv, TypeOK, StageOK, Throws, Stage, db, NatOrNull

\* An outcome is dealt with.
LEMMA AppliedType ==
    ASSUME TypeInv, NEW p \in Procs, todo[p] # << >>, Applied(p)
    PROVE  /\ todo' \in [Procs -> Seq(Settled \cup {NULL})]
           /\ stage' \in [Procs -> Stage]
           /\ maint' \in [Procs -> NatOrNull]
           /\ \A q \in Procs \ {p} : stage'[q] = stage[q] /\ todo'[q] = todo[q]
           /\ stage'[p] \in {"apply", "idle", "purge", "claim"}
           /\ stage'[p] = "apply" => todo'[p] # << >>
           /\ stage'[p] \in {"purge", "claim"} => at[p] # NULL
<1> DEFINE rest == Tail(todo[p])
<1>1. rest \in Seq(Settled \cup {NULL})
    BY TailType DEF TypeInv, TypeOK
<1> HIDE DEF rest
<1>2. /\ todo' = [todo EXCEPT ![p] = rest]
      /\ stage' = [stage EXCEPT ![p] = Following(rest, at[p], maint[p])]
      /\ maint' = IF rest = << >> /\ maint[p] = NULL
                  THEN [maint EXCEPT ![p] = now] ELSE maint
    BY DEF Applied, rest
<1> QED
    BY <1>1, <1>2 DEF TypeInv, TypeOK, Following, Stage, NatOrNull

LEMMA ReadSubType ==
    ASSUME TypeInv, NEW p \in Procs, ReadSub(p)
    PROVE  TypeInv'
<1> DEFINE s == Head(todo[p]).sub
<1>1. /\ stage[p] = "apply" /\ todo[p] # << >> /\ Head(todo[p]) # NULL
      /\ UNCHANGED <<now, db, at, calls, claiming, schedule>>
    BY DEF ReadSub, TypeInv, StageOK
<1>2. CASE Exists(s)
    <2>1. /\ seen' = [seen EXCEPT ![p] =
                        [sub |-> s, row |-> subs[s], patch |-> SubStore!NoChange]]
          /\ stage' = [stage EXCEPT ![p] = "record"]
          /\ UNCHANGED <<todo, maint>>
        BY <1>2 DEF ReadSub
    <2>2. s \in Subs
        <3>1. Head(todo[p]) \in Settled \cup {NULL}
            BY <1>1 DEF TypeInv, TypeOK
        <3> QED
            BY <1>1, <3>1 DEF Settled
    <2>3. [sub |-> s, row |-> subs[s], patch |-> SubStore!NoChange] \in Read
        BY <2>2 DEF TypeInv, TypeOK, Read, SubStore!NoChange,
                    SubStore!PatchBody, SubStore!PatchField
    <2> QED
        BY <1>1, <2>1, <2>3 DEF TypeInv, TypeOK, StageOK, Stage, db
<1>3. CASE ~Exists(s)
    <2>1. Applied(p) /\ UNCHANGED seen
        BY <1>3 DEF ReadSub
    <2> QED
        BY <1>1, <2>1, AppliedType DEF TypeInv, TypeOK, StageOK, db, NatOrNull
<1> QED
    BY <1>2, <1>3

LEMMA RecordOutcomeType ==
    ASSUME TypeInv, NEW p \in Procs, RecordOutcome(p)
    PROVE  TypeInv'
<1> DEFINE s == seen[p].sub
           outcome == Head(todo[p]).status
<1>1. /\ seen[p] \in Read /\ todo[p] # << >>
    BY DEF TypeInv, StageOK, RecordOutcome
<1>2. s \in Subs /\ seen[p].row \in SubStore!SubRow
    BY <1>1 DEF Read
<1>3. SubStore!Recorded(subs[s], seen[p].row, outcome) \in SubStore!SubRow
    BY <1>2, RecordedType DEF TypeInv, TypeOK
<1>4. subs' \in [Subs -> SubStore!SubRow]
    BY <1>2, <1>3 DEF TypeInv, TypeOK, RecordOutcome
<1>5. /\ Applied(p)
      /\ seen' = [seen EXCEPT ![p] = NULL]
      /\ UNCHANGED <<now, events, lastSeq, deliveries, lastId, at, calls,
                     claiming, schedule>>
    BY DEF RecordOutcome
<1> QED
    BY <1>1, <1>4, <1>5, AppliedType DEF TypeInv, TypeOK, StageOK, NatOrNull

LEMMA PurgeType ==
    ASSUME TypeInv, NEW p \in Procs, Purge(p)
    PROVE  TypeInv'
<1>1. /\ events' \in [DOMAIN events' -> EventRow]
      /\ DOMAIN events' \subseteq 1..lastSeq
    BY DEF TypeInv, TypeOK, Purge
<1>2. /\ deliveries' \in [DOMAIN deliveries' -> DeliveryRow]
      /\ DOMAIN deliveries' \subseteq 1..lastId
    BY DEF TypeInv, TypeOK, Purge
<1>3. at[p] \in Nat
    BY DEF TypeInv, StageOK, Purge
<1> QED
    BY <1>1, <1>2, <1>3 DEF TypeInv, TypeOK, StageOK, Purge, Stage, NatOrNull

LEMMA ClaimType ==
    ASSUME TypeInv, NEW p \in Procs, Claim(p)
    PROVE  TypeInv'
<1> DEFINE due == IF claiming[p]
                  THEN Due(deliveries, subs, at[p],
                           Concurrency - Cardinality(calls[p]))
                  ELSE {}
           new == {[id |-> d, row |-> Started(deliveries[d], at[p])] : d \in due}
<1>1. /\ deliveries \in [DOMAIN deliveries -> DeliveryRow]
      /\ DOMAIN deliveries \subseteq 1..lastId /\ lastId \in Nat
    BY DEF TypeInv, TypeOK
<1>2. at[p] \in Nat
    BY DEF TypeInv, StageOK, Claim
<1>3. \A d \in DOMAIN deliveries : Started(deliveries[d], at[p]) \in DeliveryRow
    BY <1>1, <1>2, StartedType
<1>4. due \subseteq DOMAIN deliveries
    BY DEF Due, Eligible, Candidates
<1>5. new \subseteq Call
    BY <1>1, <1>3, <1>4 DEF Call
<1>6. /\ deliveries' = [d \in DOMAIN deliveries |->
             IF d \in due THEN Started(deliveries[d], at[p]) ELSE deliveries[d]]
      /\ calls' = [calls EXCEPT ![p] = @ \cup new]
    BY DEF Claim
<1> HIDE DEF due, new
<1>7. /\ DOMAIN deliveries' = DOMAIN deliveries
      /\ deliveries' \in [DOMAIN deliveries' -> DeliveryRow]
    BY <1>1, <1>3, <1>6
<1>8. calls' \in [Procs -> SUBSET Call]
    BY <1>5, <1>6 DEF TypeInv, TypeOK
<1>9. /\ stage' = [stage EXCEPT ![p] = "idle"]
      /\ at' = [at EXCEPT ![p] = NULL]
      /\ UNCHANGED <<now, subs, events, lastSeq, lastId, todo, seen, life>>
    BY DEF Claim
<1> QED
    BY <1>1, <1>7, <1>8, <1>9 DEF TypeInv, TypeOK, StageOK, Stage, life, NatOrNull

LEMMA HeartbeatType ==
    ASSUME TypeInv, NEW p \in Procs, NEW c \in calls[p], Heartbeat(p, c)
    PROVE  TypeInv'
<1>1. PICK t \in Readings :
         deliveries' = [deliveries EXCEPT ![c.id] = Renewed(deliveries[c.id], t)]
    BY DEF Heartbeat
<1>2. c.id \in DOMAIN deliveries /\ t \in Nat
    BY ReadingsType DEF Heartbeat, OwnsRow, TypeInv, TypeOK
<1>3. Renewed(deliveries[c.id], t) \in DeliveryRow
    BY <1>2, RenewedType DEF TypeInv, TypeOK
<1>4. /\ DOMAIN deliveries' = DOMAIN deliveries
      /\ deliveries' \in [DOMAIN deliveries' -> DeliveryRow]
    BY <1>1, <1>2, <1>3 DEF TypeInv, TypeOK
<1> QED
    BY <1>4 DEF TypeInv, TypeOK, StageOK, Heartbeat, step, life

LEMMA FinishType ==
    ASSUME TypeInv, NEW p \in Procs, NEW c \in calls[p], NEW outcome \in Outcome,
           Finish(p, c, outcome)
    PROVE  TypeInv'
<1>1. PICK t \in Readings :
         LET decision == Decide(c.row, outcome, t, schedule[p])
         IN  /\ deliveries' = [deliveries EXCEPT ![c.id] =
                                  Finished(deliveries[c.id], decision)]
             /\ todo' = [todo EXCEPT ![p] =
                            <<[id |-> c.id, sub |-> c.row.sub,
                               status |-> decision.status]>>]
    BY DEF Finish
<1> DEFINE decision == Decide(c.row, outcome, t, schedule[p])
<1>2. c \in Call /\ c.id \in DOMAIN deliveries /\ t \in Nat
    BY ReadingsType DEF Finish, OwnsRow, TypeInv, TypeOK
<1>3. decision \in Decision
    BY <1>2, DecideType, ScheduleType DEF TypeInv, Call
<1>4. Finished(deliveries[c.id], decision) \in DeliveryRow
    BY <1>2, <1>3, FinishedType DEF TypeInv, TypeOK
<1>5. [id |-> c.id, sub |-> c.row.sub, status |-> decision.status] \in Settled
    BY <1>2, <1>3 DEF Settled, Decision, Call, DeliveryRow
<1>6. /\ deliveries' = [deliveries EXCEPT ![c.id] =
                           Finished(deliveries[c.id], decision)]
      /\ todo' = [todo EXCEPT ![p] =
                     <<[id |-> c.id, sub |-> c.row.sub,
                        status |-> decision.status]>>]
    BY <1>1
<1> HIDE DEF decision
<1>7. /\ DOMAIN deliveries' = DOMAIN deliveries
      /\ deliveries' \in [DOMAIN deliveries' -> DeliveryRow]
    BY <1>2, <1>4, <1>6 DEF TypeInv, TypeOK
<1>8. /\ todo' \in [Procs -> Seq(Settled \cup {NULL})]
      /\ todo'[p] # << >>
      /\ \A q \in Procs \ {p} : todo'[q] = todo[q]
    BY <1>5, <1>6 DEF TypeInv, TypeOK
<1>9. /\ calls' = [calls EXCEPT ![p] = @ \ {c}]
      /\ stage' = [stage EXCEPT ![p] = "reread"]
      /\ UNCHANGED <<now, subs, events, lastSeq, lastId, at, seen, life>>
    BY DEF Finish
<1>10. calls' \in [Procs -> SUBSET Call]
    BY <1>9 DEF TypeInv, TypeOK
<1> QED
    BY <1>7, <1>8, <1>9, <1>10 DEF TypeInv, TypeOK, StageOK, Stage, life

LEMMA RereadType ==
    ASSUME TypeInv, NEW p \in Procs, Reread(p)
    PROVE  TypeInv'
<1>1. /\ stage[p] = "reread" /\ todo[p] # << >>
      /\ UNCHANGED <<now, db, at, seen, calls, claiming, schedule>>
    BY DEF Reread, TypeInv, StageOK
<1>2. CASE Head(todo[p]).status = "retrying"
    <2>1. Applied(p)
        BY <1>2 DEF Reread
    <2> QED
        BY <1>1, <2>1, AppliedType DEF TypeInv, TypeOK, StageOK, db, NatOrNull
<1>3. CASE Head(todo[p]).status # "retrying"
    BY <1>1, <1>3 DEF Reread, TypeInv, TypeOK, StageOK, Stage, db
<1> QED
    BY <1>2, <1>3

LEMMA DownType ==
    ASSUME TypeInv, NEW p \in Procs, Down(p)
    PROVE  TypeInv'
BY DEF TypeInv, TypeOK, StageOK, Down, Stage, db, NatOrNull

\* The steps that change only what a process keeps in memory.
LEMMA MemoryType ==
    ASSUME TypeInv, NEW p \in Procs
    PROVE  /\ StopClaiming(p) => TypeInv'
           /\ \A c \in calls[p] : Discard(p, c) \/ FinishError(p, c) => TypeInv'
<1>1. ASSUME StopClaiming(p) PROVE TypeInv'
    BY <1>1 DEF TypeInv, TypeOK, StageOK, StopClaiming, db, step
<1>2. ASSUME NEW c \in calls[p], Discard(p, c) PROVE TypeInv'
    <2>1. calls' \in [Procs -> SUBSET Call]
        BY <1>2 DEF TypeInv, TypeOK, Discard
    <2> QED
        BY <1>2, <2>1 DEF TypeInv, TypeOK, StageOK, Discard, db, step, life
<1>3. ASSUME NEW c \in calls[p], FinishError(p, c) PROVE TypeInv'
    <2>1. calls' \in [Procs -> SUBSET Call]
        BY <1>3 DEF TypeInv, TypeOK, FinishError
    <2> QED
        BY <1>3, <2>1 DEF TypeInv, TypeOK, StageOK, FinishError, db, step
<1> QED
    BY <1>1, <1>2, <1>3

LEMMA TypeInvStep == TypeInv /\ [Next]_vars => TypeInv'
<1> SUFFICES ASSUME TypeInv, [Next]_vars PROVE TypeInv'
    OBVIOUS
<1>1. CASE Tick
    BY <1>1 DEF TypeInv, TypeOK, StageOK, Tick, db, step, life
<1>2. ASSUME NEW p \in Procs, ApiStep(p) PROVE TypeInv'
    <2>1. CASE \/ \E type \in Types : Publish(p, type)
               \/ \E s \in Subs : Test(p, s)
               \/ \E s \in Subs : \E from \in 0..now :
                     \E to \in (from + 1)..(now + 1) : Replay(p, s, from, to)
               \/ \E d \in DOMAIN deliveries : Redeliver(p, d)
        BY <2>1, QueueingType
    <2> QED
        BY <1>2, <2>1, CreateType, RemoveType, UpdateReadType, CancelType,
           UpdateWriteType DEF ApiStep
<1>3. ASSUME NEW p \in Procs, Continue(p) PROVE TypeInv'
    BY <1>3, ThrowsType, ReadSubType, RecordOutcomeType, PurgeType, ClaimType,
       RereadType DEF Continue, ApplyNull, RereadGone
<1>4. ASSUME NEW p \in Procs, WorkerStep(p) PROVE TypeInv'
    BY <1>3, <1>4, StartType, BeginPassType, HeartbeatType, FinishType,
       MemoryType DEF WorkerStep, CallEnds
<1>5. ASSUME NEW p \in Procs, FailureStep(p) PROVE TypeInv'
    BY <1>5, ThrowsType, DownType, MemoryType
       DEF FailureStep, DatabaseError, Crash, Exit
<1>6. CASE UNCHANGED vars
    BY <1>6 DEF TypeInv, TypeOK, StageOK, vars, db, step, life
<1> QED
    BY <1>1, <1>2, <1>4, <1>5, <1>6 DEF Next, ProcessStep

\* The inductive invariant: every variable holds a value of its kind, and the
\* code a process is in the middle of finds the values it works on.
THEOREM TypeInvariant == Spec => []TypeInv
<1>1. Init => TypeInv
    BY TypeInvInit
<1>2. TypeInv /\ [Next]_vars => TypeInv'
    BY TypeInvStep
<1> QED
    BY <1>1, <1>2, PTL DEF Spec

\* Every variable always holds a value of its kind, whatever the processes,
\* the subscriptions and the configuration.
THEOREM TypeCorrect == Spec => []TypeOK
<1>1. TypeInv => TypeOK
    BY DEF TypeInv
<1> QED
    BY <1>1, TypeInvariant, PTL
=============================================================================
