---------------------------- MODULE QueueProofs ----------------------------
(***************************************************************************)
(* Theorems about the deliveries table of WebhookOut and the calls made    *)
(* for it.  Every step of the system is reduced to what it may do to the   *)
(* table and to the calls (TableStep and CallsStep); the theorems follow   *)
(* from that alone.                                                        *)
(***************************************************************************)
EXTENDS WebhookOutProofs

RowsOK == \A d \in DOMAIN deliveries : RowOK(deliveries[d])

(***************************************************************************)
(* A call carries the token of its attempt, its row has not gone back to   *)
(* an earlier attempt, and as long as the row holds the token it is the    *)
(* row the call was made with, but for a renewed lease.                    *)
(***************************************************************************)
CallOK(c) ==
    /\ c.id <= lastId
    /\ c.row.owner = c.row.attempt
    /\ c.id \in DOMAIN deliveries => c.row.attempt <= deliveries[c.id].attempt
    /\ OwnsRow(c) =>
          deliveries[c.id] = [c.row EXCEPT !.lease = deliveries[c.id].lease]

CallsOK == \A p \in Procs : \A c \in calls[p] : CallOK(c)

AttemptInv == TypeInv /\ RowsOK /\ CallsOK /\ OneCallerPerAttempt

-----------------------------------------------------------------------------
(***************************************************************************)
(* What a step may do to a row, to the table and to the calls.             *)
(***************************************************************************)
RowStep(d) ==
    LET old == deliveries[d]
        new == deliveries'[d]
    IN  \/ new = old
        \/ old.status \in Queued /\ new = Cancelled(old)
        \/ \E p \in Procs : /\ Claim(p)
                            /\ d \in Eligible(deliveries, subs, at[p])
                            /\ new = Started(old, at[p])
        \/ \E t \in Nat : /\ old.status = "running" /\ old.owner # NULL
                            /\ new = Renewed(old, t)
        \/ \E outcome \in Outcome, t \in Nat, sch \in Schedules :
              /\ old.status = "running"
              /\ new = Finished(old, Decide(old, outcome, t, sch))

TableStep ==
    /\ lastId <= lastId'
    /\ \A d \in DOMAIN deliveries' :
          IF d \in DOMAIN deliveries THEN RowStep(d)
          ELSE lastId < d /\ deliveries'[d] \in Fresh
    /\ \A d \in DOMAIN deliveries \ DOMAIN deliveries' :
          \/ deliveries[d].status \in Terminal
          \/ subs'[deliveries[d].sub].status = "deleted"

\* Only one process begins calls, each for a queued row it has just started.
CallsStep ==
    /\ \A p, q \in Procs :
          p # q => calls'[p] \subseteq calls[p] \/ calls'[q] \subseteq calls[q]
    /\ \A p \in Procs : calls'[p] \subseteq calls[p] \/ Claim(p)
    /\ \A p \in Procs : \A c \in calls'[p] \ calls[p] :
          /\ c.id \in DOMAIN deliveries /\ c.id \in DOMAIN deliveries'
          /\ deliveries[c.id].status \in Queued
          /\ \E t \in Nat : deliveries'[c.id] = Started(deliveries[c.id], t)
          /\ c.row = deliveries'[c.id]

\* A step that leaves the rows alone.
LEMMA SameTable ==
    ASSUME TypeInv, UNCHANGED <<deliveries, lastId>>
    PROVE  TableStep
BY DEF TableStep, RowStep, TypeInv, TypeOK

\* A claim uses the time its pass began, and no other comes with it.
LEMMA ClaimTime ==
    ASSUME TypeInv, NEW p \in Procs, Claim(p)
    PROVE  at[p] \in Nat /\ \A q \in Procs : Claim(q) => q = p
<1>1. at[p] \in Nat
    BY DEF Claim, TypeInv, StageOK
<1>2. ASSUME NEW q \in Procs, Claim(q)
      PROVE  q = p
    <2>1. /\ stage[q] = "claim" /\ stage'[q] = "idle"
          /\ stage' = [stage EXCEPT ![p] = "idle"]
        BY <1>2 DEF Claim, TypeInv, TypeOK
    <2> QED
        BY <2>1 DEF TypeInv, TypeOK
<1> QED
    BY <1>1, <1>2

\* A step that begins no call.
LEMMA FewerCalls ==
    ASSUME \A p \in Procs : calls'[p] \subseteq calls[p]
    PROVE  CallsStep
BY DEF CallsStep

LEMMA InsertStep ==
    ASSUME TypeInv, NEW rows \in Seq(Fresh), Insert(rows)
    PROVE  TableStep
<1> DEFINE new == (lastId + 1)..(lastId + Len(rows))
<1>1. /\ lastId \in Nat /\ Len(rows) \in Nat
      /\ DOMAIN deliveries \subseteq 1..lastId
    BY DEF TypeInv, TypeOK
<1>2. /\ lastId' = lastId + Len(rows)
      /\ deliveries' = [d \in DOMAIN deliveries \cup new |->
             IF d \in DOMAIN deliveries THEN deliveries[d]
             ELSE rows[d - lastId]]
    BY DEF Insert
<1>3. \A d \in new : rows[d - lastId] \in Fresh
    <2> TAKE d \in new
    <2>1. d - lastId \in 1..Len(rows)
        BY <1>1
    <2> QED
        BY <2>1
<1>4. ASSUME NEW d \in DOMAIN deliveries'
      PROVE  IF d \in DOMAIN deliveries THEN RowStep(d)
             ELSE lastId < d /\ deliveries'[d] \in Fresh
    <2>1. CASE d \in DOMAIN deliveries
        BY <1>2, <2>1 DEF RowStep
    <2>2. CASE d \notin DOMAIN deliveries
        BY <1>1, <1>2, <1>3, <2>2
    <2> QED
        BY <2>1, <2>2
<1>5. lastId <= lastId' /\ DOMAIN deliveries \subseteq DOMAIN deliveries'
    BY <1>1, <1>2
<1> QED
    BY <1>4, <1>5 DEF TableStep

\* A step that changes only the row d of the table.
LEMMA OneRowStep ==
    ASSUME TypeInv, NEW d \in DOMAIN deliveries, NEW row,
           deliveries' = [deliveries EXCEPT ![d] = row],
           RowStep(d), UNCHANGED lastId
    PROVE  TableStep
<1>1. /\ DOMAIN deliveries' = DOMAIN deliveries
      /\ \A e \in DOMAIN deliveries : e # d => deliveries'[e] = deliveries[e]
    BY DEF TypeInv, TypeOK
<1>2. \A e \in DOMAIN deliveries : RowStep(e)
    BY <1>1 DEF RowStep
<1>3. lastId <= lastId'
    BY DEF TypeInv, TypeOK
<1> QED
    BY <1>1, <1>2, <1>3 DEF TableStep

LEMMA ApiTable ==
    ASSUME TypeInv, NEW p \in Procs, ApiStep(p)
    PROVE  TableStep /\ CallsStep
<1>1. CASE \/ \E type \in Types : Publish(p, type)
           \/ \E s \in Subs : Test(p, s)
           \/ \E s \in Subs : \E from \in 0..now :
                 \E to \in (from + 1)..(now + 1) : Replay(p, s, from, to)
           \/ \E d \in DOMAIN deliveries : Redeliver(p, d)
    <2>1. \E rows \in Seq(Fresh) : Insert(rows)
        BY <1>1, PublishFresh, TestFresh, ReplayFresh, RedeliverFresh
    <2>2. UNCHANGED calls
        BY <1>1 DEF Publish, Test, Replay, Redeliver
    <2> QED
        BY <2>1, <2>2, InsertStep, FewerCalls
<1>2. ASSUME NEW d \in DOMAIN deliveries, Cancel(p, d)
      PROVE  TableStep /\ CallsStep
    <2>1. /\ deliveries' = [deliveries EXCEPT ![d] = Cancelled(deliveries[d])]
          /\ deliveries[d].status \in Queued
          /\ UNCHANGED <<lastId, calls>>
        BY <1>2 DEF Cancel
    <2>2. RowStep(d)
        BY <2>1 DEF RowStep, TypeInv, TypeOK
    <2> QED
        BY <2>1, <2>2, OneRowStep, FewerCalls
<1>3. ASSUME NEW s \in Subs, Remove(p, s)
      PROVE  TableStep /\ CallsStep
    <2> DEFINE kept == {d \in DOMAIN deliveries : deliveries[d].sub # s}
    <2>1. /\ deliveries' = [d \in kept |-> deliveries[d]]
          /\ subs' = [subs EXCEPT ![s] = NewSub(s, "deleted")]
          /\ UNCHANGED <<lastId, calls>>
        BY <1>3 DEF Remove
    <2>2. subs'[s].status = "deleted"
        BY <2>1 DEF NewSub, TypeInv, TypeOK
    <2>3. \A d \in DOMAIN deliveries' : d \in DOMAIN deliveries /\ RowStep(d)
        BY <2>1 DEF RowStep
    <2>4. \A d \in DOMAIN deliveries \ DOMAIN deliveries' :
             subs'[deliveries[d].sub].status = "deleted"
        BY <2>1, <2>2
    <2>5. lastId <= lastId'
        BY <2>1 DEF TypeInv, TypeOK
    <2>6. TableStep
        BY <2>3, <2>4, <2>5 DEF TableStep
    <2> QED
        BY <2>1, <2>6, FewerCalls
<1>4. CASE \/ \E s \in Subs : \E status \in {"active", "paused"} :
                 Create(p, s, status)
           \/ \E s \in Subs : \E patch \in Patches[s] : UpdateRead(p, s, patch)
           \/ UpdateWrite(p)
    <2>1. UNCHANGED <<deliveries, lastId, calls>>
        BY <1>4 DEF Create, UpdateRead, UpdateWrite, db
    <2> QED
        BY <2>1, SameTable, FewerCalls
<1> QED
    BY <1>1, <1>2, <1>3, <1>4 DEF ApiStep

LEMMA SweepTable ==
    ASSUME TypeInv, NEW p \in Procs, NEW passAt, NEW t \in Nat,
           NEW sch \in Schedules, Sweep(p, passAt, t, sch)
    PROVE  TableStep /\ CallsStep
<1> DEFINE result(d) == Decide(deliveries[d], "retryable", t, sch)
           settled == {d \in Expired(deliveries, t) :
                          Holds(deliveries[d], deliveries[d].owner)}
<1>1. /\ deliveries' = [d \in DOMAIN deliveries |->
             IF d \in settled THEN Finished(deliveries[d], result(d))
             ELSE deliveries[d]]
      /\ UNCHANGED <<lastId, calls>>
    BY DEF Sweep
<1>2. ASSUME NEW d \in DOMAIN deliveries
      PROVE  RowStep(d)
    <2>1. CASE d \in settled
        <3>1. /\ deliveries[d].status = "running"
              /\ deliveries'[d] = Finished(deliveries[d], result(d))
            BY <1>1, <2>1 DEF Holds
        <3>2. "retryable" \in Outcome
            BY DEF Outcome
        <3> QED
            BY <3>1, <3>2 DEF RowStep
    <2>2. CASE d \notin settled
        BY <1>1, <2>2 DEF RowStep
    <2> QED
        BY <2>1, <2>2
<1>3. lastId <= lastId' /\ DOMAIN deliveries' = DOMAIN deliveries
    BY <1>1 DEF TypeInv, TypeOK
<1>4. TableStep
    BY <1>2, <1>3 DEF TableStep
<1> QED
    BY <1>1, <1>4, FewerCalls

LEMMA PurgeTable ==
    ASSUME TypeInv, NEW p \in Procs, Purge(p)
    PROVE  TableStep /\ CallsStep
<1> DEFINE gone == {e \in DOMAIN events : /\ events[e].at + RetentionMs < at[p]
                                          /\ e \notin InUse(deliveries)}
           kept == {d \in DOMAIN deliveries : deliveries[d].event \notin gone}
<1>1. /\ deliveries' = [d \in kept |-> deliveries[d]]
      /\ UNCHANGED <<lastId, calls>>
    BY DEF Purge
<1>2. \A d \in DOMAIN deliveries' : d \in DOMAIN deliveries /\ RowStep(d)
    BY <1>1 DEF RowStep
<1>3. ASSUME NEW d \in DOMAIN deliveries \ DOMAIN deliveries'
      PROVE  deliveries[d].status \in Terminal
    <2>1. deliveries[d].event \notin InUse(deliveries)
        BY <1>1, <1>3
    <2>2. deliveries[d].status \notin Live
        BY <2>1 DEF InUse
    <2>3. deliveries[d].status \in Status
        BY DEF TypeInv, TypeOK, DeliveryRow
    <2> QED
        BY <2>2, <2>3 DEF Status
<1>4. lastId <= lastId'
    BY <1>1 DEF TypeInv, TypeOK
<1>5. TableStep
    BY <1>2, <1>3, <1>4 DEF TableStep
<1> QED
    BY <1>1, <1>5, FewerCalls

LEMMA ClaimTable ==
    ASSUME TypeInv, NEW p \in Procs, Claim(p)
    PROVE  TableStep /\ CallsStep
<1> DEFINE due == IF claiming[p]
                  THEN Due(deliveries, subs, at[p],
                           Concurrency - Cardinality(calls[p]))
                  ELSE {}
           new == {[id |-> d, row |-> Started(deliveries[d], at[p])] : d \in due}
<1>1. /\ deliveries' = [d \in DOMAIN deliveries |->
             IF d \in due THEN Started(deliveries[d], at[p]) ELSE deliveries[d]]
      /\ calls' = [calls EXCEPT ![p] = @ \cup new]
      /\ UNCHANGED lastId
    BY DEF Claim
<1>2. at[p] \in Nat
    BY DEF TypeInv, StageOK, Claim
<1>3. /\ due \subseteq Eligible(deliveries, subs, at[p])
      /\ due \subseteq DOMAIN deliveries
      /\ \A d \in due : deliveries[d].status \in Queued
    BY DEF Due, Eligible, Candidates
<1> HIDE DEF due
<1>4. ASSUME NEW d \in DOMAIN deliveries
      PROVE  RowStep(d)
    BY <1>1, <1>2, <1>3 DEF RowStep
<1>5. lastId <= lastId' /\ DOMAIN deliveries' = DOMAIN deliveries
    BY <1>1 DEF TypeInv, TypeOK
<1>6. TableStep
    BY <1>4, <1>5 DEF TableStep
<1>7. \A q \in Procs : q # p => calls'[q] = calls[q]
    BY <1>1 DEF TypeInv, TypeOK
<1>8. ASSUME NEW q \in Procs, NEW c \in calls'[q] \ calls[q]
      PROVE  /\ c.id \in DOMAIN deliveries /\ c.id \in DOMAIN deliveries'
             /\ deliveries[c.id].status \in Queued
             /\ \E t \in Nat : deliveries'[c.id] = Started(deliveries[c.id], t)
             /\ c.row = deliveries'[c.id]
    <2>1. c \in new
        BY <1>1, <1>7, <1>8 DEF TypeInv, TypeOK
    <2>2. PICK d \in due : c = [id |-> d, row |-> Started(deliveries[d], at[p])]
        BY <2>1
    <2>3. c.id = d /\ c.row = Started(deliveries[d], at[p])
        BY <2>2
    <2> QED
        BY <1>1, <1>2, <1>3, <2>3
<1>9. CallsStep
    BY <1>7, <1>8 DEF CallsStep
<1> QED
    BY <1>6, <1>9

LEMMA HeartbeatTable ==
    ASSUME TypeInv, NEW p \in Procs, NEW c \in calls[p], Heartbeat(p, c)
    PROVE  TableStep /\ CallsStep
<1>1. PICK t \in Readings :
         deliveries' = [deliveries EXCEPT ![c.id] = Renewed(deliveries[c.id], t)]
    BY DEF Heartbeat
<1>2. /\ c.id \in DOMAIN deliveries /\ deliveries[c.id].status = "running"
      /\ deliveries[c.id].owner # NULL /\ t \in Nat
      /\ UNCHANGED <<lastId, calls>>
    BY ReadingsType DEF Heartbeat, OwnsRow, Holds, TypeInv, TypeOK
<1>3. RowStep(c.id)
    BY <1>1, <1>2 DEF RowStep, TypeInv, TypeOK
<1> QED
    BY <1>1, <1>2, <1>3, OneRowStep, FewerCalls

\* The decision of a call that still owns its row is one about that row.
LEMMA FinishTable ==
    ASSUME TypeInv, CallsOK, NEW p \in Procs, NEW c \in calls[p],
           NEW outcome \in Outcome, Finish(p, c, outcome)
    PROVE  TableStep /\ CallsStep
<1> DEFINE old == deliveries[c.id]
<1>1. PICK t \in Readings :
         deliveries' = [deliveries EXCEPT ![c.id] =
                           Finished(old, Decide(c.row, outcome, t, schedule[p]))]
    BY DEF Finish
<1>2. /\ c.id \in DOMAIN deliveries /\ old.status = "running" /\ OwnsRow(c)
      /\ t \in Nat /\ UNCHANGED lastId
      /\ schedule[p] \in Schedules
      /\ calls' = [calls EXCEPT ![p] = @ \ {c}]
    BY ReadingsType DEF Finish, OwnsRow, Holds, TypeInv, TypeOK
<1>3. c.row \in DeliveryRow /\ old \in DeliveryRow
    BY <1>2 DEF TypeInv, TypeOK, Call
<1>4. old = [c.row EXCEPT !.lease = old.lease]
    BY <1>2 DEF CallsOK, CallOK
<1>5. /\ c.row.attempt = old.attempt /\ c.row.max = old.max
      /\ c.row.log = old.log
    BY <1>3, <1>4 DEF DeliveryRow
<1>6. Decide(c.row, outcome, t, schedule[p]) = Decide(old, outcome, t, schedule[p])
    BY <1>5 DEF Decide
<1>7. RowStep(c.id)
    BY <1>1, <1>2, <1>6 DEF RowStep, TypeInv, TypeOK
<1>8. TableStep
    BY <1>1, <1>2, <1>7, OneRowStep
<1>9. \A q \in Procs : calls'[q] \subseteq calls[q]
    BY <1>2 DEF TypeInv, TypeOK
<1> QED
    BY <1>8, <1>9, FewerCalls

CallFinishes == \E p \in Procs : \E c \in calls[p], outcome \in Outcome :
                    Finish(p, c, outcome)

LEMMA StepEffect ==
    ASSUME TypeInv, CallsOK \/ ~CallFinishes, [Next]_vars
    PROVE  TableStep /\ CallsStep
<1>1. CASE Tick \/ UNCHANGED vars
    <2>1. UNCHANGED <<deliveries, lastId, calls>>
        BY <1>1 DEF Tick, vars, db
    <2> QED
        BY <2>1, SameTable, FewerCalls
<1>2. ASSUME NEW p \in Procs, Start(p) \/ BeginPass(p)
      PROVE  TableStep /\ CallsStep
    <2>1. CASE \E sch \in Schedules, passAt \in NatOrNull : \E t \in Readings :
                  Sweep(p, passAt, t, sch)
        <3>1. Readings \subseteq Nat
            BY ReadingsType DEF TypeInv, TypeOK
        <3> QED
            BY <2>1, <3>1, SweepTable
    <2>2. CASE UNCHANGED <<deliveries, lastId, calls>>
        BY <2>2, SameTable, FewerCalls
    <2>3. \/ \E sch \in Schedules, passAt \in NatOrNull : \E t \in Readings :
                Sweep(p, passAt, t, sch)
          \/ UNCHANGED <<deliveries, lastId, calls>>
        <3>1. CASE Start(p)
            BY <3>1 DEF Start, db, NatOrNull
        <3>2. CASE BeginPass(p)
            <4>1. PICK t \in Readings, passAt \in Nat :
                     Sweep(p, passAt, t, schedule[p])
                BY <3>2 DEF BeginPass
            <4>2. passAt \in NatOrNull /\ schedule[p] \in Schedules
                BY DEF TypeInv, TypeOK, NatOrNull
            <4> QED
                BY <4>1, <4>2
        <3> QED
            BY <1>2, <3>1, <3>2
    <2> QED
        BY <2>1, <2>2, <2>3
<1>3. ASSUME NEW p \in Procs,
             \/ ApplyNull(p) \/ ReadSub(p) \/ RecordOutcome(p) \/ Reread(p)
             \/ RereadGone(p) \/ DatabaseError(p) \/ StopClaiming(p)
      PROVE  TableStep /\ CallsStep
    <2>1. UNCHANGED <<deliveries, lastId, calls>>
        BY <1>3 DEF ApplyNull, ReadSub, RecordOutcome, Reread, RereadGone,
                    DatabaseError, StopClaiming, Throws, db
    <2> QED
        BY <2>1, SameTable, FewerCalls
<1>4. ASSUME NEW p \in Procs,
             \/ \E c \in calls[p] : Discard(p, c) \/ FinishError(p, c)
             \/ Crash(p) \/ Exit(p)
      PROVE  TableStep /\ CallsStep
    <2>1. UNCHANGED <<deliveries, lastId>>
        BY <1>4 DEF Discard, FinishError, Crash, Exit, Down, db
    <2>2. \E kept \in SUBSET calls[p] : calls' = [calls EXCEPT ![p] = kept]
        <3>1. ASSUME NEW c \in calls[p], calls' = [calls EXCEPT ![p] = @ \ {c}]
              PROVE  \E kept \in SUBSET calls[p] :
                        calls' = [calls EXCEPT ![p] = kept]
            <4> WITNESS calls[p] \ {c} \in SUBSET calls[p]
            <4> QED
                BY <3>1
        <3>2. CASE calls' = [calls EXCEPT ![p] = {}]
            <4> WITNESS {} \in SUBSET calls[p]
            <4> QED
                BY <3>2
        <3> QED
            BY <1>4, <3>1, <3>2 DEF Discard, FinishError, Crash, Exit, Down
    <2>3. \A q \in Procs : calls'[q] \subseteq calls[q]
        BY <2>2 DEF TypeInv, TypeOK
    <2> QED
        BY <2>1, <2>3, SameTable, FewerCalls
<1>5. ASSUME NEW p \in Procs, NEW c \in calls[p], NEW outcome \in Outcome,
             Finish(p, c, outcome)
      PROVE  TableStep /\ CallsStep
    <2>1. CallsOK
        BY <1>5 DEF CallFinishes
    <2> QED
        BY <1>5, <2>1, FinishTable
<1>6. ASSUME NEW p \in Procs, WorkerStep(p) \/ FailureStep(p)
      PROVE  TableStep /\ CallsStep
    BY <1>2, <1>3, <1>4, <1>5, <1>6, PurgeTable, ClaimTable, HeartbeatTable
       DEF WorkerStep, FailureStep, Continue, CallEnds
<1> QED
    BY <1>1, <1>6, ApiTable DEF Next, ProcessStep

-----------------------------------------------------------------------------
(***************************************************************************)
(* Attempts: rows and calls stay in agreement.                             *)
(***************************************************************************)
LEMMA RowStepOK ==
    ASSUME TypeInv, RowsOK, NEW d \in DOMAIN deliveries, RowStep(d)
    PROVE  RowOK(deliveries'[d])
<1> DEFINE old == deliveries[d]
           new == deliveries'[d]
<1>1. old \in DeliveryRow /\ RowOK(old)
    BY DEF TypeInv, TypeOK, RowsOK
<1>2. ASSUME NEW p \in Procs, Claim(p), d \in Eligible(deliveries, subs, at[p])
      PROVE  old.status \in Queued /\ at[p] \in Nat
    BY <1>2, ClaimTime DEF Eligible, Candidates
<1>3. ASSUME NEW sch \in Schedules PROVE sch \in Seq(Nat \ {0})
    BY ScheduleAssumption
<1> QED
    BY <1>1, <1>2, <1>3, StartedOK, RenewedOK, CancelledOK, FinishedOK
       DEF RowStep

LEMMA RowsStep ==
    ASSUME TypeInv, RowsOK, TableStep
    PROVE  RowsOK'
BY RowStepOK, FreshOK DEF TableStep, RowsOK

\* How a step moves the attempt, the token and the rest of a row.
LEMMA RowProgress ==
    ASSUME TypeInv, RowsOK, NEW d \in DOMAIN deliveries, RowStep(d)
    PROVE  /\ deliveries[d].attempt <= deliveries'[d].attempt
           /\ deliveries'[d].status = "running"
                 /\ deliveries'[d].attempt = deliveries[d].attempt
              => /\ deliveries[d].status = "running"
                 /\ deliveries'[d] = [deliveries[d] EXCEPT
                                         !.lease = deliveries'[d].lease]
           /\ deliveries'[d].sub = deliveries[d].sub
           /\ deliveries[d].status \in Terminal => deliveries'[d] = deliveries[d]
<1> DEFINE old == deliveries[d]
           new == deliveries'[d]
<1>1. old \in DeliveryRow /\ old.attempt \in Nat
    BY DEF TypeInv, TypeOK, DeliveryRow
<1>2. CASE new = old
    BY <1>1, <1>2 DEF DeliveryRow
<1>3. CASE old.status \in Queued /\ new = Cancelled(old)
    BY <1>1, <1>3 DEF Cancelled, DeliveryRow, Queued, Terminal
<1>4. ASSUME NEW t, d \in Eligible(deliveries, subs, t),
             new = Started(old, t)
      PROVE  /\ new.attempt = old.attempt + 1 /\ new.sub = old.sub
             /\ old.status \notin Terminal
    BY <1>1, <1>4 DEF Eligible, Candidates, Started, DeliveryRow, Queued, Terminal
<1>5. ASSUME NEW t \in Nat, old.status = "running", new = Renewed(old, t)
      PROVE  /\ new.attempt = old.attempt /\ new.sub = old.sub
             /\ new = [old EXCEPT !.lease = new.lease]
             /\ old.status \notin Terminal
    BY <1>1, <1>5 DEF Renewed, DeliveryRow, Terminal
<1>6. ASSUME NEW outcome \in Outcome, NEW t \in Nat, NEW sch \in Schedules,
             old.status = "running",
             new = Finished(old, Decide(old, outcome, t, sch))
      PROVE  /\ new.attempt = old.attempt /\ new.sub = old.sub
             /\ new.status # "running" /\ old.status \notin Terminal
    BY <1>1, <1>6 DEF Finished, Decide, DeliveryRow, Terminal
<1> HIDE DEF old, new
<1>7. RowStep(d) =>
         \/ new = old
         \/ old.status \in Queued /\ new = Cancelled(old)
         \/ \E t : d \in Eligible(deliveries, subs, t) /\ new = Started(old, t)
         \/ \E t \in Nat : /\ old.status = "running" /\ old.owner # NULL
                            /\ new = Renewed(old, t)
         \/ \E outcome \in Outcome, t \in Nat, sch \in Schedules :
               /\ old.status = "running"
               /\ new = Finished(old, Decide(old, outcome, t, sch))
    BY DEF RowStep, old, new
<1>8. /\ old.attempt <= new.attempt
      /\ new.status = "running" /\ new.attempt = old.attempt
         => old.status = "running" /\ new = [old EXCEPT !.lease = new.lease]
      /\ new.sub = old.sub
      /\ old.status \in Terminal => new = old
    BY <1>1, <1>2, <1>3, <1>4, <1>5, <1>6, <1>7 DEF old, new
<1> QED
    BY <1>8 DEF old, new

LEMMA CallsOKStep ==
    ASSUME AttemptInv, RowsOK', TypeInv', TableStep, CallsStep
    PROVE  CallsOK'
<1> SUFFICES ASSUME NEW p \in Procs, NEW c \in calls'[p]
             PROVE  CallOK(c)'
    BY DEF CallsOK
<1> DEFINE d == c.id
<1>1. /\ TypeOK /\ TypeOK' /\ RowsOK
      /\ c \in Call /\ c.row \in DeliveryRow /\ c.id \in Nat
    BY DEF AttemptInv, TypeInv, TypeOK, Call
<1>2. CASE c \in calls[p]
    <2>1. CallOK(c)
        BY <1>2 DEF AttemptInv, CallsOK
    <2>2. d <= lastId'
        BY <1>1, <2>1 DEF CallOK, TableStep, TypeOK
    <2>3. ASSUME d \in DOMAIN deliveries'
          PROVE  /\ c.row.attempt <= deliveries'[d].attempt
                 /\ OwnsRow(c)' => deliveries'[d] =
                       [c.row EXCEPT !.lease = deliveries'[d].lease]
        <3>1. d \in DOMAIN deliveries /\ RowStep(d)
            BY <1>1, <2>1, <2>3 DEF CallOK, TableStep, TypeOK
        <3>2. /\ deliveries[d] \in DeliveryRow /\ deliveries'[d] \in DeliveryRow
              /\ RowOK(deliveries[d]) /\ RowOK(deliveries'[d])
            BY <1>1, <2>3, <3>1 DEF TypeOK, RowsOK
        <3>3. /\ c.row.attempt \in Nat /\ deliveries[d].attempt \in Nat
              /\ deliveries'[d].attempt \in Nat
            BY <1>1, <3>2 DEF DeliveryRow
        <3>4. /\ deliveries[d].attempt <= deliveries'[d].attempt
              /\ deliveries'[d].status = "running"
                    /\ deliveries'[d].attempt = deliveries[d].attempt
                 => /\ deliveries[d].status = "running"
                    /\ deliveries'[d] = [deliveries[d] EXCEPT
                                            !.lease = deliveries'[d].lease]
            BY <3>1, RowProgress DEF AttemptInv
        <3>5. c.row.attempt <= deliveries[d].attempt
            BY <2>1, <3>1 DEF CallOK
        <3>6. c.row.attempt <= deliveries'[d].attempt
            BY <3>3, <3>4, <3>5
        <3>7. ASSUME OwnsRow(c)'
              PROVE  deliveries'[d] =
                        [c.row EXCEPT !.lease = deliveries'[d].lease]
            <4>1. /\ deliveries'[d].status = "running"
                  /\ deliveries'[d].owner = c.row.owner
                BY <3>7 DEF OwnsRow, Holds
            <4>2. deliveries'[d].attempt = c.row.attempt
                BY <2>1, <3>2, <4>1 DEF CallOK, RowOK
            <4>3. /\ deliveries[d].attempt = c.row.attempt
                  /\ deliveries[d].status = "running"
                  /\ deliveries'[d] = [deliveries[d] EXCEPT
                                          !.lease = deliveries'[d].lease]
                BY <3>3, <3>4, <3>5, <4>1, <4>2
            <4>4. deliveries[d].owner = c.row.owner
                BY <2>1, <3>2, <4>3 DEF CallOK, RowOK
            <4>5. c.row.owner # NULL
                BY <2>1, <3>3, NullAssumption DEF CallOK
            <4>6. OwnsRow(c)
                BY <3>1, <4>3, <4>4, <4>5 DEF OwnsRow, Holds
            <4>7. deliveries[d] = [c.row EXCEPT !.lease = deliveries[d].lease]
                BY <2>1, <4>6 DEF CallOK
            <4> QED
                BY <1>1, <4>3, <4>7 DEF DeliveryRow
        <3> QED
            BY <3>6, <3>7
    <2>4. d \in DOMAIN deliveries' => c.row.attempt <= deliveries'[d].attempt
        BY <2>3
    <2>5. OwnsRow(c)' => deliveries'[d] =
                            [c.row EXCEPT !.lease = deliveries'[d].lease]
        BY <2>3 DEF OwnsRow
    <2>6. c.row.owner = c.row.attempt
        BY <2>1 DEF CallOK
    <2> QED
        BY <2>2, <2>4, <2>5, <2>6 DEF CallOK
<1>3. CASE c \notin calls[p]
    <2>1. /\ d \in DOMAIN deliveries' /\ c.row = deliveries'[d]
          /\ \E t \in Nat : deliveries'[d] = Started(deliveries[d], t)
          /\ d \in DOMAIN deliveries
        BY <1>3 DEF CallsStep
    <2>2. d <= lastId'
        BY <1>1, <2>1 DEF TypeOK
    <2>3. c.row.owner = c.row.attempt
        BY <1>1, <2>1 DEF Started, TypeOK, DeliveryRow
    <2>4. c.row.attempt \in Nat
        BY <1>1 DEF DeliveryRow
    <2>5. deliveries'[d] = [c.row EXCEPT !.lease = deliveries'[d].lease]
        BY <1>1, <2>1 DEF DeliveryRow
    <2> QED
        BY <2>1, <2>2, <2>3, <2>4, <2>5 DEF CallOK
<1> QED
    BY <1>2, <1>3

LEMMA OneCallerStep ==
    ASSUME AttemptInv, TypeInv', CallsStep
    PROVE  OneCallerPerAttempt'
<1> SUFFICES ASSUME NEW p \in Procs, NEW q \in Procs,
                    NEW c \in calls'[p], NEW k \in calls'[q],
                    c.id = k.id, c.row.attempt = k.row.attempt
             PROVE  p = q /\ c = k
    BY DEF OneCallerPerAttempt
<1>1. ASSUME NEW x \in Procs, NEW y \in Procs,
             NEW new \in calls'[x] \ calls[x], NEW old \in calls[y],
             new.id = old.id
      PROVE  new.row.attempt # old.row.attempt
    <2>1. /\ new.id \in DOMAIN deliveries
          /\ new.row.attempt = deliveries[new.id].attempt + 1
        <3>1. PICK t \in Nat : /\ new.id \in DOMAIN deliveries
                               /\ new.row = Started(deliveries[new.id], t)
            BY DEF CallsStep
        <3> QED
            BY <3>1 DEF Started, AttemptInv, TypeInv, TypeOK, DeliveryRow
    <2>2. old.row.attempt <= deliveries[old.id].attempt
        BY <1>1, <2>1 DEF AttemptInv, CallsOK, CallOK
    <2>3. old.row \in DeliveryRow /\ deliveries[old.id] \in DeliveryRow
        BY <1>1, <2>1 DEF AttemptInv, TypeInv, TypeOK, Call
    <2>4. old.row.attempt \in Nat /\ deliveries[old.id].attempt \in Nat
        BY <2>3 DEF DeliveryRow
    <2> QED
        BY <1>1, <2>1, <2>2, <2>4
<1>2. CASE c \in calls[p] /\ k \in calls[q]
    BY <1>2 DEF AttemptInv, OneCallerPerAttempt
<1>3. CASE c \in calls[p] /\ k \notin calls[q]
    BY <1>1, <1>3
<1>4. CASE c \notin calls[p] /\ k \in calls[q]
    BY <1>1, <1>4
<1>5. CASE c \notin calls[p] /\ k \notin calls[q]
    <2>1. p = q
        BY <1>5 DEF CallsStep
    <2>2. c.row = deliveries'[c.id] /\ k.row = deliveries'[k.id]
        BY <1>5 DEF CallsStep
    <2>3. c \in Call /\ k \in Call
        BY DEF TypeInv, TypeOK
    <2>4. c = k
        BY <2>2, <2>3 DEF Call
    <2> QED
        BY <2>1, <2>4
<1> QED
    BY <1>2, <1>3, <1>4, <1>5

LEMMA AttemptInit == Init => AttemptInv
<1> SUFFICES ASSUME Init PROVE AttemptInv
    OBVIOUS
<1>1. TypeInv
    BY TypeInvInit
<1>2. DOMAIN deliveries = {} /\ \A p \in Procs : calls[p] = {}
    BY DEF Init
<1> QED
    BY <1>1, <1>2 DEF AttemptInv, RowsOK, CallsOK, OneCallerPerAttempt

LEMMA AttemptStep == AttemptInv /\ [Next]_vars => AttemptInv'
<1> SUFFICES ASSUME AttemptInv, [Next]_vars PROVE AttemptInv'
    OBVIOUS
<1>1. TypeInv'
    BY TypeInvStep DEF AttemptInv
<1>2. TableStep /\ CallsStep
    BY StepEffect DEF AttemptInv
<1>3. RowsOK'
    BY <1>2, RowsStep DEF AttemptInv
<1> QED
    BY <1>1, <1>2, <1>3, CallsOKStep, OneCallerStep DEF AttemptInv

\* The inductive invariant of rows and calls.
THEOREM AttemptInvariant == Spec => []AttemptInv
<1>1. Init => AttemptInv
    BY AttemptInit
<1>2. AttemptInv /\ [Next]_vars => AttemptInv'
    BY AttemptStep
<1> QED
    BY <1>1, <1>2, PTL DEF Spec

\* No attempt is called twice at the same time, and the id of a deleted
\* delivery does not come back to a call in flight.
THEOREM OneCaller == Spec => []OneCallerPerAttempt
<1>1. AttemptInv => OneCallerPerAttempt
    BY DEF AttemptInv
<1> QED
    BY <1>1, AttemptInvariant, PTL

\* Every attempt is in the log once and in order, however late an answer comes.
THEOREM AttemptsAreLogged == Spec => []AttemptsLogged
<1>1. AttemptInv => AttemptsLogged
    BY DEF AttemptInv, RowsOK, RowOK, Ended, AttemptsLogged
<1> QED
    BY <1>1, AttemptInvariant, PTL

\* A queued delivery has a due time, and only a queued one has, whatever retry
\* schedules the processes use.
THEOREM QueuedAreScheduled == Spec => []QueuedIsScheduled
<1>1. AttemptInv => QueuedIsScheduled
    BY DEF AttemptInv, RowsOK, RowOK, QueuedIsScheduled
<1> QED
    BY <1>1, AttemptInvariant, PTL

\* No delivery is attempted beyond its maximum, whatever retry schedules the
\* processes use.
THEOREM AttemptsAreBounded == Spec => []AttemptsBounded
<1>1. AttemptInv => AttemptsBounded
    BY DEF AttemptInv, RowsOK, RowOK, AttemptsBounded
<1> QED
    BY <1>1, AttemptInvariant, PTL

-----------------------------------------------------------------------------
(***************************************************************************)
(* Settled rows, retention.                                                *)
(***************************************************************************)

\* A settled row does not change any more.
THEOREM SettledStays == Spec => TerminalForever
<1>1. AttemptInv /\ [Next]_vars =>
         [\A d \in DOMAIN deliveries :
             /\ deliveries[d].status \in Terminal
             /\ d \in DOMAIN deliveries'
             => deliveries'[d] = deliveries[d]]_vars
    <2> SUFFICES ASSUME AttemptInv, [Next]_vars,
                        NEW d \in DOMAIN deliveries,
                        deliveries[d].status \in Terminal,
                        d \in DOMAIN deliveries'
                 PROVE  deliveries'[d] = deliveries[d]
        OBVIOUS
    <2>1. RowStep(d)
        BY StepEffect DEF AttemptInv, TableStep
    <2> QED
        BY <2>1, RowProgress DEF AttemptInv
<1> QED
    BY <1>1, AttemptInvariant, PTL DEF Spec, TerminalForever

\* A live delivery disappears only with its subscription.
THEOREM LiveSurvives == Spec => LiveSurvivesPurge
<1>1. AttemptInv /\ [Next]_vars =>
         [\A d \in DOMAIN deliveries :
             /\ deliveries[d].status \in Live
             /\ d \notin DOMAIN deliveries'
             => subs'[deliveries[d].sub].status = "deleted"]_vars
    <2> SUFFICES ASSUME AttemptInv, [Next]_vars,
                        NEW d \in DOMAIN deliveries,
                        deliveries[d].status \in Live,
                        d \notin DOMAIN deliveries'
                 PROVE  subs'[deliveries[d].sub].status = "deleted"
        OBVIOUS
    <2>1. TableStep
        BY StepEffect DEF AttemptInv
    <2> QED
        BY <2>1 DEF TableStep, Live, Queued, Terminal
<1> QED
    BY <1>1, AttemptInvariant, PTL DEF Spec, LiveSurvivesPurge

\* A sweep that reads the clock at t leaves no row that had expired then: every
\* running row has an owner, so finish matches each row reclaimExpired finds.
LEMMA SweepSettles ==
    ASSUME AttemptInv, NEW p \in Procs, NEW passAt, NEW t \in Readings,
           NEW sch \in Schedules, Sweep(p, passAt, t, sch)
    PROVE  Expired(deliveries', now - LockWaitMs) = {}
<1> DEFINE result(d) == Decide(deliveries[d], "retryable", t, sch)
           settled == {d \in Expired(deliveries, t) :
                          Holds(deliveries[d], deliveries[d].owner)}
<1> SUFFICES ASSUME NEW d \in Expired(deliveries', now - LockWaitMs)
             PROVE  FALSE
    OBVIOUS
<1>1. deliveries' = [x \in DOMAIN deliveries |->
          IF x \in settled THEN Finished(deliveries[x], result(x))
          ELSE deliveries[x]]
    BY DEF Sweep
<1>2. /\ d \in DOMAIN deliveries /\ deliveries'[d].status = "running"
      /\ deliveries'[d].lease = NULL \/ deliveries'[d].lease < now - LockWaitMs
    BY <1>1 DEF Expired
<1>3. deliveries[d] \in DeliveryRow /\ RowOK(deliveries[d])
    BY <1>2 DEF AttemptInv, TypeInv, TypeOK, RowsOK
<1>4. d \notin settled
    <2>1. Finished(deliveries[d], result(d)).status # "running"
        BY <1>3 DEF Finished, Decide, DeliveryRow
    <2> HIDE DEF settled, result
    <2> QED
        BY <1>1, <1>2, <2>1
<1>5. deliveries'[d] = deliveries[d]
    BY <1>1, <1>2, <1>4
<1>6. /\ now \in Nat /\ LockWaitMs \in Nat /\ t \in Nat /\ now - LockWaitMs <= t
    BY ReadingsType, BoundsAssumption DEF Readings, AttemptInv, TypeInv, TypeOK
<1>7. deliveries[d].lease = NULL \/ deliveries[d].lease < t
    BY <1>2, <1>3, <1>5, <1>6 DEF DeliveryRow, NatOrNull
<1>8. d \in Expired(deliveries, t)
    BY <1>2, <1>5, <1>7 DEF Expired
<1>9. Holds(deliveries[d], deliveries[d].owner)
    BY <1>2, <1>3, <1>5, NullAssumption DEF Holds, RowOK, DeliveryRow
<1> QED
    BY <1>4, <1>8, <1>9

\* On a database without rows that predate leases, the sweeps of passes and of
\* starting workers leave no row whose lease has run out.
THEOREM SweepsSettle == Spec => SweepLeavesNoneExpired
<1>1. AttemptInv /\ [Next]_vars =>
         [\A p \in Procs :
             BeginPass(p) \/ (Works(p) /\ Start(p))
             => Expired(deliveries', now - LockWaitMs) = {}]_vars
    <2> SUFFICES ASSUME AttemptInv, NEW p \in Procs,
                        BeginPass(p) \/ (Works(p) /\ Start(p))
                 PROVE  Expired(deliveries', now - LockWaitMs) = {}
        OBVIOUS
    <2>1. \E passAt : \E t \in Readings : \E sch \in Schedules :
             Sweep(p, passAt, t, sch)
        BY DEF BeginPass, Start, AttemptInv, TypeInv, TypeOK
    <2> QED
        BY <2>1, SweepSettles
<1> QED
    BY <1>1, AttemptInvariant, PTL DEF Spec, SweepLeavesNoneExpired

-----------------------------------------------------------------------------
(***************************************************************************)
(* Leases.                                                                 *)
(***************************************************************************)
\* A running row stops running, if it is not deleted, in a sweep or when its
\* call ends.
LEMMA Settling ==
    ASSUME TypeInv, [Next]_vars,
           NEW d \in DOMAIN deliveries \cap DOMAIN deliveries',
           deliveries[d].status = "running", deliveries'[d].status # "running"
    PROVE  \/ \E p \in Procs, t \in Readings : \E passAt, sch :
                 Sweep(p, passAt, t, sch)
           \/ \E p \in Procs : \E c \in calls[p] : \E outcome \in Outcome :
                 c.id = d /\ Finish(p, c, outcome)
<1> USE DEF TypeInv, TypeOK
<1>1. ASSUME NEW p \in Procs, ApiStep(p)
      PROVE  FALSE
    <2>1. CASE \E rows : Insert(rows)
        BY <2>1 DEF Insert
    <2>2. CASE \E s \in Subs : Remove(p, s)
        BY <2>2 DEF Remove
    <2>3. ASSUME NEW x \in DOMAIN deliveries, Cancel(p, x)
          PROVE  FALSE
        BY <2>3 DEF Cancel, Queued
    <2>4. CASE UNCHANGED deliveries
        BY <2>4
    <2>5. \/ \E rows : Insert(rows)
          \/ \E s \in Subs : Remove(p, s)
          \/ \E x \in DOMAIN deliveries : Cancel(p, x)
          \/ UNCHANGED deliveries
        BY <1>1 DEF ApiStep, Publish, Test, Replay, Redeliver, Create,
                    UpdateRead, UpdateWrite, db
    <2> QED
        BY <2>1, <2>2, <2>3, <2>4, <2>5
<1>2. ASSUME NEW p \in Procs, Start(p) \/ BeginPass(p)
      PROVE  \E t \in Readings : \E passAt, sch : Sweep(p, passAt, t, sch)
    <2>1. CASE Start(p) /\ ~Works(p)
        BY <2>1 DEF Start, db
    <2> QED
        BY <1>2, <2>1 DEF Start, BeginPass
<1>3. ASSUME NEW p \in Procs, Continue(p)
      PROVE  FALSE
    <2>1. CASE Purge(p)
        BY <2>1 DEF Purge
    <2>2. CASE Claim(p)
        <3>1. PICK due \in SUBSET DOMAIN deliveries :
                 deliveries' = [x \in DOMAIN deliveries |->
                     IF x \in due THEN Started(deliveries[x], at[p])
                     ELSE deliveries[x]]
            BY <2>2 DEF Claim, Due, Eligible, Candidates
        <3>2. Started(deliveries[d], at[p]).status = "running"
            BY DEF Started, DeliveryRow
        <3> QED
            BY <3>1, <3>2
    <2>3. CASE UNCHANGED deliveries
        BY <2>3
    <2> QED
        BY <1>3, <2>1, <2>2, <2>3 DEF Continue, ApplyNull, ReadSub,
           RecordOutcome, Reread, RereadGone, Throws, db
<1>4. ASSUME NEW p \in Procs, NEW c \in calls[p], Heartbeat(p, c)
      PROVE  FALSE
    BY <1>4 DEF Heartbeat, Renewed, DeliveryRow
<1>5. ASSUME NEW p \in Procs, NEW c \in calls[p], NEW outcome \in Outcome,
             Finish(p, c, outcome)
      PROVE  c.id = d
    BY <1>5 DEF Finish
<1>6. ~UNCHANGED deliveries
    OBVIOUS
<1>7. ASSUME NEW p \in Procs, FailureStep(p)
      PROVE  FALSE
    BY <1>6, <1>7 DEF FailureStep, DatabaseError, Throws, Crash, Exit, Down,
                      FinishError, StopClaiming, db
<1>8. ASSUME NEW p \in Procs, NEW c \in calls[p], Discard(p, c)
      PROVE  FALSE
    BY <1>6, <1>8 DEF Discard, db
<1>9. ~Tick /\ ~UNCHANGED vars
    BY <1>6 DEF Tick, vars, db
<1> QED
    BY <1>1, <1>2, <1>3, <1>4, <1>5, <1>7, <1>8, <1>9
       DEF Next, ProcessStep, WorkerStep, CallEnds

\* A live lease protects its row: whoever sweeps, with a clock reading as old as
\* it likes, and whoever answers late, only the call that holds the token of the
\* present attempt can settle it.
THEOREM LeasesProtect == Spec => LeaseProtects
<1>1. ASSUME TypeInv, [Next]_vars,
             NEW d \in DOMAIN deliveries \cap DOMAIN deliveries',
             deliveries[d].status = "running", deliveries[d].lease # NULL,
             now <= deliveries[d].lease, deliveries'[d].status # "running"
      PROVE  \E p \in Procs : \E c \in calls[p] \ calls'[p] :
                c.id = d /\ c.row.owner = deliveries[d].owner
    <2>1. ASSUME NEW p \in Procs, NEW t \in Readings, NEW passAt, NEW sch,
                 Sweep(p, passAt, t, sch)
          PROVE  FALSE
        <3>1. d \in Expired(deliveries, t)
            BY <1>1, <2>1 DEF Sweep
        <3>2. deliveries[d].lease \in Nat
            BY <1>1 DEF TypeInv, TypeOK, DeliveryRow, NatOrNull
        <3>3. deliveries[d].lease < t
            BY <1>1, <3>1 DEF Expired
        <3>4. now \in Nat /\ t \in Nat /\ t <= now
            BY <1>1 DEF TypeInv, TypeOK, Readings
        <3> QED
            BY <1>1, <3>2, <3>3, <3>4
    <2>2. ASSUME NEW p \in Procs, NEW c \in calls[p], NEW outcome \in Outcome,
                 c.id = d, Finish(p, c, outcome)
          PROVE  /\ c \in calls[p] \ calls'[p]
                 /\ c.row.owner = deliveries[d].owner
        <3>1. calls' = [calls EXCEPT ![p] = @ \ {c}] /\ OwnsRow(c)
            BY <2>2 DEF Finish
        <3>2. c.row.owner = deliveries[d].owner
            BY <2>2, <3>1 DEF OwnsRow, Holds
        <3>3. c \notin calls'[p]
            BY <1>1, <3>1 DEF TypeInv, TypeOK
        <3> QED
            BY <3>2, <3>3
    <2> QED
        BY <1>1, <2>1, <2>2, Settling
<1>2. TypeInv /\ [Next]_vars =>
         [\A d \in DOMAIN deliveries \cap DOMAIN deliveries' :
             /\ deliveries[d].status = "running" /\ deliveries[d].lease # NULL
             /\ now <= deliveries[d].lease
             /\ deliveries'[d].status # "running"
             => \E p \in Procs : \E c \in calls[p] \ calls'[p] :
                   c.id = d /\ c.row.owner = deliveries[d].owner]_vars
    BY <1>1
<1> QED
    BY <1>2, TypeInvariant, PTL DEF Spec, LeaseProtects

-----------------------------------------------------------------------------
(***************************************************************************)
(* Rows without an owner.  Processes start on any database, in particular  *)
(* on one a version without leases left.  A row without an owner is never  *)
(* made and never changed, and a worker that recovers finds one in its     *)
(* list of outcomes, so that its recovery ends with an exception.          *)
(***************************************************************************)
Unowned == {d \in DOMAIN deliveries : /\ deliveries[d].status = "running"
                                      /\ deliveries[d].owner = NULL}

UnownedHasNoLease == \A d \in Unowned : deliveries[d].lease = NULL

AllDown ==
    \A p \in Procs :
        /\ stage[p] = "down" /\ calls[p] = {}
        /\ at[p] = NULL /\ maint[p] = NULL

AnyDatabase == TypeOK /\ AllDown /\ UnownedHasNoLease

\* The i-th outcome p has still to apply is that of a row it could not finish.
NullFrom(p, first) == \E i \in first..Len(todo[p]) : todo[p][i] = NULL

Blocked(p) ==
    /\ calls[p] = {}
    /\ ~Works(p) => stage[p] \in {"down", "idle", "patch"}
    /\ Works(p) => /\ maint[p] = NULL /\ at[p] = NULL
                   /\ \/ stage[p] = "down"
                      \/ stage[p] = "apply" /\ NullFrom(p, 1)
                      \/ stage[p] = "record" /\ NullFrom(p, 2)

UnownedInv ==
    /\ TypeInv /\ UnownedHasNoLease
    /\ Unowned # {} => \A p \in Procs : Blocked(p)

LEMMA UnownedInit == AnyDatabase => UnownedInv
BY DEF AnyDatabase, AllDown, UnownedInv, TypeInv, StageOK, Blocked

\* No step makes a row without an owner or touches one it leaves so.
LEMMA UnownedStep ==
    ASSUME TypeInv, [Next]_vars, NEW d \in Unowned'
    PROVE  d \in Unowned /\ deliveries'[d] = deliveries[d]
<1>1. /\ d \in DOMAIN deliveries'
      /\ deliveries'[d].status = "running" /\ deliveries'[d].owner = NULL
    BY DEF Unowned
<1>2. ASSUME d \in DOMAIN deliveries, deliveries'[d] = deliveries[d]
      PROVE  d \in Unowned /\ deliveries'[d] = deliveries[d]
    BY <1>1, <1>2 DEF Unowned
<1>3. ASSUME NEW p \in Procs, NEW c \in calls[p], NEW outcome \in Outcome,
             Finish(p, c, outcome)
      PROVE  d \in DOMAIN deliveries /\ deliveries'[d] = deliveries[d]
    <2>1. PICK t \in Readings :
             deliveries' = [deliveries EXCEPT ![c.id] =
                 Finished(deliveries[c.id],
                          Decide(c.row, outcome, t, schedule[p]))]
        BY <1>3 DEF Finish
    <2>2. c.id \in DOMAIN deliveries /\ deliveries[c.id] \in DeliveryRow
        BY <1>3 DEF Finish, OwnsRow, TypeInv, TypeOK
    <2>3. Finished(deliveries[c.id],
                   Decide(c.row, outcome, t, schedule[p])).status # "running"
        BY <2>2 DEF Finished, Decide, DeliveryRow
    <2> HIDE DEF Finished, Decide
    <2> QED
        BY <1>1, <2>1, <2>2, <2>3 DEF TypeInv, TypeOK
<1>4. CASE ~CallFinishes
    <2>1. TableStep
        BY <1>4, StepEffect
    <2>2. d \in DOMAIN deliveries
        <3>1. d \notin DOMAIN deliveries => deliveries'[d] \in Fresh
            BY <1>1, <2>1 DEF TableStep
        <3>2. \A row \in Fresh : row.status # "running"
            BY DEF Fresh, NewRow
        <3> QED
            BY <1>1, <3>1, <3>2
    <2>3. deliveries[d] \in DeliveryRow /\ RowStep(d)
        BY <1>1, <2>1, <2>2 DEF TableStep, TypeInv, TypeOK
    <2>4. ASSUME NEW t PROVE Started(deliveries[d], t).owner # NULL
        BY <2>3, NullAssumption DEF Started, DeliveryRow
    <2>5. ASSUME NEW outcome, NEW t, NEW sch
          PROVE  Finished(deliveries[d],
                          Decide(deliveries[d], outcome, t, sch)).status
                     # "running"
        BY <2>3 DEF Finished, Decide, DeliveryRow
    <2>6. Cancelled(deliveries[d]).status # "running"
        BY <2>3 DEF Cancelled, DeliveryRow
    <2>7. ASSUME NEW t PROVE Renewed(deliveries[d], t).owner = deliveries[d].owner
        BY <2>3 DEF Renewed, DeliveryRow
    <2>8. ASSUME NEW q \in Procs, deliveries'[d] = Started(deliveries[d], at[q])
          PROVE  FALSE
        BY <1>1, <2>4, <2>8
    <2>9. ASSUME NEW t \in Nat, deliveries[d].owner # NULL,
                 deliveries'[d] = Renewed(deliveries[d], t)
          PROVE  FALSE
        BY <1>1, <2>7, <2>9
    <2>10. ASSUME NEW outcome \in Outcome, NEW t \in Nat, NEW sch \in Schedules,
                  deliveries'[d] = Finished(deliveries[d],
                                       Decide(deliveries[d], outcome, t, sch))
           PROVE  FALSE
        BY <1>1, <2>5, <2>10
    <2>11. deliveries'[d] # Cancelled(deliveries[d])
        BY <1>1, <2>6
    <2>12. deliveries'[d] = deliveries[d]
        <3> SUFFICES ASSUME deliveries'[d] # deliveries[d] PROVE FALSE
            OBVIOUS
        <3>1. CASE \E q \in Procs : deliveries'[d] = Started(deliveries[d], at[q])
            BY <2>8, <3>1
        <3>2. CASE \E t \in Nat : /\ deliveries[d].owner # NULL
                                  /\ deliveries'[d] = Renewed(deliveries[d], t)
            BY <2>9, <3>2
        <3>3. CASE \E outcome \in Outcome, t \in Nat, sch \in Schedules :
                      deliveries'[d] = Finished(deliveries[d],
                                          Decide(deliveries[d], outcome, t, sch))
            BY <2>10, <3>3
        <3> QED
            BY <2>3, <2>11, <3>1, <3>2, <3>3, Zenon DEF RowStep
    <2> QED
        BY <1>2, <2>2, <2>12
<1> QED
    BY <1>2, <1>3, <1>4 DEF CallFinishes, Unowned

\* A worker that starts cannot finish the row, and has to apply its outcome.
LEMMA StartBlocked ==
    ASSUME TypeInv, UnownedHasNoLease, Unowned # {},
           NEW p \in Procs, Blocked(p), Start(p)
    PROVE  Blocked(p)'
<1>1. CASE ~Works(p)
    BY <1>1 DEF Start, Blocked, Works, TypeInv, TypeOK
<1>2. CASE Works(p)
    <2>1. PICK sch \in Schedules, t \in Readings : Sweep(p, NULL, t, sch)
        BY <1>2 DEF Start
    <2> DEFINE result(d) == Decide(deliveries[d], "retryable", t, sch)
               expired == Expired(deliveries, t)
               settled == {d \in expired :
                              Holds(deliveries[d], deliveries[d].owner)}
               unapplied == {d \in expired :
                                d \in settled => result(d).status # "retrying"}
               n == Cardinality(unapplied)
    <2>2. PICK order \in Listed(unapplied) :
             LET rest == [i \in 1..n |->
                             IF order[i] \in settled
                             THEN [id |-> order[i],
                                   sub |-> deliveries[order[i]].sub,
                                   status |-> result(order[i]).status]
                             ELSE NULL]
             IN  /\ todo' = [todo EXCEPT ![p] = rest]
                 /\ stage' = [stage EXCEPT ![p] = Following(rest, NULL, maint[p])]
                 /\ maint' = IF rest = << >> /\ maint[p] = NULL
                             THEN [maint EXCEPT ![p] = now] ELSE maint
        BY <2>1 DEF Sweep
    <2> DEFINE rest == [i \in 1..n |->
                           IF order[i] \in settled
                           THEN [id |-> order[i],
                                 sub |-> deliveries[order[i]].sub,
                                 status |-> result(order[i]).status]
                           ELSE NULL]
    <2>3. PICK d : d \in Unowned
        OBVIOUS
    <2>4. d \in unapplied /\ d \notin settled
        BY <2>3 DEF Unowned, UnownedHasNoLease, Expired, Holds
    <2>5. IsFiniteSet(unapplied)
        <3>1. unapplied \subseteq 1..lastId /\ lastId \in Nat
            BY DEF Expired, TypeInv, TypeOK
        <3>2. IsFiniteSet(1..lastId)
            BY <3>1, FS_Interval
        <3> HIDE DEF unapplied
        <3> QED
            BY <3>1, <3>2, FS_Subset
    <2>6. n \in Nat
        BY <2>5, FS_CardinalityType
    <2> HIDE DEF settled, unapplied
    <2>7. PICK i \in 1..n : order[i] = d
        BY <2>2, <2>4 DEF Listed, Bijection, Surjection
    <2> HIDE DEF n
    <2>8. rest[i] = NULL /\ Len(rest) = n /\ rest # << >>
        BY <2>4, <2>6, <2>7
    <2>9. /\ todo' = [todo EXCEPT ![p] = rest]
          /\ stage' = [stage EXCEPT ![p] = Following(rest, NULL, maint[p])]
          /\ maint' = IF rest = << >> /\ maint[p] = NULL
                      THEN [maint EXCEPT ![p] = now] ELSE maint
        BY <2>2 DEF n
    <2> HIDE DEF rest
    <2>10. todo'[p] = rest /\ stage'[p] = "apply" /\ UNCHANGED maint
        BY <2>8, <2>9 DEF Following, TypeInv, TypeOK
    <2>11. at'[p] = NULL /\ UNCHANGED calls
        BY <2>1 DEF Sweep, TypeInv, TypeOK
    <2>12. NullFrom(p, 1)'
        BY <2>6, <2>8, <2>10 DEF NullFrom
    <2> QED
        BY <1>2, <2>10, <2>11, <2>12 DEF Blocked, Works
<1> QED
    BY <1>1, <1>2

\* One outcome after the other is applied, but that of the row remains.
LEMMA AppliedBlocked ==
    ASSUME TypeInv, NEW p \in Procs, Works(p), Blocked(p), Applied(p),
           NullFrom(p, 2), UNCHANGED <<at, calls>>
    PROVE  Blocked(p)'
<1> DEFINE rest == Tail(todo[p])
<1>1. todo[p] \in Seq(Settled \cup {NULL})
    BY DEF TypeInv, TypeOK
<1>2. PICK i \in 2..Len(todo[p]) : todo[p][i] = NULL
    BY DEF NullFrom
<1>3. /\ i - 1 \in 1..Len(rest) /\ rest[i - 1] = NULL
      /\ rest # << >>
    <2>1. i \in Nat /\ i >= 2 /\ Len(todo[p]) \in Nat /\ i <= Len(todo[p])
        BY <1>1, <1>2
    <2>2. todo[p] # << >>
        BY <1>1, <2>1
    <2>3. Len(rest) = Len(todo[p]) - 1
        BY <1>1, <2>2
    <2>4. i - 1 \in 1..Len(rest)
        BY <2>1, <2>3
    <2>5. rest[i - 1] = todo[p][i]
        <3>1. \A j \in 1..Len(rest) : rest[j] = todo[p][j + 1]
            BY <1>1, <2>2
        <3>2. rest[i - 1] = todo[p][(i - 1) + 1]
            BY <2>4, <3>1
        <3> QED
            BY <2>1, <3>2
    <2> HIDE DEF rest
    <2>6. Len(rest) # 0
        BY <2>1, <2>4
    <2>7. rest # << >>
        BY <2>6
    <2> QED
        BY <1>2, <2>4, <2>5, <2>7
<1> HIDE DEF rest
<1>4. /\ todo'[p] = rest
      /\ stage'[p] = Following(rest, at[p], maint[p])
      /\ UNCHANGED maint
    BY <1>3 DEF Applied, TypeInv, TypeOK, rest
<1>5. stage'[p] = "apply" /\ NullFrom(p, 1)'
    BY <1>3, <1>4 DEF Following, NullFrom
<1> QED
    BY <1>4, <1>5 DEF Blocked, Works

LEMMA ContinueBlocked ==
    ASSUME TypeInv, NEW p \in Procs, Blocked(p), Continue(p) \/ DatabaseError(p)
    PROVE  Blocked(p)'
<1>1. Works(p) /\ maint[p] = NULL /\ at[p] = NULL /\ calls[p] = {}
    BY DEF Blocked, Continue, ApplyNull, ReadSub, RecordOutcome, Purge, Claim,
           Reread, RereadGone, DatabaseError
<1>2. \/ stage[p] = "apply" /\ NullFrom(p, 1)
      \/ stage[p] = "record" /\ NullFrom(p, 2)
    BY <1>1 DEF Blocked, Continue, ApplyNull, ReadSub, RecordOutcome, Purge,
                Claim, Reread, RereadGone, DatabaseError
<1>3. CASE Throws(p)
    <2>1. /\ stage'[p] = "down" /\ at'[p] = NULL
          /\ UNCHANGED <<maint, calls>>
        BY <1>1, <1>2, <1>3 DEF Throws, TypeInv, TypeOK
    <2> QED
        BY <1>1, <2>1 DEF Blocked, Works
<1>4. CASE ReadSub(p)
    <2>1. NullFrom(p, 2)
        <3>1. /\ stage[p] = "apply" /\ Head(todo[p]) # NULL
              /\ todo[p] \in Seq(Settled \cup {NULL})
            BY <1>4 DEF ReadSub, TypeInv, TypeOK
        <3>2. PICK i \in 1..Len(todo[p]) : todo[p][i] = NULL
            BY <1>2, <3>1 DEF NullFrom
        <3>3. i # 1
            BY <3>1, <3>2
        <3> QED
            BY <3>1, <3>2, <3>3 DEF NullFrom
    <2>2. UNCHANGED <<at, calls>>
        BY <1>4 DEF ReadSub
    <2>3. CASE Applied(p)
        BY <1>1, <2>1, <2>2, <2>3, AppliedBlocked
    <2>4. CASE ~Applied(p)
        <3>1. stage'[p] = "record" /\ UNCHANGED <<todo, maint>>
            BY <1>4, <2>4 DEF ReadSub, TypeInv, TypeOK
        <3>2. NullFrom(p, 2)'
            BY <2>1, <3>1 DEF NullFrom
        <3> QED
            BY <1>1, <2>2, <3>1, <3>2 DEF Blocked, Works
    <2> QED
        BY <2>3, <2>4
<1>5. CASE RecordOutcome(p)
    <2>1. NullFrom(p, 2) /\ Applied(p) /\ UNCHANGED <<at, calls>>
        BY <1>2, <1>5 DEF RecordOutcome
    <2> QED
        BY <1>1, <2>1, AppliedBlocked
<1> QED
    BY <1>2, <1>3, <1>4, <1>5 DEF Continue, ApplyNull, Purge, Claim, Reread,
                                  RereadGone, DatabaseError

\* A step of p moves no other process.
LEMMA OthersBlocked ==
    ASSUME TypeInv, NEW p \in Procs, ApiStep(p) \/ WorkerStep(p) \/ FailureStep(p),
           NEW q \in Procs, q # p, Blocked(q)
    PROVE  Blocked(q)'
<1>1. /\ stage'[q] = stage[q] /\ at'[q] = at[q] /\ todo'[q] = todo[q]
      /\ calls'[q] = calls[q] /\ maint'[q] = maint[q]
    <2>1. CASE ApiStep(p)
        BY <2>1 DEF ApiStep, Publish, Test, Replay, Redeliver, Cancel, Create,
                    Remove, UpdateRead, UpdateWrite, step, life, TypeInv, TypeOK
    <2>2. CASE Start(p) \/ BeginPass(p)
        <3>1. CASE \E sch, passAt, t : Sweep(p, passAt, t, sch)
            <4>1. PICK sch, passAt, t : Sweep(p, passAt, t, sch)
                BY <3>1
            <4>2. PICK rest :
                     /\ todo' = [todo EXCEPT ![p] = rest]
                     /\ stage' = [stage EXCEPT ![p] =
                                     Following(rest, passAt, maint[p])]
                     /\ maint' = IF rest = << >> /\ maint[p] = NULL
                                 THEN [maint EXCEPT ![p] = now] ELSE maint
                BY <4>1 DEF Sweep
            <4>3. at' = [at EXCEPT ![p] = passAt] /\ UNCHANGED calls
                BY <4>1 DEF Sweep
            <4> QED
                BY <4>2, <4>3 DEF TypeInv, TypeOK
        <3>2. CASE Start(p) /\ ~Works(p)
            BY <3>2 DEF Start, TypeInv, TypeOK
        <3> QED
            BY <2>2, <3>1, <3>2 DEF Start, BeginPass
    <2>3. CASE Continue(p) \/ DatabaseError(p)
        BY <2>3 DEF Continue, ApplyNull, ReadSub, RecordOutcome, Purge, Claim,
                    Reread, RereadGone, DatabaseError, Applied, Throws, life,
                    TypeInv, TypeOK
    <2>4. CASE CallEnds(p) \/ \E c \in calls[p] : Heartbeat(p, c) \/ FinishError(p, c)
        BY <2>4 DEF CallEnds, Discard, Finish, Heartbeat, FinishError, step, life,
                    TypeInv, TypeOK
    <2>5. CASE Crash(p) \/ StopClaiming(p) \/ Exit(p)
        BY <2>5 DEF Crash, StopClaiming, Exit, Down, step, TypeInv, TypeOK
    <2> QED
        BY <2>1, <2>2, <2>3, <2>4, <2>5 DEF WorkerStep, FailureStep
<1> QED
    BY <1>1 DEF Blocked, Works, NullFrom

LEMMA ProcessBlocked ==
    ASSUME TypeInv, UnownedHasNoLease, Unowned # {}, NEW p \in Procs, Blocked(p),
           ApiStep(p) \/ WorkerStep(p) \/ FailureStep(p)
    PROVE  Blocked(p)'
<1>1. CASE ApiStep(p)
    <2>1. ~Works(p)
        BY <1>1 DEF ApiStep, Publish, Test, Replay, Redeliver, Cancel, Create,
                    Remove, UpdateRead, UpdateWrite, Serves, Idle, Blocked
    <2>2. stage'[p] \in {stage[p], "idle", "patch"} /\ UNCHANGED calls
        BY <1>1 DEF ApiStep, Publish, Test, Replay, Redeliver, Cancel, Create,
                    Remove, UpdateRead, UpdateWrite, step, TypeInv, TypeOK
    <2> QED
        BY <2>1, <2>2 DEF Blocked, Works
<1>2. CASE Start(p)
    BY <1>2, StartBlocked
<1>3. CASE Continue(p) \/ DatabaseError(p)
    BY <1>3, ContinueBlocked
<1>4. CASE Crash(p) \/ Exit(p)
    BY <1>4 DEF Crash, Exit, Down, Blocked, Works, TypeInv, TypeOK
<1>5. CASE StopClaiming(p)
    BY <1>5 DEF StopClaiming, Blocked, Works, NullFrom, step
<1>6. /\ ~BeginPass(p) /\ ~CallEnds(p)
      /\ \A c \in calls[p] : ~Heartbeat(p, c) /\ ~FinishError(p, c)
    BY DEF Blocked, BeginPass, Idle, CallEnds
<1> QED
    BY <1>1, <1>2, <1>3, <1>4, <1>5, <1>6 DEF WorkerStep, FailureStep

LEMMA UnownedInvStep == UnownedInv /\ [Next]_vars => UnownedInv'
<1> SUFFICES ASSUME UnownedInv, [Next]_vars PROVE UnownedInv'
    OBVIOUS
<1>1. TypeInv /\ TypeInv'
    BY TypeInvStep DEF UnownedInv
<1>2. \A d \in Unowned' : d \in Unowned /\ deliveries'[d] = deliveries[d]
    BY <1>1, UnownedStep
<1>3. UnownedHasNoLease'
    BY <1>2 DEF UnownedInv, UnownedHasNoLease
<1>4. ASSUME Unowned' # {}, NEW q \in Procs PROVE Blocked(q)'
    <2>1. Unowned # {} /\ \A p \in Procs : Blocked(p)
        BY <1>2, <1>4 DEF UnownedInv
    <2>2. CASE Tick \/ UNCHANGED vars
        BY <2>1, <2>2 DEF Tick, vars, step, life, Blocked, Works, NullFrom
    <2>3. ASSUME NEW p \in Procs, ApiStep(p) \/ WorkerStep(p) \/ FailureStep(p)
          PROVE  Blocked(q)'
        BY <1>1, <2>1, <2>3, OthersBlocked, ProcessBlocked DEF UnownedInv
    <2> QED
        BY <2>2, <2>3 DEF Next, ProcessStep
<1> QED
    BY <1>1, <1>3, <1>4 DEF UnownedInv

\* On any database, a new one as well as one that a version without leases has
\* left, no process makes a call while a running row has no owner: a worker
\* meets it in its recovery and exits.
THEOREM UnownedRowsBlock ==
    AnyDatabase /\ [][Next]_vars => []UnownedRowBlocksWorkers
<1>1. UnownedInv => UnownedRowBlocksWorkers
    BY DEF UnownedInv, Unowned, Blocked, UnownedRowBlocksWorkers
<1> QED
    BY <1>1, UnownedInit, UnownedInvStep, PTL
=============================================================================
