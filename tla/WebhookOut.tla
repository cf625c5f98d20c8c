----------------------------- MODULE WebhookOut -----------------------------
(***************************************************************************)
(* webhook-out as a whole: processes that share one SQLite file.  A        *)
(* process runs the HTTP API, a Worker, or both.  Inside a process the     *)
(* JavaScript between two awaits runs alone, so a process takes the next   *)
(* callback only when it is "idle"; the statements another process runs    *)
(* come between any two statements of this one, and stage says which       *)
(* statement of a worker pass, of the end of a call or of an API handler   *)
(* comes next:                                                             *)
(*                                                                         *)
(*   start:  [sweep] -> (apply -> record)* -> idle                         *)
(*   pass:   [sweep] -> (apply -> record)* -> purge -> claim -> idle       *)
(*   call:   [finish] -> reread -> apply -> record -> idle                 *)
(*   PATCH:  [read] -> patch -> idle                                       *)
(*                                                                         *)
(* now is the clock of the host.  A statement may have to wait for the     *)
(* write lock of SQLite, so the time it writes is a reading that can be    *)
(* up to LockWaitMs old.                                                   *)
(***************************************************************************)
EXTENDS DeliveryStore, Integers, Functions

CONSTANTS
    Procs,          \* operating system processes
    Role,           \* Role[p]: "combined", "api" or "worker"
    Types,          \* event types
    Subscribed,     \* Subscribed[s]: the types the patterns of s match
    OrderedSubs,    \* the subscriptions created with ordered: true
    Patches,        \* Patches[s]: the PATCH bodies operators send for s
    Schedules,      \* the retry schedules processes are configured with
    Concurrency,    \* WORKER_CONCURRENCY
    DisableAfter,   \* DISABLE_AFTER_FAILURES
    MaintenanceMs,  \* Worker.MAINTENANCE_INTERVAL_MS
    RetentionMs,    \* EVENT_RETENTION_DAYS in milliseconds
    LockWaitMs,     \* SQLite's busy_timeout
    InitialSubs,    \* the subscriptions that exist in the initial state
    Ops,            \* the API operations an instance explores
    Faulty,         \* the processes that may crash or meet a database error
    MaxNow,         \* bound on the clock
    MaxDeliveries,  \* bound on the delivery ids handed out
    MaxEvents       \* bound on the event numbers handed out

SubStore == INSTANCE SubscriptionStore

ASSUME RoleAssumption == Role \in [Procs -> {"combined", "api", "worker"}]
ASSUME SubscribedAssumption == Subscribed \in [Subs -> SUBSET Types]
ASSUME PatchesAssumption == Patches \in [Subs -> SUBSET SubStore!PatchBody]
ASSUME ScheduleAssumption ==
    \A sch \in Schedules :
        /\ sch \in Seq(Nat \ {0})
        /\ \A i \in 1..(Len(sch) - 1) : sch[i] <= sch[i + 1]
ASSUME BoundsAssumption ==
    /\ Concurrency \in Nat \ {0} /\ DisableAfter \in Nat \ {0}
    /\ MaintenanceMs \in Nat /\ RetentionMs \in Nat /\ LockWaitMs \in Nat
ASSUME SubsetsAssumption ==
    OrderedSubs \subseteq Subs /\ InitialSubs \subseteq Subs

VARIABLES
    now,
    \* the database
    subs, events, lastSeq, deliveries, lastId,
    \* the synchronous code a process is in the middle of
    stage,     \* the statement it runs next
    at,        \* the time the current worker pass began, NULL outside a pass
    todo,      \* outcomes still to be applied to subscriptions
    seen,      \* the subscription row read and not yet written back
    \* what a process keeps between callbacks
    calls,     \* HTTP calls in flight, with the delivery row as claimed
    claiming,  \* FALSE from the moment a shutdown starts
    schedule,  \* its retry schedule
    maint      \* the time of the last maintenance, NULL until start() is done

db == <<subs, events, lastSeq, deliveries, lastId>>
step == <<stage, at, todo, seen>>
life == <<claiming, schedule, maint>>
vars == <<now, db, step, calls, life>>

Stage == {"down", "idle", "apply", "record", "purge", "claim", "reread", "patch"}
EventRow == [at : Nat, type : Types \cup {NULL}]
Settled == [id : Nat, sub : Subs, status : {"succeeded", "retrying", "failed"}]
Read == [sub : Subs, row : SubStore!SubRow, patch : SubStore!PatchBody]
Call == [id : Nat, row : DeliveryRow]

Idle(p) == stage[p] = "idle"
Works(p) == Role[p] # "api"
Serves(p) == Idle(p) /\ Role[p] # "worker"
Exists(s) == subs[s].status \in SubStore!Present
Readings == {t \in 0..now : now <= t + LockWaitMs}

NewSub(s, status) ==
    [status |-> status, failures |-> 0, ordered |-> s \in OrderedSubs]

Init ==
    /\ now = 0
    /\ subs = [s \in Subs |->
                  NewSub(s, IF s \in InitialSubs THEN "active" ELSE "unborn")]
    /\ events = << >> /\ lastSeq = 0
    /\ deliveries = << >> /\ lastId = 0
    /\ stage = [p \in Procs |-> "down"]
    /\ at = [p \in Procs |-> NULL]
    /\ todo = [p \in Procs |-> << >>]
    /\ seen = [p \in Procs |-> NULL]
    /\ calls = [p \in Procs |-> {}]
    /\ claiming = [p \in Procs |-> TRUE]
    /\ \E sch \in Schedules : schedule = [p \in Procs |-> sch]
    /\ maint = [p \in Procs |-> NULL]

-----------------------------------------------------------------------------
(***************************************************************************)
(* The API.  A handler runs to its end without awaiting; the ones whose    *)
(* statements are in one transaction, or that have only one that writes    *)
(* and is guarded by itself, are one step.                                 *)
(***************************************************************************)

\* Hands out the id after the highest one in the table: no AUTOINCREMENT.
Fault_ReusesIds(rows) ==
    LET last == Cardinality(DOMAIN deliveries)
        new == (last + 1)..(last + Len(rows))
    IN  /\ lastId + Len(rows) <= MaxDeliveries
        /\ DOMAIN deliveries = 1..last
        /\ lastId' = lastId + Len(rows)
        /\ deliveries' = [d \in DOMAIN deliveries \cup new |->
               IF d \in DOMAIN deliveries THEN deliveries[d]
               ELSE rows[d - last]]

\* DeliveryStore.insert for each row of a sequence; ids are AUTOINCREMENT.
Insert(rows) ==
    LET new == (lastId + 1)..(lastId + Len(rows))
    IN  /\ lastId + Len(rows) <= MaxDeliveries
        /\ lastId' = lastId + Len(rows)
        /\ deliveries' = [d \in DOMAIN deliveries \cup new |->
               IF d \in DOMAIN deliveries THEN deliveries[d]
               ELSE rows[d - lastId]]

AddEvent(type) ==
    /\ lastSeq < MaxEvents
    /\ lastSeq' = lastSeq + 1
    /\ events' = [e \in DOMAIN events \cup {lastSeq + 1} |->
           IF e \in DOMAIN events THEN events[e]
           ELSE [at |-> now, type |-> type]]

MaxAttempts(p) == Len(schedule[p]) + 1

Listed(S) == Bijection(1..Cardinality(S), S)

\* EventService.publish: one delivery per active subscription that matches,
\* in whatever order SQLite lists them.
Publish(p, type) ==
    LET targets == {s \in Subs : /\ subs[s].status = "active"
                                 /\ type \in Subscribed[s]}
    IN  /\ "publish" \in Ops /\ Serves(p)
        /\ AddEvent(type)
        /\ \E order \in Listed(targets) :
              Insert([i \in 1..Cardinality(targets) |->
                         NewRow(lastSeq + 1, order[i], MaxAttempts(p), now)])
        /\ UNCHANGED <<now, subs, step, calls, life>>

\* EventService.test: whatever the status of the subscription.
Test(p, s) ==
    /\ "test" \in Ops /\ Serves(p) /\ Exists(s)
    /\ AddEvent(NULL)
    /\ Insert(<<NewRow(lastSeq + 1, s, MaxAttempts(p), now)>>)
    /\ UNCHANGED <<now, subs, step, calls, life>>

\* EventService.replay of a window that holds fewer events than a batch.  Rows
\* are queued in the order of the events.
Replay(p, s, from, to) ==
    LET window == {e \in DOMAIN events : /\ events[e].type \in Subscribed[s]
                                         /\ from <= events[e].at
                                         /\ events[e].at < to}
    IN  /\ "replay" \in Ops /\ Serves(p) /\ Exists(s)
        /\ \E order \in Listed(window) :
              /\ \A i, j \in DOMAIN order : i < j => order[i] < order[j]
              /\ Insert([i \in 1..Cardinality(window) |->
                            NewRow(order[i], s, MaxAttempts(p), now)])
        /\ UNCHANGED <<now, subs, events, lastSeq, step, calls, life>>

\* EventService.redeliver: foreign keys make the insert fail when the event
\* or the subscription is gone.
Redeliver(p, d) ==
    /\ "redeliver" \in Ops /\ Serves(p) /\ d \in DOMAIN deliveries
    /\ \E t \in Readings :
          Insert(<<NewRow(deliveries[d].event, deliveries[d].sub,
                          MaxAttempts(p), t)>>)
    /\ UNCHANGED <<now, subs, events, lastSeq, step, calls, life>>

\* EventService.cancel: only a queued delivery.
Cancel(p, d) ==
    /\ "cancel" \in Ops /\ Serves(p) /\ d \in DOMAIN deliveries
    /\ deliveries[d].status \in Queued
    /\ deliveries' = [deliveries EXCEPT ![d] = Cancelled(deliveries[d])]
    /\ UNCHANGED <<now, subs, events, lastSeq, lastId, step, calls, life>>

\* SubscriptionService.create, active or (enabled: false) paused.
Create(p, s, status) ==
    /\ "create" \in Ops /\ Serves(p) /\ subs[s].status = "unborn"
    /\ subs' = [subs EXCEPT ![s] = NewSub(s, status)]
    /\ UNCHANGED <<now, events, lastSeq, deliveries, lastId, step, calls, life>>

\* SubscriptionService.remove: the foreign key cascades to its deliveries.
Remove(p, s) ==
    LET kept == {d \in DOMAIN deliveries : deliveries[d].sub # s}
    IN  /\ "remove" \in Ops /\ Serves(p) /\ Exists(s)
        /\ subs' = [subs EXCEPT ![s] = NewSub(s, "deleted")]
        /\ deliveries' = [d \in kept |-> deliveries[d]]
        /\ UNCHANGED <<now, events, lastSeq, lastId, step, calls, life>>

\* SubscriptionService.update (and rotate): require() reads the whole row...
UpdateRead(p, s, patch) ==
    /\ Serves(p) /\ Exists(s) /\ patch \in Patches[s]
    /\ seen' = [seen EXCEPT ![p] =
                   [sub |-> s, row |-> subs[s], patch |-> patch]]
    /\ stage' = [stage EXCEPT ![p] = "patch"]
    /\ UNCHANGED <<now, db, at, todo, calls, life>>

\* ... and a second statement, outside any transaction, writes it all back.
UpdateWrite(p) ==
    LET s == seen[p].sub
    IN  /\ stage[p] = "patch"
        /\ subs' = IF Exists(s)
                   THEN [subs EXCEPT ![s] =
                            SubStore!Updated(seen[p].row, seen[p].patch)]
                   ELSE subs
        /\ stage' = [stage EXCEPT ![p] = "idle"]
        /\ seen' = [seen EXCEPT ![p] = NULL]
        /\ UNCHANGED <<now, events, lastSeq, deliveries, lastId, at, todo,
                       calls, life>>

-----------------------------------------------------------------------------
(***************************************************************************)
(* The worker: reclaiming expired leases and applying outcomes.            *)
(***************************************************************************)

\* Where a process goes when the outcomes rest remain to be applied, it is in
\* a pass that began at passAt (or in none) and last did maintenance at last.
Following(rest, passAt, last) ==
    IF rest # << >> THEN "apply"
    ELSE IF passAt = NULL THEN "idle"
    ELSE IF passAt >= last + MaintenanceMs THEN "purge" ELSE "claim"

\* reclaimExpired and its decisions, in one transaction.  The rows it settles
\* for good still have to be applied to their subscriptions; finish() answers
\* null for a row without an owner.  A retry has nothing more to apply.
Sweep(p, passAt, t, sch) ==
    LET result(d) == Decide(deliveries[d], "retryable", t, sch)
        expired == Expired(deliveries, t)
        settled == {d \in expired : Holds(deliveries[d], deliveries[d].owner)}
        unapplied == {d \in expired :
                         d \in settled => result(d).status # "retrying"}
    IN  /\ deliveries' = [d \in DOMAIN deliveries |->
               IF d \in settled THEN Finished(deliveries[d], result(d))
               ELSE deliveries[d]]
        /\ \E order \in Listed(unapplied) :
              LET rest == [i \in 1..Cardinality(unapplied) |->
                              IF order[i] \in settled
                              THEN [id |-> order[i],
                                    sub |-> deliveries[order[i]].sub,
                                    status |-> result(order[i]).status]
                              ELSE NULL]
              IN  /\ todo' = [todo EXCEPT ![p] = rest]
                  /\ stage' = [stage EXCEPT ![p] =
                                  Following(rest, passAt, maint[p])]
                  /\ maint' = IF rest = << >> /\ maint[p] = NULL
                              THEN [maint EXCEPT ![p] = now] ELSE maint
        /\ at' = [at EXCEPT ![p] = passAt]
        /\ UNCHANGED <<now, subs, events, lastSeq, lastId, seen, calls>>

\* Application.start: an API process listens; a worker first recovers.
Start(p) ==
    /\ stage[p] = "down"
    /\ claiming' = [claiming EXCEPT ![p] = TRUE]
    /\ \E sch \in Schedules :
          /\ schedule' = [schedule EXCEPT ![p] = sch]
          /\ IF Works(p)
             THEN \E t \in Readings : Sweep(p, NULL, t, sch)
             ELSE /\ stage' = [stage EXCEPT ![p] = "idle"]
                  /\ UNCHANGED <<now, db, at, todo, seen, calls, maint>>

\* Leaves the expired leases to the next restart.
Fault_NoSweep(p) ==
    /\ Idle(p) /\ Works(p)
    /\ at' = [at EXCEPT ![p] = now]
    /\ stage' = [stage EXCEPT ![p] = "claim"]
    /\ UNCHANGED <<now, db, todo, seen, calls, life>>

\* Worker#pass up to the sweep.  Between the time the pass begins and the one
\* the sweep uses, the statement that records the worker's presence may wait.
BeginPass(p) ==
    /\ Idle(p) /\ Works(p)
    /\ \E t \in Readings : \E passAt \in 0..t :
          t <= passAt + LockWaitMs /\ Sweep(p, passAt, t, schedule[p])
    /\ UNCHANGED <<claiming, schedule>>

\* One outcome of the list is dealt with; the last one ends start()'s recovery.
Applied(p) ==
    LET rest == Tail(todo[p])
    IN  /\ todo' = [todo EXCEPT ![p] = rest]
        /\ stage' = [stage EXCEPT ![p] = Following(rest, at[p], maint[p])]
        /\ maint' = IF rest = << >> /\ maint[p] = NULL
                    THEN [maint EXCEPT ![p] = now] ELSE maint

\* An exception leaves the synchronous code: start() rejects and the process
\* exits, the loop logs a failed pass and goes on, and a call's rejected
\* promise starts a shutdown.  A failed purge is not tried again before the next
\* interval.
Throws(p) ==
    LET starting == maint[p] = NULL
        inPass == at[p] # NULL
    IN  /\ stage' = [stage EXCEPT ![p] = IF starting THEN "down" ELSE "idle"]
        /\ claiming' = IF starting \/ inPass THEN claiming
                       ELSE [claiming EXCEPT ![p] = FALSE]
        /\ at' = [at EXCEPT ![p] = NULL]
        /\ todo' = [todo EXCEPT ![p] = << >>]
        /\ seen' = [seen EXCEPT ![p] = NULL]
        /\ maint' = IF stage[p] = "purge" THEN [maint EXCEPT ![p] = at[p]]
                    ELSE maint
        /\ UNCHANGED <<now, db, calls, schedule>>

\* applyOutcome(null): the row the sweep could not finish.
ApplyNull(p) ==
    /\ stage[p] = "apply" /\ Head(todo[p]) = NULL
    /\ Throws(p)

\* applyOutcome reads the subscription ...
ReadSub(p) ==
    /\ stage[p] = "apply" /\ Head(todo[p]) # NULL
    /\ LET s == Head(todo[p]).sub
       IN  IF Exists(s)
           THEN /\ seen' = [seen EXCEPT ![p] =
                       [sub |-> s, row |-> subs[s],
                        patch |-> SubStore!NoChange]]
                /\ stage' = [stage EXCEPT ![p] = "record"]
                /\ UNCHANGED <<todo, maint>>
           ELSE Applied(p) /\ UNCHANGED seen
    /\ UNCHANGED <<now, db, at, calls, claiming, schedule>>

\* ... and writes it in a second statement, outside any transaction.
RecordOutcome(p) ==
    LET s == seen[p].sub
    IN  /\ stage[p] = "record"
        /\ subs' = IF Exists(s)
                   THEN [subs EXCEPT ![s] =
                            SubStore!Recorded(subs[s], seen[p].row,
                                              Head(todo[p]).status)]
                   ELSE subs
        /\ seen' = [seen EXCEPT ![p] = NULL]
        /\ Applied(p)
        /\ UNCHANGED <<now, events, lastSeq, deliveries, lastId, at, calls,
                       claiming, schedule>>

-----------------------------------------------------------------------------
(***************************************************************************)
(* The worker: maintenance, claiming, calls.                               *)
(***************************************************************************)

\* EventStore.purge: old events without live deliveries, and by cascade the
\* deliveries of those events.
Purge(p) ==
    LET gone == {e \in DOMAIN events : /\ events[e].at + RetentionMs < at[p]
                                       /\ e \notin InUse(deliveries)}
        kept == {d \in DOMAIN deliveries : deliveries[d].event \notin gone}
    IN  /\ stage[p] = "purge"
        /\ events' = [e \in DOMAIN events \ gone |-> events[e]]
        /\ deliveries' = [d \in kept |-> deliveries[d]]
        /\ maint' = [maint EXCEPT ![p] = at[p]]
        /\ stage' = [stage EXCEPT ![p] = "claim"]
        /\ UNCHANGED <<now, subs, lastSeq, lastId, at, todo, seen, calls,
                       claiming, schedule>>

\* DeliveryStore.claim with the time the pass began, and #execute of each row
\* up to the HTTP call.
Claim(p) ==
    LET free == Concurrency - Cardinality(calls[p])
        due == IF claiming[p] THEN Due(deliveries, subs, at[p], free) ELSE {}
    IN  /\ stage[p] = "claim"
        /\ deliveries' = [d \in DOMAIN deliveries |->
               IF d \in due THEN Started(deliveries[d], at[p])
               ELSE deliveries[d]]
        /\ calls' = [calls EXCEPT ![p] = @ \cup
               {[id |-> d, row |-> Started(deliveries[d], at[p])] : d \in due}]
        /\ stage' = [stage EXCEPT ![p] = "idle"]
        /\ at' = [at EXCEPT ![p] = NULL]
        /\ UNCHANGED <<now, subs, events, lastSeq, lastId, todo, seen, life>>

\* Takes any existing row for the one the call was made for.
Fault_AnyRow(c) == c.id \in DOMAIN deliveries

OwnsRow(c) ==
    c.id \in DOMAIN deliveries /\ Holds(deliveries[c.id], c.row.owner)

\* The heartbeat interval of a call renews its lease.
Heartbeat(p, c) ==
    /\ Idle(p) /\ c \in calls[p] /\ OwnsRow(c)
    /\ \E t \in Readings :
          deliveries' = [deliveries EXCEPT ![c.id] = Renewed(deliveries[c.id], t)]
    /\ UNCHANGED <<now, subs, events, lastSeq, lastId, step, calls, life>>

\* The call answers or times out, and finish() still finds its token.
Finish(p, c, outcome) ==
    /\ Idle(p) /\ c \in calls[p] /\ OwnsRow(c)
    /\ calls' = [calls EXCEPT ![p] = @ \ {c}]
    /\ \E t \in Readings :
          LET decision == Decide(c.row, outcome, t, schedule[p])
          IN  /\ deliveries' = [deliveries EXCEPT ![c.id] =
                                   Finished(deliveries[c.id], decision)]
              /\ todo' = [todo EXCEPT ![p] =
                             <<[id |-> c.id, sub |-> c.row.sub,
                                status |-> decision.status]>>]
    /\ stage' = [stage EXCEPT ![p] = "reread"]
    /\ UNCHANGED <<now, subs, events, lastSeq, lastId, at, seen, life>>

\* The call ends and finish() matches no row: the result is discarded.
Discard(p, c) ==
    /\ Idle(p) /\ c \in calls[p] /\ ~OwnsRow(c)
    /\ calls' = [calls EXCEPT ![p] = @ \ {c}]
    /\ UNCHANGED <<now, db, step, life>>

\* finish() reads the row it wrote.  A retry needs nothing more.
Reread(p) ==
    LET settled == Head(todo[p])
    IN  /\ stage[p] = "reread"
        /\ settled.id \in DOMAIN deliveries
        /\ IF settled.status = "retrying"
           THEN Applied(p)
           ELSE /\ stage' = [stage EXCEPT ![p] = "apply"]
                /\ UNCHANGED <<todo, maint>>
        /\ UNCHANGED <<now, db, at, seen, calls, claiming, schedule>>

\* The row was deleted in between, and applyOutcome reads a field of nothing.
RereadGone(p) ==
    /\ stage[p] = "reread"
    /\ Head(todo[p]).id \notin DOMAIN deliveries
    /\ Throws(p)

-----------------------------------------------------------------------------
(***************************************************************************)
(* Failures, shutdown and time.                                            *)
(***************************************************************************)

\* A statement of a pass, of start() or of a call's end fails.
DatabaseError(p) ==
    /\ p \in Faulty
    /\ stage[p] \in {"apply", "record", "purge", "claim", "reread"}
    /\ Throws(p)

\* finish() itself fails: nothing is written, the heartbeat is cleared and the
\* rejected promise starts a shutdown.
FinishError(p, c) ==
    /\ p \in Faulty /\ Idle(p) /\ c \in calls[p]
    /\ calls' = [calls EXCEPT ![p] = @ \ {c}]
    /\ claiming' = [claiming EXCEPT ![p] = FALSE]
    /\ UNCHANGED <<now, db, step, schedule, maint>>

\* A signal starts the shutdown: no new claims, calls in flight go on.
StopClaiming(p) ==
    /\ "stop" \in Ops /\ Idle(p) /\ claiming[p]
    /\ claiming' = [claiming EXCEPT ![p] = FALSE]
    /\ UNCHANGED <<now, db, step, calls, schedule, maint>>

Down(p) ==
    /\ stage' = [stage EXCEPT ![p] = "down"]
    /\ at' = [at EXCEPT ![p] = NULL]
    /\ todo' = [todo EXCEPT ![p] = << >>]
    /\ seen' = [seen EXCEPT ![p] = NULL]
    /\ calls' = [calls EXCEPT ![p] = {}]
    /\ claiming' = [claiming EXCEPT ![p] = TRUE]
    /\ maint' = [maint EXCEPT ![p] = NULL]
    /\ UNCHANGED <<now, db, schedule>>

\* Worker.stop has drained the calls and the process exits.
Exit(p) ==
    /\ Idle(p) /\ ~claiming[p] /\ calls[p] = {}
    /\ Down(p)

\* The process is killed, or exits with calls still in flight.
Crash(p) ==
    /\ p \in Faulty /\ stage[p] # "down"
    /\ Down(p)

Tick ==
    /\ now < MaxNow
    /\ now' = now + 1
    /\ UNCHANGED <<db, step, calls, life>>

ApiStep(p) ==
    \/ \E type \in Types : Publish(p, type)
    \/ \E s \in Subs :
          \/ Test(p, s)
          \/ \E from \in 0..now : \E to \in (from + 1)..(now + 1) :
                Replay(p, s, from, to)
          \/ \E status \in {"active", "paused"} : Create(p, s, status)
          \/ Remove(p, s)
          \/ \E patch \in Patches[s] : UpdateRead(p, s, patch)
    \/ \E d \in DOMAIN deliveries : Redeliver(p, d) \/ Cancel(p, d)
    \/ UpdateWrite(p)

\* The steps that go on with what the process has begun.
Continue(p) ==
    \/ ApplyNull(p) \/ ReadSub(p) \/ RecordOutcome(p)
    \/ Purge(p) \/ Claim(p) \/ Reread(p) \/ RereadGone(p)

CallEnds(p) ==
    \E c \in calls[p] :
        Discard(p, c) \/ \E outcome \in Outcome : Finish(p, c, outcome)

WorkerStep(p) ==
    \/ Start(p) \/ BeginPass(p) \/ Continue(p) \/ CallEnds(p)
    \/ \E c \in calls[p] : Heartbeat(p, c)

FailureStep(p) ==
    \/ DatabaseError(p) \/ Crash(p)
    \/ \E c \in calls[p] : FinishError(p, c)
    \/ StopClaiming(p) \/ Exit(p)

ProcessStep == \E p \in Procs : ApiStep(p) \/ WorkerStep(p) \/ FailureStep(p)

Next == Tick \/ ProcessStep

Spec == Init /\ [][Next]_vars

-----------------------------------------------------------------------------
(***************************************************************************)
(* What must hold.                                                         *)
(***************************************************************************)

\* Every variable holds a value of its kind.
TypeOK ==
    /\ now \in Nat
    /\ subs \in [Subs -> SubStore!SubRow]
    /\ lastSeq \in Nat /\ lastId \in Nat
    /\ events \in [DOMAIN events -> EventRow]
    /\ DOMAIN events \subseteq 1..lastSeq
    /\ deliveries \in [DOMAIN deliveries -> DeliveryRow]
    /\ DOMAIN deliveries \subseteq 1..lastId
    /\ stage \in [Procs -> Stage]
    /\ at \in [Procs -> NatOrNull]
    /\ todo \in [Procs -> Seq(Settled \cup {NULL})]
    /\ seen \in [Procs -> Read \cup {NULL}]
    /\ calls \in [Procs -> SUBSET Call]
    /\ claiming \in [Procs -> BOOLEAN]
    /\ schedule \in [Procs -> Schedules]
    /\ maint \in [Procs -> NatOrNull]

FixedOrder(s) == \A patch \in Patches[s] : patch.ordered = NULL

\* An ordered subscription's deliveries run one at a time and in the order
\* they were queued: whatever is queued before a running one is over, also
\* while it waits for a retry, whoever claims, crashes or reclaims.  (For a
\* subscription whose ordered flag operators do not change.)
OrderedOneAtATime ==
    \A d, e \in DOMAIN deliveries :
        LET s == deliveries[d].sub
        IN  /\ s \in OrderedSubs /\ FixedOrder(s)
            /\ deliveries[d].status = "running"
            /\ deliveries[e].sub = s /\ e < d
            => deliveries[e].status \in Terminal

\* An unordered subscription never has more deliveries running, in all
\* processes together, than SUBSCRIPTION_CONCURRENCY_MAX.
SubscriptionCapHolds ==
    \A s \in Subs \ OrderedSubs :
        FixedOrder(s) => Cardinality(RunningOf(deliveries, s)) <= SubscriptionCap

\* A Worker never has more calls in flight than WORKER_CONCURRENCY.
SlotsBounded == \A p \in Procs : Cardinality(calls[p]) <= Concurrency

\* Every attempt ever claimed is in the attempts log exactly once and in order,
\* whether its call answered, its lease expired or its process died, and
\* however late an answer comes after the lease was reclaimed.
AttemptsLogged ==
    \A d \in DOMAIN deliveries :
        LET row == deliveries[d]
            ended == IF row.status = "running" THEN row.attempt - 1
                     ELSE row.attempt
        IN  row.log = [n \in 1..ended |-> n]

\* A queued delivery always has a time at which it becomes due, and only a
\* queued one has: nothing waits for ever with next_attempt_at NULL, even when
\* a process with another retry schedule decided about it.
QueuedIsScheduled ==
    \A d \in DOMAIN deliveries :
        deliveries[d].status \in Queued <=> deliveries[d].nextAt # NULL

\* A delivery is never attempted more often than the schedule it was queued
\* under allows, and one that is queued has an attempt left.
AttemptsBounded ==
    \A d \in DOMAIN deliveries :
        /\ deliveries[d].attempt <= deliveries[d].max
        /\ deliveries[d].status \in Queued
              => deliveries[d].attempt < deliveries[d].max

\* No two processes call the receiver for the same attempt of a delivery, and
\* the id of a deleted delivery never comes back to one with a call in flight.
OneCallerPerAttempt ==
    \A p, q \in Procs : \A c \in calls[p], k \in calls[q] :
        c.id = k.id /\ c.row.attempt = k.row.attempt => p = q /\ c = k

\* A subscription that fails DISABLE_AFTER_FAILURES times in a row does not
\* stay active, even though the counter and the status are read and written
\* by separate statements of several processes.
ActiveBelowThreshold ==
    \A s \in Subs :
        subs[s].status = "active" => subs[s].failures < DisableAfter

\* What was delivered, given up or cancelled stays so: no late answer, sweep or
\* claim touches such a row again (it can only be deleted with its event or its
\* subscription).
TerminalForever ==
    [][\A d \in DOMAIN deliveries :
          /\ deliveries[d].status \in Terminal
          /\ d \in DOMAIN deliveries'
          => deliveries'[d] = deliveries[d]]_vars

\* A delivery that is queued or running disappears only when its subscription
\* is deleted: retention never destroys work that is still to be done.
LiveSurvivesPurge ==
    [][\A d \in DOMAIN deliveries :
          /\ deliveries[d].status \in Live
          /\ d \notin DOMAIN deliveries'
          => subs'[deliveries[d].sub].status = "deleted"]_vars

\* A paused subscription becomes active again only by a PATCH with
\* enabled: true; recording an outcome or rotating a secret never resumes it.
PauseSticks ==
    [][\A s \in Subs :
          subs[s].status = "paused" /\ subs'[s].status = "active"
          => \E p \in Procs : /\ stage[p] = "patch"
                              /\ seen[p].sub = s
                              /\ seen[p].patch.enabled = TRUE]_vars

\* Each delivery given up adds one to the failure count its subscription has
\* at that moment, and each that succeeds sets it back to zero.
FailuresCounted ==
    [][\A p \in Procs :
          RecordOutcome(p) /\ Exists(seen[p].sub) =>
             LET outcome == Head(todo[p]).status
                 failures == subs[seen[p].sub].failures
                 counted == subs'[seen[p].sub].failures
             IN  /\ outcome = "failed" => counted = failures + 1
                 /\ outcome = "succeeded" => counted = 0]_vars

\* A sweep leaves no row running whose lease had run out, or that has none.
SweepLeavesNoneExpired ==
    [][\A p \in Procs :
          BeginPass(p) \/ (Works(p) /\ Start(p))
          => Expired(deliveries', now - LockWaitMs) = {}]_vars

\* While a lease lasts, only the call that holds the token of its row settles the
\* row: no sweep with an old reading of the clock takes it away, and no late
\* answer of an earlier attempt ends the present one.
LeaseProtects ==
    [][\A d \in DOMAIN deliveries \cap DOMAIN deliveries' :
          /\ deliveries[d].status = "running" /\ deliveries[d].lease # NULL
          /\ now <= deliveries[d].lease
          /\ deliveries'[d].status # "running"
          => \E p \in Procs : \E c \in calls[p] \ calls'[p] :
                c.id = d /\ c.row.owner = deliveries[d].owner]_vars

LiveOf(T, s) == {d \in DOMAIN T : T[d].sub = s /\ T[d].status \in Live}

NotDue(row, t) ==
    row.status \in Queued /\ row.nextAt # NULL /\ t < row.nextAt

\* The queue never holds itself up: if a claim leaves a slot free, then of each
\* active subscription that is not at its cap every live delivery is running or
\* waits for its time or, if the subscription is ordered, for an earlier one.
ClaimsWhatItCan ==
    [][\A p \in Procs :
          /\ Claim(p) /\ claiming[p]
          /\ Cardinality(calls'[p]) < Concurrency
          => \A s \in Subs : subs[s].status = "active" =>
                LET live == LiveOf(deliveries', s)
                IN  \/ /\ ~subs[s].ordered
                       /\ Cardinality(RunningOf(deliveries', s))
                              >= SubscriptionCap
                    \/ \A d \in live :
                          \/ deliveries'[d].status = "running"
                          \/ NotDue(deliveries'[d], at[p])
                          \/ subs[s].ordered /\ \E e \in live : e < d]_vars

\* A running row without an owner, left by a version without leases, stops
\* every worker: none has a call in flight until that row is deleted.
UnownedRowBlocksWorkers ==
    (\E d \in DOMAIN deliveries :
        deliveries[d].status = "running" /\ deliveries[d].owner = NULL)
    => \A p \in Procs : calls[p] = {}

\* At most one delivery of a subscription that is ordered is running.
OneRunningPerOrdered ==
    \A s \in Subs :
        subs[s].ordered => Cardinality(RunningOf(deliveries, s)) <= 1

\* A delivery as a client reads it.
View(row) ==
    [sub |-> row.sub, status |-> row.status, attempt |-> row.attempt,
     max |-> row.max, recorded |-> Len(row.log)]

Contract == INSTANCE AbstractDelivery
    WITH table <- [d \in DOMAIN deliveries |-> View(deliveries[d])],
         issued <- lastId,
         removed <- {s \in Subs : subs[s].status = "deleted"}

\* Whatever the processes, leases, tokens and clocks behind them do, clients see
\* deliveries behave as AbstractDelivery promises.
KeepsContract == Contract!Spec

-----------------------------------------------------------------------------
(***************************************************************************)
(* Fairness.  Synchronous code goes on; the event loop serves every timer  *)
(* and callback that is ready again and again, so passes are made and the  *)
(* end of a call (at DELIVERY_TIMEOUT_MS at the latest) is handled; the    *)
(* process manager restarts what has exited; time passes.                  *)
(***************************************************************************)
Fairness ==
    \A p \in Procs :
        /\ WF_vars(Start(p)) /\ WF_vars(Exit(p))
        /\ WF_vars(Continue(p)) /\ WF_vars(UpdateWrite(p))
        /\ SF_vars(BeginPass(p)) /\ SF_vars(CallEnds(p))

\* A queued or running delivery of a subscription that stays active is
\* delivered, given up or cancelled in the end.
Delivered ==
    \A d \in 1..MaxDeliveries :
        (d \in DOMAIN deliveries /\ deliveries[d].status \in Live)
        ~> (d \in DOMAIN deliveries
              => \/ deliveries[d].status \in Terminal
                 \/ subs[deliveries[d].sub].status # "active")

FairSpec == Spec /\ Fairness /\ WF_vars(Tick)
=============================================================================
