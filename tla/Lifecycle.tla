----------------------------- MODULE Lifecycle -----------------------------
(***************************************************************************)
(* The timers of a worker process: passes, the heartbeats of a call, the   *)
(* presence row other processes judge it by, and the steps of a shutdown   *)
(* with their two limits.                                                  *)
(*                                                                         *)
(* A timer that is due fires within Lag, the longest delay of the event    *)
(* loop, which includes any wait for the write lock; time does not pass    *)
(* beyond that.  A process has at most one call, and what it delivers is   *)
(* left out: WebhookOut has the rows, without bounds on delays.            *)
(*                                                                         *)
(* Fault_ operators are described in DeliveryStore.                        *)
(***************************************************************************)
EXTENDS Integers, FiniteSets

CONSTANTS
    NULL,
    Workers,        \* the processes that run a worker
    PollMs,         \* POLL_MS
    HeartbeatMs,    \* HEARTBEAT_MS
    LeaseMs,        \* LEASE_MS
    TimeoutMs,      \* DELIVERY_TIMEOUT_MS
    DrainMarginMs,  \* Config.DRAIN_MARGIN_MS
    ForceMarginMs,  \* Config.FORCE_EXIT_MARGIN_MS
    MaintenanceMs,  \* Worker.MAINTENANCE_INTERVAL_MS
    Lag,            \* the longest delay of a timer
    MaxNow,         \* bound on the clock
    MaxLives        \* bound on the starts of processes

ASSUME Durations ==
    /\ {PollMs, HeartbeatMs, LeaseMs} \subseteq Nat \ {0}
    /\ {TimeoutMs, DrainMarginMs, ForceMarginMs, MaintenanceMs, Lag,
        MaxNow, MaxLives} \subseteq Nat
ASSUME NullIsNoTime == NULL \notin Int
ASSUME NullIsNoCall ==
    NULL \notin [lease : Nat, beatAt : Nat, since : Nat, sentAt : Nat \cup {NULL}]

\* A heartbeat is late by less than what the configuration leaves to the end of the
\* lease.  Config.fromEnv checks no more than HeartbeatMs < LeaseMs.
ASSUME HeartbeatsInTime == HeartbeatMs + Lag <= LeaseMs

\* The two margins of Config.
ASSUME MarginsOrdered == DrainMarginMs < ForceMarginMs

VARIABLES
    now,
    phase,     \* phase[p]: the step of p's shutdown, "up" before it, or "down"
    instance,  \* instance[p]: its HeartbeatStore's instance
    lives,     \* the instances so far
    beats,     \* the worker_heartbeat table: seen_at by instance
    passAt,    \* passAt[p]: the latest pass
    maintAt,   \* maintAt[p]: the latest maintenance
    call,      \* call[p]: the call in flight, or NULL
    stopAt,    \* stopAt[p]: when the shutdown began
    drainAt,   \* drainAt[p]: when the drain began
    orphans    \* the leases of the running rows dead processes left

presence == <<instance, lives, beats>>
shutdown == <<phase, stopAt, drainAt>>
vars == <<now, presence, passAt, maintAt, call, shutdown, orphans>>

(***************************************************************************)
(* Config and WebhookApi.                                                  *)
(***************************************************************************)
\* Only as long as one call may take on the wire.
Fault_DrainMs == TimeoutMs

DrainMs == TimeoutMs + DrainMarginMs
ForceExitMs == TimeoutMs + ForceMarginMs

\* Judges the presence row by the interval of the heartbeats alone.
Fault_NoFactor ==
    IF \E i \in DOMAIN beats : now - beats[i] < HeartbeatMs
    THEN "running" ELSE "stopped"

\* WebhookApi.workerStatus in a process without a worker.
WorkerStatus ==
    IF \E i \in DOMAIN beats : now - beats[i] < 4 * HeartbeatMs
    THEN "running" ELSE "stopped"

Looping(p) == phase[p] \in {"up", "closing"}
Stopping(p) == phase[p] \in {"closing", "draining", "flushing"}

Init ==
    /\ now = 0
    /\ phase = [p \in Workers |-> "down"]
    /\ instance = [p \in Workers |-> NULL]
    /\ lives = 0 /\ beats = << >>
    /\ passAt = [p \in Workers |-> 0] /\ maintAt = [p \in Workers |-> 0]
    /\ call = [p \in Workers |-> NULL]
    /\ stopAt = [p \in Workers |-> 0] /\ drainAt = [p \in Workers |-> 0]
    /\ orphans = {}

-----------------------------------------------------------------------------
(***************************************************************************)
(* The parts of a pass.                                                    *)
(***************************************************************************)
\* HeartbeatStore.beat; of the other rows, others stay.
Beat(i, others) ==
    beats' = [j \in {i} \cup others |-> IF j = i THEN now ELSE beats[j]]

\* The rows HeartbeatStore.purgeStale leaves.
Fresh == {j \in DOMAIN beats : ~(beats[j] < now - 5 * MaintenanceMs)}

\* Reclaims nothing.
Fault_NoReclaim == orphans' = orphans

Reclaim == orphans' = {lease \in orphans : ~(lease < now)}

\* The two intervals are swapped.
Fault_Swapped == [lease |-> now + HeartbeatMs, beatAt |-> now + LeaseMs,
                  since |-> now, sentAt |-> NULL]

\* The times of a call that begins: DeliveryStore.claim and Worker#execute.
NewCall == [lease |-> now + LeaseMs, beatAt |-> now + HeartbeatMs,
            since |-> now, sentAt |-> NULL]

\* There may be nothing to claim; if there is, a call begins.
Claims(p) == call[p] = NULL /\ call' = [call EXCEPT ![p] = NewCall]

\* Worker.start: recovers, and passes for the first time.
Start(p) ==
    /\ phase[p] = "down" /\ lives < MaxLives
    /\ phase' = [phase EXCEPT ![p] = "up"]
    /\ lives' = lives + 1
    /\ instance' = [instance EXCEPT ![p] = lives']
    /\ Beat(lives', DOMAIN beats)
    /\ Reclaim
    /\ passAt' = [passAt EXCEPT ![p] = now]
    /\ maintAt' = [maintAt EXCEPT ![p] = now]
    /\ Claims(p) \/ UNCHANGED call
    /\ UNCHANGED <<now, stopAt, drainAt>>

\* Worker#pass: presence, sweep, maintenance, claim.
Pass(p) ==
    LET upkeep == now - maintAt[p] >= MaintenanceMs
    IN  /\ Looping(p) /\ now >= passAt[p] + PollMs
        /\ Beat(instance[p], IF upkeep THEN Fresh ELSE DOMAIN beats)
        /\ Reclaim
        /\ passAt' = [passAt EXCEPT ![p] = now]
        /\ maintAt' = IF upkeep THEN [maintAt EXCEPT ![p] = now] ELSE maintAt
        /\ (phase[p] = "up" /\ Claims(p)) \/ UNCHANGED call
        /\ UNCHANGED <<now, instance, lives, shutdown>>

(***************************************************************************)
(* The call.                                                               *)
(***************************************************************************)
\* DeliveryStore.heartbeat.
Heartbeat(p) ==
    /\ call[p] # NULL /\ now >= call[p].beatAt
    /\ call' = [call EXCEPT ![p].lease = now + LeaseMs,
                            ![p].beatAt = now + HeartbeatMs]
    /\ UNCHANGED <<now, presence, passAt, maintAt, shutdown, orphans>>

\* The name is resolved, however long that took; the timeout of the request starts.
Sent(p) ==
    /\ call[p] # NULL /\ call[p].sentAt = NULL
    /\ call' = [call EXCEPT ![p].sentAt = now]
    /\ UNCHANGED <<now, presence, passAt, maintAt, shutdown, orphans>>

\* The name is not resolved, the receiver answers, or the request times out.
CallEnds(p) ==
    /\ call[p] # NULL
    /\ call' = [call EXCEPT ![p] = NULL]
    /\ UNCHANGED <<now, presence, passAt, maintAt, shutdown, orphans>>

-----------------------------------------------------------------------------
(***************************************************************************)
(* Shutdown.                                                               *)
(***************************************************************************)
\* SIGTERM: the timer of the forced exit starts, the worker stops claiming, and
\* the HTTP server, if there is one, begins to close, however long that takes.
Stop(p) ==
    /\ phase[p] = "up"
    /\ phase' = [phase EXCEPT ![p] = "closing"]
    /\ stopAt' = [stopAt EXCEPT ![p] = now]
    /\ UNCHANGED <<now, presence, passAt, maintAt, call, drainAt, orphans>>

\* Worker.stop begins: the loop ends.
Drain(p) ==
    /\ phase[p] = "closing"
    /\ phase' = [phase EXCEPT ![p] = "draining"]
    /\ drainAt' = [drainAt EXCEPT ![p] = now]
    /\ UNCHANGED <<now, presence, passAt, maintAt, call, stopAt, orphans>>

\* ... and ends when no call is left, or after DrainMs.
Drained(p) ==
    /\ phase[p] = "draining"
    /\ call[p] = NULL \/ now >= drainAt[p] + DrainMs
    /\ phase' = [phase EXCEPT ![p] = "flushing"]
    /\ UNCHANGED <<now, presence, passAt, maintAt, call, stopAt, drainAt, orphans>>

\* The process is gone; a call it had leaves its row running.
Gone(p) ==
    /\ phase' = [phase EXCEPT ![p] = "down"]
    /\ call' = [call EXCEPT ![p] = NULL]
    /\ orphans' = IF call[p] = NULL THEN orphans ELSE orphans \cup {call[p].lease}
    /\ instance' = [instance EXCEPT ![p] = NULL]
    /\ passAt' = [passAt EXCEPT ![p] = 0] /\ maintAt' = [maintAt EXCEPT ![p] = 0]
    /\ stopAt' = [stopAt EXCEPT ![p] = 0] /\ drainAt' = [drainAt EXCEPT ![p] = 0]
    /\ UNCHANGED <<now, lives, beats>>

\* The audit log is flushed, the database closed.
Exit(p) == phase[p] = "flushing" /\ Gone(p)

ForcedExit(p) == Stopping(p) /\ now >= stopAt[p] + ForceExitMs /\ Gone(p)

Crash(p) == phase[p] # "down" /\ Gone(p)

-----------------------------------------------------------------------------
\* No timer of p is late by Lag.
InTime(p) ==
    /\ Looping(p) => now < passAt[p] + PollMs + Lag
    /\ call[p] # NULL =>
          /\ now < call[p].beatAt + Lag
          /\ call[p].sentAt # NULL => now < call[p].sentAt + TimeoutMs + Lag
    /\ Stopping(p) => now < stopAt[p] + ForceExitMs + Lag

Tick ==
    /\ now < MaxNow /\ \A p \in Workers : InTime(p)
    /\ now' = now + 1
    /\ UNCHANGED <<presence, passAt, maintAt, call, shutdown, orphans>>

Shutdown(p) == Stop(p) \/ Drain(p) \/ Drained(p) \/ Exit(p) \/ ForcedExit(p)

Next ==
    \/ Tick
    \/ \E p \in Workers :
          \/ Start(p) \/ Pass(p)
          \/ Heartbeat(p) \/ Sent(p) \/ CallEnds(p)
          \/ Shutdown(p) \/ Crash(p)

Spec == Init /\ [][Next]_vars

-----------------------------------------------------------------------------
(***************************************************************************)
(* What must hold.                                                         *)
(***************************************************************************)
TypeOK ==
    /\ now \in Nat
    /\ phase \in [Workers -> {"down", "up", "closing", "draining", "flushing"}]
    /\ lives \in Nat
    /\ instance \in [Workers -> 1..lives \cup {NULL}]
    /\ beats \in [DOMAIN beats -> 0..now] /\ DOMAIN beats \subseteq 1..lives
    /\ passAt \in [Workers -> 0..now] /\ maintAt \in [Workers -> 0..now]
    /\ call \in [Workers -> [lease : Nat, beatAt : Nat, since : Nat,
                             sentAt : Nat \cup {NULL}] \cup {NULL}]
    /\ stopAt \in [Workers -> 0..now] /\ drainAt \in [Workers -> 0..now]
    /\ orphans \subseteq Nat

\* The lease of a call in flight does not run out while its process is alive,
\* neither between two heartbeats nor during a shutdown: nobody reclaims a
\* delivery that is still being made.
LeaseKept == \A p \in Workers : call[p] # NULL => now <= call[p].lease

\* From each pass of a worker on, also of one that is about to stop, another
\* process reports a worker running for four heartbeats, although each process
\* purges the presence rows of others: a running worker is reported stopped only
\* if it passes less often, which POLL_MS allows.
LiveReported ==
    (\E p \in Workers : /\ Looping(p)
                        /\ now - passAt[p] < 4 * HeartbeatMs
                        /\ now - passAt[p] <= 5 * MaintenanceMs)
        => WorkerStatus = "running"

\* For how long the name of p's call was being resolved, so far.
Resolving(p) == (IF call[p].sentAt = NULL THEN now ELSE call[p].sentAt) - call[p].since

\* A shutdown that ends, in order or by the forced exit, leaves a call in flight
\* only if the resolution of its name took up the margin, but for the delay of one
\* timer: not because of the receiver, or of how late the call began, or of how
\* long the HTTP server took to close.
NoCallAbandoned ==
    \A p \in Workers :
        /\ call[p] # NULL
        /\ \/ phase[p] = "flushing"
           \/ Stopping(p) /\ now >= stopAt[p] + ForceExitMs
        => Resolving(p) + Lag >= DrainMarginMs

\* While a worker's loop runs, a row that a dead process left running is
\* reclaimed within a pass of the end of its lease.
OrphansReclaimed ==
    (\E p \in Workers : Looping(p)) =>
        \A lease \in orphans : now - lease <= PollMs + Lag
=============================================================================
