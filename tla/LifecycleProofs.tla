-------------------------- MODULE LifecycleProofs --------------------------
(***************************************************************************)
(* Theorems about Lifecycle, for any number of processes and any delays    *)
(* within its assumptions.  The model of time is the one of its Tick: no   *)
(* timer is late by more than Lag.                                         *)
(***************************************************************************)
EXTENDS Lifecycle, TLAPS

Calls == [lease : Nat, beatAt : Nat, since : Nat, sentAt : Nat \cup {NULL}]

LEMMA Constants ==
    /\ PollMs \in Nat /\ HeartbeatMs \in Nat /\ LeaseMs \in Nat
    /\ TimeoutMs \in Nat /\ DrainMarginMs \in Nat
    /\ ForceMarginMs \in Nat /\ MaintenanceMs \in Nat /\ Lag \in Nat
    /\ NULL \notin Nat /\ NULL \notin Calls
<1>1. NULL \notin Nat
    BY NullIsNoTime
<1>2. NULL \notin Calls
    BY NullIsNoCall DEF Calls
<1> QED
    BY <1>1, <1>2, Durations

LEMMA NewCallType ==
    ASSUME now \in Nat
    PROVE  /\ NewCall \in Calls
           /\ NewCall.lease = now + LeaseMs
           /\ NewCall.beatAt = now + HeartbeatMs
           /\ NewCall.since = now /\ NewCall.sentAt = NULL
BY Constants DEF NewCall, Calls

-----------------------------------------------------------------------------
(***************************************************************************)
(* Types.                                                                  *)
(***************************************************************************)
LEMMA BeatType ==
    ASSUME TypeOK, NEW i \in Nat \ {0}, NEW others \in SUBSET DOMAIN beats,
           Beat(i, others), lives' \in Nat, lives <= lives', i <= lives',
           now' = now
    PROVE  /\ beats' \in [DOMAIN beats' -> 0..now']
           /\ DOMAIN beats' \subseteq 1..lives'
<1>1. DOMAIN beats' = {i} \cup others
    BY DEF Beat
<1>2. {i} \cup others \subseteq 1..lives'
    BY DEF TypeOK
<1>3. \A j \in {i} \cup others : (IF j = i THEN now ELSE beats[j]) \in 0..now
    BY DEF TypeOK
<1> QED
    BY <1>1, <1>2, <1>3 DEF Beat

LEMMA GoneType ==
    ASSUME TypeOK, NEW p \in Workers, Gone(p)
    PROVE  TypeOK'
<1>1. orphans' \subseteq Nat
    <2>1. call[p] # NULL => call[p].lease \in Nat
        BY DEF TypeOK
    <2> QED
        BY <2>1 DEF Gone, TypeOK
<1>2. 0 \in 0..now
    BY DEF TypeOK
<1> QED
    BY <1>1, <1>2 DEF Gone, TypeOK

LEMMA ClaimsType ==
    ASSUME TypeOK, NEW p \in Workers, Claims(p) \/ UNCHANGED call
    PROVE  call' \in [Workers -> Calls \cup {NULL}]
BY NewCallType DEF TypeOK, Claims, Calls

LEMMA StartType ==
    ASSUME TypeOK, NEW p \in Workers, Start(p)
    PROVE  TypeOK'
<1>1. lives' \in Nat /\ lives' = lives + 1 /\ now' = now
    BY DEF Start, TypeOK
<1>2. /\ beats' \in [DOMAIN beats' -> 0..now']
      /\ DOMAIN beats' \subseteq 1..lives'
    BY <1>1, BeatType DEF Start, TypeOK
<1>3. call' \in [Workers -> Calls \cup {NULL}]
    BY ClaimsType DEF Start
<1>4. orphans' \subseteq Nat
    BY DEF Start, Reclaim, TypeOK
<1>5. instance' \in [Workers -> 1..lives' \cup {NULL}]
    <2>1. lives' \in 1..lives' /\ 1..lives \subseteq 1..lives'
        BY <1>1 DEF TypeOK
    <2> QED
        BY <2>1 DEF Start, TypeOK
<1>6. now \in 0..now
    BY DEF TypeOK
<1> QED
    BY <1>1, <1>2, <1>3, <1>4, <1>5, <1>6 DEF Start, TypeOK, Calls

LEMMA PassType ==
    ASSUME TypeOK, NEW p \in Workers, Pass(p), instance[p] # NULL
    PROVE  TypeOK'
<1>1. instance[p] \in 1..lives /\ lives' = lives /\ now' = now
    BY DEF Pass, TypeOK
<1>2. /\ beats' \in [DOMAIN beats' -> 0..now']
      /\ DOMAIN beats' \subseteq 1..lives'
    <2>1. PICK others \in SUBSET DOMAIN beats : Beat(instance[p], others)
        BY DEF Pass, Fresh
    <2>2. instance[p] \in Nat \ {0} /\ instance[p] <= lives' /\ lives <= lives'
        BY <1>1 DEF TypeOK
    <2>3. lives' \in Nat
        BY <1>1 DEF TypeOK
    <2> QED
        BY <1>1, <2>1, <2>2, <2>3, BeatType
<1>3. call' \in [Workers -> Calls \cup {NULL}]
    BY ClaimsType DEF Pass
<1>4. orphans' \subseteq Nat
    BY DEF Pass, Reclaim, TypeOK
<1>5. now \in 0..now
    BY DEF TypeOK
<1>6. /\ passAt' \in [Workers -> 0..now']
      /\ maintAt' \in [Workers -> 0..now']
    BY <1>1, <1>5 DEF Pass, TypeOK
<1> QED
    BY <1>1, <1>2, <1>3, <1>4, <1>6 DEF Pass, TypeOK, Calls, shutdown

LEMMA TypeStep ==
    ASSUME TypeOK, \A p \in Workers : Looping(p) => instance[p] # NULL,
           [Next]_vars
    PROVE  TypeOK'
<1>1. CASE Tick
    <2>1. now' \in Nat /\ 0..now \subseteq 0..now'
        BY <1>1 DEF Tick, TypeOK
    <2>2. beats' \in [DOMAIN beats' -> 0..now']
        BY <1>1, <2>1 DEF Tick, TypeOK, presence
    <2>3. /\ passAt' \in [Workers -> 0..now'] /\ maintAt' \in [Workers -> 0..now']
          /\ stopAt' \in [Workers -> 0..now'] /\ drainAt' \in [Workers -> 0..now']
        BY <1>1, <2>1 DEF Tick, TypeOK, shutdown
    <2> QED
        BY <1>1, <2>1, <2>2, <2>3 DEF Tick, TypeOK, presence, shutdown
<1>2. ASSUME NEW p \in Workers, Heartbeat(p)
      PROVE  TypeOK'
    <2>1. call[p] \in Calls /\ now + LeaseMs \in Nat /\ now + HeartbeatMs \in Nat
        BY <1>2, Constants DEF TypeOK, Calls, Heartbeat
    <2>2. [call[p] EXCEPT !.lease = now + LeaseMs, !.beatAt = now + HeartbeatMs]
             \in Calls
        BY <2>1 DEF Calls
    <2>3. call' \in [Workers -> Calls \cup {NULL}]
        BY <1>2, <2>2 DEF Heartbeat, TypeOK, Calls
    <2> QED
        BY <1>2, <2>3 DEF Heartbeat, TypeOK, Calls, presence, shutdown
<1>3. ASSUME NEW p \in Workers, CallEnds(p)
      PROVE  TypeOK'
    BY <1>3 DEF CallEnds, TypeOK, presence, shutdown
<1>8. ASSUME NEW p \in Workers, Sent(p)
      PROVE  TypeOK'
    <2>1. call[p] \in Calls /\ now \in Nat
        BY <1>8 DEF TypeOK, Calls, Sent
    <2>2. [call[p] EXCEPT !.sentAt = now] \in Calls
        BY <2>1 DEF Calls
    <2>3. call' \in [Workers -> Calls \cup {NULL}]
        BY <1>8, <2>2 DEF Sent, TypeOK, Calls
    <2> QED
        BY <1>8, <2>3 DEF Sent, TypeOK, Calls, presence, shutdown
<1>4. ASSUME NEW p \in Workers, Stop(p) \/ Drain(p) \/ Drained(p)
      PROVE  TypeOK'
    <2>1. now \in 0..now
        BY DEF TypeOK
    <2> QED
        BY <1>4, <2>1 DEF Stop, Drain, Drained, TypeOK, presence
<1>5. ASSUME NEW p \in Workers, Exit(p) \/ ForcedExit(p) \/ Crash(p)
      PROVE  TypeOK'
    BY <1>5, GoneType DEF Exit, ForcedExit, Crash
<1>6. ASSUME NEW p \in Workers, Pass(p)
      PROVE  TypeOK'
    BY <1>6, PassType DEF Pass
<1>7. CASE UNCHANGED vars
    BY <1>7 DEF vars, TypeOK, presence, shutdown
<1> QED
    BY <1>1, <1>2, <1>3, <1>4, <1>5, <1>6, <1>7, <1>8, StartType DEF Next, Shutdown

-----------------------------------------------------------------------------
(***************************************************************************)
(* The inductive invariant: what bounds the age of everything a process    *)
(* has under way, and what the others can see of it.                       *)
(***************************************************************************)
\* No timer of p is late by more than Lag, and a lease ends as long after the
\* heartbeat that is due as the configuration says.
TimersInTime(p) ==
    /\ Looping(p) => now <= passAt[p] + PollMs + Lag
    /\ call[p] # NULL =>
          /\ call[p].lease + HeartbeatMs = call[p].beatAt + LeaseMs
          /\ now <= call[p].beatAt + Lag
          /\ call[p].sentAt # NULL => now <= call[p].sentAt + TimeoutMs + Lag

\* The latest pass of p wrote a presence row that is still there, for as long as
\* no purge may take it.
Seen(p) ==
    Looping(p) =>
        /\ instance[p] # NULL
        /\ now <= passAt[p] + 5 * MaintenanceMs =>
              instance[p] \in DOMAIN beats /\ passAt[p] <= beats[instance[p]]

\* A call of a process that shuts down began before its shutdown, and outlives
\* the drain only if it has lasted longer.
CallBounded(p) ==
    call[p] # NULL =>
        /\ phase[p] # "down" /\ call[p].since <= now
        /\ Stopping(p) => call[p].since <= stopAt[p]
        /\ phase[p] = "flushing" => call[p].since + DrainMs <= now

\* The steps of a shutdown follow each other.
StopsFirst(p) == phase[p] = "draining" => stopAt[p] <= drainAt[p]

\* No orphan that the latest pass of p had to reclaim is left.
Swept(p) == Looping(p) => \A lease \in orphans : passAt[p] <= lease

IInv ==
    /\ TypeOK
    /\ \A p \in Workers : TimersInTime(p)
    /\ \A p \in Workers : Seen(p)
    /\ \A p \in Workers : CallBounded(p)
    /\ \A p \in Workers : StopsFirst(p)
    /\ \A p \in Workers : Swept(p)

LEMMA InitIInv == Init => IInv
<1> SUFFICES ASSUME Init PROVE IInv
    OBVIOUS
<1>1. TypeOK
    <2>1. beats \in [DOMAIN beats -> 0..now] /\ DOMAIN beats \subseteq 1..lives
        BY DEF Init
    <2> QED
        BY <2>1 DEF Init, TypeOK
<1>2. \A p \in Workers : ~Looping(p) /\ call[p] = NULL /\ phase[p] = "down"
    BY DEF Init, Looping
<1> QED
    BY <1>1, <1>2 DEF IInv, TimersInTime, Seen, CallBounded, StopsFirst, Swept

LEMMA Leases ==
    ASSUME IInv
    PROVE  LeaseKept
<1> SUFFICES ASSUME NEW p \in Workers, call[p] # NULL
             PROVE  now <= call[p].lease
    BY DEF LeaseKept
<1>1. call[p] \in Calls /\ now \in Nat
    BY DEF IInv, TypeOK, Calls
<1>2. /\ call[p].lease + HeartbeatMs = call[p].beatAt + LeaseMs
      /\ now <= call[p].beatAt + Lag
    BY DEF IInv, TimersInTime
<1>3. call[p].lease \in Nat /\ call[p].beatAt \in Nat
    BY <1>1 DEF Calls
<1> QED
    BY <1>1, <1>2, <1>3, Constants, HeartbeatsInTime

LEMMA Drains ==
    ASSUME IInv
    PROVE  NoCallAbandoned
<1> SUFFICES ASSUME NEW p \in Workers, call[p] # NULL,
                    \/ phase[p] = "flushing"
                    \/ Stopping(p) /\ now >= stopAt[p] + ForceExitMs
             PROVE  Resolving(p) + Lag >= DrainMarginMs
    BY DEF NoCallAbandoned
<1>1. /\ call[p].since \in Nat /\ call[p].sentAt \in Nat \cup {NULL}
      /\ now \in Nat /\ stopAt[p] \in Nat
    BY DEF IInv, TypeOK
<1>2. call[p].since + TimeoutMs + DrainMarginMs <= now
    <2>1. CASE phase[p] = "flushing"
        BY <1>1, <2>1, Constants DEF IInv, CallBounded, DrainMs
    <2>2. CASE Stopping(p) /\ now >= stopAt[p] + ForceExitMs
        <3>1. call[p].since <= stopAt[p]
            BY <2>2 DEF IInv, CallBounded
        <3> QED
            BY <1>1, <2>2, <3>1, Constants, MarginsOrdered DEF ForceExitMs
    <2> QED
        BY <2>1, <2>2
<1>3. call[p].sentAt # NULL => now <= call[p].sentAt + TimeoutMs + Lag
    BY DEF IInv, TimersInTime
<1>4. CASE call[p].sentAt = NULL
    BY <1>1, <1>2, <1>4, Constants DEF Resolving
<1>5. CASE call[p].sentAt # NULL
    <2>1. call[p].sentAt \in Nat
        BY <1>1, <1>5
    <2> QED
        BY <1>1, <1>2, <1>3, <1>5, <2>1, Constants DEF Resolving
<1> QED
    BY <1>4, <1>5

LEMMA Reports ==
    ASSUME IInv
    PROVE  LiveReported
<1> SUFFICES ASSUME NEW p \in Workers, Looping(p),
                    now - passAt[p] < 4 * HeartbeatMs,
                    now - passAt[p] <= 5 * MaintenanceMs
             PROVE  \E i \in DOMAIN beats : now - beats[i] < 4 * HeartbeatMs
    BY DEF LiveReported, WorkerStatus
<1>1. now \in Nat /\ passAt[p] \in Nat
    BY DEF IInv, TypeOK
<1>2. instance[p] \in DOMAIN beats /\ passAt[p] <= beats[instance[p]]
    BY <1>1, Constants DEF IInv, Seen
<1>3. beats[instance[p]] \in Nat
    BY <1>2 DEF IInv, TypeOK
<1>4. now - beats[instance[p]] < 4 * HeartbeatMs
    BY <1>1, <1>2, <1>3, Constants
<1> QED
    BY <1>2, <1>4

\* With passes that are frequent enough a running worker is reported at all times.
LEMMA ReportsAlways ==
    ASSUME IInv, PollMs + Lag < 4 * HeartbeatMs, PollMs + Lag <= 5 * MaintenanceMs,
           NEW p \in Workers, Looping(p)
    PROVE  WorkerStatus = "running"
<1>1. /\ now <= passAt[p] + PollMs + Lag /\ now \in Nat /\ passAt[p] \in Nat
    BY DEF IInv, TimersInTime, TypeOK
<1>2. now - passAt[p] < 4 * HeartbeatMs /\ now - passAt[p] <= 5 * MaintenanceMs
    BY <1>1, Constants
<1> QED
    BY <1>2, Reports DEF LiveReported

LEMMA Reclaims ==
    ASSUME IInv
    PROVE  OrphansReclaimed
<1> SUFFICES ASSUME NEW p \in Workers, Looping(p), NEW lease \in orphans
             PROVE  now - lease <= PollMs + Lag
    BY DEF OrphansReclaimed
<1>1. passAt[p] <= lease /\ now <= passAt[p] + PollMs + Lag
    BY DEF IInv, Swept, TimersInTime
<1>2. lease \in Nat /\ passAt[p] \in Nat /\ now \in Nat
    BY DEF IInv, TypeOK
<1> QED
    BY <1>1, <1>2, Constants

-----------------------------------------------------------------------------
(***************************************************************************)
(* Every step preserves each part for every process q.                     *)
(***************************************************************************)
\* The steps that leave the process q alone.
LEMMA OthersKept ==
    ASSUME TypeOK, NEW p \in Workers, NEW q \in Workers, p # q,
           \/ Start(p) \/ Pass(p) \/ Heartbeat(p) \/ Sent(p) \/ CallEnds(p)
           \/ Shutdown(p) \/ Crash(p)
    PROVE  /\ now' = now /\ phase'[q] = phase[q] /\ instance'[q] = instance[q]
           /\ passAt'[q] = passAt[q] /\ call'[q] = call[q]
           /\ stopAt'[q] = stopAt[q] /\ drainAt'[q] = drainAt[q]
<1>1. CASE Start(p)
    BY <1>1 DEF Start, Claims, TypeOK
<1>2. CASE Pass(p)
    BY <1>2 DEF Pass, Claims, TypeOK, shutdown
<1>3. CASE Heartbeat(p) \/ Sent(p) \/ CallEnds(p)
    BY <1>3 DEF Heartbeat, Sent, CallEnds, TypeOK, presence, shutdown
<1>4. CASE Stop(p) \/ Drain(p) \/ Drained(p)
    BY <1>4 DEF Stop, Drain, Drained, TypeOK, presence
<1>5. CASE Gone(p)
    BY <1>5 DEF Gone, TypeOK
<1> QED
    BY <1>1, <1>2, <1>3, <1>4, <1>5 DEF Shutdown, Exit, ForcedExit, Crash

LEMMA TimersStep ==
    ASSUME IInv, NEW p \in Workers,
           \/ Start(p) \/ Pass(p) \/ Heartbeat(p) \/ Sent(p) \/ CallEnds(p)
           \/ Shutdown(p) \/ Crash(p)
    PROVE  TimersInTime(p)'
<1>1. TypeOK /\ TimersInTime(p) /\ now \in Nat
    BY DEF IInv, TypeOK
<1>2. now <= now + HeartbeatMs + Lag /\ now <= now + TimeoutMs + Lag
      /\ now <= now + PollMs + Lag
    BY <1>1, Constants
<1>3. ASSUME Claims(p) \/ call'[p] = call[p], now' = now
      PROVE  call'[p] # NULL =>
                /\ call'[p].lease + HeartbeatMs = call'[p].beatAt + LeaseMs
                /\ now' <= call'[p].beatAt + Lag
                /\ call'[p].sentAt # NULL =>
                      now' <= call'[p].sentAt + TimeoutMs + Lag
    <2>1. CASE Claims(p)
        <3>1. call'[p] = NewCall
            BY <1>1, <2>1 DEF Claims, TypeOK
        <3> QED
            BY <1>1, <1>2, <1>3, <3>1, NewCallType, Constants
    <2> QED
        BY <1>1, <1>3, <2>1 DEF TimersInTime
<1>4. CASE Start(p)
    <2>1. passAt'[p] = now /\ now' = now
        BY <1>1, <1>4 DEF Start, TypeOK
    <2> QED
        BY <1>2, <1>3, <1>4, <2>1 DEF Start, TimersInTime
<1>5. CASE Pass(p)
    <2>1. passAt'[p] = now /\ now' = now
        BY <1>1, <1>5 DEF Pass, TypeOK
    <2> QED
        BY <1>2, <1>3, <1>5, <2>1 DEF Pass, TimersInTime
<1>6. CASE Heartbeat(p)
    <2>1. call[p] \in Calls
        BY <1>1, <1>6 DEF Heartbeat, TypeOK, Calls
    <2>2. call'[p] = [call[p] EXCEPT !.lease = now + LeaseMs,
                                     !.beatAt = now + HeartbeatMs]
        BY <1>1, <1>6 DEF Heartbeat, TypeOK
    <2>3. /\ call'[p].lease = now + LeaseMs /\ call'[p].beatAt = now + HeartbeatMs
          /\ call'[p].sentAt = call[p].sentAt
        BY <2>1, <2>2 DEF Calls
    <2>4. now' = now /\ Looping(p)' = Looping(p) /\ passAt' = passAt
        BY <1>6 DEF Heartbeat, Looping, shutdown
    <2> QED
        BY <1>1, <1>2, <1>6, <2>3, <2>4, Constants DEF TimersInTime, Heartbeat
<1>10. CASE Sent(p)
    <2>1. call[p] \in Calls
        BY <1>1, <1>10 DEF Sent, TypeOK, Calls
    <2>2. call'[p] = [call[p] EXCEPT !.sentAt = now]
        BY <1>1, <1>10 DEF Sent, TypeOK
    <2>3. /\ call'[p].lease = call[p].lease /\ call'[p].beatAt = call[p].beatAt
          /\ call'[p].sentAt = now
        BY <2>1, <2>2 DEF Calls
    <2>4. now' = now /\ Looping(p)' = Looping(p) /\ passAt' = passAt
        BY <1>10 DEF Sent, Looping, shutdown
    <2> QED
        BY <1>1, <1>2, <1>10, <2>3, <2>4, Constants DEF TimersInTime, Sent
<1>7. CASE CallEnds(p)
    <2>1. call'[p] = NULL
        BY <1>1, <1>7 DEF CallEnds, TypeOK
    <2> QED
        BY <1>1, <1>7, <2>1 DEF CallEnds, TimersInTime, Looping, shutdown
<1>8. CASE Stop(p) \/ Drain(p) \/ Drained(p)
    <2>1. Looping(p)' => Looping(p)
        BY <1>1, <1>8 DEF Stop, Drain, Drained, Looping, TypeOK
    <2>2. now' = now /\ call' = call /\ passAt' = passAt
        BY <1>8 DEF Stop, Drain, Drained
    <2> QED
        BY <1>1, <2>1, <2>2 DEF TimersInTime
<1>9. CASE Gone(p)
    <2>1. call'[p] = NULL /\ ~Looping(p)'
        BY <1>1, <1>9 DEF Gone, TypeOK, Looping
    <2> QED
        BY <2>1 DEF TimersInTime
<1> QED
    BY <1>4, <1>5, <1>6, <1>7, <1>8, <1>9, <1>10 DEF Shutdown, Exit, ForcedExit, Crash

LEMMA BoundedStep ==
    ASSUME IInv, NEW p \in Workers,
           \/ Start(p) \/ Pass(p) \/ Heartbeat(p) \/ Sent(p) \/ CallEnds(p)
           \/ Shutdown(p) \/ Crash(p)
    PROVE  CallBounded(p)' /\ StopsFirst(p)'
<1>1. TypeOK /\ CallBounded(p) /\ StopsFirst(p) /\ now \in Nat
    BY DEF IInv, TypeOK
<1>2. CASE Start(p)
    <2>1. now' = now /\ phase'[p] = "up"
        BY <1>1, <1>2 DEF Start, TypeOK
    <2>2. call'[p] # NULL => call'[p] = NewCall
        <3>1. call[p] = NULL
            BY <1>1, <1>2 DEF Start, CallBounded
        <3> QED
            BY <1>1, <1>2, <3>1 DEF Start, Claims, TypeOK
    <2> QED
        BY <1>1, <2>1, <2>2, NewCallType DEF CallBounded, StopsFirst, Stopping
<1>3. CASE Pass(p)
    <2>1. /\ now' = now /\ phase' = phase /\ stopAt' = stopAt
          /\ phase[p] \in {"up", "closing"}
        BY <1>3 DEF Pass, Looping, shutdown
    <2>2. \/ call'[p] = call[p]
          \/ phase[p] = "up" /\ call'[p] = NewCall
        BY <1>1, <1>3 DEF Pass, Claims, TypeOK
    <2> QED
        BY <1>1, <2>1, <2>2, NewCallType DEF CallBounded, StopsFirst, Stopping
<1>4. CASE Heartbeat(p) \/ Sent(p)
    <2>1. call[p] \in Calls
        BY <1>1, <1>4 DEF Heartbeat, Sent, TypeOK, Calls
    <2>2. \/ call'[p] = [call[p] EXCEPT !.lease = now + LeaseMs,
                                        !.beatAt = now + HeartbeatMs]
          \/ call'[p] = [call[p] EXCEPT !.sentAt = now]
        BY <1>1, <1>4 DEF Heartbeat, Sent, TypeOK
    <2>3. call'[p].since = call[p].since
        BY <2>1, <2>2 DEF Calls
    <2>4. now' = now /\ phase' = phase /\ stopAt' = stopAt /\ drainAt' = drainAt
          /\ call[p] # NULL
        BY <1>4 DEF Heartbeat, Sent, shutdown
    <2> QED
        BY <1>1, <2>3, <2>4 DEF CallBounded, StopsFirst, Stopping
<1>5. CASE CallEnds(p)
    <2>1. call'[p] = NULL
        BY <1>1, <1>5 DEF CallEnds, TypeOK
    <2> QED
        BY <1>1, <1>5, <2>1 DEF CallEnds, CallBounded, StopsFirst, shutdown
<1>6. CASE Stop(p)
    <2>1. /\ now' = now /\ call' = call /\ phase[p] = "up"
          /\ phase'[p] = "closing" /\ stopAt'[p] = now
        BY <1>1, <1>6 DEF Stop, TypeOK
    <2> QED
        BY <1>1, <2>1 DEF CallBounded, StopsFirst
<1>7. CASE Drain(p)
    <2>1. /\ now' = now /\ call' = call /\ phase[p] = "closing"
          /\ phase'[p] = "draining" /\ stopAt' = stopAt /\ drainAt'[p] = now
        BY <1>1, <1>7 DEF Drain, TypeOK
    <2>2. stopAt[p] <= now
        BY <1>1 DEF TypeOK
    <2> QED
        BY <1>1, <2>1, <2>2 DEF CallBounded, StopsFirst, Stopping
<1>8. CASE Drained(p)
    <2>1. /\ call' = call /\ phase[p] = "draining" /\ phase'[p] = "flushing"
          /\ call[p] = NULL \/ now >= drainAt[p] + DrainMs
          /\ now' = now /\ stopAt' = stopAt
        BY <1>1, <1>8 DEF Drained, TypeOK
    <2>2. ASSUME call[p] # NULL
          PROVE  call[p].since + DrainMs <= now /\ call[p].since <= stopAt[p]
        <3>1. call[p].since <= stopAt[p] /\ stopAt[p] <= drainAt[p]
            BY <1>1, <2>1, <2>2 DEF CallBounded, StopsFirst, Stopping
        <3>2. /\ call[p].since \in Nat /\ stopAt[p] \in Nat
              /\ drainAt[p] \in Nat /\ DrainMs \in Nat
            BY <1>1, <2>2, Constants DEF TypeOK, DrainMs
        <3> QED
            BY <1>1, <2>1, <2>2, <3>1, <3>2
    <2> QED
        BY <1>1, <2>1, <2>2 DEF CallBounded, StopsFirst
<1>9. CASE Gone(p)
    <2>1. call'[p] = NULL /\ phase'[p] = "down"
        BY <1>1, <1>9 DEF Gone, TypeOK
    <2> QED
        BY <2>1 DEF CallBounded, StopsFirst
<1> QED
    BY <1>2, <1>3, <1>4, <1>5, <1>6, <1>7, <1>8, <1>9
       DEF Shutdown, Exit, ForcedExit, Crash

\* A presence row that is young enough survives any pass, and is never set back.
LEMMA BeatKeeps ==
    ASSUME TypeOK, NEW i \in Nat, NEW others \in SUBSET DOMAIN beats,
           Beat(i, others), NEW j \in others
    PROVE  j \in DOMAIN beats' /\ beats[j] <= beats'[j]
<1>1. beats'[j] = IF j = i THEN now ELSE beats[j]
    BY DEF Beat
<1>2. beats[j] \in 0..now /\ now \in Nat
    BY DEF TypeOK
<1> QED
    BY <1>1, <1>2 DEF Beat

LEMMA YoungIsFresh ==
    ASSUME IInv, NEW q \in Workers, Looping(q), now <= passAt[q] + 5 * MaintenanceMs
    PROVE  instance[q] \in Fresh
<1>1. instance[q] \in DOMAIN beats /\ passAt[q] <= beats[instance[q]]
    BY DEF IInv, Seen
<1>2. beats[instance[q]] \in Nat /\ passAt[q] \in Nat /\ now \in Nat
    BY <1>1 DEF IInv, TypeOK
<1> QED
    BY <1>1, <1>2, Constants DEF Fresh

LEMMA SeenStep ==
    ASSUME IInv, NEW p \in Workers, NEW q \in Workers,
           \/ Start(p) \/ Pass(p) \/ Heartbeat(p) \/ Sent(p) \/ CallEnds(p)
           \/ Shutdown(p) \/ Crash(p)
    PROVE  Seen(q)'
<1>1. TypeOK /\ Seen(q) /\ now \in Nat
    BY DEF IInv, TypeOK
<1>2. CASE Start(p)
    <2>1. lives' \in Nat /\ instance'[p] = lives' /\ passAt'[p] = now /\ now' = now
        BY <1>1, <1>2 DEF Start, TypeOK
    <2>2. Beat(lives', DOMAIN beats)
        BY <1>2 DEF Start
    <2>3. CASE q = p
        <3>1. lives' # NULL
            BY <2>1, Constants
        <3> QED
            BY <1>1, <2>1, <2>2, <2>3, <3>1 DEF Beat, Seen
    <2>4. CASE q # p /\ Looping(q) /\ now <= passAt[q] + 5 * MaintenanceMs
        <3>1. instance[q] \in DOMAIN beats /\ passAt[q] <= beats[instance[q]]
            BY <1>1, <2>4 DEF Seen
        <3>2. /\ instance[q] \in DOMAIN beats'
              /\ beats[instance[q]] <= beats'[instance[q]]
            BY <1>1, <2>1, <2>2, <3>1, BeatKeeps
        <3>3. /\ beats[instance[q]] \in Nat /\ passAt[q] \in Nat
              /\ beats'[instance[q]] \in Nat
            BY <1>1, <2>2, <3>1, <3>2 DEF TypeOK, Beat
        <3> QED
            BY <1>1, <1>2, <2>4, <3>1, <3>2, <3>3, OthersKept DEF Seen
    <2> QED
        BY <1>1, <1>2, <2>3, <2>4, OthersKept DEF Seen, Looping
<1>3. CASE Pass(p)
    <2>1. /\ instance' = instance /\ phase' = phase /\ passAt'[p] = now
          /\ Looping(p) /\ now' = now
        BY <1>1, <1>3 DEF Pass, TypeOK, shutdown
    <2>2. instance[p] \in Nat /\ instance[p] # NULL
        BY <1>1, <2>1 DEF IInv, Seen, TypeOK
    <2>3. PICK others \in {Fresh, DOMAIN beats} : Beat(instance[p], others)
        BY <1>3 DEF Pass
    <2>4. others \subseteq DOMAIN beats
        BY <2>3 DEF Fresh
    <2>5. CASE q = p
        BY <1>1, <2>1, <2>2, <2>3, <2>5 DEF Beat, Seen
    <2>6. CASE q # p /\ Looping(q) /\ now <= passAt[q] + 5 * MaintenanceMs
        <3>1. instance[q] \in others /\ passAt[q] <= beats[instance[q]]
            BY <1>1, <2>3, <2>6, YoungIsFresh DEF Seen
        <3>2. /\ instance[q] \in DOMAIN beats'
              /\ beats[instance[q]] <= beats'[instance[q]]
            BY <1>1, <2>2, <2>3, <2>4, <3>1, BeatKeeps
        <3>3. /\ beats[instance[q]] \in Nat /\ passAt[q] \in Nat
              /\ beats'[instance[q]] \in Nat
            BY <1>1, <2>3, <2>4, <3>1, <3>2 DEF TypeOK, Beat
        <3> QED
            BY <1>1, <1>3, <2>6, <3>1, <3>2, <3>3, OthersKept DEF Seen
    <2> QED
        BY <1>1, <1>3, <2>1, <2>5, <2>6, OthersKept DEF Seen, Looping
<1>4. CASE \/ Heartbeat(p) \/ Sent(p) \/ CallEnds(p)
           \/ Stop(p) \/ Drain(p) \/ Drained(p)
    <2>1. beats' = beats /\ instance' = instance /\ passAt' = passAt /\ now' = now
        BY <1>4 DEF Heartbeat, Sent, CallEnds, Stop, Drain, Drained, presence
    <2>2. Looping(q)' => Looping(q)
        BY <1>1, <1>4
           DEF Heartbeat, Sent, CallEnds, Stop, Drain, Drained, Looping, TypeOK,
               shutdown
    <2> QED
        BY <1>1, <2>1, <2>2 DEF Seen
<1>5. CASE Gone(p)
    <2>1. beats' = beats /\ (q = p => ~Looping(q)') /\ now' = now
        BY <1>1, <1>5 DEF Gone, TypeOK, Looping
    <2>2. q # p => /\ Looping(q)' = Looping(q) /\ instance'[q] = instance[q]
                   /\ passAt'[q] = passAt[q]
        BY <1>1, <1>5 DEF Gone, TypeOK, Looping
    <2> QED
        BY <1>1, <2>1, <2>2 DEF Seen
<1> QED
    BY <1>2, <1>3, <1>4, <1>5 DEF Shutdown, Exit, ForcedExit, Crash

LEMMA SweptStep ==
    ASSUME IInv, NEW p \in Workers, NEW q \in Workers,
           \/ Start(p) \/ Pass(p) \/ Heartbeat(p) \/ Sent(p) \/ CallEnds(p)
           \/ Shutdown(p) \/ Crash(p)
    PROVE  Swept(q)'
<1>1. TypeOK /\ Swept(q) /\ now \in Nat /\ orphans \subseteq Nat
    BY DEF IInv, TypeOK
<1>2. CASE Start(p) \/ Pass(p)
    <2>1. orphans' = {lease \in orphans : ~(lease < now)} /\ passAt'[p] = now
        BY <1>1, <1>2 DEF Start, Pass, Reclaim, TypeOK
    <2>2. CASE q = p
        BY <1>1, <2>1, <2>2 DEF Swept
    <2>3. CASE q # p
        <3>1. Looping(q)' = Looping(q) /\ passAt'[q] = passAt[q]
            BY <1>1, <1>2, <2>3, OthersKept DEF Looping
        <3> QED
            BY <1>1, <2>1, <3>1 DEF Swept
    <2> QED
        BY <2>2, <2>3
<1>3. CASE Heartbeat(p) \/ Sent(p) \/ CallEnds(p) \/ Stop(p) \/ Drain(p) \/ Drained(p)
    <2>1. orphans' = orphans /\ passAt' = passAt
        BY <1>3 DEF Heartbeat, Sent, CallEnds, Stop, Drain, Drained
    <2>2. Looping(q)' => Looping(q)
        BY <1>1, <1>3
           DEF Heartbeat, Sent, CallEnds, Stop, Drain, Drained, Looping, TypeOK,
               shutdown
    <2> QED
        BY <1>1, <2>1, <2>2 DEF Swept
<1>4. CASE Gone(p)
    <2>1. CASE q = p
        <3>1. ~Looping(q)'
            BY <1>1, <1>4, <2>1 DEF Gone, TypeOK, Looping
        <3> QED
            BY <3>1 DEF Swept
    <2>2. CASE q # p /\ Looping(q)
        <3>1. Looping(q)' = Looping(q) /\ passAt'[q] = passAt[q]
            BY <1>1, <1>4, <2>2 DEF Gone, TypeOK, Looping
        <3>2. ASSUME NEW lease \in orphans', lease \notin orphans
              PROVE  passAt[q] <= lease
            <4>1. call[p] # NULL /\ lease = call[p].lease
                BY <1>4, <3>2 DEF Gone
            <4>2. now <= lease
                BY <4>1, Leases DEF LeaseKept
            <4>3. passAt[q] <= now /\ passAt[q] \in Nat /\ lease \in Nat
                BY <1>1, <4>1 DEF TypeOK
            <4> QED
                BY <1>1, <4>2, <4>3
        <3> QED
            BY <1>1, <2>2, <3>1, <3>2 DEF Swept
    <2>3. CASE q # p /\ ~Looping(q)
        <3>1. ~Looping(q)'
            BY <1>1, <1>4, <2>3 DEF Gone, TypeOK, Looping
        <3> QED
            BY <3>1 DEF Swept
    <2> QED
        BY <2>1, <2>2, <2>3
<1> QED
    BY <1>2, <1>3, <1>4 DEF Shutdown, Exit, ForcedExit, Crash

LEMMA TickStep ==
    ASSUME IInv, Tick, NEW q \in Workers
    PROVE  /\ TimersInTime(q)' /\ Seen(q)' /\ CallBounded(q)'
           /\ StopsFirst(q)' /\ Swept(q)'
<1>1. /\ TypeOK /\ TimersInTime(q) /\ Seen(q) /\ CallBounded(q)
      /\ StopsFirst(q) /\ Swept(q) /\ now \in Nat
    BY DEF IInv, TypeOK
<1>2. /\ now' = now + 1 /\ phase' = phase /\ instance' = instance
      /\ beats' = beats /\ passAt' = passAt /\ call' = call
      /\ stopAt' = stopAt /\ drainAt' = drainAt /\ orphans' = orphans
      /\ InTime(q)
    BY DEF Tick, presence, shutdown
<1>3. passAt[q] \in Nat
    BY <1>1 DEF TypeOK
<1>4. call[q] # NULL => /\ call[q].beatAt \in Nat /\ call[q].since \in Nat
                        /\ call[q].sentAt # NULL => call[q].sentAt \in Nat
    BY <1>1 DEF TypeOK
<1>5. TimersInTime(q)'
    BY <1>1, <1>2, <1>3, <1>4, Constants DEF TimersInTime, InTime, Looping
<1>6. CallBounded(q)'
    <2>1. DrainMs \in Nat
        BY Constants DEF DrainMs
    <2> QED
        BY <1>1, <1>2, <1>4, <2>1 DEF CallBounded, Stopping
<1>7. Seen(q)'
    <2>1. now' <= passAt[q] + 5 * MaintenanceMs => now <= passAt[q] + 5 * MaintenanceMs
        BY <1>1, <1>2, <1>3, Constants
    <2> QED
        BY <1>1, <1>2, <2>1 DEF Seen, Looping
<1>8. StopsFirst(q)' /\ Swept(q)'
    BY <1>1, <1>2 DEF StopsFirst, Swept, Looping
<1> QED
    BY <1>5, <1>6, <1>7, <1>8

LEMMA StepIInv == IInv /\ [Next]_vars => IInv'
<1> SUFFICES ASSUME IInv, [Next]_vars PROVE IInv'
    OBVIOUS
<1>1. TypeOK'
    <2>1. \A p \in Workers : Looping(p) => instance[p] # NULL
        BY Constants DEF IInv, Seen, TypeOK
    <2> QED
        BY <2>1, TypeStep DEF IInv
<1>2. ASSUME NEW p \in Workers,
             \/ Start(p) \/ Pass(p) \/ Heartbeat(p) \/ Sent(p) \/ CallEnds(p)
             \/ Shutdown(p) \/ Crash(p),
             NEW q \in Workers
      PROVE  /\ TimersInTime(q)' /\ Seen(q)' /\ CallBounded(q)'
             /\ StopsFirst(q)' /\ Swept(q)'
    <2>1. Seen(q)' /\ Swept(q)'
        BY <1>2, SeenStep, SweptStep
    <2>2. CASE q = p
        BY <1>2, <2>1, <2>2, TimersStep, BoundedStep
    <2>3. CASE q # p
        <3>1. /\ now' = now /\ phase'[q] = phase[q]
              /\ passAt'[q] = passAt[q] /\ call'[q] = call[q]
              /\ stopAt'[q] = stopAt[q] /\ drainAt'[q] = drainAt[q]
            BY <1>2, <2>3, OthersKept DEF IInv
        <3>2. TimersInTime(q) /\ CallBounded(q) /\ StopsFirst(q)
            BY DEF IInv
        <3>3. TimersInTime(q)' /\ CallBounded(q)' /\ StopsFirst(q)'
            BY <3>1, <3>2 DEF TimersInTime, CallBounded, StopsFirst, Looping, Stopping
        <3> QED
            BY <2>1, <3>3
    <2> QED
        BY <2>2, <2>3
<1>3. CASE Tick
    BY <1>1, <1>3, TickStep DEF IInv
<1>4. CASE UNCHANGED vars
    BY <1>1, <1>4 DEF IInv, vars, presence, shutdown, TimersInTime, Seen,
                      CallBounded, StopsFirst, Swept, Looping, Stopping
<1> QED
    BY <1>1, <1>2, <1>3, <1>4 DEF IInv, Next

-----------------------------------------------------------------------------
(***************************************************************************)
(* The theorems.                                                           *)
(***************************************************************************)
\* Timers that are late by no more than Lag keep every process within the
\* bounds the properties below need.
THEOREM TimeInvariant == Spec => []IInv
BY InitIInv, StepIInv, PTL DEF Spec

\* Nobody reclaims a delivery whose process is alive and still calling,
\* however the process is shut down: its lease has not run out.
THEOREM LeasesAreKept == Spec => []LeaseKept
BY TimeInvariant, Leases, PTL

\* For four heartbeats after each of its passes a running worker is reported,
\* whatever POLL_MS and HEARTBEAT_MS are.
THEOREM LiveIsReported == Spec => []LiveReported
BY TimeInvariant, Reports, PTL

\* If its passes are less than four heartbeats apart, delays included, it is
\* reported at all times.
THEOREM FrequentPassesReport ==
    ASSUME PollMs + Lag < 4 * HeartbeatMs, PollMs + Lag <= 5 * MaintenanceMs
    PROVE  Spec => []((\E p \in Workers : Looping(p)) => WorkerStatus = "running")
<1>1. IInv => ((\E p \in Workers : Looping(p)) => WorkerStatus = "running")
    BY ReportsAlways
<1> QED
    BY <1>1, TimeInvariant, PTL

\* A shutdown leaves a call in flight only if the resolution of its name, which
\* nothing bounds, took up the drain margin less the delay of a timer.
THEOREM ShutdownDrains == Spec => []NoCallAbandoned
BY TimeInvariant, Drains, PTL

\* A running row that a dead process left is reclaimed soon after its lease.
THEOREM OrphansAreReclaimed == Spec => []OrphansReclaimed
BY TimeInvariant, Reclaims, PTL
=============================================================================
