------------------------- MODULE SubscriptionProofs -------------------------
(***************************************************************************)
(* Theorems about the subscriptions of WebhookOut.  The PATCH handler and  *)
(* the worker write back values computed from a row they read in an        *)
(* earlier statement, so every invariant of a subscription has to hold of  *)
(* the rows read and not yet written as well.                              *)
(***************************************************************************)
EXTENDS WebhookOutProofs

-----------------------------------------------------------------------------
(***************************************************************************)
(* What a step may do to a subscription and to a row that was read.        *)
(***************************************************************************)
SubStep(s) ==
    \/ subs'[s] = subs[s]
    \/ \E status \in {"active", "paused", "deleted"} :
          /\ subs'[s] = NewSub(s, status)
          /\ status # "deleted" => subs[s].status = "unborn"
    \/ \E p \in Procs :
          /\ stage[p] = "patch" /\ seen[p].sub = s
          /\ subs'[s] = SubStore!Updated(seen[p].row, seen[p].patch)
    \/ \E p \in Procs :
          /\ stage[p] = "record" /\ seen[p].sub = s
          /\ subs'[s] = SubStore!Recorded(subs[s], seen[p].row,
                                          Head(todo[p]).status)

SeenStep(p) ==
    /\ stage'[p] = "patch" =>
          \/ stage[p] = "patch" /\ seen'[p] = seen[p]
          \/ \E s \in Subs : \E patch \in Patches[s] :
                seen'[p] = [sub |-> s, row |-> subs[s], patch |-> patch]
    /\ stage'[p] = "record" =>
          \/ stage[p] = "record" /\ seen'[p] = seen[p]
          \/ \E s \in Subs :
                seen'[p] = [sub |-> s, row |-> subs[s],
                            patch |-> SubStore!NoChange]

SubsStep == (\A s \in Subs : SubStep(s)) /\ (\A p \in Procs : SeenStep(p))

\* A step that leaves subscriptions alone and reads none.
LEMMA NoRead ==
    ASSUME TypeInv, UNCHANGED <<subs, seen>>,
           \A p \in Procs : stage'[p] = stage[p]
                               \/ stage'[p] \notin {"patch", "record"}
    PROVE  SubsStep
BY DEF SubsStep, SubStep, SeenStep

\* A step that takes the process p to a stage at which it holds no row.
LEMMA Dropped ==
    ASSUME TypeInv, NEW p \in Procs, NEW next, NEW row,
           next \notin {"patch", "record"},
           stage' = [stage EXCEPT ![p] = next],
           seen' = [seen EXCEPT ![p] = row]
    PROVE  \A q \in Procs : SeenStep(q)
BY DEF SeenStep, TypeInv, TypeOK

LEMMA ApiSubs ==
    ASSUME TypeInv, NEW p \in Procs, ApiStep(p)
    PROVE  SubsStep
<1>1. CASE \/ \E type \in Types : Publish(p, type)
           \/ \E s \in Subs : Test(p, s)
           \/ \E s \in Subs : \E from \in 0..now :
                 \E to \in (from + 1)..(now + 1) : Replay(p, s, from, to)
           \/ \E d \in DOMAIN deliveries : Redeliver(p, d) \/ Cancel(p, d)
    <2>1. UNCHANGED <<subs, seen, stage>>
        BY <1>1 DEF Publish, Test, Replay, Redeliver, Cancel, step
    <2> QED
        BY <2>1, NoRead
<1>2. ASSUME NEW s \in Subs, NEW status \in {"active", "paused", "deleted"},
             status # "deleted" => subs[s].status = "unborn",
             subs' = [subs EXCEPT ![s] = NewSub(s, status)],
             UNCHANGED step
      PROVE  SubsStep
    <2>1. \A q \in Procs : SeenStep(q)
        BY <1>2 DEF SeenStep, step
    <2>2. \A x \in Subs : SubStep(x)
        <3> SUFFICES ASSUME NEW x \in Subs PROVE SubStep(x)
            OBVIOUS
        <3>1. CASE x = s
            <4>1. subs'[x] = NewSub(x, status)
                BY <1>2, <3>1 DEF TypeInv, TypeOK
            <4> QED
                BY <1>2, <3>1, <4>1 DEF SubStep
        <3>2. CASE x # s
            BY <1>2, <3>2 DEF SubStep, TypeInv, TypeOK
        <3> QED
            BY <3>1, <3>2
    <2> QED
        BY <2>1, <2>2 DEF SubsStep
<1>3. ASSUME NEW s \in Subs,
             \/ \E status \in {"active", "paused"} : Create(p, s, status)
             \/ Remove(p, s)
      PROVE  SubsStep
    BY <1>2, <1>3 DEF Create, Remove
<1>4. ASSUME NEW s \in Subs, NEW patch \in Patches[s], UpdateRead(p, s, patch)
      PROVE  SubsStep
    <2>1. UNCHANGED subs
        BY <1>4 DEF UpdateRead, db
    <2>2. \A q \in Procs : SeenStep(q)
        BY <1>4 DEF UpdateRead, SeenStep, TypeInv, TypeOK
    <2> QED
        BY <2>1, <2>2 DEF SubsStep, SubStep
<1>5. CASE UpdateWrite(p)
    <2>1. \A q \in Procs : SeenStep(q)
        BY <1>5, Dropped DEF UpdateWrite
    <2>2. ASSUME NEW x \in Subs PROVE SubStep(x)
        <3>1. CASE x = seen[p].sub /\ Exists(x)
            <4>1. /\ stage[p] = "patch"
                  /\ subs'[x] = SubStore!Updated(seen[p].row, seen[p].patch)
                BY <1>5, <3>1 DEF UpdateWrite, TypeInv, TypeOK
            <4> QED
                BY <3>1, <4>1 DEF SubStep
        <3>2. CASE ~(x = seen[p].sub /\ Exists(x))
            BY <1>5, <3>2 DEF SubStep, UpdateWrite, TypeInv, TypeOK
        <3> QED
            BY <3>1, <3>2
    <2> QED
        BY <2>1, <2>2 DEF SubsStep
<1> QED
    BY <1>1, <1>3, <1>4, <1>5 DEF ApiStep

LEMMA RecordOutcomeSubs ==
    ASSUME TypeInv, NEW p \in Procs, RecordOutcome(p)
    PROVE  SubsStep
<1>1. \A q \in Procs : SeenStep(q)
    <2>1. /\ stage' = [stage EXCEPT ![p] =
                         Following(Tail(todo[p]), at[p], maint[p])]
          /\ seen' = [seen EXCEPT ![p] = NULL]
        BY DEF RecordOutcome, Applied
    <2>2. Following(Tail(todo[p]), at[p], maint[p]) \notin {"patch", "record"}
        BY FollowingType
    <2> HIDE DEF Following
    <2> QED
        BY <2>1, <2>2, Dropped
<1>2. ASSUME NEW x \in Subs PROVE SubStep(x)
    <2>1. CASE x = seen[p].sub /\ Exists(x)
        <3>1. /\ stage[p] = "record"
              /\ subs'[x] = SubStore!Recorded(subs[x], seen[p].row,
                                              Head(todo[p]).status)
            BY <2>1 DEF RecordOutcome, TypeInv, TypeOK
        <3> QED
            BY <2>1, <3>1 DEF SubStep
    <2>2. CASE ~(x = seen[p].sub /\ Exists(x))
        BY <2>2 DEF SubStep, RecordOutcome, TypeInv, TypeOK
    <2> QED
        BY <2>1, <2>2
<1> QED
    BY <1>1, <1>2 DEF SubsStep

LEMMA ReadSubSubs ==
    ASSUME TypeInv, NEW p \in Procs, ReadSub(p)
    PROVE  SubsStep
<1> DEFINE s == Head(todo[p]).sub
<1>1. /\ UNCHANGED subs /\ stage[p] = "apply" /\ todo[p] # << >>
      /\ Head(todo[p]) # NULL
    BY DEF ReadSub, db, TypeInv, StageOK
<1>2. CASE Exists(s)
    <2>1. /\ seen' = [seen EXCEPT ![p] =
                        [sub |-> s, row |-> subs[s], patch |-> SubStore!NoChange]]
          /\ stage' = [stage EXCEPT ![p] = "record"]
        BY <1>2 DEF ReadSub
    <2>2. s \in Subs
        <3>1. Head(todo[p]) \in Settled \cup {NULL}
            BY <1>1 DEF TypeInv, TypeOK
        <3> QED
            BY <1>1, <3>1 DEF Settled
    <2>3. \A q \in Procs : SeenStep(q)
        BY <2>1, <2>2 DEF SeenStep, TypeInv, TypeOK
    <2> QED
        BY <1>1, <2>3 DEF SubsStep, SubStep
<1>3. CASE ~Exists(s)
    <2>1. /\ stage' = [stage EXCEPT ![p] =
                         Following(Tail(todo[p]), at[p], maint[p])]
          /\ UNCHANGED seen
        BY <1>3 DEF ReadSub, Applied
    <2>2. Following(Tail(todo[p]), at[p], maint[p]) \notin {"patch", "record"}
        BY FollowingType
    <2> QED
        BY <1>1, <2>1, <2>2, NoRead DEF TypeInv, TypeOK
<1> QED
    BY <1>2, <1>3

LEMMA SubsEffect ==
    ASSUME TypeInv, [Next]_vars
    PROVE  SubsStep
<1>1. CASE Tick \/ UNCHANGED vars
    <2>1. UNCHANGED <<subs, seen, stage>>
        BY <1>1 DEF Tick, vars, db, step
    <2> QED
        BY <2>1, NoRead
<1>2. ASSUME NEW p \in Procs, Throws(p) \/ Down(p)
      PROVE  SubsStep
    <2>1. UNCHANGED subs
        BY <1>2 DEF Throws, Down, db
    <2>2. \A q \in Procs : SeenStep(q)
        BY <1>2 DEF Throws, Down, SeenStep, TypeInv, TypeOK
    <2> QED
        BY <2>1, <2>2 DEF SubsStep, SubStep
<1>3. ASSUME NEW p \in Procs, NEW passAt, NEW t, NEW sch,
             Sweep(p, passAt, t, sch)
      PROVE  SubsStep
    <2>1. PICK rest : stage' = [stage EXCEPT ![p] =
                                   Following(rest, passAt, maint[p])]
        BY <1>3 DEF Sweep
    <2>2. UNCHANGED <<subs, seen>>
        BY <1>3 DEF Sweep
    <2> QED
        BY <2>1, <2>2, FollowingType, NoRead DEF TypeInv, TypeOK
<1>4. ASSUME NEW p \in Procs, Start(p) \/ BeginPass(p)
      PROVE  SubsStep
    <2>1. CASE \E passAt, t, sch : Sweep(p, passAt, t, sch)
        BY <1>3, <2>1
    <2>2. CASE /\ stage' = [stage EXCEPT ![p] = "idle"]
               /\ UNCHANGED <<subs, seen>>
        BY <2>2, NoRead DEF TypeInv, TypeOK
    <2> QED
        BY <1>4, <2>1, <2>2 DEF Start, BeginPass, db
<1>5. ASSUME NEW p \in Procs, Reread(p)
      PROVE  SubsStep
    <2>1. UNCHANGED <<subs, seen>>
        BY <1>5 DEF Reread, db
    <2>2. PICK next : /\ stage' = [stage EXCEPT ![p] = next]
                      /\ next \notin {"patch", "record"}
        BY <1>5, FollowingType DEF Reread, Applied
    <2> QED
        BY <2>1, <2>2, NoRead DEF TypeInv, TypeOK
<1>6. ASSUME NEW p \in Procs,
             \/ Purge(p) \/ Claim(p) \/ StopClaiming(p)
             \/ \E c \in calls[p] :
                   \/ Heartbeat(p, c) \/ Discard(p, c) \/ FinishError(p, c)
                   \/ \E outcome \in Outcome : Finish(p, c, outcome)
      PROVE  SubsStep
    <2>1. UNCHANGED <<subs, seen>>
        BY <1>6 DEF Purge, Claim, StopClaiming, Heartbeat, Discard, FinishError,
                    Finish, db, step
    <2>2. \/ UNCHANGED stage
          \/ \E next \in {"claim", "idle", "reread"} :
                stage' = [stage EXCEPT ![p] = next]
        BY <1>6 DEF Purge, Claim, StopClaiming, Heartbeat, Discard, FinishError,
                    Finish, db, step
    <2> QED
        BY <2>1, <2>2, NoRead DEF TypeInv, TypeOK
<1>7. ASSUME NEW p \in Procs, WorkerStep(p) \/ FailureStep(p)
      PROVE  SubsStep
    BY <1>2, <1>4, <1>5, <1>6, <1>7, ReadSubSubs, RecordOutcomeSubs
       DEF WorkerStep, FailureStep, Continue, CallEnds, ApplyNull, RereadGone,
           DatabaseError, Crash, Exit
<1> QED
    BY <1>1, <1>7, ApiSubs DEF Next, ProcessStep

-----------------------------------------------------------------------------
(***************************************************************************)
(* The outcomes to be applied are final ones: a retry is never recorded    *)
(* with the subscription.                                                  *)
(***************************************************************************)
TodoOK(p) ==
    /\ stage[p] \in {"apply", "record"} =>
          \A i \in 1..Len(todo[p]) :
             todo[p][i] # NULL => todo[p][i].status # "retrying"
    /\ stage[p] = "record" => todo[p] # << >> /\ todo[p][1] # NULL
    /\ stage[p] = "reread" => Len(todo[p]) = 1

TodoInv == TypeInv /\ \A p \in Procs : TodoOK(p)

\* A step that changes the list of one process, or none.
LEMMA SameTodo ==
    ASSUME TypeInv, NEW q \in Procs, TodoOK(q),
           stage'[q] = stage[q], todo'[q] = todo[q]
    PROVE  TodoOK(q)'
BY DEF TodoOK

LEMMA NoTodo ==
    ASSUME NEW q \in Procs, stage'[q] \notin {"apply", "record", "reread"}
    PROVE  TodoOK(q)'
BY DEF TodoOK

LEMMA AppliedTodo ==
    ASSUME TodoInv, NEW p \in Procs, Applied(p), todo[p] # << >>,
           stage[p] \in {"apply", "record", "reread"}
    PROVE  \A q \in Procs : TodoOK(q)'
<1> DEFINE rest == Tail(todo[p])
<1>1. /\ todo' = [todo EXCEPT ![p] = rest]
      /\ stage' = [stage EXCEPT ![p] = Following(rest, at[p], maint[p])]
    BY DEF Applied
<1>2. todo[p] \in Seq(Settled \cup {NULL})
    BY DEF TodoInv, TypeInv, TypeOK
<1>3. /\ rest \in Seq(Settled \cup {NULL})
      /\ Len(rest) = Len(todo[p]) - 1
      /\ \A i \in 1..Len(rest) : rest[i] = todo[p][i + 1]
    BY <1>2
<1>4. stage'[p] \notin {"record", "reread"}
    BY <1>1, FollowingType DEF TodoInv, TypeInv, TypeOK
<1>5. todo'[p] = rest
    BY <1>1 DEF TodoInv, TypeInv, TypeOK
<1>6. stage[p] = "reread" => rest = << >>
    BY <1>2, <1>3 DEF TodoInv, TodoOK
<1>7. stage[p] = "reread" => stage'[p] # "apply"
    BY <1>1, <1>6 DEF Following, TodoInv, TypeInv, TypeOK
<1>8. stage[p] # "reread" =>
         \A i \in 1..Len(rest) : rest[i] # NULL => rest[i].status # "retrying"
    <2> SUFFICES ASSUME stage[p] # "reread", NEW i \in 1..Len(rest),
                        rest[i] # NULL
                 PROVE  rest[i].status # "retrying"
        OBVIOUS
    <2>1. i + 1 \in 1..Len(todo[p]) /\ rest[i] = todo[p][i + 1]
        BY <1>2, <1>3
    <2> QED
        BY <2>1 DEF TodoInv, TodoOK
<1>9. TodoOK(p)'
    BY <1>4, <1>5, <1>7, <1>8 DEF TodoOK
<1>10. \A q \in Procs : q # p => TodoOK(q)'
    BY <1>1, SameTodo DEF TodoInv, TypeInv, TypeOK
<1> QED
    BY <1>9, <1>10

LEMMA SweepTodo ==
    ASSUME TodoInv, NEW p \in Procs, NEW passAt, NEW t, NEW sch,
           Sweep(p, passAt, t, sch)
    PROVE  \A q \in Procs : TodoOK(q)'
<1> DEFINE result(d) == Decide(deliveries[d], "retryable", t, sch)
           expired == Expired(deliveries, t)
           settled == {d \in expired : Holds(deliveries[d], deliveries[d].owner)}
           unapplied == {d \in expired :
                            d \in settled => result(d).status # "retrying"}
           n == Cardinality(unapplied)
           entry(d) == IF d \in settled
                       THEN [id |-> d, sub |-> deliveries[d].sub,
                             status |-> result(d).status]
                       ELSE NULL
<1>1. PICK order \in Listed(unapplied) :
         LET rest == [i \in 1..n |-> entry(order[i])]
         IN  /\ todo' = [todo EXCEPT ![p] = rest]
             /\ stage' = [stage EXCEPT ![p] = Following(rest, passAt, maint[p])]
    BY DEF Sweep
<1> DEFINE rest == [i \in 1..n |-> entry(order[i])]
<1>2. IsFiniteSet(unapplied)
    <2>1. unapplied \subseteq 1..lastId
        BY DEF Expired, TodoInv, TypeInv, TypeOK
    <2>3. 1 \in Int /\ lastId \in Int
        BY DEF TodoInv, TypeInv, TypeOK
    <2>2. IsFiniteSet(1..lastId)
        BY <2>3, FS_Interval
    <2> QED
        BY <2>1, <2>2, FS_Subset
<1>3. n \in Nat /\ \A i \in 1..n : order[i] \in unapplied
    BY <1>1, <1>2, ListedType
<1>4. \A d \in unapplied : entry(d) # NULL => entry(d).status # "retrying"
    OBVIOUS
<1>5. /\ Len(rest) = n
      /\ \A i \in 1..n : rest[i] # NULL => rest[i].status # "retrying"
    BY <1>3, <1>4
<1>6. /\ todo' = [todo EXCEPT ![p] = rest]
      /\ stage' = [stage EXCEPT ![p] = Following(rest, passAt, maint[p])]
    BY <1>1
<1> HIDE DEF rest, n
<1>7. /\ todo'[p] = rest
      /\ stage'[p] = Following(rest, passAt, maint[p])
    BY <1>6 DEF TodoInv, TypeInv, TypeOK
<1>9. stage'[p] \notin {"record", "reread"}
    BY <1>7, FollowingType
<1>10. TodoOK(p)'
    BY <1>5, <1>7, <1>9 DEF TodoOK
<1>8. \A q \in Procs : q # p => TodoOK(q)'
    BY <1>6, SameTodo DEF TodoInv, TypeInv, TypeOK
<1> QED
    BY <1>8, <1>10

\* A step that takes the process p to a stage without outcomes to apply.
LEMMA LeavesTodo ==
    ASSUME TodoInv, NEW p \in Procs,
           NEW next \in {"down", "idle", "claim", "patch"},
           stage' = [stage EXCEPT ![p] = next],
           \A q \in Procs : q # p => todo'[q] = todo[q]
    PROVE  \A q \in Procs : TodoOK(q)'
<1>1. stage'[p] = next /\ \A q \in Procs : q # p => stage'[q] = stage[q]
    BY DEF TodoInv, TypeInv, TypeOK
<1> QED
    BY <1>1, NoTodo, SameTodo DEF TodoInv

LEMMA ContinueTodo ==
    ASSUME TodoInv, NEW p \in Procs,
           ReadSub(p) \/ RecordOutcome(p) \/ Reread(p)
    PROVE  \A q \in Procs : TodoOK(q)'
<1>1. todo[p] # << >> /\ stage[p] \in {"apply", "record", "reread"}
    BY DEF ReadSub, RecordOutcome, Reread, TodoInv, TypeInv, StageOK
<1>2. CASE Applied(p)
    BY <1>1, <1>2, AppliedTodo
<1>3. CASE ~Applied(p)
    <2>1. /\ UNCHANGED todo
          /\ \/ /\ stage[p] = "apply" /\ Head(todo[p]) # NULL
                /\ stage' = [stage EXCEPT ![p] = "record"]
             \/ /\ stage[p] = "reread" /\ Head(todo[p]).status # "retrying"
                /\ stage' = [stage EXCEPT ![p] = "apply"]
        BY <1>3 DEF ReadSub, RecordOutcome, Reread
    <2>2. todo[p] \in Seq(Settled \cup {NULL}) /\ Head(todo[p]) = todo[p][1]
        BY <1>1 DEF TodoInv, TypeInv, TypeOK
    <2>3. TodoOK(p)'
        BY <1>1, <2>1, <2>2 DEF TodoOK, TodoInv, TypeInv, TypeOK
    <2>4. \A q \in Procs : q # p => TodoOK(q)'
        BY <2>1, SameTodo DEF TodoInv, TypeInv, TypeOK
    <2> QED
        BY <2>3, <2>4
<1> QED
    BY <1>2, <1>3

LEMMA TodoStep ==
    ASSUME TodoInv, [Next]_vars
    PROVE  \A q \in Procs : TodoOK(q)'
<1>1. ASSUME UNCHANGED <<stage, todo>>
      PROVE  \A q \in Procs : TodoOK(q)'
    BY <1>1, SameTodo DEF TodoInv
<1>2. CASE Tick \/ UNCHANGED vars
    BY <1>1, <1>2 DEF Tick, vars, step
<1>3. ASSUME NEW p \in Procs, ApiStep(p)
      PROVE  \A q \in Procs : TodoOK(q)'
    <2>1. CASE UNCHANGED <<stage, todo>>
        BY <1>1, <2>1
    <2>2. CASE /\ UNCHANGED todo
               /\ \E next \in {"patch", "idle"} :
                     stage' = [stage EXCEPT ![p] = next]
        BY <2>2, LeavesTodo
    <2>3. ASSUME NEW s \in Subs, NEW patch \in Patches[s], UpdateRead(p, s, patch)
          PROVE  UNCHANGED todo /\ stage' = [stage EXCEPT ![p] = "patch"]
        BY <2>3 DEF UpdateRead
    <2>4. UpdateWrite(p) =>
             UNCHANGED todo /\ stage' = [stage EXCEPT ![p] = "idle"]
        BY DEF UpdateWrite
    <2> QED
        BY <1>3, <2>1, <2>2, <2>3, <2>4
           DEF ApiStep, Publish, Test, Replay, Redeliver, Cancel, Create, Remove,
               step
<1>4. ASSUME NEW p \in Procs,
             \/ Throws(p) \/ Down(p) \/ Purge(p) \/ Claim(p)
      PROVE  \A q \in Procs : TodoOK(q)'
    <2>1. /\ \E next \in {"down", "idle", "claim"} :
                stage' = [stage EXCEPT ![p] = next]
          /\ todo' = todo \/ todo' = [todo EXCEPT ![p] = << >>]
        BY <1>4 DEF Throws, Down, Purge, Claim
    <2>2. \A q \in Procs : q # p => todo'[q] = todo[q]
        BY <2>1 DEF TodoInv, TypeInv, TypeOK
    <2> QED
        BY <2>1, <2>2, LeavesTodo
<1>5. ASSUME NEW p \in Procs, Start(p) \/ BeginPass(p)
      PROVE  \A q \in Procs : TodoOK(q)'
    <2>1. CASE \E passAt, t, sch : Sweep(p, passAt, t, sch)
        BY <2>1, SweepTodo
    <2>2. CASE stage' = [stage EXCEPT ![p] = "idle"] /\ UNCHANGED todo
        BY <2>2, LeavesTodo
    <2> QED
        BY <1>5, <2>1, <2>2 DEF Start, BeginPass
<1>6. ASSUME NEW p \in Procs, NEW c \in calls[p], NEW outcome \in Outcome,
             Finish(p, c, outcome)
      PROVE  \A q \in Procs : TodoOK(q)'
    <2>1. PICK entry : todo' = [todo EXCEPT ![p] = <<entry>>]
        BY <1>6 DEF Finish
    <2>2. stage' = [stage EXCEPT ![p] = "reread"]
        BY <1>6 DEF Finish
    <2>3. TodoOK(p)'
        BY <2>1, <2>2 DEF TodoOK, TodoInv, TypeInv, TypeOK
    <2>4. \A q \in Procs : q # p => TodoOK(q)'
        BY <2>1, <2>2, SameTodo DEF TodoInv, TypeInv, TypeOK
    <2> QED
        BY <2>3, <2>4
<1>7. ASSUME NEW p \in Procs,
             \/ StopClaiming(p)
             \/ \E c \in calls[p] :
                   Heartbeat(p, c) \/ Discard(p, c) \/ FinishError(p, c)
      PROVE  \A q \in Procs : TodoOK(q)'
    BY <1>1, <1>7 DEF StopClaiming, Heartbeat, Discard, FinishError, step
<1>8. ASSUME NEW p \in Procs, WorkerStep(p) \/ FailureStep(p)
      PROVE  \A q \in Procs : TodoOK(q)'
    BY <1>4, <1>5, <1>6, <1>7, <1>8, ContinueTodo
       DEF WorkerStep, FailureStep, Continue, CallEnds, ApplyNull, RereadGone,
           DatabaseError, Crash, Exit
<1> QED
    BY <1>2, <1>3, <1>8 DEF Next, ProcessStep

-----------------------------------------------------------------------------
(***************************************************************************)
(* The failure threshold.                                                  *)
(***************************************************************************)
BelowThreshold(row) == row.status = "active" => row.failures < DisableAfter

ThresholdInv ==
    /\ TodoInv
    /\ \A s \in Subs : BelowThreshold(subs[s])
    /\ \A p \in Procs :
          stage[p] \in {"patch", "record"} => BelowThreshold(seen[p].row)

\* A PATCH makes a subscription active only with the counter reset.
LEMMA UpdatedBelow ==
    ASSUME NEW read \in SubStore!SubRow, NEW patch \in SubStore!PatchBody,
           BelowThreshold(read)
    PROVE  BelowThreshold(SubStore!Updated(read, patch))
BY BoundsAssumption
   DEF BelowThreshold, SubStore!Updated, SubStore!SubRow, SubStore!PatchBody,
       SubStore!PatchField

\* A final outcome disables the subscription that reaches the threshold.
LEMMA RecordedBelow ==
    ASSUME NEW row \in SubStore!SubRow, NEW read \in SubStore!SubRow,
           NEW outcome \in {"succeeded", "failed"}, BelowThreshold(read)
    PROVE  BelowThreshold(SubStore!Recorded(row, read, outcome))
<1> DEFINE failures == IF outcome = "succeeded" THEN 0 ELSE read.failures + 1
           disable == /\ outcome = "failed"
                      /\ read.status = "active"
                      /\ failures >= DisableAfter
           new == SubStore!Recorded(row, read, outcome)
<1>1. /\ new.failures = failures
      /\ new.status = IF disable THEN "disabled" ELSE read.status
    BY DEF SubStore!Recorded, SubStore!SubRow
<1>2. failures \in Nat /\ DisableAfter \in Nat \ {0}
    BY BoundsAssumption DEF SubStore!SubRow
<1> HIDE DEF new
<1>3. BelowThreshold(new)
    BY <1>1, <1>2 DEF BelowThreshold
<1> QED
    BY <1>3 DEF new

LEMMA ThresholdStep == ThresholdInv /\ [Next]_vars => ThresholdInv'
<1> SUFFICES ASSUME ThresholdInv, [Next]_vars PROVE ThresholdInv'
    OBVIOUS
<1>1. TodoInv'
    BY TypeInvStep, TodoStep DEF ThresholdInv, TodoInv
<1>2. SubsStep /\ TypeInv
    BY SubsEffect DEF ThresholdInv, TodoInv
<1>3. ASSUME NEW s \in Subs PROVE BelowThreshold(subs'[s])
    <2>1. CASE subs'[s] = subs[s]
        BY <2>1 DEF ThresholdInv
    <2>2. CASE \E status \in {"active", "paused", "deleted"} :
                  subs'[s] = NewSub(s, status)
        BY <2>2, BoundsAssumption DEF NewSub, BelowThreshold
    <2>3. ASSUME NEW p \in Procs, stage[p] = "patch",
                 subs'[s] = SubStore!Updated(seen[p].row, seen[p].patch)
          PROVE  BelowThreshold(subs'[s])
        <3>1. seen[p] \in Read /\ BelowThreshold(seen[p].row)
            BY <1>2, <2>3 DEF ThresholdInv, TypeInv, StageOK
        <3> QED
            BY <2>3, <3>1, UpdatedBelow DEF Read
    <2>4. ASSUME NEW p \in Procs, stage[p] = "record",
                 subs'[s] = SubStore!Recorded(subs[s], seen[p].row,
                                              Head(todo[p]).status)
          PROVE  BelowThreshold(subs'[s])
        <3>1. seen[p] \in Read /\ BelowThreshold(seen[p].row)
            BY <1>2, <2>4 DEF ThresholdInv, TypeInv, StageOK
        <3>2. TodoOK(p)
            BY DEF ThresholdInv, TodoInv
        <3>3. /\ todo[p] \in Seq(Settled \cup {NULL}) /\ todo[p] # << >>
              /\ todo[p][1] # NULL
            BY <1>2, <2>4, <3>2 DEF TypeInv, TypeOK, TodoOK
        <3>4. /\ Head(todo[p]) = todo[p][1] /\ 1 \in 1..Len(todo[p])
              /\ Head(todo[p]) \in Settled
            BY <3>3
        <3>5. Head(todo[p]).status \in {"succeeded", "failed"}
            BY <2>4, <3>2, <3>3, <3>4 DEF TodoOK, Settled
        <3>6. subs[s] \in SubStore!SubRow
            BY <1>2 DEF TypeInv, TypeOK
        <3> QED
            BY <2>4, <3>1, <3>5, <3>6, RecordedBelow DEF Read
    <2> QED
        BY <1>2, <2>1, <2>2, <2>3, <2>4 DEF SubsStep, SubStep
<1>4. ASSUME NEW p \in Procs, stage'[p] \in {"patch", "record"}
      PROVE  BelowThreshold(seen'[p].row)
    <2>1. SeenStep(p)
        BY <1>2 DEF SubsStep
    <2>2. CASE seen'[p] = seen[p] /\ stage[p] \in {"patch", "record"}
        BY <2>2 DEF ThresholdInv
    <2>3. CASE \E s \in Subs : \E patch :
                  seen'[p] = [sub |-> s, row |-> subs[s], patch |-> patch]
        BY <2>3 DEF ThresholdInv
    <2> QED
        BY <1>4, <2>1, <2>2, <2>3 DEF SeenStep
<1> QED
    BY <1>1, <1>3, <1>4 DEF ThresholdInv, BelowThreshold

LEMMA ThresholdInit == Init => ThresholdInv
<1> SUFFICES ASSUME Init PROVE ThresholdInv
    OBVIOUS
<1>1. TypeInv
    BY TypeInvInit
<1>2. \A p \in Procs : TodoOK(p)
    BY DEF Init, TodoOK
<1>3. \A s \in Subs : BelowThreshold(subs[s])
    BY BoundsAssumption DEF Init, NewSub, BelowThreshold
<1>4. \A p \in Procs : stage[p] \notin {"patch", "record"}
    BY DEF Init
<1> QED
    BY <1>1, <1>2, <1>3, <1>4 DEF ThresholdInv, TodoInv

\* A subscription at the failure threshold is never active, however the two
\* read-modify-write pairs of PATCH and of the workers interleave.
THEOREM FailingIsNotActive == Spec => []ActiveBelowThreshold
<1>1. Init => ThresholdInv
    BY ThresholdInit
<1>2. ThresholdInv /\ [Next]_vars => ThresholdInv'
    BY ThresholdStep
<1>3. ThresholdInv => ActiveBelowThreshold
    BY DEF ThresholdInv, BelowThreshold, ActiveBelowThreshold
<1> QED
    BY <1>1, <1>2, <1>3, PTL DEF Spec
-----------------------------------------------------------------------------
(***************************************************************************)
(* One process.  Nothing comes between the read of a subscription and the  *)
(* write of the row that was read, so that what is written back is based   *)
(* on what the table holds.                                                *)
(***************************************************************************)
OneProcess == \A p, q \in Procs : p = q

CurrentInv ==
    /\ TypeInv
    /\ \A p \in Procs :
          stage[p] \in {"patch", "record"} => seen[p].row = subs[seen[p].sub]

\* The only process changes no subscription while it holds a row it read.
LEMMA NoWriteBetween ==
    ASSUME OneProcess, TypeInv, [Next]_vars, NEW p \in Procs,
           stage'[p] \in {"patch", "record"}
    PROVE  UNCHANGED subs
<1>1. CASE Tick \/ UNCHANGED vars
    BY <1>1 DEF Tick, vars, db
<1>2. CASE ApiStep(p)
    <2>1. CASE UpdateWrite(p)
        BY <2>1 DEF UpdateWrite, TypeInv, TypeOK
    <2>2. CASE \E s \in Subs : \/ Remove(p, s)
                              \/ \E status \in {"active", "paused"} :
                                    Create(p, s, status)
        BY <2>2 DEF Create, Remove, Serves, Idle, step
    <2>3. CASE UNCHANGED subs
        BY <2>3
    <2> QED
        BY <1>2, <2>1, <2>2, <2>3 DEF ApiStep, Publish, Test, Replay, Redeliver,
                                      Cancel, UpdateRead, db
<1>3. CASE RecordOutcome(p)
    <2>1. stage' = [stage EXCEPT ![p] =
                       Following(Tail(todo[p]), at[p], maint[p])]
        BY <1>3 DEF RecordOutcome, Applied
    <2>2. Following(Tail(todo[p]), at[p], maint[p]) \notin {"patch", "record"}
        BY FollowingType
    <2> QED
        BY <2>1, <2>2 DEF TypeInv, TypeOK
<1>4. CASE Start(p) \/ BeginPass(p)
    BY <1>4 DEF Start, BeginPass, Sweep, db
<1>5. CASE \/ ApplyNull(p) \/ ReadSub(p) \/ Purge(p) \/ Claim(p) \/ Reread(p)
           \/ RereadGone(p) \/ DatabaseError(p) \/ Crash(p) \/ Exit(p)
           \/ StopClaiming(p)
    BY <1>5 DEF ApplyNull, ReadSub, Purge, Claim, Reread, RereadGone,
                DatabaseError, Throws, Crash, Exit, Down, StopClaiming, db
<1>6. CASE CallEnds(p) \/ \E c \in calls[p] : Heartbeat(p, c) \/ FinishError(p, c)
    BY <1>6 DEF CallEnds, Discard, Finish, Heartbeat, FinishError, db
<1>7. CASE ProcessStep
    <2>1. ApiStep(p) \/ WorkerStep(p) \/ FailureStep(p)
        BY <1>7 DEF ProcessStep, OneProcess
    <2> QED
        BY <2>1, <1>2, <1>3, <1>4, <1>5, <1>6 DEF WorkerStep, FailureStep, Continue
<1> QED
    BY <1>1, <1>7 DEF Next

LEMMA CurrentStep ==
    ASSUME OneProcess, CurrentInv, [Next]_vars
    PROVE  CurrentInv'
<1>1. TypeInv /\ TypeInv'
    BY TypeInvStep DEF CurrentInv
<1>2. ASSUME NEW p \in Procs, stage'[p] \in {"patch", "record"}
      PROVE  seen'[p].row = subs'[seen'[p].sub]
    <2>1. UNCHANGED subs
        BY <1>1, <1>2, NoWriteBetween
    <2>2. SeenStep(p)
        BY <1>1, SubsEffect DEF SubsStep
    <2>3. CASE seen'[p] = seen[p] /\ stage[p] \in {"patch", "record"}
        BY <2>1, <2>3 DEF CurrentInv
    <2>4. CASE \E s \in Subs : \E patch :
                  seen'[p] = [sub |-> s, row |-> subs[s], patch |-> patch]
        BY <2>1, <2>4
    <2> QED
        BY <1>2, <2>2, <2>3, <2>4 DEF SeenStep
<1> QED
    BY <1>1, <1>2 DEF CurrentInv

THEOREM CurrentInvariant ==
    ASSUME OneProcess
    PROVE  Spec => []CurrentInv
<1>1. Init => CurrentInv
    BY TypeInvInit DEF Init, CurrentInv
<1>2. CurrentInv /\ [Next]_vars => CurrentInv'
    BY CurrentStep
<1> QED
    BY <1>1, <1>2, PTL DEF Spec

\* In one process that serves the API and delivers, a paused subscription is
\* resumed by nothing but a PATCH with enabled: true.  With two processes it is
\* not so.
THEOREM PausesStick ==
    ASSUME OneProcess
    PROVE  Spec => PauseSticks
<1>1. CurrentInv /\ [Next]_vars =>
         [\A s \in Subs :
             subs[s].status = "paused" /\ subs'[s].status = "active"
             => \E p \in Procs : /\ stage[p] = "patch"
                                 /\ seen[p].sub = s
                                 /\ seen[p].patch.enabled = TRUE]_vars
    <2> SUFFICES ASSUME CurrentInv, [Next]_vars, NEW s \in Subs,
                        subs[s].status = "paused", subs'[s].status = "active"
                 PROVE  \E p \in Procs : /\ stage[p] = "patch"
                                         /\ seen[p].sub = s
                                         /\ seen[p].patch.enabled = TRUE
        OBVIOUS
    <2>1. SubStep(s)
        BY SubsEffect DEF CurrentInv, SubsStep
    <2>2. subs'[s] # subs[s]
        OBVIOUS
    <2>3. ASSUME NEW status, subs'[s] = NewSub(s, status),
                 status # "deleted" => subs[s].status = "unborn"
          PROVE  FALSE
        BY <2>3 DEF NewSub
    <2>4. ASSUME NEW p \in Procs, stage[p] = "record", seen[p].sub = s,
                 subs'[s] = SubStore!Recorded(subs[s], seen[p].row,
                                              Head(todo[p]).status)
          PROVE  FALSE
        <3>1. seen[p].row = subs[s] /\ subs[s] \in SubStore!SubRow
            BY <2>4 DEF CurrentInv, TypeInv, TypeOK
        <3>2. subs'[s].status \in {"disabled", subs[s].status}
            BY <2>4, <3>1 DEF SubStore!Recorded, SubStore!SubRow
        <3> QED
            BY <3>2
    <2>5. ASSUME NEW p \in Procs, stage[p] = "patch", seen[p].sub = s,
                 subs'[s] = SubStore!Updated(seen[p].row, seen[p].patch)
          PROVE  seen[p].patch.enabled = TRUE
        <3>1. seen[p].row = subs[s]
            BY <2>5 DEF CurrentInv
        <3> QED
            BY <2>5, <3>1 DEF SubStore!Updated
    <2> QED
        BY <2>1, <2>2, <2>3, <2>4, <2>5 DEF SubStep
<1> QED
    BY <1>1, CurrentInvariant, PTL DEF Spec, PauseSticks

\* In one process every delivery given up is counted, and every success resets
\* the count.
THEOREM FailuresAreCounted ==
    ASSUME OneProcess
    PROVE  Spec => FailuresCounted
<1>1. ASSUME CurrentInv, NEW p \in Procs, RecordOutcome(p), Exists(seen[p].sub)
      PROVE  LET outcome == Head(todo[p]).status
                 failures == subs[seen[p].sub].failures
                 counted == subs'[seen[p].sub].failures
             IN  /\ outcome = "failed" => counted = failures + 1
                 /\ outcome = "succeeded" => counted = 0
    <2> DEFINE s == seen[p].sub
               outcome == Head(todo[p]).status
    <2>1. stage[p] = "record" /\ seen[p] \in Read
        BY <1>1 DEF RecordOutcome, CurrentInv, TypeInv, StageOK
    <2>2. s \in Subs /\ subs[s] \in SubStore!SubRow /\ seen[p].row = subs[s]
        BY <1>1, <2>1 DEF Read, CurrentInv, TypeInv, TypeOK
    <2>3. subs'[s] = SubStore!Recorded(subs[s], subs[s], outcome)
        BY <1>1, <2>2 DEF RecordOutcome, CurrentInv, TypeInv, TypeOK
    <2>4. SubStore!Recorded(subs[s], subs[s], outcome).failures
              = IF outcome = "succeeded" THEN 0 ELSE subs[s].failures + 1
        BY <2>2 DEF SubStore!Recorded, SubStore!SubRow
    <2> QED
        BY <2>3, <2>4
<1>2. CurrentInv /\ [Next]_vars =>
         [\A p \in Procs :
             RecordOutcome(p) /\ Exists(seen[p].sub) =>
                LET outcome == Head(todo[p]).status
                    failures == subs[seen[p].sub].failures
                    counted == subs'[seen[p].sub].failures
                IN  /\ outcome = "failed" => counted = failures + 1
                    /\ outcome = "succeeded" => counted = 0]_vars
    BY <1>1
<1> QED
    BY <1>2, CurrentInvariant, PTL DEF Spec, FailuresCounted
=============================================================================
