-------------------------- MODULE RefinementProofs --------------------------
(***************************************************************************)
(* WebhookOut implements AbstractDelivery: every step of the system is a   *)
(* step of the contract, or leaves what a client reads alone.              *)
(***************************************************************************)
EXTENDS QueueProofs

-----------------------------------------------------------------------------
(***************************************************************************)
(* What a step may do to a row is a move of the delivery a client reads.   *)
(***************************************************************************)
LEMMA LogLength ==
    ASSUME NEW row \in DeliveryRow, RowOK(row)
    PROVE  Len(row.log) = Ended(row) /\ Ended(row) \in Nat
<1>1. row.log = [n \in 1..Ended(row) |-> n]
    BY DEF RowOK
<1>2. Ended(row) \in Nat
    BY DEF Ended, RowOK, DeliveryRow
<1> QED
    BY <1>1, <1>2

ClientRow ==
    [sub : Subs, status : Status, attempt : Nat, max : Nat, recorded : Nat]

LEMMA ViewType ==
    ASSUME NEW row \in DeliveryRow
    PROVE  View(row) \in ClientRow
BY DEF View, ClientRow, DeliveryRow

LEMMA StartedView ==
    ASSUME NEW row \in DeliveryRow, RowOK(row), row.status \in Queued,
           NEW t \in Nat
    PROVE  Contract!Begins(View(row), View(Started(row, t)))
<1> DEFINE x == View(row)
           y == View(Started(row, t))
<1>1. x \in ClientRow /\ y \in ClientRow
    BY StartedType, ViewType
<1>2. /\ y.sub = x.sub /\ y.max = x.max /\ y.status = "running"
      /\ y.attempt = x.attempt + 1 /\ y.recorded = x.recorded
    BY DEF View, Started, DeliveryRow
<1>3. x.attempt < x.max /\ x.status \in Queued
    BY DEF RowOK, View
<1> HIDE DEF x, y
<1>4. y = [x EXCEPT !.status = "running", !.attempt = @ + 1]
    BY <1>1, <1>2 DEF ClientRow
<1>5. Contract!Begins(x, y)
    BY <1>3, <1>4 DEF Contract!Begins, Contract!Waiting, Queued
<1> QED
    BY <1>5 DEF x, y

LEMMA CancelledView ==
    ASSUME NEW row \in DeliveryRow, row.status \in Queued
    PROVE  Contract!Cancels(View(row), View(Cancelled(row)))
BY DEF Contract!Cancels, Contract!Waiting, View, Cancelled, Queued, DeliveryRow

LEMMA RenewedView ==
    ASSUME NEW row \in DeliveryRow, NEW t \in Nat
    PROVE  View(Renewed(row, t)) = View(row)
BY DEF View, Renewed, DeliveryRow

LEMMA FinishedView ==
    ASSUME NEW row \in DeliveryRow, RowOK(row), row.status = "running",
           NEW outcome \in Outcome, NEW t \in Nat,
           NEW sch \in Seq(Nat \ {0})
    PROVE  Contract!Concludes(View(row),
                              View(Finished(row, Decide(row, outcome, t, sch))))
<1> DEFINE decision == Decide(row, outcome, t, sch)
           x == View(row)
           y == View(Finished(row, decision))
<1>1. /\ decision.status \in {"succeeded", "failed", "retrying"}
      /\ decision.status = "retrying" => row.attempt < row.max
      /\ decision.log = Append(row.log, row.attempt)
    BY DEF Decide
<1>2. x \in ClientRow /\ y \in ClientRow
    BY DecideType, FinishedType, ViewType
<1>3. Len(row.log) = row.attempt - 1 /\ row.log \in Seq(Nat) /\ row.attempt \in Nat
    BY LogLength DEF Ended, DeliveryRow
<1>4. Len(Append(row.log, row.attempt)) = row.attempt
    BY <1>3
<1> HIDE DEF decision
<1>5. /\ y.sub = x.sub /\ y.max = x.max /\ y.status = decision.status
      /\ y.attempt = x.attempt /\ y.recorded = Len(decision.log)
      /\ x.status = "running" /\ x.recorded = Len(row.log)
      /\ x.attempt = row.attempt /\ x.max = row.max
    BY DEF View, Finished, DeliveryRow
<1> HIDE DEF x, y
<1>6. y = [x EXCEPT !.status = decision.status, !.recorded = x.attempt]
    BY <1>1, <1>2, <1>4, <1>5 DEF ClientRow
<1>7. Contract!Concludes(x, y)
    BY <1>1, <1>3, <1>5, <1>6 DEF Contract!Concludes
<1> QED
    BY <1>7 DEF x, y, decision

LEMMA FreshView ==
    ASSUME NEW row \in Fresh
    PROVE  View(row) \in Contract!New
<1>1. PICK x \in Nat \X Subs \X (Nat \ {0}) \X Nat :
         row = NewRow(x[1], x[2], x[3], x[4])
    BY DEF Fresh
<1>2. x[2] \in Subs /\ x[3] \in Nat \ {0}
    BY <1>1
<1> QED
    BY <1>1, <1>2 DEF View, NewRow, Contract!New

LEMMA RowView ==
    ASSUME TypeInv, RowsOK, NEW d \in DOMAIN deliveries, RowStep(d)
    PROVE  Contract!Moves(View(deliveries[d]), View(deliveries'[d]))
<1>1. deliveries[d] \in DeliveryRow /\ RowOK(deliveries[d])
    BY DEF TypeInv, TypeOK, RowsOK
<1>2. ASSUME NEW p \in Procs, Claim(p), d \in Eligible(deliveries, subs, at[p])
      PROVE  deliveries[d].status \in Queued /\ at[p] \in Nat
    BY <1>2, ClaimTime DEF Eligible, Candidates
<1>3. ASSUME NEW sch \in Schedules PROVE sch \in Seq(Nat \ {0})
    BY ScheduleAssumption
<1> QED
    BY <1>1, <1>2, <1>3, StartedView, CancelledView, RenewedView, FinishedView
       DEF RowStep, Contract!Moves

-----------------------------------------------------------------------------
(***************************************************************************)
(* A subscription that was removed does not come back.                     *)
(***************************************************************************)
LEMMA RemovedStays ==
    ASSUME TypeInv, [Next]_vars, NEW s \in Subs, subs[s].status = "deleted"
    PROVE  subs'[s].status = "deleted"
<1>1. subs \in [Subs -> SubStore!SubRow] /\ ~Exists(s)
    BY DEF TypeInv, TypeOK, Exists, SubStore!Present
<1>2. ASSUME NEW p \in Procs, ApiStep(p)
      PROVE  subs'[s] = subs[s]
    <2>1. CASE UNCHANGED subs
        BY <2>1
    <2>2. CASE \E r \in Subs : \E status \in {"active", "paused"} :
                  Create(p, r, status)
        BY <1>1, <2>2 DEF Create
    <2>3. CASE \E r \in Subs : Remove(p, r)
        BY <1>1, <2>3 DEF Remove
    <2>4. CASE UpdateWrite(p)
        BY <1>1, <2>4 DEF UpdateWrite
    <2> QED
        BY <1>2, <2>1, <2>2, <2>3, <2>4
           DEF ApiStep, Publish, Test, Replay, UpdateRead, Redeliver, Cancel, db
<1>3. ASSUME NEW p \in Procs, WorkerStep(p) \/ FailureStep(p)
      PROVE  subs'[s] = subs[s]
    <2>1. CASE RecordOutcome(p)
        BY <1>1, <2>1 DEF RecordOutcome
    <2>2. CASE \/ Start(p) \/ BeginPass(p) \/ ApplyNull(p) \/ ReadSub(p)
               \/ Purge(p) \/ Claim(p) \/ Reread(p) \/ RereadGone(p)
        BY <2>2 DEF Start, BeginPass, Sweep, ApplyNull, ReadSub, Purge, Claim,
                    Reread, RereadGone, Throws, db
    <2>3. CASE CallEnds(p) \/ \E c \in calls[p] : Heartbeat(p, c)
        BY <2>3 DEF CallEnds, Discard, Finish, Heartbeat, db
    <2>4. CASE FailureStep(p)
        BY <2>4 DEF FailureStep, DatabaseError, Throws, Crash, Exit, Down,
                    FinishError, StopClaiming, db
    <2> QED
        BY <1>3, <2>1, <2>2, <2>3, <2>4 DEF WorkerStep, Continue
<1>4. CASE Tick \/ UNCHANGED vars
    BY <1>4 DEF Tick, vars, db
<1> QED
    BY <1>2, <1>3, <1>4 DEF Next, ProcessStep

-----------------------------------------------------------------------------
(***************************************************************************)
(* The refinement.                                                         *)
(***************************************************************************)
LEMMA ContractInit == Init => Contract!Init
<1> SUFFICES ASSUME Init PROVE Contract!Init
    OBVIOUS
<1>1. deliveries = << >> /\ lastId = 0
    BY DEF Init
<1>2. [d \in DOMAIN deliveries |-> View(deliveries[d])] = << >>
    BY <1>1
<1>3. {s \in Subs : subs[s].status = "deleted"} = {}
    BY DEF Init, NewSub
<1> QED
    BY <1>1, <1>2, <1>3 DEF Contract!Init

LEMMA ContractStep ==
    ASSUME AttemptInv, [Next]_vars
    PROVE  Contract!Next
<1>1. TableStep /\ TypeInv /\ RowsOK
    BY StepEffect DEF AttemptInv
<1>2. lastId \in Nat /\ lastId' \in Nat /\ DOMAIN deliveries' \subseteq 1..lastId'
    BY TypeInvStep DEF AttemptInv, TypeInv, TypeOK
<1> DEFINE old == [d \in DOMAIN deliveries |-> View(deliveries[d])]
           new == [d \in DOMAIN deliveries' |-> View(deliveries'[d])]
<1>3. Contract!Issue
    <2>1. ASSUME NEW d \in DOMAIN deliveries' \ DOMAIN deliveries
          PROVE  lastId < d /\ d <= lastId' /\ new[d] \in Contract!New
        BY <1>1, <1>2, FreshView DEF TableStep
    <2> QED
        BY <1>1, <2>1 DEF Contract!Issue, TableStep
<1>4. Contract!Advance
    <2>1. ASSUME NEW d \in DOMAIN deliveries \cap DOMAIN deliveries'
          PROVE  Contract!Moves(old[d], new[d])
        BY <1>1, RowView DEF TableStep
    <2> QED
        BY <2>1 DEF Contract!Advance
<1>5. Contract!Forget
    <2>1. {s \in Subs : subs[s].status = "deleted"}
             \subseteq {s \in Subs : subs'[s].status = "deleted"}
        BY <1>1, RemovedStays
    <2>2. ASSUME NEW d \in DOMAIN deliveries \ DOMAIN deliveries'
          PROVE  \/ old[d].status \in Contract!Settled
                 \/ old[d].sub \in {s \in Subs : subs'[s].status = "deleted"}
        <3>1. deliveries[d].sub \in Subs
            BY <1>1 DEF TypeInv, TypeOK, DeliveryRow
        <3> QED
            BY <1>1, <3>1 DEF TableStep, View, Terminal, Contract!Settled
    <2> QED
        BY <2>1, <2>2 DEF Contract!Forget
<1> QED
    BY <1>3, <1>4, <1>5 DEF Contract!Next

\* The system implements the contract of its deliveries: with any number of
\* processes, crashes, expired leases and late answers, a client sees each
\* delivery attempted at most max times, each attempt recorded before the next,
\* and nothing settled change.
THEOREM Implements == Spec => KeepsContract
<1>1. Init => Contract!Init
    BY ContractInit
<1>2. AttemptInv /\ [Next]_vars => [Contract!Next]_(Contract!promised)
    BY ContractStep
<1> QED
    BY <1>1, <1>2, AttemptInvariant, PTL DEF Spec, KeepsContract, Contract!Spec
=============================================================================
