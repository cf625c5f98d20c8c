---------------------------- MODULE MCWebhookOut ----------------------------
(***************************************************************************)
(* Constants and initial states for model checking WebhookOut.             *)
(***************************************************************************)
EXTENDS WebhookOut

CONSTANTS p1, p2, s1, s2, order

OneCombined == [p \in {p1} |-> "combined"]
TwoWorkers == [p \in {p1, p2} |-> IF p = p1 THEN "combined" ELSE "worker"]
Split == [p \in {p1, p2} |-> IF p = p1 THEN "api" ELSE "worker"]
AllSubscribed == [s \in Subs |-> Types]

NoPatches == [s \in Subs |-> {}]
Enabling == {[enabled |-> b, ordered |-> NULL] : b \in {TRUE, FALSE, NULL}}
EnablePatches == [s \in Subs |-> Enabling]
OrderPatches ==
    [s \in Subs |-> {[enabled |-> NULL, ordered |-> b] : b \in BOOLEAN}]

OneRetry == {<<1>>}
NoRetry == {<< >>}
NoneOrOne == {<< >>, <<1>>}

(***************************************************************************)
(* For the liveness run: the clock only moves while a delivery waits for   *)
(* it and nothing else can be done, that is, no call is in flight, no row  *)
(* is due and no lease has expired.  A run of the system then needs only   *)
(* as many ticks as its retries and leases add up to, and MaxNow is never  *)
(* what keeps a delivery from becoming due.                                *)
(***************************************************************************)
Waiting ==
    /\ \E d \in DOMAIN deliveries : deliveries[d].status \in Live
    /\ \A p \in Procs : calls[p] = {}
    /\ Due(deliveries, subs, now, 1) = {}
    /\ Expired(deliveries, now) = {}

PatientTick == Waiting /\ Tick

PatientSpec ==
    /\ Init /\ [][PatientTick \/ ProcessStep]_vars
    /\ Fairness /\ WF_vars(PatientTick)

(***************************************************************************)
(* Processes that start on a database with one event and the given rows.   *)
(***************************************************************************)
InitWith(rows) ==
    /\ now = 0
    /\ subs = [s \in Subs |->
                  NewSub(s, IF s \in InitialSubs THEN "active" ELSE "unborn")]
    /\ events = <<[at |-> 0, type |-> order]>> /\ lastSeq = 1
    /\ deliveries = rows /\ lastId = Len(rows)
    /\ stage = [p \in Procs |-> "down"]
    /\ at = [p \in Procs |-> NULL]
    /\ todo = [p \in Procs |-> << >>]
    /\ seen = [p \in Procs |-> NULL]
    /\ calls = [p \in Procs |-> {}]
    /\ claiming = [p \in Procs |-> TRUE]
    /\ \E sch \in Schedules : schedule = [p \in Procs |-> sch]
    /\ maint = [p \in Procs |-> NULL]

\* A backlog: two deliveries that failed at time 0 and wait for the second of
\* their three attempts, and one, queued under a schedule without retries, that
\* is due.
RetryingRow ==
    [NewRow(1, s1, 3, 0) EXCEPT !.status = "retrying", !.attempt = 1,
                                !.nextAt = 1, !.log = <<1>>]
BacklogSpec ==
    /\ InitWith(<<RetryingRow, RetryingRow, NewRow(1, s1, 1, 0)>>)
    /\ [][Next]_vars

\* A database migrated from a version without leases, with one delivery that
\* was running at the time.
LegacyRow ==
    [NewRow(1, s1, 2, 0) EXCEPT !.status = "running", !.attempt = 1,
                                !.nextAt = NULL]
LegacySpec == InitWith(<<LegacyRow>>) /\ [][Next]_vars

\* A new database or a migrated one.
NewOrMigratedSpec == (Init \/ InitWith(<<LegacyRow>>)) /\ [][Next]_vars
=============================================================================
