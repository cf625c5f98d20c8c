--------------------------- MODULE DeliveryStore ---------------------------
(***************************************************************************)
(* The deliveries table and the SQL statements DeliveryStore runs on it,   *)
(* together with the pure decision Worker makes about an attempt.  Nothing *)
(* here has state: an operator takes the table T (a function from delivery *)
(* ids to rows) and, where a statement joins them, the subscriptions S.    *)
(*                                                                         *)
(* A row keeps the columns that control what happens to it.  owner_token   *)
(* is a fresh random value per claim and is only ever compared together    *)
(* with the row's id, so the number of the claim (the attempt it opens)    *)
(* names the token.  The attempts log is the sequence of the attempt       *)
(* numbers recorded in it.  http_status, response, error and the           *)
(* timestamps a client only reads are left out.                            *)
(*                                                                         *)
(* An operator whose name begins with Fault_ is the definition that        *)
(* follows it with a plausible mistake; no specification uses it.  It      *)
(* shows that the properties notice the mistake.                           *)
(***************************************************************************)
EXTENDS Naturals, Sequences, FiniteSets

CONSTANTS
    Subs,              \* the ids subscriptions can have
    NULL,              \* SQL NULL
    LeaseMs,           \* LEASE_MS
    SubscriptionCap    \* SUBSCRIPTION_CONCURRENCY_MAX

ASSUME NullAssumption == NULL \notin Nat
ASSUME SubsAssumption == IsFiniteSet(Subs)
ASSUME LeaseAssumption == LeaseMs \in Nat \ {0}
ASSUME CapAssumption == SubscriptionCap \in Nat \ {0}

Queued == {"pending", "retrying"}
Live == Queued \cup {"running"}
Terminal == {"succeeded", "failed", "cancelled"}
Status == Live \cup Terminal

NatOrNull == Nat \cup {NULL}

DeliveryRow ==
    [event : Nat, sub : Subs, status : Status, attempt : Nat, max : Nat,
     nextAt : NatOrNull, owner : NatOrNull, lease : NatOrNull,
     log : Seq(Nat)]

(***************************************************************************)
(* insert: a queued delivery, due at once.                                 *)
(***************************************************************************)
NewRow(event, sub, maxAttempts, t) ==
    [event |-> event, sub |-> sub, status |-> "pending", attempt |-> 0,
     max |-> maxAttempts, nextAt |-> t, owner |-> NULL, lease |-> NULL,
     log |-> << >>]

(***************************************************************************)
(* The due statement: running_counts, candidates with their batch_rank,    *)
(* the ordering and cap conditions, ORDER BY next_attempt_at, id, LIMIT.   *)
(***************************************************************************)
RunningOf(T, s) == {d \in DOMAIN T : T[d].status = "running" /\ T[d].sub = s}

Candidates(T, S, t) ==
    {d \in DOMAIN T : /\ T[d].status \in Queued
                      /\ T[d].nextAt # NULL
                      /\ T[d].nextAt <= t
                      /\ S[T[d].sub].status = "active"}

Before(T, d, e) ==
    \/ T[d].nextAt < T[e].nextAt
    \/ T[d].nextAt = T[e].nextAt /\ d < e

Rank(T, d, among) ==
    Cardinality({e \in among : e = d \/ Before(T, e, d)})

\* Forgets that a delivery in its backoff still holds back the next one.
Fault_IgnoresRetrying(T, d) ==
    \A e \in DOMAIN T :
        T[e].sub = T[d].sub /\ e < d => T[e].status \notin {"pending", "running"}

\* Counts the delivery among those that come before it.
Fault_BlocksItself(T, d) ==
    \A e \in DOMAIN T :
        T[e].sub = T[d].sub /\ e <= d => T[e].status \notin Live

Unblocked(T, d) ==
    \A e \in DOMAIN T :
        T[e].sub = T[d].sub /\ e < d => T[e].status \notin Live

\* Looks only at what is running already, not at the rest of the batch.
Fault_NoBatchRank(T, S, t, d) ==
    Cardinality(RunningOf(T, T[d].sub)) < SubscriptionCap

\* Leaves the last place under the cap empty.
Fault_BelowCap(T, S, t, d) ==
    LET rivals == {e \in Candidates(T, S, t) : T[e].sub = T[d].sub}
    IN  Cardinality(RunningOf(T, T[d].sub)) + Rank(T, d, rivals)
            < SubscriptionCap

WithinCap(T, S, t, d) ==
    LET rivals == {e \in Candidates(T, S, t) : T[e].sub = T[d].sub}
    IN  Cardinality(RunningOf(T, T[d].sub)) + Rank(T, d, rivals)
            <= SubscriptionCap

Eligible(T, S, t) ==
    {d \in Candidates(T, S, t) :
        IF S[T[d].sub].ordered THEN Unblocked(T, d) ELSE WithinCap(T, S, t, d)}

\* Forgets LIMIT.
Fault_NoLimit(T, S, t, limit) == Eligible(T, S, t)

Due(T, S, t, limit) ==
    LET eligible == Eligible(T, S, t)
    IN  {d \in eligible : Rank(T, d, eligible) <= limit}

(***************************************************************************)
(* start: what claim does to each due row.                                 *)
(***************************************************************************)
Started(row, t) ==
    [row EXCEPT !.status = "running", !.attempt = row.attempt + 1,
                !.nextAt = NULL, !.owner = row.attempt + 1,
                !.lease = t + LeaseMs]

(***************************************************************************)
(* The guard shared by finish and heartbeat.  Comparing with a NULL token  *)
(* never holds in SQL, so no statement can finish a row without an owner.  *)
(***************************************************************************)
\* Does not compare the fencing token.
Fault_AnyToken(row, token) == token # NULL /\ row.status = "running"

Holds(row, token) ==
    token # NULL /\ row.owner = token /\ row.status = "running"

\* Does not count an attempt that is to be repeated.
Fault_NotCounted(row, decision) ==
    [row EXCEPT !.status = decision.status, !.nextAt = decision.nextAt,
                !.log = decision.log, !.owner = NULL, !.lease = NULL,
                !.attempt = IF decision.status = "retrying" THEN @ - 1 ELSE @]

Finished(row, decision) ==
    [row EXCEPT !.status = decision.status, !.nextAt = decision.nextAt,
                !.log = decision.log, !.owner = NULL, !.lease = NULL]

Renewed(row, t) == [row EXCEPT !.lease = t + LeaseMs]

Cancelled(row) == [row EXCEPT !.status = "cancelled", !.nextAt = NULL]

(***************************************************************************)
(* expiredLeases.                                                          *)
(***************************************************************************)
\* Finds only the rows that predate leases.
Fault_OnlyLegacy(T, t) ==
    {d \in DOMAIN T : T[d].status = "running" /\ T[d].lease = NULL}

\* Misses the rows that predate leases.
Fault_NoLegacy(T, t) ==
    {d \in DOMAIN T : /\ T[d].status = "running"
                      /\ T[d].lease # NULL
                      /\ T[d].lease < t}

Expired(T, t) ==
    {d \in DOMAIN T : /\ T[d].status = "running"
                      /\ T[d].lease = NULL \/ T[d].lease < t}

(***************************************************************************)
(* The events EventStore.purge must keep for the sake of their deliveries. *)
(***************************************************************************)
\* Forgets the deliveries whose call is in flight.
Fault_RunningNotInUse(T) ==
    {T[d].event : d \in {x \in DOMAIN T : T[x].status \in Queued}}

InUse(T) == {T[d].event : d \in {x \in DOMAIN T : T[x].status \in Live}}

(***************************************************************************)
(* Worker's pure decision about an attempt: the row as it was read, the    *)
(* outcome of the call, the time, and the retry schedule of the process    *)
(* that decides.                                                           *)
(***************************************************************************)
Outcome == {"ok", "retryable", "permanent"}

\* Trusts max_attempts to agree with the schedule.
Fault_NoDelay(row, outcome, t, schedule) ==
    LET retry == outcome = "retryable" /\ row.attempt < row.max
    IN  [status |-> IF outcome = "ok" THEN "succeeded"
                    ELSE IF retry THEN "retrying" ELSE "failed",
         nextAt |-> IF retry /\ row.attempt \in DOMAIN schedule
                    THEN t + schedule[row.attempt] ELSE NULL,
         log    |-> Append(row.log, row.attempt)]

\* Trusts the schedule to agree with max_attempts.
Fault_NoMaximum(row, outcome, t, schedule) ==
    LET retry == outcome = "retryable" /\ row.attempt \in DOMAIN schedule
    IN  [status |-> IF outcome = "ok" THEN "succeeded"
                    ELSE IF retry THEN "retrying" ELSE "failed",
         nextAt |-> IF retry THEN t + schedule[row.attempt] ELSE NULL,
         log    |-> Append(row.log, row.attempt)]

Decide(row, outcome, t, schedule) ==
    LET retry == /\ outcome = "retryable"
                 /\ row.attempt < row.max
                 /\ row.attempt \in DOMAIN schedule
    IN  [status |-> IF outcome = "ok" THEN "succeeded"
                    ELSE IF retry THEN "retrying" ELSE "failed",
         nextAt |-> IF retry THEN t + schedule[row.attempt] ELSE NULL,
         log    |-> Append(row.log, row.attempt)]
=============================================================================
