# webhook-out in TLA+

webhook-out accepts events over HTTP, queues one delivery per matching
subscription in SQLite, and a worker loop calls the receivers, retries, and
disables subscriptions that keep failing.  The API and the worker can be one
process or several that share the database file (`src/README.md:162`).  This
directory holds a TLA+ model of that core, TLC configurations that check it, and
proofs for TLAPS.  Paths below are relative to the repository; `worker.js` and
the like stand for `src/worker.js` and so on.

## 1. Inventory

| Part | State | Operations | What makes it correct |
|---|---|---|---|
| Delivery store (`store/delivery-store.js`) | the `deliveries` table: status, attempt, max_attempts, next_attempt_at, owner_token, lease_until, attempts log | insert, claim, finish, heartbeat, cancel, reclaimExpired; queries | one claimer per attempt, order and cap per subscription, fencing of late answers, settled rows stay settled |
| Worker (`worker.js`) | running, claiming, in-flight calls, last maintenance | start/recover, pass (beat, reclaim, maintenance, claim), execute, decide, applyOutcome, stopClaiming, stop | every delivery is settled, each attempt is logged once, slots are bounded, failures disable a subscription |
| Event service (`domain/event-service.js`) | none of its own | publish, test, replay, redeliver, cancel, retryDelayMs | fan-out to the active matching subscriptions, idempotency, replay covers its window |
| Event store (`store/event-store.js`) | the `events` table | insert, range, purge | retention spares events whose deliveries are live |
| Subscription service (`domain/subscription-service.js`) | none of its own | create, update, remove, rotate, signingSecrets | a pause sticks, resuming resets the counter, both secrets sign during the grace period |
| Subscription store (`store/subscription-store.js`) | the `subscriptions` table | insert, update (whole row), recordOutcome, delete | the two writers of one row do not contradict each other |
| Schema (`db.js`) | tables, AUTOINCREMENT, cascades, migrations | migrate | ids are not reused, rows of earlier versions stay usable |
| Application (`application.js`, `index.js`, `api-main.js`, `worker-main.js`) | role, shutdown steps | start, shutdown | claiming stops before the drain, the database closes last |
| Presence (`store/heartbeat-store.js`, `http/webhook-api.js`) | `worker_heartbeat` rows | beat, latest, purgeStale, workerStatus | a live worker is reported running, a dead one stopped |
| Event matching (`domain/event-match.js`) | none | matches, any, normalize | patterns select what they say |
| Configuration (`config.js`) | validated constants | fromEnv | heartbeat < lease, call ceiling < drain < force exit |
| HTTP API, caller, signer, secret box, errors, types | none that survives a request | routing, validation, one HTTP call, HMAC, AES | (stateless; see section 8) |

**Interaction.**  API handlers and the worker of one process share an event loop:
JavaScript between two awaits runs alone, and `node:sqlite` is synchronous.
Processes share only the database file, so the statements of one process
interleave with those of another unless a transaction holds them together.
claim, reclaimExpired, publish, test and replay are transactions.  The end of a
call (finish, then a read of the row), the application of an outcome (read and
write of the subscription), PATCH and rotate (read and write of the
subscription) are not.

**What is hard.**  Leases that expire while a call still runs; answers that come
after a reclaim and a new attempt; crashes at any statement; two read-modify-write
pairs on the subscription row; the order of an ordered subscription across retry
backoff, crash and reclaim; a cap that one claim can exceed by itself; retry
schedules that change between two lives of a worker; retention that cascades to
deliveries; a replay whose cursor is a time while its batches are counted in
events; idempotency keys that come free when their event is purged; pages read
while rows come and go; timers of one process (heartbeat, poll, drain, forced
exit) against limits that others judge it by; secrets that change while a request
is under way.  `PROJECT.json` lists these hazards at their lines, each with the
properties that watch it.

## 2. Modules

| Module | What it is |
|---|---|
| `DeliveryStore` | The deliveries table as pure operators: each SQL statement (`Due`, `Started`, `Finished`, `Renewed`, `Cancelled`, `Expired`, `InUse`) with its guard, and `Worker#decide` |
| `SubscriptionStore` | The columns of a subscription that control delivery, and the values the two rewriting statements store (`Updated`, `Recorded`) |
| `WebhookOut` | The system: processes, their roles and stages, the database, the clock; one action per handler or per statement where another process can come between |
| `AbstractDelivery` | What clients are promised about deliveries: no processes, leases, tokens or clocks. `WebhookOut` instantiates it over the view the API gives (`Contract`) |
| `Events` | The events table: publishing with idempotency keys, test events, retention, replay batch by batch, the pages of `GET /events`, and EventMatch |
| `AbstractFeed` | What is promised about who gets an event: no batches, cursors, locks, keys or types. `Events` instantiates it (`Feed`) |
| `Lifecycle` | The timers of a worker process: passes, heartbeats, presence as other processes judge it, the steps of a shutdown with the drain and the forced exit |
| `SubscriptionAdmin` | Names, rotation of secrets while requests are under way, the pages of `GET /subscriptions` |
| `MCWebhookOut`, `MCEvents`, `MCLifecycle`, `MCSubscriptionAdmin` | Constants and initial databases for TLC, the specification of the liveness run, and the limits a run sets to its environment (section 4) |
| `WebhookOutProofs` | Lemmas about the operators of `DeliveryStore`, and the inductive type invariant of `WebhookOut` |
| `QueueProofs` | Theorems on the deliveries table and its calls |
| `SubscriptionProofs` | Theorems on the failure counter and the status of a subscription |
| `ClaimProofs` | Theorems on what a claim may start (order, cap, slots) and what it must |
| `RefinementProofs` | `WebhookOut` implements `AbstractDelivery` |
| `EventsProofs`, `LifecycleProofs`, `SubscriptionAdminProofs` | Theorems on the module each is named after; `EventsProofs` also that `Events` implements `AbstractFeed` |

`WebhookOut` EXTENDS `DeliveryStore` and instantiates `SubscriptionStore` and
`AbstractDelivery`, `Events` instantiates `AbstractFeed`.  `Events`, `Lifecycle` and `SubscriptionAdmin` stand beside
it: each refines one aspect that `WebhookOut` abstracts (see there), with the rest
of the system left nondeterministic:

* what `Events` knows of deliveries is how often each event was queued for whom;
  which old events retention must spare is `InUse` in `WebhookOut`, so `Purge` may
  spare any;
* `Lifecycle` has no rows, only the leases and the one call of each process; in
  `WebhookOut` the same timers fire at any time or never;
* `SubscriptionAdmin` has the secrets and names of the row whose status and counter
  are in `WebhookOut`.

### State and code

| Variable | Code |
|---|---|
| **WebhookOut** | |
| `now` | `Date.now()`.  A statement that waits for the write lock writes a reading up to `LockWaitMs` old |
| `subs` | `subscriptions`: status, consecutive_failures, ordered.  Ids are random: `unborn` before creation, `deleted` for ever afterwards |
| `events`, `lastSeq` | `events`: created_at and type (NULL for the `webhook.test` events, whose `only_subscription` is set) |
| `deliveries`, `lastId` | `deliveries` and its AUTOINCREMENT counter.  owner_token is a fresh UUID per claim and is compared only together with the row's id, so the number of the attempt stands for it.  The attempts log keeps the numbers |
| `stage`, `at`, `todo`, `seen` | where the synchronous code of a process is, the `now` of the pass, the outcomes still to be applied, the subscription row read and not yet written back |
| `calls` | the in-flight `#execute` promises with the row each got from claim |
| `claiming`, `schedule`, `maint` | `Worker.claiming`, `RETRY_SCHEDULE_SEC`, `Worker.lastMaintenance` (NULL until start() is done) |
| **Events** | |
| `events`, `lastSeq` | `events` by `seq`, with created_at, the key's owner (`source`), idempotency_key, type (its segments) and only_subscription |
| `reached` | how many rows in `deliveries` each event ever got for each subscription |
| `replay` | the local variables of EventService.replay while its transaction is open: cursor, `queued` (how many deliveries it has inserted so far, event by event) |
| `answers`, `reader` | what publishers were answered; a client with the `next_before` it got, what it was shown, and the newest event when it began |
| **Lifecycle** | |
| `phase`, `stopAt`, `drainAt` | the shutdown step reached, when shutdown() and Worker.stop() began |
| `beats`, `instance` | `worker_heartbeat`: seen_at by the id of a HeartbeatStore |
| `passAt`, `maintAt`, `call`, `orphans` | the latest pass and maintenance, the call in flight (its lease, its next heartbeat, since when, and when its request was sent after the name was resolved), the leases of rows whose process is gone |
| **SubscriptionAdmin** | |
| `subs` | name, status, secret_enc, prev_secret_enc, prev_until; secrets are numbered as they are generated |
| `issued` | what operators were told of secrets: whose each is, and when it stops to sign (`previousValidUntil`, or the rotation that drops it) |
| `calls` | requests under way: the secrets they are signed with, the current one among them, and when those were read |
| `reader` | external: a client of the listing |

### Actions and code

| Actions | Code |
|---|---|
| **WebhookOut** | |
| `Publish`, `Test`, `Replay`, `Redeliver`, `Cancel` | the methods of EventService, one step each: one transaction, or one guarded statement that writes |
| `Create`, `Remove` | SubscriptionService; Remove cascades to deliveries |
| `UpdateRead`, `UpdateWrite` | `update` and `rotate`: `require()` reads the row, a second statement writes all of it |
| `Start` | Application.start and Worker.start; for a worker it includes the sweep of recover() |
| `BeginPass` | `#pass` up to the end of reclaimExpired's transaction; `at` is the time the pass was given, which can be older than the one the sweep reads, because beat may wait in between |
| `ReadSub`, `RecordOutcome`, `ApplyNull` | `#applyOutcome`: the read and the write; and the exception in `#reclaim`, which reads the status of the null that finish() answers for a row it could not match |
| `Purge`, `Claim` | `#maintenance`; claim and the start of the calls it returns |
| `Heartbeat`, `Finish`, `Discard`, `Reread`, `RereadGone` | `#execute`: the interval, finish() that matches, finish() that does not, and finish()'s second statement |
| `DatabaseError`, `FinishError`, `Crash` | a statement throws (a failed start() exits, a failed pass is logged, a failed call shuts the process down: `docs/READINESS.md:84`), or the process is killed |
| `StopClaiming`, `Exit` | the first shutdown step, and the exit after the drain.  Passes may still sweep in between; in the code they do until stop() clears running |
| `Tick` | time |
| **Events** | |
| `PublishNew`, `PublishAgain`, `Test`, `Purge` | EventService.publish without and with a stored key, test, EventStore.purge |
| `ReplayBegin`, `ReplayBatch`, `ReplayCommit` | the transaction of replay: one round of its loop per step, other writers wait |
| `FirstPage`, `NextPage`, `CloseReader` | WebhookApi's listing, one request per step |
| **Lifecycle** | |
| `Start`, `Pass`, `Heartbeat` | Worker.start, `#pass` (presence, sweep, maintenance, claim), the interval of `#execute` |
| `Sent`, `CallEnds` | HttpCaller.call has resolved the name and sends the request, whose timeout starts; the end of `#execute` |
| `Stop`, `Drain`, `Drained`, `Exit`, `ForcedExit`, `Crash` | the steps of Application.shutdown in their order, its force-exit timer, a kill |
| **SubscriptionAdmin** | |
| `Create`, `Rename`, `Enable`, `Remove`, `Rotate` | SubscriptionService in one process, where a handler is synchronous |
| `Send`, `Arrive` | the read of the secrets in `#execute` (`worker.js:172`), and the end of the request, any time later |
| `FirstPage`, `NextPage`, `CloseReader` | the listing by name |

The operators named `Fault_...` are definitions with a plausible mistake.  No
specification uses one; each stands before the definition it replaces and is
there to confirm that the property named beside it in `PROJECT.json` would
notice the mistake.

## 3. Properties

Deliveries (`WebhookOut`):

* `KeepsContract` — the system refines `AbstractDelivery`: a delivery is attempted
  at most its maximum, each attempt is recorded before the next begins, only a
  waiting one is cancelled, what is settled stays settled, nothing is forgotten
  before unless its subscription is removed.
* `OrderedOneAtATime` — whatever was queued before a running delivery of an
  ordered subscription is over, also if it waits for a retry.
* `SubscriptionCapHolds`, `SlotsBounded` — the limits over all processes and per
  process, batches of one claim included.
* `OneCallerPerAttempt` — no attempt is called by two, and no id returns to a
  call still in flight.
* `AttemptsLogged` — every attempt is logged exactly once and in order, however
  late an answer comes.
* `AttemptsBounded`, `QueuedIsScheduled` — no attempt beyond the maximum, and no
  queued row without a due time, whatever schedule decides.
* `LeaseProtects` — while a lease lasts, only the call that holds the token of its
  row settles the row, though a sweep may use an old reading of the clock and
  calls of earlier attempts may still answer.
* `ClaimsWhatItCan` — a claim that leaves a slot free leaves nothing it could have
  started: of an active subscription below its cap, a live delivery runs or waits
  for its time or, if the subscription is ordered, for an earlier one.  The safety
  core of `Delivered`: the conditions of the query never block each other.
* `TerminalForever`, `LiveSurvivesPurge` — settled rows do not change, and
  retention spares live ones.
* `ActiveBelowThreshold`, `PauseSticks`, `FailuresCounted` — the failure counter
  and the status: every recorded failure adds one and every success resets.  The
  second and third hold in one process only (section 5).
* `SweepLeavesNoneExpired`, `UnownedRowBlocksWorkers` — reclaiming, and what a
  row without an owner does to it.
* `Delivered` (liveness) — each queued or running delivery of a subscription that
  stays active is settled.

Events:

* `KeysAnswerOwn` — a publisher that sends a key gets its own event, the same one
  every time while it is stored, whatever others send and retention frees.
* `TestStaysPrivate` — a test event reaches only the subscription it was made for.
* `ReplayCovers` — a replay that is done has queued its whole window, unless it
  stopped because the first millisecond of the window fills a batch.
* `ReplayEndsIfSpread` (liveness) — a replay ends if no later millisecond of the
  window fills a batch; without that it need not (`replay_endless`).
* `ReplayAdvances` — each round of the loop is the last or moves the cursor on, the
  safety core of `ReplayEndsIfSpread`.
* `KeepsFeed` — the system refines `AbstractFeed`, which counts: publishing queues
  an event once for each active subscription that matches it, a test for its own,
  and nothing is forgotten before its retention is over.  A replay of a window with
  fewer events than a batch queues what its subscription wants of it once.  A larger
  window queues some of it a second time, because the batch after a full one begins
  with the millisecond of its last event (`event-service.js:112`), but nothing a
  third time and nothing of its first millisecond twice; and if its first
  millisecond fills a batch, it queues the oldest batch once and no more.
  `WebhookOut!Replay`, which queues a set of events once, is a replay of the first
  kind; its repeated rows would be rows like those of a second replay, which
  `WebhookOut` has.
* `PagesComplete` — page after page, a client sees once and newest first every
  event that was there when it began and is still there.

Timers (`Lifecycle`):

* `LeaseKept` — no lease runs out under a call of a live process.
* `LiveReported` — for four heartbeats after each pass of a running worker (five
  maintenance intervals, if that is less) others report a worker running, also
  while it stops, and whatever rows their maintenance deletes.
* `NoCallAbandoned` — a shutdown that reaches its end, or the forced exit, with a
  call in flight spent the margin of its drain, less the delay of one timer, on the
  resolution of that call's name, which the code does not bound.
* `OrphansReclaimed` — a row of a dead process is reclaimed within a pass of the
  end of its lease, if a worker runs.

Secrets and names (`SubscriptionAdmin`):

* `SignaturesAccepted` — whichever of its secrets a receiver verifies with, a
  request under way is signed with it, unless the operator had been told that the
  secret ends no later than the request was signed, or the receiver changed over to
  a secret generated after that.  Rotations follow each other at any time, and
  requests take any time.
* `PagesComplete` — a client sees exactly once each subscription that is there,
  unchanged, all the time.

## 4. Runs

All runs check deadlock, except `lifecycle`, in which all processes may be down
for good once `MaxLives` is used up, and `admin`, which ends when the clock has
stopped and every subscription is gone.

| Run | Question | Bounds |
|---|---|---|
| `combined` | do PATCH, create, remove, cancel and failing deliveries in one process keep the subscription's status and counter right | 2 subscriptions (one ordered), 3 deliveries, DisableAfter 2 so that one failure is below and two are at the threshold, crashes and database errors |
| `two_workers` | ordering, fencing, the attempts log, what a claim takes and the contract with two workers, one of which crashes | 2 deliveries, 1 retry, lease 1, clock to 3: enough for a lease to expire under a call, the row to be claimed again, and the first answer to come last |
| `backlog` | cap, slots, what a claim takes, schedules and retention with two claimers on an old backlog | Init with 1 due delivery and 2 that become due together, made under a longer schedule than a worker may now have, of an event past retention; cap 2, 2 slots, lease 1, readings of the clock up to 1 old and a pass up to 1 older, so that leases are short or expired when granted |
| `split` | API and worker in two processes on one subscription row, on a new database or one with a row left running before leases existed | threshold 2, 3 test deliveries, 2 subscriptions, so that one survives a deletion |
| `live` | is every delivery settled | one worker crashes again and again, one keeps running |
| `events` | idempotency keys, tests, retention, replay and the listing together, and whether they refine `AbstractFeed` | 2 publishers that share a key, 2 subscriptions of which one matches everything; an empty table or 4 events, at all distributions over 3 milliseconds of at most 2 each; batch 2, so that a millisecond can fill one, page 1; counts to 3 (`Many`) in one replay, so that a third copy would be seen, and no replay of an event that was sent twice (`MaxSent`); a client is done with a listing before a replay begins (`Apart`), since neither reads what the other writes |
| `lifecycle` | do the timers of two processes fit the limits they are judged by | p1 does everything, p2 starts, passes and crashes, because processes meet only in presence rows and orphaned leases; 3 lives, clock to 7, lag 1; heartbeat 1 and lease 2 leave exactly the lag; poll 3 + lag is 4 heartbeats, so that presence can become stale between two passes; maintenance 1 makes rows of a former life stale within the clock; timeout 1, drain margin 3, forced exit 4 |
| `admin` | what do rotations do to requests under way, do names that change lose one in a listing | either one subscription with 3 secrets (two rotations), grace 2, two requests and the clock to 6; or 3 subscriptions, 4 names, page 1 and a clock that has stopped (`Apart`): requests and listings share no column |
| `legacy_row`, `lost_pause`, `toggle`, `replay_endless` | the findings of section 5 | one or two processes, 1 or 2 deliveries; `replay_endless` as `events` |

`now` counts abstract units; only its comparisons matter.  Two processes are
enough for the races: each involves one reader and one interferer.  MaxNow,
MaxDeliveries, MaxEvents, MaxPerMs, MaxLives and MaxSecrets bound the instance
and appear only in the guards of `Tick`, `Insert`, `AddEvent`, `Add`, `Start`,
`Create` and `Rotate`; likewise MaxSent in `ReplayBegin` and MaxCalls in `Send`.
Many is the one bound that is not in a guard: `Another` stops counting there.

## 5. Findings

Each is a run that TLC must find violated.

* `legacy_row`: reclaimExpired selects rows with a NULL lease, but finishes them
  `WHERE owner_token = ?` with their own NULL token, which matches nothing
  (`delivery-store.js:167`).  finish() answers null, and `#reclaim` throws when it
  reads `d.status` of it (`worker.js:243`), so a worker does not start until the row
  is gone.  `db.js:68` and
  `delivery-store.js:155` say such a row is treated as expired and finished.
  `UnownedRowsBlock` proves the consequence for every such database.
* `lost_pause`: the outcome of a delivery is recorded from a row read by an
  earlier statement (`worker.js:223-227`); a PATCH of another process in between
  is undone, so a paused subscription is active again.  The same pair of
  statements lets two workers that settle two failures at once count one.
* `toggle`: after `ordered` is switched on, deliveries already running stay so,
  and an earlier one can be claimed beside a later one (`OneRunningPerOrdered`);
  `src/README.md:55` says the cap of an ordered subscription is always 1.
  `OrderedOneAtATime` and `SubscriptionCapHolds` are stated for subscriptions whose
  flag is left alone.
* `replay_endless`: the loop of replay ends on a batch that is not full, or when
  the cursor is still at `from`.  A later millisecond with a full batch is read
  and queued again and again, inside the transaction; the comment at
  `event-service.js:113` and `examples/replay.md:14` say that such a window stops.

Five more disagreements are about numbers or words, and have no run:

* after a quick restart, rows whose lease has not run out stay running;
  `examples/retries.md:61` and the comment at `worker.js:103-106` say that startup
  settles all of them (`test/lease.test.js:82` expects what the code does, and
  `OrphansReclaimed` says how long it takes);
* POLL_MS may be up to 60000 beside any HEARTBEAT_MS, but presence, written once
  per pass, is stale after 4 heartbeats: beyond that, and until its next pass, a
  running worker is reported stopped.  `LiveReported` stops at that point;
  `FrequentPassesReport` proves which configurations never get there;
* `config.js:80-82` says the heartbeat is well under the lease, and the code only
  checks that it is less: with a difference of a millisecond a healthy call loses
  its lease to one late timer;
* `examples/replay.md:9` says that every event of the window gets a new delivery and
  shows their number as `queued`; a window that fills a batch of 1000 gives some
  events two, the last of each full batch at least, and counts both
  (`event-service.js:110-112`).  `ReplayBatch` does the same, and `KeepsFeed` states
  how far it goes;
* `examples/rotation.md:17,19` say that a receiver can switch to the new secret
  whenever it is ready and that deliveries never stop.  The secrets of a request are
  read (`worker.js:172`) before its name is resolved and it is sent
  (`http-caller.js:38`): one that was read before a rotation is signed with the old
  secret only, and a receiver that has switched by its arrival answers 401, which
  fails the delivery at once (`examples/receiving.md:67`).  It is the last exception
  of `SignaturesAccepted`.

## 6. Fairness

`live` and `events` have liveness properties.

`Fairness` of `WebhookOut`, for `live`:

* `WF(Continue)`, `WF(UpdateWrite)`: synchronous code runs to its next await.
* `SF(BeginPass)`, `SF(CallEnds)`: an idle process can turn to any ready callback;
  the event loop serves the poll timer and the end of each call again and again,
  although each is disabled while another callback runs.  A call ends at
  DELIVERY_TIMEOUT_MS at the latest.
* `WF(Start)`: PM2 restarts what exits (`ecosystem.config.cjs:24`).  `WF(Exit)`: a
  drained shutdown ends.
* No fairness of Heartbeat, of API operations, of Crash or of errors.

In `PatientSpec` the clock moves only while a delivery waits for it, so that
MaxNow is not what a delivery waits for.  `PatientTick` is a strengthening of Tick
that removes idle passing of time, not a step of a process.  The crashing worker
may crash for ever; the other one does not (without that, no row need ever be
settled).  An answer is never required to be good: settled means delivered, given
up or cancelled.

`Events`: `WF(ReplayBatch)` and `WF(ReplayCommit)`, for `events` and
`replay_endless`: the loop of replay is synchronous code without an await.

`Lifecycle` needs no fairness: that timers fire is the guard `InTime` of `Tick`,
which lets no time pass beyond the `Lag` of a timer that is due.

## 7. Proofs

The theorems hold for all processes, roles, subscriptions, events, patterns,
patches, schedules, limits, durations and clock skew, under the named assumptions
of the modules: NULL is none of the data, limits are positive, a schedule is a
finite sequence of positive non-decreasing delays (`config.js`), and in
`Lifecycle` a heartbeat is late by no more than the lease leaves room for
(`HeartbeatsInTime`, of which `config.js` checks only that a heartbeat is less than
a lease; only `LeasesAreKept` depends on it).

| Theorem | Property | Module |
|---|---|---|
| `TypeCorrect` | `TypeOK` | `WebhookOutProofs` |
| `OneCaller` | `OneCallerPerAttempt` | `QueueProofs` |
| `AttemptsAreLogged`, `AttemptsAreBounded` | `AttemptsLogged`, `AttemptsBounded` | `QueueProofs` |
| `QueuedAreScheduled` | `QueuedIsScheduled` | `QueueProofs` |
| `SettledStays`, `LiveSurvives` | `TerminalForever`, `LiveSurvivesPurge` | `QueueProofs` |
| `SweepsSettle` | `SweepLeavesNoneExpired` | `QueueProofs` |
| `LeasesProtect` | `LeaseProtects` | `QueueProofs` |
| `UnownedRowsBlock` | `UnownedRowBlocksWorkers` | `QueueProofs` |
| `FailingIsNotActive` | `ActiveBelowThreshold` | `SubscriptionProofs` |
| `PausesStick`, `FailuresAreCounted` (one process) | `PauseSticks`, `FailuresCounted` | `SubscriptionProofs` |
| `OrderIsKept`, `CapIsKept` | `OrderedOneAtATime`, `SubscriptionCapHolds` | `ClaimProofs` |
| `SlotsAreBounded`, `ClaimsTakeAll` | `SlotsBounded`, `ClaimsWhatItCan` | `ClaimProofs` |
| `Implements` | `KeepsContract` | `RefinementProofs` |
| `TypeCorrect` | `TypeOK` of `Events` | `EventsProofs` |
| `KeysAreAnswered`, `TestsArePrivate`, `ReplaysCover` | `KeysAnswerOwn`, `TestStaysPrivate`, `ReplayCovers` | `EventsProofs` |
| `ReplaysAdvance` | `ReplayAdvances` | `EventsProofs` |
| `ImplementsFeed` | `KeepsFeed` | `EventsProofs` |
| `PagesAreComplete` | `PagesComplete` of `Events` | `EventsProofs` |
| `LeasesAreKept`, `LiveIsReported` | `LeaseKept`, `LiveReported` | `LifecycleProofs` |
| `FrequentPassesReport` | a running worker is always reported, if it passes often enough | `LifecycleProofs` |
| `ShutdownDrains`, `OrphansAreReclaimed` | `NoCallAbandoned`, `OrphansReclaimed` | `LifecycleProofs` |
| `RotationsAreAccepted` | `SignaturesAccepted` | `SubscriptionAdminProofs` |
| `PagesAreComplete` | `PagesComplete` of `SubscriptionAdmin` | `SubscriptionAdminProofs` |

Those about `WebhookOut` concern `Spec`, whose initial database is new: a row that
predates leases breaks `SweepLeavesNoneExpired`, as the run `legacy_row` shows.
`UnownedRowsBlock` starts from any database with all processes down instead.

The argument for `WebhookOut`, from the bottom up:

1. `TypeInv` adds to `TypeOK` that the code in progress finds what it works on: a
   process at `record` has an outcome and a row that was read, one at `claim` has
   the time its pass began.  Without it the steps at those stages would compute
   with NULL.
2. `StepEffect` reduces a step of the system to what it may do to the table and
   to the calls: a row stays, is cancelled, renewed, finished by a decision about
   itself, or started because a claim found it eligible (`RowStep`); new rows are
   pending and have ids never used before (`TableStep`); only one claim begins
   calls (`CallsStep`).  That a late answer decides about the row it was claimed
   with, and not about an older copy, needs `CallsOK`.
3. `AttemptInv` is the invariant of rows and calls.  `OneCallerPerAttempt` and
   `AttemptsLogged` are not inductive by themselves: a call appends to the log it
   was claimed with, so it must agree with the row as long as the row holds its
   token, and a row must never return to an attempt that a call was made for.
   `RowOK` says the first half of each row (owner and log follow the attempt),
   `CallOK` the second of each call.  `LeasesProtect` needs no more: a running row
   stops running in a sweep or when a call ends (`Settling`), a sweep spares the
   leases its reading of the clock has not passed, and a reading is never later
   than the time.
4. `SubsEffect` does the same for subscriptions (`SubStep`, `SeenStep`).
   `ThresholdInv` extends `ActiveBelowThreshold` to the rows read and not yet
   written back, because those are written later as they are, and to the
   outcomes in `todo`, because recording a retry would count a failure without
   ever disabling.  With one process, `CurrentInv` says that a row read and not
   yet written back is still the row stored; `PausesStick` and
   `FailuresAreCounted` follow from it, and `lost_pause` is how it fails with two.
5. `OrderInv` and `CapInv` add `FlagsOK`: a subscription whose PATCHes leave
   `ordered` alone keeps it, in the table and in the rows read for a PATCH.  An
   ordered row is started only if every earlier live one is gone, and settled
   rows stay.  The cap and the slots rest on `RankBound`: at most n members of a
   finite set have a rank of at most n in the order of due times.
   `ClaimsTakeAll` is the converse and needs that the ranks leave no gap
   (`RankFull`): a row whose rank is too high has as many rows below it as there
   were slots, or as the cap has room for (`TakesEligible`, `CapFills`).
6. `Implements` maps each `RowStep` to a move of `AbstractDelivery`; `AttemptInv`
   is what makes the length of the log the number of the attempt.
7. `UnownedInv`: a row without an owner is never finished, because a token
   matches no NULL, so every process that starts or sweeps keeps its outcome,
   null, to be applied, and gets no further.

The invariant `IInv` of `Lifecycle` says what each timer still owes (the lease of a
call outlives its next heartbeat plus the lag, a call that a shutdown waits for
began before the shutdown did, one that is left after the drain began as long before
as the drain lasts), that the presence row of a running worker is as young as its
latest pass, and that the lease of an orphan ended no earlier than the latest pass
of any loop.
`SecretInv` of `SubscriptionAdmin`: all secrets of a subscription but its newest,
the current one, have an end, and only the one kept as previous may have it still
to come, at the time stored in the row; a request under way has what had not ended
when it was signed, because an end is only ever set or moved to the present or
later (`EndOf`).
`EventsInv`: a stored key belongs to one event, test events have reached nobody
else, and an open replay has queued whatever of its window lies before the cursor;
a full batch ends with its latest event (lemma `Greatest`), so what is left lies
at the cursor or after it.

`ImplementsFeed` maps a row to its time, its only receiver and the subscriptions
that match it, and the rounds of a replay to stutters: its commit is the abstract
replay.  `FeedOK` says beside `EventsInv` how often the open replay has queued what.
Nothing is queued that is not wanted.  While it goes on (`GoesOn`), events after the
cursor are not queued yet, those of the cursor's millisecond once, unless the replay
is stuck there and never commits, and those before it at most twice; when it is done
(`IsOver`), something was read twice just if the window fills a batch.  If its first
millisecond fills one, the first batch lies in that and is the only one
(`OneBatch`).  The window does not change under the batches, because other writers
wait for the lock (`Unlocked`).

`ReplaysAdvance` rests on `StuckBatch`: a full batch whose last event has the time of
the cursor lies in one millisecond altogether.

Both `PagesAreComplete` rest on a lemma about one page (`PageCut`): it shows all
there is, or just what lies on this side of the cursor it returns.  The invariants
(`ReaderInv`, `PagesInv`) say that nothing on this side of the cursor is missing;
rows that come later lie beyond the newest one, or are not among those that stay.

Only model-checked: `Delivered` and `ReplayEndsIfSpread`, because liveness under
fairness is out of the provers' reach; `ClaimsTakeAll` and `ReplaysAdvance` prove
the part of them that concerns single steps.  That the four findings are violations is
shown by TLC alone, too.

## 8. Not modelled

* HTTP routing, schema validation, authentication, rendering, TLS, the target
  guard, signing and encryption, the audit log: stateless or libraries.  A call is
  one of the outcomes ok, retryable and permanent, at any time after its claim.
* The listing of deliveries, statistics and metrics: they read what the models
  have, and nothing reads them back.  Response bodies, durations, counters and log
  lines likewise.
* CoreDatabase (a library): a statement is atomic, a transaction is one step.
* A failing statement in an API handler: it answers 500 and leaves nothing behind.
* The clock does not go backwards, and processes share the host's clock.  If the
  clock went back, created_at would not follow `seq` and a replay could skip
  events; see the hazard at `event-service.js:103`.
* Two API processes in `SubscriptionAdmin`: PATCH and rotate could then write an
  old secret or name back.  It is the lost update that `lost_pause` shows for the
  status, and nothing in the code would prevent it.
* A SIGTERM while app.listen is awaited (`application.js:121`): `Start` is one step.
* In `Lifecycle` a process has one call.
* In `WebhookOut` a replay is one of a window that holds fewer events than a batch;
  the loop and its repetitions are in `Events`.

## 9. Plan

Done: all of sections 2 to 7.  Left, in this order:

1. Two API processes in `SubscriptionAdmin`, with reads and writes as separate
   steps as in `WebhookOut`, to say which properties survive.
2. The listing of deliveries and the statistics, if a property of theirs is found
   that relates them to the queue.
