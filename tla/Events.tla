------------------------------- MODULE Events -------------------------------
(***************************************************************************)
(* The events table: publishing with idempotency keys, test events,        *)
(* retention, the replay of a time window, and the pages of the listing.   *)
(*                                                                         *)
(* Publishing, test events and purging are one transaction each.  A replay *)
(* is one transaction too, but a long one: it reads the window batch by    *)
(* batch, so its loop is modelled statement by statement, with every other *)
(* writer waiting for the lock it holds.  A listing is read page by page   *)
(* by a client, with anything in between.                                  *)
(*                                                                         *)
(* An event type is a sequence of segments.  Of deliveries there is only   *)
(* how many of an event a subscription was ever sent.  Which old events    *)
(* retention has to spare, because they are still being delivered, is      *)
(* modelled in WebhookOut; here it may spare any.                          *)
(*                                                                         *)
(* Fault_ operators are described in DeliveryStore.                        *)
(***************************************************************************)
EXTENDS Naturals, Sequences, FiniteSets

CONSTANTS
    NULL,         \* SQL NULL, an omitted key, filter or cursor
    Subs,         \* subscriptions
    Active,       \* those that are active
    Patterns,     \* Patterns[s]: the patterns of s
    Types,        \* event types
    Requests,     \* the <<source, idempotency key>> pairs publishers send
    Batch,        \* EventService.REPLAY_BATCH
    Limit,        \* the limit of a listing
    RetentionMs,  \* EVENT_RETENTION_DAYS in milliseconds
    Many,         \* in one replay, stands for this many deliveries and more
    MaxSent,      \* bound on the deliveries of an event that is replayed
    MaxNow,       \* bound on the clock
    MaxEvents,    \* bound on the events published
    MaxPerMs      \* bound on the events of one millisecond

TestType == <<"webhook", "test">>

ASSUME EventBounds == Batch \in Nat \ {0} /\ Limit \in Nat \ {0}
ASSUME CountBounds == Many \in Nat /\ Many > 2 /\ MaxSent \in Nat
ASSUME TimeBounds == RetentionMs \in Nat /\ MaxNow \in Nat
ASSUME DataTypes ==
    Types \cup {TestType} \subseteq Seq(STRING) /\ Active \subseteq Subs
ASSUME NullIsNoData == NULL \notin Nat \cup Subs
ASSUME NullIsNoReplay ==
    NULL \notin [sub : Subs, from : Nat, to : Nat, cursor : Nat,
                 queued : Seq(0..Many), done : BOOLEAN]

VARIABLES
    now,
    events,    \* the table, by seq
    lastSeq,   \* its AUTOINCREMENT counter
    reached,   \* reached[e][s]: the deliveries ever queued of event e for s
    answers,   \* the answers to publishers whose event is still stored
    replay,    \* the replay whose transaction is open, or NULL
    reader     \* a client that reads the listing page by page, or NULL

vars == <<now, events, lastSeq, reached, answers, replay, reader>>

(***************************************************************************)
(* EventMatch.  The pattern order.* is the segments before the star with   *)
(* wild set, and * is no segments with wild set.                           *)
(***************************************************************************)
Matches(pattern, type) ==
    IF pattern.wild
    THEN /\ Len(type) > Len(pattern.segments)
         /\ SubSeq(type, 1, Len(pattern.segments)) = pattern.segments
    ELSE type = pattern.segments

Any(s, type) == \E pattern \in Patterns[s] : Matches(pattern, type)

(***************************************************************************)
(* The queries.                                                            *)
(***************************************************************************)
\* Finds the key of another publisher.
Fault_AnySource(source, key) == {e \in DOMAIN events : events[e].key = key}

ByKey(source, key) ==
    {e \in DOMAIN events : events[e].source = source /\ events[e].key = key}

\* Replays test events.
Fault_WithTests(from, to) ==
    {e \in DOMAIN events : from <= events[e].at /\ events[e].at < to}

Window(from, to) ==
    {e \in DOMAIN events : /\ events[e].only = NULL
                           /\ from <= events[e].at /\ events[e].at < to}

Listed(type, before) ==
    {e \in DOMAIN events : /\ events[e].only = NULL
                           /\ type # NULL => events[e].type = type
                           /\ before # NULL => e < before}

\* ORDER BY seq LIMIT n, and ORDER BY seq DESC LIMIT n.
FirstOf(S, n) ==
    {B \in SUBSET S : /\ \A e \in B, f \in S \ B : e < f
                      /\ B = S \/ Cardinality(B) = n
                      /\ Cardinality(B) <= n}

LastOf(S, n) ==
    {B \in SUBSET S : /\ \A e \in B, f \in S \ B : f < e
                      /\ B = S \/ Cardinality(B) = n
                      /\ Cardinality(B) <= n}

Init ==
    /\ now = 0
    /\ events = << >> /\ lastSeq = 0 /\ reached = << >>
    /\ answers = {}
    /\ replay = NULL /\ reader = NULL

-----------------------------------------------------------------------------
(***************************************************************************)
(* Writers.  A replay holds the write lock from its beginning to its end.  *)
(***************************************************************************)
Unlocked == replay = NULL

\* EventStore.insert, and a delivery for each of the targets.
One(targets) == [s \in Subs |-> IF s \in targets THEN 1 ELSE 0]

Add(event, targets) ==
    LET seq == lastSeq + 1
        table == DOMAIN events \cup {seq}
    IN  /\ Unlocked /\ lastSeq < MaxEvents
        /\ Cardinality({e \in DOMAIN events : events[e].at = now}) < MaxPerMs
        /\ lastSeq' = seq
        /\ events' = [e \in table |-> IF e = seq THEN event ELSE events[e]]
        /\ reached' = [e \in table |-> IF e = seq THEN One(targets)
                                      ELSE reached[e]]

Event(source, key, type, only) ==
    [at |-> now, source |-> source, key |-> key, type |-> type, only |-> only]

Answer(source, key, e) == [source |-> source, key |-> key, event |-> e]

\* EventService.publish with a key that is in use: the answer is the original
\* event, and nothing is queued.
PublishAgain(source, key, type) ==
    /\ Unlocked /\ key # NULL
    /\ \E e \in ByKey(source, key) :
          answers' = answers \cup {Answer(source, key, e)}
    /\ UNCHANGED <<now, events, lastSeq, reached, replay, reader>>

\* EventService.publish otherwise.
PublishNew(source, key, type) ==
    /\ key # NULL => ByKey(source, key) = {}
    /\ Add(Event(source, key, type, NULL), {s \in Active : Any(s, type)})
    /\ answers' = IF key = NULL THEN answers
                  ELSE answers \cup {Answer(source, key, lastSeq')}
    /\ UNCHANGED <<now, replay, reader>>

\* EventService.test: whatever the patterns and the status.
Test(source, s) ==
    /\ Add(Event(source, NULL, TestType, s), {s})
    /\ UNCHANGED <<now, answers, replay, reader>>

\* EventStore.purge.  A key of a purged event is free again.
Old == {e \in DOMAIN events : events[e].at + RetentionMs < now}

\* Without ON DELETE CASCADE.
Fault_NoCascade(gone) ==
    LET kept == DOMAIN events \ gone
    IN  /\ Unlocked /\ gone # {}
        /\ events' = [e \in kept |-> events[e]]
        /\ answers' = {a \in answers : a.event \in kept}
        /\ UNCHANGED <<now, lastSeq, reached, replay, reader>>

Purge(gone) ==
    LET kept == DOMAIN events \ gone
    IN  /\ Unlocked /\ gone # {}
        /\ events' = [e \in kept |-> events[e]]
        /\ reached' = [e \in kept |-> reached[e]]
        /\ answers' = {a \in answers : a.event \in kept}
        /\ UNCHANGED <<now, lastSeq, replay, reader>>

-----------------------------------------------------------------------------
(***************************************************************************)
(* EventService.replay.  queued counts, for each event, the deliveries it  *)
(* got in this transaction.  A full batch is followed by one that begins   *)
(* in the millisecond of its last event, and queues that event again.      *)
(***************************************************************************)
ReplayBegin(s, from, to) ==
    /\ Unlocked /\ from < to
    /\ \A e \in Window(from, to) : reached[e][s] < MaxSent
    /\ replay' = [sub |-> s, from |-> from, to |-> to, cursor |-> from,
                  queued |-> [e \in 1..lastSeq |-> 0], done |-> FALSE]
    /\ UNCHANGED <<now, events, lastSeq, reached, answers, reader>>

\* Goes on until a batch is empty.
Fault_UntilEmpty(batch, cursor) == batch = {}

\* The batch was not full, or the window is stuck in its first millisecond.
Ends(batch, cursor) == Cardinality(batch) < Batch \/ cursor = replay.from

\* Continues after the last millisecond that was read.
Fault_NextMs(batch) ==
    IF batch = {} THEN replay.cursor
    ELSE events[CHOOSE e \in batch : \A f \in batch : f <= e].at + 1

\* created_at of the last event of a batch.
Cursor(batch) ==
    IF batch = {} THEN replay.cursor
    ELSE events[CHOOSE e \in batch : \A f \in batch : f <= e].at

\* One delivery more.
Another(n) == IF n < Many THEN n + 1 ELSE Many

Wants(e) == Any(replay.sub, events[e].type)

ReplayBatch ==
    /\ replay # NULL /\ ~replay.done
    /\ \E batch \in FirstOf(Window(replay.cursor, replay.to), Batch) :
          replay' = [replay EXCEPT
              !.cursor = Cursor(batch),
              !.done = Ends(batch, Cursor(batch)),
              !.queued = [e \in DOMAIN @ |->
                  IF e \in batch /\ Wants(e) THEN Another(@[e]) ELSE @[e]]]
    /\ UNCHANGED <<now, events, lastSeq, reached, answers, reader>>

ReplayCommit ==
    /\ replay # NULL /\ replay.done
    /\ reached' = [e \in DOMAIN events |->
           [reached[e] EXCEPT ![replay.sub] = @ + replay.queued[e]]]
    /\ replay' = NULL
    /\ UNCHANGED <<now, events, lastSeq, answers, reader>>

-----------------------------------------------------------------------------
(***************************************************************************)
(* GET /events, newest first: one row more than the limit tells whether    *)
(* there is another page.  top is the newest event when reading began.     *)
(***************************************************************************)
Descending(S) ==
    CHOOSE order \in [1..Cardinality(S) -> S] :
        \A i, j \in 1..Cardinality(S) : i < j => order[i] > order[j]

\* Continues below the row that only shows there is another page.
Fault_BelowExtra(rows, items) ==
    IF Cardinality(rows) <= Limit THEN NULL
    ELSE CHOOSE e \in rows : \A f \in rows : e <= f

NextBefore(rows, items) ==
    IF Cardinality(rows) <= Limit THEN NULL
    ELSE CHOOSE e \in items : \A f \in items : e <= f

Page(type, before, shown, top) ==
    \E rows \in LastOf(Listed(type, before), Limit + 1) :
        \E items \in LastOf(rows, Limit) :
            reader' = [type |-> type, before |-> NextBefore(rows, items),
                       shown |-> shown \o Descending(items), top |-> top]

FirstPage(type) ==
    /\ reader = NULL
    /\ Page(type, NULL, << >>, lastSeq)
    /\ UNCHANGED <<now, events, lastSeq, reached, answers, replay>>

NextPage ==
    /\ reader # NULL /\ reader.before # NULL
    /\ Page(reader.type, reader.before, reader.shown, reader.top)
    /\ UNCHANGED <<now, events, lastSeq, reached, answers, replay>>

\* The client has what it wanted, or gives up.
CloseReader ==
    /\ reader # NULL
    /\ reader' = NULL
    /\ UNCHANGED <<now, events, lastSeq, reached, answers, replay>>

Tick ==
    /\ now < MaxNow
    /\ now' = now + 1
    /\ UNCHANGED <<events, lastSeq, reached, answers, replay, reader>>

Write ==
    \/ \E r \in Requests, type \in Types :
          PublishAgain(r[1], r[2], type) \/ PublishNew(r[1], r[2], type)
    \/ \E r \in Requests, s \in Subs : Test(r[1], s)
    \/ \E gone \in SUBSET Old : Purge(gone)

Replaying ==
    \/ \E s \in Subs : \E from \in 0..now : \E to \in (from + 1)..(now + 1) :
          ReplayBegin(s, from, to)
    \/ ReplayBatch \/ ReplayCommit

Reading ==
    (\E type \in Types \cup {NULL} : FirstPage(type)) \/ NextPage \/ CloseReader

Next == Tick \/ Write \/ Replaying \/ Reading

Spec == Init /\ [][Next]_vars

\* The loop of a replay is synchronous code: it goes on.
FairSpec == Spec /\ WF_vars(ReplayBatch) /\ WF_vars(ReplayCommit)

-----------------------------------------------------------------------------
(***************************************************************************)
(* What must hold.                                                         *)
(***************************************************************************)
Sources == {r[1] : r \in Requests}
Keys == {r[2] : r \in Requests} \cup {NULL}

\* Every variable has its type, and a row, its deliveries and what is
\* remembered of it are deleted together.
TypeOK ==
    /\ now \in Nat /\ lastSeq \in Nat
    /\ DOMAIN events \subseteq 1..lastSeq
    /\ events \in [DOMAIN events -> [at : 0..now, source : Sources, key : Keys,
                        type : Seq(STRING), only : Subs \cup {NULL}]]
    /\ reached \in [DOMAIN events -> [Subs -> Nat]]
    /\ answers \subseteq [source : Sources, key : Keys, event : DOMAIN events]
    /\ replay \in [sub : Subs, from : Nat, to : Nat, cursor : Nat,
                   queued : [1..lastSeq -> 0..Many], done : BOOLEAN] \cup {NULL}
    /\ reader # NULL =>
          /\ reader.before \in 1..lastSeq \cup {NULL}
          /\ reader.shown \in Seq(1..lastSeq) /\ reader.top \in 0..lastSeq


\* A publisher that sends a key gets the event it published under that key,
\* and the same one every time while it is stored, whatever keys other
\* publishers use.
KeysAnswerOwn ==
    \A a, b \in answers :
        /\ a.event \in DOMAIN events
        /\ events[a.event].source = a.source /\ events[a.event].key = a.key
        /\ a.source = b.source /\ a.key = b.key => a.event = b.event

\* A test event is sent to the subscription it was made for and to no other,
\* even if its patterns match and a replay covers it.
TestStaysPrivate ==
    \A e \in DOMAIN events :
        events[e].only # NULL =>
            \A s \in Subs \ {events[e].only} : reached[e][s] = 0

\* A replay that is done has queued every event of its window that the
\* subscription matches, except that it stops when the first millisecond of
\* the window holds a whole batch.
ReplayCovers ==
    replay # NULL /\ replay.done =>
        \/ \A e \in Window(replay.from, replay.to) :
              Wants(e) => replay.queued[e] > 0
        \/ Cardinality({e \in Window(replay.from, replay.to) :
                           events[e].at = replay.from}) >= Batch

\* A replay comes to its end.
ReplayEnds == replay # NULL ~> replay = NULL

\* A millisecond of the window after its first holds a whole batch.
FullLater ==
    \E t \in (replay.from + 1)..replay.to :
        Cardinality({e \in Window(t, replay.to) : events[e].at = t}) >= Batch

\* A replay comes to its end if no millisecond after the first of its window
\* holds a whole batch.
ReplayEndsIfSpread == replay # NULL /\ ~FullLater ~> replay = NULL

\* Each round of a replay's loop is its last or moves the cursor on, within the
\* window, if no millisecond after the first of the window holds a whole batch.
ReplayAdvances ==
    [][ReplayBatch =>
          \/ replay'.done
          \/ replay.cursor < replay'.cursor /\ replay'.cursor < replay.to
          \/ FullLater]_vars

\* The table as its readers see it: an event and who wants it.
Wanted(type) == {s \in Subs : Any(s, type)}

Fed ==
    [e \in DOMAIN events |-> [at |-> events[e].at, only |-> events[e].only,
                              wanted |-> Wanted(events[e].type)]]

Feed == INSTANCE AbstractFeed
    WITH feed <- Fed, issued <- lastSeq, sent <- reached, Nobody <- NULL

\* However a replay cuts its window into batches, events are queued for those
\* AbstractFeed promises them to and no one else, and as often: once by a replay
\* of a window that holds fewer events than a batch, otherwise at most twice.
KeepsFeed == Feed!Spec

\* A client that reads page after page sees, once and newest first, every event
\* that was there when it began and was not purged in the meantime, whatever is
\* published and purged between two pages.
PagesComplete ==
    reader # NULL =>
        LET shown == {reader.shown[i] : i \in DOMAIN reader.shown}
        IN  /\ \A i, j \in DOMAIN reader.shown :
                  i < j => reader.shown[i] > reader.shown[j]
            /\ \A e \in Listed(reader.type, NULL) :
                  /\ e <= reader.top
                  /\ reader.before # NULL => e >= reader.before
                  => e \in shown
=============================================================================
