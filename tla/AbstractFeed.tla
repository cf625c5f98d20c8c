---------------------------- MODULE AbstractFeed ----------------------------
(***************************************************************************)
(* What webhook-out promises about who gets an event, and how often: no    *)
(* batches, cursors, locks, types or keys.  An event is queued, in the     *)
(* step that stores it, for the active subscriptions that want it, and a   *)
(* test for the one it is made for.  A replay is one step, too.  It queues *)
(* for its subscription what that wants of the window: each event once, if *)
(* the window holds fewer events than a batch.  Otherwise it queues some   *)
(* of them again, but none three times and none of the first millisecond   *)
(* twice; and if the first millisecond holds a whole batch, it queues what *)
(* is wanted of the oldest batch, and no more.  Nothing is forgotten       *)
(* before its retention is over.                                           *)
(***************************************************************************)
EXTENDS Naturals, FiniteSets

CONSTANTS Subs, Active, Nobody, Batch, RetentionMs

VARIABLES
    now,
    feed,      \* the events that are stored, by number
    issued,    \* the numbers handed out are at most this
    sent       \* sent[e][s]: how often event e was ever queued for s

promised == <<now, feed, issued, sent>>

Event(wanted, only) == [at |-> now, wanted |-> wanted, only |-> only]

One(targets) == [s \in Subs |-> IF s \in targets THEN 1 ELSE 0]

Store(event, targets) ==
    LET e == issued + 1
        stored == DOMAIN feed \cup {e}
    IN  /\ issued' = e
        /\ feed' = [f \in stored |-> IF f = e THEN event ELSE feed[f]]
        /\ sent' = [f \in stored |-> IF f = e THEN One(targets) ELSE sent[f]]
        /\ UNCHANGED now

Publish(wanted) == Store(Event(wanted, Nobody), wanted \cap Active)

Test(wanted, s) == Store(Event(wanted, s), {s})

Window(from, to) ==
    {e \in DOMAIN feed : /\ feed[e].only = Nobody
                         /\ from <= feed[e].at /\ feed[e].at < to}

FirstMs(from, to) == {e \in Window(from, to) : feed[e].at = from}

\* What a replay of a window reads.
Reads(read, from, to) ==
    IF Cardinality(FirstMs(from, to)) < Batch
    THEN read = Window(from, to)
    ELSE /\ read \subseteq FirstMs(from, to) /\ Cardinality(read) = Batch
         /\ \A e \in read, f \in Window(from, to) \ read : e < f

\* What of it a replay reads once more.
ReadsAgain(again, from, to) ==
    Cardinality(FirstMs(from, to)) < Batch =>
        (again = {} <=> Cardinality(Window(from, to)) < Batch)

Copies(e, read, again) ==
    IF e \in again THEN 2 ELSE IF e \in read THEN 1 ELSE 0

\* A replay that queues nothing is no step.
Replay(s, from, to) ==
    /\ UNCHANGED <<now, feed, issued>> /\ sent' # sent
    /\ \E read \in SUBSET Window(from, to) :
          /\ Reads(read, from, to)
          /\ \E again \in SUBSET (read \ FirstMs(from, to)) :
                /\ ReadsAgain(again, from, to)
                /\ sent' = [e \in DOMAIN feed |->
                      IF s \in feed[e].wanted
                      THEN [sent[e] EXCEPT ![s] = @ + Copies(e, read, again)]
                      ELSE sent[e]]

Forget(gone) ==
    /\ \A e \in gone : feed[e].at + RetentionMs < now
    /\ feed' = [e \in DOMAIN feed \ gone |-> feed[e]]
    /\ sent' = [e \in DOMAIN feed \ gone |-> sent[e]]
    /\ UNCHANGED <<now, issued>>

Wait == now < now' /\ UNCHANGED <<feed, issued, sent>>

\* A feed that has been in use: nobody got a test made for another.
Init ==
    /\ DOMAIN sent = DOMAIN feed
    /\ \A e \in DOMAIN feed :
          /\ e <= issued /\ feed[e].at <= now
          /\ feed[e].only # Nobody =>
                \A s \in Subs \ {feed[e].only} : sent[e][s] = 0

Next ==
    \/ \E wanted \in SUBSET Subs :
          Publish(wanted) \/ \E s \in Subs : Test(wanted, s)
    \/ \E s \in Subs : \E from \in 0..now : \E to \in (from + 1)..(now + 1) :
          Replay(s, from, to)
    \/ \E gone \in SUBSET DOMAIN feed : Forget(gone)
    \/ Wait

Spec == Init /\ [][Next]_promised
=============================================================================
