---------------------------- MODULE EventsProofs ----------------------------
(***************************************************************************)
(* Safety of Events: types, the answers to idempotency keys, the privacy   *)
(* of test events, what a replay covers, for every size of a batch and     *)
(* every rate of events, and the pages of the listing.                     *)
(***************************************************************************)
EXTENDS Events, FiniteSetTheorems, SequenceTheorems, WellFoundedInduction, TLAPS

-----------------------------------------------------------------------------
(***************************************************************************)
(* Sets of numbers have a least, finite ones a greatest.                   *)
(***************************************************************************)
LEMMA Least ==
    ASSUME NEW S \in SUBSET Nat, S # {}
    PROVE  \E l \in S : \A f \in S : l <= f
<1>1. PICK l \in S : \A f \in S : <<f, l>> \notin OpToRel(<, Nat)
    BY NatLessThanWellFounded, WFMin
<1>2. \A f \in S : ~(f < l)
    BY <1>1 DEF OpToRel
<1>3. l \in Nat /\ \A f \in S : f \in Nat
    OBVIOUS
<1> QED
    BY <1>2, <1>3

\* The greatest is the one with the fewest above it.
LEMMA Greatest ==
    ASSUME NEW S \in SUBSET Nat, IsFiniteSet(S), S # {}
    PROVE  \E g \in S : \A f \in S : f <= g
<1> DEFINE above(e) == {f \in S : e < f}
           counts == {Cardinality(above(e)) : e \in S}
<1>1. ASSUME NEW e \in S
      PROVE  IsFiniteSet(above(e)) /\ Cardinality(above(e)) \in Nat
    <2>1. above(e) \in SUBSET S
        OBVIOUS
    <2> QED
        BY <2>1, FS_Subset, FS_CardinalityType
<1>2. counts \in SUBSET Nat /\ counts # {}
    BY <1>1
<1>3. PICK g \in S : \A c \in counts : Cardinality(above(g)) <= c
    <2> HIDE DEF counts
    <2>1. PICK l \in counts : \A c \in counts : l <= c
        BY <1>2, Least
    <2> QED
        BY <2>1 DEF counts
<1>4. ASSUME NEW f \in S, g < f PROVE FALSE
    <2>1. above(f) \in SUBSET above(g) /\ f \in above(g) /\ f \notin above(f)
        <3>1. g \in Nat /\ f \in Nat /\ \A d \in S : d \in Nat
            OBVIOUS
        <3>2. ~(f < f) /\ \A d \in S : f < d => g < d
            BY <1>4, <3>1
        <3> QED
            BY <1>4, <3>2
    <2>2. /\ Cardinality(above(f)) <= Cardinality(above(g))
          /\ Cardinality(above(f)) # Cardinality(above(g))
        BY <1>1, <2>1, FS_Subset
    <2>3. Cardinality(above(g)) <= Cardinality(above(f))
        BY <1>3
    <2>4. Cardinality(above(g)) \in Nat /\ Cardinality(above(f)) \in Nat
        BY <1>1
    <2> QED
        BY <2>2, <2>3, <2>4
<1>5. g \in Nat /\ \A f \in S : f \in Nat
    OBVIOUS
<1> QED
    BY <1>4, <1>5

-----------------------------------------------------------------------------
(***************************************************************************)
(* The inductive invariant.                                                *)
(***************************************************************************)
\* Rows are numbered in the order of their times.
RowsOK ==
    /\ now \in Nat /\ lastSeq \in Nat
    /\ DOMAIN events \subseteq 1..lastSeq
    /\ \A e \in DOMAIN events : events[e].at \in Nat /\ events[e].at <= now
    /\ \A e, f \in DOMAIN events : e < f => events[e].at <= events[f].at
    /\ reached \in [DOMAIN events -> [Subs -> Nat]]

\* A publisher has one event of a key.
KeysOK ==
    /\ KeysAnswerOwn
    /\ \A a \in answers : a.key # NULL
    /\ \A e, f \in DOMAIN events :
          /\ events[e].key # NULL
          /\ events[e].source = events[f].source /\ events[e].key = events[f].key
          => e = f

PrivateOK ==
    /\ TestStaysPrivate
    /\ replay # NULL =>
          \A e \in DOMAIN events :
              events[e].only # NULL => replay.queued[e] = 0

Replays ==
    [sub : Subs, from : Nat, to : Nat, cursor : Nat, queued : Seq(0..Many),
     done : BOOLEAN]

\* What lies before the cursor has been read.
ReplayOK ==
    /\ ReplayCovers
    /\ replay # NULL =>
          /\ replay \in Replays
          /\ replay.queued \in [1..lastSeq -> 0..Many]
          /\ replay.from <= replay.cursor
          /\ \A e \in Window(replay.from, replay.to) :
                events[e].at < replay.cursor /\ Wants(e) => replay.queued[e] > 0

EventsInv == RowsOK /\ KeysOK /\ PrivateOK /\ ReplayOK

LEMMA InitEvents == Init => EventsInv
<1> SUFFICES ASSUME Init PROVE EventsInv
    OBVIOUS
<1>1. RowsOK
    BY DEF Init, RowsOK
<1>2. KeysOK
    BY DEF Init, KeysOK, KeysAnswerOwn
<1>3. PrivateOK
    BY DEF Init, PrivateOK, TestStaysPrivate
<1>4. ReplayOK
    BY DEF Init, ReplayOK, ReplayCovers
<1> QED
    BY <1>1, <1>2, <1>3, <1>4 DEF EventsInv

-----------------------------------------------------------------------------
(***************************************************************************)
(* Writers.                                                                *)
(***************************************************************************)
\* A new row has a number and a time after all others.
LEMMA AddRows ==
    ASSUME RowsOK, NEW event, NEW targets, Add(event, targets),
           event.at = now, now' = now
    PROVE  /\ RowsOK' /\ replay = NULL
           /\ lastSeq' = lastSeq + 1
           /\ DOMAIN events' = DOMAIN events \cup {lastSeq'}
           /\ lastSeq' \notin DOMAIN events
           /\ events'[lastSeq'] = event /\ reached'[lastSeq'] = One(targets)
           /\ \A e \in DOMAIN events : /\ events'[e] = events[e]
                                       /\ reached'[e] = reached[e]
<1>1. lastSeq \in Nat /\ lastSeq' = lastSeq + 1 /\ replay = NULL
    BY DEF Add, Unlocked, RowsOK
<1>2. \A e \in DOMAIN events : e \in Nat /\ e < lastSeq'
    BY <1>1 DEF RowsOK
<1>3. lastSeq' \notin DOMAIN events
    BY <1>1, <1>2
<1>4. /\ DOMAIN events' = DOMAIN events \cup {lastSeq'}
      /\ DOMAIN reached' = DOMAIN events \cup {lastSeq'}
      /\ events'[lastSeq'] = event /\ reached'[lastSeq'] = One(targets)
      /\ \A e \in DOMAIN events : events'[e] = events[e] /\ reached'[e] = reached[e]
    BY <1>1, <1>3 DEF Add
<1>5. RowsOK'
    <2>1. now' \in Nat /\ lastSeq' \in Nat
        BY <1>1 DEF RowsOK
    <2>2. DOMAIN events' \subseteq 1..lastSeq'
        BY <1>1, <1>4 DEF RowsOK
    <2>3. \A e \in DOMAIN events' : events'[e].at \in Nat /\ events'[e].at <= now'
        BY <1>4 DEF RowsOK
    <2>4. ASSUME NEW e \in DOMAIN events', NEW f \in DOMAIN events', e < f
          PROVE  events'[e].at <= events'[f].at
        <3>1. e \in DOMAIN events
            BY <1>1, <1>2, <1>4, <2>4
        <3>2. CASE f \in DOMAIN events
            BY <1>4, <2>4, <3>1, <3>2 DEF RowsOK
        <3>3. CASE f = lastSeq'
            BY <1>4, <3>1, <3>3 DEF RowsOK
        <3> QED
            BY <1>4, <3>2, <3>3
    <2>5. reached' \in [DOMAIN events' -> [Subs -> Nat]]
        <3>1. One(targets) \in [Subs -> Nat]
            BY DEF One
        <3> QED
            BY <1>1, <1>4, <3>1 DEF Add, RowsOK
    <2> QED
        BY <2>1, <2>2, <2>3, <2>4, <2>5 DEF RowsOK
<1> QED
    BY <1>1, <1>3, <1>4, <1>5

LEMMA PublishNewEvents ==
    ASSUME EventsInv, NEW source, NEW key, NEW type,
           PublishNew(source, key, type)
    PROVE  EventsInv'
<1> DEFINE event == Event(source, key, type, NULL)
<1>1. /\ event.at = now /\ event.source = source /\ event.key = key
      /\ event.only = NULL
    BY DEF Event
<1>2. \E targets : Add(event, targets)
    BY DEF PublishNew
<1>3. PICK targets : Add(event, targets)
    BY <1>2
<1> HIDE DEF event
<1>4. /\ now' = now /\ replay' = replay
      /\ answers' = IF key = NULL THEN answers
                    ELSE answers \cup {Answer(source, key, lastSeq')}
      /\ key # NULL => ByKey(source, key) = {}
    BY DEF PublishNew
<1>5. /\ RowsOK' /\ replay = NULL
      /\ DOMAIN events' = DOMAIN events \cup {lastSeq'}
      /\ lastSeq' \notin DOMAIN events
      /\ events'[lastSeq'] = event
      /\ \A e \in DOMAIN events : events'[e] = events[e] /\ reached'[e] = reached[e]
    BY <1>1, <1>3, <1>4, AddRows DEF EventsInv
<1>6. \A e \in DOMAIN events :
          key # NULL => ~(events[e].source = source /\ events[e].key = key)
    BY <1>4 DEF ByKey
<1>7. \A a \in answers :
          /\ a.event \in DOMAIN events /\ a.key # NULL
          /\ events[a.event].source = a.source /\ events[a.event].key = a.key
    BY DEF EventsInv, KeysOK, KeysAnswerOwn
<1>8. KeysOK'
    <2>1. ASSUME NEW a \in answers'
          PROVE  /\ a.event \in DOMAIN events' /\ a.key # NULL
                 /\ events'[a.event].source = a.source
                 /\ events'[a.event].key = a.key
        <3>1. CASE a \in answers
            BY <1>5, <1>7, <3>1
        <3>2. CASE a \notin answers
            BY <1>1, <1>4, <1>5, <2>1, <3>2 DEF Answer
        <3> QED
            BY <3>1, <3>2
    <2>2. \A e, f \in DOMAIN events' :
              /\ events'[e].key # NULL
              /\ events'[e].source = events'[f].source
              /\ events'[e].key = events'[f].key
              => e = f
        BY <1>1, <1>5, <1>6 DEF EventsInv, KeysOK
    <2> QED
        BY <2>1, <2>2 DEF KeysOK, KeysAnswerOwn
<1>9. PrivateOK'
    BY <1>1, <1>4, <1>5 DEF EventsInv, PrivateOK, TestStaysPrivate
<1>10. ReplayOK'
    BY <1>4, <1>5 DEF ReplayOK, ReplayCovers
<1> QED
    BY <1>5, <1>8, <1>9, <1>10 DEF EventsInv

LEMMA TestEvents ==
    ASSUME EventsInv, NEW source, NEW s \in Subs, Test(source, s)
    PROVE  EventsInv'
<1> DEFINE event == Event(source, NULL, TestType, s)
<1>1. event.at = now /\ event.key = NULL /\ event.only = s
    BY DEF Event
<1>2. Add(event, {s}) /\ now' = now /\ replay' = replay /\ answers' = answers
    BY DEF Test
<1> HIDE DEF event
<1>3. /\ RowsOK' /\ replay = NULL
      /\ DOMAIN events' = DOMAIN events \cup {lastSeq'}
      /\ events'[lastSeq'] = event /\ reached'[lastSeq'] = One({s})
      /\ \A e \in DOMAIN events : events'[e] = events[e] /\ reached'[e] = reached[e]
    BY <1>1, <1>2, AddRows DEF EventsInv
<1>4. KeysOK'
    BY <1>1, <1>2, <1>3 DEF EventsInv, KeysOK, KeysAnswerOwn
<1>5. PrivateOK'
    BY <1>1, <1>2, <1>3 DEF EventsInv, PrivateOK, TestStaysPrivate, One
<1>6. ReplayOK'
    BY <1>2, <1>3 DEF ReplayOK, ReplayCovers
<1> QED
    BY <1>3, <1>4, <1>5, <1>6 DEF EventsInv

LEMMA PurgeEvents ==
    ASSUME EventsInv, NEW gone, Purge(gone)
    PROVE  EventsInv'
<1>1. /\ now' = now /\ lastSeq' = lastSeq /\ replay = NULL /\ replay' = NULL
      /\ DOMAIN events' = DOMAIN events \ gone
      /\ reached' = [e \in DOMAIN events \ gone |-> reached[e]]
      /\ answers' = {a \in answers : a.event \in DOMAIN events \ gone}
      /\ \A e \in DOMAIN events \ gone :
            events'[e] = events[e] /\ reached'[e] = reached[e]
    BY DEF Purge, Unlocked
<1>2. RowsOK'
    BY <1>1 DEF EventsInv, RowsOK
<1>3. KeysOK'
    BY <1>1 DEF EventsInv, KeysOK, KeysAnswerOwn
<1>4. PrivateOK'
    BY <1>1 DEF EventsInv, PrivateOK, TestStaysPrivate
<1>5. ReplayOK'
    BY <1>1 DEF ReplayOK, ReplayCovers
<1> QED
    BY <1>2, <1>3, <1>4, <1>5 DEF EventsInv

LEMMA PublishAgainEvents ==
    ASSUME EventsInv, NEW source, NEW key, NEW type,
           PublishAgain(source, key, type)
    PROVE  EventsInv'
<1>1. /\ now' = now /\ lastSeq' = lastSeq /\ events' = events
      /\ reached' = reached /\ replay = NULL /\ replay' = NULL
    BY DEF PublishAgain, Unlocked
<1>2. PICK e \in ByKey(source, key) :
          answers' = answers \cup {Answer(source, key, e)}
    BY DEF PublishAgain
<1>3. /\ e \in DOMAIN events /\ key # NULL
      /\ events[e].source = source /\ events[e].key = key
    BY <1>2 DEF ByKey, PublishAgain
<1>4. \A a \in answers' :
          /\ a.event \in DOMAIN events /\ a.key # NULL
          /\ events[a.event].source = a.source /\ events[a.event].key = a.key
    BY <1>2, <1>3 DEF EventsInv, KeysOK, KeysAnswerOwn, Answer
<1>5. KeysOK'
    BY <1>1, <1>4 DEF EventsInv, KeysOK, KeysAnswerOwn
<1>6. RowsOK' /\ PrivateOK' /\ ReplayOK'
    BY <1>1 DEF EventsInv, RowsOK, PrivateOK, TestStaysPrivate, ReplayOK, ReplayCovers
<1> QED
    BY <1>5, <1>6 DEF EventsInv

-----------------------------------------------------------------------------
(***************************************************************************)
(* The replay.                                                             *)
(***************************************************************************)
LEMMA BeginEvents ==
    ASSUME EventsInv, NEW s \in Subs, NEW from \in 0..now,
           NEW to \in (from + 1)..(now + 1), ReplayBegin(s, from, to)
    PROVE  EventsInv'
<1>1. /\ UNCHANGED <<now, events, lastSeq, reached, answers>>
      /\ replay' = [sub |-> s, from |-> from, to |-> to, cursor |-> from,
                    queued |-> [e \in 1..lastSeq |-> 0], done |-> FALSE]
    BY DEF ReplayBegin
<1>2. from \in Nat /\ to \in Nat /\ lastSeq \in Nat
    BY DEF EventsInv, RowsOK
<1>3. RowsOK' /\ KeysOK'
    BY <1>1 DEF EventsInv, RowsOK, KeysOK, KeysAnswerOwn
<1>4. PrivateOK'
    BY <1>1 DEF EventsInv, RowsOK, PrivateOK, TestStaysPrivate
<1>5. ReplayOK'
    <2>1. \A e \in Window(from, to)' : ~(events[e].at < from)
        BY <1>1, <1>2 DEF Window, EventsInv, RowsOK
    <2>2. PICK zero : zero = [e \in 1..lastSeq |-> 0]
        OBVIOUS
    <2>3. zero \in [1..lastSeq -> 0..Many] /\ zero \in Seq(0..Many)
        <3>1. zero \in [1..lastSeq -> 0..Many]
            BY <2>2, CountBounds
        <3> QED
            BY <1>2, <3>1, SeqDef
    <2>4. replay' = [sub |-> s, from |-> from, to |-> to, cursor |-> from,
                     queued |-> zero, done |-> FALSE]
        BY <1>1, <2>2
    <2> QED
        BY <1>1, <1>2, <2>1, <2>3, <2>4 DEF ReplayOK, ReplayCovers, Window, Replays
<1> QED
    BY <1>3, <1>4, <1>5 DEF EventsInv

\* What a batch adds to the count of an event.
LEMMA MoreCopies ==
    ASSUME NEW n \in 0..Many
    PROVE  /\ Another(n) \in 0..Many /\ Another(n) > 0
           /\ n <= 1 => Another(n) = n + 1
    BY CountBounds DEF Another

\* What a batch leaves unread has the time of its last event, or a later one;
\* and if it is the last batch, nothing is left or the first millisecond of the
\* window fills a batch.
LEMMA BatchScan ==
    ASSUME EventsInv, replay # NULL,
           NEW batch \in FirstOf(Window(replay.cursor, replay.to), Batch)
    PROVE  /\ Cursor(batch) \in Nat /\ replay.cursor <= Cursor(batch)
           /\ batch \subseteq Window(replay.cursor, replay.to)
           /\ \A e \in Window(replay.cursor, replay.to) :
                 events[e].at < Cursor(batch) => e \in batch
           /\ \A e \in batch : /\ replay.cursor <= events[e].at
                               /\ events[e].at <= Cursor(batch)
           /\ batch # {} => \E e \in batch : events[e].at = Cursor(batch)
           /\ Ends(batch, Cursor(batch)) =>
                 \/ Window(replay.cursor, replay.to) \subseteq batch
                 \/ Cardinality({e \in Window(replay.from, replay.to) :
                                    events[e].at = replay.from}) >= Batch
<1> DEFINE W == Window(replay.cursor, replay.to)
           first == {e \in Window(replay.from, replay.to) :
                        events[e].at = replay.from}
<1>1. /\ replay.from \in Nat /\ replay.to \in Nat /\ replay.cursor \in Nat
      /\ replay.from <= replay.cursor
    BY DEF EventsInv, ReplayOK, Replays
<1>2. /\ lastSeq \in Nat /\ DOMAIN events \subseteq 1..lastSeq
      /\ \A e \in DOMAIN events : events[e].at \in Nat
      /\ \A e, f \in DOMAIN events : e < f => events[e].at <= events[f].at
    BY DEF EventsInv, RowsOK
<1>3. W \subseteq DOMAIN events
    BY DEF Window
<1>4. /\ batch \subseteq W /\ \A e \in batch, f \in W \ batch : e < f
      /\ batch = W \/ Cardinality(batch) = Batch
    BY DEF FirstOf
<1>5. \A e \in W : /\ replay.cursor <= events[e].at /\ events[e].at < replay.to
                   /\ events[e].only = NULL
    BY DEF Window
<1>6. Batch \in Nat /\ Batch # 0
    BY EventBounds
<1>7. \A S \in SUBSET DOMAIN events : IsFiniteSet(S)
    <2>1. IsFiniteSet(1..lastSeq)
        BY <1>2, FS_Interval
    <2> QED
        BY <1>2, <2>1, FS_Subset
<1>8. IsFiniteSet(batch) /\ Cardinality(batch) \in Nat
    <2>1. batch \in SUBSET DOMAIN events
        BY <1>3, <1>4
    <2> QED
        BY <1>7, <2>1, FS_CardinalityType
<1> HIDE DEF W
<1>9. CASE batch = {}
    <2>1. Cursor(batch) = replay.cursor
        BY <1>9 DEF Cursor
    <2>2. \A e \in W : ~(events[e].at < Cursor(batch))
        BY <1>1, <1>2, <1>3, <1>5, <2>1
    <2>3. Cardinality(batch) = 0
        BY <1>9, FS_EmptySet
    <2>4. batch = W
        BY <1>4, <1>6, <2>3
    <2> QED
        BY <1>1, <1>4, <1>9, <2>1, <2>2, <2>4 DEF W
<1>10. CASE batch # {}
    <2>1. batch \in SUBSET Nat
        BY <1>2, <1>3, <1>4
    <2>2. \E g \in batch : \A f \in batch : f <= g
        BY <1>8, <1>10, <2>1, Greatest
    <2>3. PICK last \in batch : /\ \A f \in batch : f <= last
                                /\ Cursor(batch) = events[last].at
        BY <1>10, <2>2 DEF Cursor
    <2>4. /\ last \in W /\ last \in DOMAIN events /\ last \in Nat
          /\ Cursor(batch) \in Nat /\ replay.cursor <= Cursor(batch)
        BY <1>2, <1>3, <1>4, <1>5, <2>1, <2>3
    <2>5. ASSUME NEW e \in W, e \notin batch PROVE ~(events[e].at < Cursor(batch))
        <3>1. last < e /\ e \in DOMAIN events
            BY <1>3, <1>4, <2>3, <2>5
        <3>2. events[last].at <= events[e].at /\ events[e].at \in Nat
            BY <1>2, <2>4, <3>1
        <3> QED
            BY <2>3, <2>4, <3>2
    <2>6. ASSUME NEW e \in batch PROVE events[e].at <= Cursor(batch)
        <3>1. e \in DOMAIN events /\ e \in Nat /\ e <= last
            BY <1>3, <1>4, <2>1, <2>3
        <3>2. CASE e = last
            BY <2>3, <2>4, <3>2
        <3>3. CASE e < last
            BY <1>2, <2>3, <2>4, <3>1, <3>3
        <3> QED
            BY <2>4, <3>1, <3>2, <3>3
    <2>7. ASSUME Ends(batch, Cursor(batch)), ~(W \subseteq batch)
          PROVE  Cardinality(first) >= Batch
        <3>1. Cardinality(batch) = Batch
            BY <1>4, <2>7
        <3>2. Cursor(batch) = replay.from
            BY <1>6, <2>7, <3>1 DEF Ends
        <3>3. ASSUME NEW e \in batch PROVE e \in first
            <4>1. e \in W /\ e \in DOMAIN events
                BY <1>3, <1>4
            <4>2. /\ replay.cursor <= events[e].at /\ events[e].at < replay.to
                  /\ events[e].at <= replay.from /\ events[e].at \in Nat
                  /\ events[e].only = NULL
                BY <1>2, <1>5, <2>6, <3>2, <4>1
            <4>3. events[e].at = replay.from
                BY <1>1, <4>2
            <4> QED
                BY <1>1, <4>1, <4>2, <4>3 DEF Window
        <3>4. first \in SUBSET DOMAIN events
            BY DEF Window
        <3>5. batch \in SUBSET first
            BY <3>3
        <3> HIDE DEF first
        <3>6. IsFiniteSet(first) /\ Cardinality(first) \in Nat
            BY <1>7, <3>4, FS_CardinalityType
        <3>7. Cardinality(batch) <= Cardinality(first)
            BY <3>5, <3>6, FS_Subset
        <3> QED
            BY <1>6, <3>1, <3>6, <3>7
    <2> QED
        BY <1>4, <1>5, <2>3, <2>4, <2>5, <2>6, <2>7 DEF W
<1> QED
    BY <1>9, <1>10

\* A round of the loop.
LEMMA BatchRound ==
    ASSUME EventsInv, ReplayBatch
    PROVE  /\ replay # NULL /\ ~replay.done /\ replay' \in Replays
           /\ UNCHANGED <<now, events, lastSeq, reached, answers>>
           /\ replay'.sub = replay.sub /\ replay'.from = replay.from
           /\ replay'.to = replay.to
           /\ replay'.queued \in [1..lastSeq -> 0..Many]
           /\ \E batch \in FirstOf(Window(replay.cursor, replay.to), Batch) :
                 /\ replay'.cursor = Cursor(batch)
                 /\ replay'.done = Ends(batch, Cursor(batch))
                 /\ \A e \in 1..lastSeq :
                       replay'.queued[e] = IF e \in batch /\ Wants(e)
                                           THEN Another(replay.queued[e])
                                           ELSE replay.queued[e]
<1>1. /\ replay # NULL /\ UNCHANGED <<now, events, lastSeq, reached, answers>>
      /\ ~replay.done
    BY DEF ReplayBatch
<1>2. PICK batch \in FirstOf(Window(replay.cursor, replay.to), Batch) :
          replay' = [replay EXCEPT
              !.cursor = Cursor(batch),
              !.done = Ends(batch, Cursor(batch)),
              !.queued = [e \in DOMAIN @ |->
                  IF e \in batch /\ Wants(e) THEN Another(@[e]) ELSE @[e]]]
    BY DEF ReplayBatch
<1>3. PICK cursor, ends : cursor = Cursor(batch) /\ ends = Ends(batch, cursor)
    OBVIOUS
<1>4. /\ replay \in Replays /\ replay.queued \in [1..lastSeq -> 0..Many]
      /\ lastSeq \in Nat
    BY <1>1 DEF EventsInv, ReplayOK, RowsOK
<1>5. PICK counts :
          counts = [e \in 1..lastSeq |-> IF e \in batch /\ Wants(e)
                                         THEN Another(replay.queued[e])
                                         ELSE replay.queued[e]]
    OBVIOUS
<1>6. replay' = [replay EXCEPT !.cursor = cursor, !.done = ends,
                               !.queued = counts]
    BY <1>2, <1>3, <1>4, <1>5
<1>7. counts \in [1..lastSeq -> 0..Many]
    <2>1. ASSUME NEW e \in 1..lastSeq PROVE counts[e] \in 0..Many
        <3>1. replay.queued[e] \in 0..Many
            BY <1>4
        <3> QED
            BY <1>5, <3>1, MoreCopies
    <2> QED
        BY <1>5, <2>1
<1>8. counts \in Seq(0..Many)
    BY <1>4, <1>7, SeqDef
<1>9. ends \in BOOLEAN /\ cursor \in Nat
    BY <1>1, <1>3, BatchScan DEF Ends
<1>10. /\ replay' \in Replays
       /\ replay'.sub = replay.sub /\ replay'.from = replay.from
       /\ replay'.to = replay.to /\ replay'.cursor = cursor
       /\ replay'.queued = counts /\ replay'.done = ends
    BY <1>4, <1>6, <1>8, <1>9 DEF Replays
<1> QED
    BY <1>1, <1>3, <1>5, <1>7, <1>10

LEMMA BatchEvents == ASSUME EventsInv, ReplayBatch PROVE EventsInv'
<1>1. /\ replay # NULL /\ UNCHANGED <<now, events, lastSeq, reached, answers>>
      /\ ~replay.done /\ replay' \in Replays
      /\ replay'.sub = replay.sub /\ replay'.from = replay.from
      /\ replay'.to = replay.to
      /\ replay'.queued \in [1..lastSeq -> 0..Many]
    BY BatchRound
<1>2. PICK batch \in FirstOf(Window(replay.cursor, replay.to), Batch) :
          /\ replay'.cursor = Cursor(batch)
          /\ replay'.done = Ends(batch, Cursor(batch))
          /\ \A e \in 1..lastSeq :
                replay'.queued[e] = IF e \in batch /\ Wants(e)
                                    THEN Another(replay.queued[e])
                                    ELSE replay.queued[e]
    BY BatchRound
<1>3. PICK cursor, ends : cursor = Cursor(batch) /\ ends = Ends(batch, cursor)
    OBVIOUS
<1>4. /\ cursor \in Nat /\ replay.cursor <= cursor
      /\ batch \subseteq Window(replay.cursor, replay.to)
      /\ \A e \in Window(replay.cursor, replay.to) :
            events[e].at < cursor => e \in batch
      /\ ends =>
            \/ Window(replay.cursor, replay.to) \subseteq batch
            \/ Cardinality({e \in Window(replay.from, replay.to) :
                               events[e].at = replay.from}) >= Batch
    BY <1>1, <1>3, BatchScan
<1>5. /\ replay \in Replays /\ replay.queued \in [1..lastSeq -> 0..Many]
      /\ replay.from <= replay.cursor
      /\ \A e \in Window(replay.from, replay.to) :
            events[e].at < replay.cursor /\ Wants(e) => replay.queued[e] > 0
    BY <1>1 DEF EventsInv, ReplayOK
<1>6. \A e \in batch : e \in DOMAIN events /\ events[e].only = NULL
    BY <1>4 DEF Window
<1>7. DOMAIN events \subseteq 1..lastSeq
    BY DEF EventsInv, RowsOK
<1>8. ASSUME NEW e \in DOMAIN events
      PROVE  /\ replay.queued[e] \in 0..Many /\ replay'.queued[e] \in 0..Many
             /\ replay.queued[e] > 0 => replay'.queued[e] > 0
             /\ e \in batch /\ Wants(e) => replay'.queued[e] > 0
    <2>1. e \in 1..lastSeq
        BY <1>7
    <2>2. replay.queued[e] \in 0..Many
        BY <1>5, <2>1
    <2> QED
        BY <1>1, <1>2, <2>1, <2>2, MoreCopies
<1>9. replay' # NULL
    BY <1>1, NullIsNoReplay DEF Replays
<1>10. RowsOK' /\ KeysOK'
    BY <1>1 DEF EventsInv, RowsOK, KeysOK, KeysAnswerOwn
<1>11. PrivateOK'
    BY <1>1, <1>2, <1>6, <1>7 DEF EventsInv, PrivateOK, TestStaysPrivate
<1>12. ASSUME NEW e \in Window(replay.from, replay.to), Wants(e),
              events[e].at < cursor \/ Window(replay.cursor, replay.to) \subseteq batch
       PROVE  replay'.queued[e] > 0
    <2>1. /\ e \in DOMAIN events /\ events[e].only = NULL
          /\ events[e].at \in Nat /\ events[e].at < replay.to
        BY DEF Window, EventsInv, RowsOK
    <2>2. CASE events[e].at < replay.cursor
        BY <1>5, <1>8, <1>12, <2>1, <2>2
    <2>3. CASE ~(events[e].at < replay.cursor)
        <3>1. replay.cursor <= events[e].at
            BY <1>5, <2>1, <2>3 DEF Replays
        <3>2. e \in Window(replay.cursor, replay.to)
            BY <2>1, <3>1 DEF Window
        <3>3. e \in batch
            BY <1>4, <1>12, <3>2
        <3> QED
            BY <1>8, <1>12, <2>1, <3>3
    <2> QED
        BY <2>2, <2>3
<1>13. replay'.from <= replay'.cursor
    BY <1>1, <1>2, <1>3, <1>4, <1>5 DEF Replays
<1>14. /\ Window(replay.from, replay.to)' = Window(replay.from, replay.to)
       /\ \A e : Wants(e)' <=> Wants(e)
    BY <1>1 DEF Window, Wants
<1>15. \A e \in Window(replay.from, replay.to)' :
          events'[e].at < replay'.cursor /\ Wants(e)' => replay'.queued[e] > 0
    BY <1>1, <1>2, <1>3, <1>12, <1>14
<1>16. ReplayCovers'
    <2> SUFFICES ASSUME replay'.done PROVE ReplayCovers'
        BY DEF ReplayCovers
    <2>1. ends
        BY <1>2, <1>3
    <2>2. CASE Window(replay.cursor, replay.to) \subseteq batch
        <3>1. \A e \in Window(replay.from, replay.to) :
                 Wants(e) => replay'.queued[e] > 0
            BY <1>12, <2>2
        <3> QED
            BY <1>14, <3>1 DEF ReplayCovers
    <2>3. CASE Cardinality({e \in Window(replay.from, replay.to) :
                              events[e].at = replay.from}) >= Batch
        BY <1>1, <1>14, <2>3 DEF ReplayCovers
    <2> QED
        BY <1>4, <2>1, <2>2, <2>3
<1>17. ReplayOK'
    BY <1>1, <1>9, <1>13, <1>15, <1>16 DEF ReplayOK
<1> QED
    BY <1>10, <1>11, <1>17 DEF EventsInv

LEMMA CommitEvents == ASSUME EventsInv, ReplayCommit PROVE EventsInv'
<1>1. /\ replay # NULL /\ replay' = NULL
      /\ UNCHANGED <<now, events, lastSeq, answers>>
      /\ reached' = [e \in DOMAIN events |->
            [reached[e] EXCEPT ![replay.sub] = @ + replay.queued[e]]]
    BY DEF ReplayCommit
<1>2. /\ replay \in Replays /\ replay.queued \in [1..lastSeq -> 0..Many]
      /\ DOMAIN events \subseteq 1..lastSeq
      /\ reached \in [DOMAIN events -> [Subs -> Nat]]
    BY <1>1 DEF EventsInv, ReplayOK, RowsOK
<1>3. ASSUME NEW e \in DOMAIN events
      PROVE  /\ reached[e] \in [Subs -> Nat] /\ replay.queued[e] \in Nat
             /\ reached'[e] = [reached[e] EXCEPT ![replay.sub] = @ + replay.queued[e]]
             /\ reached'[e] \in [Subs -> Nat]
    <2>1. replay.sub \in Subs /\ reached[e] \in [Subs -> Nat]
        BY <1>2 DEF Replays
    <2>2. replay.queued[e] \in 0..Many
        BY <1>2
    <2>3. replay.queued[e] \in Nat
        BY <2>2, CountBounds
    <2> QED
        BY <1>1, <2>1, <2>3
<1>4. reached' \in [DOMAIN events -> [Subs -> Nat]]
    BY <1>1, <1>3
<1>5. RowsOK' /\ KeysOK'
    BY <1>1, <1>4 DEF EventsInv, RowsOK, KeysOK, KeysAnswerOwn
<1>6. ASSUME NEW e \in DOMAIN events, events[e].only # NULL,
             NEW s \in Subs \ {events[e].only}
      PROVE  reached'[e][s] = 0
    <2>1. reached[e][s] = 0 /\ replay.queued[e] = 0
        BY <1>1, <1>6 DEF EventsInv, PrivateOK, TestStaysPrivate
    <2>2. PICK counts : counts = reached[e]
        OBVIOUS
    <2>3. /\ counts \in [Subs -> Nat] /\ counts[s] = 0 /\ s \in Subs
          /\ reached'[e] = [counts EXCEPT ![replay.sub] = @ + 0]
        BY <1>3, <2>1, <2>2
    <2>4. [counts EXCEPT ![replay.sub] = @ + 0][s] = 0
        BY <2>3
    <2> QED
        BY <2>3, <2>4
<1>7. PrivateOK'
    BY <1>1, <1>6 DEF PrivateOK, TestStaysPrivate
<1>8. ReplayOK'
    BY <1>1 DEF ReplayOK, ReplayCovers
<1> QED
    BY <1>5, <1>7, <1>8 DEF EventsInv

\* Reading, and time.
LEMMA OtherEvents ==
    ASSUME EventsInv, UNCHANGED <<events, lastSeq, reached, answers, replay>>,
           now' \in Nat, now <= now'
    PROVE  EventsInv'
<1>1. \A t \in Nat : t <= now => t <= now'
    BY DEF EventsInv, RowsOK
<1>2. RowsOK' /\ KeysOK'
    BY <1>1 DEF EventsInv, RowsOK, KeysOK, KeysAnswerOwn
<1>3. PrivateOK'
    BY DEF EventsInv, PrivateOK, TestStaysPrivate
<1>4. ReplayOK'
    BY DEF EventsInv, ReplayOK, ReplayCovers, Window, Wants
<1> QED
    BY <1>2, <1>3, <1>4 DEF EventsInv

LEMMA StepEvents == EventsInv /\ [Next]_vars => EventsInv'
<1> SUFFICES ASSUME EventsInv, [Next]_vars PROVE EventsInv'
    OBVIOUS
<1>1. now \in Nat
    BY DEF EventsInv, RowsOK
<1>2. CASE Tick
    <2>1. now' \in Nat /\ now <= now'
        BY <1>1, <1>2 DEF Tick
    <2> QED
        BY <1>2, <2>1, OtherEvents DEF Tick
<1>3. CASE Write
    BY <1>3, PublishAgainEvents, PublishNewEvents, TestEvents, PurgeEvents DEF Write
<1>4. CASE Replaying
    BY <1>4, BeginEvents, BatchEvents, CommitEvents DEF Replaying
<1>5. CASE Reading
    <2>1. UNCHANGED <<now, events, lastSeq, reached, answers, replay>>
        BY <1>5 DEF Reading, FirstPage, NextPage, CloseReader
    <2> QED
        BY <1>1, <2>1, OtherEvents
<1>6. CASE UNCHANGED vars
    BY <1>1, <1>6, OtherEvents DEF vars
<1> QED
    BY <1>2, <1>3, <1>4, <1>5, <1>6 DEF Next

-----------------------------------------------------------------------------
(***************************************************************************)
(* Finite sets of numbers in descending order.                             *)
(***************************************************************************)
LEMMA Enumerable ==
    ASSUME NEW S \in SUBSET Nat, IsFiniteSet(S)
    PROVE  \E order \in [1..Cardinality(S) -> S] :
              \A i, j \in 1..Cardinality(S) : i < j => order[i] > order[j]
<1> DEFINE from(e) == {f \in S : e <= f}
           n == Cardinality(S)
           rank == [e \in S |-> Cardinality(from(e))]
<1>1. n \in Nat
    BY FS_CardinalityType
<1>2. ASSUME NEW e \in S
      PROVE  /\ e \in from(e) /\ IsFiniteSet(from(e))
             /\ Cardinality(from(e)) \in 1..n
    <2>1. from(e) \in SUBSET S
        OBVIOUS
    <2>2. IsFiniteSet(from(e)) /\ Cardinality(from(e)) <= n
        BY <2>1, FS_Subset
    <2>3. Cardinality(from(e)) \in Nat
        BY <2>2, FS_CardinalityType
    <2>4. e \in from(e)
        <3>1. e \in Nat
            OBVIOUS
        <3> QED
            BY <3>1
    <2>5. Cardinality(from(e)) # 0
        BY <2>2, <2>4, FS_EmptySet
    <2> QED
        BY <1>1, <2>1, <2>2, <2>3, <2>4, <2>5
<1>3. ASSUME NEW e \in S, NEW f \in S, e < f
      PROVE  Cardinality(from(f)) < Cardinality(from(e))
    <2>1. from(f) \in SUBSET from(e) /\ e \notin from(f)
        <3>1. e \in Nat /\ f \in Nat /\ \A d \in S : d \in Nat
            OBVIOUS
        <3>2. \A d \in S : f <= d => e <= d
            BY <1>3, <3>1
        <3>3. ~(f <= e)
            BY <1>3, <3>1
        <3> QED
            BY <3>2, <3>3
    <2>2. /\ Cardinality(from(f)) <= Cardinality(from(e))
          /\ Cardinality(from(f)) # Cardinality(from(e))
        BY <1>2, <2>1, FS_Subset
    <2>3. Cardinality(from(f)) \in Nat /\ Cardinality(from(e)) \in Nat
        BY <1>2, FS_CardinalityType
    <2> QED
        BY <2>2, <2>3
<1>4. /\ rank \in [S -> 1..n]
      /\ \A e, f \in S : e < f => rank[f] < rank[e]
    BY <1>2, <1>3
<1> HIDE DEF rank
<1>5. \A e, f \in S : rank[e] = rank[f] => e = f
    <2>1. ASSUME NEW e \in S, NEW f \in S, rank[e] = rank[f] PROVE e = f
        <3>1. e \in Nat /\ f \in Nat /\ rank[e] \in Nat
            BY <1>1, <1>4
        <3>2. ~(e < f) /\ ~(f < e)
            BY <1>4, <2>1, <3>1
        <3> QED
            BY <3>1, <3>2
    <2> QED
        BY <2>1
<1>6. rank \in Surjection(S, 1..n)
    <2>1. IsFiniteSet(1..n) /\ Cardinality(1..n) = n
        BY <1>1, FS_Interval
    <2>2. rank \in Injection(S, 1..n)
        BY <1>4, <1>5 DEF Injection, IsInjective
    <2> QED
        BY <2>1, <2>2, FS_Injection
<1> DEFINE order == [i \in 1..n |-> CHOOSE e \in S : rank[e] = i]
<1>7. ASSUME NEW i \in 1..n PROVE order[i] \in S /\ rank[order[i]] = i
    <2>1. \E e \in S : rank[e] = i
        BY <1>6 DEF Surjection
    <2> QED
        BY <2>1
<1> HIDE DEF order, n
<1>8. ASSUME NEW i \in 1..n, NEW j \in 1..n, i < j
      PROVE  order[i] > order[j]
    <2>1. order[i] \in Nat /\ order[j] \in Nat /\ i \in Nat /\ j \in Nat
        <3>1. order[i] \in S /\ order[j] \in S
            BY <1>7
        <3>2. i \in Nat /\ j \in Nat
            BY <1>1
        <3> QED
            BY <3>1, <3>2
    <2>2. order[i] # order[j]
        BY <1>7, <1>8, <2>1
    <2>3. ~(order[i] < order[j])
        <3>1. order[i] < order[j] => j < i
            BY <1>4, <1>7
        <3> QED
            BY <1>8, <2>1, <3>1
    <2> QED
        BY <2>1, <2>2, <2>3
<1>9. order \in [1..n -> S]
    BY <1>7 DEF order
<1> QED
    BY <1>8, <1>9 DEF n

\* Descending has all elements of its argument, the greatest first.
LEMMA DescendingOrder ==
    ASSUME NEW S \in SUBSET Nat, IsFiniteSet(S)
    PROVE  /\ Descending(S) \in Seq(Nat)
           /\ Len(Descending(S)) = Cardinality(S)
           /\ \A i \in DOMAIN Descending(S) : Descending(S)[i] \in S
           /\ \A i, j \in DOMAIN Descending(S) :
                 i < j => Descending(S)[i] > Descending(S)[j]
           /\ \A e \in S : \E i \in DOMAIN Descending(S) : Descending(S)[i] = e
<1> DEFINE n == Cardinality(S)
           order == Descending(S)
<1>1. n \in Nat
    BY FS_CardinalityType
<1>2. /\ order \in [1..n -> S]
      /\ \A i, j \in 1..n : i < j => order[i] > order[j]
    BY Enumerable DEF Descending
<1> HIDE DEF n, order
<1>3. ASSUME NEW i \in 1..n, NEW j \in 1..n, order[i] = order[j]
      PROVE  i = j
    <2>1. order[i] \in Nat /\ order[j] \in Nat /\ i \in Nat /\ j \in Nat
        <3>1. order[i] \in S /\ order[j] \in S
            BY <1>2
        <3>2. i \in Nat /\ j \in Nat
            BY <1>1
        <3> QED
            BY <3>1, <3>2
    <2>2. ~(i < j) /\ ~(j < i)
        BY <1>2, <1>3, <2>1
    <2> QED
        BY <2>1, <2>2
<1>4. order \in Surjection(1..n, S)
    <2>1. IsFiniteSet(1..n) /\ Cardinality(1..n) = Cardinality(S)
        BY <1>1, FS_Interval DEF n
    <2>2. order \in Injection(1..n, S)
        BY <1>2, <1>3 DEF Injection, IsInjective
    <2> QED
        BY <2>1, <2>2, FS_Injection
<1>5. \A e \in S : \E i \in 1..n : order[i] = e
    BY <1>4 DEF Surjection
<1>6. order \in Seq(Nat) /\ Len(order) = n /\ DOMAIN order = 1..n
    <2>1. order \in [1..n -> Nat]
        BY <1>2
    <2> QED
        BY <1>1, <2>1
<1> QED
    BY <1>2, <1>5, <1>6 DEF order, n

-----------------------------------------------------------------------------
(***************************************************************************)
(* Pages.  What a page shows, and what it leaves for the next.             *)
(***************************************************************************)
LEMMA PageCut ==
    ASSUME NEW L \in SUBSET Nat, IsFiniteSet(L),
           NEW rows \in LastOf(L, Limit + 1), NEW items \in LastOf(rows, Limit)
    PROVE  /\ items \subseteq L
           /\ NextBefore(rows, items) = NULL => items = L
           /\ NextBefore(rows, items) # NULL =>
                 /\ NextBefore(rows, items) \in items
                 /\ \A f \in items : NextBefore(rows, items) <= f
                 /\ \A e \in L : NextBefore(rows, items) <= e => e \in items
<1>1. /\ rows \in SUBSET L /\ \A e \in rows, f \in L \ rows : f < e
      /\ rows = L \/ Cardinality(rows) = Limit + 1
      /\ items \in SUBSET rows /\ \A e \in items, f \in rows \ items : f < e
      /\ items = rows \/ Cardinality(items) = Limit
      /\ Cardinality(items) <= Limit
    BY DEF LastOf
<1>2. Limit \in Nat /\ Limit # 0 /\ NULL \notin Nat
    BY EventBounds, NullIsNoData
<1>3. /\ IsFiniteSet(rows) /\ IsFiniteSet(items)
      /\ Cardinality(items) <= Cardinality(rows)
      /\ Cardinality(items) = Cardinality(rows) => items = rows
    BY <1>1, FS_Subset
<1>4. Cardinality(rows) \in Nat /\ Cardinality(items) \in Nat
    BY <1>3, FS_CardinalityType
<1>5. CASE Cardinality(rows) <= Limit
    <2>1. NextBefore(rows, items) = NULL
        BY <1>5 DEF NextBefore
    <2>2. rows = L /\ items = rows
        BY <1>1, <1>2, <1>3, <1>4, <1>5
    <2> QED
        BY <2>1, <2>2
<1>6. CASE ~(Cardinality(rows) <= Limit)
    <2>1. Cardinality(items) = Limit
        BY <1>1, <1>6
    <2>2. items # {}
        BY <1>2, <2>1, FS_EmptySet
    <2>3. items \in SUBSET Nat
        BY <1>1
    <2>4. \E l \in items : \A f \in items : l <= f
        BY <2>2, <2>3, Least
    <2>5. PICK l \in items : NextBefore(rows, items) = l /\ \A f \in items : l <= f
        BY <1>6, <2>4 DEF NextBefore
    <2>6. ASSUME NEW e \in L, l <= e PROVE e \in items
        <3>1. e \in Nat /\ l \in Nat /\ l \in rows
            BY <1>1, <2>3
        <3>2. ~(e < l)
            BY <2>6, <3>1
        <3> QED
            BY <1>1, <3>1, <3>2
    <2>7. l # NULL
        BY <1>2, <2>3
    <2> QED
        BY <1>1, <2>5, <2>6, <2>7
<1> QED
    BY <1>5, <1>6

\* What a client was shown goes down to before, and nothing is missing.
Reads(r) ==
    /\ r.top \in Nat /\ r.top <= lastSeq
    /\ r.shown \in Seq(Nat) /\ \A i \in DOMAIN r.shown : r.shown[i] \in 1..lastSeq
    /\ \A i, j \in DOMAIN r.shown : i < j => r.shown[i] > r.shown[j]
    /\ r.before # NULL =>
          r.before \in 1..lastSeq /\ \A i \in DOMAIN r.shown : r.before <= r.shown[i]
    /\ \A e \in Listed(r.type, NULL) :
          /\ e <= r.top
          /\ r.before # NULL => r.before <= e
          => \E i \in DOMAIN r.shown : r.shown[i] = e

ReaderInv == EventsInv /\ (reader # NULL => Reads(reader))

LEMMA ListedFinite ==
    ASSUME EventsInv, NEW type, NEW before
    PROVE  Listed(type, before) \in SUBSET Nat /\ IsFiniteSet(Listed(type, before))
<1>1. DOMAIN events \subseteq 1..lastSeq /\ lastSeq \in Nat
    BY DEF EventsInv, RowsOK
<1>2. Listed(type, before) \in SUBSET (1..lastSeq) /\ IsFiniteSet(1..lastSeq)
    BY <1>1, FS_Interval DEF Listed
<1> QED
    BY <1>1, <1>2, FS_Subset

\* One page.
LEMMA PageReads ==
    ASSUME EventsInv, NEW type, NEW before, NEW shown \in Seq(Nat), NEW top \in Nat,
           top <= lastSeq, UNCHANGED <<events, lastSeq>>,
           \A i \in DOMAIN shown : shown[i] \in 1..lastSeq,
           \A i, j \in DOMAIN shown : i < j => shown[i] > shown[j],
           before = NULL => shown = << >>,
           before # NULL => /\ before \in Nat
                            /\ \A i \in DOMAIN shown : before <= shown[i],
           before # NULL =>
              \A e \in Listed(type, NULL) :
                 e <= top /\ before <= e => \E i \in DOMAIN shown : shown[i] = e,
           Page(type, before, shown, top)
    PROVE  Reads(reader)'
<1> DEFINE L == Listed(type, before)
<1>1. PICK rows \in LastOf(L, Limit + 1) : \E items \in LastOf(rows, Limit) :
         reader' = [type |-> type, before |-> NextBefore(rows, items),
                    shown |-> shown \o Descending(items), top |-> top]
    BY DEF Page
<1>2. PICK items \in LastOf(rows, Limit) :
         reader' = [type |-> type, before |-> NextBefore(rows, items),
                    shown |-> shown \o Descending(items), top |-> top]
    BY <1>1
<1>3. L \in SUBSET Nat /\ IsFiniteSet(L)
    BY ListedFinite
<1>4. /\ \A e \in L : e \in Listed(type, NULL) /\ (before # NULL => e < before)
      /\ \A e \in Listed(type, NULL) : (before # NULL => e < before) => e \in L
    BY DEF Listed
<1> HIDE DEF L
<1>5. PICK next : next = NextBefore(rows, items)
    OBVIOUS
<1>6. /\ items \subseteq L
      /\ next = NULL => items = L
      /\ next # NULL => /\ next \in items
                        /\ \A f \in items : next <= f
                        /\ \A e \in L : next <= e => e \in items
    BY <1>3, <1>5, PageCut
<1>7. items \in SUBSET Nat /\ IsFiniteSet(items)
    BY <1>3, <1>6, FS_Subset
<1>8. PICK rest : rest = Descending(items)
    OBVIOUS
<1>9. /\ rest \in Seq(Nat)
      /\ \A i \in DOMAIN rest : rest[i] \in items
      /\ \A i, j \in DOMAIN rest : i < j => rest[i] > rest[j]
      /\ \A e \in items : \E i \in DOMAIN rest : rest[i] = e
    BY <1>7, <1>8, DescendingOrder
<1>10. PICK m \in Nat, n \in Nat : m = Len(shown) /\ n = Len(rest)
    BY <1>9
<1>11. DOMAIN shown = 1..m /\ DOMAIN rest = 1..n
    BY <1>9, <1>10
<1>12. PICK all : all = shown \o rest
    OBVIOUS
<1>13. /\ all \in Seq(Nat) /\ DOMAIN all = 1..(m + n)
       /\ \A i \in 1..m : all[i] = shown[i]
       /\ \A i \in 1..n : all[m + i] = rest[i]
    BY <1>9, <1>10, <1>12
<1>14. \A i \in DOMAIN all : \/ i \in 1..m
                             \/ \E k1 \in 1..n : i = m + k1
    <2>1. ASSUME NEW i \in 1..(m + n), i \notin 1..m PROVE i - m \in 1..n
        BY <1>10, <2>1
    <2>2. \A i \in 1..(m + n) : i = m + (i - m)
        BY <1>10
    <2> QED
        BY <1>13, <2>1, <2>2
<1>15. ASSUME NEW i \in DOMAIN all, NEW j \in DOMAIN all, i < j
       PROVE  all[i] > all[j]
    <2>1. i \in Nat /\ j \in Nat
        BY <1>10, <1>13
    <2>2. CASE j \in 1..m
        <3>1. i \in 1..m
            BY <1>10, <1>13, <1>15, <2>1, <2>2
        <3> QED
            BY <1>11, <1>13, <1>15, <2>2, <3>1
    <2>3. ASSUME NEW b1 \in 1..n, j = m + b1, i \in 1..m
          PROVE  all[i] > all[j]
        <3>1. before # NULL /\ before \in Nat /\ before <= shown[i]
            BY <1>10, <1>11, <2>3
        <3>2. rest[b1] \in Nat /\ rest[b1] < before
            BY <1>3, <1>4, <1>6, <1>9, <1>11, <3>1
        <3>3. shown[i] \in Nat
            BY <1>11, <2>3
        <3>4. all[i] = shown[i] /\ all[j] = rest[b1]
            BY <1>13, <2>3
        <3> QED
            BY <3>1, <3>2, <3>3, <3>4
    <2>4. ASSUME NEW a1 \in 1..n, NEW b1 \in 1..n, i = m + a1, j = m + b1
          PROVE  all[i] > all[j]
        <3>1. a1 < b1
            BY <1>10, <1>15, <2>4
        <3> QED
            BY <1>9, <1>11, <1>13, <2>4, <3>1
    <2> QED
        BY <1>14, <2>2, <2>3, <2>4
<1>16. ASSUME next # NULL
       PROVE  next \in Nat /\ \A i \in DOMAIN all : next <= all[i]
    <2>1. next \in Nat /\ next \in L
        BY <1>3, <1>6, <1>16
    <2>2. ASSUME NEW i \in 1..m PROVE next <= all[i]
        <3>1. before # NULL /\ before \in Nat /\ before <= shown[i]
            BY <1>10, <1>11
        <3>2. next < before
            BY <1>4, <2>1, <3>1
        <3>3. shown[i] \in Nat /\ all[i] = shown[i]
            BY <1>11, <1>13
        <3> QED
            BY <2>1, <3>1, <3>2, <3>3
    <2>3. ASSUME NEW k1 \in 1..n PROVE next <= all[m + k1]
        BY <1>6, <1>9, <1>11, <1>13, <1>16
    <2> QED
        BY <1>14, <2>1, <2>2, <2>3
<1>17. ASSUME NEW e \in Listed(type, NULL), e <= top, next # NULL => next <= e
       PROVE  \E i \in DOMAIN all : all[i] = e
    <2>1. e \in Nat
        BY ListedFinite
    <2>2. CASE e \in L
        <3>1. e \in items
            BY <1>6, <1>17, <2>2
        <3>2. PICK k1 \in 1..n : rest[k1] = e
            BY <1>9, <1>11, <3>1
        <3>3. m + k1 \in 1..(m + n)
            BY <1>10
        <3> QED
            BY <1>13, <3>2, <3>3
    <2>3. CASE e \notin L
        <3>1. before # NULL /\ before \in Nat /\ ~(e < before)
            BY <1>4, <2>3
        <3>2. before <= e
            BY <2>1, <3>1
        <3>3. PICK i \in 1..m : shown[i] = e
            BY <1>11, <1>17, <3>1, <3>2
        <3>4. i \in 1..(m + n)
            BY <1>10
        <3> QED
            BY <1>13, <3>3, <3>4
    <2> QED
        BY <2>2, <2>3
<1>18. /\ reader'.type = type /\ reader'.before = next /\ reader'.shown = all
       /\ reader'.top = top
    BY <1>2, <1>5, <1>8, <1>12
<1>19. Listed(type, NULL)' = Listed(type, NULL) /\ lastSeq' = lastSeq
    BY DEF Listed
<1>20. \A e \in L : e \in 1..lastSeq
    BY <1>4 DEF Listed, EventsInv, RowsOK
<1>21. \A i \in DOMAIN all : all[i] \in 1..lastSeq
    <2>1. \A i \in 1..m : all[i] \in 1..lastSeq
        BY <1>11, <1>13
    <2>2. ASSUME NEW k1 \in 1..n PROVE all[m + k1] \in 1..lastSeq
        <3>1. rest[k1] \in L
            BY <1>6, <1>9, <1>11
        <3> QED
            BY <1>13, <1>20, <3>1
    <2> QED
        BY <1>14, <2>1, <2>2
<1>22. next # NULL => next \in 1..lastSeq
    BY <1>6, <1>20
<1> QED
    BY <1>13, <1>15, <1>16, <1>17, <1>18, <1>19, <1>21, <1>22 DEF Reads

LEMMA FirstPageReads ==
    ASSUME ReaderInv, NEW type, FirstPage(type)
    PROVE  Reads(reader)'
<1>1. lastSeq \in Nat /\ lastSeq <= lastSeq
    BY DEF ReaderInv, EventsInv, RowsOK
<1>2. << >> \in Seq(Nat) /\ DOMAIN << >> = {}
    OBVIOUS
<1>3. EventsInv /\ UNCHANGED <<events, lastSeq>> /\ Page(type, NULL, << >>, lastSeq)
    BY DEF ReaderInv, FirstPage
<1> QED
    BY <1>1, <1>2, <1>3, PageReads

LEMMA NextPageReads ==
    ASSUME ReaderInv, NextPage
    PROVE  Reads(reader)'
<1>1. /\ EventsInv /\ Reads(reader) /\ reader.before # NULL
      /\ Page(reader.type, reader.before, reader.shown, reader.top)
      /\ UNCHANGED <<events, lastSeq>>
    BY DEF ReaderInv, NextPage
<1>2. PICK type, before, shown, top :
         /\ type = reader.type /\ before = reader.before
         /\ shown = reader.shown /\ top = reader.top
    OBVIOUS
<1>3. /\ shown \in Seq(Nat) /\ top \in Nat /\ top <= lastSeq
      /\ \A i \in DOMAIN shown : shown[i] \in 1..lastSeq
      /\ \A i, j \in DOMAIN shown : i < j => shown[i] > shown[j]
    BY <1>1, <1>2 DEF Reads
<1>4. before # NULL /\ before \in Nat /\ \A i \in DOMAIN shown : before <= shown[i]
    BY <1>1, <1>2 DEF Reads
<1>5. \A e \in Listed(type, NULL) :
         e <= top /\ before <= e => \E i \in DOMAIN shown : shown[i] = e
    BY <1>1, <1>2 DEF Reads
<1>6. Page(type, before, shown, top)
    BY <1>1, <1>2
<1> QED
    BY <1>1, <1>3, <1>4, <1>5, <1>6, PageReads

\* Between two pages, rows are added with greater numbers than any before, and
\* rows are removed.
LEMMA BetweenPages ==
    ASSUME ReaderInv, reader # NULL, UNCHANGED reader,
           lastSeq' \in Nat, lastSeq <= lastSeq', DOMAIN events' \subseteq Nat,
           \A e \in DOMAIN events' :
              e <= lastSeq => e \in DOMAIN events /\ events'[e] = events[e]
    PROVE  Reads(reader)'
<1>1. Reads(reader) /\ lastSeq \in Nat
    BY DEF ReaderInv, EventsInv, RowsOK
<1>2. reader.top \in Nat /\ reader.top <= lastSeq /\ reader.top <= lastSeq'
    BY <1>1 DEF Reads
<1>3. \A n \in 1..lastSeq : n \in 1..lastSeq'
    BY <1>1
<1>4. ASSUME NEW e \in Listed(reader.type, NULL)', e <= reader.top
      PROVE  e \in Listed(reader.type, NULL)
    <2>1. e \in DOMAIN events' /\ e \in Nat
        BY <1>4 DEF Listed
    <2>2. e <= lastSeq
        BY <1>1, <1>2, <1>4, <2>1
    <2> QED
        BY <1>4, <2>1, <2>2 DEF Listed
<1> QED
    BY <1>1, <1>2, <1>3, <1>4 DEF Reads

LEMMA StepReader == ReaderInv /\ [Next]_vars => ReaderInv'
<1> SUFFICES ASSUME ReaderInv, [Next]_vars PROVE ReaderInv'
    OBVIOUS
<1>1. EventsInv /\ EventsInv'
    BY StepEvents DEF ReaderInv
<1>2. /\ lastSeq \in Nat /\ lastSeq' \in Nat
      /\ DOMAIN events \subseteq Nat /\ DOMAIN events' \subseteq Nat
    BY <1>1 DEF EventsInv, RowsOK
<1>3. ASSUME UNCHANGED reader, lastSeq <= lastSeq',
             \A e \in DOMAIN events' :
                e <= lastSeq => e \in DOMAIN events /\ events'[e] = events[e]
      PROVE  ReaderInv'
    <2>1. CASE reader = NULL
        BY <1>1, <1>3, <2>1 DEF ReaderInv
    <2>2. CASE reader # NULL
        BY <1>1, <1>2, <1>3, <2>2, BetweenPages DEF ReaderInv
    <2> QED
        BY <2>1, <2>2
<1>4. ASSUME UNCHANGED <<events, lastSeq, reader>> PROVE ReaderInv'
    BY <1>2, <1>3, <1>4
<1>5. ASSUME NEW event, NEW targets, Add(event, targets), UNCHANGED reader
      PROVE  ReaderInv'
    <2>1. /\ lastSeq' = lastSeq + 1
          /\ events' = [e \in DOMAIN events \cup {lastSeq + 1} |->
                           IF e = lastSeq + 1 THEN event ELSE events[e]]
        BY <1>5 DEF Add
    <2>2. ~(lastSeq + 1 <= lastSeq) /\ lastSeq <= lastSeq + 1
        BY <1>2
    <2> QED
        BY <1>3, <1>5, <2>1, <2>2
<1>6. CASE Write
    <2>1. ASSUME NEW source, NEW key, NEW type, PublishAgain(source, key, type)
          PROVE  ReaderInv'
        BY <1>4, <2>1 DEF PublishAgain
    <2>2. ASSUME NEW source, NEW key, NEW type, PublishNew(source, key, type)
          PROVE  ReaderInv'
        BY <1>5, <2>2 DEF PublishNew
    <2>3. ASSUME NEW source, NEW s, Test(source, s)
          PROVE  ReaderInv'
        BY <1>5, <2>3 DEF Test
    <2>4. ASSUME NEW gone, Purge(gone)
          PROVE  ReaderInv'
        BY <1>2, <1>3, <2>4 DEF Purge
    <2> QED
        BY <1>6, <2>1, <2>2, <2>3, <2>4 DEF Write
<1>7. CASE Replaying
    BY <1>4, <1>7 DEF Replaying, ReplayBegin, ReplayBatch, ReplayCommit
<1>8. CASE Reading
    BY <1>1, <1>8, FirstPageReads, NextPageReads
    DEF Reading, CloseReader, ReaderInv
<1>9. CASE Tick \/ UNCHANGED vars
    BY <1>4, <1>9 DEF Tick, vars
<1> QED
    BY <1>6, <1>7, <1>8, <1>9 DEF Next

-----------------------------------------------------------------------------
(***************************************************************************)
(* The types of what is stored.                                            *)
(***************************************************************************)
Stored(event) ==
    event \in [at : Nat, source : Sources, key : Keys, type : Seq(STRING),
               only : Subs \cup {NULL}]

Remembered == [source : Sources, key : Keys, event : Nat]

DataInv ==
    /\ ReaderInv
    /\ events = [e \in DOMAIN events |-> events[e]]
    /\ \A e \in DOMAIN events : Stored(events[e])
    /\ answers \subseteq Remembered

LEMMA DataTyped == DataInv => TypeOK
<1> SUFFICES ASSUME DataInv PROVE TypeOK
    OBVIOUS
<1>1. EventsInv /\ (reader # NULL => Reads(reader))
    BY DEF DataInv, ReaderInv
<1>2. now \in Nat /\ lastSeq \in Nat /\ DOMAIN events \subseteq 1..lastSeq
    BY <1>1 DEF EventsInv, RowsOK
<1>3. events \in [DOMAIN events -> [at : 0..now, source : Sources, key : Keys,
                     type : Seq(STRING), only : Subs \cup {NULL}]]
    <2>1. ASSUME NEW e \in DOMAIN events
          PROVE  events[e] \in [at : 0..now, source : Sources, key : Keys,
                     type : Seq(STRING), only : Subs \cup {NULL}]
        <3>1. events[e].at \in 0..now
            BY <1>1, <1>2 DEF EventsInv, RowsOK
        <3> QED
            BY <3>1 DEF DataInv, Stored
    <2> QED
        BY <2>1 DEF DataInv
<1>4. answers \subseteq [source : Sources, key : Keys, event : DOMAIN events]
    BY <1>1 DEF DataInv, Remembered, EventsInv, KeysOK, KeysAnswerOwn
<1>5. replay \in [sub : Subs, from : Nat, to : Nat, cursor : Nat,
                  queued : [1..lastSeq -> 0..Many], done : BOOLEAN] \cup {NULL}
    <2>1. CASE replay # NULL
        <3>1. replay \in Replays /\ replay.queued \in [1..lastSeq -> 0..Many]
            BY <1>1, <2>1 DEF EventsInv, ReplayOK
        <3> QED
            BY <3>1 DEF Replays
    <2> QED
        BY <2>1
<1>6. ASSUME reader # NULL
      PROVE  /\ reader.before \in 1..lastSeq \cup {NULL}
             /\ reader.shown \in Seq(1..lastSeq) /\ reader.top \in 0..lastSeq
    <2>1. Reads(reader)
        BY <1>1, <1>6
    <2>2. PICK shown : shown = reader.shown
        OBVIOUS
    <2>3. shown \in Seq(Nat) /\ \A i \in DOMAIN shown : shown[i] \in 1..lastSeq
        BY <2>1, <2>2 DEF Reads
    <2>4. shown \in [1..Len(shown) -> 1..lastSeq] /\ Len(shown) \in Nat
        BY <2>3
    <2>5. shown \in Seq(1..lastSeq)
        BY <2>4, SeqDef
    <2> QED
        BY <1>2, <2>1, <2>2, <2>5 DEF Reads
<1> QED
    BY <1>1, <1>2, <1>3, <1>4, <1>5, <1>6 DEF EventsInv, RowsOK, TypeOK

LEMMA AddData ==
    ASSUME DataInv, ReaderInv', NEW event, Stored(event), NEW targets,
           Add(event, targets), answers' \subseteq Remembered
    PROVE  DataInv'
<1>1. /\ events' = [e \in DOMAIN events \cup {lastSeq + 1} |->
                       IF e = lastSeq + 1 THEN event ELSE events[e]]
    BY DEF Add
<1>2. \A e \in DOMAIN events' : Stored(events'[e])
    BY <1>1 DEF DataInv
<1>3. events' = [e \in DOMAIN events' |-> events'[e]]
    BY <1>1
<1> QED
    BY <1>2, <1>3 DEF DataInv, Stored, Remembered, Sources, Keys

LEMMA StepData == DataInv /\ [Next]_vars => DataInv'
<1> SUFFICES ASSUME DataInv, [Next]_vars PROVE DataInv'
    OBVIOUS
<1>1. EventsInv /\ ReaderInv /\ ReaderInv' /\ now \in Nat /\ lastSeq \in Nat
    BY StepReader DEF DataInv, ReaderInv, EventsInv, RowsOK
<1>2. ASSUME UNCHANGED <<events, answers>> PROVE DataInv'
    BY <1>1, <1>2 DEF DataInv, Stored, Remembered, Sources, Keys
<1>3. ASSUME NEW r \in Requests, NEW type \in Types,
             PublishAgain(r[1], r[2], type)
      PROVE  DataInv'
    <2>1. PICK e \in DOMAIN events : answers' = answers \cup {Answer(r[1], r[2], e)}
        BY <1>3 DEF PublishAgain, ByKey
    <2>2. Answer(r[1], r[2], e) \in Remembered
        BY <1>1 DEF Answer, Remembered, Sources, Keys, EventsInv, RowsOK
    <2> QED
        BY <1>1, <1>3, <2>1, <2>2
        DEF DataInv, PublishAgain, Stored, Remembered, Sources, Keys
<1>4. ASSUME NEW r \in Requests, NEW type \in Types,
             PublishNew(r[1], r[2], type)
      PROVE  DataInv'
    <2>1. Stored(Event(r[1], r[2], type, NULL))
        BY <1>1, DataTypes DEF Stored, Event, Sources, Keys
    <2>2. Answer(r[1], r[2], lastSeq + 1) \in Remembered
        BY <1>1 DEF Answer, Remembered, Sources, Keys
    <2>3. answers' \subseteq Remembered
        BY <1>4, <2>2 DEF PublishNew, Add, DataInv
    <2> QED
        BY <1>1, <1>4, <2>1, <2>3, AddData, DataTypes DEF PublishNew
<1>5. ASSUME NEW r \in Requests, NEW s \in Subs, Test(r[1], s)
      PROVE  DataInv'
    <2>1. Stored(Event(r[1], NULL, TestType, s))
        BY <1>1, DataTypes DEF Stored, Event, Sources, Keys
    <2> QED
        BY <1>1, <1>5, <2>1, AddData DEF Test, DataInv
<1>6. ASSUME NEW gone, Purge(gone)
      PROVE  DataInv'
    BY <1>1, <1>6 DEF Purge, DataInv, Stored, Remembered, Sources, Keys
<1>7. CASE Replaying
    BY <1>2, <1>7 DEF Replaying, ReplayBegin, ReplayBatch, ReplayCommit
<1>8. CASE Write
    BY <1>3, <1>4, <1>5, <1>6, <1>8 DEF Write
<1>9. CASE Reading \/ Tick \/ UNCHANGED vars
    BY <1>2, <1>9 DEF Reading, FirstPage, NextPage, CloseReader, Tick, vars
<1> QED
    BY <1>7, <1>8, <1>9 DEF Next

-----------------------------------------------------------------------------
(***************************************************************************)
(* A round of a replay.                                                    *)
(***************************************************************************)
\* A batch that is full and ends where it began lies in one millisecond.
LEMMA StuckBatch ==
    ASSUME EventsInv, replay # NULL,
           NEW batch \in FirstOf(Window(replay.cursor, replay.to), Batch),
           Cardinality(batch) >= Batch
    PROVE  /\ replay.cursor < replay.to
           /\ Cursor(batch) < replay.to
           /\ Cursor(batch) = replay.cursor =>
                 Cardinality({e \in Window(replay.cursor, replay.to) :
                                 events[e].at = replay.cursor}) >= Batch
<1> DEFINE W == Window(replay.cursor, replay.to)
           same == {e \in W : events[e].at = replay.cursor}
<1>1. /\ replay.to \in Nat /\ replay.cursor \in Nat /\ Batch \in Nat /\ Batch # 0
      /\ lastSeq \in Nat /\ DOMAIN events \subseteq 1..lastSeq
      /\ \A e \in DOMAIN events : events[e].at \in Nat
      /\ \A e, f \in DOMAIN events : e < f => events[e].at <= events[f].at
    BY EventBounds DEF EventsInv, ReplayOK, Replays, RowsOK
<1>2. /\ batch \subseteq W /\ W \subseteq DOMAIN events
      /\ \A e \in W : replay.cursor <= events[e].at /\ events[e].at < replay.to
    BY DEF FirstOf, Window
<1> HIDE DEF W
<1>3. \A S \in SUBSET DOMAIN events :
          IsFiniteSet(S) /\ Cardinality(S) \in Nat
    <2>1. IsFiniteSet(1..lastSeq)
        BY <1>1, FS_Interval
    <2> QED
        BY <1>1, <2>1, FS_Subset, FS_CardinalityType
<1>4. batch \in SUBSET DOMAIN events /\ same \in SUBSET DOMAIN events
    BY <1>2
<1>5. IsFiniteSet(batch) /\ batch \in SUBSET Nat
    BY <1>1, <1>3, <1>4
<1>6. batch # {}
    <2>1. Cardinality(batch) \in Nat
        BY <1>3, <1>4
    <2> QED
        BY <1>1, <2>1, FS_EmptySet
<1>7. \E g \in batch : \A f \in batch : f <= g
    BY <1>5, <1>6, Greatest
<1>8. PICK last \in batch : /\ \A f \in batch : f <= last
                            /\ Cursor(batch) = events[last].at
    BY <1>6, <1>7 DEF Cursor
<1>9. /\ last \in DOMAIN events /\ last \in Nat /\ events[last].at \in Nat
      /\ replay.cursor <= events[last].at /\ events[last].at < replay.to
    BY <1>1, <1>2, <1>5
<1>10. replay.cursor < replay.to /\ Cursor(batch) < replay.to
    BY <1>1, <1>8, <1>9
<1>11. ASSUME Cursor(batch) = replay.cursor
       PROVE  Cardinality(same) >= Batch
    <2>1. ASSUME NEW e \in batch PROVE e \in same
        <3>1. /\ e \in W /\ e \in DOMAIN events /\ e \in Nat /\ e <= last
              /\ events[e].at \in Nat /\ replay.cursor <= events[e].at
            BY <1>1, <1>2, <1>5, <1>8
        <3>2. events[e].at <= events[last].at
            BY <1>1, <1>9, <3>1
        <3>3. events[e].at = replay.cursor
            BY <1>1, <1>8, <1>11, <3>1, <3>2
        <3> QED
            BY <3>1, <3>3
    <2>2. batch \in SUBSET same
        BY <2>1
    <2>3. IsFiniteSet(same) /\ Cardinality(same) \in Nat
        BY <1>3, <1>4
    <2> HIDE DEF same
    <2>4. Cardinality(batch) <= Cardinality(same) /\ Cardinality(batch) \in Nat
        BY <1>3, <1>4, <2>2, <2>3, FS_Subset
    <2> QED
        BY <1>1, <2>3, <2>4
<1> QED
    BY <1>10, <1>11 DEF W

LEMMA BatchAdvances ==
    ASSUME EventsInv, ReplayBatch
    PROVE  \/ replay'.done
           \/ replay.cursor < replay'.cursor /\ replay'.cursor < replay.to
           \/ FullLater
<1> SUFFICES ASSUME ~replay'.done, ~FullLater
             PROVE  replay.cursor < replay'.cursor /\ replay'.cursor < replay.to
    OBVIOUS
<1>1. replay # NULL /\ replay \in Replays /\ replay.from <= replay.cursor
    BY DEF ReplayBatch, EventsInv, ReplayOK
<1>2. PICK batch \in FirstOf(Window(replay.cursor, replay.to), Batch) :
          /\ replay'.cursor = Cursor(batch)
          /\ replay'.done = Ends(batch, Cursor(batch))
    BY BatchRound
<1>3. replay'.cursor = Cursor(batch) /\ replay'.done = Ends(batch, Cursor(batch))
    BY <1>2
<1>4. Cursor(batch) \in Nat /\ replay.cursor <= Cursor(batch)
    BY <1>1, BatchScan
<1>5. ~(Cardinality(batch) < Batch) /\ Cursor(batch) # replay.from
    BY <1>3 DEF Ends
<1>6. Cardinality(batch) \in Nat /\ Batch \in Nat
    <2>1. batch \in SUBSET (1..lastSeq) /\ lastSeq \in Nat
        BY DEF FirstOf, Window, EventsInv, RowsOK
    <2>2. IsFiniteSet(1..lastSeq)
        BY <2>1, FS_Interval
    <2> QED
        BY <2>1, <2>2, FS_Subset, FS_CardinalityType, EventBounds
<1>7. Cardinality(batch) >= Batch
    BY <1>5, <1>6
<1>8. /\ replay.cursor < replay.to /\ Cursor(batch) < replay.to
      /\ Cursor(batch) = replay.cursor =>
            Cardinality({e \in Window(replay.cursor, replay.to) :
                            events[e].at = replay.cursor}) >= Batch
    BY <1>1, <1>7, StuckBatch
<1>9. replay.cursor # Cursor(batch)
    <2> SUFFICES ASSUME replay.cursor = Cursor(batch) PROVE FALSE
        OBVIOUS
    <2>1. /\ replay.from \in Nat /\ replay.to \in Nat /\ replay.cursor \in Nat
          /\ replay.from # replay.cursor
        BY <1>1, <1>5 DEF Replays
    <2>2. replay.cursor \in (replay.from + 1)..replay.to
        BY <1>1, <1>8, <2>1
    <2> QED
        BY <1>8, <2>2 DEF FullLater
<1>10. replay.cursor \in Nat
    BY <1>1 DEF Replays
<1> QED
    BY <1>3, <1>4, <1>8, <1>9, <1>10

-----------------------------------------------------------------------------
(***************************************************************************)
(* Events implements AbstractFeed.  The rounds of a replay are stutters,   *)
(* and its commit is the one step of the abstract replay: what it queues   *)
(* is what one look at the window would have found, because no writer gets *)
(* in before the commit.                                                   *)
(***************************************************************************)
FirstMs ==
    {e \in Window(replay.from, replay.to) : events[e].at = replay.from}

\* What is left of the millisecond the cursor is in.
SameMs ==
    {e \in Window(replay.cursor, replay.to) : events[e].at = replay.cursor}

\* The replay reads the same batch again and again.
Stuck == replay.from < replay.cursor /\ Cardinality(SameMs) >= Batch

\* As long as a replay goes on and is not stuck, only what lies before the cursor
\* may have been queued twice, and what lies behind it was not queued at all.
GoesOn ==
    LET W == Window(replay.from, replay.to)
    IN  /\ \A e \in W :
              /\ replay.cursor < events[e].at => replay.queued[e] = 0
              /\ replay.cursor = replay.from => replay.queued[e] = 0
              /\ events[e].at = replay.cursor => Stuck \/ replay.queued[e] <= 1
              /\ events[e].at < replay.cursor => replay.queued[e] <= 2
        /\ replay.from < replay.cursor =>
              /\ Cardinality(W) >= Batch
              /\ \E e \in W : /\ events[e].at = replay.cursor
                              /\ Wants(e) => replay.queued[e] > 0

\* What a replay that is done has queued more than once.
IsOver ==
    LET W == Window(replay.from, replay.to)
    IN  /\ \A e \in W : replay.queued[e] <= 2
        /\ Cardinality(W) < Batch => \A e \in W : replay.queued[e] <= 1
        /\ Cardinality(W) >= Batch =>
              \E e \in W \ FirstMs : Wants(e) => replay.queued[e] > 1

\* If the first millisecond of the window fills a batch, that is all that is read.
OneBatch ==
    LET W == Window(replay.from, replay.to)
    IN  \/ /\ ~replay.done /\ replay.cursor = replay.from
           /\ \A e \in W : replay.queued[e] = 0
        \/ /\ replay.done
           /\ \E read \in SUBSET FirstMs :
                 /\ Cardinality(read) = Batch
                 /\ \A e \in read, f \in W \ read : e < f
                 /\ \A e \in W : replay.queued[e] =
                                    IF e \in read /\ Wants(e) THEN 1 ELSE 0

FeedOK ==
    replay # NULL =>
        /\ replay.from <= now /\ replay.from < replay.to /\ replay.to <= now + 1
        /\ \A e \in DOMAIN events :
              replay.queued[e] > 0 =>
                  e \in Window(replay.from, replay.to) /\ Wants(e)
        /\ \/ /\ Cardinality(FirstMs) < Batch
              /\ ~replay.done => GoesOn
              /\ replay.done => IsOver
              /\ \A e \in FirstMs : replay.queued[e] <= 1
           \/ Cardinality(FirstMs) >= Batch /\ OneBatch

FeedInv == DataInv /\ FeedOK

LEMMA FirstSize ==
    ASSUME EventsInv
    PROVE  /\ Cardinality(FirstMs) \in Nat
           /\ Cardinality(Window(replay.from, replay.to)) \in Nat
           /\ \A B \in SUBSET Window(replay.from, replay.to) :
                 Cardinality(B) \in Nat
                 /\ Cardinality(B) <= Cardinality(Window(replay.from, replay.to))
<1> DEFINE W == Window(replay.from, replay.to)
<1>1. W \in SUBSET (1..lastSeq) /\ FirstMs \in SUBSET W /\ lastSeq \in Nat
    BY DEF FirstMs, Window, EventsInv, RowsOK
<1>2. IsFiniteSet(1..lastSeq)
    BY <1>1, FS_Interval
<1> HIDE DEF W
<1>3. IsFiniteSet(W)
    BY <1>1, <1>2, FS_Subset
<1>4. \A B \in SUBSET W :
          IsFiniteSet(B) /\ Cardinality(B) \in Nat /\ Cardinality(B) <= Cardinality(W)
    BY <1>3, FS_Subset, FS_CardinalityType
<1> QED
    BY <1>1, <1>3, <1>4, FS_CardinalityType DEF W

LEMMA BeginFeed ==
    ASSUME EventsInv, NEW s \in Subs, NEW from \in 0..now,
           NEW to \in (from + 1)..(now + 1), ReplayBegin(s, from, to)
    PROVE  FeedOK'
<1>1. /\ now' = now /\ events' = events /\ lastSeq' = lastSeq
      /\ replay' = [sub |-> s, from |-> from, to |-> to, cursor |-> from,
                    queued |-> [e \in 1..lastSeq |-> 0], done |-> FALSE]
    BY DEF ReplayBegin
<1>2. now \in Nat /\ from \in Nat /\ to \in Nat /\ DOMAIN events \subseteq 1..lastSeq
    BY DEF EventsInv, RowsOK
<1>3. from <= now /\ from < to /\ to <= now + 1
    BY <1>2
<1>4. \A e \in DOMAIN events : replay'.queued[e] = 0
    BY <1>1, <1>2
<1>5. /\ replay'.from = from /\ replay'.to = to /\ replay'.cursor = from
      /\ ~replay'.done
    BY <1>1
<1>7. Cardinality(FirstMs)' \in Nat /\ Batch \in Nat
    <2>1. PICK first : first = FirstMs'
        OBVIOUS
    <2>2. first \in SUBSET (1..lastSeq) /\ lastSeq \in Nat
        BY <1>1, <1>2, <2>1 DEF FirstMs, Window, EventsInv, RowsOK
    <2>3. IsFiniteSet(1..lastSeq)
        BY <2>2, FS_Interval
    <2>4. Cardinality(first) \in Nat
        BY <2>2, <2>3, FS_Subset, FS_CardinalityType
    <2> QED
        BY <2>1, <2>4, EventBounds
<1>8. \A e \in Window(from, to)' : e \in DOMAIN events
    BY <1>1 DEF Window
<1>9. Window(replay.from, replay.to)' = Window(from, to)'
    BY <1>5 DEF Window
<1>10. GoesOn' /\ OneBatch' /\ \A e \in FirstMs' : replay'.queued[e] <= 1
    BY <1>2, <1>4, <1>5, <1>8, <1>9 DEF GoesOn, OneBatch, FirstMs
<1>11. Cardinality(FirstMs)' < Batch \/ Cardinality(FirstMs)' >= Batch
    BY <1>7
<1>12. \A e \in DOMAIN events' : ~(replay'.queued[e] > 0)
    <2>1. \A e \in DOMAIN events' : replay'.queued[e] = 0
        BY <1>1, <1>4
    <2> QED
        BY <2>1
<1> QED
    BY <1>1, <1>3, <1>5, <1>10, <1>11, <1>12 DEF FeedOK

\* If the millisecond of the cursor fills a batch, the batch lies in it.
LEMMA SameBatch ==
    ASSUME EventsInv, replay # NULL, Cardinality(SameMs) >= Batch,
           NEW batch \in FirstOf(Window(replay.cursor, replay.to), Batch)
    PROVE  /\ batch \subseteq SameMs /\ Cardinality(batch) = Batch
           /\ Cursor(batch) = replay.cursor
<1> DEFINE W == Window(replay.cursor, replay.to)
<1>1. /\ replay.cursor \in Nat /\ Batch \in Nat /\ Batch # 0
      /\ lastSeq \in Nat /\ DOMAIN events \subseteq 1..lastSeq
      /\ \A e \in DOMAIN events : events[e].at \in Nat
      /\ \A e, f \in DOMAIN events : e < f => events[e].at <= events[f].at
    BY EventBounds DEF EventsInv, ReplayOK, Replays, RowsOK
<1>2. /\ batch \subseteq W /\ W \subseteq DOMAIN events
      /\ \A e \in W : replay.cursor <= events[e].at
      /\ \A e \in batch, f \in W \ batch : e < f
      /\ batch = W \/ Cardinality(batch) = Batch
      /\ Cardinality(batch) <= Batch
      /\ SameMs = {e \in W : events[e].at = replay.cursor}
    BY DEF FirstOf, Window, SameMs
<1> HIDE DEF W
<1>3. \A S \in SUBSET DOMAIN events :
          IsFiniteSet(S) /\ Cardinality(S) \in Nat
    <2>1. IsFiniteSet(1..lastSeq)
        BY <1>1, FS_Interval
    <2> QED
        BY <1>1, <2>1, FS_Subset, FS_CardinalityType
<1>4. batch \in SUBSET DOMAIN events /\ SameMs \in SUBSET DOMAIN events
    BY <1>2
<1>5. /\ IsFiniteSet(batch) /\ Cardinality(batch) \in Nat
      /\ IsFiniteSet(SameMs) /\ Cardinality(SameMs) \in Nat
    BY <1>3, <1>4
<1>6. ASSUME NEW e \in batch, e \notin SameMs PROVE FALSE
    <2>1. ASSUME NEW f \in SameMs PROVE f \in batch
        <3> SUFFICES ASSUME f \notin batch PROVE FALSE
            OBVIOUS
        <3>1. f \in W /\ e \in W /\ e < f /\ events[f].at = replay.cursor
            BY <1>2
        <3>2. /\ events[e].at <= events[f].at /\ replay.cursor <= events[e].at
              /\ events[e].at \in Nat
            BY <1>1, <1>2, <3>1
        <3>3. events[e].at = replay.cursor
            BY <1>1, <3>1, <3>2
        <3> QED
            BY <1>2, <1>6, <3>1, <3>3
    <2>2. SameMs \in SUBSET batch /\ SameMs # batch
        BY <1>6, <2>1
    <2>3. /\ Cardinality(SameMs) <= Cardinality(batch)
          /\ Cardinality(SameMs) # Cardinality(batch)
        BY <1>5, <2>2, FS_Subset
    <2> QED
        BY <1>1, <1>2, <1>5, <2>3
<1>7. batch \subseteq SameMs
    BY <1>6
<1>8. Cardinality(batch) = Batch
    <2>1. CASE batch = W
        <3>1. SameMs = batch
            BY <1>2, <1>7, <2>1
        <3>2. Cardinality(batch) >= Batch
            BY <3>1
        <3> QED
            BY <1>1, <1>2, <1>5, <3>2
    <2> QED
        BY <1>2, <2>1
<1>9. Cursor(batch) = replay.cursor
    <2>1. batch # {} /\ batch \in SUBSET Nat
        <3>1. Cardinality(batch) # 0
            BY <1>1, <1>8
        <3> QED
            BY <1>1, <1>4, <3>1, FS_EmptySet
    <2>2. \E g \in batch : \A f \in batch : f <= g
        BY <1>5, <2>1, Greatest
    <2>3. PICK last \in batch : Cursor(batch) = events[last].at
        BY <2>1, <2>2 DEF Cursor
    <2> QED
        BY <1>2, <1>7, <2>3
<1> QED
    BY <1>7, <1>8, <1>9

LEMMA BatchFeed == ASSUME EventsInv, FeedOK, ReplayBatch PROVE FeedOK'
<1> DEFINE W == Window(replay.from, replay.to)
<1>1. /\ replay # NULL /\ UNCHANGED <<now, events, lastSeq>> /\ ~replay.done
      /\ replay'.sub = replay.sub /\ replay'.from = replay.from
      /\ replay'.to = replay.to
      /\ replay'.queued \in [1..lastSeq -> 0..Many]
    BY BatchRound
<1>2. PICK batch \in FirstOf(Window(replay.cursor, replay.to), Batch) :
          /\ replay'.cursor = Cursor(batch)
          /\ replay'.done = Ends(batch, Cursor(batch))
          /\ \A e \in 1..lastSeq :
                replay'.queued[e] = IF e \in batch /\ Wants(e)
                                    THEN Another(replay.queued[e])
                                    ELSE replay.queued[e]
    BY BatchRound
<1>3. PICK cursor, ends : cursor = Cursor(batch) /\ ends = Ends(batch, cursor)
    OBVIOUS
<1>4. /\ replay \in Replays /\ replay.from <= replay.cursor
      /\ replay.queued \in [1..lastSeq -> 0..Many]
      /\ replay.from \in Nat /\ replay.cursor \in Nat /\ Batch \in Nat /\ Batch # 0
    BY <1>1, EventBounds DEF EventsInv, ReplayOK, Replays
<1>5. /\ cursor \in Nat /\ replay.cursor <= cursor
      /\ batch \subseteq Window(replay.cursor, replay.to)
      /\ \A e \in batch : replay.cursor <= events[e].at /\ events[e].at <= cursor
      /\ batch # {} => \E e \in batch : events[e].at = cursor
    BY <1>1, <1>3, BatchScan
<1>6. /\ \A e \in DOMAIN events : e \in 1..lastSeq /\ events[e].at \in Nat
      /\ \A e \in W : e \in DOMAIN events /\ replay.from <= events[e].at
    BY DEF EventsInv, RowsOK, Window
<1>7. \A e \in W : replay.cursor <= events[e].at
                   => e \in Window(replay.cursor, replay.to)
    BY DEF Window
<1>8. batch \in SUBSET W
    <2>1. ASSUME NEW e \in Window(replay.cursor, replay.to) PROVE e \in W
        <3>1. /\ e \in DOMAIN events /\ events[e].only = NULL
              /\ replay.cursor <= events[e].at /\ events[e].at < replay.to
            BY DEF Window
        <3>2. replay.from <= events[e].at
            BY <1>4, <1>6, <3>1
        <3> QED
            BY <3>1, <3>2 DEF Window
    <2> QED
        BY <1>5, <2>1
<1>9. /\ W' = W /\ FirstMs' = FirstMs
      /\ \A e : Wants(e)' <=> Wants(e)
    BY <1>1 DEF Window, FirstMs, Wants
<1>10. /\ FirstMs = {e \in W : events[e].at = replay.from}
       /\ replay.cursor = replay.from => SameMs = FirstMs
    BY DEF FirstMs, SameMs
<1>11. /\ Cardinality(FirstMs) \in Nat /\ Cardinality(W) \in Nat
       /\ Cardinality(batch) \in Nat /\ Cardinality(batch) <= Cardinality(W)
    BY <1>8, FirstSize
<1>12. Cardinality(batch) >= Batch /\ cursor = replay.cursor =>
           Cardinality(SameMs) >= Batch
    BY <1>1, <1>3, StuckBatch DEF SameMs
<1>13. /\ replay.from <= now /\ replay.from < replay.to /\ replay.to <= now + 1
       /\ \A e \in DOMAIN events : replay.queued[e] > 0 => e \in W /\ Wants(e)
    BY <1>1 DEF FeedOK
<1> DEFINE q(e) == replay.queued[e]
           r(e) == replay'.queued[e]
<1>14. \A e \in DOMAIN events :
          /\ q(e) \in Nat /\ r(e) \in Nat
          /\ ~(e \in batch /\ Wants(e)) => r(e) = q(e)
          /\ e \in batch /\ Wants(e) => r(e) > 0
          /\ q(e) > 0 => r(e) > 0
          /\ q(e) <= 1 => r(e) <= q(e) + 1
          /\ e \in batch /\ Wants(e) /\ q(e) <= 1 => r(e) = q(e) + 1
    <2> SUFFICES ASSUME NEW e \in DOMAIN events
                 PROVE  /\ q(e) \in Nat /\ r(e) \in Nat
                        /\ ~(e \in batch /\ Wants(e)) => r(e) = q(e)
                        /\ e \in batch /\ Wants(e) => r(e) > 0
                        /\ q(e) > 0 => r(e) > 0
                        /\ q(e) <= 1 => r(e) <= q(e) + 1
                        /\ e \in batch /\ Wants(e) /\ q(e) <= 1 => r(e) = q(e) + 1
        OBVIOUS
    <2>1. q(e) \in 0..Many
        BY <1>4, <1>6
    <2>2. r(e) = IF e \in batch /\ Wants(e) THEN Another(q(e)) ELSE q(e)
        BY <1>2, <1>6
    <2> HIDE DEF q, r
    <2>3. q(e) \in Nat /\ q(e) <= q(e) + 1
        BY <2>1, CountBounds
    <2> QED
        BY <2>1, <2>2, <2>3, MoreCopies, CountBounds
<1>15. \A e \in DOMAIN events : r(e) > 0 => e \in W /\ Wants(e)
    BY <1>8, <1>13, <1>14
<1> HIDE DEF W, q, r
<1>16. ASSUME Cardinality(FirstMs) >= Batch
       PROVE  OneBatch'
    <2>1. replay.cursor = replay.from /\ \A e \in W : q(e) = 0
        BY <1>1, <1>4, <1>11, <1>16 DEF FeedOK, OneBatch, W, q
    <2>2. batch \subseteq FirstMs /\ Cardinality(batch) = Batch /\ cursor = replay.from
        BY <1>1, <1>3, <1>10, <1>16, <2>1, SameBatch
    <2>3. \A e \in batch, f \in W \ batch : e < f
        BY <2>1 DEF FirstOf, W
    <2>4. ends
        BY <1>3, <2>2 DEF Ends
    <2>5. \A e \in W : r(e) = IF e \in batch /\ Wants(e) THEN 1 ELSE 0
        BY <1>6, <1>14, <2>1
    <2>6. \E read \in SUBSET FirstMs :
             /\ Cardinality(read) = Batch
             /\ \A e \in read, f \in W \ read : e < f
             /\ \A e \in W : r(e) = IF e \in read /\ Wants(e) THEN 1 ELSE 0
        BY <2>2, <2>3, <2>5
    <2> QED
        BY <1>2, <1>3, <1>9, <2>4, <2>6 DEF OneBatch, W, r
<1>17. ASSUME Cardinality(FirstMs) < Batch
       PROVE  /\ ~replay'.done => GoesOn'
              /\ replay'.done => IsOver'
              /\ \A e \in FirstMs : r(e) <= 1
    <2>1. GoesOn /\ \A e \in FirstMs : q(e) <= 1
        BY <1>1, <1>4, <1>11, <1>17 DEF FeedOK, q
    <2>2. /\ \A e \in W :
                /\ replay.cursor < events[e].at => q(e) = 0
                /\ replay.cursor = replay.from => q(e) = 0
                /\ events[e].at = replay.cursor => Stuck \/ q(e) <= 1
                /\ events[e].at < replay.cursor => q(e) <= 2
          /\ replay.from < replay.cursor =>
                /\ Cardinality(W) >= Batch
                /\ \E e \in W : /\ events[e].at = replay.cursor
                                /\ Wants(e) => q(e) > 0
        BY <2>1 DEF GoesOn, W, q
    <2>3. Cardinality(batch) >= Batch => cursor # replay.from
        <3> SUFFICES ASSUME Cardinality(batch) >= Batch, cursor = replay.from
                     PROVE  FALSE
            OBVIOUS
        <3>1. replay.cursor = replay.from /\ cursor = replay.cursor
            BY <1>4, <1>5
        <3>2. Cardinality(SameMs) >= Batch /\ SameMs = FirstMs
            BY <1>10, <1>12, <3>1
        <3> QED
            BY <1>4, <1>11, <1>17, <3>2
    <2>4. /\ Cardinality(batch) < Batch => ends
          /\ Cardinality(batch) >= Batch => ~ends
        <3>1. Cardinality(batch) >= Batch => ~(Cardinality(batch) < Batch)
            BY <1>4, <1>11
        <3> QED
            BY <1>3, <2>3, <3>1 DEF Ends
    <2>5. \A e \in FirstMs : r(e) <= 1
        <3> SUFFICES ASSUME NEW e \in FirstMs PROVE r(e) <= 1
            OBVIOUS
        <3>1. e \in W /\ e \in DOMAIN events /\ events[e].at = replay.from /\ q(e) <= 1
            BY <1>6, <1>10, <2>1
        <3>2. CASE replay.cursor = replay.from
            BY <1>14, <2>2, <3>1, <3>2
        <3>3. CASE replay.cursor # replay.from
            <4>1. e \notin batch
                BY <1>4, <1>5, <3>1, <3>3
            <4> QED
                BY <1>14, <3>1, <4>1
        <3> QED
            BY <3>2, <3>3
    <2>6. CASE Stuck
        <3>1. /\ batch \subseteq SameMs /\ Cardinality(batch) = Batch
              /\ cursor = replay.cursor
            BY <1>1, <1>3, <2>6, SameBatch DEF Stuck
        <3>2. ~ends
            BY <1>4, <2>4, <3>1
        <3>3. Stuck'
            BY <1>1, <1>2, <1>3, <2>6, <3>1 DEF Stuck, SameMs, Window
        <3>4. \A e \in batch : events[e].at = replay.cursor
            BY <3>1 DEF SameMs
        <3>5. ASSUME NEW e \in W
              PROVE  /\ cursor < events[e].at => r(e) = 0
                     /\ events[e].at < cursor => r(e) <= 2
            <4>1. e \in DOMAIN events /\ events[e].at \in Nat
                BY <1>6
            <4>2. events[e].at # replay.cursor => r(e) = q(e)
                BY <1>14, <3>4, <4>1
            <4> QED
                BY <1>4, <2>2, <3>1, <4>1, <4>2
        <3>6. \E e \in W : events[e].at = cursor /\ (Wants(e) => r(e) > 0)
            BY <1>6, <1>14, <2>2, <2>6, <3>1 DEF Stuck
        <3>7. cursor # replay.from /\ Cardinality(W) >= Batch
            BY <1>4, <2>2, <2>6, <3>1 DEF Stuck
        <3> QED
            BY <1>1, <1>2, <1>3, <1>9, <2>5, <3>2, <3>3, <3>5, <3>6, <3>7
            DEF GoesOn, W, r
    <2>7. CASE ~Stuck
        <3>1. ASSUME NEW e \in W
              PROVE  /\ r(e) <= 2
                     /\ replay.cursor < events[e].at => r(e) <= 1
                     /\ cursor < events[e].at => r(e) = 0
                     /\ replay.cursor = replay.from => r(e) <= 1
            <4>1. /\ e \in DOMAIN events /\ events[e].at \in Nat
                  /\ q(e) \in Nat /\ r(e) \in Nat
                BY <1>6, <1>14
            <4>2. /\ events[e].at < replay.cursor => e \notin batch
                  /\ cursor < events[e].at => e \notin batch
                BY <1>4, <1>5, <4>1
            <4>3. CASE events[e].at < replay.cursor
                BY <1>4, <1>5, <1>14, <2>2, <4>1, <4>2, <4>3
            <4>4. CASE events[e].at = replay.cursor
                BY <1>4, <1>5, <1>14, <2>2, <2>7, <4>1, <4>4
            <4>5. CASE replay.cursor < events[e].at
                BY <1>4, <1>5, <1>14, <2>2, <4>1, <4>2, <4>5
            <4> QED
                BY <1>4, <4>1, <4>3, <4>4, <4>5
        <3>2. CASE Cardinality(batch) >= Batch
            <4>1. replay.cursor < cursor
                BY <1>4, <1>5, <1>12, <2>3, <2>7, <3>2 DEF Stuck
            <4>2. ~ends /\ Cardinality(W) >= Batch
                BY <1>4, <1>11, <2>4, <3>2
            <4>3. batch # {}
                <5>1. Cardinality(batch) # 0
                    BY <1>4, <1>11, <3>2
                <5> QED
                    BY <5>1, FS_EmptySet
            <4>4. \E e \in W : events[e].at = cursor /\ (Wants(e) => r(e) > 0)
                BY <1>5, <1>6, <1>8, <1>14, <4>3
            <4>5. cursor # replay.from
                BY <2>3, <3>2
            <4>6. \A e \in W : events[e].at = cursor => r(e) <= 1
                BY <3>1, <4>1
            <4> QED
                BY <1>1, <1>2, <1>3, <1>9, <2>5, <3>1, <4>2, <4>4, <4>5, <4>6
                DEF GoesOn, W, r
        <3>3. CASE ~(Cardinality(batch) >= Batch)
            <4>1. ends /\ batch = Window(replay.cursor, replay.to)
                <5>1. Cardinality(batch) < Batch /\ Cardinality(batch) # Batch
                    BY <1>4, <1>11, <3>3
                <5> QED
                    BY <2>4, <5>1 DEF FirstOf
            <4>2. replay.cursor = replay.from => batch = W
                BY <4>1 DEF W
            <4>3. replay.cursor # replay.from => replay.from < replay.cursor
                BY <1>4
            <4>4. ASSUME Cardinality(W) < Batch, NEW e \in W
                  PROVE  r(e) <= 1
                BY <1>4, <1>11, <2>2, <3>1, <4>3, <4>4
            <4>5. ASSUME Cardinality(W) >= Batch
                  PROVE  \E e \in W \ FirstMs : Wants(e) => r(e) > 1
                <5>1. replay.from < replay.cursor
                    BY <3>3, <4>2, <4>3, <4>5
                <5>2. PICK e \in W : /\ events[e].at = replay.cursor
                                     /\ Wants(e) => q(e) > 0
                    BY <2>2, <5>1
                <5>3. e \in DOMAIN events /\ e \in batch /\ e \notin FirstMs
                    BY <1>4, <1>6, <1>7, <1>10, <4>1, <5>1, <5>2
                <5>4. q(e) \in Nat /\ q(e) <= 1
                    BY <1>14, <2>2, <2>7, <5>2, <5>3
                <5>5. Wants(e) => r(e) > 1
                    BY <1>14, <5>2, <5>3, <5>4
                <5> QED
                    BY <5>3, <5>5
            <4> QED
                BY <1>2, <1>3, <1>9, <2>5, <3>1, <4>1, <4>4, <4>5
                DEF IsOver, W, r
        <3> QED
            BY <3>2, <3>3
    <2> QED
        BY <2>6, <2>7
<1>18. Cardinality(FirstMs) < Batch \/ Cardinality(FirstMs) >= Batch
    BY <1>4, <1>11
<1>19. /\ replay'.from <= now' /\ replay'.from < replay'.to
       /\ replay'.to <= now' + 1
       /\ \A e \in DOMAIN events' :
             replay'.queued[e] > 0 => e \in W' /\ Wants(e)'
    BY <1>1, <1>9, <1>13, <1>15 DEF r
<1> QED
    BY <1>9, <1>16, <1>17, <1>18, <1>19 DEF FeedOK, W, r

LEMMA StepFeedInv == FeedInv /\ [Next]_vars => FeedInv'
<1> SUFFICES ASSUME FeedInv, [Next]_vars PROVE FeedInv'
    OBVIOUS
<1>1. DataInv' /\ EventsInv /\ now \in Nat
    BY StepData DEF FeedInv, DataInv, ReaderInv, EventsInv, RowsOK
<1>2. ASSUME replay' = NULL PROVE FeedInv'
    BY <1>1, <1>2 DEF FeedInv, FeedOK
<1>3. ASSUME UNCHANGED <<events, replay>>, now' \in Nat, now <= now'
      PROVE  FeedInv'
    <2>1. CASE replay = NULL
        BY <1>2, <1>3, <2>1
    <2>2. CASE replay # NULL
        <3>1. replay.from \in Nat /\ replay.to \in Nat
            BY <1>1, <2>2 DEF EventsInv, ReplayOK, Replays
        <3>2. replay.from <= now' /\ replay.to <= now' + 1
            BY <1>1, <1>3, <2>2, <3>1 DEF FeedInv, FeedOK
        <3> QED
            BY <1>1, <1>3, <2>2, <3>2
            DEF FeedInv, FeedOK, GoesOn, IsOver, OneBatch, Stuck, SameMs, FirstMs,
                Window, Wants
    <2> QED
        BY <2>1, <2>2
<1>4. CASE Tick
    <2>1. now' \in Nat /\ now <= now'
        BY <1>1, <1>4 DEF Tick
    <2> QED
        BY <1>3, <1>4, <2>1 DEF Tick
<1>5. CASE Write
    BY <1>2, <1>5
    DEF Write, PublishAgain, PublishNew, Test, Purge, Add, Unlocked
<1>6. CASE Replaying
    <2>1. ASSUME NEW s \in Subs, NEW from \in 0..now,
                 NEW to \in (from + 1)..(now + 1), ReplayBegin(s, from, to)
          PROVE  FeedInv'
        BY <1>1, <2>1, BeginFeed DEF FeedInv
    <2>2. CASE ReplayBatch
        BY <1>1, <2>2, BatchFeed DEF FeedInv
    <2>3. CASE ReplayCommit
        BY <1>2, <2>3 DEF ReplayCommit
    <2> QED
        BY <1>6, <2>1, <2>2, <2>3 DEF Replaying
<1>7. CASE Reading \/ UNCHANGED vars
    BY <1>1, <1>3, <1>7 DEF Reading, FirstPage, NextPage, CloseReader, vars
<1> QED
    BY <1>4, <1>5, <1>6, <1>7 DEF Next

LEMMA FedRows ==
    /\ DOMAIN Fed = DOMAIN events
    /\ \A e \in DOMAIN events :
          /\ Fed[e].at = events[e].at /\ Fed[e].only = events[e].only
          /\ Fed[e].wanted = Wanted(events[e].type)
    BY DEF Fed

\* The sizes AbstractFeed speaks of are those of Events.
LEMMA FedSizes == \A S : Feed!Cardinality(S) = Cardinality(S)
    BY DEF Feed!Cardinality, Cardinality, Feed!IsFiniteSet, IsFiniteSet

LEMMA InitFeed == Init => Feed!Init
<1> SUFFICES ASSUME Init PROVE Feed!Init
    OBVIOUS
<1>1. DOMAIN events = {} /\ DOMAIN reached = {}
    BY DEF Init
<1> QED
    BY <1>1, FedRows DEF Feed!Init

\* A publisher's transaction is one step of the feed.
LEMMA AddFeed ==
    ASSUME DataInv, NEW event, NEW targets, Add(event, targets), now' = now
    PROVE  Feed!Store([at |-> event.at, only |-> event.only,
                       wanted |-> Wanted(event.type)], targets)
<1> DEFINE seq == lastSeq + 1
           table == DOMAIN events \cup {seq}
<1>1. /\ lastSeq' = seq
      /\ events' = [e \in table |-> IF e = seq THEN event ELSE events[e]]
      /\ reached' = [e \in table |-> IF e = seq THEN Feed!One(targets)
                                                ELSE reached[e]]
    BY DEF Add, One, Feed!One
<1>2. DOMAIN events' = table
    BY <1>1
<1> HIDE DEF table
<1>3. Fed' = [e \in table |->
                 [at |-> events'[e].at, only |-> events'[e].only,
                  wanted |-> Wanted(events'[e].type)]]
    BY <1>2 DEF Fed, Wanted, Any
<1>4. \A e \in table : events'[e] = IF e = seq THEN event ELSE events[e]
    BY <1>1
<1>5. \A e \in table : e # seq => e \in DOMAIN events
    BY DEF table
<1>6. Fed' = [e \in table |->
                 IF e = seq
                 THEN [at |-> event.at, only |-> event.only,
                       wanted |-> Wanted(event.type)]
                 ELSE Fed[e]]
    BY <1>3, <1>4, <1>5 DEF Fed
<1> QED
    BY <1>1, <1>6, FedRows DEF Feed!Store, table

LEMMA PublishFeed ==
    ASSUME DataInv, NEW source, NEW key, NEW type, PublishNew(source, key, type)
    PROVE  Feed!Publish(Wanted(type))
<1> DEFINE event == Event(source, key, type, NULL)
<1>1. /\ Add(event, {s \in Active : Any(s, type)}) /\ now' = now
      /\ event.at = now /\ event.only = NULL /\ event.type = type
    BY DEF PublishNew, Event
<1> HIDE DEF event
<1>2. {s \in Active : Any(s, type)} = Wanted(type) \cap Active
    BY DataTypes DEF Wanted
<1>3. Feed!Store([at |-> now, only |-> NULL, wanted |-> Wanted(type)],
                 Wanted(type) \cap Active)
    BY <1>1, <1>2, AddFeed
<1>4. [at |-> now, only |-> NULL, wanted |-> Wanted(type)]
        = Feed!Event(Wanted(type), NULL)
    BY DEF Feed!Event
<1> QED
    BY <1>3, <1>4 DEF Feed!Publish

LEMMA TestFeed ==
    ASSUME DataInv, NEW source, NEW s \in Subs, Test(source, s)
    PROVE  Feed!Test(Wanted(TestType), s)
<1> DEFINE event == Event(source, NULL, TestType, s)
<1>1. /\ Add(event, {s}) /\ now' = now
      /\ event.at = now /\ event.only = s /\ event.type = TestType
    BY DEF Test, Event
<1> HIDE DEF event
<1>2. Feed!Store([at |-> now, only |-> s, wanted |-> Wanted(TestType)], {s})
    BY <1>1, AddFeed
<1>3. [at |-> now, only |-> s, wanted |-> Wanted(TestType)]
        = Feed!Event(Wanted(TestType), s)
    BY DEF Feed!Event
<1> QED
    BY <1>2, <1>3 DEF Feed!Test

LEMMA PurgeFeed ==
    ASSUME DataInv, NEW gone \in SUBSET Old, Purge(gone)
    PROVE  gone \in SUBSET DOMAIN Fed /\ Feed!Forget(gone)
<1> DEFINE kept == DOMAIN events \ gone
<1>1. /\ events' = [e \in kept |-> events[e]]
      /\ reached' = [e \in kept |-> reached[e]]
      /\ UNCHANGED <<now, lastSeq>>
    BY DEF Purge
<1>2. DOMAIN events' = kept /\ \A e \in kept : e \in DOMAIN events
    BY <1>1
<1> HIDE DEF kept
<1>3. Fed' = [e \in kept |->
                 [at |-> events'[e].at, only |-> events'[e].only,
                  wanted |-> Wanted(events'[e].type)]]
    BY <1>2 DEF Fed, Wanted, Any
<1>4. Fed' = [e \in kept |-> Fed[e]]
    BY <1>1, <1>2, <1>3 DEF Fed
<1>5. gone \in SUBSET DOMAIN Fed
    BY FedRows DEF Old
<1>6. \A e \in gone : Fed[e].at + RetentionMs < now
    BY FedRows DEF Old
<1> QED
    BY <1>1, <1>4, <1>5, <1>6, FedRows DEF Feed!Forget, kept

\* The commit of a replay is the abstract replay.
LEMMA CommitFeed ==
    ASSUME FeedInv, ReplayCommit
    PROVE  Feed!Replay(replay.sub, replay.from, replay.to) \/ UNCHANGED Feed!promised
<1> DEFINE W == Window(replay.from, replay.to)
<1>1. /\ replay # NULL /\ replay.done
      /\ reached' = [e \in DOMAIN events |->
            [reached[e] EXCEPT ![replay.sub] = @ + replay.queued[e]]]
      /\ UNCHANGED <<now, events, lastSeq>>
    BY DEF ReplayCommit
<1>2. /\ EventsInv /\ FeedOK /\ replay \in Replays
      /\ replay.queued \in [1..lastSeq -> 0..Many] /\ DOMAIN events \subseteq 1..lastSeq
      /\ reached \in [DOMAIN events -> [Subs -> Nat]]
    BY <1>1 DEF FeedInv, DataInv, ReaderInv, EventsInv, ReplayOK, RowsOK
<1>3. UNCHANGED <<now, Fed, lastSeq>>
    BY <1>1 DEF Fed, Wanted, Any
<1>4. /\ Feed!Window(replay.from, replay.to) = W /\ W \subseteq DOMAIN events
      /\ Feed!FirstMs(replay.from, replay.to) = FirstMs /\ FirstMs \subseteq W
    BY FedRows DEF Window, FirstMs, Feed!Window, Feed!FirstMs
<1>5. \A e \in DOMAIN events : replay.sub \in Fed[e].wanted <=> Wants(e)
    <2>1. replay.sub \in Subs
        BY <1>2 DEF Replays
    <2> QED
        BY <2>1, FedRows DEF Wanted, Wants
<1>6. \A e \in DOMAIN events :
          /\ replay.queued[e] \in Nat
          /\ replay.queued[e] > 0 => e \in W /\ Wants(e)
    <2>1. \A e \in DOMAIN events : replay.queued[e] \in 0..Many
        BY <1>2
    <2>2. \A e \in DOMAIN events : replay.queued[e] \in Nat
        BY <2>1, CountBounds
    <2> QED
        BY <1>1, <1>2, <2>2 DEF FeedOK
<1>7. /\ Cardinality(FirstMs) \in Nat /\ Cardinality(W) \in Nat
      /\ Batch \in Nat /\ Batch # 0
    BY <1>2, FirstSize, EventBounds
<1> HIDE DEF W
<1>8. ASSUME NEW read \in SUBSET W, NEW again \in SUBSET (read \ FirstMs),
             Feed!Reads(read, replay.from, replay.to),
             Feed!ReadsAgain(again, replay.from, replay.to),
             \A e \in DOMAIN events :
                 Wants(e) => replay.queued[e] = Feed!Copies(e, read, again)
      PROVE  Feed!Replay(replay.sub, replay.from, replay.to)
                \/ UNCHANGED Feed!promised
    <2>1. ASSUME NEW e \in DOMAIN events
          PROVE  [reached[e] EXCEPT ![replay.sub] = @ + replay.queued[e]] =
                    IF replay.sub \in Fed[e].wanted
                    THEN [reached[e] EXCEPT
                             ![replay.sub] = @ + Feed!Copies(e, read, again)]
                    ELSE reached[e]
        <3>1. CASE Wants(e)
            BY <1>5, <1>8, <3>1
        <3>2. CASE ~Wants(e)
            <4>1. replay.queued[e] = 0 /\ reached[e] \in [Subs -> Nat]
                BY <1>2, <1>6, <3>2
            <4>2. [reached[e] EXCEPT ![replay.sub] = @ + 0] = reached[e]
                BY <4>1
            <4> QED
                BY <1>5, <3>2, <4>1, <4>2
        <3> QED
            BY <3>1, <3>2
    <2>2. reached' = [e \in DOMAIN Fed |->
             IF replay.sub \in Fed[e].wanted
             THEN [reached[e] EXCEPT ![replay.sub] = @ + Feed!Copies(e, read, again)]
             ELSE reached[e]]
        BY <1>1, <2>1, FedRows
    <2> QED
        BY <1>3, <1>4, <1>8, <2>2 DEF Feed!Replay, Feed!promised
<1>9. CASE Cardinality(FirstMs) < Batch
    <2>1. /\ \A e \in W : replay.queued[e] <= 2
          /\ Cardinality(W) < Batch => \A e \in W : replay.queued[e] <= 1
          /\ Cardinality(W) >= Batch =>
                \E e \in W \ FirstMs : Wants(e) => replay.queued[e] > 1
          /\ \A e \in FirstMs : replay.queued[e] <= 1
        BY <1>1, <1>2, <1>7, <1>9 DEF FeedOK, IsOver, W
    <2>2. \A e \in W : Wants(e) => replay.queued[e] > 0
        <3>1. ~(Cardinality(FirstMs) >= Batch)
            BY <1>7, <1>9
        <3> QED
            BY <1>1, <1>2, <3>1
            DEF EventsInv, ReplayOK, ReplayCovers, FirstMs, W
    <2>3. PICK again :
              again = IF Cardinality(W) < Batch THEN {}
                      ELSE {e \in W \ FirstMs : Wants(e) => replay.queued[e] > 1}
        OBVIOUS
    <2>4. again \in SUBSET (W \ FirstMs)
        BY <2>3
    <2>5. again = {} <=> Cardinality(W) < Batch
        BY <1>7, <2>1, <2>3
    <2>6. /\ Feed!Reads(W, replay.from, replay.to)
          /\ Feed!ReadsAgain(again, replay.from, replay.to)
        BY <1>4, <1>9, <2>5, FedSizes DEF Feed!Reads, Feed!ReadsAgain
    <2>7. ASSUME NEW e \in DOMAIN events, Wants(e)
          PROVE  replay.queued[e] = Feed!Copies(e, W, again)
        <3>1. replay.queued[e] \in Nat
            BY <1>6
        <3>2. CASE e \notin W
            <4>1. e \notin again /\ ~(replay.queued[e] > 0)
                BY <1>6, <2>4, <3>2
            <4> QED
                BY <3>1, <3>2, <4>1 DEF Feed!Copies
        <3>3. CASE e \in again
            <4>1. e \in W /\ replay.queued[e] > 1 /\ replay.queued[e] <= 2
                BY <2>1, <2>3, <2>7, <3>3
            <4> QED
                BY <3>1, <3>3, <4>1 DEF Feed!Copies
        <3>4. CASE e \in W /\ e \notin again
            <4>1. replay.queued[e] > 0 /\ replay.queued[e] <= 1
                BY <1>7, <2>1, <2>2, <2>3, <2>7, <3>1, <3>4
            <4> QED
                BY <3>1, <3>4, <4>1 DEF Feed!Copies
        <3> QED
            BY <3>2, <3>3, <3>4
    <2> QED
        BY <1>8, <2>4, <2>6, <2>7
<1>10. CASE Cardinality(FirstMs) >= Batch
    <2>1. PICK read \in SUBSET FirstMs :
             /\ Cardinality(read) = Batch
             /\ \A e \in read, f \in W \ read : e < f
             /\ \A e \in W : replay.queued[e] =
                               IF e \in read /\ Wants(e) THEN 1 ELSE 0
        BY <1>1, <1>2, <1>7, <1>10 DEF FeedOK, OneBatch, W
    <2>2. read \in SUBSET W /\ {} \in SUBSET (read \ FirstMs)
        BY <1>4
    <2>3. ~(Cardinality(FirstMs) < Batch)
        BY <1>7, <1>10
    <2>4. /\ Feed!Reads(read, replay.from, replay.to)
          /\ Feed!ReadsAgain({}, replay.from, replay.to)
        BY <1>4, <2>1, <2>3, FedSizes DEF Feed!Reads, Feed!ReadsAgain
    <2>5. ASSUME NEW e \in DOMAIN events, Wants(e)
          PROVE  replay.queued[e] = Feed!Copies(e, read, {})
        BY <1>6, <2>1, <2>2, <2>5 DEF Feed!Copies
    <2> QED
        BY <1>8, <2>2, <2>4, <2>5
<1> QED
    BY <1>7, <1>9, <1>10

LEMMA StepFeed == FeedInv /\ [Next]_vars => [Feed!Next]_(Feed!promised)
<1> SUFFICES ASSUME FeedInv, [Next]_vars
             PROVE  Feed!Next \/ UNCHANGED Feed!promised
    OBVIOUS
<1>1. DataInv /\ EventsInv /\ now \in Nat
    BY DEF FeedInv, DataInv, ReaderInv, EventsInv, RowsOK
<1>2. ASSUME UNCHANGED <<now, events, lastSeq, reached>>
      PROVE  UNCHANGED Feed!promised
    BY <1>2 DEF Feed!promised, Fed, Wanted, Any
<1>3. \A type : Wanted(type) \in SUBSET Subs
    BY DEF Wanted
<1>4. CASE Tick
    <2>1. now < now' /\ UNCHANGED <<Fed, lastSeq, reached>>
        BY <1>1, <1>4 DEF Tick, Fed, Wanted, Any
    <2> QED
        BY <2>1 DEF Feed!Next, Feed!Wait
<1>5. CASE Write
    <2>1. ASSUME NEW source, NEW key, NEW type, PublishAgain(source, key, type)
          PROVE  UNCHANGED Feed!promised
        BY <1>2, <2>1 DEF PublishAgain
    <2>2. ASSUME NEW source, NEW key, NEW type, PublishNew(source, key, type)
          PROVE  Feed!Next
        BY <1>1, <1>3, <2>2, PublishFeed DEF Feed!Next
    <2>3. ASSUME NEW source, NEW s \in Subs, Test(source, s)
          PROVE  Feed!Next
        BY <1>1, <1>3, <2>3, TestFeed DEF Feed!Next
    <2>4. ASSUME NEW gone \in SUBSET Old, Purge(gone)
          PROVE  Feed!Next
        BY <1>1, <2>4, PurgeFeed DEF Feed!Next
    <2> QED
        BY <1>5, <2>1, <2>2, <2>3, <2>4 DEF Write
<1>6. CASE Replaying
    <2>1. CASE ReplayCommit
        <3>1. replay # NULL /\ replay \in Replays
            BY <1>1, <2>1 DEF ReplayCommit, EventsInv, ReplayOK
        <3>2. PICK s, from, to :
                 s = replay.sub /\ from = replay.from /\ to = replay.to
            OBVIOUS
        <3>3. s \in Subs /\ from \in Nat /\ to \in Nat
            BY <3>1, <3>2 DEF Replays
        <3>4. from <= now /\ from < to /\ to <= now + 1
            BY <3>1, <3>2 DEF FeedInv, FeedOK
        <3>5. from \in 0..now /\ to \in (from + 1)..(now + 1)
            BY <1>1, <3>3, <3>4
        <3>6. Feed!Replay(s, from, to) \/ UNCHANGED Feed!promised
            BY <2>1, <3>2, CommitFeed
        <3> QED
            BY <3>3, <3>5, <3>6 DEF Feed!Next
    <2> QED
        BY <1>2, <1>6, <2>1 DEF Replaying, ReplayBegin, ReplayBatch
<1>7. CASE Reading \/ UNCHANGED vars
    BY <1>2, <1>7 DEF Reading, FirstPage, NextPage, CloseReader, vars
<1> QED
    BY <1>4, <1>5, <1>6, <1>7 DEF Next

-----------------------------------------------------------------------------
(***************************************************************************)
(* The theorems.                                                           *)
(***************************************************************************)
\* The inductive invariant: rows are in the order of their times, a publisher
\* has one event of a key, and a replay has read what lies before its cursor.
THEOREM EventsInvariant == Spec => []EventsInv
<1> QED
    BY InitEvents, StepEvents, PTL DEF Spec

\* EventService.publish answers a repeated key with the publisher's own event
\* and with the same one every time, whatever is purged in between.
THEOREM KeysAreAnswered == Spec => []KeysAnswerOwn
<1>1. EventsInv => KeysAnswerOwn
    BY DEF EventsInv, KeysOK
<1> QED
    BY <1>1, EventsInvariant, PTL

\* No fan-out and no replay sends a test event to another subscription.
THEOREM TestsArePrivate == Spec => []TestStaysPrivate
<1>1. EventsInv => TestStaysPrivate
    BY DEF EventsInv, PrivateOK
<1> QED
    BY <1>1, EventsInvariant, PTL

\* EventService.replay misses no event of its window, wherever its batches end,
\* unless the first millisecond of the window fills a batch.
THEOREM ReplaysCover == Spec => []ReplayCovers
<1>1. EventsInv => ReplayCovers
    BY DEF EventsInv, ReplayOK
<1> QED
    BY <1>1, EventsInvariant, PTL

\* GET /events: a client that follows next_before sees, once and newest first,
\* whatever was there when it began and still is, for every limit and filter.
THEOREM PagesAreComplete == Spec => []PagesComplete
<1>1. Init => ReaderInv
    BY InitEvents DEF Init, ReaderInv
<1>2. ReaderInv => PagesComplete
    BY DEF ReaderInv, Reads, PagesComplete
<1> QED
    BY <1>1, <1>2, StepReader, PTL DEF Spec

\* Every variable of Events always has its type, and a row, its deliveries and
\* what is remembered of it are deleted together.
THEOREM TypeCorrect == Spec => []TypeOK
<1>1. Init => DataInv
    BY InitEvents DEF Init, ReaderInv, DataInv
<1> QED
    BY <1>1, DataTyped, StepData, PTL DEF Spec

\* EventService.replay: a round of the loop that does not end it moves the cursor
\* on within the window, unless a later millisecond holds a whole batch.
THEOREM ReplaysAdvance == Spec => ReplayAdvances
<1>1. EventsInv /\ [Next]_vars =>
        [ReplayBatch => \/ replay'.done
                        \/ /\ replay.cursor < replay'.cursor
                           /\ replay'.cursor < replay.to
                        \/ FullLater]_vars
    BY BatchAdvances
<1> QED
    BY <1>1, EventsInvariant, PTL DEF Spec, ReplayAdvances

\* Who is sent which event: publishing, tests, replays in batches and retention
\* implement AbstractFeed, for every size of a batch and every rate of events.
THEOREM ImplementsFeed == Spec => KeepsFeed
<1>1. Init => FeedInv
    BY InitEvents DEF Init, ReaderInv, DataInv, FeedInv, FeedOK
<1> QED
    BY <1>1, InitFeed, StepFeedInv, StepFeed, PTL
    DEF Spec, KeepsFeed, Feed!Spec
=============================================================================
