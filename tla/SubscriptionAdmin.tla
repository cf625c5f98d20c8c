------------------------- MODULE SubscriptionAdmin -------------------------
(***************************************************************************)
(* What operators do to subscriptions beside pausing and resuming them:    *)
(* names, the rotation of signing secrets while calls are in flight, and   *)
(* the pages of the listing while subscriptions come, go and are renamed.  *)
(*                                                                         *)
(* One process serves the API, so that a handler, which is synchronous, is *)
(* one step.  Secrets are numbered in the order they are generated.  A     *)
(* receiver verifies with any of those its operator got, and changes over  *)
(* from one to another whenever it likes.                                  *)
(*                                                                         *)
(* Fault_ operators are described in DeliveryStore.                        *)
(***************************************************************************)
EXTENDS Naturals, Sequences, FiniteSets

CONSTANTS
    NULL,
    Subs,       \* the subscriptions there may ever be
    Names,      \* the names operators use, in their order
    Limit,      \* the limit of a listing
    GraceMs,    \* PREV_SECRET_GRACE_HOURS in milliseconds
    MaxNow,     \* bound on the clock
    MaxSecrets, \* bound on the secrets generated
    MaxCalls    \* bound on the requests under way

ASSUME FiniteSubs == IsFiniteSet(Subs)
ASSUME NameOrder == Names \subseteq Nat
ASSUME Limits == Limit \in Nat \ {0}
ASSUME Times == {GraceMs, MaxNow, MaxSecrets, MaxCalls} \subseteq Nat
ASSUME NullIsNoNumber == NULL \notin Nat

VARIABLES
    now,
    subs,        \* the table; the status "unborn" or "deleted" is that of no row
    issued,      \* the secrets in the order they were generated: whose each is,
                 \* and when the operator was told it stops to sign, or NULL
    calls,       \* the requests under way
    reader       \* a client that reads the listing page by page, or NULL

vars == <<now, subs, issued, calls, reader>>

NewRow(name, status, secret) ==
    [name |-> name, status |-> status, secret |-> secret, prev |-> NULL,
     until |-> NULL]

NoRow(status) == NewRow(NULL, status, NULL)

Existing == {s \in Subs : subs[s].status \notin {"unborn", "deleted"}}
Taken == {subs[s].name : s \in Existing}

Init ==
    /\ now = 0
    /\ subs = [s \in Subs |-> NoRow("unborn")]
    /\ issued = << >> /\ calls = {} /\ reader = NULL

-----------------------------------------------------------------------------
(***************************************************************************)
(* SubscriptionService.                                                    *)
(***************************************************************************)
\* A reader's steady are the subscriptions it asks for that were there, under
\* one name, since it began.
Disturb ==
    reader' = IF reader = NULL THEN NULL
              ELSE [reader EXCEPT !.steady =
                       {s \in @ : /\ subs'[s].name = subs[s].name
                                  /\ reader.status \in {NULL, subs'[s].status}}]

Status(enabled) == IF enabled THEN "active" ELSE "paused"

Secret(s) == [sub |-> s, end |-> NULL]

\* create: the operator gets the secret.
Create(s, name, enabled) ==
    /\ subs[s].status = "unborn" /\ name \notin Taken
    /\ Len(issued) < MaxSecrets
    /\ issued' = Append(issued, Secret(s))
    /\ subs' = [subs EXCEPT ![s] = NewRow(name, Status(enabled), Len(issued'))]
    /\ Disturb
    /\ UNCHANGED <<now, calls>>

\* update with a new name, or with enabled.
Rename(s, name) ==
    /\ s \in Existing /\ (name = subs[s].name \/ name \notin Taken)
    /\ subs' = [subs EXCEPT ![s].name = name]
    /\ Disturb
    /\ UNCHANGED <<now, issued, calls>>

Enable(s, enabled) ==
    /\ s \in Existing
    /\ subs' = [subs EXCEPT ![s].status = Status(enabled)]
    /\ Disturb
    /\ UNCHANGED <<now, issued, calls>>

Remove(s) ==
    /\ s \in Existing
    /\ subs' = [subs EXCEPT ![s] = NoRow("deleted")]
    /\ Disturb
    /\ UNCHANGED <<now, issued, calls>>

\* previousValidUntil, of the secret that is replaced; the one before that stops
\* to sign at once.
EndOf(end) ==
    IF end = NULL THEN now + GraceMs ELSE IF end > now THEN now ELSE end

\* rotate: the operator gets the new secret, and is told how long the previous one
\* goes on signing.
Rotate(s) ==
    /\ s \in Existing
    /\ Len(issued) < MaxSecrets
    /\ issued' = Append([k \in DOMAIN issued |->
                            IF issued[k].sub = s
                            THEN [issued[k] EXCEPT !.end = EndOf(@)]
                            ELSE issued[k]],
                        Secret(s))
    /\ subs' = [subs EXCEPT ![s].secret = Len(issued'),
           ![s].prev = IF GraceMs = 0 THEN NULL ELSE subs[s].secret,
           ![s].until = IF GraceMs = 0 THEN NULL ELSE now + GraceMs]
    /\ UNCHANGED <<now, calls, reader>>

\* signingSecrets, with the test of the grace period reversed.
Fault_AfterGrace(row) ==
    {row.secret} \cup (IF row.prev # NULL /\ row.until <= now THEN {row.prev} ELSE {})

SigningSecrets(row) ==
    {row.secret} \cup (IF row.prev # NULL /\ row.until > now THEN {row.prev} ELSE {})

-----------------------------------------------------------------------------
(***************************************************************************)
(* Requests under way.                                                     *)
(***************************************************************************)
\* Worker#execute reads the row and takes the secrets; the request is signed
\* and sent later, when the name is resolved, however long that takes.
Send(s) ==
    /\ s \in Existing /\ Cardinality(calls) < MaxCalls
    /\ calls' = calls \cup {[sub |-> s, secrets |-> SigningSecrets(subs[s]),
                             newest |-> subs[s].secret, at |-> now]}
    /\ UNCHANGED <<now, subs, issued, reader>>

Arrive(c) ==
    /\ calls' = calls \ {c}
    /\ UNCHANGED <<now, subs, issued, reader>>

Tick ==
    /\ now < MaxNow
    /\ now' = now + 1
    /\ UNCHANGED <<subs, issued, calls, reader>>

-----------------------------------------------------------------------------
(***************************************************************************)
(* GET /subscriptions: sorted by name, one row more than the limit.        *)
(***************************************************************************)
Listed(status, after) ==
    {s \in Existing : /\ status # NULL => subs[s].status = status
                      /\ after # NULL => subs[s].name > after}

\* ORDER BY name LIMIT n.
FirstOf(S, n) ==
    {s \in S : Cardinality({t \in S : subs[t].name < subs[s].name}) < n}

LastName(S) == CHOOSE n \in {subs[s].name : s \in S} :
                   \A s \in S : subs[s].name <= n

\* Continues after the row that only shows there is another page.
Fault_AfterExtra(rows, items) ==
    IF Cardinality(rows) <= Limit THEN NULL ELSE LastName(rows)

NextCursor(rows, items) ==
    IF Cardinality(rows) <= Limit THEN NULL ELSE LastName(items)

\* times counts how often a subscription was shown.
Page(status, after, steady, times) ==
    LET rows == FirstOf(Listed(status, after), Limit + 1)
        items == FirstOf(rows, Limit)
    IN  reader' = [status |-> status, cursor |-> NextCursor(rows, items),
                   steady |-> steady,
                   times |-> [s \in Subs |->
                                 times[s] + IF s \in items THEN 1 ELSE 0]]

FirstPage(status) ==
    /\ reader = NULL
    /\ Page(status, NULL, Listed(status, NULL), [s \in Subs |-> 0])
    /\ UNCHANGED <<now, subs, issued, calls>>

NextPage ==
    /\ reader # NULL /\ reader.cursor # NULL
    /\ Page(reader.status, reader.cursor, reader.steady, reader.times)
    /\ UNCHANGED <<now, subs, issued, calls>>

CloseReader ==
    /\ reader # NULL
    /\ reader' = NULL
    /\ UNCHANGED <<now, subs, issued, calls>>

Operate ==
    \E s \in Subs :
        \/ \E name \in Names, enabled \in BOOLEAN : Create(s, name, enabled)
        \/ \E name \in Names : Rename(s, name)
        \/ \E enabled \in BOOLEAN : Enable(s, enabled)
        \/ Remove(s) \/ Rotate(s)

Read == (\E status \in {NULL, "active"} : FirstPage(status)) \/ NextPage \/ CloseReader

Deliver == (\E s \in Subs : Send(s)) \/ (\E c \in calls : Arrive(c))

Next == Operate \/ Read \/ Deliver \/ Tick

Spec == Init /\ [][Next]_vars

-----------------------------------------------------------------------------
(***************************************************************************)
(* What must hold.                                                         *)
(***************************************************************************)
OrNull(S) == S \cup {NULL}

Row == [name : OrNull(Names), status : {"unborn", "active", "paused", "deleted"},
        secret : OrNull(Nat), prev : OrNull(Nat), until : OrNull(Nat)]

TypeOK ==
    /\ now \in Nat
    /\ subs \in [Subs -> Row]
    /\ issued \in Seq([sub : Subs, end : OrNull(Nat)])
    /\ calls \subseteq [sub : Subs, secrets : SUBSET Nat, newest : Nat, at : Nat]
    /\ reader # NULL => /\ reader.steady \subseteq Subs
                        /\ reader.times \in [Subs -> Nat]

\* Whichever of its secrets a receiver verifies with, a request under way carries
\* a signature with it, unless the operator was told that this secret stops to
\* sign no later than the request was signed; or unless the receiver changed over,
\* while the request was under way, to a secret the request is too old to know.
SignaturesAccepted ==
    \A c \in calls, k \in DOMAIN issued :
        issued[k].sub = c.sub =>
            \/ k \in c.secrets
            \/ issued[k].end # NULL /\ issued[k].end <= c.at
            \/ c.newest < k

\* A client that reads page after page sees exactly once each subscription
\* that is there all the time and not changed, whatever is created, removed,
\* renamed or paused between two pages.
PagesComplete ==
    reader # NULL =>
        \A s \in reader.steady :
            reader.times[s] = IF \/ reader.cursor = NULL
                                 \/ subs[s].name <= reader.cursor THEN 1 ELSE 0
=============================================================================
