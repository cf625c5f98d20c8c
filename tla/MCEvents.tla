------------------------------ MODULE MCEvents ------------------------------
(***************************************************************************)
(* Constants and initial states for model checking Events.                 *)
(***************************************************************************)
EXTENDS Events

CONSTANTS s1, s2, a, b, k

Order == <<"order", "paid">>
User == <<"user">>
Published == {Order}

Everything == [segments |-> << >>, wild |-> TRUE]
OrderEvents == [segments |-> <<"order">>, wild |-> TRUE]
TwoPatterns ==
    [s \in Subs |-> IF s = s1 THEN {Everything}
                    ELSE {OrderEvents, [segments |-> User \o User, wild |-> FALSE]}]

\* Two publishers, one of which sends an idempotency key of the other.
TwoPublishers == {<<a, NULL>>, <<a, k>>, <<b, k>>}

(***************************************************************************)
(* The database has been in use: its table is empty again, or it holds     *)
(* four events, the third of them perhaps a test.                          *)
(***************************************************************************)
Stored(times, only) ==
    [e \in 1..4 |->
        [at |-> times[e], source |-> a, key |-> NULL,
         type |-> IF e = 3 /\ only # NULL THEN TestType
                  ELSE IF e = 2 THEN User ELSE Order,
         only |-> IF e = 3 THEN only ELSE NULL]]

InitFull ==
    /\ now = MaxNow + 1
    /\ \E times \in [1..4 -> 0..now], only \in {NULL, s1} :
          /\ \A i, j \in 1..4 : i < j => times[i] <= times[j]
          /\ \A t \in 0..now :
                Cardinality({e \in 1..4 : times[e] = t}) <= MaxPerMs
          /\ events = Stored(times, only)
    /\ lastSeq = 4
    /\ reached = [e \in 1..4 |-> One({events[e].only} \cap Subs)]
    /\ answers = {} /\ replay = NULL /\ reader = NULL

InitEmpty ==
    /\ now = 0
    /\ events = << >> /\ reached = << >> /\ lastSeq = 1
    /\ answers = {} /\ replay = NULL /\ reader = NULL

(***************************************************************************)
(* A replay changes nothing a listing shows, so a client that reads a      *)
(* listing is done with it before a replay begins.                         *)
(***************************************************************************)
Apart == reader' = NULL \/ replay' = NULL

MCSpec ==
    /\ InitEmpty \/ InitFull
    /\ [][Next /\ Apart]_vars
    /\ WF_vars(ReplayBatch) /\ WF_vars(ReplayCommit)
=============================================================================
