------------------------ MODULE MCSubscriptionAdmin ------------------------
(***************************************************************************)
(* Initial states for model checking SubscriptionAdmin: subscription s1    *)
(* alone, from the beginning of time; or up to three subscriptions, when   *)
(* the clock has stopped and every secret but perhaps one is generated.    *)
(***************************************************************************)
EXTENDS SubscriptionAdmin

CONSTANTS s1, s2, s3

\* The subscriptions of owners exist, in the order they were created.
Start(owners, names, time) ==
    LET owner(s) == {k \in DOMAIN owners : owners[k] = s}
    IN  /\ now = time
        /\ issued = [k \in DOMAIN owners |-> Secret(owners[k])]
        /\ subs = [s \in Subs |->
              IF owner(s) = {} THEN NoRow("unborn")
              ELSE NewRow(names[s], "active", CHOOSE k \in owner(s) : TRUE)]
        /\ calls = {} /\ reader = NULL

OneLong == Start(<<s1>>, [s \in Subs |-> 1], 0)

Several ==
    \E names \in [Subs -> Names], owners \in {<<s2, s3>>, <<s1, s2, s3>>} :
        /\ \A s, t \in Subs : names[s] = names[t] => s = t
        /\ Start(owners, names, MaxNow)

\* The life of s1 alone has calls and ends before MaxNow, the listings have readers.
Apart ==
    IF now = MaxNow THEN calls' = {}
    ELSE /\ now' < MaxNow /\ reader' = NULL
         /\ \A s \in Subs \ {s1} : subs'[s] = subs[s]
         /\ subs'[s1].name \in {NULL, subs[s1].name}

MCSpec == (OneLong \/ Several) /\ [][Next /\ Apart]_vars
=============================================================================
