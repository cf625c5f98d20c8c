-------------------------- MODULE AbstractDelivery --------------------------
(***************************************************************************)
(* What webhook-out promises about deliveries to whoever reads them over   *)
(* the API: no processes, leases, tokens, due times or clocks.  A delivery *)
(* is attempted at most max times, each attempt is recorded before the     *)
(* next begins, only a waiting delivery is cancelled, what is settled      *)
(* stays settled, and nothing is forgotten before it is settled unless its *)
(* subscription is removed.                                                *)
(*                                                                         *)
(* One step may move several deliveries: a claim begins several attempts,  *)
(* a sweep concludes several.                                              *)
(***************************************************************************)
EXTENDS Naturals

CONSTANT Subs

VARIABLES
    table,     \* the deliveries that can be read, by id
    issued,    \* the ids handed out are at most this
    removed    \* the subscriptions that were removed

promised == <<table, issued, removed>>

Waiting == {"pending", "retrying"}
Settled == {"succeeded", "failed", "cancelled"}

New ==
    [sub : Subs, status : {"pending"}, attempt : {0}, max : Nat \ {0},
     recorded : {0}]

Begins(old, new) ==
    /\ old.status \in Waiting /\ old.attempt < old.max
    /\ new = [old EXCEPT !.status = "running", !.attempt = @ + 1]

Concludes(old, new) ==
    /\ old.status = "running" /\ old.recorded = old.attempt - 1
    /\ \E status \in {"succeeded", "failed", "retrying"} :
          /\ status = "retrying" => old.attempt < old.max
          /\ new = [old EXCEPT !.status = status, !.recorded = old.attempt]

Cancels(old, new) ==
    old.status \in Waiting /\ new = [old EXCEPT !.status = "cancelled"]

Moves(old, new) ==
    new = old \/ Begins(old, new) \/ Concludes(old, new) \/ Cancels(old, new)

Init == table = << >> /\ issued = 0 /\ removed = {}

\* New deliveries have ids never handed out before.
Issue ==
    /\ issued <= issued'
    /\ \A d \in DOMAIN table' \ DOMAIN table :
          issued < d /\ d <= issued' /\ table'[d] \in New

Advance == \A d \in DOMAIN table \cap DOMAIN table' : Moves(table[d], table'[d])

Forget ==
    /\ removed \subseteq removed'
    /\ \A d \in DOMAIN table \ DOMAIN table' :
          table[d].status \in Settled \/ table[d].sub \in removed'

Next == Issue /\ Advance /\ Forget

Spec == Init /\ [][Next]_promised
=============================================================================
