---------------------------- MODULE MCLifecycle ----------------------------
(***************************************************************************)
(* Lifecycle for model checking.  Processes meet only in the presence rows *)
(* and in the leases of those that died with a call: p1 does everything,   *)
(* p2 starts, passes and crashes.                                          *)
(***************************************************************************)
EXTENDS Lifecycle

CONSTANTS p1, p2

MCSpec ==
    Init /\ [][Next /\ call'[p2] = NULL /\ phase'[p2] \in {"up", "down"}]_vars
=============================================================================
