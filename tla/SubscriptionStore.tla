------------------------- MODULE SubscriptionStore -------------------------
(***************************************************************************)
(* The columns of a subscription that decide whether and how its           *)
(* deliveries run, and the two statements that rewrite them: the whole-row *)
(* UPDATE behind PATCH and rotate-secret, and the outcome UPDATE of the    *)
(* worker.  Both write values computed from a row read by an earlier       *)
(* statement, so both take that earlier row as a parameter.                *)
(*                                                                         *)
(* Ids are random and never reused: an id is "unborn" until it is created  *)
(* and "deleted" for ever after it is removed.                             *)
(*                                                                         *)
(* Fault_ operators are described in DeliveryStore.                        *)
(***************************************************************************)
EXTENDS Naturals

CONSTANTS
    NULL,           \* an omitted field of a PATCH body
    DisableAfter    \* DISABLE_AFTER_FAILURES

Present == {"active", "paused", "disabled"}
SubStatus == Present \cup {"unborn", "deleted"}
SubRow == [status : SubStatus, failures : Nat, ordered : BOOLEAN]

PatchField == BOOLEAN \cup {NULL}
PatchBody == [enabled : PatchField, ordered : PatchField]

\* A PATCH of other fields, and rotate-secret: every column modelled here is
\* written back as it was read.
NoChange == [enabled |-> NULL, ordered |-> NULL]

(***************************************************************************)
(* SubscriptionService.update: the row the UPDATE statement writes, given  *)
(* the row that was read.                                                  *)
(***************************************************************************)
\* Stores an omitted field.
Fault_OmittedOrder(read, patch) ==
    [status |-> IF patch.enabled = TRUE THEN "active"
                ELSE IF patch.enabled = FALSE THEN "paused" ELSE read.status,
     failures |-> IF patch.enabled = TRUE THEN 0 ELSE read.failures,
     ordered |-> patch.ordered]

\* Resumes without resetting the failure counter.
Fault_KeepsFailures(read, patch) ==
    [read EXCEPT !.status = IF patch.enabled = TRUE THEN "active"
                            ELSE IF patch.enabled = FALSE THEN "paused"
                            ELSE read.status]

\* Takes an omitted enabled for enabled: true.
Fault_ResumesByDefault(read, patch) ==
    [read EXCEPT !.status = IF patch.enabled = FALSE THEN "paused" ELSE "active",
                 !.failures = IF read.status = "active" THEN read.failures ELSE 0]

Updated(read, patch) ==
    LET resumed == patch.enabled = TRUE /\ read.status # "active"
    IN  [status   |-> IF resumed THEN "active"
                      ELSE IF patch.enabled = FALSE THEN "paused"
                      ELSE read.status,
         failures |-> IF resumed THEN 0 ELSE read.failures,
         ordered  |-> IF patch.ordered = NULL THEN read.ordered
                      ELSE patch.ordered]

(***************************************************************************)
(* Worker#applyOutcome: what recordOutcome leaves in the row the table     *)
(* holds now, given the row that was read and the outcome to record.       *)
(***************************************************************************)
\* Counts only the failures of an active subscription.
Fault_CountsActiveOnly(row, read, outcome) ==
    LET failures == IF outcome = "succeeded" THEN 0
                    ELSE IF read.status = "active" THEN read.failures + 1
                    ELSE read.failures
        disable == outcome = "failed" /\ failures >= DisableAfter
    IN  [row EXCEPT !.failures = failures,
                    !.status = IF disable THEN "disabled" ELSE read.status]

\* Writes the status only when it disables the subscription.
Fault_KeepsStatus(row, read, outcome) ==
    LET failures == IF outcome = "succeeded" THEN 0 ELSE read.failures + 1
        disable == /\ outcome = "failed"
                   /\ read.status = "active"
                   /\ failures >= DisableAfter
    IN  [row EXCEPT !.failures = failures,
                    !.status = IF disable THEN "disabled" ELSE row.status]

Recorded(row, read, outcome) ==
    LET failures == IF outcome = "succeeded" THEN 0 ELSE read.failures + 1
        disable == /\ outcome = "failed"
                   /\ read.status = "active"
                   /\ failures >= DisableAfter
    IN  [row EXCEPT !.failures = failures,
                    !.status = IF disable THEN "disabled" ELSE read.status]
=============================================================================
