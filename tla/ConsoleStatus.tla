---------------------------- MODULE ConsoleStatus ----------------------------
(***************************************************************************)
(* What the Console Controller promises about its request status (spec     *)
(* section 4.4 and the concurrency model of section 5), with no view data: *)
(*                                                                         *)
(*   idle -> pending -> success | error, and back to pending on every      *)
(*   resubmission; calls overlap and the last completion wins; a call that *)
(*   completes after the page was torn down has no effect; the page is     *)
(*   rehydrated from its saved status, a fresh page whose configuration    *)
(*   failed to load starting in error.                                     *)
(*                                                                         *)
(* calls is the set of calls of the page on screen that have not completed *)
(* (each one a token from Tokens); shown is whether the page is mounted.   *)
(***************************************************************************)
CONSTANT Tokens   \* names of calls

VARIABLES status, calls, shown

vars == <<status, calls, shown>>

Statuses == {"idle", "pending", "success", "error"}

\* a first render: no request yet, or the configuration error
Init ==
    /\ status \in {"idle", "error"}
    /\ calls = {}
    /\ shown = TRUE

\* a submission re-enters pending and starts one more call
Submit ==
    /\ shown
    /\ \E t \in Tokens \ calls : calls' = calls \cup {t}
    /\ status' = "pending"
    /\ UNCHANGED shown

\* one outstanding call completes and its outcome becomes the status
Complete ==
    /\ shown
    /\ \E t \in calls : calls' = calls \ {t}
    /\ status' \in {"success", "error"}
    /\ UNCHANGED shown

\* teardown: the status is saved as it is
Teardown ==
    /\ shown
    /\ shown' = FALSE
    /\ UNCHANGED <<status, calls>>

\* a call completing on the torn-down page is dropped
Drop ==
    /\ ~shown
    /\ \E t \in calls : calls' = calls \ {t}
    /\ UNCHANGED <<status, shown>>

\* a new page restores the saved status; a page that had none may start in error
Restore ==
    /\ ~shown
    /\ shown' = TRUE
    /\ calls' = {}
    /\ \/ status' = status
       \/ status = "idle" /\ status' = "error"

Next == Submit \/ Complete \/ Teardown \/ Drop \/ Restore

Spec == Init /\ [][Next]_vars

TypeOK ==
    /\ status \in Statuses
    /\ calls \subseteq Tokens
    /\ shown \in BOOLEAN
=============================================================================
