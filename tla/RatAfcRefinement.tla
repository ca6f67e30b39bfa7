-------------------------- MODULE RatAfcRefinement --------------------------
(***************************************************************************)
(* Does the controller implement the status machine of ConsoleStatus?  The *)
(* refinement mapping reads the abstract status off this.state.status      *)
(* (undefined before any request is the spec's idle, "Info" its pending),  *)
(* takes as the page's outstanding calls the in-flight calls started by    *)
(* the mounted instance, and as shown whether an instance is mounted.      *)
(* Composed with the gateway as the code has it, it does not: see the      *)
(* status_refinement run.                                                  *)
(***************************************************************************)
EXTENDS RatAfc

\* the spec's name of each status string the code stores
StatusNames == [Info |-> "pending", Success |-> "success", Error |-> "error"]

ViewStatus == IF st.status = Undefined THEN "idle" ELSE StatusNames[st.status]

\* the calls whose completion the current instance will still apply
PageCalls == {c \in inflight : c.mount = mounts}

Status == INSTANCE ConsoleStatus
              WITH Tokens <- Call, status <- ViewStatus,
                   calls <- PageCalls, shown <- mounted

(***************************************************************************)
(* Every behaviour of the controller is one of the spec's status machine:  *)
(* a status changes only by a submission that starts a call, by the        *)
(* completion of a call this page started (to success or error), or by a   *)
(* remount restoring the saved status; completions are never more than     *)
(* submissions, and a late completion of an unmounted page changes nothing.*)
(***************************************************************************)
StatusRefinement == Status!Spec
=============================================================================
