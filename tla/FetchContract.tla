---------------------------- MODULE FetchContract ----------------------------
(***************************************************************************)
(* What a caller of fetch may rely on, with no native side in sight: each  *)
(* call has one outcome, it never changes once the promise is settled, and *)
(* the onRequestEvent callback sees a legal story that is complete when    *)
(* the promise settles.  After an abort the story may still go on to its   *)
(* end, because the native task learns of the abort later.                 *)
(***************************************************************************)
EXTENDS Naturals, Sequences

CONSTANTS Requests, Observed

VARIABLES outcome, log

cvars == <<outcome, log>>

\* The events that may come next, given the last one ("" when there is none).
Follows(event) ==
    CASE event = ""                 -> {"request_start", "error"}
      [] event = "request_start"    -> {"request_sent", "error"}
      [] event = "request_sent"     -> {"response_headers", "error"}
      [] event = "response_headers" -> {"body_progress", "body_complete", "done", "error"}
      [] event = "body_progress"    -> {"body_progress", "body_complete", "error"}
      [] event = "body_complete"    -> {"done"}
      [] OTHER                      -> {}

LastEvent(r) == IF log[r] = <<>> THEN "" ELSE log[r][Len(log[r])]

Init ==
    /\ outcome = [r \in Requests |-> "idle"]
    /\ log = [r \in Requests |-> <<>>]

Start(r) ==
    /\ outcome[r] = "idle"
    /\ \E o \in {"pending", "aborted", "threw"} : outcome' = [outcome EXCEPT ![r] = o]
    /\ UNCHANGED log

\* No event after a native settlement, and none that breaks the order.
Notify(r) ==
    /\ r \in Observed
    /\ outcome[r] \in {"pending", "aborted"}
    /\ \E e \in Follows(LastEvent(r)) : log' = [log EXCEPT ![r] = Append(@, e)]
    /\ UNCHANGED outcome

Resolve(r) ==
    /\ outcome[r] = "pending"
    /\ r \in Observed => LastEvent(r) \in {"response_headers", "done"}
    /\ outcome' = [outcome EXCEPT ![r] = "resolved"]
    /\ UNCHANGED log

Fail(r) ==
    /\ outcome[r] = "pending"
    /\ r \in Observed => LastEvent(r) = "error"
    /\ outcome' = [outcome EXCEPT ![r] = "failed"]
    /\ UNCHANGED log

Abort(r) ==
    /\ outcome[r] = "pending"
    /\ outcome' = [outcome EXCEPT ![r] = "aborted"]
    /\ UNCHANGED log

Next == \E r \in Requests :
    Start(r) \/ Notify(r) \/ Resolve(r) \/ Fail(r) \/ Abort(r)

Spec == Init /\ [][Next]_cvars
=============================================================================
