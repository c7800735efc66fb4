------------------------------ MODULE MCRequest ------------------------------
(* Two concurrent requests: one observed with no timeout, one timed.       *)
EXTENDS Request

CONSTANTS r1, r2

MCRequests == {r1, r2}
MCObserved == {r1}
MCTimed == {r2}
=============================================================================
