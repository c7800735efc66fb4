-------------------------------- MODULE MCBody --------------------------------
(* One request and its body.  The native maps are keyed by handle and the   *)
(* requests share nothing else, so one body meets every interleaving of the *)
(* reads, the collector, the expiry and the abort that a body can meet.     *)
EXTENDS Body

CONSTANT r1

MCRequests == {r1}
MCNone == {}
=============================================================================
