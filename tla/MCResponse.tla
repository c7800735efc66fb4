----------------------------- MODULE MCResponse -----------------------------
(* A body of three chunks, an original and one clone.                      *)
EXTENDS ResponseObject
=============================================================================
