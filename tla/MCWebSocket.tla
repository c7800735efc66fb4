----------------------------- MODULE MCWebSocket -----------------------------
(* WebSocket with a queue of one slot and one permit.                      *)
EXTENDS WebSocket
=============================================================================
