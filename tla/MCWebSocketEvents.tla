-------------------------- MODULE MCWebSocketEvents --------------------------
(* Two listeners on two types of event, one signal.                         *)
EXTENDS WebSocketEvents, TLC
CONSTANTS f1, f2, s1
MCListeners == {f1, f2}
MCSignals == {s1}
MCListened == {"message", "error"}
==============================================================================
