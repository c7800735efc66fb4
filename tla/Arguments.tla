------------------------------ MODULE Arguments ------------------------------
(***************************************************************************)
(* Calls of fetch() and WebSockets take their arguments through the same   *)
(* conversions: headers, profiles, emulations.  What these promise whoever *)
(* uses them holds of the operators alone, and is an invariant here that   *)
(* says something of the initial state only: it is evaluated once.         *)
(***************************************************************************)
EXTENDS FetchCall, WebSocketOptions

Start == /\ edits = 0 /\ sessionOpen /\ transportOpen
         /\ \A c \in Calls : pc[c] = "idle"

\* Headers and header lists do what their references in Headers say: the class
\* is a map, lists survive a way through it, a merge prefers the caller, and
\* lists that are called equal are.
StartHeaders == Start => IsMap /\ RoundTrip /\ MergePrefersCaller /\ EqualMeansSame

\* What JavaScript lets through has one meaning, whichever way it comes in, and
\* the native side has that meaning too: see Emulation and WebSocketOptions.
StartOptions == Start => OptionsAgree
==============================================================================
