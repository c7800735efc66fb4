--------------------------- MODULE SessionCookies ---------------------------
(***************************************************************************)
(* Sessions with what the cookie functions do with the jar they find.      *)
(* That holds of the operators alone; as an invariant it says something of *)
(* the initial state only and is evaluated once.                           *)
(***************************************************************************)
EXTENDS Sessions, CookieJar

\* Before anything was called.
Start == clients = {} /\ \A r \in Requests : phase[r] = "idle"

\* A saved jar comes back as it was, and a batch of cookies is restored as a
\* whole or not at all: see CookieJar.
StartCookies == Start => RestoreIsExact /\ BatchIsAtomic
==============================================================================
