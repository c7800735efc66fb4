--------------------------- MODULE SessionContract ---------------------------
(***************************************************************************)
(* What the user of sessions may rely on: every session has a cookie jar   *)
(* of its own, into which only its own requests store; it is the same one, *)
(* emptied only by clearing, until the session is closed or is idle for so *)
(* long that the jar expires, and only then may another one take its       *)
(* place.  A cookie is named by the session and the request that brought   *)
(* it.                                                                     *)
(***************************************************************************)
CONSTANTS Sessions, Requests, Jars, None

VARIABLES
    state,     \* state[s]: "none", "open" or "closed"
    jar,       \* jar[s]: the jar that requests of s find
    cookies,   \* cookies[s]: what they send from it
    expired    \* sessions that were idle for too long at least once

cvars == <<state, jar, cookies, expired>>

Init ==
    /\ state = [s \in Sessions |-> "none"]
    /\ jar = [s \in Sessions |-> None]
    /\ cookies = [s \in Sessions |-> {}]
    /\ expired = {}

\* An empty jar that is nobody else's.
NewJar(s) ==
    /\ \E j \in Jars :
          /\ \A t \in Sessions : jar[t] # j
          /\ jar' = [jar EXCEPT ![s] = j]
    /\ cookies' = [cookies EXCEPT ![s] = {}]

NoJar(s) ==
    /\ jar' = [jar EXCEPT ![s] = None]
    /\ cookies' = [cookies EXCEPT ![s] = {}]

Create(s) ==
    /\ state[s] = "none"
    /\ state' = [state EXCEPT ![s] = "open"]
    /\ NewJar(s)
    /\ UNCHANGED expired

Store(s) ==
    /\ state[s] = "open" /\ jar[s] # None
    /\ \E r \in Requests : cookies' = [cookies EXCEPT ![s] = @ \cup {<<s, r>>}]
    /\ UNCHANGED <<state, jar, expired>>

Clear(s) ==
    /\ state[s] = "open" /\ jar[s] # None
    /\ cookies' = [cookies EXCEPT ![s] = {}]
    /\ UNCHANGED <<state, jar, expired>>

Close(s) ==
    /\ state[s] = "open"
    /\ state' = [state EXCEPT ![s] = "closed"]
    /\ NoJar(s)
    /\ UNCHANGED expired

Expire(s) ==
    /\ NoJar(s)
    /\ expired' = expired \cup {s}
    /\ UNCHANGED state

\* Requests that find no jar at the same time each start a new one.
Replace(s) ==
    /\ state[s] = "open" /\ s \in expired
    /\ NewJar(s)
    /\ UNCHANGED <<state, expired>>

Next == \E s \in Sessions :
    Create(s) \/ Store(s) \/ Clear(s) \/ Close(s) \/ Expire(s) \/ Replace(s)

Spec == Init /\ [][Next]_cvars
=============================================================================
