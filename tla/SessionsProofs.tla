---------------------------- MODULE SessionsProofs ----------------------------
(***************************************************************************)
(* Sessions for any number of sessions, ids and requests.  The transports  *)
(* follow their owners whatever the ids are; that a closed session's jar   *)
(* comes back only by a late request needs ids that are not used twice.    *)
(* And what becomes of the cookies that a session saves and restores.      *)
(***************************************************************************)
EXTENDS SessionCookies, Lists

\* Ids are random UUIDs unless the program chooses them.
DistinctIds == \A s, t \in Sessions : IdOf[s] = IdOf[t] => s = t

\* What a request must be to bring the jar of a closed session back.
Late(r) == r \in explicit \/ via[r] = "id" \/ r \in overtaken

\* A request that has been called has a session, unless it is ephemeral; a
\* cookie function starts at its second lookup and an ephemeral request never
\* looks for a jar.
Targets ==
    \A r \in Requests :
        /\ phase[r] # "idle" /\ via[r] # "ephemeral" => target[r] \in Sessions
        /\ phase[r] \in {"called", "resolved", "dispatched"} => via[r] # "cookies"
        /\ phase[r] = "missed" => via[r] # "ephemeral"

\* Between its two lookups a request of a closed session is a late one.
LateLookups ==
    \A r \in Requests :
        /\ phase[r] \in {"client", "missed"}
        /\ via[r] # "ephemeral"
        /\ session[target[r]] = "closed"
        => Late(r)

\* The jar an id has in SESSION_MANAGER is that of a living session, or that
\* of a request, which is late if its session is closed.
JarOfSession(i) ==
    jars[i] \in Sessions =>
        /\ IdOf[jars[i]] = i
        /\ session[jars[i]] \in {"open", "dropped"}

JarOfRequest(i) ==
    jars[i] \in Requests =>
        /\ phase[jars[i]] \in {"sending", "done"}
        /\ target[jars[i]] \in Sessions
        /\ IdOf[target[jars[i]]] = i
        /\ session[target[jars[i]]] = "closed" => Late(jars[i])

JarsOwned == \A i \in Ids : JarOfSession(i) /\ JarOfRequest(i)

SInv == TypeOK /\ TransportScope /\ Targets /\ LateLookups /\ JarsOwned

-----------------------------------------------------------------------------
(* Types.                                                                  *)

LEMMA InitTypes == Init => TypeOK
BY SessionAssumption DEF Init, TypeOK, SessionState, Phase, Via, Jars, Cookies

LEMMA StepTypes == TypeOK /\ Targets /\ [Next]_vars => TypeOK'
<1> SUFFICES ASSUME TypeOK, Targets, [Next]_vars PROVE TypeOK'
  OBVIOUS
<1> USE SessionAssumption DEF TypeOK, SessionState, Phase, Via, Jars, requestVars
<1>1. CASE UNCHANGED vars
  BY <1>1 DEF vars
<1>2. ASSUME NEW s \in Sessions, SessionStep(s) PROVE TypeOK'
  <2>1. CASE CreateSession(s)
    BY <2>1 DEF CreateSession
  <2>2. CASE CloseSession(s)
    BY <2>2 DEF CloseSession
  <2>3. CASE DropSession(s)
    BY <2>3 DEF DropSession
  <2>4. CASE ClearCookies(s)
    BY <2>4 DEF ClearCookies
  <2> QED
    BY <1>2, <2>1, <2>2, <2>3, <2>4 DEF SessionStep
<1>3. CASE CreateTransport
  BY <1>3 DEF CreateTransport
<1>4. CASE CloseTransport
  BY <1>4 DEF CloseTransport
<1>5. ASSUME NEW r \in Requests, ScriptStep(r) PROVE TypeOK'
  <2>1. CASE CallFetch(r)
    <3>1. explicit' \subseteq Requests
      BY <2>1 DEF CallFetch
    <3>2. ASSUME NEW s \in Sessions \cup {None}, NEW how \in Via, Called(r, s, how, "called")
          PROVE  TypeOK'
      BY <3>1, <3>2 DEF Called
    <3> QED
      BY <2>1, <3>2 DEF CallFetch
  <2>2. ASSUME NEW s \in Sessions, CallWebSocket(r, s) PROVE TypeOK'
    BY <2>2 DEF CallWebSocket, Called
  <2>3. ASSUME NEW s \in Sessions, CallCookies(r, s) PROVE TypeOK'
    BY <2>3 DEF CallCookies, Called
  <2>4. CASE Cancel(r)
    BY <2>4 DEF Cancel, Advance
  <2> QED
    BY <1>5, <2>1, <2>2, <2>3, <2>4 DEF ScriptStep
<1>6. ASSUME NEW r \in Requests, TaskStep(r) PROVE TypeOK'
  <2>1. CASE ResolveSession(r)
    BY <2>1 DEF ResolveSession, Advance
  <2>2. CASE Dispatch(r)
    BY <2>2 DEF Dispatch, Advance
  <2>3. CASE GetTransport(r)
    BY <2>3 DEF GetTransport, Advance
  <2>4. CASE FindJar(r)
    <3>1. target[r] \in Sessions
      BY <2>4 DEF FindJar, Advance, Targets
    <3> QED
      BY <2>4, <3>1 DEF FindJar, Advance
  <2>5. CASE MissJar(r)
    BY <2>5 DEF MissJar, Advance
  <2>6. CASE InsertJar(r)
    <3>1. target[r] \in Sessions
      BY <2>6 DEF InsertJar, Advance, Targets
    <3> QED
      BY <2>6, <3>1 DEF InsertJar, Advance
  <2>7. CASE PrivateJar(r)
    BY <2>7 DEF PrivateJar, Advance
  <2>8. CASE Receive(r)
    <3>1. <<target[r], r>> \in Cookies
      BY DEF Cookies
    <3>2. content' \in [Jars -> SUBSET Cookies]
      BY <2>8, <3>1 DEF Receive
    <3> QED
      BY <2>8, <3>2 DEF Receive, Advance
  <2> QED
    BY <1>6, <2>1, <2>2, <2>3, <2>4, <2>5, <2>6, <2>7, <2>8 DEF TaskStep
<1>7. ASSUME NEW i \in Ids, ExpireJar(i) PROVE TypeOK'
  BY <1>7 DEF ExpireJar
<1> QED
  BY <1>1, <1>2, <1>3, <1>4, <1>5, <1>6, <1>7 DEF Next

-----------------------------------------------------------------------------
(* The transports.                                                         *)

LEMMA StepTransports == TypeOK /\ TransportScope /\ [Next]_vars => TransportScope'
<1> SUFFICES ASSUME TypeOK, TransportScope, [Next]_vars PROVE TransportScope'
  OBVIOUS
<1> USE SessionAssumption DEF TypeOK, TransportScope, SessionState
<1>0. ASSUME UNCHANGED <<session, transport, clients>> PROVE TransportScope'
  BY <1>0
<1>1. CASE UNCHANGED vars
  BY <1>0, <1>1 DEF vars
<1>2. ASSUME NEW s \in Sessions, SessionStep(s) PROVE TransportScope'
  <2>1. CASE CreateSession(s)
    BY <2>1 DEF CreateSession
  <2>2. CASE CloseSession(s)
    BY <2>2 DEF CloseSession
  <2>3. CASE DropSession(s)
    BY <2>3 DEF DropSession
  <2>4. CASE ClearCookies(s)
    BY <1>0, <2>4 DEF ClearCookies
  <2> QED
    BY <1>2, <2>1, <2>2, <2>3, <2>4 DEF SessionStep
<1>3. CASE CreateTransport
  BY <1>3 DEF CreateTransport
<1>4. CASE CloseTransport
  BY <1>4 DEF CloseTransport
<1>5. ASSUME NEW r \in Requests, ScriptStep(r) \/ TaskStep(r) PROVE TransportScope'
  BY <1>0, <1>5 DEF ScriptStep, TaskStep, CallFetch, CallWebSocket, CallCookies,
     Called, Cancel, ResolveSession, Dispatch, GetTransport, FindJar, MissJar,
     InsertJar, PrivateJar, Receive
<1>6. ASSUME NEW i \in Ids, ExpireJar(i) PROVE TransportScope'
  BY <1>0, <1>6 DEF ExpireJar
<1> QED
  BY <1>1, <1>2, <1>3, <1>4, <1>5, <1>6 DEF Next

-----------------------------------------------------------------------------
(* The owners of jars.                                                     *)

\* Once it has been called, a request keeps its session and its way of being
\* called, and does not become less late.
LEMMA StepTargets ==
    ASSUME TypeOK, Targets, [Next]_vars
    PROVE  /\ Targets'
           /\ \A r \in Requests : phase[r] # "idle" =>
                 /\ phase'[r] # "idle" /\ target'[r] = target[r] /\ via'[r] = via[r]
                 /\ Late(r) => Late(r)'
<1> DEFINE Kept == \A r \in Requests : phase[r] # "idle" =>
                 /\ phase'[r] # "idle" /\ target'[r] = target[r] /\ via'[r] = via[r]
                 /\ Late(r) => Late(r)'
<1> USE SessionAssumption DEF TypeOK, Phase, Via, requestVars
<1>0. ASSUME UNCHANGED requestVars, overtaken \subseteq overtaken'
      PROVE  Targets' /\ Kept
  BY <1>0 DEF Targets, Late
<1>1. CASE UNCHANGED vars
  BY <1>0, <1>1 DEF vars
<1>2. ASSUME NEW s \in Sessions, SessionStep(s) PROVE Targets' /\ Kept
  BY <1>0, <1>2 DEF SessionStep, CreateSession, CloseSession, DropSession, ClearCookies
<1>3. CASE CreateTransport \/ CloseTransport
  BY <1>0, <1>3 DEF CreateTransport, CloseTransport
<1>4. ASSUME NEW i \in Ids, ExpireJar(i) PROVE Targets' /\ Kept
  BY <1>0, <1>4 DEF ExpireJar
<1>5. ASSUME NEW r \in Requests, ScriptStep(r) PROVE Targets' /\ Kept
  <2>1. ASSUME NEW s \in Sessions \cup {None}, NEW how \in Via, NEW to \in Phase,
               Called(r, s, how, to), explicit \subseteq explicit',
               how # "ephemeral" => s \in Sessions,
               to \in {"called", "dispatched", "client"}, how = "cookies" => to = "client"
        PROVE  Targets' /\ Kept
    <3>1. Targets'
      BY <2>1 DEF Called, Targets
    <3>2. Kept
      BY <2>1 DEF Called, Late
    <3> QED
      BY <3>1, <3>2
  <2>2. CASE CallFetch(r)
    BY <2>1, <2>2 DEF CallFetch
  <2>3. ASSUME NEW s \in Sessions, CallWebSocket(r, s) \/ CallCookies(r, s)
        PROVE  Targets' /\ Kept
    BY <2>1, <2>3 DEF CallWebSocket, CallCookies
  <2>4. CASE Cancel(r)
    <3>1. Targets'
      BY <2>4 DEF Cancel, Advance, Targets
    <3>2. Kept
      BY <2>4 DEF Cancel, Advance, Late
    <3> QED
      BY <3>1, <3>2
  <2> QED
    BY <1>5, <2>2, <2>3, <2>4 DEF ScriptStep
<1>6. ASSUME NEW r \in Requests, TaskStep(r) PROVE Targets' /\ Kept
  <2>1. PICK from \in Phase \ {"idle"}, to \in Phase \ {"idle"} :
            /\ Advance(r, from, to)
            /\ to = "resolved" => from = "called"
            /\ to = "dispatched" => from = "resolved"
            /\ to = "missed" => via[r] # "ephemeral"
            /\ to # "called"
    BY <1>6 DEF TaskStep, ResolveSession, Dispatch, GetTransport, FindJar, MissJar,
       InsertJar, PrivateJar, Receive
  <2>2. UNCHANGED overtaken
    BY <1>6 DEF TaskStep, ResolveSession, Dispatch, GetTransport, FindJar, MissJar,
       InsertJar, PrivateJar, Receive
  <2>3. Targets'
    BY <2>1 DEF Advance, Targets
  <2>4. Kept
    BY <2>1, <2>2 DEF Advance, Late
  <2> QED
    BY <2>3, <2>4
<1> QED
  BY <1>1, <1>2, <1>3, <1>4, <1>5, <1>6 DEF Next

\* A session that is not closed closes only by CloseSession.
LEMMA StepSession ==
    ASSUME TypeOK, [Next]_vars, NEW s \in Sessions
    PROVE  /\ session[s] \in {"open", "dropped"} =>
                 session'[s] \in {"open", "dropped"} \/ CloseSession(s)
           /\ session'[s] = "closed" => session[s] = "closed" \/ CloseSession(s)
<1> USE SessionAssumption DEF TypeOK, SessionState
<1> DEFINE Goal ==
       /\ session[s] \in {"open", "dropped"} =>
             session'[s] \in {"open", "dropped"} \/ CloseSession(s)
       /\ session'[s] = "closed" => session[s] = "closed" \/ CloseSession(s)
<1>0. ASSUME UNCHANGED session PROVE Goal
  BY <1>0
<1>1. CASE UNCHANGED vars
  BY <1>0, <1>1 DEF vars
<1>2. ASSUME NEW t \in Sessions, SessionStep(t) PROVE Goal
  <2>1. CASE CloseSession(t)
    <3>1. t # s => UNCHANGED session[s]
      BY <2>1 DEF CloseSession
    <3> QED
      BY <2>1, <3>1
  <2>2. CASE CreateSession(t) \/ DropSession(t) \/ ClearCookies(t)
    BY <2>2 DEF CreateSession, DropSession, ClearCookies
  <2> QED
    BY <1>2, <2>1, <2>2 DEF SessionStep
<1>3. CASE CreateTransport \/ CloseTransport
  BY <1>0, <1>3 DEF CreateTransport, CloseTransport
<1>4. ASSUME NEW r \in Requests, ScriptStep(r) \/ TaskStep(r) PROVE Goal
  BY <1>0, <1>4 DEF ScriptStep, TaskStep, CallFetch, CallWebSocket, CallCookies,
     Called, Cancel, ResolveSession, Dispatch, GetTransport, FindJar, MissJar,
     InsertJar, PrivateJar, Receive
<1>5. ASSUME NEW i \in Ids, ExpireJar(i) PROVE Goal
  BY <1>0, <1>5 DEF ExpireJar
<1> QED
  BY <1>1, <1>2, <1>3, <1>4, <1>5 DEF Next

\* A request comes to its lookups through its transport, which is gone with
\* its session, or by a call on an open one; close() finds it there.
LEMMA StepLookups ==
    ASSUME TypeOK, TransportScope, Targets, LateLookups, [Next]_vars
    PROVE  LateLookups'
<1> USE SessionAssumption
<1> SUFFICES ASSUME NEW r \in Requests,
                    phase'[r] \in {"client", "missed"},
                    via'[r] # "ephemeral",
                    session'[target'[r]] = "closed"
             PROVE  Late(r)'
  BY DEF LateLookups
<1>1. CASE phase[r] \in {"client", "missed"}
  <2>1. target[r] \in Sessions /\ target'[r] = target[r] /\ via'[r] = via[r]
        /\ (Late(r) => Late(r)')
    BY <1>1, StepTargets DEF Targets
  <2>2. CASE session[target[r]] = "closed"
    BY <1>1, <2>1, <2>2 DEF LateLookups
  <2>3. CASE CloseSession(target[r])
    BY <1>1, <2>1, <2>3 DEF CloseSession, Late
  <2> QED
    BY <2>1, <2>2, <2>3, StepSession
<1>2. CASE phase[r] = "dispatched"
  <2>1. /\ target[r] \in Sessions /\ target'[r] = target[r] /\ via'[r] = via[r]
        /\ (Late(r) => Late(r)') /\ via[r] # "cookies"
    BY <1>2, StepTargets DEF Targets
  <2>2. GetTransport(r)
    BY <1>2 DEF Next, vars, requestVars, SessionStep, ScriptStep, TaskStep,
       CreateSession, CloseSession, DropSession, ClearCookies, CreateTransport,
       CloseTransport, CallFetch, CallWebSocket, CallCookies, Called, Cancel,
       ResolveSession, Dispatch, GetTransport, FindJar, MissJar, InsertJar,
       PrivateJar, Receive, ExpireJar, Advance, TypeOK, Phase
  <2>3. Carrier(r) \subseteq clients /\ session' = session
    BY <1>2, <2>2 DEF GetTransport, Advance, TypeOK, Phase
  <2>4. CASE r \in explicit \/ via[r] = "id"
    BY <2>1, <2>4 DEF Late
  <2>5. CASE r \notin explicit /\ via[r] # "id"
    <3>1. via[r] \in {"session", "websocket"}
      BY <2>1, <2>5 DEF TypeOK, Via
    <3>2. target[r] \in clients
      BY <2>3, <2>5, <3>1 DEF Carrier
    <3>3. session[target[r]] \in {"open", "dropped"}
      BY <2>1, <3>2 DEF TransportScope
    <3> QED
      BY <2>1, <2>3, <3>3
  <2> QED
    BY <2>4, <2>5
<1>3. CASE phase[r] \notin {"client", "missed", "dispatched"}
  <2>1. PICK s \in Sessions : CallCookies(r, s)
    BY <1>3 DEF Next, vars, requestVars, SessionStep, ScriptStep, TaskStep,
       CreateSession, CloseSession, DropSession, ClearCookies, CreateTransport,
       CloseTransport, CallFetch, CallWebSocket, CallCookies, Called, Cancel,
       ResolveSession, Dispatch, GetTransport, FindJar, MissJar, InsertJar,
       PrivateJar, Receive, ExpireJar, Advance, TypeOK, Phase
  <2>2. target'[r] = s /\ session'[s] = "open"
    BY <2>1 DEF CallCookies, Called, TypeOK
  <2> QED
    BY <2>2
<1> QED
  BY <1>1, <1>2, <1>3

\* The jars of the ids a step leaves alone keep their owners.
LEMMA KeptJar ==
    ASSUME TypeOK, Targets, [Next]_vars, NEW i \in Ids,
           JarOfSession(i), JarOfRequest(i), jars'[i] = jars[i],
           \A s \in Sessions : CloseSession(s) => IdOf[s] # i
    PROVE  JarOfSession(i)' /\ JarOfRequest(i)'
<1> USE SessionAssumption DEF JarOfSession, JarOfRequest
<1>1. JarOfSession(i)'
  BY StepSession
<1>2. ASSUME jars[i] \in Requests PROVE JarOfRequest(i)'
  <2> DEFINE r == jars[i]
  <2>1. /\ r \in Requests /\ phase[r] \in {"sending", "done"}
        /\ target[r] \in Sessions /\ IdOf[target[r]] = i
        /\ session[target[r]] = "closed" => Late(r)
    BY <1>2
  <2>2. target'[r] = target[r] /\ (Late(r) => Late(r)')
    BY <2>1, StepTargets
  <2>3. phase'[r] \in {"sending", "done"}
    BY <2>1 DEF Next, vars, requestVars, SessionStep, ScriptStep, TaskStep,
       CreateSession, CloseSession, DropSession, ClearCookies, CreateTransport,
       CloseTransport, CallFetch, CallWebSocket, CallCookies, Called, Cancel,
       ResolveSession, Dispatch, GetTransport, FindJar, MissJar, InsertJar,
       PrivateJar, Receive, ExpireJar, Advance, TypeOK, Phase
  <2>4. session'[target[r]] = "closed" => Late(r)'
    BY <2>1, <2>2, StepSession
  <2> HIDE DEF r
  <2> QED
    BY <2>1, <2>2, <2>3, <2>4 DEF Late, r
<1> QED
  BY <1>1, <1>2

LEMMA StepJars ==
    ASSUME TypeOK, Targets, LateLookups, JarsOwned, [Next]_vars
    PROVE  JarsOwned'
<1> USE SessionAssumption
<1>0. ASSUME NEW i \in Ids, jars'[i] = jars[i],
             \A s \in Sessions : CloseSession(s) => IdOf[s] # i
      PROVE  JarOfSession(i)' /\ JarOfRequest(i)'
  BY <1>0, KeptJar DEF JarsOwned
<1>1. ASSUME NEW i \in Ids, jars'[i] = None
      PROVE  JarOfSession(i)' /\ JarOfRequest(i)'
  BY <1>1 DEF JarOfSession, JarOfRequest
<1>2. ASSUME NEW s \in Sessions, CreateSession(s) PROVE JarsOwned'
  <2>1. JarOfSession(IdOf[s])' /\ JarOfRequest(IdOf[s])'
    BY <1>2 DEF CreateSession, JarOfSession, JarOfRequest, TypeOK
  <2>2. ASSUME NEW i \in Ids, i # IdOf[s] PROVE JarOfSession(i)' /\ JarOfRequest(i)'
    <3>1. jars'[i] = jars[i] /\ \A t \in Sessions : ~CloseSession(t)
      BY <1>2, <2>2 DEF CreateSession, CloseSession, TypeOK, SessionState
    <3> QED
      BY <1>0, <3>1
  <2> QED
    BY <2>1, <2>2 DEF JarsOwned
<1>3. ASSUME NEW s \in Sessions, CloseSession(s) PROVE JarsOwned'
  <2>1. \A t \in Sessions : CloseSession(t) => t = s
    BY <1>3 DEF CloseSession, TypeOK, SessionState
  <2>2. \A i \in Ids : IF i = IdOf[s] THEN jars'[i] = None ELSE jars'[i] = jars[i]
    BY <1>3 DEF CloseSession, TypeOK
  <2> QED
    BY <1>0, <1>1, <2>1, <2>2 DEF JarsOwned
<1>4. ASSUME NEW r \in Requests, InsertJar(r) PROVE JarsOwned'
  <2>1. target[r] \in Sessions /\ target' = target /\ session' = session
        /\ phase'[r] = "sending" /\ (Late(r) => Late(r)')
    BY <1>4 DEF InsertJar, Advance, Targets, TypeOK, Late
  <2>2. session[target[r]] = "closed" => Late(r)
    BY <1>4 DEF InsertJar, Advance, LateLookups, Targets
  <2>3. PICK j \in Ids : j = IdOf[target[r]]
    BY <2>1
  <2>4. JarOfSession(j)' /\ JarOfRequest(j)'
    <3>1. jars'[j] = r
      BY <1>4, <2>3 DEF InsertJar, TypeOK
    <3> QED
      BY <2>1, <2>2, <2>3, <3>1 DEF JarOfSession, JarOfRequest, Late
  <2>5. ASSUME NEW i \in Ids, i # j
        PROVE  JarOfSession(i)' /\ JarOfRequest(i)'
    <3>1. jars'[i] = jars[i] /\ \A t \in Sessions : ~CloseSession(t)
      BY <1>4, <2>1, <2>3, <2>5 DEF InsertJar, CloseSession, TypeOK, SessionState
    <3> QED
      BY <1>0, <3>1
  <2> QED
    BY <2>4, <2>5 DEF JarsOwned
<1>5. ASSUME NEW i \in Ids, ExpireJar(i) PROVE JarsOwned'
  <2>1. \A t \in Sessions : ~CloseSession(t)
    BY <1>5 DEF ExpireJar, CloseSession, TypeOK, SessionState
  <2>2. \A j \in Ids : IF j = i THEN jars'[j] = None ELSE jars'[j] = jars[j]
    BY <1>5 DEF ExpireJar, TypeOK
  <2> QED
    BY <1>0, <1>1, <2>1, <2>2 DEF JarsOwned
<1>6. CASE /\ \A s \in Sessions : ~CreateSession(s) /\ ~CloseSession(s)
           /\ \A r \in Requests : ~InsertJar(r)
           /\ \A i \in Ids : ~ExpireJar(i)
  <2>1. jars' = jars
    BY <1>6 DEF Next, vars, SessionStep, ScriptStep, TaskStep, DropSession,
       ClearCookies, CreateTransport, CloseTransport, CallFetch, CallWebSocket,
       CallCookies, Called, Cancel, ResolveSession, Dispatch, GetTransport, FindJar,
       MissJar, PrivateJar, Receive
  <2> QED
    BY <1>0, <1>6, <2>1 DEF JarsOwned
<1> QED
  BY <1>2, <1>3, <1>4, <1>5, <1>6

-----------------------------------------------------------------------------
(* The theorems.                                                           *)

\* The inductive invariant: transports follow their owners, and every jar of
\* SESSION_MANAGER belongs to a living session or to a request that made it.
THEOREM Invariant == Spec => []SInv
<1>1. Init => SInv
  BY InitTypes, SessionAssumption
     DEF Init, SInv, TransportScope, Targets, LateLookups, JarsOwned, JarOfSession,
         JarOfRequest
<1>2. SInv /\ [Next]_vars => SInv'
  BY StepTypes, StepTransports, StepTargets, StepLookups, StepJars DEF SInv
<1> QED
  BY <1>1, <1>2, PTL DEF Spec

\* Sessions keeps its types.
THEOREM TypeCorrect == Spec => []TypeOK
<1>1. SInv => TypeOK
  BY DEF SInv
<1> QED
  BY <1>1, Invariant, PTL

\* TRANSPORT_MANAGER holds the transports of the objects that are not closed
\* and no others: close() leaves nothing behind, and nothing else removes one.
THEOREM TransportsAreScoped == Spec => []TransportScope
<1>1. SInv => TransportScope
  BY DEF SInv
<1> QED
  BY <1>1, Invariant, PTL

\* If no id is used twice, only a late request brings the jar of a closed
\* session back into SESSION_MANAGER.
THEOREM ClosedJarsAreScoped ==
    ASSUME DistinctIds
    PROVE  Spec => []ClosedJarScope
<1>1. SInv => ClosedJarScope
  <2> SUFFICES ASSUME SInv, NEW s \in Sessions, session[s] = "closed",
                      jars[IdOf[s]] # None
               PROVE  \E r \in Requests :
                          /\ jars[IdOf[s]] = r
                          /\ target[r] = s
                          /\ r \in explicit \/ via[r] = "id" \/ r \in overtaken
    BY DEF ClosedJarScope
  <2>1. IdOf[s] \in Ids /\ jars[IdOf[s]] \in Sessions \cup Requests
    BY SessionAssumption DEF SInv, TypeOK, Jars
  <2>2. jars[IdOf[s]] \notin Sessions
    BY <2>1, DistinctIds DEF DistinctIds, SInv, JarsOwned, JarOfSession
  <2>3. JarOfRequest(IdOf[s])
    BY <2>1 DEF SInv, JarsOwned
  <2> QED
    BY <2>1, <2>2, <2>3, DistinctIds DEF DistinctIds, JarOfRequest, Late
<1> QED
  BY <1>1, Invariant, PTL

-----------------------------------------------------------------------------
(***************************************************************************)
(* Sessions implements SessionContract, for any number of sessions and     *)
(* requests, as long as no two sessions use one id: every session has a    *)
(* jar of its own, which changes only as the contract says.                *)
(*                                                                         *)
(* It rests on whose a jar is.  The jar a task holds belongs to the        *)
(* session the task works for, a jar nobody made yet is empty, and a       *)
(* session that is not closed misses its jar only after the idle expiry.   *)
(***************************************************************************)

\* The session a jar was made for.
Owner(j) == IF j \in Sessions THEN j ELSE target[j]

\* Its session was created, or its request has come to the jar.
Used(j) == IF j \in Sessions THEN session[j] # "none" ELSE phase[j] \in {"sending", "done"}

\* Nobody calls for a session that was never created.
Reached ==
    \A r \in Requests : target[r] \in Sessions => session[target[r]] # "none"

\* A jar starts empty.
StartsEmpty == \A j \in Jars : ~Used(j) => content[j] = {}

\* A task that sends has a jar, and the jar is that of its session.
HoldsOwn ==
    \A r \in Requests :
        /\ phase[r] = "sending" => held[r] # None
        /\ held[r] # None =>
              /\ phase[r] \in {"sending", "done"}
              /\ Owner(held[r]) = target[r] /\ Used(held[r])

\* Only the idle expiry takes the jar of a session that is not closed.
MissedByExpiry ==
    \A s \in Sessions : session[s] \in {"open", "dropped"} =>
        /\ jars[IdOf[s]] = None => IdOf[s] \in expired
        /\ \A r \in Requests :
              phase[r] = "missed" /\ target[r] = s => IdOf[s] \in expired

JInv == SInv /\ Reached /\ StartsEmpty /\ HoldsOwn /\ MissedByExpiry

-----------------------------------------------------------------------------
(* The invariant.                                                          *)

LEMMA StepSInv == SInv /\ [Next]_vars => SInv'
BY StepTypes, StepTransports, StepTargets, StepLookups, StepJars DEF SInv

\* The jar an id has was made for a session with that id.
LEMMA JarOwner ==
    ASSUME SInv, NEW i \in Ids, jars[i] # None
    PROVE  /\ jars[i] \in Jars /\ Used(jars[i])
           /\ Owner(jars[i]) \in Sessions /\ IdOf[Owner(jars[i])] = i
<1> USE SessionAssumption
<1>1. jars[i] \in Jars /\ JarOfSession(i) /\ JarOfRequest(i)
  BY DEF SInv, TypeOK, JarsOwned
<1>2. CASE jars[i] \in Sessions
  BY <1>1, <1>2 DEF JarOfSession, Owner, Used
<1>3. CASE jars[i] \in Requests
  BY <1>1, <1>3 DEF JarOfRequest, Owner, Used
<1> QED
  BY <1>1, <1>2, <1>3 DEF Jars

\* A request does not leave its end, and a session is not uncreated.
LEMMA StepForward ==
    ASSUME TypeOK, [Next]_vars
    PROVE  /\ \A r \in Requests : phase[r] \in {"sending", "done"} =>
                 phase'[r] \in {"sending", "done"} /\ target'[r] = target[r]
           /\ \A s \in Sessions : session[s] # "none" => session'[s] # "none"
<1> USE DEF TypeOK, Phase, SessionState, requestVars
<1>1. CASE UNCHANGED vars
  BY <1>1 DEF vars
<1>2. ASSUME NEW s \in Sessions, SessionStep(s)
      PROVE  UNCHANGED <<phase, target>> /\ \A t \in Sessions : session[t] # "none" => session'[t] # "none"
  BY <1>2 DEF SessionStep, CreateSession, CloseSession, DropSession, ClearCookies
<1>3. CASE CreateTransport \/ CloseTransport \/ \E i \in Ids : ExpireJar(i)
  BY <1>3 DEF CreateTransport, CloseTransport, ExpireJar
<1>4. ASSUME NEW r \in Requests, ScriptStep(r) \/ TaskStep(r)
      PROVE  /\ UNCHANGED session
             /\ \A q \in Requests : phase[q] \in {"sending", "done"} =>
                   phase'[q] \in {"sending", "done"} /\ target'[q] = target[q]
  BY <1>4 DEF ScriptStep, TaskStep, CallFetch, CallWebSocket, CallCookies, Called,
     Cancel, ResolveSession, Dispatch, GetTransport, FindJar, MissJar, InsertJar,
     PrivateJar, Receive, Advance
<1> QED
  BY <1>1, <1>2, <1>3, <1>4 DEF Next

\* A jar that is in use stays so, and keeps its owner.
LEMMA UsedStays ==
    ASSUME TypeOK, [Next]_vars, NEW j \in Jars, Used(j)
    PROVE  Used(j)' /\ Owner(j)' = Owner(j)
BY SessionAssumption, StepForward DEF Used, Owner, Jars

LEMMA StepReached == TypeOK /\ Reached /\ [Next]_vars => Reached'
<1> SUFFICES ASSUME TypeOK, Reached, [Next]_vars, NEW r \in Requests,
                    target'[r] \in Sessions
             PROVE  session'[target'[r]] # "none"
  BY DEF Reached
<1>1. CASE target'[r] = target[r]
  BY <1>1, StepForward DEF Reached
<1>2. CASE target'[r] # target[r]
  <2>1. PICK q \in Requests : CallFetch(q) \/ \E s \in Sessions : CallWebSocket(q, s) \/ CallCookies(q, s)
    BY <1>2 DEF Next, vars, requestVars, SessionStep, ScriptStep, TaskStep,
       CreateSession, CloseSession, DropSession, ClearCookies, CreateTransport,
       CloseTransport, Cancel, ResolveSession, Dispatch, GetTransport, FindJar,
       MissJar, InsertJar, PrivateJar, Receive, ExpireJar, Advance
  <2>2. PICK s \in Sessions \cup {None}, how \in Via, to \in Phase :
            Called(q, s, how, to) /\ (s \in Sessions => session[s] # "none")
    BY <2>1, SessionAssumption DEF CallFetch, CallWebSocket, CallCookies, Via, Phase
  <2>3. target'[r] = s /\ session' = session
    BY <1>2, <2>2 DEF Called, TypeOK
  <2> QED
    BY <2>2, <2>3
<1> QED
  BY <1>1, <1>2

LEMMA StepStartsEmpty == JInv /\ [Next]_vars => StartsEmpty'
<1> SUFFICES ASSUME JInv, [Next]_vars, NEW j \in Jars, ~Used(j)'
             PROVE  content'[j] = {}
  BY DEF StartsEmpty, Jars
<1> USE DEF JInv, SInv
<1>1. ~Used(j) /\ content[j] = {}
  BY UsedStays DEF StartsEmpty
<1>2. ASSUME NEW r \in Requests, Receive(r) PROVE content'[j] = {}
  <2>1. held[r] # j
    BY <1>1, <1>2, SessionAssumption DEF Receive, Advance, HoldsOwn
  <2> QED
    BY <1>1, <1>2, <2>1 DEF Receive, TypeOK
<1>3. ASSUME NEW s \in Sessions, ClearCookies(s) PROVE content'[j] = {}
  BY <1>1, <1>3 DEF ClearCookies, TypeOK
<1>4. CASE UNCHANGED content
  BY <1>1, <1>4
<1> QED
  BY <1>2, <1>3, <1>4 DEF Next, vars, SessionStep, ScriptStep, TaskStep,
     CreateSession, CloseSession, DropSession, CreateTransport, CloseTransport,
     CallFetch, CallWebSocket, CallCookies, Called, Cancel, ResolveSession, Dispatch,
     GetTransport, FindJar, MissJar, InsertJar, PrivateJar, ExpireJar

LEMMA StepHoldsOwn == DistinctIds /\ JInv /\ [Next]_vars => HoldsOwn'
<1> DEFINE Own(r) == /\ phase[r] = "sending" => held[r] # None
                     /\ held[r] # None =>
                           /\ phase[r] \in {"sending", "done"}
                           /\ Owner(held[r]) = target[r] /\ Used(held[r])
<1> SUFFICES ASSUME DistinctIds, JInv, [Next]_vars, NEW r \in Requests PROVE Own(r)'
  BY DEF HoldsOwn
<1>0. TypeOK /\ Targets /\ Own(r)
  BY DEF JInv, SInv, HoldsOwn
<1>1. CASE FindJar(r)
  <2>1. /\ target[r] \in Sessions /\ jars[IdOf[target[r]]] # None
        /\ held'[r] = jars[IdOf[target[r]]] /\ phase'[r] = "sending" /\ target' = target
    BY <1>0, <1>1 DEF FindJar, Advance, TypeOK, Targets
  <2>2. PICK j \in Jars : j = jars[IdOf[target[r]]] /\ Used(j) /\ Owner(j) = target[r]
    BY <2>1, JarOwner, SessionAssumption DEF JInv, DistinctIds
  <2> QED
    BY <1>0, <2>1, <2>2, UsedStays
<1>2. CASE InsertJar(r) \/ PrivateJar(r)
  <2>1. held'[r] = r /\ phase'[r] = "sending"
    BY <1>0, <1>2 DEF InsertJar, PrivateJar, Advance, TypeOK
  <2> QED
    BY <2>1, SessionAssumption DEF Owner, Used
<1>3. CASE ~FindJar(r) /\ ~InsertJar(r) /\ ~PrivateJar(r)
  <2>1. held'[r] = held[r] /\ (phase'[r] = "sending" => phase[r] = "sending")
    BY <1>0, <1>3 DEF Next, vars, requestVars, SessionStep, ScriptStep, TaskStep,
       CreateSession, CloseSession, DropSession, ClearCookies, CreateTransport,
       CloseTransport, CallFetch, CallWebSocket, CallCookies, Called, Cancel,
       ResolveSession, Dispatch, GetTransport, FindJar, MissJar, InsertJar,
       PrivateJar, Receive, ExpireJar, Advance, TypeOK, Phase
  <2>2. CASE held[r] = None
    BY <1>0, <2>1, <2>2
  <2>3. CASE held[r] # None
    <3>1. PICK j \in Jars : j = held[r]
      BY <1>0, <2>3 DEF TypeOK
    <3>2. Used(j)' /\ Owner(j)' = Owner(j)
      BY <1>0, <2>3, <3>1, UsedStays
    <3>3. phase'[r] \in {"sending", "done"} /\ target'[r] = target[r]
      BY <1>0, <2>3, StepForward
    <3> QED
      BY <1>0, <2>1, <2>3, <3>1, <3>2, <3>3
  <2> QED
    BY <2>2, <2>3
<1> QED
  BY <1>1, <1>2, <1>3

LEMMA StepMissedByExpiry == DistinctIds /\ JInv /\ [Next]_vars => MissedByExpiry'
<1> SUFFICES ASSUME DistinctIds, JInv, [Next]_vars, NEW s \in Sessions,
                    session'[s] \in {"open", "dropped"}
             PROVE  /\ jars'[IdOf[s]] = None => IdOf[s] \in expired'
                    /\ \A r \in Requests :
                          phase'[r] = "missed" /\ target'[r] = s => IdOf[s] \in expired'
  BY DEF MissedByExpiry
<1>0. TypeOK /\ IdOf[s] \in Ids
  BY SessionAssumption DEF JInv, SInv
<1>1. expired \subseteq expired'
  BY DEF Next, vars, SessionStep, ScriptStep, TaskStep,
     CreateSession, CloseSession, DropSession, ClearCookies, CreateTransport,
     CloseTransport, CallFetch, CallWebSocket, CallCookies, Called, Cancel,
     ResolveSession, Dispatch, GetTransport, FindJar, MissJar, InsertJar,
     PrivateJar, Receive, ExpireJar
<1>2. CASE session[s] \in {"open", "dropped"}
  <2>1. ASSUME jars'[IdOf[s]] = None PROVE IdOf[s] \in expired'
    <3>1. CASE jars[IdOf[s]] = None
      BY <1>1, <1>2, <3>1 DEF JInv, MissedByExpiry
    <3>2. CASE \E t \in Sessions : CloseSession(t)
      <4>1. PICK t \in Sessions : CloseSession(t)
        BY <3>2
      <4>2. t # s
        BY <1>0, <4>1 DEF CloseSession, TypeOK
      <4>3. jars'[IdOf[s]] = jars[IdOf[s]]
        BY <1>0, <4>1, <4>2 DEF CloseSession, TypeOK, DistinctIds
      <4> QED
        BY <2>1, <3>1, <4>3
    <3>3. CASE \E i \in Ids : ExpireJar(i)
      BY <1>0, <2>1, <3>1, <3>3 DEF ExpireJar, TypeOK
    <3>4. CASE /\ ~ \E t \in Sessions : CloseSession(t)
               /\ ~ \E i \in Ids : ExpireJar(i)
      <4>1. jars'[IdOf[s]] = jars[IdOf[s]] \/ jars'[IdOf[s]] # None
        BY <1>0, <3>4, SessionAssumption DEF Next, vars, SessionStep, ScriptStep, TaskStep,
           CreateSession, DropSession, ClearCookies, CreateTransport,
           CloseTransport, CallFetch, CallWebSocket, CallCookies, Called, Cancel,
           ResolveSession, Dispatch, GetTransport, FindJar, MissJar, InsertJar,
           PrivateJar, Receive, TypeOK
      <4> QED
        BY <2>1, <3>1, <4>1
    <3> QED
      BY <3>2, <3>3, <3>4
  <2>2. ASSUME NEW r \in Requests, phase'[r] = "missed", target'[r] = s
        PROVE  IdOf[s] \in expired'
    <3>1. (phase[r] = "missed" /\ target'[r] = target[r]) \/ MissJar(r)
      BY <1>0, <2>2 DEF Next, vars, requestVars, SessionStep, ScriptStep, TaskStep,
         CreateSession, CloseSession, DropSession, ClearCookies, CreateTransport,
         CloseTransport, CallFetch, CallWebSocket, CallCookies, Called, Cancel,
         ResolveSession, Dispatch, GetTransport, FindJar, MissJar, InsertJar,
         PrivateJar, Receive, ExpireJar, Advance, TypeOK
    <3>2. CASE phase[r] = "missed" /\ target'[r] = target[r]
      BY <1>1, <1>2, <2>2, <3>2 DEF JInv, MissedByExpiry
    <3>3. CASE MissJar(r)
      BY <1>1, <1>2, <2>2, <3>3 DEF MissJar, Advance, JInv, MissedByExpiry
    <3> QED
      BY <3>1, <3>2, <3>3
  <2> QED
    BY <2>1, <2>2
<1>3. CASE session[s] \notin {"open", "dropped"}
  <2>1. session[s] = "none" /\ CreateSession(s)
    BY <1>0, <1>3 DEF Next, vars, SessionStep, ScriptStep, TaskStep,
       CreateSession, CloseSession, DropSession, ClearCookies, CreateTransport,
       CloseTransport, CallFetch, CallWebSocket, CallCookies, Called, Cancel,
       ResolveSession, Dispatch, GetTransport, FindJar, MissJar, InsertJar,
       PrivateJar, Receive, ExpireJar, TypeOK, SessionState
  <2>2. jars'[IdOf[s]] # None /\ target' = target
    BY <1>0, <2>1, SessionAssumption DEF CreateSession, TypeOK, requestVars
  <2> QED
    BY <2>1, <2>2 DEF JInv, Reached
<1> QED
  BY <1>2, <1>3

LEMMA InitJInv == Init => JInv
<1> SUFFICES ASSUME Init PROVE JInv
  OBVIOUS
<1>1. SInv
  BY InitTypes, SessionAssumption
     DEF Init, SInv, TransportScope, Targets, LateLookups, JarsOwned, JarOfSession,
         JarOfRequest
<1> QED
  BY <1>1, SessionAssumption DEF Init, JInv, Reached, StartsEmpty, HoldsOwn, MissedByExpiry

LEMMA StepJInv == DistinctIds /\ JInv /\ [Next]_vars => JInv'
BY StepSInv, StepReached, StepStartsEmpty, StepHoldsOwn, StepMissedByExpiry DEF JInv, SInv

-----------------------------------------------------------------------------
(* The refinement, session by session.                                     *)

\* What the contract sees of a session.
State(s) == IF session[s] = "dropped" THEN "open" ELSE session[s]
Overdue == {s \in Sessions : IdOf[s] \in expired}

\* The step shows nothing of s.
Quiet(s) ==
    State(s)' = State(s) /\ VisibleJar(s)' = VisibleJar(s) /\ Visible(s)' = Visible(s)

\* A jar two sessions find is one session's.
LEMMA OneOwner ==
    ASSUME DistinctIds, SInv, NEW s \in Sessions, VisibleJar(s) # None
    PROVE  /\ VisibleJar(s) = jars[IdOf[s]] /\ session[s] \in {"open", "dropped"}
           /\ VisibleJar(s) \in Jars /\ Owner(VisibleJar(s)) = s /\ Used(VisibleJar(s))
           /\ \A t \in Sessions : VisibleJar(t) = VisibleJar(s) => t = s
<1>1. ASSUME NEW t \in Sessions, VisibleJar(t) # None
      PROVE  /\ VisibleJar(t) = jars[IdOf[t]] /\ session[t] \in {"open", "dropped"}
             /\ VisibleJar(t) \in Jars /\ Owner(VisibleJar(t)) = t /\ Used(VisibleJar(t))
  <2>1. VisibleJar(t) = jars[IdOf[t]] /\ session[t] \in {"open", "dropped"}
    BY <1>1 DEF VisibleJar
  <2> QED
    BY <1>1, <2>1, JarOwner, SessionAssumption DEF DistinctIds
<1> QED
  BY <1>1

\* A step that shows something of s alone.
LEMMA Focus ==
    ASSUME NEW s \in Sessions, \A t \in Sessions \ {s} : Quiet(t)
    PROVE  /\ [t \in Sessions |-> State(t)]' =
                  [[t \in Sessions |-> State(t)] EXCEPT ![s] = State(s)']
           /\ [t \in Sessions |-> VisibleJar(t)]' =
                  [[t \in Sessions |-> VisibleJar(t)] EXCEPT ![s] = VisibleJar(s)']
           /\ [t \in Sessions |-> Visible(t)]' =
                  [[t \in Sessions |-> Visible(t)] EXCEPT ![s] = Visible(s)']
BY DEF Quiet

LEMMA AllQuiet ==
    ASSUME \A s \in Sessions : Quiet(s), Overdue' = Overdue
    PROVE  UNCHANGED Contract!cvars
BY DEF Quiet, Overdue, Contract!cvars, State

\* createSession: a session appears with a new and empty jar.
LEMMA CreateStep ==
    ASSUME DistinctIds, JInv, NEW s \in Sessions, CreateSession(s)
    PROVE  Contract!Create(s)
<1> USE SessionAssumption
<1>0. TypeOK /\ StartsEmpty /\ session[s] = "none" /\ s \in Jars
  BY DEF JInv, SInv, CreateSession, Jars
<1>1. /\ session' = [session EXCEPT ![s] = "open"] /\ jars' = [jars EXCEPT ![IdOf[s]] = s]
      /\ content' = content /\ expired' = expired
  BY DEF CreateSession
<1>2. \A t \in Sessions \ {s} : Quiet(t)
  BY <1>0, <1>1 DEF Quiet, State, VisibleJar, Visible, TypeOK, DistinctIds
<1>3. /\ State(s) = "none" /\ State(s)' = "open" /\ VisibleJar(s)' = s /\ Visible(s)' = {}
  <2>1. content[s] = {}
    BY <1>0 DEF StartsEmpty, Used
  <2>2. session'[s] = "open" /\ jars'[IdOf[s]] = s
    BY <1>0, <1>1 DEF TypeOK
  <2> QED
    BY <1>0, <1>1, <2>1, <2>2 DEF State, VisibleJar, Visible
<1>4. \A t \in Sessions : VisibleJar(t) # s
  <2> SUFFICES ASSUME NEW t \in Sessions, VisibleJar(t) = s PROVE FALSE
    OBVIOUS
  <2>1. Used(s)
    BY OneOwner DEF JInv
  <2> QED
    BY <1>0, <2>1 DEF Used
<1> QED
  BY <1>0, <1>1, <1>2, <1>3, <1>4, Focus DEF Contract!Create, Contract!NewJar, State

\* close(): the session is without a jar.
LEMMA CloseStep ==
    ASSUME DistinctIds, JInv, NEW s \in Sessions, CloseSession(s)
    PROVE  Contract!Close(s)
<1> USE SessionAssumption
<1>0. TypeOK /\ session[s] = "open"
  BY DEF JInv, SInv, CloseSession
<1>1. /\ session' = [session EXCEPT ![s] = "closed"] /\ jars' = [jars EXCEPT ![IdOf[s]] = None]
      /\ content' = content /\ expired' = expired
  BY DEF CloseSession
<1>2. \A t \in Sessions \ {s} : Quiet(t)
  BY <1>0, <1>1 DEF Quiet, State, VisibleJar, Visible, TypeOK, DistinctIds
<1>3. State(s) = "open" /\ State(s)' = "closed" /\ VisibleJar(s)' = None /\ Visible(s)' = {}
  BY <1>0, <1>1 DEF State, VisibleJar, Visible, TypeOK
<1> QED
  BY <1>1, <1>2, <1>3, Focus DEF Contract!Close, Contract!NoJar, State

\* clearCookies empties the jar of its session only.
LEMMA ClearStep ==
    ASSUME DistinctIds, JInv, NEW s \in Sessions, ClearCookies(s)
    PROVE  Contract!Clear(s)
<1> USE SessionAssumption
<1>0. TypeOK /\ session[s] = "open" /\ SInv /\ VisibleJar(s) = jars[IdOf[s]]
      /\ VisibleJar(s) # None
  BY DEF JInv, SInv, ClearCookies, VisibleJar
<1>1. /\ session' = session /\ jars' = jars /\ expired' = expired
      /\ content' = [content EXCEPT ![VisibleJar(s)] = {}]
  BY <1>0 DEF ClearCookies
<1>2. ASSUME NEW t \in Sessions \ {s} PROVE Quiet(t)
  <2>1. VisibleJar(t) # VisibleJar(s)
    BY <1>0, OneOwner
  <2>2. VisibleJar(t)' = VisibleJar(t) /\ State(t)' = State(t)
    BY <1>1 DEF VisibleJar, State
  <2>3. CASE VisibleJar(t) = None
    BY <2>2, <2>3 DEF Quiet, Visible
  <2>4. CASE VisibleJar(t) # None
    BY <1>0, <1>1, <2>1, <2>2, <2>4, OneOwner DEF Quiet, Visible, TypeOK
  <2> QED
    BY <2>3, <2>4
<1>3. /\ State(s) = "open" /\ State(s)' = State(s)
      /\ VisibleJar(s)' = VisibleJar(s) /\ Visible(s)' = {}
  <2>1. VisibleJar(s) \in Jars
    BY <1>0, OneOwner
  <2>2. VisibleJar(s)' = VisibleJar(s)
    BY <1>1 DEF VisibleJar
  <2> QED
    BY <1>0, <1>1, <2>1, <2>2 DEF State, Visible, TypeOK
<1> QED
  BY <1>0, <1>1, <1>2, <1>3, Focus DEF Contract!Clear, State

\* A task that found no jar brings a new one, if its session is still there.
LEMMA InsertStep ==
    ASSUME DistinctIds, JInv, NEW r \in Requests, InsertJar(r)
    PROVE  (\E s \in Sessions : Contract!Replace(s)) \/ UNCHANGED Contract!cvars
<1> USE SessionAssumption
<1>5. PICK s \in Sessions : s = target[r]
  BY DEF JInv, SInv, InsertJar, Advance, Targets
<1>0. /\ TypeOK /\ SInv /\ phase[r] = "missed" /\ r \in Jars \ Sessions /\ r # None
      /\ session[s] # "none"
  BY <1>5 DEF JInv, SInv, InsertJar, Advance, Targets, Jars, Reached
<1>1. /\ session' = session /\ jars' = [jars EXCEPT ![IdOf[s]] = r]
      /\ content' = content /\ expired' = expired
  BY <1>5 DEF InsertJar
<1>2. \A t \in Sessions \ {s} : Quiet(t)
  BY <1>0, <1>1 DEF Quiet, State, VisibleJar, Visible, TypeOK, DistinctIds
<1>3. CASE session[s] \in {"open", "dropped"}
  <2>1. State(s) = "open" /\ State(s)' = State(s) /\ VisibleJar(s)' = r /\ Visible(s)' = {}
    <3>1. content[r] = {}
      BY <1>0 DEF JInv, StartsEmpty, Used
    <3> QED
      BY <1>0, <1>1, <1>3, <3>1 DEF State, VisibleJar, Visible, TypeOK
  <2>2. \A t \in Sessions : VisibleJar(t) # r
    <3> SUFFICES ASSUME NEW t \in Sessions, VisibleJar(t) = r PROVE FALSE
      OBVIOUS
    <3>1. Used(r)
      BY <1>0, OneOwner
    <3> QED
      BY <1>0, <3>1 DEF Used
  <2>3. IdOf[s] \in expired
    BY <1>5, <1>0, <1>3 DEF JInv, MissedByExpiry
  <2>4. Contract!Replace(s)
    BY <1>0, <1>1, <1>2, <2>1, <2>2, <2>3, Focus DEF Contract!Replace, Contract!NewJar, State
  <2> QED
    BY <1>0, <2>4
<1>4. CASE session[s] \notin {"open", "dropped"}
  <2>1. Quiet(s)
    BY <1>1, <1>4 DEF Quiet, State, VisibleJar, Visible
  <2>2. \A t \in Sessions : Quiet(t)
    BY <1>2, <2>1
  <2> QED
    BY <1>1, <2>2, AllQuiet DEF Overdue
<1> QED
  BY <1>3, <1>4

\* A response stores its cookie in the jar of its session, whether calls still
\* find that jar or not.
LEMMA ReceiveStep ==
    ASSUME DistinctIds, JInv, NEW r \in Requests, Receive(r)
    PROVE  (\E s \in Sessions : Contract!Store(s)) \/ UNCHANGED Contract!cvars
<1> USE SessionAssumption
<1> DEFINE j == held[r]
<1>0. /\ TypeOK /\ SInv /\ j \in Jars /\ Owner(j) = target[r]
  BY DEF JInv, SInv, Receive, Advance, HoldsOwn, TypeOK
<1>1. session' = session /\ jars' = jars /\ expired' = expired
  BY DEF Receive
<1>2. \A t \in Sessions : State(t)' = State(t) /\ VisibleJar(t)' = VisibleJar(t)
  BY <1>1 DEF State, VisibleJar
<1>3. CASE content' = content
  <2>1. \A t \in Sessions : Quiet(t)
    BY <1>2, <1>3 DEF Quiet, Visible
  <2> QED
    BY <1>1, <2>1, AllQuiet DEF Overdue
<1>4. CASE content' = [content EXCEPT ![j] = @ \cup {<<target[r], r>>}]
  <2> HIDE DEF j
  <2>1. ASSUME NEW t \in Sessions, VisibleJar(t) # j PROVE Quiet(t)
    <3>1. CASE VisibleJar(t) = None
      BY <1>2, <3>1 DEF Quiet, Visible
    <3>2. CASE VisibleJar(t) # None
      BY <1>0, <1>2, <1>4, <2>1, <3>2, OneOwner DEF Quiet, Visible, TypeOK
    <3> QED
      BY <3>1, <3>2
  <2>2. CASE \A t \in Sessions : VisibleJar(t) # j
    BY <1>1, <2>1, <2>2, AllQuiet DEF Overdue
  <2>3. ASSUME NEW s \in Sessions, VisibleJar(s) = j PROVE Contract!Store(s)
    <3>0. j # None
      BY <1>0 DEF Jars
    <3>1. s = target[r] /\ session[s] \in {"open", "dropped"}
      BY <1>0, <2>3, <3>0, OneOwner
    <3>2. \A t \in Sessions \ {s} : Quiet(t)
      BY <1>0, <2>1, <2>3, <3>0, OneOwner
    <3>3. State(s) = "open" /\ State(s)' = "open"
      BY <1>2, <3>1 DEF State
    <3>4. Visible(s)' = Visible(s) \cup {<<s, r>>}
      BY <1>0, <1>2, <1>4, <2>3, <3>0, <3>1 DEF Visible, TypeOK
    <3> QED
      BY <1>1, <1>2, <2>3, <3>0, <3>2, <3>3, <3>4, Focus DEF Contract!Store, State
  <2> QED
    BY <2>2, <2>3
<1> QED
  BY <1>3, <1>4 DEF Receive

\* The idle expiry takes the jar of the session with that id.
LEMMA ExpireStep ==
    ASSUME DistinctIds, JInv, NEW i \in Ids, ExpireJar(i)
    PROVE  (\E s \in Sessions : Contract!Expire(s)) \/ UNCHANGED Contract!cvars
<1> USE SessionAssumption
<1>0. TypeOK
  BY DEF JInv, SInv
<1>1. /\ session' = session /\ jars' = [jars EXCEPT ![i] = None]
      /\ content' = content /\ expired' = expired \cup {i}
  BY DEF ExpireJar
<1>2. ASSUME NEW t \in Sessions, IdOf[t] # i PROVE Quiet(t)
  BY <1>0, <1>1, <1>2 DEF Quiet, State, VisibleJar, Visible, TypeOK
<1>3. CASE \A t \in Sessions : IdOf[t] # i
  BY <1>1, <1>2, <1>3, AllQuiet DEF Overdue
<1>4. ASSUME NEW s \in Sessions, IdOf[s] = i PROVE Contract!Expire(s)
  <2>1. \A t \in Sessions \ {s} : Quiet(t)
    BY <1>2, <1>4 DEF DistinctIds
  <2>2. State(s)' = State(s) /\ VisibleJar(s)' = None /\ Visible(s)' = {}
    BY <1>0, <1>1, <1>4 DEF State, VisibleJar, Visible, TypeOK
  <2>3. Overdue' = Overdue \cup {s}
    BY <1>1, <1>4 DEF Overdue, DistinctIds
  <2>4. [t \in Sessions |-> State(t)]' = [t \in Sessions |-> State(t)]
    BY <2>1, <2>2 DEF Quiet
  <2> QED
    BY <2>1, <2>2, <2>3, <2>4, Focus DEF Contract!Expire, Contract!NoJar, State, Overdue
<1> QED
  BY <1>3, <1>4

\* All other steps change nothing the contract speaks of.
LEMMA OtherSteps ==
    ASSUME UNCHANGED <<jars, content, expired>>,
           \A t \in Sessions :
              \/ session'[t] = session[t]
              \/ session[t] = "open" /\ session'[t] = "dropped"
    PROVE  UNCHANGED Contract!cvars
<1>1. \A t \in Sessions : Quiet(t)
  BY DEF Quiet, State, VisibleJar, Visible
<1> QED
  BY <1>1, AllQuiet DEF Overdue

LEMMA StepContract ==
    DistinctIds /\ JInv /\ [Next]_vars => [Contract!Next]_Contract!cvars
<1> SUFFICES ASSUME DistinctIds, JInv, [Next]_vars
             PROVE  Contract!Next \/ UNCHANGED Contract!cvars
  OBVIOUS
<1>1. CASE UNCHANGED vars
  BY <1>1, OtherSteps DEF vars
<1>2. ASSUME NEW s \in Sessions, SessionStep(s)
      PROVE  Contract!Next \/ UNCHANGED Contract!cvars
  <2>1. CASE DropSession(s)
    <3>1. UNCHANGED <<jars, content, expired>> /\ session[s] = "open"
          /\ session' = [session EXCEPT ![s] = "dropped"] /\ TypeOK
      BY <2>1 DEF DropSession, JInv, SInv
    <3> QED
      BY <3>1, OtherSteps DEF TypeOK
  <2>2. CASE CreateSession(s)
    BY <2>2, CreateStep DEF Contract!Next
  <2>3. CASE CloseSession(s)
    BY <2>3, CloseStep DEF Contract!Next
  <2>4. CASE ClearCookies(s)
    BY <2>4, ClearStep DEF Contract!Next
  <2> QED
    BY <1>2, <2>1, <2>2, <2>3, <2>4 DEF SessionStep
<1>3. CASE CreateTransport \/ CloseTransport
  BY <1>3, OtherSteps DEF CreateTransport, CloseTransport
<1>4. ASSUME NEW r \in Requests, ScriptStep(r) \/ TaskStep(r)
      PROVE  Contract!Next \/ UNCHANGED Contract!cvars
  <2>1. CASE InsertJar(r)
    BY <2>1, InsertStep DEF Contract!Next
  <2>2. CASE Receive(r)
    BY <2>2, ReceiveStep DEF Contract!Next
  <2>3. CASE ~InsertJar(r) /\ ~Receive(r)
    <3>1. UNCHANGED <<session, jars, content, expired>>
      BY <1>4, <2>3 DEF ScriptStep, TaskStep, CallFetch, CallWebSocket, CallCookies,
         Called, Cancel, ResolveSession, Dispatch, GetTransport, FindJar, MissJar,
         PrivateJar
    <3> QED
      BY <3>1, OtherSteps
  <2> QED
    BY <2>1, <2>2, <2>3
<1>5. ASSUME NEW i \in Ids, ExpireJar(i)
      PROVE  Contract!Next \/ UNCHANGED Contract!cvars
  BY <1>5, ExpireStep DEF Contract!Next
<1> QED
  BY <1>1, <1>2, <1>3, <1>4, <1>5 DEF Next

LEMMA InitContract == Init => Contract!Init
BY DEF Init, Contract!Init, VisibleJar, Visible

-----------------------------------------------------------------------------
(* The theorems.                                                           *)

\* Whose a jar is, and why a living session misses its own, in every
\* reachable state.
THEOREM JarsHaveOwners ==
    ASSUME DistinctIds
    PROVE  Spec => []JInv
<1>1. Init => JInv
  BY InitJInv
<1>2. JInv /\ [Next]_vars => JInv'
  BY DistinctIds, StepJInv
<1> QED
  BY <1>1, <1>2, PTL DEF Spec

\* Session, SESSION_MANAGER and the calls keep the contract of sessions, if no
\* id is used twice: own jar, own cookies, and no other jar but after an
\* expiry.
THEOREM Implementation ==
    ASSUME DistinctIds
    PROVE  Spec => ContractSpec
<1>1. Init => Contract!Init
  BY InitContract
<1>2. JInv /\ [Next]_vars => [Contract!Next]_Contract!cvars
  BY DistinctIds, StepContract
<1> QED
  BY <1>1, <1>2, DistinctIds, JarsHaveOwners, PTL DEF Spec, ContractSpec, Contract!Spec

-----------------------------------------------------------------------------
(* Cookies that are saved and restored.                                    *)

\* What an input is filed as.
Filed(input, default) == Entry(HostFor(input, default), Prepare(input, default).cookie)

\* A secure origin is refused nothing.
LEMMA StoreOneIs ==
    ASSUME NEW jar, NEW input, NEW default
    PROVE  StoreOne(jar, input, default) =
               (jar \ {x \in jar : Key(x) = Key(Filed(input, default))})
                   \cup (IF input.expires = "past" THEN {} ELSE {Filed(input, default)})
<1> DEFINE p == Prepare(input, default)
           c == p.cookie
           host == HostFor(input, default)
<1>1. p.origin = [host |-> host, secure |-> TRUE]
  BY DEF Prepare, RestoreOrigin, Origin
<1>2. c.domain = Domain(input) /\ c.expires = input.expires
  BY DEF Prepare
<1>3. (IF c.domain = Nothing THEN p.origin.host ELSE c.domain) = host
  BY <1>1, <1>2 DEF HostFor
<1>4. StoreOne(jar, input, default) = Add(jar, c, p.origin)
  BY DEF StoreOne
<1>5. Filed(input, default) = Entry(host, c)
  BY DEF Filed
<1> HIDE DEF p, c, host
<1> QED
  BY <1>1, <1>2, <1>3, <1>4, <1>5 DEF Add

\* f holds the jar after every cookie, up to n of them.
JarsAre(jar, batch, default, f, n) ==
    f[0] = jar /\ \A i \in 1..n : f[i] = StoreOne(f[i - 1], batch[i], default)

LEMMA JarsExist ==
    ASSUME NEW jar, NEW batch, NEW default, NEW k \in Nat
    PROVE  \E f : f = [i \in 0..k |-> f[i]] /\ JarsAre(jar, batch, default, f, k)
<1> DEFINE StoredUpTo(n) == \E f : f = [i \in 0..n |-> f[i]] /\ JarsAre(jar, batch, default, f, n)
           T == {n \in Nat : StoredUpTo(n)}
<1>1. StoredUpTo(0)
  <2> DEFINE f == [n \in 0..0 |-> jar]
  <2>1. f = [i \in 0..0 |-> f[i]] /\ JarsAre(jar, batch, default, f, 0)
    BY DEF JarsAre
  <2> QED
    BY <2>1
<1>2. ASSUME NEW n \in Nat, StoredUpTo(n) PROVE StoredUpTo(n + 1)
  <2>1. PICK f : JarsAre(jar, batch, default, f, n)
    BY <1>2
  <2> DEFINE last == StoreOne(f[n], batch[n + 1], default)
             g == [i \in 0..(n + 1) |-> IF i <= n THEN f[i] ELSE last]
  <2> HIDE DEF last
  <2>2. /\ g = [i \in 0..(n + 1) |-> g[i]]
        /\ \A i \in 0..n : g[i] = f[i]
        /\ g[n + 1] = last
    OBVIOUS
  <2> HIDE DEF g
  <2>3. g[0] = jar
    <3>1. 0 \in 0..n
      OBVIOUS
    <3> QED
      BY <2>1, <2>2, <3>1, Zenon DEF JarsAre
  <2>4. ASSUME NEW i \in 1..(n + 1) PROVE g[i] = StoreOne(g[i - 1], batch[i], default)
    <3>1. CASE i \in 1..n
      <4>1. i \in 0..n /\ i - 1 \in 0..n
        BY <3>1
      <4>2. g[i] = f[i] /\ g[i - 1] = f[i - 1]
        BY <2>2, <4>1, Zenon
      <4>3. f[i] = StoreOne(f[i - 1], batch[i], default)
        BY <2>1, <3>1 DEF JarsAre
      <4> QED
        BY <4>2, <4>3
    <3>2. CASE i = n + 1
      <4>1. n \in 0..n /\ i - 1 = n
        BY <3>2
      <4>2. g[i - 1] = f[n]
        BY <2>2, <4>1, Zenon
      <4> QED
        BY <2>2, <3>2, <4>2 DEF last
    <3> QED
      BY <2>4, <3>1, <3>2
  <2>5. JarsAre(jar, batch, default, g, n + 1)
    BY <2>3, <2>4 DEF JarsAre
  <2> QED
    BY <2>2, <2>5
<1> HIDE DEF StoredUpTo
<1>3. 0 \in T /\ \A n \in Nat : n \in T => n + 1 \in T
  BY <1>1, <1>2
<1>4. Nat \subseteq T
  <2> HIDE DEF T
  <2> QED
    BY <1>3, Induction
<1>5. StoredUpTo(k)
  BY <1>4
<1> QED
  BY <1>5 DEF StoredUpTo

\* The jar that is stored is the last of them.
LEMMA StoreIsLast ==
    ASSUME NEW T, NEW jar, NEW batch \in Seq(T), NEW default
    PROVE  \E f : /\ JarsAre(jar, batch, default, f, Len(batch))
                  /\ Store(jar, batch, default) = f[Len(batch)]
<1> DEFINE n == Len(batch)
           Equation(h) == h = [i \in 0..n |-> IF i = 0 THEN jar ELSE StoreOne(h[i - 1], batch[i], default)]
           after == CHOOSE h : Equation(h)
<1>1. n \in Nat
  OBVIOUS
<1>2. PICK g : g = [i \in 0..n |-> g[i]] /\ JarsAre(jar, batch, default, g, n)
  BY <1>1, JarsExist
<1>3. \A i \in 0..n : g[i] = IF i = 0 THEN jar ELSE StoreOne(g[i - 1], batch[i], default)
  <2>1. \A i \in 0..n : i = 0 \/ i \in 1..n
    OBVIOUS
  <2> QED
    BY <1>2, <2>1 DEF JarsAre
<1>4. Equation(g)
  BY <1>2, <1>3
<1>5. Equation(after)
  <2> HIDE DEF Equation
  <2> QED
    BY <1>4
<1>6. Store(jar, batch, default) = after[n]
  BY DEF Store
<1> HIDE DEF after
<1>7. \A i \in 0..n : after[i] = IF i = 0 THEN jar ELSE StoreOne(after[i - 1], batch[i], default)
  BY <1>5
<1>8. JarsAre(jar, batch, default, after, n)
  BY <1>1, <1>7 DEF JarsAre
<1> QED
  BY <1>6, <1>8

\* The entries of a jar that n cookies leave alone, and those of the cookies that
\* no later one of them replaces.
LeftAlone(jar, batch, default, n) ==
    {x \in jar : \A m \in 1..n : Key(x) # Key(Filed(batch[m], default))}
LastOnes(batch, default, n) ==
    {m \in 1..n : \A j \in (m + 1)..n : Key(Filed(batch[j], default)) # Key(Filed(batch[m], default))}
Living(batch, default, n) ==
    {Filed(batch[m], default) : m \in {l \in LastOnes(batch, default, n) : batch[l].expires # "past"}}

\* Of the cookies with one host, path and name the last decides, whatever the
\* jar held: if it lives it is what the jar has, and else the jar has none.
THEOREM LastCookieWins ==
    ASSUME NEW T, NEW jar, NEW batch \in Seq(T), NEW default
    PROVE  Store(jar, batch, default) =
               LeftAlone(jar, batch, default, Len(batch)) \cup Living(batch, default, Len(batch))
<1> DEFINE d(m) == Filed(batch[m], default)
           L(n) == LeftAlone(jar, batch, default, n)
           V(n) == Living(batch, default, n)
           N == Len(batch)
<1>1. PICK f : JarsAre(jar, batch, default, f, N) /\ Store(jar, batch, default) = f[N]
  BY StoreIsLast
<1> DEFINE S == {n \in Nat : n <= N => f[n] = L(n) \cup V(n)}
<1>2. N \in Nat
  OBVIOUS
<1>3. 0 \in S
  <2>1. L(0) = jar /\ V(0) = {}
    BY DEF LeftAlone, Living, LastOnes
  <2> QED
    BY <1>1, <2>1 DEF JarsAre
<1>4. ASSUME NEW n \in Nat, n \in S PROVE n + 1 \in S
  <2> SUFFICES ASSUME n + 1 <= N PROVE f[n + 1] = L(n + 1) \cup V(n + 1)
    OBVIOUS
  <2> DEFINE k == Key(d(n + 1))
             new == IF batch[n + 1].expires = "past" THEN {} ELSE {d(n + 1)}
  <2>1. f[n] = L(n) \cup V(n)
    BY <1>2, <1>4
  <2>2. f[n + 1] = (f[n] \ {x \in f[n] : Key(x) = k}) \cup new
    <3>1. n + 1 \in 1..N /\ (n + 1) - 1 = n
      BY <1>2
    <3>2. f[n + 1] = StoreOne(f[(n + 1) - 1], batch[n + 1], default)
      BY <1>1, <3>1, Zenon DEF JarsAre
    <3> QED
      BY <3>1, <3>2, StoreOneIs
  <2>3. L(n + 1) = {x \in L(n) : Key(x) # k}
    <3>1. \A m : m \in 1..(n + 1) <=> m \in 1..n \/ m = n + 1
      OBVIOUS
    <3> HIDE DEF d
    <3> QED
      BY <3>1 DEF LeftAlone, d
  <2>4. V(n + 1) = {x \in V(n) : Key(x) # k} \cup new
    <3> DEFINE A == LastOnes(batch, default, n)
               B == LastOnes(batch, default, n + 1)
               live == batch[n + 1].expires # "past"
    <3>1. \A m : m \in B <=> m = n + 1 \/ (m \in A /\ Key(d(m)) # k)
      <4>1. ASSUME NEW m \in 1..n
            PROVE  \A j : j \in (m + 1)..(n + 1) <=> j \in (m + 1)..n \/ j = n + 1
        OBVIOUS
      <4>2. ASSUME NEW m \in 1..n PROVE m \in B <=> m \in A /\ Key(d(m)) # k
        <5>1. m \in 1..(n + 1)
          OBVIOUS
        <5> HIDE DEF k
        <5> QED
          BY <4>1, <5>1 DEF LastOnes, k
      <4>3. n + 1 \in B
        BY DEF LastOnes
      <4>4. A \subseteq 1..n /\ B \subseteq 1..(n + 1)
        BY DEF LastOnes
      <4>5. \A m : m \in 1..(n + 1) <=> m \in 1..n \/ m = n + 1
        OBVIOUS
      <4> HIDE DEF A, B, d, k
      <4>6. ASSUME NEW m PROVE m \in B <=> m = n + 1 \/ (m \in A /\ Key(d(m)) # k)
        <5>1. CASE m \in 1..n
          <6>1. m # n + 1
            BY <5>1
          <6> QED
            BY <4>2, <5>1, <6>1
        <5>2. CASE m \notin 1..n
          BY <4>3, <4>4, <4>5, <5>2
        <5> QED
          BY <5>1, <5>2
      <4> QED
        BY <4>6
    <3>2. /\ \A x : x \in V(n) <=> \E m \in A : batch[m].expires # "past" /\ x = d(m)
          /\ \A x : x \in V(n + 1) <=> \E m \in B : batch[m].expires # "past" /\ x = d(m)
      BY DEF Living
    <3>3. \A x : x \in new <=> live /\ x = d(n + 1)
      OBVIOUS
    <3>4. k = Key(d(n + 1)) /\ (live <=> batch[n + 1].expires # "past")
      OBVIOUS
    <3> DEFINE v == V(n)
               w == V(n + 1)
    <3> HIDE DEF A, B, d, V, k, new, live
    <3>5. ASSUME NEW x PROVE x \in w <=> (x \in v /\ Key(x) # k) \/ x \in new
      <4>1. CASE x \in w
        <5>1. PICK m \in B : batch[m].expires # "past" /\ x = d(m)
          BY <3>2, <4>1
        <5> QED
          BY <3>1, <3>2, <3>3, <3>4, <4>1, <5>1
      <4>2. CASE x \in new
        <5>1. n + 1 \in B
          BY <3>1
        <5> QED
          BY <3>2, <3>3, <3>4, <4>2, <5>1
      <4>3. CASE x \in v /\ Key(x) # k
        <5>1. PICK m \in A : batch[m].expires # "past" /\ x = d(m)
          BY <3>2, <4>3
        <5>2. m \in B
          BY <3>1, <4>3, <5>1
        <5> QED
          BY <3>2, <4>3, <5>1, <5>2
      <4> QED
        BY <4>1, <4>2, <4>3
    <3> HIDE DEF v, w
    <3>6. w = {x \in v : Key(x) # k} \cup new
      BY <3>5
    <3> QED
      BY <3>6 DEF v, w
  <2> HIDE DEF L, V, k, new
  <2> QED
    BY <2>1, <2>2, <2>3, <2>4
<1>5. Nat \subseteq S
  <2> HIDE DEF S
  <2> QED
    BY <1>3, <1>4, Induction
<1>6. f[N] = L(N) \cup V(N)
  BY <1>2, <1>5
<1> QED
  BY <1>1, <1>6

\* A place of the list that has what is asked for: there is a last such.
LEMMA LastPlace ==
    ASSUME NEW n \in Nat, NEW P, NEW i \in 1..n, i \in P
    PROVE  \E m \in 1..n : m \in P /\ \A j \in (m + 1)..n : j \notin P
<1> DEFINE S == {k \in Nat : (\E l \in 1..k : l \in P) => \E m \in 1..k : m \in P /\ \A j \in (m + 1)..k : j \notin P}
<1>1. 0 \in S
  OBVIOUS
<1>2. ASSUME NEW k \in Nat, k \in S PROVE k + 1 \in S
  <2>1. CASE k + 1 \in P
    BY <2>1
  <2>2. CASE k + 1 \notin P
    <3>1. \A l : l \in 1..(k + 1) <=> l \in 1..k \/ l = k + 1
      OBVIOUS
    <3>2. \A m \in 1..k : \A j : j \in (m + 1)..(k + 1) <=> j \in (m + 1)..k \/ j = k + 1
      OBVIOUS
    <3> QED
      BY <1>2, <2>2, <3>1, <3>2
  <2> QED
    BY <2>1, <2>2
<1>3. Nat \subseteq S
  <2> HIDE DEF S
  <2> QED
    BY <1>1, <1>2, Induction
<1> QED
  BY <1>3

\* A jar whose host-only cookies are all of one host, and no cookie in it has
\* expired.
JarCookies ==
    [name : CookieNames, domain : Hosts \cup {Nothing}, path : Paths, secure : BOOLEAN,
     sameSite : {Nothing, "lax", "strict", "none"}, expires : {Nothing, "future"}]
IsSaved(jar, host) ==
    /\ jar \subseteq [host : Hosts, cookie : JarCookies]
    /\ \A e \in jar : e.cookie.domain = e.host \/ (e.cookie.domain = Nothing /\ e.host = host)
    /\ \A x, y \in jar : Key(x) = Key(y) => x = y

\* An entry's cookie is filed where it came from.
LEMMA FiledBack ==
    ASSUME NEW jar, NEW host \in Hosts, NEW e \in jar, IsSaved(jar, host)
    PROVE  /\ Filed(Input(e.cookie), host) = e
           /\ ~Refused(Input(e.cookie), host)
           /\ Input(e.cookie).expires # "past"
<1> DEFINE c == e.cookie
           in == Input(c)
<1>1. e = [host |-> e.host, cookie |-> c] /\ e.host \in Hosts /\ c \in JarCookies
  BY DEF IsSaved
<1>2. c = [name |-> c.name, domain |-> c.domain, path |-> c.path, secure |-> c.secure,
           sameSite |-> c.sameSite, expires |-> c.expires]
  BY <1>1 DEF JarCookies
<1>3. /\ c.name \in CookieNames /\ c.domain \in Hosts \cup {Nothing} /\ c.path \in Paths
      /\ c.sameSite \in {Nothing, "lax", "strict", "none"} /\ c.expires \in {Nothing, "future"}
  BY <1>1 DEF JarCookies
<1>4. c.domain = e.host \/ (c.domain = Nothing /\ e.host = host)
  BY DEF IsSaved
<1>5. /\ in.name = c.name /\ in.domain = c.domain /\ in.url = Nothing /\ in.path = c.path
      /\ in.secure = c.secure /\ in.sameSite = c.sameSite /\ in.expires = c.expires
  BY DEF Input
<1> HIDE DEF c, in
<1>6. Nothing \notin Hosts /\ Blank \notin Hosts /\ Blank \notin CookieNames /\ Nothing \notin {"past", "nan"}
  BY CookieAssumption
<1>7. Domain(in) = c.domain
  <2> QED
    BY <1>3, <1>5, <1>6 DEF Domain
<1>8. HostFor(in, host) = e.host
  BY <1>1, <1>3, <1>4, <1>5, <1>6, <1>7 DEF HostFor
<1>9. Prepare(in, host).cookie = c
  <2>1. Prepare(in, host).cookie =
            [name |-> c.name, domain |-> c.domain, secure |-> c.secure, path |-> c.path,
             sameSite |-> c.sameSite, expires |-> c.expires]
    BY <1>3, <1>5, <1>7 DEF Prepare
  <2> QED
    BY <1>2, <2>1
<1>10. Filed(in, host) = e
  BY <1>1, <1>8, <1>9 DEF Filed, Entry
<1>11. ~Refused(in, host) /\ in.expires # "past"
  BY <1>1, <1>3, <1>5, <1>6, <1>8 DEF Refused
<1> QED
  BY <1>10, <1>11 DEF in, c

\* What it has come to in another jar.
BroughtInto(into, jar) == jar \cup {t \in into : \A e \in jar : Key(e) # Key(t)}

\* All cookies of a jar, in any order and however often.
IsExportOf(batch, jar) == batch \in Seq(Inputs(Export(jar))) /\ Range(batch) = Inputs(Export(jar))

\* A saved jar comes back as it was, whatever the order of its export and
\* whatever the jar it is restored into holds under other keys.
THEOREM SavedJarsComeBack ==
    ASSUME NEW jar, NEW into, NEW host \in Hosts, NEW batch,
           IsSaved(jar, host), IsExportOf(batch, jar)
    PROVE  Restore(into, batch, host) = [ok |-> TRUE, jar |-> BroughtInto(into, jar)]
<1> DEFINE n == Len(batch)
           d(m) == Filed(batch[m], host)
<1>1. n \in Nat /\ DOMAIN batch = 1..n
  BY DEF IsExportOf
<1>2. ASSUME NEW m \in 1..n
      PROVE  d(m) \in jar /\ ~Refused(batch[m], host) /\ batch[m].expires # "past"
  <2>1. batch[m] \in Inputs(Export(jar))
    BY <1>1, ElementOfSeq DEF IsExportOf
  <2>2. PICK e \in jar : batch[m] = Input(e.cookie)
    BY <2>1 DEF Inputs, Export
  <2> QED
    BY <2>2, FiledBack
<1>3. ASSUME NEW e \in jar PROVE \E m \in 1..n : d(m) = e
  <2>1. Input(e.cookie) \in Range(batch)
    BY DEF IsExportOf, Inputs, Export
  <2>2. PICK m \in 1..n : batch[m] = Input(e.cookie)
    BY <1>1, <2>1 DEF Range
  <2> QED
    BY <2>2, FiledBack
<1>4. Restore(into, batch, host) = [jar |-> Store(into, batch, host), ok |-> TRUE]
  BY <1>1, <1>2 DEF Restore
<1>5. Store(into, batch, host) = LeftAlone(into, batch, host, n) \cup Living(batch, host, n)
  BY LastCookieWins DEF IsExportOf
<1>6. LeftAlone(into, batch, host, n) = {t \in into : \A e \in jar : Key(e) # Key(t)}
  <2> HIDE DEF d, n
  <2> QED
    BY <1>2, <1>3 DEF LeftAlone, d
<1>7. Living(batch, host, n) = jar
  <2>1. \A x : x \in Living(batch, host, n) <=> \E m \in LastOnes(batch, host, n) : batch[m].expires # "past" /\ x = d(m)
    BY DEF Living
  <2>2. ASSUME NEW e \in jar PROVE e \in Living(batch, host, n)
    <3> DEFINE P == {m \in 1..n : Key(d(m)) = Key(e)}
    <3>1. PICK i \in 1..n : d(i) = e
      BY <1>3
    <3>2. i \in P
      BY <3>1
    <3>3. PICK m \in 1..n : m \in P /\ \A j \in (m + 1)..n : j \notin P
      <4> HIDE DEF P, n
      <4> QED
        BY <1>1, <3>2, LastPlace
    <3>4. \A j \in (m + 1)..n : j \in 1..n
      BY <1>1
    <3>5. m \in LastOnes(batch, host, n)
      <4>1. \A j \in (m + 1)..n : Key(d(j)) # Key(d(m))
        <5> HIDE DEF d, n
        <5> QED
          BY <3>3, <3>4
      <4> QED
        BY <4>1 DEF LastOnes
    <3>6. d(m) = e
      <4>1. Key(d(m)) = Key(e) /\ d(m) \in jar
        BY <1>2, <3>3
      <4> HIDE DEF d
      <4> QED
        BY <4>1 DEF IsSaved
    <3> HIDE DEF d
    <3> QED
      BY <1>2, <2>1, <3>5, <3>6
  <2>3. Living(batch, host, n) \subseteq jar
    <3>1. LastOnes(batch, host, n) \subseteq 1..n
      BY DEF LastOnes
    <3> HIDE DEF d, n
    <3> QED
      BY <1>2, <2>1, <3>1
  <2> HIDE DEF n
  <2> QED
    BY <2>2, <2>3
<1> HIDE DEF n
<1> QED
  BY <1>4, <1>5, <1>6, <1>7 DEF BroughtInto

\* A batch is restored as a whole or not at all: refused for any of its cookies
\* it leaves the jar as it was, and else no cookie that lives has been left out
\* unless a later one of the batch has replaced it.
THEOREM BatchesAreAtomic ==
    ASSUME NEW T, NEW jar, NEW batch \in Seq(T), NEW default
    PROVE  LET r == Restore(jar, batch, default)
           IN /\ ~r.ok => r.jar = jar
              /\ r.ok => /\ \A i \in DOMAIN batch : ~Refused(batch[i], default)
                         /\ \A i \in LastOnes(batch, default, Len(batch)) :
                                batch[i].expires # "past" => Filed(batch[i], default) \in r.jar
<1> DEFINE r == Restore(jar, batch, default)
<1>1. CASE default \in Hosts \cup {Nothing} /\ \A i \in DOMAIN batch : ~Refused(batch[i], default)
  <2>1. r = [jar |-> Store(jar, batch, default), ok |-> TRUE]
    BY <1>1 DEF Restore
  <2>2. \A i \in LastOnes(batch, default, Len(batch)) :
            batch[i].expires # "past" => Filed(batch[i], default) \in Store(jar, batch, default)
    BY LastCookieWins DEF Living
  <2> HIDE DEF r
  <2>3. r.ok /\ r.jar = Store(jar, batch, default)
    BY <2>1
  <2> QED
    BY <1>1, <2>2, <2>3 DEF r
<1>2. CASE ~(default \in Hosts \cup {Nothing} /\ \A i \in DOMAIN batch : ~Refused(batch[i], default))
  <2>1. r = [jar |-> jar, ok |-> FALSE]
    BY <1>2 DEF Restore
  <2> QED
    BY <2>1
<1> QED
  BY <1>1, <1>2

\* A cookie's name is that of its entry's key.
LEMMA NameOfFiled ==
    ASSUME NEW input, NEW default
    PROVE  Filed(input, default).cookie.name = input.name /\ Key(Filed(input, default))[3] = input.name
<1>1. Prepare(input, default).cookie.name = input.name
  BY DEF Prepare
<1> DEFINE c == Prepare(input, default).cookie
           host == HostFor(input, default)
<1> HIDE DEF c, host
<1>2. Entry(host, c).cookie.name = c.name /\ Key(Entry(host, c))[3] = c.name
  BY DEF Entry, Key
<1> QED
  BY <1>1, <1>2 DEF Filed, c, host

\* The sequences of a set of at most two, each in every order, have all of it.
LEMMA OrdersOfTwo ==
    ASSUME NEW x, NEW y, NEW S, S \subseteq {x, y}, NEW s \in SetToSeqs(S)
    PROVE  s \in Seq(S) /\ Range(s) = S
<1> DEFINE n == Cardinality(S)
           D == 1..n
<1>1. IsFiniteSet(S)
  <2>1. IsFiniteSet({x}) /\ IsFiniteSet({y})
    BY FS_Singleton
  <2>2. {x, y} = {x} \cup {y}
    OBVIOUS
  <2>3. IsFiniteSet({x} \cup {y})
    <3> DEFINE a == {x}
               b == {y}
    <3> HIDE DEF a, b
    <3>1. IsFiniteSet(a \cup b)
      BY <2>1, FS_Union DEF a, b
    <3> QED
      BY <3>1 DEF a, b
  <2>4. S \in SUBSET ({x} \cup {y})
    OBVIOUS
  <2> QED
    BY <2>3, <2>4, FS_Subset
<1>2. n \in Nat
  BY <1>1, FS_CardinalityType
<1>3. s \in [D -> S] /\ \A i, j \in D : i # j => s[i] # s[j]
  BY DEF SetToSeqs
<1> HIDE DEF n
<1>4. IsFiniteSet(D) /\ Cardinality(D) = n
  <2>1. 1 \in Int /\ n \in Int
    BY <1>2
  <2>2. IsFiniteSet(1..n) /\ Cardinality(1..n) = IF 1 > n THEN 0 ELSE n - 1 + 1
    BY <2>1, FS_Interval
  <2> QED
    BY <1>2, <2>2
<1>5. s \in Seq(S)
  BY <1>2, <1>3
<1>6. s \in Injection(D, S)
  BY <1>3 DEF Injection, IsInjective
<1>7. s \in Surjection(D, S)
  <2>1. Cardinality(D) = Cardinality(S)
    BY <1>4 DEF n
  <2> HIDE DEF D
  <2> QED
    BY <1>1, <1>6, <2>1, FS_Injection
<1>8. Range(s) = S
  BY <1>3, <1>7 DEF Range, Surjection
<1> QED
  BY <1>5, <1>8

\* The samples that are evaluated are among them.
LEMMA SampleJars == RestoreIsExact
<1> SUFFICES ASSUME NEW jar \in SmallJars, NEW into \in SmallJars, NEW host \in Hosts,
                    \A e \in jar : e.cookie.domain = Nothing => e.host = host,
                    NEW batch \in SetToSeqs(Inputs(Export(jar)))
             PROVE  Restore(into, batch, host) =
                        [ok |-> TRUE, jar |-> jar \cup {t \in into : \A e \in jar : Key(e) # Key(t)}]
  BY DEF RestoreIsExact
<1> DEFINE E == {e \in JarEntries : e.cookie.domain \in {e.host, Nothing}}
<1>1. /\ jar \subseteq E
      /\ \A x, y \in jar : Key(x) = Key(y) => x = y
      /\ \E x, y : jar \subseteq {x, y}
  BY DEF SmallJars
<1>2. ASSUME NEW e \in E
      PROVE  e \in [host : Hosts, cookie : JarCookies] /\ e.cookie.domain \in {e.host, Nothing}
  BY DEF JarEntries, Entry, JarCookies
<1>3. IsSaved(jar, host)
  <2> HIDE DEF E
  <2> QED
    BY <1>1, <1>2 DEF IsSaved
<1>4. IsExportOf(batch, jar)
  <2>1. PICK x, y : jar \subseteq {x, y}
    BY <1>1
  <2>2. Inputs(Export(jar)) \subseteq {Input(x.cookie), Input(y.cookie)}
    BY <2>1 DEF Inputs, Export
  <2> QED
    BY <2>2, OrdersOfTwo DEF IsExportOf
<1> QED
  BY <1>3, <1>4, SavedJarsComeBack DEF BroughtInto

LEMMA SampleBatches == BatchIsAtomic
<1> SUFFICES ASSUME NEW a \in BatchInputs, NEW b \in BatchInputs, NEW default
             PROVE  LET r == Restore({}, <<a, b>>, default)
                        stored == {e.cookie.name : e \in r.jar}
                    IN IF r.ok
                       THEN /\ \A c \in {a, b} : c.name # Blank /\ c.sameSite # "sometimes" /\ c.expires # "nan"
                            /\ b.expires # "past" => b.name \in stored
                            /\ a.expires # "past" => a.name \in stored \/ b.expires = "past"
                       ELSE r.jar = {}
  BY DEF BatchIsAtomic
<1> DEFINE batch == <<a, b>>
           r == Restore({}, batch, default)
           stored == {e.cookie.name : e \in r.jar}
<1>1. batch \in Seq(BatchInputs) /\ Len(batch) = 2 /\ DOMAIN batch = {1, 2} /\ batch[1] = a /\ batch[2] = b
  OBVIOUS
<1> HIDE DEF batch
<1>2. /\ ~r.ok => r.jar = {}
      /\ r.ok => /\ \A i \in DOMAIN batch : ~Refused(batch[i], default)
                 /\ \A i \in LastOnes(batch, default, Len(batch)) :
                        batch[i].expires # "past" => Filed(batch[i], default) \in r.jar
  BY <1>1, BatchesAreAtomic
<1> HIDE DEF r
<1>3. CASE r.ok
  <2>1. ~Refused(a, default) /\ ~Refused(b, default)
    BY <1>1, <1>2, <1>3
  <2>2. ASSUME NEW c, ~Refused(c, default)
        PROVE  c.name # Blank /\ c.sameSite # "sometimes" /\ c.expires # "nan"
    BY <2>2, CookieAssumption DEF Refused
  <2>3. 2 \in LastOnes(batch, default, 2)
    BY DEF LastOnes
  <2>4. b.expires # "past" => Filed(b, default) \in r.jar
    BY <1>1, <1>2, <1>3, <2>3
  <2>5. b.expires # "past" => b.name \in stored
    BY <2>4, NameOfFiled
  <2>6. ASSUME a.expires # "past", b.expires # "past" PROVE a.name \in stored
    <3>1. CASE Key(Filed(a, default)) = Key(Filed(b, default))
      BY <2>5, <2>6, <3>1, NameOfFiled
    <3>2. CASE Key(Filed(a, default)) # Key(Filed(b, default))
      <4>1. \A j \in (1 + 1)..2 : j = 2
        OBVIOUS
      <4>2. 1 \in LastOnes(batch, default, 2)
        BY <1>1, <3>2, <4>1 DEF LastOnes
      <4>3. Filed(a, default) \in r.jar
        BY <1>1, <1>2, <1>3, <2>6, <4>2
      <4> QED
        BY <4>3, NameOfFiled
    <3> QED
      BY <3>1, <3>2
  <2> QED
    BY <1>3, <2>1, <2>2, <2>5, <2>6 DEF r, batch
<1>4. CASE ~r.ok
  BY <1>2, <1>4 DEF r, batch
<1> QED
  BY <1>3, <1>4

\* What a session saves and restores of its cookies is what it has promised.
THEOREM CookiesKeepTheirPromises == Spec => []StartCookies
<1>1. StartCookies
  BY SampleJars, SampleBatches DEF StartCookies
<1> QED
  BY <1>1, PTL
===============================================================================
