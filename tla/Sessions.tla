------------------------------ MODULE Sessions ------------------------------
(***************************************************************************)
(* Sessions, transports and cookie jars.                                   *)
(*                                                                         *)
(* A Session object holds an id and a transport of its own; the native     *)
(* side keeps the client of the transport in TRANSPORT_MANAGER, under the  *)
(* transport's id, and the cookie jar in SESSION_MANAGER, under the        *)
(* session's id and for as long as it is not idle for 300 seconds.         *)
(* A fetch checks its session in JavaScript, awaits its arguments and its  *)
(* body, and only then hands ids to a native task, which looks up the      *)
(* transport and then the jar, and creates a jar where it finds none.      *)
(* Between any two of these steps the session may close.  A program names  *)
(* an id in fetch({sessionId}) only after it has created the session.      *)
(*                                                                         *)
(* The jar that createSession makes is named by the session, one that a    *)
(* request makes by the request, and a cookie by the pair of the session   *)
(* and the request that stored it.                                         *)
(***************************************************************************)
EXTENDS FiniteSets

CONSTANTS
    Sessions,   \* the calls of createSession
    Requests,   \* the calls of fetch, websocket() and the cookie functions
    Ids,        \* session ids
    IdOf,       \* IdOf[s]: the id of s, a random UUID unless the caller gives one
    Shared,     \* the one Transport object, made by createTransport
    None        \* no session, no jar

ASSUME SessionAssumption ==
    /\ Sessions \cap Requests = {}
    /\ Shared \notin Sessions
    /\ None \notin Sessions \cup Requests
    /\ IdOf \in [Sessions -> Ids]

VARIABLES
    session,     \* session[s]: the Session object
    transport,   \* the Transport object
    clients,     \* TRANSPORT_MANAGER, by the owner of the transport
    jars,        \* jars[i]: the jar SESSION_MANAGER has under i
    content,     \* content[j]: the cookies in jar j
    phase,       \* phase[r]: where request r stands
    target,      \* target[r]: its session
    via,         \* via[r]: how it was called
    explicit,    \* requests with a transport option
    held,        \* held[r]: the jar its task uses
    expired,     \* history: ids whose jar expired
    overtaken    \* history: requests whose session closed between their two lookups

vars == <<session, transport, clients, jars, content, phase, target, via,
          explicit, held, expired, overtaken>>

Jars == Sessions \cup Requests
Cookies == (Sessions \cup {None}) \X Requests

SessionState == {"none", "open", "dropped", "closed"}
Phase == {"idle", "called", "resolved", "dispatched", "client", "missed",
          "sending", "done"}   \* "done": the call has returned, well or not

\* session.fetch(), fetch({sessionId}), a fetch without a session, whose jar is
\* ephemeral, session.websocket(), and a cookie function of a session.
Via == {"session", "id", "ephemeral", "websocket", "cookies"}

Init ==
    /\ session = [s \in Sessions |-> "none"]
    /\ transport = "none"
    /\ clients = {}
    /\ jars = [i \in Ids |-> None]
    /\ content = [j \in Jars |-> {}]
    /\ phase = [r \in Requests |-> "idle"]
    /\ target = [r \in Requests |-> None]
    /\ via = [r \in Requests |-> "ephemeral"]
    /\ explicit = {}
    /\ held = [r \in Requests |-> None]
    /\ expired = {}
    /\ overtaken = {}

requestVars == <<phase, target, via, explicit, held>>

\* A cookie function is synchronous: nothing else of JavaScript runs meanwhile,
\* only native tasks do.
ScriptFree ==
    \A r \in Requests : via[r] = "cookies" => phase[r] \in {"idle", "done"}

-----------------------------------------------------------------------------
(* The Session and Transport objects.                                      *)

\* createSession: a transport and a new jar, whatever jar the id had.
CreateSession(s) ==
    /\ ScriptFree
    /\ session[s] = "none"
    /\ session' = [session EXCEPT ![s] = "open"]
    /\ clients' = clients \cup {s}
    /\ jars' = [jars EXCEPT ![IdOf[s]] = s]
    /\ UNCHANGED <<transport, content, requestVars, expired, overtaken>>

CreateTransport ==
    /\ ScriptFree
    /\ transport = "none"
    /\ transport' = "open"
    /\ clients' = clients \cup {Shared}
    /\ UNCHANGED <<session, jars, content, requestVars, expired, overtaken>>

\* Mutant: the transport stays.
MutCloseSession(s) ==
    /\ ScriptFree
    /\ session[s] = "open"
    /\ session' = [session EXCEPT ![s] = "closed"]
    /\ jars' = [jars EXCEPT ![IdOf[s]] = None]
    /\ overtaken' = overtaken \cup
         {r \in Requests : target[r] = s /\ phase[r] \in {"client", "missed"}}
    /\ UNCHANGED <<transport, clients, content, requestVars, expired>>

\* Session.close(): it drops the jar and the transport of the session, in one
\* step: a task that runs between the two might as well have run before.
CloseSession(s) ==
    /\ ScriptFree
    /\ session[s] = "open"
    /\ session' = [session EXCEPT ![s] = "closed"]
    /\ jars' = [jars EXCEPT ![IdOf[s]] = None]
    /\ clients' = clients \ {s}
    /\ overtaken' = overtaken \cup
         {r \in Requests : target[r] = s /\ phase[r] \in {"client", "missed"}}
    /\ UNCHANGED <<transport, content, requestVars, expired>>

CloseTransport ==
    /\ ScriptFree
    /\ transport = "open"
    /\ transport' = "closed"
    /\ clients' = clients \ {Shared}
    /\ UNCHANGED <<session, jars, content, requestVars, expired, overtaken>>

\* The program loses its last reference to a Session that is not closed; no
\* finalizer watches the object.
DropSession(s) ==
    /\ ScriptFree
    /\ session[s] = "open"
    /\ session' = [session EXCEPT ![s] = "dropped"]
    /\ UNCHANGED <<transport, clients, jars, content, requestVars, expired,
                   overtaken>>

\* clearCookies: it throws when the jar has expired.
ClearCookies(s) ==
    /\ ScriptFree
    /\ session[s] = "open"
    /\ jars[IdOf[s]] # None
    /\ content' = [content EXCEPT ![jars[IdOf[s]]] = {}]
    /\ UNCHANGED <<session, transport, clients, jars, requestVars, expired,
                   overtaken>>

-----------------------------------------------------------------------------
(* A call in JavaScript.                                                   *)

Called(r, s, how, to) ==
    /\ ScriptFree
    /\ phase[r] = "idle"
    /\ phase' = [phase EXCEPT ![r] = to]
    /\ target' = [target EXCEPT ![r] = s]
    /\ via' = [via EXCEPT ![r] = how]
    /\ UNCHANGED <<session, transport, clients, jars, content, held, expired,
                   overtaken>>

\* ensureActive has passed; a fetch by id never asks for the Session, and a
\* fetch needs none at all.
CallFetch(r) ==
    /\ \/ \E s \in Sessions : session[s] = "open" /\ Called(r, s, "session", "called")
       \/ \E s \in Sessions : session[s] # "none" /\ Called(r, s, "id", "called")
       \/ Called(r, None, "ephemeral", "called")
    /\ \/ UNCHANGED explicit
       \/ transport # "none" /\ explicit' = explicit \cup {r}

\* session.websocket() checks the session and starts its native task at once.
CallWebSocket(r, s) ==
    /\ session[s] = "open"
    /\ Called(r, s, "websocket", "dispatched")
    /\ UNCHANGED explicit

\* setCookie, setCookies, getCookies and getAllCookies use no client.
CallCookies(r, s) ==
    /\ session[s] = "open"
    /\ Called(r, s, "cookies", "client")
    /\ UNCHANGED explicit

Advance(r, from, to) ==
    /\ phase[r] = from
    /\ phase' = [phase EXCEPT ![r] = to]
    /\ UNCHANGED <<target, via, explicit>>

\* After resolveFetchArgs: resolveSessionContext looks at the session again.
ResolveSession(r) ==
    /\ ScriptFree
    /\ Advance(r, "called",
               IF via[r] = "session" /\ session[target[r]] = "closed"
               THEN "done" ELSE "resolved")
    /\ UNCHANGED <<session, transport, clients, jars, content, held, expired,
                   overtaken>>

\* After serializeBody: resolveTransportContext looks at an explicit
\* transport, nobody looks at the session, and the native task starts.
Dispatch(r) ==
    /\ ScriptFree
    /\ Advance(r, "resolved",
               IF r \in explicit /\ transport # "open"
               THEN "done" ELSE "dispatched")
    /\ UNCHANGED <<session, transport, clients, jars, content, held, expired,
                   overtaken>>

-----------------------------------------------------------------------------
(* Its native task.                                                        *)

\* Mutant: the transport of a session need not be there.
MutCarrier(r) == IF r \in explicit THEN {Shared} ELSE {}

\* The transport that make_request looks up in TRANSPORT_MANAGER, if any.
Carrier(r) ==
    CASE r \in explicit                      -> {Shared}
      [] via[r] \in {"session", "websocket"} -> {target[r]}
      [] OTHER                              -> {}

\* A request without a transport builds a client, or shares an ephemeral one.
GetTransport(r) ==
    /\ \/ Carrier(r) \subseteq clients /\ Advance(r, "dispatched", "client")
       \/ (Carrier(r) = {} \/ ~ Carrier(r) \subseteq clients)
             /\ Advance(r, "dispatched", "done")
    /\ UNCHANGED <<session, transport, clients, jars, content, held, expired,
                   overtaken>>

\* Mutant: the request keeps the id where a jar belongs.
MutFindJar(r) ==
    /\ via[r] # "ephemeral"
    /\ jars[IdOf[target[r]]] # None
    /\ Advance(r, "client", "sending")
    /\ held' = [held EXCEPT ![r] = IdOf[target[r]]]
    /\ UNCHANGED <<session, transport, clients, jars, content, expired, overtaken>>

\* jar_for finds the jar of the id.
FindJar(r) ==
    /\ via[r] # "ephemeral"
    /\ jars[IdOf[target[r]]] # None
    /\ Advance(r, "client", "sending")
    /\ held' = [held EXCEPT ![r] = jars[IdOf[target[r]]]]
    /\ UNCHANGED <<session, transport, clients, jars, content, expired, overtaken>>

\* Mutant: it misses jars that are there.
MutMissJar(r) ==
    /\ via[r] # "ephemeral"
    /\ Advance(r, "client", "missed")
    /\ UNCHANGED <<session, transport, clients, jars, content, held, expired,
                   overtaken>>

\* jar_for finds none ...
MissJar(r) ==
    /\ via[r] # "ephemeral"
    /\ jars[IdOf[target[r]]] = None
    /\ Advance(r, "client", "missed")
    /\ UNCHANGED <<session, transport, clients, jars, content, held, expired,
                   overtaken>>

\* ... and inserts a new one, over any that came in between.
InsertJar(r) ==
    /\ Advance(r, "missed", "sending")
    /\ held' = [held EXCEPT ![r] = r]
    /\ jars' = [jars EXCEPT ![IdOf[target[r]]] = r]
    /\ UNCHANGED <<session, transport, clients, content, expired, overtaken>>

\* An ephemeral request gets a jar that no manager knows.
PrivateJar(r) ==
    /\ via[r] = "ephemeral"
    /\ Advance(r, "client", "sending")
    /\ held' = [held EXCEPT ![r] = r]
    /\ UNCHANGED <<session, transport, clients, jars, content, expired, overtaken>>

\* The response stores a cookie or none, perhaps before it fails; a cookie
\* function stores one or reads; the upgrade of a WebSocket only reads.
Receive(r) ==
    /\ Advance(r, "sending", "done")
    /\ \/ UNCHANGED content
       \/ /\ via[r] # "websocket"
          /\ content' = [content EXCEPT ![held[r]] = @ \cup {<<target[r], r>>}]
    /\ UNCHANGED <<session, transport, clients, jars, held, expired, overtaken>>

\* The task of an aborted fetch is dropped before it starts or where it waits
\* for the network.
Cancel(r) ==
    /\ ScriptFree
    /\ via[r] # "websocket"
    /\ Advance(r, "dispatched", "done") \/ Advance(r, "sending", "done")
    /\ UNCHANGED <<session, transport, clients, jars, content, held, expired,
                   overtaken>>

\* Mutant: a jar stays as long as some request refers to it.
MutExpireJar(i) ==
    /\ jars[i] # None
    /\ \A r \in Requests : held[r] # jars[i]
    /\ jars' = [jars EXCEPT ![i] = None]
    /\ expired' = expired \cup {i}
    /\ UNCHANGED <<session, transport, clients, content, requestVars, overtaken>>

\* A jar nobody asked for during 300 seconds is evicted.
ExpireJar(i) ==
    /\ jars[i] # None
    /\ jars' = [jars EXCEPT ![i] = None]
    /\ expired' = expired \cup {i}
    /\ UNCHANGED <<session, transport, clients, content, requestVars, overtaken>>

-----------------------------------------------------------------------------

SessionStep(s) ==
    \/ CreateSession(s)
    \/ CloseSession(s)
    \/ DropSession(s)
    \/ ClearCookies(s)

ScriptStep(r) ==
    \/ CallFetch(r)
    \/ \E s \in Sessions : CallWebSocket(r, s) \/ CallCookies(r, s)
    \/ Cancel(r)

TaskStep(r) ==
    \/ ResolveSession(r)
    \/ Dispatch(r)
    \/ GetTransport(r)
    \/ FindJar(r)
    \/ MissJar(r)
    \/ InsertJar(r)
    \/ PrivateJar(r)
    \/ Receive(r)

Next ==
    \/ \E s \in Sessions : SessionStep(s)
    \/ CreateTransport
    \/ CloseTransport
    \/ \E r \in Requests : ScriptStep(r) \/ TaskStep(r)
    \/ \E i \in Ids : ExpireJar(i)

Spec == Init /\ [][Next]_vars

\* Requests go on to their end, and idle jars do expire.
Fairness ==
    /\ \A r \in Requests : WF_vars(TaskStep(r))
    /\ \A i \in Ids : WF_vars(ExpireJar(i))

FairSpec == Spec /\ Fairness

-----------------------------------------------------------------------------
(* What makes it correct.                                                  *)

\* The types of the variables: a request holds a jar and never an id.
TypeOK ==
    /\ session \in [Sessions -> SessionState]
    /\ transport \in {"none", "open", "closed"}
    /\ clients \subseteq Sessions \cup {Shared}
    /\ jars \in [Ids -> Jars \cup {None}]
    /\ content \in [Jars -> SUBSET Cookies]
    /\ phase \in [Requests -> Phase]
    /\ target \in [Requests -> Sessions \cup {None}]
    /\ via \in [Requests -> Via]
    /\ explicit \subseteq Requests
    /\ held \in [Requests -> Jars \cup {None}]
    /\ expired \subseteq Ids
    /\ overtaken \subseteq Requests

\* The jar that requests of s find now, and its cookies.
VisibleJar(s) == IF session[s] \in {"open", "dropped"} THEN jars[IdOf[s]] ELSE None
Visible(s) == IF VisibleJar(s) = None THEN {} ELSE content[VisibleJar(s)]

\* TRANSPORT_MANAGER, which nothing ever evicts, holds the transports of the
\* objects that are not closed and no others.
TransportScope ==
    clients = {s \in Sessions : session[s] \in {"open", "dropped"}}
                 \cup (IF transport = "open" THEN {Shared} ELSE {})

\* close() is final for the jar: after it, only a request that does not go
\* through the session's own transport, or that had looked it up before
\* close(), can bring the id back into SESSION_MANAGER, with a new jar.
ClosedJarScope ==
    \A s \in Sessions :
        session[s] = "closed" /\ jars[IdOf[s]] # None =>
            \E r \in Requests :
                /\ jars[IdOf[s]] = r
                /\ target[r] = s
                /\ r \in explicit \/ via[r] = "id" \/ r \in overtaken

\* What such requests bring back does not stay.
ClosedJarReclaimed ==
    \A s \in Sessions : session[s] = "closed" ~> [](jars[IdOf[s]] = None)

\* Sessions implement their contract: own jar, own cookies, and no other jar
\* while they are open, but after an idle expiry.
Contract == INSTANCE SessionContract WITH
    state <- [s \in Sessions |-> IF session[s] = "dropped" THEN "open" ELSE session[s]],
    jar <- [s \in Sessions |-> VisibleJar(s)],
    cookies <- [s \in Sessions |-> Visible(s)],
    expired <- {s \in Sessions : IdOf[s] \in expired}
ContractSpec == Contract!Spec

\* docs/concepts/sessions.mdx: "All requests share the same cookie jar", and
\* clearCookies is the way to remove cookies from it.
KeptUntilCleared ==
    [][\A s \in Sessions :
          session[s] = "open" /\ session'[s] = "open" /\ ~ClearCookies(s) =>
              Visible(s) \subseteq Visible(s)']_vars
=============================================================================
