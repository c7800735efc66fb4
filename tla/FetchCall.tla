------------------------------ MODULE FetchCall ------------------------------
(***************************************************************************)
(* How a call of fetch(), get(), post(), request() or session.fetch()      *)
(* becomes the options of one native request.  fetch() runs in three       *)
(* pieces with an await between them: resolveFetchArgs, the checks up to   *)
(* serializeBody, and the rest up to dispatchRequest.  In between the      *)
(* program runs: it may start other calls, edit the init object or the     *)
(* Headers object it has passed, and close the session or the transport.   *)
(* A session has one array of default headers for all of its calls.        *)
(*                                                                         *)
(* Request takes over where a call is sent; Sessions says what the native  *)
(* side does with the id.  Times are in halves of a millisecond.           *)
(***************************************************************************)
EXTENDS Emulation, FiniteSets

CONSTANTS
    Calls,
    Menu,            \* the arguments programs pass: see IsArguments
    SessionHeaders,  \* defaultHeaders of the session, as tuples, or None
    Locked,          \* its emulation, proxy and trust settings
    SessionTimeout,  \* its timeout, or None
    ContentType,     \* the key of content-type
    Mine,            \* stands for the Headers object of the program
    Edited,          \* the headers, as tuples, that it sets and deletes in it
    MaxEdits         \* bound: edits of objects the program has passed

DefaultTimeout == 600000

\* The names and the values of the headers that programs pass: a name may be
\* blank, and a value may be missing.
GivenNames == Names \cup {Name(Blank, f) : f \in Forms}
GivenTuples == [name : GivenNames, value : {None} \cup Seq(Values)]

\* The fields of an init object, and in "options" those that are given of its
\* emulation, proxy and trust settings.
IsArguments(m) ==
    /\ DOMAIN m = {"via", "request", "method", "body", "headers", "timeout", "session", "sessionId",
                   "cookieMode", "ephemeral", "redirect", "transport", "options"}
    /\ m.via \in {"fetch", "session", "get", "post", "request"}
    /\ m.method \in {None, Blank, "GET", "HEAD", "POST", " head "}
    /\ m.body \in {None, "plain", "typed", "stream"}
    /\ \/ m.headers \in {None, Mine}
       \/ m.headers.kind \in {"tuples", "object"} /\ m.headers.items \in Seq(GivenTuples)
    /\ m.timeout \in {None} \cup Int
    /\ m.sessionId \in {None, "id", Blank}
    /\ m.cookieMode \in {None, "session", "ephemeral"}
    /\ m.redirect \in {None, "follow", "manual", "error", "other"}
    /\ {m.request, m.session, m.ephemeral, m.transport} \subseteq BOOLEAN
    /\ DOMAIN m.options \subseteq {"emulation", "browser", "os", "proxy", "proxyHeaders", "insecure",
                                   "trustStore"}

\* createSession checks its timeout and turns its headers into tuples.
ASSUME CallAssumption ==
    /\ \A m \in Menu : IsArguments(m)
    /\ SessionHeaders \in {None} \cup Seq([name : Names, value : Seq(Values)])
    /\ SessionTimeout \in {None} \cup Nat
    /\ Edited \subseteq [name : Names, value : Seq(Values)]
    /\ ContentType \in Keys \ {SetCookie}
    /\ MaxEdits \in Nat

VARIABLES
    pc,           \* where a call is
    config,       \* its init object, as it is now
    context,      \* what fetch() has computed before serializeBody
    sent,         \* the options of the native request
    own,          \* the Headers object of the program
    defaults,     \* the session's array of default headers
    sessionOpen, transportOpen,
    requestUsed,  \* bodyUsed of the program's Request object
    profiles,     \* cachedProfiles, the array getProfiles() returns
    profileSet,   \* cachedProfileSet
    edits,        \* how many edits there were
    tampered      \* history: the array was edited before the set was made

callVars == <<pc, config, context, sent>>
sharedVars == <<own, defaults, sessionOpen, transportOpen, requestUsed>>
cacheVars == <<profiles, profileSet, edits, tampered>>
vars == <<callVars, sharedVars, cacheVars>>

Init ==
    /\ pc = [c \in Calls |-> "idle"]
    /\ config = [c \in Calls |-> None]
    /\ context = [c \in Calls |-> None]
    /\ sent = [c \in Calls |-> None]
    /\ own = <<>>
    /\ defaults = SessionHeaders
    /\ sessionOpen = TRUE /\ transportOpen = TRUE
    /\ requestUsed = FALSE
    /\ profiles = None /\ profileSet = None
    /\ edits = 0 /\ tampered = FALSE

Reject(c) == pc' = [pc EXCEPT ![c] = "rejected"]

-----------------------------------------------------------------------------
(* The caches of profiles.                                                 *)

Array == IF profiles = None THEN NativeProfiles ELSE profiles

\* Mutant: profiles are looked up in the array.
MutKnown == Array

\* getProfileSet().
Known == IF profileSet = None THEN Array ELSE profileSet

\* Validating a browser makes the set, and with it the array.
UseProfiles(browser) ==
    IF browser = None THEN UNCHANGED cacheVars
    ELSE /\ profiles' = Array
         /\ profileSet' = Known
         /\ UNCHANGED <<edits, tampered>>

\* getProfiles() returns the cached array itself; the program edits it.
EditProfiles(array) ==
    /\ edits < MaxEdits
    /\ edits' = edits + 1
    /\ profiles' = array
    /\ tampered' = (tampered \/ profileSet = None)
    /\ UNCHANGED <<callVars, sharedVars, profileSet>>

-----------------------------------------------------------------------------
(* The three pieces of a call.                                             *)

\* Whether the call takes the body of the Request object.
TakesBody(m) == m.request /\ m.body = None

\* get() and post() copy the init and set the method.
FromHelper(m) ==
    IF m.via \in {"get", "post"} THEN [m EXCEPT !.method = IF m.via = "get" THEN "GET" ELSE "POST"]
    ELSE m

\* request() copies the options one by one; its old flag is a cookie mode.
FromLegacy(m) ==
    IF m.via = "request" /\ m.cookieMode = None /\ m.ephemeral
    THEN [m EXCEPT !.cookieMode = "ephemeral"] ELSE m

\* session.fetch() copies the init and sets the session.
FromSession(m) == IF m.via = "session" THEN [m EXCEPT !.session = TRUE] ELSE m

\* resolveFetchArgs takes what the init lacks from a Request.
FromRequest(m) ==
    IF m.request
    THEN [m EXCEPT !.method = IF @ = None THEN "POST" ELSE @,
                   !.body = IF TakesBody(m) THEN "plain" ELSE @]
    ELSE m

\* The init that fetch() works with.  Only if fetch() was called itself, and not
\* with a Request, is it the object of the program ("live").
Entered(m) ==
    LET g == FromRequest(FromSession(FromLegacy(FromHelper(m))))
    IN [f \in DOMAIN g \cup {"live", "takes"} |->
           CASE f = "live" -> m.via = "fetch" /\ ~m.request
             [] f = "takes" -> TakesBody(m)
             [] OTHER -> g[f]]

\* Mutant: the use of the Request's body is noted when its bytes are there.
MutCall(c, m) ==
    /\ pc[c] = "idle"
    /\ config' = [config EXCEPT ![c] = Entered(m)]
    /\ \/ /\ (m.via = "session" /\ ~sessionOpen) \/ (TakesBody(m) /\ requestUsed)
          /\ Reject(c)
       \/ /\ ~(m.via = "session" /\ ~sessionOpen) /\ ~(TakesBody(m) /\ requestUsed)
          /\ pc' = [pc EXCEPT ![c] = "resolving"]
    /\ UNCHANGED <<context, sent, own, defaults, sessionOpen, transportOpen, requestUsed, cacheVars>>

\* The call up to its first await: session.fetch() checks its session,
\* resolveFetchArgs takes what the init lacks from a Request and starts to read
\* the body of it.
Call(c, m) ==
    /\ pc[c] = "idle"
    /\ config' = [config EXCEPT ![c] = Entered(m)]
    /\ IF (m.via = "session" /\ ~sessionOpen) \/ (TakesBody(m) /\ requestUsed)
       THEN Reject(c) /\ UNCHANGED requestUsed
       ELSE /\ pc' = [pc EXCEPT ![c] = "resolving"]
            /\ requestUsed' = (requestUsed \/ TakesBody(m))
    /\ UNCHANGED <<context, sent, own, defaults, sessionOpen, transportOpen, cacheVars>>

\* Mutant: an id without cookieMode "session" is not looked at.
MutSessionContext(g) ==
    IF g.session /\ g.sessionId = "id" THEN Error
    ELSE IF g.session THEN IF sessionOpen THEN "session" ELSE Error
    ELSE IF g.cookieMode = "session" THEN IF g.sessionId = "id" THEN "id" ELSE Error
    ELSE "ephemeral"

\* resolveSessionContext.  The id is trimmed, and a blank one is no id.
SessionContext(g) ==
    IF g.session /\ g.sessionId = "id" THEN Error
    ELSE IF g.session THEN IF sessionOpen THEN "session" ELSE Error
    ELSE IF g.sessionId = "id" THEN IF g.cookieMode = "session" THEN "id" ELSE Error
    ELSE IF g.cookieMode = "session" THEN Error
    ELSE "ephemeral"

\* Mutant: the sign is not looked at.
MutTimeoutValid(t) == TRUE

\* validateTimeout; other than finite numbers is refused like a negative one.
TimeoutValid(t) == t = None \/ t >= 0

\* ensureMethod: trimmed, in capitals, GET by default.
EnsureMethod(m) == IF m \in {None, Blank} THEN "GET" ELSE IF m = " head " THEN "HEAD" ELSE m

TrustStoreValid(s) == s \in {None, "combined", "mozilla", "defaultPaths"}

\* A field that may be absent.
Given(o, n) == IF n \in DOMAIN o THEN o[n] ELSE None

\* From the first await to the second: session, timeout and method are
\* settled, and serializeBody begins with the body the init now has.
Resolve(c) ==
    LET g == config[c]
        session == SessionContext(g)
    IN /\ pc[c] = "resolving"
       /\ IF session = Error \/ g.redirect = "other" \/ ~TimeoutValid(g.timeout)
             \/ ~TrustStoreValid(Given(g.options, "trustStore"))
          THEN Reject(c) /\ UNCHANGED context
          ELSE /\ pc' = [pc EXCEPT ![c] = "serializing"]
               /\ context' = [context EXCEPT ![c] =
                     [session |-> session, body |-> g.body,
                      method |-> EnsureMethod(g.method)]]
       /\ UNCHANGED <<config, sent, sharedVars, cacheVars>>

\* A stream or iterable that is the body fails while it is read.
BodyFails(c) ==
    /\ pc[c] = "serializing"
    /\ context[c].body = "stream"
    /\ Reject(c)
    /\ UNCHANGED <<config, context, sent, sharedVars, cacheVars>>

\* Mutant: only GET is looked at.
MutBodyAllowed(x) == x.body # None => x.method # "GET"

\* ensureBodyAllowed.
BodyAllowed(x) == x.body # None => x.method \notin {"GET", "HEAD"}

\* The headers argument, with what the Headers object holds now.
HeadersOf(g) == IF g.headers = Mine THEN InitOf("headers", ToTuples(own)) ELSE g.headers

\* FormData, URLSearchParams and Blob have a content type of their own, with a
\* new boundary for every FormData.
TypeTuple(c) == HeaderTuple(Name(ContentType, CHOOSE f \in Forms : TRUE), <<c>>)

\* Mutant: the merged list becomes the new defaults.
MutDefaultsAfter(merged, added, aliased) == IF defaults = None THEN None ELSE merged \o added

\* The array that gets the content type is the array of the defaults if the
\* merge has returned it.
DefaultsAfter(merged, added, aliased) == IF aliased THEN merged \o added ELSE defaults

\* What a session's transport does not let a call change.
Conflicts(o) ==
    \/ "emulation" \in DOMAIN o
    \/ "browser" \in DOMAIN o /\ ResolveProfile(Known, o.browser) # Locked.browser
    \/ \E n \in {"os", "proxy", "insecure", "trustStore"} \cap DOMAIN o : o[n] # Locked[n]
    \/ LET p == NormalizeProxyHeaders(Given(o, "proxyHeaders"))
       IN p # None /\ ~HeaderTuplesEqual(Locked.proxyHeaders, p)

OwnMode(o) == ResolveEmulationMode(Known, Given(o, "browser"), Given(o, "os"), Given(o, "emulation"))

\* resolveTransportContext: the transport of the call, that of its session, or
\* the settings of the call itself.
TransportContext(g, session) ==
    IF g.transport
    THEN IF ~transportOpen \/ DOMAIN g.options # {} THEN Error ELSE [over |-> "transport"]
    ELSE IF session = "session"
    THEN IF Conflicts(g.options) THEN Error ELSE [over |-> "session"]
    ELSE IF OwnMode(g.options) = Error THEN Error
    ELSE [over |-> "settings", mode |-> OwnMode(g.options)]

\* The browser that is looked up on the way, if any.
LookedUp(g, session) ==
    IF g.transport \/ (session = "session" /\ "emulation" \in DOMAIN g.options) THEN None
    ELSE Given(g.options, "browser")

\* The timeout of a request.  What the native side makes of it is cut off to
\* milliseconds, and 0 is no limit.
Timeout(g, session) ==
    IF g.timeout # None THEN g.timeout
    ELSE IF session = "session" /\ SessionTimeout # None THEN SessionTimeout
    ELSE DefaultTimeout
NativeLimit(t) == IF t < 0 THEN 0 ELSE t \div 2

\* From the second await to the native call.  The init is read again for the
\* headers, the transport and the timeout.  Headers are merged, and the
\* defaults perhaps extended, before the transport is looked at.
Send(c) ==
    LET g == config[c]
        x == context[c]
        usual == IF x.session = "session" THEN defaults ELSE None
        given == HeadersOf(g)
        merged == MergeHeaderTuples(usual, given)
        list == IF merged = None THEN <<>> ELSE merged
        added == IF x.body = "typed" /\ ~HasHeaderName(merged, ContentType)
                 THEN <<TypeTuple(c)>> ELSE <<>>
        transport == TransportContext(g, x.session)
    IN /\ pc[c] = "serializing"
       /\ IF ~BodyAllowed(x) \/ (given # None /\ InitThrows(given))
          THEN Reject(c) /\ UNCHANGED <<sent, defaults, cacheVars>>
          ELSE /\ defaults' = DefaultsAfter(list, added, MergeIsDefaults(usual, given))
               /\ UseProfiles(LookedUp(g, x.session))
               /\ IF transport = Error
                  THEN Reject(c) /\ UNCHANGED sent
                  ELSE /\ pc' = [pc EXCEPT ![c] = "sent"]
                       /\ sent' = [sent EXCEPT ![c] =
                             [method |-> x.method, body |-> x.body, headers |-> list \o added,
                              session |-> x.session, transport |-> transport,
                              timeout |-> Timeout(g, x.session), given |-> given]]
       /\ UNCHANGED <<config, context, own, sessionOpen, transportOpen, requestUsed>>

-----------------------------------------------------------------------------
(* The program in between.                                                 *)

\* An init object that fetch() holds is edited.
EditInit(c) ==
    /\ edits < MaxEdits
    /\ pc[c] \in {"resolving", "serializing"} /\ config[c].live
    /\ \/ config' = [config EXCEPT ![c].timeout = 0 - 2]
       \/ config' = [config EXCEPT ![c].method = "HEAD"]
       \/ config' = [config EXCEPT ![c].session = FALSE]
    /\ edits' = edits + 1
    /\ UNCHANGED <<pc, context, sent, sharedVars, profiles, profileSet, tampered>>

\* The Headers object is edited; calls share it even if they copy their init.
EditOwn ==
    /\ edits < MaxEdits
    /\ \E t \in Edited :
          own' \in {HeaderSet(own, t.name, t.value), HeaderAppend(own, t.name, t.value),
                   HeaderDelete(own, t.name.key)}
    /\ edits' = edits + 1
    /\ UNCHANGED <<callVars, defaults, sessionOpen, transportOpen, requestUsed,
                   profiles, profileSet, tampered>>

Close ==
    /\ \/ sessionOpen' = FALSE /\ UNCHANGED transportOpen
       \/ transportOpen' = FALSE /\ UNCHANGED sessionOpen
    /\ UNCHANGED <<callVars, own, defaults, requestUsed, cacheVars>>

Next ==
    \/ \E c \in Calls : Resolve(c) \/ BodyFails(c) \/ Send(c) \/ EditInit(c)
    \/ \E c \in Calls, m \in Menu : Call(c, m)
    \/ EditOwn \/ Close
    \/ \E p \in NativeProfiles : EditProfiles(Array \ {p})
    \/ EditProfiles(Array \cup {"unknown"})

Spec == Init /\ [][Next]_vars

-----------------------------------------------------------------------------
(* What makes it correct.                                                  *)

TypeOK ==
    /\ pc \in [Calls -> {"idle", "resolving", "serializing", "sent", "rejected"}]
    /\ \A c \in Calls :
          /\ pc[c] = "sent" <=> sent[c] # None
          /\ pc[c] = "idle" <=> config[c] = None
          /\ pc[c] \in {"serializing", "sent"} => context[c] # None
    /\ {sessionOpen, transportOpen, requestUsed, tampered} \subseteq BOOLEAN
    /\ edits \in 0..MaxEdits

Sent == {c \in Calls : sent[c] # None}

\* Whatever calls a session makes, fails or abandons half way, its default
\* headers stay those it was created with, but for one content type that a body
\* has left there, and none if they had one.  (fetch() appends to the array of
\* the defaults.)
DefaultsGrowByOneType ==
    \/ defaults = SessionHeaders
    \/ /\ SessionHeaders # None
       /\ ~HasHeaderName(SessionHeaders, ContentType)
       /\ \E c \in Calls : /\ context[c] # None /\ context[c].body = "typed"
                           /\ defaults = Append(SessionHeaders, TypeTuple(c))

\* A request has the caller's headers as they were at one moment, and the
\* defaults of its session for the other names, whatever other calls of the
\* session have sent and however the Headers object is edited.
HeadersAreOwn ==
    \A c \in Sent : \A k \in Keys \ {ContentType} :
        LET given == IF sent[c].given = None THEN <<>> ELSE NewHeaders(sent[c].given)
            usual == IF sent[c].session = "session" /\ SessionHeaders # None
                     THEN FromTuples(SessionHeaders) ELSE <<>>
        IN Get(FromTuples(sent[c].headers), k) = IF Has(given, k) THEN Get(given, k) ELSE Get(usual, k)

\* No GET or HEAD with a body reaches the native side, although the method may
\* be edited between the two checks.
MethodBodyAgree ==
    \A c \in Sent : sent[c].method \in {"GET", "HEAD"} => sent[c].body = None

\* A request runs without a limit only if it was asked to, or if its limit is
\* below a millisecond, which the native side cuts off to 0; the caller of
\* fetch() may still edit the timeout after it was checked.
LimitSurvives ==
    \A c \in Sent : NativeLimit(sent[c].timeout) = 0 =>
        sent[c].timeout \in {0, 1} \/ (config[c].live /\ edits > 0)

\* A call that names a session or the id of one does not run with cookies of
\* its own, and one that demands a session does not run without.
CookiesAreAsked ==
    \A c \in Sent : sent[c].session = "ephemeral" =>
        \/ ~config[c].session /\ config[c].sessionId # "id" /\ config[c].cookieMode # "session"
        \/ config[c].live /\ edits > 0

\* The body of a Request object is sent at most once, whichever of the calls
\* that were given the object succeed.
RequestBodyOnce ==
    Cardinality({c \in Sent : config[c].takes}) <= 1

\* The headers of a session and those of a call do not leak into each other.
HeadersDoNotLeak == DefaultsGrowByOneType /\ HeadersAreOwn

\* What was checked before an await still holds of what is sent after it: the
\* method and the body, the timeout, the session, and the unused Request.
CheckedIsSent == MethodBodyAgree /\ LimitSurvives /\ CookiesAreAsked /\ RequestBodyOnce

\* A profile that reaches the native side is one it has, unless the program
\* had edited the array of getProfiles() before any profile was looked up.
ProfileIsNative ==
    tampered \/ \A c \in Sent : 
        sent[c].transport.over = "settings" => NativeResolves(sent[c].transport.mode)

\* types.ts: "Default headers applied to every request made through this
\* session."  A body with a content type of its own should be sent under it, if
\* neither the caller nor the session was given another.
OwnContentType ==
    \A c \in Sent :
        LET given == IF sent[c].given = None THEN <<>> ELSE NewHeaders(sent[c].given)
        IN sent[c].body = "typed" /\ ~Has(given, ContentType) /\ ~HasHeaderName(SessionHeaders, ContentType)
           => Get(FromTuples(sent[c].headers), ContentType) = <<c>>
==============================================================================
