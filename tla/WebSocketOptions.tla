-------------------------- MODULE WebSocketOptions --------------------------
(***************************************************************************)
(* What a WebSocket asks the native side for.  There are three ways to     *)
(* open one, new WebSocket(), websocket() and session.websocket(), each    *)
(* with its own copy of the steps from the arguments to the native         *)
(* options; they are written down here one by one and compared.            *)
(*                                                                         *)
(* Options are functions from the fields that are set; a protocols         *)
(* argument is the list of its members, a string a list of one.            *)
(***************************************************************************)
EXTENDS Emulation

CONSTANTS
    ProtocolHeader,  \* the key of sec-websocket-protocol
    Tokens           \* valid names of subprotocols

ASSUME WebSocketOptionsAssumption == ProtocolHeader \in Keys \ {SetCookie}

Field(o, f) == IF f \in DOMAIN o THEN o[f] ELSE None
Without(o, fields) == [f \in DOMAIN o \ fields |-> o[f]]

-----------------------------------------------------------------------------
(* The checks.                                                             *)

\* normalizeWebSocketUrl, by what kind of URL it is given.
NormalizeUrl(url) ==
    CASE url \in {"ws", "http"} -> "ws"
      [] url \in {"wss", "https"} -> "wss"
      [] url \in {"blank", "invalid", "hash", "other"} -> Error

ProtocolsValid(ps) == ps # None => Range(ps) \subseteq Tokens /\ IsInjective(ps)

ProtocolList(ps) == IF ps = None THEN None ELSE NonEmpty(ps)

SizeValid(n) == n # None => n > 0

\* normalizeStandaloneWebSocketOptions: the fields it knows, sizes checked.
NormalizeStandalone(o) ==
    IF SizeValid(Field(o, "maxFrameSize")) /\ SizeValid(Field(o, "maxMessageSize"))
       /\ Field(o, "binaryType") \in {None, "nodebuffer", "arraybuffer", "blob"}
    THEN o ELSE Error

\* What the transport of a session has settled.
OfTransport == {"browser", "os", "emulation", "proxy", "proxyHeaders"}

NormalizeForSession(o) ==
    IF DOMAIN o \cap OfTransport # {} THEN Error
    ELSE IF SizeValid(Field(o, "maxFrameSize")) /\ SizeValid(Field(o, "maxMessageSize"))
            /\ Field(o, "binaryType") \in {None, "nodebuffer", "arraybuffer", "blob"}
         THEN o ELSE Error

\* Mutant: the name is compared as it is usually written.
MutManualProtocol(headers) ==
    headers # None /\ \E t \in Range(HeadersToTuples(headers)) :
        t.name = Name(ProtocolHeader, CHOOSE f \in Forms : TRUE)

\* assertNoManualWebSocketProtocolHeader; a bad name throws as well.
ManualProtocol(headers) ==
    headers # None /\ HasHeaderName(HeadersToTuples(headers), ProtocolHeader)

HeadersThrow(headers) == headers # None /\ InitThrows(headers)

-----------------------------------------------------------------------------
(* The native options.                                                     *)

UpgradeHeaders(o) ==
    IF Field(o, "headers") = None THEN <<>> ELSE HeadersToTuples(o.headers)

\* websocket(url, options), and the same with the url among the options.
OpenStandalone(url, o) ==
    LET mode == ResolveEmulationMode(NativeProfiles, Field(o, "browser"), Field(o, "os"), Field(o, "emulation"))
    IN IF NormalizeStandalone(o) = Error \/ NormalizeUrl(url) = Error
          \/ ~ProtocolsValid(Field(o, "protocols"))
          \/ HeadersThrow(Field(o, "headers")) \/ ManualProtocol(Field(o, "headers"))
          \/ mode = Error \/ HeadersThrow(Field(o, "proxyHeaders"))
       THEN Error
       ELSE [url |-> NormalizeUrl(url), headers |-> UpgradeHeaders(o),
             protocols |-> ProtocolList(Field(o, "protocols")),
             proxy |-> Field(o, "proxy"),
             proxyHeaders |-> NormalizeProxyHeaders(Field(o, "proxyHeaders")),
             maxFrameSize |-> Field(o, "maxFrameSize"),
             maxMessageSize |-> Field(o, "maxMessageSize"), over |-> mode]

\* Mutant: the protocols are those of the options.
MutConstruct(url, protocols, o) == OpenStandalone(url, o)

\* new WebSocket(url, protocols, options); protocols is None where the options
\* are the second argument.
Construct(url, protocols, o) ==
    LET normalized == NormalizeStandalone(o)
        chosen == IF protocols = None THEN Field(normalized, "protocols") ELSE protocols
        mode == ResolveEmulationMode(NativeProfiles, Field(o, "browser"), Field(o, "os"), Field(o, "emulation"))
    IN IF normalized = Error \/ ~ProtocolsValid(chosen)
          \/ HeadersThrow(Field(o, "headers")) \/ ManualProtocol(Field(o, "headers"))
          \/ mode = Error \/ HeadersThrow(Field(o, "proxyHeaders"))
          \/ NormalizeUrl(url) = Error
       THEN Error
       ELSE [url |-> NormalizeUrl(url), headers |-> UpgradeHeaders(o),
             protocols |-> ProtocolList(chosen), proxy |-> Field(o, "proxy"),
             proxyHeaders |-> NormalizeProxyHeaders(Field(o, "proxyHeaders")),
             maxFrameSize |-> Field(o, "maxFrameSize"),
             maxMessageSize |-> Field(o, "maxMessageSize"), over |-> mode]

\* session.websocket(): the id of the session and its transport take the place
\* of the mode and the proxy.
OpenOnSession(url, o) ==
    IF NormalizeForSession(o) = Error \/ NormalizeUrl(url) = Error
       \/ ~ProtocolsValid(Field(o, "protocols"))
       \/ HeadersThrow(Field(o, "headers")) \/ ManualProtocol(Field(o, "headers"))
    THEN Error
    ELSE [url |-> NormalizeUrl(url), headers |-> UpgradeHeaders(o),
          protocols |-> ProtocolList(Field(o, "protocols")), proxy |-> None, proxyHeaders |-> None,
          maxFrameSize |-> Field(o, "maxFrameSize"),
          maxMessageSize |-> Field(o, "maxMessageSize"), over |-> "session"]

-----------------------------------------------------------------------------
(* What they promise.                                                      *)

UrlInputs == {"ws", "https", "blank", "hash"}
ProtocolInputs == SeqOf(Tokens \cup {"bad token"}, 2)
HeaderInputs == {InitOf(kind, ts) : kind \in {"tuples", "object"},
                     ts \in SeqOf({HeaderTuple(n, <<CHOOSE v \in Values : TRUE>>) :
                                      n \in Names \cup {Name(Blank, "lower")}}, 1)}

\* Options with one of the checked fields, or two that meet in a check.
OptionInputs ==
    {Single(f, v) : f \in {"maxFrameSize", "maxMessageSize"}, v \in {0 - 1, 0, 1}}
    \cup {Single("binaryType", v) : v \in {"blob", "other"}}
    \cup {Single(f, h) : f \in {"headers", "proxyHeaders"}, h \in HeaderInputs}
    \cup {Single("browser", b) : b \in BrowserInputs \ {None}}
    \cup {Single("os", o) : o \in OsInputs \ {None}}
    \cup {Single("emulation", e) : e \in EmulationInputs \ {None}}
    \cup {Single("proxy", "proxy"), <<>>}
    \cup {[headers |-> h, protocols |-> ps] : h \in HeaderInputs, ps \in ProtocolInputs}

\* Two ways that are each other's equal, and one that differs in what the
\* connection runs over.
SameConnection(opened, constructed, apart) == constructed = opened /\ apart = opened
SameOnSession(opened, onSession) ==
    onSession = IF opened = Error THEN Error ELSE [opened EXCEPT !.over = "session"]

\* The same options mean the same connection whichever way it is opened, with
\* the protocols as an argument or as an option, or are refused every way.
EntryPointsAgree ==
    \A url \in UrlInputs, o \in OptionInputs :
        /\ SameConnection(OpenStandalone(url, o), Construct(url, None, o),
                 Construct(url, Field(o, "protocols"), Without(o, {"protocols"})))
        /\ DOMAIN o \cap OfTransport = {} =>
               SameOnSession(OpenStandalone(url, o), OpenOnSession(url, o))

OwnProtocols(opened) ==
    opened # Error =>
        /\ ~HasHeaderName(opened.headers, ProtocolHeader)
        /\ opened.protocols # None => IsInjective(opened.protocols)

\* The subprotocols of a connection come from the protocols option alone, each
\* once: no spelling of the header gets past the check, with protocols given in
\* one place, in both, or in none.
ProtocolsAreExclusive ==
    \A o \in OptionInputs, ps \in ProtocolInputs \cup {None} :
        OwnProtocols(Construct("ws", ps, o))

\* What is promised of emulations and of the options of WebSockets.
OptionsAgree == AcceptedIsBuilt /\ ModeIsResolvable /\ EntryPointsAgree /\ ProtocolsAreExclusive
==============================================================================
