------------------------------- MODULE Request -------------------------------
(***************************************************************************)
(* One HTTP request from the JavaScript call of dispatchRequest to the     *)
(* settlement of its promise.  Three actors take part:                     *)
(*                                                                         *)
(*   - the JavaScript thread, which dispatches, aborts and runs the        *)
(*     closures that the native side queues for it;                        *)
(*   - one tokio task per request, which sends the request, reads a small  *)
(*     body inline or stores a large one, and settles the promise;         *)
(*   - the runtime's clocks: the request timeout and the idle expiry of    *)
(*     BODY_STREAMS.                                                       *)
(*                                                                         *)
(* They share REQUEST_CANCELLATIONS (registry), BODY_STREAMS (stream),     *)
(* BODY_EVENT_STATES (bodyEvents) and the neon channel (chan).             *)
(* A body handle is fresh for every response (NEXT_BODY_HANDLE), so the    *)
(* handle of a request's body is named by the request.                     *)
(***************************************************************************)
EXTENDS Naturals, Sequences

CONSTANTS
    Requests,   \* the calls of dispatchRequest
    Observed,   \* those whose options carry onRequestEvent
    Timed       \* those whose timeout is not 0

ASSUME RequestAssumption ==
    /\ Observed \subseteq Requests
    /\ Timed \subseteq Requests

VARIABLES
    js,          \* js[r]: the promise fetch returned
    signal,      \* signal[r]: the caller's AbortSignal
    listener,    \* listener[r]: the abort listener of setupAbort is attached
    unhandled,   \* requests whose abort promise was rejected with no handler
    native,      \* native[r]: where the tokio task stands
    result,      \* result[r]: what make_request returned
    registry,    \* requests with an entry in REQUEST_CANCELLATIONS
    cancelled,   \* requests whose CancellationToken is cancelled
    chan,        \* chan[r]: closures queued for the JavaScript thread
    log,         \* log[r]: events the onRequestEvent callback has seen
    stream,      \* stream[r]: the entry of BODY_STREAMS
    bodyEvents   \* requests with an entry in BODY_EVENT_STATES

vars == <<js, signal, listener, unhandled, native, result, registry,
          cancelled, chan, log, stream, bodyEvents>>

JsState == {"idle", "pending", "resolved", "failed", "aborted", "threw"}
SignalState == {"none", "live", "aborted"}
NativeState == {"none", "spawned", "sending", "inline", "finishing", "done"}
ResultKind == {"none", "nobody", "inline", "handle", "error"}
StreamState == {"none", "stored", "gone"}
EventType == {"request_start", "request_sent", "response_headers",
              "body_progress", "body_complete", "done", "error"}
Settle == "settle"

\* Mutant: cancellation is also looked at after make_request has returned.
MutAwaitPoint == {"spawned", "sending", "inline", "finishing"}

\* The points at which the select! of the native task can see its token.
AwaitPoint == {"spawned", "sending", "inline"}

Init ==
    /\ js = [r \in Requests |-> "idle"]
    /\ signal \in [Requests -> SignalState]
    /\ listener = {}
    /\ unhandled = {}
    /\ native = [r \in Requests |-> "none"]
    /\ result = [r \in Requests |-> "none"]
    /\ registry = {}
    /\ cancelled = {}
    /\ chan = [r \in Requests |-> <<>>]
    /\ log = [r \in Requests |-> <<>>]
    /\ stream = [r \in Requests |-> "none"]
    /\ bodyEvents = {}

-----------------------------------------------------------------------------
(* The JavaScript thread.                                                  *)

\* A signal that is already aborted: setupAbort throws before native code runs.
RejectAborted(r) ==
    /\ js[r] = "idle"
    /\ signal[r] = "aborted"
    /\ js' = [js EXCEPT ![r] = "aborted"]
    /\ UNCHANGED <<signal, listener, unhandled, native, result, registry,
                   cancelled, chan, log, stream, bodyEvents>>

\* Mutant: the token is not registered.
MutDispatch(r) ==
    /\ js[r] = "idle"
    /\ signal[r] # "aborted"
    /\ js' = [js EXCEPT ![r] = "pending"]
    /\ native' = [native EXCEPT ![r] = "spawned"]
    /\ listener' = IF signal[r] = "live" THEN listener \cup {r} ELSE listener
    /\ UNCHANGED <<signal, unhandled, result, registry, cancelled, chan, log,
                   stream, bodyEvents>>

\* The native call accepts the options and spawns its task.  Only a request
\* with a signal is cancellable and gets a token.
Dispatch(r) ==
    /\ js[r] = "idle"
    /\ signal[r] # "aborted"
    /\ js' = [js EXCEPT ![r] = "pending"]
    /\ native' = [native EXCEPT ![r] = "spawned"]
    /\ IF signal[r] = "live"
       THEN /\ listener' = listener \cup {r}
            /\ registry' = registry \cup {r}
       ELSE UNCHANGED <<listener, registry>>
    /\ UNCHANGED <<signal, unhandled, result, cancelled, chan, log, stream,
                   bodyEvents>>

\* The native call throws while it converts the options.  The call stands
\* between setupAbort and the try block, so the abort listener stays attached.
DispatchThrows(r) ==
    /\ js[r] = "idle"
    /\ signal[r] # "aborted"
    /\ js' = [js EXCEPT ![r] = "threw"]
    /\ listener' = IF signal[r] = "live" THEN listener \cup {r} ELSE listener
    /\ UNCHANGED <<signal, unhandled, native, result, registry, cancelled,
                   chan, log, stream, bodyEvents>>

\* cancel_request: remove the token, and cancel it only if it was there.
CancelRequest(r) ==
    /\ registry' = registry \ {r}
    /\ cancelled' = IF r \in registry THEN cancelled \cup {r} ELSE cancelled

\* The caller aborts.  The listener runs once, cancels the native request and
\* rejects the abort promise: the race settles on it unless it is settled, and
\* with no race (DispatchThrows) nobody handles the rejection.
Abort(r) ==
    /\ signal[r] = "live"
    /\ signal' = [signal EXCEPT ![r] = "aborted"]
    /\ IF r \in listener
       THEN /\ CancelRequest(r)
            /\ listener' = listener \ {r}
            /\ js' = IF js[r] = "pending" THEN [js EXCEPT ![r] = "aborted"] ELSE js
            /\ unhandled' = IF js[r] = "threw" THEN unhandled \cup {r} ELSE unhandled
       ELSE UNCHANGED <<js, listener, unhandled, registry, cancelled>>
    /\ UNCHANGED <<native, result, chan, log, stream, bodyEvents>>

\* Mutant: every closure is forwarded to the callback.
MutDeliverEvent(r) ==
    /\ chan[r] # <<>>
    /\ log' = [log EXCEPT ![r] = Append(@, Head(chan[r]))]
    /\ chan' = [chan EXCEPT ![r] = Tail(@)]
    /\ UNCHANGED <<js, signal, listener, unhandled, native, result, registry,
                   cancelled, stream, bodyEvents>>

\* An event closure runs: the callback sees the event.
DeliverEvent(r) ==
    /\ chan[r] # <<>>
    /\ Head(chan[r]) \in EventType
    /\ log' = [log EXCEPT ![r] = Append(@, Head(chan[r]))]
    /\ chan' = [chan EXCEPT ![r] = Tail(@)]
    /\ UNCHANGED <<js, signal, listener, unhandled, native, result, registry,
                   cancelled, stream, bodyEvents>>

\* Mutant: no finally block detaches the abort listener.
MutDeliverSettleKeepsListener(r) ==
    /\ chan[r] # <<>>
    /\ Head(chan[r]) = Settle
    /\ chan' = [chan EXCEPT ![r] = Tail(@)]
    /\ js' = IF js[r] # "pending" THEN js
             ELSE [js EXCEPT ![r] = IF result[r] = "error" THEN "failed" ELSE "resolved"]
    /\ UNCHANGED <<signal, listener, unhandled, native, result, registry,
                   cancelled, log, stream, bodyEvents>>

\* Mutant: a response with a body handle is rejected and the handle forgotten.
MutDeliverSettleFails(r) ==
    /\ chan[r] # <<>>
    /\ Head(chan[r]) = Settle
    /\ chan' = [chan EXCEPT ![r] = Tail(@)]
    /\ IF js[r] = "pending"
       THEN /\ js' = [js EXCEPT ![r] = IF result[r] \in {"error", "handle"} THEN "failed" ELSE "resolved"]
            /\ listener' = listener \ {r}
       ELSE UNCHANGED <<js, listener>>
    /\ UNCHANGED <<signal, unhandled, native, result, registry, cancelled,
                   log, stream, bodyEvents>>

\* The settlement closure runs.  A promise that the abort already rejected
\* drops the native response; otherwise dispatchRequest builds the Response
\* or rejects, and its finally block detaches the abort listener.
DeliverSettle(r) ==
    /\ chan[r] # <<>>
    /\ Head(chan[r]) = Settle
    /\ chan' = [chan EXCEPT ![r] = Tail(@)]
    /\ IF js[r] = "pending"
       THEN /\ js' = [js EXCEPT ![r] = IF result[r] = "error" THEN "failed" ELSE "resolved"]
            /\ listener' = listener \ {r}
       ELSE UNCHANGED <<js, listener>>
    /\ UNCHANGED <<signal, unhandled, native, result, registry, cancelled,
                   log, stream, bodyEvents>>

-----------------------------------------------------------------------------
(* The native task of one request.                                         *)

\* A sink exists only when the caller gave a callback.
Emitting(r, events) == IF r \in Observed THEN events ELSE <<>>

Emit(r, events) == chan' = [chan EXCEPT ![r] = @ \o Emitting(r, events)]

\* make_request returns res: the select! is over.
Returns(r, res) ==
    /\ native' = [native EXCEPT ![r] = "finishing"]
    /\ result' = [result EXCEPT ![r] = res]

\* make_request up to the await of send().
Send(r) ==
    /\ native[r] = "spawned"
    /\ native' = [native EXCEPT ![r] = "sending"]
    /\ Emit(r, <<"request_start", "request_sent">>)
    /\ UNCHANGED <<js, signal, listener, unhandled, result, registry,
                   cancelled, log, stream, bodyEvents>>

\* No client (unknown transport, bad emulation) or, once started, no method.
SendFails(r) ==
    /\ native[r] = "spawned"
    /\ Returns(r, "error")
    /\ \E events \in {<<>>, <<"request_start">>} : Emit(r, events)
    /\ UNCHANGED <<js, signal, listener, unhandled, registry, cancelled, log,
                   stream, bodyEvents>>

\* Headers of a response that has no body (HEAD, 204, 304, ...).
HeadersNoBody(r) ==
    /\ native[r] = "sending"
    /\ Returns(r, "nobody")
    /\ Emit(r, <<"response_headers", "done">>)
    /\ UNCHANGED <<js, signal, listener, unhandled, registry, cancelled, log,
                   stream, bodyEvents>>

\* Headers of a response whose length is known and at most INLINE_BODY_MAX.
HeadersInline(r) ==
    /\ native[r] = "sending"
    /\ native' = [native EXCEPT ![r] = "inline"]
    /\ Emit(r, <<"response_headers">>)
    /\ UNCHANGED <<js, signal, listener, unhandled, result, registry,
                   cancelled, log, stream, bodyEvents>>

\* Headers of any other response: its body is stored, with no further await.
HeadersStream(r) ==
    /\ native[r] = "sending"
    /\ Returns(r, "handle")
    /\ Emit(r, <<"response_headers">>)
    /\ stream' = [stream EXCEPT ![r] = "stored"]
    /\ bodyEvents' = IF r \in Observed THEN bodyEvents \cup {r} ELSE bodyEvents
    /\ UNCHANGED <<js, signal, listener, unhandled, registry, cancelled, log>>

\* The whole small body has arrived.
InlineComplete(r) ==
    /\ native[r] = "inline"
    /\ Returns(r, "inline")
    /\ Emit(r, <<"body_progress", "body_complete", "done">>)
    /\ UNCHANGED <<js, signal, listener, unhandled, registry, cancelled, log,
                   stream, bodyEvents>>

\* Mutant: the timeout stops at the response headers.
MutNetworkFails(r) ==
    /\ native[r] = "sending"
    /\ Returns(r, "error")
    /\ UNCHANGED <<js, signal, listener, unhandled, registry, cancelled, chan,
                   log, stream, bodyEvents>>

\* send() or bytes() returns an error: the network failed or time ran out.
NetworkFails(r) ==
    /\ native[r] \in {"sending", "inline"}
    /\ Returns(r, "error")
    /\ UNCHANGED <<js, signal, listener, unhandled, registry, cancelled, chan,
                   log, stream, bodyEvents>>

\* Mutant: the read of an inline body is outside the select!.
MutObserveCancel(r) ==
    /\ native[r] \in AwaitPoint \ {"inline"}
    /\ r \in cancelled
    /\ Returns(r, "error")
    /\ UNCHANGED <<js, signal, listener, unhandled, registry, cancelled, chan,
                   log, stream, bodyEvents>>

\* The select! sees the cancelled token and drops make_request.
ObserveCancel(r) ==
    /\ native[r] \in AwaitPoint
    /\ r \in cancelled
    /\ Returns(r, "error")
    /\ UNCHANGED <<js, signal, listener, unhandled, registry, cancelled, chan,
                   log, stream, bodyEvents>>

\* Mutant: the token stays registered.
MutFinishKeepsToken(r) ==
    /\ native[r] = "finishing"
    /\ native' = [native EXCEPT ![r] = "done"]
    /\ chan' = [chan EXCEPT ![r] =
                  (@ \o IF result[r] = "error" THEN Emitting(r, <<"error">>) ELSE <<>>)
                     \o <<Settle>>]
    /\ UNCHANGED <<js, signal, listener, unhandled, result, registry,
                   cancelled, log, stream, bodyEvents>>

\* Mutant: the promise is settled before the error event goes out.
MutFinishSettlesFirst(r) ==
    /\ native[r] = "finishing"
    /\ native' = [native EXCEPT ![r] = "done"]
    /\ chan' = [chan EXCEPT ![r] =
                  @ \o <<Settle>> \o IF result[r] = "error" THEN Emitting(r, <<"error">>) ELSE <<>>]
    /\ registry' = registry \ {r}
    /\ UNCHANGED <<js, signal, listener, unhandled, result, cancelled, log,
                   stream, bodyEvents>>

\* After the select!: the error event, the token, then the settlement.
Finish(r) ==
    /\ native[r] = "finishing"
    /\ native' = [native EXCEPT ![r] = "done"]
    /\ chan' = [chan EXCEPT ![r] =
                  (@ \o IF result[r] = "error" THEN Emitting(r, <<"error">>) ELSE <<>>)
                     \o <<Settle>>]
    /\ registry' = registry \ {r}
    /\ UNCHANGED <<js, signal, listener, unhandled, result, cancelled, log,
                   stream, bodyEvents>>

\* An entry of BODY_STREAMS nobody touched for 300 seconds is evicted.  The
\* event state of the handle is in another map and stays.
Expire(r) ==
    /\ stream[r] = "stored"
    /\ stream' = [stream EXCEPT ![r] = "gone"]
    /\ UNCHANGED <<js, signal, listener, unhandled, native, result, registry,
                   cancelled, chan, log, bodyEvents>>

-----------------------------------------------------------------------------

JsStep(r) ==
    \/ RejectAborted(r)
    \/ Dispatch(r)
    \/ DispatchThrows(r)
    \/ Abort(r)
    \/ DeliverEvent(r)
    \/ DeliverSettle(r)

NativeStep(r) ==
    \/ Send(r)
    \/ SendFails(r)
    \/ HeadersNoBody(r)
    \/ HeadersInline(r)
    \/ HeadersStream(r)
    \/ InlineComplete(r)
    \/ NetworkFails(r)
    \/ ObserveCancel(r)
    \/ Finish(r)

Next == \E r \in Requests : JsStep(r) \/ NativeStep(r) \/ Expire(r)

Spec == Init /\ [][Next]_vars

\* The event loop drains the channel, tokio polls a task that can go on, and
\* a request with a timeout does not wait for its server longer than that.
\* Nothing obliges a server to answer or a caller to abort.
Fairness ==
    \A r \in Requests :
        /\ WF_vars(DeliverEvent(r) \/ DeliverSettle(r))
        /\ WF_vars(Send(r) \/ SendFails(r))
        /\ WF_vars(ObserveCancel(r))
        /\ WF_vars(Finish(r))
        /\ WF_vars(Expire(r))

TimeoutFairness == \A r \in Timed : WF_vars(NetworkFails(r))

FairSpec == Spec /\ Fairness /\ TimeoutFairness

-----------------------------------------------------------------------------
(* What makes it correct.                                                  *)

Msg == EventType \cup {Settle}

\* Every variable keeps its type.
TypeOK ==
    /\ js \in [Requests -> JsState]
    /\ signal \in [Requests -> SignalState]
    /\ listener \subseteq Requests
    /\ unhandled \subseteq Requests
    /\ native \in [Requests -> NativeState]
    /\ result \in [Requests -> ResultKind]
    /\ registry \subseteq Requests
    /\ cancelled \subseteq Requests
    /\ chan \in [Requests -> Seq(Msg)]
    /\ log \in [Requests -> Seq(EventType)]
    /\ stream \in [Requests -> StreamState]
    /\ bodyEvents \subseteq Requests

Running(r) == native[r] \in AwaitPoint \cup {"finishing"}

\* REQUEST_CANCELLATIONS holds a token only while its task still runs and will
\* remove it, and a token in the registry is one nobody has cancelled yet.
RegistryScope ==
    \A r \in registry : Running(r) /\ r \notin cancelled

\* A caller who still waits on a request with a live signal can stop it: the
\* listener is attached, and the token is registered until the task is over.
AbortReachesNative ==
    \A r \in Requests :
        js[r] = "pending" /\ signal[r] = "live" =>
            r \in listener /\ (r \in registry \/ native[r] = "done")

\* dispatchRequest detaches its abort listener on every path, except when the
\* native call itself throws; only there can an abort go unhandled.
ListenerScope ==
    /\ \A r \in listener : js[r] \in {"pending", "threw"}
    /\ \A r \in unhandled : js[r] = "threw"

\* A request that fails or is cancelled leaves no body in the native maps: the
\* body is stored after the last point at which the task can be cancelled.
FailureStoresNoBody ==
    \A r \in Requests :
        (stream[r] # "none" \/ r \in bodyEvents) => result[r] = "handle"

\* A stored body has somebody who will read or release it, unless an abort
\* overtook the response: then only the idle expiry reclaims it.
BodyHasOwner ==
    \A r \in Requests :
        stream[r] = "stored" =>
            \/ js[r] = "resolved"
            \/ js[r] = "pending" /\ (native[r] = "finishing" \/ chan[r] # <<>>)
            \/ js[r] = "aborted" /\ signal[r] = "aborted"

\* A promise is settled once and not forgotten: its settlement is queued when
\* the task ends, behind every event, and not before.
PromiseKept ==
    \A r \in Requests :
        /\ native[r] # "done" => \A i \in DOMAIN chan[r] : chan[r][i] # Settle
        /\ js[r] = "pending" /\ native[r] = "done" =>
              chan[r] # <<>> /\ chan[r][Len(chan[r])] = Settle

\* A cancelled request stops without waiting for its server.
CancelStops == \A r \in Requests : r \in cancelled ~> native[r] = "done"

\* A request with a timeout settles whatever its server does.
TimedRequestSettles ==
    \A r \in Timed : js[r] = "pending" ~> js[r] # "pending"

\* What the caller is promised about outcomes and events (FetchContract).
Contract == INSTANCE FetchContract WITH outcome <- js
ContractSpec == Contract!Spec
=============================================================================
