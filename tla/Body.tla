--------------------------------- MODULE Body ---------------------------------
(***************************************************************************)
(* A streamed response body, from the Response object that dispatchRequest *)
(* returns to the last read of its native stream.  The module extends      *)
(* Request: it takes up every request that resolved with a body handle.    *)
(*                                                                         *)
(* JavaScript consumes the body in one of two ways: consumeBody's fast     *)
(* path, one native readBodyAll; or a ReadableStream (the body getter,     *)
(* clone and readable create it) that pulls readBodyChunk.  A stream can   *)
(* be cancelled, and the garbage collector can take the Response or the    *)
(* stream and run bodyHandleFinalizer.  On the native side each read is a  *)
(* task of its own, and BODY_STREAMS may evict the handle at any time.     *)
(***************************************************************************)
EXTENDS Request, FiniteSets

CONSTANT MaxChunks   \* bound on the chunks a server sends

ASSUME BodyAssumption == MaxChunks \in Nat

VARIABLES
    view,       \* view[r]: what JavaScript has made of the body
    held,       \* held[r]: the objects that can still reach the handle
    finalizer,  \* finalizer[r]: the object bodyHandleFinalizer watches
    released,   \* requests whose NativeBodyHandle.released is set
    read,       \* read[r]: the native read in progress
    served,     \* served[r]: chunks the native stream has yielded
    got,        \* got[r]: chunks JavaScript has received
    expired     \* requests whose handle BODY_STREAMS evicted

bodyVars == <<view, held, finalizer, released, read, served, got, expired>>
allVars == <<vars, bodyVars>>

Owner == {"response", "stream"}
ViewState == {"fresh", "all", "open", "complete", "lost", "failed", "cancelled"}
ReadState == {"idle", "chunk?", "chunk", "all?", "all", "replied"}
Reply == {"data", "null", "bytes", "readError", "notFound"}

BodyInit ==
    /\ Init
    /\ view = [r \in Requests |-> "fresh"]
    /\ held = [r \in Requests |-> {"response"}]
    /\ finalizer = [r \in Requests |-> "response"]
    /\ released = {}
    /\ read = [r \in Requests |-> "idle"]
    /\ served = [r \in Requests |-> 0]
    /\ got = [r \in Requests |-> 0]
    /\ expired = {}

\* The Response object of r exists and was built around a body handle.
HasBody(r) == js[r] = "resolved" /\ result[r] = "handle"

\* What a body action leaves alone of the request that produced the body.
RequestUnchanged ==
    UNCHANGED <<js, signal, listener, unhandled, native, result, registry, cancelled>>

-----------------------------------------------------------------------------
(* JavaScript.                                                             *)

\* consumeBody on a handle no stream wraps: one readBodyAll call.
ReadAll(r) ==
    /\ HasBody(r)
    /\ view[r] = "fresh"
    /\ "response" \in held[r]
    /\ view' = [view EXCEPT ![r] = "all"]
    /\ read' = [read EXCEPT ![r] = "all?"]
    /\ UNCHANGED <<vars, held, finalizer, released, served, got, expired>>

\* Mutant: the finalizer stays with the Response.
MutOpenStreamKeepsFinalizer(r) ==
    /\ HasBody(r)
    /\ view[r] = "fresh"
    /\ "response" \in held[r]
    /\ view' = [view EXCEPT ![r] = "open"]
    /\ held' = [held EXCEPT ![r] = @ \cup {"stream"}]
    /\ UNCHANGED <<vars, finalizer, released, read, served, got, expired>>

\* Mutant: it is unregistered and not registered again.
MutOpenStreamDropsFinalizer(r) ==
    /\ HasBody(r)
    /\ view[r] = "fresh"
    /\ "response" \in held[r]
    /\ view' = [view EXCEPT ![r] = "open"]
    /\ held' = [held EXCEPT ![r] = @ \cup {"stream"}]
    /\ finalizer' = [finalizer EXCEPT ![r] = "none"]
    /\ UNCHANGED <<vars, released, read, served, got, expired>>

\* body, readable or clone: the handle moves into a ReadableStream, and the
\* finalizer moves from the Response to the stream with it.
OpenStream(r) ==
    /\ HasBody(r)
    /\ view[r] = "fresh"
    /\ "response" \in held[r]
    /\ view' = [view EXCEPT ![r] = "open"]
    /\ held' = [held EXCEPT ![r] = @ \cup {"stream"}]
    /\ finalizer' = [finalizer EXCEPT ![r] = "stream"]
    /\ UNCHANGED <<vars, released, read, served, got, expired>>

\* The ReadableStream wants data: its pull calls readBodyChunk and waits.
Pull(r) ==
    /\ view[r] = "open"
    /\ "stream" \in held[r]
    /\ read[r] = "idle"
    /\ read' = [read EXCEPT ![r] = "chunk?"]
    /\ UNCHANGED <<vars, view, held, finalizer, released, served, got, expired>>

\* cancelBody unless the handle is released already: drop_body_stream empties
\* both native maps.
ReleaseNativeBody(r) ==
    IF r \in released
    THEN UNCHANGED <<released, finalizer, stream, bodyEvents>>
    ELSE /\ released' = released \cup {r}
         /\ finalizer' = [finalizer EXCEPT ![r] = "none"]
         /\ stream' = [stream EXCEPT ![r] = "gone"]
         /\ bodyEvents' = bodyEvents \ {r}

\* markNativeBodyReleased: the same without the native call.
MarkReleased(r) ==
    /\ released' = released \cup {r}
    /\ finalizer' = [finalizer EXCEPT ![r] = "none"]

\* The consumer cancels the stream, perhaps while a pull is waiting.
CancelStream(r) ==
    /\ view[r] = "open"
    /\ "stream" \in held[r]
    /\ view' = [view EXCEPT ![r] = "cancelled"]
    /\ ReleaseNativeBody(r)
    /\ RequestUnchanged
    /\ UNCHANGED <<chan, log, held, read, served, got, expired>>

\* The garbage collector takes the Response (a clone may keep the stream) or,
\* after it, the stream.  A waiting read keeps its object alive.
Collect(r, owner) ==
    /\ HasBody(r)
    /\ owner \in held[r]
    /\ owner = "response" => view[r] # "all"
    /\ owner = "stream" => "response" \notin held[r] /\ read[r] = "idle"
    /\ held' = [held EXCEPT ![r] = @ \ {owner}]
    /\ IF finalizer[r] = owner
       THEN ReleaseNativeBody(r)
       ELSE UNCHANGED <<released, finalizer, stream, bodyEvents>>
    /\ RequestUnchanged
    /\ UNCHANGED <<chan, log, view, read, served, got, expired>>

Settled(r, open, v) == view' = IF view[r] = open THEN [view EXCEPT ![r] = v] ELSE view

\* The promise of a chunk read settles: the pull goes on.  A stream that was
\* cancelled meanwhile ignores what it gets.
DeliverChunkReply(r) ==
    /\ chan[r] # <<>>
    /\ Head(chan[r]) \in Reply
    /\ view[r] \in {"open", "cancelled"}
    /\ chan' = [chan EXCEPT ![r] = Tail(@)]
    /\ read' = [read EXCEPT ![r] = "idle"]
    /\ IF Head(chan[r]) = "data"
       THEN /\ got' = IF view[r] = "open" THEN [got EXCEPT ![r] = @ + 1] ELSE got
            /\ UNCHANGED <<view, released, finalizer, stream, bodyEvents>>
       ELSE /\ ReleaseNativeBody(r)
            /\ Settled(r, "open", IF Head(chan[r]) = "null" THEN "complete" ELSE "failed")
            /\ UNCHANGED got
    /\ RequestUnchanged
    /\ UNCHANGED <<log, held, served, expired>>

\* The promise of readBodyAll settles.  consumeBody turns "not found" into an
\* empty body, and marks the handle released on every path.
DeliverAllReply(r) ==
    /\ chan[r] # <<>>
    /\ Head(chan[r]) \in Reply
    /\ view[r] = "all"
    /\ chan' = [chan EXCEPT ![r] = Tail(@)]
    /\ read' = [read EXCEPT ![r] = "idle"]
    /\ view' = [view EXCEPT ![r] =
                  CASE Head(chan[r]) = "bytes"    -> "complete"
                    [] Head(chan[r]) = "notFound" -> "lost"
                    [] OTHER                      -> "failed"]
    /\ got' = IF Head(chan[r]) = "bytes" THEN [got EXCEPT ![r] = served[r]] ELSE got
    /\ MarkReleased(r)
    /\ RequestUnchanged
    /\ UNCHANGED <<log, stream, bodyEvents, held, served, expired>>

-----------------------------------------------------------------------------
(* The native read tasks.                                                  *)

\* Mutant: the answer goes first.
MutEmitAndReply(r, events, reply) ==
    /\ chan' = [chan EXCEPT ![r] = @ \o reply \o (IF r \in bodyEvents THEN events ELSE <<>>)]
    /\ read' = IF reply = <<>> THEN read ELSE [read EXCEPT ![r] = "replied"]

\* A body event goes out only while BODY_EVENT_STATES knows the handle; the
\* answer to the read is queued behind it.
EmitAndReply(r, events, reply) ==
    /\ chan' = [chan EXCEPT ![r] = @ \o (IF r \in bodyEvents THEN events ELSE <<>>) \o reply]
    /\ read' = IF reply = <<>> THEN read ELSE [read EXCEPT ![r] = "replied"]

\* What every native read leaves alone.
ReadUnchanged ==
    /\ RequestUnchanged
    /\ UNCHANGED <<log, view, held, finalizer, released, got, expired>>

\* Mutant: an unknown handle reads as the end of the body.
MutHandleNotFoundEnds(r) ==
    /\ read[r] \in {"chunk?", "all?"}
    /\ stream[r] # "stored"
    /\ EmitAndReply(r, <<>>, <<IF read[r] = "all?" THEN "bytes" ELSE "null">>)
    /\ ReadUnchanged
    /\ UNCHANGED <<stream, bodyEvents, served>>

\* Mutant: read_body_all does not answer for an unknown handle.
MutHandleNotFoundWaits(r) ==
    /\ read[r] = "chunk?"
    /\ stream[r] # "stored"
    /\ EmitAndReply(r, <<>>, <<"notFound">>)
    /\ ReadUnchanged
    /\ UNCHANGED <<stream, bodyEvents, served>>

\* Neither read function finds the handle.
HandleNotFound(r) ==
    /\ read[r] \in {"chunk?", "all?"}
    /\ stream[r] # "stored"
    /\ EmitAndReply(r, <<>>, <<"notFound">>)
    /\ ReadUnchanged
    /\ UNCHANGED <<stream, bodyEvents, served>>

\* read_body_chunk finds the stream and holds on to it while it waits.
StartChunk(r) ==
    /\ read[r] = "chunk?"
    /\ stream[r] = "stored"
    /\ read' = [read EXCEPT ![r] = "chunk"]
    /\ ReadUnchanged
    /\ UNCHANGED <<chan, stream, bodyEvents, served>>

ChunkArrives(r) ==
    /\ read[r] = "chunk"
    /\ served[r] < MaxChunks
    /\ served' = [served EXCEPT ![r] = @ + 1]
    /\ EmitAndReply(r, <<"body_progress">>, <<"data">>)
    /\ ReadUnchanged
    /\ UNCHANGED <<stream, bodyEvents>>

\* Mutant: the event state is kept.
MutChunkStops(r, events, reply) ==
    /\ read[r] = "chunk"
    /\ stream' = [stream EXCEPT ![r] = "gone"]
    /\ EmitAndReply(r, events, <<reply>>)
    /\ ReadUnchanged
    /\ UNCHANGED <<bodyEvents, served>>

\* The end or an error of the stream: both maps forget the handle.
ChunkStops(r, events, reply) ==
    /\ read[r] = "chunk"
    /\ stream' = [stream EXCEPT ![r] = "gone"]
    /\ bodyEvents' = bodyEvents \ {r}
    /\ EmitAndReply(r, events, <<reply>>)
    /\ ReadUnchanged
    /\ UNCHANGED served

ChunkEnd(r) == ChunkStops(r, <<"body_complete", "done">>, "null")
ChunkError(r) == ChunkStops(r, <<"error">>, "readError")

\* read_body_all takes the stream out of BODY_STREAMS.
StartAll(r) ==
    /\ read[r] = "all?"
    /\ stream[r] = "stored"
    /\ stream' = [stream EXCEPT ![r] = "gone"]
    /\ read' = [read EXCEPT ![r] = "all"]
    /\ ReadUnchanged
    /\ UNCHANGED <<chan, bodyEvents, served>>

DrainChunk(r) ==
    /\ read[r] = "all"
    /\ served[r] < MaxChunks
    /\ served' = [served EXCEPT ![r] = @ + 1]
    /\ EmitAndReply(r, <<"body_progress">>, <<>>)
    /\ ReadUnchanged
    /\ UNCHANGED <<stream, bodyEvents>>

DrainEnd(r) ==
    /\ read[r] = "all"
    /\ bodyEvents' = bodyEvents \ {r}
    /\ EmitAndReply(r, <<"body_complete", "done">>, <<"bytes">>)
    /\ ReadUnchanged
    /\ UNCHANGED <<stream, served>>

\* The ? operator returns at once: no event, and the event state stays.
DrainError(r) ==
    /\ read[r] = "all"
    /\ EmitAndReply(r, <<>>, <<"readError">>)
    /\ ReadUnchanged
    /\ UNCHANGED <<stream, bodyEvents, served>>

ExpireBody(r) ==
    /\ Expire(r)
    /\ expired' = expired \cup {r}
    /\ UNCHANGED <<view, held, finalizer, released, read, served, got>>

-----------------------------------------------------------------------------

RequestStep(r) == (JsStep(r) \/ NativeStep(r)) /\ UNCHANGED bodyVars

ConsumerStep(r) ==
    \/ ReadAll(r)
    \/ OpenStream(r)
    \/ Pull(r)
    \/ CancelStream(r)
    \/ \E owner \in Owner : Collect(r, owner)

DeliverReply(r) == DeliverChunkReply(r) \/ DeliverAllReply(r)

StartRead(r) == HandleNotFound(r) \/ StartChunk(r) \/ StartAll(r)

ReadStep(r) ==
    \/ StartRead(r)
    \/ ChunkArrives(r)
    \/ ChunkEnd(r)
    \/ ChunkError(r)
    \/ DrainChunk(r)
    \/ DrainEnd(r)
    \/ DrainError(r)

BodyNext == \E r \in Requests :
    RequestStep(r) \/ ConsumerStep(r) \/ DeliverReply(r) \/ ReadStep(r) \/ ExpireBody(r)

BodySpec == BodyInit /\ [][BodyNext]_allVars

\* As in Request: the event loop and tokio make progress, and the timeout of a
\* request also bounds the reads of its body.  Consumers need not consume.
BodyFairness ==
    /\ \A r \in Requests :
         /\ WF_allVars((DeliverEvent(r) \/ DeliverSettle(r)) /\ UNCHANGED bodyVars)
         /\ WF_allVars((Send(r) \/ SendFails(r) \/ ObserveCancel(r) \/ Finish(r))
                         /\ UNCHANGED bodyVars)
         /\ WF_allVars(DeliverReply(r))
         /\ WF_allVars(StartRead(r))
    /\ \A r \in Timed : WF_allVars(ChunkError(r) \/ DrainError(r))

BodyFairSpec == BodySpec /\ BodyFairness

-----------------------------------------------------------------------------
(* What makes it correct.                                                  *)

\* Every variable keeps its type; the channel now also carries read replies.
BodyTypeOK ==
    /\ chan \in [Requests -> Seq(Msg \cup Reply)]
    /\ view \in [Requests -> ViewState]
    /\ held \in [Requests -> SUBSET Owner]
    /\ finalizer \in [Requests -> Owner \cup {"none"}]
    /\ released \subseteq Requests
    /\ read \in [Requests -> ReadState]
    /\ served \in [Requests -> 0..MaxChunks]
    /\ got \in [Requests -> 0..MaxChunks]
    /\ expired \subseteq Requests

Count(event, r) == Cardinality({i \in DOMAIN log[r] : log[r][i] = event})

\* A body JavaScript calls complete is the whole body: every chunk the native
\* stream yielded was received, each was reported by one body_progress before
\* the consumer got it, and the story ended with body_complete and done.
CompleteBodyIsWhole ==
    \A r \in Requests : view[r] = "complete" =>
        /\ got[r] = served[r]
        /\ r \in Observed =>
             /\ Count("body_progress", r) = got[r]
             /\ Count("body_complete", r) = 1
             /\ log[r][Len(log[r])] = "done"

\* JavaScript never runs ahead of the events: a chunk it holds was reported.
ProgressBeforeData ==
    \A r \in Observed :
        HasBody(r) /\ view[r] # "cancelled" => Count("body_progress", r) >= got[r]

\* Reading a body somebody still holds fails to find its handle only when the
\* handle expired: neither collecting the Response of a live stream nor the end
\* of another read takes it away.
LostOnlyByExpiry ==
    \A r \in Requests :
        /\ view[r] = "lost" => r \in expired
        /\ (view[r] \in {"all", "open"} /\ chan[r] # <<>> /\ Head(chan[r]) = "notFound")
              => r \in expired

\* When no object can reach a body any more, the native maps are free of it,
\* save for an event state the fast path left behind.
UnreachableIsReleased ==
    \A r \in Requests : HasBody(r) /\ held[r] = {} =>
        /\ stream[r] = "gone"
        /\ r \in bodyEvents => view[r] \in {"lost", "failed"}

\* An event state outlives its stream only while a read is at work on it, when
\* the handle expired, or when readBodyAll failed half way.
EventStateScope ==
    \A r \in bodyEvents :
        stream[r] = "gone" =>
            \/ r \in expired
            \/ read[r] \in {"chunk", "all"}
            \/ view[r] \in {"all", "failed"}

\* What a reader sees of a body is in order and, at the end, all of it.
ReadInOrder == CompleteBodyIsWhole /\ ProgressBeforeData

\* Neither the streams nor the event states of the native side outlive those
\* who could use them.
NothingLeftBehind == UnreachableIsReleased /\ EventStateScope

\* Consuming the body of a request with a timeout ends, whatever the server does.
TimedBodySettles ==
    \A r \in Timed : view[r] = "all" ~> view[r] # "all"
=============================================================================
