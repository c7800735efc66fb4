------------------------------ MODULE BodyProofs ------------------------------
(***************************************************************************)
(* Who holds a response body, what is left of it, and what its readers see,*)
(* for any number of requests and of chunks.                               *)
(*                                                                         *)
(* All that is said here is about one request at a time: the invariant is  *)
(* a formula on r, and a step of another request leaves r alone.           *)
(***************************************************************************)
EXTENDS Body, Lists, TLAPS

\* The sequence holds something of the kinds.
Has(s, kinds) == \E i \in DOMAIN s : s[i] \in kinds

OneReply(s) ==
    \A i, j \in DOMAIN s : s[i] \in Reply /\ s[j] \in Reply => i = j

Closure == Msg \cup Reply

\* The types these proofs need.
Types ==
    /\ js \in [Requests -> JsState]
    /\ native \in [Requests -> NativeState]
    /\ result \in [Requests -> ResultKind]
    /\ stream \in [Requests -> StreamState]
    /\ bodyEvents \subseteq Requests
    /\ chan \in [Requests -> Seq(Closure)]
    /\ view \in [Requests -> ViewState]
    /\ held \in [Requests -> SUBSET Owner]
    /\ finalizer \in [Requests -> Owner \cup {"none"}]
    /\ released \subseteq Requests
    /\ read \in [Requests -> ReadState]
    /\ expired \subseteq Requests

\* The request: its promise is settled by a task that is over, and a response
\* with a handle has stored its body.
Producing(r) ==
    /\ js[r] = "idle" => native[r] = "none"
    /\ js[r] = "resolved" \/ Has(chan[r], {Settle}) => native[r] = "done"
    /\ result[r] = "handle" => stream[r] # "none"

\* Nobody has touched a body that JavaScript does not have.
Untouched(r) ==
    ~HasBody(r) =>
        /\ view[r] = "fresh" /\ held[r] = {"response"} /\ finalizer[r] = "response"
        /\ r \notin released

\* The native read in progress fits what JavaScript is doing, and it has one
\* answer.
Reading(r) ==
    /\ view[r] = "fresh" => read[r] = "idle"
    /\ read[r] \in {"chunk?", "chunk"} => view[r] \in {"open", "cancelled"}
    /\ read[r] \in {"all?", "all"} => view[r] = "all"
    /\ view[r] = "open" /\ read[r] # "idle" => "stream" \in held[r]
    /\ Has(chan[r], Reply) => read[r] = "replied"
    /\ OneReply(chan[r])

\* As long as somebody may read the body, it is stored or it has expired.
Kept(r) ==
    /\ result[r] = "handle" /\ view[r] = "fresh" /\ "response" \in held[r] =>
           stream[r] = "stored" \/ r \in expired
    /\ view[r] = "open" /\ "stream" \in held[r] =>
           \/ stream[r] = "stored" \/ r \in expired
           \/ read[r] = "replied" /\ ~Has(chan[r], {"data"})
    /\ read[r] = "all?" => stream[r] = "stored" \/ r \in expired
    /\ view[r] \in {"all", "open"} /\ Has(chan[r], {"notFound"}) => r \in expired
    /\ view[r] = "lost" => r \in expired

\* The finalizer watches an object that is there, until the body is released.
Watched(r) ==
    /\ finalizer[r] = "none" <=> r \in released
    /\ finalizer[r] # "none" => finalizer[r] \in held[r]
    /\ view[r] \in {"fresh", "all"} => held[r] \subseteq {"response"} /\ finalizer[r] # "stream"
    /\ view[r] = "fresh" /\ "response" \in held[r] => r \notin released
    /\ view[r] = "open" => finalizer[r] # "response"

\* What is released is gone.
Gone(r) ==
    /\ view[r] = "all" /\ read[r] \in {"all", "replied"} => stream[r] = "gone"
    /\ view[r] = "all" /\ Has(chan[r], {"bytes"}) => r \notin bodyEvents
    /\ r \in released =>
           stream[r] = "gone" /\ (r \in bodyEvents => view[r] \in {"lost", "failed"})
    /\ r \in bodyEvents /\ stream[r] = "gone" =>
           r \in expired \/ view[r] \in {"all", "failed"}

Part(r) ==
    Producing(r) /\ Untouched(r) /\ Reading(r) /\ Kept(r) /\ Watched(r) /\ Gone(r)

\* The inductive invariant.
BInv == Types /\ \A r \in Requests : Part(r)
-----------------------------------------------------------------------------
(* The channel.                                                            *)

\* Events, the settlement and the replies to reads are different closures.
LEMMA Kinds ==
    /\ EventType \subseteq Closure /\ Reply \subseteq Closure /\ Settle \in Closure
    /\ EventType \cap (Reply \cup {Settle}) = {}
    /\ Settle \notin Reply
BY DEF Closure, Msg, EventType, Reply, Settle

\* Something is queued.
LEMMA HasConcat ==
    ASSUME NEW S, NEW s \in Seq(S), NEW t \in Seq(S), NEW kinds
    PROVE  Has(s \o t, kinds) <=> Has(s, kinds) \/ Has(t, kinds)
<1>1. Has(s, kinds) => Has(s \o t, kinds)
  BY DEF Has
<1>2. Has(t, kinds) => Has(s \o t, kinds)
  <2> SUFFICES ASSUME NEW i \in DOMAIN t, t[i] \in kinds
               PROVE  Has(s \o t, kinds)
    BY DEF Has
  <2>1. Len(s) + i \in DOMAIN (s \o t) /\ (s \o t)[Len(s) + i] = t[i]
    OBVIOUS
  <2> QED
    BY <2>1 DEF Has
<1>3. Has(s \o t, kinds) => Has(s, kinds) \/ Has(t, kinds)
  <2> SUFFICES ASSUME NEW i \in DOMAIN (s \o t), (s \o t)[i] \in kinds
               PROVE  Has(s, kinds) \/ Has(t, kinds)
    BY DEF Has
  <2>1. CASE i <= Len(s)
    BY <2>1 DEF Has
  <2>2. CASE i > Len(s)
    <3>1. i - Len(s) \in DOMAIN t /\ (s \o t)[i] = t[i - Len(s)]
      BY <2>2
    <3> QED
      BY <3>1 DEF Has
  <2> QED
    BY <2>1, <2>2
<1> QED
  BY <1>1, <1>2, <1>3

\* A reply is queued behind a channel without one, or something else is.
LEMMA OneConcat ==
    ASSUME NEW S, NEW s \in Seq(S), NEW t \in Seq(S),
           OneReply(s), OneReply(t), ~Has(s, Reply) \/ ~Has(t, Reply)
    PROVE  OneReply(s \o t)
<1> SUFFICES ASSUME NEW i \in DOMAIN (s \o t), NEW j \in DOMAIN (s \o t),
                    (s \o t)[i] \in Reply, (s \o t)[j] \in Reply
             PROVE  i = j
  BY DEF OneReply
<1>1. CASE i <= Len(s) /\ j <= Len(s)
  BY <1>1 DEF OneReply
<1>2. CASE i > Len(s) /\ j > Len(s)
  <2>1. /\ i - Len(s) \in DOMAIN t /\ (s \o t)[i] = t[i - Len(s)]
        /\ j - Len(s) \in DOMAIN t /\ (s \o t)[j] = t[j - Len(s)]
    BY <1>2
  <2>2. i - Len(s) = j - Len(s)
    BY <2>1 DEF OneReply
  <2> QED
    BY <2>2
<1>3. ASSUME NEW m \in DOMAIN (s \o t), NEW n \in DOMAIN (s \o t), m <= Len(s), n > Len(s),
             (s \o t)[m] \in Reply, (s \o t)[n] \in Reply
      PROVE  FALSE
  <2>1. m \in DOMAIN s /\ (s \o t)[m] = s[m]
    BY <1>3
  <2>2. n - Len(s) \in DOMAIN t /\ (s \o t)[n] = t[n - Len(s)]
    BY <1>3
  <2> QED
    BY <1>3, <2>1, <2>2 DEF Has
<1>4. CASE i <= Len(s) /\ j > Len(s)
  BY <1>3, <1>4
<1>5. CASE j <= Len(s) /\ i > Len(s)
  BY <1>3, <1>5
<1> QED
  BY <1>1, <1>2, <1>4, <1>5

\* The closure at the head runs.
LEMMA HasTail ==
    ASSUME NEW S, NEW s \in Seq(S), s # <<>>
    PROVE  /\ \A kinds : Has(s, kinds) <=> Head(s) \in kinds \/ Has(Tail(s), kinds)
           /\ OneReply(s) => OneReply(Tail(s))
           /\ OneReply(s) /\ Head(s) \in Reply => ~Has(Tail(s), Reply)
<1>1. ASSUME NEW kinds PROVE Has(s, kinds) => Head(s) \in kinds \/ Has(Tail(s), kinds)
  <2> SUFFICES ASSUME NEW i \in DOMAIN s, s[i] \in kinds, i # 1
               PROVE  Has(Tail(s), kinds)
    BY DEF Has
  <2>1. i - 1 \in DOMAIN Tail(s) /\ Tail(s)[i - 1] = s[i]
    OBVIOUS
  <2> QED
    BY <2>1 DEF Has
<1>2. ASSUME NEW kinds PROVE Head(s) \in kinds => Has(s, kinds)
  BY DEF Has
<1>3. \A i \in DOMAIN Tail(s) : i + 1 \in DOMAIN s /\ s[i + 1] = Tail(s)[i] /\ i \in Nat \ {0}
  OBVIOUS
<1>4. ASSUME NEW kinds PROVE Has(Tail(s), kinds) => Has(s, kinds)
  BY <1>3 DEF Has
<1>5. OneReply(s) => OneReply(Tail(s))
  <2> SUFFICES ASSUME OneReply(s), NEW i \in DOMAIN Tail(s), NEW j \in DOMAIN Tail(s),
                      Tail(s)[i] \in Reply, Tail(s)[j] \in Reply
               PROVE  i = j
    BY DEF OneReply
  <2>1. i + 1 = j + 1
    BY <1>3 DEF OneReply
  <2> QED
    BY <1>3, <2>1
<1>6. OneReply(s) /\ Head(s) \in Reply => ~Has(Tail(s), Reply)
  <2> SUFFICES ASSUME OneReply(s), Head(s) \in Reply,
                      NEW i \in DOMAIN Tail(s), Tail(s)[i] \in Reply
               PROVE  FALSE
    BY DEF Has
  <2>1. 1 \in DOMAIN s /\ s[1] \in Reply
    OBVIOUS
  <2>2. i + 1 = 1
    BY <1>3, <2>1 DEF OneReply
  <2> QED
    BY <1>3, <2>2
<1> QED
  BY <1>1, <1>2, <1>4, <1>5, <1>6

\* Sequences of at most one closure.
LEMMA HasFew ==
    /\ \A kinds : ~Has(<<>>, kinds)
    /\ OneReply(<<>>)
    /\ \A x, kinds : Has(<<x>>, kinds) <=> x \in kinds
    /\ \A x : OneReply(<<x>>)
<1>1. (\A kinds : ~Has(<<>>, kinds)) /\ OneReply(<<>>)
  BY DEF Has, OneReply
<1>2. ASSUME NEW x PROVE OneReply(<<x>>) /\ \A kinds : Has(<<x>>, kinds) <=> x \in kinds
  <2>1. DOMAIN <<x>> = {1} /\ <<x>>[1] = x
    OBVIOUS
  <2> QED
    BY <2>1 DEF Has, OneReply
<1> QED
  BY <1>1, <1>2

\* The channel of r when its head runs.
LEMMA ChanRuns ==
    ASSUME Types, NEW r \in Requests, chan[r] # <<>>,
           chan' = [chan EXCEPT ![r] = Tail(@)]
    PROVE  /\ chan' \in [Requests -> Seq(Closure)]
           /\ \A kinds : Has(chan[r], kinds) <=> Head(chan[r]) \in kinds \/ Has(chan'[r], kinds)
           /\ OneReply(chan[r]) => OneReply(chan'[r])
           /\ OneReply(chan[r]) /\ Head(chan[r]) \in Reply => ~Has(chan'[r], Reply)
<1>1. chan[r] \in Seq(Closure) /\ chan'[r] = Tail(chan[r])
  BY DEF Types
<1>2. chan' \in [Requests -> Seq(Closure)]
  BY DEF Types
<1> QED
  BY <1>1, <1>2, HasTail

\* When events and then a reply or a settlement are queued.
LEMMA ChanQueues ==
    ASSUME Types, NEW r \in Requests, NEW e \in Seq(EventType), NEW t \in Seq(Closure),
           chan' = [chan EXCEPT ![r] = @ \o e \o t]
    PROVE  /\ chan' \in [Requests -> Seq(Closure)]
           /\ \A kinds : kinds \cap EventType = {} =>
                  (Has(chan'[r], kinds) <=> Has(chan[r], kinds) \/ Has(t, kinds))
           /\ OneReply(chan[r]) /\ OneReply(t) /\ (~Has(chan[r], Reply) \/ ~Has(t, Reply)) =>
                  OneReply(chan'[r])
<1>1. chan[r] \in Seq(Closure) /\ chan'[r] = (chan[r] \o e) \o t
  BY DEF Types
<1>2. e \in Seq(Closure) /\ chan[r] \o e \in Seq(Closure)
  BY <1>1, Kinds
<1>3. chan' \in [Requests -> Seq(Closure)]
  BY <1>1, <1>2 DEF Types
<1>4. ASSUME NEW kinds, kinds \cap EventType = {} PROVE ~Has(e, kinds)
  BY <1>4 DEF Has
<1>5. ~Has(e, Reply) /\ OneReply(e)
  BY <1>4, Kinds DEF OneReply, Has
<1>6. ASSUME NEW kinds, kinds \cap EventType = {}
      PROVE  Has(chan'[r], kinds) <=> Has(chan[r], kinds) \/ Has(t, kinds)
  <2>1. Has((chan[r] \o e) \o t, kinds) <=> Has(chan[r] \o e, kinds) \/ Has(t, kinds)
    BY <1>2, HasConcat
  <2>2. Has(chan[r] \o e, kinds) <=> Has(chan[r], kinds) \/ Has(e, kinds)
    BY <1>1, <1>2, HasConcat
  <2> QED
    BY <1>1, <1>4, <1>6, <2>1, <2>2
<1>7. ASSUME OneReply(chan[r]), OneReply(t), ~Has(chan[r], Reply) \/ ~Has(t, Reply)
      PROVE  OneReply(chan'[r])
  <2>1. OneReply(chan[r] \o e)
    BY <1>1, <1>2, <1>5, <1>7, OneConcat
  <2>2. Has(chan[r] \o e, Reply) <=> Has(chan[r], Reply)
    BY <1>1, <1>2, <1>5, HasConcat
  <2> QED
    BY <1>1, <1>2, <1>7, <2>1, <2>2, OneConcat
<1> QED
  BY <1>3, <1>6, <1>7

\* When only events are.
LEMMA ChanEmits ==
    ASSUME Types, NEW r \in Requests, NEW e \in Seq(EventType), Emit(r, e)
    PROVE  /\ chan' \in [Requests -> Seq(Closure)]
           /\ \A kinds : kinds \cap EventType = {} =>
                  (Has(chan'[r], kinds) <=> Has(chan[r], kinds))
           /\ OneReply(chan[r]) => OneReply(chan'[r])
<1>1. Emitting(r, e) \in Seq(EventType)
  BY DEF Emitting
<1>2. Emitting(r, e) \in Seq(Closure) /\ <<>> \in Seq(Closure)
  BY <1>1, Kinds
<1>3. chan[r] \in Seq(Closure)
  BY DEF Types
<1>4. (chan[r] \o Emitting(r, e)) \o <<>> = chan[r] \o Emitting(r, e)
  BY <1>2, <1>3
<1>5. chan' = [chan EXCEPT ![r] = @ \o Emitting(r, e) \o <<>>]
  BY <1>4 DEF Emit
<1> QED
  BY <1>1, <1>2, <1>5, ChanQueues, HasFew

\* When a body read emits and perhaps replies.
LEMMA ChanReplies ==
    ASSUME Types, NEW r \in Requests, NEW e \in Seq(EventType), NEW t \in Seq(Reply),
           EmitAndReply(r, e, t),
           t = <<>> \/ (~Has(chan[r], Reply) /\ \E x \in Reply : t = <<x>>)
    PROVE  /\ chan' \in [Requests -> Seq(Closure)]
           /\ \A kinds : kinds \cap EventType = {} =>
                  (Has(chan'[r], kinds) <=> Has(chan[r], kinds) \/ Has(t, kinds))
           /\ OneReply(chan[r]) => OneReply(chan'[r])
<1> DEFINE f == IF r \in bodyEvents THEN e ELSE <<>>
<1>1. f \in Seq(EventType)
  OBVIOUS
<1>2. t \in Seq(Closure)
  BY Kinds
<1>3. chan' = [chan EXCEPT ![r] = @ \o f \o t]
  BY DEF EmitAndReply
<1>4. OneReply(t) /\ (t = <<>> => ~Has(t, Reply))
  BY HasFew
<1> HIDE DEF f
<1> QED
  BY <1>1, <1>2, <1>3, <1>4, ChanQueues

-----------------------------------------------------------------------------
(* One request at a time.                                                  *)

Step(r) ==
    RequestStep(r) \/ ConsumerStep(r) \/ DeliverReply(r) \/ ReadStep(r) \/ ExpireBody(r)

\* Nothing of q changes.
Same(q) ==
    /\ js'[q] = js[q] /\ native'[q] = native[q] /\ result'[q] = result[q]
    /\ stream'[q] = stream[q] /\ (q \in bodyEvents' <=> q \in bodyEvents)
    /\ chan'[q] = chan[q]
    /\ view'[q] = view[q] /\ held'[q] = held[q] /\ finalizer'[q] = finalizer[q]
    /\ (q \in released' <=> q \in released)
    /\ read'[q] = read[q] /\ (q \in expired' <=> q \in expired)

LEMMA SameKeeps == ASSUME NEW q, Part(q), Same(q) PROVE Part(q)'
BY DEF Part, Same, Producing, Untouched, HasBody, Reading, Kept, Watched, Gone, Has, OneReply

\* A step of another request leaves q alone.
LEMMA StepSame ==
    ASSUME Types, NEW r \in Requests, NEW q \in Requests, q # r, Step(r)
    PROVE  Same(q)
<1> USE DEF Types, Same
<1>1. ASSUME JsStep(r), UNCHANGED bodyVars PROVE Same(q)
  BY <1>1 DEF bodyVars, JsStep, RejectAborted, Dispatch, DispatchThrows, Abort, DeliverEvent,
     DeliverSettle
<1>2. ASSUME NativeStep(r), UNCHANGED bodyVars PROVE Same(q)
  BY <1>2 DEF bodyVars, NativeStep, Send, SendFails, HeadersNoBody, HeadersInline,
     HeadersStream, InlineComplete, NetworkFails, ObserveCancel, Finish, Emit, Returns
<1>3. ASSUME ConsumerStep(r) PROVE Same(q)
  BY <1>3 DEF ConsumerStep, ReadAll, OpenStream, Pull, CancelStream, Collect, vars,
     ReleaseNativeBody, RequestUnchanged
<1>4. ASSUME DeliverReply(r) PROVE Same(q)
  BY <1>4 DEF DeliverReply, DeliverChunkReply, DeliverAllReply, Settled, MarkReleased,
     ReleaseNativeBody, RequestUnchanged
<1>5. ASSUME ReadStep(r) PROVE Same(q)
  BY <1>5 DEF ReadStep, StartRead, HandleNotFound, StartChunk, StartAll, ChunkArrives,
     ChunkEnd, ChunkError, ChunkStops, DrainChunk, DrainEnd, DrainError, EmitAndReply,
     ReadUnchanged, RequestUnchanged
<1>6. ASSUME ExpireBody(r) PROVE Same(q)
  BY <1>6 DEF ExpireBody, Expire
<1> QED
  BY <1>1, <1>2, <1>3, <1>4, <1>5, <1>6 DEF Step, RequestStep

-----------------------------------------------------------------------------
(* Types.                                                                  *)

\* The groups of events that are queued together.
LEMMA EventGroups ==
    /\ <<>> \in Seq(EventType)
    /\ <<"request_start">> \in Seq(EventType)
    /\ <<"request_start", "request_sent">> \in Seq(EventType)
    /\ <<"response_headers">> \in Seq(EventType)
    /\ <<"response_headers", "done">> \in Seq(EventType)
    /\ <<"body_progress", "body_complete", "done">> \in Seq(EventType)
    /\ <<"body_progress">> \in Seq(EventType)
    /\ <<"body_complete", "done">> \in Seq(EventType)
    /\ <<"error">> \in Seq(EventType)
BY DEF EventType

ReadChanges(r) == HandleNotFound(r) \/ ChunkArrives(r) \/ ChunkEnd(r) \/ ChunkError(r)
                  \/ DrainChunk(r) \/ DrainEnd(r) \/ DrainError(r)

\* A read task that uses the channel finds no reply there.
LEMMA ReadQueues ==
    ASSUME Types, NEW r \in Requests, Reading(r), ReadChanges(r)
    PROVE  /\ chan' \in [Requests -> Seq(Closure)]
           /\ ~Has(chan[r], Reply)
<1>1. ~Has(chan[r], Reply)
  BY DEF Reading, ReadChanges, HandleNotFound, ChunkArrives, ChunkEnd, ChunkError, ChunkStops,
     DrainChunk, DrainEnd, DrainError
<1>2. ASSUME NEW e \in Seq(EventType), NEW x \in Reply, EmitAndReply(r, e, <<x>>)
      PROVE  chan' \in [Requests -> Seq(Closure)]
  <2>1. <<x>> \in Seq(Reply)
    OBVIOUS
  <2> QED
    BY <1>1, <1>2, <2>1, ChanReplies
<1>3. ASSUME NEW e \in Seq(EventType), EmitAndReply(r, e, <<>>)
      PROVE  chan' \in [Requests -> Seq(Closure)]
  <2> DEFINE f == IF r \in bodyEvents THEN e ELSE <<>>
  <2>1. f \in Seq(EventType) /\ <<>> \in Seq(Closure)
    OBVIOUS
  <2>2. chan' = [chan EXCEPT ![r] = @ \o f \o <<>>]
    BY <1>3 DEF EmitAndReply
  <2> HIDE DEF f
  <2> QED
    BY <2>1, <2>2, ChanQueues
<1>4. {"notFound", "data", "null", "readError", "bytes"} \subseteq Reply
  BY DEF Reply
<1>5. chan' \in [Requests -> Seq(Closure)]
  <2>1. CASE HandleNotFound(r)
    BY <1>2, <1>4, <2>1, EventGroups DEF HandleNotFound
  <2>2. CASE ChunkArrives(r)
    BY <1>2, <1>4, <2>2, EventGroups DEF ChunkArrives
  <2>3. CASE ChunkEnd(r) \/ ChunkError(r)
    BY <1>2, <1>4, <2>3, EventGroups DEF ChunkEnd, ChunkError, ChunkStops
  <2>4. CASE DrainChunk(r)
    BY <1>3, <2>4, EventGroups DEF DrainChunk
  <2>5. CASE DrainEnd(r) \/ DrainError(r)
    BY <1>2, <1>4, <2>5, EventGroups DEF DrainEnd, DrainError
  <2> QED
    BY <2>1, <2>2, <2>3, <2>4, <2>5 DEF ReadChanges
<1> QED
  BY <1>1, <1>5

\* Releasing a body.
LEMMA ReleaseTypes ==
    ASSUME Types, NEW r \in Requests, ReleaseNativeBody(r)
    PROVE  /\ released' \subseteq Requests /\ finalizer' \in [Requests -> Owner \cup {"none"}]
           /\ stream' \in [Requests -> StreamState] /\ bodyEvents' \subseteq Requests
<1>1. CASE r \in released
  BY <1>1 DEF ReleaseNativeBody, Types
<1>2. CASE r \notin released
  <2>1. released' \subseteq Requests /\ bodyEvents' \subseteq Requests
    BY <1>2 DEF ReleaseNativeBody, Types
  <2>2. finalizer' \in [Requests -> Owner \cup {"none"}]
    BY <1>2 DEF ReleaseNativeBody, Types
  <2>3. stream' \in [Requests -> StreamState]
    BY <1>2 DEF ReleaseNativeBody, Types, StreamState
  <2> QED
    BY <2>1, <2>2, <2>3
<1> QED
  BY <1>1, <1>2

LEMMA StepTypes ==
    ASSUME Types, NEW r \in Requests, Step(r), Reading(r)
    PROVE  Types'
<1> DEFINE chanOK == chan' \in [Requests -> Seq(Closure)]
<1>1. ASSUME JsStep(r), UNCHANGED bodyVars PROVE Types'
  <2>1. CASE DeliverEvent(r) \/ DeliverSettle(r)
    <3>1. chanOK
      BY <2>1, ChanRuns DEF DeliverEvent, DeliverSettle
    <3> QED
      BY <1>1, <2>1, <3>1 DEF bodyVars, DeliverEvent, DeliverSettle, Types, JsState
  <2>2. CASE ~(DeliverEvent(r) \/ DeliverSettle(r))
    BY <1>1, <2>2
       DEF bodyVars, JsStep, RejectAborted, Dispatch, DispatchThrows, Abort, Types, JsState,
           NativeState
  <2> QED
    BY <2>1, <2>2
<1>2. ASSUME NativeStep(r), UNCHANGED bodyVars PROVE Types'
  <2>1. ASSUME NEW e \in Seq(EventType), Emit(r, e) PROVE chanOK
    BY <2>1, ChanEmits
  <2>2. CASE Send(r) \/ SendFails(r) \/ HeadersNoBody(r) \/ HeadersInline(r)
             \/ HeadersStream(r) \/ InlineComplete(r)
    <3>1. chanOK
      BY <2>1, <2>2, EventGroups
         DEF Send, SendFails, HeadersNoBody, HeadersInline, HeadersStream, InlineComplete
    <3> QED
      BY <1>2, <2>2, <3>1
         DEF bodyVars, Send, SendFails, HeadersNoBody, HeadersInline, HeadersStream,
             InlineComplete, Returns, Types, NativeState, ResultKind, StreamState
  <2>3. CASE NetworkFails(r) \/ ObserveCancel(r)
    BY <1>2, <2>3
       DEF bodyVars, NetworkFails, ObserveCancel, Returns, Types, NativeState, ResultKind
  <2>4. CASE Finish(r)
    <3> DEFINE e == IF result[r] = "error" THEN Emitting(r, <<"error">>) ELSE <<>>
    <3>1. e \in Seq(EventType) /\ <<Settle>> \in Seq(Closure)
      BY Kinds, EventGroups DEF Emitting
    <3>2. chan' = [chan EXCEPT ![r] = @ \o e \o <<Settle>>]
      BY <2>4 DEF Finish
    <3> HIDE DEF e
    <3>3. chanOK
      BY <3>1, <3>2, ChanQueues
    <3> QED
      BY <1>2, <2>4, <3>3 DEF bodyVars, Finish, Types, NativeState
  <2> QED
    BY <1>2, <2>2, <2>3, <2>4 DEF NativeStep
<1>3. ASSUME ConsumerStep(r) PROVE Types'
  <2>1. CASE ReadAll(r)
    BY <2>1 DEF ReadAll, vars, Types, ViewState, ReadState
  <2>2. CASE OpenStream(r)
    <3>1. held' \in [Requests -> SUBSET Owner] /\ view' \in [Requests -> ViewState]
      BY <2>2 DEF OpenStream, Types, Owner, ViewState
    <3> QED
      BY <2>2, <3>1 DEF OpenStream, vars, Types, Owner
  <2>3. CASE Pull(r)
    BY <2>3 DEF Pull, vars, Types, ReadState
  <2>4. CASE CancelStream(r)
    <3>1. view' \in [Requests -> ViewState]
      BY <2>4 DEF CancelStream, Types, ViewState
    <3> QED
      BY <2>4, <3>1, ReleaseTypes DEF CancelStream, RequestUnchanged, Types
  <2>5. ASSUME NEW owner \in Owner, Collect(r, owner) PROVE Types'
    <3>1. held' \in [Requests -> SUBSET Owner]
      BY <2>5 DEF Collect, Types
    <3>2. /\ released' \subseteq Requests /\ finalizer' \in [Requests -> Owner \cup {"none"}]
          /\ stream' \in [Requests -> StreamState] /\ bodyEvents' \subseteq Requests
      BY <2>5, ReleaseTypes DEF Collect, Types
    <3> QED
      BY <2>5, <3>1, <3>2 DEF Collect, RequestUnchanged, Types
  <2> QED
    BY <1>3, <2>1, <2>2, <2>3, <2>4, <2>5 DEF ConsumerStep
<1>4. ASSUME DeliverReply(r) PROVE Types'
  <2>1. chanOK
    BY <1>4, ChanRuns DEF DeliverReply, DeliverChunkReply, DeliverAllReply
  <2>2. CASE DeliverChunkReply(r)
    <3>1. /\ released' \subseteq Requests /\ finalizer' \in [Requests -> Owner \cup {"none"}]
          /\ stream' \in [Requests -> StreamState] /\ bodyEvents' \subseteq Requests
      BY <2>2, ReleaseTypes DEF DeliverChunkReply, Types
    <3>2. view' \in [Requests -> ViewState] /\ read' \in [Requests -> ReadState]
      BY <2>2 DEF DeliverChunkReply, Settled, Types, ViewState, ReadState
    <3> QED
      BY <2>1, <2>2, <3>1, <3>2 DEF DeliverChunkReply, RequestUnchanged, Types
  <2>3. CASE DeliverAllReply(r)
    BY <2>1, <2>3
       DEF DeliverAllReply, MarkReleased, RequestUnchanged, Types, ViewState, ReadState
  <2> QED
    BY <1>4, <2>2, <2>3 DEF DeliverReply
<1>5. ASSUME ReadStep(r) PROVE Types'
  <2>1. CASE StartChunk(r) \/ StartAll(r)
    BY <2>1 DEF StartChunk, StartAll, ReadUnchanged, RequestUnchanged, Types, ReadState,
       StreamState
  <2>2. CASE ReadChanges(r)
    <3>1. chanOK
      BY <2>2, ReadQueues
    <3>2. read' \in [Requests -> ReadState]
      BY <2>2 DEF ReadChanges, HandleNotFound, ChunkArrives, ChunkEnd, ChunkError, ChunkStops,
         DrainChunk, DrainEnd, DrainError, EmitAndReply, Types, ReadState
    <3> QED
      BY <2>2, <3>1, <3>2
         DEF ReadChanges, HandleNotFound, ChunkArrives, ChunkEnd, ChunkError, ChunkStops,
             DrainChunk, DrainEnd, DrainError, ReadUnchanged, RequestUnchanged, Types,
             StreamState
  <2> QED
    BY <1>5, <2>1, <2>2 DEF ReadStep, StartRead, ReadChanges
<1>6. ASSUME ExpireBody(r) PROVE Types'
  BY <1>6 DEF ExpireBody, Expire, Types, StreamState
<1> QED
  BY <1>1, <1>2, <1>3, <1>4, <1>5, <1>6 DEF Step, RequestStep

-----------------------------------------------------------------------------
(* The request goes on.                                                    *)

\* JavaScript has no body before the task is over.
LEMMA NoBodyYet ==
    ASSUME NEW r, Part(r), native[r] # "done"
    PROVE  /\ js[r] # "resolved" /\ ~HasBody(r) /\ ~Has(chan[r], {Settle})
           /\ view[r] = "fresh" /\ held[r] = {"response"} /\ finalizer[r] = "response"
           /\ r \notin released /\ read[r] = "idle" /\ ~Has(chan[r], Reply)
BY DEF Part, Producing, Untouched, Reading, HasBody

\* Steps that leave the channel and the body alone.
LEMMA JsKeeps ==
    ASSUME Types, NEW r \in Requests, Part(r), JsStep(r), UNCHANGED bodyVars,
           UNCHANGED chan
    PROVE  Part(r)'
<1>1. UNCHANGED <<stream, result, bodyEvents, view, held, finalizer, released, read, expired>>
  BY DEF JsStep, RejectAborted, Dispatch, DispatchThrows, Abort, DeliverEvent, DeliverSettle,
     bodyVars
<1>2. (js[r] = "resolved" <=> js'[r] = "resolved") /\ (HasBody(r) <=> HasBody(r)')
  BY <1>1 DEF JsStep, RejectAborted, Dispatch, DispatchThrows, Abort, DeliverEvent,
     DeliverSettle, HasBody, Types
<1>3. Producing(r)'
  BY <1>1, <1>2 DEF Part, Producing, JsStep, RejectAborted, Dispatch, DispatchThrows, Abort,
     DeliverEvent, DeliverSettle, Types, Has
<1> QED
  BY <1>1, <1>2, <1>3 DEF Part, Untouched, Reading, Kept, Watched, Gone, Has, OneReply

\* A closure of the request runs.
LEMMA DeliverKeeps ==
    ASSUME Types, NEW r \in Requests, Part(r), DeliverEvent(r) \/ DeliverSettle(r),
           UNCHANGED bodyVars
    PROVE  Part(r)'
<1>1. UNCHANGED <<native, stream, result, bodyEvents, view, held, finalizer, released, read,
                  expired>>
  BY DEF DeliverEvent, DeliverSettle, bodyVars
<1>2. \A kinds : Has(chan'[r], kinds) => Has(chan[r], kinds)
  BY ChanRuns DEF DeliverEvent, DeliverSettle
<1>3. OneReply(chan[r]) => OneReply(chan'[r])
  BY ChanRuns DEF DeliverEvent, DeliverSettle
<1>4. \/ js'[r] = js[r]
      \/ /\ js[r] = "pending" /\ native[r] = "done"
         /\ js'[r] \in {"resolved", "failed"}
  <2>1. CASE DeliverEvent(r)
    BY <2>1 DEF DeliverEvent
  <2>2. CASE DeliverSettle(r)
    <3>1. Has(chan[r], {Settle})
      BY <2>2, ChanRuns DEF DeliverSettle
    <3>2. native[r] = "done"
      BY <3>1 DEF Part, Producing
    <3> QED
      BY <2>2, <3>2 DEF DeliverSettle, Types
  <2> QED
    BY <2>1, <2>2
<1>5. Producing(r)'
  BY <1>1, <1>2, <1>4 DEF Part, Producing
<1>6. Untouched(r)'
  BY <1>1, <1>4 DEF Part, Untouched, HasBody
<1>7. Reading(r)'
  BY <1>1, <1>2, <1>3 DEF Part, Reading
<1>8. Kept(r)' /\ Watched(r)' /\ Gone(r)'
  <2>1. ~Has(chan[r], {"data"}) => ~Has(chan'[r], {"data"})
    BY <1>2
  <2> QED
    BY <1>1, <1>2, <2>1 DEF Part, Kept, Watched, Gone
<1> QED
  BY <1>5, <1>6, <1>7, <1>8 DEF Part

\* The task of the request goes on.
LEMMA NativeKeeps ==
    ASSUME Types, NEW r \in Requests, Part(r), NativeStep(r), UNCHANGED bodyVars
    PROVE  Part(r)'
<1>1. native[r] # "done"
  BY DEF NativeStep, Send, SendFails, HeadersNoBody, HeadersInline, HeadersStream,
     InlineComplete, NetworkFails, ObserveCancel, Finish, AwaitPoint
<1>2. UNCHANGED <<js, view, held, finalizer, released, read, expired>> /\ js[r] # "idle"
  BY <1>1 DEF NativeStep, Send, SendFails, HeadersNoBody, HeadersInline, HeadersStream,
     InlineComplete, NetworkFails, ObserveCancel, Finish, AwaitPoint, bodyVars, Part, Producing
<1>3. /\ Has(chan'[r], {Settle}) => native'[r] = "done"
      /\ ~Has(chan'[r], Reply) /\ OneReply(chan'[r])
  <2>1. {Settle} \cap EventType = {} /\ Reply \cap EventType = {} /\ Settle \notin Reply
    BY Kinds
  <2>2. ~Has(chan[r], {Settle}) /\ ~Has(chan[r], Reply) /\ OneReply(chan[r])
    BY <1>1, NoBodyYet DEF Part, Reading
  <2>3. ASSUME NEW e \in Seq(EventType), Emit(r, e)
        PROVE  ~Has(chan'[r], {Settle}) /\ ~Has(chan'[r], Reply) /\ OneReply(chan'[r])
    BY <2>1, <2>2, <2>3, ChanEmits
  <2>4. CASE Send(r) \/ SendFails(r)
    BY <2>3, <2>4, EventGroups DEF Send, SendFails
  <2>5. CASE HeadersNoBody(r) \/ HeadersInline(r) \/ HeadersStream(r)
    BY <2>3, <2>5, EventGroups DEF HeadersNoBody, HeadersInline, HeadersStream
  <2>6. CASE InlineComplete(r)
    BY <2>3, <2>6, EventGroups DEF InlineComplete
  <2>7. CASE NetworkFails(r) \/ ObserveCancel(r)
    BY <2>2, <2>7 DEF NetworkFails, ObserveCancel
  <2>8. CASE Finish(r)
    <3> DEFINE e == IF result[r] = "error" THEN Emitting(r, <<"error">>) ELSE <<>>
    <3>1. e \in Seq(EventType) /\ <<Settle>> \in Seq(Closure)
      BY Kinds, EventGroups DEF Emitting
    <3>2. chan' = [chan EXCEPT ![r] = @ \o e \o <<Settle>>]
      BY <2>8 DEF Finish
    <3> HIDE DEF e
    <3>3. /\ Has(chan'[r], Reply) <=> Has(chan[r], Reply) \/ Has(<<Settle>>, Reply)
          /\ OneReply(<<Settle>>) /\ ~Has(chan[r], Reply) => OneReply(chan'[r])
      BY <2>1, <2>2, <3>1, <3>2, ChanQueues
    <3>4. native'[r] = "done"
      BY <2>8 DEF Finish, Types
    <3> QED
      BY <2>1, <2>2, <3>3, <3>4, HasFew
  <2> QED
    BY <2>4, <2>5, <2>6, <2>7, <2>8 DEF NativeStep
<1>4. \/ /\ stream'[r] = stream[r] /\ (r \in bodyEvents' <=> r \in bodyEvents)
         /\ result'[r] = "handle" => result[r] = "handle"
      \/ stream'[r] = "stored"
  BY DEF NativeStep, Send, SendFails, HeadersNoBody, HeadersInline, HeadersStream,
     InlineComplete, NetworkFails, ObserveCancel, Finish, Returns, Types
<1>5. /\ js'[r] # "resolved" /\ view'[r] = "fresh" /\ held'[r] = {"response"}
      /\ finalizer'[r] = "response" /\ r \notin released' /\ read'[r] = "idle"
  BY <1>1, <1>2, NoBodyYet
<1>6. Producing(r)' /\ Untouched(r)' /\ Reading(r)' /\ Watched(r)'
  BY <1>2, <1>3, <1>4, <1>5 DEF Part, Producing, Untouched, Reading, Watched
<1>7. Kept(r)' /\ Gone(r)'
  BY <1>2, <1>4, <1>5 DEF Part, Kept, Gone
<1> QED
  BY <1>6, <1>7 DEF Part

-----------------------------------------------------------------------------
(* The body is used.                                                       *)

\* JavaScript starts to use the body.
LEMMA UseKeeps ==
    ASSUME Types, NEW r \in Requests, Part(r), ReadAll(r) \/ OpenStream(r) \/ Pull(r)
    PROVE  Part(r)'
<1>1. /\ UNCHANGED <<js, native, result, stream, bodyEvents, chan, released, expired>>
      /\ \A kinds : Has(chan[r], kinds)' <=> Has(chan[r], kinds)
      /\ OneReply(chan[r])' <=> OneReply(chan[r])
  BY DEF ReadAll, OpenStream, Pull, vars, Has, OneReply
<1>2. HasBody(r)
  BY DEF ReadAll, OpenStream, Pull, Part, Untouched
<1>3. Producing(r)' /\ Untouched(r)'
  BY <1>1, <1>2 DEF Part, Producing, Untouched, HasBody
<1>4. ~Has(chan[r], Reply) /\ ~Has(chan[r], {"notFound"}) /\ ~Has(chan[r], {"bytes"})
  BY DEF ReadAll, OpenStream, Pull, Part, Reading, Has, Reply
<1>5. CASE ReadAll(r)
  <2>1. /\ view[r] = "fresh" /\ view'[r] = "all" /\ read'[r] = "all?" /\ held' = held
        /\ finalizer' = finalizer /\ "response" \in held[r]
    BY <1>5 DEF ReadAll, Types
  <2> QED
    BY <1>1, <1>2, <1>3, <1>4, <2>1 DEF Part, Reading, Kept, Watched, Gone, HasBody
<1>6. CASE OpenStream(r)
  <2>1. /\ view[r] = "fresh" /\ view'[r] = "open" /\ read' = read
        /\ held'[r] = held[r] \cup {"stream"} /\ finalizer'[r] = "stream"
        /\ "response" \in held[r]
    BY <1>6 DEF OpenStream, Types
  <2>2. result[r] = "handle" /\ "stream" \in held'[r]
    BY <1>2, <2>1 DEF HasBody
  <2>3. stream[r] = "stored" \/ r \in expired
    BY <2>1, <2>2 DEF Part, Kept
  <2>4. Reading(r)'
    BY <1>1, <1>4, <2>1 DEF Part, Reading
  <2>5. Kept(r)'
    BY <1>1, <1>4, <2>1, <2>3 DEF Part, Reading, Kept
  <2>6. Watched(r)' /\ Gone(r)'
    BY <1>1, <2>1, <2>3 DEF Part, Watched, Gone
  <2> QED
    BY <1>3, <2>4, <2>5, <2>6 DEF Part
<1>7. CASE Pull(r)
  <2>1. /\ view[r] = "open" /\ view' = view /\ read[r] = "idle" /\ read'[r] = "chunk?"
        /\ held' = held /\ finalizer' = finalizer /\ "stream" \in held[r]
    BY <1>7 DEF Pull, Types
  <2>2. Reading(r)'
    BY <1>1, <1>4, <2>1 DEF Part, Reading
  <2>3. Kept(r)'
    BY <1>1, <1>4, <2>1 DEF Part, Kept
  <2>4. Watched(r)' /\ Gone(r)'
    BY <1>1, <2>1 DEF Part, Watched, Gone
  <2> QED
    BY <1>3, <2>2, <2>3, <2>4 DEF Part
<1> QED
  BY <1>5, <1>6, <1>7

\* The end of a body.
LEMMA Releases ==
    ASSUME Types, NEW r \in Requests, Part(r), ReleaseNativeBody(r)
    PROVE  /\ r \in released' /\ finalizer'[r] = "none" /\ stream'[r] = "gone"
           /\ r \in bodyEvents' => r \in bodyEvents /\ view[r] \in {"lost", "failed"}
<1>1. CASE r \in released
  BY <1>1 DEF ReleaseNativeBody, Part, Watched, Gone
<1>2. CASE r \notin released
  BY <1>2 DEF ReleaseNativeBody, Types
<1> QED
  BY <1>1, <1>2

LEMMA CancelKeeps ==
    ASSUME Types, NEW r \in Requests, Part(r), CancelStream(r)
    PROVE  Part(r)'
<1>1. /\ UNCHANGED <<js, native, result, chan, held, read, expired>>
      /\ \A kinds : Has(chan[r], kinds)' <=> Has(chan[r], kinds)
      /\ OneReply(chan[r])' <=> OneReply(chan[r])
      /\ view[r] = "open" /\ view'[r] = "cancelled"
  BY DEF CancelStream, RequestUnchanged, Has, OneReply, Types
<1>2. /\ r \in released' /\ finalizer'[r] = "none" /\ stream'[r] = "gone"
      /\ r \notin bodyEvents'
  BY <1>1, Releases DEF CancelStream
<1>3. HasBody(r) /\ HasBody(r)'
  BY <1>1 DEF Part, Untouched, HasBody
<1>4. Producing(r)' /\ Untouched(r)' /\ Reading(r)'
  BY <1>1, <1>2, <1>3 DEF Part, Producing, Untouched, Reading
<1>5. Kept(r)' /\ Watched(r)' /\ Gone(r)'
  BY <1>1, <1>2 DEF Part, Reading, Kept, Watched, Gone
<1> QED
  BY <1>4, <1>5 DEF Part

\* The collector takes an object; if the finalizer watches it nobody is left.
LEMMA CollectKeeps ==
    ASSUME Types, NEW r \in Requests, Part(r), NEW owner \in Owner, Collect(r, owner)
    PROVE  Part(r)'
<1>1. /\ UNCHANGED <<js, native, result, chan, view, read, expired>>
      /\ \A kinds : Has(chan[r], kinds)' <=> Has(chan[r], kinds)
      /\ OneReply(chan[r])' <=> OneReply(chan[r])
      /\ owner \in held[r] /\ held'[r] = held[r] \ {owner}
      /\ owner \in {"response", "stream"}
  BY DEF Collect, RequestUnchanged, Has, OneReply, Types, Owner
<1>2. HasBody(r) /\ HasBody(r)'
  BY <1>1 DEF Collect, HasBody
<1>3. owner = "stream" => read[r] = "idle" /\ "response" \notin held[r]
  BY DEF Collect
<1>4. owner = "response" => view[r] # "all"
  BY DEF Collect
<1>5. Untouched(r)' /\ Reading(r)'
  BY <1>1, <1>2, <1>3 DEF Part, Untouched, Reading
<1>6. CASE finalizer[r] = owner
  <2>1. /\ r \in released' /\ finalizer'[r] = "none" /\ stream'[r] = "gone"
        /\ r \in bodyEvents' => view[r] \in {"lost", "failed"}
    BY <1>6, Releases DEF Collect
  <2>2. r \notin released /\ view[r] # "all"
    BY <1>1, <1>4, <1>6 DEF Part, Watched
  <2>3. view[r] = "fresh" => owner = "response"
    BY <1>1, <1>6 DEF Part, Watched
  <2>4. view[r] = "open" => owner = "stream"
    BY <1>1, <1>6 DEF Part, Watched
  <2>5. r \notin bodyEvents'
    BY <1>6, <2>2 DEF Collect, ReleaseNativeBody, Types
  <2>6. Producing(r)' /\ Watched(r)' /\ Gone(r)'
    BY <1>1, <2>1, <2>2, <2>5 DEF Part, Producing, Watched, Gone
  <2>7. Kept(r)'
    BY <1>1, <1>3, <2>1, <2>2, <2>3, <2>4 DEF Part, Reading, Kept
  <2> QED
    BY <1>5, <2>6, <2>7 DEF Part
<1>7. CASE finalizer[r] # owner
  <2>1. UNCHANGED <<released, finalizer, stream, bodyEvents>>
    BY <1>7 DEF Collect
  <2> QED
    BY <1>1, <1>5, <1>7, <2>1 DEF Part, Producing, Kept, Watched, Gone
<1> QED
  BY <1>6, <1>7

\* The answer to a read of one chunk.
LEMMA ChunkReplyKeeps ==
    ASSUME Types, NEW r \in Requests, Part(r), DeliverChunkReply(r)
    PROVE  Part(r)'
<1>1. /\ UNCHANGED <<js, native, result, held, expired>>
      /\ view[r] \in {"open", "cancelled"} /\ read'[r] = "idle"
  BY DEF DeliverChunkReply, RequestUnchanged, Types
<1>2. /\ \A kinds : Has(chan[r], kinds) <=> Head(chan[r]) \in kinds \/ Has(chan'[r], kinds)
      /\ OneReply(chan'[r]) /\ ~Has(chan'[r], Reply)
      /\ Head(chan[r]) \in Reply
  BY ChanRuns DEF DeliverChunkReply, Part, Reading
<1>3. \A x \in Reply : ~Has(chan'[r], {x})
  BY <1>2 DEF Has
<1>4. ~Has(chan'[r], {"data"}) /\ ~Has(chan'[r], {"notFound"}) /\ ~Has(chan'[r], {"bytes"})
  BY <1>3 DEF Reply
<1>5. HasBody(r) /\ HasBody(r)'
  BY <1>1 DEF Part, Untouched, HasBody
<1>6. Has(chan'[r], {Settle}) => Has(chan[r], {Settle})
  BY <1>2
<1>7. CASE Head(chan[r]) = "data"
  <2>1. UNCHANGED <<view, released, finalizer, stream, bodyEvents>>
    BY <1>7 DEF DeliverChunkReply
  <2>2. Has(chan[r], {"data"})
    BY <1>2, <1>7
  <2>3. Producing(r)' /\ Untouched(r)' /\ Reading(r)'
    BY <1>1, <1>2, <1>5, <1>6, <2>1 DEF Part, Producing, Untouched, Reading
  <2>4. Kept(r)'
    BY <1>1, <1>4, <2>1, <2>2 DEF Part, Kept
  <2>5. Watched(r)' /\ Gone(r)'
    BY <1>1, <1>4, <2>1 DEF Part, Watched, Gone
  <2> QED
    BY <2>3, <2>4, <2>5 DEF Part
<1>8. CASE Head(chan[r]) # "data"
  <2>1. /\ r \in released' /\ finalizer'[r] = "none" /\ stream'[r] = "gone"
        /\ r \notin bodyEvents'
    BY <1>1, <1>8, Releases DEF DeliverChunkReply
  <2>2. view'[r] \in {"complete", "failed", "cancelled"}
    BY <1>1, <1>8 DEF DeliverChunkReply, Settled, Types
  <2>3. Producing(r)' /\ Untouched(r)' /\ Reading(r)'
    BY <1>1, <1>2, <1>5, <1>6, <2>1, <2>2 DEF Part, Producing, Untouched, Reading
  <2>4. Kept(r)' /\ Watched(r)' /\ Gone(r)'
    BY <1>1, <2>1, <2>2 DEF Part, Kept, Watched, Gone
  <2> QED
    BY <2>3, <2>4 DEF Part
<1> QED
  BY <1>7, <1>8

\* The answer to readBodyAll.
LEMMA AllReplyKeeps ==
    ASSUME Types, NEW r \in Requests, Part(r), DeliverAllReply(r)
    PROVE  Part(r)'
<1>1. /\ UNCHANGED <<js, native, result, held, expired, stream, bodyEvents>>
      /\ view[r] = "all" /\ read'[r] = "idle"
      /\ r \in released' /\ finalizer'[r] = "none"
  BY DEF DeliverAllReply, MarkReleased, RequestUnchanged, Types
<1>2. /\ \A kinds : Has(chan[r], kinds) <=> Head(chan[r]) \in kinds \/ Has(chan'[r], kinds)
      /\ OneReply(chan'[r]) /\ ~Has(chan'[r], Reply)
      /\ Head(chan[r]) \in Reply
  BY ChanRuns DEF DeliverAllReply, Part, Reading
<1>3. read[r] = "replied" /\ stream[r] = "gone"
  BY <1>1, <1>2 DEF Part, Reading, Gone
<1>4. HasBody(r) /\ HasBody(r)'
  BY <1>1 DEF Part, Untouched, HasBody
<1>5. view'[r] = CASE Head(chan[r]) = "bytes"    -> "complete"
                   [] Head(chan[r]) = "notFound" -> "lost"
                   [] OTHER                      -> "failed"
  BY DEF DeliverAllReply, Types
<1>6. /\ view'[r] \in {"complete", "lost", "failed"}
      /\ view'[r] = "complete" => r \notin bodyEvents
      /\ view'[r] = "lost" => r \in expired
  BY <1>1, <1>2, <1>5 DEF Part, Kept, Gone
<1>7. Has(chan'[r], {Settle}) => Has(chan[r], {Settle})
  BY <1>2
<1>8. Producing(r)' /\ Untouched(r)' /\ Reading(r)'
  BY <1>1, <1>2, <1>4, <1>6, <1>7 DEF Part, Producing, Untouched, Reading
<1>9. Kept(r)' /\ Watched(r)' /\ Gone(r)'
  BY <1>1, <1>3, <1>6 DEF Part, Kept, Watched, Gone
<1> QED
  BY <1>8, <1>9 DEF Part

-----------------------------------------------------------------------------
(* The native side reads and forgets.                                      *)

\* A read finds its handle, or the handle expires: nothing is queued.
LEMMA StartKeeps ==
    ASSUME Types, NEW r \in Requests, Part(r),
           StartChunk(r) \/ StartAll(r) \/ ExpireBody(r)
    PROVE  Part(r)'
<1>1. /\ UNCHANGED <<js, native, result, bodyEvents, chan, view, held, finalizer, released>>
      /\ \A kinds : Has(chan[r], kinds)' <=> Has(chan[r], kinds)
      /\ OneReply(chan[r])' <=> OneReply(chan[r])
      /\ stream[r] = "stored"
  BY DEF StartChunk, StartAll, ExpireBody, Expire, ReadUnchanged, RequestUnchanged, Has, OneReply
<1>2. HasBody(r) <=> HasBody(r)'
  BY <1>1 DEF HasBody
<1>3. r \notin released
  BY <1>1 DEF Part, Gone
<1>4. CASE StartChunk(r)
  <2>1. read[r] = "chunk?" /\ read'[r] = "chunk" /\ UNCHANGED <<stream, expired>>
    BY <1>4 DEF StartChunk, ReadUnchanged, Types
  <2>2. Producing(r)' /\ Untouched(r)' /\ Reading(r)'
    BY <1>1, <1>2, <2>1 DEF Part, Producing, Untouched, Reading
  <2>3. Kept(r)' /\ Watched(r)' /\ Gone(r)'
    BY <1>1, <2>1 DEF Part, Reading, Kept, Watched, Gone
  <2> QED
    BY <2>2, <2>3 DEF Part
<1>5. CASE StartAll(r)
  <2>1. read[r] = "all?" /\ read'[r] = "all" /\ stream'[r] = "gone" /\ UNCHANGED expired
    BY <1>5 DEF StartAll, ReadUnchanged, Types
  <2>2. view[r] = "all"
    BY <2>1 DEF Part, Reading
  <2>3. Producing(r)' /\ Untouched(r)' /\ Reading(r)'
    BY <1>1, <1>2, <2>1, <2>2 DEF Part, Producing, Untouched, Reading
  <2>4. Kept(r)' /\ Watched(r)' /\ Gone(r)'
    BY <1>1, <1>3, <2>1, <2>2 DEF Part, Kept, Watched, Gone
  <2> QED
    BY <2>3, <2>4 DEF Part
<1>6. CASE ExpireBody(r)
  <2>1. stream'[r] = "gone" /\ r \in expired' /\ read' = read
    BY <1>6 DEF ExpireBody, Expire, Types
  <2>2. Producing(r)' /\ Untouched(r)' /\ Reading(r)'
    BY <1>1, <1>2, <2>1 DEF Part, Producing, Untouched, Reading
  <2>3. Kept(r)' /\ Watched(r)' /\ Gone(r)'
    BY <1>1, <1>3, <2>1 DEF Part, Kept, Watched, Gone
  <2> QED
    BY <2>2, <2>3 DEF Part
<1> QED
  BY <1>4, <1>5, <1>6

\* A read that queues events and the reply x.
LEMMA Answers ==
    ASSUME Types, NEW r \in Requests, Part(r), NEW e \in Seq(EventType), NEW x \in Reply,
           EmitAndReply(r, e, <<x>>), ~Has(chan[r], Reply)
    PROVE  /\ read'[r] = "replied" /\ OneReply(chan'[r])
           /\ Has(chan'[r], {Settle}) => Has(chan[r], {Settle})
           /\ \A y \in Reply : Has(chan'[r], {y}) <=> y = x
<1>1. <<x>> \in Seq(Reply)
  OBVIOUS
<1>2. /\ \A kinds : kinds \cap EventType = {} =>
             (Has(chan'[r], kinds) <=> Has(chan[r], kinds) \/ Has(<<x>>, kinds))
      /\ OneReply(chan[r]) => OneReply(chan'[r])
  BY <1>1, ChanReplies
<1>3. {Settle} \cap EventType = {} /\ Settle # x /\ \A y \in Reply : {y} \cap EventType = {}
  BY Kinds
<1>4. \A y \in Reply : ~Has(chan[r], {y})
  BY DEF Has
<1>5. read'[r] = "replied"
  BY DEF EmitAndReply, Types
<1> QED
  BY <1>2, <1>3, <1>4, <1>5, HasFew DEF Part, Reading

\* The reads that answer.
LEMMA AnswerKeeps ==
    ASSUME Types, NEW r \in Requests, Part(r),
           HandleNotFound(r) \/ ChunkArrives(r) \/ ChunkEnd(r) \/ ChunkError(r)
           \/ DrainEnd(r) \/ DrainError(r)
    PROVE  Part(r)'
<1>1. UNCHANGED <<js, native, result, view, held, finalizer, released, expired>>
  BY DEF HandleNotFound, ChunkArrives, ChunkEnd, ChunkError, ChunkStops, DrainEnd, DrainError,
     ReadUnchanged, RequestUnchanged
<1>2. read[r] \notin {"idle", "replied"} /\ view[r] # "fresh" /\ HasBody(r)
  BY DEF HandleNotFound, ChunkArrives, ChunkEnd, ChunkError, ChunkStops, DrainEnd, DrainError,
     Part, Reading, Untouched
<1>3. HasBody(r)' /\ ~Has(chan[r], Reply)
  BY <1>1, <1>2 DEF HasBody, Part, Reading
<1>4. \A y \in Reply : ~Has(chan[r], {y})
  BY <1>3 DEF Has
<1>5. {"notFound", "data", "null", "readError", "bytes"} \subseteq Reply
  BY DEF Reply
<1>6. ASSUME NEW e \in Seq(EventType), NEW x \in Reply, EmitAndReply(r, e, <<x>>),
             stream'[r] # "none"
      PROVE  /\ read'[r] = "replied" /\ \A y \in Reply : Has(chan'[r], {y}) <=> y = x
             /\ Producing(r)' /\ Untouched(r)' /\ Reading(r)' /\ Watched(r)'
  <2>1. /\ read'[r] = "replied" /\ OneReply(chan'[r])
        /\ Has(chan'[r], {Settle}) => Has(chan[r], {Settle})
        /\ \A y \in Reply : Has(chan'[r], {y}) <=> y = x
    BY <1>3, <1>6, Answers
  <2>2. Producing(r)' /\ Untouched(r)' /\ Reading(r)' /\ Watched(r)'
    BY <1>1, <1>2, <1>3, <1>6, <2>1 DEF Part, Producing, Untouched, Reading, Watched
  <2> QED
    BY <2>1, <2>2
<1>7. stream[r] # "none"
  BY <1>2 DEF Part, Producing, HasBody
<1>8. CASE HandleNotFound(r)
  <2>1. /\ UNCHANGED <<stream, bodyEvents>> /\ stream[r] = "gone"
        /\ EmitAndReply(r, <<>>, <<"notFound">>) /\ read[r] \in {"chunk?", "all?"}
    BY <1>7, <1>8 DEF HandleNotFound, Types, StreamState
  <2>2. /\ read'[r] = "replied" /\ \A y \in Reply : Has(chan'[r], {y}) <=> y = "notFound"
        /\ Producing(r)' /\ Untouched(r)' /\ Reading(r)' /\ Watched(r)'
    BY <1>5, <1>6, <1>7, <2>1, EventGroups
  <2>3. ~Has(chan'[r], {"data"}) /\ ~Has(chan'[r], {"bytes"})
    BY <1>5, <2>2
  <2>4. view[r] = "open" \/ view[r] = "all" => r \in expired
    BY <2>1 DEF Part, Reading, Kept
  <2>5. Kept(r)' /\ Gone(r)'
    BY <1>1, <1>2, <2>1, <2>2, <2>3, <2>4 DEF Part, Kept, Gone
  <2> QED
    BY <2>2, <2>5 DEF Part
<1>9. CASE ChunkArrives(r)
  <2>1. /\ UNCHANGED <<stream, bodyEvents>> /\ read[r] = "chunk"
        /\ EmitAndReply(r, <<"body_progress">>, <<"data">>)
    BY <1>9 DEF ChunkArrives
  <2>2. /\ read'[r] = "replied" /\ \A y \in Reply : Has(chan'[r], {y}) <=> y = "data"
        /\ Producing(r)' /\ Untouched(r)' /\ Reading(r)' /\ Watched(r)'
    BY <1>5, <1>6, <1>7, <2>1, EventGroups
  <2>3. ~Has(chan'[r], {"notFound"}) /\ ~Has(chan'[r], {"bytes"}) /\ view[r] # "all"
    BY <1>5, <2>1, <2>2 DEF Part, Reading
  <2>4. Kept(r)' /\ Gone(r)'
    BY <1>1, <1>2, <2>1, <2>2, <2>3 DEF Part, Kept, Gone
  <2> QED
    BY <2>2, <2>4 DEF Part
<1>10. CASE ChunkEnd(r) \/ ChunkError(r)
  <2>1. /\ stream'[r] = "gone" /\ r \notin bodyEvents' /\ read[r] = "chunk"
        /\ \/ EmitAndReply(r, <<"body_complete", "done">>, <<"null">>)
           \/ EmitAndReply(r, <<"error">>, <<"readError">>)
    BY <1>10 DEF ChunkEnd, ChunkError, ChunkStops, Types
  <2>2. /\ read'[r] = "replied"
        /\ \E x \in {"null", "readError"} : \A y \in Reply : Has(chan'[r], {y}) <=> y = x
        /\ Producing(r)' /\ Untouched(r)' /\ Reading(r)' /\ Watched(r)'
    BY <1>5, <1>6, <2>1, EventGroups
  <2>3. /\ ~Has(chan'[r], {"notFound"}) /\ ~Has(chan'[r], {"bytes"}) /\ ~Has(chan'[r], {"data"})
        /\ view[r] # "all"
    BY <1>5, <2>1, <2>2 DEF Part, Reading
  <2>4. Kept(r)' /\ Gone(r)'
    BY <1>1, <1>2, <2>1, <2>2, <2>3 DEF Part, Kept, Gone
  <2> QED
    BY <2>2, <2>4 DEF Part
<1>11. CASE DrainEnd(r) \/ DrainError(r)
  <2>1. /\ UNCHANGED stream /\ read[r] = "all"
        /\ \/ /\ EmitAndReply(r, <<"body_complete", "done">>, <<"bytes">>)
              /\ r \notin bodyEvents'
           \/ EmitAndReply(r, <<>>, <<"readError">>) /\ UNCHANGED bodyEvents
    BY <1>11 DEF DrainEnd, DrainError, Types
  <2>2. /\ read'[r] = "replied"
        /\ \/ /\ \A y \in Reply : Has(chan'[r], {y}) <=> y = "bytes"
              /\ r \notin bodyEvents'
           \/ /\ \A y \in Reply : Has(chan'[r], {y}) <=> y = "readError"
              /\ UNCHANGED bodyEvents
        /\ Producing(r)' /\ Untouched(r)' /\ Reading(r)' /\ Watched(r)'
    BY <1>5, <1>6, <1>7, <2>1, EventGroups
  <2>3. /\ ~Has(chan'[r], {"notFound"}) /\ ~Has(chan'[r], {"data"})
        /\ Has(chan'[r], {"bytes"}) => r \notin bodyEvents'
        /\ view[r] = "all" /\ stream[r] = "gone"
    BY <1>5, <2>1, <2>2 DEF Part, Reading, Gone
  <2>4. Kept(r)' /\ Gone(r)'
    BY <1>1, <1>2, <2>1, <2>2, <2>3 DEF Part, Kept, Gone
  <2> QED
    BY <2>2, <2>4 DEF Part
<1> QED
  BY <1>8, <1>9, <1>10, <1>11

\* A chunk on the way to readBodyAll is reported and kept.
LEMMA DrainKeeps ==
    ASSUME Types, NEW r \in Requests, Part(r), DrainChunk(r)
    PROVE  Part(r)'
<1>1. /\ UNCHANGED <<js, native, result, view, held, finalizer, released, expired, stream,
                      bodyEvents, read>>
      /\ EmitAndReply(r, <<"body_progress">>, <<>>)
  BY DEF DrainChunk, ReadUnchanged, RequestUnchanged, EmitAndReply
<1> DEFINE f == IF r \in bodyEvents THEN <<"body_progress">> ELSE <<>>
<1>2. f \in Seq(EventType) /\ <<>> \in Seq(Closure)
  BY EventGroups
<1>3. chan' = [chan EXCEPT ![r] = @ \o f \o <<>>]
  BY <1>1 DEF EmitAndReply
<1> HIDE DEF f
<1>4. /\ \A kinds : kinds \cap EventType = {} => (Has(chan'[r], kinds) <=> Has(chan[r], kinds))
      /\ OneReply(chan[r]) => OneReply(chan'[r])
  BY <1>2, <1>3, ChanQueues, HasFew
<1>5. /\ {Settle} \cap EventType = {} /\ Reply \cap EventType = {}
      /\ {"data"} \cap EventType = {} /\ {"notFound"} \cap EventType = {}
      /\ {"bytes"} \cap EventType = {}
  BY Kinds DEF Reply
<1>6. HasBody(r) <=> HasBody(r)'
  BY <1>1 DEF HasBody
<1>7. Producing(r)' /\ Untouched(r)' /\ Reading(r)'
  BY <1>1, <1>4, <1>5, <1>6 DEF Part, Producing, Untouched, Reading
<1>8. Kept(r)' /\ Watched(r)' /\ Gone(r)'
  BY <1>1, <1>4, <1>5 DEF Part, Kept, Watched, Gone
<1> QED
  BY <1>7, <1>8 DEF Part

-----------------------------------------------------------------------------
(* The invariant and what follows from it.                                 *)

LEMMA StepKeeps ==
    ASSUME Types, NEW r \in Requests, Part(r), Step(r)
    PROVE  Part(r)'
<1>1. ASSUME JsStep(r), UNCHANGED bodyVars PROVE Part(r)'
  <2>1. CASE DeliverEvent(r) \/ DeliverSettle(r)
    BY <1>1, <2>1, DeliverKeeps
  <2>2. CASE ~(DeliverEvent(r) \/ DeliverSettle(r))
    <3>1. UNCHANGED chan
      BY <1>1, <2>2 DEF JsStep, RejectAborted, Dispatch, DispatchThrows, Abort
    <3> QED
      BY <1>1, <3>1, JsKeeps
  <2> QED
    BY <2>1, <2>2
<1>2. ASSUME NativeStep(r), UNCHANGED bodyVars PROVE Part(r)'
  BY <1>2, NativeKeeps
<1>3. ASSUME ConsumerStep(r) PROVE Part(r)'
  BY <1>3, UseKeeps, CancelKeeps, CollectKeeps DEF ConsumerStep
<1>4. ASSUME DeliverReply(r) PROVE Part(r)'
  BY <1>4, ChunkReplyKeeps, AllReplyKeeps DEF DeliverReply
<1>5. ASSUME ReadStep(r) PROVE Part(r)'
  BY <1>5, StartKeeps, AnswerKeeps, DrainKeeps DEF ReadStep, StartRead
<1>6. ASSUME ExpireBody(r) PROVE Part(r)'
  BY <1>6, StartKeeps
<1> QED
  BY <1>1, <1>2, <1>3, <1>4, <1>5, <1>6 DEF Step, RequestStep

LEMMA InitInvariant == BodyInit => BInv
<1> SUFFICES ASSUME BodyInit PROVE BInv
  OBVIOUS
<1>1. Types
  BY DEF BodyInit, Init, Types, JsState, NativeState, ResultKind, StreamState, ViewState,
     Owner, ReadState
<1>2. ASSUME NEW r \in Requests PROVE Part(r)
  <2>1. /\ js[r] = "idle" /\ native[r] = "none" /\ result[r] = "none" /\ chan[r] = <<>>
        /\ stream[r] = "none" /\ r \notin bodyEvents
        /\ view[r] = "fresh" /\ held[r] = {"response"} /\ finalizer[r] = "response"
        /\ r \notin released /\ read[r] = "idle" /\ r \notin expired
    BY DEF BodyInit, Init
  <2> QED
    BY <2>1, HasFew DEF Part, Producing, Untouched, Reading, Kept, Watched, Gone
<1> QED
  BY <1>1, <1>2 DEF BInv

LEMMA StepInvariant == BInv /\ [BodyNext]_allVars => BInv'
<1> SUFFICES ASSUME BInv, [BodyNext]_allVars PROVE BInv'
  OBVIOUS
<1>1. CASE UNCHANGED allVars
  <2>1. Types'
    BY <1>1 DEF allVars, vars, bodyVars, BInv, Types
  <2>2. ASSUME NEW q \in Requests PROVE Part(q)'
    <3>1. Same(q)
      BY <1>1 DEF allVars, vars, bodyVars, Same
    <3> QED
      BY <3>1, SameKeeps DEF BInv
  <2> QED
    BY <2>1, <2>2 DEF BInv
<1>2. ASSUME NEW r \in Requests, Step(r) PROVE BInv'
  <2>1. Types /\ Part(r)
    BY DEF BInv
  <2>2. Types'
    BY <1>2, <2>1, StepTypes DEF Part
  <2>3. ASSUME NEW q \in Requests PROVE Part(q)'
    <3>1. CASE q = r
      BY <1>2, <2>1, <3>1, StepKeeps
    <3>2. CASE q # r
      <4>1. Same(q)
        BY <1>2, <2>1, <3>2, StepSame
      <4> QED
        BY <4>1, SameKeeps DEF BInv
    <3> QED
      BY <3>1, <3>2
  <2> QED
    BY <2>2, <2>3 DEF BInv
<1> QED
  BY <1>1, <1>2 DEF BodyNext, Step

\* What is said above of every request holds at all times.
THEOREM Invariant == BodySpec => []BInv
BY InitInvariant, StepInvariant, PTL DEF BodySpec

\* A body that somebody can still read is lost to nothing but the idle expiry of
\* BODY_STREAMS: neither the collector nor another read takes it away.
THEOREM HeldBodiesAreKept == BodySpec => []LostOnlyByExpiry
<1>1. BInv => LostOnlyByExpiry
  <2> SUFFICES ASSUME BInv, NEW r \in Requests
               PROVE  /\ view[r] = "lost" => r \in expired
                      /\ (view[r] \in {"all", "open"} /\ chan[r] # <<>> /\ Head(chan[r]) = "notFound")
                            => r \in expired
    BY DEF LostOnlyByExpiry
  <2>1. Types /\ Kept(r) /\ chan[r] \in Seq(Closure)
    BY DEF BInv, Part, Types
  <2>2. chan[r] # <<>> /\ Head(chan[r]) = "notFound" => Has(chan[r], {"notFound"})
    BY <2>1, HasTail
  <2> QED
    BY <2>1, <2>2 DEF Kept
<1> QED
  BY <1>1, Invariant, PTL

\* A body that nobody can reach is in neither native map, but for the event state
\* readBodyAll leaves behind; an event state outlives its stream only as
\* EventStateScope allows.
THEOREM BodiesAreReleased == BodySpec => []NothingLeftBehind
<1>1. BInv => UnreachableIsReleased
  <2> SUFFICES ASSUME BInv, NEW r \in Requests, HasBody(r), held[r] = {}
               PROVE  stream[r] = "gone" /\ (r \in bodyEvents => view[r] \in {"lost", "failed"})
    BY DEF UnreachableIsReleased
  <2> QED
    BY DEF BInv, Part, Watched, Gone
<1>2. BInv => EventStateScope
  BY DEF BInv, Types, Part, Gone, EventStateScope
<1> QED
  BY <1>1, <1>2, Invariant, PTL DEF NothingLeftBehind

-----------------------------------------------------------------------------
(* What a reader sees.  A second invariant, on top of the first, counts    *)
(* the chunks of a body on their way from the native stream through the    *)
(* channel and the callback's log to the consumer.                         *)

Ending == {"null", "bytes"}
Stopping == Ending \cup {"readError"}

\* The events of a kind that r's callback has seen or will see.
Events(r, kind) == NumberOf(log[r], {kind}) + NumberOf(chan[r], {kind})

\* Somebody reads the body of r, or still may.
InUse(r) ==
    \/ view[r] = "fresh" /\ "response" \in held[r]
    \/ view[r] = "open" /\ "stream" \in held[r]
    \/ view[r] = "all"

\* A reply has nothing behind it.
ReplyLast(s) == \A i \in DOMAIN s : s[i] \in Reply => i = Len(s)

\* A body that is in use keeps its event state until its end is queued.
Reporting(r) ==
    /\ native[r] \notin {"finishing", "done"} => result[r] = "none"
    /\ ReplyLast(chan[r])
    /\ r \in Observed /\ result[r] = "handle" /\ InUse(r) /\ ~Has(chan[r], Stopping) =>
           r \in bodyEvents

\* A chunk the native stream yielded is at the consumer or on its way.
Chunks(r) ==
    /\ view[r] \in {"fresh", "open"} =>
           served[r] = got[r] + (IF Has(chan[r], {"data"}) THEN 1 ELSE 0)
    /\ view[r] \in {"fresh", "all"} => got[r] = 0
    /\ view[r] = "complete" => got[r] = served[r] /\ chan[r] = <<>> /\ read[r] = "idle"

\* Nothing but the body itself is reported as a part of it.
OfBody(r) == r \in Observed /\ result[r] \in {"none", "handle"}

\* Every chunk is reported, before the consumer gets it.
Reported(r) == OfBody(r) =>
    /\ view[r] \in {"fresh", "open", "all", "complete"} => Events(r, "body_progress") = served[r]
    /\ view[r] # "cancelled" => NumberOf(log[r], {"body_progress"}) >= got[r]

\* The closure before the reply that is last.
BeforeReply(r) ==
    IF Len(chan[r]) = 1 THEN log[r] # <<>> /\ log[r][Len(log[r])] = "done"
                        ELSE chan[r][Len(chan[r]) - 1] = "done"

\* The end is reported once, and right before the reply that tells it.
Ended(r) == OfBody(r) =>
    /\ view[r] \in {"fresh", "open", "all"} =>
           Events(r, "body_complete") = IF Has(chan[r], Ending) THEN 1 ELSE 0
    /\ view[r] \in {"open", "all"} /\ Has(chan[r], Ending) => BeforeReply(r)
    /\ view[r] = "complete" =>
           /\ NumberOf(log[r], {"body_complete"}) = 1
           /\ log[r] # <<>> /\ log[r][Len(log[r])] = "done"

Tally(r) == Reporting(r) /\ Chunks(r) /\ Reported(r) /\ Ended(r)

AmountTypes ==
    /\ log \in [Requests -> Seq(Closure)]
    /\ served \in [Requests -> Nat]
    /\ got \in [Requests -> Nat]

TInv == BInv /\ AmountTypes /\ \A r \in Requests : Tally(r)

\* Nothing of what q's tally counts changes.
SameAmounts(q) ==
    log'[q] = log[q] /\ served'[q] = served[q] /\ got'[q] = got[q]

LEMMA SameTally == ASSUME NEW q, Tally(q), Same(q), SameAmounts(q) PROVE Tally(q)'
BY DEF Tally, Same, SameAmounts, Reporting, Chunks, Reported, Ended, Events, NumberOf, PlacesOf,
   InUse, ReplyLast, OfBody, BeforeReply, Has

LEMMA StepSameAmounts ==
    ASSUME AmountTypes, NEW r \in Requests, NEW q \in Requests, q # r, Step(r)
    PROVE  SameAmounts(q)
<1> USE DEF AmountTypes, SameAmounts
<1>1. ASSUME JsStep(r), UNCHANGED bodyVars PROVE SameAmounts(q)
  BY <1>1 DEF bodyVars, JsStep, RejectAborted, Dispatch, DispatchThrows, Abort, DeliverEvent,
     DeliverSettle
<1>2. ASSUME NativeStep(r), UNCHANGED bodyVars PROVE SameAmounts(q)
  BY <1>2 DEF bodyVars, NativeStep, Send, SendFails, HeadersNoBody, HeadersInline,
     HeadersStream, InlineComplete, NetworkFails, ObserveCancel, Finish
<1>3. ASSUME ConsumerStep(r) PROVE SameAmounts(q)
  BY <1>3 DEF ConsumerStep, ReadAll, OpenStream, Pull, CancelStream, Collect, vars
<1>4. ASSUME DeliverReply(r) PROVE SameAmounts(q)
  BY <1>4 DEF DeliverReply, DeliverChunkReply, DeliverAllReply
<1>5. ASSUME ReadStep(r) PROVE SameAmounts(q)
  BY <1>5 DEF ReadStep, StartRead, HandleNotFound, StartChunk, StartAll, ChunkArrives,
     ChunkEnd, ChunkError, ChunkStops, DrainChunk, DrainEnd, DrainError, ReadUnchanged
<1>6. ASSUME ExpireBody(r) PROVE SameAmounts(q)
  BY <1>6 DEF ExpireBody, Expire
<1> QED
  BY <1>1, <1>2, <1>3, <1>4, <1>5, <1>6 DEF Step, RequestStep

LEMMA StepAmountTypes ==
    ASSUME Types, AmountTypes, NEW r \in Requests, Step(r)
    PROVE  AmountTypes'
<1>1. ASSUME JsStep(r), UNCHANGED bodyVars PROVE AmountTypes'
  <2>1. CASE DeliverEvent(r)
    <3>1. log[r] \in Seq(Closure) /\ Head(chan[r]) \in Closure
      BY <2>1, Kinds DEF DeliverEvent, AmountTypes
    <3>2. Append(log[r], Head(chan[r])) \in Seq(Closure)
      BY <3>1
    <3> QED
      BY <1>1, <2>1, <3>2 DEF DeliverEvent, bodyVars, AmountTypes
  <2>2. CASE ~DeliverEvent(r)
    BY <1>1, <2>2 DEF bodyVars, JsStep, RejectAborted, Dispatch, DispatchThrows, Abort,
       DeliverSettle, AmountTypes
  <2> QED
    BY <2>1, <2>2
<1>2. ASSUME NativeStep(r), UNCHANGED bodyVars PROVE AmountTypes'
  BY <1>2 DEF bodyVars, NativeStep, Send, SendFails, HeadersNoBody, HeadersInline,
     HeadersStream, InlineComplete, NetworkFails, ObserveCancel, Finish, AmountTypes
<1>3. ASSUME ConsumerStep(r) PROVE AmountTypes'
  BY <1>3 DEF ConsumerStep, ReadAll, OpenStream, Pull, CancelStream, Collect, vars, AmountTypes
<1>4. ASSUME DeliverReply(r) PROVE AmountTypes'
  <2>1. CASE DeliverChunkReply(r)
    <3>1. \/ got' = got
          \/ got' = [got EXCEPT ![r] = got[r] + 1]
      BY <2>1 DEF DeliverChunkReply
    <3>2. got' \in [Requests -> Nat]
      BY <3>1 DEF AmountTypes
    <3> QED
      BY <2>1, <3>2 DEF DeliverChunkReply, AmountTypes
  <2>2. CASE DeliverAllReply(r)
    BY <2>2 DEF DeliverAllReply, AmountTypes
  <2> QED
    BY <1>4, <2>1, <2>2 DEF DeliverReply
<1>5. ASSUME ReadStep(r) PROVE AmountTypes'
  BY <1>5 DEF ReadStep, StartRead, HandleNotFound, StartChunk, StartAll, ChunkArrives,
     ChunkEnd, ChunkError, ChunkStops, DrainChunk, DrainEnd, DrainError, ReadUnchanged,
     AmountTypes
<1>6. ASSUME ExpireBody(r) PROVE AmountTypes'
  BY <1>6 DEF ExpireBody, Expire, AmountTypes
<1> QED
  BY <1>1, <1>2, <1>3, <1>4, <1>5, <1>6 DEF Step, RequestStep

-----------------------------------------------------------------------------
(* Counting what is queued.                                                *)

\* The counts of r are numbers.
LEMMA CountTypes ==
    ASSUME Types, AmountTypes, NEW r \in Requests
    PROVE  /\ chan[r] \in Seq(Closure) /\ log[r] \in Seq(Closure)
           /\ served[r] \in Nat /\ got[r] \in Nat
           /\ \A kinds : NumberOf(chan[r], kinds) \in Nat /\ NumberOf(log[r], kinds) \in Nat
<1>1. /\ chan[r] \in Seq(Closure) /\ log[r] \in Seq(Closure)
      /\ served[r] \in Nat /\ got[r] \in Nat
  BY DEF Types, AmountTypes
<1> QED
  BY <1>1, PlacesFinite

\* Chunks and ends in the groups of events that are queued together.
Plain(e) == NumberOf(e, {"body_progress"}) = 0 /\ NumberOf(e, {"body_complete"}) = 0

LEMMA GroupCounts ==
    /\ Plain(<<>>)
    /\ Plain(<<"request_start">>)
    /\ Plain(<<"request_start", "request_sent">>)
    /\ Plain(<<"response_headers">>)
    /\ Plain(<<"error">>)
    /\ \A x \in Reply \cup {Settle} : Plain(<<x>>)
    /\ NumberOf(<<"body_progress">>, {"body_progress"}) = 1
    /\ NumberOf(<<"body_progress">>, {"body_complete"}) = 0
    /\ NumberOf(<<"body_complete", "done">>, {"body_progress"}) = 0
    /\ NumberOf(<<"body_complete", "done">>, {"body_complete"}) = 1
<1>1. \A x : x \notin {"body_progress", "body_complete"} => Plain(<<x>>)
  BY NumberOfFew DEF Plain
<1>2. \A x \in Reply \cup {Settle} : x \notin {"body_progress", "body_complete"}
  BY DEF Reply, Settle
<1>3. \A x \in EventType, y \in EventType : \A kinds :
          NumberOf(<<x, y>>, kinds) = NumberOf(<<x>>, kinds) + NumberOf(<<y>>, kinds)
  <2> SUFFICES ASSUME NEW x \in EventType, NEW y \in EventType, NEW kinds
               PROVE  NumberOf(<<x, y>>, kinds) = NumberOf(<<x>>, kinds) + NumberOf(<<y>>, kinds)
    OBVIOUS
  <2> DEFINE s == <<x, y>>
  <2>1. s \in Seq(EventType) /\ s # <<>> /\ Head(s) = x /\ Tail(s) = <<y>>
    OBVIOUS
  <2> HIDE DEF s
  <2>2. NumberOf(s, kinds) = NumberOf(Tail(s), kinds) + (IF Head(s) \in kinds THEN 1 ELSE 0)
    BY <2>1, NumberOfTail
  <2>3. NumberOf(s, kinds) = NumberOf(<<y>>, kinds) + (IF x \in kinds THEN 1 ELSE 0)
    BY <2>1, <2>2
  <2>4. /\ NumberOf(<<x>>, kinds) = IF x \in kinds THEN 1 ELSE 0
        /\ NumberOf(<<y>>, kinds) = IF y \in kinds THEN 1 ELSE 0
    BY NumberOfFew
  <2> QED
    BY <2>3, <2>4 DEF s
<1>4. /\ {"request_start", "request_sent", "body_complete", "done"} \subseteq EventType
  BY DEF EventType
<1>5. Plain(<<>>)
  BY NumberOfFew DEF Plain
<1>6. Plain(<<"request_start", "request_sent">>)
  <2>1. \A kinds : NumberOf(<<"request_start", "request_sent">>, kinds)
                     = NumberOf(<<"request_start">>, kinds) + NumberOf(<<"request_sent">>, kinds)
    BY <1>3, <1>4
  <2> QED
    BY <2>1, NumberOfFew DEF Plain
<1>7. /\ NumberOf(<<"body_complete", "done">>, {"body_progress"}) = 0
      /\ NumberOf(<<"body_complete", "done">>, {"body_complete"}) = 1
  <2>1. \A kinds : NumberOf(<<"body_complete", "done">>, kinds)
                     = NumberOf(<<"body_complete">>, kinds) + NumberOf(<<"done">>, kinds)
    BY <1>3, <1>4
  <2> QED
    BY <2>1, NumberOfFew
<1> QED
  BY <1>1, <1>2, <1>5, <1>6, <1>7, NumberOfFew

\* Events and then perhaps something else are queued behind no reply.
LEMMA QueueCounts ==
    ASSUME Types, AmountTypes, NEW r \in Requests, NEW e \in Seq(EventType),
           NEW t \in Seq(Closure), chan' = [chan EXCEPT ![r] = @ \o e \o t],
           t = <<>> \/ \E x : t = <<x>>, ~Has(chan[r], Reply)
    PROVE  /\ \A kinds : NumberOf(chan'[r], kinds)
                = NumberOf(chan[r], kinds) + NumberOf(e, kinds) + NumberOf(t, kinds)
           /\ ReplyLast(chan'[r])
           /\ chan'[r] = (chan[r] \o e) \o t
<1>1. chan[r] \in Seq(Closure) /\ e \in Seq(Closure) /\ chan'[r] = (chan[r] \o e) \o t
  BY Kinds DEF Types
<1>2. chan[r] \o e \in Seq(Closure)
  BY <1>1
<1>3. ASSUME NEW kinds
      PROVE  NumberOf(chan'[r], kinds)
                = NumberOf(chan[r], kinds) + NumberOf(e, kinds) + NumberOf(t, kinds)
  <2>1. NumberOf((chan[r] \o e) \o t, kinds)
          = NumberOf(chan[r] \o e, kinds) + NumberOf(t, kinds)
    BY <1>2, NumberOfConcat
  <2>2. NumberOf(chan[r] \o e, kinds) = NumberOf(chan[r], kinds) + NumberOf(e, kinds)
    BY <1>1, NumberOfConcat
  <2> QED
    BY <1>1, <2>1, <2>2
<1>4. ReplyLast(chan'[r])
  <2> DEFINE s == chan[r] \o e
  <2>1. ~Has(e, Reply)
    BY Kinds DEF Has
  <2>2. ~Has(s, Reply)
    BY <1>1, <2>1, HasConcat
  <2>3. s \in Seq(Closure) /\ chan'[r] = s \o t
    BY <1>1, <1>2
  <2> HIDE DEF s
  <2> SUFFICES ASSUME NEW i \in DOMAIN (s \o t), (s \o t)[i] \in Reply
               PROVE  i = Len(s \o t)
    BY <2>3 DEF ReplyLast
  <2>4. ~(i \in DOMAIN s)
    <3> SUFFICES ASSUME i \in DOMAIN s PROVE FALSE
      OBVIOUS
    <3>1. (s \o t)[i] = s[i]
      BY <2>3
    <3> QED
      BY <2>2, <3>1 DEF Has
  <2>5. Len(t) \in {0, 1}
    OBVIOUS
  <2>6. DOMAIN s = 1..Len(s) /\ Len(s) \in Nat
    BY <2>3
  <2>7. DOMAIN (s \o t) = 1..(Len(s) + Len(t)) /\ Len(s \o t) = Len(s) + Len(t)
    BY <2>3
  <2>8. i \in 1..(Len(s) + Len(t)) /\ ~(i \in 1..Len(s))
    BY <2>4, <2>6, <2>7
  <2>9. \A n \in Nat, m \in {0, 1} : \A k \in 1..(n + m) : ~(k \in 1..n) => k = n + m
    OBVIOUS
  <2> QED
    BY <2>5, <2>6, <2>7, <2>8, <2>9
<1> QED
  BY <1>1, <1>3, <1>4

\* The head of the channel runs.
LEMMA RunCounts ==
    ASSUME Types, AmountTypes, NEW r \in Requests, chan[r] # <<>>,
           chan' = [chan EXCEPT ![r] = Tail(@)], ReplyLast(chan[r])
    PROVE  /\ \A kinds : NumberOf(chan[r], kinds)
                = NumberOf(chan'[r], kinds) + (IF Head(chan[r]) \in kinds THEN 1 ELSE 0)
           /\ \A kinds : NumberOf(chan'[r], kinds) \in Nat
           /\ ReplyLast(chan'[r])
           /\ Head(chan[r]) \in Reply => chan[r] = <<Head(chan[r])>> /\ chan'[r] = <<>>
           /\ chan'[r] # <<>> => /\ Len(chan[r]) > 1
                                 /\ Len(chan'[r]) = 1 => chan[r][Len(chan[r]) - 1] = Head(chan[r])
                                 /\ Len(chan'[r]) > 1 => chan[r][Len(chan[r]) - 1]
                                                           = chan'[r][Len(chan'[r]) - 1]
<1> DEFINE s == chan[r]
<1>1. s \in Seq(Closure) /\ s # <<>> /\ chan'[r] = Tail(s) /\ ReplyLast(s)
  BY DEF Types
<1> HIDE DEF s
<1>2. \A kinds : NumberOf(s, kinds)
                = NumberOf(Tail(s), kinds) + (IF Head(s) \in kinds THEN 1 ELSE 0)
  BY <1>1, NumberOfTail
<1>3. Tail(s) \in Seq(Closure)
  BY <1>1
<1>8. \A kinds : NumberOf(Tail(s), kinds) \in Nat
  BY <1>3, PlacesFinite
<1>4. /\ Len(Tail(s)) = Len(s) - 1 /\ Len(s) \in Nat \ {0}
      /\ \A i \in DOMAIN Tail(s) : i \in Nat \ {0} /\ i + 1 \in DOMAIN s /\ Tail(s)[i] = s[i + 1]
      /\ Head(s) = s[1] /\ 1 \in DOMAIN s
  BY <1>1
<1>5. ReplyLast(Tail(s))
  <2> SUFFICES ASSUME NEW i \in DOMAIN Tail(s), Tail(s)[i] \in Reply PROVE i = Len(Tail(s))
    BY DEF ReplyLast
  <2>1. i + 1 = Len(s)
    BY <1>1, <1>4 DEF ReplyLast
  <2> QED
    BY <1>4, <2>1
<1>6. Head(s) \in Reply => s = <<Head(s)>> /\ Tail(s) = <<>>
  <2> SUFFICES ASSUME Head(s) \in Reply PROVE s = <<Head(s)>> /\ Tail(s) = <<>>
    OBVIOUS
  <2>1. Len(s) = 1
    BY <1>1, <1>4 DEF ReplyLast
  <2>2. s = <<s[1]>>
    BY <1>1, <2>1
  <2>3. Tail(s) = <<>>
    BY <1>3, <1>4, <2>1
  <2> QED
    BY <1>4, <2>2, <2>3
<1>7. Tail(s) # <<>> => /\ Len(s) > 1
                        /\ Len(Tail(s)) = 1 => s[Len(s) - 1] = Head(s)
                        /\ Len(Tail(s)) > 1 => s[Len(s) - 1] = Tail(s)[Len(Tail(s)) - 1]
  <2>1. Tail(s) # <<>> => Len(Tail(s)) > 0
    BY <1>3
  <2>2. Len(Tail(s)) > 1 => Len(Tail(s)) - 1 \in DOMAIN Tail(s)
    BY <1>3
  <2> QED
    BY <1>4, <2>1, <2>2
<1> QED
  BY <1>1, <1>2, <1>5, <1>6, <1>7, <1>8 DEF s

-----------------------------------------------------------------------------
(* The steps of r and its tally.                                           *)

\* Steps that move no event and no chunk.
LEMMA QuietTally ==
    ASSUME Types, AmountTypes, NEW r \in Requests, Part(r), Tally(r),
           UNCHANGED <<chan, log, served, got, result>>,
           native'[r] \notin {"finishing", "done"} => native[r] \notin {"finishing", "done"},
           \/ view'[r] = view[r] /\ (view[r] = "complete" => read'[r] = read[r])
           \/ view[r] = "fresh" /\ view'[r] \in {"open", "all"}
           \/ view'[r] = "cancelled",
           InUse(r)' => InUse(r) /\ (r \in bodyEvents => r \in bodyEvents')
    PROVE  Tally(r)'
<1>1. view[r] = "fresh" => ~Has(chan[r], Ending)
  <2>1. Ending \subseteq Reply
    BY DEF Ending, Reply
  <2>2. view[r] = "fresh" => ~Has(chan[r], Reply)
    BY DEF Part, Reading
  <2> QED
    BY <2>1, <2>2 DEF Has
<1>2. Reporting(r)'
  BY DEF Tally, Reporting
<1>3. Chunks(r)'
  BY DEF Tally, Chunks
<1>4. Reported(r)'
  BY DEF Tally, Reported, Events, OfBody
<1>5. BeforeReply(r)' <=> BeforeReply(r)
  BY DEF BeforeReply
<1>6. Ended(r)'
  BY <1>1, <1>5 DEF Tally, Ended, Events, OfBody
<1> QED
  BY <1>2, <1>3, <1>4, <1>6 DEF Tally

LEMMA JsTally ==
    ASSUME Types, AmountTypes, NEW r \in Requests, Part(r), Tally(r), JsStep(r),
           UNCHANGED bodyVars, UNCHANGED chan
    PROVE  Tally(r)'
<1>1. /\ UNCHANGED <<log, served, got, result, view, held, read, bodyEvents>>
      /\ native'[r] \notin {"finishing", "done"} => native[r] \notin {"finishing", "done"}
  <2>1. UNCHANGED <<served, got, view, held, read>>
    BY DEF bodyVars
  <2>2. ~DeliverEvent(r) /\ ~DeliverSettle(r)
    <3> SUFFICES ASSUME chan[r] # <<>>, chan' = [chan EXCEPT ![r] = Tail(@)] PROVE FALSE
      BY DEF DeliverEvent, DeliverSettle
    <3>1. chan[r] \in Seq(Closure) /\ Len(Tail(chan[r])) # Len(chan[r])
      BY DEF Types
    <3>2. chan'[r] = Tail(chan[r])
      BY DEF Types
    <3> QED
      BY <3>1, <3>2
  <2> QED
    BY <2>1, <2>2 DEF JsStep, RejectAborted, Dispatch, DispatchThrows, Abort, Types, Part,
       Producing
<1>2. InUse(r)' <=> InUse(r)
  BY <1>1 DEF InUse
<1> QED
  BY <1>1, <1>2, QuietTally

\* A closure of the request runs.
LEMMA DeliverTally ==
    ASSUME Types, AmountTypes, NEW r \in Requests, Part(r), Tally(r),
           DeliverEvent(r) \/ DeliverSettle(r), UNCHANGED bodyVars
    PROVE  Tally(r)'
<1>1. /\ UNCHANGED <<native, result, bodyEvents, view, held, read, served, got>>
      /\ chan[r] # <<>> /\ chan' = [chan EXCEPT ![r] = Tail(@)]
      /\ Head(chan[r]) \notin Reply
  BY Kinds DEF DeliverEvent, DeliverSettle, bodyVars
<1>2. /\ chan[r] \in Seq(Closure) /\ log[r] \in Seq(Closure)
      /\ served[r] \in Nat /\ got[r] \in Nat
      /\ \A kinds : NumberOf(chan[r], kinds) \in Nat /\ NumberOf(log[r], kinds) \in Nat
  BY CountTypes
<1>3. ReplyLast(chan[r])
  BY DEF Tally, Reporting
<1>4. /\ \A kinds : NumberOf(chan[r], kinds)
           = NumberOf(chan'[r], kinds) + (IF Head(chan[r]) \in kinds THEN 1 ELSE 0)
      /\ \A kinds : NumberOf(chan'[r], kinds) \in Nat
      /\ ReplyLast(chan'[r])
      /\ chan'[r] # <<>> => /\ Len(chan[r]) > 1
                            /\ Len(chan'[r]) = 1 => chan[r][Len(chan[r]) - 1] = Head(chan[r])
                            /\ Len(chan'[r]) > 1 => chan[r][Len(chan[r]) - 1]
                                                      = chan'[r][Len(chan'[r]) - 1]
  BY <1>1, <1>3, RunCounts
<1>5. \A kinds : kinds \subseteq Reply => (Has(chan'[r], kinds) <=> Has(chan[r], kinds))
  <2>1. \A kinds : Has(chan[r], kinds) <=> Head(chan[r]) \in kinds \/ Has(chan'[r], kinds)
    BY <1>1, ChanRuns
  <2> QED
    BY <1>1, <2>1
<1>6. {"data"} \subseteq Reply /\ Ending \subseteq Reply /\ Stopping \subseteq Reply
  BY DEF Ending, Stopping, Reply
<1>7. /\ Has(chan'[r], {"data"}) <=> Has(chan[r], {"data"})
      /\ Has(chan'[r], Ending) <=> Has(chan[r], Ending)
      /\ Has(chan'[r], Stopping) <=> Has(chan[r], Stopping)
  BY <1>5, <1>6
<1>8. /\ log'[r] = IF Head(chan[r]) \in EventType THEN Append(log[r], Head(chan[r])) ELSE log[r]
      /\ Head(chan[r]) \in EventType \cup {Settle}
  BY Kinds DEF DeliverEvent, DeliverSettle, AmountTypes
<1>9. \A kinds : kinds \subseteq EventType =>
         NumberOf(log'[r], kinds) = NumberOf(log[r], kinds)
                                      + (IF Head(chan[r]) \in kinds THEN 1 ELSE 0)
  <2> SUFFICES ASSUME NEW kinds, kinds \subseteq EventType
               PROVE  NumberOf(log'[r], kinds) = NumberOf(log[r], kinds)
                                      + (IF Head(chan[r]) \in kinds THEN 1 ELSE 0)
    OBVIOUS
  <2>1. CASE Head(chan[r]) \in EventType
    <3>1. Head(chan[r]) \in Closure
      BY <2>1, Kinds
    <3>2. NumberOf(Append(log[r], Head(chan[r])), kinds)
            = NumberOf(log[r], kinds) + (IF Head(chan[r]) \in kinds THEN 1 ELSE 0)
      BY <1>2, <3>1, NumberOfAppend
    <3> QED
      BY <1>8, <2>1, <3>2
  <2>2. CASE Head(chan[r]) \notin EventType
    BY <1>2, <1>8, <2>2
  <2> QED
    BY <2>1, <2>2
<1>10. {"body_progress"} \subseteq EventType /\ {"body_complete"} \subseteq EventType
  BY DEF EventType
<1>11. /\ Events(r, "body_progress")' = Events(r, "body_progress")
       /\ Events(r, "body_complete")' = Events(r, "body_complete")
       /\ NumberOf(log'[r], {"body_progress"}) >= NumberOf(log[r], {"body_progress"})
  <2>1. ASSUME NEW kind, {kind} \subseteq EventType
        PROVE  /\ Events(r, kind)' = Events(r, kind)
               /\ NumberOf(log'[r], {kind}) >= NumberOf(log[r], {kind})
    <3>1. /\ NumberOf(chan[r], {kind})
               = NumberOf(chan'[r], {kind}) + (IF Head(chan[r]) \in {kind} THEN 1 ELSE 0)
          /\ NumberOf(log'[r], {kind})
               = NumberOf(log[r], {kind}) + (IF Head(chan[r]) \in {kind} THEN 1 ELSE 0)
          /\ NumberOf(chan'[r], {kind}) \in Nat /\ NumberOf(log[r], {kind}) \in Nat
      BY <1>2, <1>4, <1>9, <2>1
    <3>2. Events(r, kind)' = NumberOf(log'[r], {kind}) + NumberOf(chan'[r], {kind})
      BY DEF Events
    <3> QED
      BY <3>1, <3>2 DEF Events
  <2> QED
    BY <1>10, <2>1
<1>12. InUse(r)' <=> InUse(r)
  BY <1>1 DEF InUse
<1>13. view[r] # "complete"
  BY <1>1 DEF Tally, Chunks
<1>14. Has(chan[r], Ending) /\ BeforeReply(r) => BeforeReply(r)'
  <2> SUFFICES ASSUME Has(chan[r], Ending), BeforeReply(r) PROVE BeforeReply(r)'
    OBVIOUS
  <2>1. chan'[r] # <<>>
    BY <1>7 DEF Has
  <2>2. chan[r][Len(chan[r]) - 1] = "done" /\ Len(chan'[r]) >= 1
    <3>1. chan'[r] \in Seq(Closure)
      BY <1>1, ChanRuns
    <3>2. Len(chan'[r]) >= 1
      BY <2>1, <3>1
    <3>3. Len(chan[r]) > 1
      BY <1>4, <2>1
    <3>4. Len(chan[r]) # 1
      <4>1. \A n \in Nat : n > 1 => n # 1
        OBVIOUS
      <4>2. Len(chan[r]) \in Nat
        BY <1>2
      <4> QED
        BY <3>3, <4>1, <4>2, Zenon
    <3> QED
      BY <3>2, <3>4, Zenon DEF BeforeReply
  <2>3. CASE Len(chan'[r]) = 1
    <3>1. Head(chan[r]) = "done"
      BY <1>4, <2>1, <2>2, <2>3
    <3>2. log'[r] = Append(log[r], "done")
      BY <1>8, <3>1 DEF EventType
    <3>3. log'[r] # <<>> /\ log'[r][Len(log'[r])] = "done"
      BY <1>2, <3>2
    <3> QED
      BY <2>3, <3>3 DEF BeforeReply
  <2>4. CASE Len(chan'[r]) # 1
    <3>1. chan'[r][Len(chan'[r]) - 1] = "done"
      <4>1. Len(chan'[r]) > 1
        <5>1. Len(chan'[r]) \in Nat
          BY <1>1, ChanRuns
        <5>2. \A n \in Nat : n >= 1 /\ n # 1 => n > 1
          OBVIOUS
        <5> QED
          BY <2>2, <2>4, <5>1, <5>2, Zenon
      <4> QED
        BY <1>4, <2>1, <2>2, <4>1
    <3> QED
      BY <2>4, <3>1 DEF BeforeReply
  <2> QED
    BY <2>3, <2>4
<1>15. Reporting(r)' /\ Chunks(r)'
  BY <1>1, <1>4, <1>7, <1>12, <1>13 DEF Tally, Reporting, Chunks
<1>16. Reported(r)'
  <2>1. NumberOf(log'[r], {"body_progress"}) \in Nat
    BY <1>2, <1>9, <1>10
  <2> QED
    BY <1>1, <1>2, <1>11, <2>1 DEF Tally, Reported, OfBody
<1>17. Ended(r)'
  BY <1>1, <1>7, <1>11, <1>13, <1>14 DEF Tally, Ended, OfBody
<1> QED
  BY <1>15, <1>16, <1>17 DEF Tally

\* The task of the request goes on.
LEMMA NativeTally ==
    ASSUME Types, AmountTypes, NEW r \in Requests, Part(r), Tally(r), NativeStep(r),
           UNCHANGED bodyVars
    PROVE  Tally(r)'
<1>1. native[r] # "done"
  BY DEF NativeStep, Send, SendFails, HeadersNoBody, HeadersInline, HeadersStream,
     InlineComplete, NetworkFails, ObserveCancel, Finish, AwaitPoint
<1>2. UNCHANGED <<log, served, got, view, held, read>>
  BY DEF NativeStep, Send, SendFails, HeadersNoBody, HeadersInline, HeadersStream,
     InlineComplete, NetworkFails, ObserveCancel, Finish, bodyVars
<1>3. view[r] = "fresh" /\ ~Has(chan[r], Reply)
  BY <1>1, NoBodyYet
<1>4. /\ chan[r] \in Seq(Closure)
      /\ \A kinds : NumberOf(chan[r], kinds) \in Nat /\ NumberOf(log[r], kinds) \in Nat
      /\ served[r] \in Nat /\ got[r] \in Nat
  BY CountTypes
<1>5. ~Has(chan'[r], Reply)
  <2>1. Part(r)'
    BY NativeKeeps
  <2>2. read'[r] = "idle"
    BY <1>1, <1>2, NoBodyYet
  <2> QED
    BY <2>1, <2>2 DEF Part, Reading
<1>6. Ending \subseteq Reply /\ Stopping \subseteq Reply /\ {"data"} \subseteq Reply
  BY DEF Ending, Stopping, Reply
<1>7. /\ ~Has(chan'[r], {"data"}) /\ ~Has(chan'[r], Ending)
      /\ ~Has(chan[r], {"data"}) /\ ~Has(chan[r], Ending)
  BY <1>3, <1>5, <1>6 DEF Has
<1>8. Chunks(r)'
  BY <1>2, <1>3, <1>7 DEF Tally, Chunks
<1>9. ReplyLast(chan'[r])
  BY <1>5 DEF ReplyLast, Has
<1>10. /\ native'[r] \notin {"finishing", "done"} => result'[r] = "none"
       /\ result'[r] = "handle" =>
            \/ result[r] = "handle" /\ UNCHANGED bodyEvents
            \/ r \in Observed => r \in bodyEvents'
  BY <1>1 DEF NativeStep, Send, SendFails, HeadersNoBody, HeadersInline, HeadersStream,
     InlineComplete, NetworkFails, ObserveCancel, Finish, Returns, AwaitPoint, Types, Tally,
     Reporting
<1>11. Reporting(r)'
  <2>1. ~Has(chan[r], Stopping)
    BY <1>3, <1>6 DEF Has
  <2>2. InUse(r)' <=> InUse(r)
    BY <1>2 DEF InUse
  <2> QED
    BY <1>9, <1>10, <2>1, <2>2 DEF Tally, Reporting
<1>12. ASSUME OfBody(r)'
       PROVE  /\ OfBody(r)
              /\ NumberOf(chan'[r], {"body_progress"}) = NumberOf(chan[r], {"body_progress"})
              /\ NumberOf(chan'[r], {"body_complete"}) = NumberOf(chan[r], {"body_complete"})
  <2>1. OfBody(r)
    BY <1>1, <1>12 DEF NativeStep, Send, SendFails, HeadersNoBody, HeadersInline,
       HeadersStream, InlineComplete, NetworkFails, ObserveCancel, Finish, Returns, AwaitPoint,
       Types, Tally, Reporting, OfBody
  <2>2. ASSUME NEW e \in Seq(EventType), NEW t \in Seq(Closure), Plain(e), Plain(t),
               chan' = [chan EXCEPT ![r] = @ \o e \o t], t = <<>> \/ \E x : t = <<x>>
        PROVE  /\ NumberOf(chan'[r], {"body_progress"}) = NumberOf(chan[r], {"body_progress"})
               /\ NumberOf(chan'[r], {"body_complete"}) = NumberOf(chan[r], {"body_complete"})
    <3>1. \A kinds : NumberOf(chan'[r], kinds)
                = NumberOf(chan[r], kinds) + NumberOf(e, kinds) + NumberOf(t, kinds)
      BY <1>3, <2>2, QueueCounts
    <3> QED
      BY <1>4, <2>2, <3>1 DEF Plain
  <2>3. ASSUME NEW e \in Seq(EventType), Plain(e), Emit(r, e)
        PROVE  /\ NumberOf(chan'[r], {"body_progress"}) = NumberOf(chan[r], {"body_progress"})
               /\ NumberOf(chan'[r], {"body_complete"}) = NumberOf(chan[r], {"body_complete"})
    <3> DEFINE g == Emitting(r, e)
    <3>1. g \in Seq(EventType) /\ Plain(g)
      BY <2>3, GroupCounts DEF Emitting
    <3>2. <<>> \in Seq(Closure) /\ Plain(<<>>)
      BY GroupCounts
    <3>3. g \in Seq(Closure)
      BY <3>1, Kinds
    <3>4. (chan[r] \o g) \o <<>> = chan[r] \o g
      BY <1>4, <3>3
    <3>5. chan' = [chan EXCEPT ![r] = @ \o g \o <<>>]
      BY <2>3, <3>4 DEF Emit
    <3> HIDE DEF g
    <3> QED
      BY <2>2, <3>1, <3>2, <3>5
  <2>4. CASE Send(r) \/ HeadersInline(r) \/ HeadersStream(r)
    <3>1. CASE Send(r)
      BY <2>1, <2>3, <3>1, GroupCounts, EventGroups DEF Send
    <3>2. CASE HeadersInline(r) \/ HeadersStream(r)
      BY <2>1, <2>3, <3>2, GroupCounts, EventGroups DEF HeadersInline, HeadersStream
    <3> QED
      BY <2>4, <3>1, <3>2
  <2>5. CASE Finish(r)
    <3>1. result[r] # "error"
      BY <2>1 DEF OfBody
    <3>2. <<Settle>> \in Seq(Closure) /\ Plain(<<Settle>>) /\ Plain(<<>>) /\ <<>> \in Seq(EventType)
      BY Kinds, GroupCounts
    <3>3. chan' = [chan EXCEPT ![r] = @ \o <<>> \o <<Settle>>]
      BY <2>5, <3>1 DEF Finish
    <3>4. \E x : <<Settle>> = <<x>>
      OBVIOUS
    <3> QED
      BY <2>1, <2>2, <3>2, <3>3, <3>4
  <2>6. CASE NetworkFails(r) \/ ObserveCancel(r) \/ SendFails(r) \/ HeadersNoBody(r) \/ InlineComplete(r)
    BY <1>12, <2>6 DEF NetworkFails, ObserveCancel, SendFails, HeadersNoBody, InlineComplete,
       Returns, OfBody, Types
  <2> QED
    BY <2>1, <2>4, <2>5, <2>6 DEF NativeStep
<1>13. Reported(r)' /\ Ended(r)'
  BY <1>2, <1>3, <1>7, <1>12 DEF Tally, Reported, Ended, Events
<1> QED
  BY <1>8, <1>11, <1>13 DEF Tally

\* JavaScript starts or stops using the body, or a read begins.
LEMMA ConsumerTally ==
    ASSUME Types, AmountTypes, NEW r \in Requests, Part(r), Tally(r),
           ConsumerStep(r) \/ StartChunk(r) \/ StartAll(r) \/ ExpireBody(r)
    PROVE  Tally(r)'
<1>1. CASE ReadAll(r) \/ OpenStream(r) \/ Pull(r)
  <2>1. UNCHANGED <<chan, log, served, got, result, native, bodyEvents>>
    BY <1>1 DEF ReadAll, OpenStream, Pull, vars
  <2>2. /\ InUse(r)
        /\ \/ view'[r] = view[r] /\ view[r] = "open"
           \/ view[r] = "fresh" /\ view'[r] \in {"open", "all"}
    BY <1>1 DEF ReadAll, OpenStream, Pull, InUse, Types
  <2> QED
    BY <2>1, <2>2, QuietTally
<1>2. CASE CancelStream(r)
  <2>1. UNCHANGED <<chan, log, served, got, result, native>> /\ view'[r] = "cancelled"
    BY <1>2 DEF CancelStream, RequestUnchanged, Types
  <2>2. ~InUse(r)'
    BY <2>1 DEF InUse
  <2> QED
    BY <2>1, <2>2, QuietTally
<1>3. ASSUME NEW owner \in Owner, Collect(r, owner) PROVE Tally(r)'
  <2>1. /\ UNCHANGED <<chan, log, served, got, result, native, view, read>>
        /\ held'[r] = held[r] \ {owner} /\ owner \in held[r]
        /\ owner \in {"response", "stream"}
        /\ owner = "response" => view[r] # "all"
    BY <1>3 DEF Collect, RequestUnchanged, Types, Owner
  <2>2. InUse(r)' => InUse(r)
    BY <2>1 DEF InUse
  <2>3. CASE finalizer[r] = owner
    <3>1. ~InUse(r)'
      BY <2>1, <2>3 DEF InUse, Part, Watched
    <3> QED
      BY <2>1, <3>1, QuietTally
  <2>4. CASE finalizer[r] # owner
    <3>1. UNCHANGED bodyEvents
      BY <1>3, <2>4 DEF Collect
    <3> QED
      BY <2>1, <2>2, <3>1, QuietTally
  <2> QED
    BY <2>3, <2>4
<1>4. CASE StartChunk(r) \/ StartAll(r) \/ ExpireBody(r)
  <2>1. UNCHANGED <<chan, log, served, got, result, native, bodyEvents, view, held>>
    BY <1>4 DEF StartChunk, StartAll, ExpireBody, Expire, ReadUnchanged, RequestUnchanged
  <2>2. view[r] = "complete" => read'[r] = read[r]
    BY <1>4 DEF StartChunk, StartAll, ExpireBody, Part, Reading
  <2>3. InUse(r)' => InUse(r)
    BY <2>1 DEF InUse
  <2> QED
    BY <2>1, <2>2, <2>3, QuietTally
<1> QED
  BY <1>1, <1>2, <1>3, <1>4 DEF ConsumerStep

\* The consumer gets the answer to its read: the channel is empty after it.
LEMMA ReplyTally ==
    ASSUME Types, AmountTypes, NEW r \in Requests, Part(r), Tally(r), DeliverReply(r)
    PROVE  Tally(r)'
<1>1. /\ UNCHANGED <<native, result, held, log, served>>
      /\ chan[r] # <<>> /\ chan' = [chan EXCEPT ![r] = Tail(@)]
      /\ Head(chan[r]) \in Reply /\ read'[r] = "idle"
      /\ view[r] \in {"open", "cancelled", "all"}
  BY DEF DeliverReply, DeliverChunkReply, DeliverAllReply, RequestUnchanged, Types
<1>2. /\ chan[r] \in Seq(Closure) /\ log[r] \in Seq(Closure)
      /\ served[r] \in Nat /\ got[r] \in Nat
      /\ \A kinds : NumberOf(chan[r], kinds) \in Nat /\ NumberOf(log[r], kinds) \in Nat
  BY CountTypes
<1>3. ReplyLast(chan[r])
  BY DEF Tally, Reporting
<1>4. chan[r] = <<Head(chan[r])>> /\ chan'[r] = <<>>
  BY <1>1, <1>3, RunCounts
<1>5. /\ \A kinds : Has(chan[r], kinds) <=> Head(chan[r]) \in kinds
      /\ \A kinds : ~Has(chan'[r], kinds)
      /\ ReplyLast(chan'[r]) /\ Len(chan[r]) = 1
  <2>1. DOMAIN <<Head(chan[r])>> = {1} /\ <<Head(chan[r])>>[1] = Head(chan[r])
        /\ Len(<<Head(chan[r])>>) = 1
    OBVIOUS
  <2>2. \A kinds : Has(<<Head(chan[r])>>, kinds) <=> Head(chan[r]) \in kinds
    BY HasFew
  <2>3. ReplyLast(<<>>) /\ \A kinds : ~Has(<<>>, kinds)
    BY HasFew DEF ReplyLast
  <2> QED
    BY <1>4, <2>1, <2>2, <2>3
<1>6. /\ NumberOf(chan[r], {"body_progress"}) = 0 /\ NumberOf(chan'[r], {"body_progress"}) = 0
      /\ NumberOf(chan[r], {"body_complete"}) = 0 /\ NumberOf(chan'[r], {"body_complete"}) = 0
  <2>1. Plain(<<Head(chan[r])>>) /\ Plain(<<>>)
    BY <1>1, GroupCounts
  <2> QED
    BY <1>4, <2>1 DEF Plain
<1>7. Reporting(r)' /\ (OfBody(r)' <=> OfBody(r))
  <2>1. InUse(r)' => InUse(r) /\ Head(chan[r]) = "data" /\ UNCHANGED bodyEvents
    BY <1>1 DEF InUse, DeliverReply, DeliverChunkReply, DeliverAllReply, Settled, Types
  <2>2. Head(chan[r]) = "data" => ~Has(chan[r], Stopping)
    BY <1>5 DEF Stopping, Ending
  <2> QED
    BY <1>1, <1>5, <2>1, <2>2 DEF Tally, Reporting, OfBody
<1>8. CASE view'[r] = "cancelled"
  BY <1>7, <1>8 DEF Tally, Chunks, Reported, Ended
<1>9. CASE view[r] = "open" /\ Head(chan[r]) = "data"
  <2>1. view'[r] = "open" /\ got'[r] = got[r] + 1
    BY <1>9 DEF DeliverReply, DeliverChunkReply, DeliverAllReply, AmountTypes
  <2>2. served[r] = got[r] + 1
    BY <1>5, <1>9 DEF Tally, Chunks
  <2>3. Chunks(r)'
    BY <1>1, <1>2, <1>5, <2>1, <2>2 DEF Chunks
  <2>4. OfBody(r) => NumberOf(log[r], {"body_progress"}) = served[r]
    BY <1>2, <1>6, <1>9 DEF Tally, Reported, Events
  <2>5. Reported(r)'
    BY <1>1, <1>2, <1>6, <1>7, <2>1, <2>2, <2>4 DEF Reported, Events
  <2>6. Ended(r)'
    BY <1>1, <1>2, <1>5, <1>6, <1>7, <1>9, <2>1 DEF Tally, Ended, Events, Ending
  <2> QED
    BY <1>7, <2>3, <2>5, <2>6 DEF Tally
<1>10. CASE \/ view[r] = "open" /\ Head(chan[r]) = "null"
            \/ view[r] = "all" /\ Head(chan[r]) = "bytes"
  <2>1. view'[r] = "complete" /\ got'[r] = served[r]
    <3>1. CASE view[r] = "open" /\ Head(chan[r]) = "null"
      <4>1. DeliverChunkReply(r)
        BY <3>1 DEF DeliverReply, DeliverAllReply
      <4>2. view'[r] = "complete" /\ got' = got
        BY <3>1, <4>1 DEF DeliverChunkReply, Settled, Types
      <4>3. served[r] = got[r]
        BY <1>2, <1>5, <3>1 DEF Tally, Chunks
      <4> QED
        BY <4>2, <4>3
    <3>2. CASE view[r] = "all" /\ Head(chan[r]) = "bytes"
      <4>1. DeliverAllReply(r)
        BY <3>2 DEF DeliverReply, DeliverChunkReply
      <4> QED
        BY <3>2, <4>1 DEF DeliverAllReply, Types, AmountTypes
    <3> QED
      BY <1>10, <3>1, <3>2
  <2>2. Has(chan[r], Ending)
    BY <1>5, <1>10 DEF Ending
  <2>3. Chunks(r)'
    BY <1>1, <1>4, <2>1 DEF Chunks
  <2>4. OfBody(r) => /\ NumberOf(log[r], {"body_progress"}) = served[r]
                     /\ NumberOf(log[r], {"body_complete"}) = 1
                     /\ log[r] # <<>> /\ log[r][Len(log[r])] = "done"
    BY <1>2, <1>5, <1>6, <1>10, <2>2 DEF Tally, Reported, Ended, Events, BeforeReply
  <2>5. Reported(r)'
    BY <1>1, <1>2, <1>6, <1>7, <2>1, <2>4 DEF Reported, Events
  <2>6. Ended(r)'
    BY <1>1, <1>7, <2>1, <2>4 DEF Ended
  <2> QED
    BY <1>7, <2>3, <2>5, <2>6 DEF Tally
<1>11. CASE /\ view[r] \in {"open", "all"}
            /\ ~(view[r] = "open" /\ Head(chan[r]) \in {"data", "null"})
            /\ ~(view[r] = "all" /\ Head(chan[r]) = "bytes")
  <2>1. view'[r] \in {"failed", "lost"} /\ got' = got
    <3>1. CASE view[r] = "open"
      <4>1. DeliverChunkReply(r)
        BY <3>1 DEF DeliverReply, DeliverAllReply
      <4> QED
        BY <1>11, <3>1, <4>1 DEF DeliverChunkReply, Settled, Types
    <3>2. CASE view[r] = "all"
      <4>1. DeliverAllReply(r)
        BY <3>2 DEF DeliverReply, DeliverChunkReply
      <4> QED
        BY <1>11, <3>2, <4>1 DEF DeliverAllReply, Types
    <3> QED
      BY <1>11, <3>1, <3>2
  <2>2. Chunks(r)' /\ Ended(r)'
    BY <2>1 DEF Chunks, Ended
  <2>3. Reported(r)'
    BY <1>1, <1>7, <1>11, <2>1 DEF Tally, Reported
  <2> QED
    BY <1>7, <2>2, <2>3 DEF Tally
<1>12. view[r] = "cancelled" => view'[r] = "cancelled"
  BY DEF DeliverReply, DeliverChunkReply, DeliverAllReply, Settled
<1> QED
  BY <1>1, <1>8, <1>9, <1>10, <1>11, <1>12

\* The last element but one, behind a pair.
LEMMA BeforeLast ==
    ASSUME NEW S, NEW u \in Seq(S), NEW v \in Seq(S), NEW w \in Seq(S),
           Len(v) = 2, Len(w) = 1
    PROVE  /\ Len((u \o v) \o w) = Len(u) + 3
           /\ ((u \o v) \o w)[Len(u) + 2] = v[2]
           /\ Len(u) \in Nat
<1>1. \A a, b \in Seq(S) : \A i \in 1..Len(a) : (a \o b)[i] = a[i]
  OBVIOUS
<1>2. \A a, b \in Seq(S) : \A i \in 1..Len(b) : (a \o b)[Len(a) + i] = b[i]
  OBVIOUS
<1>3. \A a, b \in Seq(S) : a \o b \in Seq(S) /\ Len(a \o b) = Len(a) + Len(b)
  OBVIOUS
<1>4. Len(u) \in Nat /\ 2 \in 1..Len(v)
  OBVIOUS
<1>5. Len(u \o v) = Len(u) + 2 /\ u \o v \in Seq(S)
  BY <1>3
<1>6. Len(u) + 2 \in 1..Len(u \o v)
  BY <1>4, <1>5
<1>7. ((u \o v) \o w)[Len(u) + 2] = (u \o v)[Len(u) + 2]
  BY <1>1, <1>5, <1>6, Zenon
<1>8. (u \o v)[Len(u) + 2] = v[2]
  BY <1>2, <1>4, Zenon
<1>9. Len((u \o v) \o w) = Len(u \o v) + Len(w)
  BY <1>3, <1>5, Zenon
<1> QED
  BY <1>4, <1>5, <1>7, <1>8, <1>9

\* A read task emits and perhaps answers.
LEMMA ReadTally ==
    ASSUME Types, AmountTypes, NEW r \in Requests, Part(r), Tally(r), ReadChanges(r)
    PROVE  Tally(r)'
<1>1. /\ UNCHANGED <<native, result, view, held, got, log>>
      /\ read[r] \notin {"idle", "replied"} /\ view[r] \in {"open", "cancelled", "all"}
  BY DEF ReadChanges, HandleNotFound, ChunkArrives, ChunkEnd, ChunkError, ChunkStops, DrainChunk,
     DrainEnd, DrainError, ReadUnchanged, RequestUnchanged, Part, Reading
<1>2. HasBody(r) /\ ~Has(chan[r], Reply)
  BY <1>1 DEF Part, Reading, Untouched
<1>3. /\ chan[r] \in Seq(Closure) /\ log[r] \in Seq(Closure)
      /\ served[r] \in Nat /\ got[r] \in Nat
      /\ \A kinds : NumberOf(chan[r], kinds) \in Nat /\ NumberOf(log[r], kinds) \in Nat
  BY CountTypes
<1>4. ASSUME NEW e \in Seq(EventType), NEW t \in Seq(Reply), EmitAndReply(r, e, t),
             t = <<>> \/ \E x \in Reply : t = <<x>>
      PROVE  /\ ReplyLast(chan'[r])
             /\ \A kinds : kinds \subseteq Reply => (Has(chan'[r], kinds) <=> Has(t, kinds))
             /\ r \in bodyEvents =>
                  /\ chan'[r] = (chan[r] \o e) \o t
                  /\ NumberOf(chan'[r], {"body_progress"})
                       = NumberOf(chan[r], {"body_progress"}) + NumberOf(e, {"body_progress"})
                  /\ NumberOf(chan'[r], {"body_complete"})
                       = NumberOf(chan[r], {"body_complete"}) + NumberOf(e, {"body_complete"})
  <2> DEFINE g == IF r \in bodyEvents THEN e ELSE <<>>
  <2>1. g \in Seq(EventType) /\ (r \in bodyEvents => g = e)
    OBVIOUS
  <2>2. t \in Seq(Closure) /\ (t = <<>> \/ \E x : t = <<x>>)
    BY <1>4, Kinds
  <2>3. chan' = [chan EXCEPT ![r] = @ \o g \o t]
    BY <1>4 DEF EmitAndReply
  <2> HIDE DEF g
  <2>4. /\ \A kinds : NumberOf(chan'[r], kinds)
                = NumberOf(chan[r], kinds) + NumberOf(g, kinds) + NumberOf(t, kinds)
        /\ ReplyLast(chan'[r])
        /\ chan'[r] = (chan[r] \o g) \o t
    BY <1>2, <2>1, <2>2, <2>3, QueueCounts
  <2>5. \A kinds : kinds \cap EventType = {} =>
            (Has(chan'[r], kinds) <=> Has(chan[r], kinds) \/ Has(t, kinds))
    BY <2>1, <2>2, <2>3, ChanQueues
  <2>6. \A kinds : kinds \subseteq Reply => kinds \cap EventType = {} /\ ~Has(chan[r], kinds)
    BY <1>2, Kinds DEF Has
  <2>7. Plain(t)
    <3>1. CASE t = <<>>
      BY <3>1, GroupCounts
    <3>2. ASSUME NEW x \in Reply, t = <<x>> PROVE Plain(t)
      BY <3>2, GroupCounts
    <3> QED
      BY <1>4, <3>1, <3>2
  <2>8. \A kinds : NumberOf(e, kinds) \in Nat
    BY PlacesFinite
  <2>9. ASSUME r \in bodyEvents
        PROVE  /\ NumberOf(chan'[r], {"body_progress"})
                    = NumberOf(chan[r], {"body_progress"}) + NumberOf(e, {"body_progress"})
               /\ NumberOf(chan'[r], {"body_complete"})
                    = NumberOf(chan[r], {"body_complete"}) + NumberOf(e, {"body_complete"})
    BY <1>3, <2>1, <2>4, <2>7, <2>8, <2>9 DEF Plain
  <2> QED
    BY <2>1, <2>4, <2>5, <2>6, <2>9
<1>5. /\ {"data"} \subseteq Reply /\ Ending \subseteq Reply /\ Stopping \subseteq Reply
      /\ {"notFound", "data", "null", "readError", "bytes"} \subseteq Reply
      /\ \A x \in Reply : <<x>> \in Seq(Reply) /\ \A kinds : Has(<<x>>, kinds) <=> x \in kinds
      /\ \A kinds : ~Has(<<>>, kinds)
  BY HasFew DEF Ending, Stopping, Reply
<1>6. ~Has(chan[r], {"data"}) /\ ~Has(chan[r], Ending) /\ ~Has(chan[r], Stopping)
  BY <1>2, <1>5 DEF Has
<1>7. CASE view[r] = "cancelled"
  <2>1. ReplyLast(chan'[r])
    <3>1. CASE HandleNotFound(r)
      BY <1>4, <1>5, <3>1, EventGroups DEF HandleNotFound
    <3>2. CASE ChunkArrives(r)
      BY <1>4, <1>5, <3>2, EventGroups DEF ChunkArrives
    <3>3. CASE ChunkEnd(r) \/ ChunkError(r)
      BY <1>4, <1>5, <3>3, EventGroups DEF ChunkEnd, ChunkError, ChunkStops
    <3>4. CASE DrainChunk(r) \/ DrainEnd(r) \/ DrainError(r)
      BY <1>7, <3>4 DEF DrainChunk, DrainEnd, DrainError, Part, Reading
    <3> QED
      BY <3>1, <3>2, <3>3, <3>4 DEF ReadChanges
  <2>2. ~InUse(r)'
    BY <1>1, <1>7 DEF InUse
  <2>3. Reporting(r)'
    BY <1>1, <2>1, <2>2 DEF Tally, Reporting
  <2> QED
    BY <1>1, <1>7, <2>3 DEF Tally, Chunks, Reported, Ended
<1>8. CASE view[r] \in {"open", "all"}
  <2>1. InUse(r) /\ (r \in Observed => r \in bodyEvents)
    BY <1>1, <1>2, <1>6, <1>8 DEF InUse, Part, Reading, Tally, Reporting, HasBody
  <2>2. /\ view[r] = "open" => served[r] = got[r]
        /\ view[r] = "all" => got[r] = 0
        /\ OfBody(r) => /\ Events(r, "body_progress") = served[r]
                        /\ NumberOf(log[r], {"body_progress"}) >= got[r]
                        /\ Events(r, "body_complete") = 0
    BY <1>3, <1>6, <1>8 DEF Tally, Chunks, Reported, Ended
  <2>3. (InUse(r)' <=> InUse(r)) /\ (OfBody(r)' <=> OfBody(r)) /\ native' = native
    BY <1>1 DEF InUse, OfBody
  <2>4. ASSUME NEW e \in Seq(EventType), NEW t \in Seq(Reply), EmitAndReply(r, e, t),
               t = <<>> \/ \E x \in Reply : t = <<x>>,
               NumberOf(e, {"body_progress"}) = served'[r] - served[r],
               NumberOf(e, {"body_complete"}) = IF Has(t, Ending) THEN 1 ELSE 0,
               served'[r] \in Nat,
               view[r] = "open" => served'[r] = got[r] + (IF Has(t, {"data"}) THEN 1 ELSE 0),
               ~Has(t, Stopping) => bodyEvents' = bodyEvents,
               Has(t, Ending) => e = <<"body_complete", "done">>
        PROVE  Tally(r)'
    <3>1. /\ ReplyLast(chan'[r])
          /\ Has(chan'[r], {"data"}) <=> Has(t, {"data"})
          /\ Has(chan'[r], Ending) <=> Has(t, Ending)
          /\ Has(chan'[r], Stopping) <=> Has(t, Stopping)
      BY <1>4, <1>5, <2>4
    <3>2. r \in Observed =>
                  /\ chan'[r] = (chan[r] \o e) \o t
                  /\ NumberOf(chan'[r], {"body_progress"})
                       = NumberOf(chan[r], {"body_progress"}) + NumberOf(e, {"body_progress"})
                  /\ NumberOf(chan'[r], {"body_complete"})
                       = NumberOf(chan[r], {"body_complete"}) + NumberOf(e, {"body_complete"})
      BY <1>4, <2>1, <2>4
    <3>3. Reporting(r)'
      BY <1>1, <1>6, <2>3, <2>4, <3>1 DEF Tally, Reporting
    <3>4. Chunks(r)'
      BY <1>1, <1>8, <2>2, <2>4, <3>1 DEF Chunks
    <3>5. Reported(r)'
      <4>1. OfBody(r) => Events(r, "body_progress")' = served'[r]
        <5> SUFFICES ASSUME OfBody(r) PROVE Events(r, "body_progress")' = served'[r]
          OBVIOUS
        <5>1. Events(r, "body_progress")' = NumberOf(log'[r], {"body_progress"}) + NumberOf(chan'[r], {"body_progress"})
          BY DEF Events
        <5>2. NumberOf(chan'[r], {"body_progress"}) = NumberOf(chan[r], {"body_progress"}) + NumberOf(e, {"body_progress"})
          BY <3>2 DEF OfBody
        <5>3. NumberOf(log[r], {"body_progress"}) + NumberOf(chan[r], {"body_progress"}) = served[r]
          BY <2>2 DEF Events
        <5>4. NumberOf(log[r], {"body_progress"}) \in Nat /\ NumberOf(chan[r], {"body_progress"}) \in Nat
          BY <1>3
        <5> QED
          BY <1>1, <1>3, <2>4, <5>1, <5>2, <5>3, <5>4
      <4> QED
        BY <1>1, <2>2, <2>3, <4>1 DEF Reported
    <3>6. ASSUME OfBody(r), Has(t, Ending) PROVE BeforeReply(r)'
      <4>1. \E x \in Reply : t = <<x>>
        BY <1>5, <2>4, <3>6
      <4>2. /\ e = <<"body_complete", "done">> /\ chan'[r] = (chan[r] \o e) \o t
        BY <2>4, <3>2, <3>6 DEF OfBody
      <4>3. /\ Len(e) = 2 /\ e[2] = "done" /\ Len(t) = 1 /\ e \in Seq(Closure) /\ t \in Seq(Closure)
        BY <2>4, <4>1, <4>2, Kinds
      <4>4. /\ Len((chan[r] \o e) \o t) = Len(chan[r]) + 3
            /\ ((chan[r] \o e) \o t)[Len(chan[r]) + 2] = e[2]
            /\ Len(chan[r]) \in Nat
        BY <1>3, <4>3, BeforeLast
      <4> DEFINE s == (chan[r] \o e) \o t
                 n == Len(chan[r])
      <4>5. s[n + 2] = "done" /\ Len(s) = n + 3 /\ n \in Nat
        BY <4>3, <4>4
      <4> HIDE DEF s, n
      <4>6. Len(s) # 1 /\ s[Len(s) - 1] = "done"
        <5>1. Len(s) - 1 = n + 2
          BY <4>5
        <5> QED
          BY <4>5, <5>1
      <4>7. chan'[r] = s
        BY <4>2 DEF s
      <4> QED
        BY <4>6, <4>7 DEF BeforeReply
    <3>7. Ended(r)'
      <4>1. OfBody(r) => Events(r, "body_complete")' = IF Has(t, Ending) THEN 1 ELSE 0
        <5> SUFFICES ASSUME OfBody(r) PROVE Events(r, "body_complete")' = IF Has(t, Ending) THEN 1 ELSE 0
          OBVIOUS
        <5>1. Events(r, "body_complete")' = NumberOf(log'[r], {"body_complete"}) + NumberOf(chan'[r], {"body_complete"})
          BY DEF Events
        <5>2. NumberOf(chan'[r], {"body_complete"}) = NumberOf(chan[r], {"body_complete"}) + NumberOf(e, {"body_complete"})
          BY <3>2 DEF OfBody
        <5>3. NumberOf(log[r], {"body_complete"}) + NumberOf(chan[r], {"body_complete"}) = 0
          BY <2>2 DEF Events
        <5>4. NumberOf(log[r], {"body_complete"}) \in Nat /\ NumberOf(chan[r], {"body_complete"}) \in Nat
          BY <1>3
        <5> QED
          BY <1>1, <1>3, <2>4, <5>1, <5>2, <5>3, <5>4
      <4> QED
        BY <1>1, <1>8, <2>3, <3>1, <3>6, <4>1 DEF Ended
    <3> QED
      BY <3>3, <3>4, <3>5, <3>7 DEF Tally
  <2>5. CASE HandleNotFound(r)
    <3>1. /\ EmitAndReply(r, <<>>, <<"notFound">>) /\ UNCHANGED <<served, bodyEvents>>
      BY <2>5 DEF HandleNotFound
    <3>2. /\ Has(<<"notFound">>, {"data"}) <=> FALSE
          /\ Has(<<"notFound">>, Ending) <=> FALSE
          /\ <<"notFound">> \in Seq(Reply) /\ \E x \in Reply : <<"notFound">> = <<x>>
      BY <1>5 DEF Ending
    <3>3. NumberOf(<<>>, {"body_progress"}) = 0 /\ NumberOf(<<>>, {"body_complete"}) = 0
      BY GroupCounts DEF Plain
    <3>4. <<>> \in Seq(EventType)
      BY EventGroups
    <3>5. served'[r] \in Nat /\ NumberOf(<<>>, {"body_progress"}) = served'[r] - served[r]
      BY <1>3, <3>1, <3>3
    <3>6. NumberOf(<<>>, {"body_complete"}) = IF Has(<<"notFound">>, Ending) THEN 1 ELSE 0
      BY <3>2, <3>3
    <3>7. view[r] = "open" => served'[r] = got[r] + (IF Has(<<"notFound">>, {"data"}) THEN 1 ELSE 0)
      BY <1>3, <2>2, <3>1, <3>2
    <3> QED
      BY <2>4, <3>1, <3>2, <3>4, <3>5, <3>6, <3>7
  <2>6. CASE ChunkArrives(r)
    <3>1. /\ EmitAndReply(r, <<"body_progress">>, <<"data">>) /\ UNCHANGED bodyEvents
          /\ served'[r] = served[r] + 1 /\ view[r] = "open"
      BY <1>8, <2>6 DEF ChunkArrives, AmountTypes, Part, Reading
    <3>2. /\ Has(<<"data">>, {"data"}) <=> TRUE
          /\ Has(<<"data">>, Ending) <=> FALSE
          /\ <<"data">> \in Seq(Reply) /\ \E x \in Reply : <<"data">> = <<x>>
      BY <1>5 DEF Ending
    <3>4. <<"body_progress">> \in Seq(EventType)
      BY EventGroups
    <3>5. served'[r] \in Nat /\ NumberOf(<<"body_progress">>, {"body_progress"}) = served'[r] - served[r]
      BY <1>3, <3>1, GroupCounts
    <3>6. NumberOf(<<"body_progress">>, {"body_complete"}) = IF Has(<<"data">>, Ending) THEN 1 ELSE 0
      BY <3>2, GroupCounts
    <3>7. view[r] = "open" => served'[r] = got[r] + (IF Has(<<"data">>, {"data"}) THEN 1 ELSE 0)
      BY <1>3, <2>2, <3>1, <3>2
    <3> QED
      BY <2>4, <3>1, <3>2, <3>4, <3>5, <3>6, <3>7
  <2>7. CASE ChunkEnd(r)
    <3>1. /\ EmitAndReply(r, <<"body_complete", "done">>, <<"null">>) /\ UNCHANGED served
      BY <2>7 DEF ChunkEnd, ChunkStops
    <3>2. /\ Has(<<"null">>, {"data"}) <=> FALSE
          /\ Has(<<"null">>, Ending) <=> TRUE
          /\ Has(<<"null">>, Stopping) <=> TRUE
          /\ <<"null">> \in Seq(Reply) /\ \E x \in Reply : <<"null">> = <<x>>
      BY <1>5 DEF Ending, Stopping
    <3>4. <<"body_complete", "done">> \in Seq(EventType)
      BY EventGroups
    <3>5. served'[r] \in Nat /\ NumberOf(<<"body_complete", "done">>, {"body_progress"}) = served'[r] - served[r]
      BY <1>3, <3>1, GroupCounts
    <3>6. NumberOf(<<"body_complete", "done">>, {"body_complete"}) = IF Has(<<"null">>, Ending) THEN 1 ELSE 0
      BY <3>2, GroupCounts
    <3>7. view[r] = "open" => served'[r] = got[r] + (IF Has(<<"null">>, {"data"}) THEN 1 ELSE 0)
      BY <1>3, <2>2, <3>1, <3>2
    <3> QED
      BY <2>4, <3>1, <3>2, <3>4, <3>5, <3>6, <3>7
  <2>8. CASE ChunkError(r)
    <3>1. /\ EmitAndReply(r, <<"error">>, <<"readError">>) /\ UNCHANGED served
      BY <2>8 DEF ChunkError, ChunkStops
    <3>2. /\ Has(<<"readError">>, {"data"}) <=> FALSE
          /\ Has(<<"readError">>, Ending) <=> FALSE
          /\ Has(<<"readError">>, Stopping) <=> TRUE
          /\ <<"readError">> \in Seq(Reply) /\ \E x \in Reply : <<"readError">> = <<x>>
      BY <1>5 DEF Ending, Stopping
    <3>3. NumberOf(<<"error">>, {"body_progress"}) = 0 /\ NumberOf(<<"error">>, {"body_complete"}) = 0
      BY GroupCounts DEF Plain
    <3>4. <<"error">> \in Seq(EventType)
      BY EventGroups
    <3>5. served'[r] \in Nat /\ NumberOf(<<"error">>, {"body_progress"}) = served'[r] - served[r]
      BY <1>3, <3>1, <3>3
    <3>6. NumberOf(<<"error">>, {"body_complete"}) = IF Has(<<"readError">>, Ending) THEN 1 ELSE 0
      BY <3>2, <3>3
    <3>7. view[r] = "open" => served'[r] = got[r] + (IF Has(<<"readError">>, {"data"}) THEN 1 ELSE 0)
      BY <1>3, <2>2, <3>1, <3>2
    <3> QED
      BY <2>4, <3>1, <3>2, <3>4, <3>5, <3>6, <3>7
  <2>9. CASE DrainChunk(r)
    <3>1. /\ EmitAndReply(r, <<"body_progress">>, <<>>) /\ UNCHANGED bodyEvents
          /\ served'[r] = served[r] + 1 /\ view[r] = "all"
      BY <1>8, <2>9 DEF DrainChunk, AmountTypes, Part, Reading
    <3>2. ~Has(<<>>, Ending) /\ <<>> \in Seq(Reply)
      BY <1>5
    <3>4. <<"body_progress">> \in Seq(EventType)
      BY EventGroups
    <3>5. served'[r] \in Nat /\ NumberOf(<<"body_progress">>, {"body_progress"}) = served'[r] - served[r]
      BY <1>3, <3>1, GroupCounts
    <3>6. NumberOf(<<"body_progress">>, {"body_complete"}) = IF Has(<<>>, Ending) THEN 1 ELSE 0
      BY <3>2, GroupCounts
    <3>7. view[r] = "open" => served'[r] = got[r] + (IF Has(<<>>, {"data"}) THEN 1 ELSE 0)
      BY <1>3, <2>2, <3>1, <3>2
    <3> QED
      BY <2>4, <3>1, <3>2, <3>4, <3>5, <3>6, <3>7
  <2>10. CASE DrainEnd(r)
    <3>1. /\ EmitAndReply(r, <<"body_complete", "done">>, <<"bytes">>) /\ UNCHANGED served
          /\ view[r] = "all"
      BY <1>8, <2>10 DEF DrainEnd, Part, Reading
    <3>2. /\ Has(<<"bytes">>, Ending) <=> TRUE
          /\ Has(<<"bytes">>, Stopping) <=> TRUE
          /\ <<"bytes">> \in Seq(Reply) /\ \E x \in Reply : <<"bytes">> = <<x>>
      BY <1>5 DEF Ending, Stopping
    <3>4. <<"body_complete", "done">> \in Seq(EventType)
      BY EventGroups
    <3>5. served'[r] \in Nat /\ NumberOf(<<"body_complete", "done">>, {"body_progress"}) = served'[r] - served[r]
      BY <1>3, <3>1, GroupCounts
    <3>6. NumberOf(<<"body_complete", "done">>, {"body_complete"}) = IF Has(<<"bytes">>, Ending) THEN 1 ELSE 0
      BY <3>2, GroupCounts
    <3>7. view[r] = "open" => served'[r] = got[r] + (IF Has(<<"bytes">>, {"data"}) THEN 1 ELSE 0)
      BY <1>3, <2>2, <3>1, <3>2
    <3> QED
      BY <2>4, <3>1, <3>2, <3>4, <3>5, <3>6, <3>7
  <2>11. CASE DrainError(r)
    <3>1. /\ EmitAndReply(r, <<>>, <<"readError">>) /\ UNCHANGED <<served, bodyEvents>>
          /\ view[r] = "all"
      BY <1>8, <2>11 DEF DrainError, Part, Reading
    <3>2. /\ Has(<<"readError">>, Ending) <=> FALSE
          /\ <<"readError">> \in Seq(Reply) /\ \E x \in Reply : <<"readError">> = <<x>>
      BY <1>5 DEF Ending
    <3>3. NumberOf(<<>>, {"body_progress"}) = 0 /\ NumberOf(<<>>, {"body_complete"}) = 0
      BY GroupCounts DEF Plain
    <3>4. <<>> \in Seq(EventType)
      BY EventGroups
    <3>5. served'[r] \in Nat /\ NumberOf(<<>>, {"body_progress"}) = served'[r] - served[r]
      BY <1>3, <3>1, <3>3
    <3>6. NumberOf(<<>>, {"body_complete"}) = IF Has(<<"readError">>, Ending) THEN 1 ELSE 0
      BY <3>2, <3>3
    <3>7. view[r] = "open" => served'[r] = got[r] + (IF Has(<<"readError">>, {"data"}) THEN 1 ELSE 0)
      BY <1>3, <2>2, <3>1, <3>2
    <3> QED
      BY <2>4, <3>1, <3>2, <3>4, <3>5, <3>6, <3>7
  <2> QED
    BY <2>5, <2>6, <2>7, <2>8, <2>9, <2>10, <2>11 DEF ReadChanges
<1> QED
  BY <1>1, <1>7, <1>8

LEMMA StepTally ==
    ASSUME Types, AmountTypes, NEW r \in Requests, Part(r), Tally(r), Step(r)
    PROVE  Tally(r)'
<1>1. ASSUME JsStep(r), UNCHANGED bodyVars PROVE Tally(r)'
  <2>1. CASE DeliverEvent(r) \/ DeliverSettle(r)
    BY <1>1, <2>1, DeliverTally
  <2>2. CASE ~(DeliverEvent(r) \/ DeliverSettle(r))
    <3>1. UNCHANGED chan
      BY <1>1, <2>2 DEF JsStep, RejectAborted, Dispatch, DispatchThrows, Abort
    <3> QED
      BY <1>1, <3>1, JsTally
  <2> QED
    BY <2>1, <2>2
<1>2. ASSUME NativeStep(r), UNCHANGED bodyVars PROVE Tally(r)'
  BY <1>2, NativeTally
<1>3. CASE ConsumerStep(r) \/ StartChunk(r) \/ StartAll(r) \/ ExpireBody(r)
  BY <1>3, ConsumerTally
<1>4. CASE DeliverReply(r)
  BY <1>4, ReplyTally
<1>5. CASE ReadChanges(r)
  BY <1>5, ReadTally
<1> QED
  BY <1>1, <1>2, <1>3, <1>4, <1>5 DEF Step, RequestStep, ReadStep, StartRead, ReadChanges

\* The counts are right at all times.
THEOREM TallyInvariant == BodySpec => []TInv
<1>1. BodyInit => TInv
  <2> SUFFICES ASSUME BodyInit PROVE TInv
    OBVIOUS
  <2>1. BInv
    BY InitInvariant
  <2>2. AmountTypes
    BY DEF BodyInit, Init, AmountTypes
  <2>3. ASSUME NEW r \in Requests PROVE Tally(r)
    <3>1. /\ native[r] = "none" /\ result[r] = "none" /\ chan[r] = <<>> /\ log[r] = <<>>
          /\ view[r] = "fresh" /\ served[r] = 0 /\ got[r] = 0
      BY DEF BodyInit, Init
    <3>2. NumberOf(<<>>, {"body_progress"}) = 0 /\ NumberOf(<<>>, {"body_complete"}) = 0
      BY NumberOfFew
    <3>3. ~Has(<<>>, {"data"}) /\ ~Has(<<>>, Ending) /\ ReplyLast(<<>>)
      BY HasFew DEF ReplyLast
    <3> QED
      BY <3>1, <3>2, <3>3 DEF Tally, Reporting, Chunks, Reported, Ended, Events
  <2> QED
    BY <2>1, <2>2, <2>3 DEF TInv
<1>2. TInv /\ [BodyNext]_allVars => TInv'
  <2> SUFFICES ASSUME TInv, [BodyNext]_allVars PROVE TInv'
    OBVIOUS
  <2>1. BInv' /\ BInv /\ Types
    BY StepInvariant DEF TInv, BInv
  <2>2. CASE UNCHANGED allVars
    <3>1. AmountTypes'
      BY <2>2 DEF allVars, vars, bodyVars, TInv, AmountTypes
    <3>2. ASSUME NEW q \in Requests PROVE Tally(q)'
      <4>1. Same(q) /\ SameAmounts(q)
        BY <2>2 DEF allVars, vars, bodyVars, Same, SameAmounts
      <4> QED
        BY <4>1, SameTally DEF TInv
    <3> QED
      BY <2>1, <3>1, <3>2 DEF TInv
  <2>3. ASSUME NEW r \in Requests, Step(r) PROVE TInv'
    <3>1. AmountTypes'
      BY <2>1, <2>3, StepAmountTypes DEF TInv
    <3>2. ASSUME NEW q \in Requests PROVE Tally(q)'
      <4>1. CASE q = r
        BY <2>1, <2>3, <4>1, StepTally DEF TInv, BInv
      <4>2. CASE q # r
        <5>1. Same(q) /\ SameAmounts(q)
          BY <2>1, <2>3, <4>2, StepSame, StepSameAmounts DEF TInv
        <5> QED
          BY <5>1, SameTally DEF TInv
      <4> QED
        BY <4>1, <4>2
    <3> QED
      BY <2>1, <3>1, <3>2 DEF TInv
  <2> QED
    BY <2>2, <2>3 DEF BodyNext, Step
<1> QED
  BY <1>1, <1>2, PTL DEF BodySpec

\* A body that reads as complete is the whole body: every chunk of the native stream
\* arrived, each was reported once before it was handed over, and body_complete and
\* done closed the report, however reads, events, expiry and the collector interleave.
THEOREM ReadersSeeTheWholeBody == BodySpec => []ReadInOrder
<1>1. TInv => ReadInOrder
  <2> SUFFICES ASSUME TInv, NEW r \in Requests
               PROVE  /\ view[r] = "complete" =>
                           /\ got[r] = served[r]
                           /\ r \in Observed =>
                                /\ Count("body_progress", r) = got[r]
                                /\ Count("body_complete", r) = 1
                                /\ log[r][Len(log[r])] = "done"
                      /\ r \in Observed /\ HasBody(r) /\ view[r] # "cancelled" =>
                           Count("body_progress", r) >= got[r]
    BY RequestAssumption DEF ReadInOrder, CompleteBodyIsWhole, ProgressBeforeData
  <2>1. /\ Types /\ AmountTypes /\ Part(r) /\ Tally(r)
    BY DEF TInv, BInv
  <2>2. \A event : Count(event, r) = NumberOf(log[r], {event})
    <3> SUFFICES ASSUME NEW event PROVE Count(event, r) = NumberOf(log[r], {event})
      OBVIOUS
    <3>1. {i \in DOMAIN log[r] : log[r][i] = event} = PlacesOf(log[r], {event})
      BY DEF PlacesOf
    <3> QED
      BY <3>1 DEF Count, NumberOf
  <2>3. view[r] = "complete" => HasBody(r)
    BY <2>1 DEF Part, Untouched
  <2>4. r \in Observed /\ HasBody(r) => OfBody(r)
    BY DEF OfBody, HasBody
  <2>5. view[r] = "complete" => got[r] = served[r] /\ chan[r] = <<>>
    BY <2>1 DEF Tally, Chunks
  <2>6. OfBody(r) /\ view[r] = "complete" => NumberOf(log[r], {"body_progress"}) = served[r]
    <3>1. NumberOf(<<>>, {"body_progress"}) = 0
      BY NumberOfFew
    <3>2. NumberOf(log[r], {"body_progress"}) \in Nat
      BY <2>1, CountTypes
    <3> QED
      BY <2>1, <2>5, <3>1, <3>2 DEF Tally, Reported, Events
  <2> QED
    BY <2>1, <2>2, <2>3, <2>4, <2>5, <2>6 DEF Tally, Reported, Ended
<1> QED
  BY <1>1, TallyInvariant, PTL
===============================================================================
