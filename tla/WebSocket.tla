------------------------------ MODULE WebSocket ------------------------------
(***************************************************************************)
(* One WebSocket, from the constructor to the end of its native tasks.     *)
(*                                                                         *)
(* On the JavaScript thread the WebSocket object keeps readyState and the  *)
(* flags that decide which events its listeners see.  On the native side   *)
(* the connection stands in WS_CONNECTIONS (registered) and is served by   *)
(* two tasks: the receiver reads the socket and fills a bounded queue, the *)
(* dispatcher turns its events into closures for the JavaScript thread and *)
(* at the end removes the connection.  websocketSend and websocketClose    *)
(* spawn one task each.  All closures go through the one FIFO neon channel *)
(* of the process.                                                         *)
(*                                                                         *)
(* A microtask and a queued closure may run in either order here; Node     *)
(* drains microtasks first, which allows fewer behaviours.                 *)
(***************************************************************************)
EXTENDS Integers, Sequences, FiniteSets, SequencesExt

CONSTANTS
    Buffer,        \* WS_EVENT_BUFFER: slots of the queue, and permits
    MaxMessages,   \* bound: messages the peer sends
    MaxSends       \* bound: calls of send() that are accepted

ASSUME WebSocketAssumption ==
    /\ Buffer \in Nat \ {0}
    /\ MaxMessages \in Nat
    /\ MaxSends \in Nat

VARIABLES
    \* the WebSocket object
    ready,         \* readyState
    connection,    \* _connection is set
    opened,        \* _openEventDispatched
    openQueued,    \* _openEventQueued
    closed,        \* _closeEventDispatched
    closeStarted,  \* _nativeCloseStarted
    tracked,       \* the object is registered with websocketFinalizer
    pending,       \* _pendingMessages
    sendChain,     \* sends accepted and not finished; the head may have begun
    accepted,      \* how many sends were accepted
    events,        \* what the listeners saw, oldest first
    \* the native side
    native,        \* the connect task
    registered,    \* the entry of WS_CONNECTIONS
    receiver,      \* the receiver task
    hand,          \* events the receiver read and has not queued yet
    received,      \* how many messages the receiver read
    evq,           \* events_tx / events_rx
    dispatcher,    \* the dispatcher task
    emitted,       \* close_emitted
    permits,       \* free permits of the semaphore
    sendTask,      \* the task of websocketSend
    closeTask,     \* the task of websocketClose
    wire,          \* frames written: ids of sends, and Close as 0
    chan           \* closures queued for the JavaScript thread

finalVars == <<ready, closed, tracked, pending, events>>
flagVars == <<connection, opened, openQueued, closeStarted>>
sendVars == <<sendChain, accepted>>
connVars == <<native, registered>>
readVars == <<receiver, hand, received>>
pumpVars == <<evq, dispatcher, emitted, permits>>
taskVars == <<sendTask, closeTask, wire>>
jsVars == <<finalVars, flagVars, sendVars>>
nativeVars == <<connVars, readVars, pumpVars, taskVars, chan>>
vars == <<jsVars, nativeVars>>

ReadyState == {"CONNECTING", "OPEN", "CLOSING", "CLOSED"}

\* A closure, an event of the queue or an event a listener sees; only
\* messages are told apart, by their number.
Message(n) == [type |-> "message", id |-> n]
Plain(t) == [type |-> t, id |-> 0]
Opened == Plain("open")
Error == Plain("error")
Close == Plain("close")

IsMessage(e) == e.type = "message"
Places(s) == {i \in DOMAIN s : IsMessage(s[i])}
Ids(s) == {s[i].id : i \in Places(s)}
InOrder(s) == \A i, j \in Places(s) : i < j => s[i].id < s[j].id

CloseFrame == 0
Entry(types) == {Plain(t) : t \in types} \cup {Message(n) : n \in 1..MaxMessages}
Queued == Entry({"error", "close"})
Event == Entry({"open", "error", "close"})
Closure == Entry({"error", "close", "connected", "refused", "sendOk", "sendFailed",
                  "closeOk", "closeFailed"})

Init ==
    /\ ready = "CONNECTING"
    /\ connection = FALSE
    /\ opened = FALSE
    /\ openQueued = FALSE
    /\ closed = FALSE
    /\ closeStarted = FALSE
    /\ tracked = FALSE
    /\ pending = <<>>
    /\ sendChain = <<>>
    /\ accepted = 0
    /\ events = <<>>
    /\ native = "idle"
    /\ registered = FALSE
    /\ receiver = "none"
    /\ hand = <<>>
    /\ received = 0
    /\ evq = <<>>
    /\ dispatcher = "none"
    /\ emitted = FALSE
    /\ permits = Buffer
    /\ sendTask = "none"
    /\ closeTask = "none"
    /\ wire = <<>>
    /\ chan = <<>>

-----------------------------------------------------------------------------
(* The WebSocket object.                                                   *)

\* finalizeClosed, after the listeners saw the events first: it has an effect
\* only the first time.
FinalizeClosed(first) ==
    /\ events' = events \o first \o (IF closed THEN <<>> ELSE <<Close>>)
    /\ closed' = TRUE
    /\ ready' = IF closed THEN ready ELSE "CLOSED"
    /\ pending' = IF closed THEN pending ELSE <<>>
    /\ tracked' = (closed /\ tracked)

\* The constructor starts the native connect.
Connect ==
    /\ native = "idle"
    /\ native' = "connecting"
    /\ UNCHANGED <<jsVars, registered, readVars, pumpVars, taskVars, chan>>

\* The native connect throws while it converts its options.
ConnectThrows ==
    /\ native = "idle"
    /\ native' = "settled"
    /\ FinalizeClosed(<<Error>>)
    /\ UNCHANGED <<flagVars, sendVars, registered, readVars, pumpVars,
                   taskVars, chan>>

\* The closure at the head of the channel runs.
Runs(type) ==
    /\ chan # <<>>
    /\ Head(chan).type = type
    /\ chan' = Tail(chan)

\* The connect promise resolves.  In every state but CLOSING, CLOSED
\* included, the socket becomes OPEN and its open event is queued.
Connected ==
    /\ Runs("connected")
    /\ ready # "CLOSING"
    /\ ready' = "OPEN"
    /\ connection' = TRUE
    /\ tracked' = TRUE
    /\ openQueued' = ~opened
    /\ UNCHANGED <<closed, pending, events, opened, closeStarted, sendVars,
                   connVars, readVars, pumpVars, taskVars>>

\* startNativeClose: only the first call that has a connection.
StartNativeClose ==
    /\ closeStarted' = TRUE
    /\ closeTask' = IF closeStarted THEN closeTask ELSE "running"

\* Mutant: the early close() is forgotten.
MutConnectedClosing ==
    /\ Runs("connected")
    /\ ready = "CLOSING"
    /\ registered
    /\ connection' = TRUE
    /\ tracked' = TRUE
    /\ UNCHANGED <<ready, closed, pending, events, opened, openQueued,
                   closeStarted, sendVars, connVars, readVars, pumpVars, taskVars>>

\* The connect promise resolves after close() was called: now it takes effect.
ConnectedClosing ==
    /\ Runs("connected")
    /\ ready = "CLOSING"
    /\ registered
    /\ connection' = TRUE
    /\ tracked' = TRUE
    /\ StartNativeClose
    /\ UNCHANGED <<ready, closed, pending, events, opened, openQueued,
                   sendVars, connVars, readVars, pumpVars, sendTask, wire>>

\* As before, but the native tasks are over: websocketClose throws, connect()
\* catches it and ends the socket.
ConnectedTooLate ==
    /\ Runs("connected")
    /\ ready = "CLOSING"
    /\ ~registered
    /\ connection' = TRUE
    /\ closeStarted' = TRUE
    /\ FinalizeClosed(<<Error>>)
    /\ UNCHANGED <<opened, openQueued, sendVars, connVars, readVars, pumpVars,
                   taskVars>>

\* The connect promise rejects.
Refused ==
    /\ Runs("refused")
    /\ FinalizeClosed(<<Error>>)
    /\ UNCHANGED <<flagVars, sendVars, connVars, readVars, pumpVars, taskVars>>

\* Mutant: the buffered messages are dispatched and kept.
MutDispatchOpen ==
    /\ openQueued
    /\ openQueued' = FALSE
    /\ IF opened \/ ready # "OPEN"
       THEN UNCHANGED <<opened, events>>
       ELSE /\ opened' = TRUE
            /\ events' = events \o <<Opened>> \o (IF closed THEN <<>> ELSE pending)
    /\ UNCHANGED <<ready, closed, tracked, pending, connection, closeStarted,
                   sendVars, nativeVars>>

\* The queued microtask dispatches the open event, then the messages that
\* came before it.
DispatchOpen ==
    /\ openQueued
    /\ openQueued' = FALSE
    /\ IF opened \/ ready # "OPEN"
       THEN UNCHANGED <<opened, pending, events>>
       ELSE /\ opened' = TRUE
            /\ events' = events \o <<Opened>> \o (IF closed THEN <<>> ELSE pending)
            /\ pending' = IF closed THEN pending ELSE <<>>
    /\ UNCHANGED <<ready, closed, tracked, connection, closeStarted, sendVars,
                   nativeVars>>

\* Mutant: a message is dispatched whatever was dispatched before.
MutOnMessage ==
    /\ Runs("message")
    /\ permits' = permits + 1
    /\ events' = Append(events, Head(chan))
    /\ UNCHANGED <<ready, closed, tracked, pending, flagVars, sendVars,
                   connVars, readVars, evq, dispatcher, emitted, taskVars>>

\* Mutant: the closure keeps its permit.
MutOnMessageKeepsPermit ==
    /\ Runs("message")
    /\ IF closed
       THEN UNCHANGED <<pending, events>>
       ELSE IF ~opened /\ ready = "OPEN"
            THEN pending' = Append(pending, Head(chan)) /\ UNCHANGED events
            ELSE events' = Append(events, Head(chan)) /\ UNCHANGED pending
    /\ UNCHANGED <<ready, closed, tracked, flagVars, sendVars, connVars,
                   readVars, pumpVars, taskVars>>

\* handleNativeMessage.  The closure drops its permit when it has run.
OnMessage ==
    /\ Runs("message")
    /\ permits' = permits + 1
    /\ IF closed
       THEN UNCHANGED <<pending, events>>
       ELSE IF ~opened /\ ready = "OPEN"
            THEN pending' = Append(pending, Head(chan)) /\ UNCHANGED events
            ELSE events' = Append(events, Head(chan)) /\ UNCHANGED pending
    /\ UNCHANGED <<ready, closed, tracked, flagVars, sendVars, connVars,
                   readVars, evq, dispatcher, emitted, taskVars>>

\* handleNativeError: whatever the state of the socket.
OnError ==
    /\ Runs("error")
    /\ events' = Append(events, Error)
    /\ UNCHANGED <<ready, closed, tracked, pending, flagVars, sendVars,
                   connVars, readVars, pumpVars, taskVars>>

\* handleNativeClose.
OnClose ==
    /\ Runs("close")
    /\ FinalizeClosed(<<>>)
    /\ UNCHANGED <<flagVars, sendVars, connVars, readVars, pumpVars, taskVars>>

\* close() by the caller, or by Symbol.dispose, in the constructor's socket
\* before it is connected: it takes effect when the connect promise settles.
CloseEarly ==
    /\ native # "idle"
    /\ ready = "CONNECTING"
    /\ ready' = "CLOSING"
    /\ UNCHANGED <<closed, tracked, pending, events, flagVars, sendVars,
                   nativeVars>>

CloseOpen ==
    /\ ready = "OPEN"
    /\ registered
    /\ ready' = "CLOSING"
    /\ StartNativeClose
    /\ UNCHANGED <<closed, tracked, pending, events, connection, opened,
                   openQueued, sendVars, connVars, readVars, pumpVars,
                   sendTask, wire, chan>>

\* The dispatcher has removed the connection: websocketClose throws, and so
\* does close(), with readyState left at CLOSING.
CloseThrows ==
    /\ ready = "OPEN"
    /\ ~registered
    /\ ready' = "CLOSING"
    /\ closeStarted' = TRUE
    /\ UNCHANGED <<closed, tracked, pending, events, connection, opened,
                   openQueued, sendVars, nativeVars>>

\* The promise of websocketClose settles; a rejection ends the socket.
CloseReplied ==
    /\ \/ Runs("closeOk") /\ UNCHANGED finalVars
       \/ Runs("closeFailed") /\ FinalizeClosed(<<Error>>)
    /\ UNCHANGED <<flagVars, sendVars, connVars, readVars, pumpVars, taskVars>>

\* Mutant: the send overtakes those before it.
MutSendCalled ==
    /\ ready = "OPEN"
    /\ connection
    /\ accepted < MaxSends
    /\ accepted' = accepted + 1
    /\ sendChain' = <<accepted + 1>> \o sendChain
    /\ UNCHANGED <<finalVars, flagVars, nativeVars>>

\* send() is accepted: its task is chained behind the sends before it.
SendCalled ==
    /\ ready = "OPEN"
    /\ connection
    /\ accepted < MaxSends
    /\ accepted' = accepted + 1
    /\ sendChain' = Append(sendChain, accepted + 1)
    /\ UNCHANGED <<finalVars, flagVars, nativeVars>>

\* The task at the head of the chain calls websocketSend.
StartSend ==
    /\ sendChain # <<>>
    /\ sendTask = "none"
    /\ registered
    /\ sendTask' = "running"
    /\ UNCHANGED <<jsVars, connVars, readVars, pumpVars, closeTask, wire,
                   chan>>

\* The payload cannot be read (a Blob), or the connection is not registered:
\* the task fails before any native task is spawned.
StartSendFails ==
    /\ sendChain # <<>>
    /\ sendTask = "none"
    /\ sendChain' = Tail(sendChain)
    /\ FinalizeClosed(<<Error>>)
    /\ UNCHANGED <<flagVars, accepted, nativeVars>>

\* The promise of websocketSend settles; a rejection ends the socket.
SendReplied ==
    /\ \/ Runs("sendOk") /\ UNCHANGED finalVars
       \/ Runs("sendFailed") /\ FinalizeClosed(<<Error>>)
    /\ sendChain' = Tail(sendChain)
    /\ sendTask' = "none"
    /\ UNCHANGED <<flagVars, accepted, connVars, readVars, pumpVars, closeTask,
                   wire>>

-----------------------------------------------------------------------------
(* The native tasks.                                                       *)

\* The upgrade fails.
UpgradeFails ==
    /\ native = "connecting"
    /\ native' = "settled"
    /\ chan' = Append(chan, Plain("refused"))
    /\ UNCHANGED <<jsVars, registered, readVars, pumpVars, taskVars>>

\* The upgrade succeeds: setup_ws_callbacks stores the connection and starts
\* its two tasks before the promise is settled.
Upgrade ==
    /\ native = "connecting"
    /\ native' = "upgraded"
    /\ registered' = TRUE
    /\ receiver' = "reading"
    /\ dispatcher' = "running"
    /\ UNCHANGED <<jsVars, hand, received, evq, emitted, permits, taskVars,
                   chan>>

SettleConnect ==
    /\ native = "upgraded"
    /\ native' = "settled"
    /\ chan' = Append(chan, Plain("connected"))
    /\ UNCHANGED <<jsVars, registered, readVars, pumpVars, taskVars>>

\* The receiver reads again only when it has queued what it read before.
ReceiverReads == receiver = "reading" /\ hand = <<>>

ReadMessage ==
    /\ ReceiverReads
    /\ received < MaxMessages
    /\ received' = received + 1
    /\ hand' = <<Message(received + 1)>>
    /\ UNCHANGED <<jsVars, connVars, receiver, pumpVars, taskVars, chan>>

\* A Close frame, or the end of the stream.
ReadClose ==
    /\ ReceiverReads
    /\ receiver' = "stopping"
    /\ hand' = <<Close>>
    /\ UNCHANGED <<jsVars, connVars, received, pumpVars, taskVars, chan>>

\* An error of the connection or of the protocol.
ReadError ==
    /\ ReceiverReads
    /\ receiver' = "stopping"
    /\ hand' = <<Error, Close>>
    /\ UNCHANGED <<jsVars, connVars, received, pumpVars, taskVars, chan>>

\* receiver_tx.send: waits while the queue is full.
Queue ==
    /\ hand # <<>>
    /\ Len(evq) < Buffer
    /\ evq' = Append(evq, Head(hand))
    /\ hand' = Tail(hand)
    /\ UNCHANGED <<jsVars, connVars, receiver, received, dispatcher, emitted,
                   permits, taskVars, chan>>

ReceiverEnds ==
    /\ receiver = "stopping"
    /\ hand = <<>>
    /\ receiver' = "ended"
    /\ UNCHANGED <<jsVars, connVars, hand, received, pumpVars, taskVars, chan>>

\* Mutant: no permit is acquired.
MutEmitMessage ==
    /\ dispatcher = "running"
    /\ evq # <<>>
    /\ IsMessage(Head(evq))
    /\ evq' = Tail(evq)
    /\ chan' = Append(chan, Head(evq))
    /\ UNCHANGED <<jsVars, connVars, readVars, dispatcher, emitted, permits,
                   taskVars>>

\* The dispatcher takes a message and waits for a permit; the slot it holds
\* meanwhile is counted as one of the queue.
EmitMessage ==
    /\ dispatcher = "running"
    /\ evq # <<>>
    /\ IsMessage(Head(evq))
    /\ permits > 0
    /\ permits' = permits - 1
    /\ evq' = Tail(evq)
    /\ chan' = Append(chan, Head(evq))
    /\ UNCHANGED <<jsVars, connVars, readVars, dispatcher, emitted, taskVars>>

EmitError ==
    /\ dispatcher = "running"
    /\ evq # <<>>
    /\ Head(evq) = Error
    /\ evq' = Tail(evq)
    /\ chan' = Append(chan, Error)
    /\ UNCHANGED <<jsVars, connVars, readVars, dispatcher, emitted, permits,
                   taskVars>>

\* Mutant: close_emitted is set before it is tested.
MutEmitClose ==
    /\ dispatcher = "running"
    /\ evq # <<>>
    /\ Head(evq) = Close
    /\ evq' = Tail(evq)
    /\ emitted' = TRUE
    /\ UNCHANGED <<jsVars, connVars, readVars, dispatcher, permits, taskVars,
                   chan>>

EmitClose ==
    /\ dispatcher = "running"
    /\ evq # <<>>
    /\ Head(evq) = Close
    /\ evq' = Tail(evq)
    /\ chan' = IF emitted THEN chan ELSE Append(chan, Close)
    /\ emitted' = TRUE
    /\ UNCHANGED <<jsVars, connVars, readVars, dispatcher, permits, taskVars>>

\* The queue is empty and its sender gone.
DispatcherEnds ==
    /\ dispatcher = "running"
    /\ receiver = "ended"
    /\ evq = <<>>
    /\ dispatcher' = "ended"
    /\ chan' = IF emitted THEN chan ELSE Append(chan, Close)
    /\ registered' = FALSE
    /\ UNCHANGED <<jsVars, native, readVars, evq, emitted, permits, taskVars>>

\* The task of websocketSend writes its frame, unless a Close frame went out
\* before or the socket fails.
WriteMessage ==
    /\ sendTask = "running"
    /\ sendTask' = "replying"
    /\ \/ /\ ~Contains(wire, CloseFrame)
          /\ wire' = Append(wire, Head(sendChain))
          /\ chan' = Append(chan, Plain("sendOk"))
       \/ /\ UNCHANGED wire
          /\ chan' = Append(chan, Plain("sendFailed"))
    /\ UNCHANGED <<jsVars, connVars, readVars, pumpVars, closeTask>>

\* The task of websocketClose writes a Close frame or fails to.
WriteClose ==
    /\ closeTask = "running"
    /\ \/ /\ closeTask' = "closeOk"
          /\ wire' = Append(wire, CloseFrame)
       \/ /\ closeTask' = "closeFailed"
          /\ UNCHANGED wire
    /\ UNCHANGED <<jsVars, connVars, readVars, pumpVars, sendTask, chan>>

\* Mutant: an error returns before the connection is removed.
MutReplyClose ==
    /\ closeTask \in {"closeOk", "closeFailed"}
    /\ closeTask' = "done"
    /\ registered' = (registered /\ closeTask = "closeFailed")
    /\ chan' = Append(chan, Plain(closeTask))
    /\ UNCHANGED <<jsVars, native, readVars, pumpVars, sendTask, wire>>

\* In both cases it removes the connection, then settles its promise.
ReplyClose ==
    /\ closeTask \in {"closeOk", "closeFailed"}
    /\ closeTask' = "done"
    /\ registered' = FALSE
    /\ chan' = Append(chan, Plain(closeTask))
    /\ UNCHANGED <<jsVars, native, readVars, pumpVars, sendTask, wire>>

-----------------------------------------------------------------------------

UserStep ==
    \/ Connect \/ ConnectThrows
    \/ CloseEarly \/ CloseOpen \/ CloseThrows
    \/ SendCalled

EventLoop ==
    \/ Connected \/ ConnectedClosing \/ ConnectedTooLate \/ Refused
    \/ OnMessage \/ OnError \/ OnClose
    \/ CloseReplied \/ SendReplied

MicroTask == DispatchOpen \/ StartSend \/ StartSendFails

Peer == Upgrade \/ UpgradeFails \/ ReadMessage \/ ReadClose \/ ReadError

NativeStep ==
    \/ SettleConnect
    \/ Queue \/ ReceiverEnds
    \/ EmitMessage \/ EmitError \/ EmitClose \/ DispatcherEnds
    \/ WriteMessage \/ WriteClose \/ ReplyClose

Next == UserStep \/ EventLoop \/ MicroTask \/ Peer \/ NativeStep

Spec == Init /\ [][Next]_vars

\* The event loop runs its closures and microtasks, tokio runs its tasks.
Fairness ==
    /\ WF_vars(EventLoop)
    /\ WF_vars(DispatchOpen)
    /\ WF_vars(StartSend \/ StartSendFails)
    /\ WF_vars(SettleConnect)
    /\ WF_vars(Queue \/ ReceiverEnds)
    /\ WF_vars(EmitMessage \/ EmitError \/ EmitClose \/ DispatcherEnds)
    /\ WF_vars(WriteMessage)
    /\ WF_vars(WriteClose \/ ReplyClose)

\* A peer that answers: the upgrade ends, and so does the stream once the
\* peer has our Close frame.  The code has no timeout of its own for either.
PeerFairness ==
    /\ WF_vars(Upgrade \/ UpgradeFails)
    /\ WF_vars(Contains(wire, CloseFrame) /\ (ReadClose \/ ReadError))

FairSpec == Spec /\ Fairness

-----------------------------------------------------------------------------
(* What makes it correct.                                                  *)

TypeOK ==
    /\ ready \in ReadyState
    /\ {connection, opened, openQueued, closed, closeStarted, tracked,
        registered, emitted} \subseteq BOOLEAN
    /\ pending \in Seq(Entry({}))
    /\ sendChain \in Seq(1..MaxSends)
    /\ accepted \in 0..MaxSends
    /\ events \in Seq(Event)
    /\ native \in {"idle", "connecting", "upgraded", "settled"}
    /\ receiver \in {"none", "reading", "stopping", "ended"}
    /\ hand \in Seq(Queued)
    /\ received \in 0..MaxMessages
    /\ evq \in Seq(Queued)
    /\ dispatcher \in {"none", "running", "ended"}
    /\ permits \in Int
    /\ sendTask \in {"none", "running", "replying"}
    /\ closeTask \in {"none", "running", "closeOk", "closeFailed", "done"}
    /\ wire \in Seq({CloseFrame} \cup 1..MaxSends)
    /\ chan \in Seq(Closure)

\* While no close event was dispatched, the messages the listeners saw, those
\* held back for the open event and those still on their way are all the peer
\* sent, in its order.  The exception is a close() between the connect and the
\* open event: it drops the open event and with it what was held back.  Even
\* then, and after the close event, no message is seen twice or out of order.
Flow == events \o pending \o chan \o evq \o hand

MessagesInOrder ==
    /\ ~closed /\ (opened \/ ready # "CLOSING") =>
          InOrder(Flow) /\ Ids(Flow) = 1..received
    /\ InOrder(events)

\* finalizeClosed: after the close event there is no message event and no
\* second close event, whichever of the server, the caller, a failed send and
\* a failed close ended the socket.
QuietAfterClose ==
    \A i, j \in DOMAIN events :
        events[i] = Close /\ i < j => events[j] # Close /\ ~IsMessage(events[j])

\* Until its close event a socket has something that will bring one: the
\* connect attempt, the two native tasks, or a closure that is queued.
CloseGuaranteed ==
    ~closed =>
        \/ native \in {"idle", "connecting", "upgraded"}
        \/ dispatcher = "running"
        \/ \E i \in DOMAIN chan : chan[i].type \in {"refused", "close"}

\* A close() is carried out on the connection even when it came before the
\* connection, unless the native side has ended it already.
CloseReachesNative ==
    ready = "CLOSING" /\ connection /\ ~closed =>
        closeStarted /\ (closeTask # "none" \/ emitted)

\* A socket comes to its end: there is always something that brings the close
\* event, and what close() asked for is under way.
EndIsUnderWay == CloseGuaranteed /\ CloseReachesNative

\* The semaphore and the queue bound what a peer that sends faster than
\* JavaScript runs can make the process hold: every permit is free or belongs
\* to one queued message, and no path loses one.
BacklogBounded ==
    /\ permits >= 0
    /\ permits + Cardinality(Places(chan)) = Buffer
    /\ Len(evq) <= Buffer

\* _sendChain: data goes out in the order of the send() calls.
SendOrder ==
    \A i, j \in DOMAIN wire :
        i < j /\ wire[i] # CloseFrame /\ wire[j] # CloseFrame => wire[i] < wire[j]

\* Order is kept both ways.
InOrderBothWays == MessagesInOrder /\ SendOrder

\* A socket that ends gives up its entry of WS_CONNECTIONS or has native tasks
\* that are about to: except when a failed send ends it, which leaves an open
\* connection with neither.
ReleasedUnlessSendFails ==
    [][~closed /\ closed' /\ sendChain' = sendChain =>
          ~registered' \/ receiver' # "reading"]_vars

\* The end of the stream reaches the listeners and frees the connection,
\* whatever number of messages is queued in front of it.
EndOfStreamSeen ==
    receiver = "stopping" ~> closed /\ dispatcher = "ended" /\ ~registered

\* close() on a peer that answers leads to the close event.
CloseCompletes ==
    PeerFairness => (ready = "CLOSING" /\ ~closed ~> closed)

\* "readyState transitions OPEN -> CLOSING -> CLOSED": it never leaves CLOSED.
ClosedIsFinal == [][ready = "CLOSED" => ready' = "CLOSED"]_vars

\* The documented pair ws.send(...); ws.close(): what send() accepted goes out
\* before the Close frame.
SentBeforeClose ==
    [][~Contains(wire, CloseFrame) /\ Contains(wire', CloseFrame) =>
          \A n \in 1..accepted : Contains(wire, n)]_vars
=============================================================================
