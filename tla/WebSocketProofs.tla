--------------------------- MODULE WebSocketProofs ---------------------------
(***************************************************************************)
(* The end of a WebSocket and the order of its messages, for a queue of    *)
(* any size and any number of messages and sends.                          *)
(*                                                                         *)
(* The invariant WInv follows the end of the socket from the receiver      *)
(* through the queue, the dispatcher and the channel to finalizeClosed,    *)
(* and beside it the two native tasks send() and close() start.            *)
(* WayInOrder and SeenInOrder follow the messages on the same way, to the  *)
(* listeners or to the messages held back for the open event.              *)
(***************************************************************************)
EXTENDS WebSocket, Lists, TLAPS

\* The sequence holds something of one of the types.
Has(s, types) == \E i \in DOMAIN s : s[i].type \in types

IsSendReply(e) == e.type \in {"sendOk", "sendFailed"}

\* The connect task settles once; an upgraded connection has its two tasks,
\* and its entry until one of two tasks removes it.
Connecting ==
    /\ native \in {"idle", "connecting"} => dispatcher = "none"
    /\ native = "upgraded" => dispatcher # "none"
    /\ dispatcher = "none" <=> receiver = "none"
    /\ dispatcher = "none" => ~registered /\ closeTask = "none"
    /\ dispatcher # "none" =>
           registered \/ dispatcher = "ended" \/ closeTask = "done"
    /\ Has(chan, {"refused"}) => native = "settled" /\ dispatcher = "none"
    /\ Has(chan, {"connected"}) \/ connection => dispatcher # "none"
    /\ ready = "OPEN" => connection
    /\ ready = "CONNECTING" => ~connection

\* Each task replies once.
Replies ==
    /\ sendTask # "none" => Len(sendChain) > 0
    /\ Has(chan, {"sendOk", "sendFailed"}) => sendTask = "replying"
    /\ Has(chan, {"closeOk", "closeFailed"}) => closeTask = "done"
    /\ closeTask = "done" => ~registered

\* There is one send at a time.
OneSend ==
    \A i, j \in DOMAIN chan : IsSendReply(chan[i]) /\ IsSendReply(chan[j]) => i = j

\* The close event starts at the receiver and is lost nowhere.
Closing ==
    /\ receiver \in {"none", "reading"} =>
           /\ ~Has(hand, {"close"}) /\ ~Has(evq, {"close"})
           /\ ~Has(chan, {"close"}) /\ ~emitted
    /\ receiver = "ended" => hand = <<>>
    /\ receiver \in {"stopping", "ended"} =>
           Has(hand, {"close"}) \/ Has(evq, {"close"}) \/ emitted
    /\ emitted => closed \/ Has(chan, {"close"})
    /\ dispatcher = "ended" => emitted
    /\ closeStarted /\ ~closed => closeTask # "none" \/ emitted

\* CloseGuaranteed, told with Has.
Ends ==
    ~closed =>
        \/ native \in {"idle", "connecting", "upgraded"}
        \/ dispatcher = "running"
        \/ Has(chan, {"refused", "close"})

\* Before closed is set no listener saw the close event.
Quiet ==
    /\ ~closed => ~Has(events, {"close"})
    /\ QuietAfterClose

\* Every send that is not written yet comes after every frame that is.
Sends ==
    /\ \A i \in DOMAIN sendChain : sendChain[i] <= accepted
    /\ \A i, j \in DOMAIN sendChain : i < j => sendChain[i] < sendChain[j]
    /\ \A k \in DOMAIN wire : wire[k] <= accepted
    /\ \A k \in DOMAIN wire, i \in DOMAIN sendChain :
           \/ wire[k] < sendChain[i]
           \/ i = 1 /\ sendTask = "replying" /\ wire[k] = sendChain[i]
    /\ SendOrder

\* The inductive invariant.
WInv ==
    /\ TypeOK /\ Connecting /\ Replies /\ OneSend /\ Closing /\ Ends /\ CloseReachesNative
    /\ Quiet /\ Sends

\* Everything of S comes before everything of T.
Below(S, T) == \A m \in S, n \in T : m < n

\* The messages on their way from the receiver to JavaScript.
WayIds == Ids(chan) \cup Ids(evq) \cup Ids(hand)

\* They go through the hand, the queue and the channel without overtaking.
WayInOrder ==
    /\ InOrder(chan) /\ InOrder(evq) /\ InOrder(hand)
    /\ Below(Ids(chan), Ids(evq)) /\ Below(Ids(chan), Ids(hand)) /\ Below(Ids(evq), Ids(hand))
    /\ WayIds \subseteq 1..received

\* Messages that come now are held back for the open event.
Waiting == ready = "OPEN" /\ ~opened

\* What the listeners saw came before what is on its way; what is held back
\* stands between them as long as it can still be dispatched.  Nothing is lost
\* before the close event, except by a close() between the connect and the
\* open event.
SeenInOrder ==
    /\ InOrder(events) /\ InOrder(pending)
    /\ Ids(events) \subseteq 1..received /\ Ids(pending) \subseteq 1..received
    /\ Below(Ids(events), WayIds)
    /\ Waiting => Below(Ids(events), Ids(pending)) /\ Below(Ids(pending), WayIds)
    /\ pending # <<>> => ~opened /\ ~closed /\ ready \in {"OPEN", "CLOSING"}
    /\ ~closed /\ (opened \/ ready # "CLOSING") =>
           Ids(events) \cup Ids(pending) \cup WayIds = 1..received

\* Of two states s and t of a queue: t holds the same messages; message n behind
\* them; all but n at their head.
Keeps(s, t) == Ids(t) = Ids(s) /\ (InOrder(s) => InOrder(t))
Gains(s, t, n) ==
    /\ Ids(t) = Ids(s) \cup {n}
    /\ InOrder(s) /\ Below(Ids(s), {n}) => InOrder(t)
Gives(s, t, n) ==
    /\ Ids(s) = Ids(t) \cup {n}
    /\ InOrder(s) => InOrder(t) /\ Below({n}, Ids(t))

-----------------------------------------------------------------------------
(* What Has says of the channel and the queue as they move.                *)

\* A closure is queued.
LEMMA HasAppend ==
    ASSUME NEW S, NEW s \in Seq(S), NEW e, NEW types
    PROVE  Has(Append(s, e), types) <=> Has(s, types) \/ e.type \in types
<1>1. Has(s, types) => Has(Append(s, e), types)
  BY DEF Has
<1>2. e.type \in types => Has(Append(s, e), types)
  <2>1. Len(s) + 1 \in DOMAIN Append(s, e) /\ Append(s, e)[Len(s) + 1] = e
    OBVIOUS
  <2> QED
    BY <2>1 DEF Has
<1>3. Has(Append(s, e), types) => Has(s, types) \/ e.type \in types
  BY DEF Has
<1> QED
  BY <1>1, <1>2, <1>3

\* The closure at the head runs.
LEMMA HasTail ==
    ASSUME NEW S, NEW s \in Seq(S), s # <<>>, NEW types
    PROVE  Has(s, types) <=> Head(s).type \in types \/ Has(Tail(s), types)
<1>1. Has(s, types) => Head(s).type \in types \/ Has(Tail(s), types)
  <2> SUFFICES ASSUME NEW i \in DOMAIN s, s[i].type \in types, i # 1
               PROVE  Has(Tail(s), types)
    BY DEF Has
  <2>1. i - 1 \in DOMAIN Tail(s) /\ Tail(s)[i - 1] = s[i]
    OBVIOUS
  <2> QED
    BY <2>1 DEF Has
<1>2. Head(s).type \in types => Has(s, types)
  BY DEF Has
<1>3. Has(Tail(s), types) => Has(s, types)
  <2> SUFFICES ASSUME NEW i \in DOMAIN Tail(s), Tail(s)[i].type \in types
               PROVE  Has(s, types)
    BY DEF Has
  <2>1. i + 1 \in DOMAIN s /\ s[i + 1] = Tail(s)[i]
    OBVIOUS
  <2> QED
    BY <2>1 DEF Has
<1> QED
  BY <1>1, <1>2, <1>3

\* Nothing is in the empty sequence.
LEMMA HasNothing == \A types : ~Has(<<>>, types)
BY DEF Has

\* A close closure is one of the two that end the socket.
LEMMA HasMore == \A s : Has(s, {"close"}) => Has(s, {"refused", "close"})
BY DEF Has

\* The channel, the queue and the receiver's hand, by these two.
LEMMA ChanRuns ==
    TypeOK => \A type : Runs(type) =>
        /\ chan' \in Seq(Closure)
        /\ Head(chan) \in Closure /\ Head(chan).type = type
        /\ \A types : Has(chan, types) <=> type \in types \/ Has(chan', types)
<1> SUFFICES ASSUME TypeOK, NEW type, Runs(type)
             PROVE  /\ chan' \in Seq(Closure)
                    /\ Head(chan) \in Closure /\ Head(chan).type = type
                    /\ \A types : Has(chan, types) <=>
                                      type \in types \/ Has(chan', types)
  OBVIOUS
<1>1. chan \in Seq(Closure) /\ chan # <<>> /\ chan' = Tail(chan) /\ Head(chan).type = type
  BY DEF TypeOK, Runs
<1>2. chan' \in Seq(Closure) /\ Head(chan) \in Closure
  BY <1>1
<1> QED
  BY <1>1, <1>2, HasTail

\* A task queues a closure.
LEMMA ChanPush ==
    TypeOK => \A e, types :
        Has(Append(chan, e), types) <=> Has(chan, types) \/ e.type \in types
BY HasAppend DEF TypeOK

\* The receiver queues an event.
LEMMA EvqPush ==
    TypeOK => \A e, types :
        Has(Append(evq, e), types) <=> Has(evq, types) \/ e.type \in types
BY HasAppend DEF TypeOK

\* The dispatcher takes one.
LEMMA EvqPop ==
    TypeOK /\ evq # <<>> => \A types :
        Has(evq, types) <=> Head(evq).type \in types \/ Has(Tail(evq), types)
BY HasTail DEF TypeOK

\* The receiver queues what it has in hand.
LEMMA HandPop ==
    TypeOK /\ hand # <<>> => \A types :
        Has(hand, types) <=> Head(hand).type \in types \/ Has(Tail(hand), types)
BY HasTail DEF TypeOK

\* What the receiver takes from the socket.
LEMMA HandTakes ==
    /\ \A n, types : Has(<<Message(n)>>, types) <=> "message" \in types
    /\ Has(<<Close>>, {"close"})
    /\ Has(<<Error, Close>>, {"close"})
<1>1. ASSUME NEW n, NEW types
      PROVE  Has(<<Message(n)>>, types) <=> "message" \in types
  <2>1. DOMAIN <<Message(n)>> = {1} /\ <<Message(n)>>[1].type = "message"
    BY DEF Message
  <2> QED
    BY <2>1 DEF Has
<1>2. Has(<<Close>>, {"close"})
  <2>1. 1 \in DOMAIN <<Close>> /\ <<Close>>[1].type = "close"
    BY DEF Close, Plain
  <2> QED
    BY <2>1 DEF Has
<1>3. Has(<<Error, Close>>, {"close"})
  <2>1. 2 \in DOMAIN <<Error, Close>> /\ <<Error, Close>>[2].type = "close"
    BY DEF Close, Plain
  <2> QED
    BY <2>1 DEF Has
<1> QED
  BY <1>1, <1>2, <1>3

-----------------------------------------------------------------------------
(* Types.                                                                  *)

\* Which closures and events there are.
LEMMA EntryTypes ==
    /\ \A n \in 1..MaxMessages : Message(n) \in Entry({})
    /\ Entry({}) \subseteq Queued /\ Entry({}) \subseteq Event
    /\ Queued \subseteq Closure
    /\ Error \in Queued /\ Close \in Queued
    /\ Error \in Event /\ Close \in Event /\ Opened \in Event
    /\ \A t \in {"connected", "refused", "sendOk", "sendFailed", "closeOk",
                  "closeFailed"} : Plain(t) \in Closure
    /\ \A e \in Closure : e.type = "message" => e \in Entry({})
BY DEF Entry, Queued, Event, Closure, Error, Close, Opened, Plain, Message

\* finalizeClosed keeps the types.
LEMMA FinalizeTypes ==
    ASSUME TypeOK, NEW first \in Seq(Event), FinalizeClosed(first)
    PROVE  /\ events' \in Seq(Event)
           /\ closed' \in BOOLEAN /\ tracked' \in BOOLEAN
           /\ ready' \in ReadyState
           /\ pending' \in Seq(Entry({}))
<1>1. events \in Seq(Event) /\ closed \in BOOLEAN /\ tracked \in BOOLEAN
  BY DEF TypeOK
<1>2. (IF closed THEN <<>> ELSE <<Close>>) \in Seq(Event)
  BY EntryTypes
<1>3. events \o first \in Seq(Event)
  BY <1>1
<1>4. events' \in Seq(Event)
  BY <1>1, <1>2, <1>3 DEF FinalizeClosed
<1> QED
  BY <1>1, <1>4 DEF FinalizeClosed, TypeOK, ReadyState

\* OneSend as the channel moves: a closure runs, the last reply runs, another
\* closure is queued.
LEMMA TailOneSend == TypeOK /\ OneSend /\ chan # <<>> /\ chan' = Tail(chan) => OneSend'
<1> SUFFICES ASSUME TypeOK, OneSend, chan # <<>>, chan' = Tail(chan),
                    NEW i \in DOMAIN chan', NEW j \in DOMAIN chan',
                    IsSendReply(chan'[i]), IsSendReply(chan'[j])
             PROVE  i = j
  BY DEF OneSend, IsSendReply
<1>1. /\ i + 1 \in DOMAIN chan /\ chan'[i] = chan[i + 1]
      /\ j + 1 \in DOMAIN chan /\ chan'[j] = chan[j + 1]
      /\ i \in Int /\ j \in Int
  BY DEF TypeOK
<1> QED
  BY <1>1 DEF OneSend

\* The reply that runs is the only one.
LEMMA LastReply ==
    ASSUME TypeOK, OneSend, NEW type \in {"sendOk", "sendFailed"}, Runs(type)
    PROVE  ~Has(chan', {"sendOk", "sendFailed"})
<1> SUFFICES ASSUME NEW i \in DOMAIN chan', chan'[i].type \in {"sendOk", "sendFailed"}
             PROVE  FALSE
  BY DEF Has
<1>1. /\ i \in Int /\ i > 0
      /\ i + 1 \in DOMAIN chan /\ chan'[i] = chan[i + 1]
      /\ 1 \in DOMAIN chan /\ chan[1] = Head(chan)
  BY DEF TypeOK, Runs
<1>2. IsSendReply(chan[1]) /\ IsSendReply(chan[i + 1])
  BY <1>1 DEF Runs, IsSendReply
<1> QED
  BY <1>1, <1>2 DEF OneSend

\* Another closure than a reply is queued.
LEMMA PushOneSend ==
    ASSUME TypeOK, OneSend, NEW e, ~IsSendReply(e), chan' = chan \/ chan' = Append(chan, e)
    PROVE  OneSend'
<1>1. CASE chan' = chan
  BY <1>1 DEF OneSend, IsSendReply
<1>2. CASE chan' = Append(chan, e)
  <2>1. ASSUME NEW i \in DOMAIN chan', IsSendReply(chan'[i])
        PROVE  i \in DOMAIN chan /\ chan'[i] = chan[i]
    BY <1>2, <2>1 DEF TypeOK
  <2> QED
    BY <2>1 DEF OneSend, IsSendReply
<1> QED
  BY <1>1, <1>2

\* Every step keeps the types.
LEMMA StepTypes == WInv /\ [Next]_vars => TypeOK'
<1> SUFFICES ASSUME WInv, [Next]_vars PROVE TypeOK'
  OBVIOUS
<1> USE WebSocketAssumption
    DEF WInv, TypeOK, Replies, ReadyState, jsVars, nativeVars,
           finalVars, flagVars, sendVars, connVars, readVars, pumpVars, taskVars
<1>1. CASE Connect
  BY <1>1 DEF Connect
<1>2. CASE ConnectThrows
  <2>1. <<Error>> \in Seq(Event) /\ FinalizeClosed(<<Error>>)
    BY <1>2, EntryTypes DEF ConnectThrows
  <2> QED
    BY <1>2, <2>1, FinalizeTypes DEF ConnectThrows
<1>3. CASE Connected
  BY <1>3, ChanRuns DEF Connected
<1>4. CASE ConnectedClosing
  BY <1>4, ChanRuns DEF ConnectedClosing, StartNativeClose
<1>5. CASE ConnectedTooLate
  <2>1. <<Error>> \in Seq(Event) /\ FinalizeClosed(<<Error>>)
    BY <1>5, EntryTypes DEF ConnectedTooLate
  <2> QED
    BY ZenonT(40), <1>5, <2>1, FinalizeTypes, ChanRuns DEF ConnectedTooLate
<1>6. CASE Refused
  <2>1. <<Error>> \in Seq(Event) /\ FinalizeClosed(<<Error>>)
    BY <1>6, EntryTypes DEF Refused
  <2> QED
    BY ZenonT(40), <1>6, <2>1, FinalizeTypes, ChanRuns DEF Refused
<1>7. CASE DispatchOpen
  <2>1. events \o <<Opened>> \o (IF closed THEN <<>> ELSE pending) \in Seq(Event)
    <3>1. pending \in Seq(Event) /\ <<Opened>> \in Seq(Event)
      BY EntryTypes
    <3> QED
      BY <3>1
  <2>2. (IF closed THEN pending ELSE <<>>) \in Seq(Entry({}))
    OBVIOUS
  <2> QED
    BY ZenonT(40), <1>7, <2>1, <2>2 DEF DispatchOpen
<1>8. CASE OnMessage
  <2>1. chan' \in Seq(Closure) /\ Head(chan) \in Entry({}) /\ Head(chan) \in Event
    BY <1>8, ChanRuns, EntryTypes DEF OnMessage
  <2>2. /\ Append(pending, Head(chan)) \in Seq(Entry({}))
        /\ Append(events, Head(chan)) \in Seq(Event)
    BY <2>1
  <2>3. /\ pending' \in Seq(Entry({}))
        /\ events' \in Seq(Event)
    BY <1>8, <2>2 DEF OnMessage
  <2> QED
    BY <1>8, <2>1, <2>3 DEF OnMessage
<1>9. CASE OnError
  BY <1>9, ChanRuns, EntryTypes DEF OnError
<1>10. CASE OnClose
  <2>1. <<>> \in Seq(Event) /\ FinalizeClosed(<<>>)
    BY <1>10, EntryTypes DEF OnClose
  <2> QED
    BY ZenonT(40), <1>10, <2>1, FinalizeTypes, ChanRuns DEF OnClose
<1>11. CASE CloseEarly
  BY <1>11 DEF CloseEarly
<1>12. CASE CloseOpen
  BY <1>12 DEF CloseOpen, StartNativeClose
<1>13. CASE CloseThrows
  BY <1>13 DEF CloseThrows
<1>14. CASE CloseReplied
  <2>1. CASE Runs("closeOk") /\ UNCHANGED finalVars
    BY <1>14, <2>1, ChanRuns DEF CloseReplied
  <2>2. CASE Runs("closeFailed") /\ FinalizeClosed(<<Error>>)
    <3>1. <<Error>> \in Seq(Event)
      BY EntryTypes
    <3> QED
      BY ZenonT(40), <1>14, <2>2, <3>1, FinalizeTypes, ChanRuns DEF CloseReplied
  <2> QED
    BY <1>14, <2>1, <2>2 DEF CloseReplied
<1>15. CASE SendCalled
  BY <1>15 DEF SendCalled
<1>16. CASE StartSend
  BY <1>16 DEF StartSend
<1>17. CASE StartSendFails
  <2>1. <<Error>> \in Seq(Event) /\ Tail(sendChain) \in Seq(1..MaxSends)
    BY <1>17, EntryTypes DEF StartSendFails
  <2> QED
    BY <1>17, <2>1, FinalizeTypes DEF StartSendFails
<1>18. CASE SendReplied
  <2>1. sendChain # <<>> /\ Tail(sendChain) \in Seq(1..MaxSends)
    <3>1. Has(chan, {"sendOk", "sendFailed"})
      BY <1>18, ChanRuns DEF SendReplied
    <3> QED
      BY <3>1
  <2>2. CASE Runs("sendOk") /\ UNCHANGED finalVars
    BY <1>18, <2>1, <2>2, ChanRuns DEF SendReplied
  <2>3. CASE Runs("sendFailed") /\ FinalizeClosed(<<Error>>)
    <3>1. <<Error>> \in Seq(Event)
      BY EntryTypes
    <3> QED
      BY <1>18, <2>1, <2>3, <3>1, FinalizeTypes, ChanRuns DEF SendReplied
  <2> QED
    BY <1>18, <2>2, <2>3 DEF SendReplied
<1>19. CASE UpgradeFails
  BY <1>19, EntryTypes DEF UpgradeFails
<1>20. CASE Upgrade
  BY <1>20 DEF Upgrade
<1>21. CASE SettleConnect
  BY <1>21, EntryTypes DEF SettleConnect
<1>22. CASE ReadMessage
  <2>1. received + 1 \in 1..MaxMessages
    BY <1>22 DEF ReadMessage
  <2>2. <<Message(received + 1)>> \in Seq(Queued)
    BY <2>1, EntryTypes
  <2> QED
    BY <1>22, <2>1, <2>2 DEF ReadMessage
<1>23. CASE ReadClose
  BY <1>23, EntryTypes DEF ReadClose, ReceiverReads
<1>24. CASE ReadError
  BY <1>24, EntryTypes DEF ReadError, ReceiverReads
<1>25. CASE Queue
  BY <1>25, EntryTypes DEF Queue
<1>26. CASE ReceiverEnds
  BY <1>26 DEF ReceiverEnds
<1>27. CASE EmitMessage
  BY <1>27, EntryTypes DEF EmitMessage, IsMessage
<1>28. CASE EmitError
  BY <1>28, EntryTypes DEF EmitError
<1>29. CASE EmitClose
  BY <1>29, EntryTypes DEF EmitClose
<1>30. CASE DispatcherEnds
  <2>1. Append(chan, Close) \in Seq(Closure)
    BY EntryTypes
  <2> QED
    BY <1>30, <2>1 DEF DispatcherEnds
<1>31. CASE WriteMessage
  <2>1. Head(sendChain) \in 1..MaxSends
    BY <1>31 DEF WriteMessage
  <2>2. Append(wire, Head(sendChain)) \in Seq({CloseFrame} \cup 1..MaxSends)
    BY <2>1
  <2>3. /\ Append(chan, Plain("sendOk")) \in Seq(Closure)
        /\ Append(chan, Plain("sendFailed")) \in Seq(Closure)
    BY EntryTypes
  <2> QED
    BY ZenonT(40), <1>31, <2>2, <2>3 DEF WriteMessage
<1>32. CASE WriteClose
  <2>1. Append(wire, CloseFrame) \in Seq({CloseFrame} \cup 1..MaxSends)
    OBVIOUS
  <2> QED
    BY <1>32, <2>1 DEF WriteClose
<1>33. CASE ReplyClose
  <2>1. Append(chan, Plain(closeTask)) \in Seq(Closure)
    BY <1>33, EntryTypes DEF ReplyClose
  <2> QED
    BY <1>33, <2>1 DEF ReplyClose
<1>34. CASE UNCHANGED vars
  BY <1>34 DEF vars
<1> QED
  BY <1>1, <1>2, <1>3, <1>4, <1>5, <1>6, <1>7, <1>8, <1>9, <1>10, <1>11,
     <1>12, <1>13, <1>14, <1>15, <1>16, <1>17, <1>18, <1>19, <1>20, <1>21,
     <1>22, <1>23, <1>24, <1>25, <1>26, <1>27, <1>28, <1>29, <1>30, <1>31,
     <1>32, <1>33, <1>34
     DEF Next, UserStep, EventLoop, MicroTask, Peer, NativeStep

\* The connection and its tasks come and go together.
LEMMA StepConnecting == WInv /\ [Next]_vars => Connecting'
<1> SUFFICES ASSUME WInv, [Next]_vars PROVE Connecting'
  OBVIOUS
<1> USE WebSocketAssumption
    DEF WInv, ReadyState, Connecting, Replies, Closing, Plain, Error, Close, jsVars, nativeVars,
           finalVars, flagVars, sendVars, connVars, readVars, pumpVars, taskVars
<1>0. /\ native \in {"idle", "connecting", "upgraded", "settled"}
      /\ receiver \in {"none", "reading", "stopping", "ended"}
      /\ dispatcher \in {"none", "running", "ended"}
      /\ sendTask \in {"none", "running", "replying"}
      /\ closeTask \in {"none", "running", "closeOk", "closeFailed", "done"}
      /\ ready \in ReadyState
  BY DEF TypeOK
<1>1. CASE Connect
  BY <1>0, <1>1 DEF Connect
<1>2. CASE ConnectThrows
  BY <1>0, <1>2 DEF ConnectThrows, FinalizeClosed
<1>3. CASE Connected
  BY <1>0, <1>3, ChanRuns DEF Connected
<1>4. CASE ConnectedClosing
  BY <1>0, <1>4, ChanRuns DEF ConnectedClosing, StartNativeClose
<1>5. CASE ConnectedTooLate
  BY <1>0, <1>5, ChanRuns DEF ConnectedTooLate, FinalizeClosed
<1>6. CASE Refused
  BY <1>0, <1>6, ChanRuns DEF Refused, FinalizeClosed
<1>7. CASE DispatchOpen
  BY <1>0, <1>7 DEF DispatchOpen
<1>8. CASE OnMessage
  BY <1>0, <1>8, ChanRuns DEF OnMessage
<1>9. CASE OnError
  BY <1>0, <1>9, ChanRuns DEF OnError
<1>10. CASE OnClose
  BY <1>0, <1>10, ChanRuns DEF OnClose, FinalizeClosed
<1>11. CASE CloseEarly
  BY <1>0, <1>11 DEF CloseEarly
<1>12. CASE CloseOpen
  BY <1>0, <1>12 DEF CloseOpen, StartNativeClose
<1>13. CASE CloseThrows
  BY <1>0, <1>13 DEF CloseThrows
<1>14. CASE CloseReplied
  <2>1. CASE Runs("closeOk") /\ UNCHANGED finalVars
    BY <1>0, <1>14, <2>1, ChanRuns DEF CloseReplied
  <2>2. CASE Runs("closeFailed") /\ FinalizeClosed(<<Error>>)
    BY <1>0, <1>14, <2>2, ChanRuns DEF CloseReplied, FinalizeClosed
  <2> QED
    BY <1>0, <1>14, <2>1, <2>2 DEF CloseReplied
<1>15. CASE SendCalled
  BY <1>0, <1>15 DEF SendCalled
<1>16. CASE StartSend
  BY <1>0, <1>16 DEF StartSend
<1>17. CASE StartSendFails
  BY <1>0, <1>17 DEF StartSendFails, FinalizeClosed
<1>18. CASE SendReplied
  <2>1. CASE Runs("sendOk") /\ UNCHANGED finalVars
    BY <1>0, <1>18, <2>1, ChanRuns DEF SendReplied
  <2>2. CASE Runs("sendFailed") /\ FinalizeClosed(<<Error>>)
    BY <1>0, <1>18, <2>2, ChanRuns DEF SendReplied, FinalizeClosed
  <2> QED
    BY <1>0, <1>18, <2>1, <2>2 DEF SendReplied
<1>19. CASE UpgradeFails
  BY <1>0, <1>19, ChanPush DEF UpgradeFails
<1>20. CASE Upgrade
  BY <1>0, <1>20 DEF Upgrade
<1>21. CASE SettleConnect
  BY <1>0, <1>21, ChanPush DEF SettleConnect
<1>22. CASE ReadMessage
  BY <1>0, <1>22 DEF ReadMessage, ReceiverReads
<1>23. CASE ReadClose
  BY <1>0, <1>23 DEF ReadClose, ReceiverReads
<1>24. CASE ReadError
  BY <1>0, <1>24 DEF ReadError, ReceiverReads
<1>25. CASE Queue
  BY <1>0, <1>25 DEF Queue
<1>26. CASE ReceiverEnds
  BY <1>0, <1>26 DEF ReceiverEnds
<1>27. CASE EmitMessage
  BY <1>0, <1>27, ChanPush DEF EmitMessage, IsMessage
<1>28. CASE EmitError
  BY <1>0, <1>28, ChanPush DEF EmitError
<1>29. CASE EmitClose
  BY <1>0, <1>29, ChanPush DEF EmitClose
<1>30. CASE DispatcherEnds
  BY <1>0, <1>30, ChanPush DEF DispatcherEnds
<1>31. CASE WriteMessage
  <2>1. PICK reply \in {"sendOk", "sendFailed"} : chan' = Append(chan, Plain(reply))
    BY <1>0, <1>31 DEF WriteMessage
  <2>2. \A types : Has(chan', types) <=> Has(chan, types) \/ reply \in types
    BY <2>1, ChanPush DEF Plain
  <2>3. /\ sendTask = "running" /\ sendTask' = "replying"
        /\ UNCHANGED <<jsVars, connVars, readVars, pumpVars, closeTask>>
    BY <1>0, <1>31 DEF WriteMessage
  <2> QED
    BY <2>2, <2>3
<1>32. CASE WriteClose
  BY <1>0, <1>32 DEF WriteClose
<1>33. CASE ReplyClose
  BY <1>0, <1>33, ChanPush DEF ReplyClose
<1>34. CASE UNCHANGED vars
  BY <1>34 DEF vars
<1> QED
  BY <1>1, <1>2, <1>3, <1>4, <1>5, <1>6, <1>7, <1>8, <1>9, <1>10, <1>11,
     <1>12, <1>13, <1>14, <1>15, <1>16, <1>17, <1>18, <1>19, <1>20, <1>21,
     <1>22, <1>23, <1>24, <1>25, <1>26, <1>27, <1>28, <1>29, <1>30, <1>31,
     <1>32, <1>33, <1>34
     DEF Next, UserStep, EventLoop, MicroTask, Peer, NativeStep

\* No task replies twice.
LEMMA StepReplies == WInv /\ [Next]_vars => Replies'
<1> SUFFICES ASSUME WInv, [Next]_vars PROVE Replies'
  OBVIOUS
<1> USE WebSocketAssumption
    DEF WInv, ReadyState, Connecting, Replies, Plain, Error, Close, jsVars, nativeVars,
           finalVars, flagVars, sendVars, connVars, readVars, pumpVars, taskVars
<1>0. /\ native \in {"idle", "connecting", "upgraded", "settled"}
      /\ receiver \in {"none", "reading", "stopping", "ended"}
      /\ dispatcher \in {"none", "running", "ended"}
      /\ sendTask \in {"none", "running", "replying"}
      /\ closeTask \in {"none", "running", "closeOk", "closeFailed", "done"}
      /\ ready \in ReadyState
  BY DEF TypeOK
<1>1. CASE Connect
  BY <1>0, <1>1 DEF Connect
<1>2. CASE ConnectThrows
  BY <1>0, <1>2 DEF ConnectThrows, FinalizeClosed
<1>3. CASE Connected
  BY <1>0, <1>3, ChanRuns DEF Connected
<1>4. CASE ConnectedClosing
  BY <1>0, <1>4, ChanRuns DEF ConnectedClosing, StartNativeClose
<1>5. CASE ConnectedTooLate
  BY <1>0, <1>5, ChanRuns DEF ConnectedTooLate, FinalizeClosed
<1>6. CASE Refused
  BY <1>0, <1>6, ChanRuns DEF Refused, FinalizeClosed
<1>7. CASE DispatchOpen
  BY <1>0, <1>7 DEF DispatchOpen
<1>8. CASE OnMessage
  BY <1>0, <1>8, ChanRuns DEF OnMessage
<1>9. CASE OnError
  BY <1>0, <1>9, ChanRuns DEF OnError
<1>10. CASE OnClose
  BY <1>0, <1>10, ChanRuns DEF OnClose, FinalizeClosed
<1>11. CASE CloseEarly
  BY <1>0, <1>11 DEF CloseEarly
<1>12. CASE CloseOpen
  BY <1>0, <1>12 DEF CloseOpen, StartNativeClose
<1>13. CASE CloseThrows
  BY <1>0, <1>13 DEF CloseThrows
<1>14. CASE CloseReplied
  <2>1. CASE Runs("closeOk") /\ UNCHANGED finalVars
    BY <1>0, <1>14, <2>1, ChanRuns DEF CloseReplied
  <2>2. CASE Runs("closeFailed") /\ FinalizeClosed(<<Error>>)
    BY <1>0, <1>14, <2>2, ChanRuns DEF CloseReplied, FinalizeClosed
  <2> QED
    BY <1>0, <1>14, <2>1, <2>2 DEF CloseReplied
<1>15. CASE SendCalled
  BY <1>0, <1>15 DEF SendCalled
<1>16. CASE StartSend
  BY <1>0, <1>16 DEF StartSend
<1>17. CASE StartSendFails
  BY <1>0, <1>17 DEF StartSendFails, FinalizeClosed
<1>18. CASE SendReplied
  <2>1. CASE Runs("sendOk") /\ UNCHANGED finalVars
    BY <1>0, <1>18, <2>1, ChanRuns, LastReply DEF SendReplied
  <2>2. CASE Runs("sendFailed") /\ FinalizeClosed(<<Error>>)
    BY <1>0, <1>18, <2>2, ChanRuns, LastReply DEF SendReplied, FinalizeClosed
  <2> QED
    BY <1>0, <1>18, <2>1, <2>2 DEF SendReplied
<1>19. CASE UpgradeFails
  BY <1>0, <1>19, ChanPush DEF UpgradeFails
<1>20. CASE Upgrade
  BY <1>0, <1>20 DEF Upgrade
<1>21. CASE SettleConnect
  BY <1>0, <1>21, ChanPush DEF SettleConnect
<1>22. CASE ReadMessage
  BY <1>0, <1>22 DEF ReadMessage, ReceiverReads
<1>23. CASE ReadClose
  BY <1>0, <1>23 DEF ReadClose, ReceiverReads
<1>24. CASE ReadError
  BY <1>0, <1>24 DEF ReadError, ReceiverReads
<1>25. CASE Queue
  BY <1>0, <1>25 DEF Queue
<1>26. CASE ReceiverEnds
  BY <1>0, <1>26 DEF ReceiverEnds
<1>27. CASE EmitMessage
  BY <1>0, <1>27, ChanPush DEF EmitMessage, IsMessage
<1>28. CASE EmitError
  BY <1>0, <1>28, ChanPush DEF EmitError
<1>29. CASE EmitClose
  BY <1>0, <1>29, ChanPush DEF EmitClose
<1>30. CASE DispatcherEnds
  <2>1. CASE emitted
    BY <1>0, <1>30, <2>1, HasMore DEF DispatcherEnds
  <2>2. CASE ~emitted
    BY <1>0, <1>30, <2>2, ChanPush, HasNothing DEF DispatcherEnds
  <2> QED
    BY <2>1, <2>2
<1>31. CASE WriteMessage
  <2>1. PICK reply \in {"sendOk", "sendFailed"} : chan' = Append(chan, Plain(reply))
    BY <1>0, <1>31 DEF WriteMessage
  <2>2. \A types : Has(chan', types) <=> Has(chan, types) \/ reply \in types
    BY <2>1, ChanPush DEF Plain
  <2>3. /\ sendTask = "running" /\ sendTask' = "replying"
        /\ UNCHANGED <<jsVars, connVars, readVars, pumpVars, closeTask>>
    BY <1>0, <1>31 DEF WriteMessage
  <2> QED
    BY <2>2, <2>3
<1>32. CASE WriteClose
  BY <1>0, <1>32 DEF WriteClose
<1>33. CASE ReplyClose
  BY <1>0, <1>33, ChanPush DEF ReplyClose
<1>34. CASE UNCHANGED vars
  BY <1>34 DEF vars
<1> QED
  BY <1>1, <1>2, <1>3, <1>4, <1>5, <1>6, <1>7, <1>8, <1>9, <1>10, <1>11,
     <1>12, <1>13, <1>14, <1>15, <1>16, <1>17, <1>18, <1>19, <1>20, <1>21,
     <1>22, <1>23, <1>24, <1>25, <1>26, <1>27, <1>28, <1>29, <1>30, <1>31,
     <1>32, <1>33, <1>34
     DEF Next, UserStep, EventLoop, MicroTask, Peer, NativeStep

\* The close event passes from the receiver to finalizeClosed.
LEMMA StepClosing == WInv /\ [Next]_vars => Closing'
<1> SUFFICES ASSUME WInv, [Next]_vars PROVE Closing'
  OBVIOUS
<1> USE WebSocketAssumption
    DEF WInv, ReadyState, Connecting, Replies, Closing, Plain, Error, Close, jsVars, nativeVars,
           finalVars, flagVars, sendVars, connVars, readVars, pumpVars, taskVars
<1>0. /\ native \in {"idle", "connecting", "upgraded", "settled"}
      /\ receiver \in {"none", "reading", "stopping", "ended"}
      /\ dispatcher \in {"none", "running", "ended"}
      /\ sendTask \in {"none", "running", "replying"}
      /\ closeTask \in {"none", "running", "closeOk", "closeFailed", "done"}
      /\ ready \in ReadyState
  BY DEF TypeOK
<1>1. CASE Connect
  BY <1>0, <1>1 DEF Connect
<1>2. CASE ConnectThrows
  BY <1>0, <1>2 DEF ConnectThrows, FinalizeClosed
<1>3. CASE Connected
  BY <1>0, <1>3, ChanRuns DEF Connected
<1>4. CASE ConnectedClosing
  BY <1>0, <1>4, ChanRuns DEF ConnectedClosing, StartNativeClose
<1>5. CASE ConnectedTooLate
  BY <1>0, <1>5, ChanRuns DEF ConnectedTooLate, FinalizeClosed
<1>6. CASE Refused
  BY <1>0, <1>6, ChanRuns DEF Refused, FinalizeClosed
<1>7. CASE DispatchOpen
  BY <1>0, <1>7 DEF DispatchOpen
<1>8. CASE OnMessage
  BY <1>0, <1>8, ChanRuns DEF OnMessage
<1>9. CASE OnError
  BY <1>0, <1>9, ChanRuns DEF OnError
<1>10. CASE OnClose
  BY <1>0, <1>10, ChanRuns DEF OnClose, FinalizeClosed
<1>11. CASE CloseEarly
  BY <1>0, <1>11 DEF CloseEarly
<1>12. CASE CloseOpen
  BY <1>0, <1>12 DEF CloseOpen, StartNativeClose
<1>13. CASE CloseThrows
  BY <1>0, <1>13 DEF CloseThrows
<1>14. CASE CloseReplied
  <2>1. CASE Runs("closeOk") /\ UNCHANGED finalVars
    BY <1>0, <1>14, <2>1, ChanRuns DEF CloseReplied
  <2>2. CASE Runs("closeFailed") /\ FinalizeClosed(<<Error>>)
    BY <1>0, <1>14, <2>2, ChanRuns DEF CloseReplied, FinalizeClosed
  <2> QED
    BY <1>0, <1>14, <2>1, <2>2 DEF CloseReplied
<1>15. CASE SendCalled
  BY <1>0, <1>15 DEF SendCalled
<1>16. CASE StartSend
  BY <1>0, <1>16 DEF StartSend
<1>17. CASE StartSendFails
  BY <1>0, <1>17 DEF StartSendFails, FinalizeClosed
<1>18. CASE SendReplied
  <2>1. CASE Runs("sendOk") /\ UNCHANGED finalVars
    BY <1>0, <1>18, <2>1, ChanRuns DEF SendReplied
  <2>2. CASE Runs("sendFailed") /\ FinalizeClosed(<<Error>>)
    BY <1>0, <1>18, <2>2, ChanRuns DEF SendReplied, FinalizeClosed
  <2> QED
    BY <1>0, <1>18, <2>1, <2>2 DEF SendReplied
<1>19. CASE UpgradeFails
  BY <1>0, <1>19, ChanPush DEF UpgradeFails
<1>20. CASE Upgrade
  BY <1>0, <1>20 DEF Upgrade
<1>21. CASE SettleConnect
  BY <1>0, <1>21, ChanPush DEF SettleConnect
<1>22. CASE ReadMessage
  BY <1>0, <1>22, HandTakes DEF ReadMessage, ReceiverReads
<1>23. CASE ReadClose
  BY <1>0, <1>23, HandTakes DEF ReadClose, ReceiverReads
<1>24. CASE ReadError
  BY <1>0, <1>24, HandTakes DEF ReadError, ReceiverReads
<1>25. CASE Queue
  BY <1>0, <1>25, EvqPush, HandPop, HasNothing DEF Queue
<1>26. CASE ReceiverEnds
  BY <1>0, <1>26 DEF ReceiverEnds
<1>27. CASE EmitMessage
  BY <1>0, <1>27, ChanPush, EvqPop DEF EmitMessage, IsMessage
<1>28. CASE EmitError
  BY <1>0, <1>28, ChanPush, EvqPop DEF EmitError
<1>29. CASE EmitClose
  BY <1>0, <1>29, ChanPush, EvqPop DEF EmitClose
<1>30. CASE DispatcherEnds
  <2>1. CASE emitted
    BY <1>0, <1>30, <2>1, HasMore DEF DispatcherEnds
  <2>2. CASE ~emitted
    BY <1>0, <1>30, <2>2, ChanPush, HasNothing DEF DispatcherEnds
  <2> QED
    BY <2>1, <2>2
<1>31. CASE WriteMessage
  <2>1. PICK reply \in {"sendOk", "sendFailed"} : chan' = Append(chan, Plain(reply))
    BY <1>0, <1>31 DEF WriteMessage
  <2>2. \A types : Has(chan', types) <=> Has(chan, types) \/ reply \in types
    BY <2>1, ChanPush DEF Plain
  <2>3. /\ sendTask = "running" /\ sendTask' = "replying"
        /\ UNCHANGED <<jsVars, connVars, readVars, pumpVars, closeTask>>
    BY <1>0, <1>31 DEF WriteMessage
  <2> QED
    BY <2>2, <2>3
<1>32. CASE WriteClose
  BY <1>0, <1>32 DEF WriteClose
<1>33. CASE ReplyClose
  BY <1>0, <1>33, ChanPush DEF ReplyClose
<1>34. CASE UNCHANGED vars
  BY <1>34 DEF vars
<1> QED
  BY <1>1, <1>2, <1>3, <1>4, <1>5, <1>6, <1>7, <1>8, <1>9, <1>10, <1>11,
     <1>12, <1>13, <1>14, <1>15, <1>16, <1>17, <1>18, <1>19, <1>20, <1>21,
     <1>22, <1>23, <1>24, <1>25, <1>26, <1>27, <1>28, <1>29, <1>30, <1>31,
     <1>32, <1>33, <1>34
     DEF Next, UserStep, EventLoop, MicroTask, Peer, NativeStep

\* Something always brings the close event.
LEMMA StepEnd == WInv /\ [Next]_vars => (Ends /\ CloseReachesNative)'
<1> SUFFICES ASSUME WInv, [Next]_vars PROVE (Ends /\ CloseReachesNative)'
  OBVIOUS
<1> USE WebSocketAssumption
    DEF WInv, ReadyState, Connecting, Replies, Closing, Ends, CloseReachesNative,
           Plain, Error, Close, jsVars, nativeVars,
           finalVars, flagVars, sendVars, connVars, readVars, pumpVars, taskVars
<1>0. /\ native \in {"idle", "connecting", "upgraded", "settled"}
      /\ receiver \in {"none", "reading", "stopping", "ended"}
      /\ dispatcher \in {"none", "running", "ended"}
      /\ sendTask \in {"none", "running", "replying"}
      /\ closeTask \in {"none", "running", "closeOk", "closeFailed", "done"}
      /\ ready \in ReadyState
  BY DEF TypeOK
<1>1. CASE Connect
  BY <1>0, <1>1 DEF Connect
<1>2. CASE ConnectThrows
  BY <1>0, <1>2 DEF ConnectThrows, FinalizeClosed
<1>3. CASE Connected
  BY <1>0, <1>3, ChanRuns DEF Connected
<1>4. CASE ConnectedClosing
  BY <1>0, <1>4, ChanRuns DEF ConnectedClosing, StartNativeClose
<1>5. CASE ConnectedTooLate
  BY <1>0, <1>5, ChanRuns DEF ConnectedTooLate, FinalizeClosed
<1>6. CASE Refused
  BY <1>0, <1>6, ChanRuns DEF Refused, FinalizeClosed
<1>7. CASE DispatchOpen
  BY <1>0, <1>7 DEF DispatchOpen
<1>8. CASE OnMessage
  BY <1>0, <1>8, ChanRuns DEF OnMessage
<1>9. CASE OnError
  BY <1>0, <1>9, ChanRuns DEF OnError
<1>10. CASE OnClose
  BY <1>0, <1>10, ChanRuns DEF OnClose, FinalizeClosed
<1>11. CASE CloseEarly
  BY <1>0, <1>11 DEF CloseEarly
<1>12. CASE CloseOpen
  BY <1>0, <1>12 DEF CloseOpen, StartNativeClose
<1>13. CASE CloseThrows
  BY <1>0, <1>13 DEF CloseThrows
<1>14. CASE CloseReplied
  <2>1. CASE Runs("closeOk") /\ UNCHANGED finalVars
    BY <1>0, <1>14, <2>1, ChanRuns DEF CloseReplied
  <2>2. CASE Runs("closeFailed") /\ FinalizeClosed(<<Error>>)
    BY <1>0, <1>14, <2>2, ChanRuns DEF CloseReplied, FinalizeClosed
  <2> QED
    BY <1>0, <1>14, <2>1, <2>2 DEF CloseReplied
<1>15. CASE SendCalled
  BY <1>0, <1>15 DEF SendCalled
<1>16. CASE StartSend
  BY <1>0, <1>16 DEF StartSend
<1>17. CASE StartSendFails
  BY <1>0, <1>17 DEF StartSendFails, FinalizeClosed
<1>18. CASE SendReplied
  <2>1. CASE Runs("sendOk") /\ UNCHANGED finalVars
    BY <1>0, <1>18, <2>1, ChanRuns DEF SendReplied
  <2>2. CASE Runs("sendFailed") /\ FinalizeClosed(<<Error>>)
    BY <1>0, <1>18, <2>2, ChanRuns DEF SendReplied, FinalizeClosed
  <2> QED
    BY <1>0, <1>18, <2>1, <2>2 DEF SendReplied
<1>19. CASE UpgradeFails
  BY <1>0, <1>19, ChanPush DEF UpgradeFails
<1>20. CASE Upgrade
  BY <1>0, <1>20 DEF Upgrade
<1>21. CASE SettleConnect
  <2>1. \A types : Has(chan', types) <=> Has(chan, types) \/ "connected" \in types
    BY <1>0, <1>21, ChanPush DEF SettleConnect, Plain
  <2>2. UNCHANGED <<jsVars, registered, readVars, pumpVars, taskVars>>
    BY <1>0, <1>21 DEF SettleConnect
  <2>3. dispatcher \in {"running", "ended"}
    BY <1>0, <1>21 DEF SettleConnect
  <2> QED
    BY <1>0, <1>21, <2>1, <2>2, <2>3, HasMore
<1>22. CASE ReadMessage
  BY <1>0, <1>22, HandTakes DEF ReadMessage, ReceiverReads
<1>23. CASE ReadClose
  BY <1>0, <1>23, HandTakes DEF ReadClose, ReceiverReads
<1>24. CASE ReadError
  BY <1>0, <1>24, HandTakes DEF ReadError, ReceiverReads
<1>25. CASE Queue
  BY <1>0, <1>25, EvqPush, HandPop, HasNothing DEF Queue
<1>26. CASE ReceiverEnds
  BY <1>0, <1>26 DEF ReceiverEnds
<1>27. CASE EmitMessage
  BY <1>0, <1>27, ChanPush, EvqPop DEF EmitMessage, IsMessage
<1>28. CASE EmitError
  BY <1>0, <1>28, ChanPush, EvqPop DEF EmitError
<1>29. CASE EmitClose
  BY <1>0, <1>29, ChanPush, EvqPop DEF EmitClose
<1>30. CASE DispatcherEnds
  <2>1. CASE emitted
    BY <1>0, <1>30, <2>1, HasMore DEF DispatcherEnds
  <2>2. CASE ~emitted
    BY <1>0, <1>30, <2>2, ChanPush, HasNothing DEF DispatcherEnds
  <2> QED
    BY <2>1, <2>2
<1>31. CASE WriteMessage
  <2>1. PICK reply \in {"sendOk", "sendFailed"} : chan' = Append(chan, Plain(reply))
    BY <1>0, <1>31 DEF WriteMessage
  <2>2. \A types : Has(chan', types) <=> Has(chan, types) \/ reply \in types
    BY <2>1, ChanPush DEF Plain
  <2>3. /\ sendTask = "running" /\ sendTask' = "replying"
        /\ UNCHANGED <<jsVars, connVars, readVars, pumpVars, closeTask>>
    BY <1>0, <1>31 DEF WriteMessage
  <2> QED
    BY <2>2, <2>3
<1>32. CASE WriteClose
  BY <1>0, <1>32 DEF WriteClose
<1>33. CASE ReplyClose
  BY <1>0, <1>33, ChanPush DEF ReplyClose
<1>34. CASE UNCHANGED vars
  BY <1>34 DEF vars
<1> QED
  BY <1>1, <1>2, <1>3, <1>4, <1>5, <1>6, <1>7, <1>8, <1>9, <1>10, <1>11,
     <1>12, <1>13, <1>14, <1>15, <1>16, <1>17, <1>18, <1>19, <1>20, <1>21,
     <1>22, <1>23, <1>24, <1>25, <1>26, <1>27, <1>28, <1>29, <1>30, <1>31,
     <1>32, <1>33, <1>34
     DEF Next, UserStep, EventLoop, MicroTask, Peer, NativeStep

\* The next send starts when the reply to the last one was taken.
LEMMA StepOneSend == WInv /\ [Next]_vars => OneSend'
<1> SUFFICES ASSUME WInv, [Next]_vars PROVE OneSend'
  OBVIOUS
<1> USE WebSocketAssumption
    DEF WInv, TypeOK, jsVars, nativeVars,
           finalVars, flagVars, sendVars, connVars, readVars, pumpVars, taskVars
<1>1. CASE Connect
  BY <1>1 DEF Connect, OneSend
<1>2. CASE ConnectThrows
  BY <1>2 DEF ConnectThrows, OneSend
<1>3. CASE Connected
  <2>1. chan # <<>> /\ chan' = Tail(chan)
    BY <1>3 DEF Connected, Runs
  <2> QED
    BY <2>1, TailOneSend
<1>4. CASE ConnectedClosing
  <2>1. chan # <<>> /\ chan' = Tail(chan)
    BY <1>4 DEF ConnectedClosing, Runs
  <2> QED
    BY <2>1, TailOneSend
<1>5. CASE ConnectedTooLate
  <2>1. chan # <<>> /\ chan' = Tail(chan)
    BY <1>5 DEF ConnectedTooLate, Runs
  <2> QED
    BY <2>1, TailOneSend
<1>6. CASE Refused
  <2>1. chan # <<>> /\ chan' = Tail(chan)
    BY <1>6 DEF Refused, Runs
  <2> QED
    BY <2>1, TailOneSend
<1>7. CASE DispatchOpen
  BY <1>7 DEF DispatchOpen, OneSend
<1>8. CASE OnMessage
  <2>1. chan # <<>> /\ chan' = Tail(chan)
    BY <1>8 DEF OnMessage, Runs
  <2> QED
    BY <2>1, TailOneSend
<1>9. CASE OnError
  <2>1. chan # <<>> /\ chan' = Tail(chan)
    BY <1>9 DEF OnError, Runs
  <2> QED
    BY <2>1, TailOneSend
<1>10. CASE OnClose
  <2>1. chan # <<>> /\ chan' = Tail(chan)
    BY <1>10 DEF OnClose, Runs
  <2> QED
    BY <2>1, TailOneSend
<1>11. CASE CloseEarly
  BY <1>11 DEF CloseEarly, OneSend
<1>12. CASE CloseOpen
  BY <1>12 DEF CloseOpen, OneSend
<1>13. CASE CloseThrows
  BY <1>13 DEF CloseThrows, OneSend
<1>14. CASE CloseReplied
  <2>1. chan # <<>> /\ chan' = Tail(chan)
    BY <1>14 DEF CloseReplied, Runs
  <2> QED
    BY <2>1, TailOneSend
<1>15. CASE SendCalled
  BY <1>15 DEF SendCalled, OneSend
<1>16. CASE StartSend
  BY <1>16 DEF StartSend, OneSend
<1>17. CASE StartSendFails
  BY <1>17 DEF StartSendFails, OneSend
<1>18. CASE SendReplied
  <2>1. chan # <<>> /\ chan' = Tail(chan)
    BY <1>18 DEF SendReplied, Runs
  <2> QED
    BY <2>1, TailOneSend
<1>19. CASE UpgradeFails
  <2>1. chan' = chan \/ chan' = Append(chan, Plain("refused"))
    BY <1>19 DEF UpgradeFails
  <2>2. ~IsSendReply(Plain("refused"))
    BY <1>19 DEF IsSendReply, Plain, Close, Error, UpgradeFails
  <2> QED
    BY <2>1, <2>2, PushOneSend
<1>20. CASE Upgrade
  BY <1>20 DEF Upgrade, OneSend
<1>21. CASE SettleConnect
  <2>1. chan' = chan \/ chan' = Append(chan, Plain("connected"))
    BY <1>21 DEF SettleConnect
  <2>2. ~IsSendReply(Plain("connected"))
    BY <1>21 DEF IsSendReply, Plain, Close, Error, SettleConnect
  <2> QED
    BY <2>1, <2>2, PushOneSend
<1>22. CASE ReadMessage
  BY <1>22 DEF ReadMessage, OneSend
<1>23. CASE ReadClose
  BY <1>23 DEF ReadClose, OneSend
<1>24. CASE ReadError
  BY <1>24 DEF ReadError, OneSend
<1>25. CASE Queue
  BY <1>25 DEF Queue, OneSend
<1>26. CASE ReceiverEnds
  BY <1>26 DEF ReceiverEnds, OneSend
<1>27. CASE EmitMessage
  <2>1. chan' = chan \/ chan' = Append(chan, Head(evq))
    BY <1>27 DEF EmitMessage
  <2>2. ~IsSendReply(Head(evq))
    BY <1>27 DEF IsSendReply, Plain, Close, Error, EmitMessage, IsMessage
  <2> QED
    BY <2>1, <2>2, PushOneSend
<1>28. CASE EmitError
  <2>1. chan' = chan \/ chan' = Append(chan, Error)
    BY <1>28 DEF EmitError
  <2>2. ~IsSendReply(Error)
    BY <1>28 DEF IsSendReply, Plain, Close, Error, EmitError
  <2> QED
    BY <2>1, <2>2, PushOneSend
<1>29. CASE EmitClose
  <2>1. chan' = chan \/ chan' = Append(chan, Close)
    BY <1>29 DEF EmitClose
  <2>2. ~IsSendReply(Close)
    BY <1>29 DEF IsSendReply, Plain, Close, Error, EmitClose
  <2> QED
    BY <2>1, <2>2, PushOneSend
<1>30. CASE DispatcherEnds
  <2>1. chan' = chan \/ chan' = Append(chan, Close)
    BY <1>30 DEF DispatcherEnds
  <2>2. ~IsSendReply(Close)
    BY <1>30 DEF IsSendReply, Plain, Close, Error, DispatcherEnds
  <2> QED
    BY <2>1, <2>2, PushOneSend
<1>31. CASE WriteMessage
  <2>1. ~Has(chan, {"sendOk", "sendFailed"})
    BY <1>31 DEF WriteMessage, Replies
  <2>2. \A i \in DOMAIN chan : ~IsSendReply(chan[i])
    BY <2>1 DEF Has, IsSendReply
  <2>3. PICK e : chan' = Append(chan, e)
    BY <1>31 DEF WriteMessage
  <2> QED
    BY <2>2, <2>3 DEF OneSend
<1>32. CASE WriteClose
  BY <1>32 DEF WriteClose, OneSend
<1>33. CASE ReplyClose
  <2>1. chan' = chan \/ chan' = Append(chan, Plain(closeTask))
    BY <1>33 DEF ReplyClose
  <2>2. ~IsSendReply(Plain(closeTask))
    BY <1>33 DEF IsSendReply, Plain, Close, Error, ReplyClose
  <2> QED
    BY <2>1, <2>2, PushOneSend
<1>34. CASE UNCHANGED vars
  BY <1>34 DEF vars, OneSend
<1> QED
  BY <1>1, <1>2, <1>3, <1>4, <1>5, <1>6, <1>7, <1>8, <1>9, <1>10, <1>11,
     <1>12, <1>13, <1>14, <1>15, <1>16, <1>17, <1>18, <1>19, <1>20, <1>21,
     <1>22, <1>23, <1>24, <1>25, <1>26, <1>27, <1>28, <1>29, <1>30, <1>31,
     <1>32, <1>33, <1>34
     DEF Next, UserStep, EventLoop, MicroTask, Peer, NativeStep

-----------------------------------------------------------------------------
(* The events the listeners see.                                           *)

\* QuietAfterClose of any sequence of events.
QuietSeq(s) ==
    \A i, j \in DOMAIN s :
        s[i] = Close /\ i < j => s[j] # Close /\ ~IsMessage(s[j])

\* Several events are dispatched.
LEMMA HasConcat ==
    ASSUME NEW S, NEW s \in Seq(S), NEW t \in Seq(S), NEW types
    PROVE  Has(s \o t, types) <=> Has(s, types) \/ Has(t, types)
<1>1. ASSUME NEW i \in DOMAIN s, s[i].type \in types PROVE Has(s \o t, types)
  <2>1. i \in DOMAIN (s \o t) /\ (s \o t)[i] = s[i]
    OBVIOUS
  <2> QED
    BY <1>1, <2>1 DEF Has
<1>2. ASSUME NEW i \in DOMAIN t, t[i].type \in types PROVE Has(s \o t, types)
  <2>1. Len(s) + i \in DOMAIN (s \o t) /\ (s \o t)[Len(s) + i] = t[i]
    OBVIOUS
  <2> QED
    BY <1>2, <2>1 DEF Has
<1>3. ASSUME NEW i \in DOMAIN (s \o t), (s \o t)[i].type \in types
      PROVE  Has(s, types) \/ Has(t, types)
  <2>1. CASE i <= Len(s)
    BY <1>3, <2>1 DEF Has
  <2>2. CASE i > Len(s)
    <3>1. i - Len(s) \in DOMAIN t /\ t[i - Len(s)] = (s \o t)[i]
      BY <2>2
    <3> QED
      BY <1>3, <3>1 DEF Has
  <2> QED
    BY <2>1, <2>2
<1> QED
  BY <1>1, <1>2, <1>3 DEF Has

\* A part without close event may have anything behind it, a part with one
\* only what is neither a message nor a close event.
LEMMA QuietConcat ==
    ASSUME NEW S, NEW s \in Seq(S), NEW t \in Seq(S), QuietSeq(s), QuietSeq(t),
           ~Has(s, {"close"}) \/ ~Has(t, {"close", "message"})
    PROVE  QuietSeq(s \o t)
<1> SUFFICES ASSUME NEW i \in DOMAIN (s \o t), NEW j \in DOMAIN (s \o t),
                    (s \o t)[i] = Close, i < j
             PROVE  (s \o t)[j] # Close /\ ~IsMessage((s \o t)[j])
  BY DEF QuietSeq
<1> DEFINE u == s \o t
<1>1. i \in Int /\ j \in Int /\ Len(s) \in Nat
  OBVIOUS
<1>2. CASE j <= Len(s)
  <2>1. i \in DOMAIN s /\ j \in DOMAIN s /\ u[i] = s[i] /\ u[j] = s[j]
    BY <1>1, <1>2
  <2> QED
    BY <2>1 DEF QuietSeq
<1>3. CASE i > Len(s)
  <2>1. /\ i - Len(s) \in DOMAIN t /\ j - Len(s) \in DOMAIN t
        /\ u[i] = t[i - Len(s)] /\ u[j] = t[j - Len(s)]
        /\ i - Len(s) < j - Len(s)
    BY <1>1, <1>3
  <2> QED
    BY <2>1 DEF QuietSeq
<1>4. CASE i <= Len(s) /\ j > Len(s)
  <2>1. i \in DOMAIN s /\ u[i] = s[i]
    BY <1>1, <1>4
  <2>2. Has(s, {"close"})
    BY <2>1 DEF Has, Close, Plain
  <2>3. j - Len(s) \in DOMAIN t /\ u[j] = t[j - Len(s)]
    BY <1>1, <1>4
  <2>4. u[j].type \notin {"close", "message"}
    BY <2>2, <2>3 DEF Has
  <2> QED
    BY <2>4 DEF IsMessage, Close, Plain
<1> QED
  BY <1>1, <1>2, <1>3, <1>4

\* Concatenation is associative.
LEMMA ConcatEvents ==
    ASSUME NEW s \in Seq(Event), NEW t \in Seq(Event), NEW u \in Seq(Event)
    PROVE  (s \o t) \o u = s \o (t \o u)
OBVIOUS

\* What the empty sequence and a single event hold.
LEMMA QuietOne ==
    /\ QuietSeq(<<>>) /\ \A types : ~Has(<<>>, types)
    /\ \A e : QuietSeq(<<e>>)
    /\ \A e, types : Has(<<e>>, types) <=> e.type \in types
<1>1. QuietSeq(<<>>)
  BY DEF QuietSeq
<1>2. ASSUME NEW e PROVE QuietSeq(<<e>>)
  <2>1. DOMAIN <<e>> = {1}
    OBVIOUS
  <2> QED
    BY <2>1 DEF QuietSeq
<1>3. ASSUME NEW e, NEW types PROVE Has(<<e>>, types) <=> e.type \in types
  <2>1. DOMAIN <<e>> = {1} /\ <<e>>[1] = e
    OBVIOUS
  <2> QED
    BY <2>1 DEF Has
<1> QED
  BY <1>1, <1>2, <1>3, HasNothing

\* finalizeClosed dispatches one close event, as the last that matters.
LEMMA FinalizeQuiet ==
    ASSUME TypeOK, Quiet, NEW first \in {<<>>, <<Error>>}, FinalizeClosed(first)
    PROVE  Quiet'
<1>1. events \in Seq(Event) /\ QuietSeq(events)
  BY DEF TypeOK, Quiet, QuietAfterClose, QuietSeq
<1>2. /\ first \in Seq(Event) /\ QuietSeq(first)
      /\ ~Has(first, {"close"}) /\ ~Has(first, {"close", "message"})
  <2>1. CASE first = <<>>
    BY <2>1, QuietOne
  <2>2. CASE first = <<Error>>
    <3>1. Error \in Event /\ Error.type = "error"
      BY EntryTypes DEF Error, Plain
    <3> QED
      BY <2>2, <3>1, QuietOne
  <2> QED
    BY <2>1, <2>2
<1>3. /\ events \o first \in Seq(Event) /\ QuietSeq(events \o first)
      /\ ~closed => ~Has(events \o first, {"close"})
  BY <1>1, <1>2, QuietConcat, HasConcat DEF Quiet
<1>4. QuietSeq(events')
  <2>1. CASE closed
    <3>1. events' = events \o first
      BY <2>1, <1>3 DEF FinalizeClosed
    <3> QED
      BY <1>3, <3>1
  <2>2. CASE ~closed
    <3>1. events' = (events \o first) \o <<Close>>
      BY <2>2 DEF FinalizeClosed
    <3>2. <<Close>> \in Seq(Event)
      BY EntryTypes
    <3> QED
      BY <1>3, <2>2, <3>1, <3>2, QuietOne, QuietConcat
  <2> QED
    BY <2>1, <2>2
<1> QED
  BY <1>4 DEF Quiet, QuietAfterClose, QuietSeq, FinalizeClosed

\* Other events are dispatched: an error at any time, the rest before closed.
LEMMA EventsQuiet ==
    ASSUME TypeOK, Quiet, NEW t \in Seq(Event), events' = events \o t,
           UNCHANGED closed, ~Has(t, {"close"}),
           closed => ~Has(t, {"close", "message"})
    PROVE  Quiet'
<1>1. events \in Seq(Event) /\ QuietSeq(events)
  BY DEF TypeOK, Quiet, QuietAfterClose, QuietSeq
<1>2. QuietSeq(t)
  BY DEF QuietSeq, Has, Close, Plain
<1>3. QuietSeq(events')
  BY <1>1, <1>2, QuietConcat DEF Quiet
<1>4. ~closed => ~Has(events', {"close"})
  BY <1>1, HasConcat DEF Quiet
<1> QED
  BY <1>3, <1>4 DEF Quiet, QuietAfterClose, QuietSeq

\* Once closed is set the listeners see nothing but errors and an open event.
LEMMA StepQuiet == WInv /\ [Next]_vars => Quiet'
<1> SUFFICES ASSUME WInv, [Next]_vars PROVE Quiet'
  OBVIOUS
<1> USE WebSocketAssumption
    DEF WInv, jsVars, nativeVars,
           finalVars, flagVars, sendVars, connVars, readVars, pumpVars, taskVars
<1>1. CASE Connect
  BY <1>1 DEF Connect, Quiet, QuietAfterClose
<1>2. CASE ConnectThrows
  <2>1. FinalizeClosed(<<Error>>)
    BY <1>2 DEF ConnectThrows
  <2> QED
    BY <2>1, FinalizeQuiet
<1>3. CASE Connected
  BY <1>3 DEF Connected, Quiet, QuietAfterClose
<1>4. CASE ConnectedClosing
  BY <1>4 DEF ConnectedClosing, Quiet, QuietAfterClose
<1>5. CASE ConnectedTooLate
  <2>1. FinalizeClosed(<<Error>>)
    BY <1>5 DEF ConnectedTooLate
  <2> QED
    BY <2>1, FinalizeQuiet
<1>6. CASE Refused
  <2>1. FinalizeClosed(<<Error>>)
    BY <1>6 DEF Refused
  <2> QED
    BY <2>1, FinalizeQuiet
<1>7. CASE DispatchOpen
  <2>1. CASE UNCHANGED events
    BY <1>7, <2>1 DEF DispatchOpen, Quiet, QuietAfterClose
  <2>2. CASE ~UNCHANGED events
    <3> DEFINE held == IF closed THEN <<>> ELSE pending
    <3>1. pending \in Seq(Event) /\ <<Opened>> \in Seq(Event) /\ events \in Seq(Event)
      BY EntryTypes DEF TypeOK
    <3>2. ~Has(<<Opened>>, {"close"}) /\ ~Has(<<Opened>>, {"close", "message"})
      BY QuietOne DEF Opened, Plain
    <3>3. ~Has(pending, {"close"})
      BY DEF TypeOK, Has, Entry, Message
    <3>4. held \in Seq(Event) /\ ~Has(held, {"close"})
      BY <3>1, <3>3, HasNothing
    <3>5. /\ ~Has(<<Opened>> \o held, {"close"})
          /\ closed => ~Has(<<Opened>> \o held, {"close", "message"})
      BY <3>1, <3>2, <3>4, HasConcat, HasNothing
    <3>6. events' = events \o (<<Opened>> \o held) /\ UNCHANGED closed
      <4>1. events' = events \o <<Opened>> \o held /\ UNCHANGED closed
        BY <1>7, <2>2 DEF DispatchOpen
      <4> QED
        <5>1. (events \o <<Opened>>) \o held = events \o (<<Opened>> \o held)
          BY <3>1, <3>4, ConcatEvents
        <5> QED
          BY <4>1, <5>1
    <3>7. <<Opened>> \o held \in Seq(Event)
      BY <3>1, <3>4
    <3> QED
      BY <3>5, <3>6, <3>7, EventsQuiet
  <2> QED
    BY <2>1, <2>2
<1>8. CASE OnMessage
  <2>1. CASE UNCHANGED events
    BY <1>8, <2>1 DEF OnMessage, Quiet, QuietAfterClose
  <2>2. CASE ~closed /\ events' = Append(events, Head(chan))
    <3>1. Head(chan) \in Event /\ Head(chan).type = "message"
      BY <1>8, ChanRuns, EntryTypes DEF OnMessage
    <3>2. events' = events \o <<Head(chan)>> /\ <<Head(chan)>> \in Seq(Event)
      BY <2>2, <3>1 DEF TypeOK
    <3>3. ~Has(<<Head(chan)>>, {"close"})
      BY <3>1, QuietOne
    <3>4. UNCHANGED closed
      BY <1>8 DEF OnMessage
    <3> QED
      BY <2>2, <3>2, <3>3, <3>4, EventsQuiet
  <2> QED
    BY <1>8, <2>1, <2>2 DEF OnMessage
<1>9. CASE OnError
  <2>1. events' = events \o <<Error>> /\ UNCHANGED closed
    BY <1>9 DEF OnError, TypeOK
  <2>2. <<Error>> \in Seq(Event) /\ ~Has(<<Error>>, {"close", "message"})
    BY EntryTypes, QuietOne DEF Error, Plain
  <2>3. ~Has(<<Error>>, {"close"})
    BY QuietOne DEF Error, Plain
  <2> QED
    BY <2>1, <2>2, <2>3, EventsQuiet
<1>10. CASE OnClose
  <2>1. FinalizeClosed(<<>>)
    BY <1>10 DEF OnClose
  <2> QED
    BY <2>1, FinalizeQuiet
<1>11. CASE CloseEarly
  BY <1>11 DEF CloseEarly, Quiet, QuietAfterClose
<1>12. CASE CloseOpen
  BY <1>12 DEF CloseOpen, Quiet, QuietAfterClose
<1>13. CASE CloseThrows
  BY <1>13 DEF CloseThrows, Quiet, QuietAfterClose
<1>14. CASE CloseReplied
  <2>1. CASE UNCHANGED finalVars
    BY <2>1 DEF Quiet, QuietAfterClose
  <2>2. CASE FinalizeClosed(<<Error>>)
    BY <2>2, FinalizeQuiet
  <2> QED
    BY <1>14, <2>1, <2>2 DEF CloseReplied
<1>15. CASE SendCalled
  BY <1>15 DEF SendCalled, Quiet, QuietAfterClose
<1>16. CASE StartSend
  BY <1>16 DEF StartSend, Quiet, QuietAfterClose
<1>17. CASE StartSendFails
  <2>1. FinalizeClosed(<<Error>>)
    BY <1>17 DEF StartSendFails
  <2> QED
    BY <2>1, FinalizeQuiet
<1>18. CASE SendReplied
  <2>1. CASE UNCHANGED finalVars
    BY <2>1 DEF Quiet, QuietAfterClose
  <2>2. CASE FinalizeClosed(<<Error>>)
    BY <2>2, FinalizeQuiet
  <2> QED
    BY <1>18, <2>1, <2>2 DEF SendReplied
<1>19. CASE UpgradeFails
  BY <1>19 DEF UpgradeFails, Quiet, QuietAfterClose
<1>20. CASE Upgrade
  BY <1>20 DEF Upgrade, Quiet, QuietAfterClose
<1>21. CASE SettleConnect
  BY <1>21 DEF SettleConnect, Quiet, QuietAfterClose
<1>22. CASE ReadMessage
  BY <1>22 DEF ReadMessage, Quiet, QuietAfterClose
<1>23. CASE ReadClose
  BY <1>23 DEF ReadClose, Quiet, QuietAfterClose
<1>24. CASE ReadError
  BY <1>24 DEF ReadError, Quiet, QuietAfterClose
<1>25. CASE Queue
  BY <1>25 DEF Queue, Quiet, QuietAfterClose
<1>26. CASE ReceiverEnds
  BY <1>26 DEF ReceiverEnds, Quiet, QuietAfterClose
<1>27. CASE EmitMessage
  BY <1>27 DEF EmitMessage, Quiet, QuietAfterClose
<1>28. CASE EmitError
  BY <1>28 DEF EmitError, Quiet, QuietAfterClose
<1>29. CASE EmitClose
  BY <1>29 DEF EmitClose, Quiet, QuietAfterClose
<1>30. CASE DispatcherEnds
  BY <1>30 DEF DispatcherEnds, Quiet, QuietAfterClose
<1>31. CASE WriteMessage
  BY <1>31 DEF WriteMessage, Quiet, QuietAfterClose
<1>32. CASE WriteClose
  BY <1>32 DEF WriteClose, Quiet, QuietAfterClose
<1>33. CASE ReplyClose
  BY <1>33 DEF ReplyClose, Quiet, QuietAfterClose
<1>34. CASE UNCHANGED vars
  BY <1>34 DEF vars, Quiet, QuietAfterClose
<1> QED
  BY <1>1, <1>2, <1>3, <1>4, <1>5, <1>6, <1>7, <1>8, <1>9, <1>10, <1>11,
     <1>12, <1>13, <1>14, <1>15, <1>16, <1>17, <1>18, <1>19, <1>20, <1>21,
     <1>22, <1>23, <1>24, <1>25, <1>26, <1>27, <1>28, <1>29, <1>30, <1>31,
     <1>32, <1>33, <1>34
     DEF Next, UserStep, EventLoop, MicroTask, Peer, NativeStep

\* Frames go out in the order of the calls.
LEMMA StepSends == WInv /\ [Next]_vars => Sends'
<1> SUFFICES ASSUME WInv, [Next]_vars PROVE Sends'
  OBVIOUS
<1> USE WebSocketAssumption
    DEF WInv, TypeOK, Replies, Sends, SendOrder, CloseFrame, jsVars, nativeVars,
           finalVars, flagVars, sendVars, connVars, readVars, pumpVars, taskVars
<1>0. /\ \A i \in DOMAIN sendChain : i \in Nat /\ sendChain[i] \in 1..MaxSends
      /\ \A k \in DOMAIN wire : k \in Nat /\ wire[k] \in Nat
      /\ Len(sendChain) \in Nat /\ Len(wire) \in Nat /\ accepted \in Nat
      /\ \A i \in DOMAIN sendChain : i <= Len(sendChain)
      /\ \A k \in DOMAIN wire : k <= Len(wire)
  OBVIOUS
<1>1. CASE Connect
  BY <1>1 DEF Connect
<1>2. CASE ConnectThrows
  BY <1>2 DEF ConnectThrows, FinalizeClosed
<1>3. CASE Connected
  BY <1>3 DEF Connected, Runs
<1>4. CASE ConnectedClosing
  BY <1>4 DEF ConnectedClosing, Runs, StartNativeClose
<1>5. CASE ConnectedTooLate
  BY <1>5 DEF ConnectedTooLate, Runs, FinalizeClosed
<1>6. CASE Refused
  BY <1>6 DEF Refused, Runs, FinalizeClosed
<1>7. CASE DispatchOpen
  BY <1>7 DEF DispatchOpen
<1>8. CASE OnMessage
  BY <1>8 DEF OnMessage, Runs
<1>9. CASE OnError
  BY <1>9 DEF OnError, Runs
<1>10. CASE OnClose
  BY <1>10 DEF OnClose, Runs, FinalizeClosed
<1>11. CASE CloseEarly
  BY <1>11 DEF CloseEarly
<1>12. CASE CloseOpen
  BY <1>12 DEF CloseOpen, StartNativeClose
<1>13. CASE CloseThrows
  BY <1>13 DEF CloseThrows
<1>14. CASE CloseReplied
  BY <1>14 DEF CloseReplied, Runs, FinalizeClosed
<1>15. CASE SendCalled
  <2>1. \A i \in DOMAIN sendChain' :
            \/ i \in DOMAIN sendChain /\ sendChain'[i] = sendChain[i]
            \/ i = Len(sendChain) + 1 /\ sendChain'[i] = accepted + 1
    BY <1>15 DEF SendCalled
  <2>2. accepted' = accepted + 1 /\ UNCHANGED <<wire, sendTask>>
    BY <1>15 DEF SendCalled
  <2> HIDE DEF TypeOK, Replies
  <2> QED
    BY <2>1, <2>2, <1>0
<1>16. CASE StartSend
  BY <1>16 DEF StartSend
<1>17. CASE StartSendFails
  <2>1. \A i \in DOMAIN sendChain' :
            i + 1 \in DOMAIN sendChain /\ sendChain'[i] = sendChain[i + 1]
    BY <1>17 DEF StartSendFails
  <2>2. UNCHANGED <<accepted, wire>> /\ sendTask' = "none"
    BY <1>17 DEF StartSendFails
  <2>3. \A i \in DOMAIN sendChain' : i \in Int /\ i > 0
    BY <1>17 DEF StartSendFails
  <2> QED
    BY SMTT(40), <2>1, <2>2, <2>3, <1>0
<1>18. CASE SendReplied
  <2>1. \A i \in DOMAIN sendChain' :
            i + 1 \in DOMAIN sendChain /\ sendChain'[i] = sendChain[i + 1]
    BY <1>18 DEF SendReplied
  <2>2. UNCHANGED <<accepted, wire>> /\ sendTask' = "none"
    BY <1>18 DEF SendReplied
  <2>3. \A i \in DOMAIN sendChain' : i \in Int /\ i > 0
    BY <1>18 DEF SendReplied
  <2> QED
    BY SMTT(40), <2>1, <2>2, <2>3, <1>0
<1>19. CASE UpgradeFails
  BY <1>19 DEF UpgradeFails
<1>20. CASE Upgrade
  BY <1>20 DEF Upgrade
<1>21. CASE SettleConnect
  BY <1>21 DEF SettleConnect
<1>22. CASE ReadMessage
  BY <1>22 DEF ReadMessage, ReceiverReads
<1>23. CASE ReadClose
  BY <1>23 DEF ReadClose, ReceiverReads
<1>24. CASE ReadError
  BY <1>24 DEF ReadError, ReceiverReads
<1>25. CASE Queue
  BY <1>25 DEF Queue
<1>26. CASE ReceiverEnds
  BY <1>26 DEF ReceiverEnds
<1>27. CASE EmitMessage
  BY <1>27 DEF EmitMessage, IsMessage
<1>28. CASE EmitError
  BY <1>28 DEF EmitError
<1>29. CASE EmitClose
  BY <1>29 DEF EmitClose
<1>30. CASE DispatcherEnds
  BY <1>30 DEF DispatcherEnds
<1>31. CASE WriteMessage
  <2>1. /\ 1 \in DOMAIN sendChain /\ Head(sendChain) = sendChain[1]
        /\ \A k \in DOMAIN wire, i \in DOMAIN sendChain : wire[k] < sendChain[i]
    BY <1>31 DEF WriteMessage
  <2>2. CASE UNCHANGED wire
    BY <1>31, <2>1, <2>2 DEF WriteMessage
  <2>3. CASE wire' = Append(wire, Head(sendChain))
    <3>1. \A k \in DOMAIN wire' :
              \/ k \in DOMAIN wire /\ wire'[k] = wire[k]
              \/ k = Len(wire) + 1 /\ wire'[k] = sendChain[1]
      BY <2>1, <2>3
    <3>2. UNCHANGED <<sendChain, accepted>> /\ sendTask' = "replying"
      BY <1>31 DEF WriteMessage
    <3> HIDE DEF TypeOK, Replies
    <3> QED
      BY <2>1, <3>1, <3>2, <1>0
  <2> QED
    BY <1>31, <2>2, <2>3 DEF WriteMessage
<1>32. CASE WriteClose
  <2>1. CASE UNCHANGED wire
    BY <1>32, <2>1 DEF WriteClose
  <2>2. CASE wire' = Append(wire, CloseFrame)
    <3>1. \A k \in DOMAIN wire' :
              \/ k \in DOMAIN wire /\ wire'[k] = wire[k]
              \/ k = Len(wire) + 1 /\ wire'[k] = CloseFrame
      BY <2>2
    <3>2. UNCHANGED <<sendChain, accepted, sendTask>>
      BY <1>32 DEF WriteClose
    <3> HIDE DEF TypeOK, Replies
    <3> QED
      BY <3>1, <3>2, <1>0
  <2> QED
    BY <1>32, <2>1, <2>2 DEF WriteClose
<1>33. CASE ReplyClose
  BY <1>33 DEF ReplyClose
<1>34. CASE UNCHANGED vars
  BY <1>34 DEF vars
<1> QED
  BY <1>1, <1>2, <1>3, <1>4, <1>5, <1>6, <1>7, <1>8, <1>9, <1>10, <1>11,
     <1>12, <1>13, <1>14, <1>15, <1>16, <1>17, <1>18, <1>19, <1>20, <1>21,
     <1>22, <1>23, <1>24, <1>25, <1>26, <1>27, <1>28, <1>29, <1>30, <1>31,
     <1>32, <1>33, <1>34
     DEF Next, UserStep, EventLoop, MicroTask, Peer, NativeStep

-----------------------------------------------------------------------------
(* What Ids and InOrder say of the channel and the queues as they move.    *)

\* Sequences of at most one element.
LEMMA IdsFew ==
    /\ Ids(<<>>) = {} /\ InOrder(<<>>)
    /\ \A e : ~IsMessage(e) => Ids(<<e>>) = {} /\ InOrder(<<e>>)
    /\ \A n : Ids(<<Message(n)>>) = {n} /\ InOrder(<<Message(n)>>)
<1>1. Ids(<<>>) = {} /\ InOrder(<<>>)
  BY DEF Ids, Places, InOrder
<1>2. ASSUME NEW e, ~IsMessage(e) PROVE Ids(<<e>>) = {} /\ InOrder(<<e>>)
  <2>1. Places(<<e>>) = {}
    BY <1>2 DEF Places
  <2> QED
    BY <2>1 DEF Ids, InOrder
<1>3. ASSUME NEW n PROVE Ids(<<Message(n)>>) = {n} /\ InOrder(<<Message(n)>>)
  <2>1. DOMAIN <<Message(n)>> = {1} /\ <<Message(n)>>[1] = Message(n)
    OBVIOUS
  <2>2. Message(n).type = "message" /\ Message(n).id = n
    BY DEF Message
  <2>3. Places(<<Message(n)>>) = {1}
    BY <2>1, <2>2 DEF Places, IsMessage
  <2>4. Ids(<<Message(n)>>) = {n}
    BY <2>1, <2>2, <2>3 DEF Ids
  <2>5. InOrder(<<Message(n)>>)
    BY <2>3 DEF InOrder
  <2> QED
    BY <2>4, <2>5
<1> QED
  BY <1>1, <1>2, <1>3

\* Ids and InOrder of two sequences one behind the other.
LEMMA IdsConcat ==
    ASSUME NEW S, NEW s \in Seq(S), NEW t \in Seq(S)
    PROVE  /\ Ids(s \o t) = Ids(s) \cup Ids(t)
           /\ InOrder(s \o t) <=> InOrder(s) /\ InOrder(t) /\ Below(Ids(s), Ids(t))
<1> DEFINE u == s \o t
           n == Len(s)
<1>1. /\ n \in Nat /\ DOMAIN s = 1..n
      /\ Len(t) \in Nat /\ DOMAIN t = 1..Len(t)
      /\ DOMAIN u = 1..(n + Len(t))
  OBVIOUS
<1>2. \A i \in 1..n : u[i] = s[i]
  OBVIOUS
<1>3. \A i \in 1..Len(t) : u[n + i] = t[i]
  OBVIOUS
<1> HIDE DEF u, n
<1>4. \A i \in Places(s) : i \in Places(u) /\ u[i] = s[i] /\ i \in 1..n
  BY <1>1, <1>2 DEF Places
<1>5. \A i \in Places(t) : n + i \in Places(u) /\ u[n + i] = t[i] /\ i \in Nat /\ i > 0
  BY <1>1, <1>3 DEF Places
<1>6. \A i \in Places(u) :
          \/ i \in Places(s) /\ u[i] = s[i]
          \/ i - n \in Places(t) /\ u[i] = t[i - n] /\ i > n /\ i \in Nat
  <2> SUFFICES ASSUME NEW i \in Places(u)
               PROVE  \/ i \in Places(s) /\ u[i] = s[i]
                      \/ i - n \in Places(t) /\ u[i] = t[i - n] /\ i > n /\ i \in Nat
    OBVIOUS
  <2>1. i \in 1..(n + Len(t)) /\ IsMessage(u[i])
    BY <1>1 DEF Places
  <2>2. CASE i <= n
    BY <2>1, <2>2, <1>1, <1>2 DEF Places
  <2>3. CASE i > n
    <3>1. i - n \in 1..Len(t) /\ u[n + (i - n)] = t[i - n] /\ n + (i - n) = i
      BY <2>1, <2>3, <1>1, <1>3
    <3> QED
      BY <3>1, <2>1, <2>3, <1>1 DEF Places
  <2> QED
    BY <2>1, <2>2, <2>3, <1>1
<1>7. Ids(u) = Ids(s) \cup Ids(t)
  BY <1>4, <1>5, <1>6 DEF Ids
<1>8. ASSUME InOrder(u) PROVE InOrder(s) /\ InOrder(t) /\ Below(Ids(s), Ids(t))
  <2>1. InOrder(s)
    BY <1>8, <1>4 DEF InOrder
  <2>2. InOrder(t)
    <3> SUFFICES ASSUME NEW i \in Places(t), NEW j \in Places(t), i < j
                 PROVE  t[i].id < t[j].id
      BY DEF InOrder
    <3>1. n + i < n + j
      BY <1>1, <1>5
    <3> QED
      BY <3>1, <1>8, <1>5 DEF InOrder
  <2>3. Below(Ids(s), Ids(t))
    <3> SUFFICES ASSUME NEW i \in Places(s), NEW j \in Places(t)
                 PROVE  s[i].id < t[j].id
      BY DEF Below, Ids
    <3>1. i < n + j
      BY <1>1, <1>4, <1>5
    <3> QED
      BY <3>1, <1>8, <1>4, <1>5 DEF InOrder
  <2> QED
    BY <2>1, <2>2, <2>3
<1>9. ASSUME InOrder(s), InOrder(t), Below(Ids(s), Ids(t)) PROVE InOrder(u)
  <2> SUFFICES ASSUME NEW i \in Places(u), NEW j \in Places(u), i < j
               PROVE  u[i].id < u[j].id
    BY DEF InOrder
  <2>1. CASE i \in Places(s) /\ u[i] = s[i] /\ j \in Places(s) /\ u[j] = s[j]
    BY <2>1, <1>9 DEF InOrder
  <2>2. CASE i \in Places(s) /\ u[i] = s[i] /\ j - n \in Places(t) /\ u[j] = t[j - n]
    BY <2>2, <1>9 DEF Below, Ids
  <2>3. CASE /\ i - n \in Places(t) /\ u[i] = t[i - n] /\ i \in Nat
             /\ j - n \in Places(t) /\ u[j] = t[j - n] /\ j \in Nat
    <3>1. i - n < j - n
      BY <2>3, <1>1
    <3> QED
      BY <3>1, <2>3, <1>9 DEF InOrder
  <2>4. ~(i > n /\ i \in Nat /\ j \in Places(s))
    BY <1>1, <1>4
  <2> QED
    BY <2>1, <2>2, <2>3, <2>4, <1>6
<1> QED
  BY <1>7, <1>8, <1>9 DEF u

\* A queue takes e.
LEMMA IdsAppend ==
    ASSUME NEW S, NEW s \in Seq(S), NEW e \in S
    PROVE  /\ ~IsMessage(e) => Keeps(s, Append(s, e))
           /\ \A n : e = Message(n) => Gains(s, Append(s, e), n)
<1>1. Append(s, e) = s \o <<e>> /\ <<e>> \in Seq(S)
  OBVIOUS
<1>2. /\ Ids(s \o <<e>>) = Ids(s) \cup Ids(<<e>>)
      /\ InOrder(s \o <<e>>) <=>
             InOrder(s) /\ InOrder(<<e>>) /\ Below(Ids(s), Ids(<<e>>))
  BY <1>1, IdsConcat
<1>3. ASSUME ~IsMessage(e) PROVE Keeps(s, Append(s, e))
  <2>1. Ids(<<e>>) = {} /\ InOrder(<<e>>)
    BY <1>3, IdsFew
  <2> QED
    BY <2>1, <1>1, <1>2 DEF Keeps, Below
<1>4. ASSUME NEW n, e = Message(n) PROVE Gains(s, Append(s, e), n)
  <2>1. Ids(<<e>>) = {n} /\ InOrder(<<e>>)
    BY <1>4, IdsFew
  <2> QED
    BY <2>1, <1>1, <1>2 DEF Gains
<1> QED
  BY <1>3, <1>4

\* The head of a queue is taken.
LEMMA IdsTail ==
    ASSUME NEW S, NEW s \in Seq(S), s # <<>>
    PROVE  /\ ~IsMessage(Head(s)) => Keeps(s, Tail(s))
           /\ \A n : Head(s) = Message(n) => Gives(s, Tail(s), n)
<1> DEFINE e == Head(s)
           r == Tail(s)
<1>1. s = <<e>> \o r /\ <<e>> \in Seq(S) /\ r \in Seq(S)
  OBVIOUS
<1> HIDE DEF e, r
<1>2. /\ Ids(<<e>> \o r) = Ids(<<e>>) \cup Ids(r)
      /\ InOrder(<<e>> \o r) <=>
             InOrder(<<e>>) /\ InOrder(r) /\ Below(Ids(<<e>>), Ids(r))
  BY <1>1, IdsConcat
<1>3. ASSUME ~IsMessage(e) PROVE Keeps(s, r)
  <2>1. Ids(<<e>>) = {} /\ InOrder(<<e>>)
    BY <1>3, IdsFew
  <2> QED
    BY <2>1, <1>1, <1>2 DEF Keeps
<1>4. ASSUME NEW n, e = Message(n) PROVE Gives(s, r, n)
  <2>1. Ids(<<e>>) = {n} /\ InOrder(<<e>>)
    BY <1>4, IdsFew
  <2> QED
    BY <2>1, <1>1, <1>2 DEF Gives
<1> QED
  BY <1>3, <1>4 DEF e, r
-----------------------------------------------------------------------------
(* What a step moves.                                                      *)

\* The messages among the closures are those of the queue.
LEMMA MessageNumber ==
    /\ \A e \in Closure : IsMessage(e) => \E n : e = Message(n)
    /\ \A e \in Closure : IsMessage(e) <=> e \in Entry({})
    /\ \A t : t # "message" => ~IsMessage(Plain(t))
    /\ ~IsMessage(Opened) /\ ~IsMessage(Error) /\ ~IsMessage(Close)
BY DEF Closure, Entry, IsMessage, Plain, Message, Opened, Error, Close

\* Where the sequences a message passes through change.
LEMMA Traffic ==
    ASSUME TypeOK, [Next]_vars
    PROVE  \/ /\ UNCHANGED <<evq, hand, received, permits>>
              /\ \/ chan' = chan
                 \/ \E e \in Closure : ~IsMessage(e) /\ chan' = Append(chan, e)
                 \/ chan # <<>> /\ ~IsMessage(Head(chan)) /\ chan' = Tail(chan)
           \/ OnMessage \/ ReadMessage \/ ReadClose \/ ReadError
           \/ Queue \/ EmitMessage \/ EmitError \/ EmitClose
<1> USE DEF jsVars, nativeVars, finalVars, flagVars, sendVars, connVars,
            readVars, pumpVars, taskVars
<1> DEFINE Other == UNCHANGED <<evq, hand, received, permits>>
           Takes == chan # <<>> /\ ~IsMessage(Head(chan)) /\ chan' = Tail(chan)
           Puts == \E e \in Closure : ~IsMessage(e) /\ chan' = Append(chan, e)
<1>1. CASE \/ Connect \/ ConnectThrows \/ DispatchOpen \/ CloseEarly \/ CloseOpen
           \/ CloseThrows \/ SendCalled \/ StartSend \/ StartSendFails \/ Upgrade
           \/ ReceiverEnds \/ WriteClose \/ UNCHANGED vars
  <2>1. Other /\ chan' = chan
    BY <1>1 DEF Connect, ConnectThrows, DispatchOpen, CloseEarly, CloseOpen,
       CloseThrows, SendCalled, StartSend, StartSendFails, Upgrade, ReceiverEnds,
       WriteClose, vars
  <2> QED
    BY <2>1
<1>2. CASE \/ Connected \/ ConnectedClosing \/ ConnectedTooLate \/ Refused
           \/ OnError \/ OnClose \/ CloseReplied \/ SendReplied
  <2>1. ASSUME NEW type, type # "message", Runs(type) PROVE Takes
    BY <2>1 DEF Runs, IsMessage
  <2>2. Other
    BY <1>2 DEF Connected, ConnectedClosing, ConnectedTooLate, Refused, OnError,
       OnClose, CloseReplied, SendReplied
  <2>3. \E type : type # "message" /\ Runs(type)
    BY <1>2 DEF Connected, ConnectedClosing, ConnectedTooLate, Refused, OnError,
       OnClose, CloseReplied, SendReplied
  <2> QED
    BY <2>1, <2>2, <2>3
<1>3. CASE UpgradeFails \/ SettleConnect \/ WriteMessage \/ ReplyClose
  <2>1. /\ \A t \in {"connected", "refused", "sendOk", "sendFailed", "closeOk",
                     "closeFailed"} : Plain(t) \in Closure /\ ~IsMessage(Plain(t))
    BY EntryTypes, MessageNumber
  <2>2. Other
    BY <1>3 DEF UpgradeFails, SettleConnect, WriteMessage, ReplyClose
  <2>3. \E t \in {"connected", "refused", "sendOk", "sendFailed", "closeOk",
                  "closeFailed"} : chan' = Append(chan, Plain(t))
    BY <1>3 DEF UpgradeFails, SettleConnect, WriteMessage, ReplyClose
  <2> QED
    BY <2>1, <2>2, <2>3
<1>4. CASE DispatcherEnds
  <2>1. Close \in Closure /\ ~IsMessage(Close)
    BY EntryTypes, MessageNumber
  <2>2. Other /\ (chan' = chan \/ chan' = Append(chan, Close))
    BY <1>4 DEF DispatcherEnds
  <2> QED
    BY <2>1, <2>2
<1> QED
  BY <1>1, <1>2, <1>3, <1>4 DEF Next, UserStep, EventLoop, MicroTask, Peer, NativeStep

\* Where what the listeners see changes, and what decides of the next message.
LEMMA Listeners ==
    ASSUME [Next]_vars
    PROVE  \/ UNCHANGED <<events, pending, ready, opened, closed>>
           \/ \E first \in {<<>>, <<Error>>} : FinalizeClosed(first) /\ opened' = opened
           \/ /\ UNCHANGED <<events, pending, opened, closed>>
              /\ \/ ready # "CLOSING" /\ ready' = "OPEN"
                 \/ ready \in {"CONNECTING", "OPEN"} /\ ready' = "CLOSING"
           \/ OnError \/ OnMessage \/ DispatchOpen
<1> USE DEF jsVars, nativeVars, finalVars, flagVars, sendVars
<1>1. CASE \/ Connect \/ ConnectedClosing \/ SendCalled \/ StartSend \/ UpgradeFails
           \/ Upgrade \/ SettleConnect \/ ReadMessage \/ ReadClose \/ ReadError
           \/ Queue \/ ReceiverEnds \/ EmitMessage \/ EmitError \/ EmitClose
           \/ DispatcherEnds \/ WriteMessage \/ WriteClose \/ ReplyClose
           \/ UNCHANGED vars
  BY <1>1 DEF Connect, ConnectedClosing, SendCalled, StartSend, UpgradeFails,
     Upgrade, SettleConnect, ReadMessage, ReadClose, ReadError, Queue, ReceiverEnds,
     EmitMessage, EmitError, EmitClose, DispatcherEnds, WriteMessage, WriteClose,
     ReplyClose, vars
<1>2. CASE ConnectThrows \/ ConnectedTooLate \/ Refused \/ OnClose \/ StartSendFails
  <2>1. opened' = opened
    BY <1>2 DEF ConnectThrows, ConnectedTooLate, Refused, OnClose, StartSendFails
  <2>2. FinalizeClosed(<<>>) \/ FinalizeClosed(<<Error>>)
    BY <1>2 DEF ConnectThrows, ConnectedTooLate, Refused, OnClose, StartSendFails
  <2> QED
    BY <2>1, <2>2
<1>3. CASE CloseReplied \/ SendReplied
  <2>1. opened' = opened
    BY <1>3 DEF CloseReplied, SendReplied
  <2>2. UNCHANGED finalVars \/ FinalizeClosed(<<Error>>)
    BY <1>3 DEF CloseReplied, SendReplied
  <2> QED
    BY <2>1, <2>2
<1>4. CASE Connected \/ CloseEarly \/ CloseOpen \/ CloseThrows
  BY <1>4 DEF Connected, CloseEarly, CloseOpen, CloseThrows
<1> QED
  BY <1>1, <1>2, <1>3, <1>4 DEF Next, UserStep, EventLoop, MicroTask, Peer, NativeStep

-----------------------------------------------------------------------------
(* The permits.                                                            *)

\* A permit belongs to one message of the channel or is free.
LEMMA StepBacklog ==
    ASSUME TypeOK, BacklogBounded, [Next]_vars, TypeOK'
    PROVE  BacklogBounded'
<1> DEFINE Held(s) == NumberOf(s, Entry({}))
<1>1. \A s \in Seq(Closure) : Places(s) = PlacesOf(s, Entry({}))
  <2> SUFFICES ASSUME NEW s \in Seq(Closure), NEW i \in DOMAIN s
               PROVE  IsMessage(s[i]) <=> s[i] \in Entry({})
    BY DEF Places, PlacesOf
  <2>1. s[i] \in Closure
    OBVIOUS
  <2> QED
    BY <2>1, MessageNumber
<1>2. chan \in Seq(Closure) /\ chan' \in Seq(Closure) /\ permits \in Int
  BY DEF TypeOK
<1>3. permits >= 0 /\ permits + Held(chan) = Buffer /\ Len(evq) <= Buffer
  BY <1>1, <1>2 DEF BacklogBounded, NumberOf
<1>4. Held(chan) \in Nat
  BY <1>2, PlacesFinite
<1>5. \A e \in Closure : Held(Append(chan, e)) = Held(chan) + (IF IsMessage(e) THEN 1 ELSE 0)
  BY <1>2, NumberOfAppend, MessageNumber
<1>6. chan # <<>> => Held(chan) = Held(Tail(chan)) + (IF IsMessage(Head(chan)) THEN 1 ELSE 0)
  <2> SUFFICES ASSUME chan # <<>>
               PROVE  Held(chan) = Held(Tail(chan)) + (IF IsMessage(Head(chan)) THEN 1 ELSE 0)
    OBVIOUS
  <2>1. Head(chan) \in Closure
    BY <1>2
  <2>2. Held(chan) = Held(Tail(chan)) + (IF Head(chan) \in Entry({}) THEN 1 ELSE 0)
    BY <1>2, NumberOfTail
  <2> QED
    BY <2>1, <2>2, MessageNumber
<1>7. chan # <<>> => Held(Tail(chan)) \in Nat
  <2>1. chan # <<>> => Tail(chan) \in Seq(Closure)
    BY <1>2
  <2> QED
    BY <2>1, PlacesFinite
<1>8. evq # <<>> => Len(Tail(evq)) <= Len(evq) /\ Len(evq) \in Nat /\ Len(Tail(evq)) \in Nat
  <2>1. \A q \in Seq(Queued) : q # <<>> =>
            Len(Tail(q)) <= Len(q) /\ Len(q) \in Nat /\ Len(Tail(q)) \in Nat
    OBVIOUS
  <2> QED
    BY <2>1 DEF TypeOK
<1>9. evq # <<>> => Head(evq) \in Closure
  <2>1. \A q \in Seq(Queued) : q # <<>> => Head(q) \in Queued
    OBVIOUS
  <2> QED
    BY <2>1, EntryTypes DEF TypeOK
<1>10. \A e : Len(Append(evq, e)) = Len(evq) + 1 /\ Len(evq) \in Nat
  BY DEF TypeOK
<1>11. ~IsMessage(Error) /\ ~IsMessage(Close) /\ Error \in Closure /\ Close \in Closure
  BY MessageNumber, EntryTypes
<1> HIDE DEF Held
<1> USE WebSocketAssumption
<1>12. permits' >= 0 /\ permits' + Held(chan') = Buffer /\ Len(evq') <= Buffer
  <2>1. CASE /\ UNCHANGED <<evq, hand, received, permits>>
             /\ \/ chan' = chan
                \/ \E e \in Closure : ~IsMessage(e) /\ chan' = Append(chan, e)
                \/ chan # <<>> /\ ~IsMessage(Head(chan)) /\ chan' = Tail(chan)
    <3>1. Held(chan') = Held(chan)
      <4>1. ASSUME NEW e \in Closure, ~IsMessage(e), chan' = Append(chan, e)
            PROVE  Held(chan') = Held(chan)
        BY <4>1, <1>4, <1>5
      <4>2. ASSUME chan # <<>>, ~IsMessage(Head(chan)), chan' = Tail(chan)
            PROVE  Held(chan') = Held(chan)
        BY <4>2, <1>6, <1>7
      <4> QED
        BY <2>1, <4>1, <4>2
    <3> QED
      BY <2>1, <3>1, <1>3
  <2>2. CASE OnMessage
    <3>1. chan # <<>> /\ IsMessage(Head(chan)) /\ chan' = Tail(chan)
      BY <2>2 DEF OnMessage, Runs, IsMessage
    <3>2. permits' = permits + 1 /\ evq' = evq
      BY <2>2 DEF OnMessage
    <3> QED
      BY <3>1, <3>2, <1>2, <1>3, <1>4, <1>6, <1>7
  <2>3. CASE ReadMessage \/ ReadClose \/ ReadError
    BY <2>3, <1>3 DEF ReadMessage, ReadClose, ReadError, pumpVars
  <2>4. CASE Queue
    <3>1. Len(evq) < Buffer /\ evq' = Append(evq, Head(hand)) /\ UNCHANGED <<permits, chan>>
      BY <2>4 DEF Queue
    <3> QED
      BY <3>1, <1>3, <1>10
  <2>5. CASE EmitMessage
    <3>1. /\ evq # <<>> /\ IsMessage(Head(evq)) /\ permits > 0 /\ permits' = permits - 1
          /\ evq' = Tail(evq) /\ chan' = Append(chan, Head(evq))
      BY <2>5 DEF EmitMessage
    <3>2. Held(chan') = Held(chan) + 1
      BY <3>1, <1>5, <1>9
    <3>3. Len(evq') <= Buffer
      BY <3>1, <1>3, <1>8
    <3> QED
      BY <3>1, <3>2, <3>3, <1>2, <1>3, <1>4
  <2>6. CASE EmitError \/ EmitClose
    <3>1. /\ evq # <<>> /\ evq' = Tail(evq) /\ permits' = permits
          /\ chan' = chan \/ chan' = Append(chan, Error) \/ chan' = Append(chan, Close)
      BY <2>6 DEF EmitError, EmitClose
    <3>2. /\ Held(Append(chan, Error)) = Held(chan)
          /\ Held(Append(chan, Close)) = Held(chan)
      BY <1>4, <1>5, <1>11
    <3>3. Held(chan') = Held(chan)
      BY <3>1, <3>2
    <3> QED
      BY <3>1, <3>3, <1>3, <1>8
  <2> QED
    BY <2>1, <2>2, <2>3, <2>4, <2>5, <2>6, Traffic
<1>13. NumberOf(chan', Entry({})) = Cardinality(Places(chan'))
  BY <1>1, <1>2 DEF NumberOf
<1> QED
  BY <1>12, <1>13 DEF BacklogBounded, Held

-----------------------------------------------------------------------------
(* The order of the messages.                                              *)

\* What is queued for the channel and the queue.
LEMMA WaySequences ==
    TypeOK => /\ chan \in Seq(Closure) /\ evq \in Seq(Closure) /\ hand \in Seq(Closure)
              /\ events \in Seq(Closure \cup Event) /\ pending \in Seq(Closure \cup Event)
              /\ pending \in Seq(Closure) /\ received \in Nat
              /\ evq \in Seq(Queued) /\ hand \in Seq(Queued)
<1>1. Queued \subseteq Closure /\ Entry({}) \subseteq Closure /\ Entry({}) \subseteq Event
  BY EntryTypes
<1>2. ASSUME NEW S, NEW T, S \subseteq T, NEW s \in Seq(S) PROVE s \in Seq(T)
  BY <1>2
<1> QED
  BY <1>1, <1>2 DEF TypeOK

\* How the messages that are on their way move: none does, the oldest is
\* handed to the listeners, a new one is read.
Passes ==
    \/ ~OnMessage /\ ~ReadMessage /\ WayIds' = WayIds /\ received' = received
    \/ /\ OnMessage /\ received' = received
       /\ \E n : /\ Head(chan) = Message(n)
                 /\ WayIds = WayIds' \cup {n}
                 /\ Below({n}, WayIds')
    \/ /\ ReadMessage
       /\ received' = received + 1
       /\ WayIds' = WayIds \cup {received + 1}

\* A queue whose head is taken is another queue.
LEMMA TailDiffers == ASSUME NEW S, NEW s \in Seq(S), s # <<>> PROVE Tail(s) # s
<1>1. Len(Tail(s)) # Len(s)
  OBVIOUS
<1> QED
  BY <1>1

\* Every step keeps the messages on their way in order.
LEMMA StepWay ==
    ASSUME TypeOK, WayInOrder, [Next]_vars
    PROVE  WayInOrder' /\ Passes
<1>1. /\ chan \in Seq(Closure) /\ evq \in Seq(Closure) /\ hand \in Seq(Closure)
      /\ evq \in Seq(Queued) /\ hand \in Seq(Queued) /\ received \in Nat
  BY WaySequences
<1>2. \A s \in Seq(Closure) : s # <<>> => Head(s) \in Closure
  OBVIOUS
<1>3. ~IsMessage(Error) /\ ~IsMessage(Close) /\ Error \in Closure /\ Close \in Closure
  BY MessageNumber, EntryTypes
<1>4. \A s : Keeps(s, s)
  BY DEF Keeps
<1>5. OnMessage => ~ReadMessage /\ chan # <<>> /\ IsMessage(Head(chan)) /\ chan' = Tail(chan)
                   /\ UNCHANGED <<evq, hand, received>>
  <2>1. ReadMessage => UNCHANGED chan
    BY DEF ReadMessage
  <2>2. chan # <<>> => Tail(chan) # chan
    BY TailDiffers, <1>1
  <2> QED
    BY <2>1, <2>2 DEF OnMessage, Runs, IsMessage, readVars
<1>6. ReadMessage => hand = <<>> /\ hand' = <<Message(received + 1)>>
                     /\ received' = received + 1 /\ UNCHANGED <<chan, evq>>
  BY DEF ReadMessage, ReceiverReads, pumpVars
<1>7. ASSUME Keeps(chan, chan'), Keeps(evq, evq'), Keeps(hand, hand'), received' = received
      PROVE  WayInOrder' /\ WayIds' = WayIds
  BY <1>7 DEF Keeps, WayInOrder, WayIds
<1>8. ASSUME Keeps(chan, chan'), Keeps(evq, evq'), Keeps(hand, hand'), received' = received,
             ~OnMessage
      PROVE  WayInOrder' /\ Passes
  <2>1. ~ReadMessage
    BY <1>6, <1>8, <1>1
  <2> QED
    BY <1>7, <1>8, <2>1 DEF Passes
<1>9. CASE OnMessage
  <2>1. PICK n : Head(chan) = Message(n)
    BY <1>1, <1>2, <1>5, <1>9, MessageNumber
  <2>2. Gives(chan, chan', n)
    BY <2>1, <1>1, <1>5, <1>9, IdsTail
  <2>3. Ids(evq') = Ids(evq) /\ Ids(hand') = Ids(hand) /\ InOrder(evq') /\ InOrder(hand')
    BY <1>5, <1>9 DEF WayInOrder
  <2>4. WayInOrder'
    BY <2>2, <2>3, <1>5, <1>9 DEF Gives, WayInOrder, WayIds, Below
  <2>5. WayIds = WayIds' \cup {n} /\ Below({n}, WayIds')
    BY <2>2, <2>3 DEF Gives, WayInOrder, WayIds, Below
  <2> QED
    BY <2>1, <2>4, <2>5, <1>5, <1>9 DEF Passes
<1>10. CASE ReadMessage
  <2>1. /\ Ids(chan') = Ids(chan) /\ Ids(evq') = Ids(evq) /\ InOrder(chan') /\ InOrder(evq')
        /\ Ids(hand) = {}
    BY <1>6, <1>10, IdsFew DEF WayInOrder
  <2>2. Ids(hand') = {received + 1} /\ InOrder(hand')
    BY <1>6, <1>10, IdsFew
  <2>3. WayIds' = WayIds \cup {received + 1}
    BY <2>1, <2>2 DEF WayIds
  <2>4. WayIds' \subseteq 1..received'
    BY <2>3, <1>1, <1>6, <1>10 DEF WayInOrder
  <2>5. Below(Ids(chan), {received + 1}) /\ Below(Ids(evq), {received + 1})
    BY <1>1 DEF Below, WayInOrder, WayIds
  <2>6. WayInOrder'
    BY <2>1, <2>2, <2>4, <2>5 DEF WayInOrder
  <2> QED
    BY <2>3, <2>6, <1>5, <1>6, <1>10 DEF Passes
<1>11. CASE Queue
  <2>1. /\ hand # <<>> /\ evq' = Append(evq, Head(hand)) /\ hand' = Tail(hand)
        /\ UNCHANGED <<chan, received>>
    BY <1>11 DEF Queue
  <2>2. ~OnMessage /\ ~ReadMessage
    <3>1. hand' # hand
      BY TailDiffers, <2>1, <1>1
    <3> QED
      BY <2>1, <3>1, <1>5, <1>6
  <2>3. CASE ~IsMessage(Head(hand))
    <3>1. Keeps(evq, evq') /\ Keeps(hand, hand')
      BY <2>1, <2>3, <1>1, <1>2, IdsAppend, IdsTail
    <3> QED
      BY <3>1, <2>1, <2>2, <1>4, <1>8
  <2>4. CASE IsMessage(Head(hand))
    <3>1. PICK n : Head(hand) = Message(n)
      BY <1>1, <1>2, <2>1, <2>4, MessageNumber
    <3>2. Gives(hand, hand', n) /\ Gains(evq, evq', n)
      BY <2>1, <3>1, <1>1, <1>2, IdsAppend, IdsTail
    <3>3. /\ Below(Ids(chan), Ids(evq')) /\ Below(Ids(chan), Ids(hand'))
          /\ Below(Ids(evq'), Ids(hand')) /\ Below(Ids(evq), {n})
          /\ Ids(chan) \cup Ids(evq') \cup Ids(hand') = WayIds
      BY <3>2 DEF Gives, Gains, WayInOrder, WayIds, Below
    <3>4. InOrder(evq') /\ InOrder(hand')
      BY <3>2, <3>3 DEF Gives, Gains, WayInOrder
    <3>5. Ids(chan') = Ids(chan) /\ InOrder(chan')
      BY <2>1 DEF WayInOrder
    <3>6. WayIds' = WayIds
      BY <3>3, <3>5 DEF WayIds
    <3>7. WayInOrder'
      BY <3>3, <3>4, <3>5, <3>6, <2>1 DEF WayInOrder
    <3> QED
      BY <3>6, <3>7, <2>1, <2>2 DEF Passes
  <2> QED
    BY <2>3, <2>4
<1>12. CASE EmitMessage
  <2>1. /\ evq # <<>> /\ IsMessage(Head(evq)) /\ chan' = Append(chan, Head(evq))
        /\ evq' = Tail(evq) /\ UNCHANGED <<hand, received>>
    BY <1>12 DEF EmitMessage, readVars
  <2>2. ~OnMessage /\ ~ReadMessage
    <3>1. evq' # evq
      BY TailDiffers, <2>1, <1>1
    <3> QED
      BY <2>1, <3>1, <1>5, <1>6
  <2>3. PICK n : Head(evq) = Message(n)
    BY <1>1, <1>2, <2>1, MessageNumber
  <2>4. Gives(evq, evq', n) /\ Gains(chan, chan', n)
    BY <2>1, <2>3, <1>1, <1>2, IdsAppend, IdsTail
  <2>5. Ids(hand') = Ids(hand) /\ InOrder(hand')
    BY <2>1 DEF WayInOrder
  <2>6. /\ Below(Ids(chan'), Ids(evq')) /\ Below(Ids(chan'), Ids(hand))
        /\ Below(Ids(evq'), Ids(hand)) /\ Below(Ids(chan), {n})
        /\ Ids(chan') \cup Ids(evq') \cup Ids(hand) = WayIds
    BY <2>4 DEF Gives, Gains, WayInOrder, WayIds, Below
  <2>7. InOrder(evq') /\ InOrder(chan')
    BY <2>4, <2>6 DEF Gives, Gains, WayInOrder
  <2>8. WayIds' = WayIds
    BY <2>5, <2>6 DEF WayIds
  <2>9. WayInOrder'
    BY <2>1, <2>5, <2>6, <2>7, <2>8 DEF WayInOrder
  <2> QED
    BY <2>1, <2>2, <2>8, <2>9 DEF Passes
<1>13. CASE EmitError \/ EmitClose
  <2>1. /\ evq # <<>> /\ Head(evq) \in {Error, Close} /\ evq' = Tail(evq)
        /\ UNCHANGED <<hand, received>>
        /\ chan' = chan \/ chan' = Append(chan, Error) \/ chan' = Append(chan, Close)
    BY <1>13 DEF EmitError, EmitClose, readVars
  <2>2. Keeps(evq, evq')
    BY <2>1, <1>1, <1>3, IdsTail
  <2>3. Keeps(chan, chan')
    BY <2>1, <1>1, <1>3, <1>4, IdsAppend
  <2>4. ~OnMessage
    <3>1. evq' # evq
      BY TailDiffers, <2>1, <1>1
    <3> QED
      BY <3>1, <1>5
  <2> QED
    BY <2>1, <2>2, <2>3, <2>4, <1>4, <1>8
<1>14. CASE ReadClose \/ ReadError
  <2>1. /\ hand = <<>> /\ (hand' = <<Close>> \/ hand' = <<Error, Close>>)
        /\ UNCHANGED <<chan, evq, received>>
    BY <1>14 DEF ReadClose, ReadError, ReceiverReads, pumpVars
  <2>2. Ids(<<Close>>) = {} /\ InOrder(<<Close>>)
    BY <1>3, IdsFew
  <2>3. Ids(<<Error, Close>>) = {} /\ InOrder(<<Error, Close>>)
    <3>1. <<Error, Close>> = Append(<<Error>>, Close) /\ <<Error>> \in Seq(Closure)
      BY <1>3
    <3>2. Keeps(<<Error>>, Append(<<Error>>, Close))
      BY <3>1, <1>3, IdsAppend
    <3> QED
      BY <3>1, <3>2, <1>3, IdsFew DEF Keeps
  <2>4. Keeps(hand, hand')
    BY <2>1, <2>2, <2>3, IdsFew DEF Keeps
  <2>5. ~OnMessage
    <3>1. chan # <<>> => Tail(chan) # chan
      BY TailDiffers, <1>1
    <3> QED
      BY <3>1, <2>1, <1>5
  <2> QED
    BY <2>1, <2>4, <2>5, <1>4, <1>8
<1>15. CASE /\ ~OnMessage
            /\ UNCHANGED <<evq, hand, received, permits>>
            /\ \/ chan' = chan
               \/ \E e \in Closure : ~IsMessage(e) /\ chan' = Append(chan, e)
               \/ chan # <<>> /\ ~IsMessage(Head(chan)) /\ chan' = Tail(chan)
  <2>1. Keeps(chan, chan')
    BY <1>15, <1>1, <1>4, IdsAppend, IdsTail
  <2> QED
    BY <2>1, <1>15, <1>4, <1>8
<1> QED
  BY <1>9, <1>10, <1>11, <1>12, <1>13, <1>14, <1>15, Traffic
\* A listener sees e, then what t holds.
LEMMA SeenThen ==
    ASSUME NEW S, NEW s \in Seq(S), NEW e \in S, ~IsMessage(e), NEW t \in Seq(S)
    PROVE  /\ Ids(Append(s, e) \o t) = Ids(s) \cup Ids(t)
           /\ InOrder(s) /\ InOrder(t) /\ Below(Ids(s), Ids(t)) =>
                  InOrder(Append(s, e) \o t)
<1> DEFINE u == Append(s, e)
<1>1. u \in Seq(S)
  OBVIOUS
<1>2. Keeps(s, u)
  BY IdsAppend
<1> HIDE DEF u
<1>3. /\ Ids(u \o t) = Ids(u) \cup Ids(t)
      /\ InOrder(u \o t) <=> InOrder(u) /\ InOrder(t) /\ Below(Ids(u), Ids(t))
  BY <1>1, IdsConcat
<1>4. Ids(u \o t) = Ids(s) \cup Ids(t)
  BY <1>2, <1>3 DEF Keeps
<1>5. InOrder(s) /\ InOrder(t) /\ Below(Ids(s), Ids(t)) => InOrder(u \o t)
  BY <1>2, <1>3 DEF Keeps
<1> QED
  BY <1>4, <1>5 DEF u

\* What finalizeClosed shows the listeners is no message.
LEMMA FinalizeSeen ==
    ASSUME TypeOK, SeenInOrder, NEW first \in {<<>>, <<Error>>}, FinalizeClosed(first)
    PROVE  /\ Ids(events') = Ids(events) /\ InOrder(events')
           /\ pending' = <<>> /\ closed'
<1> DEFINE S == Closure \cup Event
           shown == events \o first
<1>1. events \in Seq(S)
  BY WaySequences
<1>2. Error \in S /\ Close \in S /\ ~IsMessage(Error) /\ ~IsMessage(Close)
  BY EntryTypes, MessageNumber
<1> HIDE DEF S
<1>3. shown = events \/ shown = Append(events, Error)
  <2>1. events \o <<>> = events /\ events \o <<Error>> = Append(events, Error)
    BY <1>1, <1>2
  <2>2. first = <<>> \/ first = <<Error>>
    OBVIOUS
  <2> QED
    BY <2>1, <2>2
<1>4. shown \in Seq(S)
  <2>1. Append(events, Error) \in Seq(S)
    BY <1>1, <1>2
  <2> QED
    BY <2>1, <1>1, <1>3
<1>5. events' = shown \/ events' = Append(shown, Close)
  <2>1. events' = shown \o (IF closed THEN <<>> ELSE <<Close>>)
    BY DEF FinalizeClosed
  <2> HIDE DEF shown
  <2>2. shown \o <<>> = shown /\ shown \o <<Close>> = Append(shown, Close)
    BY <1>2, <1>4
  <2> QED
    BY <2>1, <2>2
<1>6. Keeps(events, shown)
  BY <1>1, <1>2, <1>3, IdsAppend DEF Keeps
<1> HIDE DEF shown
<1>7. Keeps(shown, events')
  BY <1>2, <1>4, <1>5, IdsAppend DEF Keeps
<1>8. pending' = <<>> /\ closed'
  BY DEF FinalizeClosed, SeenInOrder
<1> QED
  BY <1>6, <1>7, <1>8 DEF Keeps, SeenInOrder

\* What DispatchOpen dispatches behind the open event is what was held back.
LEMMA DispatchSeen ==
    ASSUME TypeOK, SeenInOrder, DispatchOpen, Waiting
    PROVE  /\ opened' /\ pending' = <<>> /\ UNCHANGED <<ready, closed>>
           /\ Ids(events') = Ids(events) \cup Ids(pending)
           /\ InOrder(events')
<1> DEFINE S == Closure \cup Event
<1>1. events \in Seq(S) /\ pending \in Seq(S)
  BY WaySequences
<1>2. Opened \in S /\ ~IsMessage(Opened)
  BY EntryTypes, MessageNumber
<1> HIDE DEF S
<1>3. closed => pending = <<>>
  BY DEF SeenInOrder
<1>4. events' = events \o <<Opened>> \o pending
  BY <1>3 DEF DispatchOpen, Waiting
<1>5. events \o <<Opened>> = Append(events, Opened)
  BY <1>1, <1>2
<1>6. Ids(events') = Ids(events) \cup Ids(pending) /\ InOrder(events')
  <2>1. Below(Ids(events), Ids(pending)) /\ InOrder(events) /\ InOrder(pending)
    BY DEF SeenInOrder
  <2>2. /\ Ids(Append(events, Opened) \o pending) = Ids(events) \cup Ids(pending)
        /\ InOrder(Append(events, Opened) \o pending)
    BY <2>1, <1>1, <1>2, SeenThen
  <2> QED
    BY <2>2, <1>4, <1>5
<1>7. opened' /\ pending' = <<>> /\ UNCHANGED <<ready, closed>>
  BY <1>3 DEF DispatchOpen, Waiting
<1> QED
  BY <1>6, <1>7

\* Every step keeps what the listeners see in order.
LEMMA StepSeen ==
    ASSUME TypeOK, WayInOrder, SeenInOrder, [Next]_vars
    PROVE  SeenInOrder'
<1>1. received \in Nat /\ ready \in ReadyState
  BY WaySequences DEF TypeOK
<1>2. Ids(<<>>) = {} /\ InOrder(<<>>)
  BY IdsFew
<1>3. Passes
  BY StepWay
<1>4. CASE OnMessage
  <2>1. received' = received
    BY <1>3, <1>4 DEF Passes, OnMessage, readVars
  <2>2. PICK n : /\ Head(chan) = Message(n)
                 /\ WayIds = WayIds' \cup {n}
                 /\ Below({n}, WayIds')
    <3>1. ~ReadMessage
      BY <1>3, <1>4 DEF Passes, ReadMessage, OnMessage, Runs, readVars
    <3> QED
      BY <1>3, <1>4, <3>1 DEF Passes
  <2>3. UNCHANGED <<ready, closed, opened>>
    BY <1>4 DEF OnMessage, flagVars
  <2>4. CASE closed
    <3>1. UNCHANGED <<events, pending>>
      BY <1>4, <2>4 DEF OnMessage
    <3> QED
      BY <2>1, <2>2, <2>3, <2>4, <3>1 DEF SeenInOrder, Waiting, Below
  <2>5. CASE ~closed /\ Waiting
    <3>1. pending' = Append(pending, Message(n)) /\ events' = events
      BY <1>4, <2>2, <2>5 DEF OnMessage, Waiting
    <3>2. Gains(pending, pending', n)
      <4>1. Message(n) \in Closure
        <5>1. chan \in Seq(Closure) /\ chan # <<>>
          BY <1>4, WaySequences DEF OnMessage, Runs
        <5> QED
          BY <5>1, <2>2
      <4> QED
        BY <3>1, <4>1, WaySequences, IdsAppend
    <3>3. Below(Ids(pending), {n}) /\ n \in 1..received
      BY <2>2, <2>5 DEF SeenInOrder, WayInOrder, Below
    <3>4. /\ InOrder(pending') /\ InOrder(events')
          /\ Ids(pending') = Ids(pending) \cup {n} /\ Ids(events') = Ids(events)
      BY <3>1, <3>2, <3>3 DEF SeenInOrder, Gains
    <3>5. /\ Ids(events') \subseteq 1..received' /\ Ids(pending') \subseteq 1..received'
          /\ Below(Ids(events'), WayIds')
      BY <2>1, <2>2, <3>3, <3>4 DEF SeenInOrder, Below
    <3>6. Below(Ids(events'), Ids(pending')) /\ Below(Ids(pending'), WayIds')
      BY <2>2, <2>5, <3>4 DEF SeenInOrder, Below
    <3>7. ~closed' /\ Waiting'
      BY <2>3, <2>5 DEF Waiting
    <3>8. Ids(events') \cup Ids(pending') \cup WayIds' = 1..received'
      BY <2>1, <2>2, <2>5, <3>4 DEF SeenInOrder, Waiting
    <3> QED
      BY <3>4, <3>5, <3>6, <3>7, <3>8 DEF SeenInOrder, Waiting
  <2>6. CASE ~closed /\ ~Waiting
    <3>1. events' = Append(events, Message(n)) /\ pending' = pending
      BY <1>4, <2>2, <2>6 DEF OnMessage, Waiting
    <3>2. Gains(events, events', n)
      <4>1. Message(n) \in Closure
        <5>1. chan \in Seq(Closure) /\ chan # <<>>
          BY <1>4, WaySequences DEF OnMessage, Runs
        <5> QED
          BY <5>1, <2>2
      <4> QED
        BY <3>1, <4>1, WaySequences, IdsAppend
    <3>3. Below(Ids(events), {n}) /\ n \in 1..received
      BY <2>2 DEF SeenInOrder, WayInOrder, Below
    <3>4. /\ InOrder(pending') /\ InOrder(events')
          /\ Ids(pending') = Ids(pending) /\ Ids(events') = Ids(events) \cup {n}
      BY <3>1, <3>2, <3>3 DEF SeenInOrder, Gains
    <3>5. /\ Ids(events') \subseteq 1..received' /\ Ids(pending') \subseteq 1..received'
          /\ Below(Ids(events'), WayIds')
      BY <2>1, <2>2, <3>3, <3>4 DEF SeenInOrder, Below
    <3>6. ~Waiting'
      BY <2>3, <2>6 DEF Waiting
    <3>7. pending' # <<>> => ~opened' /\ ~closed' /\ ready' \in {"OPEN", "CLOSING"}
      BY <2>3, <3>1 DEF SeenInOrder
    <3>8. opened' \/ ready' # "CLOSING" =>
              Ids(events') \cup Ids(pending') \cup WayIds' = 1..received'
      BY <2>1, <2>2, <2>3, <2>6, <3>4 DEF SeenInOrder
    <3> QED
      BY <3>4, <3>5, <3>6, <3>7, <3>8 DEF SeenInOrder
  <2> QED
    BY <2>4, <2>5, <2>6
<1>5. CASE ReadMessage
  <2>1. UNCHANGED <<events, pending, ready, opened, closed>>
    BY <1>5 DEF ReadMessage, jsVars, finalVars, flagVars
  <2>2. WayIds' = WayIds \cup {received + 1} /\ received' = received + 1
    BY <1>3, <1>5 DEF Passes, OnMessage, ReadMessage, readVars, Runs
  <2>3. /\ Ids(events') = Ids(events) /\ Ids(pending') = Ids(pending)
        /\ InOrder(events') /\ InOrder(pending') /\ Waiting' = Waiting
    BY <2>1 DEF Waiting, SeenInOrder
  <2>4. Below(Ids(events), {received + 1}) /\ Below(Ids(pending), {received + 1})
    BY <1>1 DEF SeenInOrder, Below
  <2>5. /\ Ids(events') \subseteq 1..received' /\ Ids(pending') \subseteq 1..received'
    BY <1>1, <2>2, <2>3 DEF SeenInOrder
  <2>6. /\ Below(Ids(events'), WayIds')
        /\ Waiting' => Below(Ids(events'), Ids(pending')) /\ Below(Ids(pending'), WayIds')
    BY <2>2, <2>3, <2>4 DEF SeenInOrder, Below
  <2>7. ~closed' /\ (opened' \/ ready' # "CLOSING") =>
           Ids(events') \cup Ids(pending') \cup WayIds' = 1..received'
    <3>1. 1..(received + 1) = 1..received \cup {received + 1}
      BY <1>1
    <3> QED
      BY <2>1, <2>2, <2>3, <3>1 DEF SeenInOrder
  <2>8. pending' # <<>> => ~opened' /\ ~closed' /\ ready' \in {"OPEN", "CLOSING"}
    BY <2>1 DEF SeenInOrder
  <2> QED
    BY <2>3, <2>5, <2>6, <2>7, <2>8 DEF SeenInOrder
<1>6. CASE ~OnMessage /\ ~ReadMessage
  <2>1. WayIds' = WayIds /\ received' = received
    BY <1>3, <1>6 DEF Passes
  <2>2. CASE UNCHANGED <<events, pending, ready, opened, closed>>
    BY <2>1, <2>2 DEF SeenInOrder, Waiting
  <2>3. CASE \E first \in {<<>>, <<Error>>} : FinalizeClosed(first) /\ opened' = opened
    <3>1. /\ Ids(events') = Ids(events) /\ InOrder(events')
          /\ pending' = <<>> /\ closed'
      BY <2>3, FinalizeSeen
    <3> QED
      BY <2>1, <3>1, <1>2 DEF SeenInOrder, Below
  <2>4. CASE /\ UNCHANGED <<events, pending, opened, closed>>
             /\ ready # "CLOSING" /\ ready' = "OPEN"
    <3>1. Waiting' => Waiting \/ pending = <<>>
      BY <2>4 DEF Waiting, SeenInOrder
    <3> QED
      BY <2>1, <2>4, <3>1, <1>2 DEF SeenInOrder, Below
  <2>5. CASE /\ UNCHANGED <<events, pending, opened, closed>>
             /\ ready \in {"CONNECTING", "OPEN"} /\ ready' = "CLOSING"
    BY <2>1, <2>5 DEF SeenInOrder, Waiting
  <2>6. CASE OnError
    <3>1. events' = Append(events, Error) /\ UNCHANGED <<pending, ready, opened, closed>>
      BY <2>6 DEF OnError, flagVars
    <3>2. Keeps(events, events')
      <4>1. Error \in Closure \cup Event /\ ~IsMessage(Error)
        BY EntryTypes, MessageNumber
      <4> QED
        BY <3>1, <4>1, WaySequences, IdsAppend
    <3> QED
      BY <2>1, <3>1, <3>2 DEF SeenInOrder, Waiting, Keeps
  <2>7. CASE DispatchOpen /\ Waiting
    <3>1. /\ opened' /\ pending' = <<>> /\ UNCHANGED <<ready, closed>>
          /\ Ids(events') = Ids(events) \cup Ids(pending)
          /\ InOrder(events')
      BY <2>7, DispatchSeen
    <3> QED
      BY <2>1, <2>7, <3>1, <1>2 DEF SeenInOrder, Below, Waiting
  <2>8. CASE DispatchOpen /\ ~Waiting
    <3>1. UNCHANGED <<events, pending, ready, opened, closed>>
      BY <2>8 DEF DispatchOpen, Waiting
    <3> QED
      BY <2>1, <3>1 DEF SeenInOrder, Waiting
  <2> QED
    BY <1>6, <2>2, <2>3, <2>4, <2>5, <2>6, <2>7, <2>8, Listeners
<1> QED
  BY <1>4, <1>5, <1>6

\* What the listeners saw, what is held back and what is on its way, as one.
LEMMA FlowInOrder == TypeOK /\ WayInOrder /\ SeenInOrder => MessagesInOrder
<1> SUFFICES ASSUME TypeOK, WayInOrder, SeenInOrder PROVE MessagesInOrder
  OBVIOUS
<1> DEFINE S == Closure \cup Event
           a == events \o pending
           b == a \o chan
           c == b \o evq
<1>1. /\ events \in Seq(S) /\ pending \in Seq(S) /\ chan \in Seq(S)
      /\ evq \in Seq(S) /\ hand \in Seq(S)
  BY WaySequences
<1>2. a \in Seq(S) /\ b \in Seq(S) /\ c \in Seq(S)
  BY <1>1
<1>3. Flow = c \o hand
  BY DEF Flow
<1> HIDE DEF S, a, b, c
<1>4. /\ Ids(a) = Ids(events) \cup Ids(pending)
      /\ InOrder(a) <=> InOrder(events) /\ InOrder(pending) /\ Below(Ids(events), Ids(pending))
  BY <1>1, IdsConcat DEF a
<1>5. /\ Ids(b) = Ids(a) \cup Ids(chan)
      /\ InOrder(b) <=> InOrder(a) /\ InOrder(chan) /\ Below(Ids(a), Ids(chan))
  BY <1>1, <1>2, IdsConcat DEF b
<1>6. /\ Ids(c) = Ids(b) \cup Ids(evq)
      /\ InOrder(c) <=> InOrder(b) /\ InOrder(evq) /\ Below(Ids(b), Ids(evq))
  BY <1>1, <1>2, IdsConcat DEF c
<1>7. /\ Ids(Flow) = Ids(c) \cup Ids(hand)
      /\ InOrder(Flow) <=> InOrder(c) /\ InOrder(hand) /\ Below(Ids(c), Ids(hand))
  BY <1>1, <1>2, <1>3, IdsConcat
<1>8. ASSUME ~closed, opened \/ ready # "CLOSING"
      PROVE  InOrder(Flow) /\ Ids(Flow) = 1..received
  <2>1. Ids(Flow) = 1..received
    BY <1>4, <1>5, <1>6, <1>7, <1>8 DEF SeenInOrder, WayIds
  <2>2. Waiting \/ pending = <<>>
    BY <1>8 DEF SeenInOrder, Waiting
  <2>3. Below(Ids(events), Ids(pending)) /\ Below(Ids(pending), WayIds)
    BY <2>2, IdsFew DEF SeenInOrder, Below
  <2>4. InOrder(a)
    BY <2>3, <1>4 DEF SeenInOrder
  <2>5. InOrder(b)
    BY <2>3, <2>4, <1>4, <1>5 DEF SeenInOrder, WayInOrder, WayIds, Below
  <2>6. InOrder(c)
    BY <2>3, <2>5, <1>4, <1>5, <1>6 DEF SeenInOrder, WayInOrder, WayIds, Below
  <2>7. InOrder(Flow)
    BY <2>3, <2>6, <1>4, <1>5, <1>6, <1>7 DEF SeenInOrder, WayInOrder, WayIds, Below
  <2> QED
    BY <2>1, <2>7
<1>9. InOrder(events)
  BY DEF SeenInOrder
<1> QED
  BY <1>8, <1>9 DEF MessagesInOrder

-----------------------------------------------------------------------------
(* The theorems.                                                           *)

\* A new WebSocket satisfies the invariant.
LEMMA InitInvariant == Init => WInv
<1> SUFFICES ASSUME Init PROVE WInv
  OBVIOUS
<1> USE WebSocketAssumption DEF Init
<1>1. TypeOK
  <2>1. \A S : <<>> \in Seq(S)
    OBVIOUS
  <2>2. {connection, opened, openQueued, closed, closeStarted, tracked,
         registered, emitted} \subseteq BOOLEAN
    BY Zenon
  <2>3. accepted \in 0..MaxSends /\ received \in 0..MaxMessages /\ permits \in Int
    OBVIOUS
  <2> QED
    BY <2>1, <2>2, <2>3 DEF TypeOK, ReadyState
<1>2. Connecting /\ Replies /\ Closing /\ Ends
  BY HasNothing DEF Connecting, Replies, Closing, Ends
<1>3. OneSend /\ CloseReachesNative /\ Sends
  BY DEF OneSend, CloseReachesNative, Sends, SendOrder
<1>4. Quiet
  BY HasNothing DEF Quiet, QuietAfterClose
<1> QED
  BY <1>1, <1>2, <1>3, <1>4 DEF WInv

\* WInv is inductive.
THEOREM Invariant == Spec => []WInv
<1>1. WInv /\ [Next]_vars => WInv'
  BY StepTypes, StepConnecting, StepReplies, StepOneSend, StepClosing, StepEnd,
     StepQuiet, StepSends DEF WInv
<1> QED
  BY <1>1, InitInvariant, PTL DEF Spec

\* The WebSocket object and its native tasks keep their types.
THEOREM TypeCorrect == Spec => []TypeOK
<1>1. WInv => TypeOK
  BY DEF WInv
<1> QED
  BY <1>1, Invariant, PTL

\* After the close event of finalizeClosed no listener sees a message event or
\* a second close event, whoever ended the socket.
THEOREM QuietForever == Spec => []QuietAfterClose
<1>1. WInv => QuietAfterClose
  BY DEF WInv, Quiet
<1> QED
  BY <1>1, Invariant, PTL

\* A socket without close event has something that brings one, and an early
\* close() is carried out once there is a connection.
THEOREM EndAlwaysUnderWay == Spec => []EndIsUnderWay
<1>1. WInv => CloseGuaranteed
  BY DEF WInv, Ends, CloseGuaranteed, Has
<1>2. WInv => CloseReachesNative
  BY DEF WInv
<1> QED
  BY <1>1, <1>2, Invariant, PTL DEF EndIsUnderWay

\* _sendChain: frames go out in the order of the send() calls.
THEOREM SendsInOrder == Spec => []SendOrder
<1>1. WInv => SendOrder
  BY DEF WInv, Sends
<1> QED
  BY <1>1, Invariant, PTL

\* Whoever ends the socket, its entry of WS_CONNECTIONS is gone or its tasks
\* are about to remove it; only a failed send is an exception.
THEOREM ReleasedOtherwise == Spec => ReleasedUnlessSendFails
<1> DEFINE Released ==
        ~closed /\ closed' /\ sendChain' = sendChain => ~registered' \/ receiver' # "reading"
<1>1. WInv /\ [Next]_vars => [Released]_vars
  <2> SUFFICES ASSUME WInv, Next, ~closed, closed', sendChain' = sendChain
               PROVE  ~registered' \/ receiver' # "reading"
    BY DEF Released
  <2> USE DEF WInv
  <2>1. CASE ConnectThrows
    BY <2>1 DEF ConnectThrows, Connecting
  <2>2. CASE ConnectedTooLate
    BY <2>2 DEF ConnectedTooLate, connVars
  <2>3. CASE Refused
    BY <2>3, ChanRuns DEF Refused, Connecting, connVars
  <2>4. CASE OnClose
    BY <2>4, ChanRuns DEF OnClose, Closing, readVars, TypeOK
  <2>5. CASE CloseReplied
    <3>1. Has(chan, {"closeOk", "closeFailed"})
      BY <2>5, ChanRuns DEF CloseReplied
    <3> QED
      BY <2>5, <3>1 DEF CloseReplied, Replies, connVars
  <2>6. CASE StartSendFails \/ SendReplied
    <3>1. sendChain \in Seq(1..MaxSends) /\ Len(sendChain) > 0 /\ sendChain' = Tail(sendChain)
      BY <2>6, ChanRuns DEF StartSendFails, SendReplied, Replies, TypeOK
    <3>2. Len(Tail(sendChain)) = Len(sendChain) - 1 /\ Len(sendChain) \in Nat
      <4>1. sendChain # <<>>
        BY SMTT(40), <3>1
      <4> QED
        BY <3>1, <4>1
    <3>3. Len(Tail(sendChain)) # Len(sendChain)
      BY <3>2
    <3> QED
      BY <3>1, <3>3
  <2>7. CASE UNCHANGED closed
    BY <2>7
  <2>8. \/ ConnectThrows \/ ConnectedTooLate \/ Refused \/ OnClose \/ CloseReplied
        \/ StartSendFails \/ SendReplied \/ UNCHANGED closed
    BY DEF Next, UserStep, EventLoop, MicroTask, Peer, NativeStep, jsVars, nativeVars,
           finalVars, Connect, Connected, ConnectedClosing, DispatchOpen, OnMessage,
           OnError, CloseEarly, CloseOpen, CloseThrows, SendCalled, StartSend,
           UpgradeFails, Upgrade, SettleConnect, ReadMessage, ReadClose, ReadError,
           Queue, ReceiverEnds, EmitMessage, EmitError, EmitClose, DispatcherEnds,
           WriteMessage, WriteClose, ReplyClose
  <2> QED
    BY <2>1, <2>2, <2>3, <2>4, <2>5, <2>6, <2>7, <2>8
<1> QED
  BY <1>1, Invariant, PTL DEF Spec, ReleasedUnlessSendFails

\* Every permit of the semaphore is free or belongs to one message of the
\* channel, and the queue never exceeds WS_EVENT_BUFFER.
THEOREM BacklogIsBounded == Spec => []BacklogBounded
<1>1. Init => BacklogBounded
  <2> SUFFICES ASSUME Init PROVE BacklogBounded
    OBVIOUS
  <2>1. Places(<<>>) = {}
    BY DEF Places
  <2>2. Cardinality(Places(<<>>)) = 0
    BY <2>1, FS_EmptySet
  <2>3. chan = <<>> /\ evq = <<>> /\ permits = Buffer /\ Len(<<>>) = 0
    BY DEF Init
  <2> QED
    BY <2>2, <2>3, WebSocketAssumption DEF BacklogBounded
<1>2. WInv /\ WInv' /\ BacklogBounded /\ [Next]_vars => BacklogBounded'
  BY StepBacklog DEF WInv
<1> QED
  BY <1>1, <1>2, Invariant, PTL DEF Spec

\* Messages reach the listeners in the order of the peer, none twice and, but
\* for a close() between the connect and the open event, none lost before the
\* close event; frames go out in the order of the send() calls.
THEOREM MessagesAndSendsInOrder == Spec => []InOrderBothWays
<1>1. Init => WayInOrder /\ SeenInOrder
  <2> SUFFICES ASSUME Init PROVE WayInOrder /\ SeenInOrder
    OBVIOUS
  <2>1. /\ chan = <<>> /\ evq = <<>> /\ hand = <<>> /\ events = <<>> /\ pending = <<>>
        /\ received = 0 /\ Ids(<<>>) = {} /\ InOrder(<<>>)
    BY IdsFew DEF Init
  <2>2. WayIds = {} /\ WayInOrder
    BY <2>1 DEF WayInOrder, WayIds, Below
  <2>3. 1..0 = {}
    OBVIOUS
  <2>4. SeenInOrder
    BY <2>1, <2>2, <2>3 DEF SeenInOrder, Below
  <2> QED
    BY <2>2, <2>4
<1>2. WInv /\ WayInOrder /\ SeenInOrder /\ [Next]_vars => WayInOrder' /\ SeenInOrder'
  BY StepWay, StepSeen DEF WInv
<1>3. WInv /\ WayInOrder /\ SeenInOrder => InOrderBothWays
  BY FlowInOrder DEF WInv, Sends, InOrderBothWays
<1> QED
  BY <1>1, <1>2, <1>3, Invariant, PTL DEF Spec
=============================================================================
