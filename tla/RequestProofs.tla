---------------------------- MODULE RequestProofs ----------------------------
(***************************************************************************)
(* The safety of Request for any number of requests, any of them observed, *)
(* with a signal or with a timeout.  The proof is by one inductive         *)
(* invariant, IInv: the properties of Request and, in Lifecycle, how the   *)
(* promise, the native task and its result move together.                  *)
(***************************************************************************)
EXTENDS Request, SequenceTheorems, TLAPS

\* The phases of one request.  A promise is settled natively only by a task
\* that is over, aborted only under an aborted signal, and a task has a result
\* exactly from the moment its select! is over.
Phases(r) ==
    /\ js[r] \in {"idle", "threw"} => native[r] = "none"
    /\ js[r] = "idle" => r \notin cancelled
    /\ js[r] \in {"resolved", "failed"} => native[r] = "done"
    /\ js[r] = "aborted" => signal[r] = "aborted"
    /\ native[r] \in {"none"} \cup AwaitPoint => result[r] = "none"

Lifecycle == \A r \in Requests : Phases(r)

\* ListenerScope, for one request.
ListenerScopeOf(r) ==
    /\ r \in listener => js[r] \in {"pending", "threw"}
    /\ r \in unhandled => js[r] = "threw"

\* BodyHasOwner, for one request.
OwnedBody(r) ==
    stream[r] = "stored" =>
        \/ js[r] = "resolved"
        \/ js[r] = "pending" /\ (native[r] = "finishing" \/ chan[r] # <<>>)
        \/ js[r] = "aborted" /\ signal[r] = "aborted"

IInv ==
    /\ TypeOK
    /\ Lifecycle
    /\ PromiseKept
    /\ RegistryScope
    /\ AbortReachesNative
    /\ ListenerScope
    /\ FailureStoresNoBody
    /\ BodyHasOwner

-----------------------------------------------------------------------------
(* Types.                                                                  *)

\* The closures of a request's channel are its events and its settlement.
LEMMA ClosureTypes ==
    /\ EventType \subseteq Msg
    /\ Settle \in Msg
    /\ Settle \notin EventType
BY DEF Msg, EventType, Settle

\* What the native side emits is a sequence of events, so it types as closures
\* and holds no settlement.
LEMMA EmittingType ==
    ASSUME NEW r, NEW e \in Seq(EventType)
    PROVE  Emitting(r, e) \in Seq(EventType) /\ Emitting(r, e) \in Seq(Msg)
BY ClosureTypes DEF Emitting

\* The groups of events the native task emits together.
LEMMA EventGroups ==
    /\ <<>> \in Seq(EventType)
    /\ <<"request_start">> \in Seq(EventType)
    /\ <<"request_start", "request_sent">> \in Seq(EventType)
    /\ <<"response_headers">> \in Seq(EventType)
    /\ <<"response_headers", "done">> \in Seq(EventType)
    /\ <<"body_progress", "body_complete", "done">> \in Seq(EventType)
    /\ <<"error">> \in Seq(EventType)
BY DEF EventType

LEMMA InitTypes == Init => TypeOK
BY DEF Init, TypeOK, JsState, NativeState, ResultKind, StreamState, SignalState

\* Every step keeps the type invariant.
LEMMA StepTypes == TypeOK /\ [Next]_vars => TypeOK'
<1> SUFFICES ASSUME TypeOK, [Next]_vars PROVE TypeOK'
  OBVIOUS
<1> USE DEF TypeOK, JsState, NativeState, ResultKind, StreamState
<1>1. CASE UNCHANGED vars
  BY <1>1 DEF vars
<1>2. ASSUME NEW r \in Requests, JsStep(r) PROVE TypeOK'
  <2>1. CASE RejectAborted(r)
    BY <2>1 DEF RejectAborted
  <2>2. CASE Dispatch(r)
    BY <2>2 DEF Dispatch
  <2>3. CASE DispatchThrows(r)
    BY <2>3 DEF DispatchThrows
  <2>4. CASE Abort(r)
    <3>1. signal' \in [Requests -> SignalState]
      BY <2>4 DEF Abort, SignalState
    <3>2. CASE r \in listener
      BY <2>4, <3>1, <3>2 DEF Abort, CancelRequest
    <3>3. CASE r \notin listener
      BY <2>4, <3>1, <3>3 DEF Abort
    <3> QED
      BY <3>2, <3>3
  <2>5. CASE DeliverEvent(r)
    BY <2>5 DEF DeliverEvent
  <2>6. CASE DeliverSettle(r)
    <3>1. chan' \in [Requests -> Seq(Msg)]
      BY <2>6 DEF DeliverSettle
    <3>2. CASE js[r] = "pending"
      BY <2>6, <3>1, <3>2 DEF DeliverSettle
    <3>3. CASE js[r] # "pending"
      BY <2>6, <3>1, <3>3 DEF DeliverSettle
    <3> QED
      BY <3>2, <3>3
  <2> QED
    BY <1>2, <2>1, <2>2, <2>3, <2>4, <2>5, <2>6 DEF JsStep
<1>3. ASSUME NEW r \in Requests, NativeStep(r) PROVE TypeOK'
  <2>0. ASSUME NEW e \in Seq(EventType), Emit(r, e)
        PROVE  chan' \in [Requests -> Seq(Msg)]
    BY <2>0, EmittingType DEF Emit
  <2>1. CASE Send(r)
    BY <2>1, <2>0, EventGroups DEF Send
  <2>2. CASE SendFails(r)
    BY <2>2, <2>0, EventGroups DEF SendFails, Returns
  <2>3. CASE HeadersNoBody(r)
    BY <2>3, <2>0, EventGroups DEF HeadersNoBody, Returns
  <2>4. CASE HeadersInline(r)
    BY <2>4, <2>0, EventGroups DEF HeadersInline
  <2>5. CASE HeadersStream(r)
    BY <2>5, <2>0, EventGroups DEF HeadersStream, Returns
  <2>6. CASE InlineComplete(r)
    BY <2>6, <2>0, EventGroups DEF InlineComplete, Returns
  <2>7. CASE NetworkFails(r)
    BY <2>7 DEF NetworkFails, Returns
  <2>8. CASE ObserveCancel(r)
    BY <2>8 DEF ObserveCancel, Returns
  <2>9. CASE Finish(r)
    <3> DEFINE tail == IF result[r] = "error" THEN Emitting(r, <<"error">>) ELSE <<>>
    <3>1. tail \in Seq(Msg)
      BY EmittingType, EventGroups, <<>> \in Seq(Msg)
    <3>2. <<Settle>> \in Seq(Msg)
      BY ClosureTypes
    <3>3. tail \in Seq(Msg) /\ chan[r] \in Seq(Msg) /\ <<Settle>> \in Seq(Msg)
      BY <3>1, <3>2
    <3>4. chan' = [chan EXCEPT ![r] = (chan[r] \o tail) \o <<Settle>>]
      BY <2>9 DEF Finish
    <3> HIDE DEF tail
    <3>5. (chan[r] \o tail) \o <<Settle>> \in Seq(Msg)
      BY <3>3
    <3>6. chan' \in [Requests -> Seq(Msg)]
      BY <3>4, <3>5
    <3> QED
      BY <2>9, <3>6 DEF Finish
  <2> QED
    BY <1>3, <2>1, <2>2, <2>3, <2>4, <2>5, <2>6, <2>7, <2>8, <2>9 DEF NativeStep
<1>4. ASSUME NEW r \in Requests, Expire(r) PROVE TypeOK'
  BY <1>4 DEF Expire
<1> QED
  BY <1>1, <1>2, <1>3, <1>4 DEF Next

\* Every variable of Request keeps its type.
THEOREM TypeCorrect == Spec => []TypeOK
BY InitTypes, StepTypes, PTL DEF Spec

-----------------------------------------------------------------------------
(* The inductive step, one property at a time and one action at a time.    *)

\* A settlement that runs comes from a task that is over.
LEMMA SettledIsDone ==
    ASSUME IInv, NEW r \in Requests, chan[r] # <<>>, Head(chan[r]) = Settle
    PROVE  native[r] = "done"
<1>1. chan[r] \in Seq(Msg)
  BY DEF IInv, TypeOK
<1>2. 1 \in DOMAIN chan[r] /\ chan[r][1] = Settle
  BY <1>1
<1> QED
  BY <1>2 DEF IInv, PromiseKept

\* Each action moves promise, task and result together.
LEMMA LifecycleStep == IInv /\ TypeOK' /\ [Next]_vars => Lifecycle'
<1> SUFFICES ASSUME IInv, TypeOK', [Next]_vars, NEW q \in Requests
             PROVE  Phases(q)'
  BY DEF Lifecycle
<1> USE DEF Phases, AwaitPoint
<1>1. CASE UNCHANGED vars
  BY <1>1 DEF vars, Lifecycle, IInv
<1>2. ASSUME NEW r \in Requests, JsStep(r) PROVE Phases(q)'
  <2>1. CASE RejectAborted(r)
    BY <2>1 DEF RejectAborted, IInv, TypeOK, Lifecycle
  <2>2. CASE Dispatch(r)
    BY <2>2 DEF Dispatch, IInv, TypeOK, Lifecycle, RegistryScope, Running
  <2>3. CASE DispatchThrows(r)
    BY <2>3 DEF DispatchThrows, IInv, TypeOK, Lifecycle
  <2>4. CASE Abort(r)
    BY <2>4 DEF Abort, CancelRequest, IInv, TypeOK, Lifecycle, RegistryScope, Running
  <2>5. CASE DeliverEvent(r)
    BY <2>5 DEF DeliverEvent, IInv, TypeOK, Lifecycle
  <2>6. CASE DeliverSettle(r)
    <3>1. native[r] = "done"
      BY <2>6, SettledIsDone DEF DeliverSettle
    <3> QED
      BY <2>6, <3>1 DEF DeliverSettle, IInv, TypeOK, Lifecycle
  <2> QED
    BY <1>2, <2>1, <2>2, <2>3, <2>4, <2>5, <2>6 DEF JsStep
<1>3. ASSUME NEW r \in Requests, NativeStep(r) PROVE Phases(q)'
  <2>1. CASE Send(r)
    BY <2>1 DEF Send, IInv, TypeOK, Lifecycle
  <2>2. CASE SendFails(r)
    BY <2>2 DEF SendFails, Returns, IInv, TypeOK, Lifecycle
  <2>3. CASE HeadersNoBody(r)
    BY <2>3 DEF HeadersNoBody, Returns, IInv, TypeOK, Lifecycle
  <2>4. CASE HeadersInline(r)
    BY <2>4 DEF HeadersInline, IInv, TypeOK, Lifecycle
  <2>5. CASE HeadersStream(r)
    BY <2>5 DEF HeadersStream, Returns, IInv, TypeOK, Lifecycle
  <2>6. CASE InlineComplete(r)
    BY <2>6 DEF InlineComplete, Returns, IInv, TypeOK, Lifecycle
  <2>7. CASE NetworkFails(r)
    BY <2>7 DEF NetworkFails, Returns, IInv, TypeOK, Lifecycle
  <2>8. CASE ObserveCancel(r)
    BY <2>8 DEF ObserveCancel, Returns, IInv, TypeOK, Lifecycle
  <2>9. CASE Finish(r)
    BY <2>9 DEF Finish, IInv, TypeOK, Lifecycle
  <2> QED
    BY <1>3, <2>1, <2>2, <2>3, <2>4, <2>5, <2>6, <2>7, <2>8, <2>9 DEF NativeStep
<1>4. ASSUME NEW r \in Requests, Expire(r) PROVE Phases(q)'
  BY <1>4 DEF Expire, IInv, TypeOK, Lifecycle
<1> QED
  BY <1>1, <1>2, <1>3, <1>4 DEF Next

\* A token leaves the registry at the latest with its task.
LEMMA RegistryStep == IInv /\ TypeOK' /\ [Next]_vars => RegistryScope'
<1> SUFFICES ASSUME IInv, TypeOK', [Next]_vars, NEW q \in registry'
             PROVE  (Running(q) /\ q \notin cancelled)'
  BY DEF RegistryScope, Running
<1> USE DEF Running, AwaitPoint
<1>1. CASE UNCHANGED vars
  BY <1>1 DEF vars, RegistryScope, IInv
<1>2. ASSUME NEW r \in Requests, JsStep(r) PROVE (Running(q) /\ q \notin cancelled)'
  <2>1. CASE RejectAborted(r)
    BY <2>1 DEF RejectAborted, IInv, TypeOK, RegistryScope
  <2>2. CASE Dispatch(r)
    BY <2>2 DEF Dispatch, IInv, TypeOK, RegistryScope, Lifecycle, Phases
  <2>3. CASE DispatchThrows(r)
    BY <2>3 DEF DispatchThrows, IInv, TypeOK, RegistryScope
  <2>4. CASE Abort(r)
    BY <2>4 DEF Abort, CancelRequest, IInv, TypeOK, RegistryScope
  <2>5. CASE DeliverEvent(r)
    BY <2>5 DEF DeliverEvent, IInv, TypeOK, RegistryScope
  <2>6. CASE DeliverSettle(r)
    BY <2>6 DEF DeliverSettle, IInv, TypeOK, RegistryScope
  <2> QED
    BY <1>2, <2>1, <2>2, <2>3, <2>4, <2>5, <2>6 DEF JsStep
<1>3. ASSUME NEW r \in Requests, NativeStep(r) PROVE (Running(q) /\ q \notin cancelled)'
  <2>1. CASE Send(r)
    BY <2>1 DEF Send, IInv, TypeOK, RegistryScope
  <2>2. CASE SendFails(r)
    BY <2>2 DEF SendFails, Returns, IInv, TypeOK, RegistryScope
  <2>3. CASE HeadersNoBody(r)
    BY <2>3 DEF HeadersNoBody, Returns, IInv, TypeOK, RegistryScope
  <2>4. CASE HeadersInline(r)
    BY <2>4 DEF HeadersInline, IInv, TypeOK, RegistryScope
  <2>5. CASE HeadersStream(r)
    BY <2>5 DEF HeadersStream, Returns, IInv, TypeOK, RegistryScope
  <2>6. CASE InlineComplete(r)
    BY <2>6 DEF InlineComplete, Returns, IInv, TypeOK, RegistryScope
  <2>7. CASE NetworkFails(r)
    BY <2>7 DEF NetworkFails, Returns, IInv, TypeOK, RegistryScope
  <2>8. CASE ObserveCancel(r)
    BY <2>8 DEF ObserveCancel, Returns, IInv, TypeOK, RegistryScope
  <2>9. CASE Finish(r)
    BY <2>9 DEF Finish, IInv, TypeOK, RegistryScope
  <2> QED
    BY <1>3, <2>1, <2>2, <2>3, <2>4, <2>5, <2>6, <2>7, <2>8, <2>9 DEF NativeStep
<1>4. ASSUME NEW r \in Requests, Expire(r) PROVE (Running(q) /\ q \notin cancelled)'
  BY <1>4 DEF Expire, IInv, TypeOK, RegistryScope
<1> QED
  BY <1>1, <1>2, <1>3, <1>4 DEF Next

\* A pending promise keeps its abort listener and its token.
LEMMA AbortReachStep == IInv /\ TypeOK' /\ [Next]_vars => AbortReachesNative'
<1> SUFFICES ASSUME IInv, TypeOK', [Next]_vars, NEW q \in Requests,
                    js'[q] = "pending", signal'[q] = "live"
             PROVE  q \in listener' /\ (q \in registry' \/ native'[q] = "done")
  BY DEF AbortReachesNative
<1> USE DEF AwaitPoint
<1>1. CASE UNCHANGED vars
  BY <1>1 DEF vars, AbortReachesNative, IInv
<1>2. ASSUME NEW r \in Requests, JsStep(r) PROVE q \in listener' /\ (q \in registry' \/ native'[q] = "done")
  <2>1. CASE RejectAborted(r)
    BY <2>1 DEF RejectAborted, IInv, TypeOK, AbortReachesNative
  <2>2. CASE Dispatch(r)
    BY <2>2 DEF Dispatch, IInv, TypeOK, AbortReachesNative
  <2>3. CASE DispatchThrows(r)
    BY <2>3 DEF DispatchThrows, IInv, TypeOK, AbortReachesNative
  <2>4. CASE Abort(r)
    BY <2>4 DEF Abort, CancelRequest, IInv, TypeOK, AbortReachesNative
  <2>5. CASE DeliverEvent(r)
    BY <2>5 DEF DeliverEvent, IInv, TypeOK, AbortReachesNative
  <2>6. CASE DeliverSettle(r)
    BY <2>6 DEF DeliverSettle, IInv, TypeOK, AbortReachesNative
  <2> QED
    BY <1>2, <2>1, <2>2, <2>3, <2>4, <2>5, <2>6 DEF JsStep
<1>3. ASSUME NEW r \in Requests, NativeStep(r) PROVE q \in listener' /\ (q \in registry' \/ native'[q] = "done")
  <2>1. CASE Send(r)
    BY <2>1 DEF Send, IInv, TypeOK, AbortReachesNative
  <2>2. CASE SendFails(r)
    BY <2>2 DEF SendFails, Returns, IInv, TypeOK, AbortReachesNative
  <2>3. CASE HeadersNoBody(r)
    BY <2>3 DEF HeadersNoBody, Returns, IInv, TypeOK, AbortReachesNative
  <2>4. CASE HeadersInline(r)
    BY <2>4 DEF HeadersInline, IInv, TypeOK, AbortReachesNative
  <2>5. CASE HeadersStream(r)
    BY <2>5 DEF HeadersStream, Returns, IInv, TypeOK, AbortReachesNative
  <2>6. CASE InlineComplete(r)
    BY <2>6 DEF InlineComplete, Returns, IInv, TypeOK, AbortReachesNative
  <2>7. CASE NetworkFails(r)
    BY <2>7 DEF NetworkFails, Returns, IInv, TypeOK, AbortReachesNative
  <2>8. CASE ObserveCancel(r)
    BY <2>8 DEF ObserveCancel, Returns, IInv, TypeOK, AbortReachesNative
  <2>9. CASE Finish(r)
    BY <2>9 DEF Finish, IInv, TypeOK, AbortReachesNative
  <2> QED
    BY <1>3, <2>1, <2>2, <2>3, <2>4, <2>5, <2>6, <2>7, <2>8, <2>9 DEF NativeStep
<1>4. ASSUME NEW r \in Requests, Expire(r) PROVE q \in listener' /\ (q \in registry' \/ native'[q] = "done")
  BY <1>4 DEF Expire, IInv, TypeOK, AbortReachesNative
<1> QED
  BY <1>1, <1>2, <1>3, <1>4 DEF Next

\* The finally block and the listener's once detach it.
LEMMA ListenerStep == IInv /\ TypeOK' /\ [Next]_vars => ListenerScope'
<1> SUFFICES ASSUME IInv, TypeOK', [Next]_vars, NEW q \in Requests
             PROVE  ListenerScopeOf(q)'
  BY DEF ListenerScope, TypeOK, ListenerScopeOf
<1> USE DEF ListenerScopeOf
<1>1. CASE UNCHANGED vars
  BY <1>1 DEF vars, ListenerScope, IInv
<1>2. ASSUME NEW r \in Requests, JsStep(r) PROVE ListenerScopeOf(q)'
  <2>1. CASE RejectAborted(r)
    BY <2>1 DEF RejectAborted, IInv, TypeOK, ListenerScope
  <2>2. CASE Dispatch(r)
    BY <2>2 DEF Dispatch, IInv, TypeOK, ListenerScope
  <2>3. CASE DispatchThrows(r)
    BY <2>3 DEF DispatchThrows, IInv, TypeOK, ListenerScope
  <2>4. CASE Abort(r)
    BY <2>4 DEF Abort, CancelRequest, IInv, TypeOK, ListenerScope
  <2>5. CASE DeliverEvent(r)
    BY <2>5 DEF DeliverEvent, IInv, TypeOK, ListenerScope
  <2>6. CASE DeliverSettle(r)
    BY <2>6 DEF DeliverSettle, IInv, TypeOK, ListenerScope
  <2> QED
    BY <1>2, <2>1, <2>2, <2>3, <2>4, <2>5, <2>6 DEF JsStep
<1>3. ASSUME NEW r \in Requests, NativeStep(r) PROVE ListenerScopeOf(q)'
  <2>1. CASE Send(r)
    BY <2>1 DEF Send, IInv, TypeOK, ListenerScope
  <2>2. CASE SendFails(r)
    BY <2>2 DEF SendFails, Returns, IInv, TypeOK, ListenerScope
  <2>3. CASE HeadersNoBody(r)
    BY <2>3 DEF HeadersNoBody, Returns, IInv, TypeOK, ListenerScope
  <2>4. CASE HeadersInline(r)
    BY <2>4 DEF HeadersInline, IInv, TypeOK, ListenerScope
  <2>5. CASE HeadersStream(r)
    BY <2>5 DEF HeadersStream, Returns, IInv, TypeOK, ListenerScope
  <2>6. CASE InlineComplete(r)
    BY <2>6 DEF InlineComplete, Returns, IInv, TypeOK, ListenerScope
  <2>7. CASE NetworkFails(r)
    BY <2>7 DEF NetworkFails, Returns, IInv, TypeOK, ListenerScope
  <2>8. CASE ObserveCancel(r)
    BY <2>8 DEF ObserveCancel, Returns, IInv, TypeOK, ListenerScope
  <2>9. CASE Finish(r)
    BY <2>9 DEF Finish, IInv, TypeOK, ListenerScope
  <2> QED
    BY <1>3, <2>1, <2>2, <2>3, <2>4, <2>5, <2>6, <2>7, <2>8, <2>9 DEF NativeStep
<1>4. ASSUME NEW r \in Requests, Expire(r) PROVE ListenerScopeOf(q)'
  BY <1>4 DEF Expire, IInv, TypeOK, ListenerScope
<1> QED
  BY <1>1, <1>2, <1>3, <1>4 DEF Next

\* Only the step that returns a handle stores a body.
LEMMA FailureStep == IInv /\ TypeOK' /\ [Next]_vars => FailureStoresNoBody'
<1> SUFFICES ASSUME IInv, TypeOK', [Next]_vars, NEW q \in Requests,
                    stream'[q] # "none" \/ q \in bodyEvents'
             PROVE  result'[q] = "handle"
  BY DEF FailureStoresNoBody
<1> USE DEF AwaitPoint
<1>1. CASE UNCHANGED vars
  BY <1>1 DEF vars, FailureStoresNoBody, IInv
<1>2. ASSUME NEW r \in Requests, JsStep(r) PROVE result'[q] = "handle"
  <2>1. CASE RejectAborted(r)
    BY <2>1 DEF RejectAborted, IInv, TypeOK, FailureStoresNoBody
  <2>2. CASE Dispatch(r)
    BY <2>2 DEF Dispatch, IInv, TypeOK, FailureStoresNoBody
  <2>3. CASE DispatchThrows(r)
    BY <2>3 DEF DispatchThrows, IInv, TypeOK, FailureStoresNoBody
  <2>4. CASE Abort(r)
    BY <2>4 DEF Abort, CancelRequest, IInv, TypeOK, FailureStoresNoBody
  <2>5. CASE DeliverEvent(r)
    BY <2>5 DEF DeliverEvent, IInv, TypeOK, FailureStoresNoBody
  <2>6. CASE DeliverSettle(r)
    BY <2>6 DEF DeliverSettle, IInv, TypeOK, FailureStoresNoBody
  <2> QED
    BY <1>2, <2>1, <2>2, <2>3, <2>4, <2>5, <2>6 DEF JsStep
<1>3. ASSUME NEW r \in Requests, NativeStep(r) PROVE result'[q] = "handle"
  <2>1. CASE Send(r)
    BY <2>1 DEF Send, IInv, TypeOK, FailureStoresNoBody, Lifecycle, Phases
  <2>2. CASE SendFails(r)
    BY <2>2 DEF SendFails, Returns, IInv, TypeOK, FailureStoresNoBody, Lifecycle, Phases
  <2>3. CASE HeadersNoBody(r)
    BY <2>3 DEF HeadersNoBody, Returns, IInv, TypeOK, FailureStoresNoBody, Lifecycle, Phases
  <2>4. CASE HeadersInline(r)
    BY <2>4 DEF HeadersInline, IInv, TypeOK, FailureStoresNoBody, Lifecycle, Phases
  <2>5. CASE HeadersStream(r)
    BY <2>5 DEF HeadersStream, Returns, IInv, TypeOK, FailureStoresNoBody, Lifecycle, Phases
  <2>6. CASE InlineComplete(r)
    BY <2>6 DEF InlineComplete, Returns, IInv, TypeOK, FailureStoresNoBody, Lifecycle, Phases
  <2>7. CASE NetworkFails(r)
    BY <2>7 DEF NetworkFails, Returns, IInv, TypeOK, FailureStoresNoBody, Lifecycle, Phases
  <2>8. CASE ObserveCancel(r)
    BY <2>8 DEF ObserveCancel, Returns, IInv, TypeOK, FailureStoresNoBody, Lifecycle, Phases
  <2>9. CASE Finish(r)
    BY <2>9 DEF Finish, IInv, TypeOK, FailureStoresNoBody, Lifecycle, Phases
  <2> QED
    BY <1>3, <2>1, <2>2, <2>3, <2>4, <2>5, <2>6, <2>7, <2>8, <2>9 DEF NativeStep
<1>4. ASSUME NEW r \in Requests, Expire(r) PROVE result'[q] = "handle"
  BY <1>4 DEF Expire, IInv, TypeOK, FailureStoresNoBody
<1> QED
  BY <1>1, <1>2, <1>3, <1>4 DEF Next

\* No settlement among the closures of s.
NoSettle(s) == \A i \in DOMAIN s : s[i] # Settle

\* Events queued behind closures without a settlement add none.
LEMMA EventsKeepNoSettle ==
    ASSUME NEW s \in Seq(Msg), NEW e \in Seq(EventType), NoSettle(s)
    PROVE  NoSettle(s \o e)
<1> SUFFICES ASSUME NEW i \in DOMAIN (s \o e) PROVE (s \o e)[i] # Settle
  BY DEF NoSettle
<1>1. CASE i \in 1..Len(s)
  BY <1>1 DEF NoSettle
<1>2. CASE i \notin 1..Len(s)
  <2>1. i - Len(s) \in 1..Len(e) /\ (s \o e)[i] = e[i - Len(s)]
    BY <1>2
  <2> QED
    BY <2>1, ClosureTypes
<1> QED
  BY <1>1, <1>2

\* What every emitting step before the end of a task does to the channels.
LEMMA EmitKeepsNoSettle ==
    ASSUME IInv, NEW r \in Requests, NEW e \in Seq(EventType), Emit(r, e),
           native[r] # "done", NEW q \in Requests
    PROVE  /\ chan' = [chan EXCEPT ![r] = chan[r] \o Emitting(r, e)]
           /\ NoSettle(chan'[r])
<1>1. chan \in [Requests -> Seq(Msg)] /\ NoSettle(chan[r])
  BY DEF IInv, TypeOK, PromiseKept, NoSettle
<1>2. NoSettle(chan[r] \o Emitting(r, e))
  BY <1>1, EmittingType, EventsKeepNoSettle
<1> QED
  BY <1>1, <1>2 DEF Emit

\* What PromiseKept says of one request.
PromiseKeptOf(r) ==
    /\ native[r] # "done" => NoSettle(chan[r])
    /\ js[r] = "pending" /\ native[r] = "done" =>
          chan[r] # <<>> /\ chan[r][Len(chan[r])] = Settle

\* A queue that ends in a closure still ends in it when another one, ahead of
\* it, has run.
LEMMA LastOfTail ==
    ASSUME NEW S, NEW queue \in Seq(S), NEW last,
           queue # <<>>, Head(queue) # last, queue[Len(queue)] = last
    PROVE  Tail(queue) # <<>> /\ Tail(queue)[Len(Tail(queue))] = last
<1>1. Len(queue) > 1
  OBVIOUS
<1>2. Len(Tail(queue)) = Len(queue) - 1
  OBVIOUS
<1>3. Tail(queue)[Len(queue) - 1] = last
  BY <1>1
<1>4. Len(Tail(queue)) # 0
  BY <1>1, <1>2
<1> QED
  BY <1>2, <1>3, <1>4, EmptySeq

\* A settlement is queued by the last step of the task, behind its events, and
\* stays the last closure until it runs.
LEMMA PromiseStep == IInv /\ TypeOK' /\ [Next]_vars => PromiseKept'
<1> SUFFICES ASSUME IInv, TypeOK', [Next]_vars, NEW q \in Requests
             PROVE  PromiseKeptOf(q)'
  BY DEF PromiseKept, PromiseKeptOf, NoSettle
<1>0. PromiseKeptOf(q) /\ chan \in [Requests -> Seq(Msg)] /\ native \in [Requests -> NativeState]
  BY DEF IInv, TypeOK, PromiseKept, PromiseKeptOf, NoSettle
<1> USE DEF PromiseKeptOf
<1>1. CASE UNCHANGED vars
  BY <1>0, <1>1 DEF vars
<1>2. ASSUME NEW r \in Requests, JsStep(r) PROVE PromiseKeptOf(q)'
  <2>1. CASE RejectAborted(r)
    BY <2>1, <1>0 DEF RejectAborted, IInv, TypeOK
  <2>2. CASE Dispatch(r)
    BY <2>2, <1>0 DEF Dispatch, IInv, TypeOK, Lifecycle, Phases
  <2>3. CASE DispatchThrows(r)
    BY <2>3, <1>0 DEF DispatchThrows, IInv, TypeOK
  <2>4. CASE Abort(r)
    BY <2>4, <1>0 DEF Abort, IInv, TypeOK
  <2>5. CASE DeliverEvent(r)
    <3>1. CASE q = r
      <4>1. /\ chan[q] \in Seq(Msg) /\ chan[q] # <<>> /\ chan'[q] = Tail(chan[q])
            /\ Head(chan[q]) # Settle
            /\ UNCHANGED <<js, native>>
        BY <2>5, <3>1, <1>0, ClosureTypes DEF DeliverEvent
      <4>2. NoSettle(chan[q]) => NoSettle(Tail(chan[q]))
        BY <4>1 DEF NoSettle
      <4>3. chan[q][Len(chan[q])] = Settle =>
              Tail(chan[q]) # <<>> /\ Tail(chan[q])[Len(Tail(chan[q]))] = Settle
        BY <4>1, LastOfTail
      <4> QED
        BY <1>0, <4>1, <4>2, <4>3
    <3>2. CASE q # r
      BY <2>5, <3>2, <1>0 DEF DeliverEvent
    <3> QED
      BY <3>1, <3>2
  <2>6. CASE DeliverSettle(r)
    <3>1. native[r] = "done"
      BY <2>6, SettledIsDone DEF DeliverSettle
    <3> QED
      BY <2>6, <3>1, <1>0 DEF DeliverSettle, IInv, TypeOK
  <2> QED
    BY <1>2, <2>1, <2>2, <2>3, <2>4, <2>5, <2>6 DEF JsStep
<1>3. ASSUME NEW r \in Requests, NativeStep(r) PROVE PromiseKeptOf(q)'
  <2>0. ASSUME NEW e \in Seq(EventType), Emit(r, e), native[r] # "done",
               NEW n \in {"sending", "inline", "finishing"},
               native' = [native EXCEPT ![r] = n], js' = js
        PROVE  PromiseKeptOf(q)'
    <3>1. CASE q = r
      BY <2>0, <3>1, <1>0, EmitKeepsNoSettle
    <3>2. CASE q # r
      <4>1. chan'[q] = chan[q] /\ native'[q] = native[q]
        BY <2>0, <3>2, <1>0, EmitKeepsNoSettle
      <4> QED
        BY <2>0, <4>1, <1>0
    <3> QED
      BY <3>1, <3>2
  <2>1. CASE Send(r)
    <3>1. native[r] # "done" /\ native' = [native EXCEPT ![r] = "sending"] /\ js' = js
      BY <2>1 DEF Send
    <3>2. Emit(r, <<"request_start", "request_sent">>)
      BY <2>1 DEF Send
    <3> QED
      BY <3>1, <3>2, <2>0, EventGroups
  <2>2. CASE SendFails(r)
    <3>1. native[r] # "done" /\ native' = [native EXCEPT ![r] = "finishing"] /\ js' = js
      BY <2>2 DEF SendFails, Returns
    <3>2. \E e \in {<<>>, <<"request_start">>} : Emit(r, e)
      BY <2>2 DEF SendFails
    <3> QED
      BY <3>1, <3>2, <2>0, EventGroups
  <2>3. CASE HeadersNoBody(r)
    <3>1. native[r] # "done" /\ native' = [native EXCEPT ![r] = "finishing"] /\ js' = js
      BY <2>3 DEF HeadersNoBody, Returns
    <3>2. Emit(r, <<"response_headers", "done">>)
      BY <2>3 DEF HeadersNoBody
    <3> QED
      BY <3>1, <3>2, <2>0, EventGroups
  <2>4. CASE HeadersInline(r)
    <3>1. native[r] # "done" /\ native' = [native EXCEPT ![r] = "inline"] /\ js' = js
      BY <2>4 DEF HeadersInline
    <3>2. Emit(r, <<"response_headers">>)
      BY <2>4 DEF HeadersInline
    <3> QED
      BY <3>1, <3>2, <2>0, EventGroups
  <2>5. CASE HeadersStream(r)
    <3>1. native[r] # "done" /\ native' = [native EXCEPT ![r] = "finishing"] /\ js' = js
      BY <2>5 DEF HeadersStream, Returns
    <3>2. Emit(r, <<"response_headers">>)
      BY <2>5 DEF HeadersStream
    <3> QED
      BY <3>1, <3>2, <2>0, EventGroups
  <2>6. CASE InlineComplete(r)
    <3>1. native[r] # "done" /\ native' = [native EXCEPT ![r] = "finishing"] /\ js' = js
      BY <2>6 DEF InlineComplete, Returns
    <3>2. Emit(r, <<"body_progress", "body_complete", "done">>)
      BY <2>6 DEF InlineComplete
    <3> QED
      BY <3>1, <3>2, <2>0, EventGroups
  <2>7. CASE NetworkFails(r)
    BY <2>7, <1>0 DEF NetworkFails, Returns
  <2>8. CASE ObserveCancel(r)
    BY <2>8, <1>0 DEF ObserveCancel, Returns, AwaitPoint
  <2>9. CASE Finish(r)
    <3> DEFINE tail == IF result[r] = "error" THEN Emitting(r, <<"error">>) ELSE <<>>
    <3>1. tail \in Seq(Msg)
      BY EmittingType, EventGroups, <<>> \in Seq(Msg)
    <3>2. chan' = [chan EXCEPT ![r] = (chan[r] \o tail) \o <<Settle>>]
      BY <2>9 DEF Finish
    <3> HIDE DEF tail
    <3>3. chan[r] \o tail \in Seq(Msg)
      BY <3>1, <1>0
    <3>4. \A s \in Seq(Msg) : s \o <<Settle>> # <<>> /\ (s \o <<Settle>>)[Len(s \o <<Settle>>)] = Settle
      OBVIOUS
    <3>5. chan'[r] # <<>> /\ chan'[r][Len(chan'[r])] = Settle
      BY <3>2, <3>3, <3>4, <1>0
    <3>6. \A x \in Requests \ {r} : chan'[x] = chan[x]
      BY <3>2, <1>0
    <3> QED
      BY <2>9, <3>5, <3>6, <1>0 DEF Finish
  <2> QED
    BY <1>3, <2>1, <2>2, <2>3, <2>4, <2>5, <2>6, <2>7, <2>8, <2>9 DEF NativeStep
<1>4. ASSUME NEW r \in Requests, Expire(r) PROVE PromiseKeptOf(q)'
  BY <1>4, <1>0 DEF Expire
<1> QED
  BY <1>1, <1>2, <1>3, <1>4 DEF Next

\* Only a task that has returned stored a body.
LEMMA StoredIsReturned ==
    ASSUME IInv, NEW r \in Requests, stream[r] = "stored"
    PROVE  native[r] \in {"finishing", "done"} /\ result[r] = "handle"
BY DEF IInv, TypeOK, NativeState, Lifecycle, Phases, FailureStoresNoBody, AwaitPoint

\* A stored body is on its way to its promise or has an owner.
LEMMA OwnerStep == IInv /\ TypeOK' /\ [Next]_vars => BodyHasOwner'
<1> SUFFICES ASSUME IInv, TypeOK', [Next]_vars, NEW q \in Requests
             PROVE  OwnedBody(q)'
  BY DEF BodyHasOwner, OwnedBody
<1> USE DEF OwnedBody, AwaitPoint
<1>1. CASE UNCHANGED vars
  BY <1>1 DEF vars, BodyHasOwner, IInv
<1>2. ASSUME NEW r \in Requests, JsStep(r) PROVE OwnedBody(q)'
  <2>1. CASE RejectAborted(r)
    BY <2>1, StoredIsReturned DEF RejectAborted, IInv, TypeOK, BodyHasOwner, Lifecycle, Phases
  <2>2. CASE Dispatch(r)
    BY <2>2, StoredIsReturned DEF Dispatch, IInv, TypeOK, BodyHasOwner, Lifecycle, Phases
  <2>3. CASE DispatchThrows(r)
    BY <2>3, StoredIsReturned DEF DispatchThrows, IInv, TypeOK, BodyHasOwner, Lifecycle, Phases
  <2>4. CASE Abort(r)
    BY <2>4, StoredIsReturned DEF Abort, CancelRequest, IInv, TypeOK, BodyHasOwner
  <2>5. CASE DeliverEvent(r)
    <3>1. PromiseKept'
      BY PromiseStep
    <3>2. native[q] \in {"finishing", "done"} \/ stream[q] # "stored"
      BY StoredIsReturned
    <3> QED
      BY <2>5, <3>1, <3>2 DEF PromiseKept, DeliverEvent, IInv, TypeOK, BodyHasOwner
  <2>6. CASE DeliverSettle(r)
    BY <2>6, StoredIsReturned DEF DeliverSettle, IInv, TypeOK, BodyHasOwner
  <2> QED
    BY <1>2, <2>1, <2>2, <2>3, <2>4, <2>5, <2>6 DEF JsStep
<1>3. ASSUME NEW r \in Requests, NativeStep(r) PROVE OwnedBody(q)'
  <2>1. CASE Send(r)
    BY <2>1, StoredIsReturned DEF Send, Emit, IInv, TypeOK, BodyHasOwner
  <2>2. CASE SendFails(r)
    BY <2>2, StoredIsReturned DEF SendFails, Returns, Emit, IInv, TypeOK, BodyHasOwner
  <2>3. CASE HeadersNoBody(r)
    BY <2>3, StoredIsReturned DEF HeadersNoBody, Returns, Emit, IInv, TypeOK, BodyHasOwner
  <2>4. CASE HeadersInline(r)
    BY <2>4, StoredIsReturned DEF HeadersInline, Emit, IInv, TypeOK, BodyHasOwner
  <2>5. CASE HeadersStream(r)
    BY <2>5, StoredIsReturned DEF HeadersStream, Returns, Emit, IInv, TypeOK, BodyHasOwner, Lifecycle, Phases, JsState
  <2>6. CASE InlineComplete(r)
    BY <2>6, StoredIsReturned DEF InlineComplete, Returns, Emit, IInv, TypeOK, BodyHasOwner
  <2>7. CASE NetworkFails(r)
    BY <2>7, StoredIsReturned DEF NetworkFails, Returns, IInv, TypeOK, BodyHasOwner
  <2>8. CASE ObserveCancel(r)
    BY <2>8, StoredIsReturned DEF ObserveCancel, Returns, IInv, TypeOK, BodyHasOwner
  <2>9. CASE Finish(r)
    <3>1. PromiseKept'
      BY PromiseStep
    <3> QED
      BY <2>9, <3>1, StoredIsReturned DEF PromiseKept, Finish, IInv, TypeOK, BodyHasOwner
  <2> QED
    BY <1>3, <2>1, <2>2, <2>3, <2>4, <2>5, <2>6, <2>7, <2>8, <2>9 DEF NativeStep
<1>4. ASSUME NEW r \in Requests, Expire(r) PROVE OwnedBody(q)'
  BY <1>4 DEF Expire, IInv, TypeOK, BodyHasOwner
<1> QED
  BY <1>1, <1>2, <1>3, <1>4 DEF Next

-----------------------------------------------------------------------------
(* The theorems.                                                           *)

LEMMA InitInvariant == Init => IInv
<1> SUFFICES ASSUME Init PROVE IInv
  OBVIOUS
<1>1. TypeOK
  BY InitTypes
<1> QED
  BY <1>1 DEF Init, IInv, Lifecycle, Phases, PromiseKept, RegistryScope,
              AbortReachesNative, ListenerScope, FailureStoresNoBody, BodyHasOwner

LEMMA StepInvariant == IInv /\ [Next]_vars => IInv'
<1> SUFFICES ASSUME IInv, [Next]_vars PROVE IInv'
  OBVIOUS
<1>1. TypeOK'
  BY StepTypes DEF IInv
<1> QED
  BY <1>1, LifecycleStep, PromiseStep, RegistryStep, AbortReachStep,
     ListenerStep, FailureStep, OwnerStep DEF IInv

\* The inductive invariant holds in every reachable state.
THEOREM Invariant == Spec => []IInv
BY InitInvariant, StepInvariant, PTL DEF Spec

\* REQUEST_CANCELLATIONS holds tokens of running tasks only.
THEOREM RegistryIsScoped == Spec => []RegistryScope
<1>1. IInv => RegistryScope
  BY DEF IInv
<1> QED
  BY <1>1, Invariant, PTL

\* A caller who waits can always abort the native request.
THEOREM AbortAlwaysReaches == Spec => []AbortReachesNative
<1>1. IInv => AbortReachesNative
  BY DEF IInv
<1> QED
  BY <1>1, Invariant, PTL

\* dispatchRequest leaves no abort listener behind, save where the native call
\* itself throws.
THEOREM ListenersAreScoped == Spec => []ListenerScope
<1>1. IInv => ListenerScope
  BY DEF IInv
<1> QED
  BY <1>1, Invariant, PTL

\* A failed or cancelled request leaves no body in the native maps.
THEOREM FailureIsClean == Spec => []FailureStoresNoBody
<1>1. IInv => FailureStoresNoBody
  BY DEF IInv
<1> QED
  BY <1>1, Invariant, PTL

\* A stored body has an owner, or its request was aborted.
THEOREM BodiesAreOwned == Spec => []BodyHasOwner
<1>1. IInv => BodyHasOwner
  BY DEF IInv
<1> QED
  BY <1>1, Invariant, PTL

\* Every promise whose task is over has its settlement queued last.
THEOREM PromisesAreKept == Spec => []PromiseKept
<1>1. IInv => PromiseKept
  BY DEF IInv
<1> QED
  BY <1>1, Invariant, PTL

-----------------------------------------------------------------------------
(***************************************************************************)
(* Request implements FetchContract: whatever the native task and the      *)
(* caller do, the outcome of the promise and the log of the events move as *)
(* the contract lets them.                                                 *)
(*                                                                         *)
(* The contract speaks of what the callback has seen; the events of the    *)
(* code are decided earlier, when the task queues them.  The invariant     *)
(* Story says that the queue continues the log legally, and that its end   *)
(* is where the task stands.                                               *)
(***************************************************************************)

\* What may come next, of events and the settlement, after the event p of a
\* request that returned res.
Allowed(res, p) ==
    Contract!Follows(p)
    \cup IF \/ p \in {"response_headers", "done"} /\ res \in {"nobody", "inline", "handle"}
            \/ p = "error" /\ res = "error"
         THEN {Settle} ELSE {}

\* The closures s go on after p.
Linked(res, p, s) ==
    /\ s # <<>> => s[1] \in Allowed(res, p)
    /\ \A i \in 2..Len(s) : s[i] \in Allowed(res, s[i - 1])

\* The last of s after p.
End(p, s) == IF s = <<>> THEN p ELSE s[Len(s)]

\* The last closure there is of the story of r, run or queued.
Latest(r) == End(Contract!LastEvent(r), chan[r])

\* A task that is at n with result res has last queued e.
Stands(n, res, e) ==
    /\ n = "spawned" => e = ""
    /\ n = "sending" => e = "request_sent"
    /\ n = "inline" => e = "response_headers"
    /\ n = "finishing" =>
          \/ res \in {"nobody", "inline"} /\ e = "done"
          \/ res = "handle" /\ e = "response_headers"
          \/ /\ res = "error"
             /\ e \in {"", "request_start", "request_sent", "response_headers"}

Story(r) ==
    /\ native[r] = "none" => chan[r] = <<>> /\ log[r] = <<>>
    /\ js[r] \in {"resolved", "failed"} => chan[r] = <<>>
    /\ r \notin Observed => chan[r] \in {<<>>, <<Settle>>}
    /\ r \in Observed =>
          /\ Linked(result[r], Contract!LastEvent(r), chan[r])
          /\ Stands(native[r], result[r], Latest(r))

Stories == \A r \in Requests : Story(r)

-----------------------------------------------------------------------------
(* The order of the closures.                                              *)

\* A settlement is the end: nothing follows it.
LEMMA NothingAfterSettle ==
    /\ \A res : Allowed(res, Settle) = {}
    /\ \A p : Settle \notin Contract!Follows(p)
BY DEF Allowed, Contract!Follows, Settle

\* A task that has no result yet settles nothing, so its result only adds to
\* what is allowed.
LEMMA LinkMore ==
    ASSUME NEW p, NEW s, NEW res, Linked("none", p, s)
    PROVE  Linked(res, p, s)
<1>1. \A x : Allowed("none", x) \subseteq Allowed(res, x)
  BY DEF Allowed
<1> QED
  BY <1>1 DEF Linked

\* Of linked closures the first may run and the others go on after it.
LEMMA LinkHead ==
    ASSUME NEW S, NEW s \in Seq(S), s # <<>>, NEW res, NEW p, Linked(res, p, s)
    PROVE  /\ Head(s) \in Allowed(res, p)
           /\ Linked(res, Head(s), Tail(s))
           /\ End(Head(s), Tail(s)) = End(p, s)
<1>1. Head(s) = s[1] /\ 1 \in DOMAIN s /\ Len(s) \in Nat \ {0}
  BY EmptySeq
<1>0. Tail(s) \in Seq(S) /\ Len(Tail(s)) = Len(s) - 1
  BY <1>1
<1>2. Linked(res, Head(s), Tail(s))
  <2>1. Tail(s) # <<>> => Tail(s)[1] \in Allowed(res, Head(s))
    <3> SUFFICES ASSUME Tail(s) # <<>> PROVE Tail(s)[1] \in Allowed(res, s[1])
      BY <1>1
    <3>1. Len(s) >= 2
      BY <1>0, <1>1
    <3>2. s[2] \in Allowed(res, s[2 - 1]) /\ Tail(s)[1] = s[2] /\ 2 - 1 = 1
      BY <3>1 DEF Linked
    <3> QED
      BY <3>2
  <2>2. ASSUME NEW i \in 2..Len(Tail(s)) PROVE Tail(s)[i] \in Allowed(res, Tail(s)[i - 1])
    <3>1. i + 1 \in 2..Len(s) /\ i + 1 - 1 = i
      BY <1>0, <1>1
    <3>2. Tail(s)[i] = s[i + 1] /\ Tail(s)[i - 1] = s[i]
      BY <1>0, <1>1, <3>1
    <3>3. s[i + 1] \in Allowed(res, s[i + 1 - 1])
      BY <3>1 DEF Linked
    <3> QED
      BY <3>1, <3>2, <3>3
  <2> QED
    BY <2>1, <2>2 DEF Linked
<1>3. End(Head(s), Tail(s)) = End(p, s)
  <2>1. CASE Len(s) = 1
    <3>1. \A t \in Seq(S) : Len(t) = 0 => t = <<>>
      BY EmptySeq
    <3>2. Len(Tail(s)) = 0
      BY <2>1, <1>0
    <3>3. Tail(s) = <<>>
      BY <3>1, <3>2, <1>0
    <3> QED
      BY <1>1, <2>1, <3>3 DEF End
  <2>2. CASE Len(s) # 1
    <3>1. Len(s) > 1 /\ Len(s) - 1 \in DOMAIN Tail(s)
      BY <2>2, <1>0, <1>1
    <3>4. Len(Tail(s)) # 0
      BY <3>1, <1>0
    <3>2. Tail(s) # <<>>
      BY <3>4, EmptySeq
    <3>3. Tail(s)[Len(s) - 1] = s[Len(s)]
      BY <3>1
    <3> QED
      BY <1>0, <3>2, <3>3 DEF End
  <2> QED
    BY <2>1, <2>2
<1> QED
  BY <1>1, <1>2, <1>3 DEF Linked

\* Closures may be queued that go on after the last one.
LEMMA LinkConcat ==
    ASSUME NEW S, NEW s \in Seq(S), NEW t \in Seq(S), NEW res, NEW p,
           Linked(res, p, s), Linked(res, End(p, s), t)
    PROVE  /\ Linked(res, p, s \o t)
           /\ End(p, s \o t) = End(End(p, s), t)
<1>0. Len(s \o t) = Len(s) + Len(t) /\ Len(s) \in Nat /\ Len(t) \in Nat
  OBVIOUS
<1>1. Linked(res, p, s \o t)
  <2>1. s \o t # <<>> => (s \o t)[1] \in Allowed(res, p)
    <3>1. CASE s = <<>>
      BY <3>1 DEF Linked, End
    <3>2. CASE s # <<>>
      BY <3>2 DEF Linked
    <3> QED
      BY <3>1, <3>2
  <2>2. ASSUME NEW i \in 2..Len(s \o t)
        PROVE  (s \o t)[i] \in Allowed(res, (s \o t)[i - 1])
    <3>1. CASE i <= Len(s)
      <4>1. i \in 2..Len(s) /\ (s \o t)[i] = s[i] /\ (s \o t)[i - 1] = s[i - 1]
        BY <3>1
      <4> QED
        BY <4>1 DEF Linked
    <3>2. CASE i = Len(s) + 1
      <4>1. s # <<>> /\ t # <<>> /\ (s \o t)[i] = t[1] /\ (s \o t)[i - 1] = s[Len(s)]
        BY <3>2, <1>0
      <4> QED
        BY <4>1 DEF Linked, End
    <3>3. CASE i > Len(s) + 1
      <4>1. /\ i - Len(s) \in 2..Len(t)
            /\ (s \o t)[i] = t[i - Len(s)]
            /\ (s \o t)[i - 1] = t[i - Len(s) - 1]
        BY <3>3, <1>0
      <4> QED
        BY <4>1 DEF Linked
    <3> QED
      BY <3>1, <3>2, <3>3, <1>0
  <2> QED
    BY <2>1, <2>2 DEF Linked
<1>2. End(p, s \o t) = End(End(p, s), t)
  <2>1. CASE t = <<>>
    BY <2>1 DEF End
  <2>2. CASE t # <<>>
    <3>1. s \o t # <<>> /\ (s \o t)[Len(s \o t)] = t[Len(t)]
      BY <2>2
    <3> QED
      BY <3>1, <2>2 DEF End
  <2> QED
    BY <2>1, <2>2
<1> QED
  BY <1>1, <1>2

\* Short sequences.
LEMMA LinkFew ==
    ASSUME NEW res, NEW p
    PROVE  /\ Linked(res, p, <<>>)
           /\ \A a : a \in Allowed(res, p) => Linked(res, p, <<a>>)
           /\ \A a, b : a \in Allowed(res, p) /\ b \in Allowed(res, a) =>
                  Linked(res, p, <<a, b>>)
           /\ \A a, b, c :
                  a \in Allowed(res, p) /\ b \in Allowed(res, a) /\ c \in Allowed(res, b) =>
                  Linked(res, p, <<a, b, c>>)
<1>1. Linked(res, p, <<>>)
  BY DEF Linked
<1>2. ASSUME NEW a, a \in Allowed(res, p) PROVE Linked(res, p, <<a>>)
  <2>1. <<a>>[1] = a /\ Len(<<a>>) = 1 /\ 2..1 = {}
    OBVIOUS
  <2> QED
    BY <1>2, <2>1 DEF Linked
<1>3. ASSUME NEW a, NEW b, a \in Allowed(res, p), b \in Allowed(res, a)
      PROVE  Linked(res, p, <<a, b>>)
  <2>1. <<a, b>>[1] = a /\ <<a, b>>[2] = b /\ Len(<<a, b>>) = 2 /\ 2..2 = {2}
    OBVIOUS
  <2>2. <<a, b>>[2] \in Allowed(res, <<a, b>>[2 - 1])
    BY <1>3, <2>1
  <2> QED
    BY <1>3, <2>1, <2>2 DEF Linked
<1>4. ASSUME NEW a, NEW b, NEW c,
             a \in Allowed(res, p), b \in Allowed(res, a), c \in Allowed(res, b)
      PROVE  Linked(res, p, <<a, b, c>>)
  <2>1. /\ <<a, b, c>>[1] = a /\ <<a, b, c>>[2] = b /\ <<a, b, c>>[3] = c
        /\ Len(<<a, b, c>>) = 3 /\ 2..3 = {2, 3}
    OBVIOUS
  <2>2. <<a, b, c>>[2] \in Allowed(res, <<a, b, c>>[2 - 1])
    BY <1>4, <2>1
  <2>3. <<a, b, c>>[3] \in Allowed(res, <<a, b, c>>[3 - 1])
    BY <1>4, <2>1
  <2> QED
    BY <1>4, <2>1, <2>2, <2>3 DEF Linked
<1> QED
  BY <1>1, <1>2, <1>3, <1>4

\* The groups of events the task emits, and what it may emit them after.
LEMMA GroupsLink ==
    ASSUME NEW res, NEW e
    PROVE  /\ Linked(res, e, <<>>) /\ End(e, <<>>) = e
           /\ e = "" => Linked(res, e, <<"request_start">>)
           /\ End(e, <<"request_start">>) = "request_start"
           /\ e = "" => Linked(res, e, <<"request_start", "request_sent">>)
           /\ End(e, <<"request_start", "request_sent">>) = "request_sent"
           /\ e = "request_sent" => Linked(res, e, <<"response_headers">>)
           /\ End(e, <<"response_headers">>) = "response_headers"
           /\ e = "request_sent" => Linked(res, e, <<"response_headers", "done">>)
           /\ End(e, <<"response_headers", "done">>) = "done"
           /\ e = "response_headers" =>
                 Linked(res, e, <<"body_progress", "body_complete", "done">>)
           /\ End(e, <<"body_progress", "body_complete", "done">>) = "done"
<1>1. \A x : End(x, <<>>) = x /\ End(x, <<"request_start">>) = "request_start"
            /\ End(x, <<"request_start", "request_sent">>) = "request_sent"
            /\ End(x, <<"response_headers">>) = "response_headers"
            /\ End(x, <<"response_headers", "done">>) = "done"
            /\ End(x, <<"body_progress", "body_complete", "done">>) = "done"
  BY DEF End
<1>2. /\ "request_start" \in Allowed(res, "")
      /\ "request_sent" \in Allowed(res, "request_start")
      /\ "response_headers" \in Allowed(res, "request_sent")
      /\ "done" \in Allowed(res, "response_headers")
      /\ "body_progress" \in Allowed(res, "response_headers")
      /\ "body_complete" \in Allowed(res, "body_progress")
      /\ "done" \in Allowed(res, "body_complete")
  BY DEF Allowed, Contract!Follows
<1> QED
  BY <1>1, <1>2, LinkFew

-----------------------------------------------------------------------------
(* Every step continues the story.                                         *)

\* A step of another request leaves r alone.
Same(r) ==
    /\ js'[r] = js[r] /\ native'[r] = native[r] /\ result'[r] = result[r]
    /\ chan'[r] = chan[r] /\ log'[r] = log[r]

LEMMA SameKeeps == ASSUME NEW q, Story(q), Same(q) PROVE Story(q)'
BY DEF Story, Same, Latest, Contract!LastEvent

LEMMA StepSame ==
    ASSUME TypeOK, NEW r \in Requests, JsStep(r) \/ NativeStep(r) \/ Expire(r),
           NEW q \in Requests \ {r}
    PROVE  Same(q)
<1> USE DEF Same, TypeOK
<1>1. CASE JsStep(r)
  BY <1>1 DEF JsStep, RejectAborted, Dispatch, DispatchThrows, Abort,
              DeliverEvent, DeliverSettle
<1>2. CASE NativeStep(r)
  BY <1>2 DEF NativeStep, Send, SendFails, HeadersNoBody, HeadersInline,
              HeadersStream, InlineComplete, NetworkFails, ObserveCancel, Finish,
              Returns, Emit
<1>3. CASE Expire(r)
  BY <1>3 DEF Expire
<1> QED
  BY <1>1, <1>2, <1>3

\* The task queues e where e may come and goes on.
LEMMA Emits ==
    ASSUME IInv, NEW r \in Requests, Story(r), native[r] \in AwaitPoint,
           NEW e \in Seq(EventType), Emit(r, e), UNCHANGED <<js, log>>,
           native'[r] # "none",
           r \in Observed =>
               /\ Linked(result'[r], Latest(r), e)
               /\ Stands(native'[r], result'[r], End(Latest(r), e))
    PROVE  Story(r)'
<1>1. chan \in [Requests -> Seq(Msg)] /\ e \in Seq(Msg) /\ chan[r] \in Seq(Msg)
  BY ClosureTypes DEF IInv, TypeOK
<1>2. js'[r] \notin {"resolved", "failed"} /\ result[r] = "none"
  BY DEF IInv, Lifecycle, Phases, AwaitPoint
<1>3. Contract!LastEvent(r)' = Contract!LastEvent(r)
  BY DEF Contract!LastEvent
<1>4. CASE r \in Observed
  <2>1. chan'[r] = chan[r] \o e
    BY <1>1, <1>4 DEF Emit, Emitting
  <2>2. Linked(result'[r], Contract!LastEvent(r), chan[r])
    BY <1>2, <1>4, LinkMore DEF Story
  <2>3. /\ Linked(result'[r], Contract!LastEvent(r), chan[r] \o e)
        /\ End(Contract!LastEvent(r), chan[r] \o e) = End(Latest(r), e)
    BY <1>1, <1>4, <2>2, LinkConcat DEF Latest
  <2>4. Latest(r)' = End(Latest(r), e)
    BY <1>3, <2>1, <2>3 DEF Latest
  <2> QED
    BY <1>2, <1>3, <1>4, <2>1, <2>3, <2>4 DEF Story
<1>5. CASE r \notin Observed
  <2>1. chan'[r] = chan[r] \o <<>> /\ chan[r] \o <<>> = chan[r]
    BY <1>1, <1>5, ConcatEmptySeq DEF Emit, Emitting
  <2> QED
    BY <1>2, <1>5, <2>1 DEF Story
<1> QED
  BY <1>4, <1>5

\* A settlement that is next to run is the last closure, after an event that
\* allows it.
LEMMA SettleLast ==
    ASSUME IInv, NEW r \in Requests, Story(r), chan[r] # <<>>, Head(chan[r]) = Settle
    PROVE  /\ Tail(chan[r]) = <<>>
           /\ r \in Observed => Settle \in Allowed(result[r], Contract!LastEvent(r))
<1>1. chan[r] \in Seq(Msg)
  BY DEF IInv, TypeOK
<1>2. CASE r \in Observed
  <2>1. /\ Settle \in Allowed(result[r], Contract!LastEvent(r))
        /\ Linked(result[r], Settle, Tail(chan[r]))
    BY <1>1, <1>2, LinkHead DEF Story
  <2> QED
    BY <2>1, NothingAfterSettle DEF Linked
<1>3. CASE r \notin Observed
  <2>1. chan[r] = <<Settle>>
    BY <1>3 DEF Story
  <2>2. Tail(<<Settle>>) = <<>>
    OBVIOUS
  <2> QED
    BY <1>3, <2>1, <2>2
<1> QED
  BY <1>2, <1>3

\* The JavaScript thread.
LEMMA JsStory ==
    ASSUME IInv, NEW r \in Requests, Story(r), JsStep(r)
    PROVE  Story(r)'
<1>0. chan \in [Requests -> Seq(Msg)] /\ log \in [Requests -> Seq(EventType)]
      /\ js \in [Requests -> JsState] /\ native \in [Requests -> NativeState]
  BY DEF IInv, TypeOK
<1>1. ASSUME js[r] = "idle", js'[r] \in {"pending", "aborted", "threw"},
             native'[r] \in {"none", "spawned"}, UNCHANGED <<chan, log, result>>
      PROVE  Story(r)'
  <2>1. chan[r] = <<>> /\ log[r] = <<>>
    BY <1>1 DEF IInv, Lifecycle, Phases, Story
  <2>2. Latest(r)' = "" /\ Linked(result[r], Contract!LastEvent(r)', chan'[r])
    BY <1>1, <2>1, LinkFew DEF Latest, End, Contract!LastEvent
  <2> QED
    BY <1>1, <2>1, <2>2 DEF Story, Stands
<1>2. CASE RejectAborted(r)
  BY <1>0, <1>1, <1>2 DEF RejectAborted, IInv, Lifecycle, Phases
<1>3. CASE Dispatch(r)
  BY <1>0, <1>1, <1>3 DEF Dispatch
<1>4. CASE DispatchThrows(r)
  BY <1>0, <1>1, <1>4 DEF DispatchThrows, IInv, Lifecycle, Phases
<1>5. CASE Abort(r)
  <2>1. UNCHANGED <<native, result, chan, log>> /\ js'[r] \in {js[r], "aborted"}
    BY <1>0, <1>5 DEF Abort
  <2> QED
    BY <2>1 DEF Story, Latest, Contract!LastEvent
<1>6. ASSUME chan[r] # <<>>, chan' = [chan EXCEPT ![r] = Tail(@)],
             UNCHANGED <<native, result>>, r \in Observed,
             Contract!LastEvent(r)' = Head(chan[r]),
             js'[r] \in {"resolved", "failed"} => Tail(chan[r]) = <<>>
      PROVE  Story(r)'
  <2>1. /\ Linked(result[r], Head(chan[r]), Tail(chan[r]))
        /\ End(Head(chan[r]), Tail(chan[r])) = Latest(r)
    BY <1>0, <1>6, LinkHead DEF Story, Latest
  <2>2. chan'[r] = Tail(chan[r]) /\ Latest(r)' = Latest(r)
    BY <1>0, <1>6, <2>1 DEF Latest
  <2> QED
    BY <1>6, <2>1, <2>2 DEF Story
<1>7. CASE DeliverEvent(r)
  <2>1. r \in Observed /\ js[r] \notin {"resolved", "failed"} /\ js' = js
    BY <1>7, ClosureTypes DEF DeliverEvent, Story
  <2>2. Contract!LastEvent(r)' = Head(chan[r])
    <3>1. log'[r] = Append(log[r], Head(chan[r])) /\ log[r] \in Seq(EventType)
          /\ Head(chan[r]) \in EventType
      BY <1>0, <1>7 DEF DeliverEvent
    <3>2. Len(log'[r]) = Len(log[r]) + 1 /\ log'[r][Len(log[r]) + 1] = Head(chan[r])
      BY <3>1
    <3>3. log'[r] # <<>>
      BY <3>1, <3>2, EmptySeq
    <3> QED
      BY <3>2, <3>3 DEF Contract!LastEvent
  <2> QED
    BY <1>6, <1>7, <2>1, <2>2 DEF DeliverEvent
<1>8. CASE DeliverSettle(r)
  <2>1. native[r] = "done" /\ UNCHANGED <<native, result, log>>
    BY <1>8, SettledIsDone DEF DeliverSettle
  <2>2. chan'[r] = <<>>
    BY <1>8, SettleLast DEF DeliverSettle, IInv, TypeOK
  <2> QED
    BY <2>1, <2>2, LinkFew DEF Story, Stands
<1> QED
  BY <1>2, <1>3, <1>4, <1>5, <1>7, <1>8 DEF JsStep

\* The native task.
LEMMA NativeStory ==
    ASSUME IInv, NEW r \in Requests, Story(r), NativeStep(r)
    PROVE  Story(r)'
<1>0. native \in [Requests -> NativeState] /\ result \in [Requests -> ResultKind]
  BY DEF IInv, TypeOK
<1>1. CASE Send(r)
  <2>1. /\ native[r] = "spawned" /\ native'[r] = "sending"
        /\ Emit(r, <<"request_start", "request_sent">>) /\ UNCHANGED <<js, log, result>>
    BY <1>0, <1>1 DEF Send
  <2>2. r \in Observed => Latest(r) = ""
    BY <2>1 DEF Story, Stands
  <2> QED
    BY <2>1, <2>2, Emits, EventGroups, GroupsLink DEF Stands, AwaitPoint
<1>2. CASE SendFails(r)
  <2>1. /\ native[r] = "spawned" /\ native'[r] = "finishing" /\ result'[r] = "error"
        /\ UNCHANGED <<js, log>>
        /\ Emit(r, <<>>) \/ Emit(r, <<"request_start">>)
    BY <1>0, <1>2 DEF SendFails, Returns
  <2>4. r \in Observed => Latest(r) = ""
    BY <2>1 DEF Story, Stands
  <2>2. CASE Emit(r, <<>>)
    BY <2>1, <2>2, <2>4, Emits, EventGroups, GroupsLink DEF Stands, AwaitPoint
  <2>3. CASE Emit(r, <<"request_start">>)
    BY <2>1, <2>3, <2>4, Emits, EventGroups, GroupsLink DEF Stands, AwaitPoint
  <2> QED
    BY <2>1, <2>2, <2>3
<1>3. CASE HeadersNoBody(r)
  <2>1. /\ native[r] = "sending" /\ native'[r] = "finishing" /\ result'[r] = "nobody"
        /\ Emit(r, <<"response_headers", "done">>) /\ UNCHANGED <<js, log>>
    BY <1>0, <1>3 DEF HeadersNoBody, Returns
  <2>2. r \in Observed => Latest(r) = "request_sent"
    BY <2>1 DEF Story, Stands
  <2> QED
    BY <2>1, <2>2, Emits, EventGroups, GroupsLink DEF Stands, AwaitPoint
<1>4. CASE HeadersInline(r)
  <2>1. /\ native[r] = "sending" /\ native'[r] = "inline"
        /\ Emit(r, <<"response_headers">>) /\ UNCHANGED <<js, log>>
    BY <1>0, <1>4 DEF HeadersInline
  <2>2. r \in Observed => Latest(r) = "request_sent"
    BY <2>1 DEF Story, Stands
  <2> QED
    BY <2>1, <2>2, Emits, EventGroups, GroupsLink DEF Stands, AwaitPoint
<1>5. CASE HeadersStream(r)
  <2>1. /\ native[r] = "sending" /\ native'[r] = "finishing" /\ result'[r] = "handle"
        /\ Emit(r, <<"response_headers">>) /\ UNCHANGED <<js, log>>
    BY <1>0, <1>5 DEF HeadersStream, Returns
  <2>2. r \in Observed => Latest(r) = "request_sent"
    BY <2>1 DEF Story, Stands
  <2> QED
    BY <2>1, <2>2, Emits, EventGroups, GroupsLink DEF Stands, AwaitPoint
<1>6. CASE InlineComplete(r)
  <2>1. /\ native[r] = "inline" /\ native'[r] = "finishing" /\ result'[r] = "inline"
        /\ Emit(r, <<"body_progress", "body_complete", "done">>) /\ UNCHANGED <<js, log>>
    BY <1>0, <1>6 DEF InlineComplete, Returns
  <2>2. r \in Observed => Latest(r) = "response_headers"
    BY <2>1 DEF Story, Stands
  <2> QED
    BY <2>1, <2>2, Emits, EventGroups, GroupsLink DEF Stands, AwaitPoint
<1>7. CASE NetworkFails(r) \/ ObserveCancel(r)
  <2>1. /\ native[r] \in AwaitPoint /\ native'[r] = "finishing" /\ result'[r] = "error"
        /\ UNCHANGED <<js, log, chan>>
    BY <1>0, <1>7 DEF NetworkFails, ObserveCancel, Returns, AwaitPoint
  <2>2. js[r] \notin {"resolved", "failed"} /\ result[r] = "none"
    BY <2>1 DEF IInv, Lifecycle, Phases, AwaitPoint
  <2>3. Latest(r)' = Latest(r) /\ Contract!LastEvent(r)' = Contract!LastEvent(r)
    BY <2>1 DEF Latest, Contract!LastEvent
  <2>4. r \in Observed => Linked(result'[r], Contract!LastEvent(r), chan[r])
    BY <2>2, LinkMore DEF Story
  <2> QED
    BY <2>1, <2>2, <2>3, <2>4 DEF Story, Stands, AwaitPoint
<1>8. CASE Finish(r)
  <2> DEFINE tail == (IF result[r] = "error" THEN Emitting(r, <<"error">>) ELSE <<>>)
  <2>6. tail \in Seq(Msg)
    BY EmittingType, EventGroups, <<>> \in Seq(Msg)
  <2>7. <<Settle>> \in Seq(Msg) /\ chan[r] \in Seq(Msg)
    BY ClosureTypes DEF IInv, TypeOK
  <2>0. chan[r] \in Seq(Msg) /\ tail \in Seq(Msg) /\ <<Settle>> \in Seq(Msg)
    BY <2>6, <2>7
  <2>1. /\ native[r] = "finishing" /\ native'[r] = "done"
        /\ chan'[r] = (chan[r] \o tail) \o <<Settle>> /\ UNCHANGED <<js, log, result>>
    BY <1>0, <1>8 DEF Finish, IInv, TypeOK
  <2>2. js[r] \notin {"resolved", "failed"}
    BY <2>1 DEF IInv, Lifecycle, Phases
  <2>3. Contract!LastEvent(r)' = Contract!LastEvent(r)
    BY <2>1 DEF Contract!LastEvent
  <2>4. CASE r \in Observed
    <3>1. Linked(result[r], Latest(r), tail)
      BY <2>1, <2>4, GroupsLink, LinkFew DEF Story, Stands, Emitting, Allowed, Contract!Follows
    <3>2. Settle \in Allowed(result[r], End(Latest(r), tail))
      BY <2>1, <2>4 DEF Story, Stands, Emitting, Allowed, End
    <3> HIDE DEF tail
    <3>3. chan[r] \o tail \in Seq(Msg)
      BY <2>0
    <3>4. /\ Linked(result[r], Contract!LastEvent(r), chan[r] \o tail)
          /\ End(Contract!LastEvent(r), chan[r] \o tail) = End(Latest(r), tail)
      BY <2>0, <2>4, <3>1, LinkConcat DEF Story, Latest
    <3>5. Linked(result[r], End(Latest(r), tail), <<Settle>>)
      BY <3>2, LinkFew
    <3>6. Linked(result[r], Contract!LastEvent(r), (chan[r] \o tail) \o <<Settle>>)
      BY <2>0, <3>3, <3>4, <3>5, LinkConcat
    <3> QED
      BY <2>1, <2>2, <2>3, <2>4, <3>6 DEF Story, Stands
  <2>5. CASE r \notin Observed
    <3>1. tail = <<>> /\ (chan[r] \o tail) = chan[r]
      BY <2>0, <2>5, ConcatEmptySeq DEF Emitting
    <3>2. chan[r] = <<>>
      <4>1. chan[r] \in {<<>>, <<Settle>>}
        BY <2>5 DEF Story
      <4>2. chan[r] # <<Settle>>
        <5>1. 1 \in DOMAIN <<Settle>> /\ <<Settle>>[1] = Settle
          OBVIOUS
        <5> QED
          BY <2>1, <5>1 DEF IInv, PromiseKept
      <4> QED
        BY <4>1, <4>2
    <3>3. <<>> \o <<Settle>> = <<Settle>>
      BY <2>0, ConcatEmptySeq
    <3> QED
      BY <2>1, <2>2, <2>5, <3>1, <3>2, <3>3 DEF Story
  <2> QED
    BY <2>4, <2>5
<1> QED
  BY <1>1, <1>2, <1>3, <1>4, <1>5, <1>6, <1>7, <1>8 DEF NativeStep

LEMMA InitStories == Init => Stories
<1> SUFFICES ASSUME Init, NEW r \in Requests PROVE Story(r)
  BY DEF Stories
<1>1. /\ chan[r] = <<>> /\ log[r] = <<>> /\ native[r] = "none" /\ js[r] = "idle"
  BY DEF Init
<1> QED
  BY <1>1, LinkFew DEF Story, Stands

LEMMA StepStories == IInv /\ Stories /\ [Next]_vars => Stories'
<1> SUFFICES ASSUME IInv, Stories, [Next]_vars, NEW q \in Requests
             PROVE  Story(q)'
  BY DEF Stories
<1>0. Story(q)
  BY DEF Stories
<1>1. CASE UNCHANGED vars
  BY <1>0, <1>1, SameKeeps DEF vars, Same
<1>2. ASSUME NEW r \in Requests, JsStep(r) \/ NativeStep(r) \/ Expire(r)
      PROVE  Story(q)'
  <2>1. CASE q # r
    BY <1>0, <1>2, <2>1, StepSame, SameKeeps DEF IInv
  <2>2. CASE q = r
    <3>1. CASE Expire(r)
      BY <1>0, <2>2, <3>1, SameKeeps DEF Expire, Same
    <3> QED
      BY <1>0, <1>2, <2>2, <3>1, JsStory, NativeStory
  <2> QED
    BY <2>1, <2>2
<1> QED
  BY <1>1, <1>2 DEF Next

\* The channel continues the log legally in every reachable state.
THEOREM StoriesAreLegal == Spec => []Stories
<1>1. Init => IInv /\ Stories
  BY InitInvariant, InitStories
<1>2. (IInv /\ Stories) /\ [Next]_vars => (IInv /\ Stories)'
  BY StepInvariant, StepStories
<1> QED
  BY <1>1, <1>2, PTL DEF Spec

-----------------------------------------------------------------------------
(* Every step is one the contract allows.                                  *)

LEMMA InitContract == Init => Contract!Init
BY DEF Init, Contract!Init

\* An event that runs is one the contract lets the callback see now.
LEMMA NotifyStep ==
    ASSUME IInv, NEW r \in Requests, Story(r), DeliverEvent(r)
    PROVE  Contract!Notify(r)
<1>1. /\ chan[r] # <<>> /\ Head(chan[r]) \in EventType /\ js' = js
      /\ log' = [log EXCEPT ![r] = Append(@, Head(chan[r]))]
  BY DEF DeliverEvent
<1>2. r \in Observed /\ js[r] \in {"pending", "aborted"}
  <2>1. js[r] \in JsState /\ native[r] # "none"
    BY <1>1 DEF IInv, TypeOK, Story
  <2> QED
    BY <1>1, <2>1, ClosureTypes DEF Story, IInv, Lifecycle, Phases, JsState
<1>3. Head(chan[r]) \in Contract!Follows(Contract!LastEvent(r))
  <2>1. Head(chan[r]) \in Allowed(result[r], Contract!LastEvent(r))
    BY <1>1, <1>2, LinkHead DEF Story, IInv, TypeOK
  <2> QED
    BY <1>1, <2>1, ClosureTypes DEF Allowed
<1> QED
  BY <1>1, <1>2, <1>3 DEF Contract!Notify

\* A settlement that runs comes when the story is complete.
LEMMA SettleStep ==
    ASSUME IInv, NEW r \in Requests, Story(r), DeliverSettle(r)
    PROVE  Contract!Resolve(r) \/ Contract!Fail(r) \/ UNCHANGED <<js, log>>
<1>1. r \in Observed => Settle \in Allowed(result[r], Contract!LastEvent(r))
  BY SettleLast DEF DeliverSettle
<1>2. r \in Observed =>
          IF result[r] = "error" THEN Contract!LastEvent(r) = "error"
          ELSE Contract!LastEvent(r) \in {"response_headers", "done"}
  BY <1>1, NothingAfterSettle DEF Allowed
<1>3. CASE js[r] = "pending" /\ result[r] = "error"
  BY <1>2, <1>3 DEF DeliverSettle, Contract!Fail
<1>4. CASE js[r] = "pending" /\ result[r] # "error"
  BY <1>2, <1>4 DEF DeliverSettle, Contract!Resolve
<1>5. CASE js[r] # "pending"
  BY <1>5 DEF DeliverSettle
<1> QED
  BY <1>3, <1>4, <1>5

LEMMA StepContract == IInv /\ Stories /\ [Next]_vars => [Contract!Next]_<<js, log>>
<1> SUFFICES ASSUME IInv, Stories, [Next]_vars
             PROVE  Contract!Next \/ UNCHANGED <<js, log>>
  OBVIOUS
<1>1. CASE UNCHANGED vars
  BY <1>1 DEF vars
<1>2. ASSUME NEW r \in Requests, JsStep(r)
      PROVE  Contract!Next \/ UNCHANGED <<js, log>>
  <2>0. Story(r)
    BY DEF Stories
  <2>1. CASE RejectAborted(r) \/ Dispatch(r) \/ DispatchThrows(r)
    <3>1. Contract!Start(r)
      BY <2>1 DEF RejectAborted, Dispatch, DispatchThrows, Contract!Start
    <3> QED
      BY <3>1 DEF Contract!Next
  <2>2. CASE Abort(r)
    <3>1. Contract!Abort(r) \/ UNCHANGED <<js, log>>
      BY <2>2 DEF Abort, Contract!Abort
    <3> QED
      BY <3>1 DEF Contract!Next
  <2>3. CASE DeliverEvent(r)
    BY <2>0, <2>3, NotifyStep DEF Contract!Next
  <2>4. CASE DeliverSettle(r)
    BY <2>0, <2>4, SettleStep DEF Contract!Next
  <2> QED
    BY <1>2, <2>1, <2>2, <2>3, <2>4 DEF JsStep
<1>3. ASSUME NEW r \in Requests, NativeStep(r) \/ Expire(r)
      PROVE  UNCHANGED <<js, log>>
  BY <1>3 DEF NativeStep, Send, SendFails, HeadersNoBody, HeadersInline,
              HeadersStream, InlineComplete, NetworkFails, ObserveCancel, Finish, Expire
<1> QED
  BY <1>1, <1>2, <1>3 DEF Next

\* dispatchRequest, its channel and its native task keep the contract of fetch:
\* one outcome that never changes, and a legal story that is complete when the
\* promise settles.
THEOREM Implementation == Spec => ContractSpec
<1>1. Init => Contract!Init
  BY InitContract
<1>2. IInv /\ Stories /\ [Next]_vars => [Contract!Next]_Contract!cvars
  BY StepContract DEF Contract!cvars
<1> QED
  BY <1>1, <1>2, Invariant, StoriesAreLegal, PTL DEF Spec, ContractSpec, Contract!Spec
================================================================================
