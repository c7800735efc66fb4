--------------------------- MODULE WebSocketEvents ---------------------------
(***************************************************************************)
(* The event side of one WebSocket object: addEventListener and            *)
(* removeEventListener with once and signal, the on-handlers, the legacy   *)
(* callbacks, and dispatchEvent with listeners that change all of these    *)
(* while they run.  WebSocket says when an event comes and in which order; *)
(* here the question is which listeners run for it.                        *)
(*                                                                         *)
(* A dispatch is synchronous: nothing but the body of a listener runs      *)
(* between two calls of listeners.  What a body may do (add, remove, set a *)
(* handler, abort a signal, close) is the same as what the program may do  *)
(* between dispatches, so these steps have no guard on the dispatch.       *)
(***************************************************************************)
EXTENDS Naturals, Sequences, FiniteSets

CONSTANTS
    Listeners,    \* functions and objects that may be registered
    Signals,      \* abort signals
    None,         \* no handler, no signal
    Listened,     \* the types of event listeners are registered for
    MaxOrder,     \* bound: registrations and assignments of a handler
    MaxPending    \* bound: messages held back for the open event

ASSUME EventsAssumption ==
    /\ None \notin Listeners \cup Signals
    /\ Listened \subseteq {"open", "message", "close", "error"}
    /\ MaxOrder \in Nat /\ MaxPending \in Nat

Types == {"open", "message", "close", "error"}

VARIABLES
    ready,       \* readyState
    opened,      \* _openEventDispatched
    closed,      \* _closeEventDispatched
    pending,     \* how many messages are in _pendingMessages
    registered,  \* _listeners: descriptors by type
    handler,     \* _onopen, _onmessage, _onclose, _onerror, with their order
    counter,     \* _listenerOrderCounter
    aborted,     \* signals that were aborted
    abortHooks,  \* abort handlers the object added to signals
    agenda,      \* events the running native callback or microtask has yet to
                 \* dispatch
    current,     \* the type being dispatched
    left,        \* listeners this dispatch has not called yet
    began,       \* history: counter when the dispatch began, then 0
    last,        \* history: order of the listener called last in it
    spent        \* history: orders of once registrations that ran

lifeVars == <<ready, opened, closed, pending>>
regVars == <<registered, handler, counter, aborted, abortHooks>>
runVars == <<agenda, current, left, began, last, spent>>
vars == <<lifeVars, regVars, runVars>>

Descriptor == [listener : Listeners, order : 1..MaxOrder, once : BOOLEAN,
               signal : Signals \cup {None}]
Hook == [signal : Signals, type : Listened, listener : Listeners, order : 1..MaxOrder]

\* The abort handler that belongs to the descriptor d.
HookOf(t, d) ==
    [signal |-> d.signal, type |-> t, listener |-> d.listener, order |-> d.order]

NoHandler == [listener |-> None, order |-> 0]

Init ==
    /\ ready = "CONNECTING"
    /\ opened = FALSE
    /\ closed = FALSE
    /\ pending = 0
    /\ registered = [t \in Types |-> {}]
    /\ handler = [t \in Types |-> NoHandler]
    /\ counter = 0
    /\ aborted = {}
    /\ abortHooks = {}
    /\ agenda = <<>>
    /\ current = "open"
    /\ left = {}
    /\ began = 0
    /\ last = 0
    /\ spent = {}

-----------------------------------------------------------------------------
(* Registration.                                                           *)

\* Mutant: a signal that is aborted already is not looked at.
MutAddIgnoresAborted(t, f, once, s) ==
    /\ counter < MaxOrder
    /\ \A d \in registered[t] : d.listener # f
    /\ LET d == [listener |-> f, order |-> counter + 1, once |-> once, signal |-> s]
       IN /\ registered' = [registered EXCEPT ![t] = @ \cup {d}]
          /\ abortHooks' = abortHooks
    /\ counter' = counter + 1
    /\ UNCHANGED <<lifeVars, handler, aborted, runVars>>

\* addEventListener.  A listener that is registered for the type already, or
\* a signal that is aborted already, makes it return early.
AddEventListener(t, f, once, s) ==
    /\ counter < MaxOrder
    /\ \A d \in registered[t] : d.listener # f
    /\ s \notin aborted
    /\ LET d == [listener |-> f, order |-> counter + 1, once |-> once, signal |-> s]
       IN /\ registered' = [registered EXCEPT ![t] = @ \cup {d}]
          /\ abortHooks' = abortHooks \cup (IF s = None THEN {} ELSE {HookOf(t, d)})
    /\ counter' = counter + 1
    /\ UNCHANGED <<lifeVars, handler, aborted, runVars>>

\* Mutant: the abort handler stays on its signal.
MutRemoveKeepsHook(t, ds) ==
    /\ registered' = [registered EXCEPT ![t] = @ \ ds]
    /\ UNCHANGED abortHooks

\* removeEventListener takes its descriptors' abort handlers off their signals.
Remove(t, ds) ==
    /\ registered' = [registered EXCEPT ![t] = @ \ ds]
    /\ abortHooks' = {h \in abortHooks : \A d \in ds : <<h.type, h.order>> # <<t, d.order>>}

DescriptorsOf(t, f) == {d \in registered[t] : d.listener = f}

RemoveEventListener(t, f) ==
    /\ DescriptorsOf(t, f) # {}
    /\ Remove(t, DescriptorsOf(t, f))
    /\ UNCHANGED <<lifeVars, handler, counter, aborted, runVars>>

\* onopen = f and its like: every assignment takes a new place in the order.
SetHandler(t, f) ==
    /\ counter < MaxOrder
    /\ handler' = [handler EXCEPT ![t] = [listener |-> f, order |-> counter + 1]]
    /\ counter' = counter + 1
    /\ UNCHANGED <<lifeVars, registered, aborted, abortHooks, runVars>>

ClearHandler(t) ==
    /\ handler[t] # NoHandler
    /\ handler' = [handler EXCEPT ![t] = NoHandler]
    /\ UNCHANGED <<lifeVars, registered, counter, aborted, abortHooks, runVars>>

\* A signal is aborted: its handlers run, and each removes the listener it was
\* made for, by type and listener.
Abort(s) ==
    /\ s \notin aborted
    /\ aborted' = aborted \cup {s}
    /\ LET hit(t) == {d \in registered[t] :
                         \E h \in abortHooks : h.signal = s /\ h.type = t /\ h.listener = d.listener}
       IN /\ registered' = [t \in Types |-> registered[t] \ hit(t)]
          /\ abortHooks' = {h \in abortHooks :
                 /\ h.signal # s
                 /\ \A d \in hit(h.type) : d.order # h.order}
    /\ UNCHANGED <<lifeVars, handler, counter, runVars>>

-----------------------------------------------------------------------------
(* What makes the object dispatch events.                                  *)

Quiet == agenda = <<>> /\ left = {}

\* The connect promise resolves and the open event is scheduled.
Connected ==
    /\ Quiet
    /\ ready = "CONNECTING"
    /\ ready' = "OPEN"
    /\ UNCHANGED <<opened, closed, pending, regVars, runVars>>

\* The microtask of the open event: it is followed by the messages that were
\* held back for it.
OpenEvent ==
    /\ Quiet
    /\ ready = "OPEN"
    /\ ~opened
    /\ opened' = TRUE
    /\ agenda' = <<"open">> \o [i \in 1..pending |-> "message"]
    /\ pending' = 0
    /\ UNCHANGED <<ready, closed, regVars, current, left, began, last, spent>>

\* handleNativeMessage.  The legacy callback is called outside any try: if it
\* throws, the message goes no further.
NativeMessage(throws) ==
    /\ Quiet
    /\ ~closed
    /\ IF throws
       THEN UNCHANGED <<pending, agenda>>
       ELSE IF ~opened /\ ready = "OPEN"
            THEN /\ pending < MaxPending
                 /\ pending' = pending + 1
                 /\ UNCHANGED agenda
            ELSE agenda' = <<"message">> /\ UNCHANGED pending
    /\ UNCHANGED <<ready, opened, closed, regVars, current, left, began, last, spent>>

\* handleNativeClose.
NativeClose ==
    /\ Quiet
    /\ ~closed
    /\ agenda' = <<"close">>
    /\ UNCHANGED <<lifeVars, regVars, current, left, began, last, spent>>

\* The connect, a send or a close fails: handleNativeError, then
\* finalizeClosed, unless the legacy onError throws between them.
NativeFailure(throws) ==
    /\ Quiet
    /\ ~closed
    /\ agenda' = IF throws THEN <<>> ELSE <<"error", "close">>
    /\ UNCHANGED <<lifeVars, regVars, current, left, began, last, spent>>

\* close().
CloseCall ==
    /\ ready \in {"CONNECTING", "OPEN"}
    /\ ready' = "CLOSING"
    /\ UNCHANGED <<opened, closed, pending, regVars, runVars>>

-----------------------------------------------------------------------------
(* dispatchEvent.                                                          *)

Entries(t) ==
    registered[t] \cup
        (IF handler[t] = NoHandler THEN {}
         ELSE {[listener |-> handler[t].listener, order |-> handler[t].order,
                once |-> FALSE, signal |-> None]})

\* The next event of the agenda.  finalizeClosed sets the flags before it
\* dispatches; its legacy callback may throw as well.  The listeners to call
\* are fixed here.
BeginDispatch(throws) ==
    /\ left = {}
    /\ agenda # <<>>
    /\ LET t == Head(agenda)
           to == IF throws THEN {} ELSE Entries(t)
       IN /\ throws => t = "close"
          /\ IF t = "close"
             THEN /\ ready' = "CLOSED"
                  /\ closed' = TRUE
                  /\ pending' = 0
             ELSE UNCHANGED <<ready, closed, pending>>
          /\ left' = to
          /\ current' = IF to = {} THEN "open" ELSE t
          /\ began' = IF to = {} THEN 0 ELSE counter
    /\ agenda' = Tail(agenda)
    /\ last' = 0
    /\ UNCHANGED <<opened, regVars, spent>>

\* The listener with the least order: ordered.sort.
Earliest(S) == CHOOSE e \in S : \A x \in S : e.order <= x.order

\* e was called and rest is left; the history of the dispatch ends with it.
Called(e, rest) ==
    /\ left' = rest
    /\ last' = IF rest = {} THEN 0 ELSE e.order
    /\ began' = IF rest = {} THEN 0 ELSE began
    /\ current' = IF rest = {} THEN "open" ELSE current
    /\ spent' = spent \cup (IF e.once THEN {e.order} ELSE {})

\* Mutant: a once listener is taken off after its call, and only if it is
\* still the registration that was called.
MutCallLeavesOnce ==
    /\ left # {}
    /\ Called(Earliest(left), left \ {Earliest(left)})
    /\ UNCHANGED <<lifeVars, regVars, agenda>>

\* Mutant: the listeners are read from the live map.
MutCallLive ==
    /\ left # {}
    /\ LET e == Earliest(left)
       IN /\ IF e.once
             THEN Remove(current, DescriptorsOf(current, e.listener))
             ELSE UNCHANGED <<registered, abortHooks>>
          /\ Called(e, {x \in Entries(current) : x.order > e.order})
    /\ UNCHANGED <<lifeVars, handler, counter, aborted, agenda>>

\* Mutant: an exception of a listener ends the native callback.
MutCallThrows ==
    /\ left # {}
    /\ LET e == Earliest(left)
       IN Called(e, {})
    /\ agenda' = <<>>
    /\ UNCHANGED <<lifeVars, regVars>>

\* One listener is called.  A once listener is removed first, by type and
\* listener; an exception of the listener is caught.
CallListener ==
    /\ left # {}
    /\ LET e == Earliest(left)
       IN /\ IF e.once
             THEN Remove(current, DescriptorsOf(current, e.listener))
             ELSE UNCHANGED <<registered, abortHooks>>
          /\ Called(e, left \ {e})
    /\ UNCHANGED <<lifeVars, handler, counter, aborted, agenda>>

Next ==
    \/ \E t \in Listened :
          \/ \E f \in Listeners :
                \/ \E once \in BOOLEAN, s \in Signals \cup {None} :
                       AddEventListener(t, f, once, s)
                \/ RemoveEventListener(t, f)
                \/ SetHandler(t, f)
          \/ ClearHandler(t)
    \/ \E s \in Signals : Abort(s)
    \/ \E throws \in BOOLEAN :
          NativeMessage(throws) \/ NativeFailure(throws) \/ BeginDispatch(throws)
    \/ Connected \/ OpenEvent \/ NativeClose \/ CloseCall \/ CallListener

Spec == Init /\ [][Next]_vars

\* A dispatch that began goes on: it is one synchronous run.
FairSpec ==
    Spec /\ WF_vars(\E throws \in BOOLEAN : BeginDispatch(throws)) /\ WF_vars(CallListener)

-----------------------------------------------------------------------------
(* Properties.                                                             *)

TypeOK ==
    /\ ready \in {"CONNECTING", "OPEN", "CLOSING", "CLOSED"}
    /\ opened \in BOOLEAN /\ closed \in BOOLEAN
    /\ pending \in 0..MaxPending
    /\ registered \in [Types -> SUBSET Descriptor]
    /\ handler \in [Types -> [listener : Listeners \cup {None}, order : 0..MaxOrder]]
    /\ counter \in 0..MaxOrder /\ began \in 0..MaxOrder /\ last \in 0..MaxOrder
    /\ aborted \subseteq Signals
    /\ abortHooks \subseteq Hook
    /\ agenda \in Seq(Types) /\ current \in Types
    /\ left \subseteq Descriptor
    /\ spent \subseteq 1..MaxOrder

\* A once registration runs for one event at most, whatever the listeners
\* before it did with it: once it ran it is neither registered nor waiting.
OnceFiresOnce ==
    /\ \A t \in Types : \A d \in registered[t] : d.order \notin spent
    /\ \A e \in left : e.order \notin spent

\* Listeners and the on-handler run in the order in which they were registered
\* or assigned, and one registered while the event is dispatched does not run
\* for it.
InRegistrationOrder ==
    /\ last <= began
    /\ \A e \in left : last < e.order /\ e.order <= began
    /\ \A t \in Types : handler[t] # NoHandler =>
           \A d \in registered[t] : d.order # handler[t].order

\* A registration whose signal was aborted is gone: it can run for the event
\* being dispatched, never for a later one.
AbortedIsUnregistered ==
    \A t \in Types : \A d \in registered[t] : d.signal \notin aborted

\* The object leaves an abort handler on a signal for each registration made
\* with it and for nothing else: none stays behind when a listener is removed,
\* fires once, or is registered again with another signal.
AbortHooksMatch ==
    abortHooks = UNION {{HookOf(t, d) : d \in {x \in registered[t] : x.signal # None}} :
                           t \in Listened}

\* Every listener runs in its turn and a once listener in one turn only.
ListenersRunInTurn == OnceFiresOnce /\ InRegistrationOrder

\* Signals and registrations agree, in both directions.
SignalsMatch == AbortedIsUnregistered /\ AbortHooksMatch

\* A registration goes away by a removal, by its own signal or by running once
\* itself.  The exception is the code's: a once registration that a listener
\* before it removed and replaced takes the replacement away when its turn
\* comes, because it is removed by listener.
OwnRemoval ==
    [][\A t \in Types : \A d \in registered[t] \ registered'[t] :
          \/ RemoveEventListener(t, d.listener)
          \/ d.signal # None /\ d.signal \in aborted' \ aborted
          \/ CallListener /\ t = current /\ \E e \in left :
                e.once /\ e.listener = d.listener /\ (e.order = d.order \/ e \notin registered[t])]_vars

\* An event that a native callback brings reaches all its listeners and the
\* close event follows a failure, whatever the listeners do, unless a legacy
\* callback threw.
DispatchEnds ==
    /\ agenda # <<>> ~> Quiet
    /\ Len(agenda) = 2 /\ agenda[2] = "close" ~> closed

==============================================================================
