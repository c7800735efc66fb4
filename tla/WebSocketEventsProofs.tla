------------------------ MODULE WebSocketEventsProofs ------------------------
(***************************************************************************)
(* Which listeners run for an event, and what stays behind of them, for    *)
(* any listeners, signals and number of registrations.                     *)
(*                                                                         *)
(* Everything rests on the order numbers: a registration or an assignment  *)
(* of a handler takes a number greater than all before it, so that a       *)
(* number names one of them, in the map, among those still to be called    *)
(* and in the history.                                                     *)
(***************************************************************************)
EXTENDS WebSocketEvents, WellFoundedInduction, TLAPS

\* A number names one registration, which has not run if it was to run once,
\* and a listener is registered once for a type.
Numbers ==
    /\ \A t \in Types : \A d \in registered[t] :
          t \in Listened /\ d.order <= counter /\ d.order \notin spent
    /\ \A t, u \in Types : \A d \in registered[t], e \in registered[u] :
          d.order = e.order => t = u /\ d = e
    /\ \A t \in Types : \A d, e \in registered[t] : d.listener = e.listener => d = e
    /\ \A n \in spent : n <= counter

\* A handler that is set has a number of its own.
Handlers ==
    \A t \in Types : handler[t] # NoHandler =>
        /\ handler[t].listener \in Listeners
        /\ handler[t].order \in 1..counter /\ handler[t].order \notin spent
        /\ \A u \in Types : \A d \in registered[u] : d.order # handler[t].order

\* What is still to be called is ahead, has not run, and is in the map, if it
\* is there at all, as what it was.
Ahead ==
    /\ last <= began /\ began <= counter
    /\ \A e \in left : last < e.order /\ e.order <= began /\ e.order \notin spent
    /\ \A e, f \in left : e.order = f.order => e = f
    /\ \A e \in left : \A t \in Types : \A d \in registered[t] :
          d.order = e.order => t = current /\ d = e
    /\ \A e \in left : e.once => \A t \in Types : handler[t].order # e.order

\* The inductive invariant.
EInv == TypeOK /\ Numbers /\ Handlers /\ Ahead /\ SignalsMatch

-----------------------------------------------------------------------------
(* Types, and the least number.                                            *)

\* Of the listeners to call one is the earliest.
LEMMA EarliestIsThere ==
    ASSUME NEW S \in SUBSET Descriptor, S # {}
    PROVE  Earliest(S) \in S /\ \A x \in S : Earliest(S).order <= x.order
<1> USE EventsAssumption
<1>1. /\ \A x \in S : x.order \in Nat
      /\ {x.order : x \in S} \subseteq Nat /\ {x.order : x \in S} # {}
  BY DEF Descriptor
<1>2. PICK n \in {x.order : x \in S} :
          \A m \in {x.order : x \in S} : ~ (<<m, n>> \in OpToRel(<, Nat))
  BY <1>1, WFMin, NatLessThanWellFounded, Zenon
<1>3. \A m \in {x.order : x \in S} : ~ (m < n)
  BY <1>1, <1>2, Zenon DEF OpToRel
<1>4. PICK e \in S : e.order = n
  OBVIOUS
<1>5. ASSUME NEW x \in S PROVE e.order <= x.order
  <2>1. x.order \in Nat /\ e.order \in Nat /\ ~ (x.order < e.order)
    BY <1>1, <1>3, <1>4
  <2> QED
    BY <2>1
<1> QED
  BY <1>4, <1>5, Zenon DEF Earliest

\* The entry of a handler is a descriptor.
LEMMA EntriesType ==
    ASSUME TypeOK, Handlers, NEW t \in Types
    PROVE  Entries(t) \subseteq Descriptor
<1> USE EventsAssumption
<1>1. handler[t] # NoHandler =>
          [listener |-> handler[t].listener, order |-> handler[t].order,
           once |-> FALSE, signal |-> None] \in Descriptor
  BY DEF TypeOK, Handlers, Descriptor
<1> QED
  BY <1>1 DEF Entries, TypeOK

\* Steps that have nothing to do with listeners.
Elsewhere == UNCHANGED <<registered, handler, counter, aborted, abortHooks, current,
                         left, began, last, spent>>

LEMMA ElsewhereSteps ==
    ASSUME \/ Connected \/ OpenEvent \/ NativeClose \/ CloseCall
           \/ \E throws \in BOOLEAN : NativeMessage(throws) \/ NativeFailure(throws)
    PROVE  Elsewhere
BY DEF Connected, OpenEvent, NativeClose, CloseCall, NativeMessage, NativeFailure,
       Elsewhere, regVars, runVars

\* The agendas of the native callbacks.
LEMMA Agendas ==
    /\ <<>> \in Seq(Types) /\ <<"message">> \in Seq(Types) /\ <<"close">> \in Seq(Types)
    /\ <<"error", "close">> \in Seq(Types)
BY DEF Types

LEMMA StepTypes == TypeOK /\ Handlers /\ [Next]_vars => TypeOK'
<1> SUFFICES ASSUME TypeOK, Handlers, [Next]_vars PROVE TypeOK'
  OBVIOUS
<1> USE EventsAssumption DEF TypeOK, lifeVars, regVars, runVars, Types
<1>1. CASE UNCHANGED vars
  BY <1>1 DEF vars
<1>2. ASSUME NEW t \in Listened, NEW f \in Listeners, NEW once \in BOOLEAN,
             NEW s \in Signals \cup {None}, AddEventListener(t, f, once, s)
      PROVE  TypeOK'
  <2> DEFINE d == [listener |-> f, order |-> counter + 1, once |-> once, signal |-> s]
  <2>1. counter + 1 \in 1..MaxOrder /\ d \in Descriptor
    BY <1>2 DEF AddEventListener, Descriptor
  <2>2. s # None => HookOf(t, d) \in Hook
    BY <2>1 DEF HookOf, Hook
  <2>3. registered' = [registered EXCEPT ![t] = @ \cup {d}]
        /\ abortHooks' = abortHooks \cup (IF s = None THEN {} ELSE {HookOf(t, d)})
        /\ counter' = counter + 1 /\ UNCHANGED <<lifeVars, handler, aborted, runVars>>
    BY <1>2 DEF AddEventListener
  <2> HIDE DEF d
  <2> QED
    BY <2>1, <2>2, <2>3
<1>3. ASSUME NEW t \in Listened, NEW f \in Listeners, RemoveEventListener(t, f)
      PROVE  TypeOK'
  BY <1>3 DEF RemoveEventListener, Remove
<1>4. ASSUME NEW t \in Listened, NEW f \in Listeners, SetHandler(t, f) PROVE TypeOK'
  BY <1>4 DEF SetHandler
<1>5. ASSUME NEW t \in Listened, ClearHandler(t) PROVE TypeOK'
  BY <1>5 DEF ClearHandler, NoHandler
<1>6. ASSUME NEW s \in Signals, Abort(s) PROVE TypeOK'
  BY <1>6 DEF Abort
<1>7. ASSUME NEW throws \in BOOLEAN, NativeMessage(throws) \/ NativeFailure(throws)
      PROVE  TypeOK'
  <2>1. CASE NativeMessage(throws)
    <3>1. agenda' \in Seq(Types)
      BY <2>1, Agendas DEF NativeMessage
    <3>2. pending' \in 0..MaxPending
      BY <2>1 DEF NativeMessage
    <3> QED
      BY <2>1, <3>1, <3>2 DEF NativeMessage
  <2>2. CASE NativeFailure(throws)
    <3>1. agenda' \in Seq(Types)
      BY <2>2, Agendas DEF NativeFailure
    <3> QED
      BY <2>2, <3>1 DEF NativeFailure
  <2> QED
    BY <1>7, <2>1, <2>2
<1>8. ASSUME NEW throws \in BOOLEAN, BeginDispatch(throws) PROVE TypeOK'
  <2>1. PICK t \in Types : t = Head(agenda)
    BY <1>8 DEF BeginDispatch
  <2>2. (IF throws THEN {} ELSE Entries(t)) \subseteq Descriptor
    BY EntriesType
  <2>3. Tail(agenda) \in Seq(Types)
    BY <1>8 DEF BeginDispatch
  <2>4. ready' \in {"CONNECTING", "OPEN", "CLOSING", "CLOSED"} /\ pending' \in 0..MaxPending
    BY <1>8 DEF BeginDispatch
  <2>6. closed' \in BOOLEAN
    BY <1>8, Zenon DEF BeginDispatch
  <2>5. left' \subseteq Descriptor /\ current' \in Types /\ began' \in 0..MaxOrder
    BY <1>8, <2>1, <2>2 DEF BeginDispatch
  <2> QED
    BY <1>8, <2>3, <2>4, <2>5, <2>6 DEF BeginDispatch
<1>9. CASE Connected \/ CloseCall
  BY <1>9 DEF Connected, CloseCall
<1>12. CASE NativeClose
  BY <1>12, Agendas DEF NativeClose
<1>10. CASE OpenEvent
  <2>1. [i \in 1..pending |-> "message"] \in Seq(Types) /\ <<"open">> \in Seq(Types)
    OBVIOUS
  <2>2. <<"open">> \o [i \in 1..pending |-> "message"] \in Seq(Types)
    BY <2>1
  <2>3. agenda' \in Seq(Types) /\ opened' \in BOOLEAN /\ pending' \in 0..MaxPending
    BY <1>10, <2>2 DEF OpenEvent
  <2> QED
    BY <1>10, <2>3 DEF OpenEvent
<1>11. CASE CallListener
  <2>1. PICK e \in left : e = Earliest(left)
    BY <1>11, EarliestIsThere DEF CallListener
  <2>2. e \in Descriptor
    OBVIOUS
  <2>3. registered' \in [Types -> SUBSET Descriptor] /\ abortHooks' \subseteq Hook
    BY <1>11, <2>1 DEF CallListener, Remove
  <2>4. Called(e, left \ {e})
    BY <1>11, <2>1 DEF CallListener
  <2>6. e.order \in 1..MaxOrder
    BY <2>2 DEF Descriptor
  <2>7. left' \subseteq Descriptor /\ current' \in Types /\ began' \in 0..MaxOrder
    BY <2>4 DEF Called
  <2>8. last' \in {0, e.order} /\ spent' \subseteq spent \cup {e.order}
    BY <2>4, Zenon DEF Called
  <2>5. left' \subseteq Descriptor /\ current' \in Types /\ began' \in 0..MaxOrder
        /\ last' \in 0..MaxOrder /\ spent' \subseteq 1..MaxOrder
    BY <2>6, <2>7, <2>8
  <2> QED
    BY <1>11, <2>3, <2>5 DEF CallListener
<1> HIDE DEF TypeOK
<1> QED
  BY <1>1, <1>2, <1>3, <1>4, <1>5, <1>6, <1>7, <1>8, <1>9, <1>10, <1>11, <1>12 DEF Next

-----------------------------------------------------------------------------
(* The numbers, action by action.                                          *)

\* Removing registrations disturbs no number.
LEMMA FewerNumbers ==
    ASSUME TypeOK, Numbers, Handlers, Ahead,
           \A t \in Types : registered'[t] \subseteq registered[t],
           UNCHANGED <<handler, counter, current, left, began, last, spent>>
    PROVE  (Numbers /\ Handlers /\ Ahead)'
<1>1. Numbers'
  BY DEF Numbers
<1>2. Handlers'
  BY DEF Handlers
<1>3. Ahead'
  BY DEF Ahead
<1> QED
  BY <1>1, <1>2, <1>3

\* A new registration takes a number greater than all others.
LEMMA AddNumbers ==
    ASSUME EInv, NEW t \in Listened, NEW f \in Listeners, NEW once \in BOOLEAN,
           NEW s \in Signals \cup {None}, AddEventListener(t, f, once, s)
    PROVE  (Numbers /\ Handlers /\ Ahead)'
<1> USE EventsAssumption DEF TypeOK
<1>0. TypeOK /\ Numbers /\ Handlers /\ Ahead /\ t \in Types /\ counter \in Nat
  BY DEF EInv, Types
<1>1. PICK d : d = [listener |-> f, order |-> counter + 1, once |-> once, signal |-> s]
  OBVIOUS
<1>2. /\ d.listener = f /\ d.order = counter + 1 /\ counter' = counter + 1
      /\ registered' = [registered EXCEPT ![t] = @ \cup {d}]
      /\ \A x \in registered[t] : x.listener # f
      /\ UNCHANGED <<handler, current, left, began, last, spent>>
  BY <1>0, <1>1 DEF AddEventListener, runVars
<1>8. \A u \in Types : \A x \in registered'[u] : x \in registered[u] \/ (u = t /\ x = d)
  BY <1>0, <1>2
<1>3. \A u \in Types : \A x \in registered[u] : x.order \in Nat /\ x.order <= counter
  BY <1>0 DEF Numbers, Descriptor
<1>4. \A n \in spent : n \in Nat /\ n <= counter
  BY <1>0 DEF Numbers
<1>9. \A u \in Types : \A x \in registered[u] : x.order # d.order
  BY <1>0, <1>2, <1>3
<1>10. counter < counter' /\ d.order = counter' /\ counter' \in Nat
  BY <1>0, <1>2
<1>5. Numbers'
  <2>1. \A u \in Types : \A x \in registered'[u] :
            u \in Listened /\ x.order <= counter' /\ x.order \notin spent'
    <3> SUFFICES ASSUME NEW u \in Types, NEW x \in registered'[u]
                 PROVE  u \in Listened /\ x.order <= counter' /\ x.order \notin spent
      BY <1>2
    <3>1. CASE x \in registered[u]
      BY <1>0, <1>3, <1>10, <3>1 DEF Numbers
    <3>2. CASE u = t /\ x = d
      BY <1>0, <1>4, <1>10, <3>2
    <3> QED
      BY <1>8, <3>1, <3>2
  <2>2. \A u, v \in Types : \A x \in registered'[u], y \in registered'[v] :
            x.order = y.order => u = v /\ x = y
    <3> SUFFICES ASSUME NEW u \in Types, NEW v \in Types, NEW x \in registered'[u],
                        NEW y \in registered'[v], x.order = y.order
                 PROVE  u = v /\ x = y
      OBVIOUS
    <3>1. CASE x \in registered[u] /\ y \in registered[v]
      BY <1>0, <3>1 DEF Numbers
    <3>2. CASE x = d /\ y = d
      BY <1>8, <1>9, <3>2
    <3> QED
      BY <1>8, <1>9, <3>1, <3>2
  <2>3. \A u \in Types : \A x, y \in registered'[u] : x.listener = y.listener => x = y
    BY <1>0, <1>2, <1>8 DEF Numbers
  <2>4. \A n \in spent' : n <= counter'
    BY <1>0, <1>2, <1>4
  <2> QED
    BY <2>1, <2>2, <2>3, <2>4 DEF Numbers
<1>6. Handlers'
  <2> SUFFICES ASSUME NEW u \in Types, handler[u] # NoHandler
               PROVE  /\ handler[u].listener \in Listeners
                      /\ handler[u].order \in 1..counter' /\ handler[u].order \notin spent
                      /\ \A v \in Types : \A x \in registered'[v] : x.order # handler[u].order
    BY <1>2 DEF Handlers
  <2>1. /\ handler[u].listener \in Listeners /\ handler[u].order \in 1..counter'
        /\ handler[u].order \notin spent /\ handler[u].order # d.order
    BY <1>0, <1>10 DEF Handlers
  <2>2. \A v \in Types : \A x \in registered'[v] : x.order # handler[u].order
    BY <1>0, <1>8, <2>1 DEF Handlers
  <2> QED
    BY <2>1, <2>2
<1>7. Ahead'
  <2>1. \A e \in left : e.order \in Nat /\ e.order <= began /\ began \in Nat /\ began <= counter
    BY <1>0 DEF Ahead, Descriptor
  <2>2. \A e \in left : \A u \in Types : \A x \in registered'[u] :
            x.order = e.order => u = current /\ x = e
    <3>1. \A e \in left : e.order # d.order
      BY <1>0, <1>10, <2>1
    <3> QED
      BY <1>0, <1>8, <3>1 DEF Ahead
  <2>3. last <= began /\ began <= counter'
    BY <1>0, <1>2 DEF Ahead
  <2> QED
    BY <1>0, <1>2, <2>2, <2>3 DEF Ahead
<1> QED
  BY <1>5, <1>6, <1>7

\* So does an assignment of a handler.
LEMMA SetNumbers ==
    ASSUME EInv, NEW t \in Listened, NEW f \in Listeners, SetHandler(t, f)
    PROVE  (Numbers /\ Handlers /\ Ahead)'
<1> USE EventsAssumption DEF TypeOK
<1>0. TypeOK /\ Numbers /\ Handlers /\ Ahead /\ t \in Types /\ counter \in Nat
  BY DEF EInv, Types
<1>1. PICK g : g = [listener |-> f, order |-> counter + 1]
  OBVIOUS
<1>2. /\ g.listener = f /\ g.order = counter + 1 /\ counter' = counter + 1
      /\ \A u \in Types : handler'[u] = IF u = t THEN g ELSE handler[u]
      /\ UNCHANGED <<registered, current, left, began, last, spent>>
  BY <1>0, <1>1 DEF SetHandler, runVars
<1>3. \A u \in Types : \A x \in registered[u] : x.order \in Nat /\ x.order <= counter
  BY <1>0 DEF Numbers, Descriptor
<1>4. \A n \in spent : n \in Nat /\ n <= counter
  BY <1>0 DEF Numbers
<1>5. Numbers'
  BY <1>0, <1>2, <1>3, <1>4 DEF Numbers
<1>6. Handlers'
  <2> SUFFICES ASSUME NEW u \in Types, handler'[u] # NoHandler
               PROVE  /\ handler'[u].listener \in Listeners
                      /\ handler'[u].order \in 1..counter' /\ handler'[u].order \notin spent
                      /\ \A v \in Types : \A x \in registered[v] : x.order # handler'[u].order
    BY <1>2 DEF Handlers
  <2>1. CASE u = t
    BY <1>0, <1>2, <1>3, <1>4, <2>1
  <2>2. CASE u # t
    BY <1>0, <1>2, <2>2 DEF Handlers
  <2> QED
    BY <2>1, <2>2
<1>7. Ahead'
  <2>1. \A e \in left : e.order \in Nat /\ e.order <= began /\ began \in Nat /\ began <= counter
    BY <1>0 DEF Ahead, Descriptor
  <2>2. \A e \in left : e.once => \A u \in Types : handler'[u].order # e.order
    BY <1>0, <1>2, <2>1 DEF Ahead
  <2>3. last <= began /\ began <= counter'
    BY <1>0, <1>2 DEF Ahead
  <2> QED
    BY <1>0, <1>2, <2>2, <2>3 DEF Ahead
<1> QED
  BY <1>5, <1>6, <1>7

\* A handler that is unset has no number.
LEMMA ClearNumbers ==
    ASSUME EInv, NEW t \in Listened, ClearHandler(t)
    PROVE  (Numbers /\ Handlers /\ Ahead)'
<1> USE EventsAssumption DEF TypeOK
<1>0. TypeOK /\ Numbers /\ Handlers /\ Ahead /\ t \in Types
  BY DEF EInv, Types
<1>2. /\ \A u \in Types : handler'[u] = IF u = t THEN NoHandler ELSE handler[u]
      /\ UNCHANGED <<registered, counter, current, left, began, last, spent>>
  BY <1>0 DEF ClearHandler, runVars
<1>3. Numbers'
  BY <1>0, <1>2 DEF Numbers
<1>4. Handlers'
  BY <1>0, <1>2 DEF Handlers
<1>5. Ahead'
  <2>1. \A e \in left : e.order # 0
    BY <1>0 DEF Descriptor
  <2>2. \A e \in left : e.once => \A u \in Types : handler'[u].order # e.order
    BY <1>0, <1>2, <2>1 DEF Ahead, NoHandler
  <2> QED
    BY <1>0, <1>2, <2>2 DEF Ahead
<1> QED
  BY <1>3, <1>4, <1>5

\* A dispatch calls the registrations of its type and its handler, each by its
\* number.
LEMMA BeginNumbers ==
    ASSUME EInv, NEW throws \in BOOLEAN, BeginDispatch(throws)
    PROVE  (Numbers /\ Handlers /\ Ahead)'
<1> USE EventsAssumption DEF TypeOK
<1>0. TypeOK /\ Numbers /\ Handlers /\ Ahead /\ counter \in Nat
  BY DEF EInv
<1>1. PICK t \in Types : t = Head(agenda)
  BY <1>0 DEF BeginDispatch
<1>2. PICK to : to = IF throws THEN {} ELSE Entries(t)
  OBVIOUS
<1>3. /\ left' = to /\ last' = 0 /\ (to # {} => current' = t)
      /\ began' = IF to = {} THEN 0 ELSE counter
      /\ UNCHANGED <<registered, handler, counter, spent>>
  BY <1>1, <1>2 DEF BeginDispatch, regVars
<1>4. ASSUME NEW e \in to
      PROVE  \/ e \in registered[t]
             \/ /\ handler[t] # NoHandler
                /\ e = [listener |-> handler[t].listener, order |-> handler[t].order,
                        once |-> FALSE, signal |-> None]
  BY <1>2 DEF Entries
<1>5. ASSUME NEW e \in to PROVE 0 < e.order /\ e.order <= counter /\ e.order \notin spent
  <2>1. CASE e \in registered[t]
    BY <1>0, <2>1 DEF Numbers, Descriptor
  <2>2. CASE e \notin registered[t]
    BY <1>0, <1>4, <2>2 DEF Handlers
  <2> QED
    BY <2>1, <2>2
<1>6. ASSUME NEW e \in to, NEW f \in to, e.order = f.order PROVE e = f
  <2>1. CASE e \in registered[t] /\ f \in registered[t]
    BY <1>0, <1>6, <2>1 DEF Numbers
  <2>2. CASE e \notin registered[t] /\ f \notin registered[t]
    BY <1>4, <2>2
  <2>3. CASE e \in registered[t] /\ f \notin registered[t]
    BY <1>0, <1>4, <1>6, <2>3 DEF Handlers
  <2>4. CASE e \notin registered[t] /\ f \in registered[t]
    BY <1>0, <1>4, <1>6, <2>4 DEF Handlers
  <2> QED
    BY <2>1, <2>2, <2>3, <2>4
<1>7. ASSUME NEW e \in to, NEW u \in Types, NEW d \in registered[u], d.order = e.order
      PROVE  u = t /\ d = e
  <2>1. CASE e \in registered[t]
    BY <1>0, <1>7, <2>1 DEF Numbers
  <2>2. CASE e \notin registered[t]
    BY <1>0, <1>4, <1>7, <2>2 DEF Handlers
  <2> QED
    BY <2>1, <2>2
<1>8. ASSUME NEW e \in to, e.once, NEW u \in Types PROVE handler[u].order # e.order
  <2>1. e \in registered[t]
    BY <1>4, <1>8
  <2>2. CASE handler[u] = NoHandler
    BY <1>0, <1>5, <1>8, <2>2 DEF NoHandler
  <2>3. CASE handler[u] # NoHandler
    BY <1>0, <2>1, <2>3 DEF Handlers
  <2> QED
    BY <2>2, <2>3
<1>9. Numbers'
  BY <1>0, <1>3 DEF Numbers
<1>10. Handlers'
  BY <1>0, <1>3 DEF Handlers
<1>11. Ahead'
  <2>1. CASE to = {}
    BY <1>0, <1>3, <2>1 DEF Ahead
  <2>2. CASE to # {}
    <3>1. left' = to /\ last' = 0 /\ current' = t /\ began' = counter
          /\ UNCHANGED <<registered, handler, counter, spent>>
      BY <1>3, <2>2
    <3> QED
      BY <1>0, <1>5, <1>6, <1>7, <1>8, <3>1 DEF Ahead
  <2> QED
    BY <2>1, <2>2
<1> QED
  BY <1>9, <1>10, <1>11

\* The earliest is called: the numbers of the others are greater, and the
\* number of a once listener is gone from the map when it runs.
LEMMA CallNumbers ==
    ASSUME EInv, CallListener
    PROVE  (Numbers /\ Handlers /\ Ahead)'
<1> USE EventsAssumption DEF TypeOK
<1>0. TypeOK /\ Numbers /\ Handlers /\ Ahead /\ current \in Types
  BY DEF EInv
<1>1. PICK e \in left : e = Earliest(left) /\ \A x \in left : e.order <= x.order
  BY <1>0, EarliestIsThere DEF CallListener
<1>2. /\ UNCHANGED <<handler, counter>> /\ left' = left \ {e}
      /\ spent' = spent \cup (IF e.once THEN {e.order} ELSE {})
      /\ last' = IF left' = {} THEN 0 ELSE e.order
      /\ began' = IF left' = {} THEN 0 ELSE began
      /\ left' # {} => current' = current
  BY <1>1 DEF CallListener, Called
<1>3. /\ \A t \in Types : registered'[t] \subseteq registered[t]
      /\ e.once => registered'[current] = registered[current] \ DescriptorsOf(current, e.listener)
  BY <1>0, <1>1 DEF CallListener, Remove
<1>4. /\ e.order \in Nat /\ e.order <= counter /\ e.order <= began /\ began <= counter
      /\ began \in Nat /\ counter \in Nat
  BY <1>0 DEF Ahead, Descriptor
<1>5. ASSUME e.once, NEW t \in Types, NEW d \in registered'[t] PROVE d.order # e.order
  <2>1. d.order = e.order => t = current /\ d = e
    BY <1>0, <1>3 DEF Ahead
  <2>2. e \in registered[current] => e \in DescriptorsOf(current, e.listener)
    BY DEF DescriptorsOf
  <2> QED
    BY <1>3, <1>5, <2>1, <2>2
<1>6. \A n \in spent' : n \in spent \/ (e.once /\ n = e.order)
  BY <1>2
<1>7. Numbers'
  <2>1. \A t \in Types : \A d \in registered'[t] :
            t \in Listened /\ d.order <= counter' /\ d.order \notin spent'
    BY <1>0, <1>2, <1>3, <1>5, <1>6 DEF Numbers
  <2>2. \A n \in spent' : n <= counter'
    BY <1>0, <1>2, <1>4, <1>6 DEF Numbers
  <2> QED
    BY <1>0, <1>3, <2>1, <2>2 DEF Numbers
<1>8. Handlers'
  <2> SUFFICES ASSUME NEW t \in Types, handler[t] # NoHandler
               PROVE  /\ handler[t].listener \in Listeners
                      /\ handler[t].order \in 1..counter /\ handler[t].order \notin spent'
                      /\ \A u \in Types : \A d \in registered'[u] : d.order # handler[t].order
    BY <1>2 DEF Handlers
  <2>1. e.once => handler[t].order # e.order
    BY <1>0 DEF Ahead
  <2>2. handler[t].order \notin spent'
    BY <1>0, <1>6, <2>1 DEF Handlers
  <2> QED
    BY <1>0, <1>3, <2>2 DEF Handlers
<1>9. Ahead'
  <2>1. CASE left' = {}
    BY <1>0, <1>2, <1>4, <2>1 DEF Ahead
  <2>2. CASE left' # {}
    <3>1. last' = e.order /\ began' = began /\ current' = current /\ left' \subseteq left
      BY <1>2, <2>2
    <3>2. ASSUME NEW x \in left' PROVE e.order < x.order /\ x.order <= began /\ x.order \notin spent'
      <4>1. x \in left /\ x.order # e.order /\ e.order <= x.order /\ x.order \in Nat
        BY <1>0, <1>1, <1>2 DEF Ahead, Descriptor
      <4> QED
        BY <1>0, <1>4, <1>6, <4>1 DEF Ahead
    <3>3. \A x \in left' : \A t \in Types : \A d \in registered'[t] :
              d.order = x.order => t = current /\ d = x
      BY <1>0, <1>3, <3>1 DEF Ahead
    <3>4. /\ \A x, y \in left' : x.order = y.order => x = y
          /\ \A x \in left' : x.once => \A t \in Types : handler[t].order # x.order
      BY <1>0, <3>1 DEF Ahead
    <3> QED
      BY <1>2, <1>4, <3>1, <3>2, <3>3, <3>4 DEF Ahead
  <2> QED
    BY <2>1, <2>2
<1> QED
  BY <1>7, <1>8, <1>9

-----------------------------------------------------------------------------
(* Signals and abort handlers, action by action.                           *)

\* The abort handlers, one by one.
HooksOf(H, R) ==
    \A h : h \in H <=> \E t \in Listened : \E d \in R[t] : d.signal # None /\ h = HookOf(t, d)

LEMMA HooksPointwise ==
    ASSUME NEW H, NEW R
    PROVE  HooksOf(H, R) <=>
               H = UNION {{HookOf(t, d) : d \in {x \in R[t] : x.signal # None}} : t \in Listened}
BY DEF HooksOf

\* A new registration made with a signal brings its handler.
LEMMA AddSignals ==
    ASSUME EInv, NEW t \in Listened, NEW f \in Listeners, NEW once \in BOOLEAN,
           NEW s \in Signals \cup {None}, AddEventListener(t, f, once, s)
    PROVE  SignalsMatch'
<1> USE EventsAssumption
<1>0. TypeOK /\ AbortedIsUnregistered /\ HooksOf(abortHooks, registered) /\ t \in Types
  BY HooksPointwise DEF EInv, Types, SignalsMatch, AbortHooksMatch
<1>1. PICK d : d = [listener |-> f, order |-> counter + 1, once |-> once, signal |-> s]
  OBVIOUS
<1>2. /\ d.signal = s /\ s \notin aborted /\ aborted' = aborted
      /\ \A u \in Types : registered'[u] = IF u = t THEN registered[t] \cup {d} ELSE registered[u]
      /\ abortHooks' = abortHooks \cup (IF s = None THEN {} ELSE {HookOf(t, d)})
  BY <1>0, <1>1 DEF AddEventListener, TypeOK
<1>3. AbortedIsUnregistered'
  BY <1>0, <1>2 DEF AbortedIsUnregistered
<1>4. HooksOf(abortHooks', registered')
  <2> Listened \subseteq Types
    BY DEF Types
  <2> QED
    BY <1>0, <1>2, Zenon DEF HooksOf
<1> QED
  BY <1>3, <1>4, HooksPointwise DEF SignalsMatch, AbortHooksMatch

\* A removal takes exactly the handlers of what it removes.
LEMMA RemoveSignals ==
    ASSUME EInv, NEW t \in Types, NEW ds \in SUBSET registered[t], Remove(t, ds),
           UNCHANGED aborted
    PROVE  SignalsMatch'
<1> USE EventsAssumption
<1>0. /\ TypeOK /\ Numbers /\ AbortedIsUnregistered /\ HooksOf(abortHooks, registered)
      /\ Listened \subseteq Types
  BY HooksPointwise DEF EInv, Types, SignalsMatch, AbortHooksMatch
<1>1. /\ \A u \in Types : registered'[u] = IF u = t THEN registered[t] \ ds ELSE registered[u]
      /\ abortHooks' = {h \in abortHooks : \A d \in ds : <<h.type, h.order>> # <<t, d.order>>}
  BY <1>0 DEF Remove, TypeOK
<1>2. AbortedIsUnregistered'
  BY <1>0, <1>1 DEF AbortedIsUnregistered
<1>3. ASSUME NEW h \in abortHooks'
      PROVE  \E u \in Listened : \E x \in registered'[u] : x.signal # None /\ h = HookOf(u, x)
  <2>1. PICK u, x : u \in Listened /\ x \in registered[u] /\ x.signal # None /\ h = HookOf(u, x)
    BY <1>0, <1>1, <1>3 DEF HooksOf
  <2>2. h.type = u /\ h.order = x.order
    BY <2>1 DEF HookOf
  <2>4. u = t => x \notin ds
    BY <1>1, <1>3, <2>2
  <2>3. x \in registered'[u]
    BY <1>0, <1>1, <2>1, <2>4
  <2> QED
    BY <2>1, <2>3
<1>4. ASSUME NEW u \in Listened, NEW x \in registered'[u], x.signal # None
      PROVE  HookOf(u, x) \in abortHooks'
  <2>1. HookOf(u, x) \in abortHooks /\ x \in registered[u] /\ (u = t => x \notin ds)
    BY <1>0, <1>1, <1>4 DEF HooksOf
  <2>2. HookOf(u, x).type = u /\ HookOf(u, x).order = x.order
    BY DEF HookOf
  <2>3. \A d \in ds : u = t => x.order # d.order
    BY <1>0, <2>1 DEF Numbers
  <2> QED
    BY <1>1, <2>1, <2>2, <2>3
<1>5. HooksOf(abortHooks', registered')
  BY <1>3, <1>4 DEF HooksOf
<1> QED
  BY <1>2, <1>5, HooksPointwise DEF SignalsMatch, AbortHooksMatch

\* A signal removes the registrations that were made with it, though its
\* handlers know them by type and listener only.
LEMMA AbortHits ==
    ASSUME EInv, NEW s \in Signals, Abort(s)
    PROVE  /\ \A u \in Types : registered'[u] = {d \in registered[u] : d.signal # s}
           /\ abortHooks' = {h \in abortHooks : h.signal # s}
<1> USE EventsAssumption
<1>0. TypeOK /\ Numbers /\ HooksOf(abortHooks, registered)
  BY HooksPointwise DEF EInv, SignalsMatch, AbortHooksMatch
<1> DEFINE hit(u) == {d \in registered[u] :
               \E h \in abortHooks : h.signal = s /\ h.type = u /\ h.listener = d.listener}
<1>1. ASSUME NEW u \in Types, NEW d \in registered[u] PROVE d \in hit(u) <=> d.signal = s
  <2>1. ASSUME d.signal = s PROVE d \in hit(u)
    <3>1. u \in Listened /\ s # None
      BY <1>0 DEF Numbers
    <3>2. HookOf(u, d) \in abortHooks
      BY <1>0, <2>1, <3>1 DEF HooksOf
    <3>3. HookOf(u, d).signal = s /\ HookOf(u, d).type = u /\ HookOf(u, d).listener = d.listener
      BY <2>1 DEF HookOf
    <3> QED
      BY <3>2, <3>3
  <2>2. ASSUME d \in hit(u) PROVE d.signal = s
    <3>1. PICK h \in abortHooks : h.signal = s /\ h.type = u /\ h.listener = d.listener
      BY <2>2
    <3>2. PICK v, x : v \in Listened /\ x \in registered[v] /\ h = HookOf(v, x)
      BY <1>0 DEF HooksOf
    <3>3. v = u /\ x.listener = d.listener /\ x.signal = s
      BY <3>1, <3>2 DEF HookOf
    <3> QED
      BY <1>0, <3>2, <3>3 DEF Numbers
  <2> QED
    BY <2>1, <2>2
<1>2. /\ registered' = [u \in Types |-> registered[u] \ hit(u)]
      /\ abortHooks' = {h \in abortHooks : h.signal # s /\ \A d \in hit(h.type) : d.order # h.order}
  BY DEF Abort
<1>3. \A u \in Types : registered'[u] = {d \in registered[u] : d.signal # s}
  <2> HIDE DEF hit
  <2>1. \A u \in Types : registered'[u] = registered[u] \ hit(u)
    BY <1>2
  <2> QED
    BY <1>1, <2>1
<1>4. ASSUME NEW h \in abortHooks, h.signal # s, NEW d \in hit(h.type) PROVE d.order # h.order
  <2>1. PICK v, x : v \in Listened /\ x \in registered[v] /\ h = HookOf(v, x)
    BY <1>0 DEF HooksOf
  <2>2. v = h.type /\ x.order = h.order /\ x.signal = h.signal /\ v \in Types
    BY <2>1 DEF HookOf, Types
  <2>3. d \in registered[v] /\ d.signal = s
    BY <1>1, <1>4, <2>2
  <2>4. d.order = x.order => d = x
    <3>1. v \in Types /\ d \in registered[v] /\ x \in registered[v]
      BY <2>1, <2>2, <2>3
    <3> QED
      BY <1>0, <3>1, Zenon DEF Numbers
  <2> QED
    BY <1>4, <2>2, <2>3, <2>4
<1>5. abortHooks' = {h \in abortHooks : h.signal # s}
  BY <1>2, <1>4
<1> QED
  BY <1>3, <1>5

LEMMA AbortSignals ==
    ASSUME EInv, NEW s \in Signals, Abort(s)
    PROVE  SignalsMatch'
<1> USE EventsAssumption
<1>0. /\ AbortedIsUnregistered /\ HooksOf(abortHooks, registered) /\ Listened \subseteq Types
  BY HooksPointwise DEF EInv, Types, SignalsMatch, AbortHooksMatch
<1>1. /\ \A u \in Types : registered'[u] = {d \in registered[u] : d.signal # s}
      /\ abortHooks' = {h \in abortHooks : h.signal # s} /\ aborted' = aborted \cup {s}
  BY AbortHits DEF Abort
<1>2. AbortedIsUnregistered'
  BY <1>0, <1>1 DEF AbortedIsUnregistered
<1>3. \A u, d : HookOf(u, d).signal = d.signal
  BY DEF HookOf
<1>4. HooksOf(abortHooks', registered')
  <2>1. ASSUME NEW h \in abortHooks'
        PROVE  \E u \in Listened : \E x \in registered'[u] : x.signal # None /\ h = HookOf(u, x)
    <3>1. PICK u, x : u \in Listened /\ x \in registered[u] /\ x.signal # None /\ h = HookOf(u, x)
      BY <1>0, <1>1, <2>1 DEF HooksOf
    <3> QED
      BY <1>0, <1>1, <1>3, <2>1, <3>1
  <2>2. ASSUME NEW u \in Listened, NEW x \in registered'[u], x.signal # None
        PROVE  HookOf(u, x) \in abortHooks'
    BY <1>0, <1>1, <1>3, <2>2 DEF HooksOf
  <2> QED
    BY <2>1, <2>2 DEF HooksOf
<1> QED
  BY <1>2, <1>4, HooksPointwise DEF SignalsMatch, AbortHooksMatch

-----------------------------------------------------------------------------
(* The invariant.                                                          *)

LEMMA InitInvariant == Init => EInv
<1> SUFFICES ASSUME Init PROVE EInv
  OBVIOUS
<1> USE EventsAssumption DEF Init
<1>1. TypeOK
  <2>1. <<>> \in Seq(Types) /\ "open" \in Types
    BY DEF Types
  <2>2. NoHandler \in [listener : Listeners \cup {None}, order : 0..MaxOrder]
    BY DEF NoHandler
  <2>3. 0 \in 0..MaxOrder /\ 0 \in 0..MaxPending
    OBVIOUS
  <2>4. registered \in [Types -> SUBSET Descriptor]
    OBVIOUS
  <2>5. handler \in [Types -> [listener : Listeners \cup {None}, order : 0..MaxOrder]]
    BY <2>2
  <2> QED
    BY <2>1, <2>3, <2>4, <2>5 DEF TypeOK
<1>2. Numbers
  BY DEF Numbers
<1>3. Handlers
  BY DEF Handlers
<1>4. Ahead
  BY DEF Ahead
<1>5. HooksOf(abortHooks, registered)
  BY DEF HooksOf, Types
<1>6. SignalsMatch
  BY <1>5, HooksPointwise DEF SignalsMatch, AbortHooksMatch, AbortedIsUnregistered
<1> QED
  BY <1>1, <1>2, <1>3, <1>4, <1>6 DEF EInv

\* Steps that leave the registrations and the signals alone.
LEMMA SameSignals ==
    ASSUME SignalsMatch, UNCHANGED <<registered, aborted, abortHooks>>
    PROVE  SignalsMatch'
BY DEF SignalsMatch, AbortedIsUnregistered, AbortHooksMatch

\* Steps that leave the numbers alone as well.
LEMMA SameNumbers ==
    ASSUME Numbers, Handlers, Ahead, Elsewhere
    PROVE  (Numbers /\ Handlers /\ Ahead)'
BY DEF Numbers, Handlers, Ahead, Elsewhere

LEMMA StepInvariant == EInv /\ [Next]_vars => EInv'
<1> SUFFICES ASSUME EInv, [Next]_vars PROVE EInv'
  OBVIOUS
<1> USE EventsAssumption
<1>0. /\ TypeOK /\ Numbers /\ Handlers /\ Ahead /\ SignalsMatch /\ Listened \subseteq Types
  BY DEF EInv, Types
<1>1. TypeOK'
  BY <1>0, StepTypes
<1>2. (Numbers /\ Handlers /\ Ahead)' /\ SignalsMatch'
  <2>1. CASE UNCHANGED vars
    <3>1. Elsewhere
      BY <2>1 DEF vars, regVars, runVars, Elsewhere
    <3> QED
      BY <1>0, <3>1, SameNumbers, SameSignals DEF Elsewhere
  <2>2. ASSUME NEW t \in Listened, NEW f \in Listeners, NEW once \in BOOLEAN,
               NEW s \in Signals \cup {None}, AddEventListener(t, f, once, s)
        PROVE  (Numbers /\ Handlers /\ Ahead)' /\ SignalsMatch'
    BY <2>2, AddNumbers, AddSignals
  <2>3. ASSUME NEW t \in Listened, NEW f \in Listeners, RemoveEventListener(t, f)
        PROVE  (Numbers /\ Handlers /\ Ahead)' /\ SignalsMatch'
    <3>1. /\ Remove(t, DescriptorsOf(t, f)) /\ t \in Types
          /\ DescriptorsOf(t, f) \in SUBSET registered[t]
          /\ UNCHANGED <<handler, counter, aborted, current, left, began, last, spent>>
      BY <1>0, <2>3 DEF RemoveEventListener, DescriptorsOf, runVars
    <3>2. \A u \in Types : registered'[u] \subseteq registered[u]
      BY <1>0, <3>1 DEF Remove, TypeOK
    <3> QED
      BY <1>0, <3>1, <3>2, FewerNumbers, RemoveSignals
  <2>4. ASSUME NEW t \in Listened, NEW f \in Listeners, SetHandler(t, f)
        PROVE  (Numbers /\ Handlers /\ Ahead)' /\ SignalsMatch'
    BY <1>0, <2>4, SetNumbers, SameSignals DEF SetHandler
  <2>5. ASSUME NEW t \in Listened, ClearHandler(t)
        PROVE  (Numbers /\ Handlers /\ Ahead)' /\ SignalsMatch'
    BY <1>0, <2>5, ClearNumbers, SameSignals DEF ClearHandler
  <2>6. ASSUME NEW s \in Signals, Abort(s)
        PROVE  (Numbers /\ Handlers /\ Ahead)' /\ SignalsMatch'
    <3>1. \A u \in Types : registered'[u] \subseteq registered[u]
      BY <2>6, AbortHits
    <3>2. UNCHANGED <<handler, counter, current, left, began, last, spent>>
      BY <2>6 DEF Abort, runVars
    <3> QED
      BY <1>0, <2>6, <3>1, <3>2, FewerNumbers, AbortSignals
  <2>7. ASSUME NEW throws \in BOOLEAN, BeginDispatch(throws)
        PROVE  (Numbers /\ Handlers /\ Ahead)' /\ SignalsMatch'
    BY <1>0, <2>7, BeginNumbers, SameSignals DEF BeginDispatch, regVars
  <2>8. CASE CallListener
    <3>1. SignalsMatch'
      <4>1. PICK e : e = Earliest(left)
        OBVIOUS
      <4>2. UNCHANGED aborted /\ current \in Types
        BY <1>0, <2>8 DEF CallListener, TypeOK
      <4>3. CASE e.once
        <5>1. Remove(current, DescriptorsOf(current, e.listener))
              /\ DescriptorsOf(current, e.listener) \in SUBSET registered[current]
          BY <2>8, <4>1, <4>3 DEF CallListener, DescriptorsOf
        <5> QED
          BY <4>2, <5>1, RemoveSignals
      <4>4. CASE ~ e.once
        <5>1. UNCHANGED <<registered, abortHooks>>
          BY <2>8, <4>1, <4>4 DEF CallListener
        <5> QED
          BY <1>0, <4>2, <5>1, SameSignals
      <4> QED
        BY <4>3, <4>4
    <3> QED
      BY <2>8, <3>1, CallNumbers
  <2>9. CASE \/ Connected \/ OpenEvent \/ NativeClose \/ CloseCall
             \/ \E throws \in BOOLEAN : NativeMessage(throws) \/ NativeFailure(throws)
    <3>1. Elsewhere
      BY <2>9, ElsewhereSteps
    <3> QED
      BY <1>0, <3>1, SameNumbers, SameSignals DEF Elsewhere
  <2> QED
    BY <2>1, <2>2, <2>3, <2>4, <2>5, <2>6, <2>7, <2>8, <2>9 DEF Next
<1> QED
  BY <1>1, <1>2 DEF EInv

\* The order numbers of registrations, handlers and listeners still to be
\* called name one thing each, at every time.
THEOREM Invariant == Spec => []EInv
<1>1. Init => EInv
  BY InitInvariant
<1>2. EInv /\ [Next]_vars => EInv'
  BY StepInvariant
<1> QED
  BY <1>1, <1>2, PTL DEF Spec

\* The variables have their types.
THEOREM TypesHold == Spec => []TypeOK
<1>1. EInv => TypeOK
  BY DEF EInv
<1> QED
  BY <1>1, Invariant, PTL

\* dispatchEvent calls listeners and the on-handler in the order of
\* registration, only those there were when it began, and a once listener for
\* one event, whatever the listeners change while they run.
THEOREM Turns == Spec => []ListenersRunInTurn
<1>1. EInv => ListenersRunInTurn
  BY DEF EInv, ListenersRunInTurn, OnceFiresOnce, InRegistrationOrder, Numbers, Handlers, Ahead
<1> QED
  BY <1>1, Invariant, PTL

\* addEventListener, removeEventListener, once and abort keep the abort
\* handlers on the signals in step with the registrations.
THEOREM NoHookLeftBehind == Spec => []SignalsMatch
<1>1. EInv => SignalsMatch
  BY DEF EInv
<1> QED
  BY <1>1, Invariant, PTL

\* A step that takes a registration away is a removal of its listener, its own
\* signal, or a once listener running; in the last case what is taken is the
\* registration that runs unless that is gone from the map already.
LEMMA StepRemoval ==
    ASSUME EInv, Next, NEW t \in Types, NEW d \in registered[t] \ registered'[t]
    PROVE  \/ RemoveEventListener(t, d.listener)
           \/ d.signal # None /\ d.signal \in aborted' \ aborted
           \/ CallListener /\ t = current /\ \E e \in left :
                 e.once /\ e.listener = d.listener /\ (e.order = d.order \/ e \notin registered[t])
<1> USE EventsAssumption
<1>0. TypeOK /\ Numbers /\ Handlers /\ Ahead /\ SignalsMatch /\ Listened \subseteq Types
  BY DEF EInv, Types
<1>1. ASSUME NEW u \in Listened, NEW f \in Listeners, NEW once \in BOOLEAN,
             NEW s \in Signals \cup {None}, AddEventListener(u, f, once, s)
      PROVE  FALSE
  BY <1>0, <1>1 DEF AddEventListener, TypeOK
<1>2. ASSUME NEW u \in Listened, NEW f \in Listeners, RemoveEventListener(u, f)
      PROVE  RemoveEventListener(t, d.listener)
  <2>1. t = u /\ d.listener = f
    BY <1>0, <1>2 DEF RemoveEventListener, Remove, DescriptorsOf, TypeOK
  <2> QED
    BY <1>2, <2>1
<1>3. ASSUME NEW s \in Signals, Abort(s)
      PROVE  d.signal # None /\ d.signal \in aborted' \ aborted
  <2>1. d.signal = s
    BY <1>3, AbortHits
  <2> QED
    BY <1>3, <2>1 DEF Abort
<1>4. CASE CallListener
  <2>1. PICK e \in left : e = Earliest(left)
    BY <1>0, <1>4, EarliestIsThere DEF CallListener, TypeOK
  <2>2. e.once /\ Remove(current, DescriptorsOf(current, e.listener))
    BY <1>4, <2>1 DEF CallListener
  <2>3. t = current /\ d.listener = e.listener
    BY <1>0, <2>2 DEF Remove, DescriptorsOf, TypeOK
  <2>4. e \in registered[t] => e = d
    BY <1>0, <2>3 DEF Numbers
  <2> QED
    BY <1>4, <2>2, <2>3, <2>4
<1>5. CASE \/ \E u \in Listened : ClearHandler(u) \/ \E f \in Listeners : SetHandler(u, f)
           \/ \E throws \in BOOLEAN : BeginDispatch(throws)
  BY <1>5 DEF ClearHandler, SetHandler, BeginDispatch, regVars
<1>6. CASE \/ Connected \/ OpenEvent \/ NativeClose \/ CloseCall
           \/ \E throws \in BOOLEAN : NativeMessage(throws) \/ NativeFailure(throws)
  BY <1>6, ElsewhereSteps DEF Elsewhere
<1> QED
  BY <1>1, <1>2, <1>3, <1>4, <1>5, <1>6 DEF Next

\* No registration goes away for the sake of another one, but in the case the
\* property names.
THEOREM RemovalsAreOwn == Spec => OwnRemoval
<1>1. EInv /\ [Next]_vars =>
          [\A t \in Types : \A d \in registered[t] \ registered'[t] :
              \/ RemoveEventListener(t, d.listener)
              \/ d.signal # None /\ d.signal \in aborted' \ aborted
              \/ CallListener /\ t = current /\ \E e \in left :
                    e.once /\ e.listener = d.listener
                    /\ (e.order = d.order \/ e \notin registered[t])]_vars
  BY StepRemoval
<1> QED
  BY <1>1, Invariant, PTL DEF Spec, OwnRemoval
==============================================================================
