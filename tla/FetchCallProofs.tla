-------------------------- MODULE FetchCallProofs ---------------------------
(***************************************************************************)
(* What a call of fetch() checked before an await still holds of what it   *)
(* sends, and what calls share is not spoiled by any of them: the default  *)
(* headers of the session, the profiles and the body of a Request.  For    *)
(* any calls and any arguments they may be given.                          *)
(*                                                                         *)
(* The invariant speaks of one call at a time (CallInv), of the Request    *)
(* (OneClaim), of the defaults and of the profiles.                        *)
(*                                                                         *)
(* In the middle are header lists of any length, by induction.  All        *)
(* operations are reduced to the values a name has, as a list: ValuesOf a  *)
(* Headers object, and those Picked from a list of pairs.                  *)
(*                                                                         *)
(* The last part is about operators alone: emulations and the options of   *)
(* WebSockets, whatever is in them.                                        *)
(***************************************************************************)
EXTENDS Arguments, Lists

\* undefined has no fields: a record is never taken for it.  The runs have it as a
\* model value, which TLC knows to differ from every record.
NoneIsNoRecord == DOMAIN None = {}

\* The init object has what the checks look at.
HasFields(g) == {"live", "takes", "timeout"} \subseteq DOMAIN g /\ g.timeout \in {None} \cup Int

\* The program may have edited the init object under the call.
Touched(c) == config[c].live /\ edits > 0

\* No session was asked for.
NoSession(g) == ~g.session /\ g.sessionId # "id" /\ g.cookieMode # "session"

\* From the first await on: what was checked holds unless the object was edited.
Settled(c) ==
    /\ DOMAIN context[c] # {}
    /\ TimeoutValid(config[c].timeout) \/ Touched(c)
    /\ context[c].session = "ephemeral" => NoSession(config[c]) \/ Touched(c)

\* What is sent.
Delivered(c) ==
    /\ DOMAIN sent[c] # {}
    /\ sent[c].method \in {"GET", "HEAD"} => sent[c].body = None
    /\ NativeLimit(sent[c].timeout) = 0 => sent[c].timeout \in {0, 1} \/ Touched(c)
    /\ sent[c].session = "ephemeral" => NoSession(config[c]) \/ Touched(c)

CallInv(c) ==
    /\ pc[c] \in {"idle", "resolving", "serializing", "sent", "rejected"}
    /\ pc[c] \in {"idle", "resolving"} => context[c] = None
    /\ pc[c] # "sent" => sent[c] = None
    /\ IF pc[c] = "idle" THEN config[c] = None ELSE HasFields(config[c])
    /\ pc[c] \in {"serializing", "sent"} => Settled(c)
    /\ pc[c] = "sent" => Delivered(c)

\* A call that takes the body of the Request and was not rejected.
Claims(c) == pc[c] \in {"resolving", "serializing", "sent"} /\ config[c].takes

\* There is one such call at most, and bodyUsed is set.
OneClaim ==
    /\ \A c \in Calls : Claims(c) => requestUsed
    /\ \A c, d \in Calls : Claims(c) /\ Claims(d) => c = d

Domains ==
    /\ pc = [c \in Calls |-> pc[c]] /\ DOMAIN config = Calls
    /\ DOMAIN context = Calls /\ DOMAIN sent = Calls
    /\ edits \in Nat

\* The invariant.
FInv == Domains /\ (\A c \in Calls : CallInv(c)) /\ OneClaim

-----------------------------------------------------------------------------
(* The arguments of a call.                                                *)

\* fetch() works with the fields it was given, with "live" and "takes" noted.
LEMMA EnteredFields ==
    ASSUME NEW m \in Menu
    PROVE  HasFields(Entered(m)) /\ Entered(m).takes = TakesBody(m)
<1> DEFINE a == FromHelper(m)
           b == FromLegacy(a)
           d == FromSession(b)
           e == FromRequest(d)
<1>1. IsArguments(m)
  BY CallAssumption
<1>2. DOMAIN a = DOMAIN m /\ a.timeout = m.timeout
  BY <1>1 DEF FromHelper, IsArguments
<1> HIDE DEF a
<1>3. DOMAIN b = DOMAIN m /\ b.timeout = m.timeout
  BY <1>1, <1>2 DEF FromLegacy, IsArguments
<1> HIDE DEF b
<1>4. DOMAIN d = DOMAIN m /\ d.timeout = m.timeout
  BY <1>1, <1>3 DEF FromSession, IsArguments
<1> HIDE DEF d
<1>5. DOMAIN e = DOMAIN m /\ e.timeout = m.timeout
  BY <1>1, <1>4 DEF FromRequest, IsArguments
<1>6. Entered(m) = [f \in DOMAIN e \cup {"live", "takes"} |->
                       CASE f = "live" -> m.via = "fetch" /\ ~m.request
                         [] f = "takes" -> TakesBody(m)
                         [] OTHER -> e[f]]
  BY DEF Entered, a, b, d
<1> HIDE DEF e
<1>7. "timeout" \in DOMAIN m /\ m.timeout \in {None} \cup Int
  BY <1>1 DEF IsArguments
<1>8. DOMAIN Entered(m) = DOMAIN e \cup {"live", "takes"}
  BY <1>6
<1>9. Entered(m).timeout = m.timeout /\ Entered(m).takes = TakesBody(m)
  BY <1>5, <1>6, <1>7
<1> QED
  BY <1>5, <1>7, <1>8, <1>9 DEF HasFields

-----------------------------------------------------------------------------
(* One call.                                                               *)

\* A step that leaves a call alone.
LEMMA Unmoved ==
    ASSUME NEW c \in Calls, CallInv(c), Domains,
           pc'[c] = pc[c], config'[c] = config[c], context'[c] = context[c],
           sent'[c] = sent[c], edits' \in Nat, edits' >= edits
    PROVE  CallInv(c)' /\ (Claims(c)' <=> Claims(c))
<1>1. Touched(c) => Touched(c)'
  BY DEF Touched, Domains
<1>2. Settled(c) => Settled(c)'
  BY <1>1 DEF Settled
<1>3. Delivered(c) => Delivered(c)'
  BY <1>1 DEF Delivered
<1> QED
  BY <1>2, <1>3 DEF CallInv, Claims

\* A rejected call has sent nothing.
LEMMA RejectStep ==
    ASSUME NEW c \in Calls, CallInv(c), Domains, Reject(c),
           HasFields(config'[c]), UNCHANGED sent, pc[c] # "sent"
    PROVE  CallInv(c)' /\ ~Claims(c)'
<1>1. pc'[c] = "rejected"
  BY DEF Reject, Domains
<1> QED
  BY <1>1 DEF CallInv, Claims

\* The step of Call is for an argument of the menu.
LEMMA CallStep ==
    ASSUME NEW c \in Calls, NEW m \in Menu, FInv, Call(c, m)
    PROVE  CallInv(c)' /\ (Claims(c)' => requestUsed' /\ ~requestUsed)
<1>1. config'[c] = Entered(m) /\ pc[c] = "idle" /\ UNCHANGED <<context, sent>>
  BY DEF Call, FInv, Domains
<1>2. HasFields(config'[c]) /\ config'[c].takes = TakesBody(m)
  BY <1>1, EnteredFields
<1>3. CASE Reject(c)
  BY <1>1, <1>2, <1>3, RejectStep DEF FInv
<1>4. CASE /\ pc' = [pc EXCEPT ![c] = "resolving"]
           /\ requestUsed' = (requestUsed \/ TakesBody(m))
           /\ ~(TakesBody(m) /\ requestUsed)
  <2>1. pc'[c] = "resolving"
    BY <1>4 DEF FInv, Domains
  <2>2. CallInv(c)'
    BY <1>1, <1>2, <2>1 DEF CallInv, FInv
  <2>3. Claims(c)' => requestUsed' /\ ~requestUsed
    BY <1>2, <1>4 DEF Claims
  <2> QED
    BY <2>2, <2>3
<1> QED
  BY <1>3, <1>4 DEF Call

LEMMA ResolveStep ==
    ASSUME NEW c \in Calls, FInv, Resolve(c)
    PROVE  CallInv(c)' /\ (Claims(c)' => Claims(c))
<1>1. /\ pc[c] = "resolving" /\ UNCHANGED <<config, sent, edits>> /\ HasFields(config[c])
      /\ sent[c] = None
  BY DEF Resolve, FInv, CallInv, cacheVars
<1>2. CASE Reject(c)
  BY <1>1, <1>2, RejectStep DEF FInv
<1>3. CASE ~Reject(c)
  <2> DEFINE g == config[c]
             session == SessionContext(g)
  <2>1. /\ session # Error /\ TimeoutValid(g.timeout)
        /\ pc' = [pc EXCEPT ![c] = "serializing"]
        /\ context' = [context EXCEPT ![c] =
              [session |-> session, body |-> g.body, method |-> EnsureMethod(g.method)]]
    BY <1>3 DEF Resolve
  <2>2. pc'[c] = "serializing" /\ context'[c].session = session /\ DOMAIN context'[c] # {}
    BY <2>1 DEF FInv, Domains
  <2>3. session = "ephemeral" => NoSession(g)
    BY <2>1 DEF SessionContext, NoSession
  <2> HIDE DEF session
  <2>4. Settled(c)'
    BY <1>1, <2>1, <2>2, <2>3 DEF Settled
  <2> QED
    BY <1>1, <2>2, <2>4 DEF CallInv, Claims
<1> QED
  BY <1>2, <1>3

\* The rest of the call.  What is sent was checked, or edited in between.
LEMMA SendStep ==
    ASSUME NEW c \in Calls, FInv, Send(c)
    PROVE  CallInv(c)' /\ (Claims(c)' => Claims(c))
<1>1. /\ pc[c] = "serializing" /\ UNCHANGED <<config, context>> /\ HasFields(config[c])
      /\ Settled(c) /\ sent[c] = None
  BY DEF Send, FInv, CallInv
<1>2. edits' = edits
  BY DEF Send, UseProfiles, cacheVars
<1>3. CASE Reject(c)
  <2>1. UNCHANGED sent
    <3>1. pc' # [pc EXCEPT ![c] = "sent"]
      BY <1>3 DEF Reject, FInv, Domains
    <3> QED
      BY <3>1 DEF Send
  <2> QED
    BY <1>1, <1>3, <2>1, RejectStep DEF FInv
<1>4. CASE ~Reject(c)
  <2> DEFINE g == config[c]
             x == context[c]
  <2>1. BodyAllowed(x) /\ pc' = [pc EXCEPT ![c] = "sent"]
    BY <1>4 DEF Send
  <2>2. /\ DOMAIN sent'[c] # {}
        /\ sent'[c].method = x.method /\ sent'[c].body = x.body
        /\ sent'[c].session = x.session /\ sent'[c].timeout = Timeout(g, x.session)
    <3>1. \E h, t, v : sent' = [sent EXCEPT ![c] =
              [method |-> x.method, body |-> x.body, headers |-> h, session |-> x.session,
               transport |-> t, timeout |-> Timeout(g, x.session), given |-> v]]
      BY <1>4 DEF Send
    <3> QED
      BY <3>1 DEF FInv, Domains
  <2>3. pc'[c] = "sent"
    BY <2>1 DEF FInv, Domains
  <2>4. Touched(c)' <=> Touched(c)
    BY <1>1, <1>2 DEF Touched
  <2>5. Settled(c)'
    BY <1>1, <2>4 DEF Settled
  <2>6. ASSUME NativeLimit(Timeout(g, x.session)) = 0, ~Touched(c)
        PROVE  Timeout(g, x.session) \in {0, 1}
    <3>1. Timeout(g, x.session) \in Nat
      <4>1. CASE g.timeout # None
        BY <4>1, <2>6, <1>1 DEF Timeout, Settled, TimeoutValid, HasFields
      <4>2. CASE g.timeout = None
        BY <4>2, CallAssumption DEF Timeout, DefaultTimeout
      <4> QED
        BY <4>1, <4>2
    <3>2. \A t \in Nat : NativeLimit(t) = 0 => t \in {0, 1}
      BY DEF NativeLimit
    <3> QED
      BY <3>1, <3>2, <2>6
  <2>7. Delivered(c)'
    BY <1>1, <2>1, <2>2, <2>4, <2>6 DEF Delivered, Settled, BodyAllowed
  <2> QED
    BY <1>1, <2>3, <2>5, <2>7 DEF CallInv, Claims
<1> QED
  BY <1>3, <1>4

LEMMA EditStep ==
    ASSUME NEW c \in Calls, FInv, EditInit(c)
    PROVE  CallInv(c)' /\ (Claims(c)' => Claims(c))
<1>1. /\ pc[c] \in {"resolving", "serializing"} /\ config[c].live
      /\ UNCHANGED <<pc, context, sent>> /\ edits' = edits + 1
      /\ HasFields(config[c]) /\ edits \in Nat
  BY DEF EditInit, FInv, CallInv, Domains
<1>2. /\ config'[c].live = config[c].live /\ config'[c].takes = config[c].takes
      /\ HasFields(config'[c])
  <2>1. CASE config' = [config EXCEPT ![c].timeout = 0 - 2]
    <3>1. config'[c] = [config[c] EXCEPT !.timeout = 0 - 2]
      BY <2>1 DEF FInv, Domains
    <3>2. DOMAIN config'[c] = DOMAIN config[c] /\ config'[c].timeout = 0 - 2
      BY <3>1, <1>1 DEF HasFields
    <3>3. config'[c].live = config[c].live /\ config'[c].takes = config[c].takes
      BY <3>1, <1>1 DEF HasFields
    <3> QED
      BY <3>2, <3>3, <1>1 DEF HasFields
  <2>2. CASE config' = [config EXCEPT ![c].method = "HEAD"]
    BY <1>1, <2>2 DEF HasFields, FInv, Domains
  <2>3. CASE config' = [config EXCEPT ![c].session = FALSE]
    BY <1>1, <2>3 DEF HasFields, FInv, Domains
  <2> QED
    BY <2>1, <2>2, <2>3 DEF EditInit
<1>3. Touched(c)'
  BY <1>1, <1>2 DEF Touched
<1>4. pc[c] = "serializing" => Settled(c)'
  BY <1>1, <1>3 DEF Settled, FInv, CallInv
<1> QED
  BY <1>1, <1>2, <1>4 DEF CallInv, Claims, FInv
LEMMA BodyFailsStep ==
    ASSUME NEW c \in Calls, FInv, BodyFails(c)
    PROVE  CallInv(c)' /\ (Claims(c)' => Claims(c))
<1>1. /\ Reject(c) /\ pc[c] = "serializing" /\ UNCHANGED <<config, sent>>
      /\ CallInv(c) /\ Domains
  BY DEF BodyFails, FInv
<1>2. HasFields(config'[c])
  BY <1>1 DEF CallInv
<1> QED
  BY <1>1, <1>2, RejectStep

\* The others and the Request while one call moves.
LEMMA OneMoves ==
    ASSUME NEW c \in Calls, FInv, Domains', CallInv(c)', edits' >= edits,
           \A d \in Calls \ {c} : /\ pc'[d] = pc[d] /\ config'[d] = config[d]
                                  /\ context'[d] = context[d] /\ sent'[d] = sent[d],
           requestUsed => requestUsed',
           Claims(c)' => requestUsed' /\ (Claims(c) \/ ~requestUsed)
    PROVE  FInv'
<1>1. \A d \in Calls \ {c} : CallInv(d)' /\ (Claims(d)' <=> Claims(d))
  BY Unmoved DEF FInv, Domains
<1>2. \A d \in Calls : CallInv(d)'
  BY <1>1
<1>3. \A d \in Calls : Claims(d) => requestUsed
  BY DEF FInv, OneClaim
<1>4. \A d \in Calls : Claims(d)' => requestUsed'
  BY <1>1, <1>3
<1>5. \A d, e \in Calls : Claims(d)' /\ Claims(e)' => d = e
  BY <1>1, <1>3 DEF FInv, OneClaim
<1> QED
  BY <1>2, <1>4, <1>5 DEF FInv, OneClaim

\* The four functions of the calls stay functions of the calls.
LEMMA StepDomains ==
    ASSUME Domains, [Next]_vars
    PROVE  Domains' /\ edits' >= edits
<1> USE DEF Domains, callVars, sharedVars, cacheVars
<1>1. ASSUME NEW c \in Calls, NEW m \in Menu, Call(c, m)
      PROVE  Domains' /\ edits' >= edits
  BY <1>1 DEF Call, Reject
<1>2. ASSUME NEW c \in Calls, Resolve(c)
      PROVE  Domains' /\ edits' >= edits
  BY <1>2 DEF Resolve, Reject
<1>3. ASSUME NEW c \in Calls, BodyFails(c)
      PROVE  Domains' /\ edits' >= edits
  BY <1>3 DEF BodyFails, Reject
<1>4. ASSUME NEW c \in Calls, Send(c)
      PROVE  Domains' /\ edits' >= edits
  <2>1. UNCHANGED <<config, context, requestUsed, edits>>
    BY <1>4 DEF Send, UseProfiles
  <2>2. pc' = [d \in Calls |-> pc'[d]]
    BY <1>4 DEF Send, Reject
  <2>3. DOMAIN sent' = Calls
    BY <1>4 DEF Send
  <2> QED
    BY <2>1, <2>2, <2>3
<1>5. ASSUME NEW c \in Calls, EditInit(c)
      PROVE  Domains' /\ edits' >= edits
  BY <1>5 DEF EditInit
<1>6. CASE EditOwn
  BY <1>6 DEF EditOwn
<1>7. CASE Close
  BY <1>7 DEF Close
<1>8. CASE \E array : EditProfiles(array)
  BY <1>8 DEF EditProfiles
<1>9. CASE UNCHANGED vars
  BY <1>9 DEF vars
<1> QED
  BY <1>1, <1>2, <1>3, <1>4, <1>5, <1>6, <1>7, <1>8, <1>9 DEF Next

\* A step of one call, or of none.
LEMMA StepCalls == FInv /\ [Next]_vars => FInv'
<1> SUFFICES ASSUME FInv, [Next]_vars PROVE FInv'
  OBVIOUS
<1>1. Domains /\ Domains' /\ edits' >= edits
  BY StepDomains DEF FInv
<1>2. \A c \in Calls : Claims(c) => requestUsed
  BY DEF FInv, OneClaim
<1>3. ASSUME NEW c \in Calls, NEW m \in Menu, Call(c, m) PROVE FInv'
  <2>1. CallInv(c)' /\ (Claims(c)' => requestUsed' /\ ~requestUsed)
    BY <1>3, CallStep
  <2>2. \A d \in Calls \ {c} : /\ pc'[d] = pc[d] /\ config'[d] = config[d]
                               /\ context'[d] = context[d] /\ sent'[d] = sent[d]
    BY <1>1, <1>3 DEF Call, Reject, Domains
  <2>3. requestUsed => requestUsed'
    BY <1>3 DEF Call
  <2> QED
    BY <1>1, <2>1, <2>2, <2>3, OneMoves
<1>4. ASSUME NEW c \in Calls, Resolve(c) \/ BodyFails(c) \/ Send(c) \/ EditInit(c) PROVE FInv'
  <2>1. CallInv(c)' /\ (Claims(c)' => Claims(c))
    BY <1>4, ResolveStep, BodyFailsStep, SendStep, EditStep
  <2>2. requestUsed' = requestUsed
    BY <1>4 DEF Resolve, BodyFails, Send, EditInit, sharedVars
  <2>3. \A d \in Calls \ {c} : /\ pc'[d] = pc[d] /\ config'[d] = config[d]
                               /\ context'[d] = context[d] /\ sent'[d] = sent[d]
    <3>1. CASE Resolve(c) \/ BodyFails(c) \/ EditInit(c)
      BY <1>1, <3>1 DEF Resolve, BodyFails, EditInit, Reject, Domains
    <3>2. CASE Send(c)
      <4>1. UNCHANGED <<config, context>>
        BY <3>2 DEF Send
      <4>2. \A d \in Calls \ {c} : pc'[d] = pc[d]
        BY <1>1, <3>2 DEF Send, Reject, Domains
      <4>3. \A d \in Calls \ {c} : sent'[d] = sent[d]
        <5>1. sent' = sent \/ \E s : sent' = [sent EXCEPT ![c] = s]
          BY <3>2 DEF Send
        <5> QED
          BY <1>1, <5>1 DEF Domains
      <4> QED
        BY <4>1, <4>2, <4>3
    <3> QED
      BY <1>4, <3>1, <3>2
  <2> QED
    BY <1>1, <1>2, <2>1, <2>2, <2>3, OneMoves
<1>5. ASSUME UNCHANGED <<callVars, requestUsed>> PROVE FInv'
  <2>1. \A c \in Calls : CallInv(c)' /\ (Claims(c)' <=> Claims(c))
    BY <1>1, <1>5, Unmoved DEF FInv, Domains, callVars
  <2> QED
    BY <1>1, <1>5, <2>1 DEF FInv, OneClaim
<1>6. CASE EditOwn \/ Close \/ (\E array : EditProfiles(array)) \/ UNCHANGED vars
  BY <1>5, <1>6 DEF EditOwn, Close, EditProfiles, vars, sharedVars, callVars
<1> QED
  BY <1>3, <1>4, <1>6 DEF Next

\* For any calls and arguments: what fetch() checked before an await holds of the
\* call and of what it sends, unless the caller edited the init object, and the
\* body of the Request is claimed by one call.
THEOREM Invariant == Spec => []FInv
<1>1. Init => FInv
  <2> SUFFICES ASSUME Init PROVE FInv
    OBVIOUS
  <2>1. Domains
    BY DEF Init, Domains
  <2>2. \A c \in Calls : CallInv(c) /\ ~Claims(c)
    BY DEF Init, CallInv, Claims
  <2> QED
    BY <2>1, <2>2 DEF FInv, OneClaim
<1> QED
  BY <1>1, StepCalls, PTL DEF Spec

\* A call with a native request has been sent.
LEMMA SentCalls == FInv => \A c \in Sent : pc[c] = "sent" /\ Delivered(c)
BY DEF FInv, Sent, CallInv

\* The flags and the count of edits.
SharedTypes ==
    /\ {sessionOpen, transportOpen, requestUsed, tampered} \subseteq BOOLEAN
    /\ edits \in 0..MaxEdits

\* They are kept by every step.
LEMMA StepShared == SharedTypes /\ [Next]_vars => SharedTypes'
<1> SUFFICES ASSUME SharedTypes, [Next]_vars PROVE SharedTypes'
  OBVIOUS
<1> USE CallAssumption DEF SharedTypes, sharedVars, cacheVars
<1>1. ASSUME NEW c \in Calls, NEW m \in Menu, Call(c, m) PROVE SharedTypes'
  <2>1. UNCHANGED <<sessionOpen, transportOpen, edits, tampered>>
    BY <1>1 DEF Call
  <2>2. requestUsed' = requestUsed \/ requestUsed' = (requestUsed \/ TakesBody(m))
    BY <1>1 DEF Call
  <2> QED
    BY <2>1, <2>2, Zenon
<1>2. ASSUME NEW c \in Calls, Resolve(c) \/ BodyFails(c) PROVE SharedTypes'
  BY <1>2 DEF Resolve, BodyFails
<1>3. ASSUME NEW c \in Calls, Send(c) PROVE SharedTypes'
  BY <1>3 DEF Send, UseProfiles
<1>4. ASSUME NEW c \in Calls, EditInit(c) PROVE SharedTypes'
  BY <1>4 DEF EditInit
<1>5. CASE EditOwn
  BY <1>5 DEF EditOwn
<1>6. CASE Close
  BY <1>6 DEF Close
<1>7. ASSUME NEW array, EditProfiles(array) PROVE SharedTypes'
  <2>1. /\ UNCHANGED <<sessionOpen, transportOpen, requestUsed>>
        /\ edits < MaxEdits /\ edits' = edits + 1
    BY <1>7 DEF EditProfiles
  <2>2. tampered' \in BOOLEAN
    BY <1>7 DEF EditProfiles
  <2> QED
    BY <2>1, <2>2
<1>8. CASE UNCHANGED vars
  BY <1>8 DEF vars
<1> QED
  BY <1>1, <1>2, <1>3, <1>4, <1>5, <1>6, <1>7, <1>8 DEF Next

\* A call is where its options say: it has an init object once it was made,
\* what it computed after the first await, and a request when it is sent.
THEOREM TypeCorrect == NoneIsNoRecord => (Spec => []TypeOK)
<1> SUFFICES ASSUME NoneIsNoRecord PROVE Spec => []TypeOK
  OBVIOUS
<1>1. Init => SharedTypes
  <2>1. ASSUME Init PROVE edits \in 0..MaxEdits
    BY <2>1, CallAssumption DEF Init
  <2>2. ASSUME Init PROVE {sessionOpen, transportOpen, requestUsed, tampered} \subseteq BOOLEAN
    BY <2>2, Zenon DEF Init
  <2> QED
    BY <2>1, <2>2 DEF SharedTypes
<1>2. ASSUME FInv, SharedTypes PROVE TypeOK
  <2>1. pc \in [Calls -> {"idle", "resolving", "serializing", "sent", "rejected"}]
    BY <1>2 DEF FInv, Domains, CallInv
  <2>2. ASSUME NEW c \in Calls
        PROVE  /\ pc[c] = "sent" <=> sent[c] # None
               /\ pc[c] = "idle" <=> config[c] = None
               /\ pc[c] \in {"serializing", "sent"} => context[c] # None
    <3>1. CallInv(c)
      BY <1>2 DEF FInv
    <3>2. HasFields(config[c]) => config[c] # None
      BY DEF HasFields, NoneIsNoRecord
    <3>3. pc[c] = "sent" => sent[c] # None
      BY <3>1 DEF CallInv, Delivered, NoneIsNoRecord
    <3>4. pc[c] \in {"serializing", "sent"} => context[c] # None
      BY <3>1 DEF CallInv, Settled, NoneIsNoRecord
    <3> QED
      BY <3>1, <3>2, <3>3, <3>4 DEF CallInv
  <2> QED
    BY <1>2, <2>1, <2>2 DEF TypeOK, SharedTypes
<1>3. FInv /\ SharedTypes => TypeOK
  BY <1>2
<1> QED
  BY <1>1, <1>3, StepShared, Invariant, PTL DEF Spec

\* Of two calls with the body of one Request, one was rejected.
LEMMA OneBody == FInv => RequestBodyOnce
<1> SUFFICES ASSUME FInv PROVE RequestBodyOnce
  OBVIOUS
<1> DEFINE S == {c \in Sent : config[c].takes}
<1>1. \A c, d \in S : c = d
  BY SentCalls DEF FInv, OneClaim, Claims, Sent
<1>2. S = {} \/ \E c : S = {c}
  BY <1>1
<1>3. Cardinality({}) = 0 /\ \A c : Cardinality({c}) = 1
  BY FS_EmptySet, FS_Singleton
<1>4. Cardinality(S) <= 1
  BY <1>2, <1>3
<1> QED
  BY <1>4 DEF RequestBodyOnce

\* What fetch() checked before an await still holds of what it sends after it: no
\* GET or HEAD with a body, no limit lost, no session or id dropped, and the
\* body of a Request sent once.
THEOREM WhatIsSentWasChecked == Spec => []CheckedIsSent
<1>1. FInv => MethodBodyAgree
  BY SentCalls DEF MethodBodyAgree, Delivered
<1>2. FInv => LimitSurvives
  BY SentCalls DEF LimitSurvives, Delivered, Touched
<1>3. FInv => CookiesAreAsked
  BY SentCalls DEF CookiesAreAsked, Delivered, NoSession, Touched
<1>4. FInv => CheckedIsSent
  BY <1>1, <1>2, <1>3, OneBody DEF CheckedIsSent
<1> QED
  BY <1>4, Invariant, PTL

-----------------------------------------------------------------------------
(* The profiles.                                                           *)

\* resolveEmulationMode has no answer the native side has no meaning for,
\* whatever options it is given.
THEOREM ModesAreResolvable ==
    ASSUME NoneIsNoRecord, NEW b, NEW o, NEW e,
           ResolveEmulationMode(NativeProfiles, b, o, e) # Error
    PROVE  NativeResolves(ResolveEmulationMode(NativeProfiles, b, o, e))
<1> DEFINE profile == IF b = None THEN DefaultBrowser ELSE ResolveProfile(NativeProfiles, b)
           preset == b # None \/ o # None
           custom == NormalizeCustom(e, preset)
           mode == ResolveEmulationMode(NativeProfiles, b, o, e)
<1>1. profile # Error /\ custom # Error /\ o \in Systems \cup {None}
  BY DEF ResolveEmulationMode
<1>2. profile \in NativeProfiles
  BY <1>1, EmulationAssumption DEF ResolveProfile, DefaultBrowser
<1>3. ASSUME ~preset, e # None PROVE NativeResolves(mode)
  <2>1. mode = Preset(None, None, custom)
    BY <1>1, <1>3 DEF ResolveEmulationMode
  <2>2. custom # None /\ DOMAIN custom # {}
    <3> DEFINE parts == [p \in DOMAIN e |-> NormalizePart(p, e[p])]
               kept == {p \in DOMAIN parts : parts[p] # None}
    <3>1. custom = [p \in kept |-> parts[p]] /\ kept # {}
      BY <1>1, <1>3 DEF NormalizeCustom
    <3>2. DOMAIN custom # {}
      BY <3>1
    <3> QED
      BY <3>2 DEF NoneIsNoRecord
  <2> HIDE DEF custom, mode
  <2> QED
    BY <2>1, <2>2 DEF NativeResolves, Preset
<1>4. ASSUME preset \/ e = None PROVE NativeResolves(mode)
  <2>1. mode = Preset(profile, IF o = None THEN DefaultOs ELSE o, custom)
    BY <1>1, <1>4 DEF ResolveEmulationMode
  <2>2. (IF o = None THEN DefaultOs ELSE o) \in Systems
    BY <1>1, EmulationAssumption DEF DefaultOs
  <2> HIDE DEF profile, custom, mode
  <2> QED
    BY <2>1, <2>2, <1>2 DEF NativeResolves, Preset
<1> QED
  BY <1>3, <1>4

\* The set profiles are looked up in is the native one.
ProfilesInv == ~tampered => Known = NativeProfiles

\* Only an edit before the set was made changes what is looked up.
LEMMA StepProfiles ==
    ASSUME NoneIsNoRecord, FInv, FInv', ProfilesInv, ProfileIsNative, [Next]_vars
    PROVE  ProfilesInv' /\ ProfileIsNative'
<1> USE DEF callVars, sharedVars, cacheVars
<1>1. ASSUME UNCHANGED <<profiles, profileSet, tampered>>
      PROVE  ProfilesInv'
  BY <1>1 DEF ProfilesInv, Known, Array
<1>2. ASSUME UNCHANGED <<sent, tampered>> PROVE ProfileIsNative'
  BY <1>2 DEF ProfileIsNative, Sent
<1>3. ASSUME NEW c \in Calls, Send(c) PROVE ProfilesInv' /\ ProfileIsNative'
  <2> DEFINE g == config[c]
             x == context[c]
             transport == TransportContext(g, x.session)
  <2>1. tampered' = tampered
    BY <1>3 DEF Send, UseProfiles
  <2>2. \/ UNCHANGED <<profiles, profileSet>>
        \/ profiles' = Array /\ profileSet' = Known
    BY <1>3 DEF Send, UseProfiles
  <2>3. ProfilesInv'
    BY <2>1, <2>2 DEF ProfilesInv, Known, Array
  <2>4. CASE UNCHANGED sent
    BY <2>1, <2>3, <2>4, <1>2
  <2>5. CASE sent' # sent
    <3>1. transport # Error
      BY <1>3, <2>5 DEF Send
    <3>2. \E s : s.transport = transport /\ sent' = [sent EXCEPT ![c] = s]
      BY <1>3, <2>5 DEF Send
    <3>3. sent'[c].transport = transport /\ \A d \in Calls \ {c} : sent'[d] = sent[d]
      BY <3>2 DEF FInv, Domains
    <3>4. ASSUME ~tampered, transport.over = "settings"
          PROVE  NativeResolves(transport.mode)
      <4>1. OwnMode(g.options) # Error /\ transport.mode = OwnMode(g.options)
        BY <3>1, <3>4 DEF TransportContext
      <4>2. Known = NativeProfiles
        BY <3>4 DEF ProfilesInv
      <4> QED
        BY <4>1, <4>2, ModesAreResolvable DEF OwnMode
    <3>5. ProfileIsNative'
      BY <2>1, <3>3, <3>4 DEF ProfileIsNative, Sent
    <3> QED
      BY <2>3, <3>5
  <2> QED
    BY <2>4, <2>5
<1>4. ASSUME NEW c \in Calls, NEW m \in Menu, Call(c, m)
      PROVE  UNCHANGED <<profiles, profileSet, tampered, sent>>
  BY <1>4 DEF Call
<1>5. ASSUME NEW c \in Calls, Resolve(c) \/ BodyFails(c) \/ EditInit(c)
      PROVE  UNCHANGED <<profiles, profileSet, tampered, sent>>
  BY <1>5 DEF Resolve, BodyFails, EditInit
<1>6. ASSUME EditOwn \/ Close \/ UNCHANGED vars
      PROVE  UNCHANGED <<profiles, profileSet, tampered, sent>>
  BY <1>6 DEF EditOwn, Close, vars
<1>7. ASSUME NEW array, EditProfiles(array) PROVE ProfilesInv' /\ ProfileIsNative'
  <2>1. ~tampered' => ~tampered /\ profileSet # None
    BY <1>7 DEF EditProfiles
  <2>2. UNCHANGED <<profileSet, sent>>
    BY <1>7 DEF EditProfiles
  <2>3. ProfilesInv'
    BY <2>1, <2>2 DEF ProfilesInv, Known
  <2>4. ProfileIsNative'
    BY <2>1, <2>2 DEF ProfileIsNative, Sent
  <2> QED
    BY <2>3, <2>4
<1> QED
  BY <1>1, <1>2, <1>3, <1>4, <1>5, <1>6, <1>7 DEF Next

\* A profile that reaches the native side is one it has, although getProfiles()
\* hands out the cached array itself, unless the program edited the array before
\* the set was made from it.
THEOREM ProfilesAreNative == NoneIsNoRecord => (Spec => []ProfileIsNative)
<1> SUFFICES ASSUME NoneIsNoRecord PROVE Spec => []ProfileIsNative
  OBVIOUS
<1>1. Init => ProfilesInv /\ ProfileIsNative
  BY DEF Init, ProfilesInv, Known, Array, ProfileIsNative, Sent
<1>2. FInv /\ FInv' /\ ProfilesInv /\ ProfileIsNative /\ [Next]_vars => ProfilesInv' /\ ProfileIsNative'
  BY StepProfiles
<1> QED
  BY <1>1, <1>2, Invariant, PTL DEF Spec
-----------------------------------------------------------------------------
(* The default headers of the session.                                     *)

\* What a call sends was merged with the defaults as they were then: those of
\* the session, or those and one content type.
DefaultLists ==
    {SessionHeaders} \cup
    (IF SessionHeaders = None THEN {} ELSE {Append(SessionHeaders, TypeTuple(c)) : c \in Calls})
ListOf(tuples) == IF tuples = None THEN <<>> ELSE tuples

HeadersAreMerged ==
    \A c \in Sent : \E d \in DefaultLists :
        LET usual == IF sent[c].session = "session" THEN d ELSE None
            list == ListOf(MergeHeaderTuples(usual, sent[c].given))
        IN sent[c].headers \in {list \o <<>>, list \o <<TypeTuple(c)>>}

\* A session's defaults are a list, and so are they with one more.
LEMMA DefaultSequences ==
    SessionHeaders # None =>
        /\ SessionHeaders \o <<>> = SessionHeaders
        /\ \A c : /\ SessionHeaders \o <<TypeTuple(c)>> = Append(SessionHeaders, TypeTuple(c))
                  /\ Append(SessionHeaders, TypeTuple(c)) \o <<>> =
                        Append(SessionHeaders, TypeTuple(c))
                  /\ HasHeaderName(Append(SessionHeaders, TypeTuple(c)), ContentType)
                        \/ Append(SessionHeaders, TypeTuple(c)) = None
<1> SUFFICES ASSUME SessionHeaders # None
             PROVE  /\ SessionHeaders \o <<>> = SessionHeaders
                    /\ \A c : /\ SessionHeaders \o <<TypeTuple(c)>> =
                                     Append(SessionHeaders, TypeTuple(c))
                              /\ Append(SessionHeaders, TypeTuple(c)) \o <<>> =
                                     Append(SessionHeaders, TypeTuple(c))
                              /\ \/ HasHeaderName(Append(SessionHeaders, TypeTuple(c)), ContentType)
                                 \/ Append(SessionHeaders, TypeTuple(c)) = None
  OBVIOUS
<1>1. PICK T : SessionHeaders \in Seq(T)
  BY CallAssumption
<1>2. SessionHeaders \o <<>> = SessionHeaders
  BY <1>1
<1>3. ASSUME NEW c
      PROVE  /\ SessionHeaders \o <<TypeTuple(c)>> = Append(SessionHeaders, TypeTuple(c))
             /\ Append(SessionHeaders, TypeTuple(c)) \o <<>> = Append(SessionHeaders, TypeTuple(c))
             /\ \/ HasHeaderName(Append(SessionHeaders, TypeTuple(c)), ContentType)
                \/ Append(SessionHeaders, TypeTuple(c)) = None
  <2> DEFINE S == T \cup {TypeTuple(c)}
             t == TypeTuple(c)
             longer == Append(SessionHeaders, t)
  <2>1. t.name.key = ContentType
    BY DEF TypeTuple, HeaderTuple, Name
  <2>2. SessionHeaders \in Seq(S) /\ t \in S
    BY <1>1
  <2> HIDE DEF S, t
  <2>3. SessionHeaders \o <<t>> = longer /\ longer \in Seq(S) /\ longer \o <<>> = longer
    BY <2>2
  <2>4. Len(SessionHeaders) + 1 \in DOMAIN longer /\ longer[Len(SessionHeaders) + 1] = t
    BY <2>2
  <2>5. t \in Range(longer)
    BY <2>4 DEF Range
  <2>6. HasHeaderName(longer, ContentType) \/ longer = None
    BY <2>1, <2>5 DEF HasHeaderName
  <2> QED
    BY <2>3, <2>6 DEF t
<1> QED
  BY <1>2, <1>3

\* fetch() may extend the array of the defaults, but only once.
LEMMA SendDefaults ==
    ASSUME NoneIsNoRecord, FInv, DefaultsGrowByOneType, NEW c \in Calls, Send(c)
    PROVE  DefaultsGrowByOneType'
<1> DEFINE x == context[c]
           usual == IF x.session = "session" THEN defaults ELSE None
           given == HeadersOf(config[c])
           merged == MergeHeaderTuples(usual, given)
           added == IF x.body = "typed" /\ ~HasHeaderName(merged, ContentType)
                    THEN <<TypeTuple(c)>> ELSE <<>>
<1>1. context' = context
  BY DEF Send
<1>2. CASE defaults' = defaults
  BY <1>1, <1>2 DEF DefaultsGrowByOneType
<1>3. CASE defaults' # defaults
  <2>1. MergeIsDefaults(usual, given) /\ defaults' = ListOf(merged) \o added
    BY <1>3 DEF Send, DefaultsAfter, ListOf
  <2>2. defaults # None /\ merged = defaults
    BY <2>1 DEF MergeIsDefaults, MergeHeaderTuples
  <2>3. defaults' = defaults \o added
    <3> HIDE DEF merged, added
    <3>1. ListOf(merged) = defaults
      BY <2>2 DEF ListOf
    <3> QED
      BY <2>1, <3>1
  <2>4. x # None
    BY DEF Send, FInv, CallInv, Settled, NoneIsNoRecord
  <2>5. CASE defaults = SessionHeaders
    <3>1. added = <<TypeTuple(c)>>
      BY <2>2, <2>3, <2>5, <1>3, DefaultSequences
    <3>2. x.body = "typed" /\ ~HasHeaderName(SessionHeaders, ContentType)
      BY <3>1, <2>2, <2>5
    <3>3. defaults' = Append(SessionHeaders, TypeTuple(c))
      BY <3>1, <2>2, <2>3, <2>5, DefaultSequences
    <3> QED
      BY <3>2, <3>3, <2>2, <2>4, <2>5, <1>1 DEF DefaultsGrowByOneType
  <2>6. ASSUME NEW d \in Calls, defaults = Append(SessionHeaders, TypeTuple(d)),
               SessionHeaders # None
        PROVE  FALSE
    <3>1. HasHeaderName(defaults, ContentType) /\ defaults \o <<>> = defaults
      BY <2>2, <2>6, DefaultSequences
    <3> QED
      BY <3>1, <2>2, <2>3, <1>3
  <2> QED
    BY <2>5, <2>6 DEF DefaultsGrowByOneType
<1> QED
  BY <1>2, <1>3

\* No other step touches the defaults or what a call has computed.
LEMMA StepDefaults ==
    ASSUME NoneIsNoRecord, FInv, DefaultsGrowByOneType, [Next]_vars
    PROVE  DefaultsGrowByOneType'
<1> USE DEF callVars, sharedVars, cacheVars
<1>1. ASSUME UNCHANGED <<defaults, context>> PROVE DefaultsGrowByOneType'
  BY <1>1 DEF DefaultsGrowByOneType
<1>2. ASSUME NEW c \in Calls, Resolve(c) PROVE DefaultsGrowByOneType'
  <2>1. defaults' = defaults /\ context[c] = None
    BY <1>2 DEF Resolve, FInv, CallInv
  <2>2. \A d \in Calls : context[d] # None => context'[d] = context[d]
    BY <1>2, <2>1 DEF Resolve, FInv, Domains
  <2> QED
    BY <2>1, <2>2 DEF DefaultsGrowByOneType
<1>3. ASSUME NEW c \in Calls, NEW m \in Menu, Call(c, m)
      PROVE  UNCHANGED <<defaults, context>>
  BY <1>3 DEF Call
<1>4. ASSUME NEW c \in Calls, BodyFails(c) \/ EditInit(c)
      PROVE  UNCHANGED <<defaults, context>>
  BY <1>4 DEF BodyFails, EditInit
<1>5. ASSUME EditOwn \/ Close \/ (\E array : EditProfiles(array)) \/ UNCHANGED vars
      PROVE  UNCHANGED <<defaults, context>>
  BY <1>5 DEF EditOwn, Close, EditProfiles, vars
<1> QED
  BY <1>1, <1>2, <1>3, <1>4, <1>5, SendDefaults DEF Next

\* Whatever calls a session makes, fails or abandons half way, its default
\* headers stay those it was created with, but for one content type.
THEOREM DefaultsStay == NoneIsNoRecord => (Spec => []DefaultsGrowByOneType)
<1> SUFFICES ASSUME NoneIsNoRecord PROVE Spec => []DefaultsGrowByOneType
  OBVIOUS
<1>1. Init => DefaultsGrowByOneType
  BY DEF Init, DefaultsGrowByOneType
<1>2. FInv /\ DefaultsGrowByOneType /\ [Next]_vars => DefaultsGrowByOneType'
  BY StepDefaults
<1> QED
  BY <1>1, <1>2, Invariant, PTL DEF Spec

\* What Send sends.
LEMMA SendMerged ==
    ASSUME FInv, DefaultsGrowByOneType, HeadersAreMerged, NEW c \in Calls, Send(c)
    PROVE  HeadersAreMerged'
<1> DEFINE x == context[c]
           usual == IF x.session = "session" THEN defaults ELSE None
           given == HeadersOf(config[c])
           merged == MergeHeaderTuples(usual, given)
           added == IF x.body = "typed" /\ ~HasHeaderName(merged, ContentType)
                    THEN <<TypeTuple(c)>> ELSE <<>>
<1>1. CASE sent' = sent
  BY <1>1 DEF HeadersAreMerged, Sent
<1>2. CASE sent' # sent
  <2>1. \E s : /\ s.session = x.session /\ s.given = given
               /\ s.headers = ListOf(merged) \o added
               /\ sent' = [sent EXCEPT ![c] = s]
    BY <1>2 DEF Send, ListOf
  <2> HIDE DEF given, added
  <2>2. /\ sent'[c].session = x.session /\ sent'[c].given = given
        /\ sent'[c].headers = ListOf(merged) \o added
        /\ \A d \in Calls \ {c} : sent'[d] = sent[d]
    BY <2>1 DEF FInv, Domains
  <2>3. added \in {<<>>, <<TypeTuple(c)>>} /\ defaults \in DefaultLists
    BY DEF added, DefaultsGrowByOneType, DefaultLists
  <2>4. \E d \in DefaultLists :
            LET u == IF sent'[c].session = "session" THEN d ELSE None
                list == ListOf(MergeHeaderTuples(u, sent'[c].given))
            IN sent'[c].headers \in {list \o <<>>, list \o <<TypeTuple(c)>>}
    BY <2>2, <2>3
  <2> QED
    BY <2>2, <2>4 DEF HeadersAreMerged, Sent
<1> QED
  BY <1>1, <1>2

\* What a call sends are its own headers, as they were at one moment, merged
\* with the session's defaults or with those and the content type of one body;
\* its own content type may follow.
THEOREM HeadersComeFromCallAndSession ==
    NoneIsNoRecord => (Spec => []HeadersAreMerged)
<1> SUFFICES ASSUME NoneIsNoRecord PROVE Spec => []HeadersAreMerged
  OBVIOUS
<1>1. Init => HeadersAreMerged
  BY DEF Init, HeadersAreMerged, Sent
<1>2. ASSUME FInv, DefaultsGrowByOneType, HeadersAreMerged, [Next]_vars
      PROVE  HeadersAreMerged'
  <2> USE DEF callVars, sharedVars, cacheVars
  <2>1. ASSUME UNCHANGED sent PROVE HeadersAreMerged'
    BY <1>2, <2>1 DEF HeadersAreMerged, Sent
  <2>2. ASSUME NEW c \in Calls, NEW m \in Menu, Call(c, m) PROVE UNCHANGED sent
    BY <2>2 DEF Call
  <2>3. ASSUME NEW c \in Calls, Resolve(c) \/ BodyFails(c) \/ EditInit(c)
        PROVE  UNCHANGED sent
    BY <2>3 DEF Resolve, BodyFails, EditInit
  <2>4. ASSUME EditOwn \/ Close \/ (\E array : EditProfiles(array)) \/ UNCHANGED vars
        PROVE  UNCHANGED sent
    BY <2>4 DEF EditOwn, Close, EditProfiles, vars
  <2> QED
    BY <1>2, <2>1, <2>2, <2>3, <2>4, SendMerged DEF Next
<1>3. DefaultsGrowByOneType /\ FInv /\ HeadersAreMerged /\ [Next]_vars => HeadersAreMerged'
  BY <1>2
<1>4. Spec => []DefaultsGrowByOneType
  BY DefaultsStay
<1> QED
  BY <1>1, <1>3, <1>4, Invariant, PTL DEF Spec

-----------------------------------------------------------------------------
(* Headers objects: what their operations do to the values of a name.      *)

\* The pairs of a list, and the entries of a Headers object.
PairsOf(N, V) == [name : N, value : Seq(V)]
EntriesOf(N, V) == [name : N, values : Seq(Seq(V)) \ {<<>>}]

\* A Headers object: an entry has values, and no two are for one name.
Stores(N, V) ==
    {h \in Seq(EntriesOf(N, V)) :
        \A i, j \in DOMAIN h : h[i].name.key = h[j].name.key => i = j}

\* The values of a name, and none if it is not there.
ValuesOf(h, k) == IF Has(h, k) THEN EntryOf(h, k).values ELSE <<>>

\* An entry is the one that is found by its name.
LEMMA EntryIs ==
    ASSUME NEW N, NEW V, NEW h \in Stores(N, V), NEW i \in DOMAIN h
    PROVE  /\ Has(h, h[i].name.key) /\ EntryOf(h, h[i].name.key) = h[i]
           /\ ValuesOf(h, h[i].name.key) = h[i].values
<1>1. Has(h, h[i].name.key)
  BY DEF Has
<1>2. \A j \in DOMAIN h : h[j].name.key = h[i].name.key => j = i
  BY DEF Stores
<1>3. (CHOOSE j \in DOMAIN h : h[j].name.key = h[i].name.key) = i
  BY <1>2
<1> QED
  BY <1>1, <1>3 DEF EntryOf, ValuesOf

\* What get() and has() say of a name is said by its values.
LEMMA ByValues ==
    ASSUME NEW N, NEW V, NEW h \in Stores(N, V), NEW k
    PROVE  /\ ValuesOf(h, k) \in Seq(Seq(V))
           /\ Has(h, k) <=> ValuesOf(h, k) # <<>>
           /\ Get(h, k) = IF ValuesOf(h, k) = <<>> THEN None ELSE FlattenSeq(ValuesOf(h, k))
<1>1. CASE ~Has(h, k)
  BY <1>1, EmptySeq DEF ValuesOf, Get
<1>2. CASE Has(h, k)
  <2>1. PICK i \in DOMAIN h : h[i].name.key = k
    BY <1>2 DEF Has
  <2>2. h[i] \in EntriesOf(N, V) /\ ValuesOf(h, k) = h[i].values
    BY <2>1, EntryIs DEF Stores
  <2>3. ValuesOf(h, k) \in Seq(Seq(V)) \ {<<>>}
    BY <2>2 DEF EntriesOf
  <2> QED
    BY <1>2, <2>3 DEF Get, ValuesOf
<1> QED
  BY <1>1, <1>2

\* An object that lacks a name gets an entry for it.
LEMMA AppendEntry ==
    ASSUME NEW N, NEW V, NEW h \in Stores(N, V), NEW e \in EntriesOf(N, V), ~Has(h, e.name.key)
    PROVE  /\ Append(h, e) \in Stores(N, V)
           /\ \A k : ValuesOf(Append(h, e), k) = IF k = e.name.key THEN e.values ELSE ValuesOf(h, k)
<1> DEFINE g == Append(h, e)
           n == Len(h) + 1
<1>1. /\ h \in Seq(EntriesOf(N, V)) /\ g \in Seq(EntriesOf(N, V))
      /\ DOMAIN h = 1..Len(h) /\ Len(h) \in Nat /\ DOMAIN g = 1..n
      /\ g[n] = e /\ \A i \in 1..Len(h) : g[i] = h[i]
  BY DEF Stores
<1> HIDE DEF g
<1>2. \A i \in 1..Len(h) : h[i].name.key # e.name.key
  BY <1>1 DEF Has
<1>3. \A i \in 1..n : i = n \/ i \in 1..Len(h)
  BY <1>1
<1>4. \A i, j \in DOMAIN g : g[i].name.key = g[j].name.key => i = j
  <2>1. \A i, j \in 1..Len(h) : h[i].name.key = h[j].name.key => i = j
    BY <1>1 DEF Stores
  <2> QED
    BY <1>1, <1>2, <1>3, <2>1
<1>5. g \in Stores(N, V)
  BY <1>1, <1>4 DEF Stores
<1>6. ASSUME NEW k PROVE ValuesOf(g, k) = IF k = e.name.key THEN e.values ELSE ValuesOf(h, k)
  <2>1. CASE k = e.name.key
    <3>1. n \in DOMAIN g
      BY <1>1
    <3> QED
      BY <1>1, <1>5, <2>1, <3>1, EntryIs
  <2>2. CASE k # e.name.key /\ Has(h, k)
    <3>1. PICK i \in DOMAIN h : h[i].name.key = k
      BY <2>2 DEF Has
    <3>2. i \in DOMAIN g /\ g[i] = h[i]
      BY <1>1
    <3>3. ValuesOf(g, k) = g[i].values /\ ValuesOf(h, k) = h[i].values
      BY <1>5, <3>1, <3>2, EntryIs
    <3> QED
      BY <2>2, <3>2, <3>3
  <2>3. CASE k # e.name.key /\ ~Has(h, k)
    <3>1. ~Has(g, k)
      BY <1>1, <1>3, <2>3 DEF Has
    <3> QED
      BY <2>3, <3>1 DEF ValuesOf
  <2> QED
    BY <2>1, <2>2, <2>3
<1> QED
  BY <1>5, <1>6 DEF g

\* Put replaces or adds the entry of one name.
LEMMA PutEntry ==
    ASSUME NEW N, NEW V, NEW h \in Stores(N, V), NEW e \in EntriesOf(N, V)
    PROVE  /\ Put(h, e) \in Stores(N, V)
           /\ \A k : ValuesOf(Put(h, e), k) = IF k = e.name.key THEN e.values ELSE ValuesOf(h, k)
<1>1. CASE ~Has(h, e.name.key)
  BY <1>1, AppendEntry DEF Put
<1>2. CASE Has(h, e.name.key)
  <2> DEFINE g == [i \in DOMAIN h |-> IF h[i].name.key = e.name.key THEN e ELSE h[i]]
  <2>1. Put(h, e) = g /\ DOMAIN g = DOMAIN h
    BY <1>2 DEF Put
  <2>2. \A i \in DOMAIN h : g[i].name.key = h[i].name.key
    OBVIOUS
  <2>3. g \in Seq(EntriesOf(N, V))
    BY DEF Stores
  <2>4. \A i \in DOMAIN h : g[i] = IF h[i].name.key = e.name.key THEN e ELSE h[i]
    OBVIOUS
  <2> HIDE DEF g
  <2>5. g \in Stores(N, V)
    BY <2>1, <2>2, <2>3 DEF Stores
  <2>6. ASSUME NEW k PROVE ValuesOf(g, k) = IF k = e.name.key THEN e.values ELSE ValuesOf(h, k)
    <3>1. Has(g, k) <=> Has(h, k)
      BY <2>1, <2>2 DEF Has
    <3>2. CASE Has(h, k)
      <4>1. PICK i \in DOMAIN h : h[i].name.key = k
        BY <3>2 DEF Has
      <4>2. ValuesOf(g, k) = g[i].values /\ ValuesOf(h, k) = h[i].values
        BY <2>1, <2>2, <2>5, <4>1, EntryIs
      <4> QED
        BY <2>4, <4>1, <4>2
    <3> QED
      BY <1>2, <3>1, <3>2 DEF ValuesOf
  <2> QED
    BY <2>1, <2>5, <2>6
<1> QED
  BY <1>1, <1>2

\* set().
LEMMA SetValues ==
    ASSUME NEW N, NEW V, NEW h \in Stores(N, V), NEW n \in N, NEW v \in Seq(V)
    PROVE  /\ HeaderSet(h, n, v) \in Stores(N, V)
           /\ \A k : ValuesOf(HeaderSet(h, n, v), k) = IF k = n.key THEN <<v>> ELSE ValuesOf(h, k)
<1> DEFINE e == Entry(n, v)
<1>1. /\ e \in EntriesOf(N, V) /\ e.name.key = n.key /\ e.values = <<v>>
      /\ HeaderSet(h, n, v) = Put(h, e)
  BY DEF Entry, EntriesOf, HeaderSet
<1> HIDE DEF e
<1>2. e \in EntriesOf(N, V)
  BY <1>1
<1>3. /\ Put(h, e) \in Stores(N, V)
      /\ \A k : ValuesOf(Put(h, e), k) = IF k = e.name.key THEN e.values ELSE ValuesOf(h, k)
  BY <1>2, PutEntry
<1> QED
  BY <1>1, <1>3, Zenon

\* append().
LEMMA AppendValues ==
    ASSUME NEW N, NEW V, NEW h \in Stores(N, V), NEW n \in N, NEW v \in Seq(V)
    PROVE  /\ HeaderAppend(h, n, v) \in Stores(N, V)
           /\ \A k : ValuesOf(HeaderAppend(h, n, v), k) =
                        IF k = n.key THEN Append(ValuesOf(h, k), v) ELSE ValuesOf(h, k)
<1>1. CASE ~Has(h, n.key)
  <2> DEFINE e == Entry(n, v)
  <2>1. e \in EntriesOf(N, V) /\ e.name.key = n.key /\ e.values = <<v>>
    BY DEF Entry, EntriesOf
  <2>2. HeaderAppend(h, n, v) = Append(h, e) /\ ValuesOf(h, n.key) = <<>>
    BY <1>1 DEF HeaderAppend, ValuesOf
  <2> HIDE DEF e
  <2>3. Append(<<>>, v) = <<v>>
    OBVIOUS
  <2>4. e \in EntriesOf(N, V) /\ ~Has(h, e.name.key)
    BY <1>1, <2>1
  <2>5. /\ Append(h, e) \in Stores(N, V)
        /\ \A k : ValuesOf(Append(h, e), k) = IF k = e.name.key THEN e.values ELSE ValuesOf(h, k)
    BY <2>4, AppendEntry
  <2>6. ASSUME NEW k
        PROVE  ValuesOf(HeaderAppend(h, n, v), k) =
                   IF k = n.key THEN Append(ValuesOf(h, k), v) ELSE ValuesOf(h, k)
    <3>1. CASE k = n.key
      BY <2>1, <2>2, <2>3, <2>5, <3>1, Zenon
    <3>2. CASE k # n.key
      BY <2>1, <2>2, <2>5, <3>2, Zenon
    <3> QED
      BY <3>1, <3>2
  <2> QED
    BY <2>2, <2>5, <2>6
<1>2. CASE Has(h, n.key)
  <2> DEFINE old == EntryOf(h, n.key)
             e == [old EXCEPT !.values = Append(@, v)]
  <2>1. PICK i \in DOMAIN h : h[i].name.key = n.key
    BY <1>2 DEF Has
  <2>2. old = h[i] /\ h[i] \in EntriesOf(N, V) /\ ValuesOf(h, n.key) = h[i].values
    BY <2>1, EntryIs DEF Stores
  <2>3. old.values \in Seq(Seq(V)) /\ old.name.key = n.key
    BY <2>1, <2>2 DEF EntriesOf
  <2>4. Append(old.values, v) \in Seq(Seq(V)) /\ Append(old.values, v) # <<>>
    BY <2>3, AppendProperties
  <2>5. e \in EntriesOf(N, V) /\ e.name.key = n.key /\ e.values = Append(ValuesOf(h, n.key), v)
    BY <2>2, <2>3, <2>4 DEF EntriesOf
  <2>6. HeaderAppend(h, n, v) = Put(h, e)
    BY <1>2 DEF HeaderAppend
  <2> HIDE DEF e
  <2> QED
    BY <2>5, <2>6, PutEntry
<1> QED
  BY <1>1, <1>2

-----------------------------------------------------------------------------
(* The constructor: what adding one pair after the other makes.            *)

\* f holds the object after every pair, up to n of them.
Steps(kind, ts, f, n) ==
    f[0] = <<>> /\ \A i \in 1..n : f[i] = AddTuple(kind, f[i - 1], ts[i])

LEMMA StepsExist ==
    ASSUME NEW kind, NEW ts, NEW k \in Nat
    PROVE  \E f : f = [i \in 0..k |-> f[i]] /\ Steps(kind, ts, f, k)
<1> DEFINE Reached(n) == \E f : f = [i \in 0..n |-> f[i]] /\ Steps(kind, ts, f, n)
           T == {n \in Nat : Reached(n)}
<1>1. Reached(0)
  <2> DEFINE f == [n \in 0..0 |-> <<>>]
  <2>1. f = [i \in 0..0 |-> f[i]] /\ Steps(kind, ts, f, 0)
    BY DEF Steps
  <2> QED
    BY <2>1
<1>2. ASSUME NEW n \in Nat, Reached(n) PROVE Reached(n + 1)
  <2>1. PICK f : Steps(kind, ts, f, n)
    BY <1>2
  <2> DEFINE g == [i \in 0..(n + 1) |-> IF i <= n THEN f[i] ELSE AddTuple(kind, f[n], ts[i])]
  <2>2. /\ g = [i \in 0..(n + 1) |-> g[i]]
        /\ \A i \in 0..n : g[i] = f[i]
        /\ g[n + 1] = AddTuple(kind, f[n], ts[n + 1])
    OBVIOUS
  <2> HIDE DEF g
  <2>3. g[0] = <<>>
    BY <2>1, <2>2 DEF Steps
  <2>4. ASSUME NEW i \in 1..(n + 1) PROVE g[i] = AddTuple(kind, g[i - 1], ts[i])
    <3>1. CASE i \in 1..n
      <4>1. i \in 0..n /\ i - 1 \in 0..n
        BY <3>1
      <4>2. g[i] = f[i] /\ g[i - 1] = f[i - 1]
        BY <2>2, <4>1, Zenon
      <4>3. f[i] = AddTuple(kind, f[i - 1], ts[i])
        BY <2>1, <3>1 DEF Steps
      <4> QED
        BY <4>2, <4>3
    <3>2. CASE i = n + 1
      <4>1. n \in 0..n /\ i - 1 = n
        BY <3>2
      <4>2. g[i - 1] = f[n]
        BY <2>2, <4>1, Zenon
      <4> QED
        BY <2>2, <3>2, <4>2
    <3> QED
      BY <2>4, <3>1, <3>2
  <2>5. Steps(kind, ts, g, n + 1)
    BY <2>3, <2>4 DEF Steps
  <2> QED
    BY <2>2, <2>5
<1> HIDE DEF Reached
<1>3. 0 \in T /\ \A n \in Nat : n \in T => n + 1 \in T
  BY <1>1, <1>2
<1>4. Nat \subseteq T
  <2> HIDE DEF T
  <2> QED
    BY <1>3, Induction
<1>5. Reached(k)
  BY <1>4
<1> QED
  BY <1>5 DEF Reached

LEMMA StepsAgree ==
    ASSUME NEW kind, NEW ts, NEW us, NEW k \in Nat, NEW f, NEW g,
           Steps(kind, ts, f, k), Steps(kind, us, g, k), \A i \in 1..k : ts[i] = us[i]
    PROVE  f[k] = g[k]
<1> DEFINE Same(n) == n <= k => f[n] = g[n]
           T == {n \in Nat : Same(n)}
<1>1. Same(0)
  BY DEF Steps
<1>2. ASSUME NEW n \in Nat, Same(n) PROVE Same(n + 1)
  <2> SUFFICES ASSUME n + 1 <= k PROVE f[n + 1] = g[n + 1]
    OBVIOUS
  <2>1. n + 1 \in 1..k /\ (n + 1) - 1 = n /\ f[n] = g[n]
    BY <1>2
  <2>2. /\ f[n + 1] = AddTuple(kind, f[(n + 1) - 1], ts[n + 1])
        /\ g[n + 1] = AddTuple(kind, g[(n + 1) - 1], us[n + 1])
    BY <2>1 DEF Steps
  <2> QED
    BY <2>1, <2>2
<1> HIDE DEF Same
<1>3. 0 \in T /\ \A n \in Nat : n \in T => n + 1 \in T
  BY <1>1, <1>2
<1>4. Nat \subseteq T
  <2> HIDE DEF T
  <2> QED
    BY <1>3, Induction
<1>5. Same(k)
  BY <1>4
<1> QED
  BY <1>5 DEF Same

\* The object the constructor makes is the last of them.
LEMMA AddedIsLast ==
    ASSUME NEW kind, NEW ts, Len(ts) \in Nat, NEW f, Steps(kind, ts, f, Len(ts))
    PROVE  AddedTuples(kind, ts) = f[Len(ts)]
<1> DEFINE Equation(h) ==
               h = [i \in 0..Len(ts) |-> IF i = 0 THEN <<>> ELSE AddTuple(kind, h[i - 1], ts[i])]
           added == CHOOSE h : Equation(h)
<1>1. PICK g : g = [i \in 0..Len(ts) |-> g[i]] /\ Steps(kind, ts, g, Len(ts))
  BY StepsExist
<1>2. \A i \in 0..Len(ts) : g[i] = IF i = 0 THEN <<>> ELSE AddTuple(kind, g[i - 1], ts[i])
  <2>1. \A i \in 0..Len(ts) : i = 0 \/ i \in 1..Len(ts)
    OBVIOUS
  <2> QED
    BY <1>1, <2>1 DEF Steps
<1>3. Equation(g)
  BY <1>1, <1>2
<1>4. Equation(added)
  <2> HIDE DEF Equation
  <2> QED
    BY <1>3
<1>5. AddedTuples(kind, ts) = added[Len(ts)]
  BY DEF AddedTuples
<1> HIDE DEF added
<1>6. \A i \in 0..Len(ts) :
          added[i] = IF i = 0 THEN <<>> ELSE AddTuple(kind, added[i - 1], ts[i])
  BY <1>4
<1>7. Steps(kind, ts, added, Len(ts))
  BY <1>6 DEF Steps
<1>8. added[Len(ts)] = f[Len(ts)]
  BY <1>7, StepsAgree
<1> QED
  BY <1>5, <1>8

\* No pairs, and one pair more.
LEMMA AddedAppend ==
    /\ \A kind : AddedTuples(kind, <<>>) = <<>>
    /\ \A kind, T : \A ts \in Seq(T), t \in T :
          AddedTuples(kind, Append(ts, t)) = AddTuple(kind, AddedTuples(kind, ts), t)
<1>1. ASSUME NEW kind PROVE AddedTuples(kind, <<>>) = <<>>
  <2>1. Len(<<>>) = 0
    OBVIOUS
  <2>2. PICK f : Steps(kind, <<>>, f, 0)
    BY StepsExist
  <2>3. AddedTuples(kind, <<>>) = f[0]
    BY <2>1, <2>2, AddedIsLast
  <2> QED
    BY <2>2, <2>3 DEF Steps
<1>2. ASSUME NEW kind, NEW T, NEW ts \in Seq(T), NEW t \in T
      PROVE  AddedTuples(kind, Append(ts, t)) = AddTuple(kind, AddedTuples(kind, ts), t)
  <2> DEFINE us == Append(ts, t)
             n == Len(ts)
  <2>1. n \in Nat /\ Len(us) = n + 1 /\ us[n + 1] = t /\ \A i \in 1..n : us[i] = ts[i]
    BY AppendProperties
  <2> HIDE DEF us
  <2>2. n + 1 \in Nat
    BY <2>1
  <2>3. PICK f : Steps(kind, us, f, n + 1)
    BY <2>2, StepsExist
  <2>4. Steps(kind, ts, f, n)
    <3>1. f[0] = <<>>
      BY <2>3 DEF Steps
    <3>2. ASSUME NEW i \in 1..n PROVE f[i] = AddTuple(kind, f[i - 1], ts[i])
      <4>1. i \in 1..(n + 1) /\ us[i] = ts[i]
        BY <2>1
      <4> QED
        BY <2>3, <4>1 DEF Steps
    <3> QED
      BY <3>1, <3>2 DEF Steps
  <2>5. AddedTuples(kind, ts) = f[n] /\ AddedTuples(kind, us) = f[n + 1]
    BY <2>1, <2>3, <2>4, AddedIsLast
  <2>6. f[n + 1] = AddTuple(kind, f[n], t)
    <3>1. n + 1 \in 1..(n + 1) /\ (n + 1) - 1 = n
      BY <2>1
    <3>2. f[n + 1] = AddTuple(kind, f[(n + 1) - 1], us[n + 1])
      BY <2>3, <3>1 DEF Steps
    <3> QED
      BY <2>1, <3>1, <3>2
  <2> QED
    BY <2>5, <2>6 DEF us
<1> QED
  BY <1>1, <1>2

-----------------------------------------------------------------------------
(* Lists of pairs: the values they have for a name.                        *)

\* The values that a list of pairs has for a name, in their order.
Picked(ts, k) ==
    FlattenSeq([i \in DOMAIN ts |-> IF ts[i].name.key = k THEN <<ts[i].value>> ELSE <<>>])

\* What one pair has.
ValueOf(t, k) == IF t.name.key = k THEN <<t.value>> ELSE <<>>

\* No pairs.
LEMMA PickedEmpty == \A k : Picked(<<>>, k) = <<>>
<1>1. ASSUME NEW k PROVE Picked(<<>>, k) = <<>>
  <2>1. [i \in DOMAIN <<>> |-> IF <<>>[i].name.key = k THEN <<<<>>[i].value>> ELSE <<>>] = <<>>
    OBVIOUS
  <2> QED
    BY <2>1, FlattenFew DEF Picked
<1> QED
  BY <1>1

\* One pair more.
LEMMA PickedAppend ==
    ASSUME NEW N, NEW V, NEW ts \in Seq(PairsOf(N, V)), NEW t \in PairsOf(N, V), NEW k
    PROVE  /\ ValueOf(t, k) \in Seq(Seq(V))
           /\ Picked(Append(ts, t), k) = Picked(ts, k) \o ValueOf(t, k)
<1> DEFINE W == Seq(V)
           us == Append(ts, t)
           vs == [i \in DOMAIN ts |-> ValueOf(ts[i], k)]
           ws == [i \in DOMAIN us |-> ValueOf(us[i], k)]
<1>1. \A u \in PairsOf(N, V) : ValueOf(u, k) \in Seq(W)
  BY DEF PairsOf, ValueOf
<1>2. /\ Len(ts) \in Nat /\ DOMAIN ts = 1..Len(ts) /\ DOMAIN us = 1..(Len(ts) + 1)
      /\ us[Len(ts) + 1] = t /\ \A i \in 1..Len(ts) : us[i] = ts[i] /\ ts[i] \in PairsOf(N, V)
  BY AppendProperties, ElementOfSeq
<1> HIDE DEF us, W
<1>3. vs \in Seq(Seq(W)) /\ Len(vs) = Len(ts)
  BY <1>1, <1>2
<1>4. ws = Append(vs, ValueOf(t, k))
  BY <1>2
<1>5. Picked(ts, k) = FlattenSeq(vs) /\ Picked(us, k) = FlattenSeq(ws)
  BY DEF Picked, ValueOf
<1> HIDE DEF vs, ws
<1>6. FlattenSeq(ws) = FlattenSeq(vs) \o ValueOf(t, k)
  BY <1>1, <1>3, <1>4, FlattenAppend
<1> QED
  BY <1>1, <1>5, <1>6 DEF us, W

LEMMA PickedType ==
    ASSUME NEW N, NEW V, NEW ts \in Seq(PairsOf(N, V)), NEW k
    PROVE  Picked(ts, k) \in Seq(Seq(V))
<1> DEFINE vs == [i \in DOMAIN ts |-> ValueOf(ts[i], k)]
           W == Seq(V)
<1>1. \A u \in PairsOf(N, V) : ValueOf(u, k) \in Seq(W)
  BY DEF PairsOf, ValueOf
<1> HIDE DEF W
<1>2. \A i \in 1..Len(ts) : ts[i] \in PairsOf(N, V)
  BY ElementOfSeq
<1>3. \A i \in 1..Len(ts) : ValueOf(ts[i], k) \in Seq(W)
  BY <1>1, <1>2
<1>4. vs \in Seq(Seq(W))
  <2>1. DOMAIN ts = 1..Len(ts) /\ Len(ts) \in Nat
    OBVIOUS
  <2> QED
    BY <1>3, <2>1
<1>5. Picked(ts, k) = FlattenSeq(vs)
  BY DEF Picked, ValueOf
<1> HIDE DEF vs
<1>6. <<>> \in Seq(W)
  BY EmptySeq
<1> QED
  BY <1>4, <1>5, <1>6, FlattenAppend DEF W

\* A list behind another.
LEMMA PickedConcat ==
    ASSUME NEW N, NEW V, NEW s \in Seq(PairsOf(N, V)), NEW t \in Seq(PairsOf(N, V)), NEW k
    PROVE  Picked(s \o t, k) = Picked(s, k) \o Picked(t, k)
<1> DEFINE P == PairsOf(N, V)
           S == {u \in Seq(P) : Picked(s \o u, k) = Picked(s, k) \o Picked(u, k)}
<1> HIDE DEF P
<1>1. <<>> \in S
  <2>1. s \o <<>> = s /\ <<>> \in Seq(P)
    BY ConcatEmptySeq, EmptySeq
  <2>2. Picked(s, k) \in Seq(Seq(V))
    BY PickedType DEF P
  <2> QED
    BY <2>1, <2>2, ConcatEmptySeq, PickedEmpty
<1>2. ASSUME NEW u \in Seq(P), NEW x \in P, u \in S PROVE Append(u, x) \in S
  <2>1. s \in Seq(P)
    BY DEF P
  <2>2. s \o Append(u, x) = Append(s \o u, x) /\ s \o u \in Seq(P) /\ Append(u, x) \in Seq(P)
    BY <2>1, AppendProperties, ConcatProperties
  <2>3. Picked(s \o Append(u, x), k) = (Picked(s, k) \o Picked(u, k)) \o ValueOf(x, k)
    <3> DEFINE w == s \o u
    <3>1. w \in Seq(P) /\ Picked(w, k) = Picked(s, k) \o Picked(u, k)
      BY <1>2, <2>2
    <3>2. s \o Append(u, x) = Append(w, x)
      BY <2>2
    <3> HIDE DEF w
    <3>3. Picked(Append(w, x), k) = Picked(w, k) \o ValueOf(x, k)
      <4>1. \A v \in Seq(P) : Picked(Append(v, x), k) = Picked(v, k) \o ValueOf(x, k)
        BY PickedAppend DEF P
      <4> QED
        BY <3>1, <4>1
    <3> QED
      BY <3>1, <3>2, <3>3
  <2>4. Picked(Append(u, x), k) = Picked(u, k) \o ValueOf(x, k)
    BY PickedAppend DEF P
  <2>5. Picked(s, k) \in Seq(Seq(V)) /\ Picked(u, k) \in Seq(Seq(V)) /\ ValueOf(x, k) \in Seq(Seq(V))
    BY PickedAppend, PickedType DEF P
  <2>6. (Picked(s, k) \o Picked(u, k)) \o ValueOf(x, k) = Picked(s, k) \o (Picked(u, k) \o ValueOf(x, k))
    <3> DEFINE W == Seq(V)
    <3> HIDE DEF W, S
    <3>1. ASSUME NEW a \in Seq(W), NEW b \in Seq(W), NEW c \in Seq(W)
          PROVE  (a \o b) \o c = a \o (b \o c)
      OBVIOUS
    <3> QED
      BY <2>5, <3>1, Zenon DEF W
  <2> QED
    BY <2>2, <2>3, <2>4, <2>6
<1>3. Seq(P) \subseteq S
  <2> HIDE DEF S
  <2> QED
    BY <1>1, <1>2, ListInduction
<1> QED
  BY <1>3 DEF P

\* A name has values where there is a pair for it.
LEMMA PickedNone ==
    ASSUME NEW N, NEW V, NEW ts \in Seq(PairsOf(N, V)), NEW k
    PROVE  Picked(ts, k) = <<>> <=> \A i \in DOMAIN ts : ts[i].name.key # k
<1> DEFINE P == PairsOf(N, V)
           S == {u \in Seq(P) : Picked(u, k) = <<>> <=> \A i \in DOMAIN u : u[i].name.key # k}
<1> HIDE DEF P
<1>1. <<>> \in S
  BY PickedEmpty, EmptySeq
<1>2. ASSUME NEW u \in Seq(P), NEW x \in P, u \in S PROVE Append(u, x) \in S
  <2>1. Picked(Append(u, x), k) = Picked(u, k) \o ValueOf(x, k) /\ Picked(u, k) \in Seq(Seq(V))
    BY PickedAppend, PickedType DEF P
  <2>2. /\ Append(u, x) \in Seq(P) /\ DOMAIN Append(u, x) = 1..(Len(u) + 1)
        /\ Append(u, x)[Len(u) + 1] = x /\ \A i \in 1..Len(u) : Append(u, x)[i] = u[i]
        /\ DOMAIN u = 1..Len(u) /\ Len(u) \in Nat
    BY AppendProperties
  <2>3. (\A i \in DOMAIN Append(u, x) : Append(u, x)[i].name.key # k)
            <=> x.name.key # k /\ \A i \in DOMAIN u : u[i].name.key # k
    <3>1. \A i \in 1..(Len(u) + 1) : i = Len(u) + 1 \/ i \in 1..Len(u)
      BY <2>2
    <3>2. Len(u) + 1 \in 1..(Len(u) + 1) /\ \A i \in 1..Len(u) : i \in 1..(Len(u) + 1)
      BY <2>2
    <3> QED
      BY <2>2, <3>1, <3>2, Zenon
  <2>4. CASE x.name.key # k
    <3>1. Picked(Append(u, x), k) = Picked(u, k)
      BY <2>1, <2>4, ConcatEmptySeq DEF ValueOf
    <3> QED
      BY <1>2, <2>2, <2>3, <2>4, <3>1
  <2>5. CASE x.name.key = k
    <3>1. Picked(Append(u, x), k) # <<>>
      <4> DEFINE p == Picked(u, k)
                 v == x.value
      <4>1. p \o <<v>> = Append(p, v) /\ Append(p, v) # <<>>
        <5>1. x \in PairsOf(N, V)
          BY DEF P
        <5>2. v \in Seq(V)
          BY <5>1 DEF PairsOf
        <5> HIDE DEF p, v
        <5>3. p \in Seq(Seq(V))
          BY <2>1 DEF p
        <5> QED
          BY <5>2, <5>3, AppendProperties
      <4> HIDE DEF p, v
      <4> QED
        BY <2>1, <2>5, <4>1 DEF ValueOf, p, v
    <3> QED
      BY <2>2, <2>3, <2>5, <3>1
  <2> QED
    BY <2>4, <2>5
<1>3. Seq(P) \subseteq S
  <2> HIDE DEF S
  <2> QED
    BY <1>1, <1>2, ListInduction
<1> QED
  BY <1>3 DEF P

-----------------------------------------------------------------------------
(* From lists of pairs to Headers objects and back.                        *)

LEMMA EmptyStore == \A N, V : <<>> \in Stores(N, V) /\ \A k : ValuesOf(<<>>, k) = <<>> /\ ~Has(<<>>, k)
  BY EmptySeq DEF Stores, ValuesOf, Has

\* An object made from a list of pairs has for a name what the list has.
LEMMA TuplesStore ==
    ASSUME NEW N, NEW V, NEW kind, NEW ts \in Seq(PairsOf(N, V)), kind # "object"
    PROVE  /\ AddedTuples(kind, ts) \in Stores(N, V)
           /\ \A k : ValuesOf(AddedTuples(kind, ts), k) = Picked(ts, k)
<1> DEFINE P == PairsOf(N, V)
           Made(u) == /\ AddedTuples(kind, u) \in Stores(N, V)
                      /\ \A k : ValuesOf(AddedTuples(kind, u), k) = Picked(u, k)
           S == {u \in Seq(P) : Made(u)}
<1>1. <<>> \in S
  BY EmptySeq, EmptyStore, AddedAppend, PickedEmpty
<1>2. ASSUME NEW u \in Seq(P), NEW t \in P, Made(u) PROVE Made(Append(u, t))
  <2> DEFINE h == AddedTuples(kind, u)
             g == HeaderAppend(h, t.name, t.value)
  <2>1. AddedTuples(kind, Append(u, t)) = g
    BY AddedAppend DEF AddTuple
  <2>2. t.name \in N /\ t.value \in Seq(V)
    BY DEF PairsOf
  <2>3. h \in Stores(N, V)
    BY <1>2
  <2> HIDE DEF h
  <2>4. /\ g \in Stores(N, V)
        /\ \A k : ValuesOf(g, k) = IF k = t.name.key THEN Append(ValuesOf(h, k), t.value)
                                                     ELSE ValuesOf(h, k)
    <3> DEFINE n == t.name
               v == t.value
    <3>1. n \in N /\ v \in Seq(V)
      BY <2>2
    <3> HIDE DEF n, v
    <3>2. /\ HeaderAppend(h, n, v) \in Stores(N, V)
          /\ \A k : ValuesOf(HeaderAppend(h, n, v), k) =
                       IF k = n.key THEN Append(ValuesOf(h, k), v) ELSE ValuesOf(h, k)
      BY <2>3, <3>1, AppendValues
    <3> QED
      BY <3>2 DEF n, v
  <2> HIDE DEF g
  <2>5. ASSUME NEW k PROVE ValuesOf(g, k) = Picked(Append(u, t), k)
    <3> DEFINE W == Seq(V)
               p == Picked(u, k)
    <3>1. ValuesOf(h, k) = p /\ p \in Seq(W) /\ t.value \in W
      BY <1>2, <2>2, PickedType DEF h
    <3>2. Picked(Append(u, t), k) = p \o ValueOf(t, k)
      BY PickedAppend
    <3> HIDE DEF p, W
    <3>3. CASE k = t.name.key
      <4>1. p \o <<t.value>> = Append(p, t.value)
        BY <3>1
      <4>2. ValueOf(t, k) = <<t.value>>
        BY <3>3 DEF ValueOf
      <4>3. ValuesOf(g, k) = Append(ValuesOf(h, k), t.value)
        BY <2>4, <3>3
      <4> QED
        BY <3>1, <3>2, <4>1, <4>2, <4>3
    <3>4. CASE k # t.name.key
      <4>1. p \o <<>> = p
        BY <3>1, ConcatEmptySeq
      <4>2. ValueOf(t, k) = <<>>
        BY <3>4 DEF ValueOf
      <4>3. ValuesOf(g, k) = ValuesOf(h, k)
        BY <2>4, <3>4
      <4> QED
        BY <3>1, <3>2, <4>1, <4>2, <4>3
    <3> QED
      BY <3>3, <3>4
  <2> QED
    BY <2>1, <2>4, <2>5
<1>3. \A u \in Seq(P), t \in P : u \in S => Append(u, t) \in S
  <2> HIDE DEF P, Made
  <2> QED
    BY <1>2, AppendProperties
<1>4. Seq(P) \subseteq S
  <2> HIDE DEF S, P
  <2> QED
    BY <1>1, <1>3, ListInduction
<1> QED
  BY <1>4

LEMMA FromTuplesStore ==
    ASSUME NEW N, NEW V, NEW ts \in Seq(PairsOf(N, V))
    PROVE  /\ FromTuples(ts) \in Stores(N, V)
           /\ \A k : ValuesOf(FromTuples(ts), k) = Picked(ts, k)
<1>1. \A kind : kind # "object" => /\ AddedTuples(kind, ts) \in Stores(N, V)
                                   /\ \A k : ValuesOf(AddedTuples(kind, ts), k) = Picked(ts, k)
  <2>1. ASSUME NEW kind, kind # "object"
        PROVE  /\ AddedTuples(kind, ts) \in Stores(N, V)
               /\ \A k : ValuesOf(AddedTuples(kind, ts), k) = Picked(ts, k)
    BY <2>1, TuplesStore
  <2> QED
    BY <2>1
<1> QED
  BY <1>1 DEF FromTuples

\* So is one made from a plain object, where a property may lack a value.
LEMMA ObjectStore ==
    ASSUME NEW N, NEW V, NEW ts \in Seq([name : N, value : Seq(V) \cup {None}])
    PROVE  AddedTuples("object", ts) \in Stores(N, V)
<1> DEFINE P == [name : N, value : Seq(V) \cup {None}]
           S == {u \in Seq(P) : AddedTuples("object", u) \in Stores(N, V)}
<1>1. <<>> \in S
  BY EmptySeq, EmptyStore, AddedAppend
<1>2. ASSUME NEW u \in Seq(P), NEW t \in P, u \in S PROVE Append(u, t) \in S
  <2> DEFINE h == AddedTuples("object", u)
  <2>1. AddedTuples("object", Append(u, t)) = AddTuple("object", h, t)
    <3> HIDE DEF P
    <3> QED
      BY AddedAppend
  <2>2. h \in Stores(N, V) /\ t.name \in N /\ (t.value # None => t.value \in Seq(V))
    BY <1>2
  <2>3. Append(u, t) \in Seq(P)
    BY AppendProperties
  <2> HIDE DEF h
  <2>4. CASE t.value = None
    BY <2>1, <2>2, <2>3, <2>4 DEF AddTuple
  <2>5. CASE t.value # None
    BY <2>1, <2>2, <2>3, <2>5, SetValues DEF AddTuple
  <2> QED
    BY <2>4, <2>5
<1>3. Seq(P) \subseteq S
  <2> HIDE DEF S, P
  <2> QED
    BY <1>1, <1>2, ListInduction
<1> QED
  BY <1>3

\* Induction on Headers objects, for a set of them: entry by entry.
LEMMA StoreInduction ==
    ASSUME NEW N, NEW V, NEW S, <<>> \in S,
           \A h \in Stores(N, V), e \in EntriesOf(N, V) :
               h \in S /\ ~Has(h, e.name.key) => Append(h, e) \in S
    PROVE  Stores(N, V) \subseteq S
<1> DEFINE E == EntriesOf(N, V)
           T == {h \in Seq(E) : h \in Stores(N, V) => h \in S}
<1>1. <<>> \in T
  BY EmptySeq
<1>2. ASSUME NEW h \in Seq(E), NEW e \in E, h \in T PROVE Append(h, e) \in T
  <2>1. SUFFICES ASSUME Append(h, e) \in Stores(N, V) PROVE Append(h, e) \in S
    BY AppendProperties
  <2> DEFINE g == Append(h, e)
  <2>2. /\ DOMAIN h = 1..Len(h) /\ Len(h) \in Nat /\ DOMAIN g = 1..(Len(h) + 1)
        /\ g[Len(h) + 1] = e /\ \A i \in 1..Len(h) : g[i] = h[i]
    BY AppendProperties
  <2>3. \A i, j \in DOMAIN g : g[i].name.key = g[j].name.key => i = j
    BY <2>1 DEF Stores
  <2> HIDE DEF g, E
  <2>4. Len(h) + 1 \in DOMAIN g /\ \A i \in DOMAIN h : i \in DOMAIN g /\ i # Len(h) + 1 /\ g[i] = h[i]
    BY <2>2
  <2>5. \A i, j \in DOMAIN h : h[i].name.key = h[j].name.key => i = j
    BY <2>3, <2>4
  <2>6. \A i \in DOMAIN h : h[i].name.key # e.name.key
    BY <2>2, <2>3, <2>4
  <2>7. h \in Stores(N, V) /\ ~Has(h, e.name.key)
    BY <2>5, <2>6 DEF Stores, Has, E
  <2>8. h \in S
    BY <1>2, <2>7
  <2> QED
    BY <2>7, <2>8 DEF E
<1>3. Seq(E) \subseteq T
  <2> HIDE DEF T, E
  <2> QED
    BY <1>1, <1>2, ListInduction
<1> QED
  BY <1>3 DEF Stores

\* The pairs of one entry.
TuplesOf(e) ==
    IF e.name.key = SetCookie
    THEN [j \in DOMAIN e.values |-> HeaderTuple(e.name, e.values[j])]
    ELSE <<HeaderTuple(e.name, FlattenSeq(e.values))>>

LEMMA TuplesOfType ==
    ASSUME NEW N, NEW V, NEW e \in EntriesOf(N, V)
    PROVE  TuplesOf(e) \in Seq(PairsOf(N, V))
<1> DEFINE W == Seq(V)
<1>1. e.name \in N /\ e.values \in Seq(W)
  BY DEF EntriesOf
<1>2. FlattenSeq(e.values) \in W
  <2>1. <<>> \in Seq(V)
    BY EmptySeq
  <2> QED
    BY <1>1, <2>1, FlattenAppend
<1> HIDE DEF W
<1>3. \A w \in W : HeaderTuple(e.name, w) \in PairsOf(N, V)
  BY <1>1 DEF W, HeaderTuple, PairsOf
<1>4. \A j \in DOMAIN e.values : HeaderTuple(e.name, e.values[j]) \in PairsOf(N, V)
  BY <1>1, <1>3
<1>5. [j \in DOMAIN e.values |-> HeaderTuple(e.name, e.values[j])] \in Seq(PairsOf(N, V))
  BY <1>1, <1>4
<1> QED
  BY <1>2, <1>3, <1>5 DEF TuplesOf

\* The iterator, entry by entry.
LEMMA ToTuplesAppend ==
    ASSUME NEW N, NEW V, NEW h \in Seq(EntriesOf(N, V)), NEW e \in EntriesOf(N, V)
    PROVE  /\ ToTuples(h) \in Seq(PairsOf(N, V))
           /\ ToTuples(Append(h, e)) = ToTuples(h) \o TuplesOf(e)
<1> DEFINE P == PairsOf(N, V)
           g == Append(h, e)
           s == [i \in DOMAIN h |-> TuplesOf(h[i])]
           t == [i \in DOMAIN g |-> TuplesOf(g[i])]
<1>1. \A d \in EntriesOf(N, V) : TuplesOf(d) \in Seq(P)
  BY TuplesOfType
<1>2. /\ Len(h) \in Nat /\ DOMAIN h = 1..Len(h) /\ DOMAIN g = 1..(Len(h) + 1)
      /\ g[Len(h) + 1] = e /\ \A i \in 1..Len(h) : g[i] = h[i] /\ h[i] \in EntriesOf(N, V)
  BY AppendProperties, ElementOfSeq
<1> HIDE DEF g, P
<1>3. s \in Seq(Seq(P)) /\ Len(s) = Len(h)
  BY <1>1, <1>2
<1>4. t = Append(s, TuplesOf(e))
  BY <1>2
<1>5. ToTuples(h) = FlattenSeq(s) /\ ToTuples(g) = FlattenSeq(t)
  BY DEF ToTuples, TuplesOf
<1> HIDE DEF s, t
<1>6. FlattenSeq(s) \in Seq(P) /\ FlattenSeq(t) = FlattenSeq(s) \o TuplesOf(e)
  BY <1>1, <1>3, <1>4, FlattenAppend
<1> QED
  BY <1>5, <1>6 DEF g, P

\* A list of single elements.
LEMMA FlattenSingles ==
    ASSUME NEW X, NEW s \in Seq(X) PROVE FlattenSeq([i \in DOMAIN s |-> <<s[i]>>]) = s
<1> DEFINE Alone(u) == [i \in DOMAIN u |-> <<u[i]>>]
           S == {u \in Seq(X) : FlattenSeq(Alone(u)) = u}
<1>1. <<>> \in S
  <2>1. Alone(<<>>) = <<>>
    OBVIOUS
  <2> QED
    BY <2>1, FlattenFew, EmptySeq
<1>2. ASSUME NEW u \in Seq(X), NEW x \in X, u \in S PROVE Append(u, x) \in S
  <2> DEFINE w == Append(u, x)
             a == Alone(u)
             b == Alone(w)
  <2>1. /\ w \in Seq(X) /\ Len(u) \in Nat /\ DOMAIN u = 1..Len(u) /\ DOMAIN w = 1..(Len(u) + 1)
        /\ w[Len(u) + 1] = x /\ \A i \in 1..Len(u) : w[i] = u[i]
        /\ \A i \in 1..Len(u) : u[i] \in X
    BY AppendProperties
  <2> HIDE DEF w
  <2>2. a \in Seq(Seq(X)) /\ <<x>> \in Seq(X) /\ Len(a) = Len(u)
    BY <2>1
  <2>3. b = Append(a, <<x>>)
    BY <2>1, <2>2
  <2> HIDE DEF a, b
  <2>4. FlattenSeq(b) = FlattenSeq(a) \o <<x>>
    BY <2>2, <2>3, FlattenAppend
  <2>5. FlattenSeq(a) = u
    BY <1>2 DEF a
  <2>6. u \o <<x>> = w
    BY DEF w
  <2>7. FlattenSeq(b) = w
    BY <2>4, <2>5, <2>6
  <2> QED
    BY <2>1, <2>7 DEF w, b
<1>3. Seq(X) \subseteq S
  <2> HIDE DEF S
  <2> QED
    BY <1>1, <1>2, ListInduction
<1> QED
  BY <1>3

\* What the iterator gives for a name: the values of set-cookie one by one, and
\* those of another name joined.
Listed(k, values) ==
    IF k = SetCookie \/ values = <<>> THEN values ELSE <<FlattenSeq(values)>>

\* Joining what is joined changes nothing.
LEMMA ListedSame ==
    ASSUME NEW V, NEW values \in Seq(Seq(V)), NEW k
    PROVE  /\ Listed(k, values) = <<>> <=> values = <<>>
           /\ FlattenSeq(Listed(k, values)) = FlattenSeq(values)
<1> DEFINE j == FlattenSeq(values)
<1>1. j \in Seq(V)
  <2>1. <<>> \in Seq(V)
    BY EmptySeq
  <2> QED
    BY <2>1, FlattenAppend
<1> HIDE DEF j
<1>2. FlattenSeq(<<j>>) = j /\ <<j>> # <<>>
  BY <1>1, FlattenFew
<1> QED
  BY <1>2 DEF Listed, j

\* The pairs of one entry have its values and no others.
LEMMA PickedEntry ==
    ASSUME NEW N, NEW V, NEW e \in EntriesOf(N, V), NEW k
    PROVE  Picked(TuplesOf(e), k) = IF k = e.name.key THEN Listed(k, e.values) ELSE <<>>
<1> DEFINE ts == TuplesOf(e)
           vs == e.values
<1>1. vs \in Seq(Seq(V)) /\ vs # <<>> /\ ts \in Seq(PairsOf(N, V))
  BY TuplesOfType DEF EntriesOf
<1>2. \A i \in DOMAIN ts : ts[i].name = e.name
  BY DEF TuplesOf, HeaderTuple
<1>3. CASE k # e.name.key
  <2>1. \A i \in DOMAIN ts : ts[i].name.key # k
    BY <1>2, <1>3
  <2> HIDE DEF ts
  <2>2. Picked(ts, k) = <<>>
    BY <1>1, <2>1, PickedNone
  <2> QED
    BY <1>3, <2>2 DEF ts
<1>4. CASE k = e.name.key /\ k = SetCookie
  <2>1. ts = [j \in DOMAIN vs |-> HeaderTuple(e.name, vs[j])]
    BY <1>4 DEF TuplesOf
  <2>2. \A j \in DOMAIN vs : ts[j].name.key = k /\ ts[j].value = vs[j]
    <3> HIDE DEF ts, vs
    <3>1. \A j \in DOMAIN vs : ts[j] = HeaderTuple(e.name, vs[j])
      BY <2>1
    <3>2. \A v : HeaderTuple(e.name, v).name = e.name /\ HeaderTuple(e.name, v).value = v
      BY DEF HeaderTuple
    <3> QED
      BY <1>4, <3>1, <3>2, Zenon
  <2>3. DOMAIN ts = DOMAIN vs
    BY <2>1
  <2> HIDE DEF ts, vs
  <2>4. [i \in DOMAIN ts |-> IF ts[i].name.key = k THEN <<ts[i].value>> ELSE <<>>]
           = [i \in DOMAIN vs |-> <<vs[i]>>]
    BY <2>2, <2>3
  <2>5. Picked(ts, k) = vs
    BY <1>1, <2>4, FlattenSingles DEF Picked
  <2> QED
    BY <1>4, <2>5 DEF ts, vs, Listed
<1>5. CASE k = e.name.key /\ k # SetCookie
  <2> DEFINE j == FlattenSeq(vs)
             t == HeaderTuple(e.name, j)
  <2>1. ts = <<t>> /\ t.name.key = k /\ t.value = j
    BY <1>5 DEF TuplesOf, HeaderTuple
  <2> HIDE DEF t, ts
  <2>2. [i \in DOMAIN ts |-> IF ts[i].name.key = k THEN <<ts[i].value>> ELSE <<>>] = <<<<j>>>>
    BY <2>1
  <2>3. j \in Seq(V)
    <3>1. <<>> \in Seq(V)
      BY EmptySeq
    <3> QED
      BY <1>1, <3>1, FlattenAppend
  <2> HIDE DEF j, vs
  <2>4. <<j>> \in Seq(Seq(V))
    BY <2>3
  <2>5. Picked(ts, k) = <<j>>
    BY <2>2, <2>4, FlattenFew DEF Picked
  <2> QED
    BY <1>1, <1>5, <2>5 DEF ts, vs, j, Listed
<1> QED
  BY <1>3, <1>4, <1>5

\* What the iterator gives has the values of every name.
LEMMA PickedToTuples ==
    ASSUME NEW N, NEW V, NEW h \in Stores(N, V), NEW k
    PROVE  /\ ToTuples(h) \in Seq(PairsOf(N, V))
           /\ Picked(ToTuples(h), k) = Listed(k, ValuesOf(h, k))
<1> DEFINE S == {g \in Stores(N, V) : /\ ToTuples(g) \in Seq(PairsOf(N, V))
                                      /\ Picked(ToTuples(g), k) = Listed(k, ValuesOf(g, k))}
<1>1. <<>> \in S
  <2>1. ToTuples(<<>>) = <<>>
    <3>1. [i \in DOMAIN <<>> |-> TuplesOf(<<>>[i])] = <<>>
      OBVIOUS
    <3>2. ToTuples(<<>>) = FlattenSeq([i \in DOMAIN <<>> |-> TuplesOf(<<>>[i])])
      BY DEF ToTuples, TuplesOf
    <3> QED
      BY <3>1, <3>2, FlattenFew
  <2>2. Picked(<<>>, k) = <<>> /\ ValuesOf(<<>>, k) = <<>> /\ <<>> \in Stores(N, V)
    BY PickedEmpty, EmptyStore
  <2> QED
    BY <2>1, <2>2, EmptySeq DEF Listed
<1>2. ASSUME NEW g \in Stores(N, V), NEW e \in EntriesOf(N, V), g \in S, ~Has(g, e.name.key)
      PROVE  Append(g, e) \in S
  <2> DEFINE f == Append(g, e)
             a == ToTuples(g)
             b == TuplesOf(e)
             P == PairsOf(N, V)
  <2>1. f \in Stores(N, V) /\ ValuesOf(f, k) = IF k = e.name.key THEN e.values ELSE ValuesOf(g, k)
    BY <1>2, AppendEntry
  <2>2. ToTuples(f) = a \o b /\ a \in Seq(P)
    BY ToTuplesAppend DEF Stores
  <2>3. b \in Seq(P) /\ Picked(b, k) = IF k = e.name.key THEN Listed(k, e.values) ELSE <<>>
    BY TuplesOfType, PickedEntry
  <2>4. Picked(a, k) = Listed(k, ValuesOf(g, k))
    BY <1>2
  <2>5. k = e.name.key => Picked(a, k) = <<>>
    BY <1>2, <2>4 DEF ValuesOf, Listed
  <2> HIDE DEF a, b, f
  <2>6. Picked(a \o b, k) = Picked(a, k) \o Picked(b, k)
    BY <2>2, <2>3, PickedConcat
  <2> HIDE DEF P
  <2>7. a \o b \in Seq(P)
    BY <2>2, <2>3
  <2>8. Picked(a, k) \in Seq(Seq(V)) /\ Picked(b, k) \in Seq(Seq(V))
    BY <2>2, <2>3, PickedType DEF P
  <2>9. Picked(a \o b, k) = Listed(k, ValuesOf(f, k))
    <3>1. CASE k = e.name.key
      BY <2>1, <2>3, <2>5, <2>6, <2>8, <3>1, ConcatEmptySeq
    <3>2. CASE k # e.name.key
      BY <2>1, <2>3, <2>4, <2>6, <2>8, <3>2, ConcatEmptySeq
    <3> QED
      BY <3>1, <3>2
  <2> QED
    BY <2>1, <2>2, <2>7, <2>9 DEF f, P
<1>3. Stores(N, V) \subseteq S
  <2> HIDE DEF S
  <2> QED
    BY <1>1, <1>2, StoreInduction
<1> QED
  BY <1>3

\* Going through a list of pairs keeps what every name has.
LEMMA ThroughTuples ==
    ASSUME NEW N, NEW V, NEW h \in Stores(N, V), NEW k
    PROVE  /\ Get(FromTuples(ToTuples(h)), k) = Get(h, k)
           /\ GetSetCookie(FromTuples(ToTuples(h))) = GetSetCookie(h)
<1> DEFINE g == FromTuples(ToTuples(h))
<1>1. ToTuples(h) \in Seq(PairsOf(N, V)) /\ \A l : Picked(ToTuples(h), l) = Listed(l, ValuesOf(h, l))
  BY PickedToTuples
<1>2. g \in Stores(N, V) /\ \A l : ValuesOf(g, l) = Listed(l, ValuesOf(h, l))
  <2>1. g \in Stores(N, V) /\ \A l : ValuesOf(g, l) = Picked(ToTuples(h), l)
    BY <1>1, FromTuplesStore
  <2> QED
    BY <1>1, <2>1
<1> HIDE DEF g
<1>3. Get(g, k) = Get(h, k)
  <2>1. ValuesOf(h, k) \in Seq(Seq(V))
    BY ByValues
  <2> QED
    BY <1>2, <2>1, ByValues, ListedSame
<1>4. GetSetCookie(g) = ValuesOf(g, SetCookie) /\ GetSetCookie(h) = ValuesOf(h, SetCookie)
  BY DEF GetSetCookie, ValuesOf
<1> QED
  BY <1>2, <1>3, <1>4 DEF g, Listed

-----------------------------------------------------------------------------
(* Lists of which a part is kept.                                          *)

LEMMA KeptEmpty == \A S : Kept(<<>>, S) = <<>>
<1>1. ASSUME NEW S PROVE Kept(<<>>, S) = <<>>
  <2>1. [i \in DOMAIN <<>> |-> IF <<>>[i] \in S THEN <<<<>>[i]>> ELSE <<>>] = <<>>
    OBVIOUS
  <2> QED
    BY <2>1, FlattenFew DEF Kept
<1> QED
  BY <1>1

\* One element more.
LEMMA KeptAppend ==
    ASSUME NEW X, NEW s \in Seq(X), NEW x \in X, NEW S
    PROVE  /\ Kept(s, S) \in Seq(X)
           /\ Kept(Append(s, x), S) = IF x \in S THEN Append(Kept(s, S), x) ELSE Kept(s, S)
<1> DEFINE one(y) == IF y \in S THEN <<y>> ELSE <<>>
           us == Append(s, x)
           vs == [i \in DOMAIN s |-> one(s[i])]
           ws == [i \in DOMAIN us |-> one(us[i])]
<1>1. \A y \in X : one(y) \in Seq(X)
  OBVIOUS
<1>2. /\ Len(s) \in Nat /\ DOMAIN s = 1..Len(s) /\ DOMAIN us = 1..(Len(s) + 1)
      /\ us[Len(s) + 1] = x /\ \A i \in 1..Len(s) : us[i] = s[i] /\ s[i] \in X
  BY AppendProperties, ElementOfSeq
<1>3. Kept(s, S) = FlattenSeq(vs) /\ Kept(us, S) = FlattenSeq(ws)
  BY DEF Kept
<1>4. one(x) = IF x \in S THEN <<x>> ELSE <<>>
  OBVIOUS
<1> HIDE DEF us, one
<1>5. vs \in Seq(Seq(X)) /\ Len(vs) = Len(s)
  BY <1>1, <1>2
<1>6. ws = Append(vs, one(x))
  BY <1>2
<1> HIDE DEF vs, ws
<1>7. FlattenSeq(vs) \in Seq(X) /\ FlattenSeq(ws) = FlattenSeq(vs) \o one(x)
  BY <1>1, <1>5, <1>6, FlattenAppend
<1> DEFINE k == FlattenSeq(vs)
<1> HIDE DEF k
<1>8. k \in Seq(X) /\ FlattenSeq(ws) = k \o one(x)
  BY <1>7 DEF k
<1>9. k \o <<x>> = Append(k, x) /\ k \o <<>> = k
  BY <1>8, ConcatEmptySeq
<1>10. FlattenSeq(ws) = IF x \in S THEN Append(k, x) ELSE k
  BY <1>4, <1>8, <1>9
<1> QED
  BY <1>3, <1>8, <1>10 DEF us, k

LEMMA KeptType == ASSUME NEW X, NEW s \in Seq(X), NEW S PROVE Kept(s, S) \in Seq(X)
<1>1. CASE s = <<>>
  BY <1>1, KeptEmpty, EmptySeq
<1>2. CASE s # <<>>
  <2>1. s[1] \in X
    BY <1>2
  <2> QED
    BY <2>1, KeptAppend
<1> QED
  BY <1>1, <1>2

\* Leaving out the pairs of some names leaves the other names all their values.
LEMMA PickedKept ==
    ASSUME NEW N, NEW V, NEW S, NEW names, NEW d \in Seq(PairsOf(N, V)),
           \A i \in DOMAIN d : d[i] \in S <=> d[i].name.key \notin names, NEW k
    PROVE  Picked(Kept(d, S), k) = IF k \in names THEN <<>> ELSE Picked(d, k)
<1> DEFINE P == PairsOf(N, V)
           ByName(u) == \A i \in DOMAIN u : u[i] \in S <=> u[i].name.key \notin names
           Right(u) == Picked(Kept(u, S), k) = IF k \notin names THEN Picked(u, k) ELSE <<>>
           T == {u \in Seq(P) : ByName(u) => Right(u)}
<1>1. <<>> \in T
  BY EmptySeq, KeptEmpty, PickedEmpty
<1>2. ASSUME NEW u \in Seq(P), NEW x \in P, ByName(u) => Right(u), ByName(Append(u, x))
      PROVE  Right(Append(u, x))
  <2> DEFINE w == Append(u, x)
  <2>1. /\ Len(u) \in Nat /\ DOMAIN u = 1..Len(u) /\ DOMAIN w = 1..(Len(u) + 1)
        /\ w[Len(u) + 1] = x /\ \A i \in 1..Len(u) : w[i] = u[i]
    BY AppendProperties
  <2>2. ByName(u) /\ (x \in S <=> x.name.key \notin names)
    <3> HIDE DEF w
    <3>1. Len(u) + 1 \in DOMAIN w /\ \A i \in DOMAIN u : i \in DOMAIN w /\ w[i] = u[i]
      BY <2>1
    <3>2. \A i \in DOMAIN w : w[i] \in S <=> w[i].name.key \notin names
      BY <1>2 DEF w
    <3> QED
      BY <2>1, <3>1, <3>2
  <2>3. Right(u)
    BY <1>2, <2>2
  <2>4. /\ Kept(u, S) \in Seq(P)
        /\ Kept(w, S) = IF x \in S THEN Append(Kept(u, S), x) ELSE Kept(u, S)
    BY KeptAppend
  <2> HIDE DEF w
  <2>5. Picked(w, k) = Picked(u, k) \o ValueOf(x, k)
    BY PickedAppend DEF w
  <2>6. Picked(Append(Kept(u, S), x), k) = Picked(Kept(u, S), k) \o ValueOf(x, k)
    <3> DEFINE a == Kept(u, S)
    <3>1. a \in Seq(P)
      BY <2>4
    <3> HIDE DEF a
    <3>2. Picked(Append(a, x), k) = Picked(a, k) \o ValueOf(x, k)
      BY <3>1, PickedAppend
    <3> QED
      BY <3>2 DEF a
  <2>7. Picked(u, k) \in Seq(Seq(V))
    BY PickedType
  <2>8. k # x.name.key => ValueOf(x, k) = <<>>
    BY DEF ValueOf
  <2>9. Picked(u, k) \o <<>> = Picked(u, k)
    <3> DEFINE p == Picked(u, k)
    <3> HIDE DEF p
    <3>1. p \in Seq(Seq(V))
      BY <2>7 DEF p
    <3> QED
      BY <3>1, ConcatEmptySeq DEF p
  <2>10. Picked(Kept(u, S), k) = IF k \notin names THEN Picked(u, k) ELSE <<>>
    BY <2>3
  <2>11. <<>> \o <<>> = <<>>
    OBVIOUS
  <2> DEFINE goal == Picked(Kept(w, S), k) = IF k \notin names THEN Picked(w, k) ELSE <<>>
  <2>12. ASSUME x \in S /\ k \notin names PROVE goal
    BY <2>4, <2>5, <2>6, <2>10, <2>12, Zenon
  <2>13. ASSUME x \in S /\ k \in names PROVE goal
    BY <2>2, <2>4, <2>6, <2>8, <2>10, <2>11, <2>13, Zenon
  <2>14. ASSUME x \notin S /\ k \notin names PROVE goal
    BY <2>2, <2>4, <2>5, <2>8, <2>9, <2>10, <2>14, Zenon
  <2>15. ASSUME x \notin S /\ k \in names PROVE goal
    BY <2>4, <2>10, <2>15, Zenon
  <2>16. goal
    BY <2>12, <2>13, <2>14, <2>15, Zenon
  <2> QED
    BY <2>16 DEF w
<1>3. \A u \in Seq(P), x \in P : u \in T => Append(u, x) \in T
  <2> HIDE DEF P, ByName, Right
  <2> QED
    BY <1>2, AppendProperties
<1>4. Seq(P) \subseteq T
  <2> HIDE DEF T, P
  <2> QED
    BY <1>1, <1>3, ListInduction
<1>5. d \in T
  BY <1>4
<1> QED
  BY <1>5

\* Keeping some entries.
LEMMA StoreKept ==
    ASSUME NEW N, NEW V, NEW h \in Stores(N, V), NEW S
    PROVE  /\ Kept(h, S) \in Stores(N, V)
           /\ \A k : ValuesOf(Kept(h, S), k) =
                        IF Has(h, k) /\ EntryOf(h, k) \in S THEN ValuesOf(h, k) ELSE <<>>
<1> DEFINE E == EntriesOf(N, V)
           Right(g) == /\ Kept(g, S) \in Stores(N, V)
                       /\ \A k : ValuesOf(Kept(g, S), k) =
                                    IF Has(g, k) /\ EntryOf(g, k) \in S THEN ValuesOf(g, k) ELSE <<>>
           T == {g \in Stores(N, V) : Right(g)}
<1>1. <<>> \in T
  BY KeptEmpty, EmptyStore
<1>2. ASSUME NEW g \in Stores(N, V), NEW e \in E, Right(g), ~Has(g, e.name.key)
      PROVE  Right(Append(g, e))
  <2> DEFINE f == Append(g, e)
             a == Kept(g, S)
  <2>1. /\ f \in Stores(N, V)
        /\ \A k : ValuesOf(f, k) = IF k = e.name.key THEN e.values ELSE ValuesOf(g, k)
    BY <1>2, AppendEntry
  <2>2. Kept(f, S) = IF e \in S THEN Append(a, e) ELSE a
    BY KeptAppend DEF Stores
  <2>3. /\ a \in Stores(N, V)
        /\ \A k : ValuesOf(a, k) =
                     IF Has(g, k) /\ EntryOf(g, k) \in S THEN ValuesOf(g, k) ELSE <<>>
    BY <1>2
  <2>4. ValuesOf(a, e.name.key) = <<>> /\ ~Has(a, e.name.key)
    <3>1. ValuesOf(a, e.name.key) = <<>>
      BY <1>2, <2>3
    <3> QED
      BY <2>3, <3>1, ByValues
  <2>5. Has(f, e.name.key) /\ EntryOf(f, e.name.key) = e
    <3>1. Len(g) + 1 \in DOMAIN f /\ f[Len(g) + 1] = e
      BY DEF Stores
    <3> HIDE DEF f
    <3> QED
      BY <2>1, <3>1, EntryIs
  <2>6. \A k : k # e.name.key => /\ Has(f, k) <=> Has(g, k)
                                 /\ Has(g, k) => EntryOf(f, k) = EntryOf(g, k)
    <3>1. DOMAIN g = 1..Len(g) /\ Len(g) \in Nat /\ DOMAIN f = 1..(Len(g) + 1)
          /\ f[Len(g) + 1] = e /\ \A i \in 1..Len(g) : f[i] = g[i]
      BY DEF Stores
    <3> HIDE DEF f
    <3>2. \A i \in DOMAIN g : i \in DOMAIN f /\ f[i] = g[i]
      BY <3>1
    <3>3. \A i \in DOMAIN f : i \in DOMAIN g \/ f[i] = e
      BY <3>1
    <3>4. ASSUME NEW k, k # e.name.key, Has(g, k) PROVE Has(f, k) /\ EntryOf(f, k) = EntryOf(g, k)
      <4>1. PICK i \in DOMAIN g : g[i].name.key = k
        BY <3>4 DEF Has
      <4>2. EntryOf(g, k) = g[i]
        BY <4>1, EntryIs
      <4>3. i \in DOMAIN f /\ f[i] = g[i] /\ f[i].name.key = k
        BY <3>2, <4>1
      <4>4. EntryOf(f, k) = f[i]
        BY <2>1, <4>3, EntryIs
      <4> QED
        BY <4>2, <4>3, <4>4 DEF Has
    <3>5. ASSUME NEW k, k # e.name.key, Has(f, k) PROVE Has(g, k)
      BY <3>2, <3>3, <3>5 DEF Has
    <3> QED
      BY <3>4, <3>5
  <2>7. CASE e \in S
    <3> HIDE DEF a, f
    <3>1. /\ Append(a, e) \in Stores(N, V)
          /\ \A k : ValuesOf(Append(a, e), k) = IF k = e.name.key THEN e.values ELSE ValuesOf(a, k)
      BY <2>3, <2>4, AppendEntry
    <3> QED
      BY <2>1, <2>2, <2>3, <2>5, <2>6, <2>7, <3>1, Zenon DEF f
  <2>8. CASE e \notin S
    <3> HIDE DEF a, f
    <3> QED
      BY <2>1, <2>2, <2>3, <2>4, <2>5, <2>6, <2>8, Zenon DEF f
  <2> QED
    BY <2>7, <2>8
<1>3. \A g \in Stores(N, V), e \in E : g \in T /\ ~Has(g, e.name.key) => Append(g, e) \in T
  <2> HIDE DEF E, Right
  <2> QED
    BY <1>2, AppendEntry DEF E
<1>4. Stores(N, V) \subseteq T
  <2> HIDE DEF T
  <2> QED
    BY <1>1, <1>3, StoreInduction
<1> QED
  BY <1>4

\* delete().
LEMMA DeleteValues ==
    ASSUME NEW N, NEW V, NEW h \in Stores(N, V), NEW key
    PROVE  /\ HeaderDelete(h, key) \in Stores(N, V)
           /\ \A k : ValuesOf(HeaderDelete(h, key), k) = IF k = key THEN <<>> ELSE ValuesOf(h, k)
<1> DEFINE S == {e \in Range(h) : e.name.key # key}
<1>1. HeaderDelete(h, key) = Kept(h, S)
  BY DEF HeaderDelete
<1>2. ASSUME NEW k, Has(h, k) PROVE EntryOf(h, k) \in S <=> k # key
  <2>1. PICK i \in DOMAIN h : h[i].name.key = k
    BY <1>2 DEF Has
  <2>2. EntryOf(h, k) = h[i]
    BY <2>1, EntryIs
  <2> QED
    BY <2>1, <2>2 DEF Range
<1>3. \A k : ~Has(h, k) => ValuesOf(h, k) = <<>>
  BY DEF ValuesOf
<1> HIDE DEF S
<1>4. /\ Kept(h, S) \in Stores(N, V)
      /\ \A k : ValuesOf(Kept(h, S), k) =
                    IF Has(h, k) /\ EntryOf(h, k) \in S THEN ValuesOf(h, k) ELSE <<>>
  BY StoreKept
<1> QED
  BY <1>1, <1>2, <1>3, <1>4, Zenon

\* What a list of pairs makes of an entry.
JoinedEntry(e) ==
    IF e.name.key = SetCookie THEN e
    ELSE [name |-> e.name, values |-> <<FlattenSeq(e.values)>>]
Joined(h) == [i \in DOMAIN h |-> JoinedEntry(h[i])]

\* A joined entry is an entry, with the same pairs.
LEMMA JoinedEntryIs ==
    ASSUME NEW N, NEW V, NEW e \in EntriesOf(N, V)
    PROVE  /\ JoinedEntry(e) \in EntriesOf(N, V) /\ JoinedEntry(e).name = e.name
           /\ TuplesOf(JoinedEntry(e)) = TuplesOf(e)
<1> DEFINE j == FlattenSeq(e.values)
           d == [name |-> e.name, values |-> <<j>>]
<1>1. CASE e.name.key = SetCookie
  BY <1>1 DEF JoinedEntry
<1>2. CASE e.name.key # SetCookie
  <2>1. e.name \in N /\ e.values \in Seq(Seq(V)) /\ JoinedEntry(e) = d
    BY <1>2 DEF EntriesOf, JoinedEntry
  <2>2. j \in Seq(V)
    <3>1. <<>> \in Seq(V)
      BY EmptySeq
    <3> QED
      BY <2>1, <3>1, FlattenAppend
  <2> HIDE DEF j
  <2>3. <<j>> \in Seq(Seq(V)) \ {<<>>} /\ FlattenSeq(<<j>>) = j
    BY <2>2, FlattenFew
  <2>4. d \in EntriesOf(N, V) /\ d.name = e.name /\ d.values = <<j>>
    BY <2>1, <2>3 DEF EntriesOf
  <2>5. TuplesOf(d) = <<HeaderTuple(e.name, j)>> /\ TuplesOf(e) = <<HeaderTuple(e.name, j)>>
    BY <1>2, <2>3, <2>4 DEF TuplesOf, j
  <2> QED
    BY <2>1, <2>4, <2>5
<1> QED
  BY <1>1, <1>2

\* append() of the first value of a name.
LEMMA AddFirst ==
    ASSUME NEW N, NEW V, NEW g \in Stores(N, V), NEW s \in Seq(PairsOf(N, V)),
           NEW n \in N, NEW v \in Seq(V), FromTuples(s) = g, ~Has(g, n.key)
    PROVE  FromTuples(Append(s, HeaderTuple(n, v))) = Append(g, [name |-> n, values |-> <<v>>])
<1> DEFINE t == HeaderTuple(n, v)
<1>1. t \in PairsOf(N, V) /\ t.name = n /\ t.value = v
  BY DEF HeaderTuple, PairsOf
<1> HIDE DEF t
<1>2. FromTuples(Append(s, t)) = AddTuple("tuples", FromTuples(s), t)
  BY <1>1, AddedAppend DEF FromTuples
<1> QED
  BY <1>1, <1>2 DEF AddTuple, HeaderAppend, Entry, t

\* append() of all the values of a name.
LEMMA AddValues ==
    ASSUME NEW N, NEW V, NEW g \in Stores(N, V), NEW s \in Seq(PairsOf(N, V)),
           NEW n \in N, NEW values \in Seq(Seq(V)),
           FromTuples(s) = g, ~Has(g, n.key), values # <<>>
    PROVE  FromTuples(s \o [j \in DOMAIN values |-> HeaderTuple(n, values[j])])
              = Append(g, [name |-> n, values |-> values])
<1> DEFINE W == Seq(V)
           P == PairsOf(N, V)
           TuplesFor(vs) == [j \in DOMAIN vs |-> HeaderTuple(n, vs[j])]
           Made(vs) == FromTuples(s \o TuplesFor(vs)) = Append(g, [name |-> n, values |-> vs])
           T == {vs \in Seq(W) : vs # <<>> => Made(vs)}
<1>1. <<>> \in T
  BY EmptySeq
<1>2. ASSUME NEW vs \in Seq(W), NEW v \in W, vs # <<>> => Made(vs) PROVE Made(Append(vs, v))
  <2> DEFINE us == Append(vs, v)
             t == HeaderTuple(n, v)
             a == s \o TuplesFor(vs)
  <2>1. \A w \in W : HeaderTuple(n, w) \in P
    BY DEF HeaderTuple, PairsOf
  <2> HIDE DEF P, W
  <2>2. /\ Len(vs) \in Nat /\ DOMAIN vs = 1..Len(vs) /\ DOMAIN us = 1..(Len(vs) + 1)
        /\ us[Len(vs) + 1] = v /\ \A i \in 1..Len(vs) : us[i] = vs[i] /\ vs[i] \in W
    BY AppendProperties, ElementOfSeq
  <2> HIDE DEF us
  <2>3. TuplesFor(vs) \in Seq(P) /\ Len(TuplesFor(vs)) = Len(vs) /\ t \in P
    BY <2>1, <2>2
  <2>4. TuplesFor(us) = Append(TuplesFor(vs), t)
    BY <2>2
  <2>5. s \in Seq(P)
    BY DEF P
  <2> DEFINE l == TuplesFor(vs)
  <2> HIDE DEF l, t
  <2>6. s \o TuplesFor(us) = Append(s \o l, t) /\ s \o l \in Seq(P)
    <3>1. s \o Append(l, t) = Append(s \o l, t) /\ s \o l \in Seq(P)
      BY <2>3, <2>5 DEF l
    <3> QED
      BY <2>4, <3>1 DEF l
  <2>7. CASE vs = <<>>
    <3>1. l = <<>>
      BY <2>7 DEF l
    <3>2. s \o l = s /\ us = <<v>>
      BY <2>5, <2>7, <3>1, ConcatEmptySeq DEF us
    <3>3. FromTuples(Append(s, HeaderTuple(n, v))) = Append(g, [name |-> n, values |-> <<v>>])
      BY AddFirst DEF W
    <3> QED
      BY <2>6, <3>2, <3>3 DEF us, t
  <2>8. CASE vs # <<>>
    <3> DEFINE e == [name |-> n, values |-> vs]
               f == Append(g, e)
               x == [name |-> n, values |-> us]
    <3>1. e \in EntriesOf(N, V) /\ e.name = n /\ e.values = vs
      BY <2>8 DEF EntriesOf, W
    <3>2. FromTuples(s \o l) = f
      BY <1>2, <2>8 DEF l
    <3>3. /\ Len(g) \in Nat /\ DOMAIN g = 1..Len(g) /\ DOMAIN f = 1..(Len(g) + 1)
          /\ f[Len(g) + 1] = e /\ \A i \in 1..Len(g) : f[i] = g[i]
      BY <3>1 DEF Stores
    <3> HIDE DEF e, f
    <3>4. f \in Stores(N, V)
      BY <3>1, AppendEntry DEF f
    <3>5. Has(f, n.key) /\ EntryOf(f, n.key) = e
      <4>1. Len(g) + 1 \in DOMAIN f
        BY <3>3
      <4> QED
        BY <3>1, <3>3, <3>4, <4>1, EntryIs
    <3>6. FromTuples(Append(s \o l, t)) = AddTuple("tuples", f, t)
      <4> DEFINE c == s \o l
      <4>1. c \in Seq(P) /\ FromTuples(c) = f
        BY <2>6, <3>2
      <4> HIDE DEF c
      <4>2. FromTuples(Append(c, t)) = AddTuple("tuples", FromTuples(c), t)
        BY <2>3, <4>1, AddedAppend DEF FromTuples
      <4> QED
        BY <4>1, <4>2 DEF c
    <3>7. t.name = n /\ t.value = v
      BY DEF t, HeaderTuple
    <3>8. AddTuple("tuples", f, t) = Put(f, [e EXCEPT !.values = Append(@, v)])
      BY <3>5, <3>7 DEF AddTuple, HeaderAppend
    <3>9. [e EXCEPT !.values = Append(@, v)] = x
      <4> DEFINE w == Append(vs, v)
      <4>1. e.values = vs /\ x = [name |-> n, values |-> w]
        BY <3>1 DEF us
      <4> HIDE DEF w
      <4>2. [e EXCEPT !.values = w] = [name |-> n, values |-> w]
        BY DEF e
      <4> QED
        BY <4>1, <4>2 DEF w
    <3>10. x \in EntriesOf(N, V)
      <4>1. us \in Seq(W) /\ Len(us) = Len(vs) + 1
        BY AppendProperties DEF us
      <4>2. us # <<>>
        BY <2>2, <4>1
      <4> QED
        BY <4>1, <4>2 DEF EntriesOf, W
    <3>11. Put(f, x) = [i \in DOMAIN f |-> IF f[i].name.key = n.key THEN x ELSE f[i]]
      BY <3>5 DEF Put
    <3> HIDE DEF x
    <3>12. \A i \in 1..Len(g) : f[i].name.key # n.key
      BY <3>3 DEF Has
    <3>13. [i \in DOMAIN f |-> IF f[i].name.key = n.key THEN x ELSE f[i]] = Append(g, x)
      <4> DEFINE y == [i \in DOMAIN f |-> IF f[i].name.key = n.key THEN x ELSE f[i]]
      <4>1. y[Len(g) + 1] = x /\ \A i \in 1..Len(g) : y[i] = g[i]
        <5>1. f[Len(g) + 1].name.key = n.key
          BY <3>1, <3>3
        <5>2. Len(g) + 1 \in DOMAIN f /\ \A i \in 1..Len(g) : i \in DOMAIN f
          BY <3>3
        <5>3. y[Len(g) + 1] = x
          BY <5>1, <5>2
        <5>4. \A i \in 1..Len(g) : y[i] = f[i]
          BY <3>12, <5>2
        <5> QED
          BY <3>3, <5>3, <5>4
      <4>2. DOMAIN y = 1..(Len(g) + 1)
        BY <3>3
      <4>3. y = [i \in 1..(Len(g) + 1) |-> y[i]]
        BY <4>2
      <4> HIDE DEF y
      <4>4. [i \in 1..(Len(g) + 1) |-> IF i = Len(g) + 1 THEN x ELSE g[i]] = Append(g, x)
        <5> DEFINE E == EntriesOf(N, V)
        <5> HIDE DEF E
        <5>1. g \in Seq(E) /\ x \in E
          BY <3>10 DEF E, Stores
        <5> QED
          BY <5>1, AppendIs
      <4>5. \A i \in 1..(Len(g) + 1) : y[i] = IF i = Len(g) + 1 THEN x ELSE g[i]
        <5>1. \A i \in 1..(Len(g) + 1) : i = Len(g) + 1 \/ i \in 1..Len(g)
          BY <3>3
        <5> QED
          BY <4>1, <5>1
      <4>6. y = Append(g, x)
        BY <4>3, <4>4, <4>5
      <4> QED
        BY <4>6 DEF y
    <3>14. FromTuples(s \o TuplesFor(us)) = Append(g, x)
      BY <2>6, <3>6, <3>8, <3>9, <3>11, <3>13
    <3> QED
      BY <3>14 DEF us, x
  <2> QED
    BY <2>7, <2>8
<1>3. \A vs \in Seq(W), v \in W : vs \in T => Append(vs, v) \in T
  <2> HIDE DEF W, Made
  <2> QED
    BY <1>2, AppendProperties
<1>4. Seq(W) \subseteq T
  <2> HIDE DEF W, T
  <2> QED
    BY <1>1, <1>3, ListInduction
<1> QED
  BY <1>4

\* Joining one entry more.
LEMMA JoinedAppend ==
    ASSUME NEW N, NEW V, NEW h \in Seq(EntriesOf(N, V)), NEW e \in EntriesOf(N, V)
    PROVE  /\ Joined(h) \in Seq(EntriesOf(N, V)) /\ DOMAIN Joined(h) = DOMAIN h
           /\ Joined(Append(h, e)) = Append(Joined(h), JoinedEntry(e))
<1> DEFINE E == EntriesOf(N, V)
           g == Append(h, e)
<1>1. \A d \in E : JoinedEntry(d) \in E
  BY JoinedEntryIs
<1> HIDE DEF E
<1>2. h \in Seq(E) /\ e \in E
  BY DEF E
<1>3. /\ Len(h) \in Nat /\ DOMAIN h = 1..Len(h) /\ DOMAIN g = 1..(Len(h) + 1)
      /\ g[Len(h) + 1] = e /\ \A i \in 1..Len(h) : g[i] = h[i] /\ h[i] \in E
  BY <1>2, AppendProperties, ElementOfSeq
<1> HIDE DEF g
<1>4. Joined(h) \in Seq(E) /\ Len(Joined(h)) = Len(h) /\ DOMAIN Joined(h) = DOMAIN h
  BY <1>1, <1>3 DEF Joined
<1>5. Joined(g) = Append(Joined(h), JoinedEntry(e))
  <2>1. Append(Joined(h), JoinedEntry(e)) =
            [i \in 1..(Len(h) + 1) |-> IF i = Len(h) + 1 THEN JoinedEntry(e) ELSE Joined(h)[i]]
    BY <1>1, <1>2, <1>4, AppendIs
  <2>2. \A i \in 1..(Len(h) + 1) :
            JoinedEntry(g[i]) = IF i = Len(h) + 1 THEN JoinedEntry(e) ELSE Joined(h)[i]
    <3>1. \A i \in 1..(Len(h) + 1) : i = Len(h) + 1 \/ i \in 1..Len(h)
      BY <1>3
    <3>2. \A i \in 1..Len(h) : Joined(h)[i] = JoinedEntry(g[i]) /\ i # Len(h) + 1
      BY <1>3 DEF Joined
    <3> QED
      BY <1>3, <3>1, <3>2
  <2> QED
    BY <1>3, <2>1, <2>2 DEF Joined
<1> QED
  BY <1>4, <1>5 DEF E, g

\* The pairs of a Headers object make that object again, with its values joined.
LEMMA TuplesMakeJoined ==
    ASSUME NEW N, NEW V, NEW h \in Stores(N, V)
    PROVE  FromTuples(ToTuples(h)) = Joined(h) /\ ToTuples(Joined(h)) = ToTuples(h)
<1> DEFINE E == EntriesOf(N, V)
           Right(g) == FromTuples(ToTuples(g)) = Joined(g) /\ ToTuples(Joined(g)) = ToTuples(g)
           S == {g \in Stores(N, V) : Right(g)}
<1>1. <<>> \in S
  <2>1. Joined(<<>>) = <<>>
    BY DEF Joined
  <2>2. ToTuples(<<>>) = <<>>
    <3>1. [i \in DOMAIN <<>> |-> TuplesOf(<<>>[i])] = <<>>
      OBVIOUS
    <3>2. ToTuples(<<>>) = FlattenSeq([i \in DOMAIN <<>> |-> TuplesOf(<<>>[i])])
      BY DEF ToTuples, TuplesOf
    <3> QED
      BY <3>1, <3>2, FlattenFew
  <2>3. FromTuples(<<>>) = <<>>
    BY AddedAppend DEF FromTuples
  <2> QED
    BY <2>1, <2>2, <2>3, EmptyStore
<1>2. ASSUME NEW g \in Stores(N, V), NEW e \in E, Right(g), ~Has(g, e.name.key)
      PROVE  Right(Append(g, e))
  <2> DEFINE f == Append(g, e)
             d == JoinedEntry(e)
             j == Joined(g)
             ts == ToTuples(g)
  <2>1. /\ g \in Seq(E) /\ j \in Seq(E) /\ DOMAIN j = DOMAIN g
        /\ Joined(f) = Append(j, d)
    BY JoinedAppend DEF Stores
  <2>2. d \in E /\ d.name = e.name /\ TuplesOf(d) = TuplesOf(e)
    BY JoinedEntryIs
  <2>3. ts \in Seq(PairsOf(N, V)) /\ ToTuples(f) = ts \o TuplesOf(e)
    BY <2>1, ToTuplesAppend
  <2>4. ToTuples(Append(j, d)) = ToTuples(j) \o TuplesOf(d)
    <3> HIDE DEF j, d
    <3> QED
      BY <2>1, <2>2, ToTuplesAppend
  <2>5. ToTuples(Joined(f)) = ToTuples(f)
    BY <1>2, <2>1, <2>2, <2>3, <2>4
  <2>6. \A i \in DOMAIN g : j[i].name = g[i].name
    <3>1. \A i \in DOMAIN g : g[i] \in E
      BY <2>1
    <3> QED
      BY <3>1, JoinedEntryIs DEF Joined
  <2>7. j \in Stores(N, V) /\ ~Has(j, e.name.key)
    <3> HIDE DEF j
    <3> QED
      BY <1>2, <2>1, <2>6 DEF Stores, Has
  <2>8. FromTuples(ts) = j
    BY <1>2
  <2>9. e.name \in N /\ e.values \in Seq(Seq(V)) /\ e.values # <<>> /\ e = [name |-> e.name, values |-> e.values]
    BY DEF EntriesOf
  <2> DEFINE n == e.name
             vs == e.values
  <2> HIDE DEF j, ts, n, vs
  <2>10. n \in N /\ vs \in Seq(Seq(V)) /\ vs # <<>> /\ ~Has(j, n.key) /\ e = [name |-> n, values |-> vs]
    BY <2>7, <2>9 DEF n, vs
  <2>11. FromTuples(ts \o TuplesOf(e)) = Append(j, d)
    <3>1. CASE n.key = SetCookie
      <4>1. TuplesOf(e) = [i \in DOMAIN vs |-> HeaderTuple(n, vs[i])] /\ d = e
        BY <3>1 DEF TuplesOf, JoinedEntry, n, vs
      <4>2. FromTuples(ts \o [i \in DOMAIN vs |-> HeaderTuple(n, vs[i])])
                = Append(j, [name |-> n, values |-> vs])
        <5>1. /\ ts \in Seq(PairsOf(N, V)) /\ j \in Stores(N, V) /\ FromTuples(ts) = j
              /\ n \in N /\ ~Has(j, n.key) /\ vs \in Seq(Seq(V)) /\ vs # <<>>
          BY <2>3, <2>7, <2>8, <2>10
        <5> QED
          BY <5>1, AddValues
      <4> QED
        BY <2>10, <4>1, <4>2
    <3>2. CASE n.key # SetCookie
      <4> DEFINE v == FlattenSeq(vs)
                 t == HeaderTuple(n, v)
      <4>1. TuplesOf(e) = <<t>> /\ d = [name |-> n, values |-> <<v>>]
        BY <3>2 DEF TuplesOf, JoinedEntry, n, vs
      <4>2. v \in Seq(V)
        <5>1. <<>> \in Seq(V)
          BY EmptySeq
        <5> QED
          BY <2>10, <5>1, FlattenAppend
      <4> HIDE DEF v, d
      <4>3. FromTuples(Append(ts, t)) = Append(j, [name |-> n, values |-> <<v>>])
        <5>1. /\ ts \in Seq(PairsOf(N, V)) /\ j \in Stores(N, V) /\ FromTuples(ts) = j
              /\ n \in N /\ ~Has(j, n.key) /\ v \in Seq(V)
          BY <2>3, <2>7, <2>8, <2>10, <4>2
        <5> QED
          BY <5>1, AddFirst
      <4>4. ts \o <<t>> = Append(ts, t)
        <5> HIDE DEF t
        <5>1. t \in PairsOf(N, V)
          BY <2>10, <4>2 DEF t, PairsOf, HeaderTuple
        <5> QED
          BY <2>3, <5>1
      <4> QED
        BY <4>1, <4>3, <4>4
    <3> QED
      BY <3>1, <3>2
  <2>12. FromTuples(ToTuples(f)) = Joined(f)
    BY <2>1, <2>3, <2>11
  <2> QED
    BY <2>5, <2>12
<1>3. \A g \in Stores(N, V), e \in E : g \in S /\ ~Has(g, e.name.key) => Append(g, e) \in S
  <2> HIDE DEF E, Right
  <2> QED
    BY <1>2, AppendEntry DEF E
<1>4. Stores(N, V) \subseteq S
  <2> HIDE DEF S
  <2> QED
    BY <1>1, <1>3, StoreInduction
<1> QED
  BY <1>4

\* What Headers takes: a list of pairs or an object, of which none throws.
IsInit(N, V, init) ==
    init.items \in Seq([name : N, value : Seq(V) \cup {None}]) /\ ~InitThrows(init)

LEMMA NewStore ==
    ASSUME NEW N, NEW V, NEW init, IsInit(N, V, init)
    PROVE  NewHeaders(init) \in Stores(N, V)
<1>1. init.items \in Seq([name : N, value : Seq(V) \cup {None}])
  BY DEF IsInit
<1>2. CASE init.kind = "object"
  BY <1>1, <1>2, ObjectStore DEF NewHeaders
<1>3. CASE init.kind # "object"
  <2> DEFINE ts == init.items
  <2>1. ~\E t \in Range(ts) : t.value = None \/ Throws(t.name)
    BY <1>3 DEF IsInit, InitThrows
  <2> HIDE DEF ts
  <2>2. \A i \in DOMAIN ts : ts[i].value # None
    BY <2>1 DEF Range
  <2>3. \A i \in 1..Len(ts) : ts[i] \in [name : N, value : Seq(V) \cup {None}]
    BY <1>1, ElementOfSeq DEF ts
  <2>4. ts \in [1..Len(ts) -> PairsOf(N, V)] /\ Len(ts) \in Nat
    BY <1>1, <2>2, <2>3 DEF ts, PairsOf
  <2>5. ts \in Seq(PairsOf(N, V))
    BY <2>4
  <2> QED
    BY <1>3, <2>5, TuplesStore DEF NewHeaders, ts
<1> QED
  BY <1>2, <1>3

\* What a merge has for a name: the caller's values if there are any.
LEMMA MergeValues ==
    ASSUME NoneIsNoRecord, NEW N, NEW V, NEW d, NEW init,
           d = None \/ d \in Seq(PairsOf(N, V)), init # None, IsInit(N, V, init)
    PROVE  /\ ListOf(MergeHeaderTuples(d, init)) \in Seq(PairsOf(N, V))
           /\ \A k : Picked(ListOf(MergeHeaderTuples(d, init)), k) =
                        IF Has(NewHeaders(init), k) THEN Listed(k, ValuesOf(NewHeaders(init), k))
                                                    ELSE Picked(ListOf(d), k)
<1> DEFINE h == NewHeaders(init)
           o == ToTuples(h)
           m == MergeHeaderTuples(d, init)
           P == PairsOf(N, V)
<1>1. h \in Stores(N, V)
  BY NewStore
<1>2. HeadersToTuples(init) = o
  BY DEF HeadersToTuples
<1> HIDE DEF h
<1>3. o \in Seq(P) /\ \A k : Picked(o, k) = Listed(k, ValuesOf(h, k))
  BY <1>1, PickedToTuples
<1>4. \A k : Has(h, k) <=> Picked(o, k) # <<>>
  BY <1>1, <1>3, ByValues, ListedSame
<1> HIDE DEF o
<1>5. None \in Seq(P) => None = <<>>
  BY DEF NoneIsNoRecord
<1>6. ListOf(d) \in Seq(P) /\ ListOf(o) = o
  BY <1>3, <1>5, EmptySeq DEF ListOf
<1>7. CASE o = <<>>
  <2>1. m = d \/ (d = None /\ m = o)
    BY <1>2, <1>7 DEF MergeHeaderTuples, MergeIsDefaults
  <2>2. ListOf(m) = ListOf(d)
    BY <1>6, <1>7, <2>1 DEF ListOf
  <2>3. \A k : ~Has(h, k)
    BY <1>4, <1>7, PickedEmpty
  <2> QED
    BY <1>6, <2>2, <2>3 DEF h
<1>8. CASE o # <<>> /\ d = None
  <2>1. m = o /\ ListOf(m) = o
    BY <1>2, <1>6, <1>8 DEF MergeHeaderTuples, MergeIsDefaults
  <2>2. \A k : Picked(ListOf(d), k) = <<>>
    BY <1>8, PickedEmpty DEF ListOf
  <2> QED
    BY <1>3, <1>4, <2>1, <2>2 DEF h
<1>9. CASE o # <<>> /\ d # None
  <2> DEFINE S == {t \in Range(d) : ~HasHeaderName(o, t.name.key)}
             names == {o[i].name.key : i \in DOMAIN o}
             a == Kept(d, S)
  <2>1. d \in Seq(P)
    BY <1>9
  <2>2. m = a \o o
    BY <1>2, <1>9 DEF MergeHeaderTuples, MergeIsDefaults
  <2>3. \A k : HasHeaderName(o, k) <=> k \in names
    <3>1. o # None
      BY <1>3, <1>5, <1>9
    <3> QED
      BY <3>1 DEF HasHeaderName, Range
  <2>4. \A i \in DOMAIN d : d[i] \in S <=> d[i].name.key \notin names
    BY <2>3 DEF Range
  <2>5. \A k : k \in names <=> Picked(o, k) # <<>>
    BY <1>3, PickedNone
  <2> HIDE DEF S, names
  <2>6. a \in Seq(P) /\ \A k : Picked(a, k) = IF k \in names THEN <<>> ELSE Picked(d, k)
    BY <2>1, <2>4, KeptType, PickedKept
  <2> HIDE DEF a, m
  <2>7. m \in Seq(P) /\ \A k : Picked(m, k) = Picked(a, k) \o Picked(o, k)
    BY <1>3, <2>2, <2>6, PickedConcat, ConcatProperties
  <2>8. ASSUME NEW k PROVE Picked(m, k) = IF Has(h, k) THEN Picked(o, k) ELSE Picked(d, k)
    <3> DEFINE p == Picked(a, k)
               q == Picked(o, k)
    <3>1. p \in Seq(Seq(V)) /\ q \in Seq(Seq(V)) /\ Picked(m, k) = p \o q
      BY <1>3, <2>6, <2>7, PickedType
    <3>2. CASE Has(h, k)
      <4>1. p = <<>>
        BY <1>4, <2>5, <2>6, <3>2
      <4> HIDE DEF p, q
      <4>2. p \o q = q
        BY <3>1, <4>1, ConcatEmptySeq
      <4> QED
        BY <3>1, <3>2, <4>2 DEF q
    <3>3. CASE ~Has(h, k)
      <4>1. p = Picked(d, k) /\ q = <<>>
        BY <1>4, <2>5, <2>6, <3>3
      <4>2. p = Picked(d, k)
        BY <4>1
      <4> HIDE DEF p, q
      <4>3. p \o q = p
        BY <3>1, <4>1, ConcatEmptySeq
      <4> QED
        BY <3>1, <3>3, <4>3, <4>2
    <3> QED
      BY <3>2, <3>3
  <2>9. ListOf(m) = m /\ ListOf(d) = d
    BY <1>5, <1>9, <2>7 DEF ListOf
  <2> QED
    BY <1>3, <2>7, <2>8, <2>9 DEF h, m
<1> QED
  BY <1>7, <1>8, <1>9

-----------------------------------------------------------------------------
(* What the operations of headers promise, of any names and values.        *)

\* A Headers object is a map that ignores the spelling of names: an operation
\* changes the name it is given and no other.
THEOREM HeadersAreMaps ==
    \A N, V : \A h \in Stores(N, V), n \in N, v \in Seq(V) : \A k :
        LET Becomes(x, new) == Get(x, k) = IF k = n.key THEN new ELSE Get(h, k)
        IN /\ Becomes(HeaderSet(h, n, v), v)
           /\ Becomes(HeaderAppend(h, n, v), IF Has(h, n.key) THEN Get(h, n.key) \o v ELSE v)
           /\ Becomes(HeaderDelete(h, n.key), None)
<1> SUFFICES ASSUME NEW N, NEW V, NEW h \in Stores(N, V), NEW n \in N, NEW v \in Seq(V), NEW k
             PROVE  /\ Get(HeaderSet(h, n, v), k) = IF k = n.key THEN v ELSE Get(h, k)
                    /\ Get(HeaderAppend(h, n, v), k) =
                           IF k = n.key THEN (IF Has(h, n.key) THEN Get(h, n.key) \o v ELSE v)
                                        ELSE Get(h, k)
                    /\ Get(HeaderDelete(h, n.key), k) = IF k = n.key THEN None ELSE Get(h, k)
  OBVIOUS
<1> DEFINE G(values) == IF values = <<>> THEN None ELSE FlattenSeq(values)
           a == HeaderSet(h, n, v)
           b == HeaderAppend(h, n, v)
           d == HeaderDelete(h, n.key)
<1>1. \A g \in Stores(N, V) : \A l :
         Get(g, l) = G(ValuesOf(g, l)) /\ (Has(g, l) <=> ValuesOf(g, l) # <<>>)
         /\ ValuesOf(g, l) \in Seq(Seq(V))
  BY ByValues
<1>2. a \in Stores(N, V) /\ ValuesOf(a, k) = IF k = n.key THEN <<v>> ELSE ValuesOf(h, k)
  BY SetValues
<1>3. b \in Stores(N, V) /\ ValuesOf(b, k) = IF k = n.key THEN Append(ValuesOf(h, k), v) ELSE ValuesOf(h, k)
  BY AppendValues
<1>4. d \in Stores(N, V) /\ ValuesOf(d, k) = IF k = n.key THEN <<>> ELSE ValuesOf(h, k)
  BY DeleteValues
<1> HIDE DEF a, b, d
<1>5. FlattenSeq(<<v>>) = v /\ <<v>> # <<>>
  BY FlattenFew
<1>6. Get(a, k) = IF k = n.key THEN v ELSE Get(h, k)
  BY <1>1, <1>2, <1>5
<1>7. Get(d, k) = IF k = n.key THEN None ELSE Get(h, k)
  BY <1>1, <1>4
<1>8. Get(b, k) = IF k = n.key THEN (IF Has(h, n.key) THEN Get(h, n.key) \o v ELSE v) ELSE Get(h, k)
  <2> DEFINE p == ValuesOf(h, k)
             W == Seq(V)
  <2>1. p \in Seq(W) /\ v \in W
    BY <1>1
  <2> HIDE DEF p
  <2>2. FlattenSeq(Append(p, v)) = FlattenSeq(p) \o v
    BY <2>1, FlattenAppend
  <2> HIDE DEF W
  <2>3. Append(p, v) # <<>> /\ (p = <<>> => Append(p, v) = <<v>>)
    <3>1. Len(Append(p, v)) = Len(p) + 1 /\ Len(p) \in Nat
      BY <2>1, AppendProperties
    <3>2. Append(p, v) # <<>>
      BY <3>1
    <3>3. p = <<>> => Append(p, v) = <<v>>
      OBVIOUS
    <3> QED
      BY <3>2, <3>3
  <2>4. CASE k # n.key
    BY <1>1, <1>3, <2>4 DEF p
  <2>5. CASE k = n.key
    <3>1. Get(b, k) = FlattenSeq(Append(p, v))
      BY <1>1, <1>3, <2>3, <2>5 DEF p
    <3>2. CASE Has(h, k)
      <4>1. Get(h, k) = FlattenSeq(p)
        BY <1>1, <3>2 DEF p
      <4> QED
        BY <2>2, <2>5, <3>1, <3>2, <4>1
    <3>3. CASE ~Has(h, k)
      <4>1. p = <<>>
        BY <1>1, <3>3 DEF p
      <4> QED
        BY <1>5, <2>3, <2>5, <3>1, <3>3, <4>1
    <3> QED
      BY <3>2, <3>3
  <2> QED
    BY <2>4, <2>5
<1> QED
  BY <1>6, <1>7, <1>8 DEF a, b, d

\* Going through Headers once more changes nothing, and no Set-Cookie is lost
\* or joined.
THEOREM HeadersSurviveRoundTrips ==
    \A N, V, init : IsInit(N, V, init) =>
        LET ts == HeadersToTuples(init)
        IN /\ HeadersToTuples(InitOf("tuples", ts)) = ts
           /\ GetSetCookie(FromTuples(ts)) = GetSetCookie(NewHeaders(init))
<1> SUFFICES ASSUME NEW N, NEW V, NEW init, IsInit(N, V, init)
             PROVE  LET ts == HeadersToTuples(init)
                    IN /\ HeadersToTuples(InitOf("tuples", ts)) = ts
                       /\ GetSetCookie(FromTuples(ts)) = GetSetCookie(NewHeaders(init))
  OBVIOUS
<1> DEFINE h == NewHeaders(init)
<1>1. h \in Stores(N, V) /\ HeadersToTuples(init) = ToTuples(h)
  BY NewStore DEF HeadersToTuples
<1>2. \A ts : HeadersToTuples(InitOf("tuples", ts)) = ToTuples(FromTuples(ts))
  BY DEF HeadersToTuples, NewHeaders, InitOf, FromTuples
<1> HIDE DEF h
<1>3. ToTuples(FromTuples(ToTuples(h))) = ToTuples(h)
  BY <1>1, TuplesMakeJoined
<1>4. GetSetCookie(FromTuples(ToTuples(h))) = GetSetCookie(h)
  BY <1>1, ThroughTuples
<1> QED
  BY <1>1, <1>2, <1>3, <1>4 DEF h

\* Of every name, merged headers have what the caller gave if the caller gave
\* anything, and the defaults else.
THEOREM MergesPreferTheCaller ==
    NoneIsNoRecord =>
        \A N, V, init : init # None /\ IsInit(N, V, init) =>
            \A d, k : d = None \/ d \in Seq(PairsOf(N, V)) =>
                Get(FromTuples(ListOf(MergeHeaderTuples(d, init))), k) =
                    IF Has(NewHeaders(init), k) THEN Get(NewHeaders(init), k)
                                                ELSE Get(FromTuples(ListOf(d)), k)
<1> SUFFICES ASSUME NoneIsNoRecord, NEW N, NEW V, NEW init, init # None /\ IsInit(N, V, init),
                    NEW d, NEW k, d = None \/ d \in Seq(PairsOf(N, V))
             PROVE  Get(FromTuples(ListOf(MergeHeaderTuples(d, init))), k) =
                        IF Has(NewHeaders(init), k) THEN Get(NewHeaders(init), k)
                                                    ELSE Get(FromTuples(ListOf(d)), k)
  OBVIOUS
<1> DEFINE P == PairsOf(N, V)
           made == NewHeaders(init)
           m == ListOf(MergeHeaderTuples(d, init))
           u == ListOf(d)
           G(values) == IF values = <<>> THEN None ELSE FlattenSeq(values)
<1>1. made \in Stores(N, V)
  BY NewStore
<1>2. m \in Seq(P) /\ Picked(m, k) = IF Has(made, k) THEN Listed(k, ValuesOf(made, k)) ELSE Picked(u, k)
  BY MergeValues
<1>3. u \in Seq(P)
  BY EmptySeq DEF ListOf
<1> HIDE DEF m, u, made
<1>4. \A s \in Seq(P) : Get(FromTuples(s), k) = G(Picked(s, k))
  <2>1. ASSUME NEW s \in Seq(P) PROVE Get(FromTuples(s), k) = G(Picked(s, k))
    <3>1. FromTuples(s) \in Stores(N, V) /\ ValuesOf(FromTuples(s), k) = Picked(s, k)
      BY FromTuplesStore
    <3> QED
      BY <3>1, ByValues
  <2> QED
    BY <2>1
<1>5. /\ Get(made, k) = G(ValuesOf(made, k)) /\ ValuesOf(made, k) \in Seq(Seq(V))
      /\ Has(made, k) <=> ValuesOf(made, k) # <<>>
  BY <1>1, ByValues
<1>6. G(Listed(k, ValuesOf(made, k))) = G(ValuesOf(made, k))
  BY <1>5, ListedSame
<1> HIDE DEF G
<1> QED
  BY <1>2, <1>3, <1>4, <1>5, <1>6 DEF m, u, made

\* The pairs for a name.
Named(P, k) == {t \in P : t.name.key = k}

ValuesIn(ts, k) == {ts[i].value : i \in {j \in DOMAIN ts : ts[j].name.key = k}}

\* How many values a list has for a name, and which.
LEMMA PickedNumber ==
    ASSUME NEW N, NEW V, NEW ts, NEW k, ts \in Seq(PairsOf(N, V))
    PROVE  /\ Len(Picked(ts, k)) = NumberOf(ts, Named(PairsOf(N, V), k))
           /\ Range(Picked(ts, k)) = ValuesIn(ts, k)
<1> DEFINE P == PairsOf(N, V)
           K == Named(P, k)
           In(s, v) == \E i \in DOMAIN s : s[i] = v
           Gives(u, v) == \E i \in DOMAIN u : u[i].name.key = k /\ u[i].value = v
           S == {u \in Seq(P) : /\ Len(Picked(u, k)) = NumberOf(u, K)
                                /\ \A v : In(Picked(u, k), v) <=> Gives(u, v)}
<1>1. <<>> \in S
  <2>1. NumberOf(<<>>, K) = 0 /\ Picked(<<>>, k) = <<>> /\ <<>> \in Seq(P) /\ Len(<<>>) = 0
    BY NumberOfFew, PickedEmpty, EmptySeq
  <2> QED
    BY <2>1
<1>2. ASSUME NEW u \in Seq(P), NEW x \in P, u \in S PROVE Append(u, x) \in S
  <2> DEFINE us == Append(u, x)
             p == Picked(u, k)
             q == Picked(us, k)
             v1 == x.value
  <2>1. /\ us \in Seq(P) /\ DOMAIN us = 1..(Len(u) + 1) /\ us[Len(u) + 1] = x
        /\ \A i \in 1..Len(u) : us[i] = u[i]
        /\ DOMAIN u = 1..Len(u) /\ Len(u) \in Nat
    BY AppendProperties
  <2>2. p \in Seq(Seq(V)) /\ q = p \o ValueOf(x, k)
    BY PickedType, PickedAppend
  <2>3. NumberOf(us, K) = NumberOf(u, K) + (IF x \in K THEN 1 ELSE 0) /\ NumberOf(u, K) \in Nat
    BY NumberOfAppend, PlacesFinite
  <2>4. \A v : Gives(us, v) <=> Gives(u, v) \/ (x.name.key = k /\ v1 = v)
    <3> HIDE DEF us
    <3>1. \A i : i \in 1..(Len(u) + 1) <=> i \in 1..Len(u) \/ i = Len(u) + 1
      BY <2>1
    <3> QED
      BY <2>1, <3>1
  <2>5. /\ Len(p) = NumberOf(u, K)
        /\ \A v : In(p, v) <=> Gives(u, v)
    BY <1>2
  <2>6. v1 \in Seq(V)
    BY DEF PairsOf
  <2> DEFINE W == Seq(V)
  <2> HIDE DEF us, p, q, v1, W
  <2>7. CASE x.name.key # k
    <3>1. q = p /\ x \notin K
      BY <2>2, <2>7, ConcatEmptySeq DEF ValueOf, W, Named
    <3>2. Len(q) = NumberOf(us, K)
      BY <2>3, <2>5, <3>1
    <3>3. \A v : In(q, v) <=> Gives(us, v)
      <4> HIDE DEF In, Gives
      <4> QED
        BY <2>4, <2>5, <2>7, <3>1
    <3> QED
      BY <2>1, <3>2, <3>3 DEF us, q
  <2>8. CASE x.name.key = k
    <3>1. x \in K /\ ValueOf(x, k) = <<v1>>
      BY <2>8 DEF ValueOf, v1, Named
    <3>2. p \in Seq(W) /\ v1 \in W
      BY <2>2, <2>6 DEF W
    <3>3. q = Append(p, v1)
      BY <2>2, <3>1, <3>2
    <3>4. /\ Len(q) = Len(p) + 1 /\ DOMAIN q = 1..(Len(p) + 1) /\ q[Len(p) + 1] = v1
          /\ \A i \in 1..Len(p) : q[i] = p[i]
          /\ DOMAIN p = 1..Len(p) /\ Len(p) \in Nat
      BY <3>2, <3>3, AppendProperties
    <3>5. \A v : In(q, v) <=> In(p, v) \/ v1 = v
      <4>1. \A i : i \in 1..(Len(p) + 1) <=> i \in 1..Len(p) \/ i = Len(p) + 1
        BY <3>4
      <4> QED
        BY <3>4, <4>1
    <3>6. Len(q) = NumberOf(us, K)
      BY <2>3, <2>5, <3>1, <3>4
    <3>7. \A v : In(q, v) <=> Gives(us, v)
      BY <2>4, <2>5, <2>8, <3>5
    <3> QED
      BY <2>1, <3>6, <3>7 DEF us, q
  <2> QED
    BY <2>7, <2>8
<1>3. Seq(P) \subseteq S
  <2> HIDE DEF S, P
  <2> QED
    BY <1>1, <1>2, ListInduction
<1>4. Len(Picked(ts, k)) = NumberOf(ts, K) /\ \A v : In(Picked(ts, k), v) <=> Gives(ts, v)
  BY <1>3
<1>5. \A v : v \in Range(Picked(ts, k)) <=> In(Picked(ts, k), v)
  BY DEF Range
<1>6. \A v : v \in ValuesIn(ts, k) <=> Gives(ts, v)
  BY DEF ValuesIn
<1>7. Range(Picked(ts, k)) = ValuesIn(ts, k)
  <2> HIDE DEF In, Gives
  <2> QED
    BY <1>4, <1>5, <1>6
<1> QED
  BY <1>4, <1>7

\* What headerTuplesEqual tells pairs apart by.
Label(P) == [t \in P |-> [key |-> t.name.key, value |-> t.value]]

\* Lists that are called equal have as many values for every name, and the same
\* ones.
LEMMA EqualPicked ==
    ASSUME NEW N, NEW V, NEW a \in Seq(PairsOf(N, V)), NEW b \in Seq(PairsOf(N, V)), NEW k,
           NoneIsNoRecord, HeaderTuplesEqual(a, b)
    PROVE  /\ Len(Picked(a, k)) = Len(Picked(b, k))
           /\ \A i \in DOMAIN Picked(a, k) : \E j \in DOMAIN Picked(b, k) :
                  Picked(b, k)[j] = Picked(a, k)[i]
<1> DEFINE P == PairsOf(N, V)
           L == Label(P)
           K == Named(P, k)
           Times(ts, l, v) == Cardinality({i \in DOMAIN ts : ts[i].name.key = l /\ ts[i].value = v})
<1>1. (IF a = None THEN <<>> ELSE a) = a /\ (IF b = None THEN <<>> ELSE b) = b
  <2>1. \A s \in Seq(P) : s = None => s = <<>>
    BY DEF NoneIsNoRecord
  <2> QED
    BY <2>1
<1>2. /\ Len(a) = Len(b)
      /\ \A t \in Range(a) : Times(a, t.name.key, t.value) = Times(b, t.name.key, t.value)
  <2>1. LET All(ts) == IF ts = None THEN <<>> ELSE ts
        IN /\ Len(All(a)) = Len(All(b))
           /\ \A t \in Range(All(a)) :
                 Times(All(a), t.name.key, t.value) = Times(All(b), t.name.key, t.value)
    BY DEF HeaderTuplesEqual
  <2> HIDE DEF Times
  <2> QED
    BY <1>1, <2>1
<1>3. ASSUME NEW s \in Seq(P), NEW t \in P
      PROVE  NumberOf(s, Alike(P, L, t)) = Times(s, t.name.key, t.value)
  <2>1. \A i \in DOMAIN s : s[i] \in P
    OBVIOUS
  <2>2. \A y \in P : L[y] = L[t] <=> y.name.key = t.name.key /\ y.value = t.value
    BY DEF Label
  <2> HIDE DEF P, L
  <2>3. PlacesOf(s, Alike(P, L, t)) =
            {i \in DOMAIN s : s[i].name.key = t.name.key /\ s[i].value = t.value}
    BY <2>1, <2>2 DEF PlacesOf, Alike
  <2> QED
    BY <2>3 DEF NumberOf
<1>4. \A i \in DOMAIN a : a[i] \in P /\ a[i] \in Range(a)
  BY DEF Range
<1>5. \A i \in DOMAIN a : NumberOf(a, Alike(P, L, a[i])) = NumberOf(b, Alike(P, L, a[i]))
  <2> HIDE DEF P, L, Times
  <2>1. a \in Seq(P) /\ b \in Seq(P)
    BY DEF P
  <2> QED
    BY <1>2, <1>3, <1>4, <2>1
<1>6. \A x, y \in P : L[x] = L[y] => (x \in K <=> y \in K)
  BY DEF Label, Named
<1>7. NumberOf(a, K) = NumberOf(b, K)
  <2> HIDE DEF L, K
  <2> QED
    BY <1>2, <1>5, <1>6, SameCounts
<1>8. Len(Picked(a, k)) = Len(Picked(b, k))
  BY <1>7, PickedNumber
<1>9. ASSUME NEW i \in DOMAIN a, a[i].name.key = k
      PROVE  \E j \in DOMAIN b : b[j].name.key = k /\ b[j].value = a[i].value
  <2> DEFINE M == Alike(P, L, a[i])
  <2>1. a[i] \in M /\ \A y \in M : y.name.key = k /\ y.value = a[i].value
    BY <1>4, <1>9 DEF Alike, Label
  <2>2. NumberOf(a, M) = NumberOf(b, M)
    BY <1>5
  <2> HIDE DEF M
  <2>3. NumberOf(a, M) # 0
    BY <2>1, NumberOfNone
  <2>4. \E j \in DOMAIN b : b[j] \in M
    BY <2>2, <2>3, NumberOfNone
  <2> QED
    BY <2>1, <2>4
<1>10. ASSUME NEW i \in DOMAIN Picked(a, k)
       PROVE  \E j \in DOMAIN Picked(b, k) : Picked(b, k)[j] = Picked(a, k)[i]
  <2>1. Range(Picked(a, k)) = ValuesIn(a, k) /\ Range(Picked(b, k)) = ValuesIn(b, k)
    BY PickedNumber
  <2>2. Picked(a, k)[i] \in ValuesIn(a, k)
    BY <2>1 DEF Range
  <2>3. Picked(a, k)[i] \in ValuesIn(b, k)
    BY <1>9, <2>2 DEF ValuesIn
  <2> QED
    BY <2>1, <2>3 DEF Range
<1> QED
  BY <1>8, <1>10

\* A call may repeat the proxy headers of its session, in any order and
\* spelling: if headerTuplesEqual lets it pass, both lists mean the same headers,
\* and as many cookies.
THEOREM EqualListsMeanTheSame ==
    NoneIsNoRecord =>
        \A N, V : \A g, h \in Stores(N, V) :
            HeaderTuplesEqual(ToTuples(g), ToTuples(h)) =>
                /\ \A k : k # SetCookie => Get(FromTuples(ToTuples(g)), k) = Get(FromTuples(ToTuples(h)), k)
                /\ Len(GetSetCookie(FromTuples(ToTuples(g)))) = Len(GetSetCookie(FromTuples(ToTuples(h))))
<1> SUFFICES ASSUME NoneIsNoRecord, NEW N, NEW V, NEW g \in Stores(N, V), NEW h \in Stores(N, V),
                    HeaderTuplesEqual(ToTuples(g), ToTuples(h))
             PROVE  /\ \A k : k # SetCookie => Get(FromTuples(ToTuples(g)), k) = Get(FromTuples(ToTuples(h)), k)
                    /\ Len(GetSetCookie(FromTuples(ToTuples(g)))) = Len(GetSetCookie(FromTuples(ToTuples(h))))
  OBVIOUS
<1> DEFINE a == ToTuples(g)
           b == ToTuples(h)
<1>1. /\ a \in Seq(PairsOf(N, V)) /\ b \in Seq(PairsOf(N, V))
      /\ \A k : Picked(a, k) = Listed(k, ValuesOf(g, k)) /\ Picked(b, k) = Listed(k, ValuesOf(h, k))
  BY PickedToTuples
<1>2. /\ \A k : Get(FromTuples(a), k) = Get(g, k) /\ Get(FromTuples(b), k) = Get(h, k)
      /\ GetSetCookie(FromTuples(a)) = GetSetCookie(g)
      /\ GetSetCookie(FromTuples(b)) = GetSetCookie(h)
  BY ThroughTuples
<1>3. HeaderTuplesEqual(a, b)
  OBVIOUS
<1> HIDE DEF a, b
<1>4. \A k : /\ Len(Picked(a, k)) = Len(Picked(b, k))
             /\ \A i \in DOMAIN Picked(a, k) : \E j \in DOMAIN Picked(b, k) :
                    Picked(b, k)[j] = Picked(a, k)[i]
  BY <1>1, <1>3, EqualPicked
<1>5. ASSUME NEW k, k # SetCookie PROVE Get(g, k) = Get(h, k)
  <2> DEFINE v == ValuesOf(g, k)
             w == ValuesOf(h, k)
             p == Picked(a, k)
             q == Picked(b, k)
  <2>1. /\ v \in Seq(Seq(V)) /\ w \in Seq(Seq(V))
        /\ Get(g, k) = IF v = <<>> THEN None ELSE FlattenSeq(v)
        /\ Get(h, k) = IF w = <<>> THEN None ELSE FlattenSeq(w)
    BY ByValues
  <2>2. /\ p = IF v = <<>> THEN <<>> ELSE <<FlattenSeq(v)>>
        /\ q = IF w = <<>> THEN <<>> ELSE <<FlattenSeq(w)>>
    BY <1>1, <1>5 DEF Listed
  <2>3. Len(p) = Len(q) /\ \A i \in DOMAIN p : \E j \in DOMAIN q : q[j] = p[i]
    BY <1>4
  <2> HIDE DEF p, q, v, w
  <2>4. \A x : Len(<<x>>) = 1 /\ DOMAIN <<x>> = {1} /\ <<x>>[1] = x
    OBVIOUS
  <2>5. CASE v = <<>>
    <3>1. Len(q) = 0
      BY <2>2, <2>3, <2>5
    <3>2. w = <<>>
      BY <2>2, <2>4, <3>1
    <3> QED
      BY <2>1, <2>5, <3>2
  <2>6. CASE v # <<>>
    <3>1. p = <<FlattenSeq(v)>> /\ Len(p) = 1
      BY <2>2, <2>4, <2>6
    <3>2. w # <<>>
      <4>1. w = <<>> => Len(q) = 0
        BY <2>2
      <4> QED
        BY <2>3, <3>1, <4>1
    <3>3. q = <<FlattenSeq(w)>>
      BY <2>2, <3>2
    <3>4. 1 \in DOMAIN p /\ p[1] = FlattenSeq(v)
      BY <3>1
    <3>5. \A j \in DOMAIN q : q[j] = FlattenSeq(w)
      BY <3>3
    <3>6. FlattenSeq(w) = FlattenSeq(v)
      BY <2>3, <3>4, <3>5
    <3> QED
      BY <2>1, <2>6, <3>2, <3>6
  <2> QED
    BY <2>5, <2>6
<1>6. Len(GetSetCookie(g)) = Len(GetSetCookie(h))
  <2>1. GetSetCookie(g) = ValuesOf(g, SetCookie) /\ GetSetCookie(h) = ValuesOf(h, SetCookie)
    BY DEF GetSetCookie, ValuesOf
  <2>2. \A values : Listed(SetCookie, values) = values
    BY DEF Listed
  <2> QED
    BY <1>1, <1>4, <2>1, <2>2
<1> QED
  BY <1>2, <1>5, <1>6 DEF a, b

-----------------------------------------------------------------------------
(* The headers of a call.                                                  *)

\* All names and values that headers may have: what programs pass, and the
\* content type of a body.
AllNames == GivenNames \cup {TypeTuple(c).name : c \in Calls}
AllValues == Values \cup Calls
AllPairs == PairsOf(AllNames, AllValues)

\* What a headers argument is, and what Send has made of one.
IsGiven(headers) == headers = None \/ headers = Mine \/ headers.items \in Seq(GivenTuples)
IsSent(given) == given = None \/ IsInit(AllNames, AllValues, given)

HeadersInv ==
    /\ own \in Stores(AllNames, AllValues)
    /\ \A c \in Calls : /\ pc[c] # "idle" => "headers" \in DOMAIN config[c] /\ IsGiven(config[c].headers)
                        /\ pc[c] = "sent" => IsSent(sent[c].given)

\* What programs pass are pairs of all names and values.
LEMMA GivenPairs ==
    /\ [name : Names, value : Seq(Values)] \subseteq AllPairs
    /\ Seq(GivenTuples) \subseteq Seq([name : AllNames, value : Seq(AllValues) \cup {None}])
    /\ Seq(AllPairs) \subseteq Seq([name : AllNames, value : Seq(AllValues) \cup {None}])
    /\ \A c \in Calls : TypeTuple(c) \in AllPairs /\ TypeTuple(c).name.key = ContentType
<1> DEFINE Q == [name : AllNames, value : Seq(AllValues) \cup {None}]
<1>1. Names \subseteq AllNames /\ GivenNames \subseteq AllNames
  BY DEF GivenNames, AllNames
<1>2. Seq(Values) \subseteq Seq(AllValues)
  BY DEF AllValues
<1>3. [name : Names, value : Seq(Values)] \subseteq AllPairs
  BY <1>1, <1>2 DEF AllPairs, PairsOf
<1>4. GivenTuples \subseteq Q /\ AllPairs \subseteq Q
  BY <1>1, <1>2 DEF GivenTuples, AllPairs, PairsOf
<1> HIDE DEF Q
<1>5. Seq(GivenTuples) \subseteq Seq(Q) /\ Seq(AllPairs) \subseteq Seq(Q)
  BY <1>4
<1>6. ASSUME NEW c \in Calls PROVE TypeTuple(c) \in AllPairs /\ TypeTuple(c).name.key = ContentType
  <2> DEFINE f == CHOOSE g \in Forms : TRUE
  <2> HIDE DEF f
  <2>1. TypeTuple(c) = [name |-> Name(ContentType, f), value |-> <<c>>]
    BY DEF TypeTuple, HeaderTuple, f
  <2>2. Name(ContentType, f) \in AllNames
    BY <2>1 DEF AllNames
  <2>3. <<c>> \in Seq(AllValues)
    BY DEF AllValues
  <2> QED
    BY <2>1, <2>2, <2>3 DEF AllPairs, PairsOf, Name
<1> QED
  BY <1>3, <1>5, <1>6 DEF Q

\* The headers of an argument are those of the init object.
LEMMA EnteredHeaders ==
    ASSUME NEW m \in Menu
    PROVE  "headers" \in DOMAIN Entered(m) /\ IsGiven(Entered(m).headers)
<1> DEFINE a == FromHelper(m)
           b == FromLegacy(a)
           d == FromSession(b)
           e == FromRequest(d)
<1>1. IsArguments(m)
  BY CallAssumption
<1>2. DOMAIN a = DOMAIN m /\ a.headers = m.headers
  BY <1>1 DEF FromHelper, IsArguments
<1> HIDE DEF a
<1>3. DOMAIN b = DOMAIN m /\ b.headers = m.headers
  BY <1>1, <1>2 DEF FromLegacy, IsArguments
<1> HIDE DEF b
<1>4. DOMAIN d = DOMAIN m /\ d.headers = m.headers
  BY <1>1, <1>3 DEF FromSession, IsArguments
<1> HIDE DEF d
<1>5. DOMAIN e = DOMAIN m /\ e.headers = m.headers
  BY <1>1, <1>4 DEF FromRequest, IsArguments
<1>6. Entered(m) = [f \in DOMAIN e \cup {"live", "takes"} |->
                       CASE f = "live" -> m.via = "fetch" /\ ~m.request
                         [] f = "takes" -> TakesBody(m)
                         [] OTHER -> e[f]]
  BY DEF Entered, a, b, d
<1> HIDE DEF e
<1>7. "headers" \in DOMAIN m /\ IsGiven(m.headers)
  BY <1>1 DEF IsArguments, IsGiven
<1>8. DOMAIN Entered(m) = DOMAIN e \cup {"live", "takes"}
  BY <1>6
<1>9. Entered(m).headers = m.headers
  BY <1>5, <1>6, <1>7
<1> QED
  BY <1>5, <1>7, <1>8, <1>9

\* What Send takes as headers.
LEMMA HeadersOfCall ==
    ASSUME NEW g, IsGiven(g.headers), own \in Stores(AllNames, AllValues),
           HeadersOf(g) # None, ~InitThrows(HeadersOf(g))
    PROVE  IsSent(HeadersOf(g))
<1>1. CASE g.headers = Mine
  <2>1. HeadersOf(g).items = ToTuples(own)
    BY <1>1 DEF HeadersOf, InitOf
  <2>2. ToTuples(own) \in Seq(AllPairs)
    BY PickedToTuples DEF AllPairs
  <2> QED
    BY <2>1, <2>2, GivenPairs DEF IsSent, IsInit
<1>2. CASE g.headers # Mine
  <2>1. HeadersOf(g) = g.headers
    BY <1>2 DEF HeadersOf
  <2>2. g.headers.items \in Seq(GivenTuples)
    BY <1>2, <2>1 DEF IsGiven
  <2> QED
    BY <2>1, <2>2, GivenPairs DEF IsSent, IsInit
<1> QED
  BY <1>1, <1>2

LEMMA StepHeaders == FInv /\ HeadersInv /\ [Next]_vars => HeadersInv'
<1> SUFFICES ASSUME FInv, HeadersInv, [Next]_vars PROVE HeadersInv'
  OBVIOUS
<1> USE DEF callVars, sharedVars, cacheVars
<1> DEFINE Good(c) == /\ pc[c] # "idle" => "headers" \in DOMAIN config[c] /\ IsGiven(config[c].headers)
                      /\ pc[c] = "sent" => IsSent(sent[c].given)
<1>1. ASSUME UNCHANGED <<own, config, sent>>, NEW c \in Calls, \A d \in Calls \ {c} : pc'[d] = pc[d],
             pc[c] # "idle", pc'[c] # "sent"
      PROVE  HeadersInv'
  BY <1>1 DEF HeadersInv
<1>2. ASSUME NEW c \in Calls, Resolve(c) \/ BodyFails(c) PROVE HeadersInv'
  <2>1. UNCHANGED <<own, config, sent>> /\ pc[c] # "idle"
    BY <1>2 DEF Resolve, BodyFails
  <2>2. \E p \in {"rejected", "serializing"} : pc' = [pc EXCEPT ![c] = p]
    BY <1>2 DEF Resolve, BodyFails, Reject
  <2>3. pc'[c] # "sent" /\ \A d \in Calls \ {c} : pc'[d] = pc[d]
    BY <2>2 DEF FInv, Domains
  <2> QED
    BY <1>1, <2>1, <2>3
<1>3. ASSUME NEW c \in Calls, NEW m \in Menu, Call(c, m) PROVE HeadersInv'
  <2>1. /\ UNCHANGED <<own, sent>> /\ config' = [config EXCEPT ![c] = Entered(m)]
        /\ \E p \in {"rejected", "resolving"} : pc' = [pc EXCEPT ![c] = p]
    BY <1>3 DEF Call, Reject
  <2>2. /\ config'[c] = Entered(m) /\ pc'[c] # "sent"
        /\ \A d \in Calls \ {c} : pc'[d] = pc[d] /\ config'[d] = config[d]
    BY <2>1 DEF FInv, Domains
  <2> QED
    BY <2>1, <2>2, EnteredHeaders DEF HeadersInv
<1>4. ASSUME NEW c \in Calls, EditInit(c) PROVE HeadersInv'
  <2>1. UNCHANGED <<own, sent, pc>> /\ pc[c] # "idle"
    BY <1>4 DEF EditInit
  <2>2. PICK f \in {"timeout", "method", "session"} :
            \E v : config' = [config EXCEPT ![c] = [config[c] EXCEPT ![f] = v]]
    BY <1>4 DEF EditInit
  <2>3. PICK v : config' = [config EXCEPT ![c] = [config[c] EXCEPT ![f] = v]]
    BY <2>2
  <2>4. \A d \in Calls \ {c} : config'[d] = config[d]
    BY <2>3 DEF FInv, Domains
  <2>5. config'[c] = [config[c] EXCEPT ![f] = v]
    BY <2>3 DEF FInv, Domains
  <2>6. "headers" \in DOMAIN config[c] => "headers" \in DOMAIN config'[c]
                                          /\ config'[c].headers = config[c].headers
    BY <2>2, <2>5
  <2> QED
    BY <2>1, <2>4, <2>6 DEF HeadersInv
<1>5. ASSUME NEW c \in Calls, Send(c) PROVE HeadersInv'
  <2> DEFINE given == HeadersOf(config[c])
  <2>1. UNCHANGED <<own, config>> /\ pc[c] = "serializing"
    BY <1>5 DEF Send
  <2>2. \/ UNCHANGED sent /\ pc' = [pc EXCEPT ![c] = "rejected"]
        \/ /\ pc' = [pc EXCEPT ![c] = "sent"]
           /\ given # None => ~InitThrows(given)
           /\ \E s : s.given = given /\ sent' = [sent EXCEPT ![c] = s]
    BY <1>5 DEF Send, Reject
  <2>3. IsGiven(config[c].headers)
    BY <2>1 DEF HeadersInv
  <2> HIDE DEF given
  <2>4. CASE UNCHANGED sent /\ pc' = [pc EXCEPT ![c] = "rejected"]
    BY <2>1, <2>4 DEF HeadersInv, FInv, Domains
  <2>5. ASSUME pc' = [pc EXCEPT ![c] = "sent"], given # None => ~InitThrows(given),
               NEW s, s.given = given, sent' = [sent EXCEPT ![c] = s]
        PROVE  HeadersInv'
    <3>1. IsSent(given)
      <4>1. CASE given = None
        BY <4>1 DEF IsSent
      <4>2. CASE given # None
        BY <2>3, <2>5, <4>2, HeadersOfCall DEF given, HeadersInv
      <4> QED
        BY <4>1, <4>2
    <3>2. /\ sent'[c].given = given /\ pc'[c] = "sent"
          /\ \A d \in Calls \ {c} : pc'[d] = pc[d] /\ sent'[d] = sent[d]
      BY <2>5 DEF FInv, Domains
    <3> QED
      BY <2>1, <3>1, <3>2 DEF HeadersInv
  <2> QED
    BY <2>2, <2>4, <2>5
<1>6. ASSUME EditOwn PROVE HeadersInv'
  <2>1. PICK t \in Edited :
            own' \in {HeaderSet(own, t.name, t.value), HeaderAppend(own, t.name, t.value),
                      HeaderDelete(own, t.name.key)}
    BY <1>6 DEF EditOwn
  <2>2. t.name \in AllNames /\ t.value \in Seq(AllValues)
    BY CallAssumption, GivenPairs DEF AllPairs, PairsOf
  <2> DEFINE n == t.name
             v == t.value
  <2> HIDE DEF n, v
  <2>3. n \in AllNames /\ v \in Seq(AllValues)
    BY <2>2 DEF n, v
  <2>4. /\ HeaderSet(own, n, v) \in Stores(AllNames, AllValues)
        /\ HeaderAppend(own, n, v) \in Stores(AllNames, AllValues)
        /\ HeaderDelete(own, n.key) \in Stores(AllNames, AllValues)
    BY <2>3, SetValues, AppendValues, DeleteValues DEF HeadersInv
  <2>5. own' \in Stores(AllNames, AllValues)
    BY <2>1, <2>4 DEF n, v
  <2> QED
    BY <1>6, <2>5 DEF EditOwn, HeadersInv
<1>7. ASSUME Close \/ (\E array : EditProfiles(array)) \/ UNCHANGED vars PROVE HeadersInv'
  BY <1>7 DEF Close, EditProfiles, vars, HeadersInv
<1> QED
  BY <1>2, <1>3, <1>4, <1>5, <1>6, <1>7 DEF Next

\* A content type at the end of a list is no other name's.
LEMMA TypeIsApart ==
    ASSUME NEW s \in Seq(AllPairs), NEW c \in Calls, NEW k, k # ContentType
    PROVE  /\ s \o <<TypeTuple(c)>> \in Seq(AllPairs)
           /\ s \o <<TypeTuple(c)>> = Append(s, TypeTuple(c))
           /\ Get(FromTuples(s \o <<TypeTuple(c)>>), k) = Get(FromTuples(s), k)
<1> DEFINE t == TypeTuple(c)
           longer == Append(s, t)
           G(values) == IF values = <<>> THEN None ELSE FlattenSeq(values)
<1>1. t \in AllPairs /\ t.name.key # k
  BY GivenPairs
<1> HIDE DEF t
<1>2. longer \in Seq(AllPairs) /\ s \o <<t>> = longer
  BY <1>1
<1>3. Picked(longer, k) = Picked(s, k)
  <2>1. Picked(longer, k) = Picked(s, k) \o ValueOf(t, k) /\ Picked(s, k) \in Seq(Seq(AllValues))
    BY <1>1, PickedAppend, PickedType DEF AllPairs
  <2>2. ValueOf(t, k) = <<>>
    BY <1>1 DEF ValueOf
  <2> HIDE DEF longer
  <2> QED
    BY <2>1, <2>2, ConcatEmptySeq
<1> HIDE DEF longer
<1>4. \A u \in Seq(AllPairs) : Get(FromTuples(u), k) = G(Picked(u, k))
  <2>1. ASSUME NEW u \in Seq(AllPairs) PROVE Get(FromTuples(u), k) = G(Picked(u, k))
    <3>1. /\ FromTuples(u) \in Stores(AllNames, AllValues)
          /\ ValuesOf(FromTuples(u), k) = Picked(u, k)
      BY FromTuplesStore DEF AllPairs
    <3> QED
      BY <3>1, ByValues
  <2> QED
    BY <2>1
<1> HIDE DEF G
<1> QED
  BY <1>2, <1>3, <1>4 DEF longer, t

\* The defaults a call is merged with are those of the session, but for a
\* content type.
LEMMA DefaultsAreTheSessions ==
    ASSUME NoneIsNoRecord, NEW d \in DefaultLists, NEW k, k # ContentType
    PROVE  /\ d \in {None} \cup Seq(AllPairs)
           /\ Get(FromTuples(ListOf(d)), k) = Get(FromTuples(ListOf(SessionHeaders)), k)
<1>1. SessionHeaders \in {None} \cup Seq(AllPairs)
  <2> DEFINE T == [name : Names, value : Seq(Values)]
  <2>1. T \subseteq AllPairs /\ SessionHeaders \in {None} \cup Seq(T)
    BY CallAssumption, GivenPairs
  <2> HIDE DEF T
  <2>2. Seq(T) \subseteq Seq(AllPairs)
    BY <2>1
  <2> QED
    BY <2>1, <2>2
<1>2. CASE d = SessionHeaders
  BY <1>1, <1>2
<1>3. CASE d # SessionHeaders
  <2>1. PICK c \in Calls : d = Append(SessionHeaders, TypeTuple(c))
    BY <1>3 DEF DefaultLists
  <2>2. SessionHeaders # None
    BY <1>3 DEF DefaultLists
  <2> DEFINE s == SessionHeaders
  <2>3. s \in Seq(AllPairs)
    BY <1>1, <2>2
  <2>4. /\ d \in Seq(AllPairs)
        /\ Get(FromTuples(d), k) = Get(FromTuples(s), k)
    <3> DEFINE t == TypeTuple(c)
               longer == s \o <<t>>
    <3>1. longer \in Seq(AllPairs) /\ longer = Append(s, t) /\ Get(FromTuples(longer), k) = Get(FromTuples(s), k)
      BY <2>3, TypeIsApart
    <3> HIDE DEF t, longer
    <3> QED
      BY <2>1, <3>1 DEF t
  <2>5. d # None
    <3>1. DOMAIN d # {}
      BY <2>1, <2>3
    <3> QED
      BY <3>1 DEF NoneIsNoRecord
  <2> QED
    BY <2>2, <2>4, <2>5 DEF ListOf
<1> QED
  BY <1>2, <1>3

\* So what a call sends is its own: merged headers have that shape.
LEMMA MergedIsOwn ==
    NoneIsNoRecord /\ FInv /\ HeadersInv /\ HeadersAreMerged => HeadersAreOwn
<1> SUFFICES ASSUME NoneIsNoRecord, FInv, HeadersInv, HeadersAreMerged,
                    NEW c \in Sent, NEW k \in Keys \ {ContentType}
             PROVE  Get(FromTuples(sent[c].headers), k) =
                        LET given == IF sent[c].given = None THEN <<>> ELSE NewHeaders(sent[c].given)
                            usual == IF sent[c].session = "session" /\ SessionHeaders # None
                                     THEN FromTuples(SessionHeaders) ELSE <<>>
                        IN IF Has(given, k) THEN Get(given, k) ELSE Get(usual, k)
  BY DEF HeadersAreOwn
<1>1. c \in Calls /\ pc[c] = "sent"
  BY SentCalls DEF Sent
<1>2. IsSent(sent[c].given)
  BY <1>1 DEF HeadersInv
<1> DEFINE given == sent[c].given
           headers == sent[c].headers
           joined == sent[c].session = "session"
           own1 == IF given = None THEN <<>> ELSE NewHeaders(given)
           usual1 == IF joined /\ SessionHeaders # None THEN FromTuples(SessionHeaders) ELSE <<>>
<1>3. PICK d \in DefaultLists :
         LET usual == IF joined THEN d ELSE None
             list == ListOf(MergeHeaderTuples(usual, given))
         IN headers \in {list \o <<>>, list \o <<TypeTuple(c)>>}
  BY DEF HeadersAreMerged
<1> DEFINE usual == IF joined THEN d ELSE None
           list == ListOf(MergeHeaderTuples(usual, given))
<1>4. headers \in {list \o <<>>, list \o <<TypeTuple(c)>>}
  BY <1>3
<1> HIDE DEF headers, joined, given
<1>5. k # ContentType
  OBVIOUS
<1>6. usual \in {None} \cup Seq(AllPairs)
  BY <1>3, <1>5, DefaultsAreTheSessions DEF usual
<1>7. Get(FromTuples(ListOf(usual)), k) = Get(usual1, k)
  <2>1. FromTuples(<<>>) = <<>>
    BY AddedAppend DEF FromTuples
  <2>2. Get(FromTuples(ListOf(d)), k) = Get(FromTuples(ListOf(SessionHeaders)), k)
    BY <1>3, <1>5, DefaultsAreTheSessions
  <2> QED
    BY <2>1, <2>2 DEF ListOf
<1> HIDE DEF usual1
<1>8. /\ list \in Seq(AllPairs)
      /\ Get(FromTuples(list), k) = IF Has(own1, k) THEN Get(own1, k) ELSE Get(usual1, k)
  <2>1. CASE given = None
    <3>1. list = ListOf(usual)
      BY <2>1 DEF MergeHeaderTuples, MergeIsDefaults
    <3>2. ListOf(usual) \in Seq(AllPairs)
      BY <1>6, EmptySeq DEF ListOf
    <3>3. ~Has(own1, k)
      BY <2>1 DEF Has
    <3> HIDE DEF list, usual, own1
    <3> QED
      BY <1>7, <3>1, <3>2, <3>3
  <2>2. CASE given # None
    <3> HIDE DEF usual
    <3>1. IsInit(AllNames, AllValues, given)
      BY <1>2, <2>2 DEF IsSent, given
    <3>2. usual = None \/ usual \in Seq(PairsOf(AllNames, AllValues))
      BY <1>6 DEF AllPairs
    <3>3. list \in Seq(AllPairs)
      BY <2>2, <3>1, <3>2, MergeValues DEF AllPairs
    <3>4. Get(FromTuples(list), k) = IF Has(NewHeaders(given), k) THEN Get(NewHeaders(given), k)
                                     ELSE Get(FromTuples(ListOf(usual)), k)
      BY <2>2, <3>1, <3>2, MergesPreferTheCaller
    <3> QED
      BY <1>7, <2>2, <3>3, <3>4
  <2> QED
    BY <2>1, <2>2
<1> HIDE DEF list, own1, usual
<1>9. Get(FromTuples(headers), k) = Get(FromTuples(list), k)
  <2>1. CASE headers = list \o <<>>
    <3>1. headers = list
      BY <1>8, <2>1, ConcatEmptySeq
    <3> QED
      BY <3>1
  <2>2. CASE headers = list \o <<TypeTuple(c)>>
    BY <1>1, <1>5, <1>8, <2>2, TypeIsApart
  <2> QED
    BY <1>4, <2>1, <2>2
<1>10. Get(FromTuples(headers), k) = IF Has(own1, k) THEN Get(own1, k) ELSE Get(usual1, k)
  BY <1>8, <1>9
<1> QED
  BY <1>10 DEF own1, usual1, headers, given, joined

LEMMA HeaderTypes == Spec => []HeadersInv
<1>1. Init => HeadersInv
  BY EmptyStore DEF Init, HeadersInv
<1>2. FInv /\ HeadersInv /\ [Next]_vars => HeadersInv'
  BY StepHeaders
<1> QED
  BY <1>1, <1>2, Invariant, PTL DEF Spec

\* Whatever calls a session makes, and however often the program edits its
\* Headers object meanwhile: every request has its caller's headers and, for the
\* other names, the defaults that the session was created with.
THEOREM HeadersStayApart == NoneIsNoRecord => (Spec => []HeadersDoNotLeak)
<1> SUFFICES ASSUME NoneIsNoRecord PROVE Spec => []HeadersDoNotLeak
  OBVIOUS
<1>1. FInv /\ HeadersInv /\ HeadersAreMerged => HeadersAreOwn
  BY MergedIsOwn
<1>2. DefaultsGrowByOneType /\ HeadersAreOwn => HeadersDoNotLeak
  BY DEF HeadersDoNotLeak
<1>3. Spec => []DefaultsGrowByOneType
  BY DefaultsStay
<1>4. Spec => []HeadersAreMerged
  BY HeadersComeFromCallAndSession
<1> QED
  BY <1>1, <1>2, <1>3, <1>4, Invariant, HeaderTypes, PTL

\* What the references range over.
LEMMA InitSamples ==
    NoneIsNoRecord => \A i \in Inits : IsInit(Names, Values, i)
<1> SUFFICES ASSUME NoneIsNoRecord, NEW i \in Inits PROVE IsInit(Names, Values, i)
  OBVIOUS
<1>1. PICK kind \in {"tuples", "object"}, ts \in TupleLists : i = InitOf(kind, ts)
  BY DEF Inits
<1>2. \E m \in 0..MaxTuples : ts \in [1..m -> Tuples]
  BY DEF TupleLists, SeqOf
<1>3. PICK m \in 0..MaxTuples : ts \in [1..m -> Tuples]
  BY <1>2
<1>4. ts \in Seq(Tuples)
  <2>1. m \in Nat
    OBVIOUS
  <2> QED
    BY <1>3, <2>1
<1> DEFINE Q == [name : Names, value : Seq(Values) \cup {None}]
<1>5. \A t \in Tuples : /\ t \in PairsOf(Names, Values) /\ t \in Q
                        /\ t.value # None /\ ~Throws(t.name)
  <2> SUFFICES ASSUME NEW t \in Tuples
               PROVE  t \in PairsOf(Names, Values) /\ t \in Q /\ t.value # None /\ ~Throws(t.name)
    OBVIOUS
  <2>1. PICK n \in Names, v \in Values : t = [name |-> n, value |-> <<v>>]
    BY DEF Tuples, HeaderTuple
  <2>2. n.key # Blank
    BY HeadersAssumption DEF Names, Name
  <2>3. <<v>> \in Seq(Values) /\ DOMAIN <<v>> # {}
    OBVIOUS
  <2>4. <<v>> # None
    BY <2>3 DEF NoneIsNoRecord
  <2> QED
    BY <2>2, <2>3, <2>4, <2>1 DEF PairsOf, Throws
<1>6. ts \in Seq(PairsOf(Names, Values)) /\ ts \in Seq(Q)
  <2> HIDE DEF Q
  <2>1. \A A, B : A \subseteq B => Seq(A) \subseteq Seq(B)
    OBVIOUS
  <2>2. Tuples \subseteq PairsOf(Names, Values) /\ Tuples \subseteq Q
    BY <1>5
  <2> QED
    BY <1>4, <2>1, <2>2
<1>7. i.items = ts /\ i.kind = kind
  BY <1>1 DEF InitOf
<1>8. ~InitThrows(i)
  <2>1. \A t \in Range(ts) : t \in Tuples
    BY <1>4 DEF Range
  <2> QED
    BY <1>5, <1>7, <2>1 DEF InitThrows
<1> QED
  BY <1>6, <1>7, <1>8 DEF IsInit

\* The references of Headers, over the lists of the runs.
LEMMA HeaderSamples ==
    NoneIsNoRecord => IsMap /\ RoundTrip /\ MergePrefersCaller /\ EqualMeansSame
<1> SUFFICES ASSUME NoneIsNoRecord PROVE IsMap /\ RoundTrip /\ MergePrefersCaller /\ EqualMeansSame
  OBVIOUS
<1> DEFINE S == Stores(Names, Values)
<1>1. \A i \in Inits : IsInit(Names, Values, i) /\ NewHeaders(i) \in S
  BY InitSamples, NewStore
<1>2. IsMap
  <2> SUFFICES ASSUME NEW i \in Inits, NEW n \in Names, NEW v \in Values, NEW k \in Keys
               PROVE  LET h == NewHeaders(i)
                          Becomes(x, new) == Get(x, k) = IF k = n.key THEN new ELSE Get(h, k)
                      IN /\ Becomes(HeaderSet(h, n, <<v>>), <<v>>)
                         /\ Becomes(HeaderAppend(h, n, <<v>>),
                                    IF Has(h, n.key) THEN Append(Get(h, n.key), v) ELSE <<v>>)
                         /\ Becomes(HeaderDelete(h, n.key), None)
    BY DEF IsMap
  <2> DEFINE h == NewHeaders(i)
             w == <<v>>
  <2>1. h \in S /\ w \in Seq(Values)
    BY <1>1
  <2> HIDE DEF h
  <2>2. Has(h, n.key) => Get(h, n.key) \o w = Append(Get(h, n.key), v)
    <3>1. Has(h, n.key) => Get(h, n.key) \in Seq(Values)
      <4> DEFINE u == ValuesOf(h, n.key)
      <4>1. /\ u \in Seq(Seq(Values))
            /\ Has(h, n.key) <=> u # <<>>
            /\ Get(h, n.key) = IF u = <<>> THEN None ELSE FlattenSeq(u)
        BY <2>1, ByValues
      <4> HIDE DEF u
      <4>2. FlattenSeq(u) \in Seq(Values)
        BY <4>1, FlattenAppend, EmptySeq
      <4>3. Has(h, n.key) => Get(h, n.key) = FlattenSeq(u)
        BY <4>1
      <4> QED
        BY <4>2, <4>3
    <3> QED
      BY <3>1
  <2> HIDE DEF w
  <2>3. /\ Get(HeaderSet(h, n, w), k) = IF k = n.key THEN w ELSE Get(h, k)
        /\ Get(HeaderAppend(h, n, w), k) =
               IF k = n.key THEN (IF Has(h, n.key) THEN Get(h, n.key) \o w ELSE w) ELSE Get(h, k)
        /\ Get(HeaderDelete(h, n.key), k) = IF k = n.key THEN None ELSE Get(h, k)
    BY <2>1, HeadersAreMaps
  <2> QED
    BY <2>2, <2>3 DEF h, w
<1>3. RoundTrip
  BY <1>1, HeadersSurviveRoundTrips DEF RoundTrip
<1>4. \A d \in Defaults : \E i \in Inits : d = ToTuples(NewHeaders(i))
  BY DEF Defaults
<1>5. MergePrefersCaller
  <2> SUFFICES ASSUME NEW d \in Defaults, NEW i \in Inits, NEW k \in Keys
               PROVE  Get(FromTuples(MergeHeaderTuples(d, i)), k) =
                          IF Has(NewHeaders(i), k) THEN Get(NewHeaders(i), k) ELSE Get(FromTuples(d), k)
    BY DEF MergePrefersCaller
  <2> DEFINE P == PairsOf(Names, Values)
             m == MergeHeaderTuples(d, i)
  <2>1. d \in Seq(P)
    BY <1>1, <1>4, PickedToTuples
  <2>2. i # None
    <3>1. PICK kind \in {"tuples", "object"}, ts \in TupleLists : i = InitOf(kind, ts)
      BY DEF Inits
    <3> QED
      BY <3>1 DEF InitOf, NoneIsNoRecord
  <2>3. Get(FromTuples(ListOf(m)), k) =
            IF Has(NewHeaders(i), k) THEN Get(NewHeaders(i), k) ELSE Get(FromTuples(ListOf(d)), k)
    BY <1>1, <2>1, <2>2, MergesPreferTheCaller
  <2>4. \A s \in Seq(P) : ListOf(s) = s
    <3>1. \A s \in Seq(P) : s = None => s = <<>>
      BY DEF NoneIsNoRecord
    <3> QED
      BY <3>1 DEF ListOf
  <2>5. m \in Seq(P)
    <3> DEFINE o == HeadersToTuples(i)
               a == Kept(d, {t \in Range(d) : ~HasHeaderName(o, t.name.key)})
    <3>1. o \in Seq(P) /\ a \in Seq(P)
      BY <1>1, <2>1, PickedToTuples, KeptType DEF HeadersToTuples
    <3>2. m \in {d, o, a \o o}
      BY <2>2 DEF MergeHeaderTuples
    <3> HIDE DEF o, a, m, P
    <3>3. a \o o \in Seq(P)
      BY <3>1, ConcatProperties
    <3> QED
      BY <2>1, <3>1, <3>2, <3>3
  <2> QED
    BY <2>1, <2>3, <2>4, <2>5
<1>6. EqualMeansSame
  BY <1>1, <1>4, EqualListsMeanTheSame DEF EqualMeansSame
<1> QED
  BY <1>2, <1>3, <1>5, <1>6

\* Header lists do what their references say in every state of a call.
THEOREM HeadersKeepTheirPromises == NoneIsNoRecord => (Spec => []StartHeaders)
<1> SUFFICES ASSUME NoneIsNoRecord PROVE Spec => []StartHeaders
  OBVIOUS
<1>1. StartHeaders
  BY HeaderSamples DEF StartHeaders
<1> QED
  BY <1>1, PTL

-----------------------------------------------------------------------------
(* The options.                                                            *)

\* A function, with what it is defined for.
IsFunction(o) == o = [f \in DOMAIN o |-> o[f]]

\* A thrown error is no set of options.  (It is a model value in the runs.)
ErrorIsNoFunction == ~IsFunction(Error)

\* The kinds of fields: where the native side demands different members, so
\* does JavaScript.
IsKind(kind) ==
    \/ kind \in {Unchecked, Version, Dependency, Priorities, Extensions}
    \/ \E least, native \in Nat : \E most : kind = Number(least, most, native)
    \/ \E allowed : \E distinct, native \in BOOLEAN :
          (native => distinct) /\ kind = List(allowed, distinct, native)

\* Numbers of JavaScript are integers where the code has asked for them.
Integral(kind, v) ==
    /\ kind.kind = "number" => v \in Int
    /\ kind.kind = "priorities" => \A i \in DOMAIN v : v[i].streamId \in Int

\* Every field has one of these kinds.
LEMMA FieldKinds ==
    \A g \in DOMAIN GroupFields : \A f \in DOMAIN GroupFields[g] : IsKind(GroupFields[g][f])
<1>1. /\ {U16, U32, Unlimited, MinBuffer, 0} \subseteq Nat
  BY EmulationAssumption DEF Unlimited
<1>2. \A least, native \in Nat : \A most : IsKind(Number(least, most, native))
  BY DEF IsKind
<1>3. \A allowed : \A distinct, native \in BOOLEAN :
         (native => distinct) => IsKind(List(allowed, distinct, native))
  BY DEF IsKind
<1>4. \A kind \in {Unchecked, Version, Dependency, Priorities, Extensions} : IsKind(kind)
  BY DEF IsKind
<1> HIDE DEF Unchecked, Version, Dependency, Priorities, Extensions, Number, List
<1>5. ASSUME NEW f \in DOMAIN TlsFields PROVE IsKind(TlsFields[f])
  <2>1. TlsFields[f] \in {Unchecked, Version, Extensions, Number(0, U16, U16),
            List(Protocols, FALSE, FALSE), List(Compressors, TRUE, FALSE)}
    BY <1>5 DEF TlsFields
  <2> QED
    BY <2>1, <1>1, <1>2, <1>3, <1>4
<1>6. ASSUME NEW f \in DOMAIN Http1Fields PROVE IsKind(Http1Fields[f])
  <2>1. Http1Fields[f] \in {Unchecked, Number(0, None, Unlimited),
            Number(MinBuffer, None, Unlimited)}
    BY <1>6 DEF Http1Fields
  <2> QED
    BY <2>1, <1>1, <1>2, <1>4
<1>7. ASSUME NEW f \in DOMAIN Http2Fields PROVE IsKind(Http2Fields[f])
  <2>1. Http2Fields[f] \in {Unchecked, Dependency, Priorities, Number(0, None, U32),
            Number(0, None, Unlimited), List(SettingIds, TRUE, TRUE), List(PseudoIds, TRUE, TRUE)}
    BY <1>7 DEF Http2Fields
  <2> QED
    BY <2>1, <1>1, <1>2, <1>3, <1>4
<1> QED
  BY <1>5, <1>6, <1>7 DEF GroupFields

\* What JavaScript lets through of one field the native side can build.
LEMMA KindAgrees ==
    ASSUME NEW kind, IsKind(kind), NEW v, Integral(kind, v), Valid(kind, v)
    PROVE  NativeBuilds(kind, Normal(kind, v)) \/ TooWide(kind, Normal(kind, v))
<1> USE EmulationAssumption
<1>1. CASE kind = Unchecked
  BY <1>1 DEF Unchecked, NativeBuilds
<1>2. CASE kind = Version
  <2>1. v \in DOMAIN VersionAliases /\ Normal(kind, v) = VersionAliases[v]
    BY <1>2 DEF Version, Valid, Normal
  <2>2. VersionAliases[v] \in Versions
    BY <2>1 DEF VersionAliases, Versions
  <2> QED
    BY <1>2, <2>1, <2>2 DEF Version, NativeBuilds
<1>3. CASE kind = Dependency
  <2>1. DependencyValid(v) /\ Normal(kind, v) = v
    BY <1>3 DEF Dependency, Valid, Normal
  <2> QED
    BY <1>3, <2>1 DEF Dependency, NativeBuilds, DependencyValid
<1>4. CASE kind = Priorities
  <2>1. PrioritiesValid(v) /\ Normal(kind, v) = v /\ \A i \in DOMAIN v : v[i].streamId \in Int
    BY <1>4 DEF Priorities, Valid, Normal, Integral
  <2>2. CASE \E i \in DOMAIN v : v[i].streamId > U32
    BY <1>4, <2>1, <2>2 DEF Priorities, TooWide
  <2>3. CASE \A i \in DOMAIN v : ~(v[i].streamId > U32)
    <3>1. \A i \in DOMAIN v : v[i].streamId \in 1..U32
      BY <2>1, <2>3 DEF PrioritiesValid
    <3>2. \A i \in DOMAIN v : v[i].dependency.dependencyId \in 0..U32 /\ v[i].dependency.weight \in 0..U8
      BY <2>1 DEF PrioritiesValid, DependencyValid
    <3> QED
      BY <1>4, <2>1, <3>1, <3>2 DEF Priorities, NativeBuilds, PrioritiesValid
  <2> QED
    BY <2>2, <2>3
<1>5. CASE kind = Extensions
  BY <1>5 DEF Extensions, Valid, Normal, NativeBuilds
<1>6. ASSUME NEW least \in Nat, NEW native \in Nat, NEW most, kind = Number(least, most, native)
      PROVE  NativeBuilds(kind, Normal(kind, v)) \/ TooWide(kind, Normal(kind, v))
  <2>1. v \in Int /\ v >= least /\ Normal(kind, v) = v
    BY <1>6 DEF Number, Valid, Normal, Integral
  <2>2. v > native \/ v \in 0..native
    BY <2>1
  <2> QED
    BY <1>6, <2>1, <2>2 DEF Number, NativeBuilds, TooWide
<1>7. ASSUME NEW allowed, NEW distinct \in BOOLEAN, NEW native \in BOOLEAN, native => distinct,
             kind = List(allowed, distinct, native)
      PROVE  NativeBuilds(kind, Normal(kind, v))
  <2>1. Range(v) \subseteq allowed /\ (distinct => IsInjective(v)) /\ Normal(kind, v) = v
    BY <1>7 DEF List, Valid, Normal
  <2> QED
    BY <1>7, <2>1 DEF List, NativeBuilds
<1> QED
  BY <1>1, <1>2, <1>3, <1>4, <1>5, <1>6, <1>7 DEF IsKind

\* A group of options that JavaScript accepts, whatever is in it, is refused by
\* the native side only for a number its type cannot hold.
THEOREM AcceptedGroupsAreBuilt ==
    ASSUME NEW g \in DOMAIN GroupFields, NEW opts,
           \A f \in DOMAIN opts \cap DOMAIN GroupFields[g] : Integral(GroupFields[g][f], opts[f]),
           NormalizeGroup(g, opts) \notin {Error, None}
    PROVE  LET normal == NormalizeGroup(g, opts)
           IN \/ NativeBuildsGroup(g, normal)
              \/ \E f \in DOMAIN normal : TooWide(GroupFields[g][f], normal[f])
<1> DEFINE known == DOMAIN opts \cap DOMAIN GroupFields[g]
           normal == NormalizeGroup(g, opts)
<1>1. /\ ~(g = "http1Options" /\ Exclusive(opts))
      /\ \A f \in known : Valid(GroupFields[g][f], opts[f])
      /\ normal = [f \in known |-> Normal(GroupFields[g][f], opts[f])]
  BY DEF NormalizeGroup
<1> HIDE DEF normal
<1>2. DOMAIN normal = known
  BY <1>1
<1>3. \A f \in known : \/ NativeBuilds(GroupFields[g][f], normal[f])
                       \/ TooWide(GroupFields[g][f], normal[f])
  BY <1>1, FieldKinds, KindAgrees
<1>4. ASSUME g = "http1Options"
      PROVE  /\ ~Exclusive(normal)
             /\ "maxBufSize" \in DOMAIN normal => normal.maxBufSize >= MinBuffer
  <2>1. ~Exclusive(normal)
    BY <1>1, <1>2, <1>4 DEF Exclusive
  <2>2. ASSUME "maxBufSize" \in known PROVE normal.maxBufSize >= MinBuffer
    <3>1. GroupFields[g]["maxBufSize"] = Number(MinBuffer, None, Unlimited)
      BY <1>4 DEF GroupFields, Http1Fields, Http1Flags
    <3>2. normal.maxBufSize = opts.maxBufSize
      BY <1>1, <2>2, <3>1 DEF Normal, Number
    <3>3. Valid(Number(MinBuffer, None, Unlimited), opts["maxBufSize"])
      BY <1>1, <2>2, <3>1
    <3>4. opts["maxBufSize"] >= MinBuffer
      BY <3>3 DEF Valid, Number
    <3> QED
      BY <3>2, <3>4
  <2> QED
    BY <1>2, <2>1, <2>2
<1>5. NativeBuildsGroup(g, normal) \/ \E f \in DOMAIN normal : TooWide(GroupFields[g][f], normal[f])
  BY <1>2, <1>3, <1>4 DEF NativeBuildsGroup
<1> QED
  BY <1>5 DEF normal

\* The samples are such groups.
LEMMA AcceptedSamples == AcceptedIsBuilt
<1> SUFFICES ASSUME NEW g \in DOMAIN GroupFields, NEW opts \in Records(g),
                    NormalizeGroup(g, opts) \notin {Error, None}
             PROVE  \/ NativeBuildsGroup(g, NormalizeGroup(g, opts))
                    \/ \E f \in DOMAIN NormalizeGroup(g, opts) :
                          TooWide(GroupFields[g][f], NormalizeGroup(g, opts)[f])
  BY DEF AcceptedIsBuilt
<1> USE EmulationAssumption
<1>1. Magnitudes \subseteq Int
  BY DEF Magnitudes
<1>2. ASSUME NEW kind, IsKind(kind), NEW v \in Samples(kind) PROVE Integral(kind, v)
  <2>1. CASE kind.kind = "number"
    BY <1>1, <1>2, <2>1 DEF Samples, Integral
  <2>2. CASE kind.kind = "priorities"
    <3>1. v \in SamplePriorities
      BY <1>2, <2>2 DEF Samples
    <3>2. \A i \in DOMAIN v : v[i].streamId \in {0, 1, U32, U32 + 1}
      BY <3>1 DEF SamplePriorities, SeqOf
    <3> QED
      BY <2>2, <3>2 DEF Integral
  <2> QED
    BY <2>1, <2>2 DEF Integral
<1>3. CASE \E f \in DOMAIN GroupFields[g] : \E v \in Samples(GroupFields[g][f]) : opts = Single(f, v)
  <2>0. PICK f \in DOMAIN GroupFields[g] : \E v \in Samples(GroupFields[g][f]) : opts = Single(f, v)
    BY <1>3
  <2>1. PICK v \in Samples(GroupFields[g][f]) : opts = Single(f, v)
    BY <2>0
  <2>2. DOMAIN opts = {f} /\ opts[f] = v
    BY <2>1 DEF Single
  <2>3. Integral(GroupFields[g][f], v)
    BY <1>2, FieldKinds
  <2> QED
    BY <2>2, <2>3, AcceptedGroupsAreBuilt
<1>4. CASE opts = <<>>
  <2>1. DOMAIN opts = {}
    BY <1>4
  <2> QED
    BY <2>1, AcceptedGroupsAreBuilt
<1>5. CASE g = "http1Options" /\ \E m, n \in Magnitudes :
              opts = [readBufExactSize |-> m, maxBufSize |-> n]
  <2>1. \A f \in DOMAIN opts : opts[f] \in Int
    BY <1>1, <1>5
  <2>2. \A f \in DOMAIN opts \cap DOMAIN GroupFields[g] : GroupFields[g][f].kind = "number"
    BY <1>5 DEF GroupFields, Http1Fields, Http1Flags, Number
  <2> QED
    BY <2>1, <2>2, AcceptedGroupsAreBuilt DEF Integral
<1>6. \/ opts = <<>>
      \/ \E f \in DOMAIN GroupFields[g] : \E v \in Samples(GroupFields[g][f]) : opts = Single(f, v)
      \/ g = "http1Options" /\ \E m, n \in Magnitudes :
              opts = [readBufExactSize |-> m, maxBufSize |-> n]
  <2>1. opts \in Singles(g) => \E f \in DOMAIN GroupFields[g] :
                                  \E v \in Samples(GroupFields[g][f]) : opts = Single(f, v)
    BY DEF Singles
  <2>2. opts \in Pairs(g) => g = "http1Options" /\ \E m, n \in Magnitudes :
                                opts = [readBufExactSize |-> m, maxBufSize |-> n]
    <3>1. CASE g = "http1Options"
      BY <3>1 DEF Pairs
    <3>2. CASE g # "http1Options"
      BY <3>2 DEF Pairs
    <3> QED
      BY <3>1, <3>2
  <2> QED
    BY <2>1, <2>2 DEF Records
<1> QED
  BY <1>3, <1>4, <1>5, <1>6

-----------------------------------------------------------------------------
(* The options of a WebSocket.                                             *)

\* Leaving the protocols out changes no other field.
LEMMA OtherFields ==
    ASSUME NEW o, NEW w, w = Without(o, {"protocols"})
    PROVE  /\ IsFunction(w)
           /\ Field(w, "protocols") = None
           /\ \A f : f # "protocols" => Field(w, f) = Field(o, f)
           /\ UpgradeHeaders(w) = UpgradeHeaders(o)
<1>1. /\ IsFunction(w) /\ DOMAIN w = DOMAIN o \ {"protocols"}
      /\ \A f \in DOMAIN w : w[f] = o[f]
  BY DEF Without, IsFunction
<1>2. Field(w, "protocols") = None
  BY <1>1 DEF Field
<1>3. \A f : f # "protocols" => Field(w, f) = Field(o, f)
  BY <1>1 DEF Field
<1>4. UpgradeHeaders(w) = UpgradeHeaders(o)
  <2>1. Field(w, "headers") = Field(o, "headers")
    BY <1>3
  <2>2. CASE Field(o, "headers") = None
    BY <2>1, <2>2 DEF UpgradeHeaders
  <2>3. CASE Field(o, "headers") # None
    <3>1. "headers" \in DOMAIN o /\ "headers" \in DOMAIN w
      BY <2>1, <2>3 DEF Field
    <3>2. w.headers = o.headers
      BY <1>1, <3>1
    <3> QED
      BY <2>1, <3>2 DEF UpgradeHeaders
  <2> QED
    BY <2>2, <2>3
<1> QED
  BY <1>1, <1>2, <1>3, <1>4

\* The same options mean the same connection whichever way it is opened, or are
\* refused every way; for every URL and all options.
THEOREM EntryPointsMeanTheSame ==
    ASSUME ErrorIsNoFunction, NEW url, NEW o, IsFunction(o)
    PROVE  /\ SameConnection(OpenStandalone(url, o), Construct(url, None, o),
                   Construct(url, Field(o, "protocols"), Without(o, {"protocols"})))
           /\ DOMAIN o \cap OfTransport = {} =>
                  SameOnSession(OpenStandalone(url, o), OpenOnSession(url, o))
<1> DEFINE w == Without(o, {"protocols"})
           Sound(p) == /\ SizeValid(Field(p, "maxFrameSize")) /\ SizeValid(Field(p, "maxMessageSize"))
                       /\ Field(p, "binaryType") \in {None, "nodebuffer", "arraybuffer", "blob"}
<1>1. o # Error
  BY DEF ErrorIsNoFunction
<1>2. NormalizeStandalone(o) = IF Sound(o) THEN o ELSE Error
  BY DEF NormalizeStandalone
<1>3. Construct(url, None, o) = OpenStandalone(url, o)
  <2>1. CASE Sound(o)
    BY <1>1, <1>2, <2>1, Zenon DEF Construct, OpenStandalone
  <2>2. CASE ~Sound(o)
    BY <1>2, <2>2 DEF Construct, OpenStandalone
  <2> QED
    BY <2>1, <2>2
<1>4. /\ w # Error /\ Field(w, "protocols") = None
      /\ \A f : f # "protocols" => Field(w, f) = Field(o, f)
      /\ UpgradeHeaders(w) = UpgradeHeaders(o)
  <2>1. /\ IsFunction(w) /\ Field(w, "protocols") = None
        /\ \A f : f # "protocols" => Field(w, f) = Field(o, f)
        /\ UpgradeHeaders(w) = UpgradeHeaders(o)
    BY OtherFields, Zenon
  <2> HIDE DEF w
  <2>2. w # Error
    BY <2>1 DEF ErrorIsNoFunction
  <2> QED
    BY <2>1, <2>2
<1> HIDE DEF w
<1>5. NormalizeStandalone(w) = IF Sound(o) THEN w ELSE Error
  BY <1>4 DEF NormalizeStandalone
<1>6. Construct(url, Field(o, "protocols"), w) = OpenStandalone(url, o)
  <2> DEFINE ps == Field(o, "protocols")
             chosen == IF ps = None THEN Field(NormalizeStandalone(w), "protocols") ELSE ps
  <2>1. CASE ~Sound(o)
    BY <1>2, <1>5, <2>1 DEF Construct, OpenStandalone
  <2>2. CASE Sound(o)
    <3>1. NormalizeStandalone(w) = w /\ NormalizeStandalone(o) = o /\ chosen = ps
      BY <1>2, <1>4, <1>5, <2>2
    <3>2. /\ Field(w, "headers") = Field(o, "headers") /\ Field(w, "proxy") = Field(o, "proxy")
          /\ Field(w, "browser") = Field(o, "browser") /\ Field(w, "os") = Field(o, "os")
          /\ Field(w, "emulation") = Field(o, "emulation")
          /\ Field(w, "proxyHeaders") = Field(o, "proxyHeaders")
          /\ Field(w, "maxFrameSize") = Field(o, "maxFrameSize")
          /\ Field(w, "maxMessageSize") = Field(o, "maxMessageSize")
      BY <1>4
    <3> QED
      BY <1>1, <1>4, <3>1, <3>2, Zenon DEF Construct, OpenStandalone
  <2> QED
    BY <2>1, <2>2
<1>7. ASSUME DOMAIN o \cap OfTransport = {}
      PROVE  SameOnSession(OpenStandalone(url, o), OpenOnSession(url, o))
  <2>1. /\ Field(o, "browser") = None /\ Field(o, "os") = None /\ Field(o, "emulation") = None
        /\ Field(o, "proxy") = None /\ Field(o, "proxyHeaders") = None
    BY <1>7 DEF Field, OfTransport
  <2>2. ResolveEmulationMode(NativeProfiles, None, None, None)
            = Preset(DefaultBrowser, DefaultOs, None)
    <3>1. DefaultBrowser # Error /\ None # Error
      BY EmulationAssumption DEF DefaultBrowser
    <3>2. NormalizeCustom(None, FALSE) = None
      BY DEF NormalizeCustom
    <3> QED
      BY <3>1, <3>2 DEF ResolveEmulationMode
  <2>3. IsFunction(Preset(DefaultBrowser, DefaultOs, None))
    BY DEF Preset, IsFunction
  <2>4. ResolveEmulationMode(NativeProfiles, None, None, None) # Error
    BY <2>2, <2>3 DEF ErrorIsNoFunction
  <2>5. ~HeadersThrow(None) /\ NormalizeProxyHeaders(None) = None
    BY DEF HeadersThrow, NormalizeProxyHeaders
  <2>6. NormalizeForSession(o) = NormalizeStandalone(o)
    BY <1>7 DEF NormalizeForSession, NormalizeStandalone
  <2> DEFINE refused == \/ NormalizeStandalone(o) = Error \/ NormalizeUrl(url) = Error
                        \/ ~ProtocolsValid(Field(o, "protocols"))
                        \/ HeadersThrow(Field(o, "headers")) \/ ManualProtocol(Field(o, "headers"))
             Opened(proxy, over) ==
                 [url |-> NormalizeUrl(url), headers |-> UpgradeHeaders(o),
                  protocols |-> ProtocolList(Field(o, "protocols")), proxy |-> proxy,
                  proxyHeaders |-> None, maxFrameSize |-> Field(o, "maxFrameSize"),
                  maxMessageSize |-> Field(o, "maxMessageSize"), over |-> over]
             mode == ResolveEmulationMode(NativeProfiles, None, None, None)
  <2>7. OpenStandalone(url, o) = IF refused THEN Error ELSE Opened(None, mode)
    BY <2>1, <2>4, <2>5, Zenon DEF OpenStandalone
  <2>8. OpenOnSession(url, o) = IF refused THEN Error ELSE Opened(None, "session")
    BY <2>6, Zenon DEF OpenOnSession
  <2>9. Opened(None, mode) # Error
    <3>1. IsFunction(Opened(None, mode))
      BY DEF IsFunction
    <3> QED
      BY <3>1 DEF ErrorIsNoFunction
  <2>10. [Opened(None, mode) EXCEPT !.over = "session"] = Opened(None, "session")
    OBVIOUS
  <2> HIDE DEF Opened, refused
  <2> QED
    BY <2>7, <2>8, <2>9, <2>10 DEF SameOnSession
<1> QED
  BY <1>3, <1>6, <1>7 DEF SameConnection, w

\* Subprotocols come from the protocols option alone, each once; for every URL,
\* protocols argument and options.
THEOREM ProtocolsComeFromOneOption ==
    ASSUME NEW url, NEW ps, NEW o PROVE OwnProtocols(Construct(url, ps, o))
<1> DEFINE opened == Construct(url, ps, o)
           chosen == IF ps = None THEN Field(NormalizeStandalone(o), "protocols") ELSE ps
<1> SUFFICES ASSUME opened # Error
             PROVE  /\ ~HasHeaderName(opened.headers, ProtocolHeader)
                    /\ opened.protocols # None => IsInjective(opened.protocols)
  BY DEF OwnProtocols
<1>1. /\ ProtocolsValid(chosen) /\ ~ManualProtocol(Field(o, "headers"))
      /\ opened.headers = UpgradeHeaders(o) /\ opened.protocols = ProtocolList(chosen)
  BY DEF Construct
<1> HIDE DEF opened, chosen
<1>2. ~HasHeaderName(UpgradeHeaders(o), ProtocolHeader)
  <2>1. CASE Field(o, "headers") = None
    <3>1. UpgradeHeaders(o) = <<>> /\ Range(<<>>) = {}
      BY <2>1 DEF UpgradeHeaders, Range
    <3> QED
      BY <3>1 DEF HasHeaderName
  <2>2. CASE Field(o, "headers") # None
    BY <1>1, <2>2 DEF UpgradeHeaders, ManualProtocol, Field
  <2> QED
    BY <2>1, <2>2
<1>3. ProtocolList(chosen) # None => IsInjective(ProtocolList(chosen))
  BY <1>1 DEF ProtocolList, ProtocolsValid, NonEmpty
<1> QED
  BY <1>1, <1>2, <1>3

\* The samples are such options.
LEMMA EntryPointSamples ==
    ASSUME ErrorIsNoFunction
    PROVE  EntryPointsAgree
<1> SUFFICES ASSUME NEW url, NEW o \in OptionInputs
             PROVE  /\ SameConnection(OpenStandalone(url, o), Construct(url, None, o),
                            Construct(url, Field(o, "protocols"), Without(o, {"protocols"})))
                    /\ DOMAIN o \cap OfTransport = {} =>
                           SameOnSession(OpenStandalone(url, o), OpenOnSession(url, o))
  BY DEF EntryPointsAgree
<1>1. \A f, v : IsFunction(Single(f, v))
  BY DEF IsFunction, Single
<1>2. \A h, ps : IsFunction([headers |-> h, protocols |-> ps])
  BY DEF IsFunction
<1>3. IsFunction(<<>>)
  BY DEF IsFunction
<1>4. IsFunction(o)
  <2>1. \/ \E f, v : o = Single(f, v)
        \/ \E h, ps : o = [headers |-> h, protocols |-> ps]
        \/ o = <<>>
    BY DEF OptionInputs
  <2> QED
    BY <1>1, <1>2, <1>3, <2>1
<1> QED
  BY <1>4, EntryPointsMeanTheSame

\* Emulations and the options of WebSockets mean the same on both sides and in
\* all three ways to open a WebSocket: what the runs evaluate on samples holds
\* for any profiles, systems, limits and headers.
THEOREM OptionsAlwaysAgree ==
    NoneIsNoRecord /\ ErrorIsNoFunction => (Spec => []StartOptions)
<1> SUFFICES ASSUME NoneIsNoRecord, ErrorIsNoFunction PROVE Spec => []StartOptions
  OBVIOUS
<1>1. ModeIsResolvable
  BY ModesAreResolvable DEF ModeIsResolvable
<1>2. ProtocolsAreExclusive
  BY ProtocolsComeFromOneOption DEF ProtocolsAreExclusive
<1>3. OptionsAgree
  BY <1>1, <1>2, AcceptedSamples, EntryPointSamples DEF OptionsAgree
<1>4. StartOptions
  BY <1>3 DEF StartOptions
<1> QED
  BY <1>4, PTL
==============================================================================
