---------------------------- MODULE ResponseProofs ----------------------------
(***************************************************************************)
(* The safety of ResponseObject for any number of chunks and of clones.    *)
(*                                                                         *)
(* The invariant says what ties the flags of one response together and all *)
(* of them to the one root below: a body handle belongs to the original    *)
(* and excludes every stream, a leaf needs a root, a leaf is cancelled     *)
(* only with its own response, and the root only with every leaf.          *)
(***************************************************************************)
EXTENDS ResponseObject, TLAPS

\* A response that was not made yet is untouched.
Unmade ==
    \A r \in Responses : r > made =>
        /\ ~used[r] /\ ~inline[r] /\ ~avail[r] /\ ~stale[r]
        /\ source[r] = "none" /\ wrapper[r] = "none" /\ outcome[r] = "none"
        /\ holder[r] = "nobody"
        /\ touched[r] = {}

\* Where an unread body is: bytes, the handle of the original, or a leaf.
Whereabouts ==
    \A r \in Responses :
        /\ inline[r] => payload = "inline" /\ (r = 1 => source[r] = "none")
        /\ avail[r] => r = 1 /\ payload = "native" /\ root = "none"
        /\ avail[r] => source[r] = "none" /\ handle # "released"
        /\ source[r] # "none" => root # "none" /\ payload # "empty"
        /\ r <= made /\ ~used[r] =>
               inline[r] \/ avail[r] \/ source[r] # "none" \/ payload = "empty"

\* The streams of a response move only with its bodyUsed.
UsesOf(r) ==
    /\ used[r] \/ wrapper[r] # "none" \/ stale[r] => touched[r] # {}
    /\ wrapper[r] = "pulling" => used[r]
    /\ ~used[r] => at[r] = 0 /\ taken[r] = 0
    /\ at[r] > 0 => source[r] # "none"
    /\ taken[r] <= at[r]
    /\ "direct" \in touched[r] =>
           /\ used[r] /\ ~inline[r] /\ ~avail[r]
           /\ \/ source[r] = "none"
              \/ r # 1 /\ payload = "inline"

Uses == \A r \in Responses : UsesOf(r)

\* How a leaf and the stream around it end.
Ends ==
    \A r \in Responses :
        /\ source[r] = "cancelled" => "cancel" \in touched[r]
        /\ wrapper[r] # "none" => source[r] # "none"
        /\ wrapper[r] = "closed" =>
               \/ "cancel" \in touched[r]
               \/ root = "closed" /\ at[r] = produced
        /\ outcome[r] = "native" => payload = "native" /\ \A q \in Responses : ~avail[q]

\* The one root.
Roots ==
    /\ payload # "native" => root = "closed"
    /\ payload = "native" /\ root = "closed" => produced = Chunks
    /\ payload = "inline" => produced = Chunks
    /\ root = "cancelled" => \A r \in 1..made : source[r] = "cancelled"
    /\ root \in {"closed", "failed", "cancelled"} => handle # "live"

RInv ==
    /\ TypeOK /\ Unmade /\ Whereabouts /\ Uses /\ Ends /\ Roots
    /\ PartialOnlyByOwnCancel

-----------------------------------------------------------------------------
\* The body getter keeps the types.
LEMMA OpenTypes ==
    ASSUME TypeOK, NEW r \in Responses, OpenBody(r)
    PROVE  /\ inline' \in [Responses -> BOOLEAN]
           /\ avail' \in [Responses -> BOOLEAN]
           /\ source' \in [Responses -> {"none", "open", "cancelled"}]
           /\ wrapper' \in
                  [Responses -> {"none", "fresh", "pulling", "closed", "errored"}]
           /\ root' \in {"none", "open", "closed", "failed", "cancelled"}
           /\ UNCHANGED <<payload, made, stale, at, taken, produced, handle>>
BY DEF TypeOK, OpenBody, MakesRoot

\* Every step keeps the types.
LEMMA StepTypes == RInv /\ [Next]_vars => TypeOK'
<1> SUFFICES ASSUME RInv, [Next]_vars PROVE TypeOK'
  OBVIOUS
<1> USE ResponseAssumption DEF RInv, TypeOK, Touches, Whereabouts, Uses, Unmade, Responses, streamVars, rootVars
<1>1. CASE \E r \in Responses, locks \in BOOLEAN : GetBody(r, locks)
  BY <1>1 DEF GetBody, OpenBody, NoBody, MakesRoot, Mark
<1>2. CASE \E r \in Responses : FirstPull(r)
  BY <1>2 DEF FirstPull
<1>3. CASE \E r \in Responses : StalePull(r)
  BY <1>3 DEF StalePull
<1>4. CASE \E r \in Responses : Pull(r)
  <2>1. PICK r \in Responses : Pull(r)
    BY <1>4
  <2>2. CASE at[r] < produced /\ at' = [at EXCEPT ![r] = @ + 1]
    <3>1. at[r] + 1 \in 0..Chunks
      BY <2>2
    <3> QED
      BY <2>1, <2>2, <3>1 DEF Pull
  <2>3. CASE UNCHANGED at
    BY SMTT(40), <2>1, <2>3 DEF Pull
  <2> QED
    BY <2>1, <2>2, <2>3 DEF Pull
<1>5. CASE \E r \in Responses : CallerReads(r)
  BY <1>5 DEF CallerReads, Mark
<1>6. CASE \E r \in Responses : Cancel(r)
  BY <1>6 DEF Cancel, Mark
<1>7. CASE \E r \in Responses : Consume(r) /\ ConsumeInline(r)
  BY <1>7 DEF Consume, ConsumeInline, Mark
<1>8. CASE \E r \in Responses : Consume(r) /\ ConsumeNative(r)
  BY <1>8 DEF Consume, ConsumeNative, Mark
<1>9. CASE \E r \in Responses : Consume(r) /\ ConsumeStream(r)
  <2> HIDE DEF Unmade, Whereabouts, Uses
  <2>1. PICK r \in Responses : Consume(r) /\ ConsumeStream(r)
    BY <1>9
  <2>2. /\ inline' \in [Responses -> BOOLEAN]
        /\ avail' \in [Responses -> BOOLEAN]
        /\ source' \in [Responses -> {"none", "open", "cancelled"}]
        /\ wrapper' \in
               [Responses -> {"none", "fresh", "pulling", "closed", "errored"}]
        /\ root' \in {"none", "open", "closed", "failed", "cancelled"}
        /\ UNCHANGED <<payload, made, stale, at, taken, produced, handle>>
    <3>1. CASE NoBody(r)
      BY <2>1, <3>1 DEF Consume, ConsumeStream, NoBody
    <3>2. CASE ~NoBody(r)
      BY <2>1, <3>2, OpenTypes DEF Consume, ConsumeStream
    <3> QED
      BY <3>1, <3>2
  <2>3. /\ used' \in [Responses -> BOOLEAN]
        /\ holder' \in [Responses -> {"nobody", "code", "caller"}]
        /\ outcome' \in [Responses -> {"none", "native", "reading", "whole",
                                       "short", "empty", "failed"}]
        /\ touched' \in [Responses -> SUBSET Touches]
    <3>1. used' \in [Responses -> BOOLEAN]
      BY <2>1 DEF Consume
    <3>2. touched' \in [Responses -> SUBSET Touches]
      BY <2>1 DEF ConsumeStream, Mark
    <3>3. holder' \in [Responses -> {"nobody", "code", "caller"}]
      BY <2>1 DEF ConsumeStream
    <3>4. outcome' \in [Responses -> {"none", "native", "reading", "whole",
                                    "short", "empty", "failed"}]
      BY <2>1 DEF ConsumeStream
    <3> QED
      BY <3>1, <3>2, <3>3, <3>4
  <2> QED
    BY <2>2, <2>3
<1>10. CASE \E r \in Responses : Readable(r)
  <2> HIDE DEF Unmade, Whereabouts, Uses
  <2>1. PICK r \in Responses : Readable(r)
    BY <1>10
  <2>2. /\ inline' \in [Responses -> BOOLEAN]
        /\ avail' \in [Responses -> BOOLEAN]
        /\ source' \in [Responses -> {"none", "open", "cancelled"}]
        /\ wrapper' \in
               [Responses -> {"none", "fresh", "pulling", "closed", "errored"}]
        /\ root' \in {"none", "open", "closed", "failed", "cancelled"}
        /\ UNCHANGED <<payload, made, stale, at, taken, produced, handle>>
    <3>1. CASE NoBody(r)
      BY <2>1, <3>1 DEF Readable, NoBody
    <3>2. CASE ~NoBody(r)
      BY <2>1, <3>2, OpenTypes DEF Readable
    <3> QED
      BY <3>1, <3>2
  <2>3. /\ used' \in [Responses -> BOOLEAN]
        /\ holder' \in [Responses -> {"nobody", "code", "caller"}]
        /\ outcome' \in [Responses -> {"none", "native", "reading", "whole",
                                       "short", "empty", "failed"}]
        /\ touched' \in [Responses -> SUBSET Touches]
    BY <2>1 DEF Readable, Mark
  <2> QED
    BY <2>2, <2>3
<1>11. CASE \E r \in Responses : NativeSettles(r)
  BY <1>11 DEF NativeSettles
<1>12. CASE \E r \in Responses : CodeReads(r)
  <2>1. PICK r \in Responses : CodeReads(r)
    BY <1>12
  <2>2. CASE taken[r] < at[r] /\ taken' = [taken EXCEPT ![r] = @ + 1]
    <3>1. taken[r] + 1 \in 0..Chunks
      BY <2>2
    <3> QED
      BY <2>1, <2>2, <3>1 DEF CodeReads
  <2>3. CASE UNCHANGED taken
    BY <2>1, <2>3 DEF CodeReads
  <2> QED
    BY <2>1, <2>2, <2>3 DEF CodeReads
<1>13. CASE \E r \in Responses : Clone(r)
  BY <1>13 DEF Clone, MakesRoot
<1>14. CASE RootReads
  BY <1>14 DEF RootReads
<1>15. CASE RootFails
  BY <1>15 DEF RootFails
<1>16. CASE Expire
  BY <1>16 DEF Expire
<1>17. CASE UNCHANGED vars
  BY <1>17 DEF vars
<1> QED
  BY <1>1, <1>2, <1>3, <1>4, <1>5, <1>6, <1>7, <1>8, <1>9, <1>10, <1>11, <1>12, <1>13, <1>14, <1>15, <1>16, <1>17 DEF Next, Consume

\* What was not made stays untouched: clone() takes the next number.
LEMMA StepUnmade == RInv /\ [Next]_vars => Unmade'
<1> SUFFICES ASSUME RInv, [Next]_vars PROVE Unmade'
  OBVIOUS
<1> USE ResponseAssumption DEF RInv, TypeOK, Unmade, Responses, streamVars, rootVars
<1>1. CASE \E r \in Responses, locks \in BOOLEAN : GetBody(r, locks)
  BY <1>1 DEF GetBody, OpenBody, NoBody, MakesRoot, Mark
<1>2. CASE \E r \in Responses : FirstPull(r)
  BY <1>2 DEF FirstPull
<1>3. CASE \E r \in Responses : StalePull(r)
  BY <1>3 DEF StalePull
<1>4. CASE \E r \in Responses : Pull(r)
  BY <1>4 DEF Pull
<1>5. CASE \E r \in Responses : CallerReads(r)
  BY <1>5 DEF CallerReads, Mark
<1>6. CASE \E r \in Responses : Cancel(r)
  BY <1>6 DEF Cancel, Mark
<1>7. CASE \E r \in Responses : Consume(r) /\ ConsumeInline(r)
  BY <1>7 DEF Consume, ConsumeInline, Mark
<1>8. CASE \E r \in Responses : Consume(r) /\ ConsumeNative(r)
  BY <1>8 DEF Consume, ConsumeNative, Mark
<1>9. CASE \E r \in Responses : Consume(r) /\ ConsumeStream(r)
  <2>1. PICK r \in Responses : Consume(r) /\ ConsumeStream(r)
    BY <1>9
  <2>2. CASE NoBody(r)
    BY <2>1, <2>2 DEF Consume, ConsumeStream, OpenBody, NoBody, MakesRoot, Mark
  <2>3. CASE ~NoBody(r) /\ source[r] = "none"
    BY <2>1, <2>3 DEF Consume, ConsumeStream, OpenBody, NoBody, MakesRoot, Mark
  <2>4. CASE source[r] # "none"
    BY <2>1, <2>4 DEF Consume, ConsumeStream, OpenBody, NoBody, MakesRoot, Mark
  <2> QED
    BY <2>2, <2>3, <2>4
<1>10. CASE \E r \in Responses : Readable(r)
  <2>1. PICK r \in Responses : Readable(r)
    BY <1>10
  <2>2. CASE NoBody(r)
    BY <2>1, <2>2 DEF Readable, OpenBody, NoBody, MakesRoot, Mark
  <2>3. CASE ~NoBody(r) /\ source[r] = "none"
    BY <2>1, <2>3 DEF Readable, OpenBody, NoBody, MakesRoot, Mark
  <2>4. CASE source[r] # "none"
    BY <2>1, <2>4 DEF Readable, OpenBody, NoBody, MakesRoot, Mark
  <2> QED
    BY <2>2, <2>3, <2>4
<1>11. CASE \E r \in Responses : NativeSettles(r)
  BY <1>11 DEF NativeSettles
<1>12. CASE \E r \in Responses : CodeReads(r)
  BY <1>12 DEF CodeReads
<1>13. CASE \E r \in Responses : Clone(r)
  BY <1>13 DEF Clone, MakesRoot
<1>14. CASE RootReads
  BY <1>14 DEF RootReads
<1>15. CASE RootFails
  BY <1>15 DEF RootFails
<1>16. CASE Expire
  BY <1>16 DEF Expire
<1>17. CASE UNCHANGED vars
  BY <1>17 DEF vars
<1> QED
  BY <1>1, <1>2, <1>3, <1>4, <1>5, <1>6, <1>7, <1>8, <1>9, <1>10, <1>11, <1>12, <1>13, <1>14, <1>15, <1>16, <1>17 DEF Next, Consume

\* No step loses a body before its bodyUsed is set.
LEMMA StepWhereabouts == RInv /\ [Next]_vars => Whereabouts'
<1> SUFFICES ASSUME RInv, [Next]_vars PROVE Whereabouts'
  OBVIOUS
<1> USE ResponseAssumption DEF RInv, TypeOK, Unmade, Whereabouts, Uses, Ends, Roots, Responses, streamVars, rootVars
<1>1. CASE \E r \in Responses, locks \in BOOLEAN : GetBody(r, locks)
  BY <1>1 DEF GetBody, OpenBody, NoBody, MakesRoot, Mark
<1>2. CASE \E r \in Responses : FirstPull(r)
  BY <1>2 DEF FirstPull
<1>3. CASE \E r \in Responses : StalePull(r)
  BY <1>3 DEF StalePull
<1>4. CASE \E r \in Responses : Pull(r)
  BY <1>4 DEF Pull
<1>5. CASE \E r \in Responses : CallerReads(r)
  BY <1>5 DEF CallerReads, Mark
<1>6. CASE \E r \in Responses : Cancel(r)
  BY <1>6 DEF Cancel, Mark
<1>7. CASE \E r \in Responses : Consume(r) /\ ConsumeInline(r)
  BY <1>7 DEF Consume, ConsumeInline, Mark
<1>8. CASE \E r \in Responses : Consume(r) /\ ConsumeNative(r)
  BY <1>8 DEF Consume, ConsumeNative, Mark
<1>9. CASE \E r \in Responses : Consume(r) /\ ConsumeStream(r)
  BY SMTT(40), <1>9 DEF Consume, ConsumeStream, OpenBody, NoBody, MakesRoot, Mark
<1>10. CASE \E r \in Responses : Readable(r)
  <2>1. PICK r \in Responses : Readable(r)
    BY <1>10
  <2>2. CASE NoBody(r)
    BY <2>1, <2>2 DEF Readable
  <2>3. CASE ~NoBody(r)
    BY SMTT(40), <2>1, <2>3 DEF Readable, OpenBody, NoBody, MakesRoot
  <2> QED
    BY <2>2, <2>3
<1>11. CASE \E r \in Responses : NativeSettles(r)
  BY <1>11 DEF NativeSettles
<1>12. CASE \E r \in Responses : CodeReads(r)
  BY <1>12 DEF CodeReads
<1>13. CASE \E r \in Responses : Clone(r)
  BY <1>13 DEF Clone, MakesRoot
<1>14. CASE RootReads
  BY <1>14 DEF RootReads
<1>15. CASE RootFails
  BY <1>15 DEF RootFails
<1>16. CASE Expire
  BY <1>16 DEF Expire
<1>17. CASE UNCHANGED vars
  BY <1>17 DEF vars
<1> QED
  BY <1>1, <1>2, <1>3, <1>4, <1>5, <1>6, <1>7, <1>8, <1>9, <1>10, <1>11, <1>12, <1>13, <1>14, <1>15, <1>16, <1>17 DEF Next, Consume

\* No stream moves before bodyUsed is set.
LEMMA StepUses == RInv /\ [Next]_vars => Uses'
<1> SUFFICES ASSUME RInv, [Next]_vars PROVE Uses'
  OBVIOUS
<1> USE ResponseAssumption DEF RInv, TypeOK, Touches, Unmade, Whereabouts, Uses, UsesOf, Ends, Responses, streamVars, rootVars
<1>1. CASE \E r \in Responses, locks \in BOOLEAN : GetBody(r, locks)
  <2>1. PICK r \in Responses, locks \in BOOLEAN : GetBody(r, locks)
    BY <1>1
  <2>2. ASSUME NEW q \in Responses, q # r PROVE UsesOf(q)'
    BY <2>1, <2>2 DEF GetBody, OpenBody, NoBody, MakesRoot, Mark
  <2>3. CASE NoBody(r)
    BY <2>1, <2>2, <2>3 DEF GetBody, OpenBody, NoBody, MakesRoot, Mark
  <2>4. CASE ~NoBody(r)
    <3>1. UsesOf(r)'
      BY <2>1, <2>4 DEF GetBody, OpenBody, NoBody, MakesRoot, Mark
    <3> QED
      BY <2>2, <3>1
  <2> QED
    BY <2>3, <2>4
<1>2. CASE \E r \in Responses : FirstPull(r)
  BY <1>2 DEF FirstPull
<1>3. CASE \E r \in Responses : StalePull(r)
  BY <1>3 DEF StalePull
<1>4. CASE \E r \in Responses : Pull(r)
  BY SMTT(40), <1>4 DEF Pull
<1>5. CASE \E r \in Responses : CallerReads(r)
  BY <1>5 DEF CallerReads, Mark
<1>6. CASE \E r \in Responses : Cancel(r)
  BY <1>6 DEF Cancel, Mark
<1>7. CASE \E r \in Responses : Consume(r) /\ ConsumeInline(r)
  BY <1>7 DEF Consume, ConsumeInline, Mark
<1>8. CASE \E r \in Responses : Consume(r) /\ ConsumeNative(r)
  BY <1>8 DEF Consume, ConsumeNative, Mark
<1>9. CASE \E r \in Responses : Consume(r) /\ ConsumeStream(r)
  <2>1. PICK r \in Responses : Consume(r) /\ ConsumeStream(r)
    BY <1>9
  <2>2. ASSUME NEW q \in Responses, q # r PROVE UsesOf(q)'
    BY SMTT(40), <2>1, <2>2 DEF Consume, ConsumeStream, OpenBody, NoBody, MakesRoot, Mark
  <2>3. /\ used'[r]
        /\ touched'[r] = touched[r] \cup {"read"}
    BY <2>1 DEF Consume, ConsumeStream, Mark
  <2>4. /\ UNCHANGED <<payload, at, taken>>
        /\ source[r] # "none" => source'[r] # "none"
        /\ inline'[r] => inline[r]
        /\ avail'[r] => avail[r]
    BY <2>1 DEF Consume, ConsumeStream, OpenBody, NoBody
  <2>5. "direct" \in touched[r] => source'[r] = source[r]
    BY <2>1 DEF Consume, ConsumeStream, OpenBody, NoBody
  <2>6. UsesOf(r)'
    BY <2>3, <2>4, <2>5
  <2> QED
    BY <2>2, <2>6
<1>10. CASE \E r \in Responses : Readable(r)
  <2>1. PICK r \in Responses : Readable(r)
    BY <1>10
  <2>2. ASSUME NEW q \in Responses, q # r PROVE UsesOf(q)'
    BY SMTT(40), <2>1, <2>2 DEF Readable, OpenBody, NoBody, MakesRoot, Mark
  <2>3. /\ used'[r]
        /\ touched'[r] = touched[r] \cup {"body", "read"}
    BY <2>1 DEF Readable, Mark
  <2>4. /\ UNCHANGED <<payload, at, taken>>
        /\ source[r] # "none" => source'[r] # "none"
        /\ inline'[r] => inline[r]
        /\ avail'[r] => avail[r]
    BY <2>1 DEF Readable, OpenBody, NoBody
  <2>5. "direct" \in touched[r] => source'[r] = source[r]
    BY <2>1 DEF Readable, OpenBody, NoBody
  <2>6. UsesOf(r)'
    BY <2>3, <2>4, <2>5
  <2> QED
    BY <2>2, <2>6
<1>11. CASE \E r \in Responses : NativeSettles(r)
  BY <1>11 DEF NativeSettles
<1>12. CASE \E r \in Responses : CodeReads(r)
  BY SMTT(40), <1>12 DEF CodeReads
<1>13. CASE \E r \in Responses : Clone(r)
  BY <1>13 DEF Clone, MakesRoot
<1>14. CASE RootReads
  BY <1>14 DEF RootReads
<1>15. CASE RootFails
  BY <1>15 DEF RootFails
<1>16. CASE Expire
  BY <1>16 DEF Expire
<1>17. CASE UNCHANGED vars
  BY <1>17 DEF vars
<1> QED
  BY <1>1, <1>2, <1>3, <1>4, <1>5, <1>6, <1>7, <1>8, <1>9, <1>10, <1>11, <1>12, <1>13, <1>14, <1>15, <1>16, <1>17 DEF Next, Consume

\* Leaves and streams end by their own cancel() or with the root.
LEMMA StepEnds == RInv /\ [Next]_vars => Ends'
<1> SUFFICES ASSUME RInv, [Next]_vars PROVE Ends'
  OBVIOUS
<1> USE ResponseAssumption DEF RInv, TypeOK, Touches, Unmade, Whereabouts, Uses, Ends, Roots, Responses, streamVars, rootVars
<1>1. CASE \E r \in Responses, locks \in BOOLEAN : GetBody(r, locks)
  BY <1>1 DEF GetBody, OpenBody, NoBody, MakesRoot, Mark
<1>2. CASE \E r \in Responses : FirstPull(r)
  BY <1>2 DEF FirstPull
<1>3. CASE \E r \in Responses : StalePull(r)
  BY <1>3 DEF StalePull
<1>4. CASE \E r \in Responses : Pull(r)
  BY SMTT(40), <1>4 DEF Pull
<1>5. CASE \E r \in Responses : CallerReads(r)
  BY <1>5 DEF CallerReads, Mark
<1>6. CASE \E r \in Responses : Cancel(r)
  BY <1>6 DEF Cancel, Mark
<1>7. CASE \E r \in Responses : Consume(r) /\ ConsumeInline(r)
  BY <1>7 DEF Consume, ConsumeInline, Mark
<1>8. CASE \E r \in Responses : Consume(r) /\ ConsumeNative(r)
  BY <1>8 DEF Consume, ConsumeNative, Mark
<1>9. CASE \E r \in Responses : Consume(r) /\ ConsumeStream(r)
  <2>1. PICK r \in Responses : Consume(r) /\ ConsumeStream(r)
    BY <1>9
  <2>2. CASE NoBody(r)
    BY SMTT(40), <2>1, <2>2 DEF Consume, ConsumeStream, OpenBody, NoBody, MakesRoot, Mark
  <2>3. CASE ~NoBody(r) /\ source[r] = "none"
    BY <2>1, <2>3 DEF Consume, ConsumeStream, OpenBody, NoBody, MakesRoot, Mark
  <2>4. CASE source[r] # "none"
    <3>1. source' = source /\ avail' = [avail EXCEPT ![r] = FALSE]
      BY <2>1, <2>4 DEF Consume, ConsumeStream, OpenBody, NoBody
    <3>2. root' = root /\ at' = at /\ produced' = produced /\ payload' = payload
      BY <2>1, <2>4 DEF Consume, ConsumeStream, OpenBody, NoBody, MakesRoot
    <3>3. \A q \in Responses : wrapper'[q] = "closed" => wrapper[q] = "closed"
      BY <2>1, <2>4 DEF Consume, ConsumeStream, OpenBody, NoBody
    <3>4. \A q \in Responses : wrapper'[q] # "none" => wrapper[q] # "none" \/ q = r
      BY <2>1, <2>4 DEF Consume, ConsumeStream, OpenBody, NoBody
    <3>5. \A q \in Responses : outcome'[q] = "native" => outcome[q] = "native"
      BY <2>1, <2>4 DEF Consume, ConsumeStream, OpenBody, NoBody
    <3>6. \A q \in Responses : touched[q] \subseteq touched'[q]
      BY <2>1, <2>4 DEF Consume, ConsumeStream, Mark
    <3> QED
      BY <2>4, <3>1, <3>2, <3>3, <3>4, <3>5, <3>6
  <2> QED
    BY <2>2, <2>3, <2>4
<1>10. CASE \E r \in Responses : Readable(r)
  <2>1. PICK r \in Responses : Readable(r)
    BY <1>10
  <2>2. CASE NoBody(r)
    BY <2>1, <2>2 DEF Readable, OpenBody, NoBody, MakesRoot, Mark
  <2>3. CASE ~NoBody(r) /\ source[r] = "none"
    BY SMTT(40), <2>1, <2>3 DEF Readable, OpenBody, NoBody, MakesRoot, Mark
  <2>4. CASE source[r] # "none"
    <3>1. source' = source /\ avail' = [avail EXCEPT ![r] = FALSE]
      BY <2>1, <2>4 DEF Readable, OpenBody, NoBody
    <3>2. root' = root /\ at' = at /\ produced' = produced /\ payload' = payload
      BY <2>1, <2>4 DEF Readable, OpenBody, NoBody, MakesRoot
    <3>3. \A q \in Responses : wrapper'[q] = "closed" => wrapper[q] = "closed"
      BY <2>1, <2>4 DEF Readable, OpenBody, NoBody
    <3>4. \A q \in Responses : wrapper'[q] # "none" => wrapper[q] # "none" \/ q = r
      BY <2>1, <2>4 DEF Readable, OpenBody, NoBody
    <3>5. \A q \in Responses : outcome'[q] = "native" => outcome[q] = "native"
      BY <2>1, <2>4 DEF Readable, OpenBody, NoBody
    <3>6. \A q \in Responses : touched[q] \subseteq touched'[q]
      BY <2>1, <2>4 DEF Readable, Mark
    <3> QED
      BY <2>4, <3>1, <3>2, <3>3, <3>4, <3>5, <3>6
  <2> QED
    BY <2>2, <2>3, <2>4
<1>11. CASE \E r \in Responses : NativeSettles(r)
  BY <1>11 DEF NativeSettles
<1>12. CASE \E r \in Responses : CodeReads(r)
  BY <1>12 DEF CodeReads
<1>13. CASE \E r \in Responses : Clone(r)
  BY <1>13 DEF Clone, MakesRoot
<1>14. CASE RootReads
  BY <1>14 DEF RootReads
<1>15. CASE RootFails
  BY <1>15 DEF RootFails
<1>16. CASE Expire
  BY <1>16 DEF Expire
<1>17. CASE UNCHANGED vars
  BY <1>17 DEF vars
<1> QED
  BY ZenonT(40), <1>1, <1>2, <1>3, <1>4, <1>5, <1>6, <1>7, <1>8, <1>9, <1>10, <1>11, <1>12, <1>13, <1>14, <1>15, <1>16, <1>17 DEF Next, Consume

\* The root is cancelled with its last leaf and gives the native body up.
LEMMA StepRoots == RInv /\ [Next]_vars => Roots'
<1> SUFFICES ASSUME RInv, [Next]_vars PROVE Roots'
  OBVIOUS
<1> USE ResponseAssumption DEF RInv, TypeOK, Unmade, Whereabouts, Ends, Roots, Responses, streamVars, rootVars
<1>1. CASE \E r \in Responses, locks \in BOOLEAN : GetBody(r, locks)
  BY <1>1 DEF GetBody, OpenBody, NoBody, MakesRoot, Mark
<1>2. CASE \E r \in Responses : FirstPull(r)
  BY <1>2 DEF FirstPull
<1>3. CASE \E r \in Responses : StalePull(r)
  BY <1>3 DEF StalePull
<1>4. CASE \E r \in Responses : Pull(r)
  BY <1>4 DEF Pull
<1>5. CASE \E r \in Responses : CallerReads(r)
  BY <1>5 DEF CallerReads, Mark
<1>6. CASE \E r \in Responses : Cancel(r)
  BY <1>6 DEF Cancel, Mark
<1>7. CASE \E r \in Responses : Consume(r) /\ ConsumeInline(r)
  BY <1>7 DEF Consume, ConsumeInline, Mark
<1>8. CASE \E r \in Responses : Consume(r) /\ ConsumeNative(r)
  BY <1>8 DEF Consume, ConsumeNative, Mark
<1>9. CASE \E r \in Responses : Consume(r) /\ ConsumeStream(r)
  BY SMTT(40), <1>9 DEF Consume, ConsumeStream, OpenBody, NoBody, MakesRoot, Mark
<1>10. CASE \E r \in Responses : Readable(r)
  BY <1>10 DEF Readable, OpenBody, NoBody, MakesRoot, Mark
<1>11. CASE \E r \in Responses : NativeSettles(r)
  BY <1>11 DEF NativeSettles
<1>12. CASE \E r \in Responses : CodeReads(r)
  BY <1>12 DEF CodeReads
<1>13. CASE \E r \in Responses : Clone(r)
  BY <1>13 DEF Clone, MakesRoot
<1>14. CASE RootReads
  BY <1>14 DEF RootReads
<1>15. CASE RootFails
  BY <1>15 DEF RootFails
<1>16. CASE Expire
  BY <1>16 DEF Expire
<1>17. CASE UNCHANGED vars
  BY <1>17 DEF vars
<1> QED
  BY <1>1, <1>2, <1>3, <1>4, <1>5, <1>6, <1>7, <1>8, <1>9, <1>10, <1>11, <1>12, <1>13, <1>14, <1>15, <1>16, <1>17 DEF Next, Consume

\* What text() resolves with is decided by how its own stream ended.
LEMMA StepPartial == RInv /\ [Next]_vars => PartialOnlyByOwnCancel'
<1> SUFFICES ASSUME RInv, [Next]_vars PROVE PartialOnlyByOwnCancel'
  OBVIOUS
<1> USE ResponseAssumption DEF RInv, TypeOK, Touches, Unmade, Whereabouts, Uses, Ends, Roots, PartialOnlyByOwnCancel, Responses, streamVars, rootVars
<1>1. CASE \E r \in Responses, locks \in BOOLEAN : GetBody(r, locks)
  BY <1>1 DEF GetBody, OpenBody, NoBody, MakesRoot, Mark
<1>2. CASE \E r \in Responses : FirstPull(r)
  BY <1>2 DEF FirstPull
<1>3. CASE \E r \in Responses : StalePull(r)
  BY <1>3 DEF StalePull
<1>4. CASE \E r \in Responses : Pull(r)
  BY <1>4 DEF Pull
<1>5. CASE \E r \in Responses : CallerReads(r)
  BY <1>5 DEF CallerReads, Mark
<1>6. CASE \E r \in Responses : Cancel(r)
  BY <1>6 DEF Cancel, Mark
<1>7. CASE \E r \in Responses : Consume(r) /\ ConsumeInline(r)
  BY <1>7 DEF Consume, ConsumeInline, Mark
<1>8. CASE \E r \in Responses : Consume(r) /\ ConsumeNative(r)
  BY <1>8 DEF Consume, ConsumeNative, Mark
<1>9. CASE \E r \in Responses : Consume(r) /\ ConsumeStream(r)
  BY SMTT(40), <1>9 DEF Consume, ConsumeStream, OpenBody, NoBody, MakesRoot, Mark
<1>10. CASE \E r \in Responses : Readable(r)
  BY SMTT(40), <1>10 DEF Readable, OpenBody, NoBody, MakesRoot, Mark
<1>11. CASE \E r \in Responses : NativeSettles(r)
  BY <1>11 DEF NativeSettles
<1>12. CASE \E r \in Responses : CodeReads(r)
  BY SMTT(40), <1>12 DEF CodeReads
<1>13. CASE \E r \in Responses : Clone(r)
  BY <1>13 DEF Clone, MakesRoot
<1>14. CASE RootReads
  BY <1>14 DEF RootReads
<1>15. CASE RootFails
  BY <1>15 DEF RootFails
<1>16. CASE Expire
  BY <1>16 DEF Expire
<1>17. CASE UNCHANGED vars
  BY <1>17 DEF vars
<1> QED
  BY <1>1, <1>2, <1>3, <1>4, <1>5, <1>6, <1>7, <1>8, <1>9, <1>10, <1>11, <1>12, <1>13, <1>14, <1>15, <1>16, <1>17 DEF Next, Consume

\* A fresh Response satisfies the invariant.
LEMMA InitInvariant == Init => RInv
<1> SUFFICES ASSUME Init PROVE RInv
  OBVIOUS
<1> USE ResponseAssumption DEF Init, Responses
<1>1. TypeOK
  BY DEF TypeOK, Touches
<1>2. /\ Unmade
      /\ Whereabouts
      /\ Uses
      /\ Ends
  <2>1. \A r \in Responses :
            /\ inline[r] <=> (r = 1 /\ payload = "inline")
            /\ avail[r] <=> (r = 1 /\ payload = "native")
    BY Zenon
  <2>2. /\ made = 1
        /\ payload \in {"inline", "native", "empty"}
        /\ root = "none" \/ payload # "native"
        /\ handle = "live" \/ payload # "native"
        /\ \A r \in Responses :
              /\ ~used[r] /\ ~stale[r] /\ touched[r] = {}
              /\ source[r] = "none" /\ wrapper[r] = "none"
              /\ outcome[r] = "none" /\ holder[r] = "nobody"
    OBVIOUS
  <2>3. Unmade
    <3> HIDE DEF Init
    <3> QED
      BY <2>1, <2>2 DEF Unmade
  <2>4. Whereabouts
    <3> HIDE DEF Init
    <3> QED
      BY <2>1, <2>2 DEF Whereabouts
  <2>5. Uses
    BY DEF Uses, UsesOf
  <2>6. Ends
    BY DEF Ends
  <2> QED
    BY <2>3, <2>4, <2>5, <2>6
<1>3. Roots /\ PartialOnlyByOwnCancel
  BY DEF Roots, PartialOnlyByOwnCancel
<1> QED
  BY <1>1, <1>2, <1>3 DEF RInv

\* RInv is inductive.
THEOREM Invariant == Spec => []RInv
<1>1. RInv /\ [Next]_vars => RInv'
  BY StepTypes, StepUnmade, StepWhereabouts, StepUses, StepEnds, StepRoots,
     StepPartial DEF RInv
<1> QED
  BY <1>1, InitInvariant, PTL DEF Spec

-----------------------------------------------------------------------------
(* The theorems.                                                           *)

\* bodyUsed of a Response says the truth, whatever was cloned, read, locked
\* and cancelled: an unused response can be read whole, a used one was used.
THEOREM BodyUsedTellsTruth == Spec => []BodyUsedIsTrue
<1>1. RInv => UnusedIsWhole
  BY ResponseAssumption
     DEF RInv, TypeOK, Responses, Whereabouts, Uses, UsesOf, Ends, Roots, UnusedIsWhole
<1>2. RInv => UsedIsOwn
  BY DEF RInv, Uses, UsesOf, UsedIsOwn
<1> QED
  BY <1>1, <1>2, Invariant, PTL DEF BodyUsedIsTrue

\* text() resolves with part of a body only after a cancel() of its own
\* stream, and no bytes are handed out by text() and by a stream as well.
THEOREM ReadsAlwaysExact == Spec => []ReadsAreExact
<1>1. RInv => SingleRead
  BY ResponseAssumption DEF RInv, TypeOK, Responses, Uses, UsesOf, SingleRead
<1>2. RInv => PartialOnlyByOwnCancel
  BY DEF RInv
<1> QED
  BY <1>1, <1>2, Invariant, PTL DEF ReadsAreExact

\* The native body is released when its stream ends, and by a cancel() only
\* when no clone can still read it.
THEOREM ReleaseIsLast == Spec => []ReleaseFollowsReaders
<1>1. RInv => ReleaseFollowsReaders
  BY DEF RInv, Roots, ReleaseFollowsReaders
<1> QED
  BY <1>1, Invariant, PTL
===============================================================================
