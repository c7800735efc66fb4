--------------------------- MODULE ResponseObject ---------------------------
(***************************************************************************)
(* A Response of wreq-js.ts and its clones, on the JavaScript side: the    *)
(* bodyUsed flag, the lazily made body stream, the tee of clone() and the  *)
(* ways to read a body (text() and its relatives, readable(), a reader of  *)
(* body).  The native store behind a body handle is the subject of Body;   *)
(* here it is one root that produces chunks, ends, fails or expires.       *)
(*                                                                         *)
(* tee() gives every chunk to both branches, and a source can be teed only *)
(* while nothing was read from it.  So each response owns one leaf of the  *)
(* tree of tees, every leaf carries the whole body, and a leaf is told by  *)
(* the response that owns it.  The root is cancelled when all leaves are.  *)
(* How far the streams read ahead of their consumers is left open.         *)
(***************************************************************************)
EXTENDS Naturals, FiniteSets

CONSTANTS
    Chunks,        \* chunks of the body, as the native layer delivers it
    MaxResponses   \* bound: the original and its clones

ASSUME ResponseAssumption ==
    /\ Chunks \in Nat \ {0}
    /\ MaxResponses \in Nat \ {0}

Responses == 1..MaxResponses

VARIABLES
    payload,   \* what the native layer returned: bytes, a body handle, nothing
    made,      \* how many responses there are; the original is 1
    used,      \* bodyUsed
    inline,    \* inlineBody is not null
    avail,     \* nativeHandleAvailable: the fast path is still open
    source,    \* bodySource: none, or the leaf, which may be cancelled
    wrapper,   \* bodyStream: none, fresh (made, not pulled), pulling, ended
    stale,     \* a stream that body returned before a clone() has yet to pull
    holder,    \* who locked bodyStream: text() and its relatives, or the caller
    at,        \* chunks the wrapper took from its leaf
    taken,     \* chunks the holder took from the wrapper
    outcome,   \* of text() and its relatives
    root,      \* the stream below all leaves
    produced,  \* chunks the root produced
    handle,    \* the native body: none, live, released by JavaScript, expired
    touched    \* history: got its body read, directly, cancelled, or just got

streamVars == <<source, wrapper, stale, holder, at, taken>>
rootVars == <<root, produced, handle>>
vars == <<payload, made, used, inline, avail, streamVars, outcome, rootVars, touched>>

Touches == {"body", "read", "direct", "cancel"}

Init ==
    /\ payload \in {"inline", "native", "empty"}
    /\ made = 1
    /\ used = [r \in Responses |-> FALSE]
    /\ inline = [r \in Responses |-> r = 1 /\ payload = "inline"]
    /\ avail = [r \in Responses |-> r = 1 /\ payload = "native"]
    /\ source = [r \in Responses |-> "none"]
    /\ wrapper = [r \in Responses |-> "none"]
    /\ stale = [r \in Responses |-> FALSE]
    /\ holder = [r \in Responses |-> "nobody"]
    /\ at = [r \in Responses |-> 0]
    /\ taken = [r \in Responses |-> 0]
    /\ outcome = [r \in Responses |-> "none"]
    /\ root = IF payload = "native" THEN "none" ELSE "closed"
    /\ produced = IF payload = "inline" THEN Chunks ELSE 0
    /\ handle = IF payload = "native" THEN "live" ELSE "none"
    /\ touched = [r \in Responses |-> {}]

Mark(r, how) == touched' = [touched EXCEPT ![r] = @ \cup how]

-----------------------------------------------------------------------------
(* The body getter.                                                        *)

NoBody(r) == ~inline[r] /\ ~avail[r] /\ source[r] = "none"

\* The native stream is made: by body or by clone(), whichever comes first.
MakesRoot(r) == avail[r]

\* body: the first call makes the source and the stream around it.
OpenBody(r) ==
    /\ inline' = [inline EXCEPT ![r] = @ /\ source[r] # "none"]
    /\ avail' = [avail EXCEPT ![r] = FALSE]
    /\ root' = IF MakesRoot(r) THEN "open" ELSE root
    /\ source' = [source EXCEPT ![r] = IF @ = "none" THEN "open" ELSE @]
    /\ wrapper' = [wrapper EXCEPT ![r] = IF @ = "none" THEN "fresh" ELSE @]
    /\ UNCHANGED <<payload, made, stale, at, taken, produced, handle>>

\* The caller gets body and keeps the stream; locks says whether it takes a
\* reader at once.
GetBody(r, locks) ==
    /\ r <= made
    /\ ~NoBody(r)
    /\ locks => holder[r] = "nobody"
    /\ OpenBody(r)
    /\ holder' = [holder EXCEPT ![r] = IF locks THEN "caller" ELSE @]
    /\ Mark(r, {"body"})
    /\ UNCHANGED <<used, outcome>>

\* Mutant: the first pull of the stream does not count as its use.
MutFirstPull(r) ==
    /\ wrapper[r] = "fresh"
    /\ wrapper' = [wrapper EXCEPT ![r] = "pulling"]
    /\ UNCHANGED <<payload, made, used, inline, avail, source, stale, holder, at,
                   taken, outcome, rootVars, touched>>

\* The stream around the source pulls by itself once it is constructed: its
\* high-water mark is 1.  That is its first use, and it locks the source.
FirstPull(r) ==
    /\ wrapper[r] = "fresh"
    /\ wrapper' = [wrapper EXCEPT ![r] = "pulling"]
    /\ used' = [used EXCEPT ![r] = TRUE]
    /\ UNCHANGED <<payload, made, inline, avail, source, stale, holder, at,
                   taken, outcome, rootVars, touched>>

\* So does a stream that clone() replaced.  Its source is locked by the tee,
\* so getReader throws and the stream errors, after onFirstUse.  (A caller that
\* cancels it first prevents the pull: nothing makes this step happen.)
StalePull(r) ==
    /\ stale[r]
    /\ stale' = [stale EXCEPT ![r] = FALSE]
    /\ used' = [used EXCEPT ![r] = TRUE]
    /\ UNCHANGED <<payload, made, inline, avail, source, wrapper, holder, at,
                   taken, outcome, rootVars, touched>>

\* Mutant: the stream does not pass on an error of its source.
MutPull(r) ==
    /\ wrapper[r] = "pulling"
    /\ at[r] = taken[r]
    /\ \/ /\ source[r] = "open"
          /\ at[r] < produced
          /\ at' = [at EXCEPT ![r] = @ + 1]
          /\ UNCHANGED wrapper
       \/ /\ \/ source[r] = "cancelled"
             \/ at[r] = produced /\ root \in {"closed", "cancelled"}
          /\ wrapper' = [wrapper EXCEPT ![r] =
                             IF source[r] = "open" /\ root = "failed"
                             THEN "errored" ELSE "closed"]
          /\ UNCHANGED at
    /\ UNCHANGED <<payload, made, used, inline, avail, source, stale, holder,
                   taken, outcome, rootVars, touched>>

\* reader.read() of the source settles while the wrapper wants a chunk.
Pull(r) ==
    /\ wrapper[r] = "pulling"
    /\ at[r] = taken[r]
    /\ \/ /\ source[r] = "open"
          /\ at[r] < produced
          /\ at' = [at EXCEPT ![r] = @ + 1]
          /\ UNCHANGED wrapper
       \/ /\ \/ source[r] = "cancelled"
             \/ at[r] = produced /\ root \in {"closed", "failed", "cancelled"}
          /\ wrapper' = [wrapper EXCEPT ![r] =
                             IF source[r] = "open" /\ root = "failed"
                             THEN "errored" ELSE "closed"]
          /\ UNCHANGED at
    /\ UNCHANGED <<payload, made, used, inline, avail, source, stale, holder,
                   taken, outcome, rootVars, touched>>

\* The caller's read() takes a chunk.
CallerReads(r) ==
    /\ holder[r] = "caller"
    /\ taken[r] < at[r]
    /\ taken' = [taken EXCEPT ![r] = @ + 1]
    /\ Mark(r, {"read"})
    /\ UNCHANGED <<payload, made, used, inline, avail, source, wrapper, stale,
                   holder, at, outcome, rootVars>>

\* Mutant: cancelling one clone cancels the native body under all.
MutCancelAll(r) ==
    /\ wrapper[r] \in {"fresh", "pulling"}
    /\ holder[r] # "code"
    /\ wrapper' = [wrapper EXCEPT ![r] = "closed"]
    /\ source' = [source EXCEPT ![r] = "cancelled"]
    /\ at' = [at EXCEPT ![r] = taken[r]]
    /\ IF root = "open"
       THEN /\ root' = "cancelled"
            /\ handle' = IF handle = "live" THEN "released" ELSE handle
       ELSE UNCHANGED <<root, handle>>
    /\ Mark(r, {"cancel"})
    /\ UNCHANGED <<payload, made, used, inline, avail, stale, holder, taken,
                   outcome, produced>>

\* Mutant: the native stream has no cancel callback.
MutCancelKeep(r) ==
    /\ wrapper[r] \in {"fresh", "pulling"}
    /\ holder[r] # "code"
    /\ wrapper' = [wrapper EXCEPT ![r] = "closed"]
    /\ source' = [source EXCEPT ![r] = "cancelled"]
    /\ at' = [at EXCEPT ![r] = taken[r]]
    /\ IF root = "open" /\ \A q \in 1..made : source'[q] = "cancelled"
       THEN /\ root' = "cancelled"
            /\ handle' = handle
       ELSE UNCHANGED <<root, handle>>
    /\ Mark(r, {"cancel"})
    /\ UNCHANGED <<payload, made, used, inline, avail, stale, holder, taken,
                   outcome, produced>>

\* The caller cancels the stream, through its reader or while it is unlocked.
\* The source is cancelled with it, and the root with the last leaf.
Cancel(r) ==
    /\ wrapper[r] \in {"fresh", "pulling"}
    /\ holder[r] # "code"
    /\ wrapper' = [wrapper EXCEPT ![r] = "closed"]
    /\ source' = [source EXCEPT ![r] = "cancelled"]
    /\ at' = [at EXCEPT ![r] = taken[r]]
    /\ IF root = "open" /\ \A q \in 1..made : source'[q] = "cancelled"
       THEN /\ root' = "cancelled"
            /\ handle' = IF handle = "live" THEN "released" ELSE handle
       ELSE UNCHANGED <<root, handle>>
    /\ Mark(r, {"cancel"})
    /\ UNCHANGED <<payload, made, used, inline, avail, stale, holder, taken,
                   outcome, produced>>

-----------------------------------------------------------------------------
(* consumeBody and readable().  Both throw when bodyUsed is set.           *)

\* Mutant: text() does not forget the inline bytes.
MutConsumeInline(r) ==
    /\ inline[r]
    /\ outcome' = [outcome EXCEPT ![r] = "whole"]
    /\ Mark(r, {"direct"})
    /\ UNCHANGED <<inline, avail, source, wrapper, holder, root, payload, made, stale, at, taken,
                   produced, handle>>

\* The bytes came with the response.
ConsumeInline(r) ==
    /\ inline[r]
    /\ inline' = [inline EXCEPT ![r] = FALSE]
    /\ outcome' = [outcome EXCEPT ![r] = "whole"]
    /\ Mark(r, {"direct"})
    /\ UNCHANGED <<avail, source, wrapper, holder, root, payload, made, stale, at, taken,
                   produced, handle>>

\* The fast path: one native call reads the whole body.
ConsumeNative(r) ==
    /\ ~inline[r]
    /\ avail[r]
    /\ avail' = [avail EXCEPT ![r] = FALSE]
    /\ outcome' = [outcome EXCEPT ![r] = "native"]
    /\ Mark(r, {"direct"})
    /\ UNCHANGED <<inline, source, wrapper, holder, root, payload, made, stale, at, taken,
                   produced, handle>>

\* The slow path reads body to its end; getReader throws if it is locked.
ConsumeStream(r) ==
    /\ ~inline[r]
    /\ ~avail[r]
    /\ IF NoBody(r)
       THEN /\ outcome' = [outcome EXCEPT ![r] = "empty"]
            /\ UNCHANGED <<inline, avail, root, source, wrapper, holder>>
            /\ UNCHANGED <<payload, made, stale, at, taken, produced, handle>>
       ELSE /\ OpenBody(r)
            /\ outcome' = [outcome EXCEPT ![r] =
                               IF holder[r] = "nobody" THEN "reading" ELSE "failed"]
            /\ holder' = [holder EXCEPT ![r] = IF @ = "nobody" THEN "code" ELSE @]
    /\ Mark(r, {"read"})

Consume(r) ==
    /\ r <= made
    /\ ~used[r]
    /\ used' = [used EXCEPT ![r] = TRUE]
    /\ ConsumeInline(r) \/ ConsumeNative(r) \/ ConsumeStream(r)

\* readable() always goes through body; Readable.fromWeb locks it.
Readable(r) ==
    /\ r <= made
    /\ ~used[r]
    /\ used' = [used EXCEPT ![r] = TRUE]
    /\ IF NoBody(r)
       THEN UNCHANGED <<payload, made, inline, avail, streamVars, rootVars>>
       ELSE /\ OpenBody(r)
            /\ holder' = [holder EXCEPT ![r] = "caller"]
    /\ Mark(r, {"body", "read"})
    /\ UNCHANGED outcome

\* readBodyAll settles.  A handle that is not found any more reads as an empty
\* body.
NativeSettles(r) ==
    /\ outcome[r] = "native"
    /\ \/ handle = "live" /\ outcome' = [outcome EXCEPT ![r] = "whole"]
       \/ handle = "live" /\ outcome' = [outcome EXCEPT ![r] = "failed"]
       \/ handle = "expired" /\ outcome' = [outcome EXCEPT ![r] = "empty"]
    /\ handle' = IF handle = "live" THEN "released" ELSE handle
    /\ UNCHANGED <<payload, made, used, inline, avail, streamVars, root,
                   produced, touched>>

\* The loop of consumeBody takes a chunk, or sees the end or the error.
CodeReads(r) ==
    /\ holder[r] = "code"
    /\ outcome[r] = "reading"
    /\ \/ /\ wrapper[r] # "errored"
          /\ taken[r] < at[r]
          /\ taken' = [taken EXCEPT ![r] = @ + 1]
          /\ UNCHANGED outcome
       \/ /\ wrapper[r] = "closed"
          /\ taken[r] = at[r]
          /\ outcome' = [outcome EXCEPT ![r] =
                             IF taken[r] = Chunks THEN "whole" ELSE "short"]
          /\ UNCHANGED taken
       \/ /\ wrapper[r] = "errored"
          /\ outcome' = [outcome EXCEPT ![r] = "failed"]
          /\ UNCHANGED taken
    /\ UNCHANGED <<payload, made, used, inline, avail, source, wrapper, stale,
                   holder, at, rootVars, touched>>

-----------------------------------------------------------------------------
(* clone().                                                                *)

\* Mutant: the clone wraps its branch at once instead of when body is asked for.
MutClone(r) ==
    /\ r <= made
    /\ made < MaxResponses
    /\ ~used[r]
    /\ LET c == made + 1
           leaf == IF avail[r] THEN "open" ELSE source[r]
       IN /\ made' = c
          /\ inline' = [inline EXCEPT ![c] = payload = "inline"]
          /\ avail' = [avail EXCEPT ![r] = FALSE]
          /\ root' = IF MakesRoot(r) THEN "open" ELSE root
          /\ source' = [source EXCEPT ![r] = leaf, ![c] = leaf]
          /\ stale' = [stale EXCEPT ![r] = @ \/ wrapper[r] = "fresh"]
          /\ wrapper' = [wrapper EXCEPT ![r] = "none", ![c] = IF leaf = "none" THEN "none" ELSE "fresh"]
          /\ holder' = [holder EXCEPT ![r] = "nobody"]
          /\ touched' = [touched EXCEPT ![c] = touched[r] \cap {"cancel"}]
    /\ UNCHANGED <<payload, used, at, taken, outcome, produced, handle>>

\* The clone is made from a copy of the payload, which still has its bytes.
\* A body handle becomes a stream first, a stream is teed, and the original
\* forgets the stream its body getter returned.
Clone(r) ==
    /\ r <= made
    /\ made < MaxResponses
    /\ ~used[r]
    /\ LET c == made + 1
           leaf == IF avail[r] THEN "open" ELSE source[r]
       IN /\ made' = c
          /\ inline' = [inline EXCEPT ![c] = payload = "inline"]
          /\ avail' = [avail EXCEPT ![r] = FALSE]
          /\ root' = IF MakesRoot(r) THEN "open" ELSE root
          /\ source' = [source EXCEPT ![r] = leaf, ![c] = leaf]
          /\ stale' = [stale EXCEPT ![r] = @ \/ wrapper[r] = "fresh"]
          /\ wrapper' = [wrapper EXCEPT ![r] = "none"]
          /\ holder' = [holder EXCEPT ![r] = "nobody"]
          /\ touched' = [touched EXCEPT ![c] = touched[r] \cap {"cancel"}]
    /\ UNCHANGED <<payload, used, at, taken, outcome, produced, handle>>

-----------------------------------------------------------------------------
(* The root: createNativeBodyStream over the native body.                  *)

RootReads ==
    /\ root = "open"
    /\ handle = "live"
    /\ \/ /\ produced < Chunks
          /\ produced' = produced + 1
          /\ UNCHANGED <<root, handle>>
       \/ /\ produced = Chunks
          /\ root' = "closed"
          /\ handle' = "released"
          /\ UNCHANGED produced
    /\ UNCHANGED <<payload, made, used, inline, avail, streamVars, outcome, touched>>

\* A read fails, or the handle is not found any more.
RootFails ==
    /\ root = "open"
    /\ root' = "failed"
    /\ handle' = IF handle = "live" THEN "released" ELSE handle
    /\ UNCHANGED <<payload, made, used, inline, avail, streamVars, outcome,
                   produced, touched>>

\* The native store drops a body nobody reads.
Expire ==
    /\ handle = "live"
    /\ handle' = "expired"
    /\ UNCHANGED <<payload, made, used, inline, avail, streamVars, outcome,
                   root, produced, touched>>

Next ==
    \/ \E r \in Responses :
          \/ \E locks \in BOOLEAN : GetBody(r, locks)
          \/ FirstPull(r) \/ StalePull(r) \/ Pull(r)
          \/ CallerReads(r) \/ Cancel(r)
          \/ Consume(r) \/ Readable(r) \/ NativeSettles(r) \/ CodeReads(r)
          \/ Clone(r)
    \/ RootReads
    \/ RootFails
    \/ Expire

Spec == Init /\ [][Next]_vars

\* Microtasks run, reads of the native body settle, and the loop of
\* consumeBody goes on.  Nothing is assumed of the caller.
Fairness ==
    /\ \A r \in Responses :
          /\ WF_vars(FirstPull(r)) /\ WF_vars(Pull(r))
          /\ WF_vars(NativeSettles(r)) /\ WF_vars(CodeReads(r))
    /\ WF_vars(RootReads \/ RootFails)

FairSpec == Spec /\ Fairness

-----------------------------------------------------------------------------
(* Properties.                                                             *)

TypeOK ==
    /\ payload \in {"inline", "native", "empty"}
    /\ made \in Responses
    /\ used \in [Responses -> BOOLEAN]
    /\ inline \in [Responses -> BOOLEAN]
    /\ avail \in [Responses -> BOOLEAN]
    /\ source \in [Responses -> {"none", "open", "cancelled"}]
    /\ wrapper \in [Responses -> {"none", "fresh", "pulling", "closed", "errored"}]
    /\ stale \in [Responses -> BOOLEAN]
    /\ holder \in [Responses -> {"nobody", "code", "caller"}]
    /\ at \in [Responses -> 0..Chunks]
    /\ taken \in [Responses -> 0..Chunks]
    /\ outcome \in [Responses -> {"none", "native", "reading", "whole", "short",
                                   "empty", "failed"}]
    /\ root \in {"none", "open", "closed", "failed", "cancelled"}
    /\ produced \in 0..Chunks
    /\ handle \in {"none", "live", "released", "expired"}
    /\ touched \in [Responses -> SUBSET Touches]

\* A response that says its body is unused still has all of it, unless its
\* own stream was cancelled, or had been when it was cloned from it.  Whatever
\* was done with its clones and whichever streams were made under it, its
\* bytes, its handle or a leaf nobody read from are there, and the root was
\* neither cancelled nor teed away from it.
UnusedIsWhole ==
    \A r \in 1..made :
        ~used[r] /\ "cancel" \notin touched[r] =>
            \/ inline[r]
            \/ avail[r] /\ root = "none" /\ handle # "released"
            \/ source[r] = "open" /\ at[r] = 0 /\ root \notin {"none", "cancelled"}
            \/ payload = "empty"

\* text() resolves with part of a body only if the caller cancelled the stream
\* of this very response; it resolves with nothing only if there was no body
\* or the native store dropped it.  Cancelling or failing to read one of two
\* clones never shortens the other.
PartialOnlyByOwnCancel ==
    \A r \in 1..made :
        /\ outcome[r] = "short" => "cancel" \in touched[r]
        /\ outcome[r] = "empty" => payload = "empty" \/ handle = "expired"

\* The bytes of a body are handed out once per response: not by text() and
\* again by its stream.  The clone of a response whose inline bytes had become
\* a stream is the exception: its constructor finds the bytes in the copied
\* payload although it was given a branch of the stream.
SingleRead ==
    \A r \in 1..made :
        "direct" \in touched[r] /\ taken[r] > 0 => r # 1 /\ payload = "inline"

\* bodyUsed is set on the response whose body was asked for and on no other:
\* reading a clone leaves the original unused, and the other way round.
UsedIsOwn ==
    \A r \in Responses : used[r] => touched[r] # {}

\* bodyUsed says the truth: a response that is unused can be read whole, and
\* one that is used was used itself.
BodyUsedIsTrue == UnusedIsWhole /\ UsedIsOwn

\* What the ways to read a body return is the body: all of it, and once.
ReadsAreExact == PartialOnlyByOwnCancel /\ SingleRead

\* JavaScript gives the native body up when its stream ends in any way, and
\* before that only if no response can read it any more.
ReleaseFollowsReaders ==
    /\ root \in {"closed", "failed", "cancelled"} => handle # "live"
    /\ handle = "released" /\ root = "cancelled" =>
           \A r \in 1..made : source[r] = "cancelled" \/ taken[r] = Chunks

\* text() settles, also on one of two clones while nobody reads the other.
ConsumeSettles ==
    \A r \in Responses :
        outcome[r] \in {"native", "reading"} ~>
            outcome[r] \in {"whole", "short", "empty", "failed"}
=============================================================================
