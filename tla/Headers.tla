------------------------------- MODULE Headers -------------------------------
(***************************************************************************)
(* The Headers class and the functions on header lists of wreq-js.ts.      *)
(*                                                                         *)
(* A name is a record of its lower-case key and of the form it is written  *)
(* in; what trim() removes is no part of either.  A value is a sequence of *)
(* atoms, and join(", ") is concatenation: a joined value and a value that *)
(* was given with commas are the same text.  A store is the Map in its     *)
(* order of insertion.                                                     *)
(***************************************************************************)
EXTENDS Integers, FiniteSets, SequencesExt

CONSTANTS
    Keys,       \* lower-case names
    SetCookie,  \* the key of set-cookie
    Forms,      \* ways to write a name
    None        \* undefined, null

\* A name that is blank: normalizeName throws.
Blank == "blank"
Throws(n) == n.key = Blank

ASSUME HeadersAssumption == SetCookie \in Keys /\ Blank \notin Keys

Name(k, f) == [key |-> k, form |-> f]
HeaderTuple(n, v) == [name |-> n, value |-> v]
Entry(n, v) == [name |-> n, values |-> <<v>>]

\* filter(): what of a list is in a set.
Kept(s, S) == FlattenSeq([i \in DOMAIN s |-> IF s[i] \in S THEN <<s[i]>> ELSE <<>>])

Has(h, k) == \E i \in DOMAIN h : h[i].name.key = k
EntryOf(h, k) == h[CHOOSE i \in DOMAIN h : h[i].name.key = k]

\* get() joins the values; getSetCookie() does not.
Get(h, k) == IF Has(h, k) THEN FlattenSeq(EntryOf(h, k).values) ELSE None
GetSetCookie(h) == IF Has(h, SetCookie) THEN EntryOf(h, SetCookie).values ELSE <<>>

-----------------------------------------------------------------------------
(* The operations of the class.                                            *)

\* Replaces the entry of a key in its place, or adds one at the end.
Put(h, e) ==
    IF Has(h, e.name.key)
    THEN [i \in DOMAIN h |-> IF h[i].name.key = e.name.key THEN e ELSE h[i]]
    ELSE Append(h, e)

\* Mutant: set() compares names as they are written.
MutHeaderSet(h, n, v) ==
    IF \E i \in DOMAIN h : h[i].name = n THEN Put(h, Entry(n, v)) ELSE Append(h, Entry(n, v))

\* set() takes the new form of the name, append() keeps the first one.
HeaderSet(h, n, v) == Put(h, Entry(n, v))

HeaderAppend(h, n, v) ==
    IF Has(h, n.key)
    THEN Put(h, [EntryOf(h, n.key) EXCEPT !.values = Append(@, v)])
    ELSE Append(h, Entry(n, v))

HeaderDelete(h, k) == Kept(h, {e \in Range(h) : e.name.key # k})

\* Mutant: the iterator joins the values of set-cookie as well.
MutToTuples(h) ==
    [i \in DOMAIN h |-> HeaderTuple(h[i].name, FlattenSeq(h[i].values))]

\* The iterator: one pair for an entry, but one for every set-cookie.
ToTuples(h) ==
    FlattenSeq([i \in DOMAIN h |->
        IF h[i].name.key = SetCookie
        THEN [j \in DOMAIN h[i].values |-> HeaderTuple(h[i].name, h[i].values[j])]
        ELSE <<HeaderTuple(h[i].name, FlattenSeq(h[i].values))>>])

\* How the constructor adds a pair: append() for a list of pairs, set() for a
\* plain object, of which a property without a value is skipped and the last of
\* several spellings of a name wins.
AddTuple(kind, h, t) ==
    IF kind # "object" THEN HeaderAppend(h, t.name, t.value)
    ELSE IF t.value = None THEN h
    ELSE HeaderSet(h, t.name, t.value)

AddedTuples(kind, ts) ==
    LET h[i \in 0..Len(ts)] == IF i = 0 THEN <<>> ELSE AddTuple(kind, h[i - 1], ts[i])
    IN h[Len(ts)]

FromTuples(ts) == AddedTuples("tuples", ts)

(* HeadersInit: a list of pairs, a plain object, or a Headers object, whose  *)
(* pairs are those of its iterator.                                          *)
InitOf(kind, ts) == [kind |-> kind, items |-> ts]

InitThrows(init) ==
    \E t \in Range(init.items) :
        IF init.kind = "object" THEN t.value # None /\ Throws(t.name)
                                ELSE t.value = None \/ Throws(t.name)

NewHeaders(init) == AddedTuples(init.kind, init.items)

HeadersToTuples(init) == ToTuples(NewHeaders(init))

-----------------------------------------------------------------------------
(* Functions on header lists.                                              *)

NonEmpty(ts) == IF ts = <<>> THEN None ELSE ts

NormalizeProxyHeaders(init) == IF init = None THEN None ELSE NonEmpty(HeadersToTuples(init))

\* Mutant: a name that occurs twice counts once.
MutHeaderTuplesEqual(a, b) ==
    LET Pairs(ts) == IF ts = None THEN {} ELSE {<<t.name.key, t.value>> : t \in Range(ts)}
    IN Pairs(a) = Pairs(b)

\* headerTuplesEqual: the same pairs equally often, names in lower case.
HeaderTuplesEqual(a, b) ==
    LET List(ts) == IF ts = None THEN <<>> ELSE ts
        Times(ts, k, v) == Cardinality({i \in DOMAIN ts : ts[i].name.key = k /\ ts[i].value = v})
    IN /\ Len(List(a)) = Len(List(b))
       /\ \A t \in Range(List(a)) :
             Times(List(a), t.name.key, t.value) = Times(List(b), t.name.key, t.value)

HasHeaderName(ts, k) == ts # None /\ \E t \in Range(ts) : t.name.key = k

\* What mergeHeaderTuples returns is the array of the defaults itself, and not
\* a copy, if nothing overrides it.
MergeIsDefaults(defaults, overrides) ==
    defaults # None /\ (overrides = None \/ HeadersToTuples(overrides) = <<>>)

\* Mutant: names are compared as they are written.
MutMergeHeaderTuples(defaults, overrides) ==
    LET o == IF overrides = None THEN <<>> ELSE HeadersToTuples(overrides)
    IN IF defaults = None THEN (IF overrides = None THEN None ELSE o)
       ELSE Kept(defaults, {t \in Range(defaults) : \A x \in Range(o) : x.name # t.name}) \o o

MergeHeaderTuples(defaults, overrides) ==
    LET o == IF overrides = None THEN <<>> ELSE HeadersToTuples(overrides)
    IN IF MergeIsDefaults(defaults, overrides) THEN defaults
       ELSE IF defaults = None THEN (IF overrides = None THEN None ELSE o)
       ELSE Kept(defaults, {t \in Range(defaults) : ~HasHeaderName(o, t.name.key)}) \o o

-----------------------------------------------------------------------------
(* What they promise, over all short lists.                                *)

CONSTANTS
    Values,    \* atoms of values
    MaxTuples  \* bound: length of the lists the properties range over

Names == {Name(k, f) : k \in Keys, f \in Forms}
Tuples == {HeaderTuple(n, <<v>>) : n \in Names, v \in Values}
TupleLists == SeqOf(Tuples, MaxTuples)
Inits == {InitOf(kind, ts) : kind \in {"tuples", "object"}, ts \in TupleLists}
Defaults == {ToTuples(NewHeaders(i)) : i \in Inits}

\* A Headers object is a map that ignores the spelling of names, after whatever
\* it was made from: an operation changes the name it is given and no other.
IsMap ==
    \A i \in Inits, n \in Names, v \in Values, k \in Keys :
        LET h == NewHeaders(i)
            Becomes(x, new) == Get(x, k) = IF k = n.key THEN new ELSE Get(h, k)
        IN /\ Becomes(HeaderSet(h, n, <<v>>), <<v>>)
           /\ Becomes(HeaderAppend(h, n, <<v>>), IF Has(h, n.key) THEN Append(Get(h, n.key), v) ELSE <<v>>)
           /\ Becomes(HeaderDelete(h, n.key), None)

\* headersToTuples is applied again and again on the way of a header (a Headers
\* object into a call, defaults into a session): going through Headers once
\* more changes nothing, and no Set-Cookie is lost or joined.
RoundTrip ==
    \A i \in Inits :
        LET ts == HeadersToTuples(i)
        IN /\ HeadersToTuples(InitOf("tuples", ts)) = ts
           /\ GetSetCookie(FromTuples(ts)) = GetSetCookie(NewHeaders(i))

\* A request carries for every name what the caller gave if the caller gave
\* anything, and the defaults of the session else, however names are spelled.
MergePrefersCaller ==
    \A d \in Defaults, i \in Inits :
        LET merged == FromTuples(MergeHeaderTuples(d, i))
            own == NewHeaders(i)
        IN \A k \in Keys :
              Get(merged, k) = IF Has(own, k) THEN Get(own, k) ELSE Get(FromTuples(d), k)

\* A call may repeat the proxy headers of its session, in any order and
\* spelling; if headerTuplesEqual lets it pass, both mean the same headers:
\* every name is there for both, with the same values.
EqualMeansSame ==
    \A a, b \in Defaults :
        HeaderTuplesEqual(a, b) =>
            \A k \in Keys \ {SetCookie} :
                /\ Get(FromTuples(a), k) = Get(FromTuples(b), k)
                /\ Len(GetSetCookie(FromTuples(a))) = Len(GetSetCookie(FromTuples(b)))
==============================================================================
