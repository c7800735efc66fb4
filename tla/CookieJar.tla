------------------------------ MODULE CookieJar ------------------------------
(***************************************************************************)
(* What setCookies and getAllCookies do with the jar that Sessions has     *)
(* found for them.  A jar is a set of entries, at most one for a host, a   *)
(* path and a name; the jar itself belongs to the HTTP library, and Add is *)
(* what client.rs relies on it for.                                        *)
(*                                                                         *)
(* A host stands for a URL of it.  Times are past, future or none.         *)
(***************************************************************************)
EXTENDS Integers, SequencesExt

CONSTANTS
    CookieNames, Hosts,
    Paths,     \* paths that begin with a slash
    Nothing    \* an attribute or argument that is absent

\* A name or a host that is blank.
Blank == "blank"

ASSUME CookieAssumption ==
    /\ "/" \in Paths /\ Nothing \notin Hosts \cup Paths \cup {"past", "nan", "sometimes"}
    /\ Blank \notin CookieNames \cup Hosts

Origin(host, secure) == [host |-> host, secure |-> secure]
Entry(host, cookie) == [host |-> host, cookie |-> cookie]
Key(e) == <<e.host, e.cookie.path, e.cookie.name>>

\* Jar::add: a domain attribute beats the origin; a secure cookie neither comes
\* from an insecure origin nor is overwritten by one; an expired cookie removes.
Add(jar, c, origin) ==
    LET e == Entry(IF c.domain = Nothing THEN origin.host ELSE c.domain, c)
        same == {x \in jar : Key(x) = Key(e)}
    IN IF ~origin.secure /\ \E x \in same \cup {e} : x.cookie.secure THEN jar
       ELSE (jar \ same) \cup (IF c.expires = "past" THEN {} ELSE {e})

\* get_all_session_cookies: the host that an entry is filed under stays inside.
Export(jar) == {e.cookie : e \in jar}

\* Mutant: a cookie that is not secure is restored over http.
MutRestoreOrigin(host, input) == Origin(host, input.secure)

\* The jar is shown a secure origin, whatever the cookie came from.
RestoreOrigin(host, input) == Origin(host, TRUE)

\* A cookie's host is that of its domain, of its own url or of the batch.
Domain(input) == IF input.domain = Blank THEN Nothing ELSE input.domain
HostFor(input, default) ==
    IF Domain(input) # Nothing THEN Domain(input)
    ELSE IF input.url # Nothing THEN input.url ELSE default

\* The first pass of set_session_cookies over one cookie.
Refused(input, default) ==
    \/ input.name = Blank
    \/ HostFor(input, default) \notin Hosts
    \/ input.sameSite \notin {Nothing, "lax", "strict", "none"}
    \/ input.expires = "nan"

Prepare(input, default) ==
    [origin |-> RestoreOrigin(HostFor(input, default), input),
     cookie |-> [name |-> input.name, domain |-> Domain(input), secure |-> input.secure,
                 path |-> IF input.path \in Paths THEN input.path ELSE "/",
                 sameSite |-> input.sameSite, expires |-> input.expires]]

\* Its second pass.
StoreOne(jar, input, default) ==
    LET p == Prepare(input, default) IN Add(jar, p.cookie, p.origin)

Store(jar, batch, default) ==
    LET after[i \in 0..Len(batch)] ==
            IF i = 0 THEN jar ELSE StoreOne(after[i - 1], batch[i], default)
    IN after[Len(batch)]

\* Mutant: the cookies around the bad one are stored.
MutRestore(jar, batch, default) ==
    LET good == SelectSeq(batch, LAMBDA c : ~Refused(c, default))
    IN [jar |-> Store(jar, good, default), ok |-> good = batch]

\* set_session_cookies: the second pass only if the first has refused nothing.
Restore(jar, batch, default) ==
    IF default \in Hosts \cup {Nothing} /\ \A i \in DOMAIN batch : ~Refused(batch[i], default)
    THEN [jar |-> Store(jar, batch, default), ok |-> TRUE]
    ELSE [jar |-> jar, ok |-> FALSE]

-----------------------------------------------------------------------------
(* What they promise.                                                      *)

JarEntries ==
    {Entry(h, [name |-> n, domain |-> d, path |-> p, secure |-> s, sameSite |-> Nothing, expires |-> "future"]) :
        h \in Hosts, n \in CookieNames, d \in Hosts \cup {Nothing}, p \in Paths, s \in BOOLEAN}
SmallJars ==
    {jar \in {{x, y} : x, y \in {e \in JarEntries : e.cookie.domain \in {e.host, Nothing}}} \cup {{}} :
        \A x, y \in jar : Key(x) = Key(y) => x = y}
Input(c) ==
    [name |-> c.name, domain |-> c.domain, url |-> Nothing, path |-> c.path, secure |-> c.secure,
     sameSite |-> c.sameSite, expires |-> c.expires]
Inputs(cookies) == {Input(c) : c \in cookies}

\* A saved jar comes back as it was, in whatever order it was exported and
\* whatever is in the jar it is restored into, if the host-only cookies were
\* all of the host that setCookies is given.
RestoreIsExact ==
    \A jar, target \in SmallJars, h \in Hosts :
        (\A e \in jar : e.cookie.domain = Nothing => e.host = h) =>
            \A batch \in SetToSeqs(Inputs(Export(jar))) :
                Restore(target, batch, h) =
                    [ok |-> TRUE,
                     jar |-> jar \cup {t \in target : \A e \in jar : Key(e) # Key(t)}]

BatchInputs ==
    [name : CookieNames \cup {Blank}, domain : {Nothing, "invalid"} \cup Hosts,
     url : {Nothing, CHOOSE h \in Hosts : TRUE}, path : {"account"} \cup Paths, secure : {FALSE},
     sameSite : {Nothing, "sometimes"}, expires : {Nothing, "past", "nan"}]

\* A batch is restored as a whole or not at all: if it is refused the jar is
\* what it was, and else no cookie that lives has been left out.
BatchIsAtomic ==
    \A a, b \in BatchInputs, default \in {Nothing, CHOOSE h \in Hosts : TRUE} :
        LET r == Restore({}, <<a, b>>, default)
            stored == {e.cookie.name : e \in r.jar}
        IN IF r.ok
           THEN /\ \A c \in {a, b} : c.name # Blank /\ c.sameSite # "sometimes" /\ c.expires # "nan"
                /\ b.expires # "past" => b.name \in stored
                /\ a.expires # "past" => a.name \in stored \/ b.expires = "past"
           ELSE r.jar = {}
==============================================================================
