------------------------------ MODULE Emulation ------------------------------
(***************************************************************************)
(* Which fingerprint a call asks for: browser aliases, operating systems   *)
(* and custom emulation records.  wreq-js.ts validates and normalizes them *)
(* and hands a profile or a JSON record to the native side, and            *)
(* custom_emulation.rs validates the record again with rules of its own.   *)
(* Both sets of rules are written down here, field by field, and compared. *)
(*                                                                         *)
(* A record is a function from the fields that are set.  Numbers stand for *)
(* magnitudes: the limits of the code are constants in the order in which  *)
(* they really are.                                                        *)
(***************************************************************************)
EXTENDS Headers

CONSTANTS
    NativeProfiles,  \* profiles of the native library
    Systems,         \* getOperatingSystems()
    Aliases,         \* BROWSER_ALIASES
    Error,           \* a RequestError is thrown
    U8, MinBuffer, U16, U31, U32  \* 255, 8192, 65535, 2^31 - 1, 2^32 - 1

DefaultBrowser == Aliases["chrome"]
DefaultOs == "macos"

ASSUME EmulationAssumption ==
    /\ Aliases \in [DOMAIN Aliases -> NativeProfiles] /\ "chrome" \in DOMAIN Aliases
    /\ "macos" \in Systems
    /\ Error \notin NativeProfiles \cup {None}
    /\ {U8, MinBuffer, U16, U31, U32} \subseteq Nat
    /\ 0 < U8 /\ U8 < MinBuffer /\ MinBuffer < U16 /\ U16 < U31 /\ U31 < U32

-----------------------------------------------------------------------------
(* The fields.  A kind says what JavaScript demands of a value and what    *)
(* the native type can hold.                                               *)

Unchecked == [kind |-> "any"]
Version == [kind |-> "version"]
Dependency == [kind |-> "dependency"]
Priorities == [kind |-> "priorities"]
Extensions == [kind |-> "extensions"]
Number(least, most, native) ==
    [kind |-> "number", least |-> least, most |-> most, native |-> native]
List(allowed, distinct, native) ==
    [kind |-> "list", allowed |-> allowed, distinct |-> distinct, native |-> native]

Unlimited == U32 + 2   \* usize and u64 hold every integer of JavaScript

Protocols == {"HTTP1", "HTTP2", "HTTP3"}
Compressors == {"zlib", "brotli", "zstd"}
SettingIds == {"HeaderTableSize", "EnablePush", "MaxConcurrentStreams", "InitialWindowSize",
    "MaxFrameSize", "MaxHeaderListSize", "EnableConnectProtocol", "NoRfc7540Priorities"}
PseudoIds == {"Method", "Scheme", "Authority", "Path", "Protocol"}
Versions == {"1.0", "1.1", "1.2", "1.3"}
VersionAliases ==
    [v \in Versions \cup {"tls1.0", "tls1.1", "tls1.2", "tls1.3"} |->
        CASE v = "tls1.0" -> "1.0" [] v = "tls1.1" -> "1.1"
          [] v = "tls1.2" -> "1.2" [] v = "tls1.3" -> "1.3" [] OTHER -> v]

TlsFlags ==
    {"alpsUseNewCodepoint", "sessionTicket", "preSharedKey", "enableEchGrease",
     "permuteExtensions", "greaseEnabled", "enableOcspStapling",
     "enableSignedCertTimestamps", "pskSkipSessionTicket", "pskDheKe",
     "renegotiation", "aesHwOverride", "preserveTls13CipherList",
     "randomAesHwOverride", "delegatedCredentials", "curvesList", "cipherList",
     "sigalgsList"}

TlsFields ==
    [f \in TlsFlags \cup {"minTlsVersion", "maxTlsVersion", "alpnProtocols", "alpsProtocols",
            "certificateCompressionAlgorithms", "extensionPermutation", "recordSizeLimit"} |->
        CASE f \in TlsFlags -> Unchecked
          [] f \in {"minTlsVersion", "maxTlsVersion"} -> Version
          [] f \in {"alpnProtocols", "alpsProtocols"} -> List(Protocols, FALSE, FALSE)
          [] f = "certificateCompressionAlgorithms" -> List(Compressors, TRUE, FALSE)
          [] f = "extensionPermutation" -> Extensions
          [] f = "recordSizeLimit" -> Number(0, U16, U16)]

Http1Flags ==
    {"http09Responses", "writev", "ignoreInvalidHeadersInResponses",
     "allowSpacesAfterHeaderNameInResponses", "allowObsoleteMultilineHeadersInResponses"}

Http1Fields ==
    [f \in Http1Flags \cup {"maxHeaders", "readBufExactSize", "maxBufSize"} |->
        CASE f \in Http1Flags -> Unchecked
          [] f \in {"maxHeaders", "readBufExactSize"} -> Number(0, None, Unlimited)
          [] f = "maxBufSize" -> Number(MinBuffer, None, Unlimited)]

Http2Flags ==
    {"adaptiveWindow", "keepAliveWhileIdle", "enablePush", "enableConnectProtocol",
     "noRfc7540Priorities"}
Http2Words ==
    {"initialStreamId", "initialConnectionWindowSize", "initialWindowSize", "maxFrameSize",
     "maxConcurrentStreams", "maxHeaderListSize", "headerTableSize"}
Http2Sizes ==
    {"initialMaxSendStreams", "keepAliveInterval", "keepAliveTimeout",
     "maxConcurrentResetStreams", "maxSendBufferSize", "maxPendingAcceptResetStreams"}

Http2Fields ==
    [f \in Http2Flags \cup Http2Words \cup Http2Sizes
           \cup {"settingsOrder", "headersPseudoOrder", "headersStreamDependency", "priorities"} |->
        CASE f \in Http2Flags -> Unchecked
          [] f \in Http2Words -> Number(0, None, U32)
          [] f \in Http2Sizes -> Number(0, None, Unlimited)
          [] f = "settingsOrder" -> List(SettingIds, TRUE, TRUE)
          [] f = "headersPseudoOrder" -> List(PseudoIds, TRUE, TRUE)
          [] f = "headersStreamDependency" -> Dependency
          [] f = "priorities" -> Priorities]

GroupFields == [tlsOptions |-> TlsFields, http1Options |-> Http1Fields, http2Options |-> Http2Fields]

-----------------------------------------------------------------------------
(* JavaScript: normalizeCustomTlsOptions and its siblings.                 *)

DependencyValid(d) ==
    /\ d.dependencyId \in 0..U31
    /\ d.weight \in 0..U8

\* Mutant: two priorities for one stream.
MutPrioritiesValid(ps) ==
    \A i \in DOMAIN ps : ps[i].streamId > 0 /\ DependencyValid(ps[i].dependency)

PrioritiesValid(ps) ==
    /\ \A i \in DOMAIN ps : ps[i].streamId > 0 /\ DependencyValid(ps[i].dependency)
    /\ \A i, j \in DOMAIN ps : ps[i].streamId = ps[j].streamId => i = j

Valid(kind, v) ==
    CASE kind.kind = "any" -> TRUE
      [] kind.kind = "version" -> v \in DOMAIN VersionAliases
      [] kind.kind = "number" -> v >= kind.least /\ (kind.most # None => v <= kind.most)
      [] kind.kind = "list" -> /\ Range(v) \subseteq kind.allowed
                               /\ kind.distinct => IsInjective(v)
      [] kind.kind = "extensions" -> Range(v) \subseteq 0..U16 /\ IsInjective(v)
      [] kind.kind = "dependency" -> DependencyValid(v)
      [] kind.kind = "priorities" -> PrioritiesValid(v)

\* Only versions are rewritten.
Normal(kind, v) == IF kind.kind = "version" THEN VersionAliases[v] ELSE v

Exclusive(opts) == {"readBufExactSize", "maxBufSize"} \subseteq DOMAIN opts

\* A group: unknown fields are dropped, and a group without fields is none.
NormalizeGroup(g, opts) ==
    LET known == DOMAIN opts \cap DOMAIN GroupFields[g]
    IN IF (g = "http1Options" /\ Exclusive(opts)) \/ \E f \in known : ~Valid(GroupFields[g][f], opts[f]) THEN Error
       ELSE IF known = {} THEN None
       ELSE [f \in known |-> Normal(GroupFields[g][f], opts[f])]

\* normalizeOrigHeaders: names in their order, none twice in any spelling.
NormalizeOrigHeaders(names) ==
    IF (\E i \in DOMAIN names : Throws(names[i]))
       \/ (\E i, j \in DOMAIN names : i # j /\ names[i].key = names[j].key)
    THEN Error ELSE NonEmpty(names)

NormalizePart(part, v) ==
    CASE part = "headers" -> IF InitThrows(v) THEN Error ELSE NonEmpty(HeadersToTuples(v))
      [] part = "origHeaders" -> NormalizeOrigHeaders(v)
      [] OTHER -> NormalizeGroup(part, v)

\* normalizeCustomEmulationOptions and serializeCustomEmulationOptions.
NormalizeCustom(emulation, allowEmpty) ==
    IF emulation = None THEN None
    ELSE LET parts == [p \in DOMAIN emulation |-> NormalizePart(p, emulation[p])]
             kept == {p \in DOMAIN parts : parts[p] # None}
         IN IF (\E p \in DOMAIN parts : parts[p] = Error) \/ (kept = {} /\ ~allowEmpty) THEN Error
            ELSE IF kept = {} THEN None
            ELSE [p \in kept |-> parts[p]]

-----------------------------------------------------------------------------
(* The mode of a call.                                                     *)

\* validateBrowserProfile and resolveProfile, with the profiles in the cache.
ResolveProfile(known, browser) ==
    IF browser \in DOMAIN Aliases THEN Aliases[browser]
    ELSE IF browser \in known THEN browser
    ELSE Error

Preset(browser, os, custom) == [browser |-> browser, os |-> os, custom |-> custom]

\* Mutant: a browser without an operating system is passed on alone.
MutResolveEmulationMode(known, browser, os, emulation) ==
    Preset(IF browser = None THEN None ELSE ResolveProfile(known, browser), os,
           NormalizeCustom(emulation, TRUE))

\* resolveEmulationMode and applyNativeEmulationMode: what the native side
\* gets.  A browser or an operating system makes a preset, a record alone a
\* custom emulation, nothing at all the default preset.
ResolveEmulationMode(known, browser, os, emulation) ==
    LET profile == IF browser = None THEN DefaultBrowser ELSE ResolveProfile(known, browser)
        preset == browser # None \/ os # None
        custom == NormalizeCustom(emulation, preset)
    IN IF profile = Error \/ custom = Error \/ os \notin Systems \cup {None} THEN Error
       ELSE IF ~preset /\ emulation # None THEN Preset(None, None, custom)
       ELSE Preset(profile, IF os = None THEN DefaultOs ELSE os, custom)

-----------------------------------------------------------------------------
(* The native side.                                                        *)

\* serde and the build_ functions for a field.
NativeBuilds(kind, v) ==
    CASE kind.kind = "any" -> TRUE
      [] kind.kind = "version" -> v \in Versions
      [] kind.kind = "number" -> v \in 0..kind.native
      [] kind.kind = "list" -> /\ Range(v) \subseteq kind.allowed
                               /\ kind.native => IsInjective(v)
      [] kind.kind = "extensions" -> Range(v) \subseteq 0..U16
      [] kind.kind = "dependency" -> v.dependencyId \in 0..U32 /\ v.weight \in 0..U8
      [] kind.kind = "priorities" ->
            /\ \A i \in DOMAIN v : /\ v[i].streamId \in 1..U32
                                   /\ v[i].dependency.dependencyId \in 0..U32
                                   /\ v[i].dependency.weight \in 0..U8
            /\ \A i, j \in DOMAIN v : v[i].streamId = v[j].streamId => i = j

NativeBuildsGroup(g, opts) ==
    /\ \A f \in DOMAIN opts : NativeBuilds(GroupFields[g][f], opts[f])
    /\ g = "http1Options" =>
          /\ ~Exclusive(opts)
          /\ "maxBufSize" \in DOMAIN opts => opts.maxBufSize >= MinBuffer

\* resolve_emulation: the combinations the native side has a meaning for, and
\* payload_is_empty for a record that comes alone.
NativeResolves(mode) ==
    \/ mode.browser \in NativeProfiles /\ mode.os \in Systems
    \/ mode.browser = None /\ mode.os = None /\ mode.custom # None /\ DOMAIN mode.custom # {}

-----------------------------------------------------------------------------
(* What they promise.                                                      *)

Magnitudes == {0 - 1, 0, 1, U8, U8 + 1, MinBuffer - 1, MinBuffer, U16, U16 + 1, U31, U31 + 1, U32, U32 + 1}
Dependencies == [dependencyId : Magnitudes, weight : {0 - 1, 0, U8, U8 + 1}]
SamplePriorities ==
    SeqOf([streamId : {0, 1, U32, U32 + 1},
           dependency : {[dependencyId |-> d, weight |-> 0] : d \in {0, U31, U31 + 1}}], 2)
Samples(kind) ==
    CASE kind.kind = "any" -> {TRUE}
      [] kind.kind = "version" -> DOMAIN VersionAliases \cup {"2.0"}
      [] kind.kind = "number" -> Magnitudes
      [] kind.kind = "list" -> SeqOf(kind.allowed \cup {"other"}, 2)
      [] kind.kind = "extensions" -> SeqOf(Magnitudes, 2)
      [] kind.kind = "dependency" -> Dependencies
      [] kind.kind = "priorities" -> SamplePriorities

\* Every field alone, and the two fields that exclude each other.
Single(f, v) == [x \in {f} |-> v]
Singles(g) ==
    UNION {{Single(f, v) : v \in Samples(GroupFields[g][f])} : f \in DOMAIN GroupFields[g]}
Pairs(g) ==
    IF g = "http1Options"
    THEN {[readBufExactSize |-> m, maxBufSize |-> n] : m \in Magnitudes, n \in Magnitudes}
    ELSE {}
Records(g) == Singles(g) \cup {<<>>} \cup Pairs(g)

TooWide(kind, v) ==
    CASE kind.kind = "number" -> v > kind.native
      [] kind.kind = "priorities" -> \E i \in DOMAIN v : v[i].streamId > U32
      [] OTHER -> FALSE

\* A record that JavaScript accepts is refused natively, after a session or a
\* call has been set up for it, only for a number that its native type cannot
\* hold; the two sets of rules agree on everything else.
AcceptedIsBuilt ==
    \A g \in DOMAIN GroupFields : \A opts \in Records(g) :
        LET normal == NormalizeGroup(g, opts)
        IN normal \notin {Error, None} =>
              \/ NativeBuildsGroup(g, normal)
              \/ \E f \in DOMAIN normal : TooWide(GroupFields[g][f], normal[f])

BrowserInputs == NativeProfiles \cup DOMAIN Aliases \cup {"unknown", None}
OsInputs == Systems \cup {"unknown", None}
SomeHeader == <<HeaderTuple(CHOOSE n \in Names : TRUE, <<CHOOSE v \in Values : TRUE>>)>>
EmulationInputs ==
    {None, <<>>, [tlsOptions |-> <<>>], [http1Options |-> [unknownField |-> TRUE]],
     [headers |-> InitOf("tuples", <<>>)], [headers |-> InitOf("tuples", SomeHeader)],
     [headers |-> InitOf("object", SomeHeader), http2Options |-> <<>>],
     [origHeaders |-> <<>>], [tlsOptions |-> [minTlsVersion |-> "2.0"]]}

\* Whatever combination of options a call is given, the native side never has
\* to answer for one it has no meaning for: an alias, an unknown profile (which
\* it would silently replace by Chrome), half a preset, or an empty record.
ModeIsResolvable ==
    \A b \in BrowserInputs, o \in OsInputs, e \in EmulationInputs :
        LET mode == ResolveEmulationMode(NativeProfiles, b, o, e)
        IN mode # Error => NativeResolves(mode)
==============================================================================
