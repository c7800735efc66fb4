# A TLA+ model of wreq-js

wreq-js is an HTTP and WebSocket client for Node.js. A TypeScript layer
(`src/src/wreq-js.ts`) gives fetch-like objects; a Rust addon (`src/rust/src`)
does the network work on a tokio runtime, on top of the external crate `wreq`.
The two meet in a set of neon functions, in process-wide maps keyed by numbers
or ids, and in one neon channel that queues closures for the JavaScript thread.

This directory models the parts in which the two sides race with each other, the
objects on which callers race with themselves (responses and their clones,
listeners, init objects, shared default headers) and the conversions that decide
what is sent. TLC checks all of it on small instances; TLAPS proves the safety
of the parts named in section 4 for every instance.

## 1. Inventory

| Component | State | Operations | Hard behaviour |
|---|---|---|---|
| Request dispatch, abort, cancellation (`dispatchRequest`, `setupAbort`, `request`, `make_request`, `cancel_request`) | promise, abort listener; `REQUEST_CANCELLATIONS`; the task of the request | dispatch, abort, cancel, the awaits of the task, settle | abort against completion, cancellation at each await, events and settlement as separate closures, timeouts |
| Response body (`createNativeBodyStream`, `consumeBody`, `read_body_chunk`, `read_body_all`) | `NativeBodyHandle`, `bodyHandleFinalizer`; `BODY_STREAMS`, `BODY_EVENT_STATES` | read all, pull, cancel, collect, expire | garbage collection, idle expiry, errors half way, cancel during a pull |
| Response object (`Response`, `wrapBodyStream`) | payload kind, `bodyUsed`, inline bytes, the stream and its source, clones | `body`, `clone`, `text`/`json`/..., `readable`, cancel | streams that pull by themselves, tee after partial use, one clone cancelled or failing |
| WebSocket (`WebSocket`, `setup_ws_callbacks`, `websocket_*`) | readyState and five flags, `_pendingMessages`, `_sendChain`; `WS_CONNECTIONS`, the event queue, the semaphore | construct, send, close, the native receiver and dispatcher | close before connect, close events from four sources, back-pressure |
| Events of a WebSocket (`addEventListener`, `dispatchEvent`, `onmessage`..., legacy callbacks) | `_listeners`, handlers, order counter, abort handlers on signals | add, remove, assign, abort, dispatch | listeners that change the listeners, once, exceptions |
| Sessions, transports, cookie jars (`Session`, `Transport`, `SESSION_MANAGER`, `TRANSPORT_MANAGER`) | disposed flags, `transportId`, the native map of clients and the cache of jars | create, fetch, clear, close, idle expiry | use after close, a request in flight while its session closes |
| Ephemeral clients (`EPHEMERAL_MANAGER`) | cache of clients by configuration | get or build | eviction |
| Arguments of a call (`fetch`, `resolveFetchArgs`, `request`, `get`, `post`, `Session.fetch`) | the init object, a shared array of default headers, cached profiles | resolve, serialize the body, send | objects of the caller that are read again after an await, arrays handed out by reference |
| Headers (`Headers`, header tuples) | a map that keeps spelling and order | set, append, delete, iterate, merge, compare | spelling, Set-Cookie, lists that go through it more than once |
| Emulation (`resolveEmulationMode`, `custom_emulation.rs`) | none (pure) | validate, normalize, resolve | two sets of rules for one record |
| WebSocket options (`new WebSocket`, `websocket`, `session.websocket`) | none (pure) | validate, normalize | three copies of the same steps |
| Cookie functions (`setCookies`, `getAllCookies`) | a jar | restore, export | all of a batch or nothing; what an export leaves out |
| Loader, profile data, benchmarks, scripts, docs | none | | |

How they interact. JavaScript calls a neon function; it returns a promise or a
value. A request spawns a tokio task; a body read, a send and a close spawn one
each. Tasks answer by closures on the channel, which Node runs one at a time,
in order. The maps above are shared by all tasks and by the JavaScript thread.
Garbage collection calls back into the native side through
`FinalizationRegistry`.

### What makes each part correct

- A request settles exactly once, after all its events; an abort reaches the
  native task as long as the caller waits; nothing is left in the shared maps by
  a request that failed.
- A body that JavaScript calls complete is the whole body; a body somebody holds
  is lost only to the idle expiry; one nobody holds is released.
- A WebSocket shows messages in order and none after its close event; it always
  has something that will bring that event; its native connection is released;
  a fast peer cannot make the process hold more than the configured backlog.
- A Response that says it is unused can be read whole, whatever happens to its
  clones, and what `text()` returns is the body, once.
- A listener runs in its turn and a once listener once; signals keep no handler
  of a listener that is gone; no listener can keep the close event away.
- What reaches the native side is what one call of the caller asked for: checks
  made before an await still hold after it, headers of other calls do not leak,
  and what JavaScript accepts the native side can build.
- A batch of cookies is restored whole or not at all, and a saved jar comes back
  as it was.
- A session has one cookie jar, its own, until it is closed or idle for 300
  seconds; `close()` takes its jar and its transport away, and only a request
  that was already on its way can bring a jar back.

## 2. Modules

| Module | Models |
|---|---|
| `FetchContract` | what a caller is promised of one request: outcome and order of events |
| `Request` | `dispatchRequest` to the settlement of its promise; implements `FetchContract` |
| `RequestProofs` | theorems about `Request`, and that it implements `FetchContract` |
| `Lists` | lemmas on lists: how many entries of a kind are queued, induction, lists of lists |
| `Body` | extends `Request` by the consumption of streamed bodies |
| `BodyProofs` | theorems about `Body` |
| `WebSocket` | one socket and its native tasks |
| `WebSocketProofs` | theorems about `WebSocket` |
| `SessionContract` | what a user of sessions may rely on: one jar per session, and when it may change |
| `Sessions` | sessions, transports, cookie jars and the calls that use them; implements `SessionContract` |
| `SessionsProofs` | theorems about `Sessions`, and that it implements `SessionContract`; theorems about `CookieJar` |
| `CookieJar` | restoring and exporting a jar |
| `SessionCookies` | extends `Sessions` and `CookieJar`: what restoring and exporting promise, as an invariant |
| `ResponseObject` | a Response, its clones and its streams, in JavaScript |
| `ResponseProofs` | theorems about `ResponseObject` |
| `WebSocketEvents` | the listeners, handlers and dispatches of one WebSocket |
| `WebSocketEventsProofs` | theorems about `WebSocketEvents` |
| `Headers` | the Headers class and the functions on header tuples |
| `Emulation` | extends `Headers`: profiles, presets and custom emulation records, and what the native side makes of them |
| `WebSocketOptions` | extends `Emulation`: the options of the three ways to open a WebSocket |
| `FetchCall` | extends `Emulation`: a call from its arguments to the native options |
| `Arguments` | extends `FetchCall` and `WebSocketOptions`: what their operators promise, as invariants |
| `FetchCallProofs` | theorems about `FetchCall` and the operators of `Emulation` and `WebSocketOptions` |
| `MC...` | the instances TLC checks |

### Request

One function per request `r`. `js[r]` is the promise that `fetch` returned,
`signal[r]` the caller's AbortSignal, `listener` the abort listeners attached by
`setupAbort`, `native[r]` the program counter of the tokio task (`spawned`,
`sending` at the await of `send()`, `inline` at the await of `bytes()`,
`finishing` after the `select!`, `done`). `registry` is
`REQUEST_CANCELLATIONS`, `cancelled` the tokens that fired, `stream` and
`bodyEvents` are `BODY_STREAMS` and `BODY_EVENT_STATES`, `chan[r]` the closures
queued for the JavaScript thread. The neon channel is one queue for the whole
process; the closures of different requests commute, so one queue per request
is kept. A request without a signal gets no token. Body handles come from a
counter and are never reused, so the handle of a body is named by its request.

The JavaScript actions are the synchronous stretches of code: an already
aborted signal (`RejectAborted`), the native call that spawns the task
(`Dispatch`) or throws (`DispatchThrows`), the caller's abort with its listener
(`Abort`), and the two kinds of closure (`DeliverEvent`, `DeliverSettle`). The
continuation of `Promise.race` runs in the microtasks after a closure and is
part of that closure's action. The native actions are the stretches of the task
between two awaits. `NetworkFails` stands for every error of the network and for
the timeout. Redirects, cookies, headers and payloads are abstracted.

### FetchContract

The caller's view: the outcome of the promise and the log of events. An
observed request logs a path of the graph `request_start`, `request_sent`,
`response_headers`, `body_progress`..., `body_complete`, `done`, or an `error`
that ends it; no promise resolves or fails before its last event unless the
body is still to be read, and an outcome never changes.
`Request` refines it with `outcome <- js`; the request run checks that.

### Body

It extends the state of `Request` by what JavaScript does with a body handle.
`view[r]` says whether the body is untouched (`fresh`), under `readBodyAll`
(`all`), wrapped in a pulled stream (`open`) or how it ended; `held[r]` which
objects can still reach the handle (the Response, the stream) and `finalizer[r]`
which of them `bodyHandleFinalizer` watches. `read[r]` is the native read in
progress: `chunk?` and `all?` before it has looked up the handle, `chunk` and
`all` while it waits for the network, `replied` when its answer is queued.
Several reads of a handle at once do not occur: `consumeBody` guards by
`bodyUsed`, and a ReadableStream waits for its pull. `ResponseObject` has the
rest of the object: inline bodies, `clone` and `bodyUsed`.

### ResponseObject

A payload is inline, a body handle or empty. `used`, `inline`, `avail`, `source`
and `wrapper` are `bodyUsed`, `inlineBody`, `nativeHandleAvailable`, `bodySource`
and `bodyStream` of each response; the native body under all of them is one
`root` that produces chunks, ends, fails or expires, which is what `Body` says of
a handle. `tee` gives every chunk to both branches and a source is teed only while
nothing was read from it, so the tree of tees is flattened: each response owns a
leaf that carries the whole body, and the root is cancelled when all leaves are.
How far streams read ahead is left open (a leaf sees any chunk the root has
produced), except where the code decides it: `wrapBodyStream` has a high-water
mark of 1, so it pulls once by itself and sets `bodyUsed` by that (`FirstPull`),
even after `clone()` replaced it (`StalePull`). `touched` is a history variable.

### WebSocketEvents

`registered` is `_listeners`, `handler` the four `on...` fields with their places
in `_listenerOrderCounter`, `abortHooks` the abort handlers left on signals.
`agenda` holds the events that one native callback or microtask dispatches, `left`
the listeners the current dispatch has yet to call. A dispatch is synchronous, but
the listeners it calls may do anything the program may do, so the actions of the
program have no guard on it. A legacy callback that throws ends the native
callback it is called from; a listener that throws is caught, which is why no
variable records it. When an event comes is the subject of `WebSocket`; here any
order the flags admit.

### WebSocket

The variables follow the fields of the class (`ready` is `readyState`,
`connection` is `_connection`, and so on) and the two native tasks. The queue
`evq` and the semaphore `permits` have the capacity `Buffer`. The dispatcher
takes an event from its queue before it waits for a permit; here it takes both
in one step, so that the slot it holds counts as one of the queue: the model's
bound is one less than the code's. One `chan` carries all closures of the
socket, because their order matters. Microtasks (`DispatchOpen`, the send chain)
may run after a later closure here, although Node drains them first: the model
allows more behaviours, never fewer. The counterexamples of the violation runs
do not use this freedom. Ping and Pong frames, payloads, close codes, the
deprecated callback options and the validation of arguments are left out.

The finalizer of native connections is not modelled: the closures that the
native side keeps refer to the `WebSocket` object until its close event, so the
object is not collected before that, and afterwards it is unregistered.

### Sessions

`session[s]` is the object made by one call of `createSession` (`dropped` when
the program has lost it without `close()`), `transport` the one object of
`createTransport`. `clients` is `TRANSPORT_MANAGER`, by the owner of the
transport; `jars` is `SESSION_MANAGER`, by session id, and `content` what is in
each jar. A call `r` goes from its check in JavaScript (`called`) over
`resolveSessionContext` (`resolved`, then `serializeBody` is awaited) and
`resolveTransportContext` to its native task (`dispatched`), which looks up the
transport (`client`) and then the jar; `jar_for` looks and inserts in two steps
(`missed`). The phases of the request proper, which `Request` models, are one
phase here (`sending`). `session.websocket()` starts at `dispatched` and stores
no cookie; the cookie functions start at the jar and, being synchronous, keep
the rest of JavaScript waiting (`ScriptFree`), but not the tasks.

A program names an id in `fetch({sessionId})` only after it has created that
session: this is assumed. `expired` and `overtaken` are history variables, for
the properties. The 300 seconds are abstracted to "at any time". Which cookies
match which URL, their attributes, the session's defaults and the cache of
ephemeral clients are left out: an ephemeral request has a jar that no manager
knows and may or may not get a client.

`SessionContract` gives each session the jar its calls would find. `Sessions`
refines it with `jars[IdOf[s]]` for a session that is not closed: another jar
in its place is only allowed after an idle expiry, and what is in it comes from
its own calls.

### CookieJar

A jar is a set of entries keyed by host, path and name. `Restore` is
`set_session_cookies` with its two passes, `Export` is `getAllCookies`, which does
not tell the host of a host-only cookie. `Add` stands for the jar of the HTTP
library, in the words of the comments in `client.rs` that rely on it.

### Headers, Emulation, WebSocketOptions

Pure operators, one per function. A header name is its key in lower case and the
form it is written in; a value is a sequence of atoms, so that joining with
commas is concatenation. A custom emulation is a function from the fields that
are set, a number one of the limits of the code or a neighbour of it (`U8` is 255,
`MinBuffer` 8192, `U16`, `U31`, `U32` what their names say), in their true order.
The rules are written twice, as JavaScript and as serde and the `build_`
functions check them. The three ways to open a WebSocket are written down one by
one, because they are three copies in the code.

### FetchCall

A call goes from `idle` over `resolving` (`resolveFetchArgs` is awaited) and
`serializing` (`serializeBody` is awaited) to `sent` or `rejected`; `Call`,
`Resolve` and `Send` are the pieces between. `config[c]` is the init object the
call works with: the very object of the program only for `fetch(url, init)`
(`live`), a copy for all other entries. `own` is a Headers object the program
keeps, `defaults` the array of the session, which `Send` may append to in place
(`MergeIsDefaults`), `profiles` and `profileSet` the two caches. Between the pieces
the program edits these objects, closes the session or the transport, and starts
the other call. What the body is made of is reduced to its kind: none, one
without a content type, one with a content type of its own, a stream that may
fail.

## 3. Runs

| Run | Shows | Instance |
|---|---|---|
| `request` | types, registry, abort, listener, body and promise invariants; refinement of `FetchContract`; `CancelStops`, `TimedRequestSettles` | two requests, one observed, one with a timeout |
| `body` | whole bodies, event order, loss by expiry only, release; `TimedBodySettles` | one observed request with a timeout, up to 3 chunks |
| `websocket` | message order, close semantics, back-pressure, release; `EndOfStreamSeen`, `CloseCompletes` | 2 messages, 2 sends, `Buffer = 1` |
| `sessions` | transports and jars end with their owners; refinement of `SessionContract`; a batch of cookies is restored whole and exactly | 2 sessions with an id each, a shared transport, 2 calls |
| `sessions_live` | `ClosedJarReclaimed` | 1 session, 2 calls |
| `response` | `bodyUsed` is true to the body, what is read is exact, the native body is given up with its last reader; `ConsumeSettles` | 3 chunks, an original and a clone |
| `ws_events` | listeners run in turn, signals and registrations match, removals are meant; `DispatchEnds` | 2 listeners, 1 signal, 2 types of event, 3 registrations |
| `fetch_call` | headers do not leak, checks hold when the call is sent, profiles are native; headers, emulations and WebSocket options against their references | 2 calls among 26 kinds of arguments, 2 edits |

Four runs end in a violation on purpose; each refutes a sentence of the
repository about itself, quoted in `PROJECT.json` under `findings`:

- `websocket_final`: if the connection ends at once, its `close` closure can be
  queued before the settlement of the connect promise; the settlement then sets
  `readyState` from CLOSED to OPEN again.
- `websocket_sent`: `ws.send('hello'); ws.close()` sends the Close frame first,
  because `send` defers to a promise chain and `close` does not.
- `sessions_kept`: an open session that is idle for 300 seconds loses its jar,
  and with it a login, without an error.
- `fetch_defaults`: a call without headers works on the session's own array of
  default headers, and the content type of its body stays there: the next body
  with another content type, or the next FormData with another boundary, is sent
  under the first one's.

Other disagreements between the code and its documents, met while modelling and
visible in the models, for which no run is kept:

- a download that fails under `readBodyAll` makes no `error` event and leaves its
  event state in `BODY_EVENT_STATES` (`EventStateScope` has the exception), while
  docs/guides/request-events.mdx lists `error` for every failure;
- progress is reported only for what the consumer reads, although the same page
  promises it "without consuming `response.body` first";
- reading the property `body` makes a stream that pulls by itself and so sets
  `bodyUsed`, while docs/guides/streaming.mdx:37 says accessing it does not;
- jars are found by id when the native task gets there, so a fetch of a closed
  session can store its cookie in the jar of a new session with the same id;
- nothing watches a `Session` or a `Transport` the program loses; its client stays
  in `TRANSPORT_MANAGER` (the repository's README.md:226 says it is released on
  garbage collection);
- a `sessionId` without `cookieMode: "session"` is an error, though types.ts:443
  describes an id as enough to leave the ephemeral mode; a blank one is silently
  ephemeral, because the check for it stands behind a test it fails;
- types.ts:438 gives the default timeout as 30000, `DEFAULT_REQUEST_TIMEOUT_MS` is
  300000;
- some numbers of custom emulations have no upper bound in JavaScript, and the
  native side refuses what its types cannot hold (`AcceptedIsBuilt` has the
  exception);
- default headers of a session do not apply to `session.websocket()`, and
  `options.protocols` is not even validated when `new WebSocket` is given a
  protocols argument.

### Bounds

Requests interact through no shared state but the maps keyed by request, so two
of them show every interaction there is; the proofs cover any number. Three
chunks let a read fail or be cancelled before, between and after data. With a
queue and a semaphore of one, two messages fill both and leave one in the
receiver's hand, which is where back-pressure bites; larger values repeat that.
Two sends are the least that can be reordered. The only counters are bounded by
`MaxChunks`, `MaxMessages` and `MaxSends`, in the guards of the actions that
increment them. `MaxResponses = 2` and three chunks let one clone be cancelled, fail or stop half
way while the other goes on; a third response would be one more leaf.
`MaxOrder = 3` registrations let a once listener be removed, registered again and
meet another one; `MaxPending` bounds the messages held back for the open event.
`MaxEdits = 2` edits of shared objects can hit one call at both awaits or two calls
at one. Header lists have up to `MaxTuples = 2` pairs over three names in two
spellings: what differs in the code is the first and the second occurrence of a
name. What is a property of operators alone (`StartHeaders`, `StartOptions`,
`StartCookies`) is evaluated in the initial state, over all inputs within these
bounds; `x-custom` there also plays the part of `sec-websocket-protocol`.
Two sessions are the least between which a cookie could leak,
and two calls the least that can both miss a jar; the run uses the symmetry of
the calls, which is sound because it checks no liveness. Deadlock is not checked: a settled request and a closed socket
do stop.

### Fairness

Weak fairness is given to the event loop (it runs queued closures), to each
native task that can go on (tokio polls it), and to microtasks. A request with a
timeout gets weak fairness of `NetworkFails`, which is what the timer of `wreq`
does; one without gets nothing: a server may be silent for ever. No fairness is
given to callers, aborts, garbage collection or consumers.

- `BodyFairSpec` extends the timeout to the reads of a body, as `wreq` does.
- `CloseCompletes` assumes `PeerFairness`, a peer that answers the upgrade and
  our Close frame. The code has no timeout for either: without an answer, a
  socket stays in CONNECTING or CLOSING.
- `Sessions` gives weak fairness to the steps of a call once it has begun and to
  the idle expiry, none to the program.
- `ResponseObject` gives it to the pulls of streams, to native reads (which end,
  with an error if need be) and to the loop of `text()`, none to callers, so that
  nobody need read the other clone.
- `WebSocketEvents` gives it to a dispatch that has begun, which is synchronous.

## 4. Proofs

`RequestProofs` proves, for any sets `Requests`, `Observed` and `Timed` that
satisfy `RequestAssumption` (the last two are subsets of the first):

| Theorem | Property |
|---|---|
| `TypeCorrect` | `TypeOK` |
| `RegistryIsScoped` | `RegistryScope` |
| `AbortAlwaysReaches` | `AbortReachesNative` |
| `ListenersAreScoped` | `ListenerScope` |
| `FailureIsClean` | `FailureStoresNoBody` |
| `BodiesAreOwned` | `BodyHasOwner` |
| `PromisesAreKept` | `PromiseKept` |

The properties are not inductive one by one. That a stored body belongs to a
failed request only if the request failed before storing it needs to know when
`result` is set; that an abort reaches the task needs to know that a promise
which is pending has a task at all; that a promise is not forgotten needs to
know that its task settles it once, at its end. `Lifecycle` states how the
promise, the task and its result move together, and `IInv` joins it with the
properties. The proof has one lemma per conjunct of `IInv`, one step per action,
and then `Invariant` by temporal reasoning; each theorem follows from it.

The same module proves under the same assumption that `Request` implements
`FetchContract` (`Implementation`: `Spec => ContractSpec`). The contract speaks of
the log of events, the code decides on them earlier, when the task queues them; so
the invariant `Stories` says that the closures in the channel go on legally from
the log (`Linked`), that the last of them fits the place where the task stands
(`Stands`), and that a settlement comes only after an event that completes the
story. Lemmas about `Linked` say that it survives taking a closure at one end and
queueing a group of events at the other. Then each action maps to one of the
contract: the three ways to begin to `Start`, an event closure to `Notify`, the
settlement to `Resolve` or `Fail`, or to nothing after an abort, and every step of
the native task to a stutter.

`SessionsProofs` proves, for any sessions, ids and requests that satisfy
`SessionAssumption`:

| Theorem | Property |
|---|---|
| `TypeCorrect` | `TypeOK` |
| `TransportsAreScoped` | `TransportScope` |
| `ClosedJarsAreScoped` | `ClosedJarScope`, if `DistinctIds`: no two sessions use one id |

`ClosedJarScope` speaks of jars that come back after `close()`; to see that only
late requests bring them, one must know who is between the two lookups
(`LateLookups`), that a request without an own transport got there through one
that is gone with its session (`TransportScope`), and whose jar an id has
(`JarsOwned`). `SInv` joins these.

It also proves that `Sessions` implements `SessionContract`
(`Implementation`), if `DistinctIds`. To `SInv` it adds whose a jar is (`JInv`): the
jar a task holds belongs to the session the task works for (`HoldsOwn`), so that a
late response stores into no other session; a jar nobody has come to is empty
(`StartsEmpty`); nobody works for a session that was never created (`Reached`); and a
session that is not closed misses its jar only when the id has expired
(`MissedByExpiry`), which is when the contract lets another one take its place.
With two sessions of one id the contract is false, since both have one jar; the
assumption is needed.

About `CookieJar` it proves, for any names, hosts and paths that satisfy
`CookieAssumption` and for jars and batches of any size:

| Theorem | Property |
|---|---|
| `LastCookieWins` | of the cookies with one host, path and name the last of the batch decides |
| `SavedJarsComeBack` | an export is restored exactly, into any jar and in any order |
| `BatchesAreAtomic` | a batch is stored as a whole or not at all |
| `CookiesKeepTheirPromises` | `StartCookies` |

The first is an induction over the batch: after `n` cookies the jar holds what none
of them replaces and of the first `n` those that no later one replaces. The other
two follow from it; a saved jar comes back because a cookie of it that has a domain
is filed under that domain, and one that has none under the host that `setCookies`
is given (`FiledBack`). If host-only cookies of two hosts are in the jar this is
false, as `getAllCookies` does not tell the host: the hypothesis `IsSaved` is needed.
`CookieAssumption` says that an absent attribute is none of the texts it is compared
with, and that a blank name is no name and a blank host no host.

`ResponseProofs` proves, for any number `Chunks` of chunks and `MaxResponses` of
clones that satisfy `ResponseAssumption`:

| Theorem | Property |
|---|---|
| `BodyUsedTellsTruth` | `BodyUsedIsTrue` |
| `ReadsAlwaysExact` | `ReadsAreExact` |
| `ReleaseIsLast` | `ReleaseFollowsReaders` |

None of the three sees how the flags of a response hang together. `RInv` adds it:
where an unread body is, namely in bytes, in the handle of the original, or in a
leaf (`Whereabouts`); that the streams of a response move only with its `bodyUsed`
(`Uses`); that a leaf ends by its own cancel and a wrapper by its leaf or the root
(`Ends`); and that the root is cancelled only when every leaf is (`Roots`).

`BodyProofs` proves, for any requests and any number of chunks that satisfy
`RequestAssumption` and the assumption of `Body`:

| Theorem | Property |
|---|---|
| `HeldBodiesAreKept` | `LostOnlyByExpiry` |
| `BodiesAreReleased` | `NothingLeftBehind` |
| `ReadersSeeTheWholeBody` | `ReadInOrder` |

`BInv` speaks of one request at a time, and a step of another request leaves all
of its state alone (`StepSame`, `SameKeeps`), so that only the step of the request
itself is argued about. `Reading` ties the read in progress to what JavaScript
waits for, and to the one reply in the channel; `Kept` says that a body with a
reader is stored, has expired, or that its end is on its way to the reader;
`Watched` that the finalizer hangs on an object that still exists until the body
is released, however the response, the stream and the handle are collected; and
`Gone` what is left in the native maps after that.

`ReadInOrder` compares numbers: chunks served, events logged, chunks received.
They agree only if what is queued between the two sides is counted as well, so
`TInv` joins a tally to `BInv`: the chunks served are those received and the one
in a reply on its way (`Chunks`), a body that is watched has as many progress events,
seen or queued, as chunks served (`Reported`), and its end is reported once, before
the reply that tells of it (`Ended`). `Lists` says what taking an event at one end
of the channel and queueing a group of them at the other do to these numbers.

`WebSocketProofs` proves, for any size of the queue and any number of messages and
sends that satisfy the assumption on them:

| Theorem | Property |
|---|---|
| `TypeCorrect` | `TypeOK` |
| `QuietForever` | `QuietAfterClose` |
| `EndAlwaysUnderWay` | `EndIsUnderWay`: while there was no close event something will bring it, and a close that was asked for reaches the native side |
| `SendsInOrder` | `SendOrder` |
| `MessagesAndSendsInOrder` | `InOrderBothWays` |
| `BacklogIsBounded` | `BacklogBounded` |
| `ReleasedOtherwise` | `ReleasedUnlessSendFails` |

`WInv` follows the end of the socket hand over hand: the receiver stops only with
the close event in its hand, in the queue or already emitted (`Closing`), the
dispatcher ends only after it has emitted it, and what was emitted is in the
channel or was seen. Beside it run the connect task, which settles once
(`Connecting`), and the tasks of `send` and `close`, which reply once (`Replies`,
`OneSend`). What a step does to the queue and the channel is appending at one end
and taking at the other; the lemmas about `Has` say what that does to the types
of entry in them.

For the order of messages, `WayInOrder` follows them from the receiver's hand through
the event queue and the channel: in each of the three they are in the order of the
peer, and everything in a later one was sent earlier. `SeenInOrder` says that what the
listeners saw is below all of that, that messages held back for the open event stand
between the two as long as that event can come, and that together they are all the
peer sent. The backlog is bounded because a permit is taken when a message goes into
the channel and given back by the closure that carried it: the free permits and the
messages in the channel always make up the capacity.

`WebSocketEventsProofs` proves, for any listeners, signals, types listened for and
number of registrations that satisfy `EventsAssumption`:

| Theorem | Property |
|---|---|
| `TypesHold` | `TypeOK` |
| `Turns` | `ListenersRunInTurn` |
| `NoHookLeftBehind` | `SignalsMatch` |
| `RemovalsAreOwn` | `OwnRemoval` |

`EInv` is about the order numbers. A number names one registration or one handler
(`Numbers`, `Handlers`), and what a dispatch has yet to call is ahead of what it
called and is in the map, if it is still there, as what it was (`Ahead`): a
listener removed and registered again during the dispatch has another number. The
abort handlers know a registration by type and listener only; that a signal still
removes exactly the registrations made with it (`AbortHits`) follows because a
listener is registered once for a type.

`FetchCallProofs` proves, for any calls, any arguments they may be given
(`IsArguments`), any profiles, keys, sessions and bounds that satisfy the assumptions
of `Headers`, `Emulation` and `FetchCall`:

| Theorem | Property |
|---|---|
| `TypeCorrect` | `TypeOK` |
| `WhatIsSentWasChecked` | `CheckedIsSent` |
| `ProfilesAreNative` | `ProfileIsNative` |
| `DefaultsStay` | `DefaultsGrowByOneType`, the half of `HeadersDoNotLeak` about the session |
| `HeadersComeFromCallAndSession` | `HeadersAreMerged`: what is sent is the merge of the call's headers and its session's defaults |
| `HeadersStayApart` | `HeadersDoNotLeak` |
| `HeadersKeepTheirPromises` | `StartHeaders` |
| `OptionsAlwaysAgree` | `StartOptions` |

`CheckedIsSent` is about checks that are made before an await and used after it. `FInv`
keeps their result: from the first await on the timeout was valid and the session
was asked for, unless the program has edited the very init object the call works
with (`Settled`, `Touched`); one call at most claims the body of the Request
(`OneClaim`). An edit moves a call into the exception, every other step of another
call leaves it alone (`Unmoved`). `ProfilesAreNative` needs that the set in which
profiles are looked up is the native one until an edit comes before it is made, and
that no answer of `resolveEmulationMode` is without a meaning on the native side
(`ModesAreResolvable`). The defaults of a session are shared by its calls and
appended to in place; that this happens once needs that the array has a content type
from then on, and every later merge finds it.

`HeadersStayApart` says what a name is worth in the headers of a request, so it is
about header lists of any length. The constructor of `Headers`, `ToTuples` and the
merge are recursive functions and folds; the provers cannot instantiate the
induction theorems of the library, so `Lists` proves induction for a set instead of
a predicate, from the fact that a set of numbers has a least one. What every
operation does is then said of one list, the values of a name: `ValuesOf` a Headers
object, `Picked` from a list of pairs. Adding a pair, setting, deleting, keeping a
part, and going from one form to the other each have a lemma in these terms, and
four theorems follow for any names and values: `HeadersAreMaps`,
`HeadersSurviveRoundTrips`, `MergesPreferTheCaller` and `EqualListsMeanTheSame`. The
last one counts: where everything in one list occurs as often in another of the same
length, everything does (`SameCounts`). `HeadersInv` adds that the headers of calls
and the program's own object stay what the constructor makes. `StartHeaders`, which
TLC evaluates over short lists, is an instance of the four; they need that a blank
name is no key (`HeadersAssumption`), for which `normalizeName` sees.

Four more theorems are about operators and hold for any arguments, not only for the
samples TLC evaluates: `ModesAreResolvable`; `AcceptedGroupsAreBuilt`, field by field
of both sets of rules, with numbers that are too wide for their native type as the
one exception; `EntryPointsMeanTheSame` and `ProtocolsComeFromOneOption` for the three
ways to open a WebSocket.

Where a theorem needs it, it says that `None` is not a record (`NoneIsNoRecord`) and
`Error` no function (`ErrorIsNoFunction`): `undefined` and a thrown error are not
options. The runs give them model values, for which TLC knows that.

Every invariant that a run checks is stated by a theorem. Only model-checked: all
liveness, which is out of reach of the prover, as is ENABLED.

## 5. Not modelled

The native loader, benchmarks and scripts (I/O), the profile tables (generated),
the wire protocols, the matching of cookies to URLs and what an emulation does to a
connection (in the external crate), the cache of ephemeral clients (which client
serves a request without a session is not visible to its caller), the encoding of
bodies (FormData, Blob, strings), the validation of `createSession` and
`createTransport` options (the same functions as those of a call), and
diagnostics.

The finalizer of WebSocket connections and the failure of `createSession` after
its transport was made have code but no behaviour: the native closures keep the
socket alive until its close event, and the native `create_session` cannot fail.

## 6. Plan

What would come next:

1. the composition of `ResponseObject` with `Body`, so that expiry, garbage
   collection and clones meet in one model;
2. two sessions with one id (an instance of `Sessions` whose `IdOf` is not
   injective) with a contract that says what is left of isolation then.
