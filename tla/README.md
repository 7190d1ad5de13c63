# Verification of axum-observability

TLA+ models of the access-log middleware and of the JSON log layer, TLC runs
that check them on small instances, and TLAPS proofs that hold for every value
of the constants. Paths below are relative to the repository (`src/middleware.rs`
is the crate's file); the models live in one directory, one module per component.

## The system

`ObservabilityLayer` wraps an Axum service. For each request it selects an id,
parses the trace context, opens a request span, calls the inner service, and
wraps the response body. A one-shot `TerminalGuard` travels from the response
future into the body and emits one access event when the request ends, however
it ends. `JsonLayer`, a `tracing` layer, turns that event and every application
event into one line of NDJSON.

| Component | State | Operations | Interacts with | Hard behaviour |
| --- | --- | --- | --- | --- |
| `ObservabilityService`, `TerminalGuard`, `ObservedBody` (`middleware.rs`) | the guard's `Option<TerminalState>`, the inner body | `call`, the response future, `finish`, `drop`, `poll_frame`, `is_end_stream` | inner service, server, body producer, subscriber | panics and drops between any two steps; a body that ends on another thread; a record dispatched from a destructor |
| `JsonLayer` (`formatter.rs`) | the record lock and its poison flag | `on_event` | application threads, the application's writer, stderr | partial writes, failing and panicking writers, lock recovery |
| Identity and correlation (`middleware.rs`, `context.rs`, `request_id.rs`, `formatter.rs`) | `RequestContext`, span fields, headers | `select_request_id`, `generate_request_id`, `request_span`, the merge in `on_event` | caller, validator, generator, handlers, other instrumented services | duplicate and malformed headers, nested requests, filtered spans, forged fields |
| Record projection (`formatter.rs`, `middleware.rs`) | none (pure) | `RequestMetadata::from_request`, `merge_access_record`, reserved names, provider fields | `on_event` | precedence between record, enrichment, event fields and provider fields |
| Trace context (`trace_context.rs`, `middleware.rs`, `context.rs`) | none (pure) | `select_trace_context`, both parsers at levels 1 and 2, `traceparent_bytes`, `tracestate` | `call`; the next service of a chain, to which a handler forwards the context | lengths, member limits, duplicates, versions; services of different levels in one chain |
| Duration and clock (`middleware.rs`, `formatter.rs`) | start instant | `start_clock`, `finish`, `duration_milliseconds`, `gcp_latency` | clock callback | fallback clocks, saturation, a duration that passes through five floating-point roundings |
| Configuration, `poll_ready`, clones, extractors | immutable settings | builders | application | none of its own |
| Tests, `e2e/`, examples, CI | - | - | - | outside the library |

What makes each correct:

- lifecycle: one record per accepted request, never two, never none; it tells
  the status and operation of the response that was produced; normal completion
  is claimed only for a body that gave all its frames (not that they were
  delivered: the dispatch precedes the return of the last one); a body's end is
  not shown before the record exists;
- JSON output: lines do not interleave; an event that is not written is reported,
  unless its writer panicked or stderr fails too; a fault of one writer does not
  stop or lose the events of others; everybody gets out;
- identity: one id everywhere for one request; correlation as documented with
  or without the span; no forging; no id outside the baseline grammar that the
  validator did not admit;
- the two together: a request leaves at most one complete access line, and none
  only for a reason that can be told; it takes two panics on one task to abort
  the process, which the access log alone can produce only where requests nest;
  the locks of the layer and of stderr do not block each other;
- projection: each side keeps its names, nothing is disclosed without opt-in;
- trace context: exactly the legal headers are accepted, and what one service
  accepted the next one accepts;
- duration: the time since the service was entered, and a latency text that
  denotes it.

## Modules

| Module | Role |
| --- | --- |
| `TerminalOnce` | abstract contract: a request is accepted, and reported once, by a report whose level, status and outcome agree |
| `AccessLifecycle` | the middleware from `call` to the drop of the body; implements `TerminalOnce` |
| `AccessLifecycleProofs` | TLAPS proofs about it |
| `NdjsonStream` | abstract contract of the log output: whole lines appear one at a time, in each thread's order, never twice |
| `JsonLayer` | `on_event` for any number of threads; implements `NdjsonStream` |
| `JsonLayerProofs` | TLAPS proofs about it |
| `AccessLog` | workers of a runtime that run requests and log through one `JsonLayer`; composes it with the guard and implements it |
| `AccessLogProofs` | TLAPS proofs about it, on top of `JsonLayerProofs` |
| `RequestCorrelation` | identity of requests and what the log says of it, with nested requests |
| `RequestCorrelationProofs` | TLAPS proofs about it |
| `RecordProjection` | the fields of a line and their origins: capture, merge, reserved names, aliases |
| `RecordProjectionProofs` | TLAPS proofs about it |
| `TraceContext` | the header parsers and the context they make, along a chain of services |
| `TraceContextProofs` | TLAPS proofs about it |
| `RequestDuration` | the clock readings, `duration_ms` and the GCP latency |
| `RequestDurationProofs` | TLAPS proofs about it |
| `InductionLemmas` | least and last elements, induction and recursion over numbers, for the proof modules |
| `MC*` | symmetry sets and test inputs for TLC |

Operators introduced by a comment "Mutation of X" are not part of any
specification. They are faulty variants of X, kept next to it: replacing X by
the variant must make the named property fail, which shows that the property
does say something about the code. `PROJECT.json` pairs them.

### AccessLifecycle

`guard[r]` is `TerminalGuard.state`: a record while the guard is armed, `None`
once `finish` has taken it. `phase[r]` says who owns the request: nobody yet,
the response future, the server holding the response, a panic that has not
reached the owner of the body, or nobody any more. `body[r]` is the inner body,
an environment component described by what a poll or `is_end_stream` can observe:
frames ready, frames to come, closed, failed, and whether the body answers
`is_end_stream` at all. `records[r]` is the sequence of access events dispatched.

| Action | Code |
| --- | --- |
| `Call`, `CallPanics` | `call` up to the `Box::pin`; a panic of `inner.call` leaves before the guard is built |
| `ResolveOk` | the `Ok` arm: status, operation id, `ObservedBody::new` with its `is_end_stream` test |
| `ResolveErr`, `FuturePanics`, `DropFuture` | the `Err` arm; the guard dropped by unwinding or by the server |
| `PollData`, `PollEof`, `PollError`, `PollPanics` | the arms of `poll_frame`; `Poll::Pending` changes nothing |
| `AskEndStream` | `is_end_stream`, answered by the inner body as it is now |
| `DropResponse`, `Unwind` | the drop of the body by its owner, or by a panic in flight |
| `Produce`, `CloseBody`, `FailBody` | the producer of a body that is not held in memory |

`Finish` is one step because it is sequential code on owned state: other
requests share nothing with it. What can happen inside is kept: the mapper may
panic (a default level), the clock and the enricher may panic (contained, they
change only fields left out), and the subscriber under the dispatch may panic
(not contained). The last one is modelled by `Sinks`: in a poll the panic
unwinds out of `poll_frame`, in `ResolveOk` it loses the response, in a drop
during unwinding it aborts the process (`aborted`; nothing happens afterwards).
A record counts as dispatched when the event is handed to the subscriber, whether
or not the subscriber panics over it.

A poll that ends in a panic returns nothing, so the last frame of a completed body
may never reach the server: `yielded` counts the frames the inner body gave,
`received` those that `poll_frame` returned (`HandOver`), and `cut` the requests of
which a poll ended that way. `CompletedAccountsForFrames` says that a completed
record stands for a body that gave everything, that no other frame is ever
withheld, and that such a request is unwound and not polled again.

Three kinds of body: `full` holds its frames from the start, `stream` is
produced while polled and never answers `is_end_stream` (an Axum `Body::from_stream`),
`shared` is filled by another task and does answer (an upstream HTTP body, a channel).

### JsonLayer

Each thread walks through `on_event`: format without the lock, lock (a poisoned
lock is taken all the same), create the writer, `write_all` in up to `LineParts`
pieces, report a failure on stderr with the lock still held, drop writer and
lock. `out` is the sequence of pieces the output received; the last piece of a
line carries the LF. Faults are an input: `format` (timestamp or serialisation),
`error` (the writer fails for good after any number of pieces), `panic` (in
`make_writer_for` or between pieces), `stderr` (the diagnostic is not written either,
and the code discards that error: the event is `muted` instead of `diagnosed`).

### AccessLog

`Layer == INSTANCE JsonLayer WITH Threads <- Workers`: the actions inside
`on_event` are JsonLayer's own, and `AccessLog` says when a worker emits and what
a panic of the writer does to it. Of the lifecycle the guard is kept (`armed`).
`job[t]` is the stack of requests whose code is on a worker, innermost first, and
`task[r]` the request the runtime runs, in whose handling `r` was called.

| Action | Code |
| --- | --- |
| `Call`, `Return` | `call` up to and from `inner.call()`; the guard is built by `Return`, so a panic in between leaves none (`refused`) |
| `Poll`, `Park`, `End` | the runtime, or the handler that called it, polls the future or body, which waits, or goes away; a parked request may go on on another worker |
| `Finish` | `finish`, by the middleware or a drop: the state is taken, then the event is dispatched, or the subscriber filters its level (`filtered`) |
| `Log`, `LockStderr`, `UnlockStderr`, `HandlerPanics` | up to `MaxSteps` steps of a handler |
| `WriterPanics` | the panic leaves `on_event` and unwinds the stack, or aborts the process out of the drop of a guard that is being unwound |
| `Recover` | the panic is caught, by a recovery layer or by whoever polled; `End` at the bottom of the stack is the runtime's own catch |

A panic goes up the stack of requests: each guard on it is dropped (`Finish`, then
`End`) before the next, so that a writer that panicked over the record of a nested
request can panic again over the record of the one around it. That aborts the
process without any fault of a handler; `AbortTakesTwoPanics` says what an abort
takes, and that one request alone cannot bring it about, since its guard is
disarmed before it dispatches.

The lock of stderr is part of the state because `report_internal_failure` takes
it with `record_write_lock` held. Handlers that print take it in the other order
only if they log while they hold it. With `LogsHoldingStderr = FALSE` they do
not. `TRUE`, with two steps per handler, lets TLC reach a deadlock in 10 steps: one
worker holds stderr and waits for the record lock, the other reports a failed write
and waits for stderr. No text of the repository rules this use out, and none promises that
it works, so it is not a finding; `EveryRequestEnds` is stated under the
discipline. The message std prints for a panic does not go through that lock.

### RequestCorrelation

Ids fall into three classes the code distinguishes: the baseline grammar, native
field content outside it, and content the header type accepts but the code must
refuse. The custom validator may answer anything about native content, and its
panic is a refusal. The generator returns baseline ids (`RequestId::parse` is the
only public constructor) or, with `Reissuing`, ids a handler extracted and kept, which
`BroadIdsWereAdmitted` traces back to the request they came in with.
`scope[r]` is the stack of request spans an event of `r` is logged in; it is
longer than one when a handler sends a request to an instrumented service in
process. `lines` is the set of lines, reduced to id, correlation and trace.

### RecordProjection

One event is projected in one step, `OnEvent`; all variety is in the initial
states. A value is reduced to its origin: the application, the package, or the
identity of the i-th enclosing request. `Line` lays the parts over each other in
the order of `on_event`: own fields that pass `is_event_reserved`, envelope,
record, `message`, filtered enrichment, `httpRequest`, span fields from the root,
aliases. `Captured` is `RequestMetadata::from_request`. The names the package owns
(`Owned`) are spelt out again from the documentation, so that a slip in
`IsEventReserved` or `IsAccessReserved` shows; `error` on access lines is the one
name reserved by the code alone.

### TraceContext

`ParseTraceState`, `ValidParent` and `SelectTraceContext` are the parsers; bytes
are reduced to the classes the code tests (five kinds of key character, seven of
value, six of what follows the first 55 bytes of a `traceparent`). A tracestate
is the sequence of members on all header lines; `starts` marks where a line
begins, which the code forgets by joining. The state machine is a chain: `Receive` is
`call` in one service, `Forward` a handler that passes on what the accessors of
`TraceContext` return, to a service of either level. The properties compare the
parsers with the grammar of the recommendation written as sets of texts
(`LegalKeys`), and one service with the next.

### RequestDuration

Nanoseconds are exact; a float is a number of grains, and every operation the
code makes on a float (`as_secs_f64`, the product by 1000, the quotient by 1000,
`try_from_secs_f64`) rounds to the float nearest, ties to even; `Precision` is 2 to the
number of significant bits. The
formatter takes the number from the serialised record; serde_json, without its
`float_roundtrip` feature, may return a neighbour (`Reread`). Seconds alone convert exactly,
as they do below 2 ^ 53 of them. The clock is the
package's, a custom one that panics at times, or one that shows any instant,
also earlier ones. `Start` stands for the reading in `call` and its fallback,
`Finish` for the reading in `finish`, whose fallback is the start.

## Runs

| Run | Instance | Shows |
| --- | --- | --- |
| `lifecycle_safety` | 2 requests, full and stream bodies, 1 frame | one record per request, dispatched before the server learns that the body is over |
| `lifecycle_producer` | 1 request, all kinds of body, 3 frames, all statuses, 2 operations, fair | with a producer beside the polls: the record has the response's fields, completion accounts for all frames but one a panic withheld, `TerminalOnce` is implemented, and every accepted request is reported |
| `lifecycle_eof_race` | 1 request, shared body | **violated**: a finished body can be reported as dropped |
| `json_layer_faults` | 3 threads x 2 events, 2 pieces, all faults | exclusion, contiguity, no loss without a diagnostic unless stderr fails too, a line starts behind a whole line or a failed fragment, implementation of `NdjsonStream` |
| `json_layer_damaged_line` | 2 threads, failing writer | **violated**: a complete event is appended to a fragment |
| `access_log` | 2 workers, 2 requests, nested or not, 1 step per handler, 1 piece, all faults, fair | at most one complete access line per request and a reason if there is none, an abort takes two panics of one task, every request that was called ends |
| `correlation_nested` | 2 requests, 2 baseline ids, 1 broad id, 2 traces, a generator that returns kept ids | identity, correlation and forging with nesting and a custom validator, the origin of broad ids |
| `correlation_nested_trace` | the same, built-in validator | **violated**: trace fields of the outer request on the inner one's lines |
| `correlation_reissue` | the same, no nesting, a generator that returns kept ids | **violated**: a generated id outside the baseline grammar |
| `record_projection` | every name at once, none and one by one; 4 conventions; all settings; 0 to 2 nested requests | ownership of names, survival of application data, aliases, opt-in |
| `trace_context` | every key up to one character too long, lists up to one member too many in any layout, all kinds of `traceparent`, 3 services | exactly the legal tracestates are kept, a bad one costs nothing else, a forwarded context arrives |
| `request_duration` | every duration up to 220 ns, radix 3, precision 512, clocks that fail or show any instant | the duration is the elapsed time, the latency denotes it |

### Findings

Four runs end in a counterexample to something the documentation says.

1. `lifecycle_eof_race`. `README.md:339` says an already-ended body completes
   before its EOF state is exposed. `ObservedBody::is_end_stream` forwards the
   inner answer of the moment, while the guard asked in `new` and after each
   frame. A body closed in between shows its end with the guard armed, and a
   server that then drops the response without a last poll produces a
   `response_dropped` record at `ERROR` for a complete response. The invariant
   does hold for bodies that no other task closes (proved).
2. `json_layer_damaged_line`. After a failed partial write nothing terminates
   the fragment, so the next event, whose own write succeeds, shares its line.
   `README.md:51` limits the damage to the incomplete last line.
3. `correlation_nested_trace`. `on_event` merges the fields of all enclosing
   request spans; a span without trace context clears nothing. A request without
   `traceparent` handled inside a traced one is logged with the other's
   `trace_id`, while its `correlation_id` is its own request id.
   The same merge takes each field by itself: a traced request of Level 1, or with a
   higher version, nested in a version-`00` Level 2 one is logged with its own `trace_id`
   and the other's `trace_id_random`, though `README.md:253` promises that field only
   with valid version-`00` context in Level 2. `TraceFieldsTogether` says exactly this
   much of the flag: a request that has one shows its own, another at most that of a
   request around it. The other trace fields never mix.
4. `correlation_reissue`. `README.md:202` says generated values retain the
   baseline grammar. A `RequestId` that a custom validator admitted can be
   cloned from a handler and returned by the generator, which is not re-checked.
### Bounds, and why they are enough

- Two requests share no state in `AccessLifecycle` except `aborted`, so a
  violation needs one request, or two when one aborts the process. Three frames
  cover a first, a middle and a last frame; frames carry no data.
- Three threads let one hold the lock while two wait; two events per thread let
  a thread come back after a fault of its own or another's. Two pieces are the
  smallest line that can be cut; a third adds only more of the same cut, and the
  proof of `NoInterleaving` is for any number.
- Fields with different names meet only in the aliases and in `httpRequest`, whose
  sources the application cannot set, so all names at once and none stand for
  every set of names in `record_projection`.
- Two requests make one nesting level; two traces let inner and outer differ.
  Generated ids may collide with each other and with received ones; in the
  program a generated id has 122 random bits and collisions are ignored, so no
  property depends on ids being distinct.
- The span stack of `record_projection` has at most two requests, of every
  combination of trace contexts.
- `access_log`: two workers are the least that block each other, two requests let
  one meet a lock the other poisoned, let a worker come back after an unwound
  request, and put two guards on one stack; one step per handler lets it log, wait,
  print or panic before its record. Every action is taken. Steps are bounded by
  `MaxSteps`, so a request cannot wait for another one that logs for ever. Lines
  have one piece: damaged lines are the business of `json_layer_faults`, and the
  proofs are for any number.
- `trace_context` scales the limits: 32 members to 3, 256 characters of a key to
  4, 241 of a tenant to 2, 14 of a system to 1. The code compares lengths with
  these numbers and does nothing else with them, and each is passed by one in
  the inputs. A longest tenant and system together stay within the key limit, as
  in the code (`LimitsAssumption`). Flags are 0, 2 and 3 of 0..255.
- `request_duration` scales the radix of the units from 1000 to 3 and `Precision`
  from 2 ^ 53 to 2 ^ 9, so that every duration up to past the provider's limit
  (20 ms of 27 ns here) is tried. The thresholds scale along: `LatencyIsExact` up to
  `Precision \div 16` ns, 32 here and about six days with f64, `LatencyIsClose` for all.
  `Grains` gives the smallest quotient, a nanosecond, all its bits
  (`FloatAssumption`); 2 ^ 83 grains would do for f64. The proofs hold for any values
  within the assumptions, the real ones included.
- Symmetry is used over requests, threads, ids and traces in safety runs only.

### Fairness

`AccessLifecycle`: the executor polls a future or a body that can make progress,
the inner service answers, the producer ends its body, and a panic in flight
reaches the owner of the body. The server is not obliged to drop anything, to ask
`is_end_stream`, or to disconnect.

`AccessLog`: a worker inside `on_event` is scheduled again, `inner.call()` returns, a
request that waits is polled by some worker and brought to its end, and a handler
that prints lets go of stderr. Nothing obliges a handler to log, wait or panic. A std mutex promises no order
among waiters; since handlers take a bounded number of steps, `EveryRequestEnds`
shows the absence of deadlock and of a lost lock, not of starvation.
`JsonLayer` alone, `RequestCorrelation`, `TraceContext` and `RequestDuration` have
safety properties only.

## Proofs

`AccessLifecycleProofs` shows for all requests, statuses, operations, body kinds
and frame bounds:

- `TypeCorrect` - types;
- `OneRecord` - `ExactlyOneRecord`. The invariant is not inductive: nothing in it
  says why a second record cannot come. The strengthening treats the guard as a
  token: while the guard is armed there is no record and the request is running,
  responded or unwinding; once it is `None`, a request that was accepted has
  exactly one record. Each action either leaves both alone or trades the token
  for the record;
- `ReflectsResponse` - the armed guard already agrees with the response the
  service produced, hence so does the record built from it;
- `FramesAccountedFor` - `CompletedAccountsForFrames`: a record of completion is only
  written over a body that has ended, and an ended body stays ended; the two counts
  of frames agree until a poll is cut, which needs a dispatch in that very poll, after
  which the request is only unwound and dropped (`FrameInv`);
- `EofAfterRecord` - with bodies that no other task closes, an end the server
  can see was seen by the guard first. The assumption `BodyKinds \subseteq
  {"full", "stream"}` is exactly what `lifecycle_eof_race` drops;
- `ImplementsContract` - each step accepts, reports legally, or stutters under
  `accepted <- Accepted, report <- Reported`.

`JsonLayerProofs`, for any number of threads, events, pieces and any faults, proves
all invariants of the run:

- `TypeCorrect`, `MutualExclusion`;
- `LinesDoNotInterleave`: while a thread is inside `write_all` past its first piece,
  the last piece on the output is the one it wrote last;
- `NothingIsLostSilently` and `WrittenLinesEnd`, from `Outcomes`: the event a thread
  has under way is undecided, an event that was decided was emitted, only a failing
  stderr mutes one, and the LF of an event is on the output once, exactly if it
  counts as written;
- `LinesStartClean`, from `Starts`: each piece is of an emitted event, an event whose
  thread has not started to write has no piece on the output, and an event the
  output breaks off in is not written;
- `ImplementsStream`: `Spec => ImplementsNdjsonStream`. The mapping `EndsOf` reads the
  last pieces off the output by a recursive function of its positions. One lemma says
  that this function exists, one what it makes of an appended piece. The step that
  writes an LF then appends one event to the stream, one that was not there
  (`Outcomes`) and follows the thread's earlier ones; every other step stutters;
- `LinesKeepOrder`: a corollary by an invariant of `NdjsonStream` alone, `InOrder`, that lines of a
  thread stand in the order of its events and none is there twice.

`AccessLogProofs`, for any workers, any finite set of requests, any number of steps:

- `ImplementsJsonLayer`: `Spec => P!Spec`, where `P` is `JsonLayerProofs` with the
  workers as threads. Its lemmas then hold of the composition and are cited there;
- `AtMostOneAccessLine`, `RecordsAreAccountedFor`, `AbortTakesTwo`, `TypeCorrect`, from the
  invariant `Server`. `Stacks`: a request is on one stack at most, once, and a stack
  holds requests of the task at its bottom. `Dispatching`: an event under way is of
  the innermost request, whose guard is disarmed if it is its record, and unwinding
  dispatches nothing but records. `Guarded`: a request has no record exactly while it
  has no guard yet or an armed one, or never got one, or was filtered; once it is
  over, the record is settled. `Unwound`: a worker that unwinds has a panic on that
  task to blame (`Cause`), so that a record whose dispatch panics during unwinding is
  the second one, and of another request, if the first was of a record;
- `LogIsAStream`: the refinement above composed with `ImplementsStream`, so the log of a
  runtime is a stream of whole lines.

`RequestCorrelationProofs`, for any requests, ids, traces and settings, proves all six
properties of `correlation_nested`. The invariant says of each line, in whichever scope it was
logged, whose correlation and trace it shows (`Faithful`), of each started request that
context, header and span carry the selected id (`Selected`), and of each scope that its
innermost request is its own (`Scoped`). `BroadIdsAreAdmitted` adds `Origins`: an id outside the
baseline grammar, with a request or kept by a handler, is of a request that a caller sent with it
and the custom validator admitted, however often it was reissued since.

`TraceContextProofs`, for any arrivals, limits and length of the chain:

- `TypeCorrect`, `StateNeverCosts`, and `ContextArrives`: an accepted state parses to itself
  at its own level and at level 2 also if it was accepted at level 1, because a key of
  level 1, with or without a tenant, is one of level 2;
- `StateIsTheReceived` and `NoLegalStateIsLost`: the parser accepts exactly the legal states
  and keeps them. It splits and tests keys by the positions of characters, while
  `LegalKeys` joins texts of bounded length; the lemmas `SimpleKeys`, `MultiTenantKeys` and
  `LevelTwoTexts` show that the two describe the same keys, `ValidKeysAreLegal` puts
  them together. That a longest tenant and system fit in a key (`LimitsAssumption`) is
  used here: with other limits the parser's check of the whole length would refuse
  keys that the grammar of level 1 allows.

`RecordProjectionProofs` proves all six properties of `record_projection`. A line is made of
its event (`LineOfEvent`), by laying parts over each other, and what `Over` does to one name
(`OverFields`) is carried through the parts in their order:

- `PackageOwnsItsNames`: each part is free of forged names, because the filters reserve at
  least the owned names or because the part is the package's own; the aliases need
  that no trace field can be the application's;
- `ApplicationKeepsItsData`: the filters let through what is not owned, and no later
  part has such a name;
- `TraceIsOneRequests`: of nested requests the last one with a trace is on top
  (`SpanOrigin`, from a last element), and it set all trace fields; the last one with a
  random flag has a trace, so it is the same request if that has the flag (`Flagged`),
  and otherwise one around it (`Outer`);
- `AliasesAreCopies`, `OnlyOptInDiscloses`, `TypeCorrect`: by the part that can hold the name.

`RequestDurationProofs` proves all four properties of `request_duration`, for any horizon and
readings, any radix and limit, and any precision from 64 on:

- `DurationHolds`: until `finish` the start is the instant the service was entered, whichever
  clock showed it, unless a custom clock made it up;
- `LatencyIsLossless`, `LatencyKeepsThePrecision`, `TypeCorrect`: the invariant is only that the
  latency of a line is one its duration can have; the rest is about these. `Ulp` is a
  recursive function, shown to exist and to be at most two parts in `Precision`
  (`UlpDefined`, `UlpSmall`). In parts of `8 * Precision`, a rounding costs 8
  (`RoundedIsNear`) and the reading back 16 (`RereadIsNear`); scaled, shifted and
  composed (`WithinScaled`, `WithinShifted`, `WithinComposed`) the seconds are within 17
  parts of the duration, the milliseconds within 26, as read back within 43, in
  seconds again within 52, and the rounding to nanoseconds adds half of one
  (`WrittenIsNear`). 52 parts of a duration below `Precision \div 16` are less than half a
  nanosecond, which is where that bound of `LatencyIsExact` comes from. The same
  43 parts keep the test against the limit (`LimitIsNear`).

The proofs rest on the named assumptions of the modules, which TLC evaluates, and on nothing
else. `InductionLemmas` derives induction and recursion over the numbers from the fact that
they are well founded, for sets and functions, since the induction theorems of the
library take operators that none of the provers can instantiate.

Only model-checked: liveness (`EventuallyRecorded`, `EveryRequestEnds`), which is beyond the
prover under fairness. Every invariant of a passing run, and the refinements of `TerminalOnce`
and `NdjsonStream`, are proved; `EofExposedAfterRecord` under the condition named above.

## Plan

Done: (A) `AccessLifecycle` with `TerminalOnce`; (B) `JsonLayer` with `NdjsonStream`;
(C) `RequestCorrelation`; (D) `RecordProjection`; (E) `TraceContext`; (F) `AccessLog`, the
composition of requests and the JSON layer; (G) `RequestDuration`; each with the proofs of its
invariants and refinements.

Next, in this order:

1. `AccessLog` as an implementation of `TerminalOnce`, one contract per request: its guard is
   reduced to a flag, so its reports would need the fields `AccessLifecycle` has.
2. `JsonLayer` with writers that log through the same layer. This needs the
   dispatcher's own guard against re-entry, which belongs to the `tracing` crates.

## Not modelled

- The contents of lines beyond what is listed above: message text, JSON escaping,
  timestamps, the text of aliases.
- `poll_ready` (forwards to the inner service), clones of the service (no shared
  mutable state besides the callbacks), the configuration builders (setters on an
  immutable value; the settings that matter are constants or initial choices).
- The extractors and their rejections: lookups in the request's extensions.
  `OperationId` is a value of `AccessLifecycle`.
- A writer that emits events itself. Its inner event arrives with the record lock
  held by the same thread; whether the dispatcher delivers it depends on how the
  outer event was reached, in crates that are not part of the repository.
- A stream body whose server stops after `Content-Length` bytes and drops it without
  seeing its end is reported as dropped. `AccessLifecycle` has this behaviour
  (`DropResponse` before `PollEof`); the code cannot tell it from a disconnect, and no
  property asks for more.
- The end-to-end program, examples, tests and release tooling.
- Process abort under `panic = "abort"`, which the documentation excludes.
