--------------------------- MODULE AccessLifecycle ---------------------------
(***************************************************************************)
(* The life of a request inside ObservabilityService, from Service::call   *)
(* to the drop of the response body, and the one-shot TerminalGuard that   *)
(* turns it into one access event (src/src/middleware.rs).                 *)
(*                                                                         *)
(* The handler's service, its response body and the server that polls and  *)
(* drops both are the environment: the service may resolve, fail or panic, *)
(* a body may be fed by a producer on another thread, and the server may   *)
(* poll, ask is_end_stream or drop at any point.  Clock and enricher       *)
(* callbacks change only record fields left out here; their panics are     *)
(* contained by catch_unwind and alter no control flow.                    *)
(***************************************************************************)
EXTENDS Naturals, Sequences

CONSTANTS
    Requests,       \* the requests the middleware is called with
    Statuses,       \* status classes a service may answer with
    Operations,     \* operation ids found in request or response extensions
    MapperLevels,   \* levels the configured level mapper may return
    BodyKinds,      \* the kinds of response body: see NewBodies
    MaxFrames,      \* bound: frames in one response body
    None            \* Option::None

StatusClasses == {"success", "client_error", "server_error"}
Levels        == {"TRACE", "DEBUG", "INFO", "WARN", "ERROR"}
Outcomes      == {"completed", "service_error", "body_error", "response_dropped"}

ASSUME StatusesAssumption == Statuses \subseteq StatusClasses /\ None \notin Statuses
ASSUME OperationsAssumption == None \notin Operations
ASSUME LevelsAssumption == MapperLevels \subseteq Levels
ASSUME BodyAssumption ==
    /\ BodyKinds \subseteq {"full", "stream", "shared"}
    /\ MaxFrames \in Nat

OptStatus    == Statuses \cup {None}
OptOperation == Operations \cup {None}

\* TerminalState, reduced to the fields a later step may still change.
TerminalState == [status : OptStatus, operation : OptOperation]
AccessRecord  == [outcome   : Outcomes,
                  level     : Levels,
                  status    : OptStatus,
                  operation : OptOperation]

ASSUME NoneAssumption == None \notin TerminalState /\ None \notin AccessRecord

VARIABLES
    phase,      \* who owns the request: see Phases
    guard,      \* TerminalGuard.state: a TerminalState, or None once taken
    body,       \* the inner response body
    records,    \* access events dispatched for the request
    request,    \* the operation id the request came with
    produced,   \* the response head the inner service produced
    eofSeen,    \* is_end_stream() or EOF has told the server the body is over
    yielded,    \* data frames the inner body has given to poll_frame()
    received,   \* data frames poll_frame() has returned to the server
    cut,        \* requests of which a poll ended in the panic of its dispatch
    aborted     \* a panic inside a destructor run by unwinding

frames == <<yielded, received, cut>>
vars   == <<phase, guard, body, records, request, produced, eofSeen, frames, aborted>>

\* "idle"       call() has not been made
\* "refused"    inner.call() panicked inside call(): no guard was ever built
\* "running"    the server owns the response future
\* "responded"  the server owns the response and its ObservedBody
\* "unwinding"  poll_frame() panicked and the ObservedBody is not dropped yet
\* "failed"     the service error was returned
\* "gone"       the future or the response was dropped
Phases == {"idle", "refused", "running", "responded", "unwinding", "failed", "gone"}

\* hint    the body answers is_end_stream() truthfully (a stream body never does)
\* left    frames its producer has not supplied yet
\* ready   frames that can be polled now
\* closed  the producer is done, so it has nothing left
\* failed  it left an error behind its last frame
Bodies ==
    {b \in [hint : BOOLEAN, left : 0..MaxFrames, ready : 0..MaxFrames,
            closed : BOOLEAN, failed : BOOLEAN] :
        b.left + b.ready <= MaxFrames /\ (b.closed => b.left = 0)}

EmptyBody == [hint |-> TRUE, left |-> 0, ready |-> 0, closed |-> TRUE, failed |-> FALSE]
NoHead    == [status |-> None, operation |-> None]

\* "full" holds its frames from the start; "stream" is produced while it is
\* polled and never answers is_end_stream(); "shared" is filled by another
\* task, as an upstream connection does, and does answer it.
NewBodies(kind) ==
    {b \in Bodies :
        /\ b.hint = (kind # "stream")
        /\ b.closed = (kind = "full")
        /\ kind # "full" => b.ready = 0
        /\ ~b.failed}

Ended(b)       == b.closed /\ b.ready = 0 /\ ~b.failed
IsEndStream(b) == b.hint /\ Ended(b)

TypeOK ==
    /\ phase \in [Requests -> Phases]
    /\ guard \in [Requests -> TerminalState \cup {None}]
    /\ body \in [Requests -> Bodies]
    /\ records \in [Requests -> Seq(AccessRecord)]
    /\ request \in [Requests -> OptOperation]
    /\ produced \in [Requests -> TerminalState]
    /\ eofSeen \in [Requests -> BOOLEAN]
    /\ yielded \in [Requests -> Nat] /\ received \in [Requests -> Nat]
    /\ cut \subseteq Requests
    /\ aborted \in BOOLEAN

Init ==
    /\ phase = [r \in Requests |-> "idle"]
    /\ guard = [r \in Requests |-> None]
    /\ body = [r \in Requests |-> EmptyBody]
    /\ records = [r \in Requests |-> <<>>]
    /\ request = [r \in Requests |-> None]
    /\ produced = [r \in Requests |-> NoHead]
    /\ eofSeen = [r \in Requests |-> FALSE]
    /\ yielded = [r \in Requests |-> 0] /\ received = [r \in Requests |-> 0]
    /\ cut = {}
    /\ aborted = FALSE

-----------------------------------------------------------------------------
(* TerminalGuard::finish                                                   *)

DefaultLevel(status) ==
    IF status = "server_error" THEN "ERROR"
    ELSE IF status = "client_error" THEN "WARN" ELSE "INFO"

\* Mutation of LevelsFor: abnormal ends are mapped from their status too.
LevelsForStatus(outcome, status) == MapperLevels \cup {DefaultLevel(status)}

\* The mapper is asked on a normal completion only; if it panics the default
\* level stands in.
LevelsFor(outcome, status) ==
    IF outcome = "completed" THEN MapperLevels \cup {DefaultLevel(status)} ELSE {"ERROR"}

NewRecord(state, outcome, level) ==
    [outcome |-> outcome, level |-> level,
     status |-> state.status, operation |-> state.operation]

\* The subscriber runs application code under the dispatch and may panic; a
\* guard already taken dispatches nothing.
Sinks(state) == IF state = None THEN {"returns"} ELSE {"returns", "panics"}

\* Mutation of Finish: the state is read but not taken.
FinishKeepsState(r, state, outcome) ==
    /\ guard' = [guard EXCEPT ![r] = state]
    /\ \/ state = None /\ UNCHANGED records
       \/ /\ state # None
          /\ \E level \in LevelsFor(outcome, state.status) :
                records' = [records EXCEPT ![r] =
                               Append(@, NewRecord(state, outcome, level))]

\* Mutation of Finish: a panic of the clock or the enricher escapes after the
\* state has been taken, and the record is lost.
FinishUncontained(r, state, outcome) ==
    /\ guard' = [guard EXCEPT ![r] = None]
    /\ \/ UNCHANGED records
       \/ /\ state # None
          /\ \E level \in LevelsFor(outcome, state.status) :
                records' = [records EXCEPT ![r] =
                               Append(@, NewRecord(state, outcome, level))]

\* finish() on a guard that holds `state`: the state is taken before anything
\* else runs, and a guard already taken does nothing.
Finish(r, state, outcome) ==
    /\ guard' = [guard EXCEPT ![r] = None]
    /\ \/ state = None /\ UNCHANGED records
       \/ /\ state # None
          /\ \E level \in LevelsFor(outcome, state.status) :
                records' = [records EXCEPT ![r] =
                               Append(@, NewRecord(state, outcome, level))]

\* Nothing runs after an abort.
At(r, p) == ~aborted /\ phase[r] = p

Move(r, from, to) ==
    /\ At(r, from)
    /\ phase' = [phase EXCEPT ![r] = to]

-----------------------------------------------------------------------------
(* Service::call and the response future                                   *)

\* call(): the guard is built from the request's metadata after inner.call().
Call(r, operation) ==
    /\ Move(r, "idle", "running")
    /\ request' = [request EXCEPT ![r] = operation]
    /\ guard' = [guard EXCEPT ![r] = [status |-> None, operation |-> operation]]
    /\ UNCHANGED <<body, records, produced, eofSeen, frames, aborted>>

\* inner.call() panics: it unwinds out of call() before the guard exists.
CallPanics(r, operation) ==
    /\ Move(r, "idle", "refused")
    /\ request' = [request EXCEPT ![r] = operation]
    /\ UNCHANGED <<guard, body, records, produced, eofSeen, frames, aborted>>

\* Mutation of WithHead: the request's operation id is kept.
WithStatusOnly(state, head) == [state EXCEPT !.status = head.status]

\* Mutation of WithHead: the status is not recorded at the response head.
WithOperationOnly(state, head) ==
    [state EXCEPT !.operation = IF head.operation = None THEN @ ELSE head.operation]

\* set_status and set_operation_id: the response's operation id, if it has
\* one, replaces the request's.
WithHead(state, head) ==
    [status    |-> head.status,
     operation |-> IF head.operation = None THEN state.operation ELSE head.operation]

\* Mutation of ResolveOk: ObservedBody::new does not look at the body.
ResolveOkUnchecked(r, head, b) ==
    /\ Move(r, "running", "responded")
    /\ produced' = [produced EXCEPT ![r] = head]
    /\ body' = [body EXCEPT ![r] = b]
    /\ guard' = [guard EXCEPT ![r] = WithHead(guard[r], head)]
    /\ UNCHANGED <<records, request, eofSeen, frames, aborted>>

\* The inner future resolves to a response.  ObservedBody::new finishes the
\* guard if the body is over already; a panic there loses the response.
ResolveOk(r, head, b) ==
    /\ At(r, "running")
    /\ produced' = [produced EXCEPT ![r] = head]
    /\ body' = [body EXCEPT ![r] = b]
    /\ LET state == WithHead(guard[r], head) IN
       \/ /\ IsEndStream(b)
          /\ Finish(r, state, "completed")
          /\ \E sink \in Sinks(state) :
                Move(r, "running", IF sink = "panics" THEN "gone" ELSE "responded")
       \/ /\ ~IsEndStream(b)
          /\ guard' = [guard EXCEPT ![r] = state]
          /\ Move(r, "running", "responded")
          /\ UNCHANGED records
    /\ UNCHANGED <<request, eofSeen, frames, aborted>>

\* The inner future resolves to an error, which is returned unless the
\* dispatch of the record panics.
ResolveErr(r) ==
    /\ Finish(r, guard[r], "service_error")
    /\ \E sink \in Sinks(guard[r]) :
          Move(r, "running", IF sink = "panics" THEN "gone" ELSE "failed")
    /\ UNCHANGED <<body, request, produced, eofSeen, frames, aborted>>

\* A guard dropped by unwinding: a second panic aborts the process.
DropUnwinding(r) ==
    /\ Finish(r, guard[r], "response_dropped")
    /\ \E sink \in Sinks(guard[r]) : aborted' = (sink = "panics")

\* A guard dropped by its owner: a panic propagates to the owner.
DropOwned(r) ==
    /\ Finish(r, guard[r], "response_dropped")
    /\ UNCHANGED aborted

\* The inner future panics while polled; unwinding drops the guard.
FuturePanics(r) ==
    /\ Move(r, "running", "gone")
    /\ DropUnwinding(r)
    /\ UNCHANGED <<body, request, produced, eofSeen, frames>>

\* The server drops the future: timeout, disconnect or shutdown.
DropFuture(r) ==
    /\ Move(r, "running", "gone")
    /\ DropOwned(r)
    /\ UNCHANGED <<body, request, produced, eofSeen, frames>>

-----------------------------------------------------------------------------
(* ObservedBody                                                            *)

\* What a poll_frame() that dispatched a record does to its caller.
AfterPoll(r, state) ==
    \E sink \in Sinks(state) :
        /\ Move(r, "responded", IF sink = "panics" THEN "unwinding" ELSE "responded")
        /\ cut' = IF sink = "panics" THEN cut \cup {r} ELSE cut

\* The inner body gave a frame, which is returned unless the poll panics.
HandOver(r) ==
    /\ yielded' = [yielded EXCEPT ![r] = @ + 1]
    /\ received' = [received EXCEPT ![r] = IF phase'[r] = "responded" THEN @ + 1 ELSE @]

\* Mutation of PollData: a frame is returned when none is ready.
PollDataUnready(r) ==
    /\ Move(r, "responded", "responded")
    /\ body' = [body EXCEPT ![r].ready = @ - 1]
    /\ HandOver(r)
    /\ UNCHANGED <<guard, records, request, produced, eofSeen, cut, aborted>>

\* Mutation of PollData: an empty buffer is taken for the end of the body.
PollDataGuessesEnd(r) ==
    /\ body[r].ready > 0
    /\ body' = [body EXCEPT ![r].ready = @ - 1]
    /\ \/ /\ body'[r].ready = 0
          /\ Finish(r, guard[r], "completed")
          /\ AfterPoll(r, guard[r])
       \/ /\ body'[r].ready # 0
          /\ Move(r, "responded", "responded")
          /\ UNCHANGED <<guard, records, cut>>
    /\ HandOver(r)
    /\ UNCHANGED <<request, produced, eofSeen, aborted>>

\* Poll::Ready(Some(Ok(frame))): the body is asked again whether it is over.
PollData(r) ==
    /\ body[r].ready > 0
    /\ body' = [body EXCEPT ![r].ready = @ - 1]
    /\ \/ /\ IsEndStream(body'[r])
          /\ Finish(r, guard[r], "completed")
          /\ AfterPoll(r, guard[r])
       \/ /\ ~IsEndStream(body'[r])
          /\ Move(r, "responded", "responded")
          /\ UNCHANGED <<guard, records, cut>>
    /\ HandOver(r)
    /\ UNCHANGED <<request, produced, eofSeen, aborted>>

\* Mutation of PollEof: the record is left to the drop of the body.
PollEofSilent(r) ==
    /\ Ended(body[r])
    /\ Move(r, "responded", "responded")
    /\ eofSeen' = [eofSeen EXCEPT ![r] = TRUE]
    /\ UNCHANGED <<guard, body, records, request, produced, frames, aborted>>

\* Poll::Ready(None).
PollEof(r) ==
    /\ Ended(body[r])
    /\ Finish(r, guard[r], "completed")
    /\ AfterPoll(r, guard[r])
    /\ eofSeen' = [eofSeen EXCEPT ![r] = (phase'[r] = "responded")]
    /\ UNCHANGED <<body, request, produced, yielded, received, aborted>>

\* Poll::Ready(Some(Err(error))).
PollError(r) ==
    /\ body[r].ready = 0 /\ body[r].failed
    /\ body' = [body EXCEPT ![r].failed = FALSE]
    /\ Finish(r, guard[r], "body_error")
    /\ AfterPoll(r, guard[r])
    /\ UNCHANGED <<request, produced, eofSeen, yielded, received, aborted>>

\* The inner body panics while polled; the guard is untouched until the drop.
PollPanics(r) ==
    /\ Move(r, "responded", "unwinding")
    /\ UNCHANGED <<guard, body, records, request, produced, eofSeen, frames, aborted>>

\* The server asks is_end_stream(), which is the inner body's answer now.
AskEndStream(r) ==
    /\ At(r, "responded")
    /\ IsEndStream(body[r])
    /\ eofSeen' = [eofSeen EXCEPT ![r] = TRUE]
    /\ UNCHANGED <<phase, guard, body, records, request, produced, frames, aborted>>

\* The server drops the response: it is done with it, or the client left, or
\* it caught the panic of a poll.
DropResponse(r) ==
    /\ Move(r, "responded", "gone") \/ Move(r, "unwinding", "gone")
    /\ DropOwned(r)
    /\ UNCHANGED <<body, request, produced, eofSeen, frames>>

\* The panic of a poll unwinds through the owner of the response.
Unwind(r) ==
    /\ Move(r, "unwinding", "gone")
    /\ DropUnwinding(r)
    /\ UNCHANGED <<body, request, produced, eofSeen, frames>>

-----------------------------------------------------------------------------
(* The producer of a body that is not held in memory                       *)

Feed(r, b) ==
    /\ At(r, "responded")
    /\ ~body[r].closed
    /\ body' = [body EXCEPT ![r] = b]
    /\ UNCHANGED <<phase, guard, records, request, produced, eofSeen, frames, aborted>>

Produce(r) ==
    /\ body[r].left > 0
    /\ Feed(r, [body[r] EXCEPT !.left = @ - 1, !.ready = @ + 1])

CloseBody(r) ==
    /\ body[r].left = 0
    /\ Feed(r, [body[r] EXCEPT !.closed = TRUE])

FailBody(r) ==
    Feed(r, [body[r] EXCEPT !.closed = TRUE, !.failed = TRUE, !.left = 0])

-----------------------------------------------------------------------------

Resolve(r) ==
    \/ \E status \in Statuses, operation \in OptOperation, kind \in BodyKinds :
          \E b \in NewBodies(kind) :
             ResolveOk(r, [status |-> status, operation |-> operation], b)
    \/ ResolveErr(r)
    \/ FuturePanics(r)

PollReady(r) == PollData(r) \/ PollEof(r) \/ PollError(r)

Drop(r) == DropFuture(r) \/ DropResponse(r) \/ Unwind(r)

Supply(r) == Produce(r) \/ CloseBody(r) \/ FailBody(r)

Step(r) ==
    \/ \E operation \in OptOperation : Call(r, operation) \/ CallPanics(r, operation)
    \/ Resolve(r)
    \/ PollReady(r)
    \/ PollPanics(r)
    \/ AskEndStream(r)
    \/ Drop(r)
    \/ Supply(r)

\* Nothing happens after an abort, nor once every request has been disposed of.
Stopped ==
    /\ aborted \/ \A r \in Requests : phase[r] \in {"refused", "failed", "gone"}
    /\ UNCHANGED vars

Next ==
    \/ \E r \in Requests : Step(r)
    \/ Stopped

Spec == Init /\ [][Next]_vars

\* The executor polls a future that can make progress, a service answers, a
\* producer ends its body, and a panic unwinds to the owner of the body.
\* Nothing obliges the server to drop a response.
Fairness ==
    \A r \in Requests :
        /\ WF_vars(Resolve(r))
        /\ WF_vars(PollReady(r))
        /\ WF_vars(Supply(r))
        /\ WF_vars(Unwind(r))

FairSpec == Spec /\ Fairness

-----------------------------------------------------------------------------
(* Properties                                                              *)

\* README.md "a one-shot terminal guard": no interleaving of completion, body
\* error, later polls, unwinding and drop dispatches a second access event,
\* and no request whose guard was built ends without one.
ExactlyOneRecord ==
    \A r \in Requests :
        /\ Len(records[r]) <= 1
        /\ phase[r] \in {"failed", "gone"} => Len(records[r]) = 1

\* README.md "Status and duration reflect the latest trustworthy state": the
\* record carries the status of the response the service produced, however the
\* request ended, none if it produced none, and the response's operation id in
\* preference to the request's.
RecordReflectsResponse ==
    \A r \in Requests : \A i \in 1..Len(records[r]) :
        /\ records[r][i].status = produced[r].status
        /\ records[r][i].operation =
              IF produced[r].operation = None THEN request[r] ELSE produced[r].operation

\* A record of normal completion is dispatched only when the inner body has given
\* all its frames and ended without error.  It does not promise delivery: finish()
\* runs before the poll returns, so the last frame is lost if the dispatch panics.
\* That is the only frame poll_frame() ever withholds, and only of a completed body.
CompletedAccountsForFrames ==
    \A r \in Requests :
        LET completed == \E i \in 1..Len(records[r]) : records[r][i].outcome = "completed"
        IN  /\ completed => Ended(body[r])
            /\ received[r] # yielded[r] =>
                  /\ received[r] + 1 = yielded[r]
                  /\ completed /\ r \in cut /\ phase[r] \in {"unwinding", "gone"}

\* README.md "an already-ended body completes before its EOF state is
\* exposed": a server that has learnt that the body is over finds the record
\* already dispatched, so dropping the body then cannot be reported as an
\* abnormal end.
EofExposedAfterRecord ==
    \A r \in Requests : eofSeen[r] => guard[r] = None

\* README.md "dropping an unfinished response ... emits one response_dropped
\* record": a response whose body was seen to be over is not reported so.
DroppedOnlyUnfinished ==
    \A r \in Requests : \A i \in 1..Len(records[r]) :
        records[r][i].outcome = "response_dropped" => ~eofSeen[r]

\* lib.rs "one terminal access event after the response body completes or is
\* abandoned": a request the service accepted is eventually reported, as long
\* as the executor polls, services answer and producers close their bodies.
EventuallyRecorded ==
    \A r \in Requests : phase[r] = "running" ~> (records[r] # <<>> \/ aborted)

-----------------------------------------------------------------------------
(* Implementation of TerminalOnce                                          *)

Accepted == {r \in Requests : phase[r] \notin {"idle", "refused"}}
Reported == [r \in Requests |-> IF records[r] = <<>> THEN None ELSE records[r][1]]

Contract == INSTANCE TerminalOnce WITH accepted <- Accepted, report <- Reported

\* Every step of a request's life accepts it, reports it once with a legal
\* record, or leaves its report as it is.
ImplementsTerminalOnce == Contract!Spec
=============================================================================
