------------------------------ MODULE AccessLog ------------------------------
(***************************************************************************)
(* The middleware and the JSON layer together: workers of an async runtime *)
(* run requests, and the access record of a request goes through the same  *)
(* on_event, the same record lock and the same writer as the events of     *)
(* every handler.  A handler may call an instrumented service in process,  *)
(* so that one worker has the guards of several requests on its stack.  A  *)
(* panic of the writer unwinds into whoever logged: the handler, finish(), *)
(* or the drop of a TerminalGuard that another panic unwinds already.      *)
(*                                                                         *)
(* on_event is JsonLayer; of the life of a request only the guard is kept  *)
(* (AccessLifecycle has the rest).  The lock of stderr is in the model     *)
(* because on_event takes it, for its diagnostics, while it holds          *)
(* record_write_lock.  The panic hook of std writes past that lock.        *)
(***************************************************************************)
EXTENDS Naturals, Sequences, FiniteSets

CONSTANTS
    Workers,            \* threads of the runtime
    Requests,
    MaxSteps,           \* bound: events, waits and prints of a request's handler
    LineParts,          \* JsonLayer's
    Faults,             \* JsonLayer's
    LogInternalErrors,  \* JsonLayer's
    LogsHoldingStderr,  \* whether handlers log while they hold stderr's lock
    None                \* no request, no worker

ASSUME StepsAssumption == MaxSteps \in Nat
ASSUME StderrAssumption == LogsHoldingStderr \in BOOLEAN
ASSUME RequestsAssumption == IsFiniteSet(Requests) /\ None \notin Requests
ASSUME LayerAssumption ==
    /\ LineParts \in Nat \ {0}
    /\ Faults \subseteq {"format", "error", "panic", "stderr"}
    /\ LogInternalErrors \in BOOLEAN
    /\ None \notin Workers

\* A worker may run every request: its events and one access record each.
MaxEvents == (MaxSteps + 1) * Cardinality(Requests)

VARIABLES
    pc, current, parts, owner, poisoned, out, written, diagnosed, muted, unwound, \* JsonLayer
    job,        \* the requests whose code is on each worker's stack, innermost first
    place,      \* where a request is: see Places
    task,       \* the request that the runtime runs, in whose handling this one was called
    armed,      \* requests whose guard holds its state
    steps,      \* steps each handler has left
    unwinding,  \* whether a panic is unwinding the worker's stack
    stderr,     \* who holds the lock of stderr
    source,     \* the request whose code emitted an event
    access,     \* the events that are access records
    filtered,   \* requests whose access record the subscriber's filter dropped
    faulty,     \* requests whose handler panicked by itself
    aborted     \* a panic out of a drop that unwinding ran

layer  == <<pc, current, parts, owner, poisoned, out, written, diagnosed, muted, unwound>>
events == <<source, access, filtered>>
server == <<job, place, task, armed, steps, unwinding, stderr, events, faulty, aborted>>
vars   == <<layer, server>>

Layer == INSTANCE JsonLayer WITH Threads <- Workers

\* "new"      not called yet
\* "calling"  call() is in inner.call(): there is no guard yet
\* "parked"   its future or body is owned by its task and not on a stack
\* "on"       its future or body is polled, or dropped, on a worker
\* "over"     it is gone
\* "refused"  inner.call() panicked: it is gone without a guard
Places == {"new", "calling", "parked", "on", "over", "refused"}

TypeOK ==
    /\ Layer!TypeOK
    /\ job \in [Workers -> Seq(Requests)]
    /\ place \in [Requests -> Places]
    /\ task \in [Requests -> Requests \cup {None}]
    /\ armed \subseteq Requests
    /\ steps \in [Requests -> 0..MaxSteps]
    /\ unwinding \in [Workers -> BOOLEAN]
    /\ stderr \in Workers \cup {None}
    /\ source \in [Layer!Events -> Requests \cup {None}]
    /\ access \subseteq Layer!Events
    /\ filtered \subseteq Requests
    /\ faulty \subseteq Requests
    /\ aborted \in BOOLEAN

Init ==
    /\ Layer!Init
    /\ job = [t \in Workers |-> <<>>]
    /\ place = [r \in Requests |-> "new"]
    /\ task = [r \in Requests |-> None]
    /\ armed = {}
    /\ steps = [r \in Requests |-> MaxSteps]
    /\ unwinding = [t \in Workers |-> FALSE]
    /\ stderr = None
    /\ source = [e \in Layer!Events |-> None]
    /\ access = {} /\ filtered = {}
    /\ faulty = {}
    /\ aborted = FALSE

\* The worker runs code of request r outside on_event.
Runs(t, r) ==
    /\ ~aborted
    /\ job[t] # <<>> /\ r = Head(job[t])
    /\ pc[t] = "idle"

\* A step of the handler's own code.
HandlerStep(t, r) ==
    /\ Runs(t, r) /\ ~unwinding[t]
    /\ steps[r] > 0
    /\ steps' = [steps EXCEPT ![r] = @ - 1]

Push(t, r) == job' = [job EXCEPT ![t] = <<r>> \o @]
Pop(t)     == job' = [job EXCEPT ![t] = Tail(@)]
Move(r, p) == place' = [place EXCEPT ![r] = p]

-----------------------------------------------------------------------------
(* Running requests                                                        *)

\* Service::call is entered for a request: by the runtime, or by the handler that
\* runs on the worker.  The lock of stderr cannot be held across an await.
Call(t, r) ==
    /\ ~aborted /\ place[r] = "new"
    /\ \/ /\ job[t] = <<>>
          /\ task' = [task EXCEPT ![r] = r]
       \/ \E caller \in Requests :
             /\ Runs(t, caller) /\ ~unwinding[t] /\ stderr # t
             /\ task' = [task EXCEPT ![r] = task[caller]]
    /\ Push(t, r)
    /\ Move(r, "calling")
    /\ UNCHANGED <<layer, armed, steps, unwinding, stderr, events, faulty, aborted>>

\* inner.call() has returned: the guard is built, and the future is the caller's.
Return(t, r) ==
    /\ Runs(t, r) /\ ~unwinding[t] /\ stderr # t
    /\ place[r] = "calling"
    /\ armed' = armed \cup {r}
    /\ Pop(t)
    /\ Move(r, "parked")
    /\ UNCHANGED <<layer, task, steps, unwinding, stderr, events, faulty, aborted>>

\* The runtime polls or drops a request of its own on any worker, and a task one
\* that was called on it, where it runs; unwinding drops it there.
Poll(t, r) ==
    /\ ~aborted /\ place[r] = "parked"
    /\ \/ job[t] = <<>> /\ task[r] = r
       \/ \E caller \in Requests :
             Runs(t, caller) /\ stderr # t /\ task[caller] = task[r]
    /\ Push(t, r)
    /\ Move(r, "on")
    /\ UNCHANGED <<layer, task, armed, steps, unwinding, stderr, events, faulty, aborted>>

\* Poll::Pending.
Park(t, r) ==
    /\ HandlerStep(t, r)
    /\ stderr # t
    /\ place[r] = "on"
    /\ Pop(t)
    /\ Move(r, "parked")
    /\ UNCHANGED <<layer, task, armed, unwinding, stderr, events, faulty, aborted>>

\* The handler logs an event of its own that passes the subscriber's filter.
Log(t, r) ==
    /\ HandlerStep(t, r)
    /\ LogsHoldingStderr \/ stderr # t
    /\ Layer!Emit(t)
    /\ source' = [source EXCEPT ![<<t, current'[t]>>] = r]
    /\ UNCHANGED <<job, place, task, armed, unwinding, stderr, access, filtered, faulty, aborted>>

\* The handler prints: it takes the lock of stderr and drops it later.
LockStderr(t, r) ==
    /\ HandlerStep(t, r)
    /\ stderr = None
    /\ stderr' = t
    /\ UNCHANGED <<layer, job, place, task, armed, unwinding, events, faulty, aborted>>

UnlockStderr(t, r) ==
    /\ Runs(t, r)
    /\ stderr = t
    /\ stderr' = None
    /\ UNCHANGED <<layer, job, place, task, armed, steps, unwinding, events, faulty, aborted>>

\* Unwinding drops what the handler holds.
Unwind(t) ==
    /\ unwinding' = [unwinding EXCEPT ![t] = TRUE]
    /\ stderr' = IF stderr = t THEN None ELSE stderr

HandlerPanics(t, r) ==
    /\ HandlerStep(t, r)
    /\ Unwind(t)
    /\ faulty' = faulty \cup {r}
    /\ UNCHANGED <<layer, job, place, task, armed, events, aborted>>

\* The panic is caught, by a recovery layer that the middleware wraps or by whoever
\* polled the request and still owns it.
Recover(t, r) ==
    /\ Runs(t, r) /\ unwinding[t]
    /\ unwinding' = [unwinding EXCEPT ![t] = FALSE]
    /\ UNCHANGED <<layer, job, place, task, armed, steps, stderr, events, faulty, aborted>>

\* Mutation of Finish: the state is read but not taken.
FinishKeepsState(t, r) ==
    /\ Runs(t, r)
    /\ stderr # t
    /\ r \in armed
    /\ UNCHANGED <<armed, filtered>>
    /\ Layer!Emit(t)
    /\ source' = [source EXCEPT ![<<t, current'[t]>>] = r]
    /\ access' = access \cup {<<t, current'[t]>>}
    /\ UNCHANGED <<job, place, task, steps, unwinding, stderr, faulty, aborted>>

\* TerminalGuard::finish, called by the middleware or by the drop of the guard: the
\* state is taken, then the record is dispatched, unless its level is filtered.
Finish(t, r) ==
    /\ Runs(t, r)
    /\ stderr # t
    /\ r \in armed
    /\ armed' = armed \ {r}
    /\ \/ /\ filtered' = filtered \cup {r}
          /\ UNCHANGED <<layer, source, access>>
       \/ /\ Layer!Emit(t)
          /\ source' = [source EXCEPT ![<<t, current'[t]>>] = r]
          /\ access' = access \cup {<<t, current'[t]>>}
          /\ UNCHANGED filtered
    /\ UNCHANGED <<job, place, task, steps, unwinding, stderr, faulty, aborted>>

\* The request is dropped, or a panic has unwound it and goes on to its caller; the
\* runtime catches it at the end of the stack, where nothing of the task is left.
End(t, r) ==
    /\ Runs(t, r)
    /\ stderr # t
    /\ r \notin armed
    /\ place[r] = "on" \/ unwinding[t]
    /\ task[r] = r => \A q \in Requests : ~(task[q] = r /\ place[q] = "parked")
    /\ Pop(t)
    /\ Move(r, IF place[r] = "on" THEN "over" ELSE "refused")
    /\ unwinding' = [unwinding EXCEPT ![t] = @ /\ task[r] # r]
    /\ UNCHANGED <<layer, task, armed, steps, stderr, events, faulty, aborted>>

-----------------------------------------------------------------------------
(* on_event                                                                *)

Write(t) ==
    /\ ~aborted
    /\ \/ Layer!Format(t) \/ Layer!Acquire(t) \/ Layer!MakeWriter(t)
       \/ Layer!WritePart(t) \/ Layer!WriteError(t) \/ Layer!Leave(t)
    /\ UNCHANGED server

\* stderr's lock is reentrant: a diagnostic waits for other threads.
CanPrint(t) == stderr \in {None, t}

\* report_internal_failure locks stderr, if enabled.
Report(t) ==
    /\ ~aborted
    /\ LogInternalErrors => CanPrint(t)
    /\ Layer!ReportFormat(t) \/ Layer!ReportWrite(t)
    /\ UNCHANGED server

\* The panic of a writer leaves on_event.  It unwinds the worker, or, out of the
\* drop of a guard that is being unwound, aborts the process.
WriterPanics(t) ==
    /\ ~aborted
    /\ Layer!WriterPanics(t)
    /\ \/ ~unwinding[t] /\ Unwind(t) /\ UNCHANGED aborted
       \/ unwinding[t] /\ aborted' = TRUE /\ UNCHANGED <<unwinding, stderr>>
    /\ UNCHANGED <<job, place, task, armed, steps, events, faulty>>

Inside(t) == Write(t) \/ Report(t) \/ WriterPanics(t)

\* Everything has been served, or the process is gone.
Quiet ==
    /\ aborted \/ \A r \in Requests : place[r] \in {"over", "refused"}
    /\ UNCHANGED vars

Next ==
    \/ \E t \in Workers, r \in Requests :
          \/ Call(t, r) \/ Return(t, r) \/ Poll(t, r) \/ Park(t, r)
          \/ Log(t, r) \/ LockStderr(t, r) \/ UnlockStderr(t, r)
          \/ HandlerPanics(t, r) \/ Recover(t, r) \/ Finish(t, r) \/ End(t, r)
    \/ \E t \in Workers : Inside(t)
    \/ Quiet

Spec == Init /\ [][Next]_vars

\* A worker inside on_event is scheduled again; inner.call() returns; a request that
\* waits is polled again by some worker and is brought to its end; a handler that
\* prints lets go of stderr.
Fairness ==
    /\ \A t \in Workers : WF_vars(Inside(t))
    /\ \A r \in Requests :
          /\ WF_vars(\E t \in Workers : Return(t, r))
          /\ WF_vars(\E t \in Workers : Poll(t, r))
          /\ WF_vars(\E t \in Workers : Finish(t, r))
          /\ WF_vars(\E t \in Workers : End(t, r))
          /\ WF_vars(\E t \in Workers : UnlockStderr(t, r))

FairSpec == Spec /\ Fairness

-----------------------------------------------------------------------------
(* Properties                                                              *)

RecordsOf(r) == {e \in access : source[e] = r}

\* README.md "once the guard completes, later polling or drop cannot emit a
\* duplicate": on the output too, also when writers fail or panic, a request has
\* at most one access event, none if its level is filtered or no guard was built,
\* and at most one complete line of it, written once.
OneAccessLine ==
    \A r \in Requests :
        LET lines == {i \in 1..Len(out) : out[i].event \in RecordsOf(r) /\ out[i].part = LineParts}
        IN  /\ \A d, e \in RecordsOf(r) : d = e
            /\ r \in filtered \/ place[r] = "refused" => RecordsOf(r) = {}
            /\ \A i, j \in lines : i = j

\* A request whose guard was built and that is over, nested ones included, has its
\* record on the output, or its level was filtered, or its own write panicked, or
\* the formatter or the writer failed and stderr says so, unless stderr failed too.
\* In particular a handler whose log line panicked in the writer, and poisoned the
\* lock, still gets its access record out.
RecordIsAccountedFor ==
    LogInternalErrors =>
        \A r \in Requests :
            place[r] = "over" =>
                \/ r \in filtered
                \/ \E e \in RecordsOf(r) :
                      \/ e \in written \cup diagnosed \cup unwound
                      \/ e \in muted /\ "stderr" \in Faults

\* The access log alone can abort the process only where requests are nested: an
\* abort takes the panic of a writer over an access record and another panic on
\* the same task, of a handler, over the line of a handler, or over the record of
\* another request.  The record of one request never panics twice, because the
\* guard is disarmed before it dispatches.
AbortTakesTwoPanics ==
    aborted =>
        \E e \in unwound \cap access :
            \/ \E r \in faulty : task[r] = task[source[e]]
            \/ \E d \in unwound :
                  /\ task[source[d]] = task[source[e]]
                  /\ d \in access => source[d] # source[e]

\* Every accepted request ends, whatever panics and fails around it, as long as
\* nobody logs while holding stderr: record_write_lock is taken before stderr's.
EveryRequestEnds ==
    \A r \in Requests : place[r] # "new" ~> place[r] \in {"over", "refused"} \/ aborted
=============================================================================
