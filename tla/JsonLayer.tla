------------------------------ MODULE JsonLayer ------------------------------
(***************************************************************************)
(* JsonLayer::on_event (src/src/formatter.rs): any number of threads       *)
(* format their events in parallel and write them, one record at a time,   *)
(* through application-supplied writers onto one output.                   *)
(*                                                                         *)
(* A line is LineParts pieces, the last of which ends in LF; a writer may  *)
(* take it in several write() calls, fail or panic between two of them.    *)
(* Which fields a line holds is left out.  Writers do not emit events      *)
(* through the same layer.                                                 *)
(***************************************************************************)
EXTENDS Naturals, Sequences

CONSTANTS
    Threads,            \* threads that emit events
    MaxEvents,          \* bound: events per thread
    LineParts,          \* bound: write() calls a line may be split into
    Faults,             \* what may go wrong: see FaultKinds
    LogInternalErrors,  \* JsonLayer::log_internal_errors
    None                \* no thread

FaultKinds == {"format", "error", "panic", "stderr"}

ASSUME EventsAssumption == MaxEvents \in Nat /\ LineParts \in Nat \ {0}
ASSUME FaultsAssumption == Faults \subseteq FaultKinds
ASSUME LogAssumption == LogInternalErrors \in BOOLEAN
ASSUME NoneAssumption == None \notin Threads

Events == Threads \X (1..MaxEvents)
Parts  == 1..LineParts
Chunks == [event : Events, part : Parts]

VARIABLES
    pc,         \* where each thread is in on_event
    current,    \* the number of the event each thread emits or emitted last
    parts,      \* pieces of the current line the writer has taken
    owner,      \* who holds record_write_lock
    poisoned,   \* whether a panic unwound through the lock
    out,        \* the pieces on the output, in order
    written,    \* events whose write_all returned Ok
    diagnosed,  \* events reported on stderr
    muted,      \* events whose report stderr did not take
    unwound     \* events whose writer panicked

vars == <<pc, current, parts, owner, poisoned, out, written, diagnosed, muted, unwound>>

\* "idle"     outside on_event
\* "format"   building and serialising the record, without the lock
\* "failed"   the record could not be formatted
\* "wait"     about to lock record_write_lock
\* "make"     holds the lock, about to call make_writer_for
\* "write"    in write_all
\* "error"    write_all returned an error
\* "leave"    about to drop the writer and the lock
Stages   == {"idle", "format", "failed", "wait", "make", "write", "error", "leave"}
Critical == {"make", "write", "error", "leave"}

TypeOK ==
    /\ pc \in [Threads -> Stages]
    /\ current \in [Threads -> 0..MaxEvents]
    /\ parts \in [Threads -> 0..LineParts]
    /\ owner \in Threads \cup {None}
    /\ poisoned \in BOOLEAN
    /\ out \in Seq(Chunks)
    /\ written \subseteq Events
    /\ diagnosed \subseteq Events
    /\ muted \subseteq Events
    /\ unwound \subseteq Events

Init ==
    /\ pc = [t \in Threads |-> "idle"]
    /\ current = [t \in Threads |-> 0]
    /\ parts = [t \in Threads |-> 0]
    /\ owner = None
    /\ poisoned = FALSE
    /\ out = <<>>
    /\ written = {} /\ diagnosed = {} /\ muted = {} /\ unwound = {}

Event(t) == <<t, current[t]>>

Goto(t, from, to) ==
    /\ pc[t] = from
    /\ pc' = [pc EXCEPT ![t] = to]

Emit(t) ==
    /\ current[t] < MaxEvents
    /\ Goto(t, "idle", "format")
    /\ current' = [current EXCEPT ![t] = @ + 1]
    /\ parts' = [parts EXCEPT ![t] = 0]
    /\ UNCHANGED <<owner, poisoned, out, written, diagnosed, muted, unwound>>

\* The timestamp or the serialisation may fail, before the lock is taken.
Format(t) ==
    /\ \/ Goto(t, "format", "wait")
       \/ "format" \in Faults /\ Goto(t, "format", "failed")
    /\ UNCHANGED <<current, parts, owner, poisoned, out, written, diagnosed, muted, unwound>>

\* report_internal_failure says which stage failed, on stderr, if enabled.  That
\* write may fail as well, and its result is discarded.
Report(t) ==
    LET told == IF LogInternalErrors THEN {Event(t)} ELSE {} IN
        \/ diagnosed' = diagnosed \cup told /\ UNCHANGED muted
        \/ "stderr" \in Faults /\ muted' = muted \cup told /\ UNCHANGED diagnosed

ReportFormat(t) ==
    /\ Goto(t, "failed", "idle")
    /\ Report(t)
    /\ UNCHANGED <<current, parts, owner, poisoned, out, written, unwound>>

\* Mutation of Acquire: the lock is not taken.
AcquireNothing(t) ==
    /\ Goto(t, "wait", "make")
    /\ owner' = t
    /\ UNCHANGED <<current, parts, poisoned, out, written, diagnosed, muted, unwound>>

\* Mutation of Acquire: a poisoned lock makes on_event give up.
AcquireUnlessPoisoned(t) ==
    /\ owner = None
    /\ \/ ~poisoned /\ Goto(t, "wait", "make") /\ owner' = t
       \/ poisoned /\ Goto(t, "wait", "idle") /\ UNCHANGED owner
    /\ UNCHANGED <<current, parts, poisoned, out, written, diagnosed, muted, unwound>>

\* A poisoned lock is taken all the same: PoisonError::into_inner.
Acquire(t) ==
    /\ owner = None
    /\ Goto(t, "wait", "make")
    /\ owner' = t
    /\ UNCHANGED <<current, parts, poisoned, out, written, diagnosed, muted, unwound>>

\* Mutation of MakeWriter: the lock covers writer creation only.
MakeWriterUnlocks(t) ==
    /\ Goto(t, "make", "write")
    /\ owner' = None
    /\ UNCHANGED <<current, parts, poisoned, out, written, diagnosed, muted, unwound>>

MakeWriter(t) ==
    /\ Goto(t, "make", "write")
    /\ UNCHANGED <<current, parts, owner, poisoned, out, written, diagnosed, muted, unwound>>

\* Mutation of WritePart: write() instead of write_all().
WriteOnce(t) ==
    /\ Goto(t, "write", "leave")
    /\ parts' = [parts EXCEPT ![t] = @ + 1]
    /\ out' = Append(out, [event |-> Event(t), part |-> parts[t] + 1])
    /\ written' = written \cup {Event(t)}
    /\ UNCHANGED <<current, owner, poisoned, diagnosed, muted, unwound>>

\* Mutation of WritePart: the end of the line is not noticed.
WriteOn(t) ==
    /\ Goto(t, "write", "write")
    /\ parts' = [parts EXCEPT ![t] = @ + 1]
    /\ out' = Append(out, [event |-> Event(t), part |-> parts[t] + 1])
    /\ UNCHANGED <<current, owner, poisoned, written, diagnosed, muted, unwound>>

\* One write() call of write_all takes the next piece; the last one ends it.
WritePart(t) ==
    /\ Goto(t, "write", IF parts[t] + 1 = LineParts THEN "leave" ELSE "write")
    /\ parts' = [parts EXCEPT ![t] = @ + 1]
    /\ out' = Append(out, [event |-> Event(t), part |-> parts[t] + 1])
    /\ written' = IF parts[t] + 1 = LineParts THEN written \cup {Event(t)} ELSE written
    /\ UNCHANGED <<current, owner, poisoned, diagnosed, muted, unwound>>

\* A write() call fails for good: what was taken before stays on the output.
WriteError(t) ==
    /\ "error" \in Faults
    /\ Goto(t, "write", "error")
    /\ UNCHANGED <<current, parts, owner, poisoned, out, written, diagnosed, muted, unwound>>

\* Mutation of ReportWrite: what is left of the line is tried again, without end.
ReportAndRetry(t) ==
    /\ Goto(t, "error", "write")
    /\ Report(t)
    /\ UNCHANGED <<current, parts, owner, poisoned, out, written, unwound>>

\* The failure is reported while the record lock is still held.
ReportWrite(t) ==
    /\ Goto(t, "error", "leave")
    /\ Report(t)
    /\ UNCHANGED <<current, parts, owner, poisoned, out, written, unwound>>

\* Mutation of Leave: the record is submitted again, written or not.
LeaveRetries(t) ==
    /\ Goto(t, "leave", "wait")
    /\ owner' = None
    /\ parts' = [parts EXCEPT ![t] = 0]
    /\ UNCHANGED <<current, poisoned, out, written, diagnosed, muted, unwound>>

\* The end of on_event drops the writer, then the lock.
Leave(t) ==
    /\ Goto(t, "leave", "idle")
    /\ owner' = None
    /\ UNCHANGED <<current, parts, poisoned, out, written, diagnosed, muted, unwound>>

\* make_writer_for or write() panics: unwinding releases and poisons the lock.
WriterPanics(t) ==
    /\ "panic" \in Faults
    /\ Goto(t, "make", "idle") \/ Goto(t, "write", "idle")
    /\ owner' = None
    /\ poisoned' = TRUE
    /\ unwound' = unwound \cup {Event(t)}
    /\ UNCHANGED <<current, parts, out, written, diagnosed, muted>>

Step(t) ==
    \/ Format(t) \/ ReportFormat(t)
    \/ Acquire(t) \/ MakeWriter(t) \/ WritePart(t)
    \/ WriteError(t) \/ ReportWrite(t) \/ Leave(t) \/ WriterPanics(t)

\* The bound on events is reached and nothing is under way.
Quiet ==
    /\ \A t \in Threads : pc[t] = "idle" /\ current[t] = MaxEvents
    /\ UNCHANGED vars

Next == (\E t \in Threads : Emit(t) \/ Step(t)) \/ Quiet

Spec == Init /\ [][Next]_vars

-----------------------------------------------------------------------------
(* Properties                                                              *)

\* formatter.rs:164 holds record_write_lock from writer creation to the end of
\* write_all: two threads are never inside it together, after a panic neither,
\* and no thread that has left still holds it.
LockIsExclusive ==
    \A t \in Threads : owner = t <=> pc[t] \in Critical

\* README.md "concurrent events through the same layer cannot interleave":
\* after its first piece, every piece of a line directly follows the piece
\* before it, whatever fails or panics around it.
NoInterleaving ==
    \A i \in 1..Len(out) :
        out[i].part > 1 =>
            /\ i > 1
            /\ out[i - 1] = [event |-> out[i].event, part |-> out[i].part - 1]

\* The end of write_all and the end of the line are the same thing: an event
\* counts as written exactly when its LF is on the output, so an event that is
\* reported as dropped, or was to be, or whose writer panicked, has no complete line.
WrittenMeansTerminated ==
    \A e \in Events :
        /\ e \in written <=> \E i \in 1..Len(out) : out[i] = [event |-> e, part |-> LineParts]
        /\ e \in written => e \notin diagnosed \cup muted \cup unwound

\* What became of an event that left on_event, with diagnostics enabled: it was
\* written, or its own writer panicked, or it was dropped and reported on stderr,
\* or it was dropped and stderr failed over the report too.  So a panic of one
\* writer does not lose the events after it, and while stderr takes what it is
\* given no event is lost in silence.
NoSilentLoss ==
    LogInternalErrors =>
        \A t \in Threads : \A n \in 1..current[t] :
            \/ n = current[t] /\ pc[t] # "idle"
            \/ <<t, n>> \in written \cup diagnosed \cup unwound
            \/ <<t, n>> \in muted /\ "stderr" \in Faults

\* README.md "each application or access event is one ... JSON object followed
\* by one LF": the line of a written event starts at the beginning of the
\* output or right after an LF.
WrittenOnOwnLine ==
    \A i \in 1..Len(out) :
        out[i].part = 1 /\ out[i].event \in written =>
            i = 1 \/ out[i - 1].part = LineParts

\* What does hold of the framing when writers fail: a line starts at the beginning
\* of the output, right after an LF, or right after the fragment of an event
\* that its thread has given up, never inside a line that is still written.
LineStartsAfterLineOrFailure ==
    \A i \in 2..Len(out) :
        out[i].part = 1 =>
            LET before == out[i - 1]
                t      == before.event[1]
            IN  \/ before.part = LineParts
                \/ /\ before.event \notin written
                   /\ before.event[2] < current[t] \/ pc[t] = "idle"

-----------------------------------------------------------------------------
(* Implementation of NdjsonStream                                          *)

\* The events whose last piece is among these pieces, in their order.
EndsOf(pieces) ==
    LET upto[n \in 0..Len(pieces)] ==
            IF n = 0 THEN <<>>
            ELSE IF pieces[n].part = LineParts THEN Append(upto[n - 1], pieces[n].event)
            ELSE upto[n - 1]
    IN  upto[Len(pieces)]

Lines == EndsOf(out)

Stream == INSTANCE NdjsonStream WITH lines <- Lines

\* Complete lines appear one by one, at most once per event, in each thread's
\* order of emission, and stay.
ImplementsNdjsonStream == Stream!Spec
=============================================================================
