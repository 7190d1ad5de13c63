--------------------------- MODULE JsonLayerProofs ---------------------------
(***************************************************************************)
(* Proofs about JsonLayer: type correctness, the mutual exclusion of the   *)
(* record lock, the freedom from interleaving it gives the output, and     *)
(* what becomes of every event, for any threads, any length of line and    *)
(* any combination of faults.                                              *)
(***************************************************************************)
EXTENDS JsonLayer, SequenceTheorems, InductionLemmas

-----------------------------------------------------------------------------
(* The inductive invariant                                                 *)

\* What the writer has taken of a line before and during write_all: the piece
\* it took last is the last on the output.
Progress(t) ==
    /\ pc[t] # "idle" => current[t] \in 1..MaxEvents
    /\ pc[t] \in {"format", "wait", "make"} => parts[t] = 0
    /\ pc[t] = "write" =>
          /\ parts[t] < LineParts
          /\ parts[t] > 0 =>
                /\ out # <<>>
                /\ out[Len(out)] = [event |-> Event(t), part |-> parts[t]]

IInv == TypeOK /\ LockIsExclusive /\ NoInterleaving /\ \A t \in Threads : Progress(t)

\* Events of which something became, and that they were emitted.
Settled == written \cup diagnosed \cup muted \cup unwound
SettledWereEmitted == \A e \in Settled : e[2] <= current[e[1]]

\* Nothing becomes of an event before its record is written or given up; when
\* its thread is about to leave, something has.
Undecided(t) ==
    /\ pc[t] \notin {"idle", "leave"} => Event(t) \notin Settled
    /\ LogInternalErrors /\ pc[t] = "leave" => Event(t) \in Settled

\* A line ends once.
EndsAreUnique ==
    \A i, j \in 1..Len(out) :
        out[i].part = LineParts /\ out[j].part = LineParts /\ out[i].event = out[j].event => i = j

\* Something became of every event that left on_event.
NothingUnsettled ==
    LogInternalErrors =>
        \A t \in Threads : \A n \in 1..current[t] :
            n # current[t] \/ pc[t] = "idle" => <<t, n>> \in Settled

MutedByStderr == muted # {} => "stderr" \in Faults

Outcomes ==
    /\ NothingUnsettled /\ MutedByStderr /\ WrittenMeansTerminated
    /\ EndsAreUnique /\ SettledWereEmitted
    /\ \A t \in Threads : Undecided(t)

-----------------------------------------------------------------------------
(* Preservation                                                            *)

LEMMA InitInv == Init => IInv
<1> SUFFICES ASSUME Init PROVE IInv
  OBVIOUS
<1>1. TypeOK
  <2>1. 0 \in 0..MaxEvents /\ 0 \in 0..LineParts /\ <<>> \in Seq(Chunks)
    BY EventsAssumption
  <2> QED  BY <2>1 DEF Init, TypeOK, Stages
<1>2. LockIsExclusive
  BY NoneAssumption DEF Init, LockIsExclusive, Critical
<1>3. NoInterleaving
  BY DEF Init, NoInterleaving
<1>4. \A t \in Threads : Progress(t)
  BY DEF Init, Progress
<1> QED  BY <1>1, <1>2, <1>3, <1>4 DEF IInv

\* Appending the next piece of the line written last keeps every line whole.
LEMMA AppendNext ==
    ASSUME TypeOK, NoInterleaving, NEW c \in Chunks,
           c.part > 1 => /\ out # <<>>
                         /\ out[Len(out)] = [event |-> c.event, part |-> c.part - 1],
           out' = Append(out, c)
    PROVE  NoInterleaving'
<1>1. out \in Seq(Chunks) /\ Len(out) \in Nat
  BY LenProperties DEF TypeOK
<1>2. /\ Len(out') = Len(out) + 1
      /\ out'[Len(out) + 1] = c
      /\ \A i \in 1..Len(out) : out'[i] = out[i]
  BY <1>1
<1>3. ASSUME NEW i \in 1..Len(out'), out'[i].part > 1
      PROVE  i > 1 /\ out'[i - 1] = [event |-> out'[i].event, part |-> out'[i].part - 1]
  <2>1. CASE i \in 1..Len(out)
    <3>1. out'[i] = out[i]
      BY <1>2, <2>1
    <3>2. i > 1 /\ out[i - 1] = [event |-> out[i].event, part |-> out[i].part - 1]
      BY <1>3, <2>1, <3>1 DEF NoInterleaving
    <3>3. i - 1 \in 1..Len(out)
      BY <1>1, <2>1, <3>2
    <3> QED  BY <1>2, <3>1, <3>2, <3>3
  <2>2. CASE i = Len(out) + 1
    <3>1. out'[i] = c /\ out # <<>>
          /\ out[Len(out)] = [event |-> c.event, part |-> c.part - 1]
      BY <1>2, <1>3, <2>2
    <3>2. Len(out) \in Nat \ {0}
      BY <1>1, <3>1, EmptySeq
    <3>3. i > 1 /\ i - 1 = Len(out) /\ i - 1 \in 1..Len(out)
      BY <2>2, <3>2
    <3> QED  BY <1>2, <3>1, <3>3
  <2> QED  BY <1>1, <1>2, <2>1, <2>2
<1> QED  BY <1>3 DEF NoInterleaving

\* The lock's owner and the thread's stage move together.
LEMMA LockStep ==
    ASSUME TypeOK, LockIsExclusive, NEW t \in Threads, Emit(t) \/ Step(t)
    PROVE  LockIsExclusive'
<1> USE NoneAssumption DEF TypeOK, LockIsExclusive, Critical, Goto
<1>1. CASE Emit(t)
  BY <1>1 DEF Emit
<1>2. CASE Format(t) \/ ReportFormat(t)
  BY <1>2 DEF Format, ReportFormat
<1>3. CASE Acquire(t)
  BY <1>3 DEF Acquire
<1>4. CASE MakeWriter(t) \/ WriteError(t) \/ ReportWrite(t)
  BY <1>4 DEF MakeWriter, WriteError, ReportWrite
<1>5. CASE WritePart(t)
  BY <1>5 DEF WritePart
<1>6. CASE Leave(t)
  BY <1>6 DEF Leave
<1>7. CASE WriterPanics(t)
  BY <1>7 DEF WriterPanics
<1> QED  BY <1>1, <1>2, <1>3, <1>4, <1>5, <1>6, <1>7 DEF Step

\* The event of a thread inside on_event is one of the events.
LEMMA EventType ==
    ASSUME IInv, NEW t \in Threads, pc[t] # "idle"
    PROVE  Event(t) \in Events
BY DEF IInv, Progress, Event, Events

LEMMA TypeStep ==
    ASSUME IInv, NEW t \in Threads, Emit(t) \/ Step(t)
    PROVE  TypeOK'
<1>1. TypeOK /\ Progress(t)
  BY DEF IInv
<1>2. CASE Emit(t)
  <2>1. current[t] + 1 \in 0..MaxEvents
    BY <1>1, <1>2, EventsAssumption DEF Emit, TypeOK
  <2> QED  BY <1>1, <1>2, <2>1, EventsAssumption DEF Emit, TypeOK, Goto, Stages
<1>3. CASE Format(t) \/ Acquire(t) \/ MakeWriter(t) \/ WriteError(t) \/ Leave(t)
  BY <1>1, <1>3 DEF Format, Acquire, MakeWriter, WriteError, Leave, TypeOK, Goto, Stages
<1>4. CASE ReportFormat(t) \/ ReportWrite(t) \/ WriterPanics(t)
  <2>1. pc[t] # "idle"
    BY <1>4 DEF ReportFormat, ReportWrite, WriterPanics, Goto
  <2>2. Event(t) \in Events
    BY <2>1, EventType
  <2> QED  BY <1>1, <1>4, <2>2
           DEF ReportFormat, ReportWrite, WriterPanics, Report, TypeOK, Goto, Stages
<1>5. CASE WritePart(t)
  <2>1. pc[t] = "write" /\ parts[t] < LineParts /\ parts[t] \in 0..LineParts
    BY <1>1, <1>5 DEF WritePart, Goto, Progress, TypeOK
  <2>2. Event(t) \in Events
    BY <2>1, EventType
  <2>3. parts[t] + 1 \in Parts /\ parts[t] + 1 \in 0..LineParts
    BY <2>1, EventsAssumption DEF Parts
  <2>4. [event |-> Event(t), part |-> parts[t] + 1] \in Chunks
    BY <2>2, <2>3 DEF Chunks
  <2>5. out' \in Seq(Chunks)
    BY <1>1, <1>5, <2>4 DEF WritePart, TypeOK
  <2>6. pc' \in [Threads -> Stages] /\ parts' \in [Threads -> 0..LineParts]
        /\ written' \subseteq Events
    BY <1>1, <1>5, <2>2, <2>3 DEF WritePart, TypeOK, Goto, Stages
  <2> QED  BY <1>1, <1>5, <2>5, <2>6 DEF WritePart, TypeOK
<1> QED  BY <1>2, <1>3, <1>4, <1>5 DEF Step

\* Only the owner of the lock extends the output, by the next piece of its
\* line.
LEMMA OutStep ==
    ASSUME IInv, NEW t \in Threads, Emit(t) \/ Step(t)
    PROVE  /\ NoInterleaving'
           /\ \A u \in Threads : Progress(u)'
<1>1. TypeOK /\ NoInterleaving /\ LockIsExclusive /\ \A u \in Threads : Progress(u)
  BY DEF IInv
<1>2. ASSUME ~WritePart(t) PROVE UNCHANGED out
  BY <1>2 DEF Emit, Step, Format, ReportFormat, Acquire, MakeWriter, WriteError, ReportWrite,
              Leave, WriterPanics
<1>3. ASSUME NEW u \in Threads, u # t
      PROVE  pc'[u] = pc[u] /\ current'[u] = current[u] /\ parts'[u] = parts[u]
  BY <1>1, <1>3 DEF TypeOK, Goto, Emit, Step, Format, ReportFormat, Acquire, MakeWriter,
                    WritePart, WriteError, ReportWrite, Leave, WriterPanics
<1>4. CASE ~WritePart(t)
  <2>1. NoInterleaving'
    BY <1>1, <1>2, <1>4 DEF NoInterleaving
  <2>2. ASSUME NEW u \in Threads, u # t PROVE Progress(u)'
    BY <1>1, <1>2, <1>3, <1>4, <2>2 DEF Progress, Event
  <2>3. Progress(t)'
    <3>1. CASE Emit(t)
      BY <1>1, <3>1, EventsAssumption DEF Emit, Goto, TypeOK, Progress
    <3>2. CASE Format(t) \/ Acquire(t)
      BY <1>1, <3>2 DEF Format, Acquire, Goto, TypeOK, Progress
    <3>3. CASE MakeWriter(t)
      <4>1. parts'[t] = 0 /\ pc'[t] = "write" /\ current'[t] \in 1..MaxEvents
        BY <1>1, <3>3 DEF MakeWriter, Goto, TypeOK, Progress
      <4>2. 0 < LineParts /\ ~(0 > 0)
        BY EventsAssumption
      <4> QED  BY <4>1, <4>2 DEF Progress
    <3>4. CASE ReportFormat(t) \/ WriteError(t) \/ ReportWrite(t) \/ Leave(t) \/ WriterPanics(t)
      BY <1>1, <3>4
         DEF ReportFormat, WriteError, ReportWrite, Leave, WriterPanics, Goto, TypeOK, Progress
    <3> QED  BY <1>4, <3>1, <3>2, <3>3, <3>4 DEF Step
  <2> QED  BY <2>1, <2>2, <2>3
<1>5. CASE WritePart(t)
  <2> DEFINE c == [event |-> Event(t), part |-> parts[t] + 1]
  <2>1. /\ pc[t] = "write" /\ parts[t] < LineParts /\ parts[t] \in 0..LineParts
        /\ current[t] \in 1..MaxEvents
    BY <1>1, <1>5 DEF WritePart, Goto, Progress, TypeOK
  <2>2. Event(t) \in Events
    BY <2>1, EventType
  <2>3. c \in Chunks /\ c.event = Event(t) /\ c.part = parts[t] + 1 /\ out' = Append(out, c)
    BY <1>5, <2>1, <2>2, EventsAssumption DEF WritePart, Chunks, Parts
  <2>4. c.part > 1 => /\ out # <<>>
                      /\ out[Len(out)] = [event |-> c.event, part |-> c.part - 1]
    BY <1>1, <2>1, <2>3, EventsAssumption DEF Progress
  <2> HIDE DEF c
  <2>5. NoInterleaving'
    BY <1>1, <2>3, <2>4, AppendNext
  <2>6. out' # <<>> /\ out'[Len(out')] = c
    BY <1>1, <2>3 DEF TypeOK
  <2>7. ASSUME NEW u \in Threads, u # t PROVE Progress(u)'
    <3>1. pc[u] # "write"
      BY <1>1, <2>1, <2>7 DEF LockIsExclusive, Critical
    <3> QED  BY <1>1, <1>3, <2>7, <3>1 DEF Progress
  <2>8. Progress(t)'
    <3>1. parts'[t] = parts[t] + 1 /\ current'[t] = current[t] /\ Event(t)' = Event(t)
          /\ pc'[t] = IF parts[t] + 1 = LineParts THEN "leave" ELSE "write"
      BY <1>1, <1>5 DEF WritePart, Goto, TypeOK, Event
    <3>2. pc'[t] = "write" => parts'[t] < LineParts
      BY <2>1, <3>1, EventsAssumption
    <3>3. c = [event |-> Event(t)', part |-> parts'[t]]
      BY <3>1 DEF c
    <3> QED  BY <2>1, <2>6, <3>1, <3>2, <3>3 DEF Progress
  <2> QED  BY <2>5, <2>7, <2>8
<1> QED  BY <1>4, <1>5

LEMMA NextInv == IInv /\ [Next]_vars => IInv'
<1> SUFFICES ASSUME IInv, [Next]_vars PROVE IInv'
  OBVIOUS
<1>1. ASSUME NEW t \in Threads, Emit(t) \/ Step(t) PROVE IInv'
  BY <1>1, TypeStep, LockStep, OutStep DEF IInv
<1>2. CASE UNCHANGED vars
  BY <1>2 DEF vars, IInv, TypeOK, LockIsExclusive, NoInterleaving, Progress, Event
<1> QED  BY <1>1, <1>2 DEF Next, Quiet

-----------------------------------------------------------------------------
(* What becomes of an event                                                *)

LEMMA InitOutcomes == Init => Outcomes
<1> SUFFICES ASSUME Init PROVE Outcomes
  OBVIOUS
<1>1. Settled = {} /\ Len(out) = 0
  BY DEF Init, Settled
<1>2. NothingUnsettled /\ MutedByStderr
  BY DEF Init, NothingUnsettled, MutedByStderr
<1>3. WrittenMeansTerminated /\ EndsAreUnique /\ SettledWereEmitted
  BY <1>1 DEF Init, WrittenMeansTerminated, EndsAreUnique, SettledWereEmitted
<1>4. \A t \in Threads : Undecided(t)
  BY <1>1 DEF Init, Undecided
<1> QED  BY <1>2, <1>3, <1>4 DEF Outcomes

\* A step of one thread is not seen in the stage and the event of another.
LEMMA Others ==
    ASSUME TypeOK, NEW t \in Threads, Emit(t) \/ Step(t), NEW u \in Threads, u # t
    PROVE  pc'[u] = pc[u] /\ current'[u] = current[u] /\ Event(u)' = Event(u)
BY DEF TypeOK, Goto, Event, Emit, Step, Format, ReportFormat, Acquire, MakeWriter,
       WritePart, WriteError, ReportWrite, Leave, WriterPanics

\* Only events and their thread's own change what became of events: the step
\* settles nothing, or the event it is about.
LEMMA SettledStep ==
    ASSUME IInv, NEW t \in Threads, Emit(t) \/ Step(t)
    PROVE  /\ current' = current \/ (Emit(t) /\ current' = [current EXCEPT ![t] = @ + 1])
           /\ Settled' = Settled \/ (pc[t] # "idle" /\ Settled' = Settled \cup {Event(t)})
BY DEF Emit, Step, Format, ReportFormat, Report, Acquire, MakeWriter,
       WritePart, WriteError, ReportWrite, Leave, WriterPanics, Settled, Goto

\* Where an event is decided.
LEMMA UndecidedStep ==
    ASSUME IInv, Outcomes, NEW t \in Threads, Emit(t) \/ Step(t)
    PROVE  SettledWereEmitted' /\ \A u \in Threads : Undecided(u)'
<1>1. /\ TypeOK /\ SettledWereEmitted /\ \A u \in Threads : Undecided(u)
      /\ Settled \subseteq Events
  BY DEF IInv, Outcomes, Settled, TypeOK
<1>2. /\ current' = current \/ (Emit(t) /\ current' = [current EXCEPT ![t] = @ + 1])
      /\ Settled' = Settled \/ (pc[t] # "idle" /\ Settled' = Settled \cup {Event(t)})
  BY SettledStep
<1>3. \A u \in Threads : current[u] \in Nat /\ current'[u] \in Nat /\ current[u] <= current'[u]
  <2>1. current \in [Threads -> Nat]
    BY <1>1, EventsAssumption DEF TypeOK
  <2> QED  BY <1>2, <2>1
<1>4. SettledWereEmitted'
  <2> SUFFICES ASSUME NEW e \in Settled' PROVE e[2] <= current'[e[1]]
    BY DEF SettledWereEmitted
  <2>1. CASE e \in Settled
    <3>1. e \in Threads \X (1..MaxEvents) /\ e[2] <= current[e[1]]
      BY <1>1, <2>1 DEF SettledWereEmitted, Events
    <3>2. e[1] \in Threads /\ e[2] \in Nat
      BY <3>1
    <3> QED  BY <1>3, <3>1, <3>2
  <2>2. CASE e = Event(t)
    BY <1>3, <2>2 DEF Event
  <2> QED  BY <1>2, <2>1, <2>2
<1>5. ASSUME NEW u \in Threads, u # t PROVE Undecided(u)'
  <2>1. pc'[u] = pc[u] /\ Event(u)' = Event(u) /\ Event(u) # Event(t)
    BY <1>1, <1>5, Others DEF Event
  <2> QED  BY <1>1, <1>2, <2>1 DEF Undecided
<1>6. Undecided(t)'
  <2>1. CASE Emit(t)
    <3>1. pc'[t] = "format" /\ Event(t)' = <<t, current[t] + 1>> /\ Settled' = Settled
      BY <1>1, <2>1 DEF Emit, Goto, TypeOK, Event, Settled
    <3>2. <<t, current[t] + 1>> \notin Settled
      BY <1>1, <1>3 DEF SettledWereEmitted
    <3> QED  BY <3>1, <3>2 DEF Undecided
  <2>2. CASE Format(t) \/ Acquire(t) \/ MakeWriter(t) \/ WriteError(t)
    <3>1. Settled' = Settled /\ Event(t)' = Event(t)
      BY <2>2 DEF Format, Acquire, MakeWriter, WriteError, Settled, Event
    <3>2. pc[t] \notin {"idle", "leave"} /\ pc'[t] # "leave"
      BY <1>1, <2>2 DEF Format, Acquire, MakeWriter, WriteError, Goto, TypeOK
    <3> QED  BY <1>1, <3>1, <3>2 DEF Undecided
  <2>3. CASE WritePart(t)
    <3>1. /\ pc[t] = "write" /\ Event(t)' = Event(t)
          /\ pc'[t] = IF parts[t] + 1 = LineParts THEN "leave" ELSE "write"
          /\ Settled' = IF parts[t] + 1 = LineParts THEN Settled \cup {Event(t)} ELSE Settled
      BY <1>1, <2>3 DEF WritePart, Goto, TypeOK, Event, Settled
    <3> QED  BY <1>1, <3>1 DEF Undecided
  <2>4. CASE ReportWrite(t)
    <3>1. /\ pc'[t] = "leave" /\ Event(t)' = Event(t)
          /\ LogInternalErrors => Settled' = Settled \cup {Event(t)}
      BY <1>1, <2>4 DEF ReportWrite, Report, Goto, TypeOK, Event, Settled
    <3> QED  BY <3>1 DEF Undecided
  <2>5. CASE ReportFormat(t) \/ Leave(t) \/ WriterPanics(t)
    <3>1. pc'[t] = "idle"
      BY <1>1, <2>5 DEF ReportFormat, Leave, WriterPanics, Goto, TypeOK
    <3> QED  BY <3>1 DEF Undecided
  <2> QED  BY <2>1, <2>2, <2>3, <2>4, <2>5 DEF Step
<1> QED  BY <1>4, <1>5, <1>6

LEMMA NothingLostStep ==
    ASSUME IInv, Outcomes, NEW t \in Threads, Emit(t) \/ Step(t)
    PROVE  NothingUnsettled'
<1> SUFFICES ASSUME LogInternalErrors, NEW u \in Threads, NEW n \in 1..current'[u],
                    n # current'[u] \/ pc'[u] = "idle"
             PROVE  <<u, n>> \in Settled'
  BY DEF NothingUnsettled
<1>1. TypeOK /\ Undecided(t)
  BY DEF IInv, Outcomes
<1>2. \A v \in Threads : \A m \in 1..current[v] :
         m # current[v] \/ pc[v] = "idle" => <<v, m>> \in Settled
  BY DEF Outcomes, NothingUnsettled
<1>3. /\ current' = current \/ (Emit(t) /\ current' = [current EXCEPT ![t] = @ + 1])
      /\ Settled \subseteq Settled'
  BY SettledStep
<1>4. CASE u # t
  <2>1. pc'[u] = pc[u] /\ current'[u] = current[u]
    BY <1>1, <1>4, Others
  <2> QED  BY <1>2, <1>3, <2>1
<1>5. CASE u = t /\ Emit(t)
  <2>1. pc[t] = "idle" /\ pc'[t] = "format" /\ current'[t] = current[t] + 1 /\ current[t] \in Nat
    BY <1>1, <1>5, EventsAssumption DEF Emit, Goto, TypeOK
  <2>2. n \in 1..current[t]
    BY <1>5, <2>1
  <2> QED  BY <1>2, <1>3, <1>5, <2>1, <2>2
<1>6. CASE u = t /\ Step(t)
  <2>1. current' = current /\ n \in 1..current[t] /\ current[t] \in Nat
    BY <1>1, <1>6, EventsAssumption
       DEF Step, Format, ReportFormat, Acquire, MakeWriter, WritePart, WriteError, ReportWrite,
           Leave, WriterPanics, TypeOK
  <2>2. CASE n # current[t]
    BY <1>2, <1>3, <1>6, <2>1, <2>2
  <2>3. CASE n = current[t]
    <3>1. pc'[t] = "idle"
      BY <1>6, <2>1, <2>3
    <3>2. ReportFormat(t) \/ Leave(t) \/ WriterPanics(t)
      BY <1>1, <1>6, <3>1 DEF Step, Format, Acquire, MakeWriter, WritePart, WriteError,
                              ReportWrite, Goto, TypeOK
    <3>3. Event(t) \in Settled'
      BY <1>1, <3>2 DEF ReportFormat, Report, Leave, WriterPanics, Goto, Undecided, Settled
    <3> QED  BY <1>6, <2>3, <3>3 DEF Event
  <2> QED  BY <2>2, <2>3
<1> QED  BY <1>4, <1>5, <1>6

LEMMA MutedStep ==
    ASSUME Outcomes, NEW t \in Threads, Emit(t) \/ Step(t)
    PROVE  MutedByStderr'
<1>1. muted' = muted \/ "stderr" \in Faults
  BY DEF Emit, Step, Format, ReportFormat, Report, Acquire, MakeWriter, WritePart, WriteError,
         ReportWrite, Leave, WriterPanics
<1> QED  BY <1>1 DEF Outcomes, MutedByStderr

LEMMA EndsStep ==
    ASSUME IInv, Outcomes, NEW t \in Threads, Emit(t) \/ Step(t)
    PROVE  WrittenMeansTerminated' /\ EndsAreUnique'
<1>1. TypeOK /\ Undecided(t) /\ WrittenMeansTerminated /\ EndsAreUnique
  BY DEF IInv, Outcomes
<1>2. CASE ~WritePart(t)
  <2>1. out' = out /\ written' = written
    BY <1>2 DEF Emit, Step, Format, ReportFormat, Acquire, MakeWriter, WriteError, ReportWrite,
                Leave, WriterPanics
  <2>2. \/ diagnosed' \cup muted' \cup unwound' = diagnosed \cup muted \cup unwound
        \/ /\ pc[t] \notin {"idle", "leave"}
           /\ diagnosed' \cup muted' \cup unwound' = diagnosed \cup muted \cup unwound \cup {Event(t)}
    BY <1>2 DEF Emit, Step, Format, ReportFormat, Report, Acquire, MakeWriter, WriteError,
                ReportWrite, Leave, WriterPanics, Goto
  <2>3. \A e \in written : e \notin diagnosed' \cup muted' \cup unwound'
    BY <1>1, <2>2 DEF WrittenMeansTerminated, Undecided, Settled, TypeOK
  <2> QED  BY <1>1, <2>1, <2>3 DEF WrittenMeansTerminated, EndsAreUnique
<1>3. CASE WritePart(t)
  <2> DEFINE c == [event |-> Event(t), part |-> parts[t] + 1]
  <2>1. /\ pc[t] = "write" /\ out' = Append(out, c)
        /\ diagnosed' = diagnosed /\ muted' = muted /\ unwound' = unwound
        /\ written' = IF c.part = LineParts THEN written \cup {Event(t)} ELSE written
    BY <1>3 DEF WritePart, Goto
  <2>2. Event(t) \in Events /\ Event(t) \notin Settled /\ c.event = Event(t)
    BY <1>1, <2>1, EventType DEF Undecided
  <2>3. c \in Chunks
    <3>1. parts[t] \in 0..LineParts /\ parts[t] < LineParts
      BY <1>1, <2>1 DEF IInv, Progress, TypeOK
    <3> QED  BY <2>2, <3>1, EventsAssumption DEF Chunks, Parts
  <2> HIDE DEF c
  <2>4. /\ out \in Seq(Chunks) /\ Len(out) \in Nat /\ Len(out') = Len(out) + 1
        /\ out'[Len(out) + 1] = c
        /\ \A i \in 1..Len(out) : out'[i] = out[i]
    BY <1>1, <2>1, <2>3 DEF TypeOK
  <2>5. \A i \in 1..Len(out) : out[i] \in Chunks
    BY <2>4
  <2>6. \A i \in 1..Len(out) : out[i].part = LineParts => out[i].event # Event(t)
    <3> SUFFICES ASSUME NEW i \in 1..Len(out), out[i].part = LineParts, out[i].event = Event(t)
                 PROVE  FALSE
      OBVIOUS
    <3>1. out[i] = [event |-> Event(t), part |-> LineParts]
      BY <2>5 DEF Chunks
    <3> QED  BY <1>1, <2>2, <3>1 DEF WrittenMeansTerminated, Settled
  <2>7. EndsAreUnique'
    BY <1>1, <2>2, <2>4, <2>6 DEF EndsAreUnique
  <2>8. WrittenMeansTerminated'
    <3> SUFFICES ASSUME NEW e \in Events
                 PROVE  /\ e \in written' <=> \E i \in 1..Len(out') :
                                                out'[i] = [event |-> e, part |-> LineParts]
                        /\ e \in written' => e \notin diagnosed' \cup muted' \cup unwound'
      BY DEF WrittenMeansTerminated
    <3>1. /\ e \in written <=> \E i \in 1..Len(out) : out[i] = [event |-> e, part |-> LineParts]
          /\ e \in written => e \notin diagnosed \cup muted \cup unwound
      BY <1>1 DEF WrittenMeansTerminated
    <3>2. c = [event |-> e, part |-> LineParts] <=> (e = Event(t) /\ c.part = LineParts)
      BY <2>2, <2>3 DEF Chunks
    <3>3. (\E i \in 1..Len(out') : out'[i] = [event |-> e, part |-> LineParts])
            <=> \/ \E i \in 1..Len(out) : out[i] = [event |-> e, part |-> LineParts]
                \/ c = [event |-> e, part |-> LineParts]
      BY <2>4
    <3>4. e \in written' <=> (e \in written \/ c = [event |-> e, part |-> LineParts])
      BY <2>1, <3>2
    <3> QED  BY <2>1, <2>2, <3>1, <3>2, <3>3, <3>4 DEF Settled
  <2> QED  BY <2>7, <2>8
<1> QED  BY <1>2, <1>3

LEMMA StepOutcomes ==
    ASSUME IInv, Outcomes, NEW t \in Threads, Emit(t) \/ Step(t)
    PROVE  Outcomes'
BY UndecidedStep, NothingLostStep, MutedStep, EndsStep DEF Outcomes

-----------------------------------------------------------------------------
(* The invariants of the specification                                     *)

LEMMA NextOutcomes == IInv /\ Outcomes /\ [Next]_vars => Outcomes'
<1> SUFFICES ASSUME IInv, Outcomes, [Next]_vars PROVE Outcomes'
  OBVIOUS
<1>1. ASSUME NEW t \in Threads, Emit(t) \/ Step(t) PROVE Outcomes'
  BY <1>1, StepOutcomes
<1>2. CASE UNCHANGED vars
  BY <1>2 DEF vars, Outcomes, NothingUnsettled, MutedByStderr, WrittenMeansTerminated,
              EndsAreUnique, SettledWereEmitted, Undecided, Settled, Event
<1> QED  BY <1>1, <1>2 DEF Next, Quiet

LEMMA SpecInv == Spec => [](IInv /\ Outcomes)
<1>1. Init => IInv /\ Outcomes
  BY InitInv, InitOutcomes
<1>2. IInv /\ Outcomes /\ [Next]_vars => (IInv /\ Outcomes)'
  BY NextInv, NextOutcomes
<1> QED  BY <1>1, <1>2, PTL DEF Spec

-----------------------------------------------------------------------------
(* Where a line starts                                                     *)

\* Only emitted events leave pieces, and an event that is not being written none.
PiecesWereEmitted ==
    \A i \in 1..Len(out) : out[i].event[2] <= current[out[i].event[1]]

NoPieceYet(t) ==
    pc[t] \in {"format", "failed", "wait", "make"} \/ (pc[t] = "write" /\ parts[t] = 0) =>
        \A i \in 1..Len(out) : out[i].event # Event(t)

\* A line that broke off last has not been written.
OpenEnd ==
    out # <<>> /\ out[Len(out)].part # LineParts => out[Len(out)].event \notin written

Starts ==
    /\ PiecesWereEmitted /\ OpenEnd /\ LineStartsAfterLineOrFailure
    /\ \A t \in Threads : NoPieceYet(t)

\* Before and after a step.
GivenUp(e)      == e[2] < current[e[1]] \/ pc[e[1]] = "idle"
StillGivenUp(e) == e[2] < current'[e[1]] \/ pc'[e[1]] = "idle"

LEMMA PieceType ==
    ASSUME TypeOK, NEW i \in 1..Len(out)
    PROVE  /\ out[i] \in Chunks /\ out[i].event \in Events
           /\ out[i].event[1] \in Threads /\ out[i].event[2] \in Nat
           /\ out[i].event = <<out[i].event[1], out[i].event[2]>>
<1>1. out[i] \in Chunks
  BY DEF TypeOK
<1>2. out[i].event \in Events
  BY <1>1 DEF Chunks
<1> QED  BY <1>1, <1>2, EventsAssumption DEF Events

\* Who has given an event up does not take it up again.
LEMMA GivenUpStays ==
    ASSUME TypeOK, NEW t \in Threads, Emit(t) \/ Step(t),
           NEW e \in Events, GivenUp(e), e[2] <= current[e[1]]
    PROVE  StillGivenUp(e) /\ (e \notin written => e \notin written')
<1>1. e[1] \in Threads /\ e[2] \in Nat /\ e = <<e[1], e[2]>>
  BY EventsAssumption DEF Events
<1>2. CASE e[1] # t
  <2>1. pc'[e[1]] = pc[e[1]] /\ current'[e[1]] = current[e[1]]
    BY <1>1, <1>2, Others
  <2>2. e # Event(t)
    BY <1>2 DEF Event
  <2>3. e \notin written => e \notin written'
    BY <2>2 DEF Emit, Step, Format, ReportFormat, Acquire, MakeWriter, WritePart, WriteError,
                ReportWrite, Leave, WriterPanics
  <2> QED  BY <2>1, <2>3 DEF GivenUp, StillGivenUp
<1>3. CASE e[1] = t /\ Emit(t)
  <2>1. current'[t] = current[t] + 1 /\ current[t] \in Nat /\ written' = written
    BY <1>3, EventsAssumption DEF Emit, TypeOK
  <2> QED  BY <1>1, <1>3, <2>1 DEF GivenUp, StillGivenUp
<1>4. CASE e[1] = t /\ Step(t)
  <2>1. pc[t] # "idle" /\ current' = current
    BY <1>4 DEF Step, Format, ReportFormat, Acquire, MakeWriter, WritePart, WriteError,
                ReportWrite, Leave, WriterPanics, Goto
  <2>2. e[2] < current[t]
    BY <1>4, <2>1 DEF GivenUp, StillGivenUp
  <2>3. e # Event(t)
    BY <1>1, <2>2, EventsAssumption DEF Event, TypeOK
  <2>4. e \notin written => e \notin written'
    BY <1>4, <2>3 DEF Step, Format, ReportFormat, Acquire, MakeWriter, WritePart, WriteError,
                      ReportWrite, Leave, WriterPanics
  <2> QED  BY <1>4, <2>1, <2>2, <2>4 DEF GivenUp, StillGivenUp
<1> QED  BY <1>2, <1>3, <1>4

LEMMA InitStarts == Init => Starts
BY DEF Init, Starts, PiecesWereEmitted, OpenEnd, LineStartsAfterLineOrFailure, NoPieceYet

\* Steps that write nothing.
LEMMA SilentStarts ==
    ASSUME IInv, Starts, NEW t \in Threads, Emit(t) \/ Step(t), ~WritePart(t)
    PROVE  Starts'
<1>1. TypeOK /\ PiecesWereEmitted /\ OpenEnd /\ LineStartsAfterLineOrFailure
      /\ \A u \in Threads : NoPieceYet(u) /\ Progress(u)
  BY DEF IInv, Starts
<1>2. out' = out /\ written' = written
  BY DEF Emit, Step, Format, ReportFormat, Acquire, MakeWriter, WriteError, ReportWrite,
         Leave, WriterPanics
<1>3. ASSUME NEW u \in Threads PROVE current[u] \in Nat /\ current'[u] \in Nat
                                    /\ current[u] <= current'[u]
  <2>1. current \in [Threads -> Nat]
    BY <1>1, EventsAssumption DEF TypeOK
  <2> QED  BY <2>1, SettledStep
<1>4. PiecesWereEmitted'
  <2> SUFFICES ASSUME NEW i \in 1..Len(out)
               PROVE  out[i].event[2] <= current'[out[i].event[1]]
    BY <1>2 DEF PiecesWereEmitted
  <2>1. out[i].event[2] <= current[out[i].event[1]]
    BY <1>1 DEF PiecesWereEmitted
  <2> QED  BY <1>1, <1>3, <2>1, PieceType
<1>5. OpenEnd'
  BY <1>1, <1>2 DEF OpenEnd
<1>6. LineStartsAfterLineOrFailure'
  <2> SUFFICES ASSUME NEW i \in 2..Len(out), out[i].part = 1, out[i - 1].part # LineParts
               PROVE  /\ out[i - 1].event \notin written
                      /\ StillGivenUp(out[i - 1].event)
    BY <1>2 DEF LineStartsAfterLineOrFailure, StillGivenUp
  <2>1. i - 1 \in 1..Len(out)
    BY <1>1, LenProperties DEF TypeOK
  <2>2. out[i - 1].event \in Events
    BY <1>1, <2>1, PieceType
  <2>3. out[i - 1].event \notin written /\ GivenUp(out[i - 1].event)
    BY <1>1 DEF LineStartsAfterLineOrFailure, GivenUp
  <2>4. out[i - 1].event[2] <= current[out[i - 1].event[1]]
    BY <1>1, <2>1 DEF PiecesWereEmitted
  <2> QED  BY <1>1, <1>2, <2>2, <2>3, <2>4, GivenUpStays
<1>7. ASSUME NEW u \in Threads PROVE NoPieceYet(u)'
  <2>1. CASE u # t
    <3>1. pc'[u] = pc[u] /\ Event(u)' = Event(u) /\ parts'[u] = parts[u]
      BY <1>1, <2>1 DEF TypeOK, Goto, Event, Emit, Step, Format, ReportFormat, Acquire,
            MakeWriter, WritePart, WriteError, ReportWrite, Leave, WriterPanics
    <3> QED  BY <1>1, <1>2, <3>1 DEF NoPieceYet
  <2>2. CASE u = t /\ Emit(t)
    <3>1. Event(t)' = <<t, current[t] + 1>> /\ current[t] \in Nat
      BY <1>1, <1>3, <2>2 DEF Emit, TypeOK, Event
    <3>2. ASSUME NEW i \in 1..Len(out) PROVE out[i].event # <<t, current[t] + 1>>
      <4>1. out[i].event[2] <= current[out[i].event[1]]
        BY <1>1 DEF PiecesWereEmitted
      <4> QED  BY <3>1, <4>1
    <3> QED  BY <1>2, <2>2, <3>1, <3>2 DEF NoPieceYet
  <2>3. CASE u = t /\ Step(t)
    <3>1. Event(t)' = Event(t)
      BY <2>3 DEF Step, Format, ReportFormat, Acquire, MakeWriter, WritePart, WriteError,
                  ReportWrite, Leave, WriterPanics, Event
    <3>2. pc'[t] \in {"format", "failed", "wait", "make"} \/ (pc'[t] = "write" /\ parts'[t] = 0)
            => pc[t] \in {"format", "failed", "wait", "make"}
      BY <1>1, <2>3 DEF Step, Format, ReportFormat, Acquire, MakeWriter, WriteError,
                        ReportWrite, Leave, WriterPanics, TypeOK, Goto
    <3> QED  BY <1>1, <1>2, <2>3, <3>1, <3>2 DEF NoPieceYet
  <2> QED  BY <2>1, <2>2, <2>3
<1> QED  BY <1>4, <1>5, <1>6, <1>7 DEF Starts

\* The owner of the lock writes its first piece: whoever broke off the line
\* before it is no longer inside.
LEMMA WritingStarts ==
    ASSUME IInv, Outcomes, Starts, NEW t \in Threads, WritePart(t)
    PROVE  Starts'
<1> DEFINE c == [event |-> Event(t), part |-> parts[t] + 1]
<1>1. TypeOK /\ LockIsExclusive /\ PiecesWereEmitted /\ OpenEnd /\ LineStartsAfterLineOrFailure
      /\ Undecided(t) /\ \A u \in Threads : NoPieceYet(u) /\ Progress(u)
  BY DEF IInv, Outcomes, Starts
<1>2. /\ pc[t] = "write" /\ out' = Append(out, c) /\ current' = current
      /\ written' = IF c.part = LineParts THEN written \cup {Event(t)} ELSE written
      /\ parts'[t] = parts[t] + 1 /\ parts[t] \in Nat /\ parts[t] + 1 <= LineParts
      /\ Event(t)' = Event(t) /\ Event(t) \in Events
  <2>1. pc[t] = "write"
    BY DEF WritePart, Goto
  <2>2. parts[t] < LineParts /\ parts[t] \in Nat /\ parts[t] + 1 <= LineParts
    <3>1. parts[t] < LineParts
      BY <1>1, <2>1 DEF Progress
    <3>2. parts[t] \in 0..LineParts
      BY <1>1 DEF TypeOK
    <3> QED  BY <3>1, <3>2, EventsAssumption
  <2>3. parts'[t] = parts[t] + 1 /\ current' = current /\ Event(t)' = Event(t)
    BY <1>1 DEF WritePart, TypeOK, Event
  <2>4. Event(t) \in Events
    BY <2>1, EventType
  <2> QED  BY <2>1, <2>2, <2>3, <2>4 DEF WritePart
<1>3. c \in Chunks /\ c.event = Event(t) /\ c.part = parts[t] + 1
  BY <1>2, EventsAssumption DEF Chunks, Parts
<1> HIDE DEF c
<1>4. /\ out \in Seq(Chunks) /\ Len(out) \in Nat /\ Len(out') = Len(out) + 1
      /\ out' # <<>> /\ out'[Len(out) + 1] = c
      /\ \A i \in 1..Len(out) : out'[i] = out[i]
  BY <1>1, <1>2, <1>3 DEF TypeOK
<1>5. Event(t)[1] = t /\ Event(t)[2] = current[t] /\ current[t] \in Nat
  BY <1>1, EventsAssumption DEF Event, TypeOK
<1>6. PiecesWereEmitted'
  BY <1>1, <1>2, <1>3, <1>4, <1>5 DEF PiecesWereEmitted
<1>7. OpenEnd'
  BY <1>1, <1>2, <1>3, <1>4 DEF OpenEnd, Undecided, Settled
<1>8. ASSUME NEW u \in Threads PROVE NoPieceYet(u)'
  <2>1. CASE u = t
    <3>1. pc'[t] \in {"write", "leave"} /\ parts'[t] # 0
      BY <1>1, <1>2 DEF WritePart, Goto, TypeOK
    <3> QED  BY <2>1, <3>1 DEF NoPieceYet
  <2>2. CASE u # t
    <3>1. pc'[u] = pc[u] /\ Event(u)' = Event(u) /\ parts'[u] = parts[u] /\ Event(u) # Event(t)
      BY <1>1, <2>2 DEF TypeOK, Goto, Event, WritePart
    <3> QED  BY <1>1, <1>3, <1>4, <3>1 DEF NoPieceYet
  <2> QED  BY <2>1, <2>2
<1>9. LineStartsAfterLineOrFailure'
  <2> SUFFICES ASSUME NEW i \in 2..Len(out'), out'[i].part = 1, out'[i - 1].part # LineParts
               PROVE  /\ out'[i - 1].event \notin written'
                      /\ StillGivenUp(out'[i - 1].event)
    BY DEF LineStartsAfterLineOrFailure, StillGivenUp
  <2>1. i - 1 \in 1..Len(out) /\ out'[i - 1] = out[i - 1]
    BY <1>4
  <2> DEFINE e == out[i - 1].event
  <2>2. /\ e \in Events /\ e[1] \in Threads /\ e[2] \in Nat /\ e = <<e[1], e[2]>>
        /\ e[2] <= current[e[1]]
    BY <1>1, <2>1, PieceType DEF PiecesWereEmitted
  <2>3. e \notin written /\ GivenUp(e)
    <3>1. CASE i \in 1..Len(out)
      BY <1>1, <1>4, <2>1, <3>1 DEF LineStartsAfterLineOrFailure, GivenUp
    <3>2. CASE i = Len(out) + 1
      <4>1. parts[t] = 0
        BY <1>2, <1>3, <1>4, <3>2
      <4>2. e \notin written
        BY <1>1, <1>4, <2>1, <3>2 DEF OpenEnd
      <4>3. e # Event(t)
        BY <1>1, <1>2, <2>1, <4>1 DEF NoPieceYet
      <4>4. CASE e[1] = t
        BY <1>5, <2>2, <4>2, <4>3, <4>4 DEF GivenUp, Event
      <4>5. CASE e[1] # t
        <5>1. owner = t
          BY <1>1, <1>2 DEF LockIsExclusive, Critical
        <5>2. pc[e[1]] \notin Critical /\ pc[e[1]] \in Stages
          BY <1>1, <2>2, <4>5, <5>1 DEF LockIsExclusive, TypeOK
        <5>3. CASE e[2] = current[e[1]]
          <6>1. e = Event(e[1])
            BY <2>2, <5>3 DEF Event
          <6>2. pc[e[1]] = "idle"
            BY <1>1, <2>1, <2>2, <5>2, <6>1 DEF NoPieceYet, Critical, Stages
          <6> QED  BY <4>2, <6>2 DEF GivenUp
        <5>4. CASE e[2] < current[e[1]]
          BY <4>2, <5>4 DEF GivenUp
        <5>5. current[e[1]] \in Nat
          BY <1>1, <2>2, EventsAssumption DEF TypeOK
        <5> QED  BY <2>2, <5>3, <5>4, <5>5
      <4> QED  BY <4>4, <4>5
    <3> QED  BY <1>4, <3>1, <3>2
  <2> HIDE DEF e
  <2>4. StillGivenUp(e) /\ e \notin written'
    BY <1>1, <2>2, <2>3, GivenUpStays DEF Step
  <2> QED  BY <2>1, <2>4 DEF e
<1> QED  BY <1>6, <1>7, <1>8, <1>9 DEF Starts

LEMMA NextStarts == IInv /\ Outcomes /\ Starts /\ [Next]_vars => Starts'
<1> SUFFICES ASSUME IInv, Outcomes, Starts, [Next]_vars PROVE Starts'
  OBVIOUS
<1>1. ASSUME NEW t \in Threads, Emit(t) \/ Step(t) PROVE Starts'
  BY <1>1, SilentStarts, WritingStarts
<1>2. CASE UNCHANGED vars
  BY <1>2 DEF vars, Starts, PiecesWereEmitted, OpenEnd, LineStartsAfterLineOrFailure,
              NoPieceYet, Event
<1> QED  BY <1>1, <1>2 DEF Next, Quiet

LEMMA SpecStarts == Spec => []Starts
<1>1. Init => IInv /\ Outcomes /\ Starts
  BY InitInv, InitOutcomes, InitStarts
<1>2. IInv /\ Outcomes /\ Starts /\ [Next]_vars => (IInv /\ Outcomes /\ Starts)'
  BY NextInv, NextOutcomes, NextStarts
<1> QED  BY <1>1, <1>2, PTL DEF Spec

-----------------------------------------------------------------------------
(* The complete lines of the output                                        *)

\* The recursion of EndsOf, for its existence and for what it returns.
IsUpto(s, f) ==
    /\ f[0] = <<>>
    /\ \A n \in 1..Len(s) :
          f[n] = IF s[n].part = LineParts THEN Append(f[n - 1], s[n].event) ELSE f[n - 1]

LEMMA EndsDefined ==
    ASSUME NEW s \in Seq(Chunks)
    PROVE  \E f \in [0..Len(s) -> Seq(Events)] : IsUpto(s, f) /\ EndsOf(s) = f[Len(s)]
<1> DEFINE N == Len(s)
           S == Seq(Events)
           Next1(n, v) == IF s[n].part = LineParts THEN Append(v, s[n].event) ELSE v
           F    == [n \in 1..N |-> [v \in S |-> Next1(n, v)]]
           D(g) == [n \in 0..N |->
                      IF n = 0 THEN <<>>
                      ELSE IF s[n].part = LineParts THEN Append(g[n - 1], s[n].event)
                      ELSE g[n - 1]]
           upto == CHOOSE g : g = D(g)
<1>1. N \in Nat /\ <<>> \in S
  OBVIOUS
<1>2. ASSUME NEW n \in 1..N, NEW v \in S PROVE Next1(n, v) \in S
  <2>1. s[n] \in Chunks
    OBVIOUS
  <2>2. s[n].event \in Events
    BY <2>1 DEF Chunks
  <2> QED  BY <2>2
<1>3. \A g : \A n \in 1..N : D(g)[n] = Next1(n, g[n - 1])
  BY <1>1
<1>4. \A g : D(g)[0] = <<>> /\ D(g) = [n \in 0..N |-> D(g)[n]]
  BY <1>1
<1> HIDE DEF S, Next1
<1>5. F \in [1..N -> [S -> S]] /\ \A n \in 1..N, v \in S : F[n][v] = Next1(n, v)
  BY <1>2
<1> HIDE DEF F, N
<1>6. PICK f \in [0..N -> S] : f[0] = <<>> /\ \A n \in 1..N : f[n] = F[n][f[n - 1]]
  <2>1. \E f : IsRecursiveUpTo(N, f, S, <<>>, F)
    BY <1>1, <1>5, RecursionUpTo
  <2> QED  BY <2>1 DEF IsRecursiveUpTo
<1>7. \A n \in 1..N : f[n - 1] \in S /\ f[n] = Next1(n, f[n - 1])
  <2>1. \A n \in 1..N : n - 1 \in 0..N
    BY <1>1
  <2> QED  BY <1>5, <1>6, <2>1
<1> HIDE DEF D
<1>8. f = D(f)
  <2>1. \A n \in 0..N : n = 0 \/ n \in 1..N
    BY <1>1
  <2>2. \A n \in 0..N : f[n] = D(f)[n]
    BY <1>3, <1>4, <1>6, <1>7, <2>1
  <2>3. f = [n \in 0..N |-> f[n]]
    BY <1>6
  <2>4. f = [n \in 0..N |-> D(f)[n]]
    BY <2>2, <2>3
  <2>5. D(f) = [n \in 0..N |-> D(f)[n]]
    BY <1>4
  <2> QED  BY <2>4, <2>5
<1>9. upto = D(upto)
  BY <1>8
<1> HIDE DEF upto
<1>10. upto[0] = <<>> /\ \A n \in 1..N : upto[n] = Next1(n, upto[n - 1])
  BY <1>3, <1>4, <1>9
<1>11. \A n \in 0..N : upto[n] = f[n]
  <2>1. \A n \in 1..N : upto[n - 1] = f[n - 1] => upto[n] = f[n]
    BY <1>7, <1>10
  <2>2. upto[0] = f[0]
    BY <1>6, <1>10
  <2>3. StayEqual(N, upto, f)
    BY <2>1, <2>2 DEF StayEqual
  <2> QED  BY <1>1, <2>3, RecursionIsUnique
<1>12. upto = f
  <2>1. upto = [n \in 0..N |-> upto[n]]
    BY <1>4, <1>9
  <2>2. f = [n \in 0..N |-> f[n]]
    BY <1>6
  <2> QED  BY <1>11, <2>1, <2>2
<1>13. EndsOf(s) = upto[N]
  BY DEF EndsOf, upto, D, N
<1> QED  BY <1>6, <1>10, <1>12, <1>13 DEF IsUpto, Next1, N, S

LEMMA EndsEmpty == EndsOf(<<>>) = <<>>
<1>1. <<>> \in Seq(Chunks) /\ Len(<<>>) = 0
  OBVIOUS
<1> QED  BY <1>1, EndsDefined DEF IsUpto

\* A piece that does not end a line adds none.
LEMMA EndsAppend ==
    ASSUME NEW s \in Seq(Chunks), NEW c \in Chunks
    PROVE  EndsOf(Append(s, c)) =
               IF c.part = LineParts THEN Append(EndsOf(s), c.event) ELSE EndsOf(s)
<1> DEFINE u == Append(s, c)
<1>1. /\ u \in Seq(Chunks) /\ Len(u) = Len(s) + 1 /\ u[Len(u)] = c
      /\ \A i \in 1..Len(s) : u[i] = s[i]
  OBVIOUS
<1>2. PICK f \in [0..Len(s) -> Seq(Events)] : IsUpto(s, f) /\ EndsOf(s) = f[Len(s)]
  BY EndsDefined
<1>3. PICK g \in [0..Len(u) -> Seq(Events)] : IsUpto(u, g) /\ EndsOf(u) = g[Len(u)]
  BY <1>1, EndsDefined
<1> HIDE DEF u
<1>4. g[Len(s)] = f[Len(s)]
  <2>1. \A n \in 1..Len(s) : f[n - 1] = g[n - 1] => f[n] = g[n]
    <3> TAKE n \in 1..Len(s)
    <3>1. n \in 1..Len(u) /\ u[n] = s[n]
      BY <1>1
    <3>2. f[n] = IF s[n].part = LineParts THEN Append(f[n - 1], s[n].event) ELSE f[n - 1]
      BY <1>2 DEF IsUpto
    <3>3. g[n] = IF u[n].part = LineParts THEN Append(g[n - 1], u[n].event) ELSE g[n - 1]
      BY <1>3, <3>1 DEF IsUpto
    <3> QED  BY <3>1, <3>2, <3>3
  <2>2. f[0] = g[0] /\ Len(s) \in Nat
    BY <1>2, <1>3 DEF IsUpto
  <2>3. StayEqual(Len(s), f, g)
    BY <2>1, <2>2 DEF StayEqual
  <2>4. \A n \in 0..Len(s) : f[n] = g[n]
    BY <2>2, <2>3, RecursionIsUnique
  <2> QED  BY <2>2, <2>4
<1>5. g[Len(u)] = IF c.part = LineParts THEN Append(g[Len(s)], c.event) ELSE g[Len(s)]
  BY <1>1, <1>3 DEF IsUpto
<1> QED  BY <1>2, <1>3, <1>4, <1>5 DEF u

\* What EndsOf returns comes from the last piece of a line.
LEMMA EndsOrigin ==
    ASSUME NEW s \in Seq(Chunks)
    PROVE  /\ EndsOf(s) \in Seq(Events)
           /\ \A i \in 1..Len(EndsOf(s)) : \E j \in 1..Len(s) :
                  s[j].part = LineParts /\ s[j].event = EndsOf(s)[i]
<1>1. PICK f \in [0..Len(s) -> Seq(Events)] : IsUpto(s, f) /\ EndsOf(s) = f[Len(s)]
  BY EndsDefined
<1> DEFINE From(q) == \A i \in 1..Len(q) : \E j \in 1..Len(s) :
                          s[j].part = LineParts /\ s[j].event = q[i]
           T == {n \in 0..Len(s) : From(f[n])}
<1>2. 0 \in T
  BY <1>1 DEF IsUpto
<1>3. ASSUME NEW n \in 1..Len(s), n - 1 \in T PROVE n \in T
  <2>1. From(f[n - 1]) /\ n - 1 \in 0..Len(s) /\ f[n - 1] \in Seq(Events)
    BY <1>3
  <2>2. f[n] = IF s[n].part = LineParts THEN Append(f[n - 1], s[n].event) ELSE f[n - 1]
    BY <1>1 DEF IsUpto
  <2>3. CASE s[n].part = LineParts
    <3>1. f[n] = Append(f[n - 1], s[n].event) /\ Len(f[n]) = Len(f[n - 1]) + 1
      BY <2>1, <2>2, <2>3
    <3>2. ASSUME NEW i \in 1..Len(f[n])
          PROVE  \E j \in 1..Len(s) : s[j].part = LineParts /\ s[j].event = f[n][i]
      <4>1. CASE i = Len(f[n - 1]) + 1
        BY <2>1, <2>3, <3>1, <4>1
      <4>2. CASE i \in 1..Len(f[n - 1])
        BY <2>1, <3>1, <4>2
      <4> QED  BY <2>1, <3>1, <4>1, <4>2
    <3> QED  BY <3>2
  <2>4. CASE s[n].part # LineParts
    BY <2>1, <2>2, <2>4
  <2> QED  BY <2>3, <2>4
<1>4. \A n \in 0..Len(s) : n \in T
  <2>1. Len(s) \in Nat
    OBVIOUS
  <2> HIDE DEF T
  <2> QED  BY <1>2, <1>3, <2>1, InductionUpTo
<1>5. Len(s) \in 0..Len(s)
  OBVIOUS
<1> QED  BY <1>1, <1>4, <1>5

-----------------------------------------------------------------------------
(* Implementation of NdjsonStream                                          *)

\* The lines of a thread that are out before its current one have lower numbers.
LEMMA LastOfLines ==
    ASSUME TypeOK, PiecesWereEmitted, WrittenMeansTerminated, NEW t \in Threads,
           Event(t) \notin written
    PROVE  Stream!LastOf(t) \in Nat /\ (Stream!LastOf(t) < current[t] \/ current[t] = 0)
<1> DEFINE ns == {Lines[i][2] : i \in {j \in DOMAIN Lines : Lines[j][1] = t}}
<1>1. Lines \in Seq(Events) /\ DOMAIN Lines = 1..Len(Lines) /\ current[t] \in Nat
  BY EndsOrigin, EventsAssumption DEF Lines, TypeOK
<1>2. ASSUME NEW i \in DOMAIN Lines, Lines[i][1] = t
      PROVE  Lines[i][2] \in 1..(current[t] - 1)
  <2>1. PICK j \in 1..Len(out) : out[j].part = LineParts /\ out[j].event = Lines[i]
    BY <1>1, EndsOrigin DEF Lines, TypeOK
  <2>2. Lines[i] \in Events /\ Lines[i] = <<t, Lines[i][2]>> /\ Lines[i][2] \in 1..MaxEvents
    BY <1>1, <1>2 DEF Events
  <2>3. out[j] = [event |-> Lines[i], part |-> LineParts]
    <3>1. out[j] \in Chunks
      BY DEF TypeOK
    <3> QED  BY <2>1, <3>1 DEF Chunks
  <2>4. Lines[i] \in written
    BY <2>2, <2>3 DEF WrittenMeansTerminated
  <2>5. Lines[i][2] <= current[t]
    BY <1>2, <2>1 DEF PiecesWereEmitted
  <2>6. Lines[i][2] # current[t]
    BY <2>2, <2>4 DEF Event
  <2> QED  BY <1>1, <2>2, <2>5, <2>6, EventsAssumption
<1>3. ns \subseteq 1..(current[t] - 1)
  BY <1>2
<1>4. Stream!LastOf(t) = IF ns = {} THEN 0 ELSE CHOOSE n \in ns : \A m \in ns : m <= n
  BY DEF Stream!LastOf
<1>7. ns # {} => current[t] - 1 \in Nat
  BY <1>1, <1>2
<1> HIDE DEF ns
<1>5. CASE ns = {}
  BY <1>1, <1>4, <1>5
<1>6. CASE ns # {}
  <2>1. current[t] - 1 \in Nat
    BY <1>6, <1>7
  <2>2. \E n \in ns : \A m \in ns : m <= n
    BY <1>3, <1>6, <2>1, LastExists
  <2>3. Stream!LastOf(t) \in ns
    BY <1>4, <1>6, <2>2
  <2>4. Stream!LastOf(t) \in 1..(current[t] - 1)
    BY <1>3, <2>3
  <2> QED  BY <1>1, <2>1, <2>4
<1> QED  BY <1>5, <1>6

\* Only the piece that ends a line is seen by the reader of the stream.
LEMMA StreamStep ==
    ASSUME IInv, Outcomes, Starts, [Next]_vars
    PROVE  [Stream!Next]_Lines
<1>1. TypeOK /\ PiecesWereEmitted /\ WrittenMeansTerminated
  BY DEF IInv, Outcomes, Starts
<1>2. ASSUME out' = out PROVE Lines' = Lines
  BY <1>2 DEF Lines
<1>3. ASSUME NEW t \in Threads, WritePart(t) PROVE [Stream!Next]_Lines
  <2> DEFINE c == [event |-> Event(t), part |-> parts[t] + 1]
  <2>1. pc[t] = "write" /\ out' = Append(out, c)
    BY <1>3 DEF WritePart, Goto
  <2>2. /\ current[t] \in 1..MaxEvents /\ Event(t) \in Events /\ Event(t) \notin written
        /\ parts[t] \in Nat /\ parts[t] < LineParts
    <3>1. Progress(t) /\ Undecided(t) /\ parts[t] \in Nat
      BY <1>1, EventsAssumption DEF IInv, Outcomes, TypeOK
    <3> QED  BY <2>1, <3>1 DEF Progress, Undecided, Settled, Event, Events
  <2>3. c \in Chunks
    BY <2>2, EventsAssumption DEF Chunks, Parts
  <2>4. Lines' = EndsOf(out') /\ Lines = EndsOf(out)
    BY DEF Lines
  <2>5. Lines' = IF parts[t] + 1 = LineParts THEN Append(Lines, Event(t)) ELSE Lines
    <3> HIDE DEF c
    <3>1. Lines' = IF c.part = LineParts THEN Append(Lines, c.event) ELSE Lines
      BY <1>1, <2>1, <2>3, <2>4, EndsAppend DEF TypeOK
    <3> QED  BY <3>1 DEF c
  <2>6. CASE parts[t] + 1 = LineParts
    <3>1. current[t] \in (Stream!LastOf(t) + 1)..MaxEvents
      BY <1>1, <2>2, LastOfLines, EventsAssumption
    <3>2. Lines' = Append(Lines, <<t, current[t]>>)
      BY <2>5, <2>6 DEF Event
    <3>3. Stream!Line(t)
      BY <3>1, <3>2 DEF Stream!Line
    <3> QED  BY <3>3 DEF Stream!Next
  <2>7. CASE parts[t] + 1 # LineParts
    BY <2>5, <2>7
  <2> QED  BY <2>6, <2>7
<1>4. ASSUME NEW t \in Threads, Emit(t) \/ Step(t), ~WritePart(t) PROVE out' = out
  BY <1>4 DEF Emit, Step, Format, ReportFormat, Acquire, MakeWriter, WriteError,
              ReportWrite, Leave, WriterPanics
<1>5. CASE UNCHANGED vars
  BY <1>2, <1>5 DEF vars
<1> QED  BY <1>2, <1>3, <1>4, <1>5 DEF Next, Quiet

\* No line of a thread is later than its last.
LEMMA LastIsGreatest ==
    ASSUME Lines \in Seq(Events), NEW t \in Threads
    PROVE  /\ Stream!LastOf(t) \in Nat
           /\ \A i \in DOMAIN Lines : Lines[i][1] = t => Lines[i][2] <= Stream!LastOf(t)
<1> DEFINE ns == {Lines[i][2] : i \in {j \in DOMAIN Lines : Lines[j][1] = t}}
           last == Stream!LastOf(t)
<1>1. ns \subseteq 1..MaxEvents
  <2>1. \A i \in DOMAIN Lines : Lines[i] \in Events
    OBVIOUS
  <2> QED  BY <2>1 DEF Events
<1>2. last = IF ns = {} THEN 0 ELSE CHOOSE n \in ns : \A m \in ns : m <= n
  BY DEF Stream!LastOf
<1>3. \A i \in DOMAIN Lines : Lines[i][1] = t => Lines[i][2] \in ns
  OBVIOUS
<1> HIDE DEF ns, last
<1>4. CASE ns = {}
  <2>1. last \in Nat /\ \A i \in DOMAIN Lines : Lines[i][1] = t => Lines[i][2] <= last
    BY <1>2, <1>3, <1>4
  <2> QED  BY <2>1 DEF last
<1>5. CASE ns # {}
  <2>1. \E n \in ns : \A m \in ns : m <= n
    BY <1>1, <1>5, EventsAssumption, LastExists
  <2>2. last \in ns /\ \A m \in ns : m <= last
    BY <1>2, <1>5, <2>1
  <2>3. last \in Nat /\ \A i \in DOMAIN Lines : Lines[i][1] = t => Lines[i][2] <= last
    BY <1>1, <1>3, <2>2, EventsAssumption
  <2> QED  BY <2>3 DEF last
<1> QED  BY <1>4, <1>5

LEMMA OrderStep ==
    ASSUME Lines \in Seq(Events), Stream!InOrder, [Stream!Next]_Lines
    PROVE  Lines' \in Seq(Events) /\ Stream!InOrder'
<1>1. CASE Lines' = Lines
  BY <1>1 DEF Stream!InOrder
<1>2. ASSUME NEW t \in Threads, NEW n \in (Stream!LastOf(t) + 1)..MaxEvents,
             Lines' = Append(Lines, <<t, n>>)
      PROVE  Lines' \in Seq(Events) /\ Stream!InOrder'
  <2>1. /\ Stream!LastOf(t) \in Nat
        /\ \A i \in DOMAIN Lines : Lines[i][1] = t => Lines[i][2] <= Stream!LastOf(t)
    BY LastIsGreatest
  <2>2. n \in 1..MaxEvents /\ n > Stream!LastOf(t)
    BY <1>2, <2>1, EventsAssumption
  <2>3. <<t, n>> \in Events
    BY <2>2 DEF Events
  <2> DEFINE N == Len(Lines)
             L == Lines'
  <2>4. /\ N \in Nat /\ DOMAIN Lines = 1..N /\ DOMAIN L = 1..(N + 1)
        /\ \A i \in 1..N : L[i] = Lines[i] /\ Lines[i] \in Events
        /\ L[N + 1] = <<t, n>> /\ L \in Seq(Events)
    BY <1>2, <2>3
  <2> HIDE DEF N, L
  <2>5. \A i \in 1..N : Lines[i][2] \in Nat
    BY <2>4 DEF Events
  <2>6. ASSUME NEW i \in 1..(N + 1), NEW j \in 1..(N + 1), i < j, L[i][1] = L[j][1]
        PROVE  L[i][2] < L[j][2]
    <3>1. CASE j \in 1..N
      BY <2>4, <2>6, <3>1 DEF Stream!InOrder
    <3>2. CASE j = N + 1
      <4>1. i \in 1..N /\ L[i] = Lines[i] /\ L[j] = <<t, n>>
        BY <2>4, <2>6, <3>2
      <4>2. Lines[i][2] <= Stream!LastOf(t)
        BY <2>1, <2>4, <2>6, <4>1
      <4> QED  BY <2>1, <2>2, <2>5, <4>1, <4>2
    <3> QED  BY <2>4, <3>1, <3>2
  <2>7. Stream!InOrder'
    BY <2>4, <2>6 DEF Stream!InOrder, L
  <2> QED  BY <2>4, <2>7 DEF L
<1> QED  BY <1>1, <1>2 DEF Stream!Next, Stream!Line

-----------------------------------------------------------------------------
(* Theorems                                                                *)

\* Every variable keeps its type.
THEOREM TypeCorrect == Spec => []TypeOK
<1>1. IInv /\ Outcomes => TypeOK
  BY DEF IInv
<1> QED  BY <1>1, SpecInv, PTL

\* The record lock has one owner, exactly while it is between Acquire and the
\* end of on_event or the unwinding of its writer's panic.
THEOREM MutualExclusion == Spec => []LockIsExclusive
<1>1. IInv /\ Outcomes => LockIsExclusive
  BY DEF IInv
<1> QED  BY <1>1, SpecInv, PTL

\* The pieces of two lines never interleave, whatever fails or panics.
THEOREM LinesDoNotInterleave == Spec => []NoInterleaving
<1>1. IInv /\ Outcomes => NoInterleaving
  BY DEF IInv
<1> QED  BY <1>1, SpecInv, PTL

\* With diagnostics enabled every event that has left on_event was written, was
\* reported on stderr, was unwound by the panic of its own writer, or failed and then
\* had its report refused by a stderr that may fail.
THEOREM NothingIsLostSilently == Spec => []NoSilentLoss
<1>1. IInv /\ Outcomes => NoSilentLoss
  BY DEF Outcomes, NothingUnsettled, MutedByStderr, Settled, NoSilentLoss
<1> QED  BY <1>1, SpecInv, PTL

\* An event counts as written exactly when its LF is on the output.
THEOREM WrittenLinesEnd == Spec => []WrittenMeansTerminated
<1>1. IInv /\ Outcomes => WrittenMeansTerminated
  BY DEF Outcomes
<1> QED  BY <1>1, SpecInv, PTL

\* A line starts at the beginning, behind an LF, or behind the fragment of an
\* event that its thread has given up.
THEOREM LinesStartClean == Spec => []LineStartsAfterLineOrFailure
<1>1. Starts => LineStartsAfterLineOrFailure
  BY DEF Starts
<1> QED  BY <1>1, SpecStarts, PTL

\* What a reader of the log sees implements NdjsonStream: complete lines appear one
\* by one, at most once per event, in the order in which their thread emitted them.
THEOREM ImplementsStream == Spec => ImplementsNdjsonStream
<1>1. Init => Stream!Init
  BY EndsEmpty DEF Init, Stream!Init, Lines
<1>2. IInv /\ Outcomes /\ Starts /\ [Next]_vars => [Stream!Next]_Lines
  BY StreamStep
<1> QED  BY <1>1, <1>2, SpecInv, SpecStarts, PTL DEF Spec, ImplementsNdjsonStream, Stream!Spec

\* Of two lines of a thread the later one is that of the later event, and no event has
\* two lines (the record lock and write_all).
THEOREM LinesKeepOrder == Spec => []Stream!InOrder
<1> DEFINE Ordered == Lines \in Seq(Events) /\ Stream!InOrder
<1>1. Stream!Init => Ordered
  BY DEF Stream!Init, Stream!InOrder
<1>2. Ordered /\ [Stream!Next]_Lines => Ordered'
  BY OrderStep
<1>3. Ordered => Stream!InOrder
  OBVIOUS
<1> HIDE DEF Ordered
<1> QED  BY <1>1, <1>2, <1>3, ImplementsStream, PTL DEF ImplementsNdjsonStream, Stream!Spec
=============================================================================
