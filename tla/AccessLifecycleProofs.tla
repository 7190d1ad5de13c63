----------------------- MODULE AccessLifecycleProofs -----------------------
(***************************************************************************)
(* Proofs about AccessLifecycle: type correctness, the exactly-once        *)
(* guarantee of the terminal guard, the agreement of the record with the   *)
(* response and with the frames of its body, and the implementation of     *)
(* TerminalOnce.                                                           *)
(***************************************************************************)
EXTENDS AccessLifecycle, SequenceTheorems, TLAPS

-----------------------------------------------------------------------------
(* The inductive invariant, one part per idea                              *)

\* The guard is the linear token of the request: while it holds its state the
\* request has no record, and once it is empty the request has exactly one.
GuardInv(r) ==
    /\ Len(records[r]) <= 1
    /\ phase[r] \in {"idle", "refused"} => guard[r] = None /\ records[r] = <<>>
    /\ phase[r] = "running" => guard[r] # None
    /\ phase[r] \in {"failed", "gone"} => guard[r] = None
    /\ phase[r] \notin {"idle", "refused"} => (guard[r] = None <=> records[r] # <<>>)

\* What a record of the request must say about the response.
Reflects(p, r) ==
    /\ p.status = produced[r].status
    /\ p.operation = IF produced[r].operation = None
                     THEN request[r] ELSE produced[r].operation

\* The guard knows the response head as soon as there is one.
HeadInv(r) ==
    /\ phase[r] \in {"idle", "refused", "running"} => produced[r] = NoHead
    /\ phase[r] \in {"responded", "unwinding"} => produced[r].status # None
    /\ guard[r] # None => Reflects(guard[r], r)

RecordInv(r) ==
    records[r] # <<>> =>
        /\ Reflects(records[r][1], r)
        /\ Contract!Legal(records[r][1])

\* A record of a normal completion fixes the body: nothing can follow.
BodyInv(r) ==
    records[r] # <<>> /\ records[r][1].outcome = "completed" => Ended(body[r])

RequestInv(r) == GuardInv(r) /\ HeadInv(r) /\ RecordInv(r) /\ BodyInv(r)

IInv == TypeOK /\ \A r \in Requests : RequestInv(r)
-----------------------------------------------------------------------------
(* Facts about the operators                                               *)

\* The default mapping and the configured mapper return levels.
LEMMA LevelsForType ==
    ASSUME NEW outcome \in Outcomes, NEW status \in OptStatus
    PROVE  /\ LevelsFor(outcome, status) \subseteq Levels
           /\ outcome # "completed" => LevelsFor(outcome, status) = {"ERROR"}
BY LevelsAssumption DEF LevelsFor, DefaultLevel, Levels, Outcomes

\* A record built from a guard's state is an access record, and is legal if
\* its outcome fits the status the guard knows.
LEMMA NewRecordType ==
    ASSUME NEW outcome \in Outcomes, NEW state \in TerminalState,
           NEW level \in LevelsFor(outcome, state.status)
    PROVE  /\ NewRecord(state, outcome, level) \in AccessRecord
           /\ NewRecord(state, outcome, level).outcome = outcome
           /\ NewRecord(state, outcome, level).status = state.status
           /\ NewRecord(state, outcome, level).operation = state.operation
           /\ outcome # "completed" => NewRecord(state, outcome, level).level = "ERROR"
<1>1. state.status \in OptStatus /\ state.operation \in OptOperation
  BY DEF TerminalState
<1>2. level \in Levels /\ (outcome # "completed" => level = "ERROR")
  BY <1>1, LevelsForType
<1> QED  BY <1>1, <1>2 DEF NewRecord, AccessRecord

\* What finish() does to a request whose record is still to come, and to one
\* that already has it: the dispatch happens exactly when the state is there.
LEMMA FinishEffect ==
    ASSUME TypeOK, NEW r \in Requests, NEW state \in TerminalState \cup {None},
           NEW outcome \in Outcomes, Finish(r, state, outcome)
    PROVE  /\ guard' \in [Requests -> TerminalState \cup {None}]
           /\ records' \in [Requests -> Seq(AccessRecord)]
           /\ guard'[r] = None
           /\ \A q \in Requests : q # r => guard'[q] = guard[q] /\ records'[q] = records[q]
           /\ state = None => records'[r] = records[r]
           /\ state # None /\ records[r] = <<>> =>
                 /\ Len(records'[r]) = 1
                 /\ records'[r] # <<>>
                 /\ records'[r][1].outcome = outcome
                 /\ records'[r][1].status = state.status
                 /\ records'[r][1].operation = state.operation
                 /\ outcome # "completed" => records'[r][1].level = "ERROR"
<1>1. guard' \in [Requests -> TerminalState \cup {None}] /\ guard'[r] = None
      /\ \A q \in Requests : q # r => guard'[q] = guard[q]
  BY DEF Finish, TypeOK
<1>2. CASE state = None
  BY <1>1, <1>2 DEF Finish, TypeOK
<1>3. CASE state # None
  <2>1. PICK level \in LevelsFor(outcome, state.status) :
           records' = [records EXCEPT ![r] =
                          Append(@, NewRecord(state, outcome, level))]
    BY <1>3 DEF Finish
  <2> DEFINE p == NewRecord(state, outcome, level)
  <2>2. /\ p \in AccessRecord /\ p.outcome = outcome /\ p.status = state.status
        /\ p.operation = state.operation
        /\ outcome # "completed" => p.level = "ERROR"
    BY <1>3, NewRecordType
  <2> HIDE DEF p
  <2>3. records' = [records EXCEPT ![r] = Append(@, p)]
    BY <2>1 DEF p
  <2>4. records' \in [Requests -> Seq(AccessRecord)]
    BY <2>2, <2>3 DEF TypeOK
  <2>5. records'[r] = Append(records[r], p)
        /\ \A q \in Requests : q # r => records'[q] = records[q]
    BY <2>3 DEF TypeOK
  <2>6. records[r] = <<>> => Len(records'[r]) = 1 /\ records'[r] # <<>> /\ records'[r][1] = p
    BY <2>2, <2>5
  <2> QED  BY <1>1, <1>3, <2>2, <2>4, <2>5, <2>6
<1> QED  BY <1>2, <1>3
-----------------------------------------------------------------------------
(* Preservation of the invariant                                           *)

\* What a step of request r leaves alone of another request q.
Untouched(q) ==
    /\ phase'[q] = phase[q] /\ guard'[q] = guard[q] /\ body'[q] = body[q]
    /\ records'[q] = records[q] /\ request'[q] = request[q]
    /\ produced'[q] = produced[q]

LEMMA UntouchedInv ==
    ASSUME NEW q \in Requests, RequestInv(q), Untouched(q)
    PROVE  RequestInv(q)'
BY DEF Untouched, RequestInv, GuardInv, HeadInv, RecordInv, BodyInv, Reflects, NoHead, Ended,
       Contract!Legal

\* The counts of the frames and the polls that were cut off.
FrameTypes ==
    yielded \in [Requests -> Nat] /\ received \in [Requests -> Nat] /\ cut \subseteq Requests

\* The invariant holds before the first call.
LEMMA InitInv == Init => IInv
<1> SUFFICES ASSUME Init PROVE IInv
  OBVIOUS
<1>1. TypeOK
  <2>1. EmptyBody \in Bodies
    BY BodyAssumption DEF EmptyBody, Bodies
  <2>2. NoHead \in TerminalState
    BY DEF NoHead, TerminalState, OptStatus, OptOperation
  <2>3. <<>> \in Seq(AccessRecord)
    OBVIOUS
  <2>4. None \in OptOperation
    BY DEF OptOperation
  <2> QED  BY <2>1, <2>2, <2>3, <2>4 DEF Init, TypeOK, Phases
<1>2. ASSUME NEW r \in Requests PROVE RequestInv(r)
  BY <1>2, BodyAssumption DEF Init, RequestInv, GuardInv, HeadInv, RecordInv, BodyInv, EmptyBody
<1> QED  BY <1>1, <1>2 DEF IInv

\* A step that finishes the guard of r, whether or not it was taken before,
\* restores the invariant if the outcome fits the phase the request was in.
LEMMA FinishInv ==
    ASSUME IInv, NEW r \in Requests, NEW outcome \in Outcomes,
           Finish(r, guard[r], outcome),
           phase[r] \in {"running", "responded", "unwinding"},
           phase'[r] \in {"responded", "unwinding", "failed", "gone"},
           phase[r] = "running" => phase'[r] \in {"failed", "gone"},
           outcome = "service_error" => phase[r] = "running",
           outcome \in {"completed", "body_error"} => phase[r] # "running",
           outcome = "completed" => Ended(body'[r]),
           Ended(body[r]) => Ended(body'[r]),
           produced'[r] = produced[r], request'[r] = request[r]
    PROVE  RequestInv(r)'
<1> USE DEF IInv
<1>1. guard[r] \in TerminalState \cup {None} /\ RequestInv(r)
  BY DEF TypeOK
<1>2. /\ guard'[r] = None
      /\ guard[r] = None => records'[r] = records[r]
      /\ guard[r] # None /\ records[r] = <<>> =>
            /\ Len(records'[r]) = 1
            /\ records'[r] # <<>>
            /\ records'[r][1].outcome = outcome
            /\ records'[r][1].status = guard[r].status
            /\ records'[r][1].operation = guard[r].operation
            /\ outcome # "completed" => records'[r][1].level = "ERROR"
  BY <1>1, FinishEffect
<1>3. guard[r] = None <=> records[r] # <<>>
  BY <1>1 DEF RequestInv, GuardInv
<1>4. GuardInv(r)'
  <2>1. CASE guard[r] = None
    <3>1. Len(records[r]) <= 1
      BY <1>1 DEF RequestInv, GuardInv
    <3>2. guard'[r] = None /\ records'[r] = records[r] /\ records[r] # <<>>
      BY <1>2, <1>3, <2>1
    <3> QED  BY <3>1, <3>2 DEF GuardInv
  <2>2. CASE guard[r] # None
    <3>1. guard'[r] = None /\ Len(records'[r]) = 1 /\ records'[r] # <<>>
      BY <1>2, <1>3, <2>2
    <3>2. Len(records'[r]) <= 1
      BY <3>1
    <3> QED  BY <3>1, <3>2 DEF GuardInv
  <2> QED  BY <2>1, <2>2
<1>5. HeadInv(r)'
  BY <1>1, <1>2 DEF RequestInv, HeadInv, GuardInv
<1>6. RecordInv(r)'
  <2>1. CASE guard[r] = None
    BY <1>1, <1>2, <2>1 DEF RequestInv, RecordInv, Reflects, Contract!Legal
  <2>2. CASE guard[r] # None
    <3>1. Reflects(guard[r], r)
      BY <1>1, <2>2 DEF RequestInv, HeadInv
    <3>2. Reflects(records[r][1], r)'
      BY <1>2, <1>3, <2>2, <3>1 DEF Reflects
    <3>3. /\ outcome = "service_error" => guard[r].status = None
          /\ outcome \in {"completed", "body_error"} => guard[r].status # None
      BY <1>1, <3>1 DEF RequestInv, HeadInv, Reflects, NoHead
    <3> QED  BY <1>2, <1>3, <2>2, <3>2, <3>3 DEF RecordInv, Contract!Legal
  <2> QED  BY <2>1, <2>2
<1>7. BodyInv(r)'
  BY <1>1, <1>2, <1>3 DEF RequestInv, BodyInv
<1> QED  BY <1>4, <1>5, <1>6, <1>7 DEF RequestInv
\* A step of r restores the invariant of r and cannot disturb another request.
LEMMA StepInv ==
    ASSUME IInv, NEW r \in Requests, TypeOK', RequestInv(r)',
           \A q \in Requests : q # r => Untouched(q)
    PROVE  IInv'
<1>1. ASSUME NEW q \in Requests, q # r PROVE RequestInv(q)'
  BY <1>1, UntouchedInv DEF IInv
<1> QED  BY <1>1 DEF IInv

\* call() builds the guard of a request that had none.
LEMMA CallInv ==
    ASSUME IInv, NEW r \in Requests, NEW operation \in OptOperation, Call(r, operation)
    PROVE  IInv'
<1> DEFINE state == [status |-> None, operation |-> operation]
<1>1. TypeOK /\ RequestInv(r) /\ phase[r] = "idle"
  BY DEF IInv, Call, Move, At
<1>2. state \in TerminalState
  BY DEF TerminalState, OptStatus
<1>3. /\ phase'[r] = "running" /\ guard'[r] = state /\ request'[r] = operation
      /\ records' = records /\ produced' = produced /\ body' = body
  BY <1>1 DEF Call, Move, TypeOK
<1>4. TypeOK'
  BY <1>1, <1>2 DEF Call, Move, TypeOK, Phases, frames
<1>5. \A q \in Requests : q # r => Untouched(q)
  BY <1>1 DEF Call, Move, TypeOK, Untouched
<1>6. state # None /\ state.status = None /\ state.operation = operation
  BY <1>2, NoneAssumption
<1> HIDE DEF state
<1>7. GuardInv(r)'
  BY <1>1, <1>3, <1>6 DEF RequestInv, GuardInv
<1>8. HeadInv(r)'
  BY <1>1, <1>3, <1>6 DEF RequestInv, HeadInv, Reflects, NoHead
<1>9. RecordInv(r)' /\ BodyInv(r)'
  BY <1>1, <1>3 DEF RequestInv, GuardInv, RecordInv, BodyInv
<1> QED  BY <1>4, <1>5, <1>7, <1>8, <1>9, StepInv DEF RequestInv

LEMMA CallPanicsInv ==
    ASSUME IInv, NEW r \in Requests, NEW operation \in OptOperation, CallPanics(r, operation)
    PROVE  IInv'
<1>1. TypeOK /\ RequestInv(r) /\ phase[r] = "idle"
  BY DEF IInv, CallPanics, Move, At
<1>2. TypeOK'
  BY <1>1 DEF CallPanics, Move, TypeOK, Phases, frames
<1>3. \A q \in Requests : q # r => Untouched(q)
  BY <1>1 DEF CallPanics, Move, TypeOK, Untouched
<1>4. phase'[r] = "refused" /\ UNCHANGED <<guard, body, records, produced>>
  BY <1>1 DEF CallPanics, Move, TypeOK
<1>5. RequestInv(r)'
  BY <1>1, <1>4 DEF RequestInv, GuardInv, HeadInv, RecordInv, BodyInv
<1> QED  BY <1>2, <1>3, <1>5, StepInv

\* The steps that end a request by finishing its guard: the service error and
\* every drop of the future or of the response.
LEMMA EndInv ==
    ASSUME IInv, NEW r \in Requests,
           NEW outcome \in {"service_error", "response_dropped"},
           NEW from \in {"running", "responded", "unwinding"}, NEW to \in {"failed", "gone"},
           outcome = "service_error" => from = "running",
           Move(r, from, to), Finish(r, guard[r], outcome),
           UNCHANGED <<body, request, produced, eofSeen, frames>>, aborted' \in BOOLEAN
    PROVE  IInv'
<1>1. TypeOK /\ RequestInv(r) /\ outcome \in Outcomes /\ guard[r] \in TerminalState \cup {None}
  BY DEF IInv, TypeOK, Outcomes
<1>2. phase[r] = from /\ phase'[r] = to /\ phase' \in [Requests -> Phases]
      /\ \A q \in Requests : q # r => phase'[q] = phase[q]
  BY <1>1 DEF Move, At, TypeOK, Phases
<1>3. /\ guard' \in [Requests -> TerminalState \cup {None}]
      /\ records' \in [Requests -> Seq(AccessRecord)]
      /\ \A q \in Requests : q # r => guard'[q] = guard[q] /\ records'[q] = records[q]
  BY <1>1, FinishEffect
<1>4. TypeOK'
  BY <1>1, <1>2, <1>3 DEF TypeOK, frames
<1>5. \A q \in Requests : q # r => Untouched(q)
  BY <1>2, <1>3 DEF Untouched
<1>6. body'[r] = body[r] /\ produced'[r] = produced[r] /\ request'[r] = request[r]
  OBVIOUS
<1>7. RequestInv(r)'
  BY <1>1, <1>2, <1>6, FinishInv
<1> QED  BY <1>4, <1>5, <1>7, StepInv

LEMMA ResolveErrInv == ASSUME IInv, NEW r \in Requests, ResolveErr(r) PROVE IInv'
<1>1. PICK sink \in Sinks(guard[r]) :
         Move(r, "running", IF sink = "panics" THEN "gone" ELSE "failed")
  BY DEF ResolveErr
<1>2. aborted' \in BOOLEAN
  BY DEF ResolveErr, IInv, TypeOK
<1> QED  BY <1>1, <1>2, EndInv DEF ResolveErr

LEMMA DropInv == ASSUME IInv, NEW r \in Requests, FuturePanics(r) \/ Drop(r) PROVE IInv'
<1>1. ASSUME DropUnwinding(r) \/ DropOwned(r)
      PROVE  Finish(r, guard[r], "response_dropped") /\ aborted' \in BOOLEAN
  BY <1>1 DEF DropUnwinding, DropOwned, IInv, TypeOK
<1>2. PICK from \in {"running", "responded", "unwinding"} : Move(r, from, "gone")
  BY DEF FuturePanics, Drop, DropFuture, DropResponse, Unwind
<1>3. UNCHANGED <<body, request, produced, eofSeen, frames>> /\ (DropUnwinding(r) \/ DropOwned(r))
  BY DEF FuturePanics, Drop, DropFuture, DropResponse, Unwind
<1> QED  BY <1>1, <1>2, <1>3, EndInv

\* A poll of the body that finishes the guard.
LEMMA PollFinishInv ==
    ASSUME IInv, NEW r \in Requests, NEW outcome \in {"completed", "body_error"},
           NEW b \in Bodies, body' = [body EXCEPT ![r] = b],
           Ended(body[r]) => Ended(b), outcome = "completed" => Ended(b),
           Finish(r, guard[r], outcome), AfterPoll(r, guard[r]),
           eofSeen' \in [Requests -> BOOLEAN], FrameTypes',
           UNCHANGED <<request, produced, aborted>>
    PROVE  IInv'
<1>1. TypeOK /\ RequestInv(r) /\ outcome \in Outcomes /\ guard[r] \in TerminalState \cup {None}
  BY DEF IInv, TypeOK, Outcomes
<1>2. PICK to \in {"responded", "unwinding"} : Move(r, "responded", to)
  BY DEF AfterPoll
<1>3. phase[r] = "responded" /\ phase'[r] = to /\ phase' \in [Requests -> Phases]
      /\ \A q \in Requests : q # r => phase'[q] = phase[q]
  BY <1>1, <1>2 DEF Move, At, TypeOK, Phases
<1>4. /\ guard' \in [Requests -> TerminalState \cup {None}]
      /\ records' \in [Requests -> Seq(AccessRecord)]
      /\ \A q \in Requests : q # r => guard'[q] = guard[q] /\ records'[q] = records[q]
  BY <1>1, FinishEffect
<1>5. body'[r] = b /\ body' \in [Requests -> Bodies]
      /\ \A q \in Requests : q # r => body'[q] = body[q]
  BY <1>1 DEF TypeOK
<1>6. TypeOK'
  BY <1>1, <1>3, <1>4, <1>5 DEF TypeOK, FrameTypes
<1>7. \A q \in Requests : q # r => Untouched(q)
  BY <1>3, <1>4, <1>5 DEF Untouched
<1>8. produced'[r] = produced[r] /\ request'[r] = request[r]
  OBVIOUS
<1>9. RequestInv(r)'
  BY <1>1, <1>3, <1>5, <1>8, FinishInv
<1> QED  BY <1>6, <1>7, <1>9, StepInv

\* A step that changes nothing of a request but its body, or what the server
\* has seen of it.
LEMMA BodyStepInv ==
    ASSUME IInv, NEW r \in Requests, phase[r] = "responded",
           NEW b \in Bodies, body' = [body EXCEPT ![r] = b],
           Ended(body[r]) => Ended(b),
           eofSeen' \in [Requests -> BOOLEAN], FrameTypes',
           UNCHANGED <<phase, guard, records, request, produced, aborted>>
    PROVE  IInv'
<1>1. TypeOK /\ RequestInv(r)
  BY DEF IInv
<1>2. body'[r] = b /\ body' \in [Requests -> Bodies]
      /\ \A q \in Requests : q # r => body'[q] = body[q]
  BY <1>1 DEF TypeOK
<1>3. TypeOK'
  BY <1>1, <1>2 DEF TypeOK, FrameTypes
<1>4. \A q \in Requests : q # r => Untouched(q)
  BY <1>2 DEF Untouched
<1>5. RequestInv(r)'
  BY <1>1, <1>2 DEF RequestInv, GuardInv, HeadInv, RecordInv, BodyInv, Reflects, Contract!Legal
<1> QED  BY <1>3, <1>4, <1>5, StepInv
LEMMA PollReadyInv == ASSUME IInv, NEW r \in Requests, PollReady(r) PROVE IInv'
<1> DEFINE b == body'[r]
<1>1. /\ body \in [Requests -> Bodies] /\ body[r] \in Bodies
      /\ eofSeen \in [Requests -> BOOLEAN] /\ FrameTypes'
  <2>1. TypeOK /\ FrameTypes
    BY DEF IInv, TypeOK, FrameTypes
  <2>2. FrameTypes'
    BY <2>1 DEF PollReady, PollData, PollEof, PollError, HandOver, AfterPoll, FrameTypes
  <2> QED  BY <2>1, <2>2 DEF TypeOK
<1>2. CASE PollData(r)
  <2> DEFINE rest == [body[r] EXCEPT !.ready = @ - 1]
  <2>1. body[r].ready > 0 /\ body' = [body EXCEPT ![r] = rest]
    BY <1>2 DEF PollData
  <2>2. rest \in Bodies /\ ~Ended(body[r])
    BY <1>1, <2>1, BodyAssumption DEF Bodies, Ended
  <2>3. body'[r] = rest /\ eofSeen' \in [Requests -> BOOLEAN]
        /\ UNCHANGED <<request, produced, aborted>>
    BY <1>1, <1>2, <2>1 DEF PollData
  <2> HIDE DEF rest
  <2>4. CASE IsEndStream(body'[r])
    <3>1. Finish(r, guard[r], "completed") /\ AfterPoll(r, guard[r])
      BY <1>2, <2>4 DEF PollData
    <3>2. Ended(rest)
      BY <2>3, <2>4 DEF IsEndStream
    <3> QED  BY <1>1, <2>1, <2>2, <2>3, <3>1, <3>2, PollFinishInv
  <2>5. CASE ~IsEndStream(body'[r])
    <3>1. Move(r, "responded", "responded") /\ UNCHANGED <<guard, records>>
      BY <1>2, <2>5 DEF PollData
    <3>2. phase[r] = "responded" /\ UNCHANGED phase
      BY <3>1 DEF Move, At, IInv, TypeOK
    <3> QED  BY <1>1, <2>1, <2>2, <2>3, <3>1, <3>2, BodyStepInv
  <2> QED  BY <2>4, <2>5
<1>3. CASE PollEof(r)
  <2>1. body' = [body EXCEPT ![r] = body[r]] /\ eofSeen' \in [Requests -> BOOLEAN]
    BY <1>1, <1>3 DEF PollEof
  <2> QED  BY <1>1, <1>3, <2>1, PollFinishInv DEF PollEof
<1>4. CASE PollError(r)
  <2> DEFINE rest == [body[r] EXCEPT !.failed = FALSE]
  <2>1. body[r].failed /\ body' = [body EXCEPT ![r] = rest]
    BY <1>4 DEF PollError
  <2>2. rest \in Bodies /\ ~Ended(body[r])
    BY <1>1, <2>1 DEF Bodies, Ended
  <2>3. eofSeen' \in [Requests -> BOOLEAN] /\ UNCHANGED <<request, produced, aborted>>
        /\ Finish(r, guard[r], "body_error") /\ AfterPoll(r, guard[r])
    BY <1>1, <1>4 DEF PollError
  <2> HIDE DEF rest
  <2> QED  BY <1>1, <2>1, <2>2, <2>3, PollFinishInv
<1> QED  BY <1>2, <1>3, <1>4 DEF PollReady

LEMMA PollPanicsInv == ASSUME IInv, NEW r \in Requests, PollPanics(r) PROVE IInv'
<1>1. TypeOK /\ RequestInv(r) /\ phase[r] = "responded"
  BY DEF IInv, PollPanics, Move, At
<1>2. phase'[r] = "unwinding" /\ UNCHANGED <<guard, body, records, request, produced>>
  BY <1>1 DEF PollPanics, Move, TypeOK
<1>3. TypeOK'
  BY <1>1 DEF PollPanics, Move, TypeOK, Phases, frames
<1>4. \A q \in Requests : q # r => Untouched(q)
  BY <1>1 DEF PollPanics, Move, TypeOK, Untouched
<1>5. RequestInv(r)'
  BY <1>1, <1>2 DEF RequestInv, GuardInv, HeadInv, RecordInv, BodyInv, Reflects, Ended,
                    Contract!Legal
<1> QED  BY <1>3, <1>4, <1>5, StepInv

LEMMA AskEndStreamInv == ASSUME IInv, NEW r \in Requests, AskEndStream(r) PROVE IInv'
<1>1. body \in [Requests -> Bodies] /\ eofSeen \in [Requests -> BOOLEAN] /\ FrameTypes
  BY DEF IInv, TypeOK, FrameTypes
<1>2. /\ body' = [body EXCEPT ![r] = body[r]] /\ eofSeen' \in [Requests -> BOOLEAN]
      /\ FrameTypes'
  BY <1>1 DEF AskEndStream, frames, FrameTypes
<1> QED  BY <1>1, <1>2, BodyStepInv DEF AskEndStream, At

LEMMA SupplyInv == ASSUME IInv, NEW r \in Requests, Supply(r) PROVE IInv'
<1>1. body[r] \in Bodies /\ eofSeen \in [Requests -> BOOLEAN] /\ FrameTypes
  BY DEF IInv, TypeOK, FrameTypes
<1>2. ASSUME NEW b \in Bodies, Feed(r, b) PROVE IInv'
  <2>1. ~Ended(body[r]) /\ phase[r] = "responded"
    BY <1>2 DEF Feed, At, Ended
  <2>2. eofSeen' \in [Requests -> BOOLEAN] /\ FrameTypes'
    BY <1>1, <1>2 DEF Feed, frames, FrameTypes
  <2> QED  BY <1>2, <2>1, <2>2, BodyStepInv DEF Feed
<1>3. CASE Produce(r)
  <2> DEFINE b == [body[r] EXCEPT !.left = @ - 1, !.ready = @ + 1]
  <2>1. Feed(r, b) /\ ~body[r].closed /\ body[r].left > 0
    BY <1>3 DEF Produce, Feed
  <2>2. /\ body[r].left - 1 \in 0..MaxFrames /\ body[r].ready + 1 \in 0..MaxFrames
        /\ (body[r].left - 1) + (body[r].ready + 1) <= MaxFrames
    BY <1>1, <2>1, BodyAssumption DEF Bodies
  <2>3. b \in Bodies
    BY <1>1, <2>1, <2>2 DEF Bodies
  <2> HIDE DEF b
  <2> QED  BY <1>2, <2>1, <2>3
<1>4. CASE CloseBody(r)
  <2> DEFINE b == [body[r] EXCEPT !.closed = TRUE]
  <2>1. Feed(r, b) /\ b \in Bodies
    BY <1>1, <1>4 DEF CloseBody, Bodies
  <2> HIDE DEF b
  <2> QED  BY <1>2, <2>1
<1>5. CASE FailBody(r)
  <2> DEFINE b == [body[r] EXCEPT !.closed = TRUE, !.failed = TRUE, !.left = 0]
  <2>1. Feed(r, b)
    BY <1>5 DEF FailBody
  <2>2. 0 \in 0..MaxFrames /\ body[r].ready \in 0..MaxFrames /\ 0 + body[r].ready <= MaxFrames
    BY <1>1, BodyAssumption DEF Bodies
  <2>3. b \in Bodies
    BY <1>1, <2>2 DEF Bodies
  <2> HIDE DEF b
  <2> QED  BY <1>2, <2>1, <2>3
<1> QED  BY <1>3, <1>4, <1>5 DEF Supply
\* The response head is recorded in the guard before the body is looked at.
LEMMA ResolveOkInv ==
    ASSUME IInv, NEW r \in Requests, NEW status \in Statuses, NEW operation \in OptOperation,
           NEW b \in Bodies, ResolveOk(r, [status |-> status, operation |-> operation], b)
    PROVE  IInv'
<1> DEFINE head  == [status |-> status, operation |-> operation]
           state == WithHead(guard[r], head)
<1>1. TypeOK /\ RequestInv(r) /\ phase[r] = "running" /\ "completed" \in Outcomes
  BY DEF IInv, ResolveOk, At, Outcomes
<1>2. /\ head \in TerminalState /\ head.status = status /\ head.operation = operation
      /\ status # None
  BY StatusesAssumption DEF TerminalState, OptStatus
<1>3. guard[r] \in TerminalState /\ guard[r].operation = request[r]
  BY <1>1 DEF TypeOK, RequestInv, GuardInv, HeadInv, Reflects, NoHead
<1>4. /\ state \in TerminalState /\ state # None
      /\ state.status = status
      /\ state.operation = IF operation = None THEN request[r] ELSE operation
  BY <1>2, <1>3, NoneAssumption DEF WithHead, TerminalState
<1>5. /\ produced' = [produced EXCEPT ![r] = head] /\ body' = [body EXCEPT ![r] = b]
      /\ UNCHANGED <<request, eofSeen, yielded, received, cut, aborted>>
  BY DEF ResolveOk, frames
<1>6. \/ /\ IsEndStream(b) /\ Finish(r, state, "completed")
         /\ \E sink \in Sinks(state) :
               Move(r, "running", IF sink = "panics" THEN "gone" ELSE "responded")
      \/ /\ guard' = [guard EXCEPT ![r] = state]
         /\ Move(r, "running", "responded") /\ UNCHANGED records
  BY DEF ResolveOk
<1> HIDE DEF state, head
<1>7. /\ produced'[r] = head /\ body'[r] = b /\ request'[r] = request[r]
      /\ produced' \in [Requests -> TerminalState] /\ body' \in [Requests -> Bodies]
      /\ \A q \in Requests : q # r => produced'[q] = produced[q] /\ body'[q] = body[q]
  BY <1>1, <1>2, <1>5 DEF TypeOK
<1>8. PICK to \in {"gone", "responded"} :
         phase' = [phase EXCEPT ![r] = to] /\ (guard'[r] # None => to = "responded")
  <2>1. CASE Finish(r, state, "completed")
    BY <1>1, <1>6, <2>1 DEF Finish, Move, TypeOK
  <2> QED  BY <1>6, <2>1 DEF Move
<1>9. phase'[r] = to /\ phase' \in [Requests -> Phases]
      /\ \A q \in Requests : q # r => phase'[q] = phase[q]
  BY <1>1, <1>8 DEF TypeOK, Phases
<1>10. records[r] = <<>>
  BY <1>1 DEF RequestInv, GuardInv
<1>11. CASE IsEndStream(b) /\ Finish(r, state, "completed")
  <2>1. /\ guard' \in [Requests -> TerminalState \cup {None}]
        /\ records' \in [Requests -> Seq(AccessRecord)]
        /\ guard'[r] = None
        /\ \A q \in Requests : q # r => guard'[q] = guard[q] /\ records'[q] = records[q]
        /\ Len(records'[r]) = 1 /\ records'[r] # <<>>
        /\ records'[r][1].outcome = "completed"
        /\ records'[r][1].status = state.status
        /\ records'[r][1].operation = state.operation
    BY <1>1, <1>4, <1>10, <1>11, FinishEffect
  <2>2. TypeOK'
    BY <1>1, <1>5, <1>7, <1>9, <2>1 DEF TypeOK
  <2>3. \A q \in Requests : q # r => Untouched(q)
    BY <1>5, <1>7, <1>9, <2>1 DEF Untouched
  <2>4. Len(records'[r]) <= 1
    BY <2>1
  <2>5. GuardInv(r)'
    BY <1>9, <2>1, <2>4 DEF GuardInv
  <2>6. HeadInv(r)' /\ RecordInv(r)'
    BY <1>2, <1>4, <1>7, <1>9, <2>1 DEF HeadInv, RecordInv, Reflects, Contract!Legal
  <2>7. BodyInv(r)'
    BY <1>7, <1>11 DEF BodyInv, IsEndStream
  <2> QED  BY <2>2, <2>3, <2>5, <2>6, <2>7, StepInv DEF RequestInv
<1>12. CASE guard' = [guard EXCEPT ![r] = state] /\ UNCHANGED records
  <2>1. /\ guard' \in [Requests -> TerminalState \cup {None}] /\ guard'[r] = state
        /\ \A q \in Requests : q # r => guard'[q] = guard[q]
    BY <1>1, <1>4, <1>12 DEF TypeOK
  <2>2. TypeOK'
    BY <1>1, <1>5, <1>7, <1>9, <1>12, <2>1 DEF TypeOK
  <2>3. \A q \in Requests : q # r => Untouched(q)
    BY <1>5, <1>7, <1>9, <1>12, <2>1 DEF Untouched
  <2>4. GuardInv(r)'
    BY <1>1, <1>4, <1>8, <1>9, <1>10, <1>12, <2>1 DEF RequestInv, GuardInv
  <2>5. HeadInv(r)'
    BY <1>2, <1>4, <1>7, <1>9, <2>1 DEF HeadInv, Reflects
  <2>6. RecordInv(r)' /\ BodyInv(r)'
    BY <1>10, <1>12 DEF RecordInv, BodyInv
  <2> QED  BY <2>2, <2>3, <2>4, <2>5, <2>6, StepInv DEF RequestInv
<1> QED  BY <1>6, <1>11, <1>12

LEMMA ResolveInv == ASSUME IInv, NEW r \in Requests, Resolve(r) PROVE IInv'
<1>1. CASE ResolveErr(r)
  BY <1>1, ResolveErrInv
<1>2. CASE FuturePanics(r)
  BY <1>2, DropInv
<1>3. CASE \E status \in Statuses, operation \in OptOperation, kind \in BodyKinds :
             \E b \in NewBodies(kind) :
                ResolveOk(r, [status |-> status, operation |-> operation], b)
  BY <1>3, ResolveOkInv DEF NewBodies
<1> QED  BY <1>1, <1>2, <1>3 DEF Resolve

\* Every step of the system preserves the invariant.
LEMMA NextInv == IInv /\ [Next]_vars => IInv'
<1> SUFFICES ASSUME IInv, [Next]_vars PROVE IInv'
  OBVIOUS
<1>1. ASSUME NEW r \in Requests, Step(r) PROVE IInv'
  <2>1. CASE \E operation \in OptOperation : Call(r, operation) \/ CallPanics(r, operation)
    BY <2>1, CallInv, CallPanicsInv
  <2>2. CASE Resolve(r)
    BY <2>2, ResolveInv
  <2>3. CASE PollReady(r)
    BY <2>3, PollReadyInv
  <2>4. CASE PollPanics(r)
    BY <2>4, PollPanicsInv
  <2>5. CASE AskEndStream(r)
    BY <2>5, AskEndStreamInv
  <2>6. CASE Drop(r)
    BY <2>6, DropInv
  <2>7. CASE Supply(r)
    BY <2>7, SupplyInv
  <2> QED  BY <1>1, <2>1, <2>2, <2>3, <2>4, <2>5, <2>6, <2>7 DEF Step
<1>2. CASE UNCHANGED vars
  <2>1. TypeOK'
    BY <1>2 DEF vars, frames, IInv, TypeOK
  <2>2. ASSUME NEW q \in Requests PROVE RequestInv(q)'
    BY <1>2, UntouchedInv DEF vars, Untouched, IInv
  <2> QED  BY <2>1, <2>2 DEF IInv
<1> QED  BY <1>1, <1>2 DEF Next, Stopped
-----------------------------------------------------------------------------
(* Safety theorems                                                         *)

LEMMA SpecInv == Spec => []IInv
<1>1. Init => IInv
  BY InitInv
<1>2. IInv /\ [Next]_vars => IInv'
  BY NextInv
<1> QED  BY <1>1, <1>2, PTL DEF Spec

\* Every variable keeps its type, for any number of requests, any length of
\* body and any configured level mapper.
THEOREM TypeCorrect == Spec => []TypeOK
<1>1. IInv => TypeOK
  BY DEF IInv
<1> QED  BY <1>1, SpecInv, PTL

\* No request is ever reported twice, and none whose guard was built ends
\* without its report.
THEOREM OneRecord == Spec => []ExactlyOneRecord
<1>1. ASSUME IInv PROVE ExactlyOneRecord
  <2>1. ASSUME NEW r \in Requests
        PROVE  Len(records[r]) <= 1 /\ (phase[r] \in {"failed", "gone"} => records[r] # <<>>)
    BY <1>1, <2>1 DEF IInv, RequestInv, GuardInv
  <2>2. ASSUME NEW r \in Requests, records[r] # <<>> PROVE Len(records[r]) = 1
    <3>1. records[r] \in Seq(AccessRecord) /\ Len(records[r]) <= 1
      BY <1>1, <2>2, <2>1 DEF IInv, TypeOK
    <3> DEFINE n == Len(records[r])
    <3>2. n \in Nat \ {0} /\ n <= 1
      BY <2>2, <3>1, EmptySeq
    <3> HIDE DEF n
    <3>3. n = 1
      BY <3>2
    <3> QED  BY <3>3 DEF n
  <2> QED  BY <2>1, <2>2 DEF ExactlyOneRecord
<1> QED  BY <1>1, SpecInv, PTL

\* Whatever ended the request, its record carries the head of the response the
\* service produced, or no status if it produced none.
THEOREM ReflectsResponse == Spec => []RecordReflectsResponse
<1>1. ASSUME IInv PROVE RecordReflectsResponse
  <2>1. ASSUME NEW r \in Requests, NEW i \in 1..Len(records[r])
        PROVE  i = 1 /\ Reflects(records[r][1], r)
    <3>1. records[r] \in Seq(AccessRecord) /\ Len(records[r]) <= 1
      BY <1>1 DEF IInv, TypeOK, RequestInv, GuardInv
    <3>2. i = 1 /\ records[r] # <<>>
      BY <3>1
    <3> QED  BY <1>1, <3>2 DEF IInv, RequestInv, RecordInv
  <2> QED  BY <2>1 DEF RecordReflectsResponse, Reflects
<1> QED  BY <1>1, SpecInv, PTL

-----------------------------------------------------------------------------
(* AccessLifecycle implements TerminalOnce                                 *)

NotAccepted == {"idle", "refused"}

\* Seen from the contract, a step of r accepts or refuses an idle request, or
\* adds the record of an accepted one that has none.
LEMMA StepEffect ==
    ASSUME IInv, NEW r \in Requests, Step(r)
    PROVE  /\ \A q \in Requests : q # r => phase'[q] = phase[q] /\ records'[q] = records[q]
           /\ \/ phase[r] = "idle" /\ phase'[r] \in {"running", "refused"} /\ UNCHANGED records
              \/ /\ phase[r] \notin NotAccepted /\ phase'[r] \notin NotAccepted
                 /\ records[r] # <<>> => records'[r] = records[r]
<1>1. TypeOK /\ RequestInv(r)
  BY DEF IInv
<1>2. records[r] # <<>> /\ phase[r] \notin NotAccepted => guard[r] = None
  BY <1>1 DEF RequestInv, GuardInv, NotAccepted
<1>3. ASSUME NEW state, NEW outcome, Finish(r, state, outcome)
      PROVE  /\ \A q \in Requests : q # r => records'[q] = records[q]
             /\ state = None => UNCHANGED records
  BY <1>1, <1>3 DEF Finish, TypeOK
<1>4. ASSUME NEW to \in Phases, NEW from \in Phases, Move(r, from, to)
      PROVE  /\ phase[r] = from /\ phase'[r] = to
             /\ \A q \in Requests : q # r => phase'[q] = phase[q]
  BY <1>1, <1>4 DEF Move, At, TypeOK
<1>5. CASE \E operation \in OptOperation : Call(r, operation) \/ CallPanics(r, operation)
  <2>1. PICK to \in {"running", "refused"} : Move(r, "idle", to) /\ UNCHANGED records
    BY <1>5 DEF Call, CallPanics
  <2>2. "idle" \in Phases /\ to \in Phases
    BY DEF Phases
  <2> QED  BY <1>4, <2>1, <2>2
<1> DEFINE Busy == {"running", "responded", "unwinding", "failed", "gone"}
<1>6. Busy \subseteq Phases /\ \A p \in Busy : p \notin NotAccepted
  BY DEF Phases, NotAccepted
<1> HIDE DEF Busy
<1>7. ASSUME NEW from \in Busy, NEW to \in Busy, Move(r, from, to),
             (\E outcome \in Outcomes : Finish(r, guard[r], outcome)) \/ UNCHANGED records
      PROVE  /\ \A q \in Requests : q # r => phase'[q] = phase[q] /\ records'[q] = records[q]
             /\ phase[r] \notin NotAccepted /\ phase'[r] \notin NotAccepted
             /\ records[r] # <<>> => records'[r] = records[r]
  <2>1. phase[r] = from /\ phase'[r] = to /\ \A q \in Requests : q # r => phase'[q] = phase[q]
    BY <1>4, <1>6, <1>7
  <2>2. \A q \in Requests : q # r => records'[q] = records[q]
    BY <1>3, <1>7
  <2>3. records[r] # <<>> => records'[r] = records[r]
    BY <1>2, <1>3, <1>6, <1>7, <2>1
  <2> QED  BY <1>6, <2>1, <2>2, <2>3
<1>8. ASSUME UNCHANGED <<phase, records>>, phase[r] = "responded"
      PROVE  /\ \A q \in Requests : q # r => phase'[q] = phase[q] /\ records'[q] = records[q]
             /\ phase[r] \notin NotAccepted /\ phase'[r] \notin NotAccepted
             /\ records[r] # <<>> => records'[r] = records[r]
  BY <1>8 DEF NotAccepted
<1>9. CASE Resolve(r)
  <2>1. CASE ResolveErr(r)
    <3>1. PICK to \in Busy : Move(r, "running", to)
      BY <2>1 DEF ResolveErr, Busy
    <3> QED  BY <1>7, <2>1, <3>1 DEF ResolveErr, Busy, Outcomes
  <2>2. CASE FuturePanics(r)
    BY <1>7, <2>2 DEF FuturePanics, DropUnwinding, Busy, Outcomes
  <2>3. CASE \E status \in Statuses, operation \in OptOperation, kind \in BodyKinds :
                \E b \in NewBodies(kind) :
                   ResolveOk(r, [status |-> status, operation |-> operation], b)
    <3>1. PICK head, b : ResolveOk(r, head, b)
      BY <2>3
    <3>2. records[r] = <<>>
      BY <1>1, <3>1 DEF ResolveOk, At, RequestInv, GuardInv
    <3>3. PICK to \in Busy : Move(r, "running", to)
      BY <3>1 DEF ResolveOk, Busy
    <3>4. \A q \in Requests : q # r => records'[q] = records[q]
      BY <1>3, <3>1 DEF ResolveOk
    <3>5. phase[r] = "running" /\ phase'[r] = to
          /\ \A q \in Requests : q # r => phase'[q] = phase[q]
      BY <1>4, <1>6, <3>3 DEF Busy
    <3> QED  BY <1>6, <3>2, <3>4, <3>5 DEF Busy
  <2> QED  BY <1>9, <2>1, <2>2, <2>3 DEF Resolve
<1>10. CASE PollReady(r) \/ PollPanics(r)
  <2>1. PICK to \in Busy : Move(r, "responded", to)
    BY <1>10 DEF PollReady, PollPanics, PollData, PollEof, PollError, AfterPoll, Busy
  <2>2. (\E outcome \in Outcomes : Finish(r, guard[r], outcome)) \/ UNCHANGED records
    BY <1>10 DEF PollReady, PollPanics, PollData, PollEof, PollError, Outcomes
  <2> QED  BY <1>7, <2>1, <2>2 DEF Busy
<1>11. CASE AskEndStream(r) \/ Supply(r)
  <2>1. UNCHANGED <<phase, records>> /\ phase[r] = "responded"
    BY <1>11 DEF AskEndStream, Supply, Produce, CloseBody, FailBody, Feed, At
  <2> QED  BY <1>8, <2>1
<1>12. CASE Drop(r)
  <2>1. PICK from \in Busy : Move(r, from, "gone")
    BY <1>12 DEF Drop, DropFuture, DropResponse, Unwind, Busy
  <2>2. Finish(r, guard[r], "response_dropped")
    BY <1>12 DEF Drop, DropFuture, DropResponse, Unwind, DropOwned, DropUnwinding
  <2> QED  BY <1>7, <2>1, <2>2 DEF Busy, Outcomes
<1> QED  BY <1>5, <1>9, <1>10, <1>11, <1>12 DEF Step

LEMMA InitContract == Init => Contract!Init
BY DEF Init, Contract!Init, Accepted, Reported

\* A legal access record is a report of the contract.
LEMMA RecordIsReport ==
    ASSUME NEW s \in Seq(AccessRecord), s # <<>>, Contract!Legal(s[1])
    PROVE  s[1] \in Contract!Reports
<1>1. 1 \in 1..Len(s)
  BY EmptySeq
<1>2. s[1] \in AccessRecord
  BY <1>1, ElementOfSeq
<1> QED  BY <1>2 DEF Contract!Reports, Contract!Outcomes, Contract!Levels, AccessRecord,
                     Outcomes, Levels, OptStatus, OptOperation

LEMMA StepContract ==
    ASSUME IInv, IInv', [Next]_vars
    PROVE  [Contract!Next]_(Contract!vars)
<1>1. ASSUME NEW r \in Requests, Step(r) PROVE [Contract!Next]_(Contract!vars)
  <2>1. \A q \in Requests : q # r => phase'[q] = phase[q] /\ records'[q] = records[q]
    BY <1>1, StepEffect
  <2>2. CASE phase[r] = "idle" /\ phase'[r] \in {"running", "refused"} /\ UNCHANGED records
    <3>1. Reported' = Reported
      BY <2>2 DEF Reported
    <3>2. CASE phase'[r] = "running"
      <4>1. r \notin Accepted /\ Accepted' = Accepted \cup {r}
        BY <2>1, <2>2, <3>2 DEF Accepted
      <4> QED  BY <3>1, <4>1 DEF Contract!Next, Contract!Accept
    <3>3. CASE phase'[r] = "refused"
      <4>1. Accepted' = Accepted
        BY <2>1, <2>2, <3>3 DEF Accepted
      <4> QED  BY <3>1, <4>1 DEF Contract!vars
    <3> QED  BY <2>2, <3>2, <3>3
  <2>3. CASE /\ phase[r] \notin NotAccepted /\ phase'[r] \notin NotAccepted
             /\ records[r] # <<>> => records'[r] = records[r]
    <3>1. Accepted' = Accepted /\ r \in Accepted
      BY <2>1, <2>3 DEF Accepted, NotAccepted
    <3>2. CASE records'[r] = records[r]
      <4>1. Reported' = Reported
        BY <2>1, <3>2 DEF Reported
      <4> QED  BY <3>1, <4>1 DEF Contract!vars
    <3>3. CASE records'[r] # records[r]
      <4> DEFINE p == records'[r][1]
      <4>1. records[r] = <<>> /\ records'[r] # <<>>
        BY <2>3, <3>3
      <4>2. p \in Contract!Reports
        <5>1. records'[r] \in Seq(AccessRecord) /\ Contract!Legal(records'[r][1])
          BY <4>1 DEF IInv, TypeOK, RequestInv, RecordInv, Contract!Legal
        <5> QED  BY <4>1, <5>1, RecordIsReport
      <4>3. Reported[r] = None /\ Reported' = [Reported EXCEPT ![r] = p]
        BY <2>1, <4>1 DEF Reported
      <4> HIDE DEF p
      <4> QED  BY <3>1, <4>2, <4>3 DEF Contract!Next, Contract!Report
    <3> QED  BY <3>2, <3>3
  <2> QED  BY <1>1, <2>2, <2>3, StepEffect
<1>2. CASE UNCHANGED vars
  BY <1>2 DEF vars, Accepted, Reported, Contract!vars
<1> QED  BY <1>1, <1>2 DEF Next, Stopped

\* The middleware keeps the promise of TerminalOnce: every behaviour of the
\* lifecycle is, through Accepted and Reported, a behaviour of the contract.
THEOREM ImplementsContract == Spec => ImplementsTerminalOnce
<1>1. Init => Contract!Init
  BY InitContract
<1>2. IInv /\ IInv' /\ [Next]_vars => [Contract!Next]_(Contract!vars)
  BY StepContract
<1> QED  BY <1>1, <1>2, SpecInv, PTL DEF Spec, ImplementsTerminalOnce, Contract!Spec
-----------------------------------------------------------------------------
(* What became of the frames of a body                                     *)

\* A poll returns the frame it was given, unless the dispatch of the record of the
\* completed body panics.
FrameInv(r) ==
    \/ received[r] = yielded[r]
    \/ /\ received[r] + 1 = yielded[r]
       /\ r \in cut /\ phase[r] \in {"unwinding", "gone"}
       /\ records[r] # <<>> /\ records[r][1].outcome = "completed"

\* Only PollData moves a frame, and only of the body it polls.
LEMMA FramesMove ==
    ASSUME TypeOK, NEW r \in Requests, Step(r)
    PROVE  /\ cut \subseteq cut'
           /\ \A q \in Requests : q # r => yielded'[q] = yielded[q] /\ received'[q] = received[q]
           /\ PollData(r) \/ UNCHANGED <<yielded, received>>
<1>1. CASE PollData(r)
  BY <1>1 DEF PollData, HandOver, AfterPoll, TypeOK
<1>2. CASE PollEof(r) \/ PollError(r)
  BY <1>2 DEF PollEof, PollError, AfterPoll
<1>3. CASE Resolve(r)
  BY <1>3 DEF Resolve, ResolveOk, ResolveErr, FuturePanics, frames
<1>4. CASE \E operation \in OptOperation : Call(r, operation) \/ CallPanics(r, operation)
  BY <1>4 DEF Call, CallPanics, frames
<1>5. CASE PollPanics(r) \/ AskEndStream(r) \/ Drop(r) \/ Supply(r)
  BY <1>5 DEF PollPanics, AskEndStream, Drop, DropFuture, DropResponse, Unwind, Supply, Produce,
              CloseBody, FailBody, Feed, frames
<1> QED  BY <1>1, <1>2, <1>3, <1>4, <1>5 DEF Step, PollReady

LEMMA PollDataFrames ==
    ASSUME IInv, NEW r \in Requests, PollData(r), received[r] = yielded[r]
    PROVE  FrameInv(r)'
<1>1. /\ TypeOK /\ GuardInv(r) /\ guard[r] \in TerminalState \cup {None}
      /\ yielded[r] \in Nat
  BY DEF IInv, TypeOK, RequestInv
<1>2. /\ yielded'[r] = yielded[r] + 1
      /\ received'[r] = IF phase'[r] = "responded" THEN received[r] + 1 ELSE received[r]
  BY <1>1 DEF PollData, HandOver, TypeOK
<1>3. CASE phase'[r] = "responded"
  BY <1>2, <1>3 DEF FrameInv
<1>4. CASE phase'[r] # "responded"
  <2>1. Finish(r, guard[r], "completed") /\ AfterPoll(r, guard[r])
    BY <1>1, <1>4 DEF PollData, Move, TypeOK
  <2>2. /\ "panics" \in Sinks(guard[r]) /\ phase'[r] = "unwinding" /\ r \in cut'
        /\ phase[r] = "responded"
    BY <1>1, <1>4, <2>1 DEF AfterPoll, Move, At, TypeOK
  <2>3. guard[r] # None
    BY <2>2 DEF Sinks
  <2>4. records[r] = <<>>
    BY <1>1, <2>2, <2>3 DEF GuardInv
  <2>5. records'[r] # <<>> /\ records'[r][1].outcome = "completed"
    BY <1>1, <2>1, <2>3, <2>4, FinishEffect DEF Outcomes
  <2> QED  BY <1>1, <1>2, <1>4, <2>2, <2>5 DEF FrameInv
<1> QED  BY <1>3, <1>4

LEMMA FrameStep ==
    ASSUME IInv, NEW r \in Requests, Step(r), NEW q \in Requests, FrameInv(q)
    PROVE  FrameInv(q)'
<1>1. TypeOK
  BY DEF IInv
<1>2. CASE q # r
  <2>1. /\ phase'[q] = phase[q] /\ records'[q] = records[q]
        /\ yielded'[q] = yielded[q] /\ received'[q] = received[q] /\ cut \subseteq cut'
    BY <1>1, <1>2, FramesMove, StepEffect
  <2> QED  BY <2>1 DEF FrameInv
<1>3. CASE q = r /\ received[r] = yielded[r]
  <2>1. CASE PollData(r)
    BY <1>3, <2>1, PollDataFrames
  <2>2. CASE UNCHANGED <<yielded, received>>
    BY <1>3, <2>2 DEF FrameInv
  <2> QED  BY <1>1, <2>1, <2>2, FramesMove
<1>4. CASE q = r /\ received[r] # yielded[r]
  <2>1. /\ received[r] + 1 = yielded[r]
        /\ r \in cut /\ phase[r] \in {"unwinding", "gone"}
        /\ records[r] # <<>> /\ records[r][1].outcome = "completed"
    BY <1>4 DEF FrameInv
  <2>2. ~PollData(r)
    BY <2>1 DEF PollData, AfterPoll, Move, At
  <2>3. phase'[r] = "gone"
    BY <1>1, <2>1, <2>2 DEF Step, PollReady, PollEof, PollError, PollPanics, AfterPoll, AskEndStream,
       Call, CallPanics, Resolve, ResolveOk, ResolveErr, FuturePanics, Supply, Produce, CloseBody,
       FailBody, Feed, Drop, DropFuture, DropResponse, Unwind, Move, At, TypeOK
  <2>4. records'[r] = records[r]
    BY <2>1, StepEffect DEF NotAccepted
  <2>5. UNCHANGED <<yielded, received>> /\ r \in cut'
    BY <1>1, <2>1, <2>2, FramesMove
  <2> QED  BY <1>4, <2>1, <2>3, <2>4, <2>5 DEF FrameInv
<1> QED  BY <1>2, <1>3, <1>4

\* A normal completion is only recorded of a body that has given every frame and
\* ended; each of them reached the server, but for the last one if the dispatch of
\* that record panicked.
THEOREM FramesAccountedFor == Spec => []CompletedAccountsForFrames
<1> DEFINE Inv == IInv /\ \A r \in Requests : FrameInv(r)
<1>1. Init => Inv
  BY InitInv DEF Init, FrameInv
<1>2. Inv /\ [Next]_vars => Inv'
  <2> SUFFICES ASSUME Inv, [Next]_vars PROVE Inv'
    OBVIOUS
  <2>1. IInv'
    BY NextInv
  <2>2. ASSUME NEW r \in Requests, Step(r), NEW q \in Requests PROVE FrameInv(q)'
    BY <2>2, FrameStep
  <2>3. ASSUME UNCHANGED vars, NEW q \in Requests PROVE FrameInv(q)'
    BY <2>3 DEF vars, frames, FrameInv
  <2> QED  BY <2>1, <2>2, <2>3 DEF Next, Stopped
<1>3. ASSUME Inv PROVE CompletedAccountsForFrames
  <2> SUFFICES ASSUME NEW r \in Requests
               PROVE  LET completed == \E i \in 1..Len(records[r]) :
                                           records[r][i].outcome = "completed"
                      IN  /\ completed => Ended(body[r])
                          /\ received[r] # yielded[r] =>
                                /\ received[r] + 1 = yielded[r]
                                /\ completed /\ r \in cut /\ phase[r] \in {"unwinding", "gone"}
    BY DEF CompletedAccountsForFrames
  <2>1. records[r] \in Seq(AccessRecord) /\ Len(records[r]) <= 1 /\ BodyInv(r) /\ FrameInv(r)
    BY <1>3 DEF IInv, TypeOK, RequestInv, GuardInv
  <2>2. ASSUME NEW i \in 1..Len(records[r]), records[r][i].outcome = "completed"
        PROVE  Ended(body[r])
    <3>1. i = 1 /\ records[r] # <<>>
      BY <2>1
    <3> QED  BY <2>1, <2>2, <3>1 DEF BodyInv
  <2>3. records[r] # <<>> => 1 \in 1..Len(records[r])
    BY <2>1
  <2> QED  BY <2>1, <2>2, <2>3 DEF FrameInv
<1> QED  BY <1>1, <1>2, <1>3, PTL DEF Spec
-----------------------------------------------------------------------------
(* The end of a body is exposed after its record                           *)

\* Bodies that answer is_end_stream() hold all their frames, so their end is
\* seen by the guard in the step that reaches it.
EofInv(r) ==
    /\ eofSeen[r] => guard[r] = None /\ phase[r] \notin {"idle", "refused", "running"}
    /\ body[r].hint => body[r].closed
    /\ phase[r] \in {"responded", "unwinding"} /\ IsEndStream(body[r]) => guard[r] = None

\* The part of a step that EofInv reads.
LEMMA EofFrame ==
    ASSUME TypeOK, NEW r \in Requests, Step(r), NEW q \in Requests, q # r
    PROVE  /\ phase'[q] = phase[q] /\ guard'[q] = guard[q]
           /\ body'[q] = body[q] /\ eofSeen'[q] = eofSeen[q]
<1>1. ASSUME NEW state, NEW outcome, Finish(r, state, outcome) PROVE guard'[q] = guard[q]
  BY <1>1 DEF Finish, TypeOK
<1>2. ASSUME NEW from, NEW to, Move(r, from, to) PROVE phase'[q] = phase[q]
  BY <1>2 DEF Move, TypeOK
<1>3. CASE \E operation \in OptOperation : Call(r, operation) \/ CallPanics(r, operation)
  BY <1>2, <1>3 DEF Call, CallPanics, TypeOK
<1>4. CASE Resolve(r)
  <2>1. CASE ResolveErr(r) \/ FuturePanics(r)
    BY <1>1, <1>2, <2>1 DEF ResolveErr, FuturePanics, DropUnwinding
  <2>2. ASSUME NEW head, NEW b, ResolveOk(r, head, b)
        PROVE  /\ phase'[q] = phase[q] /\ guard'[q] = guard[q]
               /\ body'[q] = body[q] /\ eofSeen'[q] = eofSeen[q]
    <3>1. body'[q] = body[q] /\ eofSeen'[q] = eofSeen[q]
      BY <2>2 DEF ResolveOk, TypeOK
    <3>2. phase'[q] = phase[q]
      BY <1>2, <2>2 DEF ResolveOk
    <3>3. guard'[q] = guard[q]
      BY <1>1, <2>2 DEF ResolveOk, TypeOK
    <3> QED  BY <3>1, <3>2, <3>3
  <2> QED  BY <1>4, <2>1, <2>2 DEF Resolve
<1>5. CASE PollData(r)
  BY <1>1, <1>2, <1>5 DEF PollData, AfterPoll, TypeOK
<1>6. CASE PollEof(r) \/ PollError(r)
  BY <1>1, <1>2, <1>6 DEF PollEof, PollError, AfterPoll, TypeOK
<1>7. CASE PollPanics(r) \/ AskEndStream(r)
  BY <1>2, <1>7 DEF PollPanics, AskEndStream, TypeOK
<1>8. CASE Drop(r)
  BY <1>1, <1>2, <1>8 DEF Drop, DropFuture, DropResponse, Unwind, DropOwned, DropUnwinding
<1>9. CASE Supply(r)
  BY <1>9 DEF Supply, Produce, CloseBody, FailBody, Feed, TypeOK
<1> QED  BY <1>3, <1>4, <1>5, <1>6, <1>7, <1>8, <1>9 DEF Step, PollReady

LEMMA EofStep ==
    ASSUME BodyKinds \subseteq {"full", "stream"}, IInv,
           NEW r \in Requests, EofInv(r), Step(r)
    PROVE  EofInv(r)'
<1>1. TypeOK /\ GuardInv(r) /\ body[r] \in Bodies
  BY DEF IInv, TypeOK, RequestInv
<1>2. ASSUME NEW state, NEW outcome, Finish(r, state, outcome) PROVE guard'[r] = None
  BY <1>1, <1>2 DEF Finish, TypeOK
<1>3. ASSUME NEW from, NEW to, Move(r, from, to) PROVE phase[r] = from /\ phase'[r] = to
  BY <1>1, <1>3 DEF Move, At, TypeOK
<1>4. CASE \E operation \in OptOperation : Call(r, operation) \/ CallPanics(r, operation)
  <2>1. PICK to \in {"running", "refused"} : Move(r, "idle", to) /\ UNCHANGED <<body, eofSeen>>
    BY <1>4 DEF Call, CallPanics
  <2>2. phase[r] = "idle" /\ phase'[r] = to
    BY <1>3, <2>1
  <2> QED  BY <2>1, <2>2 DEF EofInv
<1>5. CASE Resolve(r)
  <2>1. CASE ResolveErr(r) \/ FuturePanics(r)
    <3>1. PICK to \in {"failed", "gone"} : Move(r, "running", to)
      BY <2>1 DEF ResolveErr, FuturePanics
    <3>2. guard'[r] = None /\ UNCHANGED <<body, eofSeen>>
      BY <1>2, <2>1 DEF ResolveErr, FuturePanics, DropUnwinding
    <3>3. phase'[r] = to
      BY <1>3, <3>1
    <3> QED  BY <3>2, <3>3 DEF EofInv
  <2>2. ASSUME NEW head, NEW kind \in BodyKinds, NEW b \in NewBodies(kind), ResolveOk(r, head, b)
        PROVE  EofInv(r)'
    <3>1. body'[r] = b /\ UNCHANGED eofSeen /\ phase[r] = "running"
      BY <1>1, <2>2 DEF ResolveOk, At, TypeOK
    <3>2. b.hint => b.closed
      BY DEF NewBodies
    <3>3. IsEndStream(b) => guard'[r] = None
      BY <1>2, <2>2 DEF ResolveOk
    <3> QED  BY <3>1, <3>2, <3>3 DEF EofInv
  <2> QED  BY <1>5, <2>1, <2>2 DEF Resolve
<1>6. CASE PollData(r)
  <2>1. PICK to \in {"responded", "unwinding"} : Move(r, "responded", to)
    BY <1>6 DEF PollData, AfterPoll
  <2>2. phase[r] = "responded" /\ phase'[r] = to /\ UNCHANGED eofSeen
    BY <1>3, <1>6, <2>1 DEF PollData
  <2>3. body'[r].hint = body[r].hint /\ body'[r].closed = body[r].closed
    BY <1>1, <1>6 DEF PollData, TypeOK, Bodies
  <2>4. IsEndStream(body'[r]) => guard'[r] = None
    BY <1>2, <1>6 DEF PollData
  <2>5. guard[r] = None => guard'[r] = None
    BY <1>2, <1>6 DEF PollData
  <2> QED  BY <2>2, <2>3, <2>4, <2>5 DEF EofInv
<1>7. CASE PollEof(r) \/ PollError(r)
  <2>1. PICK to \in {"responded", "unwinding"} : Move(r, "responded", to)
    BY <1>7 DEF PollEof, PollError, AfterPoll
  <2>2. phase'[r] = to /\ guard'[r] = None
    BY <1>2, <1>3, <1>7, <2>1 DEF PollEof, PollError
  <2>3. body'[r].hint = body[r].hint /\ body'[r].closed = body[r].closed
    BY <1>1, <1>7 DEF PollEof, PollError, TypeOK, Bodies
  <2> QED  BY <2>2, <2>3 DEF EofInv
<1>8. CASE PollPanics(r)
  <2>1. phase[r] = "responded" /\ phase'[r] = "unwinding" /\ UNCHANGED <<guard, body, eofSeen>>
    BY <1>3, <1>8 DEF PollPanics
  <2> QED  BY <2>1 DEF EofInv
<1>9. CASE AskEndStream(r)
  BY <1>1, <1>9 DEF AskEndStream, At, EofInv, TypeOK
<1>10. CASE Drop(r)
  <2>1. PICK from : Move(r, from, "gone")
    BY <1>10 DEF Drop, DropFuture, DropResponse, Unwind
  <2>2. phase'[r] = "gone" /\ guard'[r] = None /\ UNCHANGED <<body, eofSeen>>
    BY <1>2, <1>3, <1>10, <2>1
       DEF Drop, DropFuture, DropResponse, Unwind, DropOwned, DropUnwinding
  <2> QED  BY <2>2 DEF EofInv
<1>11. CASE Supply(r)
  <2>1. ASSUME NEW b, Feed(r, b)
        PROVE  ~body[r].closed /\ body'[r] = b /\ UNCHANGED <<phase, guard, eofSeen>>
    BY <1>1, <2>1 DEF Feed, TypeOK
  <2>2. ~body[r].closed /\ UNCHANGED <<phase, guard, eofSeen>>
    BY <1>11, <2>1 DEF Supply, Produce, CloseBody, FailBody
  <2>3. body'[r].hint = body[r].hint
    <3>1. CASE Produce(r)
      <4>1. body'[r] = [body[r] EXCEPT !.left = @ - 1, !.ready = @ + 1]
        BY <2>1, <3>1 DEF Produce
      <4> QED  BY <1>1, <4>1 DEF Bodies
    <3>2. CASE CloseBody(r)
      <4>1. body'[r] = [body[r] EXCEPT !.closed = TRUE]
        BY <2>1, <3>2 DEF CloseBody
      <4> QED  BY <1>1, <4>1 DEF Bodies
    <3>3. CASE FailBody(r)
      <4>1. body'[r] = [body[r] EXCEPT !.closed = TRUE, !.failed = TRUE, !.left = 0]
        BY <2>1, <3>3 DEF FailBody
      <4> QED  BY <1>1, <4>1 DEF Bodies
    <3> QED  BY <1>11, <3>1, <3>2, <3>3 DEF Supply
  <2>4. ~body'[r].hint
    BY <2>2, <2>3 DEF EofInv
  <2> QED  BY <2>2, <2>4 DEF EofInv, IsEndStream
<1> QED  BY <1>4, <1>5, <1>6, <1>7, <1>8, <1>9, <1>10, <1>11 DEF Step, PollReady

\* When every body that answers is_end_stream() holds its frames itself, the
\* server never learns that a body is over before its record is dispatched.
\* With a concurrent producer this fails: see the run LifecycleEofRace.
THEOREM EofAfterRecord ==
    ASSUME BodyKinds \subseteq {"full", "stream"}
    PROVE  Spec => []EofExposedAfterRecord
<1> DEFINE Inv == IInv /\ \A r \in Requests : EofInv(r)
<1>1. Init => Inv
  <2>1. Init => \A r \in Requests : EofInv(r)
    <3> SUFFICES ASSUME Init, NEW r \in Requests PROVE EofInv(r)
      OBVIOUS
    <3>1. phase[r] = "idle" /\ ~eofSeen[r] /\ body[r] = EmptyBody
      BY DEF Init
    <3> QED  BY <3>1 DEF EofInv, EmptyBody
  <2> QED  BY <2>1, InitInv
<1>2. Inv /\ [Next]_vars => Inv'
  <2> SUFFICES ASSUME Inv, [Next]_vars PROVE Inv'
    OBVIOUS
  <2>1. IInv'
    BY NextInv
  <2>2. ASSUME NEW r \in Requests, Step(r), NEW q \in Requests PROVE EofInv(q)'
    <3>1. CASE q = r
      BY <2>2, <3>1, EofStep
    <3>2. CASE q # r
      <4>1. /\ phase'[q] = phase[q] /\ guard'[q] = guard[q]
            /\ body'[q] = body[q] /\ eofSeen'[q] = eofSeen[q]
        BY <2>2, <3>2, EofFrame DEF IInv
      <4> QED  BY <4>1 DEF EofInv, IsEndStream, Ended
    <3> QED  BY <3>1, <3>2
  <2>3. ASSUME UNCHANGED vars, NEW q \in Requests PROVE EofInv(q)'
    BY <2>3 DEF vars, EofInv, IsEndStream, Ended
  <2> QED  BY <2>1, <2>2, <2>3 DEF Next, Stopped
<1>3. Inv => EofExposedAfterRecord
  BY DEF EofInv, EofExposedAfterRecord
<1> QED  BY <1>1, <1>2, <1>3, PTL DEF Spec
=============================================================================
