--------------------------- MODULE AccessLogProofs ---------------------------
(***************************************************************************)
(* Proofs about AccessLog: what JsonLayer promises holds for workers that  *)
(* run requests, nested ones too; every request has one access record and  *)
(* one line of it; what became of each record can be told; and the process *)
(* is aborted only by two panics on one task, never by one record alone.   *)
(***************************************************************************)
EXTENDS AccessLog, FiniteSetTheorems, TLAPS

\* The invariants of JsonLayer, with their proofs.
P == INSTANCE JsonLayerProofs WITH Threads <- Workers

LEMMA EventsFinite == MaxEvents \in Nat
<1>1. Cardinality(Requests) \in Nat
  BY RequestsAssumption, FS_CardinalityType
<1>2. \A a, b \in Nat : (a + 1) * b \in Nat
  OBVIOUS
<1> QED  BY <1>1, <1>2, StepsAssumption DEF MaxEvents

LEMMA LayerAssumed ==
    /\ MaxEvents \in Nat /\ LineParts \in Nat \ {0}
    /\ Faults \subseteq P!FaultKinds
    /\ LogInternalErrors \in BOOLEAN
    /\ None \notin Workers
BY EventsFinite, LayerAssumption DEF P!FaultKinds

-----------------------------------------------------------------------------
(* AccessLog implements JsonLayer                                          *)

LEMMA SameStep ==
    ASSUME NEW t \in Workers
    PROVE  /\ Layer!Emit(t) => P!Emit(t)
           /\ Inside(t) => P!Step(t)
<1>1. Layer!Emit(t) => P!Emit(t)
  BY DEF Layer!Emit, P!Emit, Layer!Goto, P!Goto
<1>2. Write(t) => P!Step(t)
  BY DEF Write, P!Step, Layer!Goto, P!Goto, Layer!Event, P!Event,
         Layer!Format, P!Format, Layer!Acquire, P!Acquire, Layer!MakeWriter, P!MakeWriter,
         Layer!WritePart, P!WritePart, Layer!WriteError, P!WriteError, Layer!Leave, P!Leave
<1>3. Report(t) => P!Step(t)
  BY DEF Report, P!Step, Layer!Goto, P!Goto, Layer!Event, P!Event, Layer!Report, P!Report,
         Layer!ReportFormat, P!ReportFormat, Layer!ReportWrite, P!ReportWrite
<1>4. WriterPanics(t) => P!Step(t)
  BY DEF WriterPanics, P!Step, Layer!Goto, P!Goto, Layer!Event, P!Event,
         Layer!WriterPanics, P!WriterPanics
<1> QED  BY <1>1, <1>2, <1>3, <1>4 DEF Inside

LEMMA NextIsLayerNext == [Next]_vars => [P!Next]_P!vars
<1> SUFFICES ASSUME [Next]_vars PROVE [P!Next]_P!vars
  OBVIOUS
<1>1. ASSUME NEW t \in Workers, NEW r \in Requests, Log(t, r) \/ Finish(t, r)
      PROVE  [P!Next]_P!vars
  BY <1>1, SameStep DEF Log, Finish, P!Next, layer, P!vars
<1>2. ASSUME NEW t \in Workers, NEW r \in Requests,
             Call(t, r) \/ Return(t, r) \/ Poll(t, r) \/ Park(t, r) \/ LockStderr(t, r)
               \/ UnlockStderr(t, r) \/ HandlerPanics(t, r) \/ Recover(t, r) \/ End(t, r)
      PROVE  UNCHANGED P!vars
  BY <1>2 DEF Call, Return, Poll, Park, LockStderr, UnlockStderr, HandlerPanics, Recover, End,
              layer, P!vars
<1>3. ASSUME NEW t \in Workers, Inside(t) PROVE P!Next
  BY <1>3, SameStep DEF P!Next
<1>4. CASE UNCHANGED vars
  BY <1>4 DEF vars, layer, P!vars
<1> QED  BY <1>1, <1>2, <1>3, <1>4 DEF Next, Quiet

LEMMA InitIsLayerInit == Init => P!Init
BY DEF Init, Layer!Init, P!Init

\* Requests, panics and the lock of stderr only restrict when a worker emits an
\* event and when its on_event goes on.
THEOREM ImplementsJsonLayer == Spec => P!Spec
BY InitIsLayerInit, NextIsLayerNext, PTL DEF Spec, P!Spec
-----------------------------------------------------------------------------
(* The inductive invariant                                                 *)

Settled == written \cup diagnosed \cup muted \cup unwound

ServerTypes ==
    /\ job \in [Workers -> Seq(Requests)]
    /\ place \in [Requests -> Places]
    /\ task \in [Requests -> Requests \cup {None}]
    /\ armed \subseteq Requests
    /\ steps \in [Requests -> 0..MaxSteps]
    /\ unwinding \in [Workers -> BOOLEAN]
    /\ stderr \in Workers \cup {None}
    /\ source \in [Layer!Events -> Requests \cup {None}]
    /\ access \subseteq Layer!Events
    /\ filtered \subseteq Requests
    /\ faulty \subseteq Requests
    /\ aborted \in BOOLEAN

\* What the proof needs of JsonLayer's variables.
LayerFacts ==
    /\ pc \in [Workers -> Layer!Stages]
    /\ current \in [Workers -> Nat]
    /\ Settled \subseteq Layer!Events
    /\ \A e \in Settled : e[2] <= current[e[1]]
    /\ \A t \in Workers : pc[t] \in {"make", "write"} => Layer!Event(t) \notin Settled

\* A request is on one stack at most, once; a stack holds requests of one task, that
\* of the request at its end; only a worker with a stack is in on_event or unwound.
Stacks ==
    /\ \A t \in Workers : \A i \in 1..Len(job[t]) :
          /\ place[job[t][i]] \in {"calling", "on"}
          /\ task[job[t][i]] = task[job[t][1]]
    /\ \A t, u \in Workers : \A i \in 1..Len(job[t]), j \in 1..Len(job[u]) :
          job[t][i] = job[u][j] => t = u /\ i = j
    /\ \A t \in Workers : Len(job[t]) > 0 => task[job[t][Len(job[t])]] = job[t][Len(job[t])]
    /\ \A t \in Workers : pc[t] # "idle" \/ unwinding[t] => Len(job[t]) > 0
    /\ \A r \in Requests : task[r] = None <=> place[r] = "new"

\* Who emitted an event is known from its emission on; while it is under way its
\* request is the innermost on that worker, and has not its guard any more if the
\* event is its record; unwinding dispatches nothing but records.
Dispatching ==
    /\ \A e \in Layer!Events : source[e] # None <=> e[2] <= current[e[1]]
    /\ \A e \in Layer!Events : source[e] # None => place[source[e]] # "new"
    /\ \A e \in access : source[e] # None
    /\ \A t \in Workers :
          pc[t] # "idle" =>
              /\ Layer!Event(t) \in Layer!Events
              /\ source[Layer!Event(t)] = job[t][1]
              /\ Layer!Event(t) \in access => job[t][1] \notin armed
              /\ unwinding[t] => Layer!Event(t) \in access

\* What a request has, besides its guard, at any time: no record, a record, or one
\* that was filtered.
Guarded(r) ==
    /\ \A d, e \in access : source[d] = r /\ source[e] = r => d = e
    /\ r \in armed => place[r] \in {"parked", "on"}
    /\ ((\A e \in access : source[e] # r) /\ r \notin filtered)
          <=> (place[r] \in {"new", "calling", "refused"} \/ r \in armed)
    /\ r \in filtered => \A e \in access : source[e] # r
    /\ place[r] = "over" /\ LogInternalErrors =>
          r \in filtered \/ \E e \in access : source[e] = r /\ e \in Settled

\* A panic on the task of request k.
Cause(k) ==
    \/ \E r \in faulty : task[r] = k
    \/ \E d \in unwound : task[source[d]] = k

\* A worker is unwound by a panic on the task it runs.
Unwound ==
    /\ \A r \in faulty : place[r] # "new"
    /\ \A t \in Workers : unwinding[t] => Cause(task[job[t][1]])
    /\ AbortTakesTwoPanics

Server ==
    /\ ServerTypes /\ Stacks /\ Dispatching /\ Unwound
    /\ \A r \in Requests : Guarded(r)

IInv == P!IInv /\ P!Outcomes /\ Server

LEMMA LayerFactsHold == P!IInv /\ P!Outcomes => LayerFacts
<1> SUFFICES ASSUME P!IInv, P!Outcomes PROVE LayerFacts
  OBVIOUS
<1>1. Settled \subseteq Layer!Events /\ \A e \in Settled : e[2] <= current[e[1]]
  BY DEF P!IInv, P!TypeOK, P!Outcomes, P!SettledWereEmitted, P!Settled, Settled,
         P!Events, Layer!Events
<1>2. pc \in [Workers -> Layer!Stages] /\ current \in [Workers -> Nat]
  BY EventsFinite DEF P!IInv, P!TypeOK, P!Stages, Layer!Stages
<1>3. \A t \in Workers : pc[t] \in {"make", "write"} => Layer!Event(t) \notin Settled
  BY DEF P!Outcomes, P!Undecided, P!Settled, Settled, P!Event, Layer!Event
<1> QED  BY <1>1, <1>2, <1>3 DEF LayerFacts

LEMMA InitServer == Init => Server
<1> SUFFICES ASSUME Init PROVE Server
  OBVIOUS
<1>1. 0 \in 0..MaxSteps /\ MaxSteps \in 0..MaxSteps /\ <<>> \in Seq(Requests)
  BY StepsAssumption
<1>2. ServerTypes
  BY <1>1 DEF Init, ServerTypes, Places
<1>3. Stacks
  BY DEF Init, Layer!Init, Stacks
<1>4. Dispatching
  <2>1. \A e \in Layer!Events : e[1] \in Workers /\ e[2] \in Nat \ {0}
    BY DEF Layer!Events
  <2> QED  BY <2>1 DEF Init, Layer!Init, Dispatching
<1>5. Unwound /\ \A r \in Requests : Guarded(r)
  BY DEF Init, Layer!Init, Unwound, AbortTakesTwoPanics, Guarded
<1> QED  BY <1>2, <1>3, <1>4, <1>5 DEF Server

-----------------------------------------------------------------------------
(* Stacks                                                                  *)

LEMMA PushFacts ==
    ASSUME NEW S, NEW s \in Seq(S), NEW r \in S, NEW p, p = <<r>> \o s
    PROVE  /\ p \in Seq(S) /\ Len(p) = Len(s) + 1 /\ Len(s) \in Nat
           /\ p[1] = r
           /\ \A i \in 1..Len(p) : i = 1 \/ (i - 1 \in 1..Len(s) /\ p[i] = s[i - 1])
OBVIOUS

LEMMA PopFacts ==
    ASSUME NEW S, NEW s \in Seq(S), s # <<>>, NEW p, p = Tail(s)
    PROVE  /\ p \in Seq(S) /\ Len(s) = Len(p) + 1 /\ Len(p) \in Nat
           /\ s[1] = Head(s) /\ s[1] \in S
           /\ \A i \in 1..Len(p) : i + 1 \in 1..Len(s) /\ p[i] = s[i + 1]
OBVIOUS

\* The innermost request of a worker.
LEMMA TopFacts ==
    ASSUME ServerTypes, NEW t \in Workers, job[t] # <<>>
    PROVE  Len(job[t]) \in Nat /\ Len(job[t]) > 0 /\ Head(job[t]) = job[t][1]
           /\ job[t][1] \in Requests
<1>1. job[t] \in Seq(Requests)
  BY DEF ServerTypes
<1> QED  BY <1>1

\* Two places on the stacks hold two requests.
LEMMA Distinct ==
    ASSUME Stacks, NEW u \in Workers, NEW v \in Workers, NEW a \in 1..Len(job[u]),
           NEW b \in 1..Len(job[v]), job[u][a] = job[v][b]
    PROVE  u = v /\ a = b
BY DEF Stacks

\* A request that was on no stack goes on top of one.
LEMMA PushStep ==
    ASSUME ServerTypes, Stacks, NEW t \in Workers, NEW r \in Requests,
           place[r] \in {"new", "parked"}, Push(t, r),
           NEW p \in {"calling", "on"}, Move(r, p), UNCHANGED <<pc, unwinding>>,
           task' \in [Requests -> Requests \cup {None}],
           \A q \in Requests : q # r => task'[q] = task[q],
           task'[r] # None,
           job[t] = <<>> => task'[r] = r,
           job[t] # <<>> => task'[r] = task[job[t][1]]
    PROVE  /\ Stacks'
           /\ job' \in [Workers -> Seq(Requests)]
           /\ job'[t][1] = r /\ \A u \in Workers : u # t => job'[u] = job[u]
<1>1. /\ job'[t] = <<r>> \o job[t] /\ job[t] \in Seq(Requests)
      /\ \A u \in Workers : u # t => job'[u] = job[u]
  BY DEF ServerTypes, Push
<1>2. /\ job'[t] \in Seq(Requests) /\ Len(job'[t]) = Len(job[t]) + 1 /\ Len(job[t]) \in Nat
      /\ job'[t][1] = r
      /\ \A i \in 1..Len(job'[t]) :
            i = 1 \/ (i - 1 \in 1..Len(job[t]) /\ job'[t][i] = job[t][i - 1])
  BY <1>1, PushFacts
<1>3. place'[r] = p /\ \A q \in Requests : q # r => place'[q] = place[q]
  BY DEF ServerTypes, Move
<1>4. \A u \in Workers : /\ job[u] \in Seq(Requests) /\ Len(job[u]) \in Nat
                         /\ \A i \in 1..Len(job[u]) : job[u][i] \in Requests
  BY DEF ServerTypes
<1>5. \A u \in Workers : \A i \in 1..Len(job[u]) :
         /\ job[u][i] # r /\ place[job[u][i]] \in {"calling", "on"}
         /\ task[job[u][i]] = task[job[u][1]]
  BY DEF Stacks
<1>6. \A u \in Workers : \A i \in 1..Len(job[u]) :
         place'[job[u][i]] \in {"calling", "on"} /\ task'[job[u][i]] = task[job[u][1]]
  BY <1>3, <1>4, <1>5
<1>7. job' \in [Workers -> Seq(Requests)]
  BY <1>1, <1>2 DEF ServerTypes, Push
<1>8. ASSUME NEW u \in Workers, NEW i \in 1..Len(job'[u])
      PROVE  place'[job'[u][i]] \in {"calling", "on"} /\ task'[job'[u][i]] = task'[job'[u][1]]
  <2>1. CASE u # t
    <3>1. job'[u] = job[u] /\ 1 \in 1..Len(job[u])
      BY <1>1, <1>4, <1>8, <2>1
    <3> QED  BY <1>6, <1>8, <3>1
  <2>2. CASE u = t
    <3>1. CASE i = 1
      BY <1>2, <1>3, <2>2, <3>1
    <3>2. CASE i # 1
      <4>1. i - 1 \in 1..Len(job[t]) /\ job'[t][i] = job[t][i - 1]
        BY <1>2, <1>8, <2>2, <3>2
      <4>2. job[t] # <<>>
        BY <4>1
      <4> QED  BY <1>2, <1>6, <2>2, <4>1, <4>2
    <3> QED  BY <3>1, <3>2
  <2> QED  BY <2>1, <2>2
<1>9. ASSUME NEW u \in Workers, NEW v \in Workers, NEW i \in 1..Len(job'[u]),
             NEW j \in 1..Len(job'[v]), job'[u][i] = job'[v][j]
      PROVE  u = v /\ i = j
  <2> DEFINE old(w, k) == IF w = t THEN k - 1 ELSE k
  <2>1. ASSUME NEW w \in Workers, NEW k \in 1..Len(job'[w])
        PROVE  \/ w = t /\ k = 1 /\ job'[w][k] = r
               \/ old(w, k) \in 1..Len(job[w]) /\ job'[w][k] = job[w][old(w, k)]
    BY <1>1, <1>2, <2>1
  <2>2. CASE u = t /\ i = 1
    BY <1>2, <1>5, <1>9, <2>1, <2>2
  <2>3. CASE v = t /\ j = 1
    BY <1>2, <1>5, <1>9, <2>1, <2>3
  <2>4. CASE ~(u = t /\ i = 1) /\ ~(v = t /\ j = 1)
    <3>1. PICK a \in 1..Len(job[u]) : a = old(u, i) /\ job'[u][i] = job[u][a]
      BY <2>1, <2>4
    <3>2. PICK b \in 1..Len(job[v]) : b = old(v, j) /\ job'[v][j] = job[v][b]
      BY <2>1, <2>4
    <3> HIDE DEF old
    <3>3. job[u][a] = job[v][b]
      BY <1>9, <3>1, <3>2
    <3>4. u = v /\ a = b
      BY <3>3, Distinct
    <3> USE DEF old
    <3> QED  BY <1>1, <1>2, <1>4, <1>9, <3>1, <3>2, <3>4
  <2> QED  BY <2>2, <2>3, <2>4
<1>10. ASSUME NEW u \in Workers, Len(job'[u]) > 0
       PROVE  task'[job'[u][Len(job'[u])]] = job'[u][Len(job'[u])]
  <2>1. CASE u # t
    BY <1>1, <1>4, <1>5, <1>10, <2>1 DEF Stacks
  <2>2. CASE u = t /\ job[t] = <<>>
    BY <1>2, <2>2
  <2>3. CASE u = t /\ job[t] # <<>>
    <3>1. Len(job[t]) > 0 /\ Len(job[t]) \in 1..Len(job[t])
      BY <1>4, <2>3
    <3>2. job'[t][Len(job'[t])] = job[t][Len(job[t])]
      BY <1>2, <3>1
    <3> QED  BY <1>4, <1>5, <2>3, <3>1, <3>2 DEF Stacks
  <2> QED  BY <2>1, <2>2, <2>3
<1>11. \A u \in Workers : pc'[u] # "idle" \/ unwinding'[u] => Len(job'[u]) > 0
  BY <1>1, <1>2 DEF Stacks
<1>12. \A q \in Requests : task'[q] = None <=> place'[q] = "new"
  BY <1>3 DEF Stacks
<1> QED  BY <1>1, <1>2, <1>7, <1>8, <1>9, <1>10, <1>11, <1>12 DEF Stacks

\* The innermost request of a worker outside on_event leaves its stack.
LEMMA PopStep ==
    ASSUME ServerTypes, Stacks, NEW t \in Workers, NEW r \in Requests,
           job[t] # <<>>, r = Head(job[t]), pc[t] = "idle",
           Pop(t), NEW p \in {"parked", "over", "refused"}, Move(r, p), UNCHANGED <<pc, task>>,
           \A u \in Workers : u # t => unwinding'[u] = unwinding[u],
           unwinding'[t] => task[r] # r
    PROVE  /\ Stacks'
           /\ job' \in [Workers -> Seq(Requests)]
           /\ place[r] \in {"calling", "on"} /\ r = job[t][1]
           /\ \A u \in Workers : u # t => job'[u] = job[u]
           /\ unwinding'[t] => task[job'[t][1]] = task[job[t][1]]
<1>1. /\ job'[t] = Tail(job[t]) /\ job[t] \in Seq(Requests)
      /\ \A u \in Workers : u # t => job'[u] = job[u]
  BY DEF ServerTypes, Pop
<1>2. /\ job'[t] \in Seq(Requests) /\ Len(job[t]) = Len(job'[t]) + 1 /\ Len(job'[t]) \in Nat
      /\ job[t][1] = r
      /\ \A i \in 1..Len(job'[t]) : i + 1 \in 1..Len(job[t]) /\ job'[t][i] = job[t][i + 1]
  BY <1>1, PopFacts
<1>3. place'[r] = p /\ \A q \in Requests : q # r => place'[q] = place[q]
  BY DEF ServerTypes, Move
<1>4. \A u \in Workers : /\ job[u] \in Seq(Requests) /\ Len(job[u]) \in Nat
                         /\ \A i \in 1..Len(job[u]) : job[u][i] \in Requests
  BY DEF ServerTypes
<1>5. 1 \in 1..Len(job[t]) /\ place[r] \in {"calling", "on"}
  BY <1>2 DEF Stacks
<1> DEFINE old(w, k) == IF w = t THEN k + 1 ELSE k
<1>6. ASSUME NEW w \in Workers, NEW k \in 1..Len(job'[w])
      PROVE  /\ old(w, k) \in 1..Len(job[w]) /\ job'[w][k] = job[w][old(w, k)]
             /\ job'[w][k] \in Requests /\ job'[w][k] # r
  <2>1. old(w, k) \in 1..Len(job[w]) /\ job'[w][k] = job[w][old(w, k)]
    BY <1>1, <1>2, <1>6
  <2>2. w # t \/ old(w, k) # 1
    BY <1>2, <1>6
  <2> QED  BY <1>2, <1>4, <1>5, <2>1, <2>2 DEF Stacks
<1>7. ASSUME NEW u \in Workers, NEW i \in 1..Len(job'[u])
      PROVE  /\ place'[job'[u][i]] \in {"calling", "on"}
             /\ task[job'[u][i]] = task[job[u][1]]
  <2>1. place'[job'[u][i]] = place[job'[u][i]]
    BY <1>3, <1>6
  <2> QED  BY <1>6, <2>1 DEF Stacks
<1>8. \A u \in Workers : \A i \in 1..Len(job'[u]) : task'[job'[u][i]] = task'[job'[u][1]]
  <2> SUFFICES ASSUME NEW u \in Workers, NEW i \in 1..Len(job'[u])
               PROVE  task[job'[u][i]] = task[job'[u][1]]
    OBVIOUS
  <2>1. Len(job'[u]) \in Nat
    BY <1>1, <1>2, <1>4
  <2>2. 1 \in 1..Len(job'[u])
    BY <2>1
  <2> QED  BY <1>7, <2>2
<1>9. ASSUME NEW u \in Workers, NEW v \in Workers, NEW i \in 1..Len(job'[u]),
             NEW j \in 1..Len(job'[v]), job'[u][i] = job'[v][j]
      PROVE  u = v /\ i = j
  <2>1. PICK a \in 1..Len(job[u]) : a = old(u, i) /\ job'[u][i] = job[u][a]
    BY <1>6
  <2>2. PICK b \in 1..Len(job[v]) : b = old(v, j) /\ job'[v][j] = job[v][b]
    BY <1>6
  <2> HIDE DEF old
  <2>3. job[u][a] = job[v][b]
    BY <1>9, <2>1, <2>2
  <2>4. u = v /\ a = b
    BY <2>3, Distinct
  <2> USE DEF old
  <2> QED  BY <1>1, <1>2, <1>4, <1>9, <2>1, <2>2, <2>4
<1>10. ASSUME NEW u \in Workers, Len(job'[u]) > 0
       PROVE  task'[job'[u][Len(job'[u])]] = job'[u][Len(job'[u])]
  <2>1. Len(job[u]) > 0 /\ job'[u][Len(job'[u])] = job[u][Len(job[u])]
    <3>1. CASE u # t
      BY <1>1, <1>10, <3>1
    <3>2. CASE u = t
      <4>1. Len(job'[t]) \in 1..Len(job'[t]) /\ Len(job[t]) = Len(job'[t]) + 1
        BY <1>2, <1>10, <3>2
      <4>2. job'[t][Len(job'[t])] = job[t][Len(job'[t]) + 1]
        BY <1>2, <4>1
      <4> QED  BY <1>2, <3>2, <4>1, <4>2
    <3> QED  BY <3>1, <3>2
  <2> QED  BY <2>1 DEF Stacks
<1>11. unwinding'[t] => Len(job'[t]) > 0
  <2> SUFFICES ASSUME Len(job'[t]) = 0 PROVE task[r] = r
    BY <1>2
  <2>1. Len(job[t]) = 1
    BY <1>2
  <2> QED  BY <1>2, <2>1 DEF Stacks
<1>12. \A u \in Workers : pc'[u] # "idle" \/ unwinding'[u] => Len(job'[u]) > 0
  BY <1>1, <1>11 DEF Stacks
<1>13. \A q \in Requests : task'[q] = None <=> place'[q] = "new"
  BY <1>3, <1>5 DEF Stacks
<1>14. unwinding'[t] => task[job'[t][1]] = task[job[t][1]]
  <2> SUFFICES ASSUME unwinding'[t] PROVE task[job'[t][1]] = task[job[t][1]]
    OBVIOUS
  <2>1. 1 \in 1..Len(job'[t])
    BY <1>2, <1>11
  <2> QED  BY <1>7, <2>1
<1>15. job' \in [Workers -> Seq(Requests)]
  BY <1>1, <1>2 DEF ServerTypes, Pop
<1> HIDE DEF old
<1>16. Stacks'
  BY <1>7, <1>8, <1>9, <1>10, <1>12, <1>13 DEF Stacks
<1> QED  BY <1>1, <1>2, <1>5, <1>14, <1>15, <1>16

\* A panic on a task stays one.
LEMMA CauseStays ==
    ASSUME ServerTypes, LayerFacts, Stacks, Dispatching, Unwound,
           faulty \subseteq faulty', unwound \subseteq unwound',
           \A r \in Requests : place[r] # "new" => task'[r] = task[r],
           \A e \in Settled : source'[e] = source[e],
           NEW k, Cause(k)
    PROVE  Cause(k)'
<1>1. ASSUME NEW r \in faulty, task[r] = k PROVE Cause(k)'
  <2>1. r \in faulty' /\ task'[r] = k
    BY <1>1 DEF Unwound, ServerTypes
  <2> QED  BY <2>1 DEF Cause
<1>2. ASSUME NEW d \in unwound, task[source[d]] = k PROVE Cause(k)'
  <2>1. d \in Settled /\ d \in Layer!Events /\ source[d] # None /\ source'[d] = source[d]
    BY <1>2 DEF Settled, LayerFacts, Dispatching
  <2>2. source[d] \in Requests /\ place[source[d]] # "new"
    BY <2>1 DEF Dispatching, ServerTypes
  <2>3. d \in unwound' /\ task'[source'[d]] = k
    BY <1>2, <2>1, <2>2
  <2> QED  BY <2>3 DEF Cause
<1> QED  BY <1>1, <1>2 DEF Cause

-----------------------------------------------------------------------------
(* Steps of a request                                                      *)

\* A step that only moves requests between the stacks and their owners.
LEMMA MoveStep ==
    ASSUME LayerFacts, Server, NEW t \in Workers, pc[t] = "idle", ~aborted,
           UNCHANGED <<layer, events, faulty, aborted>>,
           \A q \in Requests : place[q] # "new" => place'[q] # "new" /\ task'[q] = task[q],
           \A u \in Workers : u # t => job'[u] = job[u] /\ unwinding'[u] = unwinding[u],
           unwinding'[t] => unwinding[t] /\ task'[job'[t][1]] = task[job[t][1]],
           \A u \in Workers :
              u # t /\ Len(job[u]) > 0 /\ job[u][1] \in armed' => job[u][1] \in armed
    PROVE  Dispatching' /\ Unwound'
<1>1. /\ ServerTypes /\ Stacks /\ Dispatching /\ Unwound
      /\ UNCHANGED <<pc, current, written, diagnosed, muted, unwound, source, access, filtered>>
  BY DEF Server, layer, events
<1>2. \A u \in Workers : pc[u] # "idle" => u # t /\ Len(job[u]) > 0
  BY <1>1 DEF Stacks
<1>3. \A e \in Layer!Events : source[e] # None => source[e] \in Requests
  BY <1>1 DEF ServerTypes
<1>4. Dispatching'
  <2>1. \A e \in Layer!Events : source'[e] # None => place'[source'[e]] # "new"
    BY <1>1, <1>3 DEF Dispatching
  <2>2. ASSUME NEW u \in Workers, pc'[u] # "idle"
        PROVE  /\ Layer!Event(u)' \in Layer!Events
               /\ source'[Layer!Event(u)'] = job'[u][1]
               /\ Layer!Event(u)' \in access' => job'[u][1] \notin armed'
               /\ unwinding'[u] => Layer!Event(u)' \in access'
    <3>1. pc[u] # "idle" /\ u # t /\ Len(job[u]) > 0 /\ Layer!Event(u)' = Layer!Event(u)
      BY <1>1, <1>2, <2>2 DEF Layer!Event
    <3>2. job'[u] = job[u] /\ unwinding'[u] = unwinding[u]
      BY <3>1
    <3> QED  BY <1>1, <3>1, <3>2 DEF Dispatching
  <2> QED  BY <1>1, <2>1, <2>2 DEF Dispatching
<1>5. Unwound'
  <2>1. \A r \in faulty' : place'[r] # "new"
    BY <1>1 DEF Unwound, ServerTypes
  <2>2. ASSUME NEW u \in Workers, unwinding'[u] PROVE Cause(task[job[u][1]])'
    <3>1. unwinding[u] /\ task'[job'[u][1]] = task[job[u][1]]
      <4>1. CASE u = t
        BY <2>2, <4>1
      <4>2. CASE u # t
        <5>1. job'[u] = job[u] /\ unwinding[u]
          BY <2>2, <4>2
        <5>2. Len(job[u]) > 0 /\ job[u] \in Seq(Requests)
          BY <1>1, <5>1 DEF Stacks, ServerTypes
        <5>3. 1 \in 1..Len(job[u]) /\ job[u][1] \in Requests
          BY <5>2
        <5>4. place[job[u][1]] # "new"
          BY <1>1, <5>3 DEF Stacks
        <5> QED  BY <5>1, <5>3, <5>4
      <4> QED  BY <4>1, <4>2
    <3>2. PICK k : k = task[job[u][1]]
      OBVIOUS
    <3>3. Cause(k)
      BY <1>1, <3>1, <3>2 DEF Unwound
    <3>4. faulty \subseteq faulty' /\ unwound \subseteq unwound'
      BY <1>1
    <3>5. \A e \in Settled : source'[e] = source[e]
      BY <1>1
    <3>6. Cause(k)'
      BY <1>1, <3>3, <3>4, <3>5, CauseStays
    <3> QED  BY <3>1, <3>2, <3>6 DEF Cause
  <2>3. AbortTakesTwoPanics'
    BY DEF AbortTakesTwoPanics
  <2> QED  BY <2>1, <2>2, <2>3 DEF Unwound
<1> QED  BY <1>4, <1>5

LEMMA CallStep ==
    ASSUME LayerFacts, Server, NEW t \in Workers, NEW r \in Requests, Call(t, r)
    PROVE  Server'
<1>1. /\ ServerTypes /\ Stacks /\ Dispatching /\ Unwound /\ \A q \in Requests : Guarded(q)
      /\ UNCHANGED <<layer, armed, steps, unwinding, stderr, events, faulty, aborted>>
      /\ ~aborted /\ place[r] = "new" /\ Push(t, r) /\ Move(r, "calling")
  BY DEF Server, Call
<1>2. /\ task'[r] # None /\ task' \in [Requests -> Requests \cup {None}]
      /\ \A q \in Requests : q # r => task'[q] = task[q]
      /\ job[t] = <<>> => task'[r] = r
      /\ job[t] # <<>> => task'[r] = task[job[t][1]]
      /\ pc[t] = "idle" /\ ~unwinding[t]
  <2>1. CASE job[t] = <<>> /\ task' = [task EXCEPT ![r] = r]
    BY <1>1, <2>1, RequestsAssumption DEF ServerTypes, Stacks
  <2>2. ASSUME NEW caller \in Requests, Runs(t, caller), ~unwinding[t],
               task' = [task EXCEPT ![r] = task[caller]]
        PROVE  <1>2!1 /\ <1>2!2 /\ <1>2!3 /\ <1>2!4 /\ <1>2!5
    <3>1. job[t] # <<>> /\ pc[t] = "idle" /\ caller = job[t][1] /\ Len(job[t]) \in Nat
          /\ Len(job[t]) > 0
      BY <1>1, <2>2, TopFacts DEF Runs
    <3>2. place[caller] # "new"
      BY <1>1, <3>1 DEF Stacks
    <3>3. task[caller] # None /\ task[caller] \in Requests
      BY <1>1, <3>2 DEF Stacks, ServerTypes
    <3> QED  BY <1>1, <2>2, <3>1, <3>3 DEF ServerTypes
  <2> QED  BY <2>1, <2>2 DEF Call
<1>3. /\ Stacks' /\ job' \in [Workers -> Seq(Requests)]
      /\ \A u \in Workers : u # t => job'[u] = job[u]
  <2>1. UNCHANGED <<pc, unwinding>>
    BY <1>1 DEF layer
  <2> QED  BY <1>1, <1>2, <2>1, PushStep
<1>4. place'[r] = "calling" /\ \A q \in Requests : q # r => place'[q] = place[q]
  BY <1>1 DEF ServerTypes, Move
<1>5. ServerTypes'
  BY <1>1, <1>2, <1>3 DEF ServerTypes, Move, Places, events
<1>6. Dispatching' /\ Unwound'
  BY <1>1, <1>2, <1>3, <1>4, MoveStep
<1>7. ASSUME NEW q \in Requests PROVE Guarded(q)'
  <2>1. CASE q = r
    BY <1>1, <1>4, <2>1 DEF Guarded, layer, events
  <2>2. CASE q # r
    BY <1>1, <1>4, <2>2 DEF Guarded, layer, events, Settled
  <2> QED  BY <2>1, <2>2
<1> QED  BY <1>3, <1>5, <1>6, <1>7 DEF Server

LEMMA PollStep ==
    ASSUME LayerFacts, Server, NEW t \in Workers, NEW r \in Requests, Poll(t, r)
    PROVE  Server'
<1>1. /\ ServerTypes /\ Stacks /\ Dispatching /\ Unwound /\ \A q \in Requests : Guarded(q)
      /\ UNCHANGED <<layer, task, armed, steps, unwinding, stderr, events, faulty, aborted>>
      /\ ~aborted /\ place[r] = "parked" /\ Push(t, r) /\ Move(r, "on")
  BY DEF Server, Poll
<1>2. /\ task[r] # None /\ pc[t] = "idle"
      /\ job[t] = <<>> => task[r] = r /\ ~unwinding[t]
      /\ job[t] # <<>> => task[r] = task[job[t][1]]
  <2>1. task[r] # None
    BY <1>1 DEF Stacks
  <2>2. CASE job[t] = <<>> /\ task[r] = r
    BY <1>1, <2>1, <2>2 DEF Stacks
  <2>3. ASSUME NEW caller \in Requests, Runs(t, caller), task[caller] = task[r]
        PROVE  pc[t] = "idle" /\ job[t] # <<>> /\ task[r] = task[job[t][1]]
    BY <1>1, <2>3, TopFacts DEF Runs
  <2> QED  BY <2>1, <2>2, <2>3 DEF Poll
<1>3. /\ Stacks' /\ job' \in [Workers -> Seq(Requests)]
      /\ job'[t][1] = r /\ \A u \in Workers : u # t => job'[u] = job[u]
  <2>1. UNCHANGED <<pc, unwinding>> /\ task' \in [Requests -> Requests \cup {None}]
    BY <1>1 DEF layer, ServerTypes
  <2> QED  BY <1>1, <1>2, <2>1, PushStep
<1>4. place'[r] = "on" /\ \A q \in Requests : q # r => place'[q] = place[q]
  BY <1>1 DEF ServerTypes, Move
<1>5. ServerTypes'
  BY <1>1, <1>3 DEF ServerTypes, Move, Places, events
<1>6. Dispatching' /\ Unwound'
  BY <1>1, <1>2, <1>3, <1>4, MoveStep
<1>7. ASSUME NEW q \in Requests PROVE Guarded(q)'
  <2>1. CASE q = r
    BY <1>1, <1>4, <2>1 DEF Guarded, layer, events
  <2>2. CASE q # r
    BY <1>1, <1>4, <2>2 DEF Guarded, layer, events, Settled
  <2> QED  BY <2>1, <2>2
<1> QED  BY <1>3, <1>5, <1>6, <1>7 DEF Server

\* What Return, Park and End have in common: the innermost request leaves.
LEMMA LeaveStep ==
    ASSUME LayerFacts, Server, NEW t \in Workers, NEW r \in Requests, Runs(t, r),
           Pop(t), NEW p \in {"parked", "over", "refused"}, Move(r, p),
           UNCHANGED <<layer, task, events, faulty, aborted>>,
           \A u \in Workers : u # t => unwinding'[u] = unwinding[u],
           unwinding'[t] => unwinding[t] /\ task[r] # r,
           \A q \in Requests : q # r => (q \in armed' <=> q \in armed)
    PROVE  /\ Stacks' /\ Dispatching' /\ Unwound'
           /\ job' \in [Workers -> Seq(Requests)]
           /\ place[r] \in {"calling", "on"} /\ place'[r] = p /\ r = job[t][1]
           /\ \A q \in Requests : q # r => Guarded(q)'
<1>1. /\ ServerTypes /\ Stacks /\ Dispatching /\ Unwound /\ \A q \in Requests : Guarded(q)
      /\ ~aborted /\ job[t] # <<>> /\ r = Head(job[t]) /\ pc[t] = "idle"
  BY DEF Server, Runs
<1>2. /\ Stacks' /\ job' \in [Workers -> Seq(Requests)]
      /\ place[r] \in {"calling", "on"} /\ r = job[t][1]
      /\ \A u \in Workers : u # t => job'[u] = job[u]
      /\ unwinding'[t] => task[job'[t][1]] = task[job[t][1]]
  <2>1. UNCHANGED <<pc, task>>
    BY DEF layer
  <2> QED  BY <1>1, <2>1, PopStep
<1>3. place'[r] = p /\ \A q \in Requests : q # r => place'[q] = place[q]
  BY <1>1 DEF ServerTypes, Move
<1>4. \A u \in Workers :
         u # t /\ Len(job[u]) > 0 /\ job[u][1] \in armed' => job[u][1] \in armed
  <2> SUFFICES ASSUME NEW u \in Workers, u # t, Len(job[u]) > 0, job[u][1] \in armed'
               PROVE  job[u][1] \in armed
    OBVIOUS
  <2>1. job[u] \in Seq(Requests) /\ job[t] \in Seq(Requests)
    BY <1>1 DEF ServerTypes
  <2>2. 1 \in 1..Len(job[u]) /\ 1 \in 1..Len(job[t]) /\ job[u][1] \in Requests
    BY <1>1, <2>1
  <2>3. job[u][1] # r
    BY <1>1, <1>2, <2>2, Distinct
  <2> QED  BY <2>2, <2>3
<1>5. \A q \in Requests : place[q] # "new" => place'[q] # "new" /\ task'[q] = task[q]
  BY <1>3
<1>6. unwinding'[t] => unwinding[t] /\ task'[job'[t][1]] = task[job[t][1]]
  BY <1>2
<1>7. Dispatching' /\ Unwound'
  BY <1>1, <1>2, <1>4, <1>5, <1>6, MoveStep
<1>8. ASSUME NEW q \in Requests, q # r PROVE Guarded(q)'
  BY <1>1, <1>3, <1>8 DEF Guarded, layer, events, Settled
<1> QED  BY <1>2, <1>3, <1>7, <1>8

LEMMA ReturnStep ==
    ASSUME LayerFacts, Server, NEW t \in Workers, NEW r \in Requests, Return(t, r)
    PROVE  Server'
<1>1. /\ ServerTypes /\ Guarded(r)
      /\ UNCHANGED <<layer, task, steps, unwinding, stderr, events, faulty, aborted>>
      /\ Runs(t, r) /\ ~unwinding[t] /\ Pop(t) /\ Move(r, "parked")
      /\ place[r] = "calling" /\ armed' = armed \cup {r}
  BY DEF Server, Return
<1>2. /\ Stacks' /\ Dispatching' /\ Unwound'
      /\ job' \in [Workers -> Seq(Requests)] /\ place'[r] = "parked"
      /\ \A q \in Requests : q # r => Guarded(q)'
  BY <1>1, LeaveStep
<1>3. ServerTypes'
  BY <1>1, <1>2 DEF ServerTypes, Move, Places, events
<1>4. Guarded(r)'
  BY <1>1, <1>2 DEF Guarded, layer, events
<1> QED  BY <1>2, <1>3, <1>4 DEF Server

LEMMA ParkStep ==
    ASSUME LayerFacts, Server, NEW t \in Workers, NEW r \in Requests, Park(t, r)
    PROVE  Server'
<1>1. /\ ServerTypes /\ Guarded(r)
      /\ UNCHANGED <<layer, task, armed, unwinding, stderr, events, faulty, aborted>>
      /\ Runs(t, r) /\ ~unwinding[t] /\ Pop(t) /\ Move(r, "parked") /\ place[r] = "on"
      /\ steps[r] > 0 /\ steps' = [steps EXCEPT ![r] = @ - 1]
  BY DEF Server, Park, HandlerStep
<1>2. /\ Stacks' /\ Dispatching' /\ Unwound'
      /\ job' \in [Workers -> Seq(Requests)] /\ place'[r] = "parked"
      /\ \A q \in Requests : q # r => Guarded(q)'
  BY <1>1, LeaveStep
<1>3. ServerTypes'
  BY <1>1, <1>2, StepsAssumption DEF ServerTypes, Move, Places, events
<1>4. Guarded(r)'
  BY <1>1, <1>2 DEF Guarded, layer, events
<1> QED  BY <1>2, <1>3, <1>4 DEF Server

LEMMA EndStep ==
    ASSUME LayerFacts, Server, P!Outcomes,
           NEW t \in Workers, NEW r \in Requests, End(t, r)
    PROVE  Server'
<1> DEFINE p == IF place[r] = "on" THEN "over" ELSE "refused"
<1>1. /\ ServerTypes /\ Stacks /\ Dispatching /\ Guarded(r)
      /\ UNCHANGED <<layer, task, armed, steps, stderr, events, faulty, aborted>>
      /\ Runs(t, r) /\ Pop(t) /\ Move(r, p) /\ r \notin armed
      /\ unwinding' = [unwinding EXCEPT ![t] = @ /\ task[r] # r]
  BY DEF Server, End
<1>2. /\ \A u \in Workers : u # t => unwinding'[u] = unwinding[u]
      /\ unwinding'[t] => unwinding[t] /\ task[r] # r
  BY <1>1 DEF ServerTypes
<1>3. /\ Stacks' /\ Dispatching' /\ Unwound'
      /\ job' \in [Workers -> Seq(Requests)] /\ place'[r] = p /\ r = job[t][1]
      /\ place[r] \in {"calling", "on"}
      /\ \A q \in Requests : q # r => Guarded(q)'
  <2>1. p \in {"parked", "over", "refused"}
    OBVIOUS
  <2> HIDE DEF p
  <2> QED  BY <1>1, <1>2, <2>1, LeaveStep
<1>4. ServerTypes'
  <2>1. unwinding' \in [Workers -> BOOLEAN]
    BY <1>1 DEF ServerTypes
  <2> QED  BY <1>1, <1>3, <2>1 DEF ServerTypes, Move, Places, events
<1>5. ASSUME LogInternalErrors, place[r] = "on", r \notin filtered
      PROVE  \E e \in access : source[e] = r /\ e \in Settled
  <2>1. PICK e \in access : source[e] = r
    BY <1>1, <1>5 DEF Guarded
  <2>2. PICK u \in Workers, n \in 1..MaxEvents : e = <<u, n>>
    BY <1>1 DEF Layer!Events, ServerTypes
  <2>3. e \in Layer!Events /\ r # None
    BY <1>1, RequestsAssumption DEF ServerTypes
  <2>4. n \in 1..current[u]
    BY <1>1, <2>1, <2>2, <2>3, EventsFinite DEF Dispatching, LayerFacts
  <2>5. n # current[u] \/ pc[u] = "idle"
    <3> SUFFICES ASSUME n = current[u], pc[u] # "idle" PROVE FALSE
      OBVIOUS
    <3>1. e = Layer!Event(u)
      BY <2>2 DEF Layer!Event
    <3>2. job[u][1] = job[t][1] /\ Len(job[u]) > 0 /\ job[u] \in Seq(Requests)
      BY <1>1, <1>3, <2>1, <3>1 DEF Dispatching, Stacks, ServerTypes
    <3>3. job[t] # <<>> /\ job[t] \in Seq(Requests) /\ pc[t] = "idle"
      BY <1>1 DEF Runs, ServerTypes
    <3>4. 1 \in 1..Len(job[u]) /\ 1 \in 1..Len(job[t])
      BY <3>2, <3>3
    <3>5. u = t
      BY <1>1, <3>2, <3>4, Distinct
    <3> QED  BY <3>3, <3>5
  <2>6. e \in Settled
    BY <1>5, <2>2, <2>4, <2>5 DEF P!Outcomes, P!NothingUnsettled, P!Settled, Settled
  <2> QED  BY <2>1, <2>6
<1>6. Guarded(r)'
  <2>1. CASE place[r] = "on"
    <3>1. place'[r] = "over"
      BY <1>3, <2>1
    <3> QED  BY <1>1, <1>5, <2>1, <3>1 DEF Guarded, layer, events, Settled
  <2>2. CASE place[r] = "calling"
    <3>1. place'[r] = "refused"
      BY <1>3, <2>2
    <3> QED  BY <1>1, <2>2, <3>1 DEF Guarded, layer, events, Settled
  <2> QED  BY <1>3, <2>1, <2>2
<1> QED  BY <1>3, <1>4, <1>6 DEF Server

-----------------------------------------------------------------------------
(* Steps of the handler and of the guard that move no request              *)

\* Stderr is taken or let go, a panic starts or is caught.
LEMMA StayStep ==
    ASSUME LayerFacts, Server, NEW t \in Workers, NEW r \in Requests, Runs(t, r),
           UNCHANGED <<layer, job, place, task, armed, events, aborted>>,
           steps' \in [Requests -> 0..MaxSteps],
           unwinding' \in [Workers -> BOOLEAN],
           \A u \in Workers : u # t => unwinding'[u] = unwinding[u],
           stderr' \in Workers \cup {None},
           \/ unwinding'[t] => unwinding[t] /\ UNCHANGED faulty
           \/ faulty' = faulty \cup {r},
           faulty' \in {faulty, faulty \cup {r}}
    PROVE  Server'
<1>1. /\ ServerTypes /\ Stacks /\ Dispatching /\ Unwound /\ \A q \in Requests : Guarded(q)
      /\ UNCHANGED <<pc, current, written, diagnosed, muted, unwound, source, access, filtered>>
      /\ ~aborted /\ job[t] # <<>> /\ r = Head(job[t]) /\ pc[t] = "idle"
  BY DEF Server, layer, events, Runs
<1>2. Len(job[t]) > 0 /\ r = job[t][1] /\ Len(job[t]) \in Nat
  BY <1>1, TopFacts
<1>3. ServerTypes'
  BY <1>1 DEF ServerTypes
<1>4. Stacks'
  BY <1>1, <1>2 DEF Stacks
<1>5. Dispatching'
  BY <1>1 DEF Dispatching, Layer!Event
<1>6. Unwound'
  <2>1. place[r] # "new"
    <3>1. 1 \in 1..Len(job[t])
      BY <1>2
    <3> QED  BY <1>1, <1>2, <3>1 DEF Stacks
  <2>2. ASSUME NEW u \in Workers, unwinding'[u] PROVE Cause(task[job[u][1]])'
    <3>1. CASE unwinding[u]
      BY <1>1, <3>1 DEF Unwound, Cause
    <3>2. CASE ~unwinding[u]
      <4>1. u = t /\ r \in faulty'
        BY <2>2, <3>2
      <4> QED  BY <1>2, <4>1 DEF Cause
    <3> QED  BY <3>1, <3>2
  <2>3. AbortTakesTwoPanics'
    BY <1>1 DEF AbortTakesTwoPanics
  <2> QED  BY <1>1, <2>1, <2>2, <2>3 DEF Unwound
<1>7. \A q \in Requests : Guarded(q)'
  BY <1>1 DEF Guarded, Settled
<1> QED  BY <1>3, <1>4, <1>5, <1>6, <1>7 DEF Server

LEMMA HandlerStays ==
    ASSUME LayerFacts, Server, NEW t \in Workers, NEW r \in Requests,
           LockStderr(t, r) \/ UnlockStderr(t, r) \/ HandlerPanics(t, r) \/ Recover(t, r)
    PROVE  Server'
<1>1. /\ steps \in [Requests -> 0..MaxSteps] /\ unwinding \in [Workers -> BOOLEAN]
      /\ stderr \in Workers \cup {None}
      /\ \A n \in 0..MaxSteps : n > 0 => n - 1 \in 0..MaxSteps
  BY StepsAssumption DEF Server, ServerTypes
<1>2. CASE LockStderr(t, r) \/ UnlockStderr(t, r)
  <2>1. /\ Runs(t, r)
        /\ UNCHANGED <<layer, job, place, task, armed, unwinding, events, faulty, aborted>>
        /\ stderr' \in {t, None}
    BY <1>2 DEF LockStderr, UnlockStderr, HandlerStep
  <2>2. steps' \in [Requests -> 0..MaxSteps]
    BY <1>1, <1>2 DEF LockStderr, UnlockStderr, HandlerStep
  <2> QED  BY <1>1, <2>1, <2>2, StayStep
<1>3. CASE HandlerPanics(t, r)
  <2>1. /\ Runs(t, r)
        /\ UNCHANGED <<layer, job, place, task, armed, events, aborted>>
        /\ stderr' \in {stderr, None} /\ faulty' = faulty \cup {r}
    BY <1>3 DEF HandlerPanics, HandlerStep, Unwind
  <2>2. steps' \in [Requests -> 0..MaxSteps]
    BY <1>1, <1>3 DEF HandlerPanics, HandlerStep
  <2>3. unwinding' = [unwinding EXCEPT ![t] = TRUE]
    BY <1>3 DEF HandlerPanics, Unwind
  <2> QED  BY <1>1, <2>1, <2>2, <2>3, StayStep
<1>4. CASE Recover(t, r)
  <2>1. /\ Runs(t, r)
        /\ UNCHANGED <<layer, job, place, task, armed, steps, stderr, events, faulty, aborted>>
        /\ unwinding' = [unwinding EXCEPT ![t] = FALSE]
    BY <1>4 DEF Recover
  <2> QED  BY <1>1, <2>1, StayStep
<1> QED  BY <1>2, <1>3, <1>4

\* A new event has no source yet and nothing became of it.
LEMMA EmitFacts ==
    ASSUME LayerFacts, Server, NEW t \in Workers, Layer!Emit(t)
    PROVE  /\ pc[t] = "idle" /\ pc' = [pc EXCEPT ![t] = "format"]
           /\ current' = [current EXCEPT ![t] = @ + 1]
           /\ UNCHANGED <<written, diagnosed, muted, unwound>>
           /\ <<t, current'[t]>> \in Layer!Events
           /\ Layer!Event(t)' = <<t, current'[t]>>
           /\ source[<<t, current'[t]>>] = None /\ <<t, current'[t]>> \notin access
           /\ <<t, current'[t]>> \notin Settled
           /\ \A u \in Workers : current[u] \in Nat /\ current[u] <= current'[u]
<1>1. /\ pc[t] = "idle" /\ pc' = [pc EXCEPT ![t] = "format"]
      /\ current' = [current EXCEPT ![t] = @ + 1]
      /\ UNCHANGED <<written, diagnosed, muted, unwound>>
      /\ current[t] < MaxEvents
  BY DEF Layer!Emit, Layer!Goto
<1>2. current'[t] = current[t] + 1 /\ current[t] \in Nat
  BY <1>1 DEF LayerFacts
<1>3. <<t, current'[t]>> \in Layer!Events
  BY <1>1, <1>2, EventsFinite DEF Layer!Events
<1>4. source[<<t, current'[t]>>] = None
  BY <1>2, <1>3 DEF Server, Dispatching
<1>5. <<t, current'[t]>> \notin access
  BY <1>4 DEF Server, Dispatching
<1>6. <<t, current'[t]>> \notin Settled
  BY <1>2 DEF LayerFacts
<1>7. \A u \in Workers : current[u] \in Nat /\ current[u] <= current'[u]
  BY <1>1, <1>2 DEF LayerFacts
<1> QED  BY <1>1, <1>3, <1>4, <1>5, <1>6, <1>7 DEF Layer!Event

\* An event of the innermost request of a worker.
LEMMA EmitStep ==
    ASSUME LayerFacts, Server, NEW t \in Workers, NEW r \in Requests, Runs(t, r),
           Layer!Emit(t),
           UNCHANGED <<job, place, task, unwinding, faulty, aborted>>,
           NEW event, event = <<t, current'[t]>>,
           \A e \in Layer!Events : source'[e] = IF e = event THEN r ELSE source[e],
           \/ access' = access /\ armed' = armed /\ ~unwinding[t]
           \/ access' = access \cup {event} /\ armed' = armed \ {r}
    PROVE  /\ Stacks' /\ Dispatching' /\ Unwound'
           /\ event \in Layer!Events /\ event \notin access
           /\ source'[event] = r
           /\ \A e \in Layer!Events : e # event => source'[e] = source[e]
           /\ Settled' = Settled /\ r = job[t][1] /\ place[r] # "new"
<1>1. /\ ServerTypes /\ Stacks /\ Dispatching /\ Unwound
      /\ ~aborted /\ job[t] # <<>> /\ r = Head(job[t])
  BY DEF Server, Runs
<1>2. /\ pc[t] = "idle" /\ pc' = [pc EXCEPT ![t] = "format"]
      /\ current' = [current EXCEPT ![t] = @ + 1]
      /\ UNCHANGED <<written, diagnosed, muted, unwound>>
      /\ event \in Layer!Events /\ Layer!Event(t)' = event
      /\ source[event] = None /\ event \notin access /\ event \notin Settled
      /\ \A u \in Workers : current[u] \in Nat /\ current[u] <= current'[u]
  BY EmitFacts
<1>3. Len(job[t]) > 0 /\ r = job[t][1] /\ Len(job[t]) \in Nat
  BY <1>1, TopFacts
<1>4. place[r] # "new" /\ r # None
  BY <1>1, <1>3, RequestsAssumption DEF Stacks
<1>5. source'[event] = r /\ \A e \in Layer!Events : e # event => source'[e] = source[e]
  BY <1>1, <1>2 DEF ServerTypes
<1>6. Settled' = Settled
  BY <1>2 DEF Settled
<1>7. \A u \in Workers : u # t => pc'[u] = pc[u] /\ Layer!Event(u)' = Layer!Event(u)
  BY <1>2 DEF LayerFacts, Layer!Event
<1>8. Stacks'
  <2>1. \A u \in Workers : pc'[u] # "idle" \/ unwinding'[u] => Len(job'[u]) > 0
    BY <1>1, <1>3, <1>7 DEF Stacks
  <2>2. UNCHANGED <<job, place, task>>
    OBVIOUS
  <2> QED  BY <1>1, <2>1, <2>2 DEF Stacks
<1>9. Dispatching'
  <2>1. ASSUME NEW e \in Layer!Events, source'[e] # None PROVE e[2] <= current'[e[1]]
    <3>1. CASE e = event
      BY <1>2, <3>1 DEF LayerFacts
    <3>2. CASE e # event
      <4>1. e[1] \in Workers /\ e[2] \in Nat /\ e[2] <= current[e[1]]
        BY <1>1, <1>5, <2>1, <3>2 DEF Dispatching, Layer!Events
      <4> QED  BY <1>2, <4>1
    <3> QED  BY <3>1, <3>2
  <2>2. ASSUME NEW e \in Layer!Events, e[2] <= current'[e[1]] PROVE source'[e] # None
    <3>1. CASE e = event
      BY <1>4, <1>5, <3>1
    <3>2. CASE e # event
      <4>1. PICK u \in Workers, n \in 1..MaxEvents : e = <<u, n>>
        BY DEF Layer!Events
      <4>2. n <= current'[u] /\ n \in Nat
        BY <2>2, <4>1, EventsFinite
      <4>3. n <= current[u]
        BY <1>2, <3>2, <4>1, <4>2 DEF LayerFacts
      <4> QED  BY <1>1, <1>5, <3>2, <4>1, <4>3 DEF Dispatching
    <3> QED  BY <3>1, <3>2
  <2>3. \A e \in Layer!Events : source'[e] # None => place'[source'[e]] # "new"
    BY <1>1, <1>4, <1>5 DEF Dispatching
  <2>4. \A e \in access' : source'[e] # None
    <3>1. \A e \in access : e \in Layer!Events /\ e # event /\ source[e] # None
      BY <1>1, <1>2 DEF Dispatching, ServerTypes
    <3>2. \A e \in access' : e \in access \/ e = event
      OBVIOUS
    <3> QED  BY <1>4, <1>5, <3>1, <3>2
  <2>5. ASSUME NEW u \in Workers, u # t, pc'[u] # "idle"
        PROVE  /\ Layer!Event(u)' \in Layer!Events
               /\ source'[Layer!Event(u)'] = job'[u][1]
               /\ Layer!Event(u)' \in access' => job'[u][1] \notin armed'
               /\ unwinding'[u] => Layer!Event(u)' \in access'
    <3>1. pc[u] # "idle" /\ Layer!Event(u)' = Layer!Event(u)
      BY <1>7, <2>5
    <3>2. Layer!Event(u) # event
      BY <2>5 DEF Layer!Event
    <3> QED  BY <1>1, <1>5, <3>1, <3>2 DEF Dispatching
  <2>6. /\ source'[Layer!Event(t)'] = job'[t][1]
        /\ Layer!Event(t)' \in access' => job'[t][1] \notin armed'
        /\ unwinding'[t] => Layer!Event(t)' \in access'
    BY <1>2, <1>3, <1>5
  <2> QED  BY <1>2, <2>1, <2>2, <2>3, <2>4, <2>5, <2>6 DEF Dispatching
<1>10. Unwound'
  <2>1. \A q \in Requests : place[q] # "new" => task'[q] = task[q]
    OBVIOUS
  <2>2. \A e \in Settled : source'[e] = source[e]
    BY <1>2, <1>5 DEF LayerFacts
  <2>3. faulty \subseteq faulty' /\ unwound \subseteq unwound'
    BY <1>2
  <2>4. ASSUME NEW u \in Workers, unwinding'[u] PROVE Cause(task[job[u][1]])'
    <3>1. PICK k : k = task[job[u][1]]
      OBVIOUS
    <3>2. Cause(k)
      BY <1>1, <2>4, <3>1 DEF Unwound
    <3>3. Cause(k)'
      BY <1>1, <2>1, <2>2, <2>3, <3>2, CauseStays
    <3> QED  BY <3>1, <3>3 DEF Cause
  <2>5. AbortTakesTwoPanics'
    BY <1>1 DEF AbortTakesTwoPanics
  <2> QED  BY <1>1, <2>4, <2>5 DEF Unwound
<1> QED  BY <1>2, <1>3, <1>4, <1>5, <1>6, <1>8, <1>9, <1>10

LEMMA LogStep ==
    ASSUME LayerFacts, Server, NEW t \in Workers, NEW r \in Requests, Log(t, r)
    PROVE  Server'
<1>1. PICK event : event = <<t, current'[t]>>
  OBVIOUS
<1>2. /\ ServerTypes /\ \A q \in Requests : Guarded(q)
      /\ Runs(t, r) /\ Layer!Emit(t) /\ ~unwinding[t]
      /\ UNCHANGED <<job, place, task, armed, unwinding, stderr, access, filtered, faulty, aborted>>
      /\ source' = [source EXCEPT ![event] = r]
      /\ steps[r] > 0 /\ steps' = [steps EXCEPT ![r] = @ - 1]
  BY <1>1 DEF Server, Log, HandlerStep
<1>3. /\ Stacks' /\ Dispatching' /\ Unwound' /\ Settled' = Settled
      /\ event \in Layer!Events /\ event \notin access
      /\ \A e \in Layer!Events : e # event => source'[e] = source[e]
  <2>1. UNCHANGED <<job, place, task, unwinding, faulty, aborted>>
    BY <1>2
  <2>2. access' = access /\ armed' = armed /\ ~unwinding[t]
    BY <1>2
  <2>3. \A e \in Layer!Events : source'[e] = IF e = event THEN r ELSE source[e]
    BY <1>2 DEF ServerTypes
  <2> QED  BY <1>1, <1>2, <2>1, <2>2, <2>3, EmitStep
<1>4. ServerTypes'
  BY <1>2, <1>3, StepsAssumption DEF ServerTypes
<1>5. \A e \in access : source'[e] = source[e]
  BY <1>2, <1>3 DEF ServerTypes
<1>6. ASSUME NEW q \in Requests PROVE Guarded(q)'
  BY <1>2, <1>3, <1>5 DEF Guarded
<1> QED  BY <1>3, <1>4, <1>6 DEF Server

\* The state is taken and the record is dispatched.
LEMMA DispatchStep ==
    ASSUME LayerFacts, Server, NEW t \in Workers, NEW r \in Requests, Runs(t, r),
           r \in armed, armed' = armed \ {r}, Layer!Emit(t),
           NEW event, event = <<t, current'[t]>>,
           source' = [source EXCEPT ![event] = r],
           access' = access \cup {event},
           UNCHANGED <<job, place, task, steps, unwinding, stderr, filtered, faulty, aborted>>
    PROVE  Server'
<1>1. ServerTypes /\ \A q \in Requests : Guarded(q)
  BY DEF Server
<1>2. /\ Stacks' /\ Dispatching' /\ Unwound' /\ Settled' = Settled
      /\ event \in Layer!Events /\ event \notin access /\ source'[event] = r
      /\ \A e \in Layer!Events : e # event => source'[e] = source[e]
  <2>1. UNCHANGED <<job, place, task, unwinding, faulty, aborted>>
    OBVIOUS
  <2>2. \A e \in Layer!Events : source'[e] = IF e = event THEN r ELSE source[e]
    BY <1>1 DEF ServerTypes
  <2> QED  BY <2>1, <2>2, EmitStep
<1>3. ServerTypes'
  BY <1>1, <1>2 DEF ServerTypes
<1>4. \A e \in access : source'[e] = source[e]
  BY <1>1, <1>2 DEF ServerTypes
<1>5. /\ r \notin filtered /\ place[r] \in {"parked", "on"}
      /\ \A e \in access : source[e] # r
  BY <1>1 DEF Guarded
<1>6. Guarded(r)'
  <2>1. \A d, e \in access' : source'[d] = r /\ source'[e] = r => d = e
    BY <1>4, <1>5
  <2>2. event \in access' /\ r \notin armed'
    OBVIOUS
  <2> QED  BY <1>2, <1>5, <2>1, <2>2 DEF Guarded
<1>7. ASSUME NEW q \in Requests, q # r PROVE Guarded(q)'
  <2>1. Guarded(q)
    BY <1>1
  <2>2. \A e \in access' : source'[e] = q => e \in access /\ source[e] = q
    BY <1>2, <1>4, <1>7
  <2>3. \A e \in access : e \in access' /\ source'[e] = source[e]
    BY <1>4
  <2>4. q \in armed' <=> q \in armed
    BY <1>7
  <2> QED  BY <1>2, <2>1, <2>2, <2>3, <2>4 DEF Guarded
<1> QED  BY <1>2, <1>3, <1>6, <1>7 DEF Server

\* The state is taken and the subscriber filters the record.
LEMMA FilterStep ==
    ASSUME LayerFacts, Server, NEW t \in Workers, NEW r \in Requests, Runs(t, r),
           r \in armed, armed' = armed \ {r}, filtered' = filtered \cup {r},
           UNCHANGED <<layer, source, access, job, place, task, steps, unwinding, stderr,
                       faulty, aborted>>
    PROVE  Server'
<1>1. /\ ServerTypes /\ Stacks /\ Dispatching /\ Unwound /\ \A q \in Requests : Guarded(q)
      /\ UNCHANGED <<pc, current, written, diagnosed, muted, unwound>>
  BY DEF Server, layer
<1>2. ServerTypes'
  BY <1>1 DEF ServerTypes
<1>3. Stacks' /\ Dispatching'
  BY <1>1 DEF Stacks, Dispatching, Layer!Event
<1>4. Unwound'
  BY <1>1 DEF Unwound, Cause, AbortTakesTwoPanics
<1>5. ASSUME NEW q \in Requests PROVE Guarded(q)'
  BY <1>1 DEF Guarded, Settled
<1> QED  BY <1>2, <1>3, <1>4, <1>5 DEF Server

LEMMA FinishStep ==
    ASSUME LayerFacts, Server, NEW t \in Workers, NEW r \in Requests, Finish(t, r)
    PROVE  Server'
<1>1. PICK event : event = <<t, current'[t]>>
  OBVIOUS
<1>2. /\ Runs(t, r) /\ r \in armed /\ armed' = armed \ {r}
      /\ UNCHANGED <<job, place, task, steps, unwinding, stderr, faulty, aborted>>
  BY DEF Finish
<1>3. CASE filtered' = filtered \cup {r} /\ UNCHANGED <<layer, source, access>>
  BY <1>2, <1>3, FilterStep
<1>4. CASE /\ Layer!Emit(t)
           /\ source' = [source EXCEPT ![event] = r]
           /\ access' = access \cup {event}
           /\ UNCHANGED filtered
  BY <1>1, <1>2, <1>4, DispatchStep
<1> QED  BY <1>1, <1>3, <1>4 DEF Finish

-----------------------------------------------------------------------------
(* Inside on_event                                                         *)

\* The panic of the writer over an access record, while another panic unwinds the
\* same worker: two panics on one task, and not both over the record of one request.
LEMMA SecondPanic ==
    ASSUME LayerFacts, Server, NEW t \in Workers, unwinding[t],
           pc[t] \in {"make", "write"},
           unwound' = unwound \cup {Layer!Event(t)},
           UNCHANGED <<faulty, task, source, access>>
    PROVE  AbortTakesTwoPanics'
<1>1. /\ ServerTypes /\ Stacks /\ Dispatching /\ Unwound /\ \A q \in Requests : Guarded(q)
  BY DEF Server
<1>2. PICK e : e = Layer!Event(t)
  OBVIOUS
<1>3. /\ e \in Layer!Events /\ source[e] = job[t][1] /\ e \in access
      /\ e \notin Settled /\ e \in unwound'
  BY <1>1, <1>2 DEF Dispatching, LayerFacts
<1>4. source[e] \in Requests
  BY <1>1, <1>3 DEF Dispatching, ServerTypes
<1>5. Cause(task[source[e]])
  BY <1>1, <1>3 DEF Unwound
<1>6. CASE \E r \in faulty : task[r] = task[source[e]]
  BY <1>3, <1>6 DEF AbortTakesTwoPanics
<1>7. ASSUME NEW d \in unwound, task[source[d]] = task[source[e]]
      PROVE  AbortTakesTwoPanics'
  <2>1. d # e /\ d \in unwound'
    BY <1>3, <1>7 DEF Settled
  <2>2. d \in access => source[d] # source[e]
    BY <1>1, <1>3, <1>4, <2>1 DEF Guarded
  <2> QED  BY <1>3, <1>7, <2>1, <2>2 DEF AbortTakesTwoPanics
<1> QED  BY <1>5, <1>6, <1>7 DEF Cause

LEMMA InsideStep ==
    ASSUME LayerFacts, Server, NEW t \in Workers, Inside(t)
    PROVE  Server'
<1>1. /\ ServerTypes /\ Stacks /\ Dispatching /\ Unwound /\ \A q \in Requests : Guarded(q)
      /\ UNCHANGED <<job, place, task, armed, steps, source, access, filtered, faulty>>
      /\ ~aborted
  BY DEF Server, Inside, Write, Report, WriterPanics, server, events
<1>2. pc[t] # "idle" /\ current' = current
  BY DEF Inside, Write, Report, WriterPanics, Layer!Goto, Layer!Format, Layer!Acquire,
         Layer!MakeWriter, Layer!WritePart, Layer!WriteError, Layer!Leave, Layer!ReportFormat,
         Layer!ReportWrite, Layer!WriterPanics
<1>3. \A u \in Workers : u # t => pc'[u] = pc[u]
  BY DEF LayerFacts, Inside, Write, Report, WriterPanics, Layer!Goto, Layer!Format,
         Layer!Acquire, Layer!MakeWriter, Layer!WritePart, Layer!WriteError, Layer!Leave,
         Layer!ReportFormat, Layer!ReportWrite, Layer!WriterPanics
<1>4. Settled \subseteq Settled' /\ unwound \subseteq unwound'
  BY DEF Settled, Inside, Write, Report, WriterPanics, Layer!Report, Layer!Format,
         Layer!Acquire, Layer!MakeWriter, Layer!WritePart, Layer!WriteError, Layer!Leave,
         Layer!ReportFormat, Layer!ReportWrite, Layer!WriterPanics
<1>5. \/ unwinding' = unwinding /\ stderr' = stderr /\ aborted' = aborted
      \/ /\ pc[t] \in {"make", "write"}
         /\ unwound' = unwound \cup {Layer!Event(t)}
         /\ pc' = [pc EXCEPT ![t] = "idle"]
         /\ \/ ~unwinding[t] /\ Unwind(t) /\ aborted' = aborted
            \/ unwinding[t] /\ aborted' = TRUE /\ unwinding' = unwinding /\ stderr' = stderr
  BY DEF Inside, Write, Report, WriterPanics, server, Layer!WriterPanics, Layer!Goto
<1>6. Len(job[t]) > 0 /\ source[Layer!Event(t)] = job[t][1]
  BY <1>1, <1>2 DEF Stacks, Dispatching
<1>7. /\ unwinding' \in [Workers -> BOOLEAN] /\ stderr' \in Workers \cup {None}
      /\ aborted' \in BOOLEAN
      /\ \A u \in Workers : u # t => unwinding'[u] = unwinding[u]
  BY <1>1, <1>5 DEF ServerTypes, Unwind
<1>8. ServerTypes'
  BY <1>1, <1>7 DEF ServerTypes
<1>9. Stacks'
  <2>1. \A u \in Workers : pc'[u] # "idle" \/ unwinding'[u] => Len(job'[u]) > 0
    BY <1>1, <1>3, <1>6, <1>7 DEF Stacks
  <2>2. UNCHANGED <<job, place, task>>
    BY <1>1
  <2> QED  BY <1>1, <2>1, <2>2 DEF Stacks
<1>10. Dispatching'
  <2>1. pc'[t] = "idle" \/ unwinding' = unwinding
    BY <1>5 DEF LayerFacts
  <2>2. \A u \in Workers : Layer!Event(u)' = Layer!Event(u)
    BY <1>2 DEF Layer!Event
  <2>3. ASSUME NEW u \in Workers, pc'[u] # "idle"
        PROVE  /\ Layer!Event(u)' \in Layer!Events
               /\ source'[Layer!Event(u)'] = job'[u][1]
               /\ Layer!Event(u)' \in access' => job'[u][1] \notin armed'
               /\ unwinding'[u] => Layer!Event(u)' \in access'
    <3>1. pc[u] # "idle" /\ unwinding'[u] = unwinding[u]
      BY <1>2, <1>3, <1>7, <2>1, <2>3
    <3> QED  BY <1>1, <2>2, <3>1 DEF Dispatching
  <2> QED  BY <1>1, <1>2, <2>3 DEF Dispatching
<1>11. ASSUME NEW q \in Requests PROVE Guarded(q)'
  BY <1>1, <1>4 DEF Guarded
<1>12. ASSUME NEW u \in Workers, unwinding'[u] PROVE Cause(task[job[u][1]])'
  <2>1. CASE unwinding[u]
    <3>1. Cause(task[job[u][1]])
      BY <1>1, <2>1 DEF Unwound
    <3> QED  BY <1>1, <1>4, <3>1 DEF Cause
  <2>2. CASE ~unwinding[u]
    <3>1. u = t /\ Layer!Event(t) \in unwound'
      BY <1>5, <1>7, <1>12, <2>2
    <3> QED  BY <1>1, <1>6, <3>1 DEF Cause
  <2> QED  BY <2>1, <2>2
<1>13. AbortTakesTwoPanics'
  <2>1. CASE aborted' = aborted
    BY <1>1, <2>1 DEF AbortTakesTwoPanics
  <2>2. CASE /\ pc[t] \in {"make", "write"} /\ unwinding[t]
             /\ unwound' = unwound \cup {Layer!Event(t)}
    BY <1>1, <2>2, SecondPanic
  <2> QED  BY <1>5, <2>1, <2>2
<1>14. Unwound'
  BY <1>1, <1>12, <1>13 DEF Unwound
<1> QED  BY <1>8, <1>9, <1>10, <1>11, <1>14 DEF Server

-----------------------------------------------------------------------------
(* The invariant of the specification                                      *)

LEMMA Stutter == Server /\ UNCHANGED vars => Server'
<1> SUFFICES ASSUME Server, UNCHANGED vars PROVE Server'
  OBVIOUS
<1>1. UNCHANGED <<pc, current, written, diagnosed, muted, unwound, job, place, task, armed, steps,
                  unwinding, stderr, source, access, filtered, faulty, aborted>>
  BY DEF vars, layer, server, events
<1>2. ServerTypes' /\ Stacks'
  BY <1>1 DEF Server, ServerTypes, Stacks
<1>3. Dispatching'
  BY <1>1 DEF Server, Dispatching, Layer!Event
<1>4. Unwound'
  BY <1>1 DEF Server, Unwound, Cause, AbortTakesTwoPanics
<1>5. ASSUME NEW q \in Requests PROVE Guarded(q)'
  BY <1>1 DEF Server, Guarded, Settled
<1> QED  BY <1>2, <1>3, <1>4, <1>5 DEF Server

LEMMA NextServer == IInv /\ [Next]_vars => Server'
<1> SUFFICES ASSUME IInv, [Next]_vars PROVE Server'
  OBVIOUS
<1>1. P!IInv /\ P!Outcomes /\ Server /\ LayerFacts
  BY LayerFactsHold DEF IInv
<1>2. ASSUME NEW t \in Workers, NEW r \in Requests,
             \/ Call(t, r) \/ Return(t, r) \/ Poll(t, r) \/ Park(t, r)
             \/ Log(t, r) \/ LockStderr(t, r) \/ UnlockStderr(t, r)
             \/ HandlerPanics(t, r) \/ Recover(t, r) \/ Finish(t, r) \/ End(t, r)
      PROVE  Server'
  BY <1>1, <1>2, CallStep, ReturnStep, PollStep, ParkStep, LogStep, HandlerStays, FinishStep, EndStep
<1>3. ASSUME NEW t \in Workers, Inside(t) PROVE Server'
  BY <1>1, <1>3, InsideStep
<1>4. CASE UNCHANGED vars
  BY <1>1, <1>4, Stutter
<1> QED  BY <1>2, <1>3, <1>4 DEF Next, Quiet

LEMMA SpecInv == Spec => []IInv
<1>1. Init => IInv
  BY InitIsLayerInit, InitServer, LayerAssumed, P!InitInv, P!InitOutcomes DEF IInv
<1>2. IInv /\ [Next]_vars => IInv'
  <2>1. IInv /\ [Next]_vars => P!IInv'
    BY NextIsLayerNext, LayerAssumed, P!NextInv DEF IInv
  <2>2. IInv /\ [Next]_vars => P!Outcomes'
    BY NextIsLayerNext, LayerAssumed, P!NextOutcomes DEF IInv
  <2> QED  BY <2>1, <2>2, NextServer DEF IInv
<1> QED  BY <1>1, <1>2, PTL DEF Spec

-----------------------------------------------------------------------------
(* Theorems                                                                *)

\* Every variable keeps its type.
THEOREM TypeCorrect == Spec => []TypeOK
<1>1. IInv => TypeOK
  BY DEF IInv, Server, ServerTypes, TypeOK, P!IInv, P!TypeOK, Layer!TypeOK, P!Stages,
         Layer!Stages, P!Chunks, Layer!Chunks, P!Parts, Layer!Parts, P!Events, Layer!Events
<1> QED  BY <1>1, SpecInv, PTL

\* One access event per request, none if it is filtered or refused, and its line
\* ends once on the output, whatever fails, panics and unwinds on the way.
THEOREM AtMostOneAccessLine == Spec => []OneAccessLine
<1>1. IInv => OneAccessLine
  <2> SUFFICES ASSUME IInv, NEW r \in Requests
               PROVE  /\ \A d, e \in RecordsOf(r) : d = e
                      /\ r \in filtered \/ place[r] = "refused" => RecordsOf(r) = {}
                      /\ \A i, j \in {k \in 1..Len(out) : out[k].event \in RecordsOf(r)
                                                       /\ out[k].part = LineParts} : i = j
    BY DEF OneAccessLine
  <2>1. Guarded(r)
    BY DEF IInv, Server
  <2>2. \A d, e \in RecordsOf(r) : d = e
    BY <2>1 DEF Guarded, RecordsOf
  <2>3. r \in filtered \/ place[r] = "refused" => RecordsOf(r) = {}
    BY <2>1 DEF Guarded, RecordsOf
  <2> QED  BY <2>2, <2>3 DEF IInv, P!Outcomes, P!EndsAreUnique
<1> QED  BY <1>1, SpecInv, PTL

\* With diagnostics enabled, it can be told of every request that is over, nested
\* or not, what became of its access record; it is missing on both outputs only if
\* its level was filtered, its own writer panicked, or stderr failed too.
THEOREM RecordsAreAccountedFor == Spec => []RecordIsAccountedFor
<1>1. IInv => RecordIsAccountedFor
  <2> SUFFICES ASSUME IInv, LogInternalErrors, NEW r \in Requests, place[r] = "over",
                      r \notin filtered
               PROVE  \E e \in RecordsOf(r) :
                         \/ e \in written \cup diagnosed \cup unwound
                         \/ e \in muted /\ "stderr" \in Faults
    BY DEF RecordIsAccountedFor
  <2>1. PICK e \in access : source[e] = r /\ e \in Settled
    BY DEF IInv, Server, Guarded
  <2>2. e \in muted => "stderr" \in Faults
    BY DEF IInv, P!Outcomes, P!MutedByStderr
  <2> QED  BY <2>1, <2>2 DEF RecordsOf, Settled
<1> QED  BY <1>1, SpecInv, PTL

\* An abort takes two panics on one task, and the record of one request is not
\* enough for both.
THEOREM AbortTakesTwo == Spec => []AbortTakesTwoPanics
<1>1. IInv => AbortTakesTwoPanics
  BY DEF IInv, Server, Unwound
<1> QED  BY <1>1, SpecInv, PTL

\* A reader of the server's log sees whole lines, one at a time, each at most once
\* and in its worker's order, whatever the requests do.
THEOREM LogIsAStream == Spec => P!ImplementsNdjsonStream
<1>1. P!Spec => P!ImplementsNdjsonStream
  BY LayerAssumed, P!ImplementsStream
<1> QED  BY <1>1, ImplementsJsonLayer, PTL
=============================================================================
