---------------------- MODULE RequestCorrelationProofs ----------------------
(***************************************************************************)
(* Every place that shows the identity of a request shows the one that was *)
(* selected for it, for any number of requests, nested in any way, any     *)
(* identifiers and any settings.                                           *)
(***************************************************************************)
EXTENDS RequestCorrelation, InductionLemmas

-----------------------------------------------------------------------------
(* The inductive invariant                                                 *)

Started(r) == stage[r] # "idle"

\* Call fixes the context, the header and the spans of a request for good.
Selected ==
    \A r \in Requests :
        /\ Started(r) =>
              /\ context[r] \in Contexts
              /\ header[r] = <<context[r].id>>
              /\ ResponseHeader /\ stage[r] = "responded" => response[r] = context[r].id

\* The innermost span is the request's own, the others are of started requests.
Scoped ==
    \A r \in Requests :
        /\ \A i \in DOMAIN scope[r] : Started(scope[r][i])
        /\ Started(r) =>
              IF spanEnabled THEN scope[r] # <<>> /\ scope[r][Len(scope[r])] = r
                             ELSE scope[r] = <<>>

\* What a line says of the request it is about.
Faithful(l) ==
    /\ Started(l.request)
    /\ l.kind = "access" =>
          /\ l.id = context[l.request].id
          /\ l.correlation = Correlation(context[l.request])
    /\ l.kind = "app" =>
          IF spanEnabled THEN /\ l.id = context[l.request].id
                              /\ l.correlation = Correlation(context[l.request])
                         ELSE {l.id, l.correlation, l.trace} = {None}
    /\ l.trace # None =>
          \/ l.trace = context[l.request].trace
          \/ /\ context[l.request].trace = None
             /\ \E i \in DOMAIN scope[l.request] :
                   context[scope[l.request][i]].trace = l.trace

IInv == TypeOK /\ Selected /\ Scoped /\ \A l \in lines : Faithful(l)

LEMMA InitInv == Init => IInv
BY DEF Init, IInv, TypeOK, Selected, Scoped, Started, NoContext

-----------------------------------------------------------------------------
(* Lines                                                                   *)

LEMMA CorrelationType ==
    ASSUME NEW c \in Contexts
    PROVE  Correlation(c) \in Ids \cup Traces /\ Correlation(c) # None
BY IdsAssumption, TracesAssumption DEF Contexts, Correlation, OptTrace, Ids

\* The spans of a request give the identity of the request, and the trace of the
\* innermost of its spans that has one.
LEMMA ScopeGives ==
    ASSUME IInv, NEW r \in Requests, Started(r), spanEnabled
    PROVE  /\ scope[r] # <<>>
           /\ ScopeFields(scope[r]).id = context[r].id
           /\ ScopeFields(scope[r]).correlation = Correlation(context[r])
           /\ ScopeFields(scope[r]).trace \in OptTrace
           /\ context[r].trace # None => ScopeFields(scope[r]).trace = context[r].trace
           /\ ScopeFields(scope[r]).trace # None =>
                 \E i \in DOMAIN scope[r] : context[scope[r][i]].trace = ScopeFields(scope[r]).trace
<1> DEFINE spans  == scope[r]
           traced == {i \in DOMAIN spans : context[spans[i]].trace # None}
           last   == CHOOSE i \in traced : \A j \in traced : j <= i
           fields == ScopeFields(spans)
<1>1. /\ spans \in Seq(Requests) /\ spans # <<>> /\ spans[Len(spans)] = r
      /\ \A i \in DOMAIN spans : spans[i] \in Requests /\ context[spans[i]] \in Contexts
  BY DEF IInv, TypeOK, Scoped, Selected
<1>2. Len(spans) \in DOMAIN spans /\ DOMAIN spans = 1..Len(spans) /\ Len(spans) \in Nat
  BY <1>1
<1>3. /\ fields.id = context[r].id
      /\ fields.correlation = Correlation(context[r])
      /\ fields.trace = IF traced = {} THEN None ELSE context[spans[last]].trace
  BY <1>1 DEF ScopeFields
<1>4. traced # {} => \E i \in traced : \A j \in traced : j <= i
  BY <1>2, LastExists
<1>5. traced # {} => last \in traced /\ \A j \in traced : j <= last
  BY <1>4
<1> HIDE DEF last
<1>6. fields.trace \in OptTrace
  BY <1>1, <1>3, <1>5 DEF OptTrace, Contexts
<1>7. context[r].trace # None => fields.trace = context[r].trace
  <2>1. SUFFICES ASSUME context[r].trace # None PROVE fields.trace = context[r].trace
    OBVIOUS
  <2>2. Len(spans) \in traced
    BY <1>1, <1>2, <2>1
  <2>3. last = Len(spans)
    BY <1>2, <1>5, <2>2
  <2> QED  BY <1>1, <1>3, <2>2, <2>3
<1>8. fields.trace # None => \E i \in DOMAIN spans : context[spans[i]].trace = fields.trace
  BY <1>3, <1>5
<1> QED  BY <1>1, <1>3, <1>6, <1>7, <1>8

LEMMA AccessLine ==
    ASSUME IInv, NEW r \in Requests, Started(r)
    PROVE  LET l == Line(r, "access", RecordFields(r)) IN l \in Lines /\ Faithful(l)
<1> DEFINE l == Line(r, "access", RecordFields(r))
<1>1. context[r] \in Contexts
  BY DEF IInv, Selected
<1>2. /\ context[r].id \in Ids /\ context[r].id # None /\ context[r].trace \in OptTrace
      /\ Correlation(context[r]) \in Ids \cup Traces /\ Correlation(context[r]) # None
  BY <1>1, IdsAssumption, CorrelationType DEF Contexts, Ids
<1>3. CASE spanEnabled
  <2> DEFINE f == ScopeFields(scope[r])
  <2>1. /\ scope[r] # <<>> /\ f.id = context[r].id
        /\ f.correlation = Correlation(context[r]) /\ f.trace \in OptTrace
        /\ context[r].trace # None => f.trace = context[r].trace
        /\ f.trace # None => \E i \in DOMAIN scope[r] : context[scope[r][i]].trace = f.trace
    BY <1>3, ScopeGives
  <2> HIDE DEF f
  <2>2. l = [request |-> r, kind |-> "access", id |-> context[r].id,
             correlation |-> Correlation(context[r]),
             trace |-> IF f.trace = None THEN context[r].trace ELSE f.trace]
    BY <1>2, <2>1 DEF Line, RecordFields, f
  <2> HIDE DEF l
  <2>3. l \in Lines
    BY <1>2, <2>1, <2>2 DEF Lines, Ids
  <2>4. Faithful(l)
    BY <1>2, <2>1, <2>2 DEF Faithful
  <2> QED  BY <2>3, <2>4 DEF l
<1>4. CASE ~spanEnabled
  <2>1. scope[r] = <<>>
    BY <1>4 DEF IInv, Scoped
  <2>2. l = [request |-> r, kind |-> "access", id |-> context[r].id,
             correlation |-> Correlation(context[r]), trace |-> context[r].trace]
    BY <2>1 DEF Line, NoFields, RecordFields
  <2> HIDE DEF l
  <2>3. l \in Lines
    BY <1>2, <2>2 DEF Lines, Ids
  <2>4. Faithful(l)
    BY <2>2 DEF Faithful
  <2> QED  BY <2>3, <2>4 DEF l
<1> QED  BY <1>3, <1>4 DEF IInv, TypeOK

LEMMA AppLine ==
    ASSUME IInv, NEW r \in Requests, Started(r), NEW claimed
    PROVE  LET l == Line(r, "app", AppEventFields(claimed)) IN l \in Lines /\ Faithful(l)
<1> DEFINE l == Line(r, "app", AppEventFields(claimed))
<1>1. context[r] \in Contexts
  BY DEF IInv, Selected
<1>2. /\ context[r].id \in Ids /\ context[r].id # None /\ context[r].trace \in OptTrace
      /\ Correlation(context[r]) \in Ids \cup Traces /\ Correlation(context[r]) # None
  BY <1>1, IdsAssumption, CorrelationType DEF Contexts, Ids
<1>3. CASE spanEnabled
  <2> DEFINE f == ScopeFields(scope[r])
  <2>1. /\ scope[r] # <<>> /\ f.id = context[r].id
        /\ f.correlation = Correlation(context[r]) /\ f.trace \in OptTrace
        /\ context[r].trace # None => f.trace = context[r].trace
        /\ f.trace # None => \E i \in DOMAIN scope[r] : context[scope[r][i]].trace = f.trace
    BY <1>3, ScopeGives
  <2> HIDE DEF f
  <2>2. l = [request |-> r, kind |-> "app", id |-> context[r].id,
             correlation |-> Correlation(context[r]), trace |-> f.trace]
    BY <1>2, <2>1 DEF Line, AppEventFields, NoFields, f
  <2> HIDE DEF l
  <2>3. l \in Lines
    BY <1>2, <2>1, <2>2 DEF Lines, Ids
  <2>4. Faithful(l)
    BY <1>2, <1>3, <2>1, <2>2 DEF Faithful
  <2> QED  BY <2>3, <2>4 DEF l
<1>4. CASE ~spanEnabled
  <2>1. scope[r] = <<>>
    BY <1>4 DEF IInv, Scoped
  <2>2. l = [request |-> r, kind |-> "app", id |-> None, correlation |-> None, trace |-> None]
    BY <2>1 DEF Line, AppEventFields, NoFields
  <2> HIDE DEF l
  <2>3. l \in Lines
    BY <2>2 DEF Lines, OptTrace
  <2>4. Faithful(l)
    BY <1>4, <2>2 DEF Faithful
  <2> QED  BY <2>3, <2>4 DEF l
<1> QED  BY <1>3, <1>4 DEF IInv, TypeOK
-----------------------------------------------------------------------------
(* Steps                                                                   *)

\* A line that is there stays true of its request when contexts and spans of
\* started requests stay.
LEMMA LinesStay ==
    ASSUME IInv, spanEnabled' = spanEnabled,
           \A r \in Requests : Started(r) =>
               /\ Started(r)' /\ context'[r] = context[r] /\ scope'[r] = scope[r]
    PROVE  \A l \in lines : Faithful(l)'
<1> SUFFICES ASSUME NEW l \in lines PROVE Faithful(l)'
  OBVIOUS
<1>1. l.request \in Requests /\ Faithful(l) /\ Started(l.request)
  BY DEF IInv, TypeOK, Lines, Faithful
<1>2. \A i \in DOMAIN scope[l.request] :
         /\ scope[l.request][i] \in Requests
         /\ Started(scope[l.request][i])
  BY <1>1 DEF IInv, TypeOK, Scoped
<1> QED  BY <1>1, <1>2 DEF Faithful, Correlation

LEMMA CallStep ==
    ASSUME IInv, NEW r \in Requests, NEW parent \in Requests \cup {None},
           NEW values \in CallerHeaders, NEW trace \in OptTrace, Call(r, parent, values, trace)
    PROVE  IInv'
<1>1. TypeOK /\ Selected /\ Scoped /\ stage[r] = "idle" /\ stage' = [stage EXCEPT ![r] = "active"]
      /\ UNCHANGED <<response, spanEnabled, kept, lines>>
  BY DEF IInv, Call
<1>2. PICK id \in Ids, own \in BOOLEAN :
         /\ generated' = [generated EXCEPT ![r] = own]
         /\ context' = [context EXCEPT ![r] = [id |-> id, trace |-> trace]]
         /\ header' = [header EXCEPT ![r] = <<id>>]
  <2>1. GeneratedIds \subseteq Ids
    BY <1>1 DEF GeneratedIds, Ids, TypeOK
  <2> QED  BY <2>1 DEF Call, Admissible
<1>3. [id |-> id, trace |-> trace] \in Contexts
  BY DEF Contexts
<1>4. ScopeWithin(parent) \in Seq(Requests)
      /\ \A i \in DOMAIN ScopeWithin(parent) : Started(ScopeWithin(parent)[i])
  BY <1>1 DEF ScopeWithin, TypeOK, Scoped
<1>5. /\ scope' = [scope EXCEPT ![r] = scope'[r]]
      /\ scope'[r] = IF spanEnabled THEN Append(ScopeWithin(parent), r) ELSE <<>>
  BY <1>1 DEF Call, TypeOK
<1>6. scope'[r] \in Seq(Requests)
  BY <1>4, <1>5
<1>7. TypeOK'
  <2>1. /\ stage' \in [Requests -> {"idle", "active", "responded", "ended"}]
        /\ context' \in [Requests -> Contexts \cup {NoContext}]
        /\ generated' \in [Requests -> BOOLEAN]
    BY <1>1, <1>2, <1>3 DEF TypeOK
  <2>2. header' \in [Requests -> Seq(HeaderValues)]
    <3>1. <<id>> \in Seq(HeaderValues)
      BY DEF HeaderValues
    <3> QED  BY <1>1, <1>2, <3>1 DEF TypeOK
  <2>3. scope' \in [Requests -> Seq(Requests)]
    BY <1>1, <1>5, <1>6 DEF TypeOK
  <2> QED  BY <1>1, <2>1, <2>2, <2>3 DEF TypeOK
<1>8. \A q \in Requests : Started(q) =>
         Started(q)' /\ context'[q] = context[q] /\ scope'[q] = scope[q]
  BY <1>1, <1>2, <1>5 DEF Started, TypeOK
<1>9. Selected'
  BY <1>1, <1>2, <1>3 DEF Selected, Started, TypeOK
<1>10. Scoped'
  <2> SUFFICES ASSUME NEW q \in Requests
               PROVE  /\ \A i \in DOMAIN scope'[q] : stage'[scope'[q][i]] # "idle"
                      /\ stage'[q] # "idle" =>
                            IF spanEnabled' THEN scope'[q] # <<>> /\ scope'[q][Len(scope'[q])] = q
                                            ELSE scope'[q] = <<>>
    BY DEF Scoped, Started
  <2>1. CASE q # r
    <3>1. scope'[q] = scope[q] /\ (stage'[q] # "idle" <=> Started(q))
      BY <1>1, <1>5, <2>1 DEF TypeOK, Started
    <3>2. \A i \in DOMAIN scope[q] : scope[q][i] \in Requests /\ Started(scope[q][i])
      BY <1>1 DEF Scoped, TypeOK
    <3> QED  BY <1>1, <1>8, <3>1, <3>2 DEF Scoped, Started
  <2>2. CASE q = r /\ spanEnabled
    <3> DEFINE outer == ScopeWithin(parent)
    <3>1. scope'[r] = Append(outer, r) /\ outer \in Seq(Requests)
      BY <1>4, <1>5, <2>2
    <3>2. \A i \in DOMAIN outer : outer[i] \in Requests /\ Started(outer[i])
      BY <1>4
    <3>3. stage'[r] # "idle"
      BY <1>1 DEF TypeOK
    <3> HIDE DEF outer
    <3>4. /\ DOMAIN Append(outer, r) = 1..(Len(outer) + 1) /\ DOMAIN outer = 1..Len(outer)
          /\ Len(outer) \in Nat /\ Len(Append(outer, r)) = Len(outer) + 1
          /\ Append(outer, r)[Len(outer) + 1] = r
          /\ \A i \in 1..Len(outer) : Append(outer, r)[i] = outer[i]
          /\ Append(outer, r) # <<>>
      BY <3>1
    <3>5. \A i \in DOMAIN Append(outer, r) : stage'[Append(outer, r)[i]] # "idle"
      <4> SUFFICES ASSUME NEW i \in 1..(Len(outer) + 1) PROVE stage'[Append(outer, r)[i]] # "idle"
        BY <3>4
      <4>1. CASE i = Len(outer) + 1
        BY <3>3, <3>4, <4>1
      <4>2. CASE i \in 1..Len(outer)
        BY <1>8, <3>2, <3>4, <4>2 DEF Started
      <4> QED  BY <3>4, <4>1, <4>2
    <3> QED  BY <1>1, <2>2, <3>1, <3>4, <3>5
  <2>3. CASE q = r /\ ~spanEnabled
    BY <1>1, <1>5, <2>3
  <2> QED  BY <2>1, <2>2, <2>3
<1>11. \A l \in lines' : Faithful(l)'
  BY <1>1, <1>8, LinesStay
<1> QED  BY <1>7, <1>9, <1>10, <1>11 DEF IInv

\* A step that adds a faithful line, or none, and moves a started request on.
LEMMA LaterStep ==
    ASSUME IInv, NEW r \in Requests, AppEvent(r) \/ Finish(r) \/ Keep(r) \/ Respond(r)
    PROVE  IInv'
<1>1. TypeOK /\ Selected /\ Scoped /\ UNCHANGED <<context, generated, header, scope, spanEnabled>>
      /\ Started(r)
  BY DEF IInv, AppEvent, Finish, Keep, Respond, Started
<1>2. stage' = stage \/ \E s \in {"responded", "ended"} : stage' = [stage EXCEPT ![r] = s]
  BY DEF AppEvent, Finish, Keep, Respond
<1>3. context[r] \in Contexts /\ context[r].id \in Ids
  BY <1>1 DEF Selected, Contexts
<1>4. lines' \subseteq Lines /\ \A l \in lines' \ lines : Faithful(l)
  <2>1. CASE AppEvent(r)
    BY <1>1, <2>1, AppLine DEF AppEvent, TypeOK
  <2>2. CASE Finish(r)
    BY <1>1, <2>2, AccessLine DEF Finish, TypeOK
  <2>3. CASE Keep(r) \/ Respond(r)
    BY <1>1, <2>3 DEF Keep, Respond, TypeOK
  <2> QED  BY <2>1, <2>2, <2>3
<1>5. \/ response' = response /\ (stage'[r] = "responded" => stage[r] = "responded")
      \/ /\ \E v \in HeaderValues \cup {None} : response' = [response EXCEPT ![r] = v]
         /\ ResponseHeader => response'[r] = context[r].id
  <2>1. CASE Respond(r)
    BY <1>1, <1>3, <2>1 DEF Respond, SelectedHeader, TypeOK, HeaderValues
  <2>2. CASE AppEvent(r) \/ Finish(r) \/ Keep(r)
    BY <1>1, <2>2 DEF AppEvent, Finish, Keep, TypeOK
  <2> QED  BY <2>1, <2>2
<1>6. kept' \subseteq Ids
  BY <1>1, <1>3 DEF AppEvent, Finish, Keep, Respond, TypeOK
<1>7. TypeOK'
  BY <1>1, <1>2, <1>4, <1>5, <1>6 DEF TypeOK
<1>8. \A q \in Requests : Started(q)' <=> Started(q)
  BY <1>1, <1>2 DEF Started, TypeOK
<1>9. Selected'
  BY <1>1, <1>2, <1>5, <1>8 DEF Selected, TypeOK
<1>10. Scoped'
  BY <1>1, <1>8 DEF Scoped, TypeOK
<1>11. \A l \in lines' : Faithful(l)'
  <2>1. ASSUME NEW l \in lines' \ lines PROVE Faithful(l)'
    <3>1. Faithful(l) /\ l.request \in Requests
      BY <1>4, <2>1 DEF Lines
    <3> QED  BY <1>1, <1>8, <3>1 DEF Faithful, Correlation
  <2>2. \A l \in lines : Faithful(l)'
    BY <1>1, <1>8, LinesStay
  <2> QED  BY <2>1, <2>2
<1> QED  BY <1>7, <1>9, <1>10, <1>11 DEF IInv

LEMMA NextInv == IInv /\ [Next]_vars => IInv'
<1> SUFFICES ASSUME IInv, [Next]_vars PROVE IInv'
  OBVIOUS
<1>1. ASSUME NEW r \in Requests, Step(r) PROVE IInv'
  BY <1>1, CallStep, LaterStep DEF Step
<1>2. CASE UNCHANGED vars
  <2>1. TypeOK'
    BY <1>2 DEF vars, IInv, TypeOK
  <2>2. Selected' /\ Scoped'
    BY <1>2 DEF vars, IInv, Selected, Scoped, Started
  <2>3. lines' = lines /\ \A l \in lines : Faithful(l)'
    BY <1>2 DEF vars, IInv, Faithful, Started, Correlation
  <2> QED  BY <2>1, <2>2, <2>3 DEF IInv
<1> QED  BY <1>1, <1>2 DEF Next

LEMMA SpecInv == Spec => []IInv
<1>1. Init => IInv
  BY InitInv
<1> QED  BY <1>1, NextInv, PTL DEF Spec

-----------------------------------------------------------------------------
(* Theorems                                                                *)

\* Every variable keeps its type.
THEOREM TypeCorrect == Spec => []TypeOK
<1>1. IInv => TypeOK
  BY DEF IInv
<1> QED  BY <1>1, SpecInv, PTL

\* The inner service, the client and the access line see the id selected for the
\* request.
THEOREM IdentityIsOne == Spec => []OneIdentity
<1>1. IInv => OneIdentity
  BY DEF IInv, Selected, Started, Faithful, OneIdentity
<1> QED  BY <1>1, SpecInv, PTL

\* Access lines carry their own request's correlation.
THEOREM AccessLinesCorrelate == Spec => []AccessLineCorrelates
<1>1. IInv => AccessLineCorrelates
  BY DEF IInv, Faithful, Correlation, AccessLineCorrelates
<1> QED  BY <1>1, SpecInv, PTL

\* No application line shows the identity of another request, or a claimed one.
THEOREM AppLinesAreNotSpoofed == Spec => []AppLineIsNotSpoofed
<1>1. IInv => AppLineIsNotSpoofed
  <2> SUFFICES ASSUME IInv, NEW l \in lines, l.kind = "app"
               PROVE  IF spanEnabled
                      THEN /\ l.id = context[l.request].id
                           /\ l.correlation \in {context[l.request].trace, l.id} \ {None}
                      ELSE {l.id, l.correlation, l.trace} = {None}
    BY DEF AppLineIsNotSpoofed
  <2>1. Faithful(l) /\ l.request \in Requests /\ Started(l.request)
    BY DEF IInv, Faithful, TypeOK, Lines
  <2>2. context[l.request] \in Contexts
    BY <2>1 DEF IInv, Selected
  <2> QED  BY <2>1, <2>2, CorrelationType DEF Faithful, Correlation
<1> QED  BY <1>1, SpecInv, PTL

-----------------------------------------------------------------------------
(* Where an id outside the baseline grammar comes from                     *)

Admitted(v) ==
    v \in BroadIds =>
        /\ CustomValidator
        /\ \E q \in Requests : Started(q) /\ ~generated[q] /\ context[q].id = v

Origins ==
    /\ \A v \in kept : Admitted(v)
    /\ \A r \in Requests : Started(r) => Admitted(context[r].id)

\* A request keeps its id and where it has it from.
LEMMA AdmittedStays ==
    ASSUME \A q \in Requests : Started(q) =>
               Started(q)' /\ context'[q] = context[q] /\ generated'[q] = generated[q],
           NEW v, Admitted(v)
    PROVE  Admitted(v)'
BY DEF Admitted

LEMMA CallOrigins ==
    ASSUME IInv, Origins, NEW r \in Requests, NEW parent \in Requests \cup {None},
           NEW values \in CallerHeaders, NEW trace \in OptTrace, Call(r, parent, values, trace)
    PROVE  Origins'
<1>1. TypeOK /\ stage[r] = "idle" /\ stage' = [stage EXCEPT ![r] = "active"] /\ kept' = kept
  BY DEF IInv, Call
<1>2. PICK id \in Ids, own \in BOOLEAN :
         /\ generated' = [generated EXCEPT ![r] = own]
         /\ context' = [context EXCEPT ![r] = [id |-> id, trace |-> trace]]
         /\ IF own THEN id \in GeneratedIds ELSE TRUE \in Verdicts(id)
  <2>1. GeneratedIds \subseteq Ids
    BY <1>1 DEF GeneratedIds, Ids, TypeOK
  <2> QED  BY <2>1 DEF Call, Admissible
<1>3. \A q \in Requests : Started(q) =>
         Started(q)' /\ context'[q] = context[q] /\ generated'[q] = generated[q]
  BY <1>1, <1>2 DEF Started, TypeOK
<1>4. /\ Started(r)' /\ context'[r].id = id /\ generated'[r] = own
      /\ \A q \in Requests : q # r => (Started(q)' <=> Started(q)) /\ context'[q] = context[q]
  BY <1>1, <1>2 DEF Started, TypeOK
<1>5. Admitted(id)'
  <2>1. CASE own
    <3>1. id \in kept \/ id \notin BroadIds
      BY <1>2, <2>1, IdsAssumption DEF GeneratedIds
    <3>2. CASE id \in kept
      <4>1. Admitted(id)
        BY <3>2 DEF Origins
      <4> QED  BY <1>3, <4>1, AdmittedStays
    <3>3. CASE id \notin BroadIds
      BY <3>3 DEF Admitted
    <3> QED  BY <3>1, <3>2, <3>3
  <2>2. CASE ~own
    <3>1. CustomValidator \/ id \notin BroadIds
      BY <1>2, <2>2, IdsAssumption DEF Verdicts
    <3> QED  BY <1>4, <2>2, <3>1 DEF Admitted
  <2> QED  BY <2>1, <2>2
<1>6. \A v \in kept' : Admitted(v)'
  BY <1>1, <1>3, AdmittedStays DEF Origins
<1>7. ASSUME NEW q \in Requests, Started(q)' PROVE Admitted(context[q].id)'
  <2>1. CASE q = r
    BY <1>4, <1>5, <2>1 DEF Admitted
  <2>2. CASE q # r
    <3>1. PICK v : v = context[q].id
      OBVIOUS
    <3>2. Admitted(v)
      BY <1>4, <1>7, <2>2, <3>1 DEF Origins
    <3>3. Admitted(v)'
      BY <1>3, <3>2, AdmittedStays
    <3>4. context'[q].id = v
      BY <1>4, <2>2, <3>1
    <3> QED  BY <3>3, <3>4 DEF Admitted
  <2> QED  BY <2>1, <2>2
<1> QED  BY <1>6, <1>7 DEF Origins

LEMMA LaterOrigins ==
    ASSUME IInv, Origins, NEW r \in Requests,
           AppEvent(r) \/ Finish(r) \/ Keep(r) \/ Respond(r)
    PROVE  Origins'
<1>1. /\ UNCHANGED <<context, generated>>
      /\ \A q \in Requests : Started(q)' <=> Started(q)
      /\ kept' = kept \/ (Started(r) /\ kept' = kept \cup {context[r].id})
  BY DEF IInv, TypeOK, Started, AppEvent, Finish, Keep, Respond
<1> QED  BY <1>1 DEF Origins, Admitted

\* Whatever the generator returns, an id outside the baseline grammar was admitted
\* from a caller by the custom validator.
THEOREM BroadIdsAreAdmitted == Spec => []BroadIdsWereAdmitted
<1> DEFINE Inv == IInv /\ Origins
<1>1. Init => Inv
  BY InitInv DEF Init, Origins, Started
<1>2. Inv /\ [Next]_vars => Inv'
  <2> SUFFICES ASSUME Inv, [Next]_vars PROVE Inv'
    OBVIOUS
  <2>1. IInv'
    BY NextInv
  <2>2. ASSUME NEW r \in Requests, Step(r) PROVE Origins'
    BY <2>2, CallOrigins, LaterOrigins DEF Step
  <2>3. ASSUME UNCHANGED vars PROVE Origins'
    <3>1. kept' = kept /\ context' = context /\ stage' = stage /\ generated' = generated
      BY <2>3 DEF vars
    <3>2. \A v : Admitted(v) => Admitted(v)'
      BY <3>1 DEF Admitted, Started
    <3>3. \A v \in kept' : Admitted(v)'
      BY <3>1, <3>2 DEF Origins
    <3>4. ASSUME NEW r \in Requests, Started(r)' PROVE Admitted(context[r].id)'
      BY <3>1, <3>4 DEF Origins, Admitted, Started
    <3> QED  BY <3>3, <3>4 DEF Origins
  <2> QED  BY <2>1, <2>2, <2>3 DEF Next
<1>3. Inv => BroadIdsWereAdmitted
  BY DEF Origins, Admitted, Started, BroadIdsWereAdmitted
<1> QED  BY <1>1, <1>2, <1>3, PTL DEF Spec

\* The trace of a line is its request's, or that of an enclosing one if it has none.
THEOREM TracesComeFromScopes == Spec => []TraceFromOwnScope
<1>1. IInv => TraceFromOwnScope
  BY DEF IInv, Faithful, TraceFromOwnScope
<1> QED  BY <1>1, SpecInv, PTL
=============================================================================
