------------------------- MODULE RequestCorrelation -------------------------
(***************************************************************************)
(* How a request gets its identity and where that identity shows up: the   *)
(* canonical header, the RequestContext, the request span, the response    *)
(* header and every log line (middleware.rs, context.rs, formatter.rs).    *)
(*                                                                         *)
(* Handlers may send requests to another instrumented service in process,  *)
(* so that the span of one request is created inside the span of another,  *)
(* may keep the RequestId they extract, and may log fields of any name.    *)
(* The grammars of ids and of trace headers are reduced to the classes of  *)
(* value the code tells apart.                                             *)
(***************************************************************************)
EXTENDS Naturals, Sequences

CONSTANTS
    Requests,           \* requests, to the outer service or to inner ones
    BaselineIds,        \* values of the baseline grammar
    BroadIds,           \* native field content outside the baseline grammar
    Malformed,          \* a value that is not native field content
    Traces,             \* trace ids of valid traceparent headers
    Nesting,            \* whether handlers send requests in process
    CustomValidator,    \* whether with_request_id_validator was used
    Reissuing,          \* whether the generator returns ids handlers kept
    ResponseHeader,     \* with_response_header
    None

ASSUME IdsAssumption ==
    /\ BaselineIds \cap BroadIds = {}
    /\ {None, Malformed} \cap (BaselineIds \cup BroadIds) = {}
ASSUME TracesAssumption == None \notin Traces \cup Requests
ASSUME ConfigAssumption ==
    {Nesting, CustomValidator, Reissuing, ResponseHeader} \subseteq BOOLEAN

Ids          == BaselineIds \cup BroadIds
HeaderValues == Ids \cup {Malformed}
OptTrace     == Traces \cup {None}
Contexts     == [id : Ids, trace : OptTrace]
NoContext    == [id |-> None, trace |-> None]

\* The identity fields of a log line; an absent field is None.
Lines == [request     : Requests,
          kind        : {"app", "access"},
          id          : Ids \cup {None},
          correlation : Ids \cup Traces \cup {None},
          trace       : OptTrace]

VARIABLES
    stage,          \* "idle", "active", "responded" or "ended"
    context,        \* the RequestContext of each request
    generated,      \* whether its id was generated rather than received
    header,         \* values of the id header the inner service sees
    response,       \* the id header of the response, None if there is none
    scope,          \* the enclosing request spans, outermost first
    spanEnabled,    \* whether the subscriber's filter admits request spans
    kept,           \* RequestIds handlers have extracted and kept
    lines           \* log lines written so far

vars == <<stage, context, generated, header, response, scope, spanEnabled, kept, lines>>

TypeOK ==
    /\ stage \in [Requests -> {"idle", "active", "responded", "ended"}]
    /\ context \in [Requests -> Contexts \cup {NoContext}]
    /\ generated \in [Requests -> BOOLEAN]
    /\ header \in [Requests -> Seq(HeaderValues)]
    /\ response \in [Requests -> HeaderValues \cup {None}]
    /\ scope \in [Requests -> Seq(Requests)]
    /\ spanEnabled \in BOOLEAN
    /\ kept \subseteq Ids
    /\ lines \subseteq Lines

Init ==
    /\ stage = [r \in Requests |-> "idle"]
    /\ context = [r \in Requests |-> NoContext]
    /\ generated = [r \in Requests |-> FALSE]
    /\ header = [r \in Requests |-> <<>>]
    /\ response = [r \in Requests |-> None]
    /\ scope = [r \in Requests |-> <<>>]
    /\ spanEnabled \in BOOLEAN
    /\ kept = {}
    /\ lines = {}

-----------------------------------------------------------------------------
(* Selection of the identity                                               *)

\* accepts_request_id: the custom validator may answer anything, and a panic
\* of it counts as a refusal.
Verdicts(value) == IF CustomValidator THEN BOOLEAN ELSE {value \in BaselineIds}

\* The values a caller may send in the id header: none, one or two.
CallerHeaders == {<<>>} \cup {<<v>> : v \in HeaderValues} \cup {<<v, w>> : v, w \in HeaderValues}

\* Mutation of Admissible: the validator alone judges the bytes.
AdmissibleBytes(values) == Len(values) = 1

\* select_request_id admits exactly one value of native field content.
Admissible(values) == Len(values) = 1 /\ values[1] \in Ids

\* Mutation of GeneratedIds: what the generator returns needs to be native
\* field content only.
GeneratedAdmissible == Ids

\* generate_request_id: one call of the generator, whose None or panic leads
\* to a random id of the baseline grammar.
GeneratedIds == BaselineIds \cup (IF Reissuing THEN kept ELSE {})

\* The spans a new request span is created in: those of the request whose
\* handler sends it, if request spans are enabled.
ScopeWithin(parent) == IF parent = None THEN <<>> ELSE scope[parent]

\* Service::call up to inner.call().  The header the inner service sees is
\* replaced by the one selected value.
Call(r, parent, values, trace) ==
    /\ stage[r] = "idle"
    /\ parent # None => Nesting /\ stage[parent] = "active"
    /\ stage' = [stage EXCEPT ![r] = "active"]
    /\ \E id \in HeaderValues :
          /\ \/ /\ Admissible(values) /\ TRUE \in Verdicts(values[1])
                /\ id = values[1]
                /\ generated' = [generated EXCEPT ![r] = FALSE]
             \/ /\ Admissible(values) => FALSE \in Verdicts(values[1])
                /\ id \in GeneratedIds
                /\ generated' = [generated EXCEPT ![r] = TRUE]
          /\ context' = [context EXCEPT ![r] = [id |-> id, trace |-> trace]]
          /\ header' = [header EXCEPT ![r] = <<id>>]
    /\ scope' = [scope EXCEPT ![r] =
                    IF spanEnabled THEN Append(ScopeWithin(parent), r) ELSE <<>>]
    /\ UNCHANGED <<response, spanEnabled, kept, lines>>

-----------------------------------------------------------------------------
(* Log lines                                                               *)

\* RequestContext::new
Correlation(c) == IF c.trace = None THEN c.id ELSE c.trace

\* Mutation of ScopeFields: the outermost span wins.
ScopeFieldsFromRoot(spans) ==
    LET root == context[spans[1]]
    IN  [id |-> root.id, correlation |-> Correlation(root), trace |-> root.trace]

\* The request fields of an event in the given spans: the fields of each span
\* in turn, from the root, override those before it.  A span records no trace
\* fields for a request without trace context.
ScopeFields(spans) ==
    LET own    == context[spans[Len(spans)]]
        traced == {i \in DOMAIN spans : context[spans[i]].trace # None}
        last   == CHOOSE i \in traced : \A j \in traced : j <= i
    IN  [id          |-> own.id,
         correlation |-> Correlation(own),
         trace       |-> IF traced = {} THEN None ELSE context[spans[last]].trace]

NoFields == [id |-> None, correlation |-> None, trace |-> None]

\* on_event: `fields` come with the event, the request fields replace them.
Line(r, kind, fields) ==
    LET spans == scope[r]
        found == IF spans = <<>> THEN NoFields ELSE ScopeFields(spans)
        Or(a, b) == IF a = None THEN b ELSE a
    IN  [request     |-> r,
         kind        |-> kind,
         id          |-> Or(found.id, fields.id),
         correlation |-> Or(found.correlation, fields.correlation),
         trace       |-> Or(found.trace, fields.trace)]

\* Mutation of AppEventFields: reserved names are kept.
AppEventFieldsKept(claimed) == [id |-> claimed, correlation |-> claimed, trace |-> None]

\* An application event in the span of r, by its handler or by a task that
\* kept the span.  Reserved names among its own fields are dropped.
AppEventFields(claimed) == NoFields

AppEvent(r) ==
    /\ stage[r] # "idle"
    /\ \E claimed \in Ids :
          lines' = lines \cup {Line(r, "app", AppEventFields(claimed))}
    /\ UNCHANGED <<stage, context, generated, header, response, scope, spanEnabled, kept>>

\* Mutation of RecordFields: the record relies on the request span.
RecordFieldsFromSpan(r) == NoFields

\* The access record carries the identity of its own context.
RecordFields(r) ==
    [id          |-> context[r].id,
     correlation |-> Correlation(context[r]),
     trace       |-> context[r].trace]

\* The terminal event of r, entered in the span of r: TerminalGuard::finish.
Finish(r) ==
    /\ stage[r] \in {"active", "responded"}
    /\ stage' = [stage EXCEPT ![r] = "ended"]
    /\ lines' = lines \cup {Line(r, "access", RecordFields(r))}
    /\ UNCHANGED <<context, generated, header, response, scope, spanEnabled, kept>>

-----------------------------------------------------------------------------
(* The handler and the response                                            *)

\* The handler extracts its RequestContext and keeps the id.
Keep(r) ==
    /\ stage[r] = "active"
    /\ kept' = kept \cup {context[r].id}
    /\ UNCHANGED <<stage, context, generated, header, response, scope, spanEnabled, lines>>

\* Mutation of SelectedHeader: a header that is there is left alone.
KeptHeader(r, own) == IF ResponseHeader /\ own = None THEN context[r].id ELSE own

\* The id header of a response the handler answered with `own`, which it may
\* have copied from an in-process response: the middleware replaces it.
SelectedHeader(r, own) == IF ResponseHeader THEN context[r].id ELSE own

Respond(r) ==
    /\ stage[r] = "active"
    /\ stage' = [stage EXCEPT ![r] = "responded"]
    /\ \E own \in {None} \cup {response[q] : q \in Requests} :
          response' = [response EXCEPT ![r] = SelectedHeader(r, own)]
    /\ UNCHANGED <<context, generated, header, scope, spanEnabled, kept, lines>>

-----------------------------------------------------------------------------

Step(r) ==
    \/ \E parent \in Requests \cup {None}, values \in CallerHeaders, trace \in OptTrace :
          Call(r, parent, values, trace)
    \/ AppEvent(r)
    \/ Finish(r)
    \/ Keep(r)
    \/ Respond(r)

Next == \E r \in Requests : Step(r)

Spec == Init /\ [][Next]_vars

-----------------------------------------------------------------------------
(* Properties                                                              *)

\* README.md "The selected value is available from ...": the inner service,
\* the client and the access line all see the one id selected for the request,
\* however requests nest and whatever the handler answers.
OneIdentity ==
    \A r \in Requests : stage[r] # "idle" =>
        /\ header[r] = <<context[r].id>>
        /\ ResponseHeader /\ stage[r] = "responded" => response[r] = context[r].id
        /\ \A l \in lines : l.request = r /\ l.kind = "access" => l.id = context[r].id

\* README.md "correlation_id: trace ID when valid W3C context exists, otherwise
\* request ID", in the access line of every request, nested or not, and with or
\* without the request span that would repeat it.
AccessLineCorrelates ==
    \A l \in lines : l.kind = "access" =>
        l.correlation = IF context[l.request].trace = None
                        THEN context[l.request].id ELSE context[l.request].trace

\* README.md "Application events cannot replace package correlation": an
\* application line carries the id and the correlation of the request it was
\* logged in, however requests nest, or no identity at all if request spans are
\* filtered out.
AppLineIsNotSpoofed ==
    \A l \in lines : l.kind = "app" =>
        IF spanEnabled
        THEN /\ l.id = context[l.request].id
             /\ l.correlation \in {context[l.request].trace, l.id} \ {None}
        ELSE {l.id, l.correlation, l.trace} = {None}

\* middleware.rs:200 and README.md "Generated values use RequestId and retain
\* the baseline grammar".
GeneratedIsBaseline ==
    \A r \in Requests : generated[r] => context[r].id \in BaselineIds

\* What does hold when a generator returns ids that handlers kept: an id outside
\* the baseline grammar is in use only where the custom validator admitted it from
\* a caller, for this request or for another one from which it was handed on.
BroadIdsWereAdmitted ==
    \A r \in Requests :
        stage[r] # "idle" /\ context[r].id \in BroadIds =>
            /\ CustomValidator
            /\ \E q \in Requests :
                  stage[q] # "idle" /\ ~generated[q] /\ context[q].id = context[r].id

\* README.md: trace_id is present "Only with valid W3C context", of the request
\* the line is about.
TraceOnlyWithContext ==
    \A l \in lines : l.trace # None => context[l.request].trace = l.trace

\* What does hold of trace_id when requests nest: it is the trace of the
\* request or, if it has none, of a request whose handler sent it.
TraceFromOwnScope ==
    \A l \in lines : l.trace # None =>
        \/ l.trace = context[l.request].trace
        \/ /\ context[l.request].trace = None
           /\ \E i \in DOMAIN scope[l.request] :
                 context[scope[l.request][i]].trace = l.trace
=============================================================================
