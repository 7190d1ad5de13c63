-------------------------- MODULE RecordProjection --------------------------
(***************************************************************************)
(* Which fields a log line has and where each comes from: what the         *)
(* middleware captures of a request (RequestMetadata, AccessRecord), and   *)
(* how JsonLayer::on_event lays the event's own fields, the envelope, the  *)
(* access record, the enrichment, the request fields of the spans and the  *)
(* provider's aliases over each other (formatter.rs, middleware.rs).       *)
(*                                                                         *)
(* A value is its origin: the application, the package, or the identity of *)
(* one of the requests whose spans enclose the event.                      *)
(***************************************************************************)
EXTENDS Naturals, Sequences

CONSTANTS
    Conventions,    \* field conventions under study
    OwnFields,      \* sets of names an application event may log
    Enrichments,    \* sets of names an enricher may return
    Arrivals,       \* what requests bring: see Arrived
    Scopes,         \* contexts of the enclosing requests, outermost first
    NoLine          \* nothing written yet

ASSUME ConventionsAssumption == Conventions \subseteq {"generic", "gcp", "aws", "azure"}

\* The trace context of a request: none, one without the random flag (level 1
\* or a higher version), or one with it.
ContextKinds == {"none", "traced", "random"}
ASSUME ScopesAssumption == Scopes \subseteq Seq(ContextKinds)

\* The names of RequestMetadata and the facts they are captured from.
Settings == {"raw_path", "peer_ip", "user_agent"}
Arrived  == [path      : BOOLEAN,       \* whether the URI has a path
             matched   : BOOLEAN,       \* MatchedPath
             operation : BOOLEAN,       \* OperationId of the request
             connect   : BOOLEAN,       \* ConnectInfo
             agents    : {"none", "one", "malformed", "many"}]
ASSUME ArrivalsAssumption == Arrivals \subseteq Arrived

\* How a request ends: its outcome, the response head it got, if any, and
\* whether its duration is within the provider's range.
Ends == {e \in [outcome   : {"completed", "service_error", "body_error", "response_dropped"},
                responded : BOOLEAN,
                operation : BOOLEAN,
                short     : BOOLEAN] :
            /\ e.outcome \in {"completed", "body_error"} => e.responded
            /\ e.outcome = "service_error" => ~e.responded
            /\ ~e.responded => ~e.operation}

AppEvents == [kind       : {"app"},
              convention : Conventions,
              scope      : Scopes,
              enabled    : BOOLEAN,
              fields     : OwnFields]

AccessEvents == [kind       : {"access"},
                 convention : Conventions,
                 scope      : {s \in Scopes : s # <<>>},
                 enabled    : BOOLEAN,
                 fields     : Enrichments,
                 settings   : SUBSET Settings,
                 arrival    : Arrivals,
                 end        : Ends]

VARIABLES
    event,      \* the event at hand
    line        \* its line: the top-level fields and the httpRequest object

vars == <<event, line>>

\* Every name a line may have; the internal obs.record is not one of them.
PackageNames ==
    {"timestamp", "target", "level", "severity", "message", "httpRequest",
     "request_id", "correlation_id", "trace_id", "parent_id", "trace_flags",
     "trace_sampled", "trace_id_random", "method", "path", "path_template",
     "operation_id", "status", "duration_ms", "peer_ip", "user_agent",
     "terminal_reason", "logging.googleapis.com/trace",
     "logging.googleapis.com/trace_sampled", "xray_trace_id", "operation_Id",
     "operation_ParentId"}
LineNames == (PackageNames \cup (UNION OwnFields) \cup (UNION Enrichments)) \ {"obs.record"}
HttpKeys  == {"requestMethod", "requestUrl", "status", "remoteIp", "userAgent", "latency"}

TypeOK ==
    /\ event \in AppEvents \cup AccessEvents
    /\ line # NoLine =>
          /\ DOMAIN line.fields \subseteq LineNames
          /\ DOMAIN line.http \subseteq HttpKeys
          /\ \A k \in DOMAIN line.fields : line.fields[k].from \in {"app", "package", "request"}

-----------------------------------------------------------------------------
(* Fields and their origins                                                *)

Value(key, from, request) == [key |-> key, from |-> from, request |-> request]
App(key)                  == Value(key, "app", 0)
Package(key)              == Value(key, "package", 0)
Of(request, key)          == Value(key, "request", request)

\* Map::insert of all fields of `new`.
Over(output, new) ==
    [k \in DOMAIN output \cup DOMAIN new |->
        IF k \in DOMAIN new THEN new[k] ELSE output[k]]

TraceFields   == {"trace_id", "parent_id", "trace_flags", "trace_sampled"}

\* Mutation of RequestFields: only the correlating ids are taken from a span.
RequestFieldsIdsOnly == {"request_id", "correlation_id", "trace_id"}

\* is_request_field
RequestFields == {"request_id", "correlation_id", "trace_id_random"} \cup TraceFields

\* The fields a request span records, and an access record serialises, for a
\* request with the given trace context.
IdentityFields(context) ==
    {"request_id", "correlation_id"}
        \cup (IF context = "none" THEN {} ELSE TraceFields)
        \cup (IF context = "random" THEN {"trace_id_random"} ELSE {})

\* context.event_scope(event).from_root(): the last span with a field gives it.
SpanFields(e) ==
    LET spans   == IF e.enabled THEN DOMAIN e.scope ELSE {}
        With(k) == {i \in spans : k \in IdentityFields(e.scope[i])}
    IN  [k \in {k \in RequestFields : With(k) # {}} |->
            Of(CHOOSE i \in With(k) : \A j \in With(k) : j <= i, k)]

-----------------------------------------------------------------------------
(* The access record                                                       *)

\* Mutation of Captured: any user-agent header is taken.
CapturedAgents(settings, arrival) ==
    {"method"}
        \cup (IF arrival.matched THEN {"path_template"} ELSE {})
        \cup (IF arrival.operation THEN {"operation_id"} ELSE {})
        \cup (IF "user_agent" \in settings /\ arrival.agents # "none" THEN {"user_agent"} ELSE {})

\* RequestMetadata::from_request, with the peer-ip feature.
Captured(settings, arrival) ==
    {"method"}
        \cup (IF "raw_path" \in settings /\ arrival.path THEN {"path"} ELSE {})
        \cup (IF arrival.matched THEN {"path_template"} ELSE {})
        \cup (IF arrival.operation THEN {"operation_id"} ELSE {})
        \cup (IF "peer_ip" \in settings /\ arrival.connect THEN {"peer_ip"} ELSE {})
        \cup (IF "user_agent" \in settings /\ arrival.agents = "one" THEN {"user_agent"} ELSE {})

\* AccessRecord without its enrichment; an absent Option is skipped.
Record(e) ==
    LET own   == Len(e.scope)
        facts == Captured(e.settings, e.arrival) \cup {"duration_ms"}
                     \cup (IF e.end.responded THEN {"status"} ELSE {})
                     \cup (IF e.end.operation THEN {"operation_id"} ELSE {})
                     \cup (IF e.end.outcome # "completed" THEN {"terminal_reason"} ELSE {})
        ids   == IdentityFields(e.scope[own])
    IN  [k \in facts \cup ids |-> IF k \in ids THEN Of(own, k) ELSE Package(k)]

-----------------------------------------------------------------------------
(* Reserved names                                                          *)

LevelKey(convention) == IF convention = "gcp" THEN "severity" ELSE "level"

Aliases(convention) ==
    CASE convention = "gcp"     -> {"logging.googleapis.com/trace",
                                    "logging.googleapis.com/trace_sampled"}
      [] convention = "aws"     -> {"xray_trace_id"}
      [] convention = "azure"   -> {"operation_Id", "operation_ParentId"}
      [] convention = "generic" -> {}

\* Mutation of IsEventReserved: the record of an access event is not reserved.
IsEventReservedNoRecord(key, convention) ==
    \/ key \in RequestFields \cup {"timestamp", "target", LevelKey(convention)}
    \/ key \in Aliases(convention)

\* Mutation of IsEventReserved: the names of every convention are reserved.
IsEventReservedEverywhere(key, convention) ==
    \/ key \in RequestFields \cup {"timestamp", "target", "obs.record", "level", "severity"}
    \/ \E c \in {"gcp", "aws", "azure"} : key \in Aliases(c)

IsEventReserved(key, convention) ==
    \/ key \in RequestFields \cup {"timestamp", "target", "obs.record", LevelKey(convention)}
    \/ key \in Aliases(convention)

IsAccessReserved(key, convention) ==
    \/ IsEventReserved(key, convention)
    \/ key \in {"message", "method", "path", "path_template", "operation_id", "status",
                "duration_ms", "peer_ip", "user_agent", "terminal_reason", "error"}
    \/ convention = "gcp" /\ key = "httpRequest"

-----------------------------------------------------------------------------
(* on_event                                                                *)

\* The event's own fields that are not reserved, under the envelope.  An
\* access event has only its message, once its record has been taken out.
Base(e) ==
    LET own == IF e.kind = "access" THEN [k \in {"message"} |-> Package(k)]
               ELSE [k \in {k \in e.fields : ~IsEventReserved(k, e.convention)} |-> App(k)]
    IN  Over(own, [k \in {"timestamp", "target", LevelKey(e.convention)} |-> Package(k)])

\* The members of httpRequest, each with the field it is copied from.
HttpNames == [requestMethod |-> "method", requestUrl |-> "path", status |-> "status",
              remoteIp |-> "peer_ip", userAgent |-> "user_agent"]

\* gcp_latency: no latency outside of the provider's range.
HttpRequest(e, output) ==
    LET copied == {n \in DOMAIN HttpNames : HttpNames[n] \in DOMAIN output}
    IN  [n \in copied \cup (IF e.end.short THEN {"latency"} ELSE {}) |->
            IF n = "latency" THEN output["duration_ms"] ELSE output[HttpNames[n]]]

\* Mutation of MergeAccessRecord: the enrichment is filtered like an event.
MergeAccessRecordAsEvent(e, output) ==
    LET terminal == Over(Record(e), [k \in {"message"} |-> Package(k)])
        enriched == [k \in {k \in e.fields : ~IsEventReserved(k, e.convention)} |-> App(k)]
    IN  Over(Over(output, terminal), enriched)

\* merge_access_record up to the httpRequest object.
MergeAccessRecord(e, output) ==
    LET terminal == Over(Record(e), [k \in {"message"} |-> Package(k)])
        enriched == [k \in {k \in e.fields : ~IsAccessReserved(k, e.convention)} |-> App(k)]
    IN  Over(Over(output, terminal), enriched)

\* The field an alias is made of.
AliasSource(key) ==
    CASE key = "logging.googleapis.com/trace_sampled" -> "trace_sampled"
      [] key = "operation_ParentId"                   -> "parent_id"
      [] key \in {"logging.googleapis.com/trace", "xray_trace_id", "operation_Id"} -> "trace_id"

\* add_provider_trace_fields: none without a trace id.
AddProviderFields(convention, output) ==
    LET made == {k \in Aliases(convention) :
                    {"trace_id", AliasSource(k)} \subseteq DOMAIN output}
    IN  Over(output, [k \in made |-> output[AliasSource(k)]])

\* Mutation of Line: the aliases are made before the request fields are there.
LineAliasesFirst(e) ==
    LET merged == IF e.kind = "access" THEN MergeAccessRecord(e, Base(e)) ELSE Base(e)
    IN  [fields |-> Over(AddProviderFields(e.convention, merged), SpanFields(e)),
         http   |-> IF e.kind = "access" /\ e.convention = "gcp"
                    THEN HttpRequest(e, merged) ELSE <<>>]

Line(e) ==
    LET merged == IF e.kind = "access" THEN MergeAccessRecord(e, Base(e)) ELSE Base(e)
        gcp    == e.kind = "access" /\ e.convention = "gcp"
        output == IF gcp THEN Over(merged, [k \in {"httpRequest"} |-> Package(k)]) ELSE merged
    IN  [fields |-> AddProviderFields(e.convention, Over(output, SpanFields(e))),
         http   |-> IF gcp THEN HttpRequest(e, merged) ELSE <<>>]

Init ==
    /\ event \in AppEvents \cup AccessEvents
    /\ line = NoLine

OnEvent ==
    /\ line = NoLine
    /\ line' = Line(event)
    /\ UNCHANGED event

Next == OnEvent

Spec == Init /\ [][Next]_vars

-----------------------------------------------------------------------------
(* Properties                                                              *)

\* The names README.md gives to the package on the line of e: correlation, the
\* envelope, the aliases of the active convention, and on an access line the
\* terminal fields.  obs.record is the internal one.
Owned(e) ==
    {"request_id", "correlation_id", "trace_id", "parent_id", "trace_flags",
     "trace_sampled", "trace_id_random", "timestamp", "target", "obs.record"}
        \cup {LevelKey(e.convention)} \cup Aliases(e.convention)
        \cup (IF e.kind = "app" THEN {}
              ELSE {"message", "method", "path", "path_template", "operation_id", "status",
                    "duration_ms", "peer_ip", "user_agent", "terminal_reason", "error"})
        \cup (IF e.kind = "access" /\ e.convention = "gcp" THEN {"httpRequest"} ELSE {})

\* README.md "Application events cannot replace package correlation, envelope,
\* provider aliases ..." and "Access enrichment cannot replace exact terminal
\* access fields": a name the package owns never carries the application's
\* value, not even where the package has no value of its own to put there.
OwnedNamesAreThePackages ==
    line # NoLine =>
        \A k \in DOMAIN line.fields : line.fields[k].from = "app" => k \notin Owned(event)

\* README.md "Access-only names, aliases owned only by an inactive field
\* convention ... remain ordinary application data": whatever the package does
\* not own on this line reaches it unchanged.
ApplicationDataSurvives ==
    line # NoLine =>
        \A k \in event.fields \ Owned(event) :
            k \in DOMAIN line.fields /\ line.fields[k] = App(k)

\* README.md "Provider trace fields are omitted without valid W3C context": the
\* aliases are on the line exactly when its trace id is, and repeat the very
\* fields of that line, of whichever of the nested requests these are.
AliasesRepeatTheTrace ==
    line # NoLine =>
        \A k \in Aliases(event.convention) :
            /\ k \in DOMAIN line.fields <=> "trace_id" \in DOMAIN line.fields
            /\ k \in DOMAIN line.fields => line.fields[k] = line.fields[AliasSource(k)]

\* A line never mixes the trace id of one request with the parent, the flags or
\* the sampling decision of another, nor shows them without each other.  Beside
\* the trace id of a request with a random flag stands that flag; beside that of
\* one without stands none, or, since the merge of the spans clears nothing, that
\* of a request around it, never of one it called.
TraceFieldsTogether ==
    line # NoLine =>
        LET present == TraceFields \cap DOMAIN line.fields
            flagged == "trace_id_random" \in DOMAIN line.fields
            traced  == line.fields["trace_id"].request
            random  == line.fields["trace_id_random"].request
        IN  /\ present \in {{}, TraceFields}
            /\ \A k, l \in present : line.fields[k].request = line.fields[l].request
            /\ present # {} /\ event.scope[traced] = "random" => flagged /\ random = traced
            /\ flagged => present # {} /\ random <= traced

\* README.md "path: only with with_raw_path(true)", and peer_ip and user_agent
\* likewise: what the application did not opt in to is on no line, neither at
\* the top level, nor from an enricher, nor in httpRequest, and a user agent
\* that is ambiguous or malformed is not either.
DisclosedOnlyByOptIn ==
    line # NoLine /\ event.kind = "access" =>
        LET shows(key, member) == key \in DOMAIN line.fields \/ member \in DOMAIN line.http
        IN  /\ shows("path", "requestUrl") => "raw_path" \in event.settings
            /\ shows("peer_ip", "remoteIp") => "peer_ip" \in event.settings
            /\ shows("user_agent", "userAgent") =>
                  "user_agent" \in event.settings /\ event.arrival.agents = "one"
=============================================================================
