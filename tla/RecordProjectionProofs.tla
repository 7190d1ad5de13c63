----------------------- MODULE RecordProjectionProofs -----------------------
(***************************************************************************)
(* Whose field is whose on a line, for any application fields,             *)
(* enrichments, settings and nesting of requests: the names of the package *)
(* stay the package's and the rest the application's, the trace fields are *)
(* one request's, the aliases repeat them, and nothing is disclosed that   *)
(* the settings do not ask for.                                            *)
(*                                                                         *)
(* A line is a stack of records laid over each other by Over, so every     *)
(* proof follows the stack: what Over does to one name (OverFields), then  *)
(* what each layer has (BaseFields, RecordFields, MergedFields,            *)
(* OutputFields, SpanOrigin, AliasFields), then what the whole line has.   *)
(***************************************************************************)
EXTENDS RecordProjection, InductionLemmas

\* The fields f hold nothing of the application under a name owned on the line
\* of e.
Clean(e, f) == \A k \in DOMAIN f : f[k].from = "app" => k \notin Owned(e)

Events == AppEvents \cup AccessEvents

\* A line is always made of its event as it is.
LineInv ==
    /\ event \in Events
    /\ line # NoLine => line = Line(event)

\* Laying clean fields over clean fields gives clean fields (Map::insert).
LEMMA OverClean ==
    ASSUME NEW e, NEW f, NEW g, Clean(e, f), Clean(e, g)
    PROVE  Clean(e, Over(f, g))
<1>1. DOMAIN Over(f, g) = DOMAIN f \cup DOMAIN g
  BY DEF Over
<1>2. SUFFICES ASSUME NEW k \in DOMAIN f \cup DOMAIN g,
                      Over(f, g)[k].from = "app"
               PROVE  k \notin Owned(e)
  BY <1>1 DEF Clean
<1>3. CASE k \in DOMAIN g
  <2>1. Over(f, g)[k] = g[k]
    BY <1>3 DEF Over
  <2> QED BY <2>1, <1>2, <1>3 DEF Clean
<1>4. CASE k \notin DOMAIN g
  <2>1. Over(f, g)[k] = f[k] /\ k \in DOMAIN f
    BY <1>4 DEF Over
  <2> QED BY <2>1, <1>2 DEF Clean
<1> QED BY <1>3, <1>4

\* Fields that all come from the package or from a request are clean.
LEMMA PackageClean ==
    ASSUME NEW e, NEW f, \A k \in DOMAIN f : f[k].from \in {"package", "request"}
    PROVE  Clean(e, f)
BY DEF Clean

\* The event's own fields pass is_event_reserved, or are the message of an
\* access event, and lie under the envelope.
LEMMA BaseClean ==
    ASSUME NEW e \in Events
    PROVE  Clean(e, Base(e))
<1> DEFINE own      == IF e.kind = "access" THEN [k \in {"message"} |-> Package(k)]
                       ELSE [k \in {k \in e.fields : ~IsEventReserved(k, e.convention)} |-> App(k)]
           envelope == [k \in {"timestamp", "target", LevelKey(e.convention)} |-> Package(k)]
<1>1. Clean(e, envelope)
  BY PackageClean DEF Package, Value
<1>2. CASE e.kind = "access"
  <2>1. Clean(e, own)
    BY <1>2, PackageClean DEF Package, Value
  <2> QED BY <1>1, <2>1, OverClean DEF Base
<1>3. CASE e.kind = "app"
  <2>1. \A k : k \in Owned(e) => IsEventReserved(k, e.convention)
    BY <1>3 DEF Owned, IsEventReserved, RequestFields, TraceFields
  <2>2. Clean(e, own)
    BY <1>3, <2>1 DEF Clean
  <2> QED BY <1>1, <2>2, OverClean DEF Base
<1> QED BY <1>2, <1>3 DEF Events, AppEvents, AccessEvents

\* The access record is the package's and the enrichment passes
\* is_access_reserved.
LEMMA MergeClean ==
    ASSUME NEW e \in AccessEvents, NEW f, Clean(e, f)
    PROVE  Clean(e, MergeAccessRecord(e, f))
<1> DEFINE terminal == Over(Record(e), [k \in {"message"} |-> Package(k)])
           enriched == [k \in {k \in e.fields : ~IsAccessReserved(k, e.convention)} |-> App(k)]
<1>1. Clean(e, Record(e))
  <2>1. \A k \in DOMAIN Record(e) : Record(e)[k].from \in {"package", "request"}
    BY DEF Record, Of, Package, Value
  <2> QED BY <2>1, PackageClean
<1>2. Clean(e, [k \in {"message"} |-> Package(k)])
  BY PackageClean DEF Package, Value
<1>3. Clean(e, terminal)
  BY <1>1, <1>2, OverClean
<1>4. Clean(e, enriched)
  <2>1. \A k : k \in Owned(e) => IsAccessReserved(k, e.convention)
    BY DEF Owned, IsAccessReserved, IsEventReserved, RequestFields, TraceFields, AccessEvents
  <2> QED BY <2>1 DEF Clean
<1>5. Clean(e, Over(f, terminal))
  BY <1>3, OverClean
<1> QED BY <1>4, <1>5, OverClean DEF MergeAccessRecord

\* The aliases are copies of fields that a request gave, and no application
\* field is among those they are made of.
LEMMA AliasesClean ==
    ASSUME NEW e \in Events, NEW f, Clean(e, f)
    PROVE  Clean(e, AddProviderFields(e.convention, f))
<1> DEFINE made  == {k \in Aliases(e.convention) :
                        {"trace_id", AliasSource(k)} \subseteq DOMAIN f}
           added == [k \in made |-> f[AliasSource(k)]]
<1>1. ASSUME NEW k \in made PROVE f[AliasSource(k)].from # "app"
  <2>1. e.convention \in {"generic", "gcp", "aws", "azure"}
    BY ConventionsAssumption DEF Events, AppEvents, AccessEvents
  <2>2. AliasSource(k) \in {"trace_id", "trace_sampled", "parent_id"}
    BY <2>1 DEF Aliases, AliasSource
  <2>3. AliasSource(k) \in Owned(e) /\ AliasSource(k) \in DOMAIN f
    BY <2>2 DEF Owned
  <2> QED BY <2>3 DEF Clean
<1>2. Clean(e, added)
  BY <1>1 DEF Clean
<1> QED BY <1>2, OverClean DEF AddProviderFields

\* The fields of the enclosing request spans come from requests.
LEMMA SpansClean ==
    ASSUME NEW e
    PROVE  Clean(e, SpanFields(e))
<1>1. \A k \in DOMAIN SpanFields(e) : SpanFields(e)[k].from = "request"
  BY DEF SpanFields, Of, Value
<1> QED BY <1>1, PackageClean

\* No line gives the application's value under a name of the package.
LEMMA LineClean ==
    ASSUME NEW e \in Events
    PROVE  Clean(e, Line(e).fields)
<1> DEFINE merged == IF e.kind = "access" THEN MergeAccessRecord(e, Base(e)) ELSE Base(e)
           gcp    == e.kind = "access" /\ e.convention = "gcp"
           output == IF gcp THEN Over(merged, [k \in {"httpRequest"} |-> Package(k)]) ELSE merged
<1>1. Clean(e, merged)
  <2>1. e.kind = "access" => e \in AccessEvents
    BY DEF Events, AppEvents
  <2> QED BY <2>1, BaseClean, MergeClean
<1>2. Clean(e, [k \in {"httpRequest"} |-> Package(k)])
  BY PackageClean DEF Package, Value
<1>3. Clean(e, output)
  BY <1>1, <1>2, OverClean
<1>4. Clean(e, Over(output, SpanFields(e)))
  BY <1>3, SpansClean, OverClean
<1>5. Line(e).fields = AddProviderFields(e.convention, Over(output, SpanFields(e)))
  BY DEF Line
<1> QED BY <1>4, <1>5, AliasesClean

-----------------------------------------------------------------------------
(* The parts of a line                                                     *)

Gcp(e) == e.kind = "access" /\ e.convention = "gcp"

\* The line before the aliases, in the order of on_event.
Merged(e) == IF e.kind = "access" THEN MergeAccessRecord(e, Base(e)) ELSE Base(e)
Output(e) == IF Gcp(e) THEN Over(Merged(e), [k \in {"httpRequest"} |-> Package(k)])
                       ELSE Merged(e)
Spanned(e) == Over(Output(e), SpanFields(e))

Envelope(e) == {"timestamp", "target", LevelKey(e.convention)}

LEMMA LineParts ==
    ASSUME NEW e
    PROVE  /\ Line(e).fields = AddProviderFields(e.convention, Spanned(e))
           /\ Line(e).http = IF Gcp(e) THEN HttpRequest(e, Merged(e)) ELSE <<>>
BY DEF Line, Spanned, Output, Merged, Gcp

LEMMA OverFields ==
    ASSUME NEW f, NEW g
    PROVE  /\ \A k : k \in DOMAIN Over(f, g) <=> k \in DOMAIN f \/ k \in DOMAIN g
           /\ \A k : k \in DOMAIN g => Over(f, g)[k] = g[k]
           /\ \A k : k \in DOMAIN f /\ k \notin DOMAIN g => Over(f, g)[k] = f[k]
BY DEF Over

LEMMA EventKinds ==
    ASSUME NEW e \in Events
    PROVE  /\ e.kind \in {"app", "access"}
           /\ e.kind = "app" <=> e \in AppEvents
           /\ e.kind = "access" <=> e \in AccessEvents
           /\ e.convention \in {"generic", "gcp", "aws", "azure"}
           /\ e.scope \in Seq(ContextKinds)
           /\ e.kind = "access" => Len(e.scope) \in DOMAIN e.scope
<1>1. e.scope \in Seq(ContextKinds)
  BY ScopesAssumption DEF Events, AppEvents, AccessEvents
<1>2. e \in AccessEvents => e.scope # <<>>
  BY DEF AccessEvents
<1>3. e.convention \in {"generic", "gcp", "aws", "azure"}
  BY ConventionsAssumption DEF Events, AppEvents, AccessEvents
<1>4. e \in AppEvents => e.kind = "app"
  BY DEF AppEvents
<1>5. e \in AccessEvents => e.kind = "access"
  BY DEF AccessEvents
<1>6. e \in AppEvents \/ e \in AccessEvents
  BY DEF Events
<1>7. e.scope # <<>> => Len(e.scope) \in DOMAIN e.scope
  BY <1>1
<1> QED  BY <1>1, <1>2, <1>3, <1>4, <1>5, <1>6, <1>7

\* Base: an application event has its own fields that are not reserved, an access
\* event its message, both under the envelope.
LEMMA BaseFields ==
    ASSUME NEW e
    PROVE  /\ \A k \in Envelope(e) : k \in DOMAIN Base(e) /\ Base(e)[k] = Package(k)
           /\ e.kind = "access" =>
                 /\ \A k : k \in DOMAIN Base(e) <=> k \in Envelope(e) \/ k = "message"
                 /\ Base(e)["message"] = Package("message")
           /\ e.kind # "access" =>
                 /\ \A k : k \in DOMAIN Base(e) <=>
                               \/ k \in Envelope(e)
                               \/ k \in e.fields /\ ~IsEventReserved(k, e.convention)
                 /\ \A k \in DOMAIN Base(e) : k \notin Envelope(e) => Base(e)[k] = App(k)
<1> DEFINE message  == [k \in {"message"} |-> Package(k)]
           own      == [k \in {k \in e.fields : ~IsEventReserved(k, e.convention)} |-> App(k)]
           envelope == [k \in Envelope(e) |-> Package(k)]
<1>1. /\ \A k : k \in DOMAIN envelope <=> k \in Envelope(e)
      /\ \A k \in Envelope(e) : envelope[k] = Package(k)
  OBVIOUS
<1>2. /\ \A k : k \in DOMAIN message <=> k = "message"
      /\ message["message"] = Package("message")
  OBVIOUS
<1>3. /\ \A k : k \in DOMAIN own <=> k \in e.fields /\ ~IsEventReserved(k, e.convention)
      /\ \A k \in DOMAIN own : own[k] = App(k)
  OBVIOUS
<1>4. e.kind = "access" => Base(e) = Over(message, envelope)
  BY DEF Base, Envelope
<1>5. e.kind # "access" => Base(e) = Over(own, envelope)
  BY DEF Base, Envelope
<1>6. "message" \notin Envelope(e)
  BY DEF Envelope, LevelKey
<1> HIDE DEF message, own, envelope
<1>7. CASE e.kind = "access"
  BY <1>1, <1>2, <1>4, <1>6, <1>7, OverFields
<1>8. CASE e.kind # "access"
  BY <1>1, <1>3, <1>5, <1>8, OverFields
<1> QED  BY <1>7, <1>8

\* The fields an access record has of its own, besides the identity of its request.
Facts == {"method", "path", "path_template", "operation_id", "peer_ip", "user_agent",
          "duration_ms", "status", "terminal_reason"}

\* The identity of the request an access event is about.
Ids(e) == IdentityFields(e.scope[Len(e.scope)])

LEMMA RecordFields ==
    ASSUME NEW e
    PROVE  /\ \A k \in Ids(e) : k \in DOMAIN Record(e) /\ Record(e)[k] = Of(Len(e.scope), k)
           /\ \A k \in DOMAIN Record(e) :
                  k \notin Ids(e) => k \in Facts /\ Record(e)[k] = Package(k)
           /\ \A k \in {"path", "peer_ip", "user_agent"} :
                  k \in DOMAIN Record(e) => k \in Captured(e.settings, e.arrival)
<1> DEFINE facts == Captured(e.settings, e.arrival) \cup {"duration_ms"}
                        \cup (IF e.end.responded THEN {"status"} ELSE {})
                        \cup (IF e.end.operation THEN {"operation_id"} ELSE {})
                        \cup (IF e.end.outcome # "completed" THEN {"terminal_reason"} ELSE {})
<1>1. Record(e) = [k \in facts \cup Ids(e) |->
                      IF k \in Ids(e) THEN Of(Len(e.scope), k) ELSE Package(k)]
  BY DEF Record, Ids
<1>2. Captured(e.settings, e.arrival) \subseteq Facts
  BY DEF Captured, Facts
<1>3. facts \subseteq Facts
  BY <1>2 DEF Facts
<1>4. \A k \in {"path", "peer_ip", "user_agent"} :
          k \in facts => k \in Captured(e.settings, e.arrival)
  OBVIOUS
<1>5. \A k \in {"path", "peer_ip", "user_agent"} : k \notin Ids(e)
  BY DEF Ids, IdentityFields, TraceFields
<1> HIDE DEF facts
<1>6. \A k : k \in DOMAIN Record(e) <=> k \in facts \/ k \in Ids(e)
  BY <1>1
<1>7. \A k \in DOMAIN Record(e) :
          Record(e)[k] = IF k \in Ids(e) THEN Of(Len(e.scope), k) ELSE Package(k)
  BY <1>1
<1> QED  BY <1>3, <1>4, <1>5, <1>6, <1>7

\* What the enricher may add.
Added(e) == {k \in e.fields : ~IsAccessReserved(k, e.convention)}

LEMMA MergedFields ==
    ASSUME NEW e \in AccessEvents
    PROVE  /\ \A k : k \in DOMAIN Merged(e) <=>
                         k = "message" \/ k \in Envelope(e) \/ k \in DOMAIN Record(e) \/ k \in Added(e)
           /\ \A k : k \in Added(e) => Merged(e)[k] = App(k)
           /\ \A k : k \in DOMAIN Record(e) /\ k \notin Added(e) /\ k # "message" =>
                         Merged(e)[k] = Record(e)[k]
           /\ \A k : /\ k \in Envelope(e) \/ k = "message"
                     /\ k \notin Added(e)
                     /\ k \notin DOMAIN Record(e) \/ k = "message"
                     => Merged(e)[k] = Package(k)
<1> DEFINE message  == [k \in {"message"} |-> Package(k)]
           record   == Record(e)
           base     == Base(e)
           terminal == Over(record, message)
           below    == Over(base, terminal)
           enriched == [k \in Added(e) |-> App(k)]
<1>1. e.kind = "access"
  BY DEF AccessEvents
<1>2. Merged(e) = Over(below, enriched)
  BY <1>1 DEF Merged, MergeAccessRecord, Added
<1>3. /\ \A k : k \in DOMAIN message <=> k = "message"
      /\ message["message"] = Package("message")
  OBVIOUS
<1>4. /\ \A k : k \in DOMAIN enriched <=> k \in Added(e)
      /\ \A k \in Added(e) : enriched[k] = App(k)
  OBVIOUS
<1>5. /\ \A k : k \in DOMAIN base <=> k \in Envelope(e) \/ k = "message"
      /\ \A k \in DOMAIN base : base[k] = Package(k)
  BY <1>1, BaseFields
<1> HIDE DEF message, enriched, base, record
<1>6. /\ \A k : k \in DOMAIN terminal <=> k \in DOMAIN record \/ k = "message"
      /\ terminal["message"] = Package("message")
      /\ \A k \in DOMAIN record : k # "message" => terminal[k] = record[k]
  BY <1>3, OverFields
<1> HIDE DEF terminal
<1>7. /\ \A k : k \in DOMAIN below <=> k \in DOMAIN base \/ k \in DOMAIN terminal
      /\ \A k \in DOMAIN terminal : below[k] = terminal[k]
      /\ \A k \in DOMAIN base : k \notin DOMAIN terminal => below[k] = base[k]
  BY OverFields
<1> HIDE DEF below
<1>8. /\ \A k : k \in DOMAIN Merged(e) <=> k \in DOMAIN below \/ k \in DOMAIN enriched
      /\ \A k \in DOMAIN enriched : Merged(e)[k] = enriched[k]
      /\ \A k \in DOMAIN below : k \notin DOMAIN enriched => Merged(e)[k] = below[k]
  BY <1>2, OverFields
<1>9. /\ \A k : k \in DOMAIN Merged(e) <=>
                    k = "message" \/ k \in Envelope(e) \/ k \in DOMAIN record \/ k \in Added(e)
      /\ \A k : k \in Added(e) => Merged(e)[k] = App(k)
      /\ \A k : k \in DOMAIN record /\ k \notin Added(e) /\ k # "message" =>
                    Merged(e)[k] = record[k]
  BY <1>4, <1>5, <1>6, <1>7, <1>8
<1>10. \A k : /\ k \in Envelope(e) \/ k = "message"
              /\ k \notin Added(e)
              /\ k \notin DOMAIN record \/ k = "message"
              => Merged(e)[k] = Package(k)
  BY <1>4, <1>5, <1>6, <1>7, <1>8
<1> QED  BY <1>9, <1>10 DEF record

\* The names the package puts on a line besides those of the event.
LEMMA OutputFields ==
    ASSUME NEW e \in Events
    PROVE  /\ \A k : k \in DOMAIN Output(e) <=>
                         k \in DOMAIN Merged(e) \/ (Gcp(e) /\ k = "httpRequest")
           /\ \A k : k \in DOMAIN Merged(e) /\ ~(Gcp(e) /\ k = "httpRequest") =>
                         Output(e)[k] = Merged(e)[k]
           /\ Gcp(e) => Output(e)["httpRequest"] = Package("httpRequest")
<1>1. CASE Gcp(e)
  <2> DEFINE http == [k \in {"httpRequest"} |-> Package(k)]
  <2>1. /\ \A k : k \in DOMAIN http <=> k = "httpRequest"
        /\ http["httpRequest"] = Package("httpRequest")
    OBVIOUS
  <2>2. Output(e) = Over(Merged(e), http)
    BY <1>1 DEF Output
  <2> HIDE DEF http
  <2> QED  BY <1>1, <2>1, <2>2, OverFields
<1>2. CASE ~Gcp(e)
  BY <1>2 DEF Output
<1> QED  BY <1>1, <1>2

\* SpanFields: the last of the requests that enclose the event and have the field.
LEMMA SpanOrigin ==
    ASSUME NEW e \in Events, NEW k \in DOMAIN SpanFields(e)
    PROVE  /\ e.enabled /\ k \in RequestFields
           /\ \E i \in DOMAIN e.scope :
                  /\ k \in IdentityFields(e.scope[i]) /\ SpanFields(e)[k] = Of(i, k)
                  /\ \A j \in DOMAIN e.scope : k \in IdentityFields(e.scope[j]) => j <= i
<1> DEFINE spans   == IF e.enabled THEN DOMAIN e.scope ELSE {}
           With(n) == {i \in spans : n \in IdentityFields(e.scope[i])}
           last    == CHOOSE i \in With(k) : \A j \in With(k) : j <= i
<1>1. DOMAIN SpanFields(e) = {n \in RequestFields : With(n) # {}}
  BY DEF SpanFields
<1>2. k \in RequestFields /\ With(k) # {} /\ e.enabled
  BY <1>1
<1>3. SpanFields(e)[k] = Of(last, k)
  BY <1>2 DEF SpanFields
<1>4. \E i \in With(k) : \A j \in With(k) : j <= i
  <2>1. Len(e.scope) \in Nat /\ With(k) \subseteq 1..Len(e.scope)
    BY EventKinds
  <2> HIDE DEF With
  <2> QED  BY <1>2, <2>1, LastExists
<1>5. last \in With(k) /\ \A j \in With(k) : j <= last
  BY <1>4
<1> HIDE DEF last
<1> QED  BY <1>2, <1>3, <1>5

LEMMA SpanDomain ==
    ASSUME NEW e \in Events
    PROVE  DOMAIN SpanFields(e) =
               {k \in RequestFields : e.enabled /\ \E i \in DOMAIN e.scope :
                                                       k \in IdentityFields(e.scope[i])}
BY DEF SpanFields

LEMMA AliasNames ==
    ASSUME NEW e \in Events, NEW k \in Aliases(e.convention)
    PROVE  /\ AliasSource(k) \in TraceFields
           /\ k \notin TraceFields \cup RequestFields
           /\ k \in PackageNames
           /\ IsEventReserved(k, e.convention) /\ IsAccessReserved(k, e.convention)
           /\ k \in Owned(e)
           /\ k \notin {"message", "timestamp", "target", "level", "severity", "httpRequest",
                        "path", "peer_ip", "user_agent"} \cup Facts
BY EventKinds DEF Aliases, AliasSource, TraceFields, RequestFields, PackageNames,
                  IsEventReserved, IsAccessReserved, Owned, Facts

\* add_provider_trace_fields makes an alias where both the trace id and the
\* field it is made of are there, and changes nothing else.
MakesAlias(c, f, k) == k \in Aliases(c) /\ "trace_id" \in DOMAIN f /\ AliasSource(k) \in DOMAIN f

LEMMA AliasFields ==
    ASSUME NEW c, NEW f
    PROVE  /\ \A k : k \in DOMAIN AddProviderFields(c, f) <=>
                         k \in DOMAIN f \/ MakesAlias(c, f, k)
           /\ \A k : MakesAlias(c, f, k) => AddProviderFields(c, f)[k] = f[AliasSource(k)]
           /\ \A k : k \in DOMAIN f /\ ~MakesAlias(c, f, k) => AddProviderFields(c, f)[k] = f[k]
<1> DEFINE made  == {k \in Aliases(c) : {"trace_id", AliasSource(k)} \subseteq DOMAIN f}
           added == [k \in made |-> f[AliasSource(k)]]
<1>1. \A k : k \in made <=> MakesAlias(c, f, k)
  BY DEF MakesAlias
<1>2. AddProviderFields(c, f) = Over(f, added)
  BY DEF AddProviderFields
<1> HIDE DEF made
<1>3. /\ \A k : k \in DOMAIN added <=> k \in made
      /\ \A k \in made : added[k] = f[AliasSource(k)]
  OBVIOUS
<1> HIDE DEF added
<1> QED  BY <1>1, <1>2, <1>3, OverFields

-----------------------------------------------------------------------------
(* Trace fields                                                            *)

\* All or none of the trace fields, and all of one request.
Together(f) ==
    \A k, l \in TraceFields : k \in DOMAIN f =>
        l \in DOMAIN f /\ f[k].request = f[l].request

LEMMA OverTogether ==
    ASSUME NEW f, NEW g, Together(f), Together(g)
    PROVE  Together(Over(f, g))
<1> DEFINE h == Over(f, g)
<1>1. /\ \A k : k \in DOMAIN h <=> k \in DOMAIN f \/ k \in DOMAIN g
      /\ \A k : k \in DOMAIN g => h[k] = g[k]
      /\ \A k : k \in DOMAIN f /\ k \notin DOMAIN g => h[k] = f[k]
  BY OverFields
<1> HIDE DEF h
<1>2. Together(h)
  BY <1>1 DEF Together
<1> QED  BY <1>2 DEF h

LEMMA SpansTogether ==
    ASSUME NEW e \in Events
    PROVE  Together(SpanFields(e))
<1> DEFINE f == SpanFields(e)
<1>1. \A c : \A k, l \in TraceFields : k \in IdentityFields(c) => l \in IdentityFields(c)
  BY DEF IdentityFields, TraceFields
<1>2. \A k \in TraceFields : k \in RequestFields
  BY DEF RequestFields
<1>3. ASSUME NEW k \in TraceFields, NEW l \in TraceFields, k \in DOMAIN f
      PROVE  l \in DOMAIN f /\ f[k].request = f[l].request
  <2>1. PICK i \in DOMAIN e.scope :
            /\ k \in IdentityFields(e.scope[i]) /\ f[k] = Of(i, k)
            /\ \A n \in DOMAIN e.scope : k \in IdentityFields(e.scope[n]) => n <= i
    BY <1>3, SpanOrigin
  <2>2. l \in DOMAIN f
    BY <1>1, <1>2, <1>3, <2>1, SpanDomain, SpanOrigin
  <2>3. PICK j \in DOMAIN e.scope :
            /\ l \in IdentityFields(e.scope[j]) /\ f[l] = Of(j, l)
            /\ \A n \in DOMAIN e.scope : l \in IdentityFields(e.scope[n]) => n <= j
    BY <2>2, SpanOrigin
  <2>4. l \in IdentityFields(e.scope[i]) /\ k \in IdentityFields(e.scope[j])
    BY <1>1, <2>1, <2>3
  <2>5. i <= j /\ j <= i /\ i \in Nat /\ j \in Nat
    BY <2>1, <2>3, <2>4, EventKinds
  <2>6. i = j
    BY <2>5
  <2> QED  BY <2>1, <2>2, <2>3, <2>6 DEF Of, Value
<1> QED  BY <1>3 DEF Together

\* No name of a trace field is the package's own, or an enricher's.
LEMMA TraceNames ==
    ASSUME NEW e, NEW k \in TraceFields
    PROVE  /\ k \notin Envelope(e) /\ k \notin Facts /\ k # "message" /\ k # "httpRequest"
           /\ k \notin Added(e) /\ IsEventReserved(k, e.convention)
<1>1. k \notin Envelope(e) /\ k \notin Facts /\ k # "message" /\ k # "httpRequest"
  BY DEF TraceFields, Envelope, LevelKey, Facts
<1>2. IsEventReserved(k, e.convention)
  BY DEF IsEventReserved, RequestFields
<1> QED  BY <1>1, <1>2 DEF Added, IsAccessReserved

LEMMA MergedTogether ==
    ASSUME NEW e \in Events
    PROVE  Together(Merged(e))
<1> DEFINE f == Merged(e)
<1>1. CASE e.kind = "app"
  <2>1. \A k \in TraceFields : k \notin DOMAIN f
    BY <1>1, BaseFields, TraceNames DEF Merged
  <2> QED  BY <2>1 DEF Together
<1>2. CASE e.kind = "access"
  <2>1. e \in AccessEvents
    BY <1>2, EventKinds
  <2>2. \A k, l \in TraceFields : k \in Ids(e) => l \in Ids(e)
    BY DEF Ids, IdentityFields, TraceFields
  <2>3. \A k \in TraceFields : k \in DOMAIN f <=> k \in DOMAIN Record(e)
    BY <2>1, TraceNames, MergedFields
  <2>4. \A k \in TraceFields : k \in DOMAIN Record(e) <=> k \in Ids(e)
    BY TraceNames, RecordFields
  <2>5. \A k \in TraceFields : k \in Ids(e) => f[k] = Record(e)[k]
    BY <2>1, <2>4, TraceNames, MergedFields
  <2>6. \A k \in TraceFields : k \in Ids(e) => f[k] = Of(Len(e.scope), k)
    BY <2>5, RecordFields
  <2> HIDE DEF f
  <2>7. \A k \in TraceFields : k \in Ids(e) => f[k].request = Len(e.scope)
    <3>1. \A i, k : Of(i, k).request = i
      BY DEF Of, Value
    <3> QED  BY <2>6, <3>1
  <2>8. Together(f)
    BY <2>2, <2>3, <2>4, <2>7 DEF Together
  <2> QED  BY <2>8 DEF f
<1> QED  BY <1>1, <1>2, EventKinds

LEMMA SpannedTogether ==
    ASSUME NEW e \in Events
    PROVE  Together(Spanned(e))
<1>1. Together([k \in {"httpRequest"} |-> Package(k)])
  BY DEF Together, TraceFields
<1>2. Together(Output(e))
  BY <1>1, MergedTogether, OverTogether DEF Output
<1> QED  BY <1>2, SpansTogether, OverTogether DEF Spanned

\* The random flag is with the trace id of a request that has one.
Flagged(e, f) ==
    "trace_id" \in DOMAIN f /\ e.scope[f["trace_id"].request] = "random" =>
        /\ "trace_id_random" \in DOMAIN f
        /\ f["trace_id_random"].request = f["trace_id"].request

\* A random flag is with a trace id, of the same request or of one inside it.
Outer(f) ==
    "trace_id_random" \in DOMAIN f =>
        "trace_id" \in DOMAIN f /\ f["trace_id_random"].request <= f["trace_id"].request

LEMMA OverFlagged ==
    ASSUME NEW e, NEW f, NEW g, Flagged(e, f), Flagged(e, g),
           "trace_id_random" \in DOMAIN g => "trace_id" \in DOMAIN g
    PROVE  Flagged(e, Over(f, g))
<1> DEFINE h == Over(f, g)
<1>1. /\ \A k : k \in DOMAIN h <=> k \in DOMAIN f \/ k \in DOMAIN g
      /\ \A k : k \in DOMAIN g => h[k] = g[k]
      /\ \A k : k \in DOMAIN f /\ k \notin DOMAIN g => h[k] = f[k]
  BY OverFields
<1> HIDE DEF h
<1>2. ASSUME "trace_id" \in DOMAIN g PROVE Flagged(e, h)
  BY <1>1, <1>2 DEF Flagged
<1>3. ASSUME "trace_id" \notin DOMAIN g PROVE Flagged(e, h)
  BY <1>1, <1>3 DEF Flagged
<1>4. Flagged(e, h)
  BY <1>2, <1>3
<1> QED  BY <1>4 DEF h

LEMMA RandomNames ==
    \A c : "trace_id_random" \in IdentityFields(c) <=> c = "random"
BY DEF IdentityFields, TraceFields

LEMMA TraceIdNames ==
    /\ {"trace_id", "trace_id_random"} \subseteq RequestFields
    /\ \A c : c = "random" => "trace_id" \in IdentityFields(c)
BY DEF IdentityFields, RequestFields, TraceFields

LEMMA SpansFlagged ==
    ASSUME NEW e \in Events
    PROVE  Flagged(e, SpanFields(e)) /\ Outer(SpanFields(e))
<1> DEFINE f == SpanFields(e)
<1>1. "trace_id_random" \in DOMAIN f => "trace_id" \in DOMAIN f
  BY SpanDomain, RandomNames, TraceIdNames
<1>2. ASSUME "trace_id" \in DOMAIN f
      PROVE  \E i \in DOMAIN e.scope :
                /\ f["trace_id"].request = i
                /\ \A n \in DOMAIN e.scope : "trace_id" \in IdentityFields(e.scope[n]) => n <= i
  BY <1>2, SpanOrigin DEF Of, Value
<1>3. ASSUME "trace_id_random" \in DOMAIN f
      PROVE  \E j \in DOMAIN e.scope :
                /\ e.scope[j] = "random" /\ f["trace_id_random"].request = j
                /\ \A n \in DOMAIN e.scope : e.scope[n] = "random" => n <= j
  BY <1>3, SpanOrigin, RandomNames DEF Of, Value
<1>4. ASSUME "trace_id_random" \in DOMAIN f
      PROVE  f["trace_id_random"].request <= f["trace_id"].request
  BY <1>1, <1>2, <1>3, <1>4, TraceIdNames
<1>5. ASSUME "trace_id" \in DOMAIN f, e.scope[f["trace_id"].request] = "random"
      PROVE  "trace_id_random" \in DOMAIN f /\ f["trace_id_random"].request = f["trace_id"].request
  <2>1. PICK i \in DOMAIN e.scope : f["trace_id"].request = i /\ e.scope[i] = "random"
    BY <1>2, <1>5
  <2>2. "trace_id_random" \in DOMAIN f
    BY <1>5, <2>1, SpanDomain, SpanOrigin, RandomNames, TraceIdNames
  <2>3. PICK j \in DOMAIN e.scope :
            /\ f["trace_id_random"].request = j
            /\ \A n \in DOMAIN e.scope : e.scope[n] = "random" => n <= j
    BY <1>3, <2>2
  <2>4. i <= j /\ j <= i /\ i \in Nat /\ j \in Nat
    BY <1>4, <2>1, <2>2, <2>3, EventKinds
  <2>5. i = j
    BY <2>4
  <2> QED  BY <2>1, <2>2, <2>3, <2>5
<1> QED  BY <1>1, <1>4, <1>5 DEF Flagged, Outer

\* The trace fields below the spans are of the request of an access record.
LEMMA MergedTrace ==
    ASSUME NEW e \in Events, NEW k \in {"trace_id", "trace_id_random"}
    PROVE  /\ k \in DOMAIN Merged(e) <=> e.kind = "access" /\ k \in Ids(e)
           /\ k \in DOMAIN Merged(e) => Merged(e)[k].request = Len(e.scope)
<1>1. /\ k \notin Added(e) /\ k # "message" /\ k \notin Envelope(e) /\ k \notin Facts
      /\ IsEventReserved(k, e.convention)
  BY DEF Added, IsAccessReserved, IsEventReserved, RequestFields, TraceFields,
         Envelope, LevelKey, Facts
<1>2. CASE e.kind = "app"
  BY <1>1, <1>2, BaseFields DEF Merged
<1>3. CASE e.kind = "access"
  <2>1. e \in AccessEvents
    BY <1>3, EventKinds
  <2>2. k \in DOMAIN Merged(e) <=> k \in Ids(e)
    BY <1>1, <2>1, MergedFields, RecordFields
  <2>3. k \in Ids(e) => Merged(e)[k] = Of(Len(e.scope), k)
    BY <1>1, <2>1, MergedFields, RecordFields
  <2> QED  BY <1>3, <2>2, <2>3 DEF Of, Value
<1> QED  BY <1>2, <1>3, EventKinds

LEMMA OutputTrace ==
    ASSUME NEW e \in Events, NEW k \in {"trace_id", "trace_id_random"}
    PROVE  /\ k \in DOMAIN Output(e) <=> e.kind = "access" /\ k \in Ids(e)
           /\ k \in DOMAIN Output(e) => Output(e)[k].request = Len(e.scope)
BY MergedTrace, OutputFields

LEMMA SpannedFlagged ==
    ASSUME NEW e \in Events
    PROVE  Flagged(e, Spanned(e)) /\ Outer(Spanned(e))
<1> DEFINE f == Output(e)
           g == SpanFields(e)
           h == Spanned(e)
<1>1. /\ \A k : k \in DOMAIN h <=> k \in DOMAIN f \/ k \in DOMAIN g
      /\ \A k : k \in DOMAIN g => h[k] = g[k]
      /\ \A k : k \in DOMAIN f /\ k \notin DOMAIN g => h[k] = f[k]
  BY OverFields DEF Spanned
<1>2. \A k \in {"trace_id", "trace_id_random"} :
          /\ k \in DOMAIN f <=> e.kind = "access" /\ k \in Ids(e)
          /\ k \in DOMAIN f => f[k].request = Len(e.scope)
  BY OutputTrace
<1>3. Flagged(e, f)
  BY <1>2, RandomNames DEF Flagged, Ids
<1>4. Flagged(e, g) /\ Outer(g)
  BY SpansFlagged
<1>5. Flagged(e, h)
  BY <1>3, <1>4, OverFlagged DEF Spanned, Outer
<1>6. ASSUME "trace_id_random" \in DOMAIN f, "trace_id_random" \notin DOMAIN g
      PROVE  "trace_id" \in DOMAIN f /\ "trace_id" \notin DOMAIN g
  <2>1. Len(e.scope) \in DOMAIN e.scope /\ e.scope[Len(e.scope)] = "random"
    BY <1>2, <1>6, RandomNames, EventKinds DEF Ids
  <2>2. ~e.enabled
    BY <1>6, <2>1, SpanDomain, RandomNames, TraceIdNames
  <2>3. "trace_id" \notin DOMAIN g
    BY <2>2, SpanDomain
  <2>4. "trace_id" \in Ids(e)
    BY <2>1, TraceIdNames DEF Ids
  <2> QED  BY <1>2, <1>6, <2>3, <2>4
<1>7. Len(e.scope) <= Len(e.scope)
  BY EventKinds
<1> HIDE DEF f, g, h
<1>8. Outer(h)
  <2>1. ASSUME "trace_id_random" \in DOMAIN g PROVE Outer(h)
    BY <1>1, <1>4, <2>1 DEF Outer
  <2>2. ASSUME "trace_id_random" \notin DOMAIN g, "trace_id_random" \in DOMAIN f PROVE Outer(h)
    <3>1. h["trace_id_random"].request = Len(e.scope) /\ h["trace_id"].request = Len(e.scope)
      BY <1>1, <1>2, <1>6, <2>2
    <3> QED  BY <1>1, <1>6, <1>7, <2>2, <3>1 DEF Outer
  <2>3. ASSUME "trace_id_random" \notin DOMAIN h PROVE Outer(h)
    BY <2>3 DEF Outer
  <2> QED  BY <1>1, <2>1, <2>2, <2>3
<1> QED  BY <1>5, <1>8 DEF h

\* httpRequest has only copies of fields of the record, and a latency.
LEMMA HttpFields ==
    ASSUME NEW e
    PROVE  \A n \in DOMAIN Line(e).http :
               \/ n = "latency"
               \/ n \in DOMAIN HttpNames /\ HttpNames[n] \in DOMAIN Merged(e)
<1>1. CASE Gcp(e)
  <2>1. Line(e).http = HttpRequest(e, Merged(e))
    BY <1>1, LineParts
  <2>2. \A f : \A n \in DOMAIN HttpRequest(e, f) :
            n = "latency" \/ (n \in DOMAIN HttpNames /\ HttpNames[n] \in DOMAIN f)
    BY DEF HttpRequest
  <2> QED  BY <2>1, <2>2
<1>2. CASE ~Gcp(e)
  <2>1. Line(e).http = <<>>
    BY <1>2, LineParts
  <2> QED  BY <2>1
<1> QED  BY <1>1, <1>2

\* The aliases leave the trace fields, and all that is no alias, as it is.
LEMMA LineKeeps ==
    ASSUME NEW e, NEW k, k \notin Aliases(e.convention)
    PROVE  /\ k \in DOMAIN Line(e).fields <=> k \in DOMAIN Spanned(e)
           /\ k \in DOMAIN Spanned(e) => Line(e).fields[k] = Spanned(e)[k]
<1> DEFINE f == Line(e).fields
           p == Spanned(e)
<1>1. f = AddProviderFields(e.convention, p)
  BY LineParts
<1>2. ~MakesAlias(e.convention, p, k)
  BY DEF MakesAlias
<1> HIDE DEF f, p
<1>3. (k \in DOMAIN f <=> k \in DOMAIN p) /\ (k \in DOMAIN p => f[k] = p[k])
  BY <1>1, <1>2, AliasFields
<1> QED  BY <1>3 DEF f, p

LEMMA LineKeepsTrace ==
    ASSUME NEW e \in Events, NEW k \in TraceFields
    PROVE  /\ k \in DOMAIN Line(e).fields <=> k \in DOMAIN Spanned(e)
           /\ k \in DOMAIN Spanned(e) => Line(e).fields[k] = Spanned(e)[k]
<1>1. k \notin Aliases(e.convention)
  BY AliasNames
<1> QED  BY <1>1, LineKeeps

-----------------------------------------------------------------------------
(* Theorems                                                                *)

\* A line is always made of its event (on_event).
THEOREM LineOfEvent == Spec => []LineInv
<1>1. Init => LineInv
  BY DEF Init, LineInv, Events
<1>2. LineInv /\ [Next]_vars => LineInv'
  BY DEF LineInv, Next, OnEvent, vars
<1> QED BY <1>1, <1>2, PTL DEF Spec

\* Application events and enrichers cannot replace or forge a field the package
\* owns (is_event_reserved, is_access_reserved), with any names, any settings
\* and any nesting of request spans.
THEOREM PackageOwnsItsNames == Spec => []OwnedNamesAreThePackages
<1>1. LineInv => OwnedNamesAreThePackages
  BY LineClean DEF LineInv, OwnedNamesAreThePackages, Clean
<1> QED BY <1>1, LineOfEvent, PTL

\* The trace id, parent, flags and sampling decision on a line are of one request,
\* and are there together; with them is its random flag if it has one, and otherwise at
\* most that of a request around it (on_event's merge of the request spans).
THEOREM TraceIsOneRequests == Spec => []TraceFieldsTogether
<1>1. ASSUME NEW e \in Events
      PROVE  Together(Line(e).fields) /\ Flagged(e, Line(e).fields) /\ Outer(Line(e).fields)
  <2> DEFINE f == Line(e).fields
             p == Spanned(e)
  <2>1. Together(p) /\ Flagged(e, p) /\ Outer(p)
    BY SpannedTogether, SpannedFlagged
  <2>2. \A k \in TraceFields : (k \in DOMAIN f <=> k \in DOMAIN p) /\ (k \in DOMAIN p => f[k] = p[k])
    BY LineKeepsTrace
  <2>3. /\ "trace_id_random" \in DOMAIN f <=> "trace_id_random" \in DOMAIN p
        /\ "trace_id_random" \in DOMAIN p => f["trace_id_random"] = p["trace_id_random"]
    <3>1. "trace_id_random" \notin Aliases(e.convention)
      BY AliasNames, TraceIdNames
    <3> QED  BY <3>1, LineKeeps
  <2> HIDE DEF f, p
  <2>4. Together(f)
    BY <2>1, <2>2 DEF Together
  <2>5. Flagged(e, f) /\ Outer(f)
    <3>1. "trace_id" \in TraceFields
      BY DEF TraceFields
    <3> QED  BY <2>1, <2>2, <2>3, <3>1 DEF Flagged, Outer
  <2> QED  BY <2>4, <2>5 DEF f
<1>2. ASSUME NEW f, Together(f)
      PROVE  /\ TraceFields \cap DOMAIN f \in {{}, TraceFields}
             /\ \A k, l \in TraceFields \cap DOMAIN f : f[k].request = f[l].request
             /\ TraceFields \cap DOMAIN f # {} => "trace_id" \in DOMAIN f
  <2>1. CASE \E k \in TraceFields : k \in DOMAIN f
    <3>1. TraceFields \cap DOMAIN f = TraceFields
      BY <1>2, <2>1 DEF Together
    <3>2. "trace_id" \in TraceFields
      BY DEF TraceFields
    <3> QED  BY <1>2, <3>1, <3>2 DEF Together
  <2>2. CASE ~\E k \in TraceFields : k \in DOMAIN f
    <3>1. TraceFields \cap DOMAIN f = {}
      BY <2>2
    <3> QED  BY <3>1
  <2> QED  BY <2>1, <2>2
<1>3. LineInv => TraceFieldsTogether
  <2> SUFFICES ASSUME LineInv, line # NoLine PROVE TraceFieldsTogether
    BY DEF TraceFieldsTogether
  <2>1. Together(line.fields) /\ Flagged(event, line.fields) /\ Outer(line.fields)
    BY <1>1 DEF LineInv
  <2>2. "trace_id" \in DOMAIN line.fields => TraceFields \cap DOMAIN line.fields # {}
    BY DEF TraceFields
  <2> QED  BY <1>2, <2>1, <2>2 DEF TraceFieldsTogether, Flagged, Outer
<1> QED  BY <1>3, LineOfEvent, PTL

\* The aliases of the convention are there exactly with a trace id and repeat the
\* line's own trace fields (add_provider_trace_fields).
THEOREM AliasesAreCopies == Spec => []AliasesRepeatTheTrace
<1>1. ASSUME NEW e \in Events, NEW k \in Aliases(e.convention)
      PROVE  /\ k \in DOMAIN Line(e).fields <=> "trace_id" \in DOMAIN Line(e).fields
             /\ k \in DOMAIN Line(e).fields =>
                    Line(e).fields[k] = Line(e).fields[AliasSource(k)]
  <2> DEFINE f == Line(e).fields
             p == Spanned(e)
  <2>1. k \notin DOMAIN p
    <3>1. k \notin DOMAIN Merged(e)
      <4>1. k \notin Envelope(e)
        BY AliasNames DEF Envelope, LevelKey
      <4>2. CASE e.kind = "app"
        BY <4>1, <4>2, BaseFields, AliasNames DEF Merged
      <4>3. CASE e.kind = "access"
        <5>1. k \notin Ids(e)
          BY AliasNames DEF Ids, IdentityFields, RequestFields
        <5>2. e \in AccessEvents
          BY <4>3, EventKinds
        <5>3. k \notin DOMAIN Record(e)
          BY <5>1, RecordFields, AliasNames
        <5>4. k \notin Added(e) /\ k # "message"
          BY AliasNames DEF Added
        <5> QED  BY <4>1, <5>2, <5>3, <5>4, MergedFields
      <4> QED  BY <4>2, <4>3, EventKinds
    <3>2. k \notin DOMAIN SpanFields(e)
      BY SpanDomain, AliasNames
    <3>3. k \notin DOMAIN Output(e)
      BY <3>1, OutputFields, AliasNames
    <3> QED  BY <3>2, <3>3, OverFields DEF Spanned
  <2>2. AliasSource(k) \in TraceFields /\ "trace_id" \in TraceFields
    BY AliasNames DEF TraceFields
  <2>3. "trace_id" \in DOMAIN p <=> AliasSource(k) \in DOMAIN p
    BY <2>2, SpannedTogether DEF Together
  <2>4. f = AddProviderFields(e.convention, p)
    BY LineParts
  <2>5. \A n \in TraceFields : (n \in DOMAIN f <=> n \in DOMAIN p) /\ (n \in DOMAIN p => f[n] = p[n])
    BY LineKeepsTrace
  <2> HIDE DEF f, p
  <2>6. k \in DOMAIN f <=> MakesAlias(e.convention, p, k)
    BY <2>1, <2>4, AliasFields
  <2>7. MakesAlias(e.convention, p, k) => f[k] = p[AliasSource(k)]
    BY <2>4, AliasFields
  <2>8. MakesAlias(e.convention, p, k) <=> "trace_id" \in DOMAIN p
    BY <2>3 DEF MakesAlias
  <2>9. /\ k \in DOMAIN f <=> "trace_id" \in DOMAIN f
        /\ k \in DOMAIN f => f[k] = f[AliasSource(k)]
    BY <2>2, <2>3, <2>5, <2>6, <2>7, <2>8
  <2> QED  BY <2>9 DEF f
<1>2. LineInv => AliasesRepeatTheTrace
  BY <1>1 DEF LineInv, AliasesRepeatTheTrace
<1> QED  BY <1>2, LineOfEvent, PTL

\* What the package does not own on a line reaches it as the application gave it.
THEOREM ApplicationKeepsItsData == Spec => []ApplicationDataSurvives
<1>1. ASSUME NEW e \in Events, NEW k \in e.fields, k \notin Owned(e)
      PROVE  k \in DOMAIN Line(e).fields /\ Line(e).fields[k] = App(k)
  <2>1. k \notin Envelope(e) \cup RequestFields \cup Aliases(e.convention)
        /\ ~(Gcp(e) /\ k = "httpRequest")
    BY <1>1 DEF Owned, Envelope, RequestFields, TraceFields, Gcp
  <2>2. k \in DOMAIN Merged(e) /\ Merged(e)[k] = App(k)
    <3>1. CASE e.kind = "app"
      <4>1. ~IsEventReserved(k, e.convention)
        BY <1>1, <2>1 DEF IsEventReserved, Owned
      <4> QED  BY <2>1, <3>1, <4>1, BaseFields DEF Merged
    <3>2. CASE e.kind = "access"
      <4>1. e \in AccessEvents
        BY <3>2, EventKinds
      <4>2. k \in Added(e)
        BY <1>1, <2>1, <3>2 DEF Added, IsAccessReserved, IsEventReserved, Owned
      <4> QED  BY <4>1, <4>2, MergedFields
    <3> QED  BY <3>1, <3>2, EventKinds
  <2>3. k \in DOMAIN Output(e) /\ Output(e)[k] = App(k)
    BY <2>1, <2>2, OutputFields
  <2>4. k \notin DOMAIN SpanFields(e)
    BY <2>1, SpanDomain
  <2>5. k \in DOMAIN Spanned(e) /\ Spanned(e)[k] = App(k)
    BY <2>3, <2>4, OverFields DEF Spanned
  <2> QED  BY <2>1, <2>5, LineKeeps
<1>2. LineInv => ApplicationDataSurvives
  BY <1>1 DEF LineInv, ApplicationDataSurvives
<1> QED  BY <1>2, LineOfEvent, PTL

\* Path, peer address and user agent are on an access line or in its httpRequest
\* only by opt-in, the user agent only if it is the request's single legal one.
THEOREM OnlyOptInDiscloses == Spec => []DisclosedOnlyByOptIn
<1> DEFINE Sensitive == {"path", "peer_ip", "user_agent"}
<1>1. ASSUME NEW e \in AccessEvents, NEW k \in Sensitive, k \in DOMAIN Merged(e)
      PROVE  k \in Captured(e.settings, e.arrival)
  <2>1. k \notin Added(e) /\ k \notin Envelope(e) /\ k # "message"
    BY DEF Added, IsAccessReserved, Envelope, LevelKey
  <2>2. k \in DOMAIN Record(e)
    BY <1>1, <2>1, MergedFields
  <2> QED  BY <2>2, RecordFields
<1>2. ASSUME NEW e \in AccessEvents, NEW k \in Sensitive, k \in DOMAIN Line(e).fields
      PROVE  k \in DOMAIN Merged(e)
  <2>1. e \in Events
    BY DEF Events
  <2>2. k \notin Aliases(e.convention)
    BY <2>1, AliasNames
  <2>3. k \in DOMAIN Spanned(e)
    BY <1>2, <2>2, LineKeeps
  <2>4. k \notin DOMAIN SpanFields(e)
    BY <2>1, SpanDomain DEF RequestFields, TraceFields
  <2>5. k \in DOMAIN Output(e)
    BY <2>3, <2>4, OverFields DEF Spanned
  <2> QED  BY <2>1, <2>5, OutputFields
<1>3. ASSUME NEW e \in AccessEvents
      PROVE  /\ "requestUrl" \in DOMAIN Line(e).http => "path" \in DOMAIN Merged(e)
             /\ "remoteIp" \in DOMAIN Line(e).http => "peer_ip" \in DOMAIN Merged(e)
             /\ "userAgent" \in DOMAIN Line(e).http => "user_agent" \in DOMAIN Merged(e)
  BY HttpFields DEF HttpNames
<1>4. ASSUME NEW e \in AccessEvents
      PROVE  /\ "path" \in Captured(e.settings, e.arrival) => "raw_path" \in e.settings
             /\ "peer_ip" \in Captured(e.settings, e.arrival) => "peer_ip" \in e.settings
             /\ "user_agent" \in Captured(e.settings, e.arrival) =>
                    "user_agent" \in e.settings /\ e.arrival.agents = "one"
  BY DEF Captured
<1>5. LineInv => DisclosedOnlyByOptIn
  <2> SUFFICES ASSUME LineInv, line # NoLine, event.kind = "access"
               PROVE  DisclosedOnlyByOptIn
    BY DEF DisclosedOnlyByOptIn
  <2>1. event \in AccessEvents /\ line = Line(event)
    BY EventKinds DEF LineInv
  <2> QED  BY <1>1, <1>2, <1>3, <1>4, <2>1 DEF DisclosedOnlyByOptIn
<1> QED  BY <1>5, LineOfEvent, PTL

\* A line has only names of the package and of its event, never obs.record, and each
\* field has an origin.
THEOREM TypeCorrect == Spec => []TypeOK
<1> DEFINE Typed(f) == /\ DOMAIN f \subseteq LineNames
                       /\ \A k \in DOMAIN f : f[k].from \in {"app", "package", "request"}
<1>1. ASSUME NEW f, NEW g, Typed(f), Typed(g) PROVE Typed(Over(f, g))
  BY <1>1, OverFields
<1>2. \A k : /\ App(k).from = "app" /\ Package(k).from = "package"
             /\ \A i : Of(i, k).from = "request"
  BY DEF App, Package, Of, Value
<1>3. ASSUME NEW e \in Events PROVE Typed(Base(e))
  <2>1. DOMAIN Base(e) \subseteq LineNames
    BY BaseFields DEF LineNames, PackageNames, Envelope, LevelKey, IsEventReserved,
                      Events, AppEvents, AccessEvents
  <2>2. \A k \in DOMAIN Base(e) : Base(e)[k] \in {App(k), Package(k)}
    BY BaseFields
  <2> QED  BY <1>2, <2>1, <2>2
<1>4. ASSUME NEW e \in AccessEvents PROVE Typed(Merged(e))
  <2>1. Added(e) \subseteq LineNames
    <3>1. e.fields \in Enrichments
      BY DEF AccessEvents
    <3>2. "obs.record" \notin Added(e)
      BY DEF Added, IsAccessReserved, IsEventReserved
    <3>3. \A k \in UNION Enrichments : k # "obs.record" => k \in LineNames
      BY DEF LineNames
    <3>4. \A k \in Added(e) : k \in UNION Enrichments
      BY <3>1 DEF Added
    <3> QED  BY <3>2, <3>3, <3>4
  <2>2. {"message"} \cup Envelope(e) \cup Facts \cup Ids(e)
            \subseteq LineNames
    BY DEF LineNames, PackageNames, Envelope, LevelKey, Facts, Ids, IdentityFields, TraceFields
  <2>3. DOMAIN Merged(e) \subseteq LineNames
    BY <2>1, <2>2, MergedFields, RecordFields
  <2>4. \A k \in DOMAIN Merged(e) :
            \/ Merged(e)[k] \in {App(k), Package(k)}
            \/ Merged(e)[k] = Of(Len(e.scope), k)
    BY MergedFields, RecordFields
  <2> QED  BY <1>2, <2>3, <2>4
<1>5. ASSUME NEW e \in Events PROVE Typed(Output(e))
  <2>1. Typed([k \in {"httpRequest"} |-> Package(k)])
    BY <1>2 DEF LineNames, PackageNames
  <2>2. Typed(Merged(e))
    BY <1>3, <1>4, EventKinds DEF Merged
  <2> HIDE DEF Typed
  <2> QED  BY <1>1, <2>1, <2>2 DEF Output
<1>6. ASSUME NEW e \in Events PROVE Typed(Spanned(e))
  <2>1. Typed(SpanFields(e))
    <3>1. DOMAIN SpanFields(e) \subseteq LineNames
      BY SpanDomain DEF LineNames, PackageNames, RequestFields, TraceFields
    <3>2. \A k \in DOMAIN SpanFields(e) : \E i : SpanFields(e)[k] = Of(i, k)
      BY SpanOrigin
    <3> QED  BY <1>2, <3>1, <3>2
  <2> HIDE DEF Typed
  <2> QED  BY <1>1, <1>5, <2>1 DEF Spanned
<1>7. ASSUME NEW e \in Events PROVE Typed(Line(e).fields)
  <2>1. Aliases(e.convention) \subseteq LineNames
    <3>1. "obs.record" \notin Aliases(e.convention)
      BY EventKinds DEF Aliases
    <3> QED  BY <3>1, AliasNames DEF LineNames
  <2> DEFINE f == Line(e).fields
             p == Spanned(e)
  <2>2. f = AddProviderFields(e.convention, p)
    BY LineParts
  <2>3. Typed(p)
    BY <1>6
  <2> HIDE DEF f, p
  <2>4. \A k \in DOMAIN f : \/ k \in DOMAIN p /\ f[k] = p[k]
                            \/ /\ k \in Aliases(e.convention) /\ AliasSource(k) \in DOMAIN p
                               /\ f[k] = p[AliasSource(k)]
    BY <2>2, AliasFields DEF MakesAlias
  <2>5. Typed(f)
    BY <2>1, <2>3, <2>4
  <2> QED  BY <2>5 DEF f
<1>8. ASSUME NEW e \in Events PROVE DOMAIN Line(e).http \subseteq HttpKeys
  BY HttpFields DEF HttpNames, HttpKeys
<1> HIDE DEF Typed
<1>9. LineInv => TypeOK
  BY <1>7, <1>8 DEF LineInv, TypeOK, Events, Typed
<1> QED  BY <1>9, LineOfEvent, PTL
=============================================================================
