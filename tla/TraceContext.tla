---------------------------- MODULE TraceContext ----------------------------
(***************************************************************************)
(* Inbound W3C trace context: select_trace_context (middleware.rs), the    *)
(* traceparent and tracestate parsers (trace_context.rs) and TraceContext  *)
(* (context.rs), followed along a chain of services.                       *)
(*                                                                         *)
(* A request arrives, its headers are parsed, and the handler may send the *)
(* context it was given, traceparent_bytes() and tracestate(), to the next *)
(* instrumented service, which is configured for a level of its own.       *)
(***************************************************************************)
EXTENDS Naturals, Sequences

CONSTANTS
    Arrivals,   \* headers the first service may receive
    MaxHops,    \* bound: services in the chain
    MaxMembers, \* members of a tracestate (32)
    MaxKey,     \* length of a key (256)
    MaxTenant,  \* length of the tenant of a level 1 key (241)
    MaxSystem,  \* length of the system of a level 1 key (14)
    None,       \* no trace context, no tracestate, no sender
    Pending     \* headers not parsed yet

ASSUME LimitsAssumption ==
    /\ {MaxHops, MaxMembers, MaxKey, MaxTenant, MaxSystem} \subseteq Nat \ {0}
    /\ MaxTenant + 1 + MaxSystem <= MaxKey

\* Characters of a key: lower case letter, digit, one of _-*/, at sign, any other.
Lower    == "a"
Digit    == "1"
Sign     == "_"
At       == "@"
Other    == "X"
KeyChars == {Lower, Digit, Sign}
KeyTexts == {Lower, Digit, Sign, At, Other}
Keys     == Seq(KeyTexts)

\* A member is the text between two commas: a key, the number of equals signs
\* after it, a value, and perhaps blanks around it.  Values differ in what the
\* code tells apart: "spaced" has a blank before or inside its text, "blank" is
\* blanks only, "tabbed" has an inner tab, "long" exceeds the limit, "bytes" is not
\* visible ASCII.
Values  == {"word", "spaced", "empty", "blank", "tabbed", "long", "bytes"}
Members == {m \in [key : Keys, equals : 0..2, value : Values, padded : BOOLEAN] :
                m.equals = 0 => m.value = "empty"}

\* The tracestate lines of a request, joined: all members in wire order and the
\* positions where a new header line begins.  A line has at least one member.
StateHeaders == [members : Seq(Members), starts : SUBSET Nat]

\* A traceparent value: its first 55 bytes, well framed or not (length, dashes,
\* lower case hexadecimal), and what follows them: a delimiter with or without
\* opaque text, the same with bytes that are not UTF-8, text without the
\* delimiter, or a control character somewhere.
Parent == [version : {"00", "future", "ff"},
           trace   : {"id", "zero"},
           parent  : {"id", "zero"},
           flags   : 0..255,
           framed  : BOOLEAN,
           tail    : {"none", "dash", "bytes", "glued", "control"}]

Levels  == {1, 2}
Headers == [parents : Seq(Parent), states : StateHeaders]
ASSUME ArrivalsAssumption == Arrivals \subseteq Headers

\* TraceContext; raw stands for the identifiers, the version and the bytes.
Contexts == [raw   : Parent,
             level : Levels,
             state : Seq(Members) \cup {None}]

ASSUME MarkersAssumption ==
    /\ None \notin Contexts /\ Pending \notin Contexts /\ None # Pending
    /\ None \notin Seq(Members)

-----------------------------------------------------------------------------
(* traceparent                                                             *)

\* parse_traceparent_with_level: the tests of the fixed part, then the tail by
\* version.
ValidParent(p) ==
    /\ p.framed
    /\ p.tail # "control"
    /\ p.version # "ff"
    /\ p.trace = "id" /\ p.parent = "id"
    /\ IF p.version = "00" THEN p.tail = "none" ELSE p.tail # "glued"

Sampled(c) == c.raw.flags % 2 = 1

\* trace_id_random: assigned at level 2, for the version that defines it.
TraceIdRandom(c) ==
    IF c.level = 2 /\ c.raw.version = "00" THEN (c.raw.flags \div 2) % 2 = 1 ELSE None

-----------------------------------------------------------------------------
(* tracestate                                                              *)

\* Mutation of WithTenant: a tenant begins with a letter, as other keys do.
TenantBeginsWithLetter(key, at) ==
    /\ key[at] = At
    /\ at - 1 \in 1..MaxTenant
    /\ key[1] = Lower
    /\ \A i \in 1..(at - 1) : key[i] \in KeyChars
    /\ Len(key) - at \in 1..MaxSystem
    /\ key[at + 1] = Lower
    /\ \A i \in (at + 1)..Len(key) : key[i] \in KeyChars

\* A tenant, an at sign at this position, a system.  No other position can be the
\* first at sign of a legal key, where the code splits it: neither part has one.
WithTenant(key, at) ==
    /\ key[at] = At
    /\ at - 1 \in 1..MaxTenant
    /\ key[1] \in {Lower, Digit}
    /\ \A i \in 1..(at - 1) : key[i] \in KeyChars
    /\ Len(key) - at \in 1..MaxSystem
    /\ key[at + 1] = Lower
    /\ \A i \in (at + 1)..Len(key) : key[i] \in KeyChars

\* is_valid_level_one_key.
IsLevelOneKey(key) ==
    \/ key[1] = Lower /\ \A i \in DOMAIN key : key[i] \in KeyChars
    \/ \E at \in DOMAIN key : WithTenant(key, at)

\* Mutation of IsLevelTwoKey: a key begins with a letter.
BeginsWithLetter(key) ==
    /\ key[1] = Lower
    /\ \A i \in DOMAIN key : key[i] \in KeyChars \cup {At}

IsLevelTwoKey(key) ==
    /\ key[1] \in {Lower, Digit}
    /\ \A i \in DOMAIN key : key[i] \in KeyChars \cup {At}

IsValidKey(key, level) ==
    /\ Len(key) \in 1..MaxKey
    /\ IF level = 1 THEN IsLevelOneKey(key) ELSE IsLevelTwoKey(key)

IsValidValue(value) == value \in {"word", "spaced"}

\* trim_matches: blanks around the member go, with them a value of blanks only.
Trimmed(m) ==
    [m EXCEPT !.padded = FALSE,
              !.value = IF @ = "blank" THEN "empty" ELSE @]

IsEmpty(m) == m.key = <<>> /\ m.equals = 0

\* A member splits at its first equals sign; a second one is inside the value.
IsValidMember(m, level) ==
    /\ m.equals = 1
    /\ IsValidKey(m.key, level)
    /\ IsValidValue(m.value)

Duplicated(s, i, j) == i # j /\ ~IsEmpty(s[i]) /\ ~IsEmpty(s[j]) /\ s[i].key = s[j].key

\* Mutation of ParseTraceState: an empty member does not count.
CountsNonEmpty(h, level) ==
    LET s == [i \in DOMAIN h.members |-> Trimmed(h.members[i])]
    IN  IF /\ s # <<>>
           /\ Len(SelectSeq(s, LAMBDA m : ~IsEmpty(m))) <= MaxMembers
           /\ \A i \in DOMAIN s : IsEmpty(s[i]) \/ IsValidMember(s[i], level)
           /\ \A i, j \in DOMAIN s : ~Duplicated(s, i, j)
        THEN s ELSE None

\* parse_tracestate_with_level: the header lines are joined by commas and split
\* again, so where a line begins is forgotten.
ParseTraceState(h, level) ==
    LET s == [i \in DOMAIN h.members |-> Trimmed(h.members[i])]
    IN  IF /\ s # <<>>
           /\ Len(s) <= MaxMembers
           /\ \A i \in DOMAIN s : IsEmpty(s[i]) \/ IsValidMember(s[i], level)
           /\ \A i, j \in DOMAIN s : ~Duplicated(s, i, j)
        THEN s ELSE None

-----------------------------------------------------------------------------
(* select_trace_context                                                    *)

\* Mutation of SelectTraceContext: a bad tracestate takes the context with it.
SelectAllOrNothing(h, level) ==
    LET state == ParseTraceState(h.states, level)
    IN  IF /\ Len(h.parents) = 1 /\ ValidParent(h.parents[1])
           /\ h.states.members # <<>> => state # None
        THEN [raw |-> h.parents[1], level |-> level, state |-> state]
        ELSE None

\* Mutation of SelectTraceContext: a good tracestate is enough.
SelectStateAlone(h, level) ==
    LET state == ParseTraceState(h.states, level)
    IN  IF Len(h.parents) = 1 /\ ValidParent(h.parents[1])
        THEN [raw |-> h.parents[1], level |-> level, state |-> state]
        ELSE IF state = None THEN None
        ELSE [raw |-> None, level |-> level, state |-> state]

\* Exactly one traceparent, valid; the tracestate of the request if that is valid.
SelectTraceContext(h, level) ==
    IF Len(h.parents) = 1 /\ ValidParent(h.parents[1])
    THEN [raw   |-> h.parents[1],
          level |-> level,
          state |-> ParseTraceState(h.states, level)]
    ELSE None

-----------------------------------------------------------------------------
(* A chain of services                                                     *)

VARIABLES
    headers,    \* what the current service received
    level,      \* the level it is configured for
    context,    \* what it made of the headers
    sender,     \* the context of the service before it
    hops        \* services the request has reached

vars == <<headers, level, context, sender, hops>>

TypeOK ==
    /\ headers \in Headers
    /\ level \in Levels
    /\ context \in Contexts \cup {None, Pending}
    /\ sender \in Contexts \cup {None}
    /\ hops \in 1..MaxHops

Init ==
    /\ headers \in Arrivals
    /\ level \in Levels
    /\ context = Pending
    /\ sender = None
    /\ hops = 1

\* ObservabilityService::call.
Receive ==
    /\ context = Pending
    /\ context' = SelectTraceContext(headers, level)
    /\ UNCHANGED <<headers, level, sender, hops>>

\* What a handler can send on: traceparent_bytes() and tracestate(), each in one
\* header line.
HeadersOf(c) ==
    [parents |-> <<c.raw>>,
     states  |-> IF c.state = None THEN [members |-> <<>>, starts |-> {}]
                                   ELSE [members |-> c.state, starts |-> {1}]]

Forward ==
    /\ context \notin {None, Pending}
    /\ hops < MaxHops
    /\ hops' = hops + 1
    /\ sender' = context
    /\ headers' = HeadersOf(context)
    /\ level' \in Levels
    /\ context' = Pending

\* The chain ends.
Done ==
    /\ context = None \/ (context # Pending /\ hops = MaxHops)
    /\ UNCHANGED vars

Next == Receive \/ Forward \/ Done

Spec == Init /\ [][Next]_vars

-----------------------------------------------------------------------------
(* Properties                                                              *)

\* The grammar of keys in W3C Trace Context, as sets of texts; the first level has
\* no limit on the length of a key with a tenant besides those of its parts.
Texts(chars, n) == UNION {[1..i -> chars] : i \in 0..n}
Simple       == {<<Lower>> \o rest : rest \in Texts(KeyChars, MaxKey - 1)}
Tenants      == {<<c>> \o rest : c \in {Lower, Digit}, rest \in Texts(KeyChars, MaxTenant - 1)}
Systems      == {<<Lower>> \o rest : rest \in Texts(KeyChars, MaxSystem - 1)}
MultiTenant  == {tenant \o <<At>> \o system : tenant \in Tenants, system \in Systems}
LevelTwoKeys == {<<c>> \o rest : c \in {Lower, Digit},
                                 rest \in Texts(KeyChars \cup {At}, MaxKey - 1)}
LegalKeys    == [l \in Levels |-> IF l = 1 THEN Simple \cup MultiTenant ELSE LevelTwoKeys]

\* README.md: repeated tracestate values "are combined in wire order and accepted
\* only when their selected-level grammar, unique-key rule, and 32-member limit
\* pass", "Empty members are retained and count toward the member limit".  An
\* accepted state has a member for each one received on any line, in that order,
\* with the same text but for blanks; keys are legal and occur once.
StateAsReceived ==
    context \notin {None, Pending} /\ context.state # None =>
        LET s == context.state
            w == headers.states.members
        IN  /\ Len(s) = Len(w) /\ Len(s) \in 1..MaxMembers
            /\ \A i \in DOMAIN s :
                   /\ s[i].key = w[i].key
                   /\ ~s[i].padded /\ (s[i].value # "blank")
                   /\ s[i].key # <<>> => /\ s[i].key \in LegalKeys[level]
                                         /\ s[i].equals = 1 /\ s[i].value = w[i].value
                   /\ \A j \in DOMAIN s : s[i].key = s[j].key => i = j \/ IsEmpty(s[i])

\* The other direction: a service loses no state that is legal at its level,
\* whatever lines it came in: with MaxMembers members, blanks and empty members.
LegalStateIsKept ==
    (context \notin {None, Pending} /\ context.state = None) =>
        LET w == headers.states.members
            Keyed == {i \in DOMAIN w : w[i].key # <<>> \/ w[i].equals # 0}
        IN  \/ Len(w) \notin 1..MaxMembers
            \/ \E i \in Keyed : w[i].key \notin LegalKeys[level]
                              \/ w[i].equals # 1 \/ w[i].value \notin {"word", "spaced"}
            \/ \E i, j \in Keyed : i # j /\ w[i].key = w[j].key

\* README.md "An invalid `tracestate` is discarded without invalidating a valid
\* `traceparent`": no request loses its context that would have one without
\* any tracestate.
BadStateKeepsParent ==
    context = None =>
        SelectTraceContext([parents |-> headers.parents,
                            states  |-> [members |-> <<>>, starts |-> {}]], level) = None

\* What a service accepted is accepted by the next: the context arrives with the
\* same identifiers and flags whatever the levels, and with the same tracestate,
\* text for text, unless the level drops from 2 to 1.
ForwardedContextArrives ==
    sender # None /\ context # Pending =>
        /\ context # None
        /\ context.raw = sender.raw
        /\ context.state = sender.state \/ (level < sender.level /\ context.state = None)
        /\ level = sender.level => TraceIdRandom(context) = TraceIdRandom(sender)
=============================================================================
