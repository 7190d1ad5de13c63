---------------------------- MODULE TerminalOnce ----------------------------
(***************************************************************************)
(* What the access log promises about one request, whatever happens to the *)
(* service, to the response body and to their consumer: an accepted        *)
(* request gets one terminal report, the report is never replaced, and its *)
(* fields agree with the way the request ended.                            *)
(*                                                                         *)
(* AccessLifecycle is shown to implement this module.                      *)
(***************************************************************************)
CONSTANTS
    Requests,       \* the requests the middleware may be called with
    Statuses,       \* response status classes
    Operations,     \* application operation identifiers
    None            \* an absent status, operation or report

VARIABLES
    accepted,       \* requests that own a terminal guard, or owned one
    report          \* the terminal report of each request, None before it

vars == <<accepted, report>>

Outcomes == {"completed", "service_error", "body_error", "response_dropped"}
Levels   == {"TRACE", "DEBUG", "INFO", "WARN", "ERROR"}

\* A normal completion and a body error follow a response, so they know its
\* status; a service error never had one; every abnormal end is an ERROR.
Legal(p) ==
    /\ p.outcome # "completed" => p.level = "ERROR"
    /\ p.outcome \in {"completed", "body_error"} => p.status # None
    /\ p.outcome = "service_error" => p.status = None

Reports ==
    {p \in [outcome   : Outcomes,
            level     : Levels,
            status    : Statuses \cup {None},
            operation : Operations \cup {None}] : Legal(p)}

Init ==
    /\ accepted = {}
    /\ report = [r \in Requests |-> None]

Accept(r) ==
    /\ r \notin accepted
    /\ accepted' = accepted \cup {r}
    /\ UNCHANGED report

Report(r) ==
    /\ r \in accepted
    /\ report[r] = None
    /\ \E p \in Reports : report' = [report EXCEPT ![r] = p]
    /\ UNCHANGED accepted

Next == \E r \in Requests : Accept(r) \/ Report(r)

Spec == Init /\ [][Next]_vars
=============================================================================
