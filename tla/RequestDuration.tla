--------------------------- MODULE RequestDuration ---------------------------
(***************************************************************************)
(* How long a request took: the two clock readings of the middleware and   *)
(* their fallbacks, the JSON number duration_ms, and the GCP latency text  *)
(* that the formatter derives from that number (middleware.rs,             *)
(* formatter.rs).                                                          *)
(*                                                                         *)
(* Durations count nanoseconds.  The decimal radix of the units and the    *)
(* precision of f64 are parameters, so that every duration up to and       *)
(* beyond the provider's limit can be tried.  A float is a number of       *)
(* grains, 1/Grains each: fine enough that a nanosecond has full precision.*)
(***************************************************************************)
EXTENDS Integers

CONSTANTS
    Radix,      \* milliseconds of a second, microseconds of a millisecond, ... (1000)
    Precision,  \* 2 to the number of significant bits of a float (2 ^ 53)
    Grains,     \* grains of 1.0, a power of two
    LimitMs,    \* MAX_MILLISECONDS_EXCLUSIVE
    Horizon,    \* bound: the latest instant
    Readings,   \* instants a misbehaving clock may show
    None        \* no latency

ASSUME UnitsAssumption ==
    /\ {Radix, Precision, Grains, LimitMs, Horizon} \subseteq Nat \ {0}
    /\ Readings \subseteq Nat

Micro  == Radix
Milli  == Radix * Micro
Second == Radix * Milli

ASSUME FloatAssumption == Precision >= 64 /\ Precision * Second <= Grains

-----------------------------------------------------------------------------
(* Floating point                                                          *)

\* Grains between neighbours at a value of q grains.
Ulp[q \in Int] == IF q < Precision THEN 1 ELSE 2 * Ulp[q \div 2]

Up(a, b) == (2 * (a % b) > b) \/ (2 * (a % b) = b /\ (a \div b) % 2 = 1)
Nearest(a, b) == a \div b + IF Up(a, b) THEN 1 ELSE 0

\* a / b grains, rounded to a float.
Rounded(a, b) ==
    LET u == Ulp[a \div b] IN Nearest(a, b * u) * u

\* Duration::as_secs_f64.
AsSecs(d) == Rounded((d \div Second) * Grains + Rounded((d % Second) * Grains, Second), 1)

\* Duration::try_from_secs_f64.
FromSecs(f) == Nearest(f * Second, Grains)

\* serde_json prints a float exactly; without its float_roundtrip feature reading it
\* may return a neighbour.
Reread(f) == {f - Ulp[f], f, f + Ulp[f]}

-----------------------------------------------------------------------------
(* duration_ms and latency                                                 *)

Integral(ms)  == [integer |-> TRUE, value |-> ms]
Fractional(f) == [integer |-> FALSE, value |-> f]

\* Mutation of DurationMilliseconds: the test for an integer looks at microseconds.
WholeMicroseconds(d) ==
    IF (d % Second) % Micro = 0
    THEN Integral(d \div Milli)
    ELSE Fractional(Rounded(AsSecs(d) * Radix, 1))

\* duration_milliseconds: whole milliseconds are an integer, others a float.
DurationMilliseconds(d) ==
    IF (d % Second) % Milli = 0
    THEN Integral(d \div Milli)
    ELSE Fractional(Rounded(AsSecs(d) * Radix, 1))

\* The number as the formatter finds it in the serialised record.
Received(n) ==
    IF n.integer THEN {n} ELSE {Fractional(f) : f \in Reread(n.value)}

\* Seconds, and a fraction in one of four units.
Texts == [seconds : Nat, unit : {Second, Milli, Micro, 1}, fraction : Nat]

ASSUME NoneAssumption == None \notin Texts

\* format_gcp_duration: seconds and the shortest group of digits that holds the rest.
FormatGcpDuration(seconds, nanos) ==
    LET unit == CASE nanos = 0         -> Second
                  [] nanos # 0 /\ nanos % Milli = 0 -> Milli
                  [] nanos % Milli # 0 /\ nanos % Micro = 0 -> Micro
                  [] OTHER             -> 1
    IN  [seconds |-> seconds, unit |-> unit, fraction |-> nanos \div unit]

\* Mutation of GcpLatency: the fraction is cut off, not rounded.
LatencyTruncated(n) ==
    IF n.integer
    THEN IF n.value >= LimitMs THEN None
         ELSE FormatGcpDuration(n.value \div Radix, (n.value % Radix) * Milli)
    ELSE IF n.value >= LimitMs * Grains THEN None
         ELSE LET d == (Rounded(n.value, Radix) * Second) \div Grains
              IN  FormatGcpDuration(d \div Second, d % Second)

\* gcp_latency.
GcpLatency(n) ==
    IF n.integer
    THEN IF n.value >= LimitMs THEN None
         ELSE FormatGcpDuration(n.value \div Radix, (n.value % Radix) * Milli)
    ELSE IF n.value >= LimitMs * Grains THEN None
         ELSE LET d == FromSecs(Rounded(n.value, Radix))
              IN  FormatGcpDuration(d \div Second, d % Second)

\* What the text says, in nanoseconds.
Denoted(text) == text.seconds * Second + text.fraction * text.unit

-----------------------------------------------------------------------------
(* A request                                                               *)

VARIABLES
    clock,      \* "package" never fails, "flaky" may panic, "custom" shows anything too
    now,        \* the package clock
    stage,      \* "arrived", "started" once the clock was read, "done"
    started,    \* TerminalState.started
    called,     \* when inner.call() was entered
    duration,   \* of the access record
    latency,    \* of its GCP line
    failed      \* clock readings that panicked: "start", "finish"

vars == <<clock, now, stage, started, called, duration, latency, failed>>

TypeOK ==
    /\ clock \in {"package", "flaky", "custom"}
    /\ now \in 0..Horizon
    /\ stage \in {"arrived", "started", "done"}
    /\ started \in Nat /\ called \in Nat /\ duration \in Nat
    /\ latency \in Texts \cup {None}
    /\ failed \subseteq {"start", "finish"}

Init ==
    /\ clock \in {"package", "flaky", "custom"}
    /\ now = 0
    /\ stage = "arrived"
    /\ started = 0 /\ called = 0 /\ duration = 0
    /\ latency = None
    /\ failed = {}

\* What the configured clock may answer.
Shown == IF clock = "custom" THEN Readings ELSE {now}

\* One guarded reading of it, with the value that stands in for a panic.
Read(which, value, fallback) ==
    \/ value \in Shown /\ UNCHANGED failed
    \/ clock # "package" /\ value = fallback /\ failed' = failed \cup {which}

\* Time passes: generators and validators run, the service handles the request, the
\* body is streamed.
Pass ==
    /\ stage # "done"
    /\ now' \in {n \in 0..Horizon : n > now}
    /\ UNCHANGED <<clock, stage, started, called, duration, latency, failed>>

\* Mutation of Start: the clock is read after inner.call(), with the guard.
StartAfterCall ==
    /\ stage = "arrived" /\ stage' = "started"
    /\ called' = now
    /\ now' \in {n \in 0..Horizon : n >= now}
    /\ \E value \in Readings \cup {now'} :
          Read("start", value, now') /\ started' = value
    /\ UNCHANGED <<clock, duration, latency>>

\* call(): the clock is read, with the package's own as fallback, and inner.call()
\* is entered.
Start ==
    /\ stage = "arrived" /\ stage' = "started"
    /\ called' = now
    /\ \E value \in Readings \cup {now} :
          Read("start", value, now) /\ started' = value
    /\ UNCHANGED <<clock, now, duration, latency>>

\* Mutation of SaturatingSince: plain subtraction.
PlainSince(finished, start) == finished - start

\* Instant::saturating_duration_since.
SaturatingSince(finished, start) == IF finished > start THEN finished - start ELSE 0

\* finish(): a failing clock counts as the start; the access record is formatted.
Finish ==
    /\ stage = "started" /\ stage' = "done"
    /\ \E value \in Readings \cup {now, started} :
          /\ Read("finish", value, started)
          /\ duration' = SaturatingSince(value, started)
    /\ \E n \in Received(DurationMilliseconds(duration')) : latency' = GcpLatency(n)
    /\ UNCHANGED <<clock, now, started, called>>

Done == stage = "done" /\ UNCHANGED vars

Next == Pass \/ Start \/ Finish \/ Done

Spec == Init /\ [][Next]_vars

-----------------------------------------------------------------------------
(* Properties                                                              *)

\* README.md: duration_ms is "non-negative handling and streaming time", "An initial
\* clock failure uses the package monotonic clock; a finish-time failure falls back
\* to the request start".  A clock that tells the time or fails gives the time since
\* inner.call() was entered, or nothing at all when it failed at the end; a failure at
\* the start alone loses nothing.
DurationIsElapsed ==
    stage = "done" /\ clock # "custom" =>
        duration = IF "finish" \in failed THEN 0 ELSE now - called

\* The latency of a line denotes the duration to the nanosecond, through five roundings
\* and a reading that may be off by one place, up to 2 ^ 49 nanoseconds with f64 (six
\* days), and always for whole milliseconds.
LatencyIsExact ==
    stage = "done" /\ (duration < Precision \div 16 \/ duration % Milli = 0) =>
        IF duration \div Milli >= LimitMs
        THEN latency = None
        ELSE latency # None /\ Denoted(latency) = duration

\* Beyond that, up to the provider's range of ten thousand years, it is off by a few
\* parts in Precision, and it is left out only beyond or as near to the limit as that.
LatencyIsClose ==
    stage = "done" =>
        LET slack == duration \div (Precision \div 8) + 1
        IN  IF latency = None
            THEN duration + slack >= LimitMs * Milli
            ELSE /\ duration - slack <= Denoted(latency)
                 /\ Denoted(latency) <= duration + slack
                 /\ Denoted(latency) < LimitMs * Milli + slack
=============================================================================
