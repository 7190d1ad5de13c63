--------------------------- MODULE MCTraceContext ---------------------------
(* Headers for TLC's run of TraceContext. *)
EXTENDS TraceContext

Plain == [version |-> "00", trace |-> "id", parent |-> "id", flags |-> 3,
          framed |-> TRUE, tail |-> "none"]

\* A header value holds no control characters.
SomeParents == {p \in Parent : p.flags \in {0, 2, 3} /\ p.tail # "control"}

\* Every text of a key one character longer than the limit or shorter.
AllKeys == UNION {[1..n -> {Lower, Digit, Sign, At, Other}] : n \in 0..(MaxKey + 1)}

\* For lists: a simple key, one with a tenant, one of level 2 and an illegal one.
ListKeys == {<<Lower>>, <<Digit, At, Lower>>, <<Lower, At, At>>, <<Other>>}

Member(k, n, v, p) == [key |-> k, equals |-> n, value |-> v, padded |-> p]
Blank     == {Member(<<>>, 0, "empty", p) : p \in BOOLEAN}
Listed    == Blank \cup {Member(k, 1, "word", FALSE) : k \in ListKeys}
                   \cup {Member(<<Lower>>, 1, "spaced", TRUE)}
Malformed == {Member(<<Lower>>, n, v, p) : n \in 1..2, v \in Values, p \in BOOLEAN}
                   \cup {Member(<<Lower>>, 0, "empty", FALSE), Member(<<>>, 1, "word", FALSE)}

\* On one header line, the last member on a second one, or each on its own.
Layouts == {"one", "two", "each"}
Lines(s, layout) ==
    [members |-> s,
     starts  |-> IF s = <<>> THEN {}
                 ELSE CASE layout = "one"  -> {1}
                        [] layout = "two"  -> {1, Len(s)}
                        [] layout = "each" -> DOMAIN s]

Request(parents, members, layout) ==
    [parents |-> parents, states |-> Lines(members, layout)]

\* Lists of up to one member more than the limit; keys of every text on their own;
\* malformed members beside another; every traceparent with a good, a bad and no
\* tracestate, and none or two of them.
MCArrivals ==
    {Request(<<Plain>>, s, l) : s \in UNION {[1..n -> Listed] : n \in 0..(MaxMembers + 1)},
                                l \in Layouts}
    \cup {Request(<<Plain>>, <<Member(k, 1, "word", FALSE)>>, "one") : k \in AllKeys}
    \cup {Request(<<Plain>>, <<m, n>>, l) : m \in Malformed, n \in Listed, l \in {"one", "each"}}
    \cup {Request(ps, s, "one") :
            ps \in {<<>>, <<Plain, Plain>>} \cup {<<p>> : p \in SomeParents},
            s  \in {<<>>, <<Member(<<Lower>>, 1, "word", TRUE)>>,
                         <<Member(<<Other>>, 1, "word", FALSE)>>}}
=============================================================================
