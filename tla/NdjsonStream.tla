---------------------------- MODULE NdjsonStream ----------------------------
(***************************************************************************)
(* What a reader of the log may rely on: lines appear one at a time, a     *)
(* line is never altered or repeated, and the lines of one thread appear   *)
(* in the order the thread emitted them.  Events may be missing.           *)
(*                                                                         *)
(* JsonLayer is shown to implement this module.                            *)
(***************************************************************************)
EXTENDS Naturals, Sequences

CONSTANTS
    Threads,        \* emitting threads
    MaxEvents       \* bound: events per thread

VARIABLE lines      \* the events whose whole line is in the stream, in order

Events == Threads \X (1..MaxEvents)

\* The number of the last line of thread t, 0 if it has none.
LastOf(t) ==
    LET ns == {lines[i][2] : i \in {j \in DOMAIN lines : lines[j][1] = t}}
    IN  IF ns = {} THEN 0 ELSE CHOOSE n \in ns : \A m \in ns : m <= n

Init == lines = <<>>

Line(t) == \E n \in (LastOf(t) + 1)..MaxEvents : lines' = Append(lines, <<t, n>>)

Next == \E t \in Threads : Line(t)

Spec == Init /\ [][Next]_lines

\* What the contract comes to: of two lines of a thread the later one is that of the
\* later event, so no line is there twice either.
InOrder ==
    \A i, j \in DOMAIN lines :
        i < j /\ lines[i][1] = lines[j][1] => lines[i][2] < lines[j][2]
=============================================================================
