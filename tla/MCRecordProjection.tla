------------------------- MODULE MCRecordProjection -------------------------
(* Inputs for TLC's run of RecordProjection. *)
EXTENDS RecordProjection

\* Every name the package knows, the names it treats in a special way and one
\* of the application.  Names do not interact as long as the application uses
\* them, so all at once and none at all stand for every choice.
AllNames == PackageNames \cup {"obs.record", "error", "enrichment", "custom"}

MCOwnFields   == {{}, AllNames} \cup {{n} : n \in AllNames}
MCEnrichments == {{}, AllNames}
MCScopes      == UNION {[1..n -> ContextKinds] : n \in 0..2}

\* Path and peer address go by settings of their own, and operation ids go with
\* matched routes.
MCArrivals == {a \in Arrived : a.operation = a.matched /\ a.path = a.connect}
=============================================================================
