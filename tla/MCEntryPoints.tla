--------------------------- MODULE MCEntryPoints ---------------------------
(* Model checking of EntryPoints: every vector leads to the same place.    *)
EXTENDS EntryPoints

FlatIsr == [v \in {0, 1, 7, 10} |-> "code"]
=============================================================================
