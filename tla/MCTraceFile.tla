---------------------------- MODULE MCTraceFile ----------------------------
(* Values for TraceFile: records with a title and data, and samples of two sizes. *)
EXTENDS TraceFile

MCFields == <<"title", "data">>
MCPacked == [i \in 0 .. N - 1 |-> 1 + (i % 2)]

=============================================================================
