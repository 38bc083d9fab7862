----------------------------- MODULE MCMetrics -----------------------------
(* Instances of Metrics for TLC: two servers, a graph of three points. *)
EXTENDS Metrics, TLC
CONSTANTS A, B
MCValue == {[cpu |-> 2, mem |-> 1]}
MCWindows == <<0, 5, 7>>
MCRetentions == A :> {4, 7} @@ B :> {4}
MCMaxCycles == A :> 1 @@ B :> 0
\* Rows with one peak of the CPU, and of the memory elsewhere.
Rows(times, peak) ==
    {[at |-> t, cpu |-> IF t = peak THEN 2 ELSE 1, mem |-> IF t = peak THEN 1 ELSE 2] : t \in times}
MCPast == A :> {Rows(4..10, 8), Rows({5, 6, 9, 10}, 10)}
          @@ B :> {{}}
=============================================================================
