----------------------------- MODULE MCTracking -----------------------------
(* Instances of Tracking for TLC: two containers of one project. *)
EXTENDS Tracking
CONSTANTS n1, n2, p
MCProjectOf == [n \in Name |-> p]
=============================================================================
