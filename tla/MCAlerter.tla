----------------------------- MODULE MCAlerter -----------------------------
(***************************************************************************)
(* Instances of Alerter for TLC.  A cfg picks one of the rule sets below.  *)
(***************************************************************************)
EXTENDS Alerter

CONSTANTS c1, c2      \* two containers

\* Keys are <<rule, target>>, as the code builds "rule:target".
KeyRule == [k \in Keys |-> k[1]]
KeyTarget == [k \in Keys |-> k[2]]

\* One rule on the container state, evaluated by both goroutines: every duration
\* is in play.
StateRules == {"state"}
StateKey == {"state"} \X {c1}
StateSource == [r \in StateRules |-> "containers"]
StateFor == [r \in StateRules |-> 1]
StateResolveFor == [r \in StateRules |-> 1]
StateCooldown == [r \in StateRules |-> 2]
StateNotifyCooldown == [r \in StateRules |-> 1]

\* A metric rule on two containers: for and resolve_for delay both edges.
CpuRules == {"cpu"}
CpuKeys == {"cpu"} \X {c1, c2}
CpuSource == [r \in CpuRules |-> "containers"]
CpuDelay == [r \in CpuRules |-> 1]
CpuNoDelay == [r \in CpuRules |-> 0]
\* No client silences a rule.
NoSilences == -1
=============================================================================
