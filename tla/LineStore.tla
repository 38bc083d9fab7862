----------------------------- MODULE LineStore ------------------------------
(***************************************************************************)
(* What log collection promises of the lines that each tailer is sent      *)
(* (internal/agent/logs.go; module LogTailer implements it): a line is on  *)
(* its way until the batch it is in is stored or refused as a whole; the   *)
(* lines of one stream leave in the order they came, each of them once;    *)
(* and a tailer that ends leaves nothing on its way.                       *)
(***************************************************************************)
EXTENDS Naturals

CONSTANTS
    Source, \* the tailers
    Line    \* the lines: a number and a stream, as [n, s]

VARIABLES
    state,  \* of each tailer: not started, open, ended
    way,    \* its lines that are on their way
    kept,   \* its lines that are stored
    lost    \* its lines that were in a batch the store refused

\* Of one stream, the lines of a set all come before those of another.
Precede(p, q) == \A l \in p, m \in q : l.s = m.s => l.n < m.n

Init ==
    /\ state = [t \in Source |-> "none"]
    /\ way = [t \in Source |-> {}] /\ kept = way /\ lost = way

Begin(t) ==
    /\ state[t] = "none" /\ state' = [state EXCEPT ![t] = "open"]
    /\ UNCHANGED <<way, kept, lost>>

\* A line that comes after all the others of its stream.
Send(t, l) ==
    /\ state[t] = "open" /\ Precede(way[t] \cup kept[t] \cup lost[t], {l})
    /\ way' = [way EXCEPT ![t] = @ \cup {l}]
    /\ UNCHANGED <<state, kept, lost>>

\* A batch is stored or lost: of each stream, the first lines on their way.
Settled(t, batch) ==
    /\ batch \subseteq way[t] /\ Precede(batch, way[t] \ batch)
    /\ way' = [way EXCEPT ![t] = @ \ batch]
    /\ \/ kept' = [kept EXCEPT ![t] = @ \cup batch] /\ lost' = lost
       \/ lost' = [lost EXCEPT ![t] = @ \cup batch] /\ kept' = kept

Settle(t) ==
    /\ state[t] = "open" /\ state' = state
    /\ \E batch \in SUBSET way[t] : Settled(t, batch)

\* The tailer ends, with what it has left as its last batch.
End(t) ==
    /\ state[t] = "open" /\ state' = [state EXCEPT ![t] = "ended"]
    /\ Settled(t, way[t])

Next ==
    \E t \in Source : Begin(t) \/ Settle(t) \/ End(t) \/ \E l \in Line : Send(t, l)

Spec == Init /\ [][Next]_<<state, way, kept, lost>>
=============================================================================
