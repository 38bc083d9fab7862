---------------------------- MODULE AlertLedger ----------------------------
(***************************************************************************)
(* What the alerts table promises to its readers (alert history, the       *)
(* snapshot sent to a new subscriber, AdoptFiring): a ledger.  A row is    *)
(* opened for a key that has no open row, those nobody will close apart,   *)
(* or is itself one that nobody will close; it is closed once, never       *)
(* reopened or renamed, and finally expires.  Alerter implements it.       *)
(***************************************************************************)
EXTENDS Naturals, Sequences

CONSTANT Keys

VARIABLES
    table,      \* sequence of rows; a row's id is its index
    adrift      \* rows no alerter holds although they may be open; only read here

OpenRows(k) == {i \in 1..Len(table) : table[i].key = k /\ table[i].state = "firing"}

Init == table = <<>>

Open(k) ==
    /\ OpenRows(k) \subseteq adrift \/ Len(table) + 1 \in adrift'
    /\ table' = Append(table, [key |-> k, state |-> "firing"])

CloseSome(ids) ==
    table' = [i \in 1..Len(table) |->
                IF i \in ids /\ table[i].state = "firing"
                THEN [table[i] EXCEPT !.state = "resolved"] ELSE table[i]]

Expire(last) ==
    table' = [i \in 1..Len(table) |->
                IF i <= last THEN [table[i] EXCEPT !.state = "deleted"] ELSE table[i]]

Next ==
    \/ \E k \in Keys : Open(k)
    \/ \E ids \in SUBSET (1..Len(table)) : CloseSome(ids)
    \/ \E last \in 1..Len(table) : Expire(last)

Spec == Init /\ [][Next]_table
=============================================================================
