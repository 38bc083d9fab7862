---------------------------- MODULE MCDetailView ----------------------------
(* Instances of DetailView for TLC: a server with a project whose only       *)
(* container is redeployed, and a server with a project of that name.        *)
EXTENDS DetailView
CONSTANTS A, B, a1, a2, b1, pa

MCLive == A :> (a1 :> {a1} @@ pa :> {a1, a2}) @@ B :> (b1 :> {b1} @@ pa :> {b1})
MCName == a1 :> "a" @@ a2 :> "a" @@ b1 :> "b"
Err(t) == [lvl |-> "ERR", hit |-> FALSE, at |-> t]
Info(t) == [lvl |-> "INFO", hit |-> TRUE, at |-> t]
MCWritten == a1 :> {Info(2)} @@ a2 :> {Err(2), Info(3)} @@ b1 :> {Info(2)}
Old(i) == [n |-> 10 + i, c |-> a1, at |-> i, lvl |-> "INFO", hit |-> TRUE]
MCStored == A :> <<Old(1), Old(2)>> @@ B :> <<>>
MCWindows == {[from |-> 1, to |-> 2], [from |-> 2, to |-> 3]}
MCLevels == <<"", "INFO">>
MCDialogs == {NoSearch, [re |-> TRUE, from |-> 2, to |-> 0]}
=============================================================================
