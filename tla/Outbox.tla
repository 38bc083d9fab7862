------------------------------- MODULE Outbox -------------------------------
(***************************************************************************)
(* What the notifier promises of a notification it is given                *)
(* (internal/agent/notify.go; module Notifier implements it): it is taken  *)
(* or, when the queue may be full, refused; those taken are dealt with one *)
(* at a time in the order they were taken, and reach some of the channels; *)
(* after Stop none is taken, and Stop returns when none is left.           *)
(***************************************************************************)
EXTENDS Naturals, Sequences

CONSTANTS Message, Channel, Stopper, Capacity \* Capacity of the queue

VARIABLES
    box,     \* the messages taken and not yet dealt with, the oldest first
    fate,    \* of each message: not given, taken, dealt with, refused
    got,     \* the channels it has reached when it is dealt with
    shut,    \* has Stop been called?
    returned \* the callers to which Stop has returned

Init ==
    /\ box = <<>> /\ fate = [m \in Message |-> "new"]
    /\ got = [m \in Message |-> {}]
    /\ shut = FALSE /\ returned = {}

\* The queue, and the message that is being sent.
Take(m) ==
    /\ ~shut /\ fate[m] = "new" /\ Len(box) <= Capacity
    /\ box' = Append(box, m) /\ fate' = [fate EXCEPT ![m] = "taken"]
    /\ UNCHANGED <<got, shut, returned>>

Refuse(m) ==
    /\ ~shut /\ fate[m] = "new" /\ Len(box) >= Capacity
    /\ fate' = [fate EXCEPT ![m] = "refused"]
    /\ UNCHANGED <<box, got, shut, returned>>

Deal(m) ==
    /\ box # <<>> /\ m = Head(box)
    /\ box' = Tail(box) /\ fate' = [fate EXCEPT ![m] = "dealt"]
    /\ \E reached \in SUBSET Channel : got' = [got EXCEPT ![m] = reached]
    /\ UNCHANGED <<shut, returned>>

Shut == ~shut /\ shut' = TRUE /\ UNCHANGED <<box, fate, got, returned>>

Return(s) ==
    /\ shut /\ box = <<>> /\ returned' = returned \cup {s}
    /\ UNCHANGED <<box, fate, got, shut>>

Next ==
    \/ \E m \in Message : Take(m) \/ Refuse(m) \/ Deal(m)
    \/ Shut \/ \E s \in Stopper : Return(s)

Spec == Init /\ [][Next]_<<box, fate, got, shut, returned>>
=============================================================================
