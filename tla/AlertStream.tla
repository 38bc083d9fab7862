----------------------------- MODULE AlertStream ----------------------------
(***************************************************************************)
(* How a client learns which alerts fire: the alerter writes a row and     *)
(* publishes an event (alert.go, makeOnStateChange in agent.go), the hub   *)
(* buffers it or drops it (hub.go), a goroutine per subscription writes it *)
(* to the connection while subscribeAlerts writes a snapshot of the open   *)
(* rows to the same connection (socket.go), and the terminal client keeps  *)
(* a bounded map of the alerts it shows (tui/client.go, tui/app.go).       *)
(*                                                                         *)
(* One connection, which subscribes once, as the client does.  Rows have   *)
(* the ids 1, 2, ... in the order in which they fired.                     *)
(***************************************************************************)
EXTENDS Integers, Sequences, FiniteSets

CONSTANTS
    MaxId,          \* bound: alerts that fire in one behaviour
    BufSize,        \* subscriberBufSize, 64 in the code
    WireSize,       \* bound: messages in the socket buffers
    SnapLimit,      \* LIMIT of QueryFiringAlerts, 1000 in the code
    MaxShown        \* cap of Session.Alerts, 1000 in the code

ASSUME StreamAssumption ==
    /\ MaxId \in Nat /\ BufSize \in Nat \ {0} /\ WireSize \in Nat \ {0}
    /\ SnapLimit \in Nat \ {0} /\ MaxShown \in Nat \ {0}

VARIABLES
    row,            \* the alerts table: state of each row
    inflight,       \* the event the alerter has written and not yet published
    pc,             \* the connection's reader, inside subscribeAlerts
    snap,           \* ids of the snapshot still to be written
    buf,            \* the subscriber's channel
    fwd,            \* the event the forwarding goroutine is about to write
    wire,           \* the connection
    shown,          \* ids in Session.Alerts
    \* history, read by properties only
    snapped,        \* ids the snapshot query returned
    cut             \* ids with an event dropped, or cut by a limit

vars == <<row, inflight, pc, snap, buf, fwd, wire, shown, snapped, cut>>

-----------------------------------------------------------------------------
Ids == 1..MaxId
Event == [id : Ids, state : {"firing", "resolved"}]
None == [id |-> 0, state |-> "none"]
Msg(i, s) == [id |-> i, state |-> s]

Fired == {i \in Ids : row[i] # "none"}
Firing == {i \in Ids : row[i] = "firing"}

\* Mutant: the subscription is made after the snapshot was written.
MutantSubscribed == pc = "write" /\ snap = {}

\* hub.Subscribe comes first in subscribeAlerts.
Subscribed == pc # "connected"

-----------------------------------------------------------------------------
(* The alerter, under a.mu: write the row, then publish *)

Fire(i) ==
    /\ inflight = None /\ row[i] = "none" /\ \A j \in 1..(i - 1) : row[j] # "none"
    /\ row' = [row EXCEPT ![i] = "firing"]
    /\ inflight' = Msg(i, "firing")
    /\ UNCHANGED <<pc, snap, buf, fwd, wire, shown, snapped, cut>>

Resolve(i) ==
    /\ inflight = None /\ row[i] = "firing"
    /\ row' = [row EXCEPT ![i] = "resolved"]
    /\ inflight' = Msg(i, "resolved")
    /\ UNCHANGED <<pc, snap, buf, fwd, wire, shown, snapped, cut>>

\* select on the subscriber's channel
Room == Len(buf) < BufSize

\* hub.Publish: never blocks, drops when the subscriber's buffer is full.
Publish ==
    /\ inflight # None
    /\ inflight' = None
    /\ buf' = IF Subscribed /\ Room THEN Append(buf, inflight) ELSE buf
    /\ cut' = IF Subscribed /\ ~Room THEN cut \cup {inflight.id} ELSE cut
    /\ UNCHANGED <<row, pc, snap, fwd, wire, shown, snapped>>

-----------------------------------------------------------------------------
(* The connection's reader: subscribeSimple, then the snapshot *)

\* The rows a query returns: the newest SnapLimit open ones.
Newest(s) == {i \in s : Cardinality({j \in s : j > i}) < SnapLimit}

\* hub.Subscribe, and the forwarding goroutine starts.
Subscribe ==
    /\ pc = "connected"
    /\ pc' = "query"
    /\ UNCHANGED <<row, inflight, snap, buf, fwd, wire, shown, snapped, cut>>

\* QueryFiringAlerts: a failed query ends subscribeAlerts without a snapshot.
Query(ok) ==
    /\ pc = "query"
    /\ pc' = "write"
    /\ LET ids == IF ok THEN Newest(Firing) ELSE {}
       IN  snap' = ids /\ snapped' = ids /\ cut' = cut \cup (Firing \ ids)
    /\ UNCHANGED <<row, inflight, buf, fwd, wire, shown>>

\* Write one row of the snapshot, the newest first.
WriteSnapshot(i) ==
    /\ pc = "write" /\ i \in snap /\ \A j \in snap : j <= i
    /\ Len(wire) < WireSize
    /\ wire' = Append(wire, Msg(i, "firing"))
    /\ snap' = snap \ {i}
    /\ UNCHANGED <<row, inflight, pc, buf, fwd, shown, snapped, cut>>

-----------------------------------------------------------------------------
(* The forwarding goroutine of subscribeSimple *)

Take ==
    /\ fwd = None /\ buf # <<>>
    /\ fwd' = Head(buf) /\ buf' = Tail(buf)
    /\ UNCHANGED <<row, inflight, pc, snap, wire, shown, snapped, cut>>

WriteEvent ==
    /\ fwd # None /\ Len(wire) < WireSize
    /\ wire' = Append(wire, fwd) /\ fwd' = None
    /\ UNCHANGED <<row, inflight, pc, snap, buf, shown, snapped, cut>>

-----------------------------------------------------------------------------
(* The client *)

\* The alert with the smallest FiredAt; alerts are taken to fire in different seconds,
\* in the order of their ids.
Oldest == {i \in shown : \A j \in shown : i <= j}

\* What a full map gives up before it takes in another alert: the oldest, even if
\* the alert it takes in is in the map already.
Evicted == IF Cardinality(shown) >= MaxShown THEN Oldest ELSE {}

\* Mutant: "resolved" is not told from "firing".
MutantIsResolved(e) == FALSE

IsResolved(e) == e.state = "resolved"

\* readLoop hands the event over, Update applies it.
Apply ==
    /\ wire # <<>>
    /\ wire' = Tail(wire)
    /\ LET e == Head(wire)
       IN  IF IsResolved(e)
           THEN shown' = shown \ {e.id} /\ UNCHANGED cut
           ELSE /\ shown' = (shown \ Evicted) \cup {e.id}
                /\ cut' = cut \cup (Evicted \ {e.id})
    /\ UNCHANGED <<row, inflight, pc, snap, buf, fwd, snapped>>

-----------------------------------------------------------------------------
Init ==
    /\ row = [i \in Ids |-> "none"] /\ inflight = None
    /\ pc = "connected" /\ snap = {} /\ buf = <<>> /\ fwd = None /\ wire = <<>>
    /\ shown = {} /\ snapped = {} /\ cut = {}

Deliver == Publish \/ Take \/ WriteEvent \/ Apply \/ \E i \in Ids : WriteSnapshot(i)

Next ==
    \/ \E i \in Ids : Fire(i) \/ Resolve(i)
    \/ Subscribe \/ \E ok \in BOOLEAN : Query(ok)
    \/ Deliver

\* The alerter finishes what it has begun, the goroutines of the connection run,
\* and the client keeps reading.
Fairness ==
    /\ WF_vars(Publish) /\ WF_vars(Take) /\ WF_vars(Apply)
    /\ SF_vars(WriteEvent)
    /\ SF_vars(\E i \in Ids : WriteSnapshot(i))
    /\ WF_vars(\E ok \in BOOLEAN : Query(ok))

Spec == Init /\ [][Next]_vars
FairSpec == Spec /\ Fairness

-----------------------------------------------------------------------------
(* Properties *)

\* Every variable has its type and the bounded buffers keep their bounds.
TypeOK ==
    /\ row \in [Ids -> {"none", "firing", "resolved"}]
    /\ inflight \in Event \cup {None} /\ fwd \in Event \cup {None}
    /\ pc \in {"connected", "query", "write"}
    /\ snap \subseteq Ids /\ shown \subseteq Ids /\ snapped \subseteq Ids
    /\ cut \subseteq Ids
    /\ buf \in Seq(Event) /\ Len(buf) <= BufSize
    /\ wire \in Seq(Event) /\ Len(wire) <= WireSize

\* The client's map never outgrows its cap, also when an alert it holds is sent to
\* it a second time, by the snapshot and by the stream.
MapBounded == Cardinality(shown) <= MaxShown

In(e, q) == \E n \in 1..Len(q) : q[n] = e

\* The event e is on its way to the client.
Coming(e) == e = inflight \/ e = fwd \/ In(e, buf) \/ In(e, wire)

\* Once the snapshot has been queried, an alert that fires is shown, or the client
\* will still be told, unless an event of it was dropped or it fell to a limit:
\* between the subscription and the snapshot no alert slips through.
NothingMissed ==
    pc = "write" =>
        \A i \in Firing \ cut :
            i \in shown \/ i \in snap \/ Coming(Msg(i, "firing"))

\* A resolved alert that is still shown is about to be removed, or it was in the
\* snapshot, or an event of it was dropped: for an alert that fired after the
\* snapshot the events alone never leave a phantom.
PhantomsFromSnapshot ==
    \A i \in shown \ (Firing \cup cut) :
        Coming(Msg(i, "resolved")) \/ i \in snapped

\* What the client shows is within its cap, and right but for such phantoms (the
\* AlertEventMsg case of Update).
ShownRight == TypeOK /\ MapBounded /\ PhantomsFromSnapshot

\* An alert that goes on firing is in the end shown for good, unless an event of
\* it was dropped or it fell to a limit.
EventuallyShown ==
    \A i \in Ids : <>[](i \in Firing \ cut /\ pc = "write") => <>[](i \in shown)

\* A "resolved" event is sent only for a row that is resolved, and rows are not
\* reopened: what NothingMissed needs to be inductive.
ResolvedIsFinal == \A i \in Ids : Coming(Msg(i, "resolved")) => row[i] = "resolved"
IInv == TypeOK /\ ResolvedIsFinal /\ NothingMissed

\* No "firing" event of i comes behind a "resolved" one, in a queue or from one to
\* the next; the snapshot alone writes out of turn.
RightOrder(q, i) ==
    \A m, n \in 1..Len(q) : m < n /\ q[m] = Msg(i, "resolved") => q[n] # Msg(i, "firing")
ResolvedLast ==
    \A i \in Ids \ snapped :
        /\ RightOrder(wire, i) /\ RightOrder(buf, i)
        /\ In(Msg(i, "resolved"), wire) => fwd # Msg(i, "firing") /\ ~In(Msg(i, "firing"), buf)
        /\ fwd = Msg(i, "resolved") => ~In(Msg(i, "firing"), buf)

\* A resolved alert that is shown or will be is going to be removed.
RemovalComing ==
    \A i \in Ids \ (snapped \cup cut) :
        row[i] = "resolved" /\ (i \in shown \/ Coming(Msg(i, "firing")))
            => Coming(Msg(i, "resolved"))

\* Before the subscription nothing reaches the client, and before its query there is
\* no snapshot; nothing is sent of an alert that has not fired, and an alert whose
\* event the alerter is about to publish still fires.
NothingEarly ==
    /\ pc = "connected" => shown = {} /\ buf = <<>> /\ fwd = None /\ wire = <<>>
    /\ pc # "write" => snapped = {}
    /\ snap \subseteq snapped
    /\ \A i \in Ids : row[i] = "none" =>
          i \notin shown /\ i \notin snapped /\ ~Coming(Msg(i, "firing"))
    /\ \A i \in Ids : inflight = Msg(i, "firing") => row[i] = "firing"

\* What makes ShownRight inductive, with the above.
ShownInv == IInv /\ MapBounded /\ NothingEarly /\ RemovalComing /\ ResolvedLast
=============================================================================
