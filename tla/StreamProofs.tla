---------------------------- MODULE StreamProofs ----------------------------
(***************************************************************************)
(* Proofs about what an agent streams to a client and what is shown of it. *)
(*                                                                         *)
(* AlertStream, for every number of alerts and every size of the buffers   *)
(* and limits: the types, that no alert slips through between the          *)
(* subscription and the snapshot, and that what the client shows is within *)
(* its cap and right but for phantoms the snapshot brought.                *)
(*                                                                         *)
(* Metrics, for any rows, servers, windows and retentions: a graph is of   *)
(* its window, "loading" ends with its own answer, a known retention is    *)
(* respected, and downsampling neither loses a peak nor invents one.       *)
(***************************************************************************)
EXTENDS AlertStream, Metrics, FiniteSetTheorems, SequenceTheorems, WellFoundedInduction, TLAPS

-----------------------------------------------------------------------------
(* Queues *)

\* Appending to a queue keeps what was in it and adds the new element.
LEMMA AppendIn ==
    ASSUME NEW S, NEW q \in Seq(S), NEW x \in S
    PROVE  /\ Append(q, x) \in Seq(S)
           /\ Len(Append(q, x)) = Len(q) + 1
           /\ \A e : In(e, Append(q, x)) <=> In(e, q) \/ e = x
<1>1. Append(q, x) \in Seq(S) /\ Len(Append(q, x)) = Len(q) + 1 /\ Len(q) \in Nat
  OBVIOUS
<1>2. \A n \in 1..Len(q) : Append(q, x)[n] = q[n]
  OBVIOUS
<1>3. Append(q, x)[Len(q) + 1] = x
  OBVIOUS
<1>4. ASSUME NEW e
      PROVE  In(e, Append(q, x)) <=> In(e, q) \/ e = x
  <2>1. 1..(Len(q) + 1) = 1..Len(q) \cup {Len(q) + 1}
    BY <1>1
  <2>2. QED
    BY <1>1, <1>2, <1>3, <2>1 DEF In
<1>5. QED
  BY <1>1, <1>4

\* Taking the head off a queue keeps everything else in it.
LEMMA TailIn ==
    ASSUME NEW S, NEW q \in Seq(S), q # <<>>
    PROVE  /\ Head(q) \in S
           /\ Tail(q) \in Seq(S)
           /\ Len(Tail(q)) = Len(q) - 1
           /\ \A e : In(e, q) <=> e = Head(q) \/ In(e, Tail(q))
<1>1. /\ Head(q) \in S /\ Tail(q) \in Seq(S) /\ Len(Tail(q)) = Len(q) - 1
      /\ Len(q) \in Nat \ {0} /\ Head(q) = q[1]
  OBVIOUS
<1>2. \A n \in 1..(Len(q) - 1) : Tail(q)[n] = q[n + 1]
  OBVIOUS
<1>3. ASSUME NEW e
      PROVE  In(e, q) <=> e = Head(q) \/ In(e, Tail(q))
  <2>1. ASSUME In(e, q) PROVE e = Head(q) \/ In(e, Tail(q))
    <3>1. PICK n \in 1..Len(q) : q[n] = e
      BY <2>1 DEF In
    <3>2. CASE n = 1
      BY <1>1, <3>1, <3>2
    <3>3. CASE n # 1
      <4>1. n - 1 \in 1..Len(Tail(q)) /\ n - 1 \in 1..(Len(q) - 1) /\ (n - 1) + 1 = n
        BY <1>1, <3>1, <3>3
      <4>2. Tail(q)[n - 1] = e
        BY <1>2, <3>1, <4>1
      <4>3. QED
        BY <4>1, <4>2 DEF In
    <3>4. QED
      BY <3>2, <3>3
  <2>2. ASSUME e = Head(q) PROVE In(e, q)
    BY <1>1, <2>2 DEF In
  <2>3. ASSUME In(e, Tail(q)) PROVE In(e, q)
    <3>1. PICK n \in 1..Len(Tail(q)) : Tail(q)[n] = e
      BY <2>3 DEF In
    <3>2. n \in 1..(Len(q) - 1) /\ n + 1 \in 1..Len(q)
      BY <1>1, <3>1
    <3>3. q[n + 1] = e
      BY <1>2, <3>1, <3>2
    <3>4. QED
      BY <3>2, <3>3 DEF In
  <2>4. QED
    BY <2>1, <2>2, <2>3
<1>4. QED
  BY <1>1, <1>3

\* Messages about alerts are events, and never the empty slot.
LEMMA MsgEvent ==
    \A i \in Ids, s \in {"firing", "resolved"} :
        /\ Msg(i, s) \in Event /\ Msg(i, s) # None
        /\ Msg(i, s).id = i /\ Msg(i, s).state = s
BY StreamAssumption DEF Msg, Event, None, Ids

\* An event is the message it stands for.
LEMMA EventMsg ==
    \A e \in Event : e = Msg(e.id, e.state) /\ e.id \in Ids
                     /\ e.state \in {"firing", "resolved"} /\ e # None
BY StreamAssumption DEF Msg, Event, None, Ids

-----------------------------------------------------------------------------
(* Types *)

\* Every step keeps the types and the bounds of the buffers.
LEMMA TypeStep == TypeOK /\ [Next]_vars => TypeOK'
<1> SUFFICES ASSUME TypeOK, [Next]_vars PROVE TypeOK'
  OBVIOUS
<1> USE StreamAssumption
<1>1. ASSUME NEW i \in Ids, Fire(i) PROVE TypeOK'
  BY <1>1, MsgEvent DEF Fire, TypeOK
<1>2. ASSUME NEW i \in Ids, Resolve(i) PROVE TypeOK'
  BY <1>2, MsgEvent DEF Resolve, TypeOK
<1>3. CASE Publish
  <2>1. inflight \in Event
    BY <1>3 DEF Publish, TypeOK
  <2>2. inflight.id \in Ids
    BY <2>1, EventMsg
  <2>3. buf' \in Seq(Event) /\ Len(buf') <= BufSize
    BY <1>3, <2>1, AppendIn DEF Publish, Room, TypeOK
  <2>4. cut' \subseteq Ids
    BY <1>3, <2>2 DEF Publish, TypeOK
  <2>5. QED
    BY <1>3, <2>3, <2>4 DEF Publish, TypeOK
<1>4. CASE Subscribe
  BY <1>4 DEF Subscribe, TypeOK
<1>5. ASSUME NEW ok \in BOOLEAN, Query(ok) PROVE TypeOK'
  BY <1>5 DEF Query, Newest, Firing, TypeOK
<1>6. CASE Take
  BY <1>6, TailIn DEF Take, TypeOK
<1>7. CASE WriteEvent
  <2>1. fwd \in Event
    BY <1>7 DEF WriteEvent, TypeOK
  <2>2. wire' \in Seq(Event) /\ Len(wire') <= WireSize
    BY <1>7, <2>1, AppendIn DEF WriteEvent, TypeOK
  <2>3. QED
    BY <1>7, <2>2 DEF WriteEvent, TypeOK
<1>8. CASE Apply
  <2>1. /\ Head(wire) \in Event /\ wire' \in Seq(Event) /\ Len(wire') <= WireSize
    BY <1>8, TailIn DEF Apply, TypeOK
  <2>2. Head(wire).id \in Ids
    BY <2>1, EventMsg
  <2>3. Evicted \subseteq Ids
    BY DEF Evicted, Oldest, TypeOK
  <2>4. shown' \subseteq Ids /\ cut' \subseteq Ids
    BY <1>8, <2>2, <2>3 DEF Apply, TypeOK
  <2>5. QED
    BY <1>8, <2>1, <2>4 DEF Apply, TypeOK
<1>9. ASSUME NEW i \in Ids, WriteSnapshot(i) PROVE TypeOK'
  <2>1. wire' \in Seq(Event) /\ Len(wire') <= WireSize
    BY <1>9, AppendIn, MsgEvent DEF WriteSnapshot, TypeOK
  <2>2. QED
    BY <1>9, <2>1 DEF WriteSnapshot, TypeOK
<1>10. CASE UNCHANGED vars
  BY <1>10 DEF vars, TypeOK
<1>11. QED
  BY <1>1, <1>2, <1>3, <1>4, <1>5, <1>6, <1>7, <1>8, <1>9, <1>10 DEF Next, Deliver

\* The initial state is well typed.
LEMMA TypeInit == Init => TypeOK
BY StreamAssumption DEF Init, TypeOK

\* TypeOK is an invariant for every size of the buffers.
THEOREM StreamTypes == Spec => []TypeOK
BY TypeInit, TypeStep, PTL DEF Spec

-----------------------------------------------------------------------------
(* Nothing is missed *)

\* The initial state: nothing is on its way and no snapshot was taken.
LEMMA InvInit == Init => IInv
<1> SUFFICES ASSUME Init PROVE IInv
  OBVIOUS
<1>1. ResolvedIsFinal
  BY MsgEvent DEF Init, ResolvedIsFinal, Coming, In
<1>2. NothingMissed
  BY DEF Init, NothingMissed
<1>3. QED
  BY TypeInit, <1>1, <1>2 DEF IInv

\* Every step keeps the invariant.
LEMMA InvStep == IInv /\ [Next]_vars => IInv'
<1> SUFFICES ASSUME IInv, [Next]_vars PROVE ResolvedIsFinal' /\ NothingMissed'
  BY TypeStep DEF IInv
<1> USE DEF IInv
<1>0. TypeOK'
  BY TypeStep
<1>1. ASSUME NEW i \in Ids, Fire(i) PROVE ResolvedIsFinal' /\ NothingMissed'
  <2>1. ASSUME NEW j \in Ids, NEW st \in {"firing", "resolved"}
        PROVE  Coming(Msg(j, st))' <=> Coming(Msg(j, st)) \/ Msg(j, st) = Msg(i, "firing")
    BY <1>1, MsgEvent DEF Fire, Coming
  <2>2. ASSUME NEW j \in Ids PROVE Msg(j, "resolved") # Msg(i, "firing")
    BY DEF Msg
  <2>3. ResolvedIsFinal'
    BY <1>1, <2>1, <2>2 DEF Fire, ResolvedIsFinal, TypeOK
  <2>4. NothingMissed'
    BY <1>1, <2>1 DEF Fire, NothingMissed, Firing, TypeOK
  <2>5. QED
    BY <2>3, <2>4
<1>2. ASSUME NEW i \in Ids, Resolve(i) PROVE ResolvedIsFinal' /\ NothingMissed'
  <2>1. ASSUME NEW j \in Ids, NEW st \in {"firing", "resolved"}
        PROVE  Coming(Msg(j, st))' <=> Coming(Msg(j, st)) \/ Msg(j, st) = Msg(i, "resolved")
    BY <1>2, MsgEvent DEF Resolve, Coming
  <2>2. ASSUME NEW j \in Ids PROVE Msg(j, "resolved") = Msg(i, "resolved") => j = i
    BY DEF Msg
  <2>3. ResolvedIsFinal'
    BY <1>2, <2>1, <2>2 DEF Resolve, ResolvedIsFinal, TypeOK
  <2>4. NothingMissed'
    BY <1>2, <2>1 DEF Resolve, NothingMissed, Firing, TypeOK
  <2>5. QED
    BY <2>3, <2>4
<1>3. CASE Publish
  <2>1. inflight \in Event
    BY <1>3 DEF Publish, TypeOK
  <2>2. ASSUME NEW e \in Event, Coming(e)' PROVE Coming(e)
    BY <1>3, <2>1, <2>2, EventMsg, AppendIn DEF Publish, Coming, TypeOK
  <2>3. ASSUME NEW e \in Event, Coming(e), pc = "write", e.id \notin cut'
        PROVE  Coming(e)'
    BY <1>3, <2>1, <2>3, AppendIn DEF Publish, Coming, Subscribed, TypeOK
  <2>4. ResolvedIsFinal'
    BY <1>3, <2>2, MsgEvent DEF Publish, ResolvedIsFinal
  <2>5. NothingMissed'
    BY <1>3, <2>3, MsgEvent DEF Publish, NothingMissed, Firing, TypeOK
  <2>6. QED
    BY <2>4, <2>5
<1>4. CASE Subscribe
  BY <1>4 DEF Subscribe, ResolvedIsFinal, NothingMissed, Coming
<1>5. ASSUME NEW ok \in BOOLEAN, Query(ok) PROVE ResolvedIsFinal' /\ NothingMissed'
  BY <1>5 DEF Query, ResolvedIsFinal, NothingMissed, Coming, Firing
<1>6. CASE Take
  <2>1. ASSUME NEW e \in Event PROVE Coming(e)' <=> Coming(e)
    BY <1>6, TailIn, EventMsg DEF Take, Coming, TypeOK
  <2>2. QED
    BY <1>6, <2>1, MsgEvent DEF Take, ResolvedIsFinal, NothingMissed, Firing
<1>7. CASE WriteEvent
  <2>1. fwd \in Event
    BY <1>7 DEF WriteEvent, TypeOK
  <2>2. ASSUME NEW e \in Event PROVE Coming(e)' <=> Coming(e)
    BY <1>7, <2>1, AppendIn, EventMsg DEF WriteEvent, Coming, TypeOK
  <2>3. QED
    BY <1>7, <2>2, MsgEvent DEF WriteEvent, ResolvedIsFinal, NothingMissed, Firing
<1>8. CASE Apply
  <2>1. /\ Head(wire) \in Event
        /\ \A e : In(e, wire) <=> e = Head(wire) \/ In(e, wire')
    BY <1>8, TailIn DEF Apply, TypeOK
  <2>2. ASSUME NEW e PROVE Coming(e) <=> e = Head(wire) \/ Coming(e)'
    BY <1>8, <2>1 DEF Apply, Coming
  <2>3. ResolvedIsFinal'
    BY <1>8, <2>2 DEF Apply, ResolvedIsFinal
  <2>4. ASSUME NEW i \in Ids, i \in (Firing \ cut)', pc' = "write"
        PROVE  i \in shown' \/ i \in snap' \/ Coming(Msg(i, "firing"))'
    <3>1. i \in Firing \ cut /\ pc = "write" /\ row[i] = "firing"
      BY <1>8, <2>4 DEF Apply, Firing
    <3>2. i \in shown \/ i \in snap \/ Coming(Msg(i, "firing"))
      BY <3>1 DEF NothingMissed
    <3>3. CASE i \in snap
      BY <1>8, <3>3 DEF Apply
    <3>4. CASE i \in shown
      <4>1. CASE IsResolved(Head(wire))
        <5>1. Head(wire) = Msg(Head(wire).id, "resolved") /\ Head(wire).id \in Ids
          BY <2>1, <4>1, EventMsg DEF IsResolved
        <5>2. Coming(Msg(Head(wire).id, "resolved"))
          BY <5>1, <2>2
        <5>3. Head(wire).id # i
          BY <5>1, <5>2, <3>1 DEF ResolvedIsFinal
        <5>4. QED
          BY <1>8, <3>4, <4>1, <5>3 DEF Apply
      <4>2. CASE ~IsResolved(Head(wire))
        BY <1>8, <2>4, <3>4, <4>2 DEF Apply
      <4>3. QED
        BY <4>1, <4>2
    <3>5. CASE Coming(Msg(i, "firing"))
      <4>1. CASE Msg(i, "firing") = Head(wire)
        BY <1>8, <4>1, MsgEvent DEF Apply, IsResolved
      <4>2. CASE Msg(i, "firing") # Head(wire)
        BY <2>2, <3>5, <4>2
      <4>3. QED
        BY <4>1, <4>2
    <3>6. QED
      BY <3>2, <3>3, <3>4, <3>5
  <2>5. NothingMissed'
    BY <2>4 DEF NothingMissed, Firing
  <2>6. QED
    BY <2>3, <2>5
<1>9. ASSUME NEW i \in Ids, WriteSnapshot(i) PROVE ResolvedIsFinal' /\ NothingMissed'
  <2>1. ASSUME NEW e PROVE In(e, wire') <=> In(e, wire) \/ e = Msg(i, "firing")
    BY <1>9, AppendIn, MsgEvent DEF WriteSnapshot, TypeOK
  <2>2. ASSUME NEW e PROVE Coming(e)' <=> Coming(e) \/ e = Msg(i, "firing")
    BY <1>9, <2>1 DEF WriteSnapshot, Coming
  <2>3. ASSUME NEW j \in Ids PROVE Msg(j, "resolved") # Msg(i, "firing")
    BY DEF Msg
  <2>4. ResolvedIsFinal'
    BY <1>9, <2>2, <2>3 DEF WriteSnapshot, ResolvedIsFinal
  <2>5. NothingMissed'
    BY <1>9, <2>2 DEF WriteSnapshot, NothingMissed, Firing
  <2>6. QED
    BY <2>4, <2>5
<1>10. CASE UNCHANGED vars
  BY <1>10 DEF vars, ResolvedIsFinal, NothingMissed, Coming, Firing
<1>11. QED
  BY <1>1, <1>2, <1>3, <1>4, <1>5, <1>6, <1>7, <1>8, <1>9, <1>10 DEF Next, Deliver

\* Whatever the sizes of the buffers and limits and however the alerter, the
\* snapshot and the stream interleave, an alert that fires is shown, or on its way
\* to the client, or was dropped for a limit: NothingMissed holds of every state.
THEOREM StreamMissesNothing == Spec => []NothingMissed
<1>1. Spec => []IInv
  BY InvInit, InvStep, PTL DEF Spec
<1>2. IInv => NothingMissed
  BY DEF IInv
<1>3. QED
  BY <1>1, <1>2, PTL

-----------------------------------------------------------------------------
(* The cap of the client's map *)

\* A nonempty set of numbers has a least one.
LEMMA Least ==
    ASSUME NEW S, S \subseteq Nat, S # {}
    PROVE  \E x \in S : \A y \in S : x <= y
<1> DEFINE R == OpToRel(<, Nat)
<1>1. IsWellFoundedOn(R, Nat)
  BY NatLessThanWellFounded
<1>2. \A x, y \in Nat : y < x => <<y, x>> \in R
  BY DEF OpToRel
<1> HIDE DEF R
<1>3. PICK x \in S : \A y \in S : <<y, x>> \notin R
  BY <1>1, WFMin
<1>4. ASSUME NEW y \in S PROVE x <= y
  <2>1. x \in Nat /\ y \in Nat
    OBVIOUS
  <2>2. ~(y < x)
    BY <1>2, <1>3, <2>1, Zenon
  <2>3. QED
    BY <2>1, <2>2
<1>5. QED
  BY <1>4

\* The map is finite, and what a full one gives up makes room for one alert.
LEMMA RoomMade ==
    ASSUME TypeOK, MapBounded, NEW i \in Ids
    PROVE  Cardinality((shown \ Evicted) \cup {i}) <= MaxShown
<1> USE StreamAssumption
<1>1. IsFiniteSet(Ids) /\ Ids \subseteq Nat
  BY FS_Interval DEF Ids
<1>2. IsFiniteSet(shown) /\ shown \subseteq Nat
  BY <1>1, FS_Subset DEF TypeOK
<1>3. Cardinality(shown) \in Nat
  BY <1>2, FS_CardinalityType
<1>4. CASE Cardinality(shown) >= MaxShown
  <2>1. shown # {}
    BY <1>3, <1>4, FS_EmptySet
  <2>2. PICK x \in shown : \A y \in shown : x <= y
    BY <1>2, <2>1, Least
  <2>3. Evicted = {x}
    <3>1. \A y \in shown : y <= x => y = x
      BY <1>2, <2>2
    <3>2. Oldest = {x}
      BY <2>2, <3>1 DEF Oldest
    <3>3. QED
      BY <1>4, <3>2 DEF Evicted
  <2>4. IsFiniteSet(shown \ {x}) /\ Cardinality(shown \ {x}) = Cardinality(shown) - 1
    BY <1>2, <2>2, FS_RemoveElement
  <2>5. /\ IsFiniteSet((shown \ {x}) \cup {i})
        /\ \/ Cardinality((shown \ {x}) \cup {i}) = Cardinality(shown \ {x})
           \/ Cardinality((shown \ {x}) \cup {i}) = Cardinality(shown \ {x}) + 1
    BY <2>4, FS_AddElement
  <2>6. Cardinality((shown \ {x}) \cup {i}) <= Cardinality(shown)
    BY <1>3, <2>4, <2>5
  <2>7. Cardinality((shown \ {x}) \cup {i}) \in Nat
    BY <2>5, FS_CardinalityType
  <2>8. QED
    BY <1>3, <2>3, <2>6, <2>7 DEF MapBounded
<1>5. CASE ~(Cardinality(shown) >= MaxShown)
  <2>1. (shown \ Evicted) \cup {i} = shown \cup {i}
    BY <1>5 DEF Evicted
  <2>2. Cardinality(shown \cup {i}) <= Cardinality(shown) + 1
    BY <1>2, <1>3, FS_AddElement
  <2>3. Cardinality(shown \cup {i}) \in Nat
    BY <1>2, FS_AddElement, FS_CardinalityType
  <2>4. QED
    BY <1>3, <1>5, <2>1, <2>2, <2>3
<1>6. QED
  BY <1>4, <1>5

\* Every step keeps the map within its cap.
LEMMA BoundStep == TypeOK /\ MapBounded /\ [Next]_vars => MapBounded'
<1> SUFFICES ASSUME TypeOK, MapBounded, [Next]_vars PROVE MapBounded'
  OBVIOUS
<1>1. CASE Apply
  <2>1. Head(wire) \in Event
    BY <1>1, TailIn DEF Apply, TypeOK
  <2>2. Head(wire).id \in Ids
    BY <2>1, EventMsg
  <2>3. CASE IsResolved(Head(wire))
    <3>1. IsFiniteSet(Ids)
      BY StreamAssumption, FS_Interval DEF Ids
    <3>2. IsFiniteSet(shown)
      BY <3>1, FS_Subset DEF TypeOK
    <3>3. shown' \in SUBSET shown
      BY <1>1, <2>3 DEF Apply
    <3>4. /\ Cardinality(shown') <= Cardinality(shown)
          /\ Cardinality(shown') \in Nat /\ Cardinality(shown) \in Nat
      BY <3>2, <3>3, FS_Subset, FS_CardinalityType
    <3>5. QED
      BY <3>4, StreamAssumption DEF MapBounded
  <2>4. CASE ~IsResolved(Head(wire))
    <3>1. shown' = (shown \ Evicted) \cup {Head(wire).id}
      BY <1>1, <2>4 DEF Apply
    <3>2. QED
      BY <2>2, <3>1, RoomMade DEF MapBounded
  <2>5. QED
    BY <2>3, <2>4
<1>2. CASE UNCHANGED shown
  BY <1>2 DEF MapBounded
<1>3. QED
  BY <1>1, <1>2 DEF Next, Deliver, Fire, Resolve, Subscribe, Query, Publish, Take,
     WriteEvent, WriteSnapshot, vars

-----------------------------------------------------------------------------
(* The order of an alert's events *)

\* A queue stays in order when no "firing" is appended behind a "resolved".
LEMMA AppendOrder ==
    ASSUME NEW q \in Seq(Event), NEW x \in Event, NEW i \in Ids, RightOrder(q, i),
           x = Msg(i, "firing") => ~In(Msg(i, "resolved"), q)
    PROVE  RightOrder(Append(q, x), i)
<1> DEFINE r == Append(q, x)
<1>1. Len(q) \in Nat /\ Len(r) = Len(q) + 1 /\ r[Len(q) + 1] = x
  OBVIOUS
<1>2. \A n \in 1..Len(q) : r[n] = q[n]
  OBVIOUS
<1> HIDE DEF r
<1>3. ASSUME NEW m \in 1..Len(r), NEW n \in 1..Len(r), m < n, r[m] = Msg(i, "resolved")
      PROVE  r[n] # Msg(i, "firing")
  <2>1. m \in 1..Len(q) /\ q[m] = Msg(i, "resolved")
    BY <1>1, <1>2, <1>3
  <2>2. CASE n \in 1..Len(q)
    BY <1>2, <1>3, <2>1, <2>2 DEF RightOrder
  <2>3. CASE n = Len(q) + 1
    <3>1. r[n] = x
      BY <1>1, <2>3
    <3>2. In(Msg(i, "resolved"), q)
      BY <2>1 DEF In
    <3>3. QED
      BY <3>1, <3>2
  <2>4. QED
    BY <1>1, <2>2, <2>3
<1>4. QED
  BY <1>3 DEF RightOrder, r

\* A queue stays in order without its head, and behind a "resolved" there is no "firing".
LEMMA TailOrder ==
    ASSUME NEW q \in Seq(Event), q # <<>>, NEW i \in Ids, RightOrder(q, i)
    PROVE  /\ RightOrder(Tail(q), i)
           /\ Head(q) = Msg(i, "resolved") => ~In(Msg(i, "firing"), Tail(q))
<1> DEFINE r == Tail(q)
<1>1. Len(q) \in Nat \ {0} /\ Len(r) = Len(q) - 1 /\ Head(q) = q[1]
  OBVIOUS
<1>2. \A n \in 1..(Len(q) - 1) : r[n] = q[n + 1]
  OBVIOUS
<1> HIDE DEF r
<1>3. \A n \in 1..Len(r) : n + 1 \in 1..Len(q) /\ r[n] = q[n + 1]
  BY <1>1, <1>2
<1>4. ASSUME NEW m \in 1..Len(r), NEW n \in 1..Len(r), m < n, r[m] = Msg(i, "resolved")
      PROVE  r[n] # Msg(i, "firing")
  <2>1. /\ m + 1 \in 1..Len(q) /\ n + 1 \in 1..Len(q) /\ m + 1 < n + 1
        /\ q[m + 1] = Msg(i, "resolved") /\ r[n] = q[n + 1]
    BY <1>3, <1>4
  <2>2. QED
    BY <2>1 DEF RightOrder
<1>5. ASSUME Head(q) = Msg(i, "resolved"), NEW n \in 1..Len(r)
      PROVE  r[n] # Msg(i, "firing")
  <2>1. /\ 1 \in 1..Len(q) /\ n + 1 \in 1..Len(q) /\ 1 < n + 1
        /\ q[1] = Msg(i, "resolved") /\ r[n] = q[n + 1]
    BY <1>1, <1>3, <1>5
  <2>2. QED
    BY <2>1 DEF RightOrder
<1>6. QED
  BY <1>4, <1>5 DEF RightOrder, In, r

-----------------------------------------------------------------------------
(* What the client shows is right *)

\* A "firing" message is no "resolved" one, and messages of different alerts differ.
LEMMA MsgApart ==
    \A i, j \in Ids :
        /\ Msg(i, "firing") # Msg(j, "resolved")
        /\ \A s \in {"firing", "resolved"} : Msg(i, s) = Msg(j, s) => i = j
BY DEF Msg

\* How each step moves the events that are on their way.
LEMMA ComingFire ==
    ASSUME TypeOK, NEW i \in Ids, Fire(i), NEW j \in Ids, NEW s \in {"firing", "resolved"}
    PROVE  Coming(Msg(j, s))' <=> Coming(Msg(j, s)) \/ Msg(j, s) = Msg(i, "firing")
BY MsgEvent DEF Fire, Coming

LEMMA ComingResolve ==
    ASSUME TypeOK, NEW i \in Ids, Resolve(i), NEW j \in Ids, NEW s \in {"firing", "resolved"}
    PROVE  Coming(Msg(j, s))' <=> Coming(Msg(j, s)) \/ Msg(j, s) = Msg(i, "resolved")
BY MsgEvent DEF Resolve, Coming

LEMMA ComingPublish ==
    ASSUME TypeOK, Publish, NEW e \in Event
    PROVE  /\ Coming(e)' => Coming(e)
           /\ Coming(e) /\ Subscribed /\ e.id \notin cut' => Coming(e)'
<1>1. inflight \in Event
  BY DEF Publish, TypeOK
<1>2. Coming(e)' => Coming(e)
  BY <1>1, EventMsg, AppendIn DEF Publish, Coming, TypeOK
<1>3. Coming(e) /\ Subscribed /\ e.id \notin cut' => Coming(e)'
  BY <1>1, AppendIn DEF Publish, Coming, Subscribed, TypeOK
<1>4. QED
  BY <1>2, <1>3

LEMMA ComingTake ==
    ASSUME TypeOK, Take, NEW e \in Event
    PROVE  Coming(e)' <=> Coming(e)
BY TailIn, EventMsg DEF Take, Coming, TypeOK

LEMMA ComingWriteEvent ==
    ASSUME TypeOK, WriteEvent, NEW e \in Event
    PROVE  Coming(e)' <=> Coming(e)
<1>1. fwd \in Event
  BY DEF WriteEvent, TypeOK
<1>2. QED
  BY <1>1, AppendIn, EventMsg DEF WriteEvent, Coming, TypeOK

LEMMA ComingApply ==
    ASSUME TypeOK, Apply, NEW e
    PROVE  Coming(e) <=> e = Head(wire) \/ Coming(e)'
<1>1. In(e, wire) <=> e = Head(wire) \/ In(e, wire')
  BY TailIn DEF Apply, TypeOK
<1>2. QED
  BY <1>1 DEF Apply, Coming

LEMMA ComingSnapshot ==
    ASSUME TypeOK, NEW i \in Ids, WriteSnapshot(i), NEW e
    PROVE  Coming(e)' <=> Coming(e) \/ e = Msg(i, "firing")
<1>1. In(e, wire') <=> In(e, wire) \/ e = Msg(i, "firing")
  BY AppendIn, MsgEvent DEF WriteSnapshot, TypeOK
<1>2. QED
  BY <1>1 DEF WriteSnapshot, Coming

\* Every step keeps NothingEarly.
LEMMA EarlyStep == TypeOK /\ NothingEarly /\ [Next]_vars => NothingEarly'
<1> SUFFICES ASSUME TypeOK, NothingEarly, [Next]_vars PROVE NothingEarly'
  OBVIOUS
<1>1. ASSUME NEW i \in Ids, Fire(i) PROVE NothingEarly'
  <2>1. ASSUME NEW j \in Ids, row'[j] = "none"
        PROVE  row[j] = "none" /\ j # i
    BY <1>1, <2>1 DEF Fire, TypeOK
  <2>2. ASSUME NEW j \in Ids, row'[j] = "none"
        PROVE  j \notin shown' /\ j \notin snapped' /\ ~Coming(Msg(j, "firing"))'
    BY <1>1, <2>1, <2>2, ComingFire, MsgApart DEF Fire, NothingEarly
  <2>3. ASSUME NEW j \in Ids, inflight' = Msg(j, "firing") PROVE row'[j] = "firing"
    BY <1>1, <2>3, MsgApart DEF Fire, TypeOK
  <2>4. QED
    BY <1>1, <2>2, <2>3 DEF Fire, NothingEarly
<1>2. ASSUME NEW i \in Ids, Resolve(i) PROVE NothingEarly'
  <2>1. ASSUME NEW j \in Ids, row'[j] = "none" PROVE row[j] = "none"
    BY <1>2, <2>1 DEF Resolve, TypeOK
  <2>2. ASSUME NEW j \in Ids, row'[j] = "none"
        PROVE  j \notin shown' /\ j \notin snapped' /\ ~Coming(Msg(j, "firing"))'
    BY <1>2, <2>1, <2>2, ComingResolve, MsgApart DEF Resolve, NothingEarly
  <2>3. ASSUME NEW j \in Ids, inflight' = Msg(j, "firing") PROVE FALSE
    BY <1>2, <2>3, MsgApart DEF Resolve
  <2>4. QED
    BY <1>2, <2>2, <2>3 DEF Resolve, NothingEarly
<1>3. CASE Publish
  <2>1. ASSUME NEW j \in Ids PROVE Coming(Msg(j, "firing"))' => Coming(Msg(j, "firing"))
    BY <1>3, ComingPublish, MsgEvent
  <2>2. ASSUME NEW j \in Ids PROVE inflight' # Msg(j, "firing")
    BY <1>3, MsgEvent DEF Publish
  <2>3. QED
    BY <1>3, <2>1, <2>2 DEF Publish, Subscribed, NothingEarly
<1>4. CASE Subscribe
  BY <1>4 DEF Subscribe, NothingEarly, Coming
<1>5. ASSUME NEW ok \in BOOLEAN, Query(ok) PROVE NothingEarly'
  <2>1. snapped' \subseteq Firing /\ snap' = snapped'
    BY <1>5 DEF Query, Newest
  <2>2. \A j \in Ids : row'[j] = "none" => j \notin snapped'
    BY <1>5, <2>1 DEF Query, Firing
  <2>3. \A j \in Ids : Coming(Msg(j, "firing"))' <=> Coming(Msg(j, "firing"))
    BY <1>5 DEF Query, Coming
  <2>4. QED
    BY <1>5, <2>1, <2>2, <2>3 DEF Query, NothingEarly
<1>6. CASE Take
  <2>1. ASSUME NEW j \in Ids PROVE Coming(Msg(j, "firing"))' <=> Coming(Msg(j, "firing"))
    BY <1>6, ComingTake, MsgEvent
  <2>2. QED
    BY <1>6, <2>1 DEF Take, NothingEarly
<1>7. CASE WriteEvent
  <2>1. ASSUME NEW j \in Ids PROVE Coming(Msg(j, "firing"))' <=> Coming(Msg(j, "firing"))
    BY <1>7, ComingWriteEvent, MsgEvent
  <2>2. QED
    BY <1>7, <2>1 DEF WriteEvent, NothingEarly
<1>8. CASE Apply
  <2>1. Head(wire) \in Event
    BY <1>8, TailIn DEF Apply, TypeOK
  <2>2. ASSUME NEW j \in Ids, row[j] = "none"
        PROVE  j \notin shown' /\ ~Coming(Msg(j, "firing"))'
    <3>1. j \notin shown /\ ~Coming(Msg(j, "firing"))
      BY <2>2 DEF NothingEarly
    <3>2. Head(wire) # Msg(j, "firing") /\ ~Coming(Msg(j, "firing"))'
      BY <1>8, <3>1, ComingApply
    <3>3. ~IsResolved(Head(wire)) => Head(wire).id # j
      BY <2>1, <3>2, EventMsg DEF IsResolved
    <3>4. QED
      BY <1>8, <3>1, <3>2, <3>3 DEF Apply
  <2>3. pc # "connected"
    BY <1>8 DEF Apply, NothingEarly
  <2>4. QED
    BY <1>8, <2>2, <2>3 DEF Apply, NothingEarly
<1>9. ASSUME NEW i \in Ids, WriteSnapshot(i) PROVE NothingEarly'
  <2>1. row[i] # "none"
    BY <1>9 DEF WriteSnapshot, NothingEarly
  <2>2. ASSUME NEW j \in Ids, row[j] = "none" PROVE ~Coming(Msg(j, "firing"))'
    BY <1>9, <2>1, <2>2, ComingSnapshot, MsgApart DEF NothingEarly
  <2>3. QED
    BY <1>9, <2>2 DEF WriteSnapshot, NothingEarly
<1>10. CASE UNCHANGED vars
  BY <1>10 DEF vars, NothingEarly, Coming
<1>11. QED
  BY <1>1, <1>2, <1>3, <1>4, <1>5, <1>6, <1>7, <1>8, <1>9, <1>10 DEF Next, Deliver

\* Every step keeps the events of an alert in order.
LEMMA OrderStep ==
    IInv /\ NothingEarly /\ ResolvedLast /\ [Next]_vars => ResolvedLast'
<1> SUFFICES ASSUME IInv, NothingEarly, ResolvedLast, [Next]_vars,
                    NEW i \in Ids, i \notin snapped'
             PROVE  /\ RightOrder(wire', i) /\ RightOrder(buf', i)
                    /\ In(Msg(i, "resolved"), wire')
                          => fwd' # Msg(i, "firing") /\ ~In(Msg(i, "firing"), buf')
                    /\ fwd' = Msg(i, "resolved") => ~In(Msg(i, "firing"), buf')
  BY DEF ResolvedLast, RightOrder, In
<1> DEFINE f == Msg(i, "firing")
           r == Msg(i, "resolved")
           Ordered(w, b, d) ==
               /\ RightOrder(w, i) /\ RightOrder(b, i)
               /\ In(r, w) => d # f /\ ~In(f, b)
               /\ d = r => ~In(f, b)
<1>a. TypeOK /\ ResolvedIsFinal
  BY DEF IInv
<1>b. f \in Event /\ r \in Event /\ f # r /\ f # None /\ r # None
  BY MsgEvent, MsgApart
<1>c. i \notin snapped => Ordered(wire, buf, fwd)
  BY DEF ResolvedLast
<1> SUFFICES Ordered(wire', buf', fwd')
  OBVIOUS
<1>1. CASE UNCHANGED <<wire, buf, fwd, snapped>>
  BY <1>1, <1>c
<1>2. CASE Publish
  <2>1. i \notin snapped /\ wire' = wire /\ fwd' = fwd
    BY <1>2 DEF Publish
  <2>2. CASE buf' = buf
    BY <1>c, <2>1, <2>2
  <2>3. CASE buf' = Append(buf, inflight)
    <3>1. inflight \in Event /\ buf \in Seq(Event)
      BY <1>2, <1>a DEF Publish, TypeOK
    <3>2. inflight = f => ~Coming(r)
      BY <1>a DEF NothingEarly, ResolvedIsFinal
    <3>3. inflight = f => ~In(r, buf) /\ ~In(r, wire) /\ fwd # r
      BY <3>2 DEF Coming
    <3>4. RightOrder(buf', i)
      BY <1>c, <2>1, <2>3, <3>1, <3>3, AppendOrder
    <3>5. In(f, buf') <=> In(f, buf) \/ f = inflight
      BY <2>3, <3>1, AppendIn
    <3>6. QED
      BY <1>c, <2>1, <3>3, <3>4, <3>5
  <2>4. QED
    BY <1>2, <2>2, <2>3 DEF Publish
<1>3. ASSUME NEW ok \in BOOLEAN, Query(ok) PROVE Ordered(wire', buf', fwd')
  <2>1. snapped = {}
    BY <1>3 DEF Query, NothingEarly
  <2>2. QED
    BY <1>3, <1>c, <2>1 DEF Query
<1>4. CASE Take
  <2>1. /\ i \notin snapped /\ wire' = wire /\ fwd' = Head(buf) /\ buf' = Tail(buf)
        /\ buf # <<>> /\ buf \in Seq(Event)
    BY <1>4, <1>a DEF Take, TypeOK
  <2>2. In(f, buf) <=> f = fwd' \/ In(f, buf')
    BY <2>1, TailIn
  <2>3. RightOrder(buf', i) /\ (fwd' = r => ~In(f, buf'))
    BY <1>c, <2>1, TailOrder
  <2>4. QED
    BY <1>c, <2>1, <2>2, <2>3
<1>5. CASE WriteEvent
  <2>1. /\ i \notin snapped /\ wire' = Append(wire, fwd) /\ fwd' = None /\ buf' = buf
        /\ fwd \in Event /\ wire \in Seq(Event)
    BY <1>5, <1>a DEF WriteEvent, TypeOK
  <2>2. In(r, wire') <=> In(r, wire) \/ r = fwd
    BY <2>1, AppendIn
  <2>3. RightOrder(wire', i)
    BY <1>c, <2>1, AppendOrder
  <2>4. QED
    BY <1>b, <1>c, <2>1, <2>2, <2>3
<1>6. CASE Apply
  <2>1. /\ i \notin snapped /\ wire' = Tail(wire) /\ fwd' = fwd /\ buf' = buf
        /\ wire # <<>> /\ wire \in Seq(Event)
    BY <1>6, <1>a DEF Apply, TypeOK
  <2>2. In(r, wire') => In(r, wire)
    BY <2>1, TailIn
  <2>3. RightOrder(wire', i)
    BY <1>c, <2>1, TailOrder
  <2>4. QED
    BY <1>c, <2>1, <2>2, <2>3
<1>7. ASSUME NEW j \in Ids, WriteSnapshot(j) PROVE Ordered(wire', buf', fwd')
  <2>1. /\ i \notin snapped /\ j \in snapped /\ fwd' = fwd /\ buf' = buf
        /\ wire' = Append(wire, Msg(j, "firing")) /\ wire \in Seq(Event)
    BY <1>7, <1>a DEF WriteSnapshot, NothingEarly, TypeOK
  <2>2. Msg(j, "firing") \in Event /\ Msg(j, "firing") # f /\ Msg(j, "firing") # r
    BY <2>1, MsgEvent, MsgApart
  <2>3. In(r, wire') <=> In(r, wire)
    BY <2>1, <2>2, AppendIn
  <2>4. RightOrder(wire', i)
    BY <1>c, <2>1, <2>2, AppendOrder
  <2>5. QED
    BY <1>c, <2>1, <2>3, <2>4
<1>8. QED
  BY <1>1, <1>2, <1>3, <1>4, <1>5, <1>6, <1>7
     DEF Next, Deliver, Fire, Resolve, Subscribe, vars

\* Every step keeps the removal of a resolved alert on its way.
LEMMA RemovalStep ==
    IInv /\ NothingEarly /\ ResolvedLast /\ RemovalComing /\ [Next]_vars => RemovalComing'
<1> SUFFICES ASSUME IInv, NothingEarly, ResolvedLast, RemovalComing, [Next]_vars,
                    NEW i \in Ids, i \notin snapped', i \notin cut',
                    row'[i] = "resolved",
                    i \in shown' \/ Coming(Msg(i, "firing"))'
             PROVE  Coming(Msg(i, "resolved"))'
  BY DEF RemovalComing
<1> DEFINE f == Msg(i, "firing")
           r == Msg(i, "resolved")
<1>a. TypeOK /\ ResolvedIsFinal
  BY DEF IInv
<1>b. f \in Event /\ r \in Event /\ f # r /\ f.id = i /\ r.id = i
  BY MsgEvent, MsgApart
<1>c. i \notin snapped /\ i \notin cut /\ row[i] = "resolved" /\ (i \in shown \/ Coming(f))
         => Coming(r)
  BY DEF RemovalComing
<1>d. inflight = f => row[i] = "firing"
  BY DEF NothingEarly
<1>1. ASSUME NEW j \in Ids, Fire(j) PROVE Coming(r)'
  <2>1. row[i] = "resolved" /\ j # i
    BY <1>1, <1>a DEF Fire, TypeOK
  <2>2. (Coming(f)' <=> Coming(f)) /\ (Coming(r)' <=> Coming(r))
    BY <1>1, <1>a, <2>1, ComingFire, MsgApart
  <2>3. QED
    BY <1>1, <1>c, <2>1, <2>2 DEF Fire
<1>2. ASSUME NEW j \in Ids, Resolve(j) PROVE Coming(r)'
  <2>1. CASE j = i
    BY <1>2, <1>a, <2>1, ComingResolve
  <2>2. CASE j # i
    <3>1. row[i] = "resolved"
      BY <1>2, <1>a, <2>2 DEF Resolve, TypeOK
    <3>2. (Coming(f)' <=> Coming(f)) /\ (Coming(r)' <=> Coming(r))
      BY <1>2, <1>a, <2>2, ComingResolve, MsgApart
    <3>3. QED
      BY <1>2, <1>c, <3>1, <3>2 DEF Resolve
  <2>3. QED
    BY <2>1, <2>2
<1>3. CASE Publish
  <2>1. /\ i \notin snapped /\ i \notin cut /\ row[i] = "resolved" /\ shown' = shown
        /\ Coming(f)' => Coming(f)
    BY <1>3, <1>a, <1>b, ComingPublish DEF Publish
  <2>2. Coming(r)
    BY <1>c, <2>1
  <2>3. Subscribed
    <3>1. SUFFICES ASSUME pc = "connected" PROVE FALSE
      BY DEF Subscribed
    <3>2. shown' = {} /\ ~Coming(f)'
      BY <1>3, <1>b, <3>1, EventMsg DEF Publish, Subscribed, NothingEarly, Coming, In
    <3>3. QED
      BY <3>2
  <2>4. QED
    BY <1>3, <1>a, <1>b, <2>2, <2>3, ComingPublish
<1>4. CASE Subscribe
  BY <1>4, <1>c DEF Subscribe, Coming
<1>5. ASSUME NEW ok \in BOOLEAN, Query(ok) PROVE Coming(r)'
  <2>1. snapped = {} /\ i \notin cut
    BY <1>5 DEF Query, NothingEarly
  <2>2. QED
    BY <1>5, <1>c, <2>1 DEF Query, Coming
<1>6. CASE Take
  <2>1. (Coming(f)' <=> Coming(f)) /\ (Coming(r)' <=> Coming(r))
    BY <1>6, <1>a, <1>b, ComingTake
  <2>2. QED
    BY <1>6, <1>c, <2>1 DEF Take
<1>7. CASE WriteEvent
  <2>1. (Coming(f)' <=> Coming(f)) /\ (Coming(r)' <=> Coming(r))
    BY <1>7, <1>a, <1>b, ComingWriteEvent
  <2>2. QED
    BY <1>7, <1>c, <2>1 DEF WriteEvent
<1>8. CASE Apply
  <2>1. /\ i \notin snapped /\ i \notin cut /\ row[i] = "resolved"
        /\ wire # <<>> /\ wire \in Seq(Event) /\ wire' = Tail(wire)
        /\ UNCHANGED <<buf, fwd, inflight>>
    BY <1>8, <1>a DEF Apply, TypeOK
  <2>2. Head(wire) \in Event
    BY <2>1, TailIn
  <2>3. Coming(f) <=> f = Head(wire) \/ Coming(f)'
    BY <1>8, <1>a, ComingApply
  <2>4. Coming(r) <=> r = Head(wire) \/ Coming(r)'
    BY <1>8, <1>a, ComingApply
  <2>5. CASE Head(wire) = r
    <3>1. i \notin shown'
      BY <1>8, <1>b, <2>5, MsgEvent DEF Apply, IsResolved
    <3>2. In(r, wire)
      BY <2>1, <2>5, TailIn
    <3>3. fwd # f /\ ~In(f, buf) /\ RightOrder(wire, i)
      BY <2>1, <3>2 DEF ResolvedLast
    <3>4. ~In(f, wire')
      BY <2>1, <2>5, <3>3, TailOrder
    <3>5. inflight # f
      BY <1>d, <2>1
    <3>6. ~Coming(f)'
      BY <2>1, <3>3, <3>4, <3>5 DEF Coming
    <3>7. QED
      BY <3>1, <3>6
  <2>6. CASE Head(wire) # r
    <3>1. i \in shown' => i \in shown \/ Head(wire) = f
      <4>1. CASE IsResolved(Head(wire))
        BY <1>8, <4>1 DEF Apply
      <4>2. CASE ~IsResolved(Head(wire))
        <5>1. Head(wire) = Msg(Head(wire).id, "firing")
          BY <2>2, <4>2, EventMsg DEF IsResolved
        <5>2. QED
          BY <1>8, <4>2, <5>1 DEF Apply
      <4>3. QED
        BY <4>1, <4>2
    <3>2. Coming(r)
      BY <1>c, <2>1, <2>3, <3>1
    <3>3. QED
      BY <2>4, <2>6, <3>2
  <2>7. QED
    BY <2>5, <2>6
<1>9. ASSUME NEW j \in Ids, WriteSnapshot(j) PROVE Coming(r)'
  <2>1. i \notin snapped /\ i # j
    BY <1>9 DEF WriteSnapshot, NothingEarly
  <2>2. (Coming(f)' <=> Coming(f)) /\ (Coming(r)' <=> Coming(r))
    BY <1>9, <1>a, <2>1, ComingSnapshot, MsgApart
  <2>3. QED
    BY <1>9, <1>c, <2>1, <2>2 DEF WriteSnapshot
<1>10. CASE UNCHANGED vars
  BY <1>10, <1>c DEF vars, Coming
<1>11. QED
  BY <1>1, <1>2, <1>3, <1>4, <1>5, <1>6, <1>7, <1>8, <1>9, <1>10 DEF Next, Deliver

\* The initial state: nothing has fired and nothing is on its way.
LEMMA ShownInit == Init => ShownInv
<1> SUFFICES ASSUME Init PROVE ShownInv
  OBVIOUS
<1> USE StreamAssumption
<1>1. MapBounded
  BY FS_EmptySet DEF Init, MapBounded
<1>2. NothingEarly /\ RemovalComing /\ ResolvedLast
  BY MsgEvent DEF Init, NothingEarly, RemovalComing, ResolvedLast, RightOrder, Coming, In
<1>3. QED
  BY <1>1, <1>2, InvInit DEF ShownInv

\* Every step keeps the invariant.
LEMMA ShownStep == ShownInv /\ [Next]_vars => ShownInv'
BY InvStep, BoundStep, EarlyStep, OrderStep, RemovalStep DEF ShownInv, IInv

\* Whatever the sizes of the buffers and limits and however the alerter, the
\* snapshot and the stream interleave, the client shows no more alerts than its cap,
\* and a resolved one only until its event arrives, unless the snapshot had it or a
\* limit took the event: ShownRight holds of every state.
THEOREM ShownIsRight == Spec => []ShownRight
<1>1. Spec => []ShownInv
  BY ShownInit, ShownStep, PTL DEF Spec
<1>2. ASSUME ShownInv PROVE PhantomsFromSnapshot
  <2>1. TypeOK /\ NothingEarly /\ RemovalComing
    BY <1>2 DEF ShownInv, IInv
  <2>2. ASSUME NEW i \in shown \ (Firing \cup cut), i \notin snapped
        PROVE  Coming(Msg(i, "resolved"))
    <3>1. i \in Ids /\ row[i] = "resolved"
      BY <2>1, <2>2 DEF TypeOK, Firing, NothingEarly
    <3>2. QED
      BY <2>1, <2>2, <3>1 DEF RemovalComing
  <2>3. QED
    BY <2>2 DEF PhantomsFromSnapshot
<1>3. ShownInv => ShownRight
  BY <1>2 DEF ShownInv, IInv, ShownRight
<1>4. QED
  BY <1>1, <1>3, PTL
-----------------------------------------------------------------------------
(* Metrics: rings and answers *)

\* A ring keeps at most its capacity, and nothing else than was in it or is pushed.
LEMMA PushKeeps ==
    ASSUME NEW old \in Seq(Nat), NEW more \in Seq(Nat)
    PROVE  /\ Push(old, more) \in Seq(Nat) /\ Len(Push(old, more)) <= Points
           /\ \A win : /\ \A i \in DOMAIN old : old[i] = win
                       /\ \A i \in DOMAIN more : more[i] = win
                       => \A i \in DOMAIN Push(old, more) : Push(old, more)[i] = win
<1> DEFINE all == old \o more
           n == Len(old)
           m == Len(more)
<1>1. /\ n \in Nat /\ m \in Nat /\ all \in Seq(Nat) /\ Len(all) = n + m /\ Points \in Nat \ {0}
      /\ \A i \in 1..(n + m) : all[i] = IF i <= n THEN old[i] ELSE more[i - n]
      /\ DOMAIN old = 1..n /\ DOMAIN more = 1..m /\ DOMAIN all = 1..(n + m)
  BY MetricsAssumption
<1>2. ASSUME NEW win, \A i \in DOMAIN old : old[i] = win, \A i \in DOMAIN more : more[i] = win
      PROVE  \A i \in 1..(n + m) : all[i] = win
  <2> SUFFICES ASSUME NEW i \in 1..(n + m) PROVE all[i] = win
    OBVIOUS
  <2> HIDE DEF n, m, all
  <2>1. all[i] = IF i <= n THEN old[i] ELSE more[i - n]
    BY <1>1
  <2>2. CASE i <= n
    <3>1. i \in DOMAIN old
      BY <1>1, <2>2
    <3>2. QED
      BY <1>2, <2>1, <2>2, <3>1
  <2>3. CASE ~(i <= n)
    <3>1. i - n \in DOMAIN more
      BY <1>1, <2>3
    <3>2. QED
      BY <1>2, <2>1, <2>3, <3>1
  <2>4. QED
    BY <2>2, <2>3
<1>3. Push(old, more) = IF Len(all) > Points
                          THEN SubSeq(all, Len(all) - Points + 1, Len(all)) ELSE all
  BY Zenon DEF Push
<1> HIDE DEF n, m, all
<1>4. CASE n + m > Points
  <2> DEFINE skip == n + m - Points
  <2>1. Push(old, more) = SubSeq(all, skip + 1, n + m)
    <3>1. Len(all) > Points /\ skip + 1 = Len(all) - Points + 1 /\ n + m = Len(all)
      BY <1>1, <1>4
    <3>2. QED
      BY <1>3, <3>1
  <2>2. skip \in Nat /\ skip + 1 \in 1..(n + m) /\ skip + Points = n + m
    BY <1>1, <1>4
  <2>3. /\ Push(old, more) \in Seq(Nat) /\ Len(Push(old, more)) = Points
        /\ \A i \in 1..Points : Push(old, more)[i] = all[skip + i]
        /\ DOMAIN Push(old, more) = 1..Points
    <3>1. Points \in Nat /\ n + m \in Nat
      BY <1>1
    <3> HIDE DEF skip
    <3>2. QED
      BY <1>1, <2>1, <2>2, <3>1, SMTT(30)
  <2> HIDE DEF skip
  <2>4. \A i \in 1..Points : skip + i \in 1..(n + m)
    <3>1. n + m \in Nat /\ Points \in Nat
      BY <1>1
    <3>2. QED
      BY <2>2, <3>1
  <2>5. ASSUME NEW win, \A i \in DOMAIN old : old[i] = win, \A i \in DOMAIN more : more[i] = win
        PROVE  \A i \in DOMAIN Push(old, more) : Push(old, more)[i] = win
    <3>1. \A i \in 1..(n + m) : all[i] = win
      BY <1>2, <2>5
    <3>2. QED
      BY <2>3, <2>4, <3>1
  <2>6. Len(Push(old, more)) <= Points
    BY <1>1, <2>3
  <2>7. QED
    BY <2>3, <2>5, <2>6
<1>5. CASE ~(n + m > Points)
  <2>1. Push(old, more) = all
    BY <1>1, <1>3, <1>5
  <2>2. ASSUME NEW win, \A i \in DOMAIN old : old[i] = win, \A i \in DOMAIN more : more[i] = win
        PROVE  \A i \in DOMAIN Push(old, more) : Push(old, more)[i] = win
    <3>1. \A i \in 1..(n + m) : all[i] = win
      BY <1>2, <2>2
    <3>2. QED
      BY <1>1, <2>1, <3>1
  <2>3. Len(Push(old, more)) <= Points
    BY <1>1, <1>5, <2>1
  <2>4. QED
    BY <1>1, <2>1, <2>2, <2>3
<1>6. QED
  BY <1>4, <1>5

\* The points of an answer are a number: none or all of them when they are for a window.
LEMMA AnswerLength ==
    ASSUME MetricsTypeOK, NEW s \in Server, NEW win \in Nat
    PROVE  /\ Len(Answer(s, win).host) \in Nat
           /\ win > 0 => Len(Answer(s, win).host) \in {0, Points}
<1> DEFINE start == now - Range_(win)
           in == InRange(rows[s], start, now)
           groups == Grouped(in, start, now)
<1>1. Answer(s, win).host = IF win > 0 THEN DownsampleHost(groups, start, now) ELSE ByTime(in)
  BY DEF Answer
<1>2. in \subseteq rows[s] /\ IsFiniteSet(rows[s])
  BY DEF InRange, MetricsTypeOK
<1> HIDE DEF start, groups
<1>3. Points \in Nat
  BY MetricsAssumption
<1>4. CASE win > 0
  <2>1. Len(DownsampleHost(groups, start, now)) \in {0, Points}
    BY <1>3 DEF DownsampleHost
  <2>2. QED
    BY <1>1, <1>3, <1>4, <2>1
<1>5. CASE ~(win > 0)
  <2> HIDE DEF in
  <2>1. Cardinality(in) \in Nat
    BY <1>2, FS_Subset, FS_CardinalityType
  <2>2. Len(ByTime(in)) = Cardinality(in)
    BY <2>1 DEF ByTime
  <2>3. QED
    BY <1>1, <1>5, <2>1, <2>2
<1>6. QED
  BY <1>4, <1>5

\* A window is a number of seconds, and the ones before it are shorter.
LEMMA WindowsGrow ==
    /\ \A i \in 1..Len(Windows) : Windows[i] \in Nat
    /\ \A i \in 2..Len(Windows) : Windows[i - 1] < Windows[i] /\ Windows[i] > 0
<1>1. \A i \in 1..Len(Windows) : Windows[i] \in Nat
  BY MetricsAssumption
<1>2. ASSUME NEW i \in 2..Len(Windows) PROVE Windows[i - 1] < Windows[i] /\ Windows[i] > 0
  <2>1. Windows[i] > Windows[i - 1] /\ i - 1 \in 1..Len(Windows) /\ i \in 1..Len(Windows)
    BY MetricsAssumption
  <2>2. QED
    BY <1>1, <2>1
<1>3. QED
  BY <1>1, <1>2

-----------------------------------------------------------------------------
(* Metrics: the steps *)

LEMMA MetricsInitInv == MetricsInit => MetricsInv
<1> SUFFICES ASSUME MetricsInit PROVE MetricsInv
  OBVIOUS
<1>1. /\ ready \subseteq Server /\ joined = ready /\ window = 1 /\ active \in Server
      /\ now \in Nat /\ cycles = [x \in Server |-> 0] /\ updates = [x \in Server |-> <<>>]
      /\ ring = [x \in Server |-> <<>>] /\ gen = [x \in Server |-> 0]
      /\ pending = [x \in Server |-> FALSE] /\ known = [x \in Server |-> 0]
      /\ lost = {} /\ foreign = {} /\ beyond = {} /\ refused = {}
  BY MetricsAssumption DEF MetricsInit
<1>2. \A s \in Server : rows[s] \in Past[s] /\ retention[s] \in Retentions[s]
  BY DEF MetricsInit
<1>3. /\ rows \in [Server -> SUBSET Sample] /\ \A s \in Server : IsFiniteSet(rows[s])
      /\ retention \in [Server -> Nat] /\ RetentionFits
  <2>1. rows \in [Server -> UNION {Past[s] : s \in Server}]
    BY DEF MetricsInit
  <2>2. retention \in [Server -> UNION {Retentions[s] : s \in Server}]
    BY DEF MetricsInit
  <2>3. \A s \in Server : rows[s] \subseteq Sample /\ IsFiniteSet(rows[s])
    BY <1>2, MetricsAssumption
  <2>4. \A s \in Server : retention[s] \in Nat /\ retention[s] >= LiveRange
    BY <1>2, MetricsAssumption
  <2>5. QED
    BY <2>1, <2>2, <2>3, <2>4 DEF RetentionFits
<1>4. /\ \A q \in queries : /\ q \in Queried /\ q.srv \in ready /\ q.gen = 0 /\ q.win = 0
                             /\ q.known = 0 /\ q = Backfill(q.srv, 0, 0)
  <2>1. queries = {Backfill(s, 0, 0) : s \in ready}
    BY MetricsAssumption DEF MetricsInit
  <2>2. ASSUME NEW s \in ready
        PROVE  /\ Backfill(s, 0, 0) \in Queried
               /\ Backfill(s, 0, 0).srv = s /\ Backfill(s, 0, 0).gen = 0
               /\ Backfill(s, 0, 0).win = 0 /\ Backfill(s, 0, 0).known = 0
    BY <1>1, <2>2 DEF Backfill, Queried
  <2>3. QED
    BY <2>1, <2>2
<1>5. \A s \in Server : updates[s] = <<>> /\ ring[s] = <<>> /\ Len(<<>>) = 0 /\ DOMAIN <<>> = {}
  BY <1>1
<1>6. MetricsTypeOK
  <2>1. updates \in [Server -> Seq(BOOLEAN)] /\ ring \in [Server -> Seq(Nat)]
    BY <1>1, EmptySeq
  <2>2. \A s \in Server : Len(updates[s]) <= MaxWire
    BY <1>5, MetricsAssumption
  <2>3. window \in 1..Len(Windows) /\ 0 \in Nat
    BY <1>1, MetricsAssumption
  <2>4. /\ cycles \in [Server -> Nat] /\ gen \in [Server -> Nat] /\ known \in [Server -> Nat]
        /\ pending \in [Server -> BOOLEAN]
    BY <1>1
  <2>5. QED
    BY <1>1, <1>3, <1>4, <2>1, <2>2, <2>3, <2>4 DEF MetricsTypeOK
<1>7. GraphOfWindow
  BY <1>1, <1>5, MetricsAssumption DEF GraphOfWindow
<1>8. PendingIsReal
  BY <1>1, <1>4 DEF PendingIsReal
<1>9. RefusedUnforeseen /\ Untouched
  BY <1>1, <1>5 DEF RefusedUnforeseen, Untouched
<1>10. OneLatest /\ LatestOfWindow
  <2>1. OneLatest
    BY <1>1, <1>4 DEF OneLatest, IsLatest
  <2>2. WindowSeconds = 0
    BY <1>1, MetricsAssumption DEF WindowSeconds
  <2>3. QED
    BY <1>4, <2>1, <2>2 DEF LatestOfWindow, IsLatest
<1>11. KnownFits
  BY <1>1, <1>4 DEF KnownFits
<1>12. QED
  BY <1>3, <1>6, <1>7, <1>8, <1>9, <1>10, <1>11 DEF MetricsInv, GraphsRight

\* A cycle of an agent.
LEMMA CollectInv ==
    ASSUME MetricsInv, NEW s \in Server, NEW gap \in Gaps, NEW v, NEW read \in BOOLEAN,
           NEW keep \in BOOLEAN, NEW prunes \in BOOLEAN, keep => v \in Value,
           Collect(s, gap, v, read, keep, prunes)
    PROVE  MetricsInv'
<1> DEFINE t == now + gap
           all == IF read /\ keep THEN Inserted(rows[s], v, t) ELSE rows[s]
           new == IF prunes THEN Pruned(all, s, t) ELSE all
<1>1. /\ Len(updates[s]) < MaxWire /\ cycles' = [cycles EXCEPT ![s] = @ + 1] /\ now' = t
      /\ rows' = [rows EXCEPT ![s] = new]
      /\ updates' = IF s \in joined THEN [updates EXCEPT ![s] = Append(@, read)] ELSE updates
      /\ UNCHANGED <<retention, ready, joined, ring, gen, pending, known, window, active,
                     queries, lost, foreign, beyond, refused>>
  BY DEF Collect, hist
<1>2. MetricsTypeOK
  BY DEF MetricsInv, GraphsRight
<1>3. t \in Nat
  BY <1>2, MetricsAssumption DEF MetricsTypeOK
<1>4. new \subseteq Sample /\ IsFiniteSet(new)
  <2>1. rows[s] \subseteq Sample /\ IsFiniteSet(rows[s])
    BY <1>2 DEF MetricsTypeOK
  <2>2. all \subseteq Sample /\ IsFiniteSet(all)
    <3>1. CASE read /\ keep
      <4> DEFINE fresh == [at |-> t, cpu |-> v.cpu, mem |-> v.mem]
      <4>1. fresh \in Sample
        BY <1>3, <3>1, MetricsAssumption DEF Sample
      <4>2. all = rows[s] \cup {fresh}
        BY <3>1 DEF Inserted
      <4> HIDE DEF fresh, all
      <4>3. QED
        BY <2>1, <4>1, <4>2, FS_AddElement
    <3>2. CASE ~(read /\ keep)
      BY <2>1, <3>2
    <3>3. QED
      BY <3>1, <3>2
  <2> HIDE DEF all
  <2>3. new \subseteq all
    BY DEF Pruned
  <2> HIDE DEF new
  <2>4. QED
    BY <2>2, <2>3, FS_Subset
<1> HIDE DEF new, t
<1>5. /\ updates' \in [Server -> Seq(BOOLEAN)]
      /\ \A x \in Server : Len(updates'[x]) <= MaxWire
      /\ \A x \in Server \ joined : updates'[x] = updates[x]
  <2>1. /\ updates \in [Server -> Seq(BOOLEAN)] /\ MaxWire \in Nat
        /\ \A x \in Server : Len(updates[x]) <= MaxWire /\ updates[x] \in Seq(BOOLEAN)
    BY <1>2, MetricsAssumption DEF MetricsTypeOK
  <2>2. /\ Append(updates[s], read) \in Seq(BOOLEAN)
        /\ Len(Append(updates[s], read)) = Len(updates[s]) + 1 /\ Len(updates[s]) \in Nat
    BY <2>1
  <2>3. QED
    BY <1>1, <2>1, <2>2
<1>6. MetricsTypeOK'
  <2>1. rows' \in [Server -> SUBSET Sample] /\ \A x \in Server : IsFiniteSet(rows'[x])
    BY <1>1, <1>2, <1>4 DEF MetricsTypeOK
  <2>2. cycles' \in [Server -> Nat]
    BY <1>1, <1>2, SMTT(30) DEF MetricsTypeOK
  <2>3. QED
    BY <1>1, <1>2, <1>3, <1>5, <2>1, <2>2 DEF MetricsTypeOK
<1>7. QED
  BY <1>1, <1>5, <1>6
     DEF MetricsInv, GraphsRight, GraphOfWindow, PendingIsReal, RefusedUnforeseen, Untouched,
         OneLatest, LatestOfWindow, KnownFits, RetentionFits, IsLatest,
         WindowSeconds

\* A session connects and asks for its graph.
LEMMA ConnectInv ==
    ASSUME MetricsInv, NEW s \in Server, Connect(s)
    PROVE  MetricsInv'
<1> DEFINE q == Backfill(s, WindowSeconds, gen[s])
<1>1. /\ s \notin joined /\ joined' = joined \cup {s}
      /\ pending' = [pending EXCEPT ![s] = TRUE] /\ queries' = queries \cup {q}
      /\ UNCHANGED <<now, rows, cycles, retention, ready, updates, ring, gen, known, window,
                     active, lost, foreign, beyond, refused>>
  BY DEF Connect, hist, agent
<1>2. MetricsTypeOK
  BY DEF MetricsInv, GraphsRight, RetentionFits
<1>3. /\ known[s] = 0 /\ ring[s] = <<>> /\ s \notin beyond /\ s \notin foreign /\ s \notin lost
      /\ \A r \in queries : r.srv # s
  BY <1>1, <1>2 DEF MetricsInv, Untouched, MetricsTypeOK
<1>4. WindowSeconds \in Nat /\ WindowSeconds' = WindowSeconds
  BY <1>1, <1>2, WindowsGrow DEF MetricsTypeOK, WindowSeconds
<1>5. /\ q \in Queried /\ q.srv = s /\ q.gen = gen[s] /\ q.win = WindowSeconds /\ q.known = 0
      /\ q.points = 0
  BY <1>2, <1>3, <1>4 DEF Backfill, Queried, MetricsTypeOK
<1> HIDE DEF q
<1>6. MetricsTypeOK'
  BY <1>1, <1>2, <1>5 DEF MetricsTypeOK
<1>7. GraphOfWindow'
  <2>1. Len(ring[s]) = 0 /\ DOMAIN ring[s] = {} /\ Points \in Nat
    BY <1>3, MetricsAssumption
  <2>2. QED
    BY <1>1, <1>4, <2>1 DEF MetricsInv, GraphsRight, GraphOfWindow
<1>8. PendingIsReal'
  BY <1>1, <1>2, <1>3, <1>5 DEF MetricsInv, PendingIsReal, MetricsTypeOK
<1>9. RefusedUnforeseen' /\ Untouched'
  BY <1>1, <1>2 DEF MetricsInv, RefusedUnforeseen, Untouched, MetricsTypeOK
<1>10. OneLatest'
  BY <1>1, <1>2, <1>3, <1>5 DEF MetricsInv, OneLatest, IsLatest, MetricsTypeOK
<1>11. LatestOfWindow'
  BY <1>1, <1>4, <1>5 DEF MetricsInv, LatestOfWindow, IsLatest
<1>12. KnownFits'
  BY <1>1, <1>3, <1>4, <1>5 DEF MetricsInv, KnownFits
<1>13. QED
  BY <1>1, <1>6, <1>7, <1>8, <1>9, <1>10, <1>11, <1>12 DEF MetricsInv, GraphsRight, RetentionFits

\* A change of the window.
LEMMA ZoomInv ==
    ASSUME MetricsInv, ZoomIn \/ ZoomOut
    PROVE  MetricsInv'
<1> PICK i \in 1..Len(Windows) :
        /\ Zoomed(i)
        /\ \/ /\ i = window + 1 /\ (known[active] > 0 => Windows[i] <= known[active])
              /\ beyond' = (beyond \cup joined) \ {active}
           \/ i = window - 1 /\ window > 1 /\ beyond' = beyond
  <2>1. window \in 1..Len(Windows) /\ Len(Windows) \in Nat
    BY MetricsAssumption DEF MetricsInv, GraphsRight, MetricsTypeOK
  <2>2. CASE ZoomIn
    BY <2>1, <2>2 DEF ZoomIn, MayZoomIn
  <2>3. CASE ZoomOut
    BY <2>1, <2>3 DEF ZoomOut
  <2>4. QED
    BY <2>2, <2>3
<1> DEFINE q == Backfill(active, Windows[i], gen'[active])
<1>1. /\ active \in joined /\ window' = i /\ ring' = [ring EXCEPT ![active] = <<>>]
      /\ gen' = [gen EXCEPT ![active] = @ + 1] /\ pending' = [pending EXCEPT ![active] = TRUE]
      /\ queries' = queries \cup {q}
      /\ lost' = lost \ {active} /\ foreign' = (foreign \cup joined) \ {active}
      /\ UNCHANGED <<now, rows, cycles, retention, ready, updates, joined, known, active,
                     refused>>
  BY DEF Zoomed, FreshGen, agent
<1>2. MetricsTypeOK
  BY DEF MetricsInv, GraphsRight, RetentionFits
<1>3. /\ WindowSeconds \in Nat /\ Windows[i] \in Nat /\ WindowSeconds' = Windows[i]
      /\ i = window - 1 => Windows[i] <= WindowSeconds
      /\ i = window + 1 => Windows[i] > 0
  <2>1. i = window - 1 => window \in 2..Len(Windows)
    BY <1>2 DEF MetricsTypeOK
  <2>2. i = window + 1 => i \in 2..Len(Windows)
    BY <1>2 DEF MetricsTypeOK
  <2>3. window \in 1..Len(Windows) /\ Len(Windows) \in Nat /\ i \in 1..Len(Windows)
    BY <1>2, WindowsGrow, MetricsAssumption DEF MetricsTypeOK
  <2>4. i = window - 1 => Windows[i] < Windows[window]
    BY <2>1, <2>3, WindowsGrow
  <2>5. i = window + 1 => Windows[i] > 0
    BY <2>2, WindowsGrow
  <2>6. Windows[i] \in Nat /\ Windows[window] \in Nat
    BY <2>3, WindowsGrow
  <2>7. WindowSeconds = Windows[window] /\ WindowSeconds' = Windows[i]
    BY <1>1 DEF WindowSeconds
  <2>8. QED
    BY <2>4, <2>5, <2>6, <2>7
<1>4. /\ gen[active] \in Nat /\ gen'[active] = gen[active] + 1
      /\ \A s \in Server : s # active => gen'[s] = gen[s]
  BY <1>1, <1>2 DEF MetricsTypeOK
<1>5. /\ q \in Queried /\ q.srv = active /\ q.gen = gen'[active] /\ q.win = Windows[i]
      /\ q.known = (IF active \in beyond THEN 0 ELSE known[active]) /\ q.points = 0
  BY <1>2, <1>3, <1>4 DEF Backfill, Queried, MetricsTypeOK
<1> HIDE DEF q
<1>6. \A r \in queries : /\ r.srv = active => r.gen # gen'[active]
                         /\ r.gen \in Nat /\ r.srv \in joined /\ r.gen <= gen[r.srv]
                         /\ r.win \in Nat
  <2>1. ASSUME NEW r \in queries
        PROVE  r.gen \in Nat /\ r.srv \in joined /\ r.srv \in Server /\ r.win \in Nat
    BY <1>2 DEF MetricsTypeOK, Queried
  <2>2. \A r \in queries : r.gen <= gen[r.srv]
    BY DEF MetricsInv, OneLatest
  <2>3. QED
    BY <1>4, <2>1, <2>2
<1>7. MetricsTypeOK'
  <2>1. ring' \in [Server -> Seq(Nat)]
    BY <1>1, <1>2, EmptySeq DEF MetricsTypeOK
  <2>2. /\ gen' \in [Server -> Nat] /\ pending' \in [Server -> BOOLEAN]
        /\ window' \in 1..Len(Windows) /\ queries' \subseteq Queried
        /\ lost' \subseteq joined /\ foreign' \subseteq joined
    BY <1>1, <1>2, <1>5 DEF MetricsTypeOK
  <2>3. beyond' \subseteq joined
    BY <1>1, <1>2 DEF MetricsTypeOK
  <2>4. \A r \in queries' : r.srv \in joined' /\ (r.win > 0 => r.points \in {0, Points})
    BY <1>1, <1>2, <1>5 DEF MetricsTypeOK
  <2>5. QED
    BY <1>1, <1>2, <2>1, <2>2, <2>3, <2>4 DEF MetricsTypeOK
<1>8. GraphOfWindow'
  <2>1. ring'[active] = <<>> /\ Len(ring'[active]) = 0 /\ DOMAIN ring'[active] = {}
    BY <1>1, <1>2 DEF MetricsTypeOK
  <2>2. joined' \ foreign' \subseteq {active} /\ Points \in Nat
    BY <1>1, MetricsAssumption
  <2>3. QED
    BY <2>1, <2>2 DEF GraphOfWindow
<1>9. PendingIsReal'
  <2>1. ASSUME NEW s \in Server, s # active
        PROVE  /\ pending'[s] = pending[s] /\ (s \in lost' <=> s \in lost)
               /\ (\E r \in queries' : r.srv = s /\ r.gen = gen'[s])
                     <=> \E r \in queries : r.srv = s /\ r.gen = gen[s]
    BY <1>1, <1>2, <1>4, <1>5, <2>1 DEF MetricsTypeOK
  <2>2. /\ pending'[active] /\ \E r \in queries' : r.srv = active /\ r.gen = gen'[active]
        /\ gen'[active] > 0 /\ \A s \in Server : s # active => gen'[s] = gen[s]
    BY <1>1, <1>2, <1>4, <1>5 DEF MetricsTypeOK
  <2>3. QED
    BY <1>1, <2>1, <2>2 DEF MetricsInv, PendingIsReal
<1>10. RefusedUnforeseen' /\ Untouched'
  BY <1>1, <1>2 DEF MetricsInv, RefusedUnforeseen, Untouched, MetricsTypeOK
<1>11. OneLatest'
  <2>1. \A r \in queries' : r.gen <= gen'[r.srv]
    <3>1. ASSUME NEW r \in queries
          PROVE  r.gen <= gen'[r.srv]
      <4>1. /\ r.gen \in Nat /\ r.srv \in Server /\ r.gen <= gen[r.srv]
            /\ gen[r.srv] \in Nat
        BY <1>2, <1>6 DEF MetricsTypeOK
      <4>2. gen'[r.srv] = gen[r.srv] \/ gen'[r.srv] = gen[r.srv] + 1
        BY <1>4, <4>1
      <4>3. QED
        BY <4>1, <4>2
    <3>2. q.gen <= gen'[q.srv]
      BY <1>4, <1>5
    <3>3. QED
      BY <1>1, <3>1, <3>2
  <2>2. \A r \in queries' : r.gen = gen'[r.srv] => r.srv \notin lost'
    BY <1>1, <1>2, <1>4, <1>5, <1>6 DEF MetricsInv, OneLatest, IsLatest, MetricsTypeOK
  <2>3. \A r, x \in queries' : r.srv = x.srv /\ r.gen = x.gen => r = x
    BY <1>1, <1>5, <1>6 DEF MetricsInv, OneLatest
  <2>4. QED
    BY <2>1, <2>2, <2>3 DEF OneLatest, IsLatest
<1>12. LatestOfWindow'
  <2>1. ASSUME NEW r \in queries', r.gen = gen'[r.srv], r # q
        PROVE  /\ r.srv \in foreign'
               /\ r.srv \notin beyond' => WindowSeconds' <= r.win
    <3>1. r \in queries /\ r.srv \in joined /\ r.srv # active /\ r.gen = gen[r.srv]
      BY <1>1, <1>2, <1>4, <1>6, <2>1 DEF MetricsTypeOK
    <3>2. r.srv \notin beyond => WindowSeconds <= r.win
      BY <3>1 DEF MetricsInv, LatestOfWindow, IsLatest
    <3>3. QED
      BY <1>1, <1>3, <1>6, <3>1, <3>2
  <2>2. QED
    BY <1>3, <1>5, <2>1 DEF LatestOfWindow, IsLatest
<1>13. KnownFits'
  <2>1. /\ \A s \in Server : known[s] \in Nat
        /\ \A s \in joined \ beyond : known[s] # 0 => WindowSeconds <= known[s]
        /\ \A s \in joined \ beyond : s \in Server
    BY <1>2 DEF MetricsInv, KnownFits, MetricsTypeOK
  <2>2. active \notin beyond /\ known[active] # 0 => Windows[i] <= known[active]
    <3>1. CASE i = window + 1 /\ (known[active] > 0 => Windows[i] <= known[active])
      BY <1>1, <1>2, <2>1, <3>1 DEF MetricsTypeOK
    <3>2. CASE i = window - 1
      BY <1>1, <1>2, <1>3, <2>1, <3>2 DEF MetricsTypeOK
    <3>3. QED
      BY <3>1, <3>2
  <2>3. \A s \in joined' \ beyond' : known'[s] # 0 => WindowSeconds' <= known'[s]
    <3>1. CASE /\ i = window + 1 /\ (known[active] > 0 => Windows[i] <= known[active])
               /\ beyond' = (beyond \cup joined) \ {active}
      <4>1. joined' \ beyond' \subseteq {active} /\ known[active] \in Nat
        BY <1>1, <1>2, <3>1 DEF MetricsTypeOK
      <4>2. QED
        BY <1>1, <1>3, <3>1, <4>1
    <3>2. CASE i = window - 1 /\ beyond' = beyond
      BY <1>1, <1>3, <2>1, <3>2
    <3>3. QED
      BY <3>1, <3>2
  <2>4. \A x \in queries' : x.known # 0 => x.win <= x.known
    BY <1>1, <1>5, <2>2 DEF MetricsInv, KnownFits
  <2>5. QED
    BY <2>3, <2>4 DEF KnownFits
<1>14. QED
  BY <1>1, <1>7, <1>8, <1>9, <1>10, <1>11, <1>12, <1>13
     DEF MetricsInv, GraphsRight, RetentionFits

\* Another session is looked at.
LEMMA SwitchInv ==
    ASSUME MetricsInv, NEW s \in Server, SwitchServer(s)
    PROVE  MetricsInv'
<1>1. /\ active' \in Server
      /\ UNCHANGED <<now, rows, cycles, retention, ready, updates, joined, ring, gen,
                     pending, known, window, queries, lost, foreign, beyond, refused>>
  BY DEF SwitchServer, agent, hist
<1>2. MetricsTypeOK'
  BY <1>1 DEF MetricsInv, GraphsRight, MetricsTypeOK
<1>3. QED
  BY <1>1, <1>2
     DEF MetricsInv, GraphsRight, GraphOfWindow, PendingIsReal, RefusedUnforeseen, Untouched,
         OneLatest, LatestOfWindow, KnownFits, RetentionFits, IsLatest,
         WindowSeconds

\* An update of an agent.
LEMMA UpdateInv ==
    ASSUME MetricsInv, NEW s \in Server, MetricsMsg(s)
    PROVE  MetricsInv'
<1> DEFINE new == IF Head(updates[s]) /\ WindowSeconds = 0 THEN Push(ring[s], Drawn(1, 0))
                  ELSE ring[s]
<1>1. /\ updates[s] # <<>> /\ updates' = [updates EXCEPT ![s] = Tail(@)]
      /\ UNCHANGED <<now, rows, cycles, retention, ready, joined, gen, pending, known,
                     window, active, queries, lost, foreign, beyond, refused>>
  BY DEF MetricsMsg, agent, hist
<1>2. MetricsTypeOK
  BY DEF MetricsInv, GraphsRight
<1>3. s \in joined
  BY <1>1 DEF MetricsInv, Untouched
<1>4. ring' = [ring EXCEPT ![s] = new]
  <2>1. ring = [ring EXCEPT ![s] = ring[s]]
    BY <1>2 DEF MetricsTypeOK
  <2>2. QED
    BY <2>1 DEF MetricsMsg
<1>5. /\ new \in Seq(Nat)
      /\ s \notin foreign =>
            Len(new) <= Points /\ \A i \in DOMAIN new : new[i] = WindowSeconds
  <2>1. /\ ring[s] \in Seq(Nat) /\ Drawn(1, 0) \in Seq(Nat)
        /\ \A i \in DOMAIN Drawn(1, 0) : Drawn(1, 0)[i] = 0
    BY <1>2 DEF MetricsTypeOK, Drawn
  <2>2. s \notin foreign =>
            Len(ring[s]) <= Points /\ \A i \in DOMAIN ring[s] : ring[s][i] = WindowSeconds
    BY <1>3 DEF MetricsInv, GraphsRight, GraphOfWindow
  <2>3. QED
    BY <2>1, <2>2, PushKeeps
<1> HIDE DEF new
<1>6. MetricsTypeOK'
  <2>1. /\ updates[s] \in Seq(BOOLEAN) /\ Tail(updates[s]) \in Seq(BOOLEAN)
        /\ Len(Tail(updates[s])) = Len(updates[s]) - 1 /\ Len(updates[s]) \in Nat
    BY <1>1, <1>2 DEF MetricsTypeOK
  <2>2. /\ updates' \in [Server -> Seq(BOOLEAN)]
        /\ updates'[s] = Tail(updates[s]) /\ \A x \in Server \ {s} : updates'[x] = updates[x]
    BY <1>1, <1>2, <2>1 DEF MetricsTypeOK
  <2>3. QED
    <3>1. \A x \in Server : Len(updates'[x]) <= MaxWire
      <4>1. Len(Tail(updates[s])) <= Len(updates[s])
        BY <2>1
      <4>2. \A x \in Server : Len(updates[x]) <= MaxWire /\ Len(updates[x]) \in Nat
        BY <1>2 DEF MetricsTypeOK
      <4>3. Len(updates'[s]) <= MaxWire
        <5>1. Len(updates'[s]) = Len(Tail(updates[s])) /\ MaxWire \in Nat
          BY <2>2, MetricsAssumption
        <5>2. QED
          BY <2>1, <4>2, <5>1
      <4>4. QED
        BY <2>2, <4>2, <4>3
    <3>2. QED
      BY <1>1, <1>2, <1>4, <1>5, <2>2, <3>1 DEF MetricsTypeOK
<1>7. GraphOfWindow'
  BY <1>1, <1>2, <1>4, <1>5
     DEF MetricsInv, GraphsRight, GraphOfWindow, MetricsTypeOK, WindowSeconds
<1>8. Untouched'
  BY <1>1, <1>2, <1>3, <1>4 DEF MetricsInv, Untouched, MetricsTypeOK
<1>9. QED
  BY <1>1, <1>6, <1>7, <1>8
     DEF MetricsInv, GraphsRight, PendingIsReal, RefusedUnforeseen, OneLatest, LatestOfWindow,
         KnownFits, RetentionFits, IsLatest,
         WindowSeconds

\* A backfill takes a step at the agent: its range is found to fit, or it is answered.
LEMMA ServedInv ==
    ASSUME MetricsInv, NEW q \in queries, NEW r \in Queried,
           queries' = (queries \ {q}) \cup {r},
           r.srv = q.srv, r.gen = q.gen, r.win = q.win, r.known = q.known,
           q.win > 0 => r.points \in {0, Points},
           UNCHANGED <<now, rows, cycles, retention, ready, updates, joined, ring, gen,
                       pending, known, window, active, lost, foreign, beyond, refused>>
    PROVE  MetricsInv'
<1>1. MetricsTypeOK
  BY DEF MetricsInv, GraphsRight, RetentionFits
<1>2. MetricsTypeOK'
  BY <1>1 DEF MetricsTypeOK, Queried
<1>3. PendingIsReal'
  <2>1. \A s \in Server : (\E x \in queries' : x.srv = s /\ x.gen = gen[s])
                            <=> \E x \in queries : x.srv = s /\ x.gen = gen[s]
    OBVIOUS
  <2>2. QED
    BY <2>1 DEF MetricsInv, PendingIsReal
<1>4. OneLatest' /\ LatestOfWindow'
  BY DEF MetricsInv, OneLatest, LatestOfWindow, IsLatest, WindowSeconds
<1>5. KnownFits'
  BY DEF MetricsInv, KnownFits, WindowSeconds
<1>6. GraphOfWindow' /\ RefusedUnforeseen' /\ Untouched'
  BY DEF MetricsInv, GraphsRight, GraphOfWindow, RefusedUnforeseen, Untouched, WindowSeconds
<1>7. QED
  BY <1>2, <1>3, <1>4, <1>5, <1>6 DEF MetricsInv, GraphsRight, RetentionFits

LEMMA FitsInv ==
    ASSUME MetricsInv, NEW q \in queries, TimeRangeFits(q)
    PROVE  MetricsInv'
<1> DEFINE r == [q EXCEPT !.at = "checked"]
<1>1. /\ queries' = (queries \ {q}) \cup {r}
      /\ UNCHANGED <<now, rows, cycles, retention, ready, updates, joined, ring, gen,
                     pending, known, window, active, lost, foreign, beyond, refused>>
  BY DEF TimeRangeFits, Updated, agent, hist
<1>2. q \in Queried /\ (q.win > 0 => q.points \in {0, Points})
  BY DEF MetricsInv, GraphsRight, MetricsTypeOK
<1>3. /\ r \in Queried /\ r.srv = q.srv /\ r.gen = q.gen /\ r.win = q.win
      /\ r.known = q.known /\ r.points = q.points
  BY <1>2 DEF Queried
<1> HIDE DEF r
<1>4. QED
  BY <1>1, <1>2, <1>3, ServedInv

LEMMA QueryInv ==
    ASSUME MetricsInv, NEW q \in queries, QueryMetrics(q)
    PROVE  MetricsInv'
<1> DEFINE n == Len(Answer(q.srv, q.win).host)
           told == retention[q.srv]
           r == [q EXCEPT !.at = "answered", !.told = told, !.points = n]
<1>1. /\ queries' = (queries \ {q}) \cup {r}
      /\ UNCHANGED <<now, rows, cycles, retention, ready, updates, joined, ring, gen,
                     pending, known, window, active, lost, foreign, beyond, refused>>
  BY DEF QueryMetrics, Updated, agent, hist
<1>2. MetricsTypeOK
  BY DEF MetricsInv, GraphsRight
<1>3. q \in Queried /\ q.srv \in Server /\ q.win \in Nat
  BY <1>2 DEF MetricsTypeOK, Queried
<1>4. n \in Nat /\ (q.win > 0 => n \in {0, Points}) /\ told \in Nat
  BY <1>2, <1>3, AnswerLength DEF MetricsTypeOK
<1> HIDE DEF n, told
<1>5. /\ r \in Queried /\ r.srv = q.srv /\ r.gen = q.gen /\ r.win = q.win
      /\ r.known = q.known /\ r.points = n
  BY <1>3, <1>4 DEF Queried
<1> HIDE DEF r
<1>6. QED
  BY <1>1, <1>4, <1>5, ServedInv

\* A backfill ends without an answer: it is refused, or fails.
LEMMA SilentInv ==
    ASSUME MetricsInv, NEW q \in queries, Silent(q), RefusedUnforeseen'
    PROVE  MetricsInv'
<1>1. /\ queries' = queries \ {q}
      /\ lost' = IF q.gen = gen[q.srv] THEN lost \cup {q.srv} ELSE lost
      /\ UNCHANGED <<now, rows, cycles, retention, ready, updates, joined, ring, gen,
                     pending, known, window, active, foreign, beyond>>
  BY DEF Silent, agent
<1>2. MetricsTypeOK
  BY DEF MetricsInv, GraphsRight, RetentionFits
<1>3. q.srv \in joined /\ q.srv \in Server
  BY <1>2 DEF MetricsTypeOK
<1>4. MetricsTypeOK'
  BY <1>1, <1>2, <1>3 DEF MetricsTypeOK
<1>5. PendingIsReal'
  <2>1. ASSUME NEW s \in Server
        PROVE  ((\E x \in queries' : x.srv = s /\ x.gen = gen[s]) \/ s \in lost')
                  <=> ((\E x \in queries : x.srv = s /\ x.gen = gen[s]) \/ s \in lost)
    BY <1>1
  <2>2. QED
    BY <1>1, <2>1 DEF MetricsInv, PendingIsReal
<1>6. OneLatest'
  <2>1. \A x \in queries' : x \in queries /\ (x.srv = q.srv => x.gen # q.gen)
    BY <1>1 DEF MetricsInv, OneLatest
  <2>2. QED
    BY <1>1, <2>1 DEF MetricsInv, OneLatest, IsLatest
<1>7. LatestOfWindow' /\ KnownFits'
  BY <1>1 DEF MetricsInv, LatestOfWindow, KnownFits, RetentionFits, IsLatest,
         WindowSeconds
<1>8. GraphOfWindow' /\ Untouched'
  BY <1>1 DEF MetricsInv, GraphsRight, GraphOfWindow, Untouched, WindowSeconds
<1>9. QED
  BY <1>1, <1>4, <1>5, <1>6, <1>7, <1>8 DEF MetricsInv, GraphsRight, RetentionFits

\* What a session knew is at least the window it asked for, which is more than is kept.
LEMMA RefuseInv ==
    ASSUME MetricsInv, NEW q \in queries, CheckTimeRange(q)
    PROVE  MetricsInv'
<1> DEFINE kept == retention[q.srv]
<1>1. /\ Range_(q.win) > kept /\ Silent(q) /\ UNCHANGED retention
      /\ refused' = refused \cup {[known |-> q.known, kept |-> kept]}
  BY DEF CheckTimeRange, Silent, agent
<1>2. q.win \in Nat /\ q.known \in Nat /\ kept \in Nat /\ kept >= LiveRange
  BY MetricsAssumption DEF MetricsInv, GraphsRight, MetricsTypeOK, Queried, RetentionFits
<1>3. q.win > kept
  BY <1>1, <1>2, MetricsAssumption DEF Range_
<1>4. q.known # 0 => kept < q.known
  BY <1>2, <1>3 DEF MetricsInv, KnownFits
<1>5. RefusedUnforeseen'
  BY <1>1, <1>4 DEF MetricsInv, RefusedUnforeseen
<1>6. QED
  BY <1>1, <1>5, SilentInv

LEMMA FailInv ==
    ASSUME MetricsInv, NEW q \in queries, FailQuery(q)
    PROVE  MetricsInv'
<1>1. Silent(q) /\ RefusedUnforeseen'
  BY DEF FailQuery, MetricsInv, RefusedUnforeseen
<1>2. QED
  BY <1>1, SilentInv

\* The configuration of an agent changes.
LEMMA ReconfigureInv ==
    ASSUME MetricsInv, NEW s \in Server, NEW r \in Retentions[s], Reconfigure(s, r)
    PROVE  MetricsInv'
<1>1. /\ retention' = [retention EXCEPT ![s] = r]
      /\ UNCHANGED <<now, rows, cycles, ready, updates, joined, ring, gen, pending, known,
                     window, active, queries, lost, foreign, beyond, refused>>
  BY DEF Reconfigure, hist
<1>2. MetricsTypeOK
  BY DEF MetricsInv, GraphsRight
<1>3. r \in Nat /\ r >= LiveRange
  BY MetricsAssumption
<1>4. MetricsTypeOK'
  BY <1>1, <1>2, <1>3 DEF MetricsTypeOK
<1>5. RetentionFits'
  BY <1>1, <1>2, <1>3 DEF MetricsInv, RetentionFits, MetricsTypeOK
<1>6. QED
  BY <1>1, <1>4, <1>5
     DEF MetricsInv, GraphsRight, GraphOfWindow, PendingIsReal, RefusedUnforeseen, Untouched,
         OneLatest, LatestOfWindow, KnownFits, RetentionFits, IsLatest,
         WindowSeconds

\* The client is given an answer.
LEMMA BackfillInv ==
    ASSUME MetricsInv, NEW q \in queries, MetricsBackfillMsg(q)
    PROVE  MetricsInv'
<1> DEFINE s == q.srv
           new == IF q.win > 0 THEN Push(<<>>, Drawn(q.points, q.win))
                  ELSE Push(ring[s], Drawn(q.points, 0))
<1>1. /\ queries' = queries \ {q}
      /\ UNCHANGED <<now, rows, cycles, retention, ready, updates, joined, gen, window,
                     active, lost, foreign, refused>>
  BY DEF MetricsBackfillMsg, agent, hist
<1>2. MetricsTypeOK
  BY DEF MetricsInv, GraphsRight, RetentionFits
<1>3. /\ q \in Queried /\ s \in Server /\ s \in joined /\ q.gen \in Nat /\ q.win \in Nat
      /\ q.points \in Nat /\ q.told \in Nat
  BY <1>2 DEF MetricsTypeOK, Queried
<1>4. \A x \in queries' : x \in queries /\ (x.srv = s => x.gen # q.gen)
  BY <1>1 DEF MetricsInv, OneLatest
<1>5. OneLatest'
  BY <1>1, <1>4 DEF MetricsInv, OneLatest, IsLatest
<1>51. beyond \subseteq beyond' => LatestOfWindow'
  BY <1>1 DEF MetricsInv, LatestOfWindow, IsLatest, WindowSeconds
<1>6. RefusedUnforeseen'
  BY <1>1 DEF MetricsInv, RefusedUnforeseen
<1>7. CASE IsStale(q)
  <2>1. UNCHANGED <<ring, pending, known, beyond>> /\ q.gen # gen[s]
    BY <1>7 DEF MetricsBackfillMsg, IsStale
  <2>2. MetricsTypeOK'
    BY <1>1, <1>2, <2>1 DEF MetricsTypeOK
  <2>3. PendingIsReal'
    <3>1. \A x \in Server : (\E y \in queries' : y.srv = x /\ y.gen = gen[x])
                              <=> \E y \in queries : y.srv = x /\ y.gen = gen[x]
      BY <1>1, <2>1
    <3>2. QED
      BY <1>1, <2>1, <3>1 DEF MetricsInv, PendingIsReal
  <2>4. GraphOfWindow' /\ Untouched' /\ KnownFits'
    BY <1>1, <2>1 DEF MetricsInv, GraphsRight, GraphOfWindow, Untouched, KnownFits, WindowSeconds
  <2>5. QED
    BY <1>1, <1>5, <1>51, <1>6, <2>1, <2>2, <2>3, <2>4 DEF MetricsInv, GraphsRight, RetentionFits
<1>8. CASE ~IsStale(q)
  <2>1. /\ q.gen = gen[s] /\ known' = [known EXCEPT ![s] = q.told]
        /\ pending' = [pending EXCEPT ![s] = FALSE]
        /\ beyond' = IF q.told < WindowSeconds THEN beyond \cup {s} ELSE beyond
    BY <1>8 DEF MetricsBackfillMsg, IsStale, Answered
  <2>2. ring' = [ring EXCEPT ![s] = new]
    <3>1. CASE q.win > 0
      BY <1>8, <3>1 DEF MetricsBackfillMsg
    <3>2. CASE ~(q.win > 0)
      BY <1>8, <3>2 DEF MetricsBackfillMsg
    <3>3. QED
      BY <3>1, <3>2
  <2>3. /\ s \notin foreign => q.win = WindowSeconds
        /\ s \notin lost
    BY <1>1, <2>1 DEF MetricsInv, LatestOfWindow, OneLatest, IsLatest
  <2>4. /\ new \in Seq(Nat)
        /\ s \notin foreign =>
              Len(new) <= Points /\ \A i \in DOMAIN new : new[i] = WindowSeconds
    <3>1. /\ ring[s] \in Seq(Nat) /\ <<>> \in Seq(Nat)
          /\ \A win \in Nat : /\ Drawn(q.points, win) \in Seq(Nat)
                              /\ \A i \in DOMAIN Drawn(q.points, win) :
                                    Drawn(q.points, win)[i] = win
      BY SMTT(30), <1>2, <1>3 DEF MetricsTypeOK, Drawn
    <3>2. s \notin foreign =>
              Len(ring[s]) <= Points /\ \A i \in DOMAIN ring[s] : ring[s][i] = WindowSeconds
      BY <1>3 DEF MetricsInv, GraphsRight, GraphOfWindow
    <3>3. CASE q.win > 0
      <4>1. new = Push(<<>>, Drawn(q.points, q.win))
        BY <3>3
      <4> HIDE DEF new
      <4>2. \A i \in DOMAIN <<>> : <<>>[i] = q.win
        OBVIOUS
      <4>3. /\ new \in Seq(Nat) /\ Len(new) <= Points
            /\ \A i \in DOMAIN new : new[i] = q.win
        BY <1>3, <3>1, <4>1, <4>2, PushKeeps
      <4>4. QED
        BY <2>3, <4>3
    <3>4. CASE ~(q.win > 0)
      <4>1. new = Push(ring[s], Drawn(q.points, 0)) /\ q.win = 0
        BY <1>3, <3>4
      <4> HIDE DEF new
      <4>2. /\ new \in Seq(Nat) /\ Len(new) <= Points
            /\ (\A i \in DOMAIN ring[s] : ring[s][i] = 0) => \A i \in DOMAIN new : new[i] = 0
        <5>1. /\ Drawn(q.points, 0) \in Seq(Nat)
              /\ \A i \in DOMAIN Drawn(q.points, 0) : Drawn(q.points, 0)[i] = 0
          BY <3>1
        <5>2. /\ Push(ring[s], Drawn(q.points, 0)) \in Seq(Nat)
              /\ Len(Push(ring[s], Drawn(q.points, 0))) <= Points
              /\ \A win :
                    /\ \A i \in DOMAIN ring[s] : ring[s][i] = win
                    /\ \A i \in DOMAIN Drawn(q.points, 0) : Drawn(q.points, 0)[i] = win
                    => \A i \in DOMAIN Push(ring[s], Drawn(q.points, 0)) :
                          Push(ring[s], Drawn(q.points, 0))[i] = win
          BY <3>1, <5>1, PushKeeps
        <5>3. QED
          BY <4>1, <5>1, <5>2
      <4>3. QED
        BY <2>3, <3>2, <4>1, <4>2
    <3>5. QED
      BY <3>3, <3>4
  <2> HIDE DEF new
  <2>5. MetricsTypeOK'
    <3>1. known' \in [Server -> Nat] /\ pending' \in [Server -> BOOLEAN]
      BY <1>2, <1>3, <2>1 DEF MetricsTypeOK
    <3>2. ring' \in [Server -> Seq(Nat)]
      BY <1>2, <2>2, <2>4 DEF MetricsTypeOK
    <3>3. QED
      BY <1>1, <1>2, <1>3, <2>1, <3>1, <3>2 DEF MetricsTypeOK
  <2>6. PendingIsReal'
    <3>1. ASSUME NEW x \in Server, x # s
          PROVE  (\E y \in queries' : y.srv = x /\ y.gen = gen[x])
                    <=> \E y \in queries : y.srv = x /\ y.gen = gen[x]
      BY <1>1, <3>1
    <3>2. \A x \in Server : x # s => pending'[x] = pending[x]
      BY <1>2, <2>1 DEF MetricsTypeOK
    <3>3. ~pending'[s] /\ (\A y \in queries' : y.srv = s => y.gen # gen[s]) /\ s \notin lost
      BY <1>2, <1>3, <1>4, <2>1, <2>3 DEF MetricsTypeOK
    <3>4. QED
      BY <1>1, <3>1, <3>2, <3>3 DEF MetricsInv, PendingIsReal
  <2>7. GraphOfWindow' /\ Untouched'
    <3>1. \A x \in Server : x # s =>
             ring'[x] = ring[x] /\ known'[x] = known[x] /\ pending'[x] = pending[x]
      BY <1>2, <2>1, <2>2 DEF MetricsTypeOK
    <3>2. ring'[s] = new
      BY <1>2, <1>3, <2>2 DEF MetricsTypeOK
    <3>3. \A x \in joined : x \in Server
      BY <1>2 DEF MetricsTypeOK
    <3>4. GraphOfWindow'
      BY <1>1, <2>4, <3>1, <3>2, <3>3
         DEF MetricsInv, GraphsRight, GraphOfWindow, WindowSeconds
    <3>5. Untouched'
      BY <1>1, <1>3, <3>1 DEF MetricsInv, Untouched
    <3>6. QED
      BY <3>4, <3>5
  <2>8. KnownFits' /\ beyond \subseteq beyond'
    <3>1. s \notin beyond' => WindowSeconds <= q.told
      <4>1. WindowSeconds \in Nat
        BY <1>2, WindowsGrow, MetricsAssumption DEF MetricsTypeOK, WindowSeconds
      <4>2. QED
        BY <1>3, <2>1, <4>1
    <3>2. \A x \in Server : known'[x] = IF x = s THEN q.told ELSE known[x]
      BY <1>2, <2>1 DEF MetricsTypeOK
    <3>3. \A x \in joined : x \in Server
      BY <1>2 DEF MetricsTypeOK
    <3>4. beyond \subseteq beyond'
      BY <2>1
    <3>5. QED
      BY <1>1, <3>1, <3>2, <3>3, <3>4 DEF MetricsInv, KnownFits, WindowSeconds
  <2>9. QED
    BY <1>1, <1>5, <1>51, <1>6, <2>5, <2>6, <2>7, <2>8 DEF MetricsInv, GraphsRight, RetentionFits
<1>9. QED
  BY <1>7, <1>8

LEMMA MetricsStepInv == MetricsInv /\ [MetricsNext]_metricsVars => MetricsInv'
<1> SUFFICES ASSUME MetricsInv, [MetricsNext]_metricsVars PROVE MetricsInv'
  OBVIOUS
<1>1. ASSUME NEW s \in Server, NEW gap \in Gaps, NEW v \in Value, NEW prunes \in BOOLEAN,
             Collect(s, gap, v, TRUE, TRUE, prunes)
      PROVE  MetricsInv'
  BY <1>1, CollectInv
<1>2. ASSUME NEW s \in Server, NEW gap \in Gaps, NEW read \in BOOLEAN,
             Collect(s, gap, AnyValue, read, FALSE, FALSE)
      PROVE  MetricsInv'
  BY <1>2, CollectInv
<1>3. ASSUME NEW q \in queries,
             \/ TimeRangeFits(q) \/ CheckTimeRange(q) \/ QueryMetrics(q) \/ FailQuery(q)
             \/ MetricsBackfillMsg(q)
      PROVE  MetricsInv'
  BY <1>3, FitsInv, QueryInv, RefuseInv, FailInv, BackfillInv
<1>31. ASSUME NEW s \in Server, NEW r \in Retentions[s], Reconfigure(s, r)
       PROVE  MetricsInv'
  BY <1>31, ReconfigureInv
<1>4. ASSUME NEW s \in Server, Connect(s) \/ SwitchServer(s) \/ MetricsMsg(s)
      PROVE  MetricsInv'
  BY <1>4, ConnectInv, SwitchInv, UpdateInv
<1>5. CASE ZoomIn \/ ZoomOut
  BY <1>5, ZoomInv
<1>6. CASE UNCHANGED metricsVars
  <2>1. UNCHANGED <<now, rows, cycles, retention, ready, updates, joined, ring, gen,
                    pending, known, window, active, queries, lost, foreign, beyond, refused>>
    BY <1>6 DEF metricsVars, agent, hist
  <2>2. MetricsTypeOK'
    BY <2>1 DEF MetricsInv, GraphsRight, MetricsTypeOK
  <2>3. QED
    BY <2>1, <2>2
       DEF MetricsInv, GraphsRight, GraphOfWindow, PendingIsReal, RefusedUnforeseen, Untouched,
           OneLatest, LatestOfWindow, KnownFits, RetentionFits, IsLatest,
         WindowSeconds
<1>7. QED
  BY <1>1, <1>2, <1>3, <1>31, <1>4, <1>5, <1>6 DEF MetricsNext, Agent, Queries

THEOREM MetricsInvariant == MetricsSpec => []MetricsInv
<1>1. MetricsInit => MetricsInv
  BY MetricsInitInv
<1>2. MetricsInv /\ [MetricsNext]_metricsVars => MetricsInv'
  BY MetricsStepInv
<1>3. QED
  BY <1>1, <1>2, PTL DEF MetricsSpec

\* The graph of a session whose window last changed while it was the active one
\* holds points of that window only, and no more than a ring: no answer to an
\* older window is mixed in, whatever the windows and however they race.
THEOREM GraphsAreRight == MetricsSpec => []GraphsRight
<1>1. MetricsInv => GraphsRight
  BY DEF MetricsInv
<1>2. QED
  BY <1>1, MetricsInvariant, PTL

\* "loading" is shown exactly while the latest backfill is out, or was lost, but
\* for the first one of a session that was connected before the program began.
THEOREM LoadingIsTrue == MetricsSpec => []PendingIsReal
<1>1. MetricsInv => PendingIsReal
  BY DEF MetricsInv
<1>2. QED
  BY <1>1, MetricsInvariant, PTL

\* A session that knows a retention, and whose window fits it, has a window refused
\* only when its agent keeps less than it was told.
THEOREM RefusalsAreUnforeseen == MetricsSpec => []RefusedUnforeseen
<1>1. MetricsInv => RefusedUnforeseen
  BY DEF MetricsInv
<1>2. QED
  BY <1>1, MetricsInvariant, PTL

-----------------------------------------------------------------------------
(* Metrics: the peaks of a graph *)

LEMMA DivBounds ==
    ASSUME NEW a \in Nat, NEW l \in Nat \ {0}
    PROVE  a \div l \in Nat /\ l * (a \div l) <= a /\ a < l * (a \div l) + l
<1>1. a = l * (a \div l) + (a % l) /\ a % l \in 0..(l - 1) /\ a \div l \in Int
  OBVIOUS
<1>2. QED
  BY <1>1

\* Numbers less than a divisor apart have quotients at most one apart.
LEMMA DivNear ==
    ASSUME NEW a \in Nat, NEW b \in Nat, NEW l \in Nat \ {0}, b <= a, a < b + l
    PROVE  a \div l \in {b \div l, b \div l + 1}
<1> DEFINE i == a \div l
           j == b \div l
<1>1. i \in Nat /\ l * i <= a /\ a < l * i + l
  BY DivBounds
<1>2. j \in Nat /\ l * j <= b /\ b < l * j + l
  BY DivBounds
<1> HIDE DEF i, j
<1>3. l * (i + 1) = l * i + l /\ l * (j + 2) = l * j + l + l
  BY <1>1, <1>2
<1>4. l * j < l * (i + 1) /\ l * i < l * (j + 2)
  BY <1>1, <1>2, <1>3
<1>5. ASSUME NEW x \in Nat, NEW y \in Nat, l * x < l * y PROVE x < y
  <2>1. x >= y => l * x >= l * y
    OBVIOUS
  <2>2. QED
    BY <1>5, <2>1
<1>6. j < i + 1 /\ i < j + 2
  BY <1>1, <1>2, <1>4, <1>5
<1>7. i \in {j, j + 1}
  BY <1>1, <1>2, <1>6
<1>8. QED
  BY <1>7 DEF i, j

\* Seconds less than a group apart are in the same bucket or in neighbours.
LEMMA BucketNear ==
    ASSUME NEW start \in Int, NEW end \in Int, start < end, NEW x \in Int, NEW y \in Int,
           start <= x, x <= y, y < x + BucketDur(start, end)
    PROVE  /\ Bucket(x, start, end) \in 0..(Points - 1)
           /\ Bucket(y, start, end) \in 0..(Points - 1)
           /\ Bucket(y, start, end) \in {Bucket(x, start, end), Bucket(x, start, end) + 1}
<1> DEFINE l == end - start
           a == (y - start) * Points
           b == (x - start) * Points
           d == BucketDur(start, end)
           i == a \div l
           j == b \div l
<1>1. Points \in Nat \ {0} /\ l \in Nat \ {0} /\ y - start \in Nat /\ x - start \in Nat
  BY MetricsAssumption
<1>2. a \in Nat /\ b \in Nat /\ b <= a
  BY <1>1
<1>3. i \in Nat /\ j \in Nat
  BY <1>1, <1>2, DivBounds
<1>4. i \in {j, j + 1}
  <2>1. CASE d = 1
    <3>1. y = x
      BY <2>1
    <3>2. QED
      BY <1>3, <3>1
  <2>2. CASE d # 1
    <3> DEFINE e == l \div Points
    <3>1. e \in Nat /\ Points * e <= l
      BY <1>1, DivBounds
    <3>2. d = e
      BY <2>2 DEF BucketDur
    <3> HIDE DEF d, e
    <3>3. e \in Nat /\ y - x < e /\ y - x \in Nat
      BY <3>1, <3>2 DEF d
    <3>4. (y - x) * Points < e * Points
      BY <1>1, <3>3
    <3>5. a = b + (y - x) * Points /\ e * Points = Points * e
      BY <1>1, <3>3
    <3> HIDE DEF a, b, l
    <3>6. a < b + l
      <4>1. (y - x) * Points \in Nat /\ e * Points \in Nat
        BY <1>1, <3>3
      <4>2. QED
        BY <1>1, <1>2, <3>1, <3>4, <3>5, <4>1
    <3>7. QED
      BY <1>1, <1>2, <3>6, DivNear
  <2>3. QED
    BY <2>1, <2>2
<1>5. /\ Bucket(y, start, end) = IF i >= Points THEN Points - 1 ELSE i
      /\ Bucket(x, start, end) = IF j >= Points THEN Points - 1 ELSE j
  BY DEF Bucket
<1> HIDE DEF i, j
<1>6. QED
  BY <1>1, <1>3, <1>4, <1>5

\* The numbers that the elements of a finite set have are bounded.
LEMMA FiniteBounded ==
    ASSUME NEW S, IsFiniteSet(S), NEW f \in [S -> Nat]
    PROVE  \E top \in Nat : \A x \in S : f[x] <= top
<1> DEFINE Above(x) == {z \in S : f[z] > f[x]}
           counts == {Cardinality(Above(x)) : x \in S}
<1>1. CASE S = {}
  BY <1>1
<1>2. CASE S # {}
  <2>1. \A x \in S : Above(x) \subseteq S /\ IsFiniteSet(Above(x)) /\ Cardinality(Above(x)) \in Nat
    <3>1. \A x \in S : Above(x) \subseteq S
      OBVIOUS
    <3> HIDE DEF Above
    <3>2. QED
      BY <3>1, FS_Subset, FS_CardinalityType
  <2>2. PICK n \in counts : \A m \in counts : n <= m
    <3>1. counts \subseteq Nat /\ counts # {}
      BY <1>2, <2>1
    <3> HIDE DEF counts
    <3>2. QED
      BY <3>1, Least
  <2>3. PICK x \in S : \A z \in S : Cardinality(Above(x)) <= Cardinality(Above(z))
    <3>1. PICK x \in S : n = Cardinality(Above(x))
      BY <2>2
    <3>2. \A z \in S : Cardinality(Above(z)) \in counts
      OBVIOUS
    <3> HIDE DEF counts, Above
    <3>3. QED
      BY <2>2, <3>1, <3>2
  <2>4. ASSUME NEW z \in S, f[z] > f[x] PROVE FALSE
    <3>1. Above(z) \subseteq Above(x) /\ z \in Above(x) /\ z \notin Above(z)
      BY <2>4
    <3> HIDE DEF Above
    <3>2. Cardinality(Above(z)) <= Cardinality(Above(x))
      BY <2>1, <3>1, FS_Subset
    <3>3. Cardinality(Above(z)) # Cardinality(Above(x))
      BY <2>1, <3>1, FS_Subset
    <3>4. QED
      BY <2>1, <2>3, <3>2, <3>3
  <2>5. f[x] \in Nat /\ \A z \in S : f[z] <= f[x]
    BY <2>4
  <2>6. QED
    BY <2>5
<1>3. QED
  BY <1>1, <1>2

\* Of a bounded nonempty set, Max is an element and none is larger.
LEMMA MaxLargest ==
    ASSUME NEW S, S \subseteq Nat, S # {}, NEW top \in Nat, \A x \in S : x <= top
    PROVE  Max(S) \in S /\ \A x \in S : x <= Max(S)
<1> DEFINE over == {m \in Nat : \A x \in S : x <= m}
<1>1. PICK m \in over : \A n \in over : m <= n
  <2>1. over \subseteq Nat /\ over # {}
    OBVIOUS
  <2> HIDE DEF over
  <2>2. QED
    BY <2>1, Least
<1>2. m \in S
  <2>1. SUFFICES ASSUME m \notin S PROVE FALSE
    OBVIOUS
  <2>2. \A x \in S : x \in Nat /\ x < m
    BY <1>1, <2>1
  <2>3. m - 1 \in Nat /\ \A x \in S : x <= m - 1
    <3>1. m \in Nat /\ \E x \in S : x \in Nat /\ x < m
      BY <1>1, <2>2
    <3>2. QED
      BY <2>2, <3>1
  <2>4. QED
    <3>1. m <= m - 1
      BY <1>1, <2>3
    <3>2. QED
      BY <1>1, <3>1
<1>3. \E x \in S : \A y \in S : x >= y
  BY <1>1, <1>2
<1>4. Max(S) \in S /\ \A y \in S : Max(S) >= y
  BY <1>3, Zenon DEF Max
<1>5. QED
  BY <1>4

\* A reading, of a row or of a group of rows, and the seconds a group stands for.
Reading == [at : Int, cpu : Nat, mem : Nat]
Covers(g, r, d) == g.at <= r.at /\ r.at < g.at + d

LEMMA PeaksLargest ==
    ASSUME NEW S, S \subseteq Reading, S # {}, NEW top \in Nat,
           \A r \in S : r.cpu <= top /\ r.mem <= top
    PROVE  /\ Peak(S, Cpu) \in Nat /\ Peak(S, Mem) \in Nat
           /\ \A r \in S : r.cpu <= Peak(S, Cpu) /\ r.mem <= Peak(S, Mem)
           /\ \E r \in S : r.cpu = Peak(S, Cpu)
           /\ \E r \in S : r.mem = Peak(S, Mem)
<1>1. /\ Peak(S, Cpu) = Max({r.cpu : r \in S})
      /\ Peak(S, Mem) = Max({r.mem : r \in S})
  BY DEF Peak, Cpu, Mem
<1>2. \A r \in S : r.cpu \in Nat /\ r.mem \in Nat
  BY DEF Reading
<1>3. /\ Max({r.cpu : r \in S}) \in {r.cpu : r \in S}
      /\ \A x \in {r.cpu : r \in S} : x <= Max({r.cpu : r \in S})
  <2> DEFINE values == {r.cpu : r \in S}
  <2>1. values \subseteq Nat /\ values # {} /\ \A x \in values : x <= top
    BY <1>2
  <2> HIDE DEF values
  <2>2. Max(values) \in values /\ \A x \in values : x <= Max(values)
    BY <2>1, MaxLargest
  <2>3. QED
    BY <2>2 DEF values
<1>4. /\ Max({r.mem : r \in S}) \in {r.mem : r \in S}
      /\ \A x \in {r.mem : r \in S} : x <= Max({r.mem : r \in S})
  <2> DEFINE values == {r.mem : r \in S}
  <2>1. values \subseteq Nat /\ values # {} /\ \A x \in values : x <= top
    BY <1>2
  <2> HIDE DEF values
  <2>2. Max(values) \in values /\ \A x \in values : x <= Max(values)
    BY <2>1, MaxLargest
  <2>3. QED
    BY <2>2 DEF values
<1>5. QED
  BY <1>1, <1>2, <1>3, <1>4

\* Rows of bounded values, since a second.
RowsFrom(S, start, top) ==
    S \subseteq Sample /\ \A r \in S : r.cpu <= top /\ r.mem <= top /\ start <= r.at

\* Each row is covered by a group with no less of each value, and each value of a
\* group is that of a row it covers.
GroupsCover(S, groups, d, start, top) ==
    /\ \A r \in S : \E g \in groups : Covers(g, r, d) /\ r.cpu <= g.cpu /\ r.mem <= g.mem
    /\ \A g \in groups :
          /\ g \in Reading /\ start <= g.at /\ g.cpu <= top /\ g.mem <= top
          /\ \E r \in S : Covers(g, r, d) /\ r.cpu = g.cpu
          /\ \E r \in S : Covers(g, r, d) /\ r.mem = g.mem

\* SQL's groups of rows do.
LEMMA GroupsOf ==
    ASSUME NEW S, NEW top \in Nat, NEW start \in Int, NEW end \in Int, RowsFrom(S, start, top)
    PROVE  GroupsCover(S, Grouped(S, start, end), BucketDur(start, end), start, top)
<1> DEFINE groups == Grouped(S, start, end)
           d == BucketDur(start, end)
           G(r) == (r.at - start) \div d
           At(k) == {r \in S : G(r) = k}
           Group(k) == [at |-> start + k * d, cpu |-> Peak(At(k), Cpu), mem |-> Peak(At(k), Mem)]
<1>1. groups = {Group(k) : k \in {G(r) : r \in S}}
  BY DEF Grouped
<1>2. d \in Nat \ {0}
  <2>1. (end - start) \div Points \in Int
    BY MetricsAssumption
  <2>2. QED
    BY <2>1 DEF BucketDur
<1> HIDE DEF d
<1>3. \A r \in S : /\ r.at \in Nat /\ r.cpu \in Nat /\ r.mem \in Nat /\ r \in Reading
                   /\ r.at - start \in Nat
  BY DEF RowsFrom, Sample, Reading
<1>4. ASSUME NEW r \in S
      PROVE  /\ G(r) \in Nat
             /\ start + G(r) * d \in Int /\ start <= start + G(r) * d
             /\ start + G(r) * d <= r.at /\ r.at < start + G(r) * d + d
  <2> DEFINE k == G(r)
  <2>1. k \in Nat /\ d * k <= r.at - start /\ r.at - start < d * k + d
    BY <1>2, <1>3, DivBounds
  <2> HIDE DEF k
  <2>2. k * d = d * k /\ k * d \in Nat
    BY <1>2, <2>1
  <2>3. start + k * d \in Int /\ start <= start + k * d
    BY <2>2
  <2>4. start + k * d <= r.at /\ r.at < start + k * d + d
    BY <1>2, <1>3, <2>1, <2>2
  <2>5. QED
    BY <2>1, <2>3, <2>4 DEF k
<1>5. ASSUME NEW r \in S
      PROVE  /\ At(G(r)) \subseteq S /\ r \in At(G(r)) /\ At(G(r)) \subseteq Reading
             /\ \A x \in At(G(r)) : G(x) = G(r) /\ x.cpu <= top /\ x.mem <= top
  BY <1>3 DEF RowsFrom
<1> HIDE DEF G, At
<1>6. ASSUME NEW r \in S
      PROVE  /\ Peak(At(G(r)), Cpu) \in Nat /\ Peak(At(G(r)), Mem) \in Nat
             /\ \A x \in At(G(r)) : x.cpu <= Peak(At(G(r)), Cpu) /\ x.mem <= Peak(At(G(r)), Mem)
             /\ \E x \in At(G(r)) : x.cpu = Peak(At(G(r)), Cpu)
             /\ \E x \in At(G(r)) : x.mem = Peak(At(G(r)), Mem)
  <2>1. At(G(r)) \subseteq Reading /\ At(G(r)) # {}
    BY <1>5
  <2>2. \A x \in At(G(r)) : x.cpu <= top /\ x.mem <= top
    BY <1>5
  <2>3. QED
    BY <2>1, <2>2, PeaksLargest
<1>7. ASSUME NEW r \in S
      PROVE  /\ Group(G(r)).at = start + G(r) * d /\ Group(G(r)).cpu = Peak(At(G(r)), Cpu)
             /\ Group(G(r)).mem = Peak(At(G(r)), Mem)
             /\ Group(G(r)) \in Reading
  BY <1>4, <1>6 DEF Reading
<1> HIDE DEF Group, groups
<1>8. ASSUME NEW r \in S
      PROVE  \E g \in groups : Covers(g, r, d) /\ r.cpu <= g.cpu /\ r.mem <= g.mem
  <2>1. Group(G(r)) \in groups
    BY <1>1
  <2>2. /\ Covers(Group(G(r)), r, d)
        /\ r.cpu <= Group(G(r)).cpu /\ r.mem <= Group(G(r)).mem
    BY <1>4, <1>5, <1>6, <1>7 DEF Covers
  <2>3. QED
    BY <2>1, <2>2
<1>9. ASSUME NEW g \in groups
      PROVE  /\ g \in Reading /\ start <= g.at /\ g.cpu <= top /\ g.mem <= top
             /\ \E r \in S : Covers(g, r, d) /\ r.cpu = g.cpu
             /\ \E r \in S : Covers(g, r, d) /\ r.mem = g.mem
  <2>1. PICK r \in S : g = Group(G(r))
    BY <1>1
  <2>2. g \in Reading /\ start <= g.at
    BY <1>4, <1>7, <2>1
  <2>3. PICK x \in At(G(r)) : x.cpu = Peak(At(G(r)), Cpu)
    BY <1>6
  <2>4. PICK y \in At(G(r)) : y.mem = Peak(At(G(r)), Mem)
    BY <1>6
  <2>5. x \in S /\ G(x) = G(r) /\ x.cpu = g.cpu /\ x.cpu <= top
    BY <1>5, <1>7, <2>1, <2>3
  <2>6. y \in S /\ G(y) = G(r) /\ y.mem = g.mem /\ y.mem <= top
    BY <1>5, <1>7, <2>1, <2>4
  <2>7. Covers(g, x, d) /\ Covers(g, y, d)
    <3>1. g.at = start + G(r) * d
      BY <1>7, <2>1
    <3>2. /\ start + G(x) * d <= x.at /\ x.at < start + G(x) * d + d
          /\ start + G(y) * d <= y.at /\ y.at < start + G(y) * d + d
      BY <1>4, <2>5, <2>6
    <3>3. QED
      BY <2>5, <2>6, <3>1, <3>2 DEF Covers
  <2>8. QED
    BY <2>2, <2>5, <2>6, <2>7
<1>10. QED
  BY <1>8, <1>9 DEF GroupsCover, groups, d

\* A graph whose points are 0 or the value of a group of their bucket, and no lower
\* than any group of theirs, is near the rows: for the CPU, and for the memory.
Drawing(points, groups, start, end, f(_)) ==
    /\ \A g \in groups : f(g) <= f(points[Bucket(g.at, start, end) + 1])
    /\ \A j \in DOMAIN points :
          \/ f(points[j]) = 0
          \/ \E g \in groups : Bucket(g.at, start, end) = j - 1 /\ f(g) = f(points[j])

LEMMA NearRows ==
    ASSUME NEW ans, NEW points, NEW S, NEW top \in Nat, NEW start \in Int, NEW end \in Int,
           start < end, RowsFrom(S, start, top),
           ans.rows = S, ans.start = start, ans.end = end,
           points = <<>> \/ DOMAIN points = 1..Points,
           \A j \in DOMAIN points : points[j].cpu \in Nat /\ points[j].mem \in Nat
    PROVE  /\ Drawing(points, Grouped(S, start, end), start, end, Cpu) /\ (points = <<>> => S = {})
                 => Near(ans, points, Cpu)
           /\ Drawing(points, Grouped(S, start, end), start, end, Mem) /\ (points = <<>> => S = {})
                 => Near(ans, points, Mem)
<1> DEFINE groups == Grouped(S, start, end)
           d == BucketDur(start, end)
           B(r) == Bucket(r.at, start, end)
<1>1. /\ \A r \in S : \E g \in groups : Covers(g, r, d) /\ r.cpu <= g.cpu /\ r.mem <= g.mem
      /\ \A g \in groups :
            /\ g \in Reading /\ start <= g.at
            /\ \E r \in S : Covers(g, r, d) /\ r.cpu = g.cpu
            /\ \E r \in S : Covers(g, r, d) /\ r.mem = g.mem
  BY GroupsOf DEF GroupsCover
<1>2. ASSUME NEW r \in S, NEW g \in groups, Covers(g, r, d)
      PROVE  B(g) \in 0..(Points - 1) /\ B(r) \in 0..(Points - 1) /\ B(r) \in {B(g), B(g) + 1}
  <2>1. r.at \in Int /\ g.at \in Int /\ start <= g.at /\ g.at <= r.at /\ r.at < g.at + d
    BY <1>1, <1>2 DEF RowsFrom, Sample, Reading, Covers
  <2>2. QED
    BY <2>1, BucketNear
<1>3. \A r \in S : r.cpu \in Nat /\ r.mem \in Nat
  BY DEF RowsFrom, Sample
<1> HIDE DEF groups, d, B
<1>4. \A g \in groups : g.cpu \in Nat /\ g.mem \in Nat
  BY <1>1 DEF Reading
<1>5. Points \in Nat \ {0}
  BY MetricsAssumption
<1>6. ASSUME Drawing(points, groups, start, end, Cpu), points = <<>> => S = {}
      PROVE  Near(ans, points, Cpu)
  <2>1. ASSUME NEW r \in S
        PROVE  \E j \in {B(r), B(r) + 1} \intersect 1..Points : points[j].cpu >= r.cpu
    <3>1. PICK g \in groups : Covers(g, r, d) /\ r.cpu <= g.cpu
      BY <1>1
    <3>2. B(g) \in 0..(Points - 1) /\ B(r) \in {B(g), B(g) + 1}
      BY <1>2, <3>1
    <3>3. g.cpu <= points[B(g) + 1].cpu
      BY <1>6 DEF Drawing, Cpu, B
    <3>4. DOMAIN points = 1..Points /\ B(g) + 1 \in 1..Points
      BY <1>5, <1>6, <3>2
    <3>5. B(g) + 1 \in {B(r), B(r) + 1}
      BY <3>2
    <3>6. points[B(g) + 1].cpu \in Nat /\ r.cpu \in Nat /\ g.cpu \in Nat
      BY <1>3, <1>4, <3>4
    <3>7. points[B(g) + 1].cpu >= r.cpu
      BY <3>1, <3>3, <3>6
    <3>8. QED
      BY <3>4, <3>5, <3>7
  <2>2. ASSUME NEW j \in DOMAIN points, points[j].cpu # 0
        PROVE  \E r \in S : r.cpu = points[j].cpu /\ B(r) \in {j - 1, j}
    <3>1. PICK g \in groups : B(g) = j - 1 /\ g.cpu = points[j].cpu
      BY <1>6, <2>2 DEF Drawing, Cpu, B
    <3>2. PICK r \in S : Covers(g, r, d) /\ r.cpu = g.cpu
      BY <1>1
    <3>3. B(r) \in {B(g), B(g) + 1} /\ B(g) \in Int
      BY <1>2, <3>2
    <3>4. j \in Int
      BY <1>5
    <3>5. B(r) \in {j - 1, j}
      BY <3>1, <3>3, <3>4
    <3>6. QED
      BY <3>1, <3>2, <3>5
  <2>3. QED
    BY <2>1, <2>2 DEF Near, Cpu, B
<1>7. ASSUME Drawing(points, groups, start, end, Mem), points = <<>> => S = {}
      PROVE  Near(ans, points, Mem)
  <2>1. ASSUME NEW r \in S
        PROVE  \E j \in {B(r), B(r) + 1} \intersect 1..Points : points[j].mem >= r.mem
    <3>1. PICK g \in groups : Covers(g, r, d) /\ r.mem <= g.mem
      BY <1>1
    <3>2. B(g) \in 0..(Points - 1) /\ B(r) \in {B(g), B(g) + 1}
      BY <1>2, <3>1
    <3>3. g.mem <= points[B(g) + 1].mem
      BY <1>7 DEF Drawing, Mem, B
    <3>4. DOMAIN points = 1..Points /\ B(g) + 1 \in 1..Points
      BY <1>5, <1>7, <3>2
    <3>5. B(g) + 1 \in {B(r), B(r) + 1}
      BY <3>2
    <3>6. points[B(g) + 1].mem \in Nat /\ r.mem \in Nat /\ g.mem \in Nat
      BY <1>3, <1>4, <3>4
    <3>7. points[B(g) + 1].mem >= r.mem
      BY <3>1, <3>3, <3>6
    <3>8. QED
      BY <3>4, <3>5, <3>7
  <2>2. ASSUME NEW j \in DOMAIN points, points[j].mem # 0
        PROVE  \E r \in S : r.mem = points[j].mem /\ B(r) \in {j - 1, j}
    <3>1. PICK g \in groups : B(g) = j - 1 /\ g.mem = points[j].mem
      BY <1>7, <2>2 DEF Drawing, Mem, B
    <3>2. PICK r \in S : Covers(g, r, d) /\ r.mem = g.mem
      BY <1>1
    <3>3. B(r) \in {B(g), B(g) + 1} /\ B(g) \in Int
      BY <1>2, <3>2
    <3>4. j \in Int
      BY <1>5
    <3>5. B(r) \in {j - 1, j}
      BY <3>1, <3>3, <3>4
    <3>6. QED
      BY <3>1, <3>2, <3>5
  <2>3. QED
    BY <2>1, <2>2 DEF Near, Mem, B
<1>8. QED
  BY <1>6, <1>7 DEF groups

\* What a downsampled graph of some groups is.
Downsampled(points, groups) ==
    /\ (groups = {} /\ points = <<>>) \/ (groups # {} /\ DOMAIN points = 1..Points)
    /\ \A j \in DOMAIN points : points[j].cpu \in Nat /\ points[j].mem \in Nat

\* The groups of a bucket: each group is in one, and they have peaks.
LEMMA Buckets ==
    ASSUME NEW groups, NEW start \in Int, NEW end \in Int, start < end, NEW top \in Nat,
           groups \subseteq Reading,
           \A g \in groups : start <= g.at /\ g.cpu <= top /\ g.mem <= top
    PROVE  /\ \A g \in groups : /\ Bucket(g.at, start, end) \in 0..(Points - 1)
                                /\ g \in InBucket(groups, Bucket(g.at, start, end), start, end)
           /\ \A i \in Int :
                 LET in == InBucket(groups, i, start, end)
                 IN /\ in \subseteq groups /\ \A g \in in : Bucket(g.at, start, end) = i
                    /\ in # {} =>
                          /\ Peak(in, Cpu) \in Nat /\ Peak(in, Mem) \in Nat
                          /\ \A g \in in : g.cpu <= Peak(in, Cpu) /\ g.mem <= Peak(in, Mem)
                          /\ \E g \in in : g.cpu = Peak(in, Cpu)
                          /\ \E g \in in : g.mem = Peak(in, Mem)
<1>1. ASSUME NEW g \in groups
      PROVE  /\ Bucket(g.at, start, end) \in 0..(Points - 1)
             /\ g \in InBucket(groups, Bucket(g.at, start, end), start, end)
  <2>1. g.at \in Int /\ start <= g.at
    BY DEF Reading
  <2>2. BucketDur(start, end) \in Int /\ BucketDur(start, end) > 0
    <3>1. (end - start) \div Points \in Int
      BY MetricsAssumption
    <3>2. QED
      BY <3>1 DEF BucketDur
  <2>3. g.at < g.at + BucketDur(start, end) /\ g.at <= g.at
    BY <2>1, <2>2
  <2>4. Bucket(g.at, start, end) \in 0..(Points - 1)
    BY <2>1, <2>3, BucketNear
  <2>5. QED
    BY <2>4 DEF InBucket
<1>2. ASSUME NEW i \in Int
      PROVE  LET in == InBucket(groups, i, start, end)
             IN /\ in \subseteq groups /\ \A g \in in : Bucket(g.at, start, end) = i
                /\ in # {} =>
                      /\ Peak(in, Cpu) \in Nat /\ Peak(in, Mem) \in Nat
                      /\ \A g \in in : g.cpu <= Peak(in, Cpu) /\ g.mem <= Peak(in, Mem)
                      /\ \E g \in in : g.cpu = Peak(in, Cpu)
                      /\ \E g \in in : g.mem = Peak(in, Mem)
  <2> DEFINE in == InBucket(groups, i, start, end)
  <2>1. in \subseteq groups /\ \A g \in in : Bucket(g.at, start, end) = i
    BY DEF InBucket
  <2> HIDE DEF in
  <2>2. in \subseteq Reading /\ \A g \in in : g.cpu <= top /\ g.mem <= top
    BY <2>1
  <2>3. in # {} =>
          /\ Peak(in, Cpu) \in Nat /\ Peak(in, Mem) \in Nat
          /\ \A g \in in : g.cpu <= Peak(in, Cpu) /\ g.mem <= Peak(in, Mem)
          /\ \E g \in in : g.cpu = Peak(in, Cpu)
          /\ \E g \in in : g.mem = Peak(in, Mem)
    BY <2>2, PeaksLargest
  <2>4. QED
    BY <2>1, <2>3 DEF in
<1>3. QED
  BY <1>1, <1>2

\* The host's graph, and that of a container with many groups, has the peak of each bucket.
LEMMA HostDrawing ==
    ASSUME NEW groups, NEW start \in Int, NEW end \in Int, start < end, NEW top \in Nat,
           groups \subseteq Reading,
           \A g \in groups : start <= g.at /\ g.cpu <= top /\ g.mem <= top
    PROVE  LET points == DownsampleHost(groups, start, end)
           IN /\ Downsampled(points, groups)
              /\ Drawing(points, groups, start, end, Cpu)
              /\ Drawing(points, groups, start, end, Mem)
<1> DEFINE points == DownsampleHost(groups, start, end)
           At(i) == InBucket(groups, i, start, end)
<1>1. CASE groups = {}
  <2>1. points = <<>> /\ DOMAIN points = {}
    BY <1>1 DEF DownsampleHost
  <2> HIDE DEF points
  <2>2. Downsampled(points, groups)
    BY <1>1, <2>1 DEF Downsampled
  <2>3. Drawing(points, groups, start, end, Cpu) /\ Drawing(points, groups, start, end, Mem)
    BY <1>1, <2>1 DEF Drawing
  <2>4. QED
    BY <2>2, <2>3 DEF points
<1>2. CASE groups # {}
  <2>1. points = [j \in 1..Points |->
                    IF At(j - 1) = {} THEN Empty(j - 1, start, end)
                    ELSE [at |-> Stamp(j - 1, start, end), cpu |-> Peak(At(j - 1), Cpu),
                          mem |-> Peak(At(j - 1), Mem)]]
    BY <1>2 DEF DownsampleHost
  <2>2. /\ \A g \in groups : /\ Bucket(g.at, start, end) \in 0..(Points - 1)
                             /\ g \in At(Bucket(g.at, start, end))
        /\ \A i \in Int :
              /\ At(i) \subseteq groups /\ \A g \in At(i) : Bucket(g.at, start, end) = i
              /\ At(i) # {} =>
                    /\ Peak(At(i), Cpu) \in Nat /\ Peak(At(i), Mem) \in Nat
                    /\ \A g \in At(i) : g.cpu <= Peak(At(i), Cpu) /\ g.mem <= Peak(At(i), Mem)
                    /\ \E g \in At(i) : g.cpu = Peak(At(i), Cpu)
                    /\ \E g \in At(i) : g.mem = Peak(At(i), Mem)
    BY Buckets
  <2>3. Points \in Nat \ {0}
    BY MetricsAssumption
  <2> HIDE DEF points, At
  <2>4. ASSUME NEW j \in 1..Points
        PROVE  /\ At(j - 1) = {} => points[j].cpu = 0 /\ points[j].mem = 0
               /\ At(j - 1) # {} => /\ points[j].cpu = Peak(At(j - 1), Cpu)
                                    /\ points[j].mem = Peak(At(j - 1), Mem)
               /\ j - 1 \in Int
    BY <2>1, <2>3 DEF Empty
  <2>5. DOMAIN points = 1..Points
    BY <2>1
  <2>6. Downsampled(points, groups)
    BY <1>2, <2>2, <2>4, <2>5 DEF Downsampled
  <2>7. ASSUME NEW g \in groups
        PROVE  /\ g.cpu <= points[Bucket(g.at, start, end) + 1].cpu
               /\ g.mem <= points[Bucket(g.at, start, end) + 1].mem
    <3> DEFINE b == Bucket(g.at, start, end)
    <3>1. b \in 0..(Points - 1) /\ g \in At(b) /\ At(b) # {}
      BY <2>2
    <3> HIDE DEF b
    <3> DEFINE j == b + 1
    <3>2. j \in 1..Points /\ j - 1 = b
      BY <2>3, <3>1
    <3> HIDE DEF j
    <3>3. points[j].cpu = Peak(At(b), Cpu) /\ points[j].mem = Peak(At(b), Mem)
      BY <2>4, <3>1, <3>2
    <3>4. g.cpu <= Peak(At(b), Cpu) /\ g.mem <= Peak(At(b), Mem)
      BY <2>2, <3>1
    <3>5. QED
      BY <3>3, <3>4 DEF j, b
  <2>8. ASSUME NEW j \in DOMAIN points
        PROVE  /\ points[j].cpu = 0 \/ \E g \in groups :
                     Bucket(g.at, start, end) = j - 1 /\ g.cpu = points[j].cpu
               /\ points[j].mem = 0 \/ \E g \in groups :
                     Bucket(g.at, start, end) = j - 1 /\ g.mem = points[j].mem
    <3>1. j \in 1..Points /\ j - 1 \in Int
      BY <2>4, <2>5
    <3>2. QED
      BY <2>2, <2>4, <3>1
  <2>9. Drawing(points, groups, start, end, Cpu)
    BY <2>7, <2>8 DEF Drawing, Cpu
  <2>10. Drawing(points, groups, start, end, Mem)
    BY <2>7, <2>8 DEF Drawing, Mem
  <2>11. QED
    BY <2>6, <2>9, <2>10 DEF points
<1>3. QED
  BY <1>1, <1>2

\* Of a nonempty set of readings since a second, Earliest is one.
LEMMA EarliestIn ==
    ASSUME NEW S, S # {}, S \subseteq Reading, NEW start \in Int, \A g \in S : start <= g.at
    PROVE  Earliest(S) \in S
<1> DEFINE ages == {g.at - start : g \in S}
<1>1. ages \subseteq Nat /\ ages # {}
  BY DEF Reading
<1>2. PICK a \in ages : \A b \in ages : a <= b
  <2> HIDE DEF ages
  <2>1. QED
    BY <1>1, Least
<1>3. PICK g \in S : g.at - start = a
  BY <1>2
<1>4. \A x \in S : g.at \in Int /\ x.at \in Int /\ g.at - start <= x.at - start
  BY <1>2, <1>3 DEF Reading
<1>5. \A x \in S : g.at <= x.at
  BY <1>4
<1>6. QED
  BY <1>5, Zenon DEF Earliest

\* A container with few groups keeps the peaks of the CPU.
LEMMA ContainerDrawing ==
    ASSUME NEW groups, NEW start \in Int, NEW end \in Int, start < end, NEW top \in Nat,
           groups \subseteq Reading,
           \A g \in groups : start <= g.at /\ g.cpu <= top /\ g.mem <= top
    PROVE  LET points == DownsampleContainers(groups, start, end)
           IN /\ Downsampled(points, groups)
              /\ Drawing(points, groups, start, end, Cpu)
              /\ Cardinality(groups) > Points => Drawing(points, groups, start, end, Mem)
<1> DEFINE points == DownsampleContainers(groups, start, end)
           At(i) == InBucket(groups, i, start, end)
           Most(i) == {g \in At(i) : g.cpu = Peak(At(i), Cpu)}
<1>1. CASE Cardinality(groups) > Points \/ groups = {}
  <2>1. points = DownsampleHost(groups, start, end)
    BY <1>1 DEF DownsampleContainers
  <2>2. /\ Downsampled(DownsampleHost(groups, start, end), groups)
        /\ Drawing(DownsampleHost(groups, start, end), groups, start, end, Cpu)
        /\ Drawing(DownsampleHost(groups, start, end), groups, start, end, Mem)
    BY HostDrawing
  <2> HIDE DEF points
  <2>3. /\ Downsampled(points, groups)
        /\ Drawing(points, groups, start, end, Cpu)
        /\ Drawing(points, groups, start, end, Mem)
    BY <2>1, <2>2
  <2>4. QED
    BY <2>3 DEF points
<1>2. CASE ~(Cardinality(groups) > Points \/ groups = {})
  <2>1. points = [j \in 1..Points |->
                    IF At(j - 1) = {} THEN Empty(j - 1, start, end)
                    ELSE [Earliest(Most(j - 1)) EXCEPT !.at = Stamp(j - 1, start, end)]]
    BY <1>2 DEF DownsampleContainers
  <2>2. /\ \A g \in groups : /\ Bucket(g.at, start, end) \in 0..(Points - 1)
                             /\ g \in At(Bucket(g.at, start, end))
        /\ \A i \in Int :
              /\ At(i) \subseteq groups /\ \A g \in At(i) : Bucket(g.at, start, end) = i
              /\ At(i) # {} =>
                    /\ Peak(At(i), Cpu) \in Nat
                    /\ \A g \in At(i) : g.cpu <= Peak(At(i), Cpu)
                    /\ \E g \in At(i) : g.cpu = Peak(At(i), Cpu)
    BY Buckets
  <2>3. Points \in Nat \ {0}
    BY MetricsAssumption
  <2>4. ASSUME NEW i \in Int, At(i) # {}
        PROVE  /\ Earliest(Most(i)) \in Reading /\ Earliest(Most(i)) \in groups
               /\ Earliest(Most(i)).cpu = Peak(At(i), Cpu)
    <3>1. Most(i) # {} /\ Most(i) \subseteq groups /\ \A g \in Most(i) : g.cpu = Peak(At(i), Cpu)
      BY <2>2, <2>4
    <3> HIDE DEF Most
    <3>2. Most(i) \subseteq Reading /\ \A g \in Most(i) : start <= g.at
      BY <3>1
    <3>3. Earliest(Most(i)) \in Most(i)
      BY <3>1, <3>2, EarliestIn
    <3>4. QED
      BY <3>1, <3>2, <3>3
  <2> HIDE DEF points, At, Most
  <2>5. ASSUME NEW j \in 1..Points
        PROVE  /\ At(j - 1) = {} => points[j].cpu = 0 /\ points[j].mem = 0
               /\ At(j - 1) # {} => /\ points[j].cpu = Peak(At(j - 1), Cpu)
                                    /\ points[j].cpu \in Nat /\ points[j].mem \in Nat
               /\ j - 1 \in Int
    <3>1. j - 1 \in Int
      BY <2>3
    <3>2. CASE At(j - 1) = {}
      BY <2>1, <3>1, <3>2 DEF Empty
    <3>3. CASE At(j - 1) # {}
      <4> DEFINE e == Earliest(Most(j - 1))
      <4>1. e \in Reading /\ e.cpu = Peak(At(j - 1), Cpu)
        BY <2>4, <3>1, <3>3
      <4>2. points[j] = [e EXCEPT !.at = Stamp(j - 1, start, end)]
        BY <2>1, <3>3
      <4> HIDE DEF e
      <4>3. points[j].cpu = e.cpu /\ points[j].mem = e.mem /\ e.cpu \in Nat /\ e.mem \in Nat
        BY <4>1, <4>2 DEF Reading
      <4>4. QED
        BY <3>1, <3>3, <4>1, <4>3
    <3>4. QED
      BY <3>2, <3>3
  <2>6. DOMAIN points = 1..Points
    BY <2>1
  <2>7. Downsampled(points, groups)
    BY <1>2, <2>5, <2>6 DEF Downsampled
  <2>8. ASSUME NEW g \in groups
        PROVE  g.cpu <= points[Bucket(g.at, start, end) + 1].cpu
    <3> DEFINE b == Bucket(g.at, start, end)
    <3>1. b \in 0..(Points - 1) /\ g \in At(b) /\ At(b) # {}
      BY <2>2
    <3> HIDE DEF b
    <3> DEFINE j == b + 1
    <3>2. j \in 1..Points /\ j - 1 = b
      BY <2>3, <3>1
    <3> HIDE DEF j
    <3>3. points[j].cpu = Peak(At(b), Cpu)
      BY <2>5, <3>1, <3>2
    <3>4. g.cpu <= Peak(At(b), Cpu)
      BY <2>2, <3>1
    <3>5. QED
      BY <3>3, <3>4 DEF j, b
  <2>9. ASSUME NEW j \in DOMAIN points
        PROVE  points[j].cpu = 0 \/ \E g \in groups :
                   Bucket(g.at, start, end) = j - 1 /\ g.cpu = points[j].cpu
    <3>1. j \in 1..Points /\ j - 1 \in Int
      BY <2>5, <2>6
    <3>2. QED
      BY <2>2, <2>5, <3>1
  <2>10. Drawing(points, groups, start, end, Cpu)
    BY <2>8, <2>9 DEF Drawing, Cpu
  <2>11. QED
    BY <1>2, <2>7, <2>10 DEF points
<1>3. QED
  BY <1>1, <1>2

\* An agent's rows are bounded.
LEMMA RowsBounded ==
    ASSUME NEW S, S \subseteq Sample, IsFiniteSet(S), NEW start, \A r \in S : start <= r.at
    PROVE  \E top \in Nat : RowsFrom(S, start, top)
<1> DEFINE f == [r \in S |-> IF r.cpu > r.mem THEN r.cpu ELSE r.mem]
<1>1. f \in [S -> Nat]
  BY DEF Sample
<1>2. \A r \in S : r.cpu \in Nat /\ r.mem \in Nat /\ r.cpu <= f[r] /\ r.mem <= f[r] /\ f[r] \in Nat
  BY DEF Sample
<1> HIDE DEF f
<1>3. PICK top \in Nat : \A r \in S : f[r] <= top
  BY <1>1, FiniteBounded
<1>4. \A r \in S : r.cpu <= top /\ r.mem <= top
  BY <1>2, <1>3
<1>5. QED
  BY <1>4 DEF RowsFrom

LEMMA PeaksNear == MetricsTypeOK => PeakNear
<1> SUFFICES ASSUME MetricsTypeOK, NEW q \in queries, q.at # "answered", q.win > 0
             PROVE  LET ans == Answer(q.srv, q.win)
                    IN /\ Near(ans, ans.host, Cpu) /\ Near(ans, ans.host, Mem)
                       /\ Near(ans, ans.cont, Cpu)
                       /\ Cardinality(ans.groups) > Points => Near(ans, ans.cont, Mem)
  BY DEF PeakNear
<1> DEFINE ans == Answer(q.srv, q.win)
           start == now - q.win
           S == InRange(rows[q.srv], start, now)
           groups == Grouped(S, start, now)
           d == BucketDur(start, now)
<1>1. /\ ans.rows = S /\ ans.start = start /\ ans.end = now /\ ans.groups = groups
      /\ ans.host = DownsampleHost(groups, start, now)
      /\ ans.cont = DownsampleContainers(groups, start, now)
  BY DEF Answer, Range_
<1>2. q.srv \in Server /\ q.win \in Nat /\ now \in Nat
  BY DEF MetricsTypeOK, Queried
<1>3. S \subseteq rows[q.srv] /\ rows[q.srv] \subseteq Sample /\ IsFiniteSet(rows[q.srv])
  BY <1>2 DEF MetricsTypeOK, InRange
<1>4. S \subseteq Sample /\ \A r \in S : start <= r.at
  BY <1>3 DEF InRange
<1>5. start \in Int /\ start < now /\ now \in Int
  BY <1>2
<1> HIDE DEF ans, start, S
<1>6. IsFiniteSet(S)
  BY <1>3, FS_Subset
<1>7. PICK top \in Nat : RowsFrom(S, start, top)
  BY <1>4, <1>6, RowsBounded
<1>8. GroupsCover(S, groups, d, start, top)
  BY <1>5, <1>7, GroupsOf
<1>9. /\ groups \subseteq Reading /\ (groups = {} => S = {})
      /\ \A g \in groups : start <= g.at /\ g.cpu <= top /\ g.mem <= top
  BY <1>8 DEF GroupsCover
<1> HIDE DEF groups, d
<1>10. /\ Downsampled(ans.host, groups)
       /\ Drawing(ans.host, groups, start, now, Cpu) /\ Drawing(ans.host, groups, start, now, Mem)
  BY <1>1, <1>5, <1>9, HostDrawing
<1>11. /\ Downsampled(ans.cont, groups)
       /\ Drawing(ans.cont, groups, start, now, Cpu)
       /\ Cardinality(groups) > Points => Drawing(ans.cont, groups, start, now, Mem)
  BY <1>1, <1>5, <1>9, ContainerDrawing
<1>12. ASSUME NEW points, Downsampled(points, groups)
       PROVE  /\ points = <<>> \/ DOMAIN points = 1..Points
              /\ points = <<>> => S = {}
              /\ \A j \in DOMAIN points : points[j].cpu \in Nat /\ points[j].mem \in Nat
  <2>1. DOMAIN points = 1..Points => points # <<>>
    <3>1. 1 \in 1..Points /\ DOMAIN <<>> = {}
      BY MetricsAssumption
    <3>2. QED
      BY <3>1
  <2>2. QED
    BY <1>9, <1>12, <2>1 DEF Downsampled
<1>13. Near(ans, ans.host, Cpu) /\ Near(ans, ans.host, Mem)
  BY <1>1, <1>5, <1>7, <1>10, <1>12, NearRows DEF groups
<1>14. Near(ans, ans.cont, Cpu)
  BY <1>1, <1>5, <1>7, <1>11, <1>12, NearRows DEF groups
<1>15. Cardinality(groups) > Points => Near(ans, ans.cont, Mem)
  BY <1>1, <1>5, <1>7, <1>11, <1>12, NearRows DEF groups
<1>16. QED
  BY <1>1, <1>13, <1>14, <1>15 DEF ans

\* A downsampled graph loses no peak of the rows and invents none, at every moment
\* at which a query may be answered.
THEOREM PeaksAreNear == MetricsSpec => []PeakNear
<1>1. MetricsInv => PeakNear
  BY PeaksNear DEF MetricsInv, GraphsRight
<1>2. QED
  BY <1>1, MetricsInvariant, PTL
=============================================================================
