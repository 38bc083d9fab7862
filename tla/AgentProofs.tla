---------------------------- MODULE AgentProofs -----------------------------
(***************************************************************************)
(* Proofs about two parts of the agent that share nothing but the process. *)
(*                                                                         *)
(* Reload, for any number of alerters, keys and connections: shutdown      *)
(* never closes a queue somebody can still send on, and a replaced alerter *)
(* is left alone once its last user has finished.                          *)
(*                                                                         *)
(* LogTailer, for any logs, runs, faults and sizes of batch and channel:   *)
(* the lines a tailer stored, holds or lost are the ones it was sent, in   *)
(* order and once, and one that has ended has nothing left; one that was   *)
(* not cancelled ends with its run; and the whole implements LineStore.    *)
(***************************************************************************)
EXTENDS Reload, LogTailer, FiniteSetTheorems, SequenceTheorems, TLAPS

-----------------------------------------------------------------------------
(* Reload *)

\* The first state satisfies the inductive invariant.
LEMMA InvInit == Init => IInv
<1> SUFFICES ASSUME Init PROVE IInv
  OBVIOUS
<1>1. gen \in 0..MaxGen /\ gen \in {0, 1} /\ cur = gen /\ gen \in 0..gen
  BY ReloadAssumption DEF Init
<1>2. TypeOK
  <2>1. /\ panicked \in 0..MaxGen /\ next \in 0..MaxGen /\ closed \subseteq Gens
        /\ reload \in Configs \cup {"empty"}
    BY ReloadAssumption DEF Init, Configs
  <2>2. /\ handler \in [Handlers -> [pc : {"idle", "evaluate", "send", "exited"},
                                    g : 0..MaxGen]]
        /\ firing \in [Gens -> SUBSET Keys] /\ ptr \in [Users -> 0..MaxGen]
    BY <1>1, ReloadAssumption DEF Init, Idle
  <2>3. stuck \in BOOLEAN
    BY DEF Init
  <2>4. QED
    BY <1>1, <2>1, <2>2, <2>3 DEF Init, TypeOK
<1>3. ClosedCurrent /\ Pointers /\ NextIsFresh /\ Waited /\ PanicOnlyInReload
  BY <1>1
     DEF Init, ClosedCurrent, Pointers, NextIsFresh, Waited, PanicOnlyInReload,
         ReloadPcs, ShutdownPcs
<1>4. QED
  BY <1>2, <1>3 DEF IInv

\* Every step keeps the inductive invariant: one case per action.
LEMMA InvStep == IInv /\ [Next]_vars => IInv'
<1> SUFFICES ASSUME IInv, [Next]_vars PROVE IInv'
  OBVIOUS
<1> USE ReloadAssumption DEF IInv
<1>1. ASSUME NEW c \in Configs, RequestReload(c) PROVE IInv'
  BY <1>1
     DEF RequestReload, TypeOK, ClosedCurrent, Pointers, NextIsFresh, Waited,
         PanicOnlyInReload
<1>2. CASE BeginApply
  <2>1. TypeOK'
    BY <1>2 DEF BeginApply, Retire, TypeOK, ReloadPcs
  <2>2. closed \subseteq 1..gen /\ gen \in Nat /\ gen + 1 \notin 1..gen /\ 0 \notin 1..gen
    BY DEF NextIsFresh, TypeOK
  <2>3. NextIsFresh'
    BY <1>2, <2>2 DEF BeginApply, Retire, NextIsFresh, TypeOK, ReloadPcs
  <2>4. ClosedCurrent' /\ Pointers' /\ Waited' /\ PanicOnlyInReload'
    BY <1>2
       DEF BeginApply, Retire, Running, ClosedCurrent, Pointers, Waited,
           PanicOnlyInReload, ReloadPcs, ShutdownPcs
  <2>5. QED
    BY <2>1, <2>3, <2>4
<1>3. CASE ResolveAll
  BY <1>3
     DEF ResolveAll, Running, TypeOK, ClosedCurrent, Pointers, NextIsFresh,
         Waited,
              PanicOnlyInReload, ReloadPcs, ShutdownPcs
<1>4. CASE StopOld
  <2>1. cur \in 1..gen /\ cur \in Gens
    BY <1>4 DEF StopOld, NextIsFresh, TypeOK, Gens
  <2>2. QED
    BY <1>4, <2>1
       DEF StopOld, Running, TypeOK, ClosedCurrent, Pointers, NextIsFresh,
                      Waited, PanicOnlyInReload, ReloadPcs, ShutdownPcs
<1>5. CASE Install
  BY <1>5
     DEF Install, Running, TypeOK, ClosedCurrent, Pointers, NextIsFresh, Waited,
              PanicOnlyInReload, ReloadPcs, ShutdownPcs
<1>6. CASE Publish
  BY <1>6
     DEF Publish, SetAlerter, Running, TypeOK, ClosedCurrent, Pointers,
         NextIsFresh,
              Waited, PanicOnlyInReload, ReloadPcs, ShutdownPcs, Users
<1>7. CASE Shutdown
  <2>1. pc \in ShutdownPcs /\ pc' \in ShutdownPcs \ {"waitEvents"} /\ panicked' = 0
    BY <1>7 DEF Shutdown, Running, ShutdownPcs
  <2>2. closed' \subseteq (1..gen) \cap Gens
    <3>1. {cur} \ {0} \subseteq (1..gen) \cap Gens
      BY DEF NextIsFresh, TypeOK, Gens
    <3>2. closed \subseteq (1..gen) \cap Gens
      BY DEF NextIsFresh, TypeOK
    <3>3. closed' \in {closed, closed \cup ({cur} \ {0})}
      BY <1>7 DEF Shutdown
    <3>4. QED
      BY <3>1, <3>2, <3>3
  <2>3. TypeOK'
    BY <1>7, <2>1, <2>2 DEF Shutdown, TypeOK
  <2>4. ClosedCurrent'
    BY <1>7 DEF Shutdown, ClosedCurrent
  <2>5. Waited'
    BY <1>7 DEF Shutdown, AllExited, User, Handlers, Waited, ShutdownPcs
  <2>6. Pointers' /\ NextIsFresh' /\ PanicOnlyInReload'
    BY <1>7, <2>1, <2>2
       DEF Shutdown, Pointers, NextIsFresh, PanicOnlyInReload, ReloadPcs,
                            ShutdownPcs
  <2>7. QED
    BY <2>3, <2>4, <2>5, <2>6
<1>8. CASE Collect
  BY <1>8, ZenonT(60)
     DEF Collect, Running, TypeOK, ClosedCurrent, Pointers, NextIsFresh, Waited,
              PanicOnlyInReload, ReloadPcs, ShutdownPcs
<1>9. CASE BeginShutdown
  BY <1>9
     DEF BeginShutdown, Running, TypeOK, ClosedCurrent, Pointers, NextIsFresh,
         Waited,
              PanicOnlyInReload, ReloadPcs, ShutdownPcs
<1>10. CASE EvaluateEvent
  BY <1>10
     DEF EvaluateEvent, Running, Idle, Handlers, TypeOK, ClosedCurrent, Pointers,
               NextIsFresh, Waited, PanicOnlyInReload
<1>11. ASSUME NEW h \in Handlers, ReadPointer(h) PROVE IInv'
  BY <1>11
     DEF ReadPointer, User, Users, Running, Handlers, TypeOK, ClosedCurrent,
         Pointers,
               NextIsFresh, Waited, PanicOnlyInReload
<1>12. ASSUME NEW h \in Handlers, SendAlert(h) PROVE IInv'
  BY <1>12
     DEF SendAlert, Idle, Running, Handlers, TypeOK, ClosedCurrent, Pointers,
               NextIsFresh, Waited, PanicOnlyInReload, ReloadPcs, ShutdownPcs, Gens
<1>13. ASSUME NEW h \in Handlers, HandlerExit(h) PROVE IInv'
  BY <1>13 DEF HandlerExit, Running, Handlers, TypeOK, ClosedCurrent, Pointers,
               NextIsFresh, Waited, PanicOnlyInReload
<1>14. CASE UNCHANGED vars
  BY <1>14
     DEF vars, TypeOK, ClosedCurrent, Pointers, NextIsFresh, Waited,
         PanicOnlyInReload
<1>15. CASE TailerSticks
  BY <1>15
     DEF TailerSticks, Running, TypeOK, ClosedCurrent, Pointers, NextIsFresh, Waited,
         PanicOnlyInReload
<1>16. QED
  BY <1>1, <1>2, <1>3, <1>4, <1>5, <1>6, <1>7, <1>8, <1>9, <1>10, <1>11, <1>12,
     <1>13, <1>14, <1>15 DEF Next, Main

\* Shutdown never makes a goroutine send on a closed queue: only a reload can.
THEOREM ShutdownIsSafe == Spec => []PanicOnlyInReload
<1>1. Spec => []IInv
  BY InvInit, InvStep, PTL DEF Spec
<1>2. IInv => PanicOnlyInReload
  BY DEF IInv
<1>3. QED
  BY <1>1, <1>2, PTL

\* A step does not touch an alerter that was replaced and has no user left.
LEMMA IdleStep ==
    ASSUME IInv, Next, NEW g \in Gens, Replaced(g)
    PROVE  firing'[g] = firing[g] /\ \A h \in Handlers : handler'[h].g # g
<1> USE ReloadAssumption DEF IInv
<1>1. /\ g # cur /\ g # 0 /\ pc \notin {"socket", "events"}
      /\ \A h \in Handlers : handler[h].g # g
      /\ \A u \in Users : ptr[u] = cur
  BY DEF Replaced, Pointers, Gens
<1>2. ASSUME NEW c \in Configs, RequestReload(c)
      PROVE firing' = firing /\ handler' = handler
  BY <1>2 DEF RequestReload
<1>3. CASE BeginApply \/ StopOld \/ Install \/ Publish \/ Shutdown \/ BeginShutdown
           \/ TailerSticks
  BY <1>1, <1>3
     DEF BeginApply, StopOld, Install, Publish, Shutdown, BeginShutdown, TailerSticks
<1>4. CASE ResolveAll \/ Collect
  BY <1>1, <1>4 DEF ResolveAll, Collect, TypeOK
<1>5. CASE EvaluateEvent
  BY <1>1, <1>5 DEF EvaluateEvent, Idle, Handlers, TypeOK
<1>6. ASSUME NEW h \in Handlers, ReadPointer(h)
      PROVE  firing'[g] = firing[g] /\ \A k \in Handlers : handler'[k].g # g
  BY <1>1, <1>6 DEF ReadPointer, User, Users, TypeOK
<1>7. ASSUME NEW h \in Handlers, SendAlert(h) \/ HandlerExit(h)
      PROVE  firing'[g] = firing[g] /\ \A k \in Handlers : handler'[k].g # g
  BY <1>1, <1>7 DEF SendAlert, HandlerExit, Idle, TypeOK
<1>8. QED
  BY <1>1, <1>2, <1>3, <1>4, <1>5, <1>6, <1>7 DEF Next, Main

\* A replaced alerter whose last user has finished is never used again, whatever
\* reloads and events follow: the action property RetiredIsIdle holds.
THEOREM ReplacedStaysIdle == Spec => RetiredIsIdle
<1>1. Spec => []IInv
  BY InvInit, InvStep, PTL DEF Spec
<1>2. IInv /\ [Next]_vars => [LeftAlone]_vars
  BY IdleStep DEF LeftAlone
<1>3. QED
  BY <1>1, <1>2, PTL DEF Spec, RetiredIsIdle
-----------------------------------------------------------------------------
(* LogTailer: sequences of lines *)

Line == 1..MaxLines

\* What appending, taking and joining do to the elements.
LEMMA SetOfAppend ==
    ASSUME NEW q \in Seq(Line), NEW x \in Line
    PROVE  Append(q, x) \in Seq(Line) /\ ToSet(Append(q, x)) = ToSet(q) \cup {x}
BY AppendProperties DEF ToSet

LEMMA SetOfTail ==
    ASSUME NEW q \in Seq(Line), q # <<>>
    PROVE  /\ Head(q) \in Line /\ Tail(q) \in Seq(Line) /\ Len(Tail(q)) = Len(q) - 1
           /\ ToSet(q) = {Head(q)} \cup ToSet(Tail(q))
<1>1. /\ Head(q) \in Line /\ Tail(q) \in Seq(Line) /\ Len(Tail(q)) = Len(q) - 1
      /\ Len(q) \in Nat \ {0} /\ Head(q) = q[1]
  BY HeadTailProperties
<1>2. \A i \in 1..(Len(q) - 1) : Tail(q)[i] = q[i + 1]
  BY <1>1
<1>3. ASSUME NEW i \in 1..Len(q) PROVE q[i] = Head(q) \/ q[i] \in ToSet(Tail(q))
  <2>1. CASE i = 1
    BY <1>1, <2>1
  <2>2. CASE i # 1
    <3>1. i - 1 \in 1..(Len(q) - 1) /\ (i - 1) + 1 = i
      BY <1>1, <2>2
    <3>2. Tail(q)[i - 1] = q[i] /\ i - 1 \in DOMAIN Tail(q)
      BY <1>1, <1>2, <3>1
    <3>3. QED
      BY <3>2 DEF ToSet
  <2>3. QED
    BY <2>1, <2>2
<1>4. ASSUME NEW i \in 1..(Len(q) - 1) PROVE Tail(q)[i] \in ToSet(q)
  <2>1. i + 1 \in DOMAIN q
    BY <1>1
  <2>2. QED
    BY <1>2, <2>1 DEF ToSet
<1>5. DOMAIN q = 1..Len(q) /\ DOMAIN Tail(q) = 1..(Len(q) - 1) /\ 1 \in DOMAIN q
  BY <1>1
<1>6. ToSet(q) \subseteq {Head(q)} \cup ToSet(Tail(q))
  BY <1>3, <1>5 DEF ToSet
<1>7. {Head(q)} \cup ToSet(Tail(q)) \subseteq ToSet(q)
  BY <1>1, <1>4, <1>5 DEF ToSet
<1>8. QED
  BY <1>1, <1>6, <1>7

LEMMA SetOfJoin ==
    ASSUME NEW p \in Seq(Line), NEW q \in Seq(Line)
    PROVE  p \o q \in Seq(Line) /\ ToSet(p \o q) = ToSet(p) \cup ToSet(q)
<1>1. /\ p \o q \in Seq(Line) /\ Len(p \o q) = Len(p) + Len(q)
      /\ \A i \in 1..(Len(p) + Len(q)) :
            (p \o q)[i] = IF i <= Len(p) THEN p[i] ELSE q[i - Len(p)]
  BY ConcatProperties
<1>2. /\ DOMAIN p = 1..Len(p) /\ DOMAIN q = 1..Len(q)
      /\ DOMAIN (p \o q) = 1..(Len(p) + Len(q))
      /\ Len(p) \in Nat /\ Len(q) \in Nat
  BY <1>1
<1>3. ToSet(p \o q) \subseteq ToSet(p) \cup ToSet(q)
  <2>1. ASSUME NEW i \in 1..(Len(p) + Len(q)) PROVE (p \o q)[i] \in ToSet(p) \cup ToSet(q)
    <3>1. CASE i <= Len(p)
      BY <1>1, <1>2, <3>1 DEF ToSet
    <3>2. CASE ~(i <= Len(p))
      <4>1. i - Len(p) \in DOMAIN q
        BY <1>2, <3>2
      <4>2. QED
        BY <1>1, <3>2, <4>1 DEF ToSet
    <3>3. QED
      BY <3>1, <3>2
  <2>2. QED
    BY <1>2, <2>1 DEF ToSet
<1>4. ToSet(p) \subseteq ToSet(p \o q)
  <2>1. \A i \in 1..Len(p) : i \in 1..(Len(p) + Len(q)) /\ (p \o q)[i] = p[i]
    BY <1>1, <1>2
  <2>2. QED
    BY <1>2, <2>1 DEF ToSet
<1>5. ToSet(q) \subseteq ToSet(p \o q)
  <2>1. ASSUME NEW i \in 1..Len(q) PROVE q[i] \in ToSet(p \o q)
    <3>1. /\ Len(p) + i \in 1..(Len(p) + Len(q)) /\ ~(Len(p) + i <= Len(p))
          /\ (Len(p) + i) - Len(p) = i
      BY <1>2
    <3>2. (p \o q)[Len(p) + i] = q[i]
      BY <1>1, <3>1
    <3>3. QED
      BY <1>2, <3>1, <3>2 DEF ToSet
  <2>2. QED
    BY <1>2, <2>1 DEF ToSet
<1>6. QED
  BY <1>1, <1>3, <1>4, <1>5

\* What they do to the order.
LEMMA OrderOfAppend ==
    ASSUME NEW q \in Seq(Line), NEW x \in Line, Ordered(q), Before(ToSet(q), {x})
    PROVE  Ordered(Append(q, x))
<1>1. /\ DOMAIN Append(q, x) = 1..(Len(q) + 1) /\ DOMAIN q = 1..Len(q) /\ Len(q) \in Nat
      /\ \A i \in 1..Len(q) : Append(q, x)[i] = q[i]
      /\ Append(q, x)[Len(q) + 1] = x
  BY AppendProperties
<1>2. ASSUME NEW i \in 1..(Len(q) + 1), NEW j \in 1..(Len(q) + 1), i < j,
             log[Append(q, x)[i]].s = log[Append(q, x)[j]].s
      PROVE  Append(q, x)[i] < Append(q, x)[j]
  <2>1. i \in 1..Len(q)
    BY <1>1, <1>2
  <2>2. CASE j = Len(q) + 1
    BY <1>1, <1>2, <2>1, <2>2 DEF Before, ToSet
  <2>3. CASE j \in 1..Len(q)
    BY <1>1, <1>2, <2>1, <2>3 DEF Ordered
  <2>4. QED
    BY <1>1, <2>2, <2>3
<1>3. QED
  BY <1>1, <1>2 DEF Ordered

LEMMA OrderOfTail ==
    ASSUME NEW q \in Seq(Line), q # <<>>, Ordered(q)
    PROVE  Ordered(Tail(q)) /\ Before({Head(q)}, ToSet(Tail(q)))
<1>1. /\ DOMAIN Tail(q) = 1..(Len(q) - 1) /\ DOMAIN q = 1..Len(q) /\ Len(q) \in Nat \ {0}
      /\ \A i \in 1..(Len(q) - 1) : Tail(q)[i] = q[i + 1]
      /\ Head(q) = q[1]
  BY HeadTailProperties
<1>2. \A i \in 1..(Len(q) - 1) : i + 1 \in 1..Len(q) /\ 1 < i + 1
  BY <1>1
<1>3. Ordered(Tail(q))
  <2>1. \A i, j \in 1..(Len(q) - 1) : i < j => i + 1 < j + 1
    BY <1>1
  <2>2. QED
    BY <1>1, <1>2, <2>1 DEF Ordered
<1>4. Before({Head(q)}, ToSet(Tail(q)))
  BY <1>1, <1>2 DEF Ordered, Before, ToSet
<1>5. QED
  BY <1>3, <1>4

LEMMA OrderOfJoin ==
    ASSUME NEW p \in Seq(Line), NEW q \in Seq(Line), Ordered(p), Ordered(q),
           Before(ToSet(p), ToSet(q))
    PROVE  Ordered(p \o q)
<1>1. /\ DOMAIN (p \o q) = 1..(Len(p) + Len(q))
      /\ DOMAIN p = 1..Len(p) /\ DOMAIN q = 1..Len(q)
      /\ Len(p) \in Nat /\ Len(q) \in Nat
      /\ \A i \in 1..(Len(p) + Len(q)) :
            (p \o q)[i] = IF i <= Len(p) THEN p[i] ELSE q[i - Len(p)]
  BY ConcatProperties
<1>2. ASSUME NEW i \in 1..(Len(p) + Len(q)), NEW j \in 1..(Len(p) + Len(q)), i < j,
             log[(p \o q)[i]].s = log[(p \o q)[j]].s
      PROVE  (p \o q)[i] < (p \o q)[j]
  <2>1. CASE j <= Len(p)
    <3>1. i \in DOMAIN p /\ j \in DOMAIN p /\ (p \o q)[i] = p[i] /\ (p \o q)[j] = p[j]
      BY <1>1, <1>2, <2>1
    <3>2. QED
      BY <1>2, <3>1 DEF Ordered
  <2>2. CASE i <= Len(p) /\ ~(j <= Len(p))
    <3>1. /\ i \in DOMAIN p /\ j - Len(p) \in DOMAIN q
          /\ (p \o q)[i] = p[i] /\ (p \o q)[j] = q[j - Len(p)]
      BY <1>1, <1>2, <2>2
    <3>2. QED
      BY <1>2, <3>1 DEF Before, ToSet
  <2>3. CASE ~(i <= Len(p))
    <3>1. /\ i - Len(p) \in DOMAIN q /\ j - Len(p) \in DOMAIN q /\ i - Len(p) < j - Len(p)
          /\ (p \o q)[i] = q[i - Len(p)] /\ (p \o q)[j] = q[j - Len(p)]
      BY <1>1, <1>2, <2>3
    <3>2. QED
      BY <1>2, <3>1 DEF Ordered
  <2>4. QED
    BY <1>1, <1>2, <2>1, <2>2, <2>3
<1>3. QED
  BY <1>1, <1>2 DEF Ordered

LEMMA NoLines == ToSet(<<>>) = {} /\ Ordered(<<>>)
BY DEF ToSet, Ordered
-----------------------------------------------------------------------------
(* LogTailer: one tailer *)

\* What the invariant says of one tailer and of the lines it has stored and lost.
Good(tl, st, fl) ==
    /\ tl \in Tailer /\ st \in Seq(Line) /\ fl \subseteq Line
    /\ Len(tl.batch) < BatchSize /\ Len(tl.lines) <= ChanSize
    /\ KeepsOrder(tl, st) /\ LosesNone(tl, st, fl) /\ EndsInTurn(tl)

LogTyped == log \in Seq([run : 1..MaxRuns, s : Streams]) /\ Len(log) <= MaxLines

\* The lines of a tailer are in the log, each of one of the two streams.
LEMMA LinesLogged ==
    ASSUME LogTyped, NEW tl, NEW st, NEW fl, Good(tl, st, fl)
    PROVE  /\ tl.pos \in Nat /\ tl.from \in Nat /\ Len(log) \in Nat
           /\ \A i \in Placed(tl, st) \cup fl : i \in 1..Len(log) /\ i < tl.pos
           /\ \A i \in 1..Len(log) : log[i].s \in Streams
<1>1. tl.pos \in Nat /\ tl.from \in Nat /\ Len(log) \in Nat
  BY TailerAssumption DEF Good, Tailer, LogTyped
<1>2. Placed(tl, st) \cup fl = tl.from..(tl.pos - 1)
  BY DEF Good, LosesNone
<1> DEFINE entries == [run : 1..MaxRuns, s : Streams]
<1>3. \A i \in 1..Len(log) : log[i].s \in Streams
  <2>1. log \in Seq(entries)
    BY DEF LogTyped
  <2> HIDE DEF entries
  <2>2. \A i \in 1..Len(log) : log[i] \in entries
    BY <2>1
  <2>3. QED
    BY <2>2 DEF entries
<1>4. CASE tl.demux = "attach"
  <2>1. tl.pos = 0
    BY <1>4 DEF Good, EndsInTurn
  <2>2. tl.from..(tl.pos - 1) = {}
    BY <1>1, <2>1
  <2>3. QED
    BY <1>1, <1>2, <1>3, <2>2
<1>5. CASE tl.demux # "attach"
  <2>1. tl.from \in 1..tl.pos /\ tl.pos <= Len(log) + 1
    BY <1>5 DEF Good, EndsInTurn
  <2>2. \A i \in tl.from..(tl.pos - 1) : i \in 1..Len(log) /\ i < tl.pos
    BY <1>1, <2>1
  <2>3. QED
    BY <1>1, <1>2, <1>3, <2>2
<1>6. QED
  BY <1>4, <1>5

\* A tailer that is started, one that attaches, and one that cannot.
LEMMA StartGood ==
    ASSUME NEW from \in 0..(MaxLines + 1), from <= Len(log) + 1
    PROVE  Good(NewTailer(from), <<>>, {})
<1> DEFINE new == NewTailer(from)
<1>1. /\ new \in Tailer /\ new.batch = <<>> /\ new.lines = <<>> /\ new.demux = "attach"
      /\ new.pos = 0 /\ new.from = from /\ ~new.closed /\ ~new.done
      /\ \A s \in Streams : new.scan[s] = "read"
  BY TailerAssumption, EmptySeq DEF NewTailer, Tailer, DemuxPcs
<1> HIDE DEF new
<1>2. Passing(new) = {} /\ Copied(new) = {} /\ Placed(new, <<>>) = {}
  BY <1>1, NoLines DEF Passing, Copied, Placed, OnWay
<1>3. KeepsOrder(new, <<>>)
  BY <1>1, <1>2, NoLines DEF KeepsOrder, OnWay, Before
<1>4. LosesNone(new, <<>>, {})
  <2>1. from..(0 - 1) = {}
    OBVIOUS
  <2>2. QED
    BY <1>1, <1>2, <2>1 DEF LosesNone
<1>5. EndsInTurn(new)
  BY <1>1 DEF EndsInTurn
<1>6. QED
  BY <1>1, <1>3, <1>4, <1>5, EmptySeq, TailerAssumption DEF Good, new

\* Before it attaches a tailer has no lines.
LEMMA NothingYet ==
    ASSUME NEW tl, NEW st, NEW fl, Good(tl, st, fl), tl.demux = "attach"
    PROVE  /\ ToSet(st) = {} /\ ToSet(tl.batch) = {} /\ ToSet(tl.lines) = {} /\ fl = {}
           /\ st = <<>> /\ tl.batch = <<>> /\ tl.lines = <<>>
           /\ \A s \in Streams : tl.scan[s] = "read"
<1>1. tl.pos = 0 /\ tl.from \in Nat /\ \A s \in Streams : tl.scan[s] = "read"
  BY TailerAssumption DEF Good, EndsInTurn, Tailer
<1>2. tl.from..(tl.pos - 1) = {}
  BY <1>1
<1>3. Placed(tl, st) = {} /\ fl = {}
  BY <1>2 DEF Good, LosesNone
<1>4. ToSet(st) = {} /\ ToSet(tl.batch) = {} /\ ToSet(tl.lines) = {}
  BY <1>3 DEF Placed, OnWay
<1>5. st \in Seq(Line) /\ tl.batch \in Seq(Line) /\ tl.lines \in Seq(Line)
  BY DEF Good, Tailer, Line
<1>6. ASSUME NEW q \in Seq(Line), ToSet(q) = {} PROVE q = <<>>
  <2>1. CASE q # <<>>
    BY <1>6, <2>1, SetOfTail
  <2>2. QED
    BY <2>1
<1>7. QED
  BY <1>1, <1>3, <1>4, <1>5, <1>6

\* A tailer without lines, at the line first.
LEMMA AttachGood ==
    ASSUME LogTyped, NEW tl, NEW st, NEW fl, Good(tl, st, fl), tl.demux = "attach",
           NEW first \in 1..(Len(log) + 1), NEW r \in 0..MaxRuns,
           NEW new \in Tailer, new.batch = tl.batch, new.lines = tl.lines,
           new.from = first, new.pos = first,
           \/ new.demux = "copy" /\ new.scan = tl.scan /\ new.closed = tl.closed
              /\ new.done = tl.done
           \/ new.demux = "done" /\ new.closed /\ \A s \in Streams : new.scan[s] = "done"
    PROVE  Good(new, st, fl)
<1>1. /\ ToSet(st) = {} /\ ToSet(new.batch) = {} /\ ToSet(new.lines) = {} /\ fl = {}
      /\ st = <<>> /\ new.batch = <<>> /\ new.lines = <<>>
      /\ \A s \in Streams : tl.scan[s] = "read"
  BY NothingYet
<1>2. Passing(new) = {} /\ Copied(new) = {} /\ Placed(new, st) = {}
  BY <1>1 DEF Passing, Copied, Placed, OnWay
<1>3. KeepsOrder(new, st)
  BY <1>1, <1>2, NoLines DEF KeepsOrder, OnWay, Before
<1>4. LosesNone(new, st, fl)
  <2>1. first..(first - 1) = {}
    OBVIOUS
  <2>2. QED
    BY <1>1, <1>2, <2>1 DEF LosesNone
<1>5. EndsInTurn(new)
  <2>1. ~tl.closed /\ ~tl.done
    BY DEF Good, EndsInTurn
  <2>2. first \in 1..first /\ first <= Len(log) + 1
    BY DEF LogTyped
  <2>3. QED
    BY <1>1, <2>1, <2>2 DEF EndsInTurn
<1>6. QED
  BY <1>3, <1>4, <1>5 DEF Good

\* Steps that touch neither a line nor a stage: a cancel, the closing of the stream.
LEMMA SameGood ==
    ASSUME NEW tl, NEW st, NEW fl, Good(tl, st, fl), NEW new \in Tailer,
           new.batch = tl.batch, new.lines = tl.lines, new.from = tl.from, new.pos = tl.pos,
           new.demux = tl.demux, new.item = tl.item, new.scan = tl.scan, new.line = tl.line,
           new.closed = tl.closed, new.done = tl.done
    PROVE  Good(new, st, fl)
<1>1. /\ Passing(new) = Passing(tl) /\ Copied(new) = Copied(tl)
      /\ Placed(new, st) = Placed(tl, st)
  BY DEF Passing, Copied, Placed, OnWay
<1>2. KeepsOrder(new, st)
  BY <1>1 DEF Good, KeepsOrder, OnWay
<1>3. LosesNone(new, st, fl)
  BY <1>1 DEF Good, LosesNone
<1>4. EndsInTurn(new)
  BY DEF Good, EndsInTurn
<1>5. QED
  BY <1>2, <1>3, <1>4 DEF Good

\* StdCopy takes the next line.
LEMMA CopyGood ==
    ASSUME LogTyped, NEW tl, NEW st, NEW fl, Good(tl, st, fl), tl.demux = "copy",
           tl.pos <= Len(log), NEW new \in Tailer,
           new.batch = tl.batch, new.lines = tl.lines, new.from = tl.from,
           new.scan = tl.scan,
           new.line = tl.line, new.closed = tl.closed, new.done = tl.done,
           new.demux = "write", new.item = tl.pos, new.pos = tl.pos + 1
    PROVE  Good(new, st, fl)
<1>1. /\ tl.pos \in Nat /\ tl.from \in Nat /\ Len(log) \in Nat
      /\ \A i \in Placed(tl, st) \cup fl : i \in 1..Len(log) /\ i < tl.pos
  BY LinesLogged
<1>2. tl.from \in 1..tl.pos
  BY DEF Good, EndsInTurn
<1>3. /\ Passing(new) = Passing(tl) /\ Copied(tl) = {} /\ Copied(new) = {tl.pos}
      /\ Placed(new, st) = Placed(tl, st) \cup {tl.pos}
  BY DEF Passing, Copied, Placed, OnWay
<1>4. KeepsOrder(new, st)
  <2>1. \A i \in ToSet(st) \cup ToSet(tl.batch) \cup ToSet(tl.lines) \cup Passing(tl) : i < tl.pos
    BY <1>1 DEF Placed, OnWay
  <2>2. QED
    BY <1>3, <2>1 DEF Good, KeepsOrder, OnWay, Before
<1>5. LosesNone(new, st, fl)
  <2>1. tl.from..((tl.pos + 1) - 1) = (tl.from..(tl.pos - 1)) \cup {tl.pos}
    BY <1>1, <1>2
  <2>2. tl.pos \notin fl
    BY <1>1
  <2>3. QED
    BY <1>3, <2>1, <2>2 DEF Good, LosesNone
<1>6. EndsInTurn(new)
  <2>1. tl.from \in 1..(tl.pos + 1) /\ tl.pos + 1 <= Len(log) + 1
    BY <1>1, <1>2
  <2>2. QED
    BY <2>1 DEF Good, EndsInTurn
<1>7. QED
  BY <1>4, <1>5, <1>6 DEF Good

\* StdCopy or a scanner ends, or the channel is closed after both.
LEMMA EndGood ==
    ASSUME NEW tl, NEW st, NEW fl, Good(tl, st, fl), tl.demux # "attach", NEW new \in Tailer,
           new.batch = tl.batch, new.lines = tl.lines, new.from = tl.from, new.pos = tl.pos,
           new.item = tl.item, new.line = tl.line, new.done = tl.done,
           new.demux = tl.demux \/ (tl.demux = "copy" /\ new.demux = "done"),
           \A s \in Streams : \/ new.scan[s] = tl.scan[s]
                              \/ /\ tl.scan[s] = "read" /\ new.scan[s] = "done"
                                 /\ new.demux = "done",
           new.closed = tl.closed \/ (new.closed /\ \A s \in Streams : new.scan[s] = "done")
    PROVE  Good(new, st, fl)
<1>1. tl.scan \in [Streams -> {"read", "put", "done"}]
  BY DEF Good, Tailer
<1>2. /\ \A s \in Streams : new.scan[s] = "put" <=> tl.scan[s] = "put"
      /\ \A s \in Streams : tl.scan[s] = "done" => new.scan[s] = "done"
      /\ tl.demux \in DemuxPcs
      /\ tl.demux = "write" <=> new.demux = "write"
      /\ tl.demux = "done" => new.demux = "done"
      /\ new.demux # "attach"
  BY <1>1 DEF Good, Tailer
<1>3. /\ Passing(new) = Passing(tl) /\ Copied(new) = Copied(tl)
      /\ Placed(new, st) = Placed(tl, st)
  BY <1>2 DEF Passing, Copied, Placed, OnWay
<1>4. KeepsOrder(new, st)
  BY <1>3 DEF Good, KeepsOrder, OnWay
<1>5. LosesNone(new, st, fl)
  BY <1>3 DEF Good, LosesNone
<1>6. EndsInTurn(new)
  <2>1. ASSUME NEW s \in Streams, new.scan[s] = "done"
        PROVE  \/ new.demux = "done"
               \/ /\ new.demux = "write" /\ new.item \in Long
                  /\ new.scan[log[new.item].s] = "done"
    <3>1. CASE tl.scan[s] = "done"
      <4>1. \/ tl.demux = "done"
            \/ tl.demux = "write" /\ tl.item \in Long /\ tl.scan[log[tl.item].s] = "done"
        BY <3>1 DEF Good, EndsInTurn
      <4>2. new.demux = "write" => new.scan = tl.scan
        <5>1. new.scan \in [Streams -> {"read", "put", "done"}]
          BY DEF Tailer
        <5>2. new.demux = "write" => \A x \in Streams : new.scan[x] = tl.scan[x]
          OBVIOUS
        <5>3. QED
          BY <1>1, <5>1, <5>2
      <4>3. QED
        BY <1>2, <4>1, <4>2
    <3>2. CASE tl.scan[s] # "done"
      BY <2>1, <3>2
    <3>3. QED
      BY <3>1, <3>2
  <2>2. ASSUME NEW s \in Streams, new.closed
        PROVE  new.scan[s] = "done"
    BY <1>2, <2>2 DEF Good, EndsInTurn
  <2>3. /\ tl.from \in 1..tl.pos /\ tl.pos <= Len(log) + 1
        /\ tl.demux = "write" => tl.item + 1 = tl.pos
        /\ \A s \in Streams : tl.scan[s] = "put" => log[tl.line[s]].s = s
        /\ tl.done => tl.closed /\ tl.batch = <<>> /\ tl.lines = <<>>
    BY DEF Good, EndsInTurn
  <2>4. QED
    BY <1>2, <2>1, <2>2, <2>3 DEF EndsInTurn
<1>7. QED
  BY <1>4, <1>5, <1>6 DEF Good

\* A scanner reads the line StdCopy writes, or is ended by it.
LEMMA ScanGood ==
    ASSUME LogTyped, NEW tl, NEW st, NEW fl, Good(tl, st, fl), tl.demux = "write",
           NEW s \in Streams, s = log[tl.item].s, tl.scan[s] = "read", NEW new \in Tailer,
           new.batch = tl.batch, new.lines = tl.lines, new.from = tl.from, new.pos = tl.pos,
           new.item = tl.item, new.closed = tl.closed, new.done = tl.done,
           \/ /\ tl.item \in Long /\ new.demux = "write" /\ new.line = tl.line
              /\ new.scan = [tl.scan EXCEPT ![s] = "done"]
           \/ /\ new.demux = "copy" /\ new.line = [tl.line EXCEPT ![s] = tl.item]
              /\ new.scan = [tl.scan EXCEPT ![s] = "put"]
    PROVE  Good(new, st, fl)
<1>1. /\ tl.scan \in [Streams -> {"read", "put", "done"}]
      /\ tl.line \in [Streams -> 0..MaxLines]
  BY DEF Good, Tailer
<1>2. ~tl.closed /\ ~tl.done
  BY DEF Good, EndsInTurn
<1>3. CASE new.demux = "write"
  <2>1. /\ tl.item \in Long /\ new.scan[s] = "done" /\ new.line = tl.line
        /\ \A x \in Streams : x # s => new.scan[x] = tl.scan[x]
    BY <1>1, <1>3
  <2>2. /\ Passing(new) = Passing(tl) /\ Copied(new) = Copied(tl)
        /\ Placed(new, st) = Placed(tl, st)
    BY <1>3, <2>1 DEF Passing, Copied, Placed, OnWay
  <2>3. KeepsOrder(new, st)
    BY <2>2 DEF Good, KeepsOrder, OnWay
  <2>4. LosesNone(new, st, fl)
    BY <2>2 DEF Good, LosesNone
  <2>5. EndsInTurn(new)
    BY <1>2, <1>3, <2>1 DEF Good, EndsInTurn
  <2>6. QED
    BY <2>3, <2>4, <2>5 DEF Good
<1>4. CASE new.demux = "copy"
  <2>1. /\ new.scan[s] = "put" /\ new.line[s] = tl.item
        /\ \A x \in Streams : x # s => new.scan[x] = tl.scan[x] /\ new.line[x] = tl.line[x]
    BY <1>1, <1>4
  <2>2. Copied(tl) = {tl.item} /\ Copied(new) = {}
    BY <1>4 DEF Copied
  <2>3. Passing(new) = Passing(tl) \cup {tl.item}
    <3>1. Passing(new) \subseteq Passing(tl) \cup {tl.item}
      BY <2>1 DEF Passing
    <3>2. Passing(tl) \cup {tl.item} \subseteq Passing(new)
      BY <2>1 DEF Passing
    <3>3. QED
      BY <3>1, <3>2
  <2>4. Placed(new, st) = Placed(tl, st)
    BY <2>2, <2>3 DEF Placed, OnWay
  <2>5. KeepsOrder(new, st)
    BY <2>2, <2>3 DEF Good, KeepsOrder, OnWay, Before
  <2>6. LosesNone(new, st, fl)
    BY <2>4 DEF Good, LosesNone
  <2>7. EndsInTurn(new)
    <3>1. \A x \in Streams : tl.scan[x] = "done" => FALSE
      BY DEF Good, EndsInTurn
    <3>2. QED
      BY <1>2, <1>4, <2>1, <3>1 DEF Good, EndsInTurn
  <2>8. QED
    BY <2>5, <2>6, <2>7 DEF Good
<1>5. QED
  BY <1>3, <1>4

\* A scanner puts its line into the channel.
LEMMA PutGood ==
    ASSUME LogTyped, NEW tl, NEW st, NEW fl, Good(tl, st, fl),
           NEW s \in Streams, tl.scan[s] = "put", Len(tl.lines) < ChanSize,
           NEW new \in Tailer,
           new.batch = tl.batch, new.lines = Append(tl.lines, tl.line[s]),
           new.from = tl.from, new.pos = tl.pos, new.demux = tl.demux,
           new.item = tl.item, new.closed = tl.closed, new.done = tl.done,
           new.line = tl.line, new.scan = [tl.scan EXCEPT ![s] = "read"]
    PROVE  Good(new, st, fl)
<1>1. /\ tl.scan \in [Streams -> {"read", "put", "done"}] /\ tl.lines \in Seq(Line)
      /\ tl.line \in [Streams -> 0..MaxLines]
  BY DEF Good, Tailer, Line
<1>2. /\ new.scan[s] = "read" /\ \A x \in Streams : x # s => new.scan[x] = tl.scan[x]
      /\ log[tl.line[s]].s = s
  BY <1>1 DEF Good, EndsInTurn
<1>3. tl.line[s] \in Passing(tl)
  BY DEF Passing
<1>4. tl.line[s] \in Line
  <2>1. tl.line[s] \in 1..Len(log)
    BY <1>3, LinesLogged DEF Placed, OnWay
  <2>2. QED
    BY <1>1, <2>1 DEF Line, LogTyped
<1>5. /\ ToSet(new.lines) = ToSet(tl.lines) \cup {tl.line[s]}
      /\ Len(new.lines) = Len(tl.lines) + 1
  BY <1>1, <1>4, SetOfAppend, AppendProperties
<1>6. Passing(tl) = Passing(new) \cup {tl.line[s]}
  <2>1. Passing(new) \cup {tl.line[s]} \subseteq Passing(tl)
    BY <1>2 DEF Passing
  <2>2. Passing(tl) \subseteq Passing(new) \cup {tl.line[s]}
    BY <1>2 DEF Passing
  <2>3. QED
    BY <2>1, <2>2
<1>7. \A i \in Passing(new) : log[i].s # s
  BY <1>2 DEF Passing, Good, EndsInTurn
<1>8. Copied(new) = Copied(tl)
  BY DEF Copied
<1>9. Placed(new, st) = Placed(tl, st)
  BY <1>5, <1>6, <1>8 DEF Placed, OnWay
<1>10. KeepsOrder(new, st)
  <2>1. /\ Before(ToSet(st), ToSet(tl.batch) \cup ToSet(tl.lines) \cup Passing(tl) \cup Copied(tl))
        /\ Before(ToSet(tl.batch), ToSet(tl.lines) \cup Passing(tl) \cup Copied(tl))
        /\ Before(ToSet(tl.lines), Passing(tl) \cup Copied(tl))
        /\ Before(Passing(tl), Copied(tl))
        /\ Ordered(st) /\ Ordered(tl.batch) /\ Ordered(tl.lines)
    BY DEF Good, KeepsOrder, OnWay
  <2>2. Ordered(new.lines)
    <3>1. Before(ToSet(tl.lines), {tl.line[s]})
      BY <1>3, <2>1 DEF Before
    <3>2. QED
      BY <1>1, <1>4, <2>1, <3>1, OrderOfAppend
  <2>3. Before({tl.line[s]}, Passing(new) \cup Copied(new))
    BY <1>2, <1>3, <1>7, <1>8, <2>1 DEF Before
  <2>4. Before(ToSet(new.lines), Passing(new) \cup Copied(new))
    BY <1>5, <1>6, <1>8, <2>1, <2>3 DEF Before
  <2>5. Before(Passing(new), Copied(new))
    BY <1>6, <1>8, <2>1 DEF Before
  <2>6. /\ Before(ToSet(st),
                  ToSet(new.batch) \cup ToSet(new.lines) \cup Passing(new) \cup Copied(new))
        /\ Before(ToSet(new.batch), ToSet(new.lines) \cup Passing(new) \cup Copied(new))
    BY <1>5, <1>6, <1>8, <2>1 DEF Before
  <2>7. QED
    BY <2>1, <2>2, <2>4, <2>5, <2>6 DEF KeepsOrder, OnWay
<1>11. LosesNone(new, st, fl)
  BY <1>9 DEF Good, LosesNone
<1>12. EndsInTurn(new)
  <2>1. ~tl.closed /\ ~tl.done /\ tl.demux # "attach"
    BY DEF Good, EndsInTurn
  <2>2. \A x \in Streams : new.scan[x] = "done" <=> tl.scan[x] = "done"
    BY <1>2
  <2>3. \A x \in Streams : new.scan[x] = "put" => tl.scan[x] = "put"
    BY <1>2
  <2>4. ASSUME tl.demux = "write" PROVE log[tl.item].s \in Streams
    <3>1. tl.item \in Placed(tl, st)
      BY <2>4 DEF Placed, OnWay, Copied
    <3>2. QED
      BY <3>1, LinesLogged
  <2>5. QED
    BY <2>1, <2>2, <2>3, <2>4 DEF Good, EndsInTurn
<1>13. Len(new.lines) <= ChanSize
  BY <1>1, <1>5, TailerAssumption
<1>14. QED
  BY <1>10, <1>11, <1>12, <1>13 DEF Good

\* The loop takes the first line of the channel into its batch.
LEMMA BatchGood ==
    ASSUME NEW tl, NEW st, NEW fl, Good(tl, st, fl), tl.lines # <<>>
    PROVE  LET all == Append(tl.batch, Head(tl.lines)) IN
           /\ all \in Seq(Line) /\ Tail(tl.lines) \in Seq(Line)
           /\ Len(all) = Len(tl.batch) + 1 /\ Len(Tail(tl.lines)) <= ChanSize
           /\ ToSet(all) \cup ToSet(Tail(tl.lines)) = ToSet(tl.batch) \cup ToSet(tl.lines)
           /\ Ordered(all) /\ Ordered(Tail(tl.lines))
           /\ Before(ToSet(st),
                     ToSet(all) \cup ToSet(Tail(tl.lines)) \cup Passing(tl) \cup Copied(tl))
           /\ Before(ToSet(all), ToSet(Tail(tl.lines)) \cup Passing(tl) \cup Copied(tl))
           /\ Before(ToSet(Tail(tl.lines)), Passing(tl) \cup Copied(tl))
<1> DEFINE h == Head(tl.lines)
           rest == Tail(tl.lines)
           all == Append(tl.batch, h)
<1>1. /\ tl.batch \in Seq(Line) /\ tl.lines \in Seq(Line) /\ ChanSize \in Nat
      /\ Len(tl.lines) <= ChanSize
  BY TailerAssumption DEF Good, Tailer, Line
<1>2. /\ h \in Line /\ rest \in Seq(Line) /\ Len(rest) = Len(tl.lines) - 1
      /\ ToSet(tl.lines) = {h} \cup ToSet(rest)
      /\ Len(rest) \in Nat /\ Len(tl.lines) \in Nat
  BY <1>1, SetOfTail
<1>3. /\ all \in Seq(Line) /\ ToSet(all) = ToSet(tl.batch) \cup {h}
      /\ Len(all) = Len(tl.batch) + 1
  BY <1>1, <1>2, SetOfAppend, AppendProperties
<1>4. /\ Before(ToSet(st), ToSet(tl.batch) \cup ToSet(tl.lines) \cup Passing(tl) \cup Copied(tl))
      /\ Before(ToSet(tl.batch), ToSet(tl.lines) \cup Passing(tl) \cup Copied(tl))
      /\ Before(ToSet(tl.lines), Passing(tl) \cup Copied(tl))
      /\ Ordered(tl.batch) /\ Ordered(tl.lines)
  BY DEF Good, KeepsOrder, OnWay
<1>5. Ordered(rest) /\ Before({h}, ToSet(rest))
  BY <1>1, <1>4, OrderOfTail
<1>6. Before(ToSet(tl.batch), {h})
  BY <1>2, <1>4 DEF Before
<1>7. Ordered(all)
  BY <1>1, <1>2, <1>4, <1>6, OrderOfAppend
<1> HIDE DEF h, rest, all
<1>8. /\ Before(ToSet(st), ToSet(all) \cup ToSet(rest) \cup Passing(tl) \cup Copied(tl))
      /\ Before(ToSet(rest), Passing(tl) \cup Copied(tl))
  BY <1>2, <1>3, <1>4 DEF Before
<1>9. Before(ToSet(all), ToSet(rest) \cup Passing(tl) \cup Copied(tl))
  BY <1>2, <1>3, <1>4, <1>5 DEF Before
<1>10. /\ ToSet(all) \cup ToSet(rest) = ToSet(tl.batch) \cup ToSet(tl.lines)
       /\ Len(rest) <= ChanSize
  BY <1>1, <1>2, <1>3
<1>11. QED
  BY <1>2, <1>3, <1>5, <1>7, <1>8, <1>9, <1>10 DEF h, rest, all

\* The lines of all stay in the batch, are stored, or are refused by the store.
Flushed(new, all, st, fl, nst, nfl) ==
    \/ new.batch = all /\ Len(all) < BatchSize /\ nst = st /\ nfl = fl
    \/ new.batch = <<>> /\ nst = st \o all /\ nfl = fl
    \/ new.batch = <<>> /\ nst = st /\ nfl = fl \cup ToSet(all)

\* A batch is kept, stored or lost as a whole; with it the loop may end.
LEMMA FlushGood ==
    ASSUME NEW tl, NEW st, NEW fl, Good(tl, st, fl), ~tl.done, NEW new \in Tailer,
           NEW all \in Seq(Line), NEW rest \in Seq(Line), Len(rest) <= ChanSize,
           ToSet(all) \cup ToSet(rest) = ToSet(tl.batch) \cup ToSet(tl.lines),
           Ordered(all), Ordered(rest),
           Before(ToSet(st), ToSet(all) \cup ToSet(rest) \cup Passing(tl) \cup Copied(tl)),
           Before(ToSet(all), ToSet(rest) \cup Passing(tl) \cup Copied(tl)),
           Before(ToSet(rest), Passing(tl) \cup Copied(tl)),
           new.lines = rest, new.from = tl.from, new.pos = tl.pos, new.demux = tl.demux,
           new.item = tl.item, new.closed = tl.closed, new.line = tl.line,
           new.scan = tl.scan,
           new.done => tl.closed /\ rest = <<>> /\ new.batch = <<>>,
           tl.demux # "attach",
           NEW nst, NEW nfl,
           Flushed(new, all, st, fl, nst, nfl)
    PROVE  Good(new, nst, nfl)
<1> USE DEF Flushed
<1>1. /\ Passing(new) = Passing(tl) /\ Copied(new) = Copied(tl)
      /\ st \in Seq(Line) /\ fl \subseteq Line /\ BatchSize \in Nat \ {0}
  BY TailerAssumption DEF Good, Passing, Copied
<1>2. /\ st \o all \in Seq(Line) /\ ToSet(st \o all) = ToSet(st) \cup ToSet(all)
  BY <1>1, SetOfJoin
<1>3. ToSet(all) \subseteq Line
  BY DEF ToSet
<1>4. Ordered(st) /\ Ordered(st \o all)
  <2>1. Ordered(st)
    BY DEF Good, KeepsOrder, OnWay
  <2>2. Before(ToSet(st), ToSet(all))
    BY DEF Before
  <2>3. QED
    BY <1>1, <2>1, <2>2, OrderOfJoin
<1>5. Before(Passing(tl), Copied(tl))
  BY DEF Good, KeepsOrder, OnWay
<1>6. /\ (ToSet(st) \cup ToSet(all) \cup ToSet(rest) \cup Passing(tl) \cup Copied(tl)) \cup fl
             = tl.from..(tl.pos - 1)
      /\ (ToSet(st) \cup ToSet(all) \cup ToSet(rest) \cup Passing(tl) \cup Copied(tl)) \cap fl = {}
  BY DEF Good, LosesNone, Placed, OnWay
<1>7. EndsInTurn(new)
  BY DEF Good, EndsInTurn
<1>8. CASE new.batch = all /\ Len(all) < BatchSize /\ nst = st /\ nfl = fl
  <2>1. KeepsOrder(new, nst)
    BY <1>1, <1>4, <1>5, <1>8 DEF KeepsOrder, OnWay
  <2>2. LosesNone(new, nst, nfl)
    BY <1>1, <1>6, <1>8 DEF LosesNone, Placed, OnWay
  <2>3. QED
    BY <1>1, <1>7, <1>8, <2>1, <2>2 DEF Good
<1>9. CASE new.batch = <<>> /\ nst = st \o all /\ nfl = fl
  <2>1. KeepsOrder(new, nst)
    <3>1. Before(ToSet(st \o all), ToSet(rest) \cup Passing(tl) \cup Copied(tl))
      BY <1>2 DEF Before
    <3>2. QED
      BY <1>1, <1>4, <1>5, <1>9, <3>1, NoLines DEF KeepsOrder, OnWay, Before
  <2>2. LosesNone(new, nst, nfl)
    BY <1>1, <1>2, <1>6, <1>9, NoLines DEF LosesNone, Placed, OnWay
  <2>3. QED
    BY <1>1, <1>2, <1>7, <1>9, <2>1, <2>2 DEF Good
<1>10. CASE new.batch = <<>> /\ nst = st /\ nfl = fl \cup ToSet(all)
  <2>1. KeepsOrder(new, nst)
    BY <1>1, <1>4, <1>5, <1>10, NoLines DEF KeepsOrder, OnWay, Before
  <2>2. LosesNone(new, nst, nfl)
    <3>1. /\ ToSet(all) \cap ToSet(st) = {} /\ ToSet(all) \cap ToSet(rest) = {}
          /\ ToSet(all) \cap Passing(tl) = {} /\ ToSet(all) \cap Copied(tl) = {}
      <4>1. \A i \in Line : ~(i < i)
        BY TailerAssumption DEF Line
      <4>2. QED
        BY <1>3, <4>1 DEF Before
    <3>2. QED
      BY <1>1, <1>6, <1>10, <3>1, NoLines DEF LosesNone, Placed, OnWay
  <2>3. QED
    BY <1>1, <1>3, <1>7, <1>10, <2>1, <2>2 DEF Good
<1>11. QED
  BY <1>8, <1>9, <1>10
-----------------------------------------------------------------------------
(* LogTailer: all of it *)

\* What the variables around the tailers are.
Around ==
    /\ run \in 1..MaxRuns /\ running \in BOOLEAN
    /\ tracked \in BOOLEAN /\ seen \in {"none", "active", "inactive"}
    /\ LogTyped
    /\ Len(tailer) \in Nat /\ Len(tailer) <= MaxTailers /\ DOMAIN tailer = 1..Len(tailer)
    /\ entry \in 0..Len(tailer)
    /\ main \in {"collect", "stopping", "stopped"}
    /\ Len(stored) = Len(tailer) /\ DOMAIN stored = 1..Len(tailer)
    /\ Len(failed) = Len(tailer) /\ DOMAIN failed = 1..Len(tailer)
    /\ tailer = [t \in 1..Len(tailer) |-> tailer[t]]
    /\ stored = [t \in 1..Len(tailer) |-> stored[t]]
    /\ failed = [t \in 1..Len(tailer) |-> failed[t]]

\* The invariant is what Good says of each tailer.
LEMMA InvIsGood ==
    TailerInv <=> Around /\ \A t \in Tailers : Good(tailer[t], stored[t], failed[t])
<1>1. ASSUME TailerInv
      PROVE  Around /\ \A t \in Tailers : Good(tailer[t], stored[t], failed[t])
  <2>1. /\ tailer \in Seq(Tailer) /\ stored \in Seq(Seq(Line))
        /\ failed \in Seq(SUBSET Line)
        /\ Len(stored) = Len(tailer) /\ Len(failed) = Len(tailer)
    BY <1>1 DEF TailerInv, LinesExact, TailerTypeOK, Line
  <2>2. Around
    <3>1. /\ Len(tailer) \in Nat /\ DOMAIN tailer = 1..Len(tailer)
          /\ DOMAIN stored = 1..Len(tailer) /\ DOMAIN failed = 1..Len(tailer)
      BY <2>1
    <3>2. /\ tailer = [t \in 1..Len(tailer) |-> tailer[t]]
          /\ stored = [t \in 1..Len(tailer) |-> stored[t]]
          /\ failed = [t \in 1..Len(tailer) |-> failed[t]]
      BY <2>1
    <3>3. QED
      BY <1>1, <3>1, <3>2
         DEF TailerInv, LinesExact, TailerTypeOK, Around, LogTyped
  <2>3. ASSUME NEW t \in Tailers PROVE Good(tailer[t], stored[t], failed[t])
    <3>1. tailer[t] \in Tailer /\ stored[t] \in Seq(Line) /\ failed[t] \in SUBSET Line
      BY <2>1, ElementOfSeq DEF Tailers
    <3>2. QED
      BY <1>1, <3>1
         DEF TailerInv, LinesExact, TailerTypeOK, InOrder, NoneLost, StagesEnd, Good
  <2>4. QED
    BY <2>2, <2>3
<1>2. ASSUME Around, \A t \in Tailers : Good(tailer[t], stored[t], failed[t])
      PROVE  TailerInv
  <2>1. /\ \A t \in 1..Len(tailer) : /\ tailer[t] \in Tailer /\ stored[t] \in Seq(Line)
                                     /\ failed[t] \in SUBSET Line
        /\ Len(tailer) \in Nat
    BY <1>2 DEF Good, Tailers, Around
  <2>2. /\ tailer \in [1..Len(tailer) -> Tailer]
        /\ stored \in [1..Len(tailer) -> Seq(Line)]
        /\ failed \in [1..Len(tailer) -> SUBSET Line]
    BY <1>2, <2>1 DEF Around
  <2>3. tailer \in Seq(Tailer) /\ stored \in Seq(Seq(Line)) /\ failed \in Seq(SUBSET Line)
    BY <2>1, <2>2, SeqDef
  <2>4. TailerTypeOK
    BY <1>2, <2>3 DEF TailerTypeOK, Around, LogTyped, Good, Line
  <2>5. QED
    BY <1>2, <2>4 DEF TailerInv, LinesExact, InOrder, NoneLost, StagesEnd, Good
<1>3. QED
  BY <1>1, <1>2

LEMMA NextIsGood ==
    (TailerInv <=> Around /\ \A t \in Tailers : Good(tailer[t], stored[t], failed[t]))'
BY InvIsGood, PTL

\* A step of the goroutines of one tailer.
LEMMA TailerStep ==
    ASSUME TailerInv, NEW t \in Tailers, OnlyTailer,
           NEW new, NEW nst, NEW nfl, Good(new, nst, nfl),
           tailer' = [tailer EXCEPT ![t] = new],
           stored' = [stored EXCEPT ![t] = nst], failed' = [failed EXCEPT ![t] = nfl]
    PROVE  TailerInv'
<1>1. Around /\ \A u \in Tailers : Good(tailer[u], stored[u], failed[u])
  BY InvIsGood
<1>2. /\ Len(tailer') = Len(tailer) /\ Len(stored') = Len(tailer)
      /\ Len(failed') = Len(tailer)
      /\ DOMAIN tailer' = 1..Len(tailer) /\ DOMAIN stored' = 1..Len(tailer)
      /\ DOMAIN failed' = 1..Len(tailer)
  BY <1>1 DEF Around
<1>3. Tailers' = Tailers
  BY <1>2 DEF Tailers
<1>4. /\ tailer' = [u \in 1..Len(tailer) |-> tailer'[u]]
      /\ stored' = [u \in 1..Len(tailer) |-> stored'[u]]
      /\ failed' = [u \in 1..Len(tailer) |-> failed'[u]]
  BY <1>1 DEF Around
<1>5. Around'
  BY <1>1, <1>2, <1>4 DEF Around, OnlyTailer, LogTyped
<1>6. \A u \in Tailers : Good(tailer'[u], stored'[u], failed'[u])
  <2>1. ASSUME NEW u \in Tailers PROVE Good(tailer'[u], stored'[u], failed'[u])
    <3>1. CASE u = t
      BY <1>1, <3>1 DEF Around, Tailers
    <3>2. CASE u # t
      BY <1>1, <3>2 DEF Around, Tailers
    <3>3. QED
      BY <3>1, <3>2
  <2>2. QED
    BY <2>1
<1>7. ASSUME NEW u \in Tailers PROVE Good(tailer[u], stored[u], failed[u])'
  <2>1. Good(tailer'[u], stored'[u], failed'[u]) /\ log' = log
    BY <1>6 DEF OnlyTailer
  <2>2. KeepsOrder(tailer[u], stored[u])'
    BY <2>1, SMTT(30) DEF Good, KeepsOrder, OnWay, Ordered, Before, Passing, Copied
  <2>3. LosesNone(tailer[u], stored[u], failed[u])'
    BY <2>1 DEF Good, LosesNone, Placed, OnWay, Passing, Copied
  <2>4. EndsInTurn(tailer[u])'
    BY <2>1 DEF Good, EndsInTurn
  <2>5. QED
    BY <2>1, <2>2, <2>3, <2>4 DEF Good
<1>8. QED
  BY <1>3, <1>5, <1>7, NextIsGood
-----------------------------------------------------------------------------
(* LogTailer: the steps *)

\* ContainerLogs answers.
LEMMA AttachStep ==
    ASSUME TailerInv, NEW t \in Tailers, Attach(t)
    PROVE  TailerInv'
<1> DEFINE tl == tailer[t]
<1>1. /\ Good(tl, stored[t], failed[t]) /\ tl \in Tailer /\ LogTyped
      /\ tailer[t] = tl /\ Len(log) \in Nat /\ Len(log) <= MaxLines
      /\ stored = [stored EXCEPT ![t] = stored[t]]
      /\ failed = [failed EXCEPT ![t] = failed[t]]
  BY InvIsGood DEF Good, Around, Tailers, LogTyped
<1> DEFINE first == IF tl.from = 0 THEN Len(log) + 1 ELSE tl.from
           new == [tl EXCEPT !.demux = "copy", !.run = run, !.from = first, !.pos = first]
<1>2. tl.demux = "attach"
  BY DEF Attach
<1>3. first \in 1..(Len(log) + 1) /\ run \in 0..MaxRuns /\ first \in 0..(MaxLines + 1)
  <2>1. tl.from \in 0..(Len(log) + 1)
    BY <1>1, <1>2, TailerAssumption DEF Good, EndsInTurn, Tailer
  <2>2. first \in 1..(Len(log) + 1) /\ first \in 0..(MaxLines + 1)
    BY <1>1, <2>1, TailerAssumption
  <2>3. run \in 1..MaxRuns
    BY DEF TailerInv, LinesExact, TailerTypeOK
  <2>4. QED
    BY <2>2, <2>3, TailerAssumption
<1>4. /\ new \in Tailer
      /\ new.demux = "copy" /\ new.from = first /\ new.pos = first
      /\ new.item = tl.item /\ new.scan = tl.scan /\ new.line = tl.line
      /\ new.lines = tl.lines /\ new.closed = tl.closed /\ new.batch = tl.batch
      /\ new.done = tl.done /\ new.cancelled = tl.cancelled
      /\ new.logsClosed = tl.logsClosed
  BY <1>1, <1>3 DEF Tailer, DemuxPcs
<1>5. /\ tailer' = [tailer EXCEPT ![t] = new] /\ OnlyTailer
      /\ UNCHANGED <<stored, failed>>
  BY DEF Attach, Change, OnlyTailer
<1> HIDE DEF new
<1>6. Good(new, stored[t], failed[t])
  BY <1>1, <1>4, <1>2, <1>3, AttachGood
<1>7. QED
  BY <1>1, <1>5, <1>6, TailerStep

\* ContainerLogs fails.
LEMMA AttachFailsStep ==
    ASSUME TailerInv, NEW t \in Tailers, AttachFails(t)
    PROVE  TailerInv'
<1> DEFINE tl == tailer[t]
<1>1. /\ Good(tl, stored[t], failed[t]) /\ tl \in Tailer /\ LogTyped
      /\ tailer[t] = tl /\ Len(log) \in Nat /\ Len(log) <= MaxLines
      /\ stored = [stored EXCEPT ![t] = stored[t]]
      /\ failed = [failed EXCEPT ![t] = failed[t]]
  BY InvIsGood DEF Good, Around, Tailers, LogTyped
<1> DEFINE new == [tl EXCEPT !.demux = "done", !.closed = TRUE, !.done = TRUE,
                           !.scan = [s \in Streams |-> "done"],
                           !.from = 1, !.pos = 1, !.logsClosed = TRUE]
<1>2. tl.demux = "attach"
  BY DEF AttachFails
<1>3. 1 \in 1..(Len(log) + 1) /\ 0 \in 0..MaxRuns /\ 1 \in 0..(MaxLines + 1)
  BY <1>1, TailerAssumption
<1>4. /\ new \in Tailer
      /\ new.demux = "done" /\ new.closed /\ new.from = 1 /\ new.pos = 1
      /\ \A s \in Streams : new.scan[s] = "done"
      /\ new.run = tl.run /\ new.item = tl.item /\ new.line = tl.line
      /\ new.lines = tl.lines /\ new.batch = tl.batch /\ new.cancelled = tl.cancelled
  BY <1>1, <1>3 DEF Tailer, DemuxPcs
<1>5. /\ tailer' = [tailer EXCEPT ![t] = new] /\ OnlyTailer
      /\ UNCHANGED <<stored, failed>>
  BY DEF AttachFails, Change, OnlyTailer
<1> HIDE DEF new
<1>6. Good(new, stored[t], failed[t])
  BY <1>1, <1>4, <1>2, <1>3, AttachGood
<1>7. QED
  BY <1>1, <1>5, <1>6, TailerStep

\* The stream of a cancelled tailer is closed.
LEMMA CloseLogsStep ==
    ASSUME TailerInv, NEW t \in Tailers, CloseLogs(t)
    PROVE  TailerInv'
<1> DEFINE tl == tailer[t]
<1>1. /\ Good(tl, stored[t], failed[t]) /\ tl \in Tailer /\ LogTyped
      /\ tailer[t] = tl /\ Len(log) \in Nat /\ Len(log) <= MaxLines
      /\ stored = [stored EXCEPT ![t] = stored[t]]
      /\ failed = [failed EXCEPT ![t] = failed[t]]
  BY InvIsGood DEF Good, Around, Tailers, LogTyped
<1> DEFINE new == [tl EXCEPT !.logsClosed = TRUE]
<1>2. /\ new \in Tailer
      
      /\ new.run = tl.run /\ new.from = tl.from /\ new.pos = tl.pos
      /\ new.demux = tl.demux /\ new.item = tl.item /\ new.scan = tl.scan
      /\ new.line = tl.line /\ new.lines = tl.lines /\ new.closed = tl.closed
      /\ new.batch = tl.batch /\ new.done = tl.done /\ new.cancelled = tl.cancelled
  BY <1>1 DEF Tailer, DemuxPcs
<1>3. /\ tailer' = [tailer EXCEPT ![t] = new] /\ OnlyTailer
      /\ UNCHANGED <<stored, failed>>
  BY DEF CloseLogs, Change, OnlyTailer
<1> HIDE DEF new
<1>4. Good(new, stored[t], failed[t])
  BY <1>1, <1>2, SameGood
<1>5. QED
  BY <1>1, <1>3, <1>4, TailerStep

\* StdCopy takes a line.
LEMMA CopyStep ==
    ASSUME TailerInv, NEW t \in Tailers, Copy(t)
    PROVE  TailerInv'
<1> DEFINE tl == tailer[t]
<1>1. /\ Good(tl, stored[t], failed[t]) /\ tl \in Tailer /\ LogTyped
      /\ tailer[t] = tl /\ Len(log) \in Nat /\ Len(log) <= MaxLines
      /\ stored = [stored EXCEPT ![t] = stored[t]]
      /\ failed = [failed EXCEPT ![t] = failed[t]]
  BY InvIsGood DEF Good, Around, Tailers, LogTyped
<1> DEFINE new == [tl EXCEPT !.demux = "write", !.item = tl.pos, !.pos = @ + 1]
<1>2. tl.demux = "copy" /\ tl.pos <= Len(log)
  BY DEF Copy, HasLine
<1>3. tl.pos \in 0..MaxLines /\ tl.pos + 1 \in 0..(MaxLines + 1)
  <2>1. tl.pos \in 0..(MaxLines + 1) /\ MaxLines \in Nat
    BY <1>1, TailerAssumption DEF Tailer
  <2> HIDE DEF tl
  <2>2. QED
    BY <1>1, <1>2, <2>1
<1>4. /\ new \in Tailer
      /\ new.demux = "write" /\ new.item = tl.pos /\ new.pos = tl.pos + 1
      /\ new.run = tl.run /\ new.from = tl.from /\ new.scan = tl.scan
      /\ new.line = tl.line /\ new.lines = tl.lines /\ new.closed = tl.closed
      /\ new.batch = tl.batch /\ new.done = tl.done /\ new.cancelled = tl.cancelled
      /\ new.logsClosed = tl.logsClosed
  BY <1>1, <1>3 DEF Tailer, DemuxPcs
<1>5. /\ tailer' = [tailer EXCEPT ![t] = new] /\ OnlyTailer
      /\ UNCHANGED <<stored, failed>>
  BY DEF Copy, Change, OnlyTailer
<1> HIDE DEF new
<1>6. Good(new, stored[t], failed[t])
  BY <1>1, <1>4, <1>2, CopyGood
<1>7. QED
  BY <1>1, <1>5, <1>6, TailerStep

\* StdCopy ends.
LEMMA EndCopyStep ==
    ASSUME TailerInv, NEW t \in Tailers, NEW err \in BOOLEAN, EndCopy(t, err)
    PROVE  TailerInv'
<1> DEFINE tl == tailer[t]
<1>1. /\ Good(tl, stored[t], failed[t]) /\ tl \in Tailer /\ LogTyped
      /\ tailer[t] = tl /\ Len(log) \in Nat /\ Len(log) <= MaxLines
      /\ stored = [stored EXCEPT ![t] = stored[t]]
      /\ failed = [failed EXCEPT ![t] = failed[t]]
  BY InvIsGood DEF Good, Around, Tailers, LogTyped
<1>2. tl.demux = "copy"
  BY DEF EndCopy
<1>3. Change(t, [tailer[t] EXCEPT !.demux = "done", !.broken = err])
  BY DEF EndCopy
<1> DEFINE new == [tl EXCEPT !.demux = "done", !.broken = err]
<1>4. /\ new \in Tailer
      /\ new.demux = "done"
      /\ new.run = tl.run /\ new.from = tl.from /\ new.pos = tl.pos
      /\ new.item = tl.item /\ new.scan = tl.scan /\ new.line = tl.line
      /\ new.lines = tl.lines /\ new.closed = tl.closed /\ new.batch = tl.batch
      /\ new.done = tl.done /\ new.cancelled = tl.cancelled
      /\ new.logsClosed = tl.logsClosed
  BY <1>1 DEF Tailer, DemuxPcs
<1>5. /\ tailer' = [tailer EXCEPT ![t] = new] /\ OnlyTailer
      /\ UNCHANGED <<stored, failed>>
  BY <1>3 DEF EndCopy, Change, OnlyTailer
<1> HIDE DEF new, tl
<1>6. Good(new, stored[t], failed[t])
  <2>1. tl.demux # "attach" /\ \A x \in Streams : new.scan[x] = tl.scan[x]
    BY <1>2, <1>4
  <2>2. QED
    BY <1>1, <1>2, <1>4, <2>1, EndGood
<1>7. QED
  BY <1>1, <1>5, <1>6, TailerStep

\* A scanner ends after StdCopy.
LEMMA EndScanStep ==
    ASSUME TailerInv, NEW t \in Tailers, NEW s \in Streams, EndScan(t, s)
    PROVE  TailerInv'
<1> DEFINE tl == tailer[t]
<1>1. /\ Good(tl, stored[t], failed[t]) /\ tl \in Tailer /\ LogTyped
      /\ tailer[t] = tl /\ Len(log) \in Nat /\ Len(log) <= MaxLines
      /\ stored = [stored EXCEPT ![t] = stored[t]]
      /\ failed = [failed EXCEPT ![t] = failed[t]]
  BY InvIsGood DEF Good, Around, Tailers, LogTyped
<1> DEFINE new == [tl EXCEPT !.scan[s] = "done"]
<1>2. tl.demux = "done" /\ tl.scan[s] = "read"
  BY DEF EndScan
<1>3. /\ new \in Tailer
      /\ new.scan = [tl.scan EXCEPT ![s] = "done"]
      /\ new.run = tl.run /\ new.from = tl.from /\ new.pos = tl.pos
      /\ new.demux = tl.demux /\ new.item = tl.item /\ new.line = tl.line
      /\ new.lines = tl.lines /\ new.closed = tl.closed /\ new.batch = tl.batch
      /\ new.done = tl.done /\ new.cancelled = tl.cancelled
      /\ new.logsClosed = tl.logsClosed
  BY <1>1 DEF Tailer, DemuxPcs
<1>4. /\ tailer' = [tailer EXCEPT ![t] = new] /\ OnlyTailer
      /\ UNCHANGED <<stored, failed>>
  BY DEF EndScan, Change, OnlyTailer
<1> HIDE DEF new, tl
<1>5. Good(new, stored[t], failed[t])
  <2>1. /\ tl.demux # "attach" /\ new.demux = tl.demux
        /\ tl.scan \in [Streams -> {"read", "put", "done"}]
    BY <1>1, <1>2, <1>3 DEF Tailer
  <2>2. \A x \in Streams : \/ new.scan[x] = tl.scan[x]
                           \/ /\ tl.scan[x] = "read" /\ new.scan[x] = "done"
                              /\ new.demux = "done"
    BY <1>2, <1>3, <2>1
  <2>3. QED
    BY <1>1, <1>3, <2>1, <2>2, EndGood
<1>6. QED
  BY <1>1, <1>4, <1>5, TailerStep

\* The channel is closed.
LEMMA CloseLinesStep ==
    ASSUME TailerInv, NEW t \in Tailers, CloseLines(t)
    PROVE  TailerInv'
<1> DEFINE tl == tailer[t]
<1>1. /\ Good(tl, stored[t], failed[t]) /\ tl \in Tailer /\ LogTyped
      /\ tailer[t] = tl /\ Len(log) \in Nat /\ Len(log) <= MaxLines
      /\ stored = [stored EXCEPT ![t] = stored[t]]
      /\ failed = [failed EXCEPT ![t] = failed[t]]
  BY InvIsGood DEF Good, Around, Tailers, LogTyped
<1> DEFINE new == [tl EXCEPT !.closed = TRUE]
<1>2. \A s \in Streams : tl.scan[s] = "done"
  BY DEF CloseLines
<1>3. /\ new \in Tailer
      /\ new.closed
      /\ new.run = tl.run /\ new.from = tl.from /\ new.pos = tl.pos
      /\ new.demux = tl.demux /\ new.item = tl.item /\ new.scan = tl.scan
      /\ new.line = tl.line /\ new.lines = tl.lines /\ new.batch = tl.batch
      /\ new.done = tl.done /\ new.cancelled = tl.cancelled
      /\ new.logsClosed = tl.logsClosed
  BY <1>1 DEF Tailer, DemuxPcs
<1>4. /\ tailer' = [tailer EXCEPT ![t] = new] /\ OnlyTailer
      /\ UNCHANGED <<stored, failed>>
  BY DEF CloseLines, Change, OnlyTailer
<1> HIDE DEF new, tl
<1>5. Good(new, stored[t], failed[t])
  <2>1. \A x \in Streams : new.scan[x] = tl.scan[x] /\ new.scan[x] = "done"
    BY <1>2, <1>3
  <2>2. tl.demux # "attach"
    <3>1. "stdout" \in Streams /\ tl.scan["stdout"] = "done"
      BY <1>2 DEF Streams
    <3>2. QED
      BY <1>1, <3>1 DEF Good, EndsInTurn
  <2>3. QED
    BY <1>1, <1>3, <2>1, <2>2, EndGood
<1>6. QED
  BY <1>1, <1>4, <1>5, TailerStep

\* A scanner puts its line into the channel.
LEMMA PutStep ==
    ASSUME TailerInv, NEW t \in Tailers, NEW s \in Streams, Put(t, s)
    PROVE  TailerInv'
<1> DEFINE tl == tailer[t]
<1>1. /\ Good(tl, stored[t], failed[t]) /\ tl \in Tailer /\ LogTyped
      /\ tailer[t] = tl /\ Len(log) \in Nat /\ Len(log) <= MaxLines
      /\ stored = [stored EXCEPT ![t] = stored[t]]
      /\ failed = [failed EXCEPT ![t] = failed[t]]
  BY InvIsGood DEF Good, Around, Tailers, LogTyped
<1> DEFINE new == [tl EXCEPT !.lines = Append(@, tl.line[s]), !.scan[s] = "read"]
<1>2. tl.scan[s] = "put" /\ Len(tl.lines) < ChanSize
  BY DEF Put
<1>3. Append(tl.lines, tl.line[s]) \in Seq(1..MaxLines)
  <2>1. tl.line[s] \in Placed(tl, stored[t])
    BY <1>2 DEF Placed, OnWay, Passing
  <2>2. tl.line[s] \in Line
    <3>1. tl.line[s] \in 1..Len(log)
      BY <1>1, <2>1, LinesLogged
    <3>2. QED
      BY <1>1, <3>1, TailerAssumption DEF Line
  <2>3. QED
    BY <1>1, <2>2 DEF Tailer, Line
<1>4. /\ new \in Tailer
      /\ new.lines = Append(tl.lines, tl.line[s])
      /\ new.scan = [tl.scan EXCEPT ![s] = "read"]
      /\ new.run = tl.run /\ new.from = tl.from /\ new.pos = tl.pos
      /\ new.demux = tl.demux /\ new.item = tl.item /\ new.line = tl.line
      /\ new.closed = tl.closed /\ new.batch = tl.batch /\ new.done = tl.done
      /\ new.cancelled = tl.cancelled /\ new.logsClosed = tl.logsClosed
  BY <1>1, <1>3 DEF Tailer, DemuxPcs
<1>5. /\ tailer' = [tailer EXCEPT ![t] = new] /\ OnlyTailer
      /\ UNCHANGED <<stored, failed>>
  BY DEF Put, Change, OnlyTailer
<1> HIDE DEF new
<1>6. Good(new, stored[t], failed[t])
  BY <1>1, <1>4, <1>2, PutGood
<1>7. QED
  BY <1>1, <1>5, <1>6, TailerStep

\* A scanner reads a line.
LEMMA ScanStep ==
    ASSUME TailerInv, NEW t \in Tailers, Scan(t)
    PROVE  TailerInv'
<1> DEFINE tl == tailer[t]
<1>1. /\ Good(tl, stored[t], failed[t]) /\ tl \in Tailer /\ LogTyped
      /\ tailer[t] = tl /\ Len(log) \in Nat /\ Len(log) <= MaxLines
      /\ stored = [stored EXCEPT ![t] = stored[t]]
      /\ failed = [failed EXCEPT ![t] = failed[t]]
  BY InvIsGood DEF Good, Around, Tailers, LogTyped
<1> DEFINE s == log[tl.item].s
           new == IF tl.item \in Long
                  THEN [tl EXCEPT !.scan[s] = "done"]
                  ELSE [tl EXCEPT !.scan[s] = "put", !.line[s] = tl.item, !.demux = "copy"]
<1>2. tl.demux = "write" /\ tl.scan[s] = "read"
  BY DEF Scan
<1>3. s \in Streams
  <2>1. tl.item \in Placed(tl, stored[t])
    BY <1>2 DEF Placed, OnWay, Copied
  <2>2. QED
    BY <1>1, <2>1, LinesLogged
<1>4. /\ tailer' = [tailer EXCEPT ![t] = new] /\ OnlyTailer
      /\ UNCHANGED <<stored, failed>>
  BY DEF Scan, Change, OnlyTailer
<1>5. s = log[tl.item].s
  OBVIOUS
<1> HIDE DEF s
<1>6. /\ new \in Tailer
      /\ new.run = tl.run /\ new.from = tl.from /\ new.pos = tl.pos /\ new.item = tl.item
      /\ new.lines = tl.lines /\ new.closed = tl.closed /\ new.batch = tl.batch
      /\ new.done = tl.done
      /\ \/ /\ tl.item \in Long /\ new.demux = "write" /\ new.line = tl.line
            /\ new.scan = [tl.scan EXCEPT ![s] = "done"]
         \/ /\ new.demux = "copy" /\ new.line = [tl.line EXCEPT ![s] = tl.item]
            /\ new.scan = [tl.scan EXCEPT ![s] = "put"]
  <2>1. CASE tl.item \in Long
    BY <1>1, <1>2, <1>3, <2>1 DEF Tailer, DemuxPcs
  <2>2. CASE tl.item \notin Long
    BY <1>1, <1>2, <1>3, <2>2 DEF Tailer, DemuxPcs
  <2>3. QED
    BY <2>1, <2>2
<1> HIDE DEF new
<1>7. Good(new, stored[t], failed[t])
  BY <1>1, <1>2, <1>3, <1>5, <1>6, ScanGood
<1>8. QED
  BY <1>1, <1>4, <1>7, TailerStep

\* A loop that still takes lines belongs to a tailer that is attached.
LEMMA LoopAttached ==
    ASSUME NEW tl, NEW st, NEW fl, Good(tl, st, fl),
           tl.lines # <<>> \/ tl.batch # <<>> \/ tl.closed
    PROVE  tl.demux # "attach"
BY NothingYet DEF Good, EndsInTurn

\* The loop takes a line, and stores a full batch.
LEMMA ReceiveStep ==
    ASSUME TailerInv, NEW t \in Tailers, NEW ok \in BOOLEAN, Receive(t, ok)
    PROVE  TailerInv'
<1> DEFINE tl == tailer[t]
<1>1. /\ Good(tl, stored[t], failed[t]) /\ tl \in Tailer /\ LogTyped
      /\ tailer[t] = tl /\ Len(log) \in Nat /\ Len(log) <= MaxLines
      /\ stored = [stored EXCEPT ![t] = stored[t]]
      /\ failed = [failed EXCEPT ![t] = failed[t]]
  BY InvIsGood DEF Good, Around, Tailers, LogTyped
<1> DEFINE all == Append(tl.batch, Head(tl.lines))
           rest == Tail(tl.lines)
           full == Len(all) >= BatchSize
           new == [tl EXCEPT !.lines = rest, !.batch = IF full THEN <<>> ELSE all]
           nst == IF full /\ ok THEN stored[t] \o all ELSE stored[t]
           nfl == IF full /\ ~ok THEN failed[t] \cup ToSet(all) ELSE failed[t]
<1>2. ~tl.done /\ tl.lines # <<>> /\ tl.demux # "attach"
  BY <1>1, LoopAttached DEF Receive
<1>3. /\ tailer' = [tailer EXCEPT ![t] = new] /\ OnlyTailer
  BY DEF Receive, Change, OnlyTailer, Rest
<1>4. stored' = [stored EXCEPT ![t] = nst] /\ failed' = [failed EXCEPT ![t] = nfl]
  <2>1. CASE full
    <3>1. Flush(t, all, ok)
      BY <2>1 DEF Receive
    <3>2. QED
      BY <1>1, <2>1, <3>1 DEF Flush
  <2>2. CASE ~full
    <3>1. UNCHANGED <<stored, failed>>
      BY <2>2 DEF Receive
    <3>2. QED
      BY <1>1, <2>2, <3>1
  <2>3. QED
    BY <2>1, <2>2
<1>5. /\ all \in Seq(Line) /\ rest \in Seq(Line)
      /\ Len(all) = Len(tl.batch) + 1 /\ Len(rest) <= ChanSize
      /\ ToSet(all) \cup ToSet(rest) = ToSet(tl.batch) \cup ToSet(tl.lines)
      /\ Ordered(all) /\ Ordered(rest)
      /\ Before(ToSet(stored[t]), ToSet(all) \cup ToSet(rest) \cup Passing(tl) \cup Copied(tl))
      /\ Before(ToSet(all), ToSet(rest) \cup Passing(tl) \cup Copied(tl))
      /\ Before(ToSet(rest), Passing(tl) \cup Copied(tl))
  BY <1>1, <1>2, BatchGood
<1> HIDE DEF all, rest
<1>6. /\ new \in Tailer /\ new.lines = rest /\ new.batch = IF full THEN <<>> ELSE all
      /\ new.run = tl.run /\ new.from = tl.from /\ new.pos = tl.pos /\ new.demux = tl.demux
      /\ new.item = tl.item /\ new.scan = tl.scan /\ new.line = tl.line
      /\ new.closed = tl.closed /\ new.done = tl.done
  BY <1>1, <1>5, EmptySeq DEF Tailer, Line
<1>7. ~full => Len(all) < BatchSize
  BY <1>5, TailerAssumption
<1>8. \/ new.batch = all /\ Len(all) < BatchSize /\ nst = stored[t] /\ nfl = failed[t]
      \/ new.batch = <<>> /\ nst = stored[t] \o all /\ nfl = failed[t]
      \/ new.batch = <<>> /\ nst = stored[t] /\ nfl = failed[t] \cup ToSet(all)
  BY <1>6, <1>7
<1>9. ~new.done
  BY <1>2, <1>6
<1> HIDE DEF tl, new, nst, nfl, full
<1>10. Good(new, nst, nfl)
  <2>1. Good(tl, stored[t], failed[t]) /\ ~tl.done /\ tl.demux # "attach" /\ new \in Tailer
    BY <1>1, <1>2, <1>6
  <2>2. /\ new.lines = rest /\ new.from = tl.from /\ new.pos = tl.pos
        /\ new.demux = tl.demux
        /\ new.item = tl.item /\ new.closed = tl.closed /\ new.line = tl.line
        /\ new.scan = tl.scan
    BY <1>6
  <2>3. Flushed(new, all, stored[t], failed[t], nst, nfl)
    BY <1>8 DEF Flushed
  <2>4. QED
    BY <1>5, <1>9, <2>1, <2>2, <2>3, FlushGood
<1>11. QED
  BY <1>3, <1>4, <1>10, TailerStep

\* The timer or the end of the channel: what the batch holds is stored or lost.
LEMMA LastStep ==
    ASSUME TailerInv, NEW t \in Tailers, NEW ok \in BOOLEAN, Timer(t, ok) \/ Finish(t, ok)
    PROVE  TailerInv'
<1> DEFINE tl == tailer[t]
<1>1. /\ Good(tl, stored[t], failed[t]) /\ tl \in Tailer /\ LogTyped
      /\ tailer[t] = tl /\ Len(log) \in Nat /\ Len(log) <= MaxLines
      /\ stored = [stored EXCEPT ![t] = stored[t]]
      /\ failed = [failed EXCEPT ![t] = failed[t]]
  BY InvIsGood DEF Good, Around, Tailers, LogTyped
<1> DEFINE nst == IF ok THEN stored[t] \o tl.batch ELSE stored[t]
           nfl == IF ok THEN failed[t] ELSE failed[t] \cup ToSet(tl.batch)
<1>2. /\ ~tl.done /\ Flush(t, tl.batch, ok) /\ OnlyTailer
      /\ \/ /\ tailer' = [tailer EXCEPT ![t] = [tl EXCEPT !.batch = <<>>]]
            /\ tl.batch # <<>>
         \/ /\ tailer' = [tailer EXCEPT ![t] = [tl EXCEPT !.batch = <<>>, !.done = TRUE,
                                                          !.logsClosed = TRUE]]
            /\ tl.closed /\ tl.lines = <<>>
  BY DEF Timer, Finish, Change, Rest, LastBatch
<1>3. tl.demux # "attach"
  BY <1>1, <1>2, LoopAttached
<1>4. stored' = [stored EXCEPT ![t] = nst] /\ failed' = [failed EXCEPT ![t] = nfl]
  BY <1>1, <1>2 DEF Flush
<1>5. PICK new \in Tailer :
        /\ tailer' = [tailer EXCEPT ![t] = new]
        /\ new.done => tl.closed /\ tl.lines = <<>>
        /\ new.lines = tl.lines /\ new.batch = <<>>
        /\ new.from = tl.from /\ new.pos = tl.pos /\ new.demux = tl.demux
        /\ new.item = tl.item /\ new.scan = tl.scan /\ new.line = tl.line
        /\ new.closed = tl.closed
  <2> DEFINE kept == [tl EXCEPT !.batch = <<>>]
             last == [tl EXCEPT !.batch = <<>>, !.done = TRUE, !.logsClosed = TRUE]
  <2>1. kept \in Tailer /\ kept.done = tl.done
    BY <1>1, EmptySeq DEF Tailer
  <2>2. last \in Tailer
    BY <1>1, EmptySeq DEF Tailer
  <2>3. CASE tailer' = [tailer EXCEPT ![t] = kept]
    BY <1>1, <1>2, <2>1, <2>3 DEF Tailer
  <2>4. CASE tailer' = [tailer EXCEPT ![t] = last] /\ tl.closed /\ tl.lines = <<>>
    BY <1>1, <2>2, <2>4 DEF Tailer
  <2>5. QED
    BY <1>2, <2>3, <2>4
<1>6. /\ tl.batch \in Seq(Line) /\ tl.lines \in Seq(Line) /\ Len(tl.lines) <= ChanSize
      /\ Ordered(tl.batch) /\ Ordered(tl.lines)
      /\ Before(ToSet(stored[t]),
                ToSet(tl.batch) \cup ToSet(tl.lines) \cup Passing(tl) \cup Copied(tl))
      /\ Before(ToSet(tl.batch), ToSet(tl.lines) \cup Passing(tl) \cup Copied(tl))
      /\ Before(ToSet(tl.lines), Passing(tl) \cup Copied(tl))
  BY <1>1 DEF Good, KeepsOrder, OnWay, Tailer, Line
<1>7. \/ new.batch = <<>> /\ nst = stored[t] \o tl.batch /\ nfl = failed[t]
      \/ new.batch = <<>> /\ nst = stored[t] /\ nfl = failed[t] \cup ToSet(tl.batch)
  BY <1>5
<1> DEFINE all == tl.batch
           rest == tl.lines
<1>8. /\ all \in Seq(Line) /\ rest \in Seq(Line) /\ Len(rest) <= ChanSize
      /\ Ordered(all) /\ Ordered(rest)
      /\ Before(ToSet(stored[t]), ToSet(all) \cup ToSet(rest) \cup Passing(tl) \cup Copied(tl))
      /\ Before(ToSet(all), ToSet(rest) \cup Passing(tl) \cup Copied(tl))
      /\ Before(ToSet(rest), Passing(tl) \cup Copied(tl))
      /\ ToSet(all) \cup ToSet(rest) = ToSet(tl.batch) \cup ToSet(tl.lines)
      /\ \/ new.batch = all /\ Len(all) < BatchSize /\ nst = stored[t] /\ nfl = failed[t]
         \/ new.batch = <<>> /\ nst = stored[t] \o all /\ nfl = failed[t]
         \/ new.batch = <<>> /\ nst = stored[t] /\ nfl = failed[t] \cup ToSet(all)
      /\ new.lines = rest /\ (new.done => tl.closed /\ rest = <<>> /\ new.batch = <<>>)
  BY <1>5, <1>6, <1>7
<1> HIDE DEF tl, nst, nfl, all, rest
<1>9. Good(new, nst, nfl)
  <2>1. /\ Good(tl, stored[t], failed[t]) /\ ~tl.done /\ tl.demux # "attach"
        /\ new \in Tailer
    BY <1>1, <1>2, <1>3
  <2>2. /\ new.from = tl.from /\ new.pos = tl.pos
        /\ new.demux = tl.demux /\ new.item = tl.item /\ new.closed = tl.closed
        /\ new.line = tl.line /\ new.scan = tl.scan
    BY <1>5
  <2>3. Flushed(new, all, stored[t], failed[t], nst, nfl)
    BY <1>8 DEF Flushed
  <2>4. QED
    BY <1>8, <2>1, <2>2, <2>3, FlushGood
<1>10. QED
  BY <1>2, <1>4, <1>5, <1>9, TailerStep
-----------------------------------------------------------------------------
(* LogTailer: the collect loop and the container *)

\* What Good says is the same as long as the log is.
LEMMA SameLog ==
    ASSUME log' = log, NEW u, Good(tailer'[u], stored'[u], failed'[u])
    PROVE  Good(tailer[u], stored[u], failed[u])'
BY
   DEF Good, KeepsOrder, OnWay, LosesNone, EndsInTurn, Ordered, Before, Placed, Passing,
       Copied

\* A step that leaves the log and the tailers alone.
LEMMA AroundStep ==
    ASSUME TailerInv, UNCHANGED <<log, tailer, stored, failed>>,
           run' \in 1..MaxRuns, running' \in BOOLEAN, tracked' \in BOOLEAN,
           seen' \in {"none", "active", "inactive"}, entry' \in 0..Len(tailer),
           main' \in {"collect", "stopping", "stopped"}
    PROVE  TailerInv'
<1>1. Around /\ \A t \in Tailers : Good(tailer[t], stored[t], failed[t])
  BY InvIsGood
<1>2. Around' /\ Tailers' = Tailers
  BY <1>1 DEF Around, LogTyped, Tailers
<1>3. ASSUME NEW t \in Tailers PROVE Good(tailer[t], stored[t], failed[t])'
  BY <1>1, SameLog
<1>4. QED
  BY <1>2, <1>3, NextIsGood

\* The container writes a line: what is said of the lines before it stays.
LEMMA WriteStep ==
    ASSUME TailerInv, NEW s \in Streams, Write(s)
    PROVE  TailerInv'
<1> DEFINE entries == [run : 1..MaxRuns, s : Streams]
           e == [run |-> run, s |-> s]
<1>1. Around /\ \A t \in Tailers : Good(tailer[t], stored[t], failed[t])
  BY InvIsGood
<1>2. /\ log \in Seq(entries) /\ Len(log) < MaxLines /\ log' = Append(log, e)
      /\ e \in entries /\ MaxLines \in Nat
      /\ UNCHANGED <<run, running, tracked, seen, tailer, entry, main, stored, failed>>
  BY <1>1, TailerAssumption DEF Write, Around, LogTyped
<1> HIDE DEF entries, e
<1>3. /\ log' \in Seq(entries) /\ Len(log') = Len(log) + 1 /\ Len(log') <= MaxLines
      /\ Len(log) \in Nat /\ \A i \in 1..Len(log) : log'[i] = log[i]
  BY <1>2, AppendProperties
<1>4. Around' /\ Tailers' = Tailers
  BY <1>1, <1>2, <1>3 DEF Around, LogTyped, Tailers, entries
<1>5. ASSUME NEW t \in Tailers PROVE Good(tailer[t], stored[t], failed[t])'
  <2> DEFINE tl == tailer[t]
             st == stored[t]
             fl == failed[t]
  <2>1. Good(tl, st, fl) /\ LogTyped
    BY <1>1 DEF Around
  <2> HIDE DEF tl, st, fl
  <2>2. \A i \in Placed(tl, st) \cup fl : log'[i] = log[i] /\ i \in 1..Len(log)
    BY <1>3, <2>1, LinesLogged
  <2>3. ToSet(st) \subseteq Placed(tl, st) /\ ToSet(tl.batch) \subseteq Placed(tl, st)
        /\ ToSet(tl.lines) \subseteq Placed(tl, st) /\ Passing(tl) \subseteq Placed(tl, st)
        /\ Copied(tl) \subseteq Placed(tl, st)
    BY DEF Placed, OnWay
  <2>4. /\ \A x \in Streams : tl.scan[x] = "put" => log'[tl.line[x]] = log[tl.line[x]]
        /\ tl.demux = "write" => log'[tl.item] = log[tl.item]
    BY <2>2, <2>3 DEF Passing, Copied
  <2>5. /\ \A i \in DOMAIN st : log'[st[i]] = log[st[i]]
        /\ \A i \in DOMAIN tl.batch : log'[tl.batch[i]] = log[tl.batch[i]]
        /\ \A i \in DOMAIN tl.lines : log'[tl.lines[i]] = log[tl.lines[i]]
    BY <2>2, <2>3 DEF ToSet
  <2>6. tailer'[t] = tl /\ stored'[t] = st /\ failed'[t] = fl
    BY <1>2 DEF tl, st, fl
  <2>7. KeepsOrder(tailer[t], stored[t])'
    <3>1. Ordered(stored[t])' /\ Ordered(tailer[t].batch)' /\ Ordered(tailer[t].lines)'
      BY <2>1, <2>5, <2>6 DEF Good, KeepsOrder, OnWay, Ordered
    <3> DEFINE later == ToSet(tl.batch) \cup ToSet(tl.lines) \cup Passing(tl) \cup Copied(tl)
    <3>2. /\ Before(ToSet(st), later)
          /\ Before(ToSet(tl.batch), ToSet(tl.lines) \cup Passing(tl) \cup Copied(tl))
          /\ Before(ToSet(tl.lines), Passing(tl) \cup Copied(tl))
          /\ Before(Passing(tl), Copied(tl))
      BY <2>1 DEF Good, KeepsOrder, OnWay
    <3>3. ASSUME NEW p, NEW q, p \subseteq Placed(tl, st), q \subseteq Placed(tl, st),
                 Before(p, q)
          PROVE  \A i \in p, j \in q : log'[i].s = log'[j].s => i < j
      BY <2>2, <3>3 DEF Before
    <3>4. /\ \A i \in ToSet(st), j \in later : log'[i].s = log'[j].s => i < j
          /\ \A i \in ToSet(tl.batch), j \in ToSet(tl.lines) \cup Passing(tl) \cup Copied(tl) :
                log'[i].s = log'[j].s => i < j
          /\ \A i \in ToSet(tl.lines), j \in Passing(tl) \cup Copied(tl) :
                log'[i].s = log'[j].s => i < j
          /\ \A i \in Passing(tl), j \in Copied(tl) : log'[i].s = log'[j].s => i < j
      BY <2>3, <3>2, <3>3
    <3>5. QED
      BY <2>6, <3>1, <3>4 DEF KeepsOrder, OnWay, Before, Passing, Copied
  <2>8. LosesNone(tailer[t], stored[t], failed[t])'
    BY <2>1, <2>6 DEF Good, LosesNone, Placed, OnWay, Passing, Copied
  <2>9. EndsInTurn(tailer[t])'
    <3>1. EndsInTurn(tl) /\ tl.pos \in Nat /\ tl.from \in Nat
      BY <2>1, LinesLogged DEF Good
    <3>2. /\ tl.pos <= Len(log) + 1 => tl.pos <= Len(log') + 1
          /\ tl.from <= Len(log) + 1 => tl.from <= Len(log') + 1
      BY <1>3, <3>1
    <3>3. QED
      BY <2>4, <2>6, <3>1, <3>2 DEF EndsInTurn
  <2>10. QED
    BY <2>1, <2>6, <2>7, <2>8, <2>9 DEF Good
<1>6. QED
  BY <1>4, <1>5, NextIsGood

\* Sync or Stop cancels the tailer that has the entry.
LEMMA CancelStep ==
    ASSUME TailerInv, entry # 0, tailer' = Cancelled(entry), entry' = 0, seen' = "none",
           UNCHANGED <<log, run, running, tracked, stored, failed>>,
           main' \in {"collect", "stopping", "stopped"}
    PROVE  TailerInv'
<1> DEFINE tl == tailer[entry]
           new == [tl EXCEPT !.cancelled = TRUE]
<1>1. Around /\ \A t \in Tailers : Good(tailer[t], stored[t], failed[t])
  BY InvIsGood
<1>2. entry \in Tailers
  BY <1>1 DEF Around, Tailers
<1>3. /\ Good(tl, stored[entry], failed[entry]) /\ tl \in Tailer
      /\ tailer' = [tailer EXCEPT ![entry] = new]
  BY <1>1, <1>2 DEF Cancelled, Good
<1>4. /\ new \in Tailer /\ new.from = tl.from /\ new.pos = tl.pos
      /\ new.demux = tl.demux /\ new.item = tl.item /\ new.scan = tl.scan
      /\ new.line = tl.line /\ new.lines = tl.lines /\ new.closed = tl.closed
      /\ new.batch = tl.batch /\ new.done = tl.done
  BY <1>3 DEF Tailer
<1> HIDE DEF new, tl
<1>5. Good(new, stored[entry], failed[entry])
  BY <1>3, <1>4, SameGood
<1>6. /\ Len(tailer') = Len(tailer) /\ DOMAIN tailer' = 1..Len(tailer)
      /\ tailer' = [u \in 1..Len(tailer) |-> tailer'[u]]
  <2>1. Len(tailer') = Len(tailer) /\ DOMAIN tailer' = 1..Len(tailer)
    BY <1>1, <1>3 DEF Around
  <2>2. tailer' = [u \in 1..Len(tailer) |-> tailer'[u]]
    BY <1>1, <1>3 DEF Around
  <2>3. QED
    BY <2>1, <2>2
<1>7. Around' /\ Tailers' = Tailers
  BY <1>1, <1>6 DEF Around, LogTyped, Tailers
<1>8. ASSUME NEW t \in Tailers PROVE Good(tailer[t], stored[t], failed[t])'
  <2>1. Good(tailer'[t], stored'[t], failed'[t])
    <3>1. CASE t = entry
      BY <1>1, <1>2, <1>3, <1>5, <3>1 DEF Around, Tailers
    <3>2. CASE t # entry
      BY <1>1, <1>3, <3>2 DEF Around, Tailers
    <3>3. QED
      BY <3>1, <3>2
  <2>2. QED
    BY <2>1, SameLog
<1>9. QED
  BY <1>7, <1>8, NextIsGood

\* A tailer starts within the log: no run starts later than the next line.
LEMMA OriginsLogged ==
    ASSUME TailerInv, NEW from \in Origins
    PROVE  from \in 0..(MaxLines + 1) /\ from <= Len(log) + 1
<1>1. Len(log) \in Nat /\ Len(log) <= MaxLines /\ MaxLines \in Nat
  BY InvIsGood, TailerAssumption DEF Around, LogTyped
<1>2. CASE from \in RunStarts
  <2>1. PICK n \in 1..run :
           from = Cardinality({i \in 1..Len(log) : log[i].run < n}) + 1
    BY <1>2 DEF RunStarts
  <2> DEFINE part == {i \in 1..Len(log) : log[i].run < n}
  <2>2. part \subseteq 1..Len(log)
    OBVIOUS
  <2>3. IsFiniteSet(1..Len(log)) /\ Cardinality(1..Len(log)) = Len(log)
    <3> DEFINE top == Len(log)
    <3>1. 1 \in Int /\ top \in Int /\ (IF 1 > top THEN 0 ELSE top - 1 + 1) = top
      BY <1>1
    <3> HIDE DEF top
    <3>2. IsFiniteSet(1..top) /\ Cardinality(1..top) = IF 1 > top THEN 0 ELSE top - 1 + 1
      BY <3>1, FS_Interval
    <3>3. QED
      BY <3>1, <3>2 DEF top
  <2> HIDE DEF part
  <2>4. Cardinality(part) \in Nat /\ Cardinality(part) <= Len(log)
    BY <2>2, <2>3, FS_Subset, FS_CardinalityType
  <2>5. from = Cardinality(part) + 1
    BY <2>1 DEF part
  <2>6. QED
    BY <1>1, <2>4, <2>5
<1>3. CASE from = 0
  BY <1>1, <1>3
<1>4. QED
  BY <1>2, <1>3 DEF Origins

\* Sync starts a tailer.
LEMMA StartStep ==
    ASSUME TailerInv, NEW from \in Origins, StartTailer(from)
    PROVE  TailerInv'
<1> DEFINE n == Len(tailer)
           new == NewTailer(from)
<1>1. Around /\ \A t \in Tailers : Good(tailer[t], stored[t], failed[t])
  BY InvIsGood
<1>2. Good(new, <<>>, {})
  BY OriginsLogged, StartGood
<1>3. /\ n \in Nat /\ n < MaxTailers /\ MaxTailers \in Nat
      /\ tailer' = Append(tailer, new) /\ stored' = Append(stored, <<>>)
      /\ failed' = Append(failed, {}) /\ entry' = n + 1 /\ seen' = "none"
      /\ UNCHANGED <<log, run, running, tracked, main>>
  BY <1>1, TailerAssumption DEF StartTailer, Around
<1> HIDE DEF new
<1>4. /\ tailer \in Seq(Tailer) /\ stored \in Seq(Seq(Line)) /\ failed \in Seq(SUBSET Line)
      /\ Len(stored) = n /\ Len(failed) = n
      /\ new \in Tailer /\ <<>> \in Seq(Line) /\ {} \in SUBSET Line
  BY <1>2 DEF TailerInv, LinesExact, TailerTypeOK, Line, Good
<1>5. /\ tailer' \in Seq(Tailer) /\ Len(tailer') = n + 1 /\ tailer'[n + 1] = new
      /\ \A i \in 1..n : tailer'[i] = tailer[i]
  BY <1>3, <1>4, AppendProperties
<1>6. /\ stored' \in Seq(Seq(Line)) /\ Len(stored') = n + 1 /\ stored'[n + 1] = <<>>
      /\ \A i \in 1..n : stored'[i] = stored[i]
  BY <1>3, <1>4, AppendProperties
<1>7. /\ failed' \in Seq(SUBSET Line) /\ Len(failed') = n + 1 /\ failed'[n + 1] = {}
      /\ \A i \in 1..n : failed'[i] = failed[i]
  BY <1>3, <1>4, AppendProperties
<1> HIDE DEF n
<1>8. Around'
  <2>1. /\ DOMAIN tailer' = 1..(n + 1) /\ DOMAIN stored' = 1..(n + 1)
        /\ DOMAIN failed' = 1..(n + 1)
    BY <1>5, <1>6, <1>7
  <2>2. /\ tailer' = [t \in 1..(n + 1) |-> tailer'[t]]
        /\ stored' = [t \in 1..(n + 1) |-> stored'[t]]
        /\ failed' = [t \in 1..(n + 1) |-> failed'[t]]
    BY <1>5, <1>6, <1>7, <2>1
  <2>3. n + 1 \in Nat /\ n + 1 <= MaxTailers /\ n + 1 \in 0..(n + 1)
    BY <1>3
  <2>4. QED
    BY <1>1, <1>3, <1>5, <1>6, <1>7, <2>1, <2>2, <2>3 DEF Around, LogTyped
<1>9. ASSUME NEW t \in Tailers' PROVE Good(tailer[t], stored[t], failed[t])'
  <2>1. Good(tailer'[t], stored'[t], failed'[t])
    <3>1. CASE t = n + 1
      BY <1>2, <1>5, <1>6, <1>7, <3>1
    <3>2. CASE t # n + 1
      <4>1. t \in 1..n
        BY <1>3, <1>5, <3>2 DEF Tailers
      <4>2. QED
        BY <1>1, <1>5, <1>6, <1>7, <4>1 DEF Tailers, n
    <3>3. QED
      BY <3>1, <3>2
  <2>2. QED
    BY <1>3, <2>1, SameLog
<1>10. QED
  BY <1>8, <1>9, NextIsGood

LEMMA TailerInitInv == TailerInit => TailerInv
<1> SUFFICES ASSUME TailerInit PROVE TailerInv
  OBVIOUS
<1>1. Len(tailer) = 0 /\ Tailers = {}
  BY DEF TailerInit, Tailers
<1>2. Around
  BY <1>1, TailerAssumption, EmptySeq DEF Around, TailerInit, LogTyped
<1>3. QED
  BY <1>1, <1>2, InvIsGood

LEMMA TailerStepInv == TailerInv /\ [TailerNext]_tailerVars => TailerInv'
<1> SUFFICES ASSUME TailerInv, [TailerNext]_tailerVars PROVE TailerInv'
  OBVIOUS
<1>1. /\ run \in 1..MaxRuns /\ running \in BOOLEAN /\ tracked \in BOOLEAN
      /\ seen \in {"none", "active", "inactive"} /\ entry \in 0..Len(tailer)
      /\ main \in {"collect", "stopping", "stopped"}
  BY InvIsGood DEF Around
<1>2. CASE UNCHANGED tailerVars
  BY <1>1, <1>2, AroundStep DEF tailerVars
<1>3. CASE Exit
  BY <1>1, <1>3, AroundStep DEF Exit
<1>4. CASE Start
  <2>1. run' \in 1..MaxRuns
    BY <1>1, <1>4, TailerAssumption DEF Start
  <2>2. QED
    BY <1>1, <1>4, <2>1, AroundStep DEF Start
<1>5. ASSUME NEW s \in Streams, Write(s) PROVE TailerInv'
  BY <1>5, WriteStep
<1>6. CASE SetTracking
  BY <1>1, <1>6, AroundStep DEF SetTracking
<1>7. CASE CollectContainers
  BY <1>1, <1>7, AroundStep DEF CollectContainers
<1>8. CASE KeepTailer
  BY <1>1, <1>8, AroundStep DEF KeepTailer
<1>9. CASE StopTailer
  BY <1>1, <1>9, CancelStep DEF StopTailer
<1>10. ASSUME NEW from \in Origins, StartTailer(from) PROVE TailerInv'
  BY <1>10, StartStep
<1>11. CASE BeginStop
  <2>1. CASE entry = 0
    BY <1>1, <1>11, <2>1, AroundStep DEF BeginStop
  <2>2. CASE entry # 0
    BY <1>11, <2>2, CancelStep DEF BeginStop
  <2>3. QED
    BY <2>1, <2>2
<1>12. CASE Stopped
  BY <1>1, <1>12, AroundStep DEF Stopped
<1>13. ASSUME NEW t \in Tailers, Pipeline(t) PROVE TailerInv'
  <2>1. ASSUME NEW ok \in Answers, Receive(t, ok) \/ Timer(t, ok) \/ Finish(t, ok)
        PROVE  TailerInv'
    <3>1. ok \in BOOLEAN
      BY DEF Answers
    <3>2. QED
      BY <2>1, <3>1, ReceiveStep, LastStep
  <2>2. ASSUME NEW s \in Streams, Scanner(t, s) PROVE TailerInv'
    BY <2>2, EndScanStep, PutStep DEF Scanner
  <2>3. CASE Demux(t)
    BY <2>3, CopyStep, EndCopyStep DEF Demux
  <2>4. CASE Attach(t) \/ AttachFails(t) \/ CloseLogs(t) \/ Scan(t) \/ CloseLines(t)
    BY <2>4, AttachStep, AttachFailsStep, CloseLogsStep, ScanStep, CloseLinesStep
  <2>5. QED
    BY <1>13, <2>1, <2>2, <2>3, <2>4 DEF Pipeline, Batching
<1>14. CASE StreamBreaks
  BY <1>14, EndCopyStep DEF StreamBreaks
<1>15. QED
  BY <1>2, <1>3, <1>4, <1>5, <1>6, <1>7, <1>8, <1>9, <1>10, <1>11, <1>12, <1>13, <1>14
     DEF TailerNext, Work, Container, Sync

\* Every tailer's lines are accounted for, and its goroutines end one after another
\* (tail, scanLines, the batch loop, Sync and Stop of logs.go).
THEOREM TailerInvariant == TailerSpec => []TailerInv
<1>1. QED
  BY TailerInitInv, TailerStepInv, PTL DEF TailerSpec

\* However the scanners, the loop, the timer and a cancellation interleave, a tailer
\* stores the lines it was sent in the order of their stream, none twice and none
\* dropped but with a batch the store refused.
THEOREM LinesAreExact == TailerSpec => []LinesExact
<1>1. TailerInv => LinesExact
  BY DEF TailerInv
<1>2. QED
  BY <1>1, TailerInvariant, PTL

-----------------------------------------------------------------------------
(* LogTailer: a tailer follows its run *)

\* The runs of the lines are numbers.
LEMMA RunsTyped ==
    ASSUME LogTyped
    PROVE  Len(log) \in Nat /\ \A i \in 1..Len(log) : log[i].run \in Nat
<1>1. log \in Seq([run : 1..MaxRuns, s : Streams]) /\ Len(log) \in Nat
  BY DEF LogTyped
<1>2. ASSUME NEW i \in 1..Len(log) PROVE log[i].run \in Nat
  <2>1. log[i] \in [run : 1..MaxRuns, s : Streams]
    BY <1>1, ElementOfSeq
  <2>2. QED
    BY <2>1, TailerAssumption
<1>3. QED
  BY <1>1, <1>2

\* What the steps below use of a tailer.
LEMMA FollowerKnown ==
    ASSUME FollowInv, NEW t \in Tailers
    PROVE  /\ FollowsRun(tailer[t]) /\ tailer[t] \in Tailer
           /\ Good(tailer[t], stored[t], failed[t]) /\ EndsInTurn(tailer[t])
           /\ run \in 1..MaxRuns /\ run \in Nat /\ tailer[t].run \in Nat
<1>1. /\ FollowsRun(tailer[t]) /\ Good(tailer[t], stored[t], failed[t]) /\ Around
  BY InvIsGood DEF FollowInv, RunsFollowed
<1>2. run \in 1..MaxRuns /\ MaxRuns \in Nat
  BY <1>1, TailerAssumption DEF Around
<1>3. tailer[t] \in Tailer /\ EndsInTurn(tailer[t])
  BY <1>1 DEF Good
<1>4. tailer[t].run \in 0..MaxRuns
  BY <1>3 DEF Tailer
<1>5. QED
  BY <1>1, <1>2, <1>3, <1>4

\* A step that leaves the container alone keeps what is said of a tailer.
LEMMA SameRun ==
    ASSUME UNCHANGED <<log, run, running>>, NEW t, FollowsRun(tailer'[t])
    PROVE  FollowsRun(tailer[t])'
BY DEF FollowsRun

\* A step of the goroutines of one tailer.
LEMMA FollowerStep ==
    ASSUME FollowInv, NEW t \in Tailers, OnlyTailer, NEW new, FollowsRun(new),
           new.cancelled = tailer[t].cancelled, tailer' = [tailer EXCEPT ![t] = new]
    PROVE  RunsFollowed' /\ OneFollower'
<1>1. Around
  BY InvIsGood DEF FollowInv
<1>2. Tailers' = Tailers /\ tailer'[t] = new /\ \A u \in Tailers \ {t} : tailer'[u] = tailer[u]
  BY <1>1 DEF Around, Tailers
<1>3. UNCHANGED <<log, run, running, entry>>
  BY DEF OnlyTailer
<1>4. \A u \in Tailers : FollowsRun(tailer'[u])
  BY <1>2 DEF FollowInv, RunsFollowed
<1>5. \A u \in Tailers : FollowsRun(tailer[u])'
  BY <1>3, <1>4, SameRun
<1>6. RunsFollowed'
  BY <1>2, <1>3, <1>5 DEF FollowInv, RunsFollowed
<1>7. OneFollower'
  BY <1>2, <1>3 DEF FollowInv, OneFollower
<1>8. QED
  BY <1>6, <1>7

\* ContainerLogs answers, or fails.
LEMMA AttachFollows ==
    ASSUME FollowInv, NEW t \in Tailers, Attach(t) \/ AttachFails(t)
    PROVE  RunsFollowed' /\ OneFollower'
<1> DEFINE tl == tailer[t]
           first == IF tl.from = 0 THEN Len(log) + 1 ELSE tl.from
           open == [tl EXCEPT !.demux = "copy", !.run = run, !.from = first, !.pos = first]
           over == [tl EXCEPT !.demux = "done", !.closed = TRUE, !.done = TRUE,
                              !.scan = [s \in Streams |-> "done"],
                              !.from = 1, !.pos = 1, !.logsClosed = TRUE]
<1>1. /\ FollowsRun(tl) /\ EndsInTurn(tl) /\ tl \in Tailer /\ run \in Nat /\ run > 0
  BY FollowerKnown
<1>2. tl.demux = "attach" /\ OnlyTailer
  BY DEF Attach, AttachFails, Change
<1>3. ~tl.closed /\ tl.run = 0 /\ \A s \in Streams : tl.scan[s] = "read"
  BY <1>1, <1>2 DEF FollowsRun, EndsInTurn
<1>4. CASE Attach(t)
  <2>1. /\ open.demux = "copy" /\ open.run = run /\ open.scan = tl.scan /\ open.closed = tl.closed
        /\ open.logsClosed = tl.logsClosed /\ open.cancelled = tl.cancelled /\ open.broken = tl.broken
        /\ open.done = tl.done
    BY <1>1 DEF Tailer
  <2>2. tailer' = [tailer EXCEPT ![t] = open]
    BY <1>4 DEF Attach, Change
  <2> HIDE DEF open, tl
  <2>3. FollowsRun(open)
    BY <1>1, <1>3, <2>1 DEF FollowsRun
  <2>4. open.cancelled = tailer[t].cancelled
    BY <2>1 DEF tl
  <2>5. QED
    BY <1>2, <2>2, <2>3, <2>4, FollowerStep
<1>5. CASE AttachFails(t)
  <2>1. /\ over.demux = "done" /\ over.run = tl.run /\ over.closed /\ over.done
        /\ over.cancelled = tl.cancelled
    BY <1>1 DEF Tailer
  <2>2. tailer' = [tailer EXCEPT ![t] = over]
    BY <1>5 DEF AttachFails, Change
  <2> HIDE DEF over, tl
  <2>3. FollowsRun(over)
    BY <1>1, <1>3, <2>1 DEF FollowsRun
  <2>4. over.cancelled = tailer[t].cancelled
    BY <2>1 DEF tl
  <2>5. QED
    BY <1>2, <2>2, <2>3, <2>4, FollowerStep
<1>6. QED
  BY <1>4, <1>5

\* StdCopy takes a line.
LEMMA CopyFollows ==
    ASSUME FollowInv, NEW t \in Tailers, Copy(t)
    PROVE  RunsFollowed' /\ OneFollower'
<1> DEFINE tl == tailer[t]
           new == [tl EXCEPT !.demux = "write", !.item = tl.pos, !.pos = @ + 1]
<1>1. FollowsRun(tl) /\ tl \in Tailer /\ tl.demux = "copy"
  BY FollowerKnown DEF Copy
<1>2. /\ new.demux = "write" /\ new.run = tl.run /\ new.scan = tl.scan /\ new.closed = tl.closed
      /\ new.logsClosed = tl.logsClosed /\ new.cancelled = tl.cancelled /\ new.broken = tl.broken /\ new.done = tl.done
  BY <1>1 DEF Tailer
<1>3. tailer' = [tailer EXCEPT ![t] = new] /\ OnlyTailer
  BY DEF Copy, Change
<1> HIDE DEF new
<1>4. FollowsRun(new)
  <2> HIDE DEF tl
  <2>1. QED
    BY <1>1, <1>2 DEF FollowsRun
<1>5. QED
  BY <1>2, <1>3, <1>4, FollowerStep

\* StdCopy returns: nobody closed the stream, so its run is over, and the lines of a
\* later run are all that is left in the log.
LEMMA EndCopyFollows ==
    ASSUME FollowInv, NEW t \in Tailers, NEW err \in BOOLEAN, EndCopy(t, err)
    PROVE  RunsFollowed' /\ OneFollower'
<1> DEFINE tl == tailer[t]
<1>1. /\ FollowsRun(tl) /\ EndsInTurn(tl) /\ tl \in Tailer /\ tl.demux = "copy"
      /\ run \in Nat /\ tl.run \in Nat
  BY FollowerKnown DEF EndCopy
<1>2. /\ err \/ tl.logsClosed \/ (~HasLine(t) /\ (run # tl.run \/ ~running))
      /\ Change(t, [tl EXCEPT !.demux = "done", !.broken = err])
  BY DEF EndCopy
<1> DEFINE new == [tl EXCEPT !.demux = "done", !.broken = err]
<1>3. /\ new.demux = "done" /\ new.run = tl.run /\ new.scan = tl.scan /\ new.closed = tl.closed
      /\ new.logsClosed = tl.logsClosed /\ new.cancelled = tl.cancelled /\ new.done = tl.done
      /\ new.pos = tl.pos /\ new.broken = err
  BY <1>1 DEF Tailer
<1>4. tailer' = [tailer EXCEPT ![t] = new] /\ OnlyTailer
  BY <1>2 DEF Change
<1>5. ~tl.closed /\ ~tl.done
  BY <1>1 DEF FollowsRun, EndsInTurn
<1>6. ASSUME ~tl.cancelled, ~err
      PROVE  /\ tl.run < run \/ ~running
             /\ \A i \in tl.pos..Len(log) : log[i].run > tl.run
  <2>1. ~HasLine(t) /\ (run # tl.run \/ ~running)
    BY <1>1, <1>5, <1>6, <1>2 DEF FollowsRun
  <2>2. tl.pos > Len(log) \/ ~(log[tl.pos].run <= tl.run)
    <3>1. tl.pos \in Nat /\ Len(log) \in Nat
      BY FollowerKnown, InvIsGood, LinesLogged DEF FollowInv, Around
    <3>2. QED
      BY <2>1, <3>1 DEF HasLine
  <2>3. /\ \A i \in 1..Len(log) : log[i].run \in Nat
        /\ Len(log) \in Nat /\ tl.pos \in Nat /\ tl.pos > 0
    <3>1. LogTyped /\ tl.pos \in 0..(MaxLines + 1) /\ MaxLines \in Nat
      BY <1>1, InvIsGood, TailerAssumption DEF FollowInv, Around, Tailer
    <3>2. tl.from \in 1..tl.pos
      BY <1>1 DEF EndsInTurn
    <3> HIDE DEF tl
    <3>3. tl.pos \in Nat /\ tl.pos > 0
      BY <3>1, <3>2
    <3>4. QED
      BY <3>1, <3>3, RunsTyped
  <2>4. \A i, j \in 1..Len(log) : i <= j => log[i].run <= log[j].run
    BY DEF FollowInv, RunsFollowed
  <2>5. tl.run < run \/ ~running
    <3>1. tl.run <= run
      BY <1>1 DEF FollowsRun
    <3> HIDE DEF tl
    <3>2. QED
      BY <1>1, <2>1, <3>1
  <2> HIDE DEF tl
  <2>6. ASSUME NEW i \in tl.pos..Len(log) PROVE log[i].run > tl.run
    <3>1. /\ i \in 1..Len(log) /\ tl.pos \in 1..Len(log) /\ tl.pos <= i
      BY <2>3
    <3>2. log[tl.pos].run <= log[i].run /\ log[tl.pos].run \in Nat /\ log[i].run \in Nat
      BY <2>3, <2>4, <3>1
    <3>3. ~(log[tl.pos].run <= tl.run)
      BY <2>2, <2>3, <3>1
    <3>4. QED
      BY <1>1, <3>2, <3>3
  <2>7. QED
    BY <2>5, <2>6
<1> HIDE DEF new
<1>7. FollowsRun(new)
  <2> HIDE DEF tl
  <2>1. QED
    BY <1>1, <1>3, <1>5, <1>6 DEF FollowsRun
<1>8. QED
  BY <1>3, <1>4, <1>7, FollowerStep

\* The scanners: one reads a line, passes it on, or ends; the channel is closed.
LEMMA ScanFollows ==
    ASSUME FollowInv, NEW t \in Tailers,
           Scan(t) \/ CloseLines(t) \/ \E s \in Streams : EndScan(t, s) \/ Put(t, s)
    PROVE  RunsFollowed' /\ OneFollower'
<1> DEFINE tl == tailer[t]
<1>1. FollowsRun(tl) /\ tl \in Tailer
  BY FollowerKnown
<1>2. CASE Scan(t)
  <2> DEFINE s == log[tl.item].s
             long == [tl EXCEPT !.scan[s] = "done"]
             short == [tl EXCEPT !.scan[s] = "put", !.line[s] = tl.item, !.demux = "copy"]
             new == IF tl.item \in Long THEN long ELSE short
  <2>1. /\ tl.demux = "write" /\ tl.scan[s] = "read" /\ OnlyTailer
        /\ tailer' = [tailer EXCEPT ![t] = new]
    BY <1>2 DEF Scan, Change
  <2>2. /\ new.run = tl.run /\ new.closed = tl.closed /\ new.logsClosed = tl.logsClosed
        /\ new.cancelled = tl.cancelled /\ new.broken = tl.broken /\ new.done = tl.done /\ new.item = tl.item
        /\ \A x \in Streams \ {s} : new.scan[x] = tl.scan[x]
        /\ new.demux = IF tl.item \in Long THEN "write" ELSE "copy"
        /\ tl.item \notin Long => new.scan[s] # "done"
    BY <1>1, <2>1 DEF Tailer
  <2>3. ~tl.closed /\ tl.run # 0
    BY <1>1, <2>1 DEF FollowsRun
  <2>4. \A x \in Streams : new.scan[x] = "done" => new.demux = "write" /\ log[new.item].s = x
    <3>1. \A x \in Streams : tl.scan[x] = "done" => s = x
      BY <1>1, <2>1 DEF FollowsRun
    <3>2. \A x \in Streams \ {s} : tl.scan[x] # "done"
      BY <3>1
    <3>3. ASSUME NEW x \in Streams, new.scan[x] = "done"
          PROVE  new.demux = "write" /\ log[new.item].s = x
      <4>1. x = s
        BY <2>2, <3>2, <3>3
      <4> HIDE DEF new
      <4>2. tl.item \in Long
        BY <2>2, <3>3, <4>1
      <4>3. QED
        BY <2>2, <4>1, <4>2
    <3>4. QED
      BY <3>3
  <2> HIDE DEF new
  <2>5. FollowsRun(new)
    <3> HIDE DEF tl
    <3>1. QED
      BY <1>1, <2>1, <2>2, <2>3, <2>4 DEF FollowsRun
  <2>6. new.cancelled = tailer[t].cancelled
    BY <2>2
  <2>7. QED
    BY <2>1, <2>5, <2>6, FollowerStep
<1>3. CASE CloseLines(t)
  <2> DEFINE new == [tl EXCEPT !.closed = TRUE]
  <2>1. /\ \A s \in Streams : tl.scan[s] = "done"
        /\ tailer' = [tailer EXCEPT ![t] = new] /\ OnlyTailer
    BY <1>3 DEF CloseLines, Change
  <2>2. /\ new.demux = tl.demux /\ new.run = tl.run /\ new.scan = tl.scan
        /\ new.logsClosed = tl.logsClosed /\ new.cancelled = tl.cancelled /\ new.broken = tl.broken
        /\ new.done = tl.done /\ new.pos = tl.pos /\ new.item = tl.item
    BY <1>1 DEF Tailer
  <2>3. tl.demux = "done"
    <3>1. tl.scan["stdout"] = "done" /\ tl.scan["stderr"] = "done"
          /\ "stdout" \in Streams /\ "stderr" \in Streams
      BY <2>1 DEF Streams
    <3> HIDE DEF tl
    <3>2. QED
      BY <1>1, <3>1 DEF FollowsRun
  <2> HIDE DEF new
  <2>4. FollowsRun(new)
    <3> HIDE DEF tl
    <3>1. QED
      BY <1>1, <2>2, <2>3 DEF FollowsRun
  <2>5. new.cancelled = tailer[t].cancelled
    BY <2>2
  <2>6. QED
    BY <2>1, <2>4, <2>5, FollowerStep
<1>4. ASSUME NEW s \in Streams, EndScan(t, s) PROVE RunsFollowed' /\ OneFollower'
  <2> DEFINE new == [tl EXCEPT !.scan[s] = "done"]
  <2>1. tl.demux = "done" /\ tailer' = [tailer EXCEPT ![t] = new] /\ OnlyTailer
    BY <1>4 DEF EndScan, Change
  <2>2. /\ new.demux = tl.demux /\ new.run = tl.run /\ new.closed = tl.closed
        /\ new.logsClosed = tl.logsClosed /\ new.cancelled = tl.cancelled /\ new.broken = tl.broken
        /\ new.done = tl.done /\ new.pos = tl.pos
    BY <1>1 DEF Tailer
  <2> HIDE DEF new
  <2>3. FollowsRun(new)
    <3> HIDE DEF tl
    <3>1. QED
      BY <1>1, <2>1, <2>2 DEF FollowsRun
  <2>4. new.cancelled = tailer[t].cancelled
    BY <2>2
  <2>5. QED
    BY <2>1, <2>3, <2>4, FollowerStep
<1>5. ASSUME NEW s \in Streams, Put(t, s) PROVE RunsFollowed' /\ OneFollower'
  <2> DEFINE new == [tl EXCEPT !.lines = Append(@, tl.line[s]), !.scan[s] = "read"]
  <2>1. tailer' = [tailer EXCEPT ![t] = new] /\ OnlyTailer
    BY <1>5 DEF Put, Change
  <2>2. /\ new.demux = tl.demux /\ new.run = tl.run /\ new.closed = tl.closed
        /\ new.logsClosed = tl.logsClosed /\ new.cancelled = tl.cancelled /\ new.broken = tl.broken
        /\ new.done = tl.done /\ new.pos = tl.pos /\ new.item = tl.item
        /\ \A x \in Streams : new.scan[x] = "done" => tl.scan[x] = "done"
    BY <1>1 DEF Tailer
  <2> HIDE DEF new
  <2>3. FollowsRun(new)
    <3> HIDE DEF tl
    <3>1. QED
      BY <1>1, <2>2 DEF FollowsRun
  <2>4. new.cancelled = tailer[t].cancelled
    BY <2>2
  <2>5. QED
    BY <2>1, <2>3, <2>4, FollowerStep
<1>6. QED
  BY <1>2, <1>3, <1>4, <1>5

\* The stream of a cancelled tailer is closed; the loop takes a line, flushes, or ends.
LEMMA LoopFollows ==
    ASSUME FollowInv, NEW t \in Tailers, NEW ok,
           CloseLogs(t) \/ Receive(t, ok) \/ Timer(t, ok) \/ Finish(t, ok)
    PROVE  RunsFollowed' /\ OneFollower'
<1> DEFINE tl == tailer[t]
           all == Append(tl.batch, Head(tl.lines))
           shut == [tl EXCEPT !.logsClosed = TRUE]
           took == [tl EXCEPT !.lines = Tail(@),
                              !.batch = IF Len(all) >= BatchSize THEN Rest(ok, all) ELSE all]
           sent == [tl EXCEPT !.batch = Rest(ok, @)]
           over == [tl EXCEPT !.batch = <<>>, !.done = TRUE, !.logsClosed = TRUE]
<1>1. FollowsRun(tl) /\ tl \in Tailer
  BY FollowerKnown
<1>2. ASSUME NEW new, OnlyTailer, tailer' = [tailer EXCEPT ![t] = new],
             new.demux = tl.demux, new.run = tl.run, new.closed = tl.closed,
             new.cancelled = tl.cancelled, new.broken = tl.broken,
             new.pos = tl.pos, new.item = tl.item,
             new.scan = tl.scan, tl.done => new.done,
             new.logsClosed => tl.logsClosed \/ tl.cancelled \/ new.done
      PROVE  RunsFollowed' /\ OneFollower'
  <2>1. FollowsRun(new)
    <3> HIDE DEF tl
    <3>1. QED
      BY <1>1, <1>2 DEF FollowsRun
  <2>2. QED
    BY <1>2, <2>1, FollowerStep
<1>3. CASE CloseLogs(t)
  <2>1. tl.cancelled /\ OnlyTailer /\ tailer' = [tailer EXCEPT ![t] = shut]
    BY <1>3 DEF CloseLogs, Change
  <2>2. /\ shut.demux = tl.demux /\ shut.run = tl.run /\ shut.closed = tl.closed
        /\ shut.cancelled = tl.cancelled /\ shut.broken = tl.broken
        /\ shut.pos = tl.pos /\ shut.item = tl.item
        /\ shut.scan = tl.scan /\ shut.done = tl.done
    BY <1>1 DEF Tailer
  <2> HIDE DEF shut, tl
  <2>3. QED
    BY <1>2, <2>1, <2>2
<1>4. CASE Receive(t, ok)
  <2>1. OnlyTailer /\ tailer' = [tailer EXCEPT ![t] = took]
    BY <1>4 DEF Receive, Change
  <2>2. /\ took.demux = tl.demux /\ took.run = tl.run /\ took.closed = tl.closed
        /\ took.cancelled = tl.cancelled /\ took.broken = tl.broken
        /\ took.pos = tl.pos /\ took.item = tl.item
        /\ took.scan = tl.scan /\ took.done = tl.done /\ took.logsClosed = tl.logsClosed
    BY <1>1 DEF Tailer
  <2> HIDE DEF took, tl
  <2>3. QED
    BY <1>2, <2>1, <2>2
<1>5. CASE Timer(t, ok)
  <2>1. OnlyTailer /\ tailer' = [tailer EXCEPT ![t] = sent]
    BY <1>5 DEF Timer, Change
  <2>2. /\ sent.demux = tl.demux /\ sent.run = tl.run /\ sent.closed = tl.closed
        /\ sent.cancelled = tl.cancelled /\ sent.broken = tl.broken
        /\ sent.pos = tl.pos /\ sent.item = tl.item
        /\ sent.scan = tl.scan /\ sent.done = tl.done /\ sent.logsClosed = tl.logsClosed
    BY <1>1 DEF Tailer
  <2> HIDE DEF sent, tl
  <2>3. QED
    BY <1>2, <2>1, <2>2
<1>6. CASE Finish(t, ok)
  <2>1. OnlyTailer /\ tailer' = [tailer EXCEPT ![t] = over]
    BY <1>6 DEF Finish, Change
  <2>2. /\ over.demux = tl.demux /\ over.run = tl.run /\ over.closed = tl.closed
        /\ over.cancelled = tl.cancelled /\ over.broken = tl.broken
        /\ over.pos = tl.pos /\ over.item = tl.item
        /\ over.scan = tl.scan /\ over.done
    BY <1>1 DEF Tailer
  <2> HIDE DEF over, tl
  <2>3. QED
    BY <1>2, <2>1, <2>2
<1>7. QED
  BY <1>3, <1>4, <1>5, <1>6

\* The container starts, ends, or writes a line: it writes while it runs, so in a later
\* run than one that is over.
LEMMA ContainerFollows ==
    ASSUME FollowInv, Container
    PROVE  RunsFollowed' /\ OneFollower'
<1>1. Around /\ UNCHANGED <<tailer, entry>> /\ Tailers' = Tailers
  BY InvIsGood DEF FollowInv, Container, Exit, Start, Write, Tailers
<1>2. /\ \A i, j \in 1..Len(log) : i <= j => log[i].run <= log[j].run /\ log[j].run <= run
      /\ \A i \in 1..Len(log) : log[i].run \in Nat
      /\ Len(log) \in Nat /\ run \in Nat
  <2>1. LogTyped /\ run \in 1..MaxRuns
    BY <1>1 DEF Around
  <2>2. run \in Nat
    BY <2>1, TailerAssumption
  <2>3. QED
    BY <2>1, <2>2, RunsTyped DEF FollowInv, RunsFollowed
<1>3. OneFollower'
  BY <1>1 DEF FollowInv, OneFollower
<1>4. ASSUME Exit \/ Start PROVE RunsFollowed'
  <2>1. /\ log' = log /\ run' \in Nat /\ run <= run'
        /\ ~running' \/ (~running /\ run' = run + 1)
    BY <1>2, <1>4 DEF Exit, Start
  <2>2. ASSUME NEW t \in Tailers PROVE FollowsRun(tailer[t])'
    <3>1. FollowsRun(tailer[t]) /\ tailer[t].run \in Nat /\ tailer'[t] = tailer[t]
      BY <1>1, FollowerKnown
    <3>2. tailer[t].run <= run /\ tailer[t].run <= run'
      BY <1>2, <2>1, <3>1 DEF FollowsRun
    <3>3. tailer[t].run < run \/ ~running => tailer[t].run < run' \/ ~running'
      BY <1>2, <2>1, <3>1, <3>2
    <3>4. QED
      BY <2>1, <3>1, <3>2, <3>3 DEF FollowsRun
  <2>3. \A i, j \in 1..Len(log) : i <= j => log[i].run <= log[j].run /\ log[j].run <= run'
    BY <1>2, <2>1
  <2>4. QED
    BY <1>1, <2>1, <2>2, <2>3 DEF RunsFollowed
<1>5. ASSUME NEW s \in Streams, Write(s) PROVE RunsFollowed'
  <2> DEFINE e == [run |-> run, s |-> s]
  <2>1. running /\ log' = Append(log, e) /\ run' = run /\ running' = running /\ e.run = run
    BY <1>5 DEF Write
  <2>2. log \in Seq([run : 1..MaxRuns, s : Streams]) /\ e \in [run : 1..MaxRuns, s : Streams]
    BY <1>1 DEF Around, LogTyped
  <2> HIDE DEF e
  <2>3. /\ Len(log') = Len(log) + 1 /\ log'[Len(log) + 1].run = run
        /\ \A i \in 1..Len(log) : log'[i] = log[i]
    BY <2>1, <2>2, AppendProperties
  <2>4. ASSUME NEW i \in 1..Len(log'), NEW j \in 1..Len(log'), i <= j
        PROVE  log'[i].run <= log'[j].run /\ log'[j].run <= run
    <3>1. CASE j \in 1..Len(log)
      BY <1>2, <2>3, <2>4, <3>1
    <3>2. CASE j = Len(log) + 1
      <4>1. CASE i \in 1..Len(log)
        BY <1>2, <2>3, <3>2, <4>1
      <4>2. CASE i = Len(log) + 1
        BY <1>2, <2>3, <3>2, <4>2
      <4>3. QED
        BY <1>2, <2>3, <4>1, <4>2
    <3>3. QED
      BY <1>2, <2>3, <3>1, <3>2
  <2>5. ASSUME NEW t \in Tailers PROVE FollowsRun(tailer[t])'
    <3> DEFINE tl == tailer[t]
    <3>1. /\ FollowsRun(tl) /\ tl.run \in Nat /\ tailer'[t] = tl
          /\ Good(tl, stored[t], failed[t])
      BY <1>1, FollowerKnown
    <3>2. tl.demux = "write" => log'[tl.item] = log[tl.item]
      <4>1. \A i \in Placed(tl, stored[t]) : i \in 1..Len(log)
        BY <1>1, <3>1, LinesLogged DEF Around
      <4>2. tl.demux = "write" => tl.item \in Placed(tl, stored[t])
        BY DEF Placed, OnWay, Copied
      <4>3. QED
        BY <2>3, <4>1, <4>2
    <3>3. ASSUME tl.demux = "done", tl.run < run,
                 \A i \in tl.pos..Len(log) : log[i].run > tl.run
          PROVE  \A i \in tl.pos..Len(log') : log'[i].run > tl.run
      <4>1. tl.pos \in Nat /\ tl.from \in 1..tl.pos
        BY <1>1, <3>1, <3>3, LinesLogged DEF Around, Good, EndsInTurn
      <4> HIDE DEF tl
      <4>2. tl.pos > 0
        BY <4>1
      <4>3. ASSUME NEW i \in tl.pos..Len(log') PROVE log'[i].run > tl.run
        <5>1. (i \in 1..Len(log) /\ i \in tl.pos..Len(log)) \/ i = Len(log) + 1
          BY <1>2, <2>3, <4>1, <4>2, <4>3
        <5>2. CASE i \in 1..Len(log) /\ i \in tl.pos..Len(log)
          BY <2>3, <3>3, <5>2
        <5>3. CASE i = Len(log) + 1
          BY <1>2, <2>3, <3>1, <3>3, <5>3
        <5>4. QED
          BY <5>1, <5>2, <5>3
      <4>4. QED
        BY <4>3
    <3> HIDE DEF tl
    <3>4. FollowsRun(tailer[t])'
      BY <2>1, <3>1, <3>2, <3>3 DEF FollowsRun
    <3>5. QED
      BY <3>4
  <2>6. QED
    BY <1>1, <2>1, <2>4, <2>5 DEF RunsFollowed
<1>6. QED
  BY <1>3, <1>4, <1>5 DEF Container

\* Sync and Stop: a tailer is started when there is no entry, so when all are
\* cancelled, and the one with the entry is cancelled when the entry goes.
LEMMA SyncFollows ==
    ASSUME FollowInv, CollectContainers \/ SetTracking \/ Stopped \/ Sync \/ BeginStop
    PROVE  RunsFollowed' /\ OneFollower'
<1>1. /\ Around /\ UNCHANGED <<log, run, running>>
  BY InvIsGood
     DEF FollowInv, CollectContainers, SetTracking, Stopped, Sync, KeepTailer, StopTailer,
         StartTailer, BeginStop
<1>2. \A t \in Tailers : FollowsRun(tailer[t]) /\ tailer[t] \in Tailer
  BY FollowerKnown
<1>3. CASE UNCHANGED <<tailer, entry>>
  <2>1. Tailers' = Tailers
    BY <1>3 DEF Tailers
  <2>2. \A t \in Tailers : FollowsRun(tailer[t])'
    BY <1>1, <1>2, <1>3, SameRun
  <2>3. QED
    BY <1>1, <1>3, <2>1, <2>2 DEF FollowInv, RunsFollowed, OneFollower
<1>4. ASSUME entry # 0, tailer' = Cancelled(entry), entry' = 0
      PROVE  RunsFollowed' /\ OneFollower'
  <2> DEFINE tl == tailer[entry]
             new == [tl EXCEPT !.cancelled = TRUE]
  <2>1. entry \in Tailers /\ tailer' = [tailer EXCEPT ![entry] = new]
    BY <1>1, <1>4 DEF Around, Tailers, Cancelled
  <2>2. /\ Tailers' = Tailers /\ tailer'[entry] = new
        /\ \A t \in Tailers \ {entry} : tailer'[t] = tailer[t]
    BY <1>1, <2>1 DEF Around, Tailers
  <2>3. FollowsRun(tl) /\ tl \in Tailer
    BY <1>2, <2>1
  <2>4. /\ new.demux = tl.demux /\ new.run = tl.run /\ new.closed = tl.closed
        /\ new.pos = tl.pos /\ new.item = tl.item /\ new.scan = tl.scan
        /\ new.done = tl.done /\ new.cancelled
    BY <2>3 DEF Tailer
  <2> HIDE DEF new, tl
  <2>5. FollowsRun(new)
    BY <2>3, <2>4 DEF FollowsRun
  <2>6. \A t \in Tailers : FollowsRun(tailer'[t])
    BY <1>2, <2>2, <2>5
  <2>7. \A t \in Tailers : FollowsRun(tailer[t])'
    BY <1>1, <2>6, SameRun
  <2>8. RunsFollowed'
    BY <1>1, <2>2, <2>7 DEF FollowInv, RunsFollowed
  <2>9. \A t \in Tailers : tailer'[t].cancelled /\ t # 0
    BY <2>2, <2>4 DEF FollowInv, OneFollower, Tailers
  <2>10. QED
    BY <1>4, <2>2, <2>8, <2>9 DEF OneFollower
<1>5. ASSUME NEW from \in Origins, StartTailer(from) PROVE RunsFollowed' /\ OneFollower'
  <2> DEFINE n == Len(tailer)
             new == NewTailer(from)
  <2>1. entry = 0 /\ tailer' = Append(tailer, new) /\ entry' = n + 1
    BY <1>5 DEF StartTailer
  <2>2. n \in Nat /\ tailer \in Seq(Tailer) /\ run \in Nat
    BY <1>1, TailerAssumption DEF Around, FollowInv, TailerInv, LinesExact, TailerTypeOK
  <2>3. /\ new.demux = "attach" /\ new.run = 0 /\ ~new.closed /\ ~new.logsClosed
        /\ ~new.cancelled /\ \A s \in Streams : new.scan[s] = "read"
    BY DEF NewTailer
  <2> HIDE DEF new
  <2>4. FollowsRun(new)
    BY <2>2, <2>3 DEF FollowsRun
  <2>5. /\ Len(tailer') = n + 1 /\ tailer'[n + 1] = new
        /\ \A t \in 1..n : tailer'[t] = tailer[t]
    BY <2>1, <2>2, AppendProperties
  <2> HIDE DEF n
  <2>6. /\ Tailers = 1..n /\ Tailers' = 1..(n + 1)
        /\ \A t \in Tailers' : t \in 1..n \/ t = n + 1
    BY <2>2, <2>5 DEF Tailers, n
  <2>7. \A t \in Tailers' : FollowsRun(tailer'[t])
    BY <1>2, <2>4, <2>5, <2>6
  <2>8. \A t \in Tailers' : FollowsRun(tailer[t])'
    BY <1>1, <2>7, SameRun
  <2>9. RunsFollowed'
    BY <1>1, <2>8 DEF FollowInv, RunsFollowed
  <2>10. \A t \in 1..n : tailer'[t].cancelled /\ t # n + 1
    BY <2>1, <2>2, <2>5, <2>6 DEF FollowInv, OneFollower
  <2>11. QED
    BY <2>1, <2>3, <2>5, <2>6, <2>9, <2>10 DEF OneFollower
<1>6. CASE StopTailer
  BY <1>4, <1>6 DEF StopTailer
<1>7. CASE BeginStop
  BY <1>3, <1>4, <1>7 DEF BeginStop
<1>8. CASE CollectContainers \/ SetTracking \/ Stopped \/ KeepTailer
  BY <1>3, <1>8 DEF CollectContainers, SetTracking, Stopped, KeepTailer
<1>9. QED
  BY <1>5, <1>6, <1>7, <1>8 DEF Sync

LEMMA FollowInit == TailerInit => FollowInv
<1> SUFFICES ASSUME TailerInit PROVE FollowInv
  OBVIOUS
<1>1. Tailers = {} /\ Len(log) = 0
  BY DEF TailerInit, Tailers
<1>2. QED
  BY <1>1, TailerInitInv DEF FollowInv, RunsFollowed, OneFollower

LEMMA FollowNext == FollowInv /\ [TailerNext]_tailerVars => FollowInv'
<1> SUFFICES ASSUME FollowInv, [TailerNext]_tailerVars PROVE FollowInv'
  OBVIOUS
<1>1. TailerInv'
  BY TailerStepInv DEF FollowInv
<1>2. ASSUME NEW t \in Tailers, Pipeline(t) PROVE RunsFollowed' /\ OneFollower'
  BY <1>2, AttachFollows, CopyFollows, EndCopyFollows, ScanFollows, LoopFollows
     DEF Pipeline, Demux, Scanner, Batching
<1>3. CASE UNCHANGED tailerVars
  <2>1. UNCHANGED <<log, run, running, tailer, entry>> /\ Tailers' = Tailers
    BY <1>3 DEF tailerVars, Tailers
  <2>2. \A t \in Tailers : FollowsRun(tailer[t])'
    BY <2>1, SameRun DEF FollowInv, RunsFollowed
  <2>3. QED
    BY <1>1, <2>1, <2>2 DEF FollowInv, RunsFollowed, OneFollower
<1>4. CASE TailerNext
  <2>1. RunsFollowed' /\ OneFollower'
    BY <1>2, <1>4, ContainerFollows, SyncFollows, EndCopyFollows
       DEF TailerNext, Work, StreamBreaks
  <2>2. QED
    BY <1>1, <2>1 DEF FollowInv
<1>5. QED
  BY <1>3, <1>4

\* What a tailer does follows from its run and its entry (Sync, Stop, tail).
THEOREM FollowersInvariant == TailerSpec => []FollowInv
<1>1. QED
  BY FollowInit, FollowNext, PTL DEF TailerSpec

\* However often the container is started, untracked and tracked again, and whichever
\* of its tailers could not attach or have ended, only the tailer with the entry of
\* lt.tailers has not been cancelled.
THEOREM FollowerIsOne == TailerSpec => []OneFollower
<1>1. FollowInv => OneFollower
  BY DEF FollowInv
<1>2. QED
  BY <1>1, FollowersInvariant, PTL

\* A tailer that has returned has nothing left of what it read.
LEMMA EndedIsEmpty ==
    ASSUME FollowInv, NEW t \in Tailers, tailer[t].done
    PROVE  /\ tailer[t].demux = "done" /\ OnWay(tailer[t]) = {}
           /\ Placed(tailer[t], stored[t]) = ToSet(stored[t])
<1> DEFINE tl == tailer[t]
<1>1. /\ FollowsRun(tl) /\ EndsInTurn(tl)
  BY FollowerKnown
<1>2. /\ tl.closed /\ tl.batch = <<>> /\ tl.lines = <<>> /\ tl.demux = "done"
      /\ \A s \in Streams : tl.scan[s] = "done"
  BY <1>1 DEF EndsInTurn, FollowsRun
<1> HIDE DEF tl
<1>3. Passing(tl) = {} /\ Copied(tl) = {} /\ OnWay(tl) = {}
  BY <1>2, NoLines DEF Passing, Copied, OnWay
<1>4. QED
  BY <1>2, <1>3 DEF Placed, tl

\* A tailer that has returned, whether its stream ended or it was cancelled, has left
\* no line it read in a pipe, in the channel or in the batch.
THEOREM TailersEndFlushed == TailerSpec => []EndedIsFlushed
<1>1. ASSUME FollowInv PROVE EndedIsFlushed
  <2> SUFFICES ASSUME NEW t \in Tailers, tailer[t].done
               PROVE  \A i \in tailer[t].from..(tailer[t].pos - 1) :
                         i \in ToSet(stored[t]) \cup failed[t]
    BY DEF EndedIsFlushed
  <2>1. LosesNone(tailer[t], stored[t], failed[t])
    BY <1>1, FollowerKnown DEF Good
  <2>2. QED
    BY <1>1, <2>1, EndedIsEmpty DEF LosesNone
<1>2. QED
  BY <1>1, FollowersInvariant, PTL

\* A tailer that ends by itself ends with its run or a broken stream; with its run all that
\* the container wrote in it has been read, stored or refused, whatever was in the pipes, the
\* channel and the batch when the stream ended.
THEOREM RunsAreStored == TailerSpec => []RunIsStored
<1>1. ASSUME FollowInv PROVE RunIsStored
  <2> SUFFICES ASSUME NEW t \in Tailers, tailer[t].done, ~tailer[t].cancelled,
                      ~tailer[t].broken, tailer[t].run # 0
               PROVE  /\ tailer[t].run < run \/ ~running
                      /\ \A i \in tailer[t].from..Len(log) :
                            log[i].run <= tailer[t].run
                               => i \in ToSet(stored[t]) \cup failed[t]
    BY DEF RunIsStored
  <2> DEFINE tl == tailer[t]
  <2>1. /\ FollowsRun(tl) /\ LosesNone(tl, stored[t], failed[t]) /\ tl \in Tailer
        /\ tl.demux = "done" /\ Placed(tl, stored[t]) = ToSet(stored[t])
    BY <1>1, FollowerKnown, EndedIsEmpty DEF Good
  <2>2. /\ tl.run < run \/ ~running
        /\ \A i \in tl.pos..Len(log) : log[i].run > tl.run
    BY <2>1 DEF FollowsRun
  <2>3. /\ LogTyped /\ Len(log) \in Nat /\ \A i \in 1..Len(log) : log[i].run \in Nat
        /\ tl.run \in Nat /\ tl.pos \in Nat /\ tl.from \in Nat
    <3>1. LogTyped /\ tl.run \in Nat /\ Good(tl, stored[t], failed[t])
      BY <1>1, FollowerKnown, InvIsGood DEF FollowInv, Around
    <3> HIDE DEF tl
    <3>2. QED
      BY <3>1, LinesLogged, RunsTyped
  <2>4. ToSet(stored[t]) \cup failed[t] = tl.from..(tl.pos - 1)
    BY <2>1 DEF LosesNone
  <2>5. ASSUME NEW i \in tl.from..Len(log), log[i].run <= tl.run
        PROVE  i \in ToSet(stored[t]) \cup failed[t]
    <3>1. CASE i < tl.pos
      <4> HIDE DEF tl
      <4>1. QED
        BY <2>3, <2>4, <3>1
    <3>2. CASE i >= tl.pos
      <4>1. i \in tl.pos..Len(log) /\ i >= 1
        <5>1. tl.from \in 1..tl.pos
          BY <1>1, <2>1, FollowerKnown DEF EndsInTurn
        <5> HIDE DEF tl
        <5>2. QED
          BY <2>3, <3>2, <5>1
      <4>2. i \in 1..Len(log) /\ log[i].run \in Nat
        BY <2>3, <4>1
      <4> HIDE DEF tl
      <4>3. QED
        BY <2>2, <2>3, <2>5, <4>1, <4>2
    <3> HIDE DEF tl
    <3>3. QED
      BY <2>3, <3>1, <3>2
  <2>6. QED
    BY <2>2, <2>5
<1>2. QED
  BY <1>1, FollowersInvariant, PTL

\* A tailer ends only when everything it was sent is stored or refused, and unless it
\* was cancelled or its stream broke only with the run it followed.
THEOREM TailersEndRight == TailerSpec => []EndsRight
<1>1. EndedIsFlushed /\ RunIsStored => EndsRight
  BY DEF EndsRight
<1>2. QED
  BY <1>1, TailersEndFlushed, RunsAreStored, PTL

-----------------------------------------------------------------------------
(* LogTailer implements LineStore *)

\* What Told does to sets of lines.
LEMMA ToldUnion == ASSUME NEW p, NEW q PROVE Told(p \cup q) = Told(p) \cup Told(q)
BY DEF Told

LEMMA ToldMinus == ASSUME NEW p, NEW q PROVE Told(p \ q) = Told(p) \ Told(q)
BY DEF Told

LEMMA ToldWithin ==
    ASSUME NEW p, NEW q, p \subseteq q
    PROVE  Told(p) \subseteq Told(q)
BY DEF Told

LEMMA ToldNone == Told({}) = {}
BY DEF Told

LEMMA ToldBefore ==
    ASSUME NEW p, NEW q, Before(p, q)
    PROVE  Store!Precede(Told(p), Told(q))
BY DEF Told, Before, Store!Precede

\* What the four functions say of a tailer that has been started, and of the others.
LEMMA StoreKnown ==
    ASSUME FollowInv, NEW t \in Tailers
    PROVE  /\ t \in 1..MaxTailers
           /\ LineState[t] = IF tailer[t].done THEN "ended" ELSE "open"
           /\ LinesOnWay[t] = Told(OnWay(tailer[t]))
           /\ LinesKept[t] = Told(ToSet(stored[t])) /\ LinesLost[t] = Told(failed[t])
<1>1. Tailers \subseteq 1..MaxTailers
  BY InvIsGood, TailerAssumption DEF FollowInv, Around, Tailers
<1>2. QED
  BY <1>1 DEF LineState, LinesOnWay, LinesKept, LinesLost

\* Tailer t becomes new, and its lines nst and nfl: in LogTailer, and in LineStore.
Becomes(t, new, nst, nfl) ==
    /\ tailer' = [tailer EXCEPT ![t] = new]
    /\ stored' = [stored EXCEPT ![t] = nst] /\ failed' = [failed EXCEPT ![t] = nfl]
ShowsAs(t, new, nst, nfl) ==
    /\ LineState' = [LineState EXCEPT ![t] = IF new.done THEN "ended" ELSE "open"]
    /\ LinesOnWay' = [LinesOnWay EXCEPT ![t] = Told(OnWay(new))]
    /\ LinesKept' = [LinesKept EXCEPT ![t] = Told(ToSet(nst))]
    /\ LinesLost' = [LinesLost EXCEPT ![t] = Told(nfl)]

\* A step of the goroutines of one tailer changes what is said of that one.
LEMMA StoreStep ==
    ASSUME FollowInv, NEW t \in Tailers, OnlyTailer, NEW new, NEW nst, NEW nfl,
           Becomes(t, new, nst, nfl)
    PROVE  ShowsAs(t, new, nst, nfl)
<1>1. Around /\ log' = log
  BY InvIsGood DEF FollowInv, OnlyTailer
<1>2. /\ Tailers' = Tailers /\ tailer'[t] = new /\ stored'[t] = nst /\ failed'[t] = nfl
      /\ \A u \in Tailers \ {t} :
            tailer'[u] = tailer[u] /\ stored'[u] = stored[u] /\ failed'[u] = failed[u]
  BY <1>1 DEF Around, Tailers, Becomes
<1>3. ASSUME NEW u \in Tailers
      PROVE  /\ Told(OnWay(tailer[u]))' = Told(OnWay(tailer'[u]))
             /\ Told(ToSet(stored[u]))' = Told(ToSet(stored'[u]))
             /\ Told(failed[u])' = Told(failed'[u])
  BY <1>1 DEF Told, OnWay, Passing, Copied
<1>4. LineState' = [LineState EXCEPT ![t] = IF new.done THEN "ended" ELSE "open"]
  BY <1>2 DEF LineState
<1>5. LinesOnWay' = [LinesOnWay EXCEPT ![t] = Told(OnWay(new))]
  BY <1>2, <1>3 DEF LinesOnWay
<1>6. LinesKept' = [LinesKept EXCEPT ![t] = Told(ToSet(nst))]
  BY <1>2, <1>3 DEF LinesKept
<1>7. LinesLost' = [LinesLost EXCEPT ![t] = Told(nfl)]
  BY <1>2, <1>3 DEF LinesLost
<1>8. QED
  BY <1>4, <1>5, <1>6, <1>7 DEF ShowsAs

StoreVars == <<LineState, LinesOnWay, LinesKept, LinesLost>>

\* A line that moves on within its tailer is not seen.
LEMMA MoveRefines ==
    ASSUME FollowInv, NEW t \in Tailers, OnlyTailer, UNCHANGED <<stored, failed>>,
           NEW new, tailer' = [tailer EXCEPT ![t] = new],
           OnWay(new) = OnWay(tailer[t]), new.done = tailer[t].done
    PROVE  UNCHANGED StoreVars
<1>1. Around
  BY InvIsGood DEF FollowInv
<1>2. Becomes(t, new, stored[t], failed[t])
  BY <1>1 DEF Around, Tailers, Becomes
<1>3. /\ LineState' = [LineState EXCEPT ![t] = IF new.done THEN "ended" ELSE "open"]
      /\ LinesOnWay' = [LinesOnWay EXCEPT ![t] = Told(OnWay(new))]
      /\ LinesKept' = [LinesKept EXCEPT ![t] = Told(ToSet(stored[t]))]
      /\ LinesLost' = [LinesLost EXCEPT ![t] = Told(failed[t])]
  BY <1>2, StoreStep DEF ShowsAs
<1>4. /\ LineState[t] = IF tailer[t].done THEN "ended" ELSE "open"
      /\ LinesOnWay[t] = Told(OnWay(tailer[t]))
      /\ LinesKept[t] = Told(ToSet(stored[t])) /\ LinesLost[t] = Told(failed[t])
  BY StoreKnown
<1>5. /\ LineState = [u \in 1..MaxTailers |-> LineState[u]]
      /\ LinesOnWay = [u \in 1..MaxTailers |-> LinesOnWay[u]]
      /\ LinesKept = [u \in 1..MaxTailers |-> LinesKept[u]]
      /\ LinesLost = [u \in 1..MaxTailers |-> LinesLost[u]]
  BY DEF LineState, LinesOnWay, LinesKept, LinesLost
<1>6. QED
  BY <1>3, <1>4, <1>5 DEF StoreVars

\* The lines all are the first on their way, and leave with the step.
Leaves(t, new, nst, nfl, all) ==
    /\ all \subseteq OnWay(tailer[t]) /\ OnWay(new) = OnWay(tailer[t]) \ all
    /\ Before(all, OnWay(new)) /\ (new.done => OnWay(new) = {})
    /\ \/ ToSet(nst) = ToSet(stored[t]) \cup all /\ nfl = failed[t]
       \/ nst = stored[t] /\ nfl = failed[t] \cup all

\* The lines of a batch leave at once: they are stored, or the store refuses them.
LEMMA LeaveRefines ==
    ASSUME FollowInv, NEW t \in Tailers, OnlyTailer, ~tailer[t].done,
           NEW new, NEW nst, NEW nfl, NEW all,
           Becomes(t, new, nst, nfl), Leaves(t, new, nst, nfl, all)
    PROVE  Store!Next
<1> DEFINE way == OnWay(tailer[t])
           batch == Told(all)
<1>1. /\ t \in 1..MaxTailers /\ LineState[t] = "open" /\ LinesOnWay[t] = Told(way)
      /\ LinesKept[t] = Told(ToSet(stored[t])) /\ LinesLost[t] = Told(failed[t])
  BY StoreKnown
<1>2. /\ LineState' = [LineState EXCEPT ![t] = IF new.done THEN "ended" ELSE "open"]
      /\ LinesOnWay' = [LinesOnWay EXCEPT ![t] = Told(OnWay(new))]
      /\ LinesKept' = [LinesKept EXCEPT ![t] = Told(ToSet(nst))]
      /\ LinesLost' = [LinesLost EXCEPT ![t] = Told(nfl)]
  BY StoreStep DEF ShowsAs
<1>3. /\ batch \subseteq LinesOnWay[t] /\ Told(OnWay(new)) = LinesOnWay[t] \ batch
      /\ Store!Precede(batch, LinesOnWay[t] \ batch)
  <2>1. Told(all) \subseteq Told(way)
    BY ToldWithin DEF Leaves
  <2>2. Told(OnWay(new)) = Told(way) \ Told(all)
    BY ToldMinus DEF Leaves
  <2>3. Store!Precede(Told(all), Told(OnWay(new)))
    BY ToldBefore DEF Leaves
  <2>4. QED
    BY <1>1, <2>1, <2>2, <2>3
<1>4. \/ /\ LinesKept' = [LinesKept EXCEPT ![t] = @ \cup batch] /\ LinesLost' = LinesLost
      \/ /\ LinesLost' = [LinesLost EXCEPT ![t] = @ \cup batch] /\ LinesKept' = LinesKept
  <2>1. /\ LinesKept = [LinesKept EXCEPT ![t] = LinesKept[t]]
        /\ LinesLost = [LinesLost EXCEPT ![t] = LinesLost[t]]
    BY DEF LinesKept, LinesLost
  <2>2. CASE ToSet(nst) = ToSet(stored[t]) \cup all /\ nfl = failed[t]
    <3>1. Told(ToSet(nst)) = LinesKept[t] \cup batch /\ Told(nfl) = LinesLost[t]
      BY <1>1, <2>2, ToldUnion
    <3> HIDE DEF batch
    <3>2. QED
      BY <1>2, <2>1, <3>1
  <2>3. CASE nst = stored[t] /\ nfl = failed[t] \cup all
    <3>1. Told(nfl) = LinesLost[t] \cup batch /\ Told(ToSet(nst)) = LinesKept[t]
      BY <1>1, <2>3, ToldUnion
    <3> HIDE DEF batch
    <3>2. QED
      BY <1>2, <2>1, <3>1
  <2>4. QED
    BY <2>2, <2>3 DEF Leaves
<1> HIDE DEF batch, way
<1>5. Store!Settled(t, batch)
  BY <1>2, <1>3, <1>4 DEF Store!Settled
<1>6. CASE ~new.done
  <2>1. LineState' = LineState
    BY <1>1, <1>2, <1>6 DEF LineState
  <2>2. Store!Settle(t)
    BY <1>1, <1>3, <1>5, <2>1 DEF Store!Settle
  <2>3. QED
    BY <1>1, <2>2 DEF Store!Next
<1>7. CASE new.done
  <2>1. LinesOnWay[t] \ batch = {} /\ batch = LinesOnWay[t]
    BY <1>3, <1>7, ToldNone DEF Leaves
  <2>2. Store!End(t)
    BY <1>1, <1>2, <1>5, <1>7, <2>1 DEF Store!End
  <2>3. QED
    BY <1>1, <2>2 DEF Store!Next
<1>8. QED
  BY <1>6, <1>7

\* StdCopy takes a line: it comes after all that its tailer was sent before.
LEMMA CopyRefines ==
    ASSUME FollowInv, NEW t \in Tailers, Copy(t)
    PROVE  Store!Next
<1> DEFINE tl == tailer[t]
           new == [tl EXCEPT !.demux = "write", !.item = tl.pos, !.pos = @ + 1]
           l == [n |-> tl.pos, s |-> log[tl.pos].s]
           before == Placed(tl, stored[t]) \cup failed[t]
<1>1. /\ FollowsRun(tl) /\ tl \in Tailer /\ Good(tl, stored[t], failed[t]) /\ EndsInTurn(tl)
      /\ tl.demux = "copy" /\ tl.pos <= Len(log) /\ LogTyped
  BY FollowerKnown, InvIsGood DEF Copy, HasLine, FollowInv, Around
<1>2. tailer' = [tailer EXCEPT ![t] = new] /\ OnlyTailer /\ UNCHANGED <<stored, failed>>
  BY DEF Copy, Change
<1>3. ~tl.done /\ ~new.done
  BY <1>1 DEF FollowsRun, EndsInTurn, Tailer
<1>4. OnWay(new) = OnWay(tl) \cup {tl.pos}
  <2>1. /\ new.demux = "write" /\ new.item = tl.pos /\ new.batch = tl.batch
        /\ new.lines = tl.lines /\ new.scan = tl.scan /\ new.line = tl.line
    BY <1>1 DEF Tailer
  <2> HIDE DEF new, tl
  <2>2. QED
    BY <1>1, <2>1 DEF OnWay, Passing, Copied
<1>5. tl.pos \in Nat /\ tl.from \in Nat /\ Len(log) \in Nat /\ \A i \in before : i < tl.pos
  BY <1>1, LinesLogged
<1>6. tl.pos \in 1..Len(log) /\ l \in [n : 1..MaxLines, s : Streams]
  <2>1. tl.from \in 1..tl.pos
    BY <1>1 DEF EndsInTurn
  <2> HIDE DEF tl
  <2>2. tl.pos \in 1..Len(log) /\ tl.pos \in 1..MaxLines
    BY <1>1, <1>5, <2>1, TailerAssumption DEF LogTyped
  <2>3. log[tl.pos].s \in Streams
    BY <1>1, <2>2, LinesLogged
  <2>4. QED
    BY <2>2, <2>3
<1>7. /\ t \in 1..MaxTailers /\ LineState[t] = "open" /\ LinesOnWay[t] = Told(OnWay(tl))
      /\ LinesKept[t] = Told(ToSet(stored[t])) /\ LinesLost[t] = Told(failed[t])
  BY <1>3, StoreKnown
<1>8. Becomes(t, new, stored[t], failed[t])
  BY <1>2, InvIsGood DEF FollowInv, Around, Tailers, Becomes
<1>9. /\ LineState' = [LineState EXCEPT ![t] = "open"]
      /\ LinesOnWay' = [LinesOnWay EXCEPT ![t] = Told(OnWay(new))]
      /\ LinesKept' = [LinesKept EXCEPT ![t] = LinesKept[t]]
      /\ LinesLost' = [LinesLost EXCEPT ![t] = LinesLost[t]]
  <2> HIDE DEF new, tl
  <2>1. QED
    BY <1>2, <1>3, <1>7, <1>8, StoreStep DEF ShowsAs
<1>10. Told(OnWay(new)) = LinesOnWay[t] \cup {l}
  <2>1. Told({tl.pos}) = {l}
    BY DEF Told
  <2> HIDE DEF new, tl, l
  <2>2. QED
    BY <1>4, <1>7, <2>1, ToldUnion
<1>11. Store!Precede(LinesOnWay[t] \cup LinesKept[t] \cup LinesLost[t], {l})
  <2>1. Before(before, {tl.pos})
    BY <1>5 DEF Before
  <2>2. Store!Precede(Told(before), Told({tl.pos})) /\ Told({tl.pos}) = {l}
    <3> HIDE DEF before
    <3>1. QED
      BY <2>1, ToldBefore DEF Told
  <2>3. Told(before) = LinesOnWay[t] \cup LinesKept[t] \cup LinesLost[t]
    <3>1. /\ Told(before) = Told(Placed(tl, stored[t])) \cup Told(failed[t])
          /\ Told(Placed(tl, stored[t])) = Told(ToSet(stored[t])) \cup Told(OnWay(tl))
      BY ToldUnion DEF Placed
    <3> HIDE DEF before
    <3>2. QED
      BY <1>7, <3>1
  <2> HIDE DEF before, l
  <2>4. QED
    BY <2>2, <2>3
<1>12. /\ LineState' = LineState /\ LinesKept' = LinesKept /\ LinesLost' = LinesLost
  <2>1. /\ LineState = [LineState EXCEPT ![t] = LineState[t]]
        /\ LinesKept = [LinesKept EXCEPT ![t] = LinesKept[t]]
        /\ LinesLost = [LinesLost EXCEPT ![t] = LinesLost[t]]
    BY DEF LineState, LinesKept, LinesLost
  <2>2. QED
    BY <1>7, <1>9, <2>1
<1> HIDE DEF l, new, tl
<1>13. Store!Send(t, l)
  BY <1>7, <1>9, <1>10, <1>11, <1>12 DEF Store!Send
<1>14. QED
  BY <1>6, <1>7, <1>13 DEF Store!Next

\* Whatever else moves a line leaves it on its way, until the loop's batch leaves.
LEMMA ScanRefines ==
    ASSUME FollowInv, NEW t \in Tailers,
           Scan(t) \/ CloseLines(t) \/ \E s \in Streams : EndScan(t, s) \/ Put(t, s)
    PROVE  UNCHANGED StoreVars
<1> DEFINE tl == tailer[t]
<1>1. tl \in Tailer /\ Good(tl, stored[t], failed[t])
  BY FollowerKnown
<1>2. CASE Scan(t)
  <2> DEFINE s == log[tl.item].s
             long == [tl EXCEPT !.scan[s] = "done"]
             short == [tl EXCEPT !.scan[s] = "put", !.line[s] = tl.item, !.demux = "copy"]
             new == IF tl.item \in Long THEN long ELSE short
  <2>1. /\ tl.demux = "write" /\ tl.scan[s] = "read" /\ OnlyTailer
        /\ tailer' = [tailer EXCEPT ![t] = new] /\ UNCHANGED <<stored, failed>>
    BY <1>2 DEF Scan, Change
  <2>2. s \in Streams
    <3>1. tl.item \in Placed(tl, stored[t])
      BY <2>1 DEF Placed, OnWay, Copied
    <3>2. QED
      BY <1>1, <3>1, InvIsGood, LinesLogged DEF FollowInv, Around
  <2> HIDE DEF s
  <2>3. CASE tl.item \in Long
    <3>1. /\ new.batch = tl.batch /\ new.lines = tl.lines /\ new.demux = tl.demux
          /\ new.item = tl.item /\ new.line = tl.line /\ new.done = tl.done
          /\ \A x \in Streams : new.scan[x] = "put" <=> tl.scan[x] = "put"
      BY <1>1, <2>1, <2>3 DEF Tailer
    <3> HIDE DEF new
    <3>2. OnWay(new) = OnWay(tl)
      BY <3>1 DEF OnWay, Passing, Copied
    <3>3. QED
      BY <2>1, <3>1, <3>2, MoveRefines
  <2>4. CASE tl.item \notin Long
    <3>1. /\ new.batch = tl.batch /\ new.lines = tl.lines /\ new.demux = "copy"
          /\ new.done = tl.done /\ new.scan[s] = "put" /\ new.line[s] = tl.item
          /\ \A x \in Streams \ {s} : new.scan[x] = tl.scan[x] /\ new.line[x] = tl.line[x]
      BY <1>1, <2>1, <2>2, <2>4 DEF Tailer
    <3> HIDE DEF new, tl
    <3>2. Passing(new) = Passing(tl) \cup {tl.item}
      <4>1. Passing(new) \subseteq Passing(tl) \cup {tl.item}
        BY <2>1, <2>2, <3>1 DEF Passing
      <4>2. Passing(tl) \cup {tl.item} \subseteq Passing(new)
        BY <2>1, <2>2, <3>1 DEF Passing
      <4>3. QED
        BY <4>1, <4>2
    <3>3. Copied(new) = {} /\ Copied(tl) = {tl.item}
      BY <2>1, <3>1 DEF Copied
    <3>4. OnWay(new) = OnWay(tl)
      BY <3>1, <3>2, <3>3 DEF OnWay
    <3>5. QED
      BY <2>1, <3>1, <3>4, MoveRefines DEF tl
  <2>5. QED
    BY <2>3, <2>4
<1>3. CASE CloseLines(t)
  <2> DEFINE new == [tl EXCEPT !.closed = TRUE]
  <2>1. tailer' = [tailer EXCEPT ![t] = new] /\ OnlyTailer /\ UNCHANGED <<stored, failed>>
    BY <1>3 DEF CloseLines, Change
  <2>2. /\ new.batch = tl.batch /\ new.lines = tl.lines /\ new.demux = tl.demux
        /\ new.item = tl.item /\ new.line = tl.line /\ new.done = tl.done
        /\ new.scan = tl.scan
    BY <1>1 DEF Tailer
  <2> HIDE DEF new
  <2>3. OnWay(new) = OnWay(tl)
    BY <2>2 DEF OnWay, Passing, Copied
  <2>4. QED
    BY <2>1, <2>2, <2>3, MoveRefines
<1>4. ASSUME NEW s \in Streams, EndScan(t, s) PROVE UNCHANGED StoreVars
  <2> DEFINE new == [tl EXCEPT !.scan[s] = "done"]
  <2>1. /\ tailer' = [tailer EXCEPT ![t] = new] /\ OnlyTailer /\ UNCHANGED <<stored, failed>>
        /\ tl.scan[s] = "read"
    BY <1>4 DEF EndScan, Change
  <2>2. /\ new.batch = tl.batch /\ new.lines = tl.lines /\ new.demux = tl.demux
        /\ new.item = tl.item /\ new.line = tl.line /\ new.done = tl.done
        /\ \A x \in Streams : new.scan[x] = "put" <=> tl.scan[x] = "put"
    BY <1>1, <2>1 DEF Tailer
  <2> HIDE DEF new
  <2>3. OnWay(new) = OnWay(tl)
    BY <2>2 DEF OnWay, Passing, Copied
  <2>4. QED
    BY <2>1, <2>2, <2>3, MoveRefines
<1>5. ASSUME NEW s \in Streams, Put(t, s) PROVE UNCHANGED StoreVars
  <2> DEFINE new == [tl EXCEPT !.lines = Append(@, tl.line[s]), !.scan[s] = "read"]
  <2>1. /\ tailer' = [tailer EXCEPT ![t] = new] /\ OnlyTailer /\ UNCHANGED <<stored, failed>>
        /\ tl.scan[s] = "put"
    BY <1>5 DEF Put, Change
  <2>2. /\ new.batch = tl.batch /\ new.lines = Append(tl.lines, tl.line[s])
        /\ new.demux = tl.demux /\ new.item = tl.item /\ new.line = tl.line
        /\ new.done = tl.done /\ new.scan[s] = "read"
        /\ \A x \in Streams \ {s} : new.scan[x] = tl.scan[x]
    BY <1>1 DEF Tailer
  <2> HIDE DEF new
  <2>3. tl.line[s] \in Line /\ tl.lines \in Seq(Line)
    <3>1. tl.line[s] \in Placed(tl, stored[t])
      BY <2>1 DEF Placed, OnWay, Passing
    <3>2. tl.line[s] \in 1..Len(log) /\ LogTyped
      BY <1>1, <3>1, InvIsGood, LinesLogged DEF FollowInv, Around
    <3>3. tl.lines \in Seq(Line)
      BY <1>1 DEF Tailer, Line
    <3> HIDE DEF tl
    <3>4. QED
      BY <3>2, <3>3, TailerAssumption DEF Line, LogTyped
  <2>4. ToSet(new.lines) = ToSet(tl.lines) \cup {tl.line[s]}
    BY <2>2, <2>3, SetOfAppend
  <2>5. Passing(tl) = Passing(new) \cup {tl.line[s]}
    <3>1. Passing(new) \cup {tl.line[s]} \subseteq Passing(tl)
      BY <2>1, <2>2 DEF Passing
    <3>2. Passing(tl) \subseteq Passing(new) \cup {tl.line[s]}
      BY <2>1, <2>2 DEF Passing
    <3>3. QED
      BY <3>1, <3>2
  <2>6. OnWay(new) = OnWay(tl)
    BY <2>2, <2>4, <2>5 DEF OnWay, Copied
  <2>7. QED
    BY <2>1, <2>2, <2>6, MoveRefines
<1>6. QED
  BY <1>2, <1>3, <1>4, <1>5

\* ContainerLogs answers or fails; the stream is closed, or ends.
LEMMA StreamRefines ==
    ASSUME FollowInv, NEW t \in Tailers,
           Attach(t) \/ AttachFails(t) \/ CloseLogs(t) \/ \E err \in BOOLEAN : EndCopy(t, err)
    PROVE  UNCHANGED StoreVars \/ Store!Next
<1> DEFINE tl == tailer[t]
<1>1. tl \in Tailer /\ Good(tl, stored[t], failed[t]) /\ EndsInTurn(tl)
  BY FollowerKnown
<1>2. OnlyTailer /\ UNCHANGED <<stored, failed>>
  BY DEF Attach, AttachFails, CloseLogs, EndCopy, Change
<1>3. CASE Attach(t)
  <2> DEFINE first == IF tl.from = 0 THEN Len(log) + 1 ELSE tl.from
             new == [tl EXCEPT !.demux = "copy", !.run = run, !.from = first, !.pos = first]
  <2>1. tailer' = [tailer EXCEPT ![t] = new] /\ tl.demux = "attach"
    BY <1>3 DEF Attach, Change
  <2>2. /\ new.batch = tl.batch /\ new.lines = tl.lines /\ new.demux = "copy"
        /\ new.line = tl.line /\ new.done = tl.done /\ new.scan = tl.scan
    BY <1>1 DEF Tailer
  <2> HIDE DEF new
  <2>3. OnWay(new) = OnWay(tl)
    BY <2>1, <2>2 DEF OnWay, Passing, Copied
  <2>4. QED
    BY <1>2, <2>1, <2>2, <2>3, MoveRefines
<1>4. CASE AttachFails(t)
  <2> DEFINE new == [tl EXCEPT !.demux = "done", !.closed = TRUE, !.done = TRUE,
                               !.scan = [s \in Streams |-> "done"],
                               !.from = 1, !.pos = 1, !.logsClosed = TRUE]
  <2>1. tailer' = [tailer EXCEPT ![t] = new] /\ tl.demux = "attach"
    BY <1>4 DEF AttachFails, Change
  <2>2. /\ new.batch = tl.batch /\ new.lines = tl.lines /\ new.demux = "done"
        /\ \A s \in Streams : new.scan[s] = "done"
    BY <1>1 DEF Tailer
  <2> HIDE DEF new
  <2>3. OnWay(tl) = {} /\ OnWay(new) = {} /\ ~tl.done
    <3>1. ToSet(tl.batch) = {} /\ ToSet(tl.lines) = {} /\ \A s \in Streams : tl.scan[s] = "read"
      BY <1>1, <2>1, NothingYet
    <3>2. ~tl.done
      BY <1>1, <2>1 DEF EndsInTurn
    <3> HIDE DEF tl
    <3>3. QED
      BY <2>1, <2>2, <3>1, <3>2 DEF OnWay, Passing, Copied
  <2>4. Becomes(t, new, stored[t], failed[t])
    BY <1>2, <2>1, InvIsGood DEF FollowInv, Around, Tailers, Becomes
  <2>5. Leaves(t, new, stored[t], failed[t], {})
    BY <2>3 DEF Leaves, Before
  <2>6. QED
    BY <1>2, <2>3, <2>4, <2>5, LeaveRefines
<1>5. CASE CloseLogs(t) \/ \E err \in BOOLEAN : EndCopy(t, err)
  <2>1. PICK new : /\ tailer' = [tailer EXCEPT ![t] = new]
                   /\ new.batch = tl.batch /\ new.lines = tl.lines /\ new.item = tl.item
                   /\ new.line = tl.line /\ new.done = tl.done /\ new.scan = tl.scan
                   /\ new.demux = "write" <=> tl.demux = "write"
    <3> DEFINE shut == [tl EXCEPT !.logsClosed = TRUE]
    <3>1. CASE CloseLogs(t)
      <4>1. tailer' = [tailer EXCEPT ![t] = shut]
        BY <3>1 DEF CloseLogs, Change
      <4>2. /\ shut.batch = tl.batch /\ shut.lines = tl.lines /\ shut.item = tl.item
            /\ shut.line = tl.line /\ shut.done = tl.done /\ shut.scan = tl.scan
            /\ shut.demux = tl.demux
        BY <1>1 DEF Tailer
      <4> HIDE DEF shut, tl
      <4>3. QED
        BY <4>1, <4>2
    <3>2. CASE \E err \in BOOLEAN : EndCopy(t, err)
      <4>1. PICK err \in BOOLEAN :
              /\ tailer' = [tailer EXCEPT ![t] = [tl EXCEPT !.demux = "done", !.broken = err]]
              /\ tl.demux = "copy"
        BY <3>2 DEF EndCopy, Change
      <4> DEFINE over == [tl EXCEPT !.demux = "done", !.broken = err]
      <4>2. /\ over.batch = tl.batch /\ over.lines = tl.lines /\ over.item = tl.item
            /\ over.line = tl.line /\ over.done = tl.done /\ over.scan = tl.scan
            /\ over.demux = "done"
        BY <1>1 DEF Tailer
      <4>3. tailer' = [tailer EXCEPT ![t] = over]
        BY <4>1
      <4> HIDE DEF over, tl
      <4>4. QED
        BY <4>1, <4>2, <4>3
    <3>3. QED
      BY <1>5, <3>1, <3>2
  <2>2. OnWay(new) = OnWay(tl)
    BY <2>1 DEF OnWay, Passing, Copied
  <2>3. QED
    BY <1>2, <2>1, <2>2, MoveRefines
<1>6. QED
  BY <1>3, <1>4, <1>5

\* The batch leaves: what is behind it came later, and it is none of that.
LEMMA BatchApart ==
    ASSUME NEW p, NEW q, p \subseteq Line, Before(p, q)
    PROVE  (p \cup q) \ p = q
<1>1. \A i \in p : i \notin q
  BY DEF Before, Line
<1>2. QED
  BY <1>1

\* The loop takes a line, flushes, or ends.
LEMMA LoopRefines ==
    ASSUME FollowInv, NEW t \in Tailers, NEW ok \in BOOLEAN,
           Receive(t, ok) \/ Timer(t, ok) \/ Finish(t, ok)
    PROVE  UNCHANGED StoreVars \/ Store!Next
<1> DEFINE tl == tailer[t]
           later == Passing(tl) \cup Copied(tl)
<1>1. tl \in Tailer /\ Good(tl, stored[t], failed[t]) /\ EndsInTurn(tl) /\ FollowsRun(tl)
  BY FollowerKnown
<1>2. OnlyTailer /\ ~tl.done
  BY DEF Receive, Timer, Finish, Change
<1>3. /\ stored = [stored EXCEPT ![t] = stored[t]]
      /\ failed = [failed EXCEPT ![t] = failed[t]]
  BY InvIsGood DEF FollowInv, Around, Tailers
<1>4. /\ tl.batch \in Seq(Line) /\ ToSet(tl.batch) \subseteq Line /\ stored[t] \in Seq(Line)
      /\ Before(ToSet(tl.batch), ToSet(tl.lines) \cup later)
      /\ OnWay(tl) = ToSet(tl.batch) \cup (ToSet(tl.lines) \cup later)
  <2>1. tl.batch \in Seq(Line) /\ stored[t] \in Seq(Line)
    BY <1>1 DEF Tailer, Line, Good
  <2>2. ToSet(tl.batch) \subseteq Line
    BY <2>1 DEF ToSet
  <2>3. Before(ToSet(tl.batch), ToSet(tl.lines) \cup later)
    BY <1>1 DEF Good, KeepsOrder, Before
  <2>4. OnWay(tl) = ToSet(tl.batch) \cup (ToSet(tl.lines) \cup later)
    BY DEF OnWay
  <2>5. QED
    BY <2>1, <2>2, <2>3, <2>4
\* A batch of the lines all leaves, and rest is what the channel has then.
<1>5. ASSUME NEW all \in Seq(Line), NEW rest, NEW new,
             ToSet(all) \cup ToSet(rest) = ToSet(tl.batch) \cup ToSet(tl.lines),
             Before(ToSet(all), ToSet(rest) \cup later),
             tailer' = [tailer EXCEPT ![t] = new], Flush(t, all, ok),
             new.batch = <<>>, new.lines = rest, Passing(new) = Passing(tl),
             Copied(new) = Copied(tl), new.done => ToSet(rest) \cup later = {}
      PROVE  Store!Next
  <2> DEFINE nst == IF ok THEN stored[t] \o all ELSE stored[t]
             nfl == IF ok THEN failed[t] ELSE failed[t] \cup ToSet(all)
  <2>1. Becomes(t, new, nst, nfl)
    BY <1>3, <1>5 DEF Flush, Becomes
  <2>2. ToSet(stored[t] \o all) = ToSet(stored[t]) \cup ToSet(all) /\ ToSet(all) \subseteq Line
    <3>1. ToSet(all) \subseteq Line
      BY <1>5 DEF ToSet
    <3>2. QED
      BY <1>4, <1>5, <3>1, SetOfJoin
  <2>3. OnWay(new) = ToSet(rest) \cup later
    BY <1>5, NoLines DEF OnWay
  <2>4. OnWay(tl) = ToSet(all) \cup (ToSet(rest) \cup later)
    BY <1>4, <1>5
  <2>5. OnWay(new) = OnWay(tl) \ ToSet(all) /\ Before(ToSet(all), OnWay(new))
    BY <1>5, <2>2, <2>3, <2>4, BatchApart
  <2>6. \/ ToSet(nst) = ToSet(stored[t]) \cup ToSet(all) /\ nfl = failed[t]
        \/ nst = stored[t] /\ nfl = failed[t] \cup ToSet(all)
    BY <2>2
  <2>7. ToSet(all) \subseteq OnWay(tl) /\ (new.done => OnWay(new) = {})
    BY <1>5, <2>3, <2>4
  <2> HIDE DEF nst, nfl
  <2>8. Leaves(t, new, nst, nfl, ToSet(all))
    BY <2>5, <2>6, <2>7 DEF Leaves
  <2>9. QED
    BY <1>2, <2>1, <2>8, LeaveRefines
<1>6. CASE Receive(t, ok)
  <2> DEFINE all == Append(tl.batch, Head(tl.lines))
             rest == Tail(tl.lines)
             full == Len(all) >= BatchSize
             new == [tl EXCEPT !.lines = rest, !.batch = IF full THEN <<>> ELSE all]
  <2>1. /\ tl.lines # <<>> /\ tailer' = [tailer EXCEPT ![t] = new]
        /\ IF full THEN Flush(t, all, ok) ELSE UNCHANGED <<stored, failed>>
    BY <1>6 DEF Receive, Change, Rest
  <2>2. /\ all \in Seq(Line)
        /\ ToSet(all) \cup ToSet(rest) = ToSet(tl.batch) \cup ToSet(tl.lines)
        /\ Before(ToSet(all), ToSet(rest) \cup later)
    <3>1. /\ all \in Seq(Line)
          /\ ToSet(all) \cup ToSet(rest) = ToSet(tl.batch) \cup ToSet(tl.lines)
          /\ Before(ToSet(all), ToSet(rest) \cup Passing(tl) \cup Copied(tl))
      BY <1>1, <2>1, BatchGood
    <3> HIDE DEF all, rest
    <3>2. QED
      BY <3>1 DEF Before
  <2> HIDE DEF all, rest, full
  <2>3. /\ new.batch = (IF full THEN <<>> ELSE all) /\ new.lines = rest /\ new.done = tl.done
        /\ new.scan = tl.scan /\ new.line = tl.line /\ new.demux = tl.demux
        /\ new.item = tl.item
    BY <1>1 DEF Tailer
  <2> HIDE DEF new
  <2>4. Passing(new) = Passing(tl) /\ Copied(new) = Copied(tl)
    BY <2>3 DEF Passing, Copied
  <2>5. CASE full
    BY <1>2, <1>5, <2>1, <2>2, <2>3, <2>4, <2>5
  <2>6. CASE ~full
    <3>1. OnWay(new) = OnWay(tl)
      BY <2>2, <2>3, <2>4, <2>6 DEF OnWay
    <3>2. QED
      BY <1>2, <2>1, <2>3, <2>6, <3>1, MoveRefines
  <2>7. QED
    BY <2>5, <2>6
<1>7. CASE Timer(t, ok)
  <2> DEFINE new == [tl EXCEPT !.batch = <<>>]
  <2>1. tailer' = [tailer EXCEPT ![t] = new] /\ Flush(t, tl.batch, ok)
    BY <1>7 DEF Timer, Change, Rest
  <2>2. /\ new.batch = <<>> /\ new.lines = tl.lines /\ new.done = tl.done
        /\ new.scan = tl.scan /\ new.line = tl.line /\ new.demux = tl.demux
        /\ new.item = tl.item
    BY <1>1 DEF Tailer
  <2> HIDE DEF new
  <2>3. Passing(new) = Passing(tl) /\ Copied(new) = Copied(tl)
    BY <2>2 DEF Passing, Copied
  <2>4. QED
    BY <1>2, <1>4, <1>5, <2>1, <2>2, <2>3
<1>8. CASE Finish(t, ok)
  <2> DEFINE new == [tl EXCEPT !.batch = <<>>, !.done = TRUE, !.logsClosed = TRUE]
  <2>1. /\ tailer' = [tailer EXCEPT ![t] = new] /\ Flush(t, tl.batch, ok)
        /\ tl.closed /\ tl.lines = <<>>
    BY <1>8 DEF Finish, Change, LastBatch
  <2>2. /\ new.batch = <<>> /\ new.lines = tl.lines
        /\ new.scan = tl.scan /\ new.line = tl.line /\ new.demux = tl.demux
        /\ new.item = tl.item
    BY <1>1 DEF Tailer
  <2> HIDE DEF new
  <2>3. Passing(new) = Passing(tl) /\ Copied(new) = Copied(tl)
    BY <2>2 DEF Passing, Copied
  <2>4. ToSet(tl.lines) \cup later = {}
    <3>1. tl.demux = "done" /\ \A s \in Streams : tl.scan[s] = "done"
      BY <1>1, <2>1 DEF EndsInTurn, FollowsRun
    <3> HIDE DEF tl
    <3>2. QED
      BY <2>1, <3>1, NoLines DEF Passing, Copied
  <2>5. QED
    BY <1>2, <1>4, <1>5, <2>1, <2>2, <2>3, <2>4
<1>9. QED
  BY <1>6, <1>7, <1>8

\* A line the container writes changes no line before it, and so none of a tailer's.
LEMMA WriteRefines ==
    ASSUME FollowInv, NEW s \in Streams, Write(s)
    PROVE  UNCHANGED StoreVars
<1> DEFINE e == [run |-> run, s |-> s]
<1>1. /\ Around /\ log' = Append(log, e) /\ UNCHANGED <<tailer, stored, failed>>
      /\ e \in [run : 1..MaxRuns, s : Streams]
  BY InvIsGood DEF FollowInv, Write, Around
<1> HIDE DEF e
<1>2. \A i \in 1..Len(log) : log'[i] = log[i]
  BY <1>1, AppendProperties DEF Around, LogTyped
<1>3. ASSUME NEW S, S \subseteq 1..Len(log) PROVE Told(S)' = Told(S)
  BY <1>2, <1>3 DEF Told
<1>4. ASSUME NEW t \in Tailers
      PROVE  /\ OnWay(tailer[t]) \subseteq 1..Len(log) /\ failed[t] \subseteq 1..Len(log)
             /\ ToSet(stored[t]) \subseteq 1..Len(log)
  <2>1. \A i \in Placed(tailer[t], stored[t]) \cup failed[t] : i \in 1..Len(log)
    BY <1>1, FollowerKnown, LinesLogged DEF Around
  <2>2. QED
    BY <2>1 DEF Placed
<1>5. Tailers' = Tailers /\ LineState' = LineState
  BY <1>1 DEF Tailers, LineState
<1>6. ASSUME NEW t \in Tailers
      PROVE  /\ Told(OnWay(tailer[t]))' = Told(OnWay(tailer[t]))
             /\ Told(ToSet(stored[t]))' = Told(ToSet(stored[t]))
             /\ Told(failed[t])' = Told(failed[t])
  BY <1>1, <1>2, <1>4 DEF Told, OnWay, Passing, Copied
<1>7. LinesOnWay' = LinesOnWay /\ LinesKept' = LinesKept /\ LinesLost' = LinesLost
  BY <1>5, <1>6 DEF LinesOnWay, LinesKept, LinesLost
<1>8. QED
  BY <1>5, <1>7 DEF StoreVars

\* A tailer is started with nothing on its way.
LEMMA StartRefines ==
    ASSUME FollowInv, NEW from \in Origins, StartTailer(from)
    PROVE  Store!Next
<1> DEFINE n == Len(tailer)
           new == NewTailer(from)
<1>1. /\ Around /\ n < MaxTailers /\ tailer' = Append(tailer, new)
      /\ stored' = Append(stored, <<>>) /\ failed' = Append(failed, {}) /\ log' = log
  BY InvIsGood DEF FollowInv, StartTailer
<1>2. /\ tailer \in Seq(Tailer) /\ stored \in Seq(Seq(Line)) /\ failed \in Seq(SUBSET Line)
      /\ Len(stored) = n /\ Len(failed) = n /\ n \in Nat
  BY DEF FollowInv, TailerInv, LinesExact, TailerTypeOK, Line
<1>3. new \in Tailer /\ OnWay(new) = {} /\ ~new.done
  <2>1. Good(new, <<>>, {})
    BY OriginsLogged, StartGood DEF FollowInv
  <2>2. new.demux = "attach" /\ ~new.done
    BY DEF NewTailer
  <2> HIDE DEF new
  <2>3. /\ ToSet(new.batch) = {} /\ ToSet(new.lines) = {}
        /\ \A s \in Streams : new.scan[s] = "read"
    BY <2>1, <2>2, NothingYet
  <2>4. QED
    BY <2>1, <2>2, <2>3 DEF OnWay, Passing, Copied, Good
<1> HIDE DEF new
<1>4. /\ Len(tailer') = n + 1 /\ tailer'[n + 1] = new
      /\ \A t \in 1..n : tailer'[t] = tailer[t]
  BY <1>1, <1>2, <1>3, AppendProperties
<1>5. /\ stored'[n + 1] = <<>> /\ \A t \in 1..n : stored'[t] = stored[t]
  BY <1>1, <1>2, EmptySeq, AppendProperties
<1>6. /\ failed'[n + 1] = {} /\ \A t \in 1..n : failed'[t] = failed[t]
  BY <1>1, <1>2, AppendProperties
<1> DEFINE m == n + 1
<1>7. /\ Tailers = 1..n /\ Tailers' = 1..m /\ m \in 1..MaxTailers /\ m \notin 1..n
      /\ \A t \in 1..MaxTailers : t \in 1..m <=> t \in 1..n \/ t = m
  BY <1>1, <1>2, <1>4, TailerAssumption DEF Tailers
<1> HIDE DEF n, m
<1>8. tailer'[m] = new /\ stored'[m] = <<>> /\ failed'[m] = {}
  BY <1>4, <1>5, <1>6 DEF m
<1>9. Told({}) = {} /\ ToSet(<<>>) = {}
  BY ToldNone, NoLines
<1>10. LineState[m] = "none" /\ LineState' = [LineState EXCEPT ![m] = "open"]
  BY <1>3, <1>4, <1>7, <1>8 DEF LineState
<1>11. ASSUME NEW t \in 1..MaxTailers
       PROVE  /\ Told(OnWay(tailer[t]))' = Told(OnWay(tailer'[t]))
              /\ Told(ToSet(stored[t]))' = Told(ToSet(stored'[t]))
              /\ Told(failed[t])' = Told(failed'[t])
  BY <1>1 DEF Told, OnWay, Passing, Copied
<1>12. ASSUME NEW t \in 1..MaxTailers
       PROVE  /\ LinesOnWay'[t] = LinesOnWay[t] /\ LinesKept'[t] = LinesKept[t]
              /\ LinesLost'[t] = LinesLost[t]
  <2>1. CASE t \in 1..n
    BY <1>4, <1>5, <1>6, <1>7, <1>11, <2>1 DEF LinesOnWay, LinesKept, LinesLost
  <2>2. CASE t = m
    BY <1>3, <1>7, <1>8, <1>9, <1>11, <2>2 DEF LinesOnWay, LinesKept, LinesLost
  <2>3. CASE t \notin 1..m
    BY <1>7, <2>3 DEF LinesOnWay, LinesKept, LinesLost
  <2>4. QED
    BY <1>7, <2>1, <2>2, <2>3
<1>13. LinesOnWay' = LinesOnWay /\ LinesKept' = LinesKept /\ LinesLost' = LinesLost
  BY <1>12 DEF LinesOnWay, LinesKept, LinesLost
<1>14. Store!Begin(m)
  BY <1>10, <1>13 DEF Store!Begin
<1>15. QED
  BY <1>7, <1>14 DEF Store!Next

\* The steps of Sync and Stop besides: a tailer is cancelled, or nothing is done.
LEMMA SyncRefines ==
    ASSUME FollowInv, UNCHANGED <<log, stored, failed>>,
           \/ UNCHANGED tailer
           \/ entry # 0 /\ tailer' = Cancelled(entry)
    PROVE  UNCHANGED StoreVars
<1>1. Around
  BY InvIsGood DEF FollowInv
<1>2. /\ Tailers' = Tailers
      /\ \A t \in Tailers :
            /\ tailer'[t].done = tailer[t].done /\ tailer'[t].batch = tailer[t].batch
            /\ tailer'[t].lines = tailer[t].lines /\ tailer'[t].scan = tailer[t].scan
            /\ tailer'[t].line = tailer[t].line /\ tailer'[t].demux = tailer[t].demux
            /\ tailer'[t].item = tailer[t].item
  <2>1. CASE UNCHANGED tailer
    BY <2>1 DEF Tailers
  <2>2. CASE entry # 0 /\ tailer' = Cancelled(entry)
    <3>1. entry \in Tailers /\ tailer[entry] \in Tailer
      BY <1>1, <2>2, FollowerKnown DEF Around, Tailers
    <3>2. tailer' = [tailer EXCEPT ![entry] = [tailer[entry] EXCEPT !.cancelled = TRUE]]
      BY <1>1, <2>2, <3>1 DEF Cancelled
    <3> DEFINE new == [tailer[entry] EXCEPT !.cancelled = TRUE]
    <3>3. /\ new.done = tailer[entry].done /\ new.batch = tailer[entry].batch
          /\ new.lines = tailer[entry].lines /\ new.scan = tailer[entry].scan
          /\ new.line = tailer[entry].line /\ new.demux = tailer[entry].demux
          /\ new.item = tailer[entry].item
      BY <3>1 DEF Tailer
    <3> HIDE DEF new
    <3>4. /\ Tailers' = Tailers /\ tailer'[entry] = new
          /\ \A t \in Tailers \ {entry} : tailer'[t] = tailer[t]
      BY <1>1, <3>1, <3>2 DEF Around, Tailers, new
    <3>5. QED
      BY <3>3, <3>4
  <2>3. QED
    BY <2>1, <2>2
<1>3. LineState' = LineState
  BY <1>2 DEF LineState
<1>4. ASSUME NEW t \in Tailers PROVE Told(OnWay(tailer[t]))' = Told(OnWay(tailer[t]))
  BY <1>2 DEF Told, OnWay, Passing, Copied
<1>5. LinesOnWay' = LinesOnWay
  BY <1>2, <1>4 DEF LinesOnWay
<1>6. LinesKept' = LinesKept /\ LinesLost' = LinesLost
  BY <1>2 DEF LinesKept, LinesLost, Told
<1>7. QED
  BY <1>3, <1>5, <1>6 DEF StoreVars

LEMMA StoreRefines == FollowInv /\ [TailerNext]_tailerVars => [Store!Next]_StoreVars
<1> SUFFICES ASSUME FollowInv, [TailerNext]_tailerVars PROVE Store!Next \/ UNCHANGED StoreVars
  OBVIOUS
<1>1. ASSUME NEW t \in Tailers, Pipeline(t) PROVE Store!Next \/ UNCHANGED StoreVars
  <2>1. ASSUME NEW ok \in Answers, Receive(t, ok) \/ Timer(t, ok) \/ Finish(t, ok)
        PROVE  Store!Next \/ UNCHANGED StoreVars
    <3>1. ok \in BOOLEAN
      BY DEF Answers
    <3>2. QED
      BY <2>1, <3>1, LoopRefines
  <2>2. ASSUME NEW s \in Streams, Scanner(t, s) PROVE UNCHANGED StoreVars
    BY <2>2, ScanRefines DEF Scanner
  <2>3. CASE Copy(t)
    BY <2>3, CopyRefines
  <2>4. CASE Attach(t) \/ AttachFails(t) \/ CloseLogs(t) \/ \E err \in BOOLEAN : EndCopy(t, err)
    BY <2>4, StreamRefines
  <2>5. CASE Scan(t) \/ CloseLines(t)
    BY <2>5, ScanRefines
  <2>6. QED
    BY <1>1, <2>1, <2>2, <2>3, <2>4, <2>5 DEF Pipeline, Batching, Demux
<1>2. ASSUME NEW s \in Streams, Write(s) PROVE UNCHANGED StoreVars
  BY <1>2, WriteRefines
<1>3. ASSUME NEW from \in Origins, StartTailer(from) PROVE Store!Next
  BY <1>3, StartRefines
<1>4. CASE StopTailer \/ BeginStop
  BY <1>4, SyncRefines DEF StopTailer, BeginStop
<1>5. CASE \/ Exit \/ Start \/ SetTracking \/ CollectContainers \/ KeepTailer \/ Stopped
           \/ UNCHANGED tailerVars
  BY <1>5, SyncRefines
     DEF Exit, Start, SetTracking, CollectContainers, KeepTailer, Stopped, tailerVars
<1>6. CASE StreamBreaks
  BY <1>6, StreamRefines DEF StreamBreaks
<1>7. QED
  BY <1>1, <1>2, <1>3, <1>4, <1>5, <1>6 DEF TailerNext, Work, Container, Sync

LEMMA StoreInit == TailerInit => Store!Init
<1> SUFFICES ASSUME TailerInit PROVE Store!Init
  OBVIOUS
<1>1. Tailers = {}
  BY DEF TailerInit, Tailers
<1>2. QED
  BY <1>1 DEF Store!Init, LineState, LinesOnWay, LinesKept, LinesLost

\* The pipeline of a tailer, with its pipes, scanners, channel and batches, is to the
\* store one ordered set of lines of which batches leave from the front: LogTailer
\* implements LineStore.
THEOREM TailersImplementStore == TailerSpec => StoreSpec
<1>1. FollowInv /\ [TailerNext]_tailerVars =>
          [Store!Next]_<<LineState, LinesOnWay, LinesKept, LinesLost>>
  BY StoreRefines DEF StoreVars
<1>2. QED
  BY <1>1, StoreInit, FollowersInvariant, PTL DEF TailerSpec, StoreSpec, Store!Spec
=============================================================================
