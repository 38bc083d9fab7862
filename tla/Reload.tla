------------------------------- MODULE Reload -------------------------------
(***************************************************************************)
(* The agent's main loop (Run, Reload, applyConfig and shutdown in         *)
(* agent.go) against the goroutines that use the alerter through their own *)
(* pointer: the event watcher (events.go) and the socket handlers          *)
(* (socket.go).  A reload builds a new alerter with its own notifier,      *)
(* retires the old one with ResolveAll and Stop, and only then replaces    *)
(* the three pointers, one by one.                                         *)
(*                                                                         *)
(* An alerter is its generation, 0 is nil.  Of an alerter the module keeps *)
(* the keys that fire (each with its open row: modules Alerter and         *)
(* AlertLedger) and whether its notifier's queue is closed (module         *)
(* Notifier); an evaluation under a.mu is one step.                        *)
(***************************************************************************)
EXTENDS Integers, FiniteSets

CONSTANTS
    Keys,           \* instance keys
    SockHandlers,   \* connections of the socket server
    EventHandler,   \* the event watcher's goroutine
    MaxGen          \* bound: alerters created in one behaviour

ASSUME ReloadAssumption ==
    MaxGen \in Nat \ {0} /\ EventHandler \notin SockHandlers

VARIABLES
    reload,         \* the channel a.reload, of capacity one
    pc,             \* where the main goroutine is
    next,           \* the alerter applyConfig is about to install
    gen,            \* alerters created so far
    cur,            \* a.alerter
    ptr,            \* ew.alerter and ss.alerter
    handler,        \* the goroutines that read ptr, with what they read
    firing,         \* the keys each alerter holds as firing
    closed,         \* alerters whose notifier queue is closed
    panicked,       \* the alerter whose closed queue a goroutine sent on, or 0
    stuck           \* a log tailer waits for a scanner that has given up

vars == <<reload, pc, next, gen, cur, ptr, handler, firing, closed, panicked, stuck>>

-----------------------------------------------------------------------------
Gens == 1..MaxGen
Handlers == SockHandlers \cup {EventHandler}
Users == {"events", "socket"}
User(h) == IF h = EventHandler THEN "events" ELSE "socket"
Configs == {"alerts", "none", "invalid"}

ReloadPcs == {"resolve", "stop", "install", "socket", "events"}
ShutdownPcs == {"waitEvents", "stopSocket", "stopLogs", "stopAlerter", "down"}
Idle == [pc |-> "idle", g |-> 0]

Running == panicked = 0

-----------------------------------------------------------------------------
(* The main goroutine *)

\* Reload, from any goroutine: a second one is dropped while one is pending.
RequestReload(c) ==
    /\ Running /\ pc # "down" /\ reload = "empty"
    /\ reload' = c
    /\ UNCHANGED <<pc, next, gen, cur, ptr, handler, firing, closed, panicked, stuck>>

\* if a.alerter != nil
Retire == IF cur = 0 THEN "install" ELSE "resolve"

\* applyConfig up to ResolveAll: the new alerter exists, nobody knows it.  With
\* an alerter that cannot be built the old one stays.
BeginApply ==
    /\ Running /\ pc = "loop" /\ reload # "empty"
    /\ reload' = "empty"
    /\ \/ /\ reload = "alerts" /\ gen < MaxGen
          /\ gen' = gen + 1 /\ next' = gen + 1
          /\ pc' = Retire
       \/ /\ reload = "none"
          /\ next' = 0
          /\ pc' = Retire
          /\ UNCHANGED gen
       \/ /\ reload = "invalid"
          /\ UNCHANGED <<gen, next, pc, stuck>>
    /\ UNCHANGED <<cur, ptr, handler, firing, closed, panicked, stuck>>

\* a.alerter.ResolveAll(ctx)
ResolveAll ==
    /\ Running /\ pc = "resolve"
    /\ firing' = [firing EXCEPT ![cur] = {}]
    /\ pc' = "stop"
    /\ UNCHANGED <<reload, next, gen, cur, ptr, handler, closed, panicked, stuck>>

\* a.alerter.Stop() closes the queue; it returns once the worker has drained it.
StopOld ==
    /\ Running /\ pc = "stop"
    /\ closed' = closed \cup {cur}
    /\ pc' = "install"
    /\ UNCHANGED <<reload, next, gen, cur, ptr, handler, firing, panicked, stuck>>

\* a.alerter = alerter
Install ==
    /\ Running /\ pc = "install"
    /\ cur' = next /\ pc' = "socket"
    /\ UNCHANGED <<reload, next, gen, ptr, handler, firing, closed, panicked, stuck>>

\* Mutant: one of the two holders keeps the old alerter.
MutantSetAlerter(u) == ptr

\* The pointers after SetAlerter of one holder.
SetAlerter(u) == [ptr EXCEPT ![u] = next]

\* a.socket.SetAlerter, then a.events.SetAlerter
Publish ==
    /\ Running /\ pc \in {"socket", "events"}
    /\ ptr' = SetAlerter(pc)
    /\ pc' = IF pc = "socket" THEN "events" ELSE "loop"
    /\ UNCHANGED <<reload, next, gen, cur, handler, firing, closed, panicked, stuck>>

\* collect: Evaluate may fire and resolve any key, and hands its notifications to
\* the notifier before the loop goes on.
Collect ==
    /\ Running /\ pc = "loop" /\ cur # 0
    /\ \E ks \in SUBSET Keys : firing' = [firing EXCEPT ![cur] = ks]
    /\ UNCHANGED <<reload, pc, next, gen, cur, ptr, handler, closed, panicked, stuck>>

\* ctx.Done(): Run enters shutdown.
BeginShutdown ==
    /\ Running /\ pc = "loop"
    /\ pc' = "waitEvents"
    /\ UNCHANGED <<reload, next, gen, cur, ptr, handler, firing, closed, panicked, stuck>>

\* Mutant: shutdown does not wait for the socket handlers.
MutantAllExited(u) == u = "socket" \/ \A h \in Handlers : User(h) = u => handler[h].pc = "exited"

AllExited(u) == \A h \in Handlers : User(h) = u => handler[h].pc = "exited"

\* events.Wait, socket.Stop, logs.Stop, alerter.Stop: each step waits for its
\* goroutines, and one of logs.Stop's may never end.
Shutdown ==
    /\ Running
    /\ \/ /\ pc = "waitEvents" /\ AllExited("events")
          /\ pc' = "stopSocket"
          /\ UNCHANGED closed
       \/ /\ pc = "stopSocket" /\ AllExited("socket")
          /\ pc' = "stopLogs"
          /\ UNCHANGED closed
       \/ /\ pc = "stopLogs" /\ ~stuck
          /\ pc' = "stopAlerter"
          /\ UNCHANGED closed
       \/ /\ pc = "stopAlerter"
          /\ closed' = closed \cup ({cur} \ {0})
          /\ pc' = "down"
    /\ UNCHANGED <<reload, next, gen, cur, ptr, handler, firing, panicked, stuck>>

\* A line of more than 64 KB ends its scanner, and the tailer's demultiplexer waits in
\* a pipe nobody reads (module LogTailer): at any time while tailers run.
TailerSticks ==
    /\ Running /\ pc \notin {"stopAlerter", "down"}
    /\ stuck' = TRUE
    /\ UNCHANGED <<reload, pc, next, gen, cur, ptr, handler, firing, closed, panicked>>

-----------------------------------------------------------------------------
(* The event watcher and the socket handlers *)

\* Read the pointer under its lock; nil ends the handling.
ReadPointer(h) ==
    /\ Running /\ handler[h].pc = "idle" /\ ptr[User(h)] # 0
    /\ handler' = [handler EXCEPT ![h] =
                     [pc |-> IF h = EventHandler THEN "evaluate" ELSE "send",
                      g |-> ptr[User(h)]]]
    /\ UNCHANGED <<reload, pc, next, gen, cur, ptr, firing, closed, panicked, stuck>>

\* EvaluateContainerEvent on the alerter read before: one of its keys fires, with
\* or without a notification, or resolves, or nothing happens.
EvaluateEvent ==
    LET h == EventHandler
        g == handler[h].g
    IN  /\ Running /\ handler[h].pc = "evaluate"
        /\ \/ \E k \in Keys \ firing[g], notify \in BOOLEAN :
                 /\ firing' = [firing EXCEPT ![g] = @ \cup {k}]
                 /\ handler' = [handler EXCEPT ![h] =
                                  IF notify THEN [@ EXCEPT !.pc = "send"] ELSE Idle]
           \/ \E k \in firing[g] \cup {0} :
                 /\ firing' = [firing EXCEPT ![g] = @ \ {k}]
                 /\ handler' = [handler EXCEPT ![h] = Idle]
        /\ UNCHANGED <<reload, pc, next, gen, cur, ptr, closed, panicked, stuck>>

\* runDeferred of the event, or SendTestNotification: send on the queue of the
\* alerter read before.  A closed queue panics.
SendAlert(h) ==
    /\ Running /\ handler[h].pc = "send"
    /\ panicked' = IF handler[h].g \in closed THEN handler[h].g ELSE 0
    /\ handler' = [handler EXCEPT ![h] = Idle]
    /\ UNCHANGED <<reload, pc, next, gen, cur, ptr, firing, closed, stuck>>

\* Mutant: the watcher waits for the socket server to be stopped first.
MutantToldToLeave(h) == pc \in ShutdownPcs \ {"waitEvents"}

\* The watcher is told by ctx, a connection by socket.Stop.
ToldToLeave(h) ==
    pc \in IF h = EventHandler THEN ShutdownPcs ELSE ShutdownPcs \ {"waitEvents"}

HandlerExit(h) ==
    /\ Running /\ handler[h].pc = "idle" /\ ToldToLeave(h)
    /\ handler' = [handler EXCEPT ![h] = [pc |-> "exited", g |-> 0]]
    /\ UNCHANGED <<reload, pc, next, gen, cur, ptr, firing, closed, panicked, stuck>>

-----------------------------------------------------------------------------
\* New has built the first alerter, if the config has rules.
Init ==
    /\ reload = "empty" /\ pc = "loop" /\ next = 0
    /\ gen \in {0, 1} /\ cur = gen
    /\ ptr = [u \in Users |-> gen]
    /\ handler = [h \in Handlers |-> Idle]
    /\ firing = [g \in Gens |-> {}]
    /\ closed = {} /\ panicked = 0 /\ stuck = FALSE

Main == BeginApply \/ ResolveAll \/ StopOld \/ Install \/ Publish \/ Shutdown

Next ==
    \/ \E c \in Configs : RequestReload(c)
    \/ Main \/ Collect \/ BeginShutdown \/ TailerSticks
    \/ EvaluateEvent
    \/ \E h \in Handlers : ReadPointer(h) \/ SendAlert(h) \/ HandlerExit(h)

\* The main goroutine goes on (its select is fair between the ticker and the
\* reload channel), a handler finishes what it has begun, and leaves when told to
\* (the select of the watcher, and the closed connection, win in the end).
Fairness ==
    /\ WF_vars(Main)
    /\ WF_vars(EvaluateEvent)
    /\ \A h \in Handlers : WF_vars(SendAlert(h)) /\ SF_vars(HandlerExit(h))

Spec == Init /\ [][Next]_vars
FairSpec == Spec /\ Fairness

-----------------------------------------------------------------------------
(* Properties *)

\* Every variable has its type.
TypeOK ==
    /\ reload \in Configs \cup {"empty"}
    /\ pc \in {"loop"} \cup ReloadPcs \cup ShutdownPcs
    /\ next \in 0..MaxGen /\ gen \in 0..MaxGen /\ cur \in 0..MaxGen
    /\ ptr \in [Users -> 0..MaxGen]
    /\ handler \in [Handlers -> [pc : {"idle", "evaluate", "send", "exited"},
                                 g : 0..MaxGen]]
    /\ firing \in [Gens -> SUBSET Keys]
    /\ closed \subseteq Gens
    /\ panicked \in 0..MaxGen /\ stuck \in BOOLEAN

\* A reload has replaced alerter g everywhere and its last user has finished.
Replaced(g) ==
    /\ g \in closed \ {cur} /\ pc \notin {"socket", "events"}
    /\ \A h \in Handlers : handler[h].g # g

\* A step that leaves the replaced alerters and their pointers alone.
LeftAlone ==
    \A g \in Gens : Replaced(g) =>
        firing'[g] = firing[g] /\ \A h \in Handlers : handler'[h].g # g

\* Once a reload is over and the handlers that had read the old pointer are done,
\* nobody gets hold of the old alerter again and what it holds never changes:
\* no handler, however it is interleaved with later reloads, uses it.
RetiredIsIdle == [][LeftAlone]_vars

\* shutdown stops the notifier after the last goroutine that can send: a panic on
\* a closed queue is always the work of a reload, on the alerter it retires.
PanicOnlyInReload == panicked # 0 => panicked # cur \/ pc \in ReloadPcs

\* What makes the two inductive.  A notifier is closed only after its alerter is no
\* longer current, or in the window of a reload between Stop and the assignment, or
\* when shutdown has ended; a pointer differs from a.alerter only between the
\* assignment and its SetAlerter; shutdown has waited for its goroutines.
ClosedCurrent == cur \in closed => pc \in {"install", "down"}
Pointers ==
    /\ pc \notin {"socket", "events"} => \A u \in Users : ptr[u] = cur
    /\ pc = "events" => ptr["socket"] = cur /\ cur = next
    /\ pc = "socket" => cur = next
NextIsFresh ==
    /\ pc \in ReloadPcs => next \notin closed
    /\ closed \subseteq 1..gen
    /\ pc \in {"resolve", "stop"} => cur # 0 /\ cur # next
    /\ cur <= gen /\ next <= gen
Waited ==
    /\ pc \in ShutdownPcs \ {"waitEvents"} => handler[EventHandler].pc = "exited"
    /\ pc \in {"stopLogs", "stopAlerter", "down"} => \A h \in SockHandlers : handler[h].pc = "exited"
IInv ==
    /\ TypeOK /\ ClosedCurrent /\ Pointers /\ NextIsFresh /\ Waited
    /\ PanicOnlyInReload

\* A reload in progress ends and a shutdown that has begun ends, unless a panic ends
\* the process first.  One thing more keeps a shutdown from its end: a log tailer that
\* met a line too long to scan, for which logs.Stop waits with the event watcher and
\* the socket server already gone and the notifier never stopped.
MainEnds ==
    /\ pc \in ShutdownPcs ~> (pc = "down" \/ panicked # 0 \/ (pc = "stopLogs" /\ stuck))
    /\ pc \in ReloadPcs ~> (pc = "loop" \/ panicked # 0)
=============================================================================
