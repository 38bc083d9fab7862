----------------------------- MODULE LogTailer ------------------------------
(***************************************************************************)
(* Log collection (internal/agent/logs.go): Sync, run by the collect loop, *)
(* starts a tailer for a running container that has no entry in lt.tailers *)
(* and cancels the tailer of one that no longer runs; a tailer is a        *)
(* pipeline of goroutines (demultiplexer, two synchronous pipes, two line  *)
(* scanners, the lines channel, the batching loop) that ends when its      *)
(* stream ends; Stop cancels every tailer and waits for all of them.       *)
(*                                                                         *)
(* One container: tailers of different containers share nothing but the    *)
(* wait group.  Docker is external: a follow stream delivers the lines of  *)
(* the container's current run and ends when that run has ended, or        *)
(* breaks.  A line is its number; Long are the lines that exceed the 64 KB *)
(* of the scanner.                                                         *)
(***************************************************************************)
EXTENDS Integers, Sequences, FiniteSets, SequencesExt

CONSTANTS
    MaxLines,       \* bound: lines the container writes
    Long,           \* numbers of the lines that are too long to scan
    MaxRuns,        \* bound: times the container is started
    MaxTailers,     \* bound: tailers started
    BatchSize,      \* logBatchSize, 500 in the code
    ChanSize,       \* capacity of the lines channel, also logBatchSize
    Faults          \* what may happen besides: a subset of AllFaults

\* InsertLogs fails, ContainerLogs fails, the stream it returned breaks, the inspect
\* that tells the start fails, a client toggles the container's tracking.
AllFaults == {"store", "attach", "stream", "inspect", "untrack"}

ASSUME TailerAssumption ==
    /\ MaxLines \in Nat /\ Long \subseteq 1..MaxLines
    /\ MaxRuns \in Nat \ {0} /\ MaxTailers \in Nat \ {0}
    /\ BatchSize \in Nat \ {0} /\ ChanSize \in Nat \ {0}
    /\ Faults \subseteq AllFaults

VARIABLES
    log,            \* what the container has written: run and stream of each line
    run,            \* number of the container's current or last run
    running,        \* does it run now?
    tracked,        \* is it tracked?  (only tracked containers reach Sync)
    seen,           \* what Collect found, for the Sync that follows; "none" before
    tailer,         \* the tailers started so far
    entry,          \* lt.tailers: the tailer with an entry, or 0
    main,           \* the collect loop: collecting, stopping, stopped
    stored,         \* lines inserted by each tailer, in order
    failed          \* lines each tailer lost to a failed insert

tailerVars == <<log, run, running, tracked, seen, tailer, entry, main, stored, failed>>

-----------------------------------------------------------------------------
Streams == {"stdout", "stderr"}
Tailers == 1..Len(tailer)

\* go lt.tail(...): a tailer that is to ask for the lines since line from, or, when
\* from is 0, for the lines still to come.
NewTailer(from) ==
    [run |-> 0, from |-> from, pos |-> 0,       \* run it follows, next line
     demux |-> "attach", item |-> 0,            \* StdCopy, and the line it writes
     broken |-> FALSE,                          \* history: it met a read error
     scan |-> [s \in Streams |-> "read"],
     line |-> [s \in Streams |-> 0],            \* the line a scanner passes on
     lines |-> <<>>, closed |-> FALSE,          \* the lines channel
     batch |-> <<>>, done |-> FALSE,            \* the batching loop
     cancelled |-> FALSE, logsClosed |-> FALSE]

\* The lines at which the container's runs start.
RunStarts == {Cardinality({i \in 1..Len(log) : log[i].run < n}) + 1 : n \in 1..run}

\* Where a tailer may start: StartedAt comes from an inspect result that is up to
\* inspectCacheTTL old, so it may be the start of an earlier run; it is 0, and only
\* new lines are asked for, when the inspect failed.
Origins == RunStarts \cup (IF "inspect" \in Faults THEN {0} ELSE {})

-----------------------------------------------------------------------------
(* The container (external) *)

Write(s) ==
    /\ running /\ Len(log) < MaxLines
    /\ log' = Append(log, [run |-> run, s |-> s])
    /\ UNCHANGED <<run, running, tracked, seen, tailer, entry, main, stored, failed>>

Exit ==
    /\ running /\ running' = FALSE
    /\ UNCHANGED <<log, run, tracked, seen, tailer, entry, main, stored, failed>>

Start ==
    /\ ~running /\ run < MaxRuns
    /\ running' = TRUE /\ run' = run + 1
    /\ UNCHANGED <<log, tracked, seen, tailer, entry, main, stored, failed>>

-----------------------------------------------------------------------------
(* Collect, Sync and Stop *)

\* A client's set-tracking request.
SetTracking ==
    /\ main = "collect" /\ "untrack" \in Faults
    /\ tracked' = ~tracked
    /\ UNCHANGED <<log, run, running, seen, tailer, entry, main, stored, failed>>

\* Collect lists the container.  (When it fails Sync is not called.)
CollectContainers ==
    /\ main = "collect" /\ seen = "none"
    /\ seen' = IF running /\ tracked THEN "active" ELSE "inactive"
    /\ UNCHANGED <<log, run, running, tracked, tailer, entry, main, stored, failed>>

\* Sync: a running container without an entry gets a tailer.
StartTailer(from) ==
    /\ seen = "active" /\ entry = 0 /\ seen' = "none"
    /\ Len(tailer) < MaxTailers
    /\ tailer' = Append(tailer, NewTailer(from))
    /\ entry' = Len(tailer) + 1
    /\ stored' = Append(stored, <<>>) /\ failed' = Append(failed, {})
    /\ UNCHANGED <<log, run, running, tracked, main>>

\* Mutant: the entry is forgotten and the tailer goes on.
MutantCancelled(t) == tailer

\* cancel() of tailer t.
Cancelled(t) == [tailer EXCEPT ![t].cancelled = TRUE]

\* Sync: the container no longer runs, or is no longer tracked: cancel and forget.
StopTailer ==
    /\ seen = "inactive" /\ entry # 0 /\ seen' = "none"
    /\ tailer' = Cancelled(entry)
    /\ entry' = 0
    /\ UNCHANGED <<log, run, running, tracked, main, stored, failed>>

\* Sync: an entry exists exactly when the container is active, whatever has become
\* of the tailer behind it.
KeepTailer ==
    /\ \/ seen = "active" /\ entry # 0
       \/ seen = "inactive" /\ entry = 0
    /\ seen' = "none"
    /\ UNCHANGED <<log, run, running, tracked, tailer, entry, main, stored, failed>>

\* The agent's context is cancelled (a collect under way ends), and Stop cancels
\* whatever has an entry, then waits.
BeginStop ==
    /\ main = "collect" /\ main' = "stopping" /\ seen' = "none"
    /\ tailer' = IF entry = 0 THEN tailer ELSE Cancelled(entry)
    /\ entry' = 0
    /\ UNCHANGED <<log, run, running, tracked, stored, failed>>

\* lt.wg.Wait() returns.
Stopped ==
    /\ main = "stopping" /\ \A t \in Tailers : tailer[t].done
    /\ main' = "stopped"
    /\ UNCHANGED <<log, run, running, tracked, seen, tailer, entry, stored, failed>>

-----------------------------------------------------------------------------
(* The goroutines of tailer t *)

\* The tailer, and what it has stored, are all a step of its goroutines changes.
OnlyTailer == UNCHANGED <<log, run, running, tracked, seen, entry, main>>
Change(t, new) == tailer' = [tailer EXCEPT ![t] = new] /\ OnlyTailer

\* ContainerLogs answers: the stream follows the container's present run.
Attach(t) ==
    /\ tailer[t].demux = "attach" /\ ~tailer[t].cancelled
    /\ LET first == IF tailer[t].from = 0 THEN Len(log) + 1 ELSE tailer[t].from
       IN  Change(t, [tailer[t] EXCEPT !.demux = "copy", !.run = run,
                                       !.from = first, !.pos = first])
    /\ UNCHANGED <<stored, failed>>

\* ContainerLogs fails, as it does when the context is cancelled: the goroutine
\* returns and has nothing to flush.  The entry of lt.tailers stays.
AttachFails(t) ==
    /\ tailer[t].demux = "attach"
    /\ tailer[t].cancelled \/ "attach" \in Faults
    /\ Change(t, [tailer[t] EXCEPT !.demux = "done", !.closed = TRUE, !.done = TRUE,
                                   !.scan = [s \in Streams |-> "done"],
                                   !.from = 1, !.pos = 1, !.logsClosed = TRUE])
    /\ UNCHANGED <<stored, failed>>

\* Mutant: nobody closes the stream when the context is cancelled.
MutantCloseLogs(t) == FALSE /\ UNCHANGED tailerVars

\* The goroutine that waits for ctx closes the log stream.
CloseLogs(t) ==
    /\ tailer[t].cancelled /\ ~tailer[t].logsClosed /\ tailer[t].demux # "attach"
    /\ Change(t, [tailer[t] EXCEPT !.logsClosed = TRUE])
    /\ UNCHANGED <<stored, failed>>

\* The stream has another line, of the run it follows or of an earlier one.
HasLine(t) == tailer[t].pos <= Len(log) /\ log[tailer[t].pos].run <= tailer[t].run

\* StdCopy takes a line from the stream and starts to write it to its pipe.
Copy(t) ==
    /\ tailer[t].demux = "copy" /\ HasLine(t)
    /\ Change(t, [tailer[t] EXCEPT !.demux = "write", !.item = tailer[t].pos, !.pos = @ + 1])
    /\ UNCHANGED <<stored, failed>>

\* Mutant: the stream is not followed, and ends with the lines there are.
MutantEndCopy(t, err) ==
    /\ tailer[t].demux = "copy" /\ (tailer[t].logsClosed \/ ~HasLine(t)) /\ ~err
    /\ Change(t, [tailer[t] EXCEPT !.demux = "done"])
    /\ UNCHANGED <<stored, failed>>

\* StdCopy returns, because the run is over, the stream was closed, or it broke while
\* the container goes on: nobody looks at the error.  Both pipes are closed.
EndCopy(t, err) ==
    /\ tailer[t].demux = "copy"
    /\ IF err THEN "stream" \in Faults
       ELSE \/ tailer[t].logsClosed
            \/ ~HasLine(t) /\ (run # tailer[t].run \/ ~running)
    /\ Change(t, [tailer[t] EXCEPT !.demux = "done", !.broken = err])
    /\ UNCHANGED <<stored, failed>>

\* The scanner of the line's stream reads it.  A line that is too long ends the
\* scanner, and nobody reads the rest: the write to the pipe never returns.
Scan(t) ==
    LET s == log[tailer[t].item].s
    IN  /\ tailer[t].demux = "write" /\ tailer[t].scan[s] = "read"
        /\ Change(t, IF tailer[t].item \in Long
                     THEN [tailer[t] EXCEPT !.scan[s] = "done"]
                     ELSE [tailer[t] EXCEPT !.scan[s] = "put", !.line[s] = tailer[t].item,
                                            !.demux = "copy"])
        /\ UNCHANGED <<stored, failed>>

\* The pipe is closed: the scanner ends.
EndScan(t, s) ==
    /\ tailer[t].demux = "done" /\ tailer[t].scan[s] = "read"
    /\ Change(t, [tailer[t] EXCEPT !.scan[s] = "done"])
    /\ UNCHANGED <<stored, failed>>

\* Mutant: a line that finds the channel full is dropped.
MutantPut(t, s) ==
    /\ tailer[t].scan[s] = "put"
    /\ Change(t, [tailer[t] EXCEPT
                     !.lines = IF Len(@) < ChanSize THEN Append(@, tailer[t].line[s]) ELSE @,
                     !.scan[s] = "read"])
    /\ UNCHANGED <<stored, failed>>

\* out <- LogEntry
Put(t, s) ==
    /\ tailer[t].scan[s] = "put" /\ Len(tailer[t].lines) < ChanSize
    /\ Change(t, [tailer[t] EXCEPT !.lines = Append(@, tailer[t].line[s]),
                                   !.scan[s] = "read"])
    /\ UNCHANGED <<stored, failed>>

\* readerWg.Wait(); close(lines)
CloseLines(t) ==
    /\ ~tailer[t].closed /\ \A s \in Streams : tailer[t].scan[s] = "done"
    /\ Change(t, [tailer[t] EXCEPT !.closed = TRUE])
    /\ UNCHANGED <<stored, failed>>

\* Mutant: a batch the store refused is kept.
MutantRest(ok, batch) == IF ok THEN <<>> ELSE batch

\* batch[:0], whatever InsertLogs answered.
Rest(ok, batch) == <<>>

\* flush: one transaction for the whole batch.
Flush(t, batch, ok) ==
    /\ stored' = IF ok THEN [stored EXCEPT ![t] = @ \o batch] ELSE stored
    /\ failed' = IF ok THEN failed ELSE [failed EXCEPT ![t] = @ \cup ToSet(batch)]

Answers == IF "store" \in Faults THEN BOOLEAN ELSE {TRUE}

\* The batching loop takes a line, publishes it, and flushes a full batch.
Receive(t, ok) ==
    LET batch == Append(tailer[t].batch, Head(tailer[t].lines))
        full == Len(batch) >= BatchSize
    IN  /\ ~tailer[t].done /\ tailer[t].lines # <<>>
        /\ IF full THEN Flush(t, batch, ok) ELSE UNCHANGED <<stored, failed>>
        /\ Change(t, [tailer[t] EXCEPT !.lines = Tail(@),
                                       !.batch = IF full THEN Rest(ok, batch) ELSE batch])

\* The flush timer fires.
Timer(t, ok) ==
    /\ ~tailer[t].done /\ tailer[t].batch # <<>>
    /\ Flush(t, tailer[t].batch, ok)
    /\ Change(t, [tailer[t] EXCEPT !.batch = Rest(ok, @)])

\* Mutant: the last batch is not flushed.
MutantLastBatch(t) == <<>>

LastBatch(t) == tailer[t].batch

\* The channel is closed and empty: flush and return.
Finish(t, ok) ==
    /\ ~tailer[t].done /\ tailer[t].closed /\ tailer[t].lines = <<>>
    /\ Flush(t, LastBatch(t), ok)
    /\ Change(t, [tailer[t] EXCEPT !.batch = <<>>, !.done = TRUE, !.logsClosed = TRUE])

-----------------------------------------------------------------------------
TailerInit ==
    /\ log = <<>> /\ run = 1 /\ running = TRUE /\ tracked = TRUE /\ seen = "none"
    /\ tailer = <<>> /\ entry = 0 /\ main = "collect"
    /\ stored = <<>> /\ failed = <<>>

Container == Exit \/ Start \/ \E s \in Streams : Write(s)

Sync == KeepTailer \/ StopTailer \/ \E from \in Origins : StartTailer(from)

\* The steps of each of a tailer's goroutines.
Demux(t) == Copy(t) \/ EndCopy(t, FALSE)
Scanner(t, s) == EndScan(t, s) \/ Put(t, s)
Batching(t) == \E ok \in Answers : Receive(t, ok) \/ Timer(t, ok) \/ Finish(t, ok)

Pipeline(t) ==
    \/ Attach(t) \/ AttachFails(t) \/ CloseLogs(t)
    \/ Demux(t) \/ Scan(t) \/ CloseLines(t) \/ Batching(t)
    \/ \E s \in Streams : Scanner(t, s)

\* The tailers' goroutines, and Stop behind them.
Work == Stopped \/ \E t \in Tailers : Pipeline(t)

\* A stream breaks, as it may at any time and need not ever.
StreamBreaks == \E t \in Tailers : EndCopy(t, TRUE)

TailerNext ==
    \/ Container \/ SetTracking \/ StreamBreaks
    \/ CollectContainers \/ Sync \/ BeginStop
    \/ Work

\* While a goroutine of a tailer can take a step, or Stop can return, one of them does:
\* all the fairness there is.  Nothing is assumed of the container, its stream, the
\* clients, the collect loop or the signal to stop.
TailerFairness == WF_tailerVars(Work)

TailerSpec == TailerInit /\ [][TailerNext]_tailerVars
FairTailerSpec == TailerSpec /\ TailerFairness

-----------------------------------------------------------------------------
(* Properties *)

DemuxPcs == {"attach", "copy", "write", "done"}
Tailer ==
    [run : 0..MaxRuns, from : 0..(MaxLines + 1), pos : 0..(MaxLines + 1),
     demux : DemuxPcs, item : 0..MaxLines, broken : BOOLEAN,
     scan : [Streams -> {"read", "put", "done"}], line : [Streams -> 0..MaxLines],
     lines : Seq(1..MaxLines), closed : BOOLEAN, batch : Seq(1..MaxLines),
     done : BOOLEAN, cancelled : BOOLEAN, logsClosed : BOOLEAN]

\* Every variable has its type, and the batch and the channel their bounds.
TailerTypeOK ==
    /\ run \in 1..MaxRuns /\ running \in BOOLEAN
    /\ tracked \in BOOLEAN /\ seen \in {"none", "active", "inactive"}
    /\ log \in Seq([run : 1..MaxRuns, s : Streams]) /\ Len(log) <= MaxLines
    /\ tailer \in Seq(Tailer) /\ Len(tailer) <= MaxTailers
    /\ entry \in 0..Len(tailer)
    /\ main \in {"collect", "stopping", "stopped"}
    /\ stored \in Seq(Seq(1..MaxLines)) /\ Len(stored) = Len(tailer)
    /\ failed \in Seq(SUBSET (1..MaxLines)) /\ Len(failed) = Len(tailer)
    /\ \A t \in Tailers : Len(tailer[t].batch) < BatchSize /\ Len(tailer[t].lines) <= ChanSize

\* Of a tailer tl and the lines st and fl it has stored and lost: the lines its
\* scanners pass on, the line StdCopy writes, and all that are stored or on the way.
Passing(tl) == {tl.line[s] : s \in {x \in Streams : tl.scan[x] = "put"}}
Copied(tl)  == IF tl.demux = "write" THEN {tl.item} ELSE {}
OnWay(tl) == ToSet(tl.batch) \cup ToSet(tl.lines) \cup Passing(tl) \cup Copied(tl)
Placed(tl, st) == ToSet(st) \cup OnWay(tl)

\* Of one stream, the lines of a sequence are in the order they were written, and
\* the lines of a set all come before those of another.
Ordered(q) ==
    \A i, j \in DOMAIN q : i < j /\ log[q[i]].s = log[q[j]].s => q[i] < q[j]
Before(p, q) == \A i \in p, j \in q : log[i].s = log[j].s => i < j

KeepsOrder(tl, st) ==
    /\ Ordered(st) /\ Ordered(tl.batch) /\ Ordered(tl.lines)
    /\ Before(ToSet(st), OnWay(tl))
    /\ Before(ToSet(tl.batch), ToSet(tl.lines) \cup Passing(tl) \cup Copied(tl))
    /\ Before(ToSet(tl.lines), Passing(tl) \cup Copied(tl))
    /\ Before(Passing(tl), Copied(tl))

\* No boundary of a batch, no timer and no cancellation swaps or repeats a line of a
\* stream: what a tailer has stored comes before what its batch holds, that before
\* the lines in its channel, and so on back to StdCopy.
InOrder == \A t \in Tailers : KeepsOrder(tailer[t], stored[t])

LosesNone(tl, st, fl) ==
    /\ Placed(tl, st) \cup fl = tl.from..(tl.pos - 1)
    /\ Placed(tl, st) \cap fl = {}

\* Every line a tailer was sent is on its way, stored, or lost with a batch the store
\* refused, and not both; there is no other.
NoneLost == \A t \in Tailers : LosesNone(tailer[t], stored[t], failed[t])

\* A tailer that has ended has nothing left: every line that was read from its
\* stream is stored, or was in a batch the store refused.  (One that met a line too
\* long to scan never ends.)
EndedIsFlushed ==
    \A t \in Tailers : tailer[t].done =>
        \A i \in tailer[t].from..(tailer[t].pos - 1) : i \in ToSet(stored[t]) \cup failed[t]

\* "Fetch logs from container start so we don't miss lines", logs.go:91: a tailer that
\* ends although nobody cancelled it and its stream did not break has nothing more to
\* read.  Its run is over, and every line the container wrote from where the tailer
\* started to the end of that run is stored, or was in a refused batch; only one that
\* could not attach, whose run is 0, has none.  (After a break the rest of the run is
\* not read: the error is ignored and the entry keeps Sync from starting a tailer.)
RunIsStored ==
    \A t \in Tailers :
        LET tl == tailer[t]
        IN  tl.done /\ ~tl.cancelled /\ ~tl.broken /\ tl.run # 0 =>
                /\ tl.run < run \/ ~running
                /\ \A i \in tl.from..Len(log) :
                      log[i].run <= tl.run => i \in ToSet(stored[t]) \cup failed[t]

\* Sync and Stop keep lt.tailers and the goroutines together: the tailer with the
\* entry is the only one that nobody has cancelled, so at most one stores the lines
\* still to come, and what Stop waits for has been told to end.
OneFollower == \A t \in Tailers : tailer[t].cancelled <=> t # entry

\* A tailer ends with all it was sent, and unless it was cancelled or its stream broke
\* only with its run (tail).
EndsRight == EndedIsFlushed /\ RunIsStored

\* The lines a tailer has stored, holds or counts as lost are the lines it was
\* sent, in order and once (scanLines, the batch loop of tail).
LinesExact == TailerTypeOK /\ InOrder /\ NoneLost

\* What the two need to be inductive: a scanner passes a line of its own stream;
\* StdCopy is at its last line; it ends before the scanners, unless a long line ended
\* one; they end before the channel is closed, and the loop ends with nothing left.
EndsInTurn(tl) ==
    /\ tl.demux # "attach" => tl.from \in 1..tl.pos /\ tl.pos <= Len(log) + 1
    /\ tl.demux = "attach" =>
          /\ tl.pos = 0 /\ tl.from <= Len(log) + 1 /\ ~tl.closed /\ ~tl.done
          /\ \A s \in Streams : tl.scan[s] = "read"
    /\ tl.demux = "write" => tl.item + 1 = tl.pos
    /\ \A s \in Streams :
          /\ tl.scan[s] = "put" => log[tl.line[s]].s = s
          /\ tl.scan[s] = "done" =>
                \/ tl.demux = "done"
                \/ tl.demux = "write" /\ tl.item \in Long /\ tl.scan[log[tl.item].s] = "done"
          /\ tl.closed => tl.scan[s] = "done"
    /\ tl.done => tl.closed /\ tl.batch = <<>> /\ tl.lines = <<>>
StagesEnd == \A t \in Tailers : EndsInTurn(tailer[t])

TailerInv == LinesExact /\ StagesEnd

\* What RunIsStored needs: only a cancellation or the end closes the stream; a long
\* line ends one scanner only, so the channel is closed after StdCopy; and StdCopy
\* returns from a stream that is open and whole only at the end of its run.
FollowsRun(tl) ==
    /\ tl.run <= run /\ (tl.demux \in {"copy", "write"} => tl.run # 0)
    /\ tl.demux = "attach" => tl.run = 0
    /\ tl.logsClosed => tl.cancelled \/ tl.done
    /\ tl.closed => tl.demux = "done"
    /\ \A s \in Streams : tl.scan[s] = "done" =>
          tl.demux = "done" \/ (tl.demux = "write" /\ log[tl.item].s = s)
    /\ tl.demux = "done" /\ ~tl.cancelled /\ ~tl.broken /\ tl.run # 0 =>
          /\ tl.run < run \/ ~running
          /\ \A i \in tl.pos..Len(log) : log[i].run > tl.run
RunsFollowed ==
    /\ \A t \in Tailers : FollowsRun(tailer[t])
    /\ \A i, j \in 1..Len(log) : i <= j => log[i].run <= log[j].run /\ log[j].run <= run

FollowInv == TailerInv /\ RunsFollowed /\ OneFollower

\* The tailers implement LineStore, whatever happens between StdCopy and the store.
Told(places) == {[n |-> i, s |-> log[i].s] : i \in places}
LineState ==
    [t \in 1..MaxTailers |->
        IF t \notin Tailers THEN "none" ELSE IF tailer[t].done THEN "ended" ELSE "open"]
LinesOnWay == [t \in 1..MaxTailers |-> IF t \in Tailers THEN Told(OnWay(tailer[t])) ELSE {}]
LinesKept == [t \in 1..MaxTailers |-> IF t \in Tailers THEN Told(ToSet(stored[t])) ELSE {}]
LinesLost == [t \in 1..MaxTailers |-> IF t \in Tailers THEN Told(failed[t]) ELSE {}]

Store == INSTANCE LineStore WITH
    Source <- 1..MaxTailers, Line <- [n : 1..MaxLines, s : Streams],
    state <- LineState, way <- LinesOnWay, kept <- LinesKept, lost <- LinesLost

\* What the hub and the store see of a tailer is an ordered set of lines that leaves
\* in batches: no line is stored before one that came earlier on its stream, or after
\* it was given up, and nothing is stored once the tailer has returned.
StoreSpec == Store!Spec

\* StdCopy writes a line whose scanner has given up on it.
Stuck(t) ==
    /\ tailer[t].demux = "write" /\ tailer[t].item \in Long
    /\ tailer[t].scan[log[tailer[t].item].s] = "done"

\* "Close the log stream when context is cancelled so the demux goroutine
\* unblocks", logs.go:111, "Stop cancels all tailers and waits for them to flush",
\* logs.go:70: Stop returns, unless a line was too long for its scanner.  Then the
\* demultiplexer is blocked in the pipe nobody reads, which closing the stream does
\* not end, and Stop waits for ever; that is the only way.
StopReturns == main = "stopping" ~> (main = "stopped" \/ \E t \in Tailers : Stuck(t))
=============================================================================
