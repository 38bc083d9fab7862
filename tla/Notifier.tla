------------------------------ MODULE Notifier ------------------------------
(***************************************************************************)
(* Asynchronous delivery of notifications (internal/agent/notify.go): a    *)
(* bounded queue, one worker goroutine that sends each message on every    *)
(* channel with up to three attempts, the pending wait group, Flush, and   *)
(* Stop, which closes the queue once and waits for the worker.             *)
(*                                                                         *)
(* The channels (SMTP, webhooks) are external: an attempt succeeds or      *)
(* fails.  With no channel configured send and Stop return at once, so     *)
(* the module assumes at least one.                                        *)
(*                                                                         *)
(* Senders.  On shutdown Stop comes after the last send; on a reload the   *)
(* event watcher and the socket handlers are still running and may send on *)
(* a closed queue, which panics.  The model has the latter (module Reload  *)
(* tells the two apart).                                                   *)
(***************************************************************************)
EXTENDS Integers, Sequences, FiniteSets

CONSTANTS
    Msgs,           \* the notifications sent in a behaviour
    NoMsg,          \* the worker holds no message
    Stoppers,       \* callers of Stop
    Flushers,       \* callers of Flush
    NumChannels,    \* len(n.channels)
    QueueSize       \* capacity of n.queue (64 in the code)

ASSUME NotifierAssumption ==
    /\ IsFiniteSet(Msgs) /\ NoMsg \notin Msgs
    /\ NumChannels \in Nat \ {0}
    /\ QueueSize \in Nat

VARIABLES
    status,         \* where each message is
    queue,          \* the buffered channel
    closed,         \* has the queue been closed?
    pending,        \* the counter of the pending wait group
    worker,         \* the run goroutine: pc, message, channel, attempt
    tries,          \* attempts made per message and channel
    delivered,      \* successful attempts per message and channel
    stopper,        \* progress of each Stop
    flusher,        \* progress of each Flush, with what it must wait for
    panicked        \* a send met a closed queue: the process dies

vars == <<status, queue, closed, pending, worker, tries, delivered, stopper,
          flusher, panicked>>

-----------------------------------------------------------------------------
MaxAttempts == 3
Channels == 1..NumChannels

Statuses == {"new", "adding", "queued", "sending", "done", "dropped"}
Idle == [pc |-> "recv", msg |-> NoMsg, ch |-> 0, attempt |-> 0]
Counts == [Msgs -> [Channels -> Nat]]
Zeros == [m \in Msgs |-> [c \in Channels |-> 0]]

With(ss) == {m \in Msgs : status[m] \in ss}

\* Messages whose Send has counted them and whose delivery has not ended.
InFlight == With({"adding", "queued", "sending"})

-----------------------------------------------------------------------------
(* send, split at the point where another goroutine can run *)

\* n.pending.Add(1)
Add(m) ==
    /\ ~panicked /\ status[m] = "new"
    /\ status' = [status EXCEPT ![m] = "adding"]
    /\ pending' = pending + 1
    /\ UNCHANGED <<queue, closed, worker, tries, delivered, stopper, flusher, panicked>>

\* Mutant: the queue has room for one message less.
MutantRoom == Len(queue) + 1 < QueueSize

Room == Len(queue) < QueueSize

\* The select: a send on a closed channel panics even when it has room.
Offer(m) ==
    /\ ~panicked /\ status[m] = "adding"
    /\ \/ /\ closed
          /\ panicked' = TRUE
          /\ UNCHANGED <<status, queue, pending>>
       \/ /\ ~closed /\ Room
          /\ queue' = Append(queue, m)
          /\ status' = [status EXCEPT ![m] = "queued"]
          /\ UNCHANGED <<pending, panicked>>
       \/ /\ ~closed /\ ~Room
          /\ status' = [status EXCEPT ![m] = "dropped"]
          /\ pending' = pending - 1
          /\ UNCHANGED <<queue, panicked>>
    /\ UNCHANGED <<closed, worker, tries, delivered, stopper, flusher>>

-----------------------------------------------------------------------------
(* run and sendWithRetry *)

\* Mutant: the message is counted as processed when it is taken.
MutantReceive ==
    /\ ~panicked /\ worker.pc = "recv" /\ queue # <<>>
    /\ worker' = [pc |-> "try", msg |-> Head(queue), ch |-> 1, attempt |-> 0]
    /\ status' = [status EXCEPT ![Head(queue)] = "sending"]
    /\ queue' = Tail(queue)
    /\ pending' = pending - 1
    /\ UNCHANGED <<closed, tries, delivered, stopper, flusher, panicked>>

\* range n.queue takes the next message, also after the queue was closed.
Receive ==
    /\ ~panicked /\ worker.pc = "recv" /\ queue # <<>>
    /\ worker' = [pc |-> "try", msg |-> Head(queue), ch |-> 1, attempt |-> 0]
    /\ status' = [status EXCEPT ![Head(queue)] = "sending"]
    /\ queue' = Tail(queue)
    /\ UNCHANGED <<closed, pending, tries, delivered, stopper, flusher, panicked>>

MoreChannels == worker.ch < NumChannels

\* sendWithRetry returned: the next channel, or the end of the message.
NextChannel ==
    IF MoreChannels
    THEN /\ worker' = [worker EXCEPT !.pc = "try", !.ch = @ + 1, !.attempt = 0]
         /\ UNCHANGED <<status, pending>>
    ELSE /\ worker' = Idle
         /\ status' = [status EXCEPT ![worker.msg] = "done"]
         /\ pending' = pending - 1

\* Mutant: a successful attempt does not end the retries.
MutantAttemptEnds(ok) == worker.attempt + 1 = MaxAttempts

\* err == nil, or no attempt is left.
AttemptEnds(ok) == ok \/ worker.attempt + 1 = MaxAttempts

\* ch.Send returns; a failed attempt that is not the last backs off.
Attempt(ok) ==
    LET m == worker.msg
        c == worker.ch
    IN  /\ ~panicked /\ worker.pc = "try"
        /\ tries' = [tries EXCEPT ![m][c] = @ + 1]
        /\ delivered' = IF ok THEN [delivered EXCEPT ![m][c] = @ + 1] ELSE delivered
        /\ IF AttemptEnds(ok)
           THEN NextChannel
           ELSE /\ worker' = [worker EXCEPT !.pc = "backoff", !.attempt = @ + 1]
                /\ UNCHANGED <<status, pending>>
        /\ UNCHANGED <<queue, closed, stopper, flusher, panicked>>

\* time.After fires; ctx is context.Background() and is never cancelled.
BackoffOver ==
    /\ ~panicked /\ worker.pc = "backoff"
    /\ worker' = [worker EXCEPT !.pc = "try"]
    /\ UNCHANGED <<status, queue, closed, pending, tries, delivered, stopper,
                   flusher, panicked>>

Drained == closed /\ queue = <<>>

\* range n.queue ends: wg.Done.
Exit ==
    /\ ~panicked /\ worker.pc = "recv" /\ Drained
    /\ worker' = [Idle EXCEPT !.pc = "exited"]
    /\ UNCHANGED <<status, queue, closed, pending, tries, delivered, stopper,
                   flusher, panicked>>

-----------------------------------------------------------------------------
(* Stop and Flush *)

\* Mutant: the queue stays open.
MutantClose(s) ==
    /\ ~panicked /\ stopper[s] = "idle"
    /\ stopper' = [stopper EXCEPT ![s] = "waiting"]
    /\ UNCHANGED <<status, queue, closed, pending, worker, tries, delivered,
                   flusher, panicked>>

\* stopOnce.Do(close): the first caller closes, the others wait only.
Close(s) ==
    /\ ~panicked /\ stopper[s] = "idle"
    /\ closed' = TRUE
    /\ stopper' = [stopper EXCEPT ![s] = "waiting"]
    /\ UNCHANGED <<status, queue, pending, worker, tries, delivered, flusher, panicked>>

\* n.wg.Wait() returns.
Stopped(s) ==
    /\ ~panicked /\ stopper[s] = "waiting" /\ worker.pc = "exited"
    /\ stopper' = [stopper EXCEPT ![s] = "returned"]
    /\ UNCHANGED <<status, queue, closed, pending, worker, tries, delivered,
                   flusher, panicked>>

\* A caller enters Flush; `for` remembers what was sent before.
BeginFlush(f) ==
    /\ ~panicked /\ flusher[f].pc = "idle"
    /\ flusher' = [flusher EXCEPT ![f] = [pc |-> "waiting", for |-> With({"queued", "sending"})]]
    /\ UNCHANGED <<status, queue, closed, pending, worker, tries, delivered,
                   stopper, panicked>>

\* n.pending.Wait() returns.
Flushed(f) ==
    /\ ~panicked /\ flusher[f].pc = "waiting" /\ pending = 0
    /\ flusher' = [flusher EXCEPT ![f].pc = "returned"]
    /\ UNCHANGED <<status, queue, closed, pending, worker, tries, delivered,
                   stopper, panicked>>

-----------------------------------------------------------------------------
Init ==
    /\ status = [m \in Msgs |-> "new"]
    /\ queue = <<>> /\ closed = FALSE /\ pending = 0
    /\ worker = Idle
    /\ tries = Zeros /\ delivered = Zeros
    /\ stopper = [s \in Stoppers |-> "idle"]
    /\ flusher = [f \in Flushers |-> [pc |-> "idle", for |-> {}]]
    /\ panicked = FALSE

Send == \E m \in Msgs : Add(m) \/ Offer(m)
Run == Receive \/ BackoffOver \/ Exit \/ \E ok \in BOOLEAN : Attempt(ok)
Stop == \E s \in Stoppers : Close(s) \/ Stopped(s)
Flush == \E f \in Flushers : BeginFlush(f) \/ Flushed(f)

Next == Send \/ Run \/ Stop \/ Flush

\* A goroutine that can run runs: the worker and the select of a sender.  Every
\* attempt ends, because the dialers and the HTTP client have timeouts.  Nothing
\* is assumed of whether an attempt succeeds, or of anyone calling Send or Stop.
Fairness ==
    /\ WF_vars(\E m \in Msgs : Offer(m))
    /\ WF_vars(Run)
    /\ \A s \in Stoppers : WF_vars(Stopped(s))
    /\ \A f \in Flushers : WF_vars(Flushed(f))

Spec == Init /\ [][Next]_vars
FairSpec == Spec /\ Fairness

-----------------------------------------------------------------------------
(* Properties *)

\* Every variable has its type.
TypeOK ==
    /\ status \in [Msgs -> Statuses]
    /\ queue \in Seq(Msgs)
    /\ closed \in BOOLEAN /\ panicked \in BOOLEAN
    /\ pending \in Int
    /\ worker \in [pc : {"recv", "try", "backoff", "exited"},
                   msg : Msgs \cup {NoMsg}, ch : 0..NumChannels,
                   attempt : 0..MaxAttempts]
    /\ tries \in Counts /\ delivered \in Counts
    /\ stopper \in [Stoppers -> {"idle", "waiting", "returned"}]
    /\ flusher \in [Flushers -> [pc : {"idle", "waiting", "returned"},
                                 for : SUBSET Msgs]]

\* The queue holds exactly the messages that are queued, each once, never more
\* than its capacity, and the worker holds the one that is being sent.
Placed ==
    /\ Len(queue) <= QueueSize
    /\ \A m \in Msgs : status[m] = "queued" <=> \E i \in 1..Len(queue) : queue[i] = m
    /\ \A i, j \in 1..Len(queue) : queue[i] = queue[j] => i = j
    /\ With({"sending"}) = IF worker.pc \in {"try", "backoff"} THEN {worker.msg} ELSE {}

\* The wait group counts the messages in flight, so it is never negative (Go
\* panics) and never zero while a message waits: also when a full queue drops one
\* while the worker finishes another.
PendingExact == pending = Cardinality(InFlight)

\* How a message is done on a channel: one delivery, or three failed attempts.
Settled(m, c) ==
    \/ delivered[m][c] = 1 /\ tries[m][c] \in 1..MaxAttempts
    \/ delivered[m][c] = 0 /\ tries[m][c] = MaxAttempts

\* A message the worker has finished was settled on every channel, whatever the
\* other channels did; one that is still queued or was dropped was never sent.
EveryChannelTried ==
    \A m \in Msgs : \A c \in Channels :
        /\ status[m] = "done" => Settled(m, c)
        /\ status[m] \notin {"done", "sending"} => tries[m][c] = 0

\* Stop returns only after everything that was accepted has been processed.
StopDrains ==
    (\E s \in Stoppers : stopper[s] = "returned") => With({"queued", "sending"}) = {}

\* Flush returns only when what had been queued before it was called is done.
FlushWaits ==
    \A f \in Flushers : flusher[f].pc = "returned" =>
        \A m \in flusher[f].for : status[m] = "done"

\* What makes them inductive: how far the worker is with its message, and what
\* the callers of Stop and Flush wait for.
WorkerProgress ==
    /\ worker.pc \in {"try", "backoff"} =>
         /\ worker.msg \in Msgs /\ worker.ch \in Channels /\ worker.attempt < MaxAttempts
         /\ \A c \in Channels :
              /\ c < worker.ch => Settled(worker.msg, c)
              /\ c = worker.ch => tries[worker.msg][c] = worker.attempt
              /\ c > worker.ch => tries[worker.msg][c] = 0
              /\ c >= worker.ch => delivered[worker.msg][c] = 0
    /\ worker.pc = "exited" => Drained
    /\ \A m \in Msgs : status[m] \notin {"done", "sending"} => \A c \in Channels : delivered[m][c] = 0

WaitersRight ==
    /\ \A s \in Stoppers : stopper[s] = "returned" => worker.pc = "exited"
    /\ \A f \in Flushers : flusher[f].pc # "idle" =>
           flusher[f].for \subseteq With({"queued", "sending", "done"})

\* Every notification that is sent is eventually processed or dropped, however
\* often the channels fail, unless a send after Stop ends the process.
SendEnds ==
    \A m \in Msgs : status[m] = "adding" ~> status[m] \in {"done", "dropped"} \/ panicked

\* Stop, which the collect loop waits for on shutdown and reload, returns, unless a
\* send after it ends the process.
StopEnds == \A s \in Stoppers : stopper[s] = "waiting" ~> stopper[s] = "returned" \/ panicked

\* Queue, worker and wait group agree on what is in flight, so that Stop and Flush
\* wait for exactly what was accepted before them (Queue, the worker, Stop, Flush).
Accounted == TypeOK /\ Placed /\ PendingExact /\ StopDrains /\ FlushWaits

IInv == Accounted /\ EveryChannelTried /\ WorkerProgress /\ WaitersRight

\* Whatever is sent while Stop and Flush are called, and however the channels answer:
\* what is in flight is accounted for, and what is done was tried on every channel.
DeliveryExact == Accounted /\ EveryChannelTried

\* The notifier implements Outbox: the message the worker holds is still in the box,
\* and what its channels have answered is not known before it is done with all.
Busy == worker.pc \in {"try", "backoff"}
Box == (IF Busy THEN <<worker.msg>> ELSE <<>>) \o queue
Fate ==
    [m \in Msgs |->
        CASE status[m] \in {"new", "adding"} -> "new"
          [] status[m] \in {"queued", "sending"} -> "taken"
          [] status[m] = "done" -> "dealt"
          [] OTHER -> "refused"]
Got == [m \in Msgs |-> IF status[m] = "done" THEN {c \in Channels : delivered[m][c] = 1} ELSE {}]
Returned == {s \in Stoppers : stopper[s] = "returned"}

Out == INSTANCE Outbox WITH
    Message <- Msgs, Channel <- Channels, Stopper <- Stoppers, Capacity <- QueueSize,
    box <- Box, fate <- Fate, got <- Got, shut <- closed, returned <- Returned

\* A notification is refused only when the queue is full; the others are sent in the
\* order they were queued, each once, and none is left when Stop returns.
OutboxSpec == Out!Spec

\* Every send and every Stop ends (Queue, Stop).
NotifierEnds == SendEnds /\ StopEnds
=============================================================================
