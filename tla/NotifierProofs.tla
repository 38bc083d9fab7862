--------------------------- MODULE NotifierProofs ---------------------------
(***************************************************************************)
(* Proofs about Notifier, for any messages, channels, callers of Stop and  *)
(* Flush, and any capacity of the queue: the wait group counts what is in  *)
(* flight, Stop and Flush wait for all of it, a message that is done was   *)
(* settled on every channel, and the notifier implements Outbox.           *)
(***************************************************************************)
EXTENDS Notifier, FiniteSetTheorems, SequenceTheorems, TLAPS

\* No element of a sequence occurs twice in it; m occurs in it.
Distinct(q) == \A i, j \in 1..Len(q) : q[i] = q[j] => i = j
Has(q, m) == \E i \in 1..Len(q) : q[i] = m

\* Removing the head of a sequence without repetitions.
LEMMA Received ==
    ASSUME NEW S, NEW q \in Seq(S), q # <<>>, Distinct(q)
    PROVE  /\ Head(q) \in S /\ Tail(q) \in Seq(S) /\ Len(Tail(q)) <= Len(q)
           /\ Distinct(Tail(q)) /\ Has(q, Head(q))
           /\ \A m \in S : Has(Tail(q), m) <=> m # Head(q) /\ Has(q, m)
<1> USE DEF Distinct, Has
<1>1. Len(q) \in Nat \ {0} /\ Head(q) = q[1]
  BY EmptySeq
<1>2. /\ Head(q) \in S /\ Tail(q) \in Seq(S) /\ Len(Tail(q)) = Len(q) - 1
      /\ \A i \in 1..Len(Tail(q)) : Tail(q)[i] = q[i + 1] /\ i + 1 \in 1..Len(q)
  BY <1>1, HeadTailProperties
<1>3. \A i, j \in 1..Len(Tail(q)) : Tail(q)[i] = Tail(q)[j] => i = j
  BY <1>1, <1>2
<1>4. 1 \in 1..Len(q)
  BY <1>1
<1>5. ASSUME NEW m \in S
      PROVE  (\E i \in 1..Len(Tail(q)) : Tail(q)[i] = m)
               <=> m # Head(q) /\ \E i \in 1..Len(q) : q[i] = m
  <2>1. ASSUME NEW i \in 1..Len(Tail(q)), Tail(q)[i] = m
        PROVE  m # Head(q) /\ \E j \in 1..Len(q) : q[j] = m
    <3>1. q[i + 1] = m /\ i + 1 \in 1..Len(q) /\ i + 1 # 1
      BY <1>2, <2>1
    <3>2. QED
      BY <1>1, <1>4, <3>1
  <2>2. ASSUME NEW i \in 1..Len(q), q[i] = m, m # Head(q)
        PROVE  \E j \in 1..Len(Tail(q)) : Tail(q)[j] = m
    <3>1. i - 1 \in 1..Len(Tail(q)) /\ (i - 1) + 1 = i
      BY <1>1, <1>2, <2>2
    <3>2. Tail(q)[i - 1] = m
      BY <1>2, <2>2, <3>1
    <3>3. QED
      BY <3>1, <3>2
  <2>3. QED
    BY <2>1, <2>2
<1>6. QED
  BY <1>1, <1>2, <1>3, <1>4, <1>5

\* Adding a message that is not in the queue.
LEMMA Queued ==
    ASSUME NEW S, NEW q \in Seq(S), NEW x \in S,
           \A i \in 1..Len(q) : q[i] # x,
           \A i, j \in 1..Len(q) : q[i] = q[j] => i = j
    PROVE  /\ Append(q, x) \in Seq(S) /\ Len(q) \in Nat /\ Len(Append(q, x)) = Len(q) + 1
           /\ \A i, j \in 1..Len(Append(q, x)) : Append(q, x)[i] = Append(q, x)[j] => i = j
           /\ \A m \in S : (\E i \in 1..Len(Append(q, x)) : Append(q, x)[i] = m)
                             <=> m = x \/ \E i \in 1..Len(q) : q[i] = m
<1> DEFINE t == Append(q, x)
<1>1. /\ t \in Seq(S) /\ Len(q) \in Nat /\ Len(t) = Len(q) + 1
      /\ \A i \in 1..Len(q) : t[i] = q[i]
      /\ t[Len(q) + 1] = x
  OBVIOUS
<1>2. \A i \in 1..Len(t) : i \in 1..Len(q) \/ i = Len(q) + 1
  BY <1>1
<1>3. 1..Len(q) \subseteq 1..Len(t) /\ Len(q) + 1 \in 1..Len(t)
  BY <1>1
<1> HIDE DEF t
<1>4. \A i, j \in 1..Len(t) : t[i] = t[j] => i = j
  BY <1>1, <1>2
<1>5. \A m \in S : (\E i \in 1..Len(t) : t[i] = m) <=> m = x \/ \E i \in 1..Len(q) : q[i] = m
  BY <1>1, <1>2, <1>3
<1>6. QED
  BY <1>1, <1>4, <1>5 DEF t

\* The messages in flight are finitely many; one more or one less is one more
\* or one less in the wait group.
LEMMA Counted ==
    /\ IsFiniteSet(InFlight) /\ Cardinality(InFlight) \in Nat
    /\ InFlight = {} <=> Cardinality(InFlight) = 0
    /\ \A m \in Msgs : m \notin InFlight /\ InFlight' = InFlight \cup {m}
                         => Cardinality(InFlight') = Cardinality(InFlight) + 1
    /\ \A m \in InFlight : InFlight' = InFlight \ {m}
                         => Cardinality(InFlight') = Cardinality(InFlight) - 1
<1>1. InFlight \subseteq Msgs
  BY DEF InFlight, With
<1>2. IsFiniteSet(InFlight) /\ Cardinality(InFlight) \in Nat
  BY <1>1, NotifierAssumption, FS_Subset, FS_CardinalityType
<1>3. QED
  BY <1>2, FS_EmptySet, FS_AddElement, FS_RemoveElement

\* Once Stop has returned the worker has left, and it leaves only when nothing
\* is queued or being sent.
LEMMA StoppedIsDrained == Placed /\ TypeOK /\ WorkerProgress /\ WaitersRight => StopDrains
<1> SUFFICES ASSUME Placed, TypeOK, WorkerProgress, WaitersRight,
                    NEW s \in Stoppers, stopper[s] = "returned"
             PROVE  With({"queued", "sending"}) = {}
  BY DEF StopDrains
<1>1. worker.pc = "exited" /\ queue = <<>>
  BY DEF WaitersRight, WorkerProgress, Drained
<1>2. Len(queue) = 0
  BY <1>1
<1>3. \A m \in Msgs : status[m] # "queued"
  BY <1>2 DEF Placed
<1>4. With({"sending"}) = {}
  BY <1>1 DEF Placed
<1>5. QED
  BY <1>3, <1>4 DEF With

-----------------------------------------------------------------------------
(* The first state and the steps *)

LEMMA InvInit == Init => IInv
<1> SUFFICES ASSUME Init PROVE IInv
  OBVIOUS
<1>1. queue \in Seq(Msgs) /\ Len(queue) = 0
  BY EmptySeq DEF Init
<1>2. tries \in Counts /\ delivered \in Counts
  BY DEF Init, Zeros, Counts
<1>3. TypeOK
  <2>1. worker \in [pc : {"recv", "try", "backoff", "exited"},
                    msg : Msgs \cup {NoMsg}, ch : 0..NumChannels, attempt : 0..MaxAttempts]
    BY NotifierAssumption DEF Init, Idle, MaxAttempts
  <2>2. closed \in BOOLEAN /\ panicked \in BOOLEAN
    BY DEF Init
  <2>3. pending \in Int
    BY DEF Init
  <2>4. QED
    BY <1>1, <1>2, <2>1, <2>2, <2>3 DEF Init, TypeOK, Statuses
<1>4. Placed
  BY <1>1, NotifierAssumption DEF Init, Placed, With, Idle
<1>5. PendingExact
  <2>1. InFlight = {}
    BY DEF Init, InFlight, With
  <2>2. QED
    BY <2>1, FS_EmptySet DEF Init, PendingExact
<1>6. StopDrains /\ FlushWaits /\ WaitersRight
  BY DEF Init, StopDrains, FlushWaits, WaitersRight
<1>7. EveryChannelTried /\ WorkerProgress
  BY DEF Init, EveryChannelTried, WorkerProgress, Idle, Zeros
<1>8. QED
  BY <1>3, <1>4, <1>5, <1>6, <1>7 DEF IInv, Accounted

\* Send: counting the message, then the select.
LEMMA SendStep == ASSUME IInv, NEW m \in Msgs, Add(m) \/ Offer(m) PROVE IInv'
<1> USE DEF IInv, Accounted
<1>1. CASE Add(m)
  <2>1. /\ status[m] = "new" /\ status' = [status EXCEPT ![m] = "adding"] /\ pending' = pending + 1
        /\ UNCHANGED <<queue, closed, worker, tries, delivered, stopper, flusher, panicked>>
    BY <1>1 DEF Add
  <2>2. TypeOK'
    BY <2>1 DEF TypeOK, Statuses
  <2>3. Placed'
    BY <2>1 DEF Placed, With, TypeOK
  <2>4. PendingExact'
    <3>1. m \notin InFlight /\ InFlight' = InFlight \cup {m}
      BY <2>1 DEF InFlight, With, TypeOK
    <3>2. QED
      BY <2>1, <3>1, Counted DEF PendingExact
  <2>5. FlushWaits' /\ WaitersRight'
    BY <2>1 DEF FlushWaits, WaitersRight, With, TypeOK
  <2>6. EveryChannelTried'
    BY <2>1 DEF EveryChannelTried, Settled, TypeOK
  <2>7. WorkerProgress'
    BY <2>1 DEF WorkerProgress, Settled, Drained, TypeOK
  <2>8. QED
    BY <2>2, <2>3, <2>4, <2>5, <2>6, <2>7, StoppedIsDrained, PTL
<1>2. CASE Offer(m)
  <2>1. /\ status[m] = "adding"
        /\ UNCHANGED <<closed, worker, tries, delivered, stopper, flusher>>
    BY <1>2 DEF Offer
  <2>2. CASE panicked' = TRUE /\ UNCHANGED <<status, queue, pending>>
    BY <2>1, <2>2 DEF TypeOK, Placed, With, PendingExact, InFlight, StopDrains, FlushWaits,
                      EveryChannelTried, Settled, WorkerProgress, Drained, WaitersRight
  <2>3. CASE /\ ~closed /\ Room /\ queue' = Append(queue, m)
             /\ status' = [status EXCEPT ![m] = "queued"] /\ UNCHANGED <<pending, panicked>>
    <3>1. /\ queue' \in Seq(Msgs) /\ Len(queue') <= QueueSize
          /\ \A i, j \in 1..Len(queue') : queue'[i] = queue'[j] => i = j
          /\ \A n \in Msgs : (\E i \in 1..Len(queue') : queue'[i] = n)
                               <=> n = m \/ \E i \in 1..Len(queue) : queue[i] = n
      <4>1. queue \in Seq(Msgs) /\ \A i \in 1..Len(queue) : queue[i] # m
        BY <2>1 DEF TypeOK, Placed
      <4>2. \A i, j \in 1..Len(queue) : queue[i] = queue[j] => i = j
        BY DEF Placed
      <4>3. /\ queue' \in Seq(Msgs) /\ Len(queue) \in Nat /\ Len(queue') = Len(queue) + 1
            /\ \A i, j \in 1..Len(queue') : queue'[i] = queue'[j] => i = j
            /\ \A n \in Msgs : (\E i \in 1..Len(queue') : queue'[i] = n)
                                 <=> n = m \/ \E i \in 1..Len(queue) : queue[i] = n
        BY <2>3, <4>1, <4>2, Queued
      <4>4. QED
        BY <2>3, <4>3, NotifierAssumption DEF Room
    <3>2. TypeOK'
      BY <2>1, <2>3, <3>1 DEF TypeOK, Statuses
    <3>3. Placed'
      <4>1. With({"sending"})' = With({"sending"})
        BY <2>1, <2>3 DEF With, TypeOK
      <4>2. \A n \in Msgs : status'[n] = "queued" <=> n = m \/ status[n] = "queued"
        BY <2>3 DEF TypeOK
      <4>3. QED
        BY <2>1, <3>1, <4>1, <4>2 DEF Placed
    <3>4. PendingExact'
      <4>1. InFlight' = InFlight
        BY <2>1, <2>3 DEF InFlight, With, TypeOK
      <4>2. QED
        BY <2>3, <4>1 DEF PendingExact
    <3>5. FlushWaits' /\ WaitersRight'
      BY <2>1, <2>3 DEF FlushWaits, WaitersRight, With, TypeOK
    <3>6. EveryChannelTried'
      BY <2>1, <2>3 DEF EveryChannelTried, Settled, TypeOK
    <3>7. WorkerProgress'
      BY <2>1, <2>3 DEF WorkerProgress, Settled, Drained, TypeOK
    <3>8. QED
      BY <3>2, <3>3, <3>4, <3>5, <3>6, <3>7, StoppedIsDrained, PTL
  <2>4. CASE /\ status' = [status EXCEPT ![m] = "dropped"] /\ pending' = pending - 1
             /\ UNCHANGED <<queue, panicked>>
    <3>1. TypeOK'
      BY <2>1, <2>4 DEF TypeOK, Statuses
    <3>2. Placed'
      BY <2>1, <2>4 DEF Placed, With, TypeOK
    <3>3. PendingExact'
      <4>1. m \in InFlight /\ InFlight' = InFlight \ {m}
        BY <2>1, <2>4 DEF InFlight, With, TypeOK
      <4>2. QED
        BY <2>4, <4>1, Counted DEF PendingExact
    <3>4. FlushWaits' /\ WaitersRight'
      BY <2>1, <2>4 DEF FlushWaits, WaitersRight, With, TypeOK
    <3>5. EveryChannelTried'
      BY <2>1, <2>4 DEF EveryChannelTried, Settled, TypeOK
    <3>6. WorkerProgress'
      BY <2>1, <2>4 DEF WorkerProgress, Settled, Drained, TypeOK
    <3>7. QED
      BY <3>1, <3>2, <3>3, <3>4, <3>5, <3>6, StoppedIsDrained, PTL
  <2>5. QED
    BY <1>2, <2>2, <2>3, <2>4 DEF Offer
<1>3. QED
  BY <1>1, <1>2

\* The worker takes the next message, waits between attempts, or leaves.
LEMMA WorkerStep == ASSUME IInv, Receive \/ BackoffOver \/ Exit PROVE IInv'
<1> USE DEF IInv, Accounted
<1>1. CASE Receive
  <2> DEFINE m == Head(queue)
  <2>1. /\ worker.pc = "recv" /\ queue # <<>> /\ queue' = Tail(queue)
        /\ worker' = [pc |-> "try", msg |-> m, ch |-> 1, attempt |-> 0]
        /\ status' = [status EXCEPT ![m] = "sending"]
        /\ UNCHANGED <<closed, pending, tries, delivered, stopper, flusher, panicked>>
    BY <1>1 DEF Receive
  <2>2. /\ m \in Msgs /\ queue' \in Seq(Msgs) /\ Len(queue') <= Len(queue)
        /\ \A i, j \in 1..Len(queue') : queue'[i] = queue'[j] => i = j
        /\ \E i \in 1..Len(queue) : queue[i] = m
        /\ \A n \in Msgs : (\E i \in 1..Len(queue') : queue'[i] = n)
                             <=> n # m /\ \E i \in 1..Len(queue) : queue[i] = n
    <3>1. queue \in Seq(Msgs) /\ queue # <<>> /\ Distinct(queue)
      BY <2>1 DEF TypeOK, Placed, Distinct
    <3>2. /\ Head(queue) \in Msgs /\ Tail(queue) \in Seq(Msgs) /\ Len(Tail(queue)) <= Len(queue)
          /\ Distinct(Tail(queue)) /\ Has(queue, Head(queue))
          /\ \A n \in Msgs : Has(Tail(queue), n) <=> n # Head(queue) /\ Has(queue, n)
      BY <3>1, Received
    <3>3. queue' = Tail(queue)
      BY <2>1
    <3>4. QED
      BY <3>2, <3>3 DEF Distinct, Has
  <2> HIDE DEF m
  <2>3. status[m] = "queued" /\ \A n \in Msgs : status[n] # "sending"
    BY <2>1, <2>2 DEF Placed, With
  <2>4. TypeOK'
    BY <2>1, <2>2, NotifierAssumption DEF TypeOK, Statuses, MaxAttempts
  <2>5. Placed'
    <3>1. With({"sending"})' = {m}
      BY <2>1, <2>2, <2>3 DEF With, TypeOK
    <3>2. \A n \in Msgs : status'[n] = "queued" <=> n # m /\ status[n] = "queued"
      BY <2>1, <2>2 DEF TypeOK
    <3>3. Len(queue') <= QueueSize
      <4>1. Len(queue) \in Nat /\ Len(queue') \in Nat
        BY <2>2, LenProperties DEF TypeOK
      <4>2. QED
        BY <2>2, <4>1, NotifierAssumption DEF Placed
    <3>4. QED
      BY <2>1, <2>2, <3>1, <3>2, <3>3 DEF Placed
  <2>6. PendingExact'
    <3>1. InFlight' = InFlight
      BY <2>1, <2>2, <2>3 DEF InFlight, With, TypeOK
    <3>2. QED
      BY <2>1, <3>1 DEF PendingExact
  <2>7. FlushWaits' /\ WaitersRight'
    BY <2>1, <2>2, <2>3 DEF FlushWaits, WaitersRight, With, TypeOK
  <2>8. \A c \in Channels : tries[m][c] = 0 /\ delivered[m][c] = 0
    BY <2>2, <2>3 DEF EveryChannelTried, WorkerProgress
  <2>9. EveryChannelTried'
    BY <2>1, <2>2, <2>3 DEF EveryChannelTried, Settled, TypeOK
  <2>10. WorkerProgress'
    <3>1. \A n \in Msgs : status'[n] \notin {"done", "sending"} => \A c \in Channels : delivered'[n][c] = 0
      BY <2>1, <2>2, <2>3 DEF WorkerProgress, TypeOK
    <3>2. 1 \in Channels /\ \A c \in Channels : ~(c < 1)
      BY NotifierAssumption DEF Channels
    <3>3. QED
      BY <2>1, <2>2, <2>8, <3>1, <3>2 DEF WorkerProgress, MaxAttempts
  <2>11. QED
    BY <2>4, <2>5, <2>6, <2>7, <2>9, <2>10, StoppedIsDrained, PTL
<1>2. CASE BackoffOver
  <2>1. /\ worker.pc = "backoff" /\ worker' = [worker EXCEPT !.pc = "try"]
        /\ UNCHANGED <<status, queue, closed, pending, tries, delivered, stopper, flusher, panicked>>
    BY <1>2 DEF BackoffOver
  <2>2. TypeOK'
    BY <2>1 DEF TypeOK
  <2>3. /\ worker'.pc = "try" /\ worker'.msg = worker.msg
        /\ worker'.ch = worker.ch /\ worker'.attempt = worker.attempt
    BY <2>1 DEF TypeOK
  <2>4. Placed'
    BY <2>1, <2>3 DEF Placed, With
  <2>5. PendingExact' /\ FlushWaits' /\ EveryChannelTried'
    BY <2>1 DEF PendingExact, InFlight, FlushWaits, With, EveryChannelTried, Settled
  <2>6. WaitersRight'
    BY <2>1, <2>3 DEF WaitersRight, With
  <2>7. WorkerProgress'
    BY <2>1, <2>3 DEF WorkerProgress, Settled
  <2>8. QED
    BY <2>2, <2>4, <2>5, <2>6, <2>7, StoppedIsDrained, PTL
<1>3. CASE Exit
  <2>1. /\ worker.pc = "recv" /\ Drained /\ worker' = [Idle EXCEPT !.pc = "exited"]
        /\ UNCHANGED <<status, queue, closed, pending, tries, delivered, stopper, flusher, panicked>>
    BY <1>3 DEF Exit
  <2>2. worker' = [pc |-> "exited", msg |-> NoMsg, ch |-> 0, attempt |-> 0]
    BY <2>1 DEF Idle
  <2>3. TypeOK'
    <3>1. worker' \in [pc : {"recv", "try", "backoff", "exited"},
                       msg : Msgs \cup {NoMsg}, ch : 0..NumChannels, attempt : 0..MaxAttempts]
      BY <2>2, NotifierAssumption DEF MaxAttempts
    <3>2. QED
      BY <2>1, <3>1 DEF TypeOK
  <2>4. Placed'
    BY <2>1, <2>2 DEF Placed, With
  <2>5. PendingExact' /\ FlushWaits' /\ EveryChannelTried'
    BY <2>1 DEF PendingExact, InFlight, FlushWaits, With, EveryChannelTried, Settled
  <2>6. WaitersRight'
    BY <2>1, <2>2 DEF WaitersRight, With
  <2>7. WorkerProgress'
    BY <2>1, <2>2 DEF WorkerProgress, Drained
  <2>8. QED
    BY <2>3, <2>4, <2>5, <2>6, <2>7, StoppedIsDrained, PTL
<1>4. QED
  BY <1>1, <1>2, <1>3

\* One attempt on one channel: it backs off, goes on to the next channel, or
\* ends the message.
LEMMA AttemptStep == ASSUME IInv, NEW ok \in BOOLEAN, Attempt(ok) PROVE IInv'
<1> USE DEF IInv, Accounted
<1>1. /\ worker.pc = "try"
      /\ tries' = [tries EXCEPT ![worker.msg][worker.ch] = @ + 1]
      /\ delivered' = IF ok THEN [delivered EXCEPT ![worker.msg][worker.ch] = @ + 1] ELSE delivered
      /\ UNCHANGED <<queue, closed, stopper, flusher, panicked>>
  BY DEF Attempt
<1>2. PICK m \in Msgs, d \in Channels, a \in Nat :
          worker.msg = m /\ worker.ch = d /\ worker.attempt = a
  BY <1>1 DEF TypeOK, WorkerProgress
<1>3. /\ a < MaxAttempts
      /\ tries[m][d] = a /\ delivered[m][d] = 0
      /\ status[m] = "sending" /\ \A n \in Msgs : status[n] = "sending" => n = m
  <2>1. With({"sending"}) = {m}
    BY <1>1, <1>2 DEF Placed
  <2>2. d \in Int
    BY DEF Channels
  <2>3. a < MaxAttempts
    BY <1>1, <1>2 DEF WorkerProgress
  <2>4. tries[m][d] = a /\ delivered[m][d] = 0
    BY <1>1, <1>2, <2>2 DEF WorkerProgress
  <2>5. status[m] = "sending" /\ \A n \in Msgs : status[n] = "sending" => n = m
    BY <2>1 DEF With
  <2>6. QED
    BY <2>3, <2>4, <2>5
<1>4. /\ tries' \in Counts /\ delivered' \in Counts
      /\ tries'[m][d] = a + 1 /\ delivered'[m][d] = IF ok THEN 1 ELSE 0
      /\ \A n \in Msgs, c \in Channels : n # m \/ c # d =>
             tries'[n][c] = tries[n][c] /\ delivered'[n][c] = delivered[n][c]
  <2>1. /\ tries' \in Counts /\ tries'[m][d] = a + 1
        /\ \A n \in Msgs, c \in Channels : n # m \/ c # d => tries'[n][c] = tries[n][c]
    BY <1>1, <1>2, <1>3 DEF TypeOK, Counts
  <2>2. CASE ok
    <3>1. delivered' = [delivered EXCEPT ![m][d] = @ + 1]
      BY <1>1, <1>2, <2>2
    <3>2. QED
      BY <1>3, <2>1, <2>2, <3>1 DEF TypeOK, Counts
  <2>3. CASE ~ok
    <3>1. delivered' = delivered
      BY <1>1, <2>3
    <3>2. QED
      BY <1>3, <2>1, <2>3, <3>1 DEF TypeOK
  <2>4. QED
    BY <2>2, <2>3
<1>5. /\ worker = [pc |-> "try", msg |-> m, ch |-> d, attempt |-> a]
      /\ d \in 1..NumChannels /\ NumChannels \in Nat
  BY <1>1, <1>2, NotifierAssumption DEF TypeOK, Channels
<1>6. AttemptEnds(ok) => Settled(m, d)'
  BY <1>2, <1>3, <1>4 DEF AttemptEnds, Settled, MaxAttempts
<1>7. \A c \in Channels : (c < d => Settled(m, c)') /\ (c > d => tries'[m][c] = 0 /\ delivered'[m][c] = 0)
  <2>1. ASSUME NEW c \in Channels, c < d PROVE Settled(m, c)'
    <3>1. Settled(m, c)
      BY <1>1, <1>2, <2>1 DEF WorkerProgress
    <3>2. c # d
      BY <2>1, <1>5 DEF Channels
    <3>3. tries'[m][c] = tries[m][c] /\ delivered'[m][c] = delivered[m][c]
      BY <1>3, <1>4, <3>2
    <3>4. QED
      BY <3>1, <3>3 DEF Settled
  <2>2. ASSUME NEW c \in Channels, c > d PROVE tries'[m][c] = 0 /\ delivered'[m][c] = 0
    <3>1. tries[m][c] = 0 /\ delivered[m][c] = 0 /\ c # d
      BY <1>1, <1>2, <1>5, <2>2 DEF WorkerProgress, Channels
    <3>2. QED
      BY <1>3, <1>4, <3>1
  <2>3. QED
    BY <2>1, <2>2
<1>8. \A n \in Msgs : n # m => \A c \in Channels :
         tries'[n][c] = tries[n][c] /\ delivered'[n][c] = delivered[n][c]
  BY <1>4
<1>9. CASE /\ ~AttemptEnds(ok) /\ worker' = [worker EXCEPT !.pc = "backoff", !.attempt = @ + 1]
           /\ UNCHANGED <<status, pending>>
  <2>1. worker' = [pc |-> "backoff", msg |-> m, ch |-> d, attempt |-> a + 1] /\ ~ok /\ a + 1 < MaxAttempts
    <3>1. ~ok /\ a + 1 < MaxAttempts
      BY <1>2, <1>3, <1>9 DEF AttemptEnds, MaxAttempts
    <3>2. worker' = [pc |-> "backoff", msg |-> m, ch |-> d, attempt |-> a + 1]
      BY <1>2, <1>5, <1>9
    <3>3. QED
      BY <3>1, <3>2
  <2>2. TypeOK'
    BY <1>1, <1>3, <1>4, <1>5, <1>9, <2>1 DEF TypeOK, MaxAttempts
  <2>3. Placed'
    BY <1>1, <1>9, <2>1 DEF Placed, With
  <2>4. PendingExact' /\ FlushWaits'
    BY <1>1, <1>9 DEF PendingExact, InFlight, FlushWaits, With
  <2>5. WaitersRight'
    BY <1>1, <1>9, <2>1 DEF WaitersRight, With
  <2>6. EveryChannelTried'
    BY <1>3, <1>8, <1>9 DEF EveryChannelTried, Settled
  <2>7. WorkerProgress'
    <3>1. \A c \in Channels : c = d => tries'[m][c] = a + 1
      BY <1>4
    <3>2. \A c \in Channels : c >= d => delivered'[m][c] = 0
      BY <1>4, <1>5, <1>7, <2>1 DEF Channels
    <3>3. \A n \in Msgs : status'[n] \notin {"done", "sending"} => \A c \in Channels : delivered'[n][c] = 0
      BY <1>3, <1>8, <1>9 DEF WorkerProgress
    <3>4. \A c \in Channels : (c < d => Settled(m, c)') /\ (c > d => tries'[m][c] = 0)
      BY <1>7
    <3>5. worker'.pc # "exited" /\ worker'.msg = m /\ worker'.ch = d /\ worker'.attempt = a + 1
      BY <2>1
    <3>6. QED
      BY <1>3, <2>1, <3>1, <3>2, <3>3, <3>4, <3>5 DEF WorkerProgress, Settled
  <2>8. QED
    BY <2>2, <2>3, <2>4, <2>5, <2>6, <2>7, StoppedIsDrained, PTL
<1>10. CASE /\ AttemptEnds(ok) /\ MoreChannels
            /\ worker' = [worker EXCEPT !.pc = "try", !.ch = @ + 1, !.attempt = 0]
           /\ UNCHANGED <<status, pending>>
  <2>1. worker' = [pc |-> "try", msg |-> m, ch |-> d + 1, attempt |-> 0] /\ d + 1 \in Channels
    <3>1. d + 1 \in Channels
      BY <1>2, <1>5, <1>10 DEF MoreChannels, Channels
    <3>2. worker' = [pc |-> "try", msg |-> m, ch |-> d + 1, attempt |-> 0]
      BY <1>2, <1>5, <1>10
    <3>3. QED
      BY <3>1, <3>2
  <2>2. TypeOK'
    BY <1>1, <1>3, <1>4, <1>5, <1>10, <2>1 DEF TypeOK, MaxAttempts, Channels
  <2>3. Placed'
    BY <1>1, <1>10, <2>1 DEF Placed, With
  <2>4. PendingExact' /\ FlushWaits'
    BY <1>1, <1>10 DEF PendingExact, InFlight, FlushWaits, With
  <2>5. WaitersRight'
    BY <1>1, <1>10, <2>1 DEF WaitersRight, With
  <2>6. EveryChannelTried'
    BY <1>3, <1>8, <1>10 DEF EveryChannelTried, Settled
  <2>7. WorkerProgress'
    <3>1. \A c \in Channels : c < d + 1 => Settled(m, c)'
      BY <1>5, <1>6, <1>7, <1>10 DEF Channels
    <3>2. \A c \in Channels : c >= d + 1 => tries'[m][c] = 0 /\ delivered'[m][c] = 0
      BY <1>5, <1>7 DEF Channels
    <3>3. \A n \in Msgs : status'[n] \notin {"done", "sending"} => \A c \in Channels : delivered'[n][c] = 0
      BY <1>3, <1>8, <1>10 DEF WorkerProgress
    <3>4. worker'.pc # "exited" /\ worker'.msg = m /\ worker'.ch = d + 1 /\ worker'.attempt = 0
      BY <2>1
    <3>5. \A c \in Channels : /\ c = d + 1 => tries'[m][c] = 0
                              /\ c > d + 1 => tries'[m][c] = 0
      BY <3>2, <1>5 DEF Channels
    <3>6. QED
      BY <1>3, <2>1, <3>1, <3>2, <3>3, <3>4, <3>5 DEF WorkerProgress, Settled, MaxAttempts
  <2>8. QED
    BY <2>2, <2>3, <2>4, <2>5, <2>6, <2>7, StoppedIsDrained, PTL
<1>11. CASE /\ AttemptEnds(ok) /\ ~MoreChannels /\ worker' = Idle
            /\ status' = [status EXCEPT ![m] = "done"] /\ pending' = pending - 1
  <2>1. worker' = [pc |-> "recv", msg |-> NoMsg, ch |-> 0, attempt |-> 0] /\ d = NumChannels
    BY <1>5, <1>11 DEF Idle, MoreChannels
  <2>2. TypeOK'
    BY <1>1, <1>4, <1>5, <1>11, <2>1 DEF TypeOK, MaxAttempts, Statuses
  <2>3. Placed'
    <3>1. With({"sending"})' = {}
      BY <1>3, <1>11 DEF With, TypeOK
    <3>2. \A n \in Msgs : status'[n] = "queued" <=> status[n] = "queued"
      BY <1>3, <1>11 DEF TypeOK
    <3>3. QED
      BY <1>1, <2>1, <3>1, <3>2 DEF Placed
  <2>4. PendingExact'
    <3>1. m \in InFlight /\ InFlight' = InFlight \ {m}
      BY <1>3, <1>11 DEF InFlight, With, TypeOK
    <3>2. QED
      BY <1>11, <3>1, Counted DEF PendingExact
  <2>5. FlushWaits' /\ WaitersRight'
    BY <1>1, <1>3, <1>11, <2>1 DEF FlushWaits, WaitersRight, With, TypeOK
  <2>6. EveryChannelTried'
    <3>1. \A c \in Channels : Settled(m, c)'
      BY <1>5, <1>6, <1>7, <1>11, <2>1 DEF Channels
    <3>2. \A n \in Msgs : status'[n] = IF n = m THEN "done" ELSE status[n]
      BY <1>3, <1>11 DEF TypeOK
    <3>3. \A n \in Msgs : n # m => \A c \in Channels : Settled(n, c)' <=> Settled(n, c)
      BY <1>8 DEF Settled
    <3>4. QED
      BY <1>8, <3>1, <3>2, <3>3 DEF EveryChannelTried
  <2>7. WorkerProgress'
    BY <1>3, <1>8, <1>11, <2>1 DEF WorkerProgress, TypeOK
  <2>8. QED
    BY <2>2, <2>3, <2>4, <2>5, <2>6, <2>7, StoppedIsDrained, PTL
<1>12. QED
  BY <1>2, <1>9, <1>10, <1>11 DEF Attempt, NextChannel

\* Stop and Flush.
LEMMA WaitStep ==
    ASSUME IInv,
           \/ \E s \in Stoppers : Close(s) \/ Stopped(s)
           \/ \E f \in Flushers : BeginFlush(f) \/ Flushed(f)
    PROVE  IInv'
<1> USE DEF IInv, Accounted
<1>1. UNCHANGED <<status, queue, pending, worker, tries, delivered, panicked>>
  BY DEF Close, Stopped, BeginFlush, Flushed
<1>2. Placed' /\ PendingExact' /\ EveryChannelTried'
  BY <1>1 DEF Placed, With, PendingExact, InFlight, EveryChannelTried, Settled
<1>3. ASSUME NEW s \in Stoppers, Close(s) PROVE IInv'
  <2>1. TypeOK' /\ FlushWaits' /\ WaitersRight'
    BY <1>1, <1>3 DEF Close, TypeOK, FlushWaits, WaitersRight, With
  <2>2. WorkerProgress'
    BY <1>1, <1>3 DEF Close, WorkerProgress, Settled, Drained
  <2>3. QED
    BY <1>2, <2>1, <2>2, StoppedIsDrained, PTL
<1>4. ASSUME NEW s \in Stoppers, Stopped(s) PROVE IInv'
  <2>1. TypeOK' /\ FlushWaits' /\ WaitersRight'
    BY <1>1, <1>4 DEF Stopped, TypeOK, FlushWaits, WaitersRight, With
  <2>2. WorkerProgress'
    BY <1>1, <1>4 DEF Stopped, WorkerProgress, Settled, Drained
  <2>3. QED
    BY <1>2, <2>1, <2>2, StoppedIsDrained, PTL
<1>5. ASSUME NEW f \in Flushers, BeginFlush(f) PROVE IInv'
  <2>1. TypeOK' /\ FlushWaits' /\ WaitersRight'
    BY <1>1, <1>5 DEF BeginFlush, TypeOK, FlushWaits, WaitersRight, With
  <2>2. WorkerProgress'
    BY <1>1, <1>5 DEF BeginFlush, WorkerProgress, Settled, Drained
  <2>3. QED
    BY <1>2, <2>1, <2>2, StoppedIsDrained, PTL
<1>6. ASSUME NEW f \in Flushers, Flushed(f) PROVE IInv'
  <2>1. /\ flusher' = [flusher EXCEPT ![f].pc = "returned"]
        /\ flusher[f].pc = "waiting" /\ UNCHANGED <<closed, stopper>>
    BY <1>6 DEF Flushed
  <2>2. InFlight = {}
    BY <1>6, Counted DEF Flushed, PendingExact
  <2>3. \A n \in flusher[f].for : status[n] = "done"
    BY <2>1, <2>2 DEF WaitersRight, InFlight, With
  <2>4. TypeOK'
    BY <1>1, <2>1 DEF TypeOK
  <2>5. FlushWaits' /\ WaitersRight'
    BY <1>1, <2>1, <2>3 DEF TypeOK, FlushWaits, WaitersRight, With
  <2>6. WorkerProgress'
    BY <1>1, <2>1 DEF WorkerProgress, Settled, Drained
  <2>7. QED
    BY <1>2, <2>4, <2>5, <2>6, StoppedIsDrained, PTL
<1>7. QED
  BY <1>3, <1>4, <1>5, <1>6

\* Nothing happens.
LEMMA Stutter == IInv /\ UNCHANGED vars => IInv'
BY DEF IInv, Accounted, TypeOK, Placed, PendingExact, InFlight, StopDrains, FlushWaits, With,
       EveryChannelTried, Settled, WorkerProgress, Drained, WaitersRight, vars

-----------------------------------------------------------------------------
(* The theorems *)

\* The inductive invariant: queue, worker and wait group agree, and the worker's
\* place in its message tells which channels are settled.
THEOREM NotifierInvariant == Spec => []IInv
<1>1. IInv /\ [Next]_vars => IInv'
  BY SendStep, WorkerStep, AttemptStep, WaitStep, Stutter DEF Next, Send, Run, Stop, Flush
<1>2. QED
  BY InvInit, <1>1, PTL DEF Spec

\* Whatever is sent while Stop and Flush are called, they return only when what
\* was accepted before is done, and the wait group never goes below zero.
THEOREM DeliveriesAreAccounted == Spec => []Accounted
<1>1. IInv => Accounted
  BY DEF IInv
<1>2. QED
  BY NotifierInvariant, <1>1, PTL

\* A message that is done was delivered once or refused three times on each of
\* the channels, whatever the others did.
THEOREM ChannelsAreTried == Spec => []EveryChannelTried
<1>1. IInv => EveryChannelTried
  BY DEF IInv
<1>2. QED
  BY NotifierInvariant, <1>1, PTL

\* Both together: what is in flight is accounted for, and every channel was tried.
THEOREM DeliveriesAreExact == Spec => []DeliveryExact
<1>1. IInv => DeliveryExact
  BY DEF IInv, DeliveryExact
<1>2. QED
  BY NotifierInvariant, <1>1, PTL

-----------------------------------------------------------------------------
(* Notifier implements Outbox *)

\* A sequence with an element in front of it.
LEMMA InFront ==
    ASSUME NEW S, NEW x \in S, NEW q \in Seq(S)
    PROVE  /\ <<x>> \o q \in Seq(S) /\ Len(<<x>> \o q) = Len(q) + 1
           /\ <<x>> \o q # <<>> /\ Head(<<x>> \o q) = x /\ Tail(<<x>> \o q) = q
           /\ \A y \in S : <<x>> \o Append(q, y) = Append(<<x>> \o q, y)
<1> DEFINE p == <<x>> \o q
<1>1. /\ p \in Seq(S) /\ Len(p) = Len(q) + 1 /\ Len(q) \in Nat /\ p[1] = x
      /\ \A i \in 1..Len(q) : p[i + 1] = q[i]
  BY ConcatProperties
<1> HIDE DEF p
<1>2. p # <<>> /\ Head(p) = x
  BY <1>1, EmptySeq, HeadTailProperties
<1>3. Tail(p) = q
  <2>1. /\ Tail(p) \in Seq(S) /\ Len(Tail(p)) = Len(q)
        /\ \A i \in 1..Len(q) : Tail(p)[i] = q[i]
    BY <1>1, <1>2, HeadTailProperties
  <2>2. QED
    BY <1>1, <2>1, SeqEqual
<1>4. ASSUME NEW y \in S PROVE <<x>> \o Append(q, y) = Append(p, y)
  <2> DEFINE a == Append(q, y)
             b == Append(p, y)
             c == <<x>> \o a
  <2>1. /\ a \in Seq(S) /\ Len(a) = Len(q) + 1 /\ a[Len(q) + 1] = y
        /\ \A i \in 1..Len(q) : a[i] = q[i]
    BY <1>1, AppendProperties
  <2>2. /\ b \in Seq(S) /\ Len(b) = Len(q) + 2 /\ b[Len(q) + 2] = y
        /\ \A i \in 1..(Len(q) + 1) : b[i] = p[i]
    BY <1>1, AppendProperties
  <2> HIDE DEF a, b
  <2>3. /\ c \in Seq(S) /\ Len(c) = Len(q) + 2 /\ c[1] = x
        /\ \A i \in 1..(Len(q) + 1) : c[i + 1] = a[i]
    BY <1>1, <2>1, ConcatProperties
  <2> HIDE DEF c
  <2>4. ASSUME NEW i \in 1..(Len(q) + 2) PROVE c[i] = b[i]
    <3>1. CASE i = 1
      BY <1>1, <2>2, <2>3, <3>1
    <3>2. CASE i = Len(q) + 2
      BY <1>1, <2>1, <2>2, <2>3, <3>2
    <3>3. CASE i # 1 /\ i # Len(q) + 2
      <4>1. i - 1 \in 1..Len(q) /\ i - 1 \in 1..(Len(q) + 1) /\ (i - 1) + 1 = i
        BY <1>1, <3>3
      <4>2. c[i] = q[i - 1]
        BY <2>1, <2>3, <4>1
      <4>3. p[i] = q[i - 1] /\ i \in 1..(Len(q) + 1)
        BY <1>1, <4>1
      <4>4. QED
        BY <2>2, <4>2, <4>3
    <3>4. QED
      BY <3>1, <3>2, <3>3
  <2>5. QED
    BY <2>2, <2>3, <2>4, SeqEqual DEF a, b, c
<1>5. QED
  BY <1>1, <1>2, <1>3, <1>4 DEF p

\* The box is the queue, behind the message that the worker holds.
LEMMA BoxKnown ==
    ASSUME IInv
    PROVE  /\ queue \in Seq(Msgs) /\ Len(queue) \in Nat /\ Len(queue) <= QueueSize
           /\ Box \in Seq(Msgs) /\ (~Busy => Box = queue)
           /\ Busy => /\ worker.msg \in Msgs /\ status[worker.msg] = "sending"
                      /\ Box = <<worker.msg>> \o queue /\ Len(Box) = Len(queue) + 1
                      /\ Box # <<>> /\ Head(Box) = worker.msg /\ Tail(Box) = queue
<1>1. TypeOK /\ Placed /\ WorkerProgress
  BY DEF IInv, Accounted
<1>2. queue \in Seq(Msgs) /\ Len(queue) \in Nat /\ Len(queue) <= QueueSize
  BY <1>1 DEF TypeOK, Placed
<1>3. CASE ~Busy
  <2>1. Box = queue
    BY <1>2, <1>3, ConcatEmptySeq DEF Box
  <2>2. QED
    BY <1>2, <1>3, <2>1
<1>4. CASE Busy
  <2>1. worker.msg \in Msgs /\ status[worker.msg] = "sending"
    BY <1>1, <1>4 DEF Busy, Placed, WorkerProgress, With
  <2>2. Box = <<worker.msg>> \o queue
    BY <1>4 DEF Box
  <2>3. QED
    BY <1>2, <1>4, <2>1, <2>2, InFront
<1>5. QED
  BY <1>3, <1>4

OutVars == <<Box, Fate, Got, closed, Returned>>

\* What a message's status says of its fate.
LEMMA FateStays ==
    ASSUME \A m \in Msgs :
               \/ status'[m] = status[m]
               \/ status[m] = "new" /\ status'[m] = "adding"
               \/ status[m] = "queued" /\ status'[m] = "sending"
    PROVE  Fate' = Fate
BY DEF Fate

LEMMA FateMoves ==
    ASSUME TypeOK, NEW m \in Msgs, NEW st, status' = [status EXCEPT ![m] = st]
    PROVE  /\ st = "queued" => Fate' = [Fate EXCEPT ![m] = "taken"]
           /\ st = "done" => Fate' = [Fate EXCEPT ![m] = "dealt"]
           /\ st = "dropped" => Fate' = [Fate EXCEPT ![m] = "refused"]
<1>1. status'[m] = st /\ \A n \in Msgs \ {m} : status'[n] = status[n]
  BY DEF TypeOK
<1>2. QED
  BY <1>1 DEF Fate

\* What the channels answered is seen when the message is done, and stays.
LEMMA GotStays ==
    ASSUME \A m \in Msgs :
               /\ status'[m] = "done" <=> status[m] = "done"
               /\ status[m] = "done" => delivered'[m] = delivered[m]
    PROVE  Got' = Got
BY DEF Got, Channels

\* A sender counts its message and offers it to the queue.
LEMMA OfferRefines ==
    ASSUME IInv, NEW m \in Msgs, Add(m) \/ Offer(m)
    PROVE  UNCHANGED OutVars \/ Out!Next
<1>1. TypeOK /\ status \in [Msgs -> Statuses]
  BY DEF IInv, Accounted, TypeOK
<1>2. UNCHANGED <<closed, worker, delivered, stopper>>
  BY DEF Add, Offer
<1>3. Busy' = Busy /\ Returned' = Returned
  BY <1>2 DEF Busy, Returned
<1>4. CASE Add(m)
  <2>1. UNCHANGED queue /\ status[m] = "new" /\ status' = [status EXCEPT ![m] = "adding"]
    BY <1>4 DEF Add
  <2>2. Fate' = Fate
    BY <1>1, <2>1, FateStays
  <2>3. Got' = Got
    BY <1>1, <1>2, <2>1, GotStays
  <2>4. Box' = Box
    BY <1>2, <1>3, <2>1 DEF Box
  <2>5. QED
    BY <1>2, <1>3, <2>2, <2>3, <2>4 DEF OutVars
<1>5. CASE UNCHANGED <<status, queue>>
  <2>1. Fate' = Fate /\ Got' = Got
    BY <1>2, <1>5, FateStays, GotStays
  <2>2. Box' = Box
    BY <1>2, <1>3, <1>5 DEF Box
  <2>3. QED
    BY <1>2, <1>3, <2>1, <2>2 DEF OutVars
<1>6. CASE Offer(m) /\ ~closed /\ Room /\ queue' = Append(queue, m)
           /\ status' = [status EXCEPT ![m] = "queued"]
  <2>1. Fate[m] = "new" /\ Fate' = [Fate EXCEPT ![m] = "taken"]
    BY <1>1, <1>6, FateMoves DEF Fate, Offer
  <2>2. Got' = Got
    BY <1>1, <1>2, <1>6, GotStays DEF Offer
  <2>3. Box' = Append(Box, m) /\ Len(Box) <= QueueSize
    <3>1. CASE Busy
      <4>1. Box' = <<worker.msg>> \o Append(queue, m)
        BY <1>2, <1>3, <1>6, <3>1 DEF Box
      <4>2. QED
        BY <1>6, <3>1, <4>1, BoxKnown, InFront, NotifierAssumption DEF Room
    <3>2. CASE ~Busy
      <4>1. Box' = <<>> \o Append(queue, m) /\ Append(queue, m) \in Seq(Msgs)
        BY <1>3, <1>6, <3>2, BoxKnown DEF Box
      <4>2. QED
        BY <3>2, <4>1, BoxKnown, ConcatEmptySeq
    <3>3. QED
      BY <3>1, <3>2
  <2>4. Out!Take(m)
    BY <1>2, <1>3, <1>6, <2>1, <2>2, <2>3 DEF Out!Take
  <2>5. QED
    BY <2>4 DEF Out!Next
<1>7. CASE Offer(m) /\ ~closed /\ ~Room /\ UNCHANGED queue
           /\ status' = [status EXCEPT ![m] = "dropped"]
  <2>1. Fate[m] = "new" /\ Fate' = [Fate EXCEPT ![m] = "refused"]
    BY <1>1, <1>7, FateMoves DEF Fate, Offer
  <2>2. Got' = Got
    BY <1>1, <1>2, <1>7, GotStays DEF Offer
  <2>3. Box' = Box
    BY <1>2, <1>3, <1>7 DEF Box
  <2>4. Len(Box) >= QueueSize
    BY <1>7, BoxKnown, NotifierAssumption DEF Room
  <2>5. Out!Refuse(m)
    BY <1>2, <1>3, <1>7, <2>1, <2>2, <2>3, <2>4 DEF Out!Refuse
  <2>6. QED
    BY <2>5 DEF Out!Next
<1>8. QED
  BY <1>4, <1>5, <1>6, <1>7 DEF Offer

\* The worker takes a message, waits, or exits: the box is what it was.
LEMMA WorkerRefines ==
    ASSUME IInv, Receive \/ BackoffOver \/ Exit
    PROVE  UNCHANGED OutVars
<1>1. /\ TypeOK /\ Placed /\ status \in [Msgs -> Statuses]
      /\ worker \in [pc : {"recv", "try", "backoff", "exited"},
                     msg : Msgs \cup {NoMsg}, ch : 0..NumChannels, attempt : 0..MaxAttempts]
  BY DEF IInv, Accounted, TypeOK
<1>2. UNCHANGED <<closed, delivered, stopper>> /\ Returned' = Returned
  BY DEF Receive, BackoffOver, Exit, Returned
<1>3. CASE Receive
  <2> DEFINE m == Head(queue)
  <2>1. /\ queue # <<>> /\ worker.pc = "recv" /\ worker'.pc = "try" /\ worker'.msg = m
        /\ queue' = Tail(queue) /\ status' = [status EXCEPT ![m] = "sending"]
    BY <1>3 DEF Receive
  <2>2. m \in Msgs /\ status[m] = "queued"
    <3>1. queue \in Seq(Msgs) /\ Distinct(queue)
      BY <1>1 DEF TypeOK, Placed, Distinct
    <3>2. m \in Msgs /\ Has(queue, m)
      BY <2>1, <3>1, Received
    <3>3. QED
      BY <1>1, <3>2 DEF Placed, Has
  <2>3. Fate' = Fate /\ Got' = Got
    <3> HIDE DEF m
    <3>1. \A n \in Msgs : status'[n] = status[n] \/ (status[n] = "queued" /\ status'[n] = "sending")
      BY <1>1, <2>1, <2>2
    <3>2. QED
      BY <1>2, <3>1, FateStays, GotStays
  <2>4. Box = queue /\ Box' = <<m>> \o Tail(queue)
    BY <2>1, BoxKnown DEF Box, Busy
  <2>5. <<m>> \o Tail(queue) = queue
    <3> DEFINE q == Tail(queue)
               p == <<m>> \o q
    <3>1. queue \in Seq(Msgs) /\ Len(queue) \in Nat /\ m = queue[1] /\ m \in Msgs
          /\ q \in Seq(Msgs) /\ Len(q) = Len(queue) - 1
          /\ \A i \in 1..Len(q) : q[i] = queue[i + 1]
      BY <2>1, <2>2, BoxKnown, HeadTailProperties
    <3> HIDE DEF m, q
    <3>2. /\ p \in Seq(Msgs) /\ Len(p) = Len(queue) /\ p[1] = m
          /\ \A i \in 1..Len(q) : p[i + 1] = q[i]
      BY <3>1, ConcatProperties
    <3> HIDE DEF p
    <3>3. ASSUME NEW i \in 1..Len(queue) PROVE p[i] = queue[i]
      <4>1. CASE i = 1
        BY <3>1, <3>2, <4>1
      <4>2. CASE i # 1
        <5>1. i - 1 \in 1..Len(q) /\ (i - 1) + 1 = i
          BY <3>1, <4>2
        <5>2. QED
          BY <3>1, <3>2, <5>1
      <4>3. QED
        BY <4>1, <4>2
    <3>4. p = queue
      BY <3>1, <3>2, <3>3, SeqEqual
    <3>5. QED
      BY <3>4 DEF p, q
  <2>6. QED
    BY <1>2, <2>3, <2>4, <2>5 DEF OutVars
<1>4. CASE BackoffOver \/ Exit
  <2>1. UNCHANGED <<status, queue>> /\ Busy' = Busy /\ (Busy => worker'.msg = worker.msg)
    BY <1>1, <1>4 DEF BackoffOver, Exit, Busy, Idle
  <2>2. Fate' = Fate /\ Got' = Got
    BY <1>2, <2>1, FateStays, GotStays
  <2>3. Box' = Box
    BY <2>1 DEF Box
  <2>4. QED
    BY <1>2, <2>2, <2>3 DEF OutVars
<1>5. QED
  BY <1>3, <1>4

\* An attempt ends: the message stays in the box until its last channel has answered.
LEMMA AttemptRefines ==
    ASSUME IInv, NEW ok \in BOOLEAN, Attempt(ok)
    PROVE  UNCHANGED OutVars \/ Out!Next
<1> DEFINE m == worker.msg
<1>1. /\ TypeOK /\ status \in [Msgs -> Statuses] /\ delivered \in Counts
      /\ worker \in [pc : {"recv", "try", "backoff", "exited"},
                     msg : Msgs \cup {NoMsg}, ch : 0..NumChannels, attempt : 0..MaxAttempts]
  BY DEF IInv, Accounted, TypeOK
<1>2. UNCHANGED <<queue, closed, stopper>> /\ Returned' = Returned /\ worker.pc = "try"
  BY DEF Attempt, Returned
<1>3. Busy /\ m \in Msgs /\ status[m] = "sending"
  BY <1>2, BoxKnown DEF Busy
<1>4. \A n \in Msgs \ {m} : delivered'[n] = delivered[n]
  BY <1>1, <1>3 DEF Attempt, Counts
<1>5. CASE status' = status /\ worker'.pc \in {"try", "backoff"} /\ worker'.msg = m
  <2>1. Box' = Box
    BY <1>2, <1>3, <1>5 DEF Box, Busy
  <2>2. Fate' = Fate
    BY <1>5, FateStays
  <2>3. Got' = Got
    BY <1>3, <1>4, <1>5, GotStays
  <2>4. QED
    BY <1>2, <2>1, <2>2, <2>3 DEF OutVars
<1>6. CASE worker' = Idle /\ status' = [status EXCEPT ![m] = "done"]
  <2>1. ~Busy' /\ Box' = queue /\ Box # <<>> /\ m = Head(Box) /\ Box' = Tail(Box)
    <3>1. ~Busy' /\ Box' = <<>> \o queue
      BY <1>2, <1>6 DEF Box, Busy, Idle
    <3>2. QED
      BY <1>3, <3>1, BoxKnown, ConcatEmptySeq
  <2>2. Fate' = [Fate EXCEPT ![m] = "dealt"]
    BY <1>1, <1>3, <1>6, FateMoves
  <2>3. Got' = [Got EXCEPT ![m] = {c \in Channels : delivered'[m][c] = 1}]
    <3>1. /\ status'[m] = "done" /\ \A n \in Msgs \ {m} : status'[n] = status[n]
          /\ Channels' = Channels
      BY <1>1, <1>3, <1>6 DEF Channels
    <3> HIDE DEF m
    <3>2. QED
      BY <1>3, <1>4, <3>1 DEF Got
  <2>4. {c \in Channels : delivered'[m][c] = 1} \in SUBSET Channels
    OBVIOUS
  <2>5. Out!Deal(m)
    <3> HIDE DEF m
    <3>1. QED
      BY <1>2, <2>1, <2>2, <2>3, <2>4 DEF Out!Deal
  <2>6. QED
    BY <1>3, <2>5 DEF Out!Next
<1>7. \/ status' = status /\ worker'.pc \in {"try", "backoff"} /\ worker'.msg = m
      \/ worker' = Idle /\ status' = [status EXCEPT ![m] = "done"]
  BY <1>1 DEF Attempt, NextChannel
<1>8. QED
  BY <1>5, <1>6, <1>7

\* Stop closes the queue and returns; Flush is not seen.
LEMMA WaitRefines ==
    ASSUME IInv,
           \/ \E s \in Stoppers : Close(s) \/ Stopped(s)
           \/ \E f \in Flushers : BeginFlush(f) \/ Flushed(f)
    PROVE  UNCHANGED OutVars \/ Out!Next
<1>1. UNCHANGED <<status, queue, worker, delivered>>
  BY DEF Close, Stopped, BeginFlush, Flushed
<1>2. Fate' = Fate /\ Got' = Got /\ Box' = Box
  BY <1>1, FateStays, GotStays DEF Box, Busy
<1>3. CASE UNCHANGED <<closed, stopper>>
  BY <1>2, <1>3 DEF OutVars, Returned
<1>4. ASSUME NEW s \in Stoppers, Close(s) PROVE UNCHANGED OutVars \/ Out!Next
  <2>1. Returned' = Returned
    BY <1>4 DEF Close, Returned, IInv, Accounted, TypeOK
  <2>2. CASE closed
    BY <1>2, <1>4, <2>1, <2>2 DEF OutVars, Close
  <2>3. CASE ~closed
    <3>1. Out!Shut
      BY <1>2, <1>4, <2>1, <2>3 DEF Out!Shut, Close
    <3>2. QED
      BY <3>1 DEF Out!Next
  <2>4. QED
    BY <2>2, <2>3
<1>5. ASSUME NEW s \in Stoppers, Stopped(s) PROVE Out!Next
  <2>1. closed /\ queue = <<>> /\ worker.pc = "exited" /\ closed' = closed
    BY <1>5 DEF Stopped, IInv, WorkerProgress, Drained
  <2>2. Box = <<>>
    BY <2>1, BoxKnown DEF Busy
  <2>3. Returned' = Returned \cup {s}
    BY <1>5 DEF Stopped, Returned, IInv, Accounted, TypeOK
  <2>4. Out!Return(s)
    BY <1>2, <2>1, <2>2, <2>3 DEF Out!Return
  <2>5. QED
    BY <2>4 DEF Out!Next
<1>6. QED
  BY <1>3, <1>4, <1>5 DEF BeginFlush, Flushed

LEMMA OutRefines == IInv /\ [Next]_vars => [Out!Next]_OutVars
<1> SUFFICES ASSUME IInv, [Next]_vars PROVE Out!Next \/ UNCHANGED OutVars
  OBVIOUS
<1>1. CASE Send
  BY <1>1, OfferRefines DEF Send
<1>2. CASE Run
  BY <1>2, WorkerRefines, AttemptRefines DEF Run
<1>3. CASE Stop \/ Flush
  BY <1>3, WaitRefines DEF Stop, Flush
<1>4. CASE UNCHANGED vars
  <2>1. UNCHANGED <<status, queue, worker, delivered, closed, stopper>>
    BY <1>4 DEF vars
  <2>2. Fate' = Fate /\ Got' = Got
    BY <2>1, FateStays, GotStays
  <2>3. QED
    BY <2>1, <2>2 DEF OutVars, Box, Busy, Returned
<1>5. QED
  BY <1>1, <1>2, <1>3, <1>4 DEF Next

LEMMA OutInit == Init => Out!Init
<1> SUFFICES ASSUME Init PROVE Out!Init
  OBVIOUS
<1>1. Fate = [m \in Msgs |-> "new"] /\ Got = [m \in Msgs |-> {}] /\ Returned = {}
  BY DEF Init, Fate, Got, Returned
<1>2. Box = <<>> \o <<>> /\ closed = FALSE
  BY DEF Init, Box, Busy, Idle
<1>3. QED
  BY <1>1, <1>2, ConcatEmptySeq DEF Out!Init

\* With its queue, worker, retries and wait group, the notifier implements Outbox: a
\* notification is refused only by a full queue, and the others are dealt with one at
\* a time in the order they were taken, all of them before Stop returns.
THEOREM NotifierImplementsOutbox == Spec => OutboxSpec
<1>1. IInv /\ [Next]_vars => [Out!Next]_<<Box, Fate, Got, closed, Returned>>
  BY OutRefines DEF OutVars
<1>2. QED
  BY <1>1, OutInit, NotifierInvariant, PTL DEF Spec, OutboxSpec, Out!Spec
=============================================================================
