------------------------- MODULE SocketServerProofs -------------------------
(***************************************************************************)
(* Proofs about SocketServer, for any connections, requests, filters and   *)
(* buffers: the hub, the subscriptions and the tokens agree with the       *)
(* connections that are served, Publish never sends on a closed channel,   *)
(* a request is answered once, and test notifications keep their distance. *)
(***************************************************************************)
EXTENDS SocketServer, FiniteSetTheorems, SequenceTheorems, TLAPS

\* A token more or less is a served connection more or less.
LEMMA Tokens ==
    /\ IsFiniteSet(Served) /\ Cardinality(Served) \in Nat
    /\ \A c \in Conn : c \notin Served /\ Served' = Served \union {c}
                        => Cardinality(Served') = Cardinality(Served) + 1
    /\ \A c \in Served : Served' = Served \ {c}
                        => Cardinality(Served') = Cardinality(Served) - 1
    /\ \A c \in Served : Cardinality(Served) > 0
<1>1. Served \subseteq Conn
  BY DEF Served
<1>2. IsFiniteSet(Served) /\ Cardinality(Served) \in Nat
  BY <1>1, ServerAssumption, FS_Subset, FS_CardinalityType
<1>3. Served = {} <=> Cardinality(Served) = 0
  BY <1>2, FS_EmptySet
<1>4. \A c \in Conn : c \notin Served /\ Served' = Served \union {c}
                     => Cardinality(Served') = Cardinality(Served) + 1
  BY <1>2, FS_AddElement
<1>5. \A c \in Served : Served' = Served \ {c}
                     => Cardinality(Served') = Cardinality(Served) - 1
  BY <1>2, FS_RemoveElement
<1>6. \A c \in Served : Cardinality(Served) > 0
  BY <1>2, <1>3
<1>7. QED
  BY <1>2, <1>4, <1>5, <1>6

\* A subscriber, a connection's own name and "no one" are told apart.
LEMMA Holders ==
    ASSUME NEW c \in Conn
    PROVE  /\ NoOne # <<c>> /\ NoOne \notin Subscriber /\ <<c>> \notin Subscriber
           /\ \A d \in Conn : <<c>> = <<d>> => c = d
BY DEF NoOne, Subscriber

\* Where a handler may be, and what it may then have still to do and have said.
Stays(stage, rest, said) ==
    /\ stage \in {"reading", "handling", "writing"}
    /\ said.written + said.lost <= 1
    /\ stage \in {"handling", "writing"} => said.written + said.lost = 0
    /\ stage = "reading" /\ said.to \in Awaited => said.written + said.lost = 1
    /\ stage = "handling" => rest.kind = said.to
    /\ stage = "writing" => rest = NoTask
    /\ rest.now # 0 => rest.kind = "test"

\* A step of the handler: the connection is served as before, and what it has said
\* fits where it is.
LEMMA Moved ==
    ASSUME IInv, NEW c \in Conn, conn[c] \in {"reading", "handling", "writing"},
           NEW stage, NEW rest \in Task, NEW said \in Spoken, Stays(stage, rest, said),
           conn' = [conn EXCEPT ![c] = stage],
           task' = [task EXCEPT ![c] = rest],
           reply' = [reply EXCEPT ![c] = said],
           DOMAIN script' = DOMAIN script, DOMAIN writer' = Conn,
           \A d \in Conn : writer'[d] = <<d>> => writer[d] = <<d>>,
           writer'[c] = <<c>> => stage = "writing",
           UNCHANGED lifeVars
    PROVE  /\ task' \in [Conn -> Task]
           /\ conn' \in [Conn -> Stage]
           /\ reply' \in [Conn -> Spoken]
           /\ \A d \in Conn : conn'[d] \in Slotted <=> conn[d] \in Slotted
           /\ SlotsExact' /\ StoppedIsQuiet' /\ AnsweredOnce' /\ AnswerDue'
<1>1. /\ conn \in [Conn -> Stage] /\ task \in [Conn -> Task] /\ reply \in [Conn -> Spoken]
      /\ stage \in {"reading", "handling", "writing"}
  BY DEF IInv, ConnectionsExact, TypeOK, Stays
<1>2. task' \in [Conn -> Task] /\ reply' \in [Conn -> Spoken]
  BY <1>1
<1>3. conn' \in [Conn -> Stage]
  BY <1>1 DEF Stage, Counted, Slotted
<1>4. /\ \A d \in Conn : d # c => conn'[d] = conn[d] /\ task'[d] = task[d] /\ reply'[d] = reply[d]
      /\ conn'[c] = stage /\ task'[c] = rest /\ reply'[c] = said
  BY <1>1
<1>5. \A d \in Conn : conn'[d] \in Slotted <=> conn[d] \in Slotted
  BY <1>1, <1>4 DEF Slotted
<1>6. SlotsExact'
  <2>1. Served' = Served
    BY <1>5 DEF Served
  <2>2. QED
    BY <2>1 DEF SlotsExact, IInv, ConnectionsExact, lifeVars
<1>7. StoppedIsQuiet'
  BY <1>4, <1>5 DEF IInv, ConnectionsExact, StoppedIsQuiet, lifeVars, Counted, Slotted
<1>8. AnsweredOnce'
  <2>1. ASSUME NEW d \in Conn
        PROVE  /\ reply'[d].written + reply'[d].lost <= 1
               /\ conn'[d] = "reading" /\ reply'[d].to \in Awaited
                    => reply'[d].written + reply'[d].lost = 1
    <3>1. CASE d = c
      BY <1>4, <3>1 DEF Stays
    <3>2. CASE d # c
      BY <1>4, <3>2 DEF IInv, AnsweredOnce, Said
    <3>3. QED
      BY <3>1, <3>2
  <2>2. QED
    BY <2>1 DEF AnsweredOnce, Said
<1>9. AnswerDue'
  <2>1. ASSUME NEW d \in Conn
        PROVE  /\ conn'[d] # "absent" => d \in DOMAIN script'
               /\ conn'[d] = "absent" => reply'[d].to \notin Awaited
               /\ conn'[d] \in {"handling", "writing"} => reply'[d].written + reply'[d].lost = 0
               /\ conn'[d] = "handling" => task'[d].kind = reply'[d].to
               /\ conn'[d] = "writing" => task'[d] = NoTask
               /\ task'[d].now # 0 => task'[d].kind = "test"
               /\ writer'[d] = <<d>> => conn'[d] = "writing"
    <3>1. CASE d = c
      BY <1>1, <1>4, <3>1 DEF Stays, IInv, AnswerDue
    <3>2. CASE d # c
      BY <1>4, <3>2 DEF IInv, AnswerDue, Said
    <3>3. QED
      BY <3>1, <3>2
  <2>2. QED
    BY <2>1 DEF AnswerDue, Said
<1>10. QED
  BY <1>2, <1>3, <1>5, <1>6, <1>7, <1>8, <1>9

\* What is known of a handler by where it is.
LEMMA Handling ==
    ASSUME IInv, NEW c \in Conn
    PROVE  /\ conn[c] = "handling" => c \in DOMAIN script /\ task[c].kind = reply[c].to
           /\ conn[c] \in {"handling", "writing"} => reply[c].written + reply[c].lost = 0
           /\ conn[c] = "writing" => task[c] = NoTask
           /\ task[c].now # 0 => task[c].kind = "test"
           /\ writer[c] = <<c>> => conn[c] = "writing"
           /\ NoTask \in Task /\ task[c] \in Task /\ reply[c] \in Spoken
           /\ DOMAIN writer = Conn
<1>1. NoTask \in Task
  BY ServerAssumption DEF NoTask, Task
<1>2. QED
  BY <1>1 DEF IInv, ConnectionsExact, TypeOK, AnswerDue, Said

\* A request just read: nothing checked, nothing said.
LEMMA FirstWord ==
    ASSUME NEW kind \in Request
    PROVE  /\ [NoTask EXCEPT !.kind = kind] \in Task
           /\ [NoReply EXCEPT !.to = kind] \in Spoken
           /\ Stays("handling", [NoTask EXCEPT !.kind = kind], [NoReply EXCEPT !.to = kind])
<1>1. /\ [NoTask EXCEPT !.kind = kind] \in Task
      /\ [NoTask EXCEPT !.kind = kind].kind = kind /\ [NoTask EXCEPT !.kind = kind].now = 0
  <2>1. NoTask \in Task /\ NoTask.now = 0
    BY ServerAssumption DEF NoTask, Task
  <2>2. QED
    BY <2>1 DEF Task
<1>2. /\ [NoReply EXCEPT !.to = kind] \in Spoken
      /\ [NoReply EXCEPT !.to = kind].to = kind
      /\ [NoReply EXCEPT !.to = kind].written = 0 /\ [NoReply EXCEPT !.to = kind].lost = 0
  BY DEF NoReply, Spoken
<1>3. QED
  BY <1>1, <1>2 DEF Stays

\* The silent end of a handler, of a request that awaits no answer.
LEMMA Finished ==
    ASSUME IInv, NEW c \in Conn, conn[c] = "handling", task[c].kind \notin Awaited, Finish(c),
           UNCHANGED <<lifeVars, writer>>
    PROVE  /\ task' \in [Conn -> Task]
           /\ conn' \in [Conn -> Stage]
           /\ reply' \in [Conn -> Spoken]
           /\ UNCHANGED <<shut, gone, script>>
           /\ \A d \in Conn : conn'[d] \in Slotted <=> conn[d] \in Slotted
           /\ SlotsExact' /\ StoppedIsQuiet' /\ AnsweredOnce' /\ AnswerDue'
<1>1. /\ task' = [task EXCEPT ![c] = NoTask]
      /\ conn' = [conn EXCEPT ![c] = "reading"]
      /\ UNCHANGED <<shut, gone, script, reply>>
  BY DEF Finish
<1>2. reply' = [reply EXCEPT ![c] = reply[c]]
  BY <1>1 DEF IInv, ConnectionsExact, TypeOK
<1>3. Stays("reading", NoTask, reply[c]) /\ writer[c] # <<c>>
  BY Handling DEF Stays, NoTask
<1>4. QED
  BY <1>1, <1>2, <1>3, Handling, Moved

\* A handler says its last word.
LEMMA Spoke ==
    ASSUME IInv, NEW c \in Conn, conn[c] = "handling", Say(c, NoTask),
           UNCHANGED <<lifeVars, writer>>
    PROVE  /\ task' \in [Conn -> Task]
           /\ conn' \in [Conn -> Stage]
           /\ reply' \in [Conn -> Spoken]
           /\ UNCHANGED <<shut, gone, script>>
           /\ \A d \in Conn : conn'[d] \in Slotted <=> conn[d] \in Slotted
           /\ SlotsExact' /\ StoppedIsQuiet' /\ AnsweredOnce' /\ AnswerDue'
<1>1. /\ task' = [task EXCEPT ![c] = NoTask]
      /\ conn' = [conn EXCEPT ![c] = "writing"]
      /\ UNCHANGED <<shut, gone, script, reply>>
  BY DEF Say
<1>2. reply' = [reply EXCEPT ![c] = reply[c]]
  BY <1>1 DEF IInv, ConnectionsExact, TypeOK
<1>3. Stays("writing", NoTask, reply[c])
  BY Handling DEF Stays, NoTask
<1>4. QED
  BY <1>1, <1>2, <1>3, Handling, Moved

\* A handler goes on handling.
LEMMA WorksOn ==
    ASSUME IInv, NEW c \in Conn, conn[c] = "handling", NEW rest \in Task,
           rest.kind = task[c].kind, rest.now # 0 => rest.kind = "test",
           task' = [task EXCEPT ![c] = rest], UNCHANGED <<conn, script, reply>>,
           UNCHANGED <<lifeVars, writer>>
    PROVE  /\ task' \in [Conn -> Task]
           /\ conn' \in [Conn -> Stage]
           /\ reply' \in [Conn -> Spoken]
           /\ \A d \in Conn : conn'[d] \in Slotted <=> conn[d] \in Slotted
           /\ SlotsExact' /\ StoppedIsQuiet' /\ AnsweredOnce' /\ AnswerDue'
<1>1. /\ reply' = [reply EXCEPT ![c] = reply[c]]
      /\ conn' = [conn EXCEPT ![c] = "handling"]
  BY DEF IInv, ConnectionsExact, TypeOK
<1>2. Stays("handling", rest, reply[c]) /\ writer[c] # <<c>>
  BY Handling DEF Stays
<1>3. QED
  BY <1>1, <1>2, Handling, Moved

\* An answer was written or lost, and the lock of the connection is free again or as
\* it was.
LEMMA Answered ==
    ASSUME IInv, NEW c \in Conn, conn[c] = "writing", Proceed(c), NEW said \in Spoken,
           said.written + said.lost = 1,
           reply' = [reply EXCEPT ![c] = said],
           DOMAIN writer' = Conn, writer'[c] # <<c>>,
           \A d \in Conn : writer'[d] = <<d>> => writer[d] = <<d>>
    PROVE  /\ task' \in [Conn -> Task]
           /\ conn' \in [Conn -> Stage]
           /\ reply' \in [Conn -> Spoken]
           /\ \A d \in Conn : conn'[d] \in Slotted <=> conn[d] \in Slotted
           /\ SlotsExact' /\ StoppedIsQuiet' /\ AnsweredOnce' /\ AnswerDue'
<1>1. /\ conn' = [conn EXCEPT ![c] = "reading"] /\ UNCHANGED <<script, task, lifeVars>>
  BY Handling DEF Proceed
<1>2. task' = [task EXCEPT ![c] = NoTask]
  BY <1>1, Handling DEF IInv, ConnectionsExact, TypeOK
<1>3. Stays("reading", NoTask, said)
  BY DEF Stays, NoTask
<1>4. QED
  BY <1>1, <1>2, <1>3, Handling, Moved

\* A write finds room, or finds the connection broken and adds nothing.
LEMMA WriteRoom ==
    ASSUME TypeOK, NEW c \in Conn, CanWrite(c), Written(c)
    PROVE  unread' \in [Conn -> 0..SocketBuf]
<1>1. unread \in [Conn -> 0..SocketBuf] /\ SocketBuf \in Nat
  BY ServerAssumption DEF TypeOK
<1>2. CASE Broken(c)
  BY <1>1, <1>2 DEF Written
<1>3. CASE ~Broken(c)
  <2>1. unread[c] < SocketBuf /\ unread' = [unread EXCEPT ![c] = @ + 1]
    BY <1>3 DEF Written, CanWrite
  <2>2. unread[c] + 1 \in 0..SocketBuf
    BY <1>1, <2>1
  <2>3. QED
    BY <1>1, <2>1, <2>2
<1>4. QED
  BY <1>2, <1>3

\* The deferred and the explicit end of a subscription: what the hub knows after it.
LEMMA Removed ==
    ASSUME IInv, NEW c \in Conn, Remove(c), UNCHANGED <<fwd, pub>>,
           \A d \in Conn : d # c => (conn[d] \in Slotted => conn'[d] \in Slotted)
    PROVE  /\ hub' \subseteq Subscriber /\ closedCh' \subseteq Subscriber
           /\ subs' \in [Conn -> SUBSET Subscriber]
           /\ UNCHANGED <<cancelled, filter>>
           /\ HubExact' /\ HubSafe'
<1> USE DEF IInv, ConnectionsExact, Stage, Task, Goroutine
<1>1. /\ ~pub.on /\ hub' = hub \ subs[c] /\ closedCh' = closedCh \union subs[c]
      /\ subs' = [subs EXCEPT ![c] = {}] /\ UNCHANGED <<cancelled, filter>>
  BY DEF Remove, HubFree
<1>2. /\ hub' \subseteq Subscriber /\ closedCh' \subseteq Subscriber
      /\ subs' \in [Conn -> SUBSET Subscriber]
  BY <1>1 DEF TypeOK
<1>3. subs'[c] = {} /\ \A d \in Conn : d # c => subs'[d] = subs[d]
  BY <1>1 DEF TypeOK
<1>4. \A d \in Conn : \A s \in subs[d] : s \in Subscriber /\ s[1] = d
  BY DEF TypeOK, HubSafe
<1>5. HubExact'
  <2>1. ASSUME NEW s \in Subscriber PROVE s \in hub' <=> \E d \in Conn : s \in subs'[d]
    <3>1. CASE s \in subs[c]
      BY <1>1, <1>3, <1>4, <3>1
    <3>2. CASE s \notin subs[c]
      BY <1>1, <1>3, <3>2 DEF HubExact
    <3>3. QED
      BY <3>1, <3>2
  <2>2. \A d \in Conn : (\A s, t \in subs'[d] : s = t) /\ (subs'[d] # {} => conn'[d] \in Slotted)
    BY <1>3 DEF HubExact
  <2>3. QED
    BY <2>1, <2>2 DEF HubExact
<1>6. HubSafe'
  <2>1. \A d \in Conn : \A s \in subs'[d] : s[1] = d /\ fwd[s].at # "unused" /\ s \notin closedCh'
    BY <1>1, <1>3, <1>4 DEF HubSafe
  <2>2. \A s \in closedCh' : fwd[s].at # "unused"
    BY <1>1 DEF HubSafe
  <2>3. QED
    BY <1>1, <2>1, <2>2 DEF HubSafe
<1>7. QED
  BY <1>1, <1>2, <1>5, <1>6

-----------------------------------------------------------------------------
(* The first state and the steps *)

LEMMA InvInit == Init => IInv
<1> USE DEF Stage, Task, Goroutine
<1> SUFFICES ASSUME Init PROVE IInv
  OBVIOUS
<1>1. TypeOK
  <2>1. NoTask \in Task
    BY ServerAssumption DEF NoTask
  <2>2. \A s \in Subscriber : buf[s] \in Seq(1..MaxPublished)
    BY EmptySeq DEF Init
  <2>3. sent \in [Conn -> Seq(1..MaxPublished)] /\ buf \in [Subscriber -> Seq(1..MaxPublished)]
    BY EmptySeq DEF Init
  <2>4. fwd \in [Subscriber -> Goroutine]
    BY ServerAssumption DEF Init
  <2>5. /\ accepting \in BOOLEAN /\ panicked \in BOOLEAN
        /\ pub \in [on : BOOLEAN, left : SUBSET Subscriber]
    BY DEF Init
  <2>6. DOMAIN script \subseteq Conn /\ \A c \in DOMAIN script : script[c] \in Seq(Request)
    BY ServerAssumption DEF Init
  <2>7. /\ task \in [Conn -> Task]
        /\ conn \in [Conn -> Stage]
        /\ \A c \in Conn : writer[c] = NoOne
    BY <2>1 DEF Init
  <2>8. reply \in [Conn -> Spoken] /\ unread \in [Conn -> 0..SocketBuf]
    BY ServerAssumption DEF Init, NoReply, Spoken
  <2>9. QED
    BY <2>3, <2>4, <2>5, <2>6, <2>7, <2>8, ServerAssumption DEF Init, TypeOK
<1>2. HubExact
  BY DEF Init, HubExact
<1>3. SlotsExact
  <2>1. Served = {}
    BY DEF Init, Served, Slotted
  <2>2. QED
    BY <2>1, FS_EmptySet DEF Init, SlotsExact
<1>4. NoSendOnClosed /\ StoppedIsQuiet /\ AnsweredOnce
  BY DEF Init, NoSendOnClosed, StoppedIsQuiet, AnsweredOnce, Said, NoReply, Awaited
<1>5. HubSafe
  BY DEF Init, HubSafe
<1>6. AnswerDue
  BY Holders DEF Init, AnswerDue, NoTask, NoReply, Awaited
<1>7. QED
  BY <1>1, <1>2, <1>3, <1>4, <1>5, <1>6 DEF IInv, ConnectionsExact

\* Clients come, read and go; their connection is closed by Stop.
LEMMA LifeStep ==
    ASSUME IInv, NEW c \in Conn,
           Receive(c) \/ Leave(c) \/ Accept(c) \/ Watch(c)
    PROVE  IInv'
<1> USE ServerAssumption DEF IInv, ConnectionsExact, Stage, Task, Goroutine, Said,
        lifeVars, connVars, wireVars, subVars, chanVars, pubVars, timeVars
<1>1. CASE Receive(c)
  <2>1. TypeOK'
    BY <1>1 DEF Receive, TypeOK
  <2>2. HubExact' /\ NoSendOnClosed' /\ SlotsExact' /\ StoppedIsQuiet' /\ HubSafe'
        /\ AnsweredOnce' /\ AnswerDue'
    BY <1>1
       DEF Receive, HubExact, NoSendOnClosed, SlotsExact, StoppedIsQuiet, HubSafe,
           AnsweredOnce, AnswerDue, Served
  <2>3. QED
    BY <2>1, <2>2
<1>2. CASE Leave(c)
  <2>1. TypeOK'
    BY <1>2 DEF Leave, TypeOK
  <2>2. HubExact' /\ NoSendOnClosed' /\ SlotsExact' /\ StoppedIsQuiet' /\ HubSafe'
        /\ AnsweredOnce' /\ AnswerDue'
    BY <1>2
       DEF Leave, HubExact, NoSendOnClosed, SlotsExact, StoppedIsQuiet, HubSafe,
           AnsweredOnce, AnswerDue, Served
  <2>3. QED
    BY <2>1, <2>2
<1>3. CASE Accept(c)
  <2>1. /\ accepting /\ stop \in {"no", "cancelled"} /\ conn[c] = "absent" /\ c \in DOMAIN script
        /\ UNCHANGED <<stop, accepting, gone, script, task, reply>>
        /\ UNCHANGED <<wireVars, subVars, chanVars, pubVars, timeVars>>
    BY <1>3 DEF Accept
  <2>2. \/ /\ slots < MaxConnections /\ slots' = slots + 1 /\ shut' = shut
           /\ conn' = [conn EXCEPT ![c] = "reading"]
        \/ slots' = slots /\ shut' = shut \union {c} /\ conn' = [conn EXCEPT ![c] = "done"]
    BY <1>3 DEF Accept
  <2>3. /\ conn' \in [Conn -> Stage]
        /\ conn'[c] \in {"reading", "done"} /\ \A d \in Conn : d # c => conn'[d] = conn[d]
    BY <2>2 DEF TypeOK, Counted, Slotted
  <2>4. TypeOK'
    <3>1. slots' \in 0..MaxConnections /\ shut' \subseteq Conn
      BY <2>2 DEF TypeOK
    <3>2. QED
      BY <2>1, <2>3, <3>1 DEF TypeOK
  <2>5. HubExact'
    BY <2>1, <2>3 DEF HubExact, Slotted
  <2>6. SlotsExact'
    <3>1. CASE slots' = slots + 1 /\ conn' = [conn EXCEPT ![c] = "reading"]
      <4>1. c \notin Served /\ Served' = Served \union {c}
        BY <2>1, <2>3, <3>1 DEF Served, Slotted, TypeOK
      <4>2. QED
        BY <3>1, <4>1, Tokens DEF SlotsExact
    <3>2. CASE slots' = slots /\ conn' = [conn EXCEPT ![c] = "done"]
      <4>1. Served' = Served
        BY <2>1, <2>3, <3>2 DEF Served, Slotted, TypeOK
      <4>2. QED
        BY <3>2, <4>1 DEF SlotsExact
    <3>3. QED
      BY <2>2, <3>1, <3>2
  <2>7. NoSendOnClosed' /\ HubSafe' /\ StoppedIsQuiet'
    BY <2>1 DEF NoSendOnClosed, HubSafe, StoppedIsQuiet
  <2>8. AnswerDue'
    BY <2>1, <2>3 DEF AnswerDue
  <2>9. AnsweredOnce'
    <3>1. reply[c].to \notin Awaited
      BY <2>1 DEF AnswerDue
    <3>2. QED
      BY <2>1, <2>3, <3>1 DEF AnsweredOnce, Said
  <2>10. QED
    BY <2>4, <2>5, <2>6, <2>7, <2>8, <2>9
<1>4. CASE Watch(c)
  <2>1. TypeOK'
    BY <1>4 DEF Watch, TypeOK
  <2>2. HubExact' /\ NoSendOnClosed' /\ SlotsExact' /\ StoppedIsQuiet' /\ HubSafe'
        /\ AnsweredOnce' /\ AnswerDue'
    BY <1>4
       DEF Watch, HubExact, NoSendOnClosed, SlotsExact, StoppedIsQuiet, HubSafe,
           AnsweredOnce, AnswerDue, Served
  <2>3. QED
    BY <2>1, <2>2
<1>5. QED
  BY <1>1, <1>2, <1>3, <1>4

\* acceptLoop, Stop and the ends of Publish.
LEMMA GlobalStep ==
    ASSUME IInv, 
           AcceptFails \/ StopCancels \/ StopCloses \/ StopReturns \/
           Publish \/ PublishEnds
    PROVE  IInv'
<1> USE ServerAssumption DEF IInv, ConnectionsExact, Stage, Task, Goroutine, Said,
        lifeVars, connVars, wireVars, subVars, chanVars, pubVars, timeVars
<1>1. CASE AcceptFails
  <2>1. TypeOK'
    BY <1>1 DEF AcceptFails, TypeOK
  <2>2. StoppedIsQuiet'
    BY <1>1 DEF AcceptFails, StoppedIsQuiet, TypeOK, Counted, Slotted
  <2>3. HubExact' /\ NoSendOnClosed' /\ SlotsExact' /\ HubSafe' /\ AnsweredOnce'
        /\ AnswerDue'
    BY <1>1
       DEF AcceptFails, HubExact, NoSendOnClosed, SlotsExact, HubSafe,
           AnsweredOnce, AnswerDue, Served
  <2>4. QED
    BY <2>1, <2>2, <2>3
<1>2. CASE StopCancels
  <2>1. TypeOK'
    BY <1>2 DEF StopCancels, StopStep, TypeOK
  <2>2. StoppedIsQuiet'
    BY <1>2 DEF StopCancels, StopStep, StoppedIsQuiet, TypeOK, Counted, Slotted
  <2>3. HubExact' /\ NoSendOnClosed' /\ SlotsExact' /\ HubSafe' /\ AnsweredOnce'
        /\ AnswerDue'
    BY <1>2
       DEF StopCancels, HubExact, NoSendOnClosed, SlotsExact, HubSafe,
           AnsweredOnce, AnswerDue, Served, StopStep
  <2>4. QED
    BY <2>1, <2>2, <2>3
<1>3. CASE StopCloses
  <2>1. TypeOK'
    BY <1>3 DEF StopCloses, StopStep, TypeOK
  <2>2. StoppedIsQuiet'
    BY <1>3 DEF StopCloses, StopStep, StoppedIsQuiet, TypeOK, Counted, Slotted
  <2>3. HubExact' /\ NoSendOnClosed' /\ SlotsExact' /\ HubSafe' /\ AnsweredOnce'
        /\ AnswerDue'
    BY <1>3
       DEF StopCloses, HubExact, NoSendOnClosed, SlotsExact, HubSafe,
           AnsweredOnce, AnswerDue, Served, StopStep
  <2>4. QED
    BY <2>1, <2>2, <2>3
<1>4. CASE StopReturns
  <2>1. TypeOK'
    BY <1>4 DEF StopReturns, StopStep, Waited, TypeOK
  <2>2. StoppedIsQuiet'
    BY <1>4
       DEF StopReturns, StopStep, Waited, StoppedIsQuiet, TypeOK, Counted, Slotted
  <2>3. HubExact' /\ NoSendOnClosed' /\ SlotsExact' /\ HubSafe' /\ AnsweredOnce'
        /\ AnswerDue'
    BY <1>4
       DEF StopReturns, HubExact, NoSendOnClosed, SlotsExact, HubSafe,
           AnsweredOnce, AnswerDue, Served, StopStep
  <2>4. QED
    BY <2>1, <2>2, <2>3
<1>5. CASE Publish
  <2>1. TypeOK'
    BY <1>5 DEF Publish, TypeOK
  <2>2. HubSafe'
    BY <1>5 DEF Publish, HubSafe, HubExact, TypeOK
  <2>3. HubExact' /\ NoSendOnClosed' /\ SlotsExact' /\ StoppedIsQuiet'
        /\ AnsweredOnce' /\ AnswerDue'
    BY <1>5
       DEF Publish, HubExact, NoSendOnClosed, SlotsExact, StoppedIsQuiet,
           AnsweredOnce, AnswerDue, Served
  <2>4. QED
    BY <2>1, <2>2, <2>3
<1>6. CASE PublishEnds
  <2>1. TypeOK'
    BY <1>6 DEF PublishEnds, TypeOK
  <2>2. HubSafe'
    BY <1>6 DEF PublishEnds, HubSafe, HubExact, TypeOK
  <2>3. HubExact' /\ NoSendOnClosed' /\ SlotsExact' /\ StoppedIsQuiet'
        /\ AnsweredOnce' /\ AnswerDue'
    BY <1>6
       DEF PublishEnds, HubExact, NoSendOnClosed, SlotsExact, StoppedIsQuiet,
           AnsweredOnce, AnswerDue, Served
  <2>4. QED
    BY <2>1, <2>2, <2>3
<1>7. QED
  BY <1>1, <1>2, <1>3, <1>4, <1>5, <1>6

\* handleConn: requests, answers and test notifications.
LEMMA HandleStep ==
    ASSUME IInv, NEW c \in Conn,
           ReadMsg(c) \/ ReadFails(c) \/ Check(c) \/ Refuse(c) \/ Reply(c) \/ TestLoad(c) \/
           TestLimited(c) \/ TestSwap(c) \/ AnswerLock(c) \/ Answer(c) \/ AnswerDropped(c)
    PROVE  IInv'
<1> USE ServerAssumption DEF IInv, ConnectionsExact, Stage, Task, Goroutine, Said,
        lifeVars, connVars, wireVars, subVars, chanVars, pubVars, timeVars
<1>1. CASE ReadMsg(c)
  <2>1. /\ conn[c] = "reading" /\ script[c] # <<>> /\ c \in DOMAIN script
        /\ script' = [script EXCEPT ![c] = Tail(@)]
        /\ conn' = [conn EXCEPT ![c] = "handling"]
        /\ task' = [task EXCEPT ![c] = [NoTask EXCEPT !.kind = Head(script[c])]]
        /\ reply' = [reply EXCEPT ![c] = [NoReply EXCEPT !.to = Head(script[c])]]
        /\ UNCHANGED <<shut, gone>>
        /\ UNCHANGED <<lifeVars, wireVars, subVars, chanVars, pubVars, timeVars>>
    BY <1>1 DEF ReadMsg, AnswerDue
  <2>2. Head(script[c]) \in Request /\ Tail(script[c]) \in Seq(Request)
    BY <2>1, HeadTailProperties DEF TypeOK
  <2> DEFINE rest == [NoTask EXCEPT !.kind = Head(script[c])]
             said == [NoReply EXCEPT !.to = Head(script[c])]
  <2>3. /\ rest \in Task /\ said \in Spoken
        /\ Stays("handling", rest, said)
    BY <2>2, FirstWord, ServerAssumption
  <2>4. DOMAIN script' = DOMAIN script /\ \A d \in DOMAIN script : script'[d] \in Seq(Request)
    BY <2>1, <2>2 DEF TypeOK
  <2>5. writer[c] # <<c>> /\ DOMAIN writer = Conn
    BY <2>1, Handling
  <2> HIDE DEF rest, said
  <2>6. /\ conn[c] \in {"reading", "handling", "writing"}
        /\ task' = [task EXCEPT ![c] = rest] /\ reply' = [reply EXCEPT ![c] = said]
    BY <2>1 DEF rest, said
  <2>7. /\ task' \in [Conn -> Task] /\ conn' \in [Conn -> Stage] /\ reply' \in [Conn -> Spoken]
        /\ \A d \in Conn : conn'[d] \in Slotted <=> conn[d] \in Slotted
        /\ SlotsExact' /\ StoppedIsQuiet' /\ AnsweredOnce' /\ AnswerDue'
    BY <2>1, <2>3, <2>4, <2>5, <2>6, Moved
  <2>8. TypeOK'
    BY <2>1, <2>4, <2>7 DEF TypeOK
  <2>9. HubExact' /\ HubSafe' /\ NoSendOnClosed'
    BY <2>1, <2>7 DEF HubExact, HubSafe, NoSendOnClosed
  <2>10. QED
    BY <2>7, <2>8, <2>9
<1>2. CASE ReadFails(c)
  <2>1. TypeOK'
    <3>1. conn' \in [Conn -> Stage]
      BY <1>2 DEF ReadFails, TypeOK, Counted, Slotted
    <3>2. QED
      BY <1>2, <3>1 DEF ReadFails, TypeOK
  <2>2. HubExact'
    BY SMTT(30), <1>2 DEF ReadFails, HubExact, TypeOK, Slotted
  <2>3. SlotsExact'
    <3>1. Served' = Served
      BY <1>2 DEF ReadFails, Served, TypeOK, Slotted
    <3>2. QED
      BY <1>2, <3>1 DEF ReadFails, SlotsExact
  <2>4. StoppedIsQuiet'
    BY <1>2 DEF ReadFails, StoppedIsQuiet, TypeOK, Counted, Slotted
  <2>5. AnsweredOnce'
    BY <1>2 DEF ReadFails, AnsweredOnce, Said, TypeOK
  <2>6. AnswerDue'
    BY <1>2 DEF ReadFails, AnswerDue, Said, TypeOK
  <2>7. NoSendOnClosed' /\ HubSafe'
    BY <1>2 DEF ReadFails, NoSendOnClosed, HubSafe
  <2>8. QED
    BY <2>1, <2>2, <2>3, <2>4, <2>5, <2>6, <2>7
<1>3. CASE Check(c)
  <2>1. /\ conn[c] = "handling" /\ task' = [task EXCEPT ![c].checked = TRUE]
        /\ UNCHANGED <<conn, shut, gone, script, reply>>
        /\ UNCHANGED <<lifeVars, wireVars, subVars, chanVars, pubVars, timeVars>>
    BY <1>3 DEF Check
  <2> DEFINE rest == [task[c] EXCEPT !.checked = TRUE]
  <2>6. /\ task' = [task EXCEPT ![c] = rest] /\ rest \in Task
        /\ rest.kind = task[c].kind /\ (rest.now # 0 => rest.kind = "test")
    BY <2>1, Handling
  <2> HIDE DEF rest
  <2>2. /\ task' \in [Conn -> Task] /\ conn' \in [Conn -> Stage] /\ reply' \in [Conn -> Spoken]
        /\ \A d \in Conn : conn'[d] \in Slotted <=> conn[d] \in Slotted
        /\ SlotsExact' /\ StoppedIsQuiet' /\ AnsweredOnce' /\ AnswerDue'
    BY <2>1, <2>6, WorksOn
  <2>3. TypeOK'
    BY <2>1, <2>2 DEF TypeOK
  <2>4. HubExact' /\ HubSafe' /\ NoSendOnClosed'
    BY <2>1, <2>2 DEF HubExact, HubSafe, NoSendOnClosed
  <2>5. QED
    BY <2>2, <2>3, <2>4
<1>4. CASE Refuse(c)
  <2>1. /\ conn[c] = "handling" /\ Say(c, NoTask)
        /\ UNCHANGED <<shut, gone, script>>
        /\ UNCHANGED <<lifeVars, wireVars, subVars, chanVars, pubVars, timeVars>>
    BY <1>4 DEF Refuse, Returned, Say
  <2>2. /\ task' \in [Conn -> Task] /\ conn' \in [Conn -> Stage] /\ reply' \in [Conn -> Spoken]
        /\ \A d \in Conn : conn'[d] \in Slotted <=> conn[d] \in Slotted
        /\ SlotsExact' /\ StoppedIsQuiet' /\ AnsweredOnce' /\ AnswerDue'
    BY <2>1, Spoke
  <2>3. TypeOK'
    BY <2>1, <2>2 DEF TypeOK
  <2>4. HubExact' /\ HubSafe' /\ NoSendOnClosed'
    BY <2>1, <2>2 DEF HubExact, HubSafe, NoSendOnClosed
  <2>5. QED
    BY <2>2, <2>3, <2>4
<1>5. CASE Reply(c)
  <2>1. /\ conn[c] = "handling" /\ Say(c, NoTask)
        /\ UNCHANGED <<shut, gone, script>>
        /\ UNCHANGED <<lifeVars, wireVars, subVars, chanVars, pubVars, timeVars>>
    BY <1>5 DEF Reply, Say
  <2>2. /\ task' \in [Conn -> Task] /\ conn' \in [Conn -> Stage] /\ reply' \in [Conn -> Spoken]
        /\ \A d \in Conn : conn'[d] \in Slotted <=> conn[d] \in Slotted
        /\ SlotsExact' /\ StoppedIsQuiet' /\ AnsweredOnce' /\ AnswerDue'
    BY <2>1, Spoke
  <2>3. TypeOK'
    BY <2>1, <2>2 DEF TypeOK
  <2>4. HubExact' /\ HubSafe' /\ NoSendOnClosed'
    BY <2>1, <2>2 DEF HubExact, HubSafe, NoSendOnClosed
  <2>5. QED
    BY <2>2, <2>3, <2>4
<1>6. CASE TestLimited(c)
  <2>1. /\ conn[c] = "handling" /\ Say(c, NoTask)
        /\ UNCHANGED <<shut, gone, script>>
        /\ UNCHANGED <<lifeVars, wireVars, subVars, chanVars, pubVars, timeVars>>
    BY <1>6 DEF TestLimited, Returned, Say
  <2>2. /\ task' \in [Conn -> Task] /\ conn' \in [Conn -> Stage] /\ reply' \in [Conn -> Spoken]
        /\ \A d \in Conn : conn'[d] \in Slotted <=> conn[d] \in Slotted
        /\ SlotsExact' /\ StoppedIsQuiet' /\ AnsweredOnce' /\ AnswerDue'
    BY <2>1, Spoke
  <2>3. TypeOK'
    BY <2>1, <2>2 DEF TypeOK
  <2>4. HubExact' /\ HubSafe' /\ NoSendOnClosed'
    BY <2>1, <2>2 DEF HubExact, HubSafe, NoSendOnClosed
  <2>5. QED
    BY <2>2, <2>3, <2>4
<1>7. CASE TestLoad(c)
  <2>1. /\ conn[c] = "handling" /\ task[c].kind = "test" /\ now' \in 0..MaxNow
        /\ task' = [task EXCEPT ![c].last = last, ![c].now = now']
        /\ UNCHANGED <<last, conn, shut, gone, script, reply>>
        /\ UNCHANGED <<lifeVars, wireVars, subVars, chanVars, pubVars>>
    BY <1>7 DEF TestLoad, TypeOK
  <2> DEFINE rest == [task[c] EXCEPT !.last = last, !.now = now']
  <2>6. /\ task' = [task EXCEPT ![c] = rest] /\ rest \in Task
        /\ rest.kind = task[c].kind /\ rest.kind = "test"
    BY <2>1, Handling DEF TypeOK
  <2> HIDE DEF rest
  <2>2. /\ task' \in [Conn -> Task] /\ conn' \in [Conn -> Stage] /\ reply' \in [Conn -> Spoken]
        /\ \A d \in Conn : conn'[d] \in Slotted <=> conn[d] \in Slotted
        /\ SlotsExact' /\ StoppedIsQuiet' /\ AnsweredOnce' /\ AnswerDue'
    BY <2>1, <2>6, WorksOn
  <2>3. TypeOK'
    BY <2>1, <2>2 DEF TypeOK
  <2>4. HubExact' /\ HubSafe' /\ NoSendOnClosed'
    BY <2>1, <2>2 DEF HubExact, HubSafe, NoSendOnClosed
  <2>5. QED
    BY <2>2, <2>3, <2>4
<1>8. CASE TestSwap(c)
  <2>1. /\ conn[c] = "handling" /\ task[c].now # 0 /\ task[c].now \in 0..MaxNow
        /\ UNCHANGED <<now, lifeVars, wireVars, subVars, chanVars, pubVars>>
    BY <1>8 DEF TestSwap, TypeOK
  <2> DEFINE rest == [task[c] EXCEPT !.last = 0, !.now = 0]
  <2>2. /\ rest \in Task
        /\ rest.kind = task[c].kind /\ rest.now = 0
    <3>1. 0 \in 0..MaxNow /\ task[c] \in Task
      BY Handling
    <3>2. QED
      BY <3>1
  <2>3. \/ /\ last' = task[c].now /\ Say(c, NoTask)
        \/ /\ task' = [task EXCEPT ![c] = rest]
           /\ UNCHANGED <<last, conn, shut, gone, script, reply>>
    BY <1>8 DEF TestSwap
  <2> HIDE DEF rest
  <2>4. /\ last' \in 0..MaxNow /\ UNCHANGED <<shut, gone, script>>
    BY <2>1, <2>3 DEF TypeOK, Say
  <2>5. /\ task' \in [Conn -> Task] /\ conn' \in [Conn -> Stage] /\ reply' \in [Conn -> Spoken]
        /\ \A d \in Conn : conn'[d] \in Slotted <=> conn[d] \in Slotted
        /\ SlotsExact' /\ StoppedIsQuiet' /\ AnsweredOnce' /\ AnswerDue'
    <3>1. CASE Say(c, NoTask)
      BY <2>1, <3>1, Spoke
    <3>2. CASE task' = [task EXCEPT ![c] = rest] /\ UNCHANGED <<conn, reply>>
      BY <2>1, <2>2, <2>4, <3>2, WorksOn
    <3>3. QED
      BY <2>3, <3>1, <3>2
  <2>6. TypeOK'
    BY <2>1, <2>4, <2>5 DEF TypeOK
  <2>7. HubExact' /\ HubSafe' /\ NoSendOnClosed'
    BY <2>1, <2>5 DEF HubExact, HubSafe, NoSendOnClosed
  <2>8. QED
    BY <2>5, <2>6, <2>7
<1>9. CASE AnswerLock(c)
  <2>1. TypeOK'
    BY SMTT(30), <1>9 DEF AnswerLock, Lock, TypeOK
  <2>2. AnswerDue'
    <3>1. conn[c] = "writing" /\ writer' = [writer EXCEPT ![c] = <<c>>]
      BY <1>9 DEF AnswerLock, Lock
    <3>2. \A d \in Conn : writer'[d] = <<d>> => d = c \/ writer[d] = <<d>>
      BY SMTT(30), <3>1 DEF TypeOK
    <3>3. UNCHANGED <<conn, script, reply, task>>
      BY <1>9 DEF AnswerLock
    <3>4. QED
      BY <3>1, <3>2, <3>3 DEF AnswerDue, Said
  <2>3. HubExact' /\ NoSendOnClosed' /\ SlotsExact' /\ StoppedIsQuiet' /\ HubSafe'
        /\ AnsweredOnce'
    BY <1>9
       DEF AnswerLock, HubExact, NoSendOnClosed, SlotsExact, StoppedIsQuiet,
           HubSafe, AnsweredOnce, Said, Served
  <2>4. QED
    BY <2>1, <2>2, <2>3
<1>10. CASE Answer(c)
  <2>1. /\ writer[c] = <<c>> /\ CanWrite(c) /\ Written(c) /\ writer' = [writer EXCEPT ![c] = NoOne]
        /\ Proceed(c) /\ UNCHANGED <<sent, shut, gone, script>>
        /\ reply' = IF Broken(c) THEN [reply EXCEPT ![c].lost = @ + 1]
                                 ELSE [reply EXCEPT ![c].written = @ + 1]
        /\ UNCHANGED <<lifeVars, subVars, chanVars, pubVars, timeVars>>
    BY <1>10 DEF Answer, Unlock, Proceed
  <2>2. conn[c] = "writing" /\ reply[c] \in Spoken /\ reply[c].written + reply[c].lost = 0
    BY <2>1, Handling
  <2>3. PICK said \in Spoken : /\ said.written + said.lost = 1
                               /\ reply' = [reply EXCEPT ![c] = said]
    <3>1. reply[c].written = 0 /\ reply[c].lost = 0
      BY <2>2 DEF Spoken
    <3>2. /\ [reply[c] EXCEPT !.lost = 1] \in Spoken
          /\ [reply[c] EXCEPT !.written = 1] \in Spoken
          /\ [reply[c] EXCEPT !.lost = 1].written + [reply[c] EXCEPT !.lost = 1].lost = 1
          /\ [reply[c] EXCEPT !.written = 1].written + [reply[c] EXCEPT !.written = 1].lost = 1
      BY <2>2, <3>1 DEF Spoken
    <3>3. \/ reply' = [reply EXCEPT ![c] = [reply[c] EXCEPT !.lost = 1]]
          \/ reply' = [reply EXCEPT ![c] = [reply[c] EXCEPT !.written = 1]]
      BY <2>1, <3>1 DEF TypeOK
    <3>4. QED
      BY <3>2, <3>3
  <2>4. /\ DOMAIN writer' = Conn /\ writer'[c] # <<c>>
        /\ \A d \in Conn : writer'[d] = <<d>> => writer[d] = <<d>>
        /\ \A d \in Conn : writer'[d] \in {NoOne, <<d>>} \union Subscriber
    <3>1. DOMAIN writer' = Conn /\ \A d \in Conn : d # c => writer'[d] = writer[d]
      BY <2>1, Handling
    <3>2. writer'[c] = NoOne
      BY <2>1, Handling
    <3>3. NoOne # <<c>>
      BY Holders
    <3>4. QED
      BY <3>1, <3>2, <3>3 DEF TypeOK
  <2>5. unread' \in [Conn -> 0..SocketBuf]
    BY <2>1, WriteRoom
  <2>6. /\ task' \in [Conn -> Task] /\ conn' \in [Conn -> Stage] /\ reply' \in [Conn -> Spoken]
        /\ \A d \in Conn : conn'[d] \in Slotted <=> conn[d] \in Slotted
        /\ SlotsExact' /\ StoppedIsQuiet' /\ AnsweredOnce' /\ AnswerDue'
    BY <2>1, <2>2, <2>3, <2>4, Answered
  <2>7. TypeOK'
    BY <2>1, <2>4, <2>5, <2>6 DEF TypeOK
  <2>8. HubExact' /\ HubSafe' /\ NoSendOnClosed'
    BY <2>1, <2>6 DEF HubExact, HubSafe, NoSendOnClosed
  <2>9. QED
    BY <2>6, <2>7, <2>8
<1>11. CASE AnswerDropped(c)
  <2>1. /\ conn[c] = "writing" /\ Proceed(c) /\ UNCHANGED <<unread, sent, shut, gone, script>>
        /\ (writer' = [writer EXCEPT ![c] = NoOne] \/ (writer[c] # <<c>> /\ writer' = writer))
        /\ reply' = [reply EXCEPT ![c].lost = @ + 1]
        /\ UNCHANGED <<lifeVars, subVars, chanVars, pubVars, timeVars>>
    BY <1>11 DEF AnswerDropped, Unlock, Proceed
  <2>2. reply[c] \in Spoken /\ reply[c].written + reply[c].lost = 0
    BY <2>1, Handling
  <2>3. PICK said \in Spoken : /\ said.written + said.lost = 1
                               /\ reply' = [reply EXCEPT ![c] = said]
    <3>1. reply[c].written = 0 /\ reply[c].lost = 0
      BY <2>2 DEF Spoken
    <3>2. /\ [reply[c] EXCEPT !.lost = 1] \in Spoken
          /\ [reply[c] EXCEPT !.lost = 1].written + [reply[c] EXCEPT !.lost = 1].lost = 1
      BY <2>2, <3>1 DEF Spoken
    <3>3. reply' = [reply EXCEPT ![c] = [reply[c] EXCEPT !.lost = 1]]
      BY <2>1, <3>1 DEF TypeOK
    <3>4. QED
      BY <3>2, <3>3
  <2>4. /\ DOMAIN writer' = Conn /\ writer'[c] # <<c>>
        /\ \A d \in Conn : writer'[d] = <<d>> => writer[d] = <<d>>
        /\ \A d \in Conn : writer'[d] \in {NoOne, <<d>>} \union Subscriber
    <3>1. DOMAIN writer' = Conn /\ \A d \in Conn : d # c => writer'[d] = writer[d]
      BY <2>1, Handling
    <3>2. writer'[c] = NoOne \/ (writer[c] # <<c>> /\ writer'[c] = writer[c])
      BY <2>1, Handling
    <3>3. NoOne # <<c>>
      BY Holders
    <3>4. QED
      BY <3>1, <3>2, <3>3 DEF TypeOK
  <2>5. /\ task' \in [Conn -> Task] /\ conn' \in [Conn -> Stage] /\ reply' \in [Conn -> Spoken]
        /\ \A d \in Conn : conn'[d] \in Slotted <=> conn[d] \in Slotted
        /\ SlotsExact' /\ StoppedIsQuiet' /\ AnsweredOnce' /\ AnswerDue'
    BY <2>1, <2>3, <2>4, Answered
  <2>6. TypeOK'
    BY <2>1, <2>4, <2>5 DEF TypeOK
  <2>7. HubExact' /\ HubSafe' /\ NoSendOnClosed'
    BY <2>1, <2>5 DEF HubExact, HubSafe, NoSendOnClosed
  <2>8. QED
    BY <2>5, <2>6, <2>7
<1>12. QED
  BY <1>1, <1>2, <1>3, <1>4, <1>5, <1>6, <1>7, <1>8, <1>9, <1>10, <1>11

\* A connection subscribes.
LEMMA SubscribeStep ==
    ASSUME IInv, NEW c \in Conn, NEW f \in Filter,
           Subscribe(c, f)
    PROVE  IInv'
<1> USE ServerAssumption DEF IInv, ConnectionsExact, Stage, Task, Goroutine, Said,
        lifeVars, connVars, wireVars, subVars, chanVars, pubVars, timeVars
<1>1. CASE Subscribe(c, f)
  <2>1. /\ conn[c] = "handling" /\ task[c].kind \notin Awaited /\ Finish(c)
        /\ subs[c] = {} /\ ~pub.on
        /\ UNCHANGED <<lifeVars, wireVars, closedCh, cancelled, buf, pubVars, timeVars>>
    BY <1>1 DEF Subscribe, Already, Awaited
  <2>2. PICK n \in 1..MaxSubs :
            /\ fwd[<<c, n>>].at = "unused"
            /\ hub' = hub \union {<<c, n>>}
            /\ subs' = [subs EXCEPT ![c] = @ \union {<<c, n>>}]
            /\ filter' = [filter EXCEPT ![<<c, n>>] = f]
            /\ fwd' = [fwd EXCEPT ![<<c, n>>].at = "idle"]
    BY <1>1 DEF Subscribe
  <2> DEFINE s == <<c, n>>
  <2>3. s \in Subscriber /\ s[1] = c
    BY DEF Subscriber
  <2>4. /\ fwd[s].at = "unused" /\ hub' = hub \union {s} /\ subs' = [subs EXCEPT ![c] = {s}]
        /\ filter' = [filter EXCEPT ![s] = f] /\ fwd' = [fwd EXCEPT ![s].at = "idle"]
    BY <2>1, <2>2
  <2> HIDE DEF s
  <2>5. /\ task' \in [Conn -> Task]
        /\ conn' \in [Conn -> Stage]
        /\ reply' \in [Conn -> Spoken]
        /\ UNCHANGED <<shut, gone, script>>
        /\ \A d \in Conn : conn'[d] \in Slotted <=> conn[d] \in Slotted
        /\ SlotsExact' /\ StoppedIsQuiet' /\ AnsweredOnce' /\ AnswerDue'
    BY <2>1, Finished
  <2>6. /\ fwd' \in [Subscriber -> Goroutine]
        /\ fwd'[s].at = "idle" /\ \A t \in Subscriber : t # s => fwd'[t] = fwd[t]
    BY <2>3, <2>4 DEF TypeOK
  <2>7. /\ filter' \in [Subscriber -> SUBSET (1..MaxPublished)]
        /\ hub' \subseteq Subscriber /\ subs' \in [Conn -> SUBSET Subscriber]
        /\ subs'[c] = {s} /\ \A d \in Conn : d # c => subs'[d] = subs[d]
    BY <2>3, <2>4 DEF TypeOK
  <2>8. TypeOK'
    BY <2>1, <2>5, <2>6, <2>7 DEF TypeOK
  <2>9. HubExact'
    <3>1. ASSUME NEW t \in Subscriber PROVE t \in hub' <=> \E d \in Conn : t \in subs'[d]
      <4>1. t \in hub' <=> t = s \/ \E d \in Conn : t \in subs[d]
        BY <2>4 DEF HubExact
      <4>2. (\E d \in Conn : t \in subs'[d]) <=> t = s \/ \E d \in Conn : t \in subs[d]
        BY <2>1, <2>7
      <4>3. QED
        BY <4>1, <4>2
    <3>2. ASSUME NEW d \in Conn
          PROVE  (\A t, u \in subs'[d] : t = u) /\ (subs'[d] # {} => conn'[d] \in Slotted)
      <4>1. CASE d = c
        BY <2>1, <2>5, <2>7, <4>1 DEF Slotted
      <4>2. CASE d # c
        BY <2>5, <2>7, <4>2 DEF HubExact
      <4>3. QED
        BY <4>1, <4>2
    <3>3. QED
      BY <3>1, <3>2 DEF HubExact
  <2>10. HubSafe'
    <3>1. s \notin closedCh
      BY <2>4 DEF HubSafe
    <3>2. \A d \in Conn : \A t \in subs'[d] :
            t[1] = d /\ fwd'[t].at # "unused" /\ t \notin closedCh
      <4>1. ASSUME NEW d \in Conn, NEW t \in subs'[d]
            PROVE  t[1] = d /\ fwd'[t].at # "unused" /\ t \notin closedCh
        <5>1. CASE d = c
          BY <2>3, <2>6, <2>7, <3>1, <5>1
        <5>2. CASE d # c
          <6>1. t \in subs[d] /\ t \in Subscriber
            BY <2>7, <5>2 DEF TypeOK
          <6>2. t[1] = d /\ fwd[t].at # "unused" /\ t \notin closedCh
            BY <6>1 DEF HubSafe
          <6>3. QED
            BY <2>3, <2>6, <5>2, <6>1, <6>2
        <5>3. QED
          BY <5>1, <5>2
      <4>2. QED
        BY <4>1
    <3>3. \A t \in closedCh : fwd'[t].at # "unused"
      BY <2>6, <3>1 DEF HubSafe, TypeOK
    <3>4. \A t \in Subscriber : fwd'[t].at \in {"holds", "writing"} => fwd'[t].msg # 0
      BY <2>6 DEF HubSafe
    <3>5. QED
      BY <2>1, <3>2, <3>3, <3>4 DEF HubSafe
  <2>11. NoSendOnClosed'
    BY <2>1 DEF NoSendOnClosed
  <2>12. QED
    BY <2>5, <2>8, <2>9, <2>10, <2>11
<1>2. QED
  BY <1>1

\* Subscribing again, unsubscribing and the deferred calls of handleConn.
LEMMA SubscriptionStep ==
    ASSUME IInv, NEW c \in Conn,
           SubscribeAgain(c) \/ Cancel(c) \/ Unsubscribe(c) \/
           CleanUp(c) \/ Close(c)
    PROVE  IInv'
<1> USE ServerAssumption DEF IInv, ConnectionsExact, Stage, Task, Goroutine, Said,
        lifeVars, connVars, wireVars, subVars, chanVars, pubVars, timeVars
<1>1. CASE SubscribeAgain(c)
  <2>1. /\ conn[c] = "handling" /\ task[c].kind \notin Awaited /\ Finish(c)
        /\ UNCHANGED <<lifeVars, wireVars, subVars, chanVars, pubVars, timeVars>>
    BY <1>1 DEF SubscribeAgain, Awaited
  <2>2. /\ task' \in [Conn -> Task]
        /\ conn' \in [Conn -> Stage]
        /\ reply' \in [Conn -> Spoken]
        /\ UNCHANGED <<shut, gone, script>>
        /\ \A d \in Conn : conn'[d] \in Slotted <=> conn[d] \in Slotted
        /\ SlotsExact' /\ StoppedIsQuiet' /\ AnsweredOnce' /\ AnswerDue'
    BY <2>1, Finished
  <2>3. TypeOK'
    BY <2>1, <2>2 DEF TypeOK
  <2>4. HubExact' /\ HubSafe' /\ NoSendOnClosed'
    BY <2>1, <2>2 DEF HubExact, HubSafe, NoSendOnClosed
  <2>5. QED
    BY <2>2, <2>3, <2>4
<1>2. CASE Cancel(c)
  <2>1. TypeOK'
    BY <1>2 DEF Cancel, TypeOK
  <2>2. HubExact' /\ NoSendOnClosed' /\ SlotsExact' /\ StoppedIsQuiet' /\ HubSafe'
        /\ AnsweredOnce' /\ AnswerDue'
    BY <1>2
       DEF Cancel, HubExact, NoSendOnClosed, SlotsExact, StoppedIsQuiet, HubSafe,
           AnsweredOnce, AnswerDue, Served
  <2>3. QED
    BY <2>1, <2>2
<1>3. CASE Unsubscribe(c)
  <2>1. /\ conn[c] = "handling" /\ task[c].kind \notin Awaited /\ Finish(c) /\ Remove(c)
        /\ UNCHANGED <<lifeVars, wireVars, chanVars, pubVars, timeVars>>
    BY <1>3 DEF Unsubscribe, Awaited
  <2>2. /\ task' \in [Conn -> Task]
        /\ conn' \in [Conn -> Stage]
        /\ reply' \in [Conn -> Spoken]
        /\ UNCHANGED <<shut, gone, script>>
        /\ \A d \in Conn : conn'[d] \in Slotted <=> conn[d] \in Slotted
        /\ SlotsExact' /\ StoppedIsQuiet' /\ AnsweredOnce' /\ AnswerDue'
    BY <2>1, Finished
  <2>3. /\ hub' \subseteq Subscriber /\ closedCh' \subseteq Subscriber
        /\ subs' \in [Conn -> SUBSET Subscriber]
        /\ UNCHANGED <<cancelled, filter>>
        /\ HubExact' /\ HubSafe'
    BY <2>1, <2>2, Removed
  <2>4. TypeOK'
    BY <2>1, <2>2, <2>3 DEF TypeOK
  <2>5. NoSendOnClosed'
    BY <2>1 DEF NoSendOnClosed
  <2>6. QED
    BY <2>2, <2>3, <2>4, <2>5
<1>4. CASE CleanUp(c)
  <2>1. /\ conn[c] = "leaving" /\ Remove(c) /\ slots' = slots - 1
        /\ conn' = [conn EXCEPT ![c] = "released"]
        /\ UNCHANGED <<stop, accepting, shut, gone, script, task, reply>>
        /\ UNCHANGED <<wireVars, chanVars, pubVars, timeVars>>
    BY <1>4 DEF CleanUp, Release
  <2>2. /\ conn' \in [Conn -> Stage]
        /\ conn'[c] = "released" /\ \A d \in Conn : d # c => conn'[d] = conn[d]
    BY <2>1 DEF TypeOK, Counted, Slotted
  <2>3. /\ hub' \subseteq Subscriber /\ closedCh' \subseteq Subscriber
        /\ subs' \in [Conn -> SUBSET Subscriber]
        /\ UNCHANGED <<cancelled, filter>>
        /\ HubExact' /\ HubSafe'
    BY <2>1, <2>2, Removed
  <2>4. c \in Served /\ Served' = Served \ {c}
    BY <2>1, <2>2 DEF Served, Slotted
  <2>5. SlotsExact' /\ slots' \in 0..MaxConnections
    <3>1. slots' = Cardinality(Served')
      BY <2>1, <2>4, Tokens DEF SlotsExact
    <3>2. slots > 0
      BY <2>4, Tokens DEF SlotsExact
    <3>3. slots' \in 0..MaxConnections
      BY <2>1, <3>2 DEF TypeOK
    <3>4. QED
      BY <3>1, <3>3 DEF SlotsExact
  <2>6. TypeOK'
    BY <2>1, <2>2, <2>3, <2>5 DEF TypeOK
  <2>7. StoppedIsQuiet'
    BY <2>1, <2>2 DEF StoppedIsQuiet, Counted, Slotted
  <2>8. NoSendOnClosed' /\ AnsweredOnce' /\ AnswerDue'
    <3>1. c \in DOMAIN script /\ writer[c] # <<c>>
      BY <2>1 DEF AnswerDue
    <3>2. QED
      BY <2>1, <2>2, <3>1 DEF NoSendOnClosed, AnsweredOnce, AnswerDue
  <2>9. QED
    BY <2>3, <2>5, <2>6, <2>7, <2>8
<1>5. CASE Close(c)
  <2>1. TypeOK'
    BY <1>5 DEF Close, TypeOK
  <2>2. HubExact'
    BY SMTT(30), <1>5 DEF Close, HubExact, TypeOK, Slotted
  <2>3. SlotsExact'
    <3>1. Served' = Served
      BY <1>5 DEF Close, Served, TypeOK, Slotted
    <3>2. QED
      BY <1>5, <3>1 DEF Close, SlotsExact
  <2>4. StoppedIsQuiet'
    BY <1>5 DEF Close, StoppedIsQuiet, TypeOK, Counted, Slotted
  <2>5. AnsweredOnce'
    BY <1>5 DEF Close, AnsweredOnce, Said, TypeOK
  <2>6. AnswerDue'
    BY <1>5 DEF Close, AnswerDue, Said, TypeOK
  <2>7. NoSendOnClosed' /\ HubSafe'
    BY <1>5 DEF Close, NoSendOnClosed, HubSafe
  <2>8. QED
    BY <2>1, <2>2, <2>3, <2>4, <2>5, <2>6, <2>7
<1>6. QED
  BY <1>1, <1>2, <1>3, <1>4, <1>5

\* The forwarding goroutines, and Publish offering to one subscriber.
LEMMA ForwardStep ==
    ASSUME IInv, NEW s \in Subscriber,
           Take(s) \/ ForwardLock(s) \/ Forward(s) \/ End(s) \/ Offer(s)
    PROVE  IInv'
<1> USE ServerAssumption DEF IInv, ConnectionsExact, Stage, Task, Goroutine, Said,
        lifeVars, connVars, wireVars, subVars, chanVars, pubVars, timeVars
<1>1. CASE Take(s)
  <2>1. TypeOK'
    <3>1. buf[s] \in Seq(1..MaxPublished) /\ buf[s] # <<>>
      BY <1>1 DEF Take, TypeOK
    <3>2. Head(buf[s]) \in 1..MaxPublished /\ Tail(buf[s]) \in Seq(1..MaxPublished)
      BY <3>1, HeadTailProperties
    <3>3. buf' \in [Subscriber -> Seq(1..MaxPublished)]
      BY <1>1, <3>2 DEF Take, TypeOK
    <3>4. fwd' \in [Subscriber -> Goroutine]
      BY <1>1, <3>2 DEF Take, TypeOK
    <3>5. QED
      BY <1>1, <3>3, <3>4 DEF Take, TypeOK
  <2>2. HubSafe'
    BY <1>1 DEF Take, Passes, HubSafe, HubExact, TypeOK
  <2>3. HubExact' /\ NoSendOnClosed' /\ SlotsExact' /\ StoppedIsQuiet'
        /\ AnsweredOnce' /\ AnswerDue'
    BY <1>1
       DEF Take, HubExact, NoSendOnClosed, SlotsExact, StoppedIsQuiet,
           AnsweredOnce, AnswerDue, Served
  <2>4. QED
    BY <2>1, <2>2, <2>3
<1>2. CASE ForwardLock(s)
  <2>1. /\ fwd[s].at = "holds" /\ writer[s[1]] = NoOne /\ writer' = [writer EXCEPT ![s[1]] = s]
        /\ fwd' = [fwd EXCEPT ![s].at = "writing"]
        /\ UNCHANGED <<unread, sent, buf>>
        /\ UNCHANGED <<lifeVars, connVars, subVars, pubVars, timeVars>>
    BY <1>2 DEF ForwardLock, Lock
  <2>2. /\ fwd' \in [Subscriber -> Goroutine]
        /\ fwd'[s].at = "writing" /\ fwd'[s].msg = fwd[s].msg
        /\ \A t \in Subscriber : t # s => fwd'[t] = fwd[t]
    BY <2>1 DEF TypeOK
  <2>3. /\ \A d \in Conn : writer'[d] \in {NoOne, <<d>>} \union Subscriber
        /\ \A d \in Conn : writer'[d] = <<d>> => writer[d] = <<d>>
    <3>1. \A d \in Conn : writer'[d] = writer[d] \/ writer'[d] = s
      BY <2>1 DEF TypeOK
    <3>2. \A d \in Conn : s # <<d>>
      BY Holders
    <3>3. QED
      BY <3>1, <3>2 DEF TypeOK
  <2>4. TypeOK'
    BY <2>1, <2>2, <2>3 DEF TypeOK
  <2>5. HubSafe'
    BY <2>1, <2>2 DEF HubSafe, TypeOK
  <2>6. HubExact' /\ NoSendOnClosed' /\ SlotsExact' /\ StoppedIsQuiet'
        /\ AnsweredOnce'
    BY <2>1
       DEF HubExact, NoSendOnClosed, SlotsExact, Served, StoppedIsQuiet,
           AnsweredOnce
  <2>7. AnswerDue'
    BY <2>1, <2>3 DEF AnswerDue
  <2>8. QED
    BY <2>4, <2>5, <2>6, <2>7
<1>3. CASE Forward(s)
  <2>1. /\ fwd[s].at = "writing" /\ CanWrite(s[1]) /\ Written(s[1])
        /\ writer' = [writer EXCEPT ![s[1]] = NoOne]
        /\ fwd' = [fwd EXCEPT ![s] = [at |-> "idle", msg |-> 0]]
        /\ sent' = [sent EXCEPT ![s[1]] = IF Broken(s[1]) THEN @ ELSE Append(@, fwd[s].msg)]
        /\ UNCHANGED <<buf, lifeVars, connVars, subVars, pubVars, timeVars>>
    BY <1>3 DEF Forward, Unlock
  <2>2. /\ fwd' \in [Subscriber -> Goroutine]
        /\ fwd'[s].at = "idle" /\ \A t \in Subscriber : t # s => fwd'[t] = fwd[t]
    BY <2>1 DEF TypeOK
  <2>3. /\ \A d \in Conn : writer'[d] \in {NoOne, <<d>>} \union Subscriber
        /\ \A d \in Conn : writer'[d] = <<d>> => writer[d] = <<d>>
    <3>1. \A d \in Conn : writer'[d] = writer[d] \/ writer'[d] = NoOne
      BY <2>1 DEF TypeOK
    <3>2. \A d \in Conn : NoOne # <<d>>
      BY Holders
    <3>3. QED
      BY <3>1, <3>2 DEF TypeOK
  <2>4. s[1] \in Conn /\ fwd[s].msg \in 1..MaxPublished
    BY <2>1 DEF Subscriber, TypeOK, HubSafe
  <2>5. unread' \in [Conn -> 0..SocketBuf]
    BY <2>1, <2>4, WriteRoom
  <2>6. sent' \in [Conn -> Seq(1..MaxPublished)]
    <3>1. sent[s[1]] \in Seq(1..MaxPublished)
      BY <2>4 DEF TypeOK
    <3>2. Append(sent[s[1]], fwd[s].msg) \in Seq(1..MaxPublished)
      BY <2>4, <3>1, AppendProperties
    <3>3. QED
      BY <2>1, <2>4, <3>1, <3>2 DEF TypeOK
  <2>7. TypeOK'
    BY <2>1, <2>2, <2>3, <2>5, <2>6 DEF TypeOK
  <2>8. HubSafe'
    BY <2>1, <2>2 DEF HubSafe, TypeOK
  <2>9. HubExact' /\ NoSendOnClosed' /\ SlotsExact' /\ StoppedIsQuiet'
        /\ AnsweredOnce'
    BY <2>1
       DEF HubExact, NoSendOnClosed, SlotsExact, Served, StoppedIsQuiet,
           AnsweredOnce
  <2>10. AnswerDue'
    BY <2>1, <2>3 DEF AnswerDue
  <2>11. QED
    BY <2>7, <2>8, <2>9, <2>10
<1>4. CASE End(s)
  <2>1. TypeOK'
    BY <1>4 DEF End, TypeOK
  <2>2. HubSafe'
    BY <1>4 DEF End, HubSafe, HubExact, TypeOK
  <2>3. HubExact' /\ NoSendOnClosed' /\ SlotsExact' /\ StoppedIsQuiet'
        /\ AnsweredOnce' /\ AnswerDue'
    BY <1>4
       DEF End, HubExact, NoSendOnClosed, SlotsExact, StoppedIsQuiet,
           AnsweredOnce, AnswerDue, Served
  <2>4. QED
    BY <2>1, <2>2, <2>3
<1>5. CASE Offer(s)
  <2>1. TypeOK'
    <3>1. buf' \in [Subscriber -> Seq(1..MaxPublished)]
      <4>1. published \in 1..MaxPublished
        BY <1>5 DEF Offer, TypeOK, HubSafe
      <4>2. buf[s] \in Seq(1..MaxPublished)
        BY DEF TypeOK
      <4>3. Append(buf[s], published) \in Seq(1..MaxPublished)
        BY <4>1, <4>2, AppendProperties
      <4>4. QED
        BY <1>5, <4>2, <4>3 DEF Offer, TypeOK
    <3>2. pub' \in [on : BOOLEAN, left : SUBSET Subscriber]
      BY <1>5 DEF Offer, TypeOK
    <3>3. panicked' \in BOOLEAN
      BY <1>5 DEF Offer, TypeOK
    <3>4. QED
      BY <1>5, <3>1, <3>2, <3>3 DEF Offer, TypeOK
  <2>2. NoSendOnClosed'
    BY <1>5 DEF Offer, NoSendOnClosed, HubSafe, HubExact, TypeOK
  <2>3. HubSafe'
    BY <1>5 DEF Offer, HubSafe, HubExact, TypeOK
  <2>4. HubExact' /\ SlotsExact' /\ StoppedIsQuiet' /\ AnsweredOnce' /\ AnswerDue'
    BY <1>5
       DEF Offer, HubExact, SlotsExact, StoppedIsQuiet, AnsweredOnce, AnswerDue,
           Served
  <2>5. QED
    BY <2>1, <2>2, <2>3, <2>4
<1>6. QED
  BY <1>1, <1>2, <1>3, <1>4, <1>5

\* Nothing happens.
LEMMA Stutter == IInv /\ UNCHANGED vars => IInv'
BY
   DEF IInv, ConnectionsExact, TypeOK, HubExact, NoSendOnClosed, SlotsExact,
       Served, StoppedIsQuiet, AnsweredOnce, Said, HubSafe, AnswerDue, vars, lifeVars,
       connVars, wireVars, subVars, chanVars, pubVars, timeVars

-----------------------------------------------------------------------------
(* The theorems *)

\* The inductive invariant of the connections, the hub and what handlers have said.
THEOREM ServerInvariant == Spec => []IInv
<1>1. IInv /\ [Next]_vars => IInv'
  <2> SUFFICES ASSUME IInv, [Next]_vars PROVE IInv'
    OBVIOUS
  <2>1. CASE \E c \in Conn : Receive(c) \/ Leave(c) \/ Accept(c) \/ Watch(c)
    BY <2>1, LifeStep
  <2>2. CASE \E c \in Conn : Handle(c)
    <3>1. PICK c \in Conn : Handle(c)
      BY <2>2
    <3>2. \A f \in Filter : Subscribe(c, f) => IInv'
      BY SubscribeStep
    <3>3. QED
      BY <3>1, <3>2, HandleStep, SubscriptionStep DEF Handle
  <2>3. CASE \E s \in Subscriber : Forwarder(s) \/ Offer(s)
    BY <2>3, ForwardStep DEF Forwarder
  <2>4. CASE Publish \/ PublishEnds \/ AcceptFails \/ StopCancels \/ StopCloses \/ StopReturns
    BY <2>4, GlobalStep
  <2>5. CASE UNCHANGED vars
    BY <2>5, Stutter
  <2>6. QED
    BY <2>1, <2>2, <2>3, <2>4, <2>5 DEF Next, Publisher
<1>2. QED
  BY InvInit, <1>1, PTL DEF Spec

\* Connections that come, subscribe, unsubscribe and go, and a Stop at any time,
\* leave no subscriber, no token and no closed channel behind.
THEOREM ConnectionsAreExact == Spec => []ConnectionsExact
<1>1. IInv => ConnectionsExact
  BY DEF IInv
<1>2. QED
  BY ServerInvariant, <1>1, PTL

\* No request is answered twice, and one that awaits an answer has had it said,
\* written or lost, before the next is read: on every path through the handlers.
THEOREM RequestsAreAnswered == Spec => []AnsweredOnce
<1>1. IInv => AnsweredOnce
  BY DEF IInv
<1>2. QED
  BY ServerInvariant, <1>1, PTL

\* However the checks of several connections interleave, two test notifications
\* are a window apart.
THEOREM TestsAreSpaced == Spec => TestSpaced
<1>1. IInv /\ [Next]_vars => [last' # last => last' - last >= TestWindow]_vars
  <2> SUFFICES ASSUME IInv, Next, last' # last PROVE last' - last >= TestWindow
    BY DEF vars, timeVars
  <2>1. PICK c \in Conn : TestSwap(c)
    BY ZenonT(60)
       DEF Next, Handle, Forwarder, Publisher, Receive, Leave, Accept, Watch,
           ReadMsg, ReadFails, Check, Refuse, Reply, SubscribeAgain, Subscribe, Cancel,
           Unsubscribe, CleanUp, Close, TestLoad, TestLimited, AnswerLock, Answer,
           AnswerDropped, Proceed,
           Take, ForwardLock, Forward, End, Publish, Offer, PublishEnds,
           AcceptFails, StopCancels, StopCloses, StopReturns, StopStep, timeVars
  <2>2. QED
    BY <2>1 DEF TestSwap, Swapped
<1>2. QED
  BY ServerInvariant, <1>1, PTL DEF Spec, TestSpaced
-----------------------------------------------------------------------------
(* Lines *)

\* Two subscribers the hub knows belong to different connections.
LEMMA OnePerConnection ==
    ASSUME IInv, NEW s \in hub, NEW t \in hub, s[1] = t[1]
    PROVE  s = t
<1>1. s \in Subscriber /\ t \in Subscriber
  BY DEF IInv, ConnectionsExact, TypeOK
<1>2. (\E c \in Conn : s \in subs[c]) /\ (\E c \in Conn : t \in subs[c])
  BY <1>1 DEF IInv, ConnectionsExact, HubExact
<1>3. s \in subs[s[1]] /\ t \in subs[s[1]] /\ s[1] \in Conn
  BY <1>2 DEF IInv, HubSafe
<1>4. QED
  BY <1>3 DEF IInv, ConnectionsExact, HubExact

\* Whatever leaves the channels, the goroutines and Publish alone moves no line.
LEMMA LinesStay ==
    ASSUME IInv, LinesInv, UNCHANGED <<buf, fwd, sent, filter, pub, published>>
    PROVE  LinesInv'
<1>1. /\ \A t \in Subscriber : Held(t)' = Held(t) /\ Waiting(t)' = Waiting(t)
                               /\ Carried(t)' = Carried(t)
      /\ \A c \in Conn : Delivered(c)' = Delivered(c)
  BY DEF Held, Waiting, Carried, Delivered
<1>2. /\ \A t \in Subscriber : t[1] \in Conn
      /\ pub.on => pub.left \subseteq Subscriber
  BY DEF Subscriber, IInv, ConnectionsExact, TypeOK
<1>3. InOnePlace'
  BY <1>1, <1>2 DEF LinesInv, InOnePlace, LineOnce
<1>4. NotEarly'
  BY <1>1, <1>2 DEF LinesInv, NotEarly
<1>5. FilterKept'
  BY <1>1 DEF LinesInv, FilterKept
<1>6. QED
  BY <1>3, <1>4, <1>5 DEF LinesInv

\* A new subscriber takes a filter that no line has passed yet.
LEMMA LinesSubscribed ==
    ASSUME IInv, LinesInv, NEW c \in Conn, NEW f \in Filter, Subscribe(c, f)
    PROVE  LinesInv'
<1>1. PICK n \in 1..MaxSubs :
        /\ fwd[<<c, n>>].at = "unused"
        /\ filter' = [filter EXCEPT ![<<c, n>>] = f]
        /\ fwd' = [fwd EXCEPT ![<<c, n>>].at = "idle"]
  BY DEF Subscribe
<1>2. UNCHANGED <<buf, sent, pub, published>>
  BY DEF Subscribe, wireVars, pubVars
<1> DEFINE new == <<c, n>>
<1>3. /\ new \in Subscriber /\ fwd[new].at = "unused" /\ fwd'[new].at = "idle"
      /\ \A t \in Subscriber : t # new => fwd'[t] = fwd[t] /\ filter'[t] = filter[t]
  BY <1>1 DEF Subscriber, IInv, ConnectionsExact, TypeOK, Goroutine
<1> HIDE DEF new
<1>4. \A t \in Subscriber : Held(t)' = Held(t) /\ Waiting(t)' = Waiting(t)
                            /\ Carried(t)' = Carried(t)
  BY <1>2, <1>3 DEF Held, Waiting, Carried
<1>5. \A d \in Conn : Delivered(d)' = Delivered(d)
  BY <1>2 DEF Delivered
<1>6. \A s \in Subscriber : s[1] \in Conn
  BY DEF Subscriber
<1>7. InOnePlace'
  BY <1>2, <1>4, <1>5, <1>6 DEF LinesInv, InOnePlace, LineOnce
<1>8. NotEarly'
  <2>1. pub.on => pub.left \subseteq Subscriber
    BY DEF IInv, ConnectionsExact, TypeOK
  <2>2. QED
    BY <1>2, <1>4, <1>5, <1>6, <2>1 DEF LinesInv, NotEarly
<1>9. FilterKept'
  <2>1. Held(new) = {}
    BY <1>3 DEF Held
  <2>2. \A t \in Subscriber : Held(t)' \subseteq filter'[t]
    BY <1>3, <1>4, <2>1 DEF LinesInv, FilterKept
  <2>3. ASSUME NEW d \in Conn, NEW m \in Delivered(d)
        PROVE  \E s \in Subscriber : s[1] = d /\ fwd'[s].at # "unused" /\ m \in filter'[s]
    <3>1. PICK s \in Subscriber : s[1] = d /\ fwd[s].at # "unused" /\ m \in filter[s]
      BY <2>3 DEF LinesInv, FilterKept
    <3>2. QED
      BY <1>3, <3>1
  <2>4. QED
    BY <1>5, <2>2, <2>3 DEF FilterKept
<1>10. QED
  BY <1>7, <1>8, <1>9 DEF LinesInv

\* A goroutine takes a line from its buffer; it holds it if it passes the filter.
LEMMA LinesTaken ==
    ASSUME IInv, LinesInv, NEW s \in Subscriber, Take(s)
    PROVE  LinesInv'
<1> DEFINE m == Head(buf[s])
<1>1. /\ fwd[s].at = "idle" /\ buf[s] # <<>>
      /\ buf' = [buf EXCEPT ![s] = Tail(buf[s])]
      /\ fwd' = [fwd EXCEPT ![s] = IF Passes(s, m) THEN [at |-> "holds", msg |-> m] ELSE @]
      /\ UNCHANGED <<sent, filter, pub, published>>
  BY DEF Take, wireVars, subVars, pubVars
<1>2. buf[s] \in Seq(1..MaxPublished) /\ s[1] \in Conn
  BY DEF IInv, ConnectionsExact, TypeOK, Subscriber
<1>3. /\ m = buf[s][1] /\ 1 \in DOMAIN buf[s]
      /\ DOMAIN buf'[s] = 1..(Len(buf[s]) - 1) /\ DOMAIN buf[s] = 1..Len(buf[s])
      /\ \A i \in DOMAIN buf'[s] : i + 1 \in DOMAIN buf[s] /\ buf'[s][i] = buf[s][i + 1]
  <2>1. buf'[s] = Tail(buf[s])
    BY <1>1 DEF IInv, ConnectionsExact, TypeOK
  <2>2. Len(buf[s]) \in Nat \ {0} /\ DOMAIN buf[s] = 1..Len(buf[s]) /\ m = buf[s][1]
    BY <1>1, <1>2
  <2>3. /\ DOMAIN Tail(buf[s]) = 1..(Len(buf[s]) - 1)
        /\ \A i \in 1..(Len(buf[s]) - 1) : Tail(buf[s])[i] = buf[s][i + 1]
    BY <1>1, <1>2, <2>2
  <2>4. QED
    BY <2>1, <2>2, <2>3
<1>4. \A t \in Subscriber : t # s => fwd'[t] = fwd[t] /\ buf'[t] = buf[t]
  BY <1>1 DEF IInv, ConnectionsExact, TypeOK
<1>5. /\ Held(s)' \subseteq {m} \cap filter[s]
      /\ fwd'[s].at # "unused"
  <2>1. CASE Passes(s, m)
    <3>1. fwd'[s] = [at |-> "holds", msg |-> m]
      BY <1>1, <2>1 DEF IInv, ConnectionsExact, TypeOK
    <3>2. QED
      BY <2>1, <3>1 DEF Held, Passes
  <2>2. CASE ~Passes(s, m)
    <3>1. fwd'[s] = fwd[s]
      BY <1>1, <2>2 DEF IInv, ConnectionsExact, TypeOK
    <3>2. QED
      BY <1>1, <3>1 DEF Held
  <2>3. QED
    BY <2>1, <2>2
<1>6. m \in Waiting(s) /\ Waiting(s)' \subseteq Waiting(s)
  BY <1>3 DEF Waiting
<1>7. m \notin Waiting(s)'
  <2>1. ASSUME NEW i \in DOMAIN buf'[s], buf'[s][i] = m PROVE FALSE
    <3>1. i + 1 \in DOMAIN buf[s] /\ buf[s][i + 1] = buf[s][1] /\ i + 1 # 1
      BY <1>3, <2>1
    <3>2. QED
      BY <1>3, <3>1 DEF LinesInv, InOnePlace
  <2>2. QED
    BY <2>1 DEF Waiting
<1>8. \A t \in Subscriber : Carried(t)' \subseteq Carried(t)
  <2>1. \A t \in Subscriber : t # s => Carried(t)' = Carried(t)
    BY <1>4 DEF Carried, Held, Waiting
  <2>2. Carried(s)' \subseteq Carried(s)
    BY <1>5, <1>6 DEF Carried
  <2>3. QED
    BY <2>1, <2>2
<1>9. \A d \in Conn : Delivered(d)' = Delivered(d)
  BY <1>1 DEF Delivered
<1>10. \A t \in Subscriber : t[1] \in Conn
  BY DEF Subscriber
<1> HIDE DEF m
<1>11. InOnePlace'
  <2>1. LineOnce'
    BY <1>1 DEF LinesInv, InOnePlace, LineOnce
  <2>2. ASSUME NEW t \in Subscriber
        PROVE  /\ \A i, j \in DOMAIN buf'[t] : buf'[t][i] = buf'[t][j] => i = j
               /\ Held(t)' \cap Waiting(t)' = {}
    <3>1. CASE t = s
      <4>1. \A i, j \in DOMAIN buf'[s] : buf'[s][i] = buf'[s][j] => i + 1 = j + 1
        BY <1>3 DEF LinesInv, InOnePlace
      <4>2. \A i, j \in DOMAIN buf'[s] : i + 1 = j + 1 => i = j
        BY <1>3
      <4>3. QED
        BY <1>5, <1>7, <3>1, <4>1, <4>2
    <3>2. CASE t # s
      BY <1>4, <3>2 DEF LinesInv, InOnePlace, Held, Waiting
    <3>3. QED
      BY <3>1, <3>2
  <2>3. ASSUME NEW t \in Subscriber
        PROVE  /\ Carried(t)' \cap Delivered(t[1])' = {}
               /\ \A u \in Subscriber : u[1] = t[1] /\ u # t => Carried(t)' \cap Carried(u)' = {}
    BY <1>8, <1>9, <1>10 DEF LinesInv, InOnePlace
  <2>4. QED
    BY <2>1, <2>2, <2>3 DEF InOnePlace
<1>12. NotEarly'
  <2>1. pub.on => pub.left \subseteq Subscriber
    BY DEF IInv, ConnectionsExact, TypeOK
  <2>2. QED
    BY <1>1, <1>8, <1>9, <1>10, <2>1 DEF LinesInv, NotEarly
<1>13. FilterKept'
  <2>1. \A t \in Subscriber : Held(t)' \subseteq filter'[t]
    <3>1. \A t \in Subscriber : t # s => Held(t)' = Held(t)
      BY <1>4 DEF Held
    <3>2. QED
      BY <1>1, <1>5, <3>1 DEF LinesInv, FilterKept
  <2>2. ASSUME NEW d \in Conn, NEW x \in Delivered(d)
        PROVE  \E t \in Subscriber : t[1] = d /\ fwd'[t].at # "unused" /\ x \in filter'[t]
    <3>1. PICK t \in Subscriber : t[1] = d /\ fwd[t].at # "unused" /\ x \in filter[t]
      BY <2>2 DEF LinesInv, FilterKept
    <3>2. QED
      BY <1>1, <1>4, <1>5, <3>1
  <2>3. QED
    BY <1>9, <2>1, <2>2 DEF FilterKept
<1>14. QED
  BY <1>11, <1>12, <1>13 DEF LinesInv

\* Locking before the write, and the end of a goroutine: no line moves.
LEMMA LinesHeld ==
    ASSUME IInv, LinesInv, NEW s \in Subscriber, ForwardLock(s) \/ End(s)
    PROVE  LinesInv'
<1>1. /\ UNCHANGED <<buf, sent, filter, pub, published>>
      /\ \/ fwd[s].at = "holds" /\ fwd' = [fwd EXCEPT ![s].at = "writing"]
         \/ fwd[s].at = "idle" /\ fwd' = [fwd EXCEPT ![s].at = "ended"]
  BY DEF ForwardLock, End, wireVars, subVars, pubVars
<1>2. /\ \A t \in Subscriber : Held(t)' = Held(t)
      /\ \A t \in Subscriber : fwd[t].at # "unused" => fwd'[t].at # "unused"
  <2>1. \A t \in Subscriber : t # s => fwd'[t] = fwd[t]
    BY <1>1 DEF IInv, ConnectionsExact, TypeOK
  <2>2. Held(s)' = Held(s) /\ fwd'[s].at # "unused"
    <3>1. fwd[s] \in Goroutine
      BY DEF IInv, ConnectionsExact, TypeOK
    <3>2. /\ fwd'[s].msg = fwd[s].msg
          /\ \/ fwd[s].at = "holds" /\ fwd'[s].at = "writing"
             \/ fwd[s].at = "idle" /\ fwd'[s].at = "ended"
      BY <1>1, <3>1 DEF IInv, ConnectionsExact, TypeOK, Goroutine
    <3>3. QED
      BY <3>2 DEF Held
  <2>3. QED
    BY <2>1, <2>2 DEF Held
<1>3. /\ \A t \in Subscriber : Waiting(t)' = Waiting(t) /\ Carried(t)' = Carried(t)
      /\ \A d \in Conn : Delivered(d)' = Delivered(d)
  BY <1>1, <1>2 DEF Waiting, Carried, Delivered
<1>4. \A t \in Subscriber : t[1] \in Conn
  BY DEF Subscriber
<1>5. InOnePlace'
  BY <1>1, <1>2, <1>3, <1>4 DEF LinesInv, InOnePlace, LineOnce
<1>6. NotEarly'
  <2>1. pub.on => pub.left \subseteq Subscriber
    BY DEF IInv, ConnectionsExact, TypeOK
  <2>2. QED
    BY <1>1, <1>3, <1>4, <2>1 DEF LinesInv, NotEarly
<1>7. FilterKept'
  BY <1>1, <1>2, <1>3 DEF LinesInv, FilterKept
<1>8. QED
  BY <1>5, <1>6, <1>7 DEF LinesInv

\* A line goes from the hands of a goroutine to the connection, or is lost with it.
LEMMA LinesForwarded ==
    ASSUME IInv, LinesInv, NEW s \in Subscriber, Forward(s)
    PROVE  LinesInv'
<1> DEFINE m == fwd[s].msg
<1> DEFINE c == s[1]
<1>1. /\ fwd[s].at = "writing" /\ fwd' = [fwd EXCEPT ![s] = [at |-> "idle", msg |-> 0]]
      /\ sent' = [sent EXCEPT ![c] = IF Broken(c) THEN @ ELSE Append(@, m)]
      /\ UNCHANGED <<buf, filter, pub, published>>
  BY DEF Forward, subVars, pubVars
<1>2. /\ c \in Conn /\ m \in Held(s) /\ Held(s)' = {} /\ fwd'[s].at # "unused"
      /\ \A t \in Subscriber : t[1] \in Conn
      /\ \A t \in Subscriber : t # s => fwd'[t] = fwd[t]
      /\ sent[c] \in Seq(1..MaxPublished)
  BY <1>1 DEF Held, Subscriber, IInv, ConnectionsExact, TypeOK
<1>3. sent'[c] = sent[c] \/ sent'[c] = Append(sent[c], m)
  BY <1>1, <1>2 DEF IInv, ConnectionsExact, TypeOK
<1>4. \A d \in Conn : d # c => sent'[d] = sent[d]
  BY <1>1 DEF IInv, ConnectionsExact, TypeOK
<1> HIDE DEF c, m
<1>5. Delivered(c)' \subseteq Delivered(c) \union {m}
  <2>1. CASE sent'[c] = sent[c]
    BY <2>1 DEF Delivered
  <2>2. CASE sent'[c] = Append(sent[c], m)
    BY <1>2, <2>2, AppendProperties DEF Delivered
  <2>3. QED
    BY <1>3, <2>1, <2>2
<1>6. \A d \in Conn : d # c => Delivered(d)' = Delivered(d)
  BY <1>4 DEF Delivered
<1>7. /\ \A t \in Subscriber : t # s => Carried(t)' = Carried(t)
      /\ Carried(s)' = Waiting(s) /\ \A t \in Subscriber : Waiting(t)' = Waiting(t)
  BY <1>1, <1>2 DEF Carried, Held, Waiting
<1>8. m \in Carried(s) /\ m \notin Waiting(s) /\ m \notin Delivered(c)
  BY <1>2 DEF LinesInv, InOnePlace, Carried, c
<1>9. InOnePlace'
  <2>1. LineOnce'
    <3>1. ASSUME NEW d \in Conn
          PROVE  \A i, j \in DOMAIN sent'[d] : sent'[d][i] = sent'[d][j] => i = j
      <4>1. CASE sent'[d] = sent[d]
        BY <4>1 DEF LinesInv, InOnePlace, LineOnce
      <4>2. CASE d = c /\ sent'[c] = Append(sent[c], m)
        <5>1. /\ DOMAIN sent'[c] = 1..(Len(sent[c]) + 1) /\ DOMAIN sent[c] = 1..Len(sent[c])
              /\ sent'[c][Len(sent[c]) + 1] = m
              /\ \A i \in DOMAIN sent[c] : sent'[c][i] = sent[c][i] /\ sent[c][i] # m
          BY <1>2, <1>8, <4>2, AppendProperties DEF Delivered
        <5>2. \A i, j \in DOMAIN sent[c] : sent[c][i] = sent[c][j] => i = j
          BY <1>2 DEF LinesInv, InOnePlace, LineOnce
        <5>3. Len(sent[c]) \in Nat
          BY <1>2
        <5>4. QED
          BY <4>2, <5>1, <5>2, <5>3
      <4>3. QED
        BY <1>3, <1>4, <4>1, <4>2
    <3>2. QED
      BY <3>1 DEF LineOnce
  <2>2. ASSUME NEW t \in Subscriber
        PROVE  /\ \A i, j \in DOMAIN buf'[t] : buf'[t][i] = buf'[t][j] => i = j
               /\ Held(t)' \cap Waiting(t)' = {}
    BY <1>1, <1>2, <1>7 DEF LinesInv, InOnePlace, Held
  <2>3. ASSUME NEW t \in Subscriber PROVE Carried(t)' \cap Delivered(t[1])' = {}
    <3>1. CASE t[1] # c
      BY <1>2, <1>6, <1>7, <3>1 DEF LinesInv, InOnePlace, c
    <3>2. CASE t = s
      BY <1>5, <1>7, <1>8, <3>2 DEF LinesInv, InOnePlace, Carried, c
    <3>3. CASE t # s /\ t[1] = c
      <4>1. Carried(t)' = Carried(t) /\ Carried(t) \cap Delivered(c) = {}
        BY <1>7, <3>3 DEF LinesInv, InOnePlace
      <4>2. m \notin Carried(t)
        BY <1>8, <3>3 DEF LinesInv, InOnePlace, c
      <4>3. QED
        BY <1>5, <3>3, <4>1, <4>2
    <3>4. QED
      BY <3>1, <3>2, <3>3
  <2>4. ASSUME NEW t \in Subscriber, NEW u \in Subscriber, u[1] = t[1], u # t
        PROVE  Carried(t)' \cap Carried(u)' = {}
    <3>1. \A v \in Subscriber : Carried(v)' \subseteq Carried(v)
      BY <1>7 DEF Carried
    <3>2. QED
      BY <2>4, <3>1 DEF LinesInv, InOnePlace
  <2>5. QED
    BY <2>1, <2>2, <2>3, <2>4 DEF InOnePlace
<1>10. NotEarly'
  <2>1. \A v \in Subscriber : Carried(v)' \subseteq Carried(v)
    BY <1>7 DEF Carried
  <2>2. ASSUME pub.on, NEW t \in pub.left
        PROVE  published \notin Delivered(t[1])'
    <3>1. t \in Subscriber /\ published \notin Delivered(t[1])
      BY <2>2 DEF LinesInv, NotEarly, IInv, ConnectionsExact, TypeOK
    <3>2. CASE t[1] = c
      <4>1. published \notin Carried(s)
        BY <2>2, <3>2 DEF LinesInv, NotEarly, c
      <4>2. QED
        BY <1>5, <1>8, <3>1, <3>2, <4>1
    <3>3. CASE t[1] # c
      BY <1>2, <1>6, <3>1, <3>3
    <3>4. QED
      BY <3>2, <3>3
  <2>3. \A d \in Conn : Delivered(d)' \subseteq 1..published
    BY <1>2, <1>5, <1>6, <1>8 DEF LinesInv, NotEarly
  <2>4. QED
    BY <1>1, <2>1, <2>2, <2>3 DEF LinesInv, NotEarly
<1>11. FilterKept'
  <2>1. \A t \in Subscriber : Held(t)' \subseteq filter'[t]
    BY <1>1, <1>2 DEF LinesInv, FilterKept, Held
  <2>2. ASSUME NEW d \in Conn, NEW x \in Delivered(d)'
        PROVE  \E t \in Subscriber : t[1] = d /\ fwd'[t].at # "unused" /\ x \in filter'[t]
    <3>1. CASE x \in Delivered(d)
      <4>1. PICK t \in Subscriber : t[1] = d /\ fwd[t].at # "unused" /\ x \in filter[t]
        BY <3>1 DEF LinesInv, FilterKept
      <4>2. QED
        BY <1>1, <1>2, <4>1
    <3>2. CASE d = c /\ x = m
      <4>1. m \in filter[s]
        BY <1>2 DEF LinesInv, FilterKept
      <4>2. QED
        BY <1>1, <1>2, <3>2, <4>1 DEF c
    <3>3. QED
      BY <1>5, <1>6, <3>1, <3>2, <2>2
  <2>3. QED
    BY <2>1, <2>2 DEF FilterKept
<1>12. QED
  BY <1>9, <1>10, <1>11 DEF LinesInv

\* Publish offers a line to one subscriber; the connection had it nowhere.
LEMMA LinesOffered ==
    ASSUME IInv, LinesInv, NEW s \in Subscriber, Offer(s)
    PROVE  LinesInv'
<1>1. /\ pub.on /\ s \in pub.left
      /\ buf' = [buf EXCEPT ![s] = IF Len(@) < BufSize THEN Append(@, published) ELSE @]
      /\ pub' = [pub EXCEPT !.left = @ \ {s}]
      /\ UNCHANGED <<published, fwd, sent, filter>>
  BY DEF Offer, wireVars, subVars
<1>2. /\ buf[s] \in Seq(1..MaxPublished) /\ pub'.on /\ pub'.left = pub.left \ {s}
      /\ pub.left \subseteq hub /\ pub.left \subseteq Subscriber
      /\ \A t \in Subscriber : t[1] \in Conn
      /\ published \in Nat /\ published > 0
  BY SMTT(30), <1>1 DEF IInv, ConnectionsExact, HubSafe, TypeOK, Subscriber
<1>3. /\ buf'[s] = buf[s] \/ buf'[s] = Append(buf[s], published)
      /\ \A t \in Subscriber : t # s => buf'[t] = buf[t]
  BY <1>1 DEF IInv, ConnectionsExact, TypeOK
<1>4. /\ published \notin Delivered(s[1])
      /\ \A t \in Subscriber : t[1] = s[1] => published \notin Carried(t)
  BY <1>1 DEF LinesInv, NotEarly
<1>5. /\ \A t \in Subscriber : Held(t)' = Held(t)
      /\ \A d \in Conn : Delivered(d)' = Delivered(d)
  BY <1>1 DEF Held, Delivered
<1>6. Waiting(s)' \subseteq Waiting(s) \union {published}
  <2>1. CASE buf'[s] = buf[s]
    BY <2>1 DEF Waiting
  <2>2. CASE buf'[s] = Append(buf[s], published)
    BY <1>2, <2>2, AppendProperties DEF Waiting
  <2>3. QED
    BY <1>3, <2>1, <2>2
<1>7. /\ \A t \in Subscriber : t # s => Waiting(t)' = Waiting(t) /\ Carried(t)' = Carried(t)
      /\ Carried(s)' \subseteq Carried(s) \union {published}
  BY <1>3, <1>5, <1>6 DEF Waiting, Carried
<1>8. InOnePlace'
  <2>1. LineOnce'
    BY <1>1 DEF LinesInv, InOnePlace, LineOnce
  <2>2. \A i, j \in DOMAIN buf'[s] : buf'[s][i] = buf'[s][j] => i = j
    <3>1. \A i, j \in DOMAIN buf[s] : buf[s][i] = buf[s][j] => i = j
      BY DEF LinesInv, InOnePlace
    <3>2. CASE buf'[s] = Append(buf[s], published)
      <4>1. /\ DOMAIN buf'[s] = 1..(Len(buf[s]) + 1) /\ DOMAIN buf[s] = 1..Len(buf[s])
            /\ buf'[s][Len(buf[s]) + 1] = published
            /\ \A i \in DOMAIN buf[s] : buf'[s][i] = buf[s][i] /\ buf[s][i] # published
        BY <1>2, <1>4, <3>2, AppendProperties DEF Carried, Waiting
      <4>2. Len(buf[s]) \in Nat
        BY <1>2
      <4>3. QED
        BY <3>1, <4>1, <4>2
    <3>3. QED
      BY <1>3, <3>1, <3>2
  <2>3. ASSUME NEW t \in Subscriber
        PROVE  /\ \A i, j \in DOMAIN buf'[t] : buf'[t][i] = buf'[t][j] => i = j
               /\ Held(t)' \cap Waiting(t)' = {}
               /\ Carried(t)' \cap Delivered(t[1])' = {}
    <3>1. CASE t = s
      <4>1. published \notin Held(s)
        BY <1>4 DEF Carried
      <4>2. QED
        BY <1>2, <1>4, <1>5, <1>6, <1>7, <2>2, <3>1, <4>1 DEF LinesInv, InOnePlace
    <3>2. CASE t # s
      BY <1>2, <1>3, <1>5, <1>7, <3>2 DEF LinesInv, InOnePlace
    <3>3. QED
      BY <3>1, <3>2
  <2>4. ASSUME NEW t \in Subscriber, NEW u \in Subscriber, u[1] = t[1], u # t
        PROVE  Carried(t)' \cap Carried(u)' = {}
    <3>1. Carried(t) \cap Carried(u) = {}
      BY <2>4 DEF LinesInv, InOnePlace
    <3>2. CASE t = s
      BY <1>4, <1>7, <2>4, <3>1, <3>2
    <3>3. CASE u = s
      BY <1>4, <1>7, <2>4, <3>1, <3>3
    <3>4. CASE t # s /\ u # s
      BY <1>7, <3>1, <3>4
    <3>5. QED
      BY <3>2, <3>3, <3>4
  <2>5. QED
    BY <2>1, <2>3, <2>4 DEF InOnePlace
<1>9. NotEarly'
  <2>1. \A t \in Subscriber : Carried(t)' \subseteq 1..published
    BY <1>2, <1>7 DEF LinesInv, NotEarly
  <2>2. ASSUME NEW t \in pub'.left
        PROVE  /\ published \notin Delivered(t[1])'
               /\ \A u \in Subscriber : u[1] = t[1] => published \notin Carried(u)'
    <3>1. t \in pub.left /\ t # s /\ t \in hub /\ s \in hub /\ t[1] \in Conn
      BY <1>1, <1>2, <2>2
    <3>2. t[1] # s[1]
      BY <3>1, OnePerConnection
    <3>3. QED
      BY <1>1, <1>5, <1>7, <3>1, <3>2 DEF LinesInv, NotEarly
  <2>3. QED
    BY <1>1, <1>5, <2>1, <2>2 DEF LinesInv, NotEarly
<1>10. FilterKept'
  BY <1>1, <1>5 DEF LinesInv, FilterKept
<1>11. QED
  BY <1>8, <1>9, <1>10 DEF LinesInv

\* A new message is a new number; a Publish that ended owes nothing.
LEMMA LinesPublished ==
    ASSUME IInv, LinesInv, Publish \/ PublishEnds
    PROVE  LinesInv'
<1>1. /\ UNCHANGED <<buf, fwd, sent, filter>>
      /\ published' = published + 1 \/ (published' = published /\ ~pub'.on)
  <2>1. pub \in [on : BOOLEAN, left : SUBSET Subscriber]
    BY DEF IInv, ConnectionsExact, TypeOK
  <2>2. CASE Publish
    BY <2>2 DEF Publish, wireVars, subVars, chanVars
  <2>3. CASE PublishEnds
    <3>1. pub' = [pub EXCEPT !.on = FALSE]
      BY <2>3 DEF PublishEnds
    <3>2. ~pub'.on
      BY <2>1, <3>1
    <3>3. QED
      BY <2>3, <3>2 DEF PublishEnds, wireVars, subVars, chanVars
  <2>4. QED
    BY <2>2, <2>3
<1>2. /\ \A t \in Subscriber : Held(t)' = Held(t) /\ Waiting(t)' = Waiting(t)
                               /\ Carried(t)' = Carried(t)
      /\ \A d \in Conn : Delivered(d)' = Delivered(d)
  BY <1>1 DEF Held, Waiting, Carried, Delivered
<1>3. published \in Nat /\ \A t \in Subscriber : t[1] \in Conn
  BY DEF IInv, ConnectionsExact, TypeOK, Subscriber
<1>4. pub'.on => pub'.left \subseteq Subscriber
  BY DEF Publish, PublishEnds, IInv, ConnectionsExact, TypeOK
<1>5. InOnePlace'
  BY <1>1, <1>2, <1>3 DEF LinesInv, InOnePlace, LineOnce
<1>6. NotEarly'
  <2>1. /\ \A s \in Subscriber : Carried(s)' \subseteq 1..published'
        /\ \A c \in Conn : Delivered(c)' \subseteq 1..published'
    BY <1>1, <1>2, <1>3 DEF LinesInv, NotEarly
  <2>2. ASSUME pub'.on PROVE published' \notin 1..published
    BY <1>1, <1>3, <2>2
  <2>3. ASSUME pub'.on, NEW s \in pub'.left
        PROVE  /\ published' \notin Delivered(s[1])'
               /\ \A t \in Subscriber : t[1] = s[1] => published' \notin Carried(t)'
    BY <1>2, <1>3, <1>4, <2>2, <2>3 DEF LinesInv, NotEarly
  <2>4. QED
    BY <2>1, <2>3 DEF NotEarly
<1>7. FilterKept'
  BY <1>1, <1>2 DEF LinesInv, FilterKept
<1>8. QED
  BY <1>5, <1>6, <1>7 DEF LinesInv

\* Every step, on top of the first invariant.
LEMMA NextLines ==
    ASSUME IInv, LinesInv, [Next]_vars
    PROVE  LinesInv'
<1>1. CASE \E c \in Conn, f \in Filter : Subscribe(c, f)
  BY <1>1, LinesSubscribed
<1>2. CASE \E s \in Subscriber : Forwarder(s) \/ Offer(s)
  BY <1>2, LinesTaken, LinesHeld, LinesForwarded, LinesOffered DEF Forwarder
<1>3. CASE Publish \/ PublishEnds
  BY <1>3, LinesPublished
<1>4. CASE UNCHANGED <<buf, fwd, sent, filter, pub, published>>
  BY <1>4, LinesStay
<1>5. ASSUME NEW c \in Conn,
             \/ Receive(c) \/ Leave(c) \/ Accept(c) \/ Watch(c) \/ ReadMsg(c) \/ ReadFails(c)
             \/ Check(c) \/ Refuse(c) \/ Reply(c) \/ SubscribeAgain(c) \/ Cancel(c) \/ Unsubscribe(c) \/ CleanUp(c)
             \/ Close(c) \/ TestLoad(c) \/ TestLimited(c) \/ TestSwap(c) \/ AnswerLock(c)
             \/ Answer(c) \/ AnswerDropped(c)
      PROVE  UNCHANGED <<buf, fwd, sent, filter, pub, published>>
  BY <1>5
     DEF Receive, Leave, Accept, Watch, ReadMsg, ReadFails, Check, Refuse, Reply, SubscribeAgain, Cancel,
         Unsubscribe, Remove, CleanUp, Close, TestLoad, TestLimited, TestSwap, AnswerLock,
         Answer, AnswerDropped, Proceed, wireVars, subVars, chanVars, pubVars
<1>6. ASSUME AcceptFails \/ StopCancels \/ StopCloses \/ StopReturns \/ UNCHANGED vars
      PROVE  UNCHANGED <<buf, fwd, sent, filter, pub, published>>
  BY <1>6
     DEF AcceptFails, StopCancels, StopCloses, StopReturns, StopStep, vars, wireVars,
         subVars, chanVars, pubVars
<1>7. QED
  BY <1>1, <1>2, <1>3, <1>4, <1>5, <1>6 DEF Next, Handle, Publisher

\* What a connection is sent passes a filter it asked for, and no message goes out
\* twice on it, though it may subscribe anew while an old goroutine still forwards.
THEOREM LinesAreRight == Spec => []LinesRight
<1>1. Init => LinesInv
  <2> SUFFICES ASSUME Init PROVE LinesInv
    OBVIOUS
  <2>1. /\ \A s \in Subscriber : Held(s) = {} /\ Waiting(s) = {} /\ Carried(s) = {}
        /\ \A c \in Conn : Delivered(c) = {}
        /\ \A s \in Subscriber : buf[s] = <<>>
        /\ \A c \in Conn : sent[c] = <<>>
    BY DEF Init, Held, Waiting, Carried, Delivered
  <2>2. \A s \in Subscriber : s[1] \in Conn
    BY DEF Subscriber
  <2>3. InOnePlace
    BY <2>1, <2>2 DEF InOnePlace, LineOnce
  <2>4. NotEarly
    BY <2>1 DEF Init, NotEarly
  <2>5. FilterKept
    BY <2>1 DEF FilterKept
  <2>6. QED
    BY <2>3, <2>4, <2>5 DEF LinesInv
<1>2. IInv /\ LinesInv /\ [Next]_vars => LinesInv'
  BY NextLines
<1>3. LinesInv => LinesRight
  BY DEF LinesInv, InOnePlace, FilterKept, LinesRight, Filtered, Delivered
<1>4. QED
  BY ServerInvariant, <1>1, <1>2, <1>3, PTL DEF Spec
=============================================================================
