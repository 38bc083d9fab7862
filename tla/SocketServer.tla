---------------------------- MODULE SocketServer ----------------------------
(***************************************************************************)
(* The socket server (src/internal/agent/socket.go) and the hub            *)
(* (src/internal/agent/hub.go): accepting and limiting connections, the    *)
(* loop that reads and dispatches requests, subscriptions with a           *)
(* forwarding goroutine each, the mutex that serialises writes to one      *)
(* connection, the rate limit of test notifications and Stop.              *)
(*                                                                         *)
(* One topic stands for the four: the subscriptions of a connection to     *)
(* different topics share only its write mutex.  A published message is    *)
(* its number.  What a query answers is left out (module Metrics has the   *)
(* metrics query).  A request's handler is kept in its steps: it decodes   *)
(* and checks, or says an error and returns; asks the store, or says an    *)
(* error and returns; says the result.  What it says may fail to encode,   *)
(* to fit in a frame or to be written, and is then lost.  Forwarded        *)
(* messages are taken to encode and to fit (one line, one sample).         *)
(***************************************************************************)
EXTENDS Integers, Sequences, FiniteSets

CONSTANTS
    Conn,            \* the connections clients may open
    MaxConnections,  \* maxConnections, the capacity of connSem
    BufSize,         \* subscriberBufSize, the buffer of a subscriber
    SocketBuf,       \* messages a connection takes before a write blocks
    TestWindow,      \* the 60 seconds between two test notifications
    Scripts,         \* the sessions explored: the requests of each client
    Filter,          \* log filters: the set of messages each lets through
    MaxSubs,         \* bound: subscriptions one connection makes
    MaxPublished,    \* bound: messages published
    MaxNow           \* bound: the clock

Request == {"subscribe", "unsubscribe", "query", "test"}

ASSUME ServerAssumption ==
    /\ IsFiniteSet(Conn)
    /\ MaxConnections \in Nat \ {0} /\ BufSize \in Nat \ {0} /\ SocketBuf \in Nat \ {0}
    /\ MaxSubs \in Nat /\ MaxPublished \in Nat
    /\ TestWindow \in Nat \ {0} /\ MaxNow \in Nat /\ TestWindow <= MaxNow
    /\ \A sc \in Scripts : DOMAIN sc \subseteq Conn /\ \A c \in DOMAIN sc : sc[c] \in Seq(Request)
    /\ \A f \in Filter : f \subseteq 1..MaxPublished

VARIABLES
    stop,      \* how far Stop is: "no", "cancelled", "closed", "returned"
    accepting, \* acceptLoop runs
    slots,     \* tokens in connSem
    conn,      \* the stage of handleConn
    shut,      \* connections the server closed
    gone,      \* connections the client closed
    script,    \* the requests each client has still to send
    task,      \* the request being handled
    reply,     \* history: the last request read, what was written and lost in answer
    unread,    \* messages written that the client has not read
    writer,    \* the holder of writeMu
    sent,      \* the published messages forwarded on each connection
    subs,      \* connState.subs
    hub,       \* hub.subs
    closedCh,  \* subscribers whose channel is closed
    cancelled, \* subscribers whose context is cancelled
    filter,    \* the filter of each subscriber
    buf,       \* its channel
    fwd,       \* its forwarding goroutine: where it is, the message it holds
    pub,       \* Publish: whether it runs, the subscribers still to visit
    published, \* messages published
    panicked,  \* a send on a closed channel
    now,       \* the clock
    last       \* lastTestNotify

lifeVars == <<stop, accepting, slots>>
connVars == <<conn, shut, gone, script, task, reply>>
wireVars == <<unread, writer, sent>>
subVars  == <<subs, hub, closedCh, cancelled, filter>>
chanVars == <<buf, fwd>>
pubVars  == <<pub, published, panicked>>
timeVars == <<now, last>>
vars == <<lifeVars, connVars, wireVars, subVars, chanVars, pubVars, timeVars>>

Subscriber == Conn \X (1..MaxSubs)
NoOne      == <<>>
NoTask     == [kind |-> "none", checked |-> FALSE, last |-> 0, now |-> 0]
NoReply    == [to |-> "none", written |-> 0, lost |-> 0]

\* Stages of handleConn that hold a token of connSem, and those counted by wg.
Slotted == {"reading", "handling", "writing", "leaving"}
Counted == Slotted \union {"released"}

Init ==
    /\ stop = "no" /\ accepting = TRUE /\ slots = 0
    /\ conn = [c \in Conn |-> "absent"]
    /\ shut = {} /\ gone = {}
    /\ script \in Scripts
    /\ task = [c \in Conn |-> NoTask]
    /\ reply = [c \in Conn |-> NoReply]
    /\ unread = [c \in Conn |-> 0]
    /\ writer = [c \in Conn |-> NoOne]
    /\ sent = [c \in Conn |-> <<>>]
    /\ subs = [c \in Conn |-> {}]
    /\ hub = {} /\ closedCh = {} /\ cancelled = {}
    /\ filter = [s \in Subscriber |-> {}]
    /\ buf = [s \in Subscriber |-> <<>>]
    /\ fwd = [s \in Subscriber |-> [at |-> "unused", msg |-> 0]]
    /\ pub = [on |-> FALSE, left |-> {}]
    /\ published = 0 /\ panicked = FALSE
    /\ now = TestWindow /\ last = 0

-----------------------------------------------------------------------------
\* Clients (external): they read or do not, and leave.

Receive(c) ==
    /\ unread[c] > 0 /\ c \notin gone
    /\ unread' = [unread EXCEPT ![c] = @ - 1]
    /\ UNCHANGED <<writer, sent>>
    /\ UNCHANGED <<lifeVars, connVars, subVars, chanVars, pubVars, timeVars>>

Leave(c) ==
    /\ conn[c] \notin {"absent", "done"} /\ c \notin gone
    /\ gone' = gone \union {c}
    /\ UNCHANGED <<conn, shut, script, task, reply>>
    /\ UNCHANGED <<lifeVars, wireVars, subVars, chanVars, pubVars, timeVars>>

-----------------------------------------------------------------------------
\* acceptLoop and Stop.

\* A client connects; beyond the limit its connection is closed at once.
Accept(c) ==
    /\ accepting /\ stop \in {"no", "cancelled"} /\ conn[c] = "absent"
    /\ c \in DOMAIN script
    /\ IF slots < MaxConnections
         THEN /\ slots' = slots + 1
              /\ conn' = [conn EXCEPT ![c] = "reading"]
              /\ UNCHANGED shut
         ELSE /\ conn' = [conn EXCEPT ![c] = "done"]
              /\ shut' = shut \union {c}
              /\ UNCHANGED slots
    /\ UNCHANGED <<stop, accepting, gone, script, task, reply>>
    /\ UNCHANGED <<wireVars, subVars, chanVars, pubVars, timeVars>>

\* The loop returns on any error: the closed listener, or another.
AcceptFails ==
    /\ accepting
    /\ accepting' = FALSE
    /\ UNCHANGED <<stop, slots>>
    /\ UNCHANGED <<connVars, wireVars, subVars, chanVars, pubVars, timeVars>>

StopStep(from, to) ==
    /\ stop = from
    /\ stop' = to
    /\ UNCHANGED <<accepting, slots>>
    /\ UNCHANGED <<connVars, wireVars, subVars, chanVars, pubVars, timeVars>>

StopCancels == StopStep("no", "cancelled")
StopCloses  == StopStep("cancelled", "closed")

\* wg.Wait counts the accept loop and every handleConn.
Waited == ~accepting /\ \A c \in Conn : conn[c] \notin Counted

StopReturns ==
    /\ Waited
    /\ StopStep("closed", "returned")

\* The goroutine that closes the connection when its context is cancelled.
Watch(c) ==
    /\ stop # "no" /\ conn[c] \in Slotted /\ c \notin shut
    /\ shut' = shut \union {c}
    /\ UNCHANGED <<conn, gone, script, task, reply>>
    /\ UNCHANGED <<lifeVars, wireVars, subVars, chanVars, pubVars, timeVars>>

-----------------------------------------------------------------------------
\* handleConn: reading, dispatching, answering.

\* A request sent before the client left may still be read.
ReadMsg(c) ==
    /\ conn[c] = "reading" /\ c \notin shut /\ script[c] # <<>>
    /\ script' = [script EXCEPT ![c] = Tail(@)]
    /\ conn' = [conn EXCEPT ![c] = "handling"]
    /\ task' = [task EXCEPT ![c] = [NoTask EXCEPT !.kind = Head(script[c])]]
    /\ reply' = [reply EXCEPT ![c] = [NoReply EXCEPT !.to = Head(script[c])]]
    /\ UNCHANGED <<shut, gone>>
    /\ UNCHANGED <<lifeVars, wireVars, subVars, chanVars, pubVars, timeVars>>

\* A closed connection, or the client's next frame announces more than
\* MaxMessageSize or does not decode: either way handleConn returns.
ReadFails(c) ==
    /\ conn[c] = "reading"
    /\ c \in shut \union gone \/ script[c] # <<>>
    /\ conn' = [conn EXCEPT ![c] = "leaving"]
    /\ UNCHANGED <<shut, gone, script, task, reply>>
    /\ UNCHANGED <<lifeVars, wireVars, subVars, chanVars, pubVars, timeVars>>

\* The handler ends without a word.
Finish(c) ==
    /\ task' = [task EXCEPT ![c] = NoTask]
    /\ conn' = [conn EXCEPT ![c] = "reading"]
    /\ UNCHANGED <<shut, gone, script, reply>>

\* The handler says something and has the task rest still to do.
Say(c, rest) ==
    /\ task' = [task EXCEPT ![c] = rest]
    /\ conn' = [conn EXCEPT ![c] = "writing"]
    /\ UNCHANGED <<shut, gone, script, reply>>

\* The body decodes and what it asks is in range.  The first subscriptions have
\* no body to check, and a log subscription checks before it does anything.
Check(c) ==
    /\ conn[c] = "handling" /\ task[c].kind # "subscribe" /\ ~task[c].checked
    /\ task' = [task EXCEPT ![c].checked = TRUE]
    /\ UNCHANGED <<conn, shut, gone, script, reply>>
    /\ UNCHANGED <<lifeVars, wireVars, subVars, chanVars, pubVars, timeVars>>

MutantAlready(c) == FALSE
Already(c) == subs[c] # {}

\* Every error that is said is followed by a return.
MutantReturned(c) == task[c]
Returned(c) == NoTask

\* The body is refused, or the store fails a query.
Refuse(c) ==
    /\ conn[c] = "handling"
    /\ task[c].checked => task[c].kind = "query"
    /\ task[c].kind = "subscribe" => ~Already(c)
    /\ Say(c, Returned(c))
    /\ UNCHANGED <<lifeVars, wireVars, subVars, chanVars, pubVars, timeVars>>

Reply(c) ==
    /\ conn[c] = "handling" /\ task[c].kind = "query" /\ task[c].checked
    /\ Say(c, NoTask)
    /\ UNCHANGED <<lifeVars, wireVars, subVars, chanVars, pubVars, timeVars>>

\* subscribeSimple, subscribeLogs: a second subscription is ignored.
\* hub.Subscribe waits for the hub's lock, which Publish holds.
SubscribeAgain(c) ==
    /\ conn[c] = "handling" /\ task[c].kind = "subscribe"
    /\ Already(c)
    /\ Finish(c)
    /\ UNCHANGED <<lifeVars, wireVars, subVars, chanVars, pubVars, timeVars>>

Subscribe(c, f) ==
    /\ conn[c] = "handling" /\ task[c].kind = "subscribe"
    /\ ~Already(c) /\ ~pub.on
    /\ \E n \in 1..MaxSubs :
         LET s == <<c, n>> IN
         /\ fwd[s].at = "unused"
         /\ \A m \in 1..(n - 1) : fwd[<<c, m>>].at # "unused"
         /\ hub' = hub \union {s}
         /\ subs' = [subs EXCEPT ![c] = @ \union {s}]
         /\ filter' = [filter EXCEPT ![s] = f]
         /\ fwd' = [fwd EXCEPT ![s].at = "idle"]
    /\ Finish(c)
    /\ UNCHANGED <<lifeVars, wireVars, closedCh, cancelled, buf, pubVars, timeVars>>

\* unsubscribe and cleanup: cancel the context first, ...
Cancel(c) ==
    /\ \/ conn[c] = "handling" /\ task[c].kind = "unsubscribe" /\ task[c].checked
       \/ conn[c] = "leaving"
    /\ ~(subs[c] \subseteq cancelled)
    /\ cancelled' = cancelled \union subs[c]
    /\ UNCHANGED <<subs, hub, closedCh, filter>>
    /\ UNCHANGED <<lifeVars, connVars, wireVars, chanVars, pubVars, timeVars>>

\* ... then hub.Unsubscribe, under the hub's lock, closes the channel.
HubFree == ~pub.on

MutantRemove(c) ==
    /\ subs' = [subs EXCEPT ![c] = {}]
    /\ UNCHANGED <<hub, closedCh, cancelled, filter>>
Remove(c) ==
    /\ subs[c] \subseteq cancelled /\ HubFree
    /\ hub' = hub \ subs[c]
    /\ closedCh' = closedCh \union subs[c]
    /\ subs' = [subs EXCEPT ![c] = {}]
    /\ UNCHANGED <<cancelled, filter>>

Unsubscribe(c) ==
    /\ conn[c] = "handling" /\ task[c].kind = "unsubscribe" /\ task[c].checked
    /\ Remove(c)
    /\ Finish(c)
    /\ UNCHANGED <<lifeVars, wireVars, chanVars, pubVars, timeVars>>

\* The deferred calls of handleConn: cleanup, cancel and the token, ...
Release == slots - 1

CleanUp(c) ==
    /\ conn[c] = "leaving"
    /\ Remove(c)
    /\ slots' = Release
    /\ conn' = [conn EXCEPT ![c] = "released"]
    /\ UNCHANGED <<stop, accepting, shut, gone, script, task, reply>>
    /\ UNCHANGED <<wireVars, chanVars, pubVars, timeVars>>

\* ... then conn.Close and wg.Done.
Close(c) ==
    /\ conn[c] = "released"
    /\ conn' = [conn EXCEPT ![c] = "done"]
    /\ shut' = shut \union {c}
    /\ UNCHANGED <<gone, script, task, reply>>
    /\ UNCHANGED <<lifeVars, wireVars, subVars, chanVars, pubVars, timeVars>>

-----------------------------------------------------------------------------
\* testNotify: the time of the last test is read, then compared and swapped.

\* The clock moves on, if at all, between two of its readings.
TestLoad(c) ==
    /\ conn[c] = "handling" /\ task[c].kind = "test" /\ task[c].checked
    /\ task[c].now = 0
    /\ now' \in now..MaxNow
    /\ task' = [task EXCEPT ![c].last = last, ![c].now = now']
    /\ UNCHANGED <<last, conn, shut, gone, script, reply>>
    /\ UNCHANGED <<lifeVars, wireVars, subVars, chanVars, pubVars>>

TestLimited(c) ==
    /\ conn[c] = "handling" /\ task[c].now # 0
    /\ task[c].now - task[c].last < TestWindow
    /\ Say(c, Returned(c))
    /\ UNCHANGED <<lifeVars, wireVars, subVars, chanVars, pubVars, timeVars>>

MutantSwapped(c) == TRUE
Swapped(c) == last = task[c].last

TestSwap(c) ==
    /\ conn[c] = "handling" /\ task[c].now # 0
    /\ task[c].now - task[c].last >= TestWindow
    /\ IF Swapped(c)
         THEN last' = task[c].now /\ Say(c, NoTask)
         ELSE /\ task' = [task EXCEPT ![c].last = 0, ![c].now = 0]
              /\ UNCHANGED <<last, conn, shut, gone, script, reply>>
    /\ UNCHANGED <<now, lifeVars, wireVars, subVars, chanVars, pubVars>>

-----------------------------------------------------------------------------
\* writeMsg: lock, write (which blocks while the client does not read, and
\* fails once either side closed the connection), unlock.

Broken(c) == c \in shut \union gone
CanWrite(c) == unread[c] < SocketBuf \/ Broken(c)
Written(c) == unread' = [unread EXCEPT ![c] = IF Broken(c) THEN @ ELSE @ + 1]

Lock(c, holder) == writer[c] = NoOne /\ writer' = [writer EXCEPT ![c] = holder]

MutantUnlock(c) == writer' = [writer EXCEPT ![c] = IF Broken(c) THEN @ ELSE NoOne]
Unlock(c) == writer' = [writer EXCEPT ![c] = NoOne]

AnswerLock(c) ==
    /\ conn[c] = "writing" /\ Lock(c, <<c>>)
    /\ UNCHANGED <<unread, sent>>
    /\ UNCHANGED <<lifeVars, connVars, subVars, chanVars, pubVars, timeVars>>

\* After an answer the handler goes on with what it has still to do.
Proceed(c) ==
    /\ conn' = [conn EXCEPT ![c] = IF task[c] = NoTask THEN "reading" ELSE "handling"]
    /\ UNCHANGED <<shut, gone, script, task>>
    /\ UNCHANGED <<lifeVars, subVars, chanVars, pubVars, timeVars>>

Answer(c) ==
    /\ writer[c] = <<c>> /\ CanWrite(c)
    /\ Written(c) /\ Unlock(c) /\ UNCHANGED sent
    /\ reply' = IF Broken(c) THEN [reply EXCEPT ![c].lost = @ + 1]
                             ELSE [reply EXCEPT ![c].written = @ + 1]
    /\ Proceed(c)

\* sendResult, sendError and sendResponse say nothing when encoding fails, and
\* writeMsg nothing when the frame is over MaxMessageSize.
AnswerDropped(c) ==
    /\ conn[c] = "writing"
    /\ IF writer[c] = <<c>> THEN Unlock(c) ELSE UNCHANGED writer
    /\ UNCHANGED <<unread, sent>>
    /\ reply' = [reply EXCEPT ![c].lost = @ + 1]
    /\ Proceed(c)

-----------------------------------------------------------------------------
\* The forwarding goroutine of a subscription.

Ended(s) ==
    \/ s \in cancelled \/ stop # "no" \/ conn[s[1]] \in {"released", "done"}
    \/ s \in closedCh /\ buf[s] = <<>>

Passes(s, m) == m \in filter[s]

\* select: with both ready it may take a message although it is cancelled.
Take(s) ==
    /\ fwd[s].at = "idle" /\ buf[s] # <<>>
    /\ buf' = [buf EXCEPT ![s] = Tail(@)]
    /\ fwd' = [fwd EXCEPT ![s] = IF Passes(s, Head(buf[s]))
                                   THEN [at |-> "holds", msg |-> Head(buf[s])] ELSE @]
    /\ UNCHANGED <<lifeVars, connVars, wireVars, subVars, pubVars, timeVars>>

ForwardLock(s) ==
    /\ fwd[s].at = "holds" /\ Lock(s[1], s)
    /\ fwd' = [fwd EXCEPT ![s].at = "writing"]
    /\ UNCHANGED <<unread, sent, buf>>
    /\ UNCHANGED <<lifeVars, connVars, subVars, pubVars, timeVars>>

Forward(s) ==
    /\ fwd[s].at = "writing" /\ CanWrite(s[1])
    /\ Written(s[1]) /\ Unlock(s[1])
    /\ fwd' = [fwd EXCEPT ![s] = [at |-> "idle", msg |-> 0]]
    /\ sent' = [sent EXCEPT ![s[1]] = IF Broken(s[1]) THEN @ ELSE Append(@, fwd[s].msg)]
    /\ UNCHANGED <<buf, lifeVars, connVars, subVars, pubVars, timeVars>>

End(s) ==
    /\ fwd[s].at = "idle" /\ Ended(s)
    /\ fwd' = [fwd EXCEPT ![s].at = "ended"]
    /\ UNCHANGED <<buf, lifeVars, connVars, wireVars, subVars, pubVars, timeVars>>

-----------------------------------------------------------------------------
\* hub.Publish: under the read lock it offers the message to every subscriber
\* and drops it where the buffer is full.  Without subscribers it does nothing.

Publish ==
    /\ ~pub.on /\ hub # {} /\ published < MaxPublished
    /\ published' = published + 1
    /\ pub' = [on |-> TRUE, left |-> hub]
    /\ UNCHANGED <<panicked, lifeVars, connVars, wireVars, subVars, chanVars, timeVars>>

Offer(s) ==
    /\ pub.on /\ s \in pub.left
    /\ panicked' = (panicked \/ s \in closedCh)
    /\ buf' = [buf EXCEPT ![s] = IF Len(@) < BufSize THEN Append(@, published) ELSE @]
    /\ pub' = [pub EXCEPT !.left = @ \ {s}]
    /\ UNCHANGED <<published, fwd, lifeVars, connVars, wireVars, subVars, timeVars>>

PublishEnds ==
    /\ pub.on /\ pub.left = {}
    /\ pub' = [pub EXCEPT !.on = FALSE]
    /\ UNCHANGED <<published, panicked>>
    /\ UNCHANGED <<lifeVars, connVars, wireVars, subVars, chanVars, timeVars>>

-----------------------------------------------------------------------------
Handle(c) ==
    \/ ReadMsg(c) \/ ReadFails(c) \/ Check(c) \/ Refuse(c) \/ Reply(c)
    \/ SubscribeAgain(c) \/ (\E f \in Filter : Subscribe(c, f))
    \/ Cancel(c) \/ Unsubscribe(c) \/ CleanUp(c) \/ Close(c)
    \/ TestLoad(c) \/ TestLimited(c) \/ TestSwap(c)
    \/ AnswerLock(c) \/ Answer(c) \/ AnswerDropped(c)

Forwarder(s) == Take(s) \/ ForwardLock(s) \/ Forward(s) \/ End(s)

Publisher == (\E s \in Subscriber : Offer(s)) \/ PublishEnds

Next ==
    \/ \E c \in Conn :
         \/ Receive(c) \/ Leave(c)
         \/ Accept(c) \/ Watch(c) \/ Handle(c)
    \/ \E s \in Subscriber : Forwarder(s)
    \/ Publish \/ Publisher
    \/ AcceptFails \/ StopCancels \/ StopCloses \/ StopReturns

Spec == Init /\ [][Next]_vars

\* Go's scheduler runs what can run: as long as a goroutine of the server can
\* take a step, one does.  No single step is favoured; the clients owe nothing.
System ==
    \/ \E c \in Conn : Handle(c) \/ Watch(c)
    \/ \E s \in Subscriber : Forwarder(s)
    \/ Publisher
    \/ (AcceptFails /\ stop # "no") \/ StopCloses \/ StopReturns

FairSpec == Spec /\ WF_vars(System)

-----------------------------------------------------------------------------
\* Properties.

Stage == {"absent", "done"} \union Counted
Task == [kind : Request \union {"none"}, checked : BOOLEAN, last : 0..MaxNow, now : 0..MaxNow]
Spoken == [to : Request \union {"none"}, written : Nat, lost : Nat]
Goroutine == [at : {"unused", "idle", "holds", "writing", "ended"}, msg : 0..MaxPublished]

TypeOK ==
    /\ stop \in {"no", "cancelled", "closed", "returned"} /\ accepting \in BOOLEAN
    /\ slots \in 0..MaxConnections
    /\ conn \in [Conn -> Stage]
    /\ shut \subseteq Conn /\ gone \subseteq Conn
    /\ DOMAIN script \subseteq Conn /\ \A c \in DOMAIN script : script[c] \in Seq(Request)
    /\ task \in [Conn -> Task]
    /\ reply \in [Conn -> Spoken]
    /\ unread \in [Conn -> 0..SocketBuf]
    /\ \A c \in Conn : writer[c] \in {NoOne, <<c>>} \union Subscriber
    /\ sent \in [Conn -> Seq(1..MaxPublished)]
    /\ subs \in [Conn -> SUBSET Subscriber]
    /\ hub \subseteq Subscriber /\ closedCh \subseteq Subscriber /\ cancelled \subseteq Subscriber
    /\ filter \in [Subscriber -> SUBSET (1..MaxPublished)]
    /\ buf \in [Subscriber -> Seq(1..MaxPublished)]
    /\ fwd \in [Subscriber -> Goroutine]
    /\ pub \in [on : BOOLEAN, left : SUBSET Subscriber]
    /\ published \in 0..MaxPublished /\ panicked \in BOOLEAN
    /\ now \in 0..MaxNow /\ last \in 0..MaxNow

\* The hub knows exactly the subscriptions open connections hold, one per
\* connection: no subscriber outlives its connection (hub.go, cleanup).
HubExact ==
    /\ \A s \in Subscriber : s \in hub <=> \E c \in Conn : s \in subs[c]
    /\ \A c \in Conn :
         /\ \A s, t \in subs[c] : s = t
         /\ subs[c] # {} => conn[c] \in Slotted

\* Publish never sends on a channel that Unsubscribe has closed.
NoSendOnClosed == ~panicked

\* A published message goes out at most once on a connection, although it may
\* unsubscribe and subscribe again while the old goroutine still forwards.
LineOnce == \A c \in Conn : \A i, j \in DOMAIN sent[c] : sent[c][i] = sent[c][j] => i = j

\* What a connection is sent passes a filter it asked for.
Filtered ==
    \A c \in Conn : \A i \in DOMAIN sent[c] :
        \E s \in Subscriber : s[1] = c /\ sent[c][i] \in filter[s]

\* A token of connSem is held by exactly the connections being served.
Served == {c \in Conn : conn[c] \in Slotted}
SlotsExact == slots = Cardinality(Served)

\* No request is answered twice, on no path through its handler (every error is
\* followed by a return, a test's check and swap may have to be repeated); and one
\* that awaits an answer has had it said before the next request is read: it was
\* written, or lost because it did not encode, did not fit in a frame or met a
\* closed connection.  The client matches answers by id and keeps room for one.
Awaited == {"query", "test"}
Said(c) == reply[c].written + reply[c].lost
AnsweredOnce ==
    \A c \in Conn :
        /\ Said(c) <= 1
        /\ conn[c] = "reading" /\ reply[c].to \in Awaited => Said(c) = 1

\* Once Stop has returned no connection is served or will be.
StoppedIsQuiet ==
    stop = "returned" => ~accepting /\ \A c \in Conn : conn[c] \notin Counted

\* Two test notifications are never closer than the window, whichever
\* connections ask and however their checks interleave.
TestSpaced == [][last' # last => last' - last >= TestWindow]_vars

\* Publishing ends whatever the clients do: a subscriber that does not read
\* cannot hold up the collectors.
PublishReturns == pub.on ~> ~pub.on

\* A connection whose client left ends, with its goroutines: nothing leaks,
\* even when the client had stopped reading before.
LeftIsFreed ==
    \A c \in Conn : c \in gone /\ conn[c] \in Counted
        ~> /\ conn[c] = "done"
           /\ \A s \in Subscriber : s[1] = c => fwd[s].at \in {"unused", "ended"}

\* Stop returns although clients stay connected and do not read.
StopEnds == stop = "cancelled" ~> stop = "returned"

\* Hub, subscriptions and tokens agree with the connections that are served, at
\* every step of their coming and going (handleConn, cleanup, hub.go, Stop).
ConnectionsExact == TypeOK /\ HubExact /\ NoSendOnClosed /\ SlotsExact /\ StoppedIsQuiet

\* What makes it inductive.  Publish visits subscribers of the hub only, and the
\* channel of none of them is closed; a subscription is its connection's own.
HubSafe ==
    /\ \A c \in Conn : \A s \in subs[c] :
         s[1] = c /\ fwd[s].at # "unused" /\ s \notin closedCh
    /\ \A s \in closedCh : fwd[s].at # "unused"
    /\ pub.on => pub.left \subseteq hub /\ published > 0
    /\ \A s \in Subscriber : fwd[s].at \in {"holds", "writing"} => fwd[s].msg # 0

\* What a handler has said, by where it is.
AnswerDue ==
    /\ DOMAIN writer = Conn
    /\ \A c \in Conn :
         /\ conn[c] # "absent" => c \in DOMAIN script
         /\ conn[c] = "absent" => reply[c].to \notin Awaited
         /\ conn[c] \in {"handling", "writing"} => Said(c) = 0
         /\ conn[c] = "handling" => task[c].kind = reply[c].to
         /\ conn[c] = "writing" => task[c] = NoTask
         /\ task[c].now # 0 => task[c].kind = "test"
         /\ writer[c] = <<c>> => conn[c] = "writing"

IInv == ConnectionsExact /\ AnsweredOnce /\ HubSafe /\ AnswerDue

\* What a subscriber reads is what it asked for, once (subscribeLogs, Publish).
LinesRight == LineOnce /\ Filtered

\* What makes it inductive.  A published message is in one place of a connection
\* at most: on it, in the hands of one of its goroutines or in one of their
\* buffers; the one that Publish is about to offer to it is in none.
Held(s)      == IF fwd[s].at \in {"holds", "writing"} THEN {fwd[s].msg} ELSE {}
Waiting(s)   == {buf[s][i] : i \in DOMAIN buf[s]}
Carried(s)   == Held(s) \union Waiting(s)
Delivered(c) == {sent[c][i] : i \in DOMAIN sent[c]}

InOnePlace ==
    /\ LineOnce
    /\ \A s \in Subscriber :
         /\ \A i, j \in DOMAIN buf[s] : buf[s][i] = buf[s][j] => i = j
         /\ Held(s) \cap Waiting(s) = {}
         /\ Carried(s) \cap Delivered(s[1]) = {}
         /\ \A t \in Subscriber : t[1] = s[1] /\ t # s => Carried(s) \cap Carried(t) = {}

\* Only what was published travels, and not before it was offered.
NotEarly ==
    /\ \A s \in Subscriber : Carried(s) \subseteq 1..published
    /\ \A c \in Conn : Delivered(c) \subseteq 1..published
    /\ pub.on => \A s \in pub.left :
         /\ published \notin Delivered(s[1])
         /\ \A t \in Subscriber : t[1] = s[1] => published \notin Carried(t)

\* A filter stays what it was while its subscriber may forward.
FilterKept ==
    /\ \A s \in Subscriber : Held(s) \subseteq filter[s]
    /\ \A c \in Conn : \A m \in Delivered(c) :
         \E s \in Subscriber : s[1] = c /\ fwd[s].at # "unused" /\ m \in filter[s]

LinesInv == InOnePlace /\ NotEarly /\ FilterKept

\* Publish, a connection and Stop end, whatever clients do.
ConnectionsEnd == PublishReturns /\ LeftIsFreed /\ StopEnds
=============================================================================
