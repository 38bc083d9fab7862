------------------------------- MODULE Client -------------------------------
(***************************************************************************)
(* The client's end of a connection (src/internal/tui/client.go) and the   *)
(* framing of messages (src/internal/protocol/codec.go): requests that     *)
(* run in commands of their own, the read loop that hands answers to       *)
(* requests and pushed messages to the program, the program's update loop, *)
(* which also writes to the connection, and Close.                         *)
(*                                                                         *)
(* The agent is external here: it answers each request at most once, in    *)
(* order, which SocketServer!AnsweredOnce establishes; an answer over      *)
(* MaxMessageSize or one that cannot be encoded is not sent.               *)
(***************************************************************************)
EXTENDS Integers, Sequences, FiniteSets

CONSTANTS
    Req,        \* the requests commands make
    UpBuf,      \* frame halves the connection takes towards the agent
    DownBuf,    \* messages it takes towards the client
    MaxPushed,  \* bound: streaming messages the agent pushes
    MaxUnsubs   \* bound: unsubscriptions the update loop writes

ASSUME ClientAssumption ==
    /\ UpBuf \in Nat \ {0} /\ DownBuf \in Nat \ {0}
    /\ MaxPushed \in Nat /\ MaxUnsubs \in Nat
    /\ "unsub" \notin Req /\ "nobody" \notin Req

VARIABLES
    at,        \* where each request is
    id,        \* its id
    outcome,   \* what it returned
    ch,        \* its channel: empty, an answer, or closed
    pending,   \* c.pending: id to request
    nextID,    \* c.nextID
    mu,        \* the holder of c.mu
    up,        \* frame halves on their way to the agent
    down,      \* messages on their way to the client
    agent,     \* the requests the agent owes an answer
    dropped,   \* requests whose answer the agent could not send
    pushed,    \* streaming messages pushed
    read,      \* the read loop: where it is and what it holds
    done,      \* c.done is closed
    closed,    \* c.closed
    conn,      \* the connection: "up", "lost" or "closed" by Close
    lost,      \* history: the connection was lost other than by Close
    ui,        \* the update loop: "idle", "lock", "write", "body", "quit"
    unsubs,    \* unsubscriptions written
    told       \* connection errors it was told of

reqVars  == <<at, id, outcome, ch, pending, nextID>>
wireVars == <<mu, up, down>>
peerVars == <<agent, dropped, pushed>>
loopVars == <<read, done>>
connVars == <<closed, conn, lost>>
uiVars   == <<ui, unsubs, told>>
vars == <<reqVars, wireVars, peerVars, loopVars, connVars, uiVars>>

Unsub  == "unsub"     \* the update loop's own write, as a holder of c.mu
Nobody == "nobody"
Reply(r, i, k) == [kind |-> k, id |-> i, of |-> r]
Push == Reply(Nobody, 0, "push")
Nothing == Reply(Nobody, 0, "nothing")

Init ==
    /\ at = [r \in Req |-> "new"] /\ id = [r \in Req |-> 0]
    /\ outcome = [r \in Req |-> Nothing] /\ ch = [r \in Req |-> Nothing]
    /\ pending = <<>> /\ nextID = 0
    /\ mu = Nobody /\ up = <<>> /\ down = <<>>
    /\ agent = <<>> /\ dropped = {} /\ pushed = 0
    /\ read = [at |-> "reading", msg |-> Nothing, to |-> Nobody] /\ done = FALSE
    /\ closed = FALSE /\ conn = "up" /\ lost = FALSE
    /\ ui = "idle" /\ unsubs = 0 /\ told = 0

-----------------------------------------------------------------------------
\* Writing a frame: the header and the body are two writes, made one by c.mu.

Free == mu = Nobody

Lock(w) == Free /\ mu' = w
CanWrite == conn # "up" \/ Len(up) < UpBuf
Put(part, w) == up' = IF conn = "up" THEN Append(up, <<part, w>>) ELSE up

-----------------------------------------------------------------------------
\* Request: a fresh id, an entry in c.pending, the frame, then the select.

MutantFreshIDSame == IF nextID = 0 THEN 1 ELSE nextID
FreshID == nextID + 1

Register(r) ==
    /\ at[r] = "new"
    /\ nextID' = nextID + 1
    /\ id' = [id EXCEPT ![r] = FreshID]
    /\ pending' = [i \in DOMAIN pending \union {FreshID} |-> IF i = FreshID THEN r ELSE pending[i]]
    /\ at' = [at EXCEPT ![r] = "registered"]
    /\ UNCHANGED <<outcome, ch, wireVars, peerVars, loopVars, connVars, uiVars>>

RequestLock(r) ==
    /\ at[r] = "registered" /\ Lock(r)
    /\ at' = [at EXCEPT ![r] = "header"]
    /\ UNCHANGED <<id, outcome, ch, pending, nextID, up, down>>
    /\ UNCHANGED <<peerVars, loopVars, connVars, uiVars>>

WriteHeader(r) ==
    /\ at[r] = "header" /\ CanWrite
    /\ Put("header", r)
    /\ at' = [at EXCEPT ![r] = "body"]
    /\ UNCHANGED <<id, outcome, ch, pending, nextID, mu, down>>
    /\ UNCHANGED <<peerVars, loopVars, connVars, uiVars>>

\* The deferred delete runs on every way out.
Forget(r, answer) == [i \in DOMAIN pending \ {id[r]} |-> pending[i]]

Return(r, answer) ==
    /\ at' = [at EXCEPT ![r] = "returned"]
    /\ outcome' = [outcome EXCEPT ![r] = answer]
    /\ pending' = Forget(r, answer)

\* A write to a broken connection returns its error.
WriteBody(r) ==
    /\ at[r] = "body" /\ CanWrite
    /\ Put("body", r) /\ mu' = Nobody
    /\ IF conn = "up"
         THEN at' = [at EXCEPT ![r] = "waiting"] /\ UNCHANGED <<outcome, pending>>
         ELSE Return(r, Reply(r, id[r], "failed"))
    /\ UNCHANGED <<id, ch, nextID, down, peerVars, loopVars, connVars, uiVars>>

Settle(r, answer) ==
    /\ at[r] = "waiting"
    /\ Return(r, answer)
    /\ UNCHANGED <<id, ch, nextID, wireVars, peerVars, loopVars, connVars, uiVars>>

\* An answer, be it a result, an error or a body that does not decode, is what
\* the caller gets; a closed channel is a failure.
Received(r) == IF ch[r].kind = "closed" THEN Reply(r, id[r], "failed") ELSE ch[r]

GetAnswer(r) == ch[r] # Nothing /\ Settle(r, Received(r))

Timeout(r) == Settle(r, Reply(r, id[r], "failed"))

MutantSeesDone(r) == FALSE
SeesDone(r) == done

GetDone(r) == SeesDone(r) /\ Settle(r, Reply(r, id[r], "failed"))

-----------------------------------------------------------------------------
\* readLoop.

\* An answer is looked up under pendMu and sent to its channel after the
\* unlock; one without an entry, its request having returned, is skipped.
ReadMsg ==
    /\ read.at = "reading" /\ conn # "closed" /\ down # <<>>
    /\ down' = Tail(down)
    /\ LET msg == Head(down) IN
       read' = IF msg.id = 0 THEN [at |-> "sending", msg |-> msg, to |-> Nobody]
               ELSE IF msg.id \in DOMAIN pending
                 THEN [at |-> "delivering", msg |-> msg, to |-> pending[msg.id]]
                 ELSE read
    /\ UNCHANGED <<done, mu, up, reqVars, peerVars, connVars, uiVars>>

MutantDeliver(r) == ch[r] = Nothing /\ at[r] = "waiting"
Deliver(r) == ch[r] = Nothing   \* the channel holds one answer

DeliverAnswer ==
    /\ read.at = "delivering" /\ Deliver(read.to)
    /\ ch' = [ch EXCEPT ![read.to] = read.msg]
    /\ read' = [read EXCEPT !.at = "reading", !.to = Nobody]
    /\ UNCHANGED <<done, at, id, outcome, pending, nextID, wireVars, peerVars, connVars, uiVars>>

\* prog.Send meets the update loop, or returns at once after it has ended.
SendStream ==
    /\ read.at = "sending" /\ ui \in {"idle", "quit"}
    /\ read' = [read EXCEPT !.at = "reading"]
    /\ UNCHANGED <<done, uiVars, reqVars, wireVars, peerVars, connVars>>

\* What was received before the connection broke is still read.  A frame that
\* is too large or does not decode ends the loop although the connection is up.
ReadFails ==
    /\ read.at = "reading"
    /\ \/ conn = "closed" /\ UNCHANGED lost
       \/ conn = "lost" /\ down = <<>> /\ UNCHANGED lost
       \/ conn # "closed" /\ down # <<>> /\ lost' = TRUE
    /\ read' = [read EXCEPT !.at = "ending"]
    /\ done' = TRUE
    /\ UNCHANGED <<closed, conn, reqVars, wireVars, peerVars, uiVars>>

ReleasePending ==
    /\ read.at = "ending"
    /\ ch' = [r \in Req |-> IF \E i \in DOMAIN pending : pending[i] = r
                              THEN Reply(r, id[r], "closed") ELSE ch[r]]
    /\ pending' = <<>>
    /\ read' = [read EXCEPT !.at = "checking"]
    /\ UNCHANGED <<done, at, id, outcome, nextID, wireVars, peerVars, connVars, uiVars>>

CheckClosed ==
    /\ read.at = "checking"
    /\ read' = [read EXCEPT !.at = IF closed THEN "ended" ELSE "telling"]
    /\ UNCHANGED <<done, reqVars, wireVars, peerVars, connVars, uiVars>>

SendConnErr ==
    /\ read.at = "telling" /\ ui \in {"idle", "quit"}
    /\ told' = IF ui = "idle" THEN told + 1 ELSE told
    /\ read' = [read EXCEPT !.at = "ended"]
    /\ UNCHANGED <<done, ui, unsubs, reqVars, wireVars, peerVars, connVars>>

-----------------------------------------------------------------------------
\* The update loop: it receives from prog.Send, writes an unsubscription when
\* the detail view is left, and ends; then main closes the client.

LeaveDetail ==
    /\ ui = "idle" /\ unsubs < MaxUnsubs
    /\ ui' = "lock" /\ unsubs' = unsubs + 1
    /\ UNCHANGED <<told, reqVars, wireVars, peerVars, loopVars, connVars>>

UnsubLock ==
    /\ ui = "lock" /\ Lock(Unsub)
    /\ ui' = "write"
    /\ UNCHANGED <<up, down, unsubs, told, reqVars, peerVars, loopVars, connVars>>

UnsubWrite ==
    /\ ui \in {"write", "body"} /\ CanWrite
    /\ Put(IF ui = "write" THEN "header" ELSE "body", Unsub)
    /\ IF ui = "write" THEN ui' = "body" /\ UNCHANGED mu
                       ELSE ui' = "idle" /\ mu' = Nobody
    /\ UNCHANGED <<down, unsubs, told, reqVars, peerVars, loopVars, connVars>>

Quit ==
    /\ ui = "idle"
    /\ ui' = "quit"
    /\ UNCHANGED <<unsubs, told, reqVars, wireVars, peerVars, loopVars, connVars>>

\* Close: the flag first, the connection second; by the handler of a disconnect
\* or after the update loop has ended.
SetClosed == ~closed /\ closed' = TRUE /\ UNCHANGED conn

Close(when) ==
    /\ ui = when
    /\ SetClosed
    /\ UNCHANGED <<lost, reqVars, wireVars, peerVars, loopVars, uiVars>>

CloseConn ==
    /\ closed /\ conn # "closed"
    /\ conn' = "closed"
    /\ up' = <<>> /\ down' = <<>> /\ agent' = <<>>
    /\ UNCHANGED <<closed, lost, mu, dropped, pushed, reqVars, loopVars, uiVars>>

-----------------------------------------------------------------------------
\* The agent and the network (external).

AgentReads ==
    /\ Len(up) >= 2 /\ conn = "up"
    /\ up' = SubSeq(up, 3, Len(up))
    /\ agent' = IF up[1][2] = Unsub THEN agent ELSE Append(agent, up[1][2])
    /\ UNCHANGED <<mu, down, dropped, pushed, reqVars, loopVars, connVars, uiVars>>

AgentAnswers ==
    /\ agent # <<>> /\ conn = "up" /\ Len(down) < DownBuf
    /\ down' = Append(down, Reply(Head(agent), id[Head(agent)], "answer"))
    /\ agent' = Tail(agent)
    /\ UNCHANGED <<mu, up, dropped, pushed, reqVars, loopVars, connVars, uiVars>>

AgentDrops ==
    /\ agent # <<>> /\ conn = "up"
    /\ dropped' = dropped \union {Head(agent)}
    /\ agent' = Tail(agent)
    /\ UNCHANGED <<pushed, reqVars, wireVars, loopVars, connVars, uiVars>>

AgentPushes ==
    /\ pushed < MaxPushed /\ conn = "up" /\ Len(down) < DownBuf
    /\ pushed' = pushed + 1
    /\ down' = Append(down, Push)
    /\ UNCHANGED <<mu, up, agent, dropped, reqVars, loopVars, connVars, uiVars>>

Lose ==
    /\ conn = "up"
    /\ conn' = "lost" /\ lost' = TRUE
    /\ up' = <<>> /\ agent' = <<>>
    /\ UNCHANGED <<closed, mu, down, dropped, pushed, reqVars, loopVars, uiVars>>

-----------------------------------------------------------------------------
Request(r) ==
    RequestLock(r) \/ WriteHeader(r) \/ WriteBody(r) \/ GetAnswer(r) \/ GetDone(r)

ReadLoop ==
    \/ ReadMsg \/ DeliverAnswer \/ SendStream
    \/ ReadFails \/ ReleasePending \/ CheckClosed \/ SendConnErr

Agent == AgentReads \/ AgentAnswers \/ AgentDrops

Next ==
    \/ \E r \in Req : Register(r) \/ Request(r) \/ Timeout(r)
    \/ ReadLoop
    \/ LeaveDetail \/ UnsubLock \/ UnsubWrite \/ Quit
    \/ Close("idle") \/ Close("quit") \/ CloseConn
    \/ Agent \/ AgentPushes \/ Lose

Spec == Init /\ [][Next]_vars

\* Whoever can run runs; no timeout, push, loss or key stroke is owed.
Running ==
    \/ \E r \in Req : Request(r)
    \/ ReadLoop \/ UnsubLock \/ UnsubWrite \/ Close("quit") \/ CloseConn \/ Agent

FairSpec == Spec /\ WF_vars(Running)

-----------------------------------------------------------------------------
\* Properties.

Kinds   == {"push", "nothing", "answer", "failed", "closed"}
Message == [kind : Kinds, id : Nat, of : Req \union {Nobody}]
Half    == {"header", "body"} \X (Req \union {Unsub})
Over    == {"ending", "checking", "telling", "ended"}

TypeOK ==
    /\ at \in [Req -> {"new", "registered", "header", "body", "waiting", "returned"}]
    /\ nextID \in Nat
    /\ id \in [Req -> 0..nextID]
    /\ outcome \in [Req -> Message] /\ ch \in [Req -> Message]
    /\ pending \in [DOMAIN pending -> Req] /\ DOMAIN pending \subseteq 1..nextID
    /\ mu \in Req \union {Unsub, Nobody}
    /\ up \in Seq(Half) /\ Len(up) <= UpBuf
    /\ down \in Seq(Message) /\ Len(down) <= DownBuf
    /\ agent \in Seq(Req) /\ dropped \subseteq Req /\ pushed \in 0..MaxPushed
    /\ read \in [at : {"reading", "delivering", "sending"} \union Over,
                 msg : Message, to : Req \union {Nobody}]
    /\ done \in BOOLEAN /\ closed \in BOOLEAN /\ lost \in BOOLEAN
    /\ conn \in {"up", "lost", "closed"}
    /\ ui \in {"idle", "lock", "write", "body", "quit"}
    /\ unsubs \in 0..MaxUnsubs /\ told \in 0..1

\* A request returns the answer to itself and to no other, although answers
\* come late, timeouts overtake them and entries are deleted and made meanwhile.
OwnAnswer ==
    \A r \in Req : at[r] = "returned" => outcome[r].of = r

\* Two requests never share an id, and c.pending holds exactly those under way,
\* those the read loop has released and a request that is new excepted.
PendingExact ==
    /\ \A r, s \in Req : id[r] = id[s] /\ id[r] # 0 => r = s
    /\ \A r \in Req :
         /\ at[r] \in {"new", "returned"} => id[r] \notin DOMAIN pending
         /\ at[r] \notin {"new", "returned"} /\ ~done => id[r] \in DOMAIN pending

\* The halves of a frame stay together on the connection, whoever writes.
FramesWhole ==
    \A i \in 1..Len(up) :
        /\ up[i][1] = "body" => i > 1 /\ up[i - 1] = <<"header", up[i][2]>>
        /\ up[i][1] = "header" /\ i < Len(up) => up[i + 1] = <<"body", up[i][2]>>

\* The program is told that the connection was lost only when it was, never
\* because it closed the client itself.
ErrorIsReal == told = 1 => lost

\* Once the read loop has ended a request returns, also one that registered
\* after the loop had released the others: no timeout is needed.
LossReleases == \A r \in Req : at[r] = "waiting" /\ done ~> at[r] = "returned"

\* A request that is sent gets its answer unless the agent dropped it, although
\* the read loop, the update loop and other requests share the connection.
AnswerArrives ==
    \A r \in Req : at[r] = "registered" ~> at[r] = "returned" \/ r \in dropped

\* After the program has ended the read loop ends.
QuitEnds == ui = "quit" ~> read.at = "ended"

\* Requests, answers and frames of one connection are matched and whole, and its
\* end is told as it was (Request, readLoop, Close).
ConnectionExact == TypeOK /\ OwnAnswer /\ PendingExact /\ FramesWhole /\ ErrorIsReal

HalfSent == up # <<>> /\ up[Len(up)][1] = "header"

\* What makes it inductive.  An entry of c.pending is under its request's id, and
\* whatever carries an answer, or will become one, names the request that waits.
AnswersNamed ==
    /\ \A r \in Req : at[r] = "new" <=> id[r] = 0
    /\ \A i \in DOMAIN pending : id[pending[i]] = i
    /\ \A i \in 1..Len(up) : up[i][2] \in Req => id[up[i][2]] # 0
    /\ \A i \in 1..Len(agent) : id[agent[i]] # 0
    /\ \A i \in 1..Len(down) : down[i].id # 0 =>
           down[i].of \in Req /\ down[i].id = id[down[i].of]
    /\ read.at = "delivering" => read.to \in Req /\ read.msg.of = read.to
    /\ \A r \in Req : ch[r] # Nothing => ch[r].of = r

\* c.mu is with whoever writes, and half a frame is on the connection only while
\* its writer holds it.
WriterHoldsLock ==
    /\ \A r \in Req : at[r] \in {"header", "body"} <=> mu = r
    /\ ui \in {"write", "body"} <=> mu = Unsub
    /\ conn # "up" => up = <<>>
    /\ up # <<>> /\ up[Len(up)][1] = "header" => up[Len(up)][2] = mu
    /\ \A r \in Req : at[r] = "header" => ~HalfSent
    /\ ui = "write" => ~HalfSent
    /\ \A r \in Req : at[r] = "body" /\ conn = "up" => HalfSent
    /\ ui = "body" /\ conn = "up" => HalfSent

\* The read loop ends once, and without Close only when the connection is lost.
EndHasCause ==
    /\ done <=> read.at \in Over
    /\ conn = "lost" => lost
    /\ conn = "closed" => closed
    /\ read.at \in {"ending", "checking"} /\ ~closed => lost
    /\ read.at = "telling" => lost
    /\ told = 1 => read.at = "ended"

IInv == ConnectionExact /\ AnswersNamed /\ WriterHoldsLock /\ EndHasCause

\* Every request ends: by its answer, or when the connection is lost.
RequestsEnd == LossReleases /\ AnswerArrives
=============================================================================
