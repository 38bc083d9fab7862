------------------------------ MODULE Session ------------------------------
(***************************************************************************)
(* The life of the client program's sessions: which servers are connected, *)
(* the auto-connect queue, connection attempts that run in commands of     *)
(* their own, the SSH tunnel of an attempt with its askpass loop, the one  *)
(* prompt the user is shown, and quitting.  Sources, under                 *)
(* src/internal/tui/: app.go, app_connect.go, app_key.go, session.go,      *)
(* tunnel.go; src/cmd/tori/main.go.                                        *)
(*                                                                         *)
(* All sessions here reach their agent over SSH: a local socket is dialled *)
(* before the program starts, so its session is never ConnNone.  The ssh   *)
(* process and the user are external.                                      *)
(***************************************************************************)
EXTENDS Integers, Sequences, FiniteSets

CONSTANTS
    Order,       \* a.sessionOrder of the largest configuration: a sequence of servers
    NoOne,       \* the empty name
    MaxPrompts,  \* bound: prompts of one ssh process
    MaxAsked     \* bound: connectServerMsgs for a server under way at once

Server == {Order[i] : i \in DOMAIN Order}

ASSUME SessionAssumption ==
    /\ Order \in Seq(Server) /\ Order # <<>> /\ NoOne \notin Server
    /\ \A i, j \in DOMAIN Order : Order[i] = Order[j] => i = j
    /\ MaxPrompts \in Nat /\ MaxAsked \in Nat \ {0}

VARIABLES
    sessions,    \* the configured servers, fixed at start
    connState,   \* ConnState of each session
    queue,       \* a.autoConnectQueue
    connecting,  \* a.connecting
    asked,       \* connectServerMsgs on their way to Update, per server
    att,         \* the attempt of each server: where its command is
    cancelled,   \* the attempt's context is done
    ssh,         \* the ssh process of its tunnel: "running", "forwarding", "exited"
    askpass,     \* its askpass loop: "accept", "asking", "waiting", "ended"
    listening,   \* the loop's listener is open
    prompts,     \* prompts of that ssh process so far
    prompt,      \* a.sshPrompt: whose prompt the user is shown
    dialog,      \* a.connError is shown
    switcher,    \* a.switcher
    app,         \* the program: "running", "quitting", "cleanup", "exited"
    tunnel,      \* sessions that hold a client and a tunnel
    overwritten  \* history: servers whose prompt another one replaced

sessVars   == <<sessions, connState, queue, connecting, asked>>
attVars    == <<att, cancelled>>
sshVars    == <<ssh, askpass, listening, prompts>>
uiVars     == <<prompt, dialog, switcher, app, tunnel, overwritten>>
vars == <<sessVars, attVars, sshVars, uiVars>>

Updating == app \in {"running", "quitting"}    \* Update is called
Alive == app # "exited"                        \* the process exists

-----------------------------------------------------------------------------
\* NewApp and Init.  Init has a value receiver: what processAutoConnectQueue
\* pops for it stays in the program's queue.

Before(s, t) == \E i, j \in DOMAIN Order : i < j /\ Order[i] = s /\ Order[j] = t
AutoOrder(auto) ==
    {q \in [1..Cardinality(auto) -> auto] : \A i, j \in DOMAIN q : i < j => Before(q[i], q[j])}

Init ==
    /\ sessions \in {Server, {Order[1]}}
    /\ \E auto \in SUBSET sessions :
        /\ queue \in AutoOrder(auto)
        /\ switcher = (auto = {})
        /\ asked = [s \in Server |-> IF queue # <<>> /\ s = Head(queue) THEN 1 ELSE 0]
    /\ connState = [s \in Server |-> "none"] /\ connecting = NoOne
    /\ att = [s \in Server |-> "none"] /\ cancelled = [s \in Server |-> FALSE]
    /\ ssh = [s \in Server |-> "exited"] /\ askpass = [s \in Server |-> "ended"]
    /\ listening = [s \in Server |-> FALSE] /\ prompts = [s \in Server |-> 0]
    /\ prompt = NoOne /\ dialog = FALSE /\ app = "running"
    /\ tunnel = {} /\ overwritten = {}

\* processAutoConnectQueue: pop up to the first session that is ConnNone and
\* send its connectServerMsg; sent is what is under way without it.
Wanted(q, state) == {i \in DOMAIN q : state[q[i]] = "none"}
Rest(i) == SubSeq(queue, i + 1, Len(queue))
ProcessQueue(state, current, sent) ==
    IF current # NoOne \/ queue = <<>>
    THEN queue' = queue /\ asked' = sent
    ELSE LET w == Wanted(queue, state)
         IN  \/ w = {} /\ queue' = <<>> /\ asked' = sent
             \/ \E first \in w :
                    /\ \A j \in w : first <= j
                    /\ queue' = Rest(first)
                    /\ asked' = [sent EXCEPT ![queue[first]] = @ + 1]

-----------------------------------------------------------------------------
\* Update, for the messages of an attempt.

CanConnect(s) == connState[s] = "none"

HandleConnect(s) ==    \* case connectServerMsg
    /\ Updating /\ asked[s] > 0
    /\ LET sent == [asked EXCEPT ![s] = @ - 1]
       IN  IF CanConnect(s)
           THEN /\ connState' = [connState EXCEPT ![s] = "connecting"]
                /\ connecting' = s
                /\ att' = [att EXCEPT ![s] = "starting"]
                /\ cancelled' = [cancelled EXCEPT ![s] = FALSE]
                /\ queue' = queue /\ asked' = sent
           ELSE /\ ProcessQueue(connState, connecting, sent)
                /\ UNCHANGED <<connState, connecting, att, cancelled>>
    /\ UNCHANGED <<sessions, sshVars, uiVars>>

MutantCleared(s) == connecting
Cleared(s) == IF connecting = s THEN NoOne ELSE connecting

HandleFailed(s) ==    \* handleConnectDone with an error
    /\ Updating /\ att[s] = "failed"
    /\ connState' = [connState EXCEPT ![s] = "none"]
    /\ connecting' = Cleared(s)
    /\ ProcessQueue(connState', Cleared(s), asked)
    /\ att' = [att EXCEPT ![s] = "none"] /\ cancelled' = [cancelled EXCEPT ![s] = FALSE]
    /\ dialog' = TRUE /\ switcher' = TRUE
    /\ UNCHANGED <<sessions, sshVars, prompt, app, tunnel, overwritten>>

MutantKept(s) == tunnel
Kept(s) == tunnel \union {s}

HandleConnected(s) ==    \* handleConnectDone with a client and a tunnel
    /\ Updating /\ att[s] = "connected"
    /\ connState' = [connState EXCEPT ![s] = "ready"]
    /\ connecting' = Cleared(s)
    /\ ProcessQueue(connState', Cleared(s), asked)
    /\ att' = [att EXCEPT ![s] = "none"] /\ cancelled' = [cancelled EXCEPT ![s] = FALSE]
    /\ tunnel' = Kept(s)
    /\ switcher' \in {switcher, FALSE}    \* closed if s is the active session
    /\ UNCHANGED <<sessions, sshVars, prompt, dialog, app, overwritten>>

\* ConnErrMsg from the client of a connected session: the only session's
\* error ends the program, another's marks it.
ConnErr(s) ==
    /\ Updating /\ connState[s] = "ready"
    /\ IF Cardinality(sessions) = 1
       THEN app' = "quitting" /\ connState' = connState
       ELSE app' = app /\ connState' = [connState EXCEPT ![s] = "error"]
    /\ UNCHANGED <<sessions, queue, connecting, asked, attVars, sshVars>>
    /\ UNCHANGED <<prompt, dialog, switcher, tunnel, overwritten>>

-----------------------------------------------------------------------------
\* connectServerCmd: the tunnel, WaitReady, the dial; on the way out after
\* an error Tunnel.Close.

NewTunnelAskpass(s) ==
    /\ Alive /\ att[s] = "starting"
    /\ \/ /\ att' = [att EXCEPT ![s] = "failed"]
          /\ cancelled' = [cancelled EXCEPT ![s] = FALSE]
          /\ UNCHANGED sshVars
       \/ /\ att' = [att EXCEPT ![s] = "waiting"]
          /\ ssh' = [ssh EXCEPT ![s] = "running"]
          /\ askpass' = [askpass EXCEPT ![s] = "accept"]
          /\ listening' = [listening EXCEPT ![s] = TRUE]
          /\ UNCHANGED <<prompts, cancelled>>
    /\ UNCHANGED <<sessVars, uiVars>>

\* Tunnel.Close begins: the listener is closed.
StopListening(s) == listening' = [listening EXCEPT ![s] = FALSE]

GiveUp(s) ==    \* nothing looks at the context any more
    /\ att' = [att EXCEPT ![s] = "closing"] /\ StopListening(s)
    /\ cancelled' = [cancelled EXCEPT ![s] = FALSE]

WaitReady(s) ==
    /\ Alive /\ att[s] = "waiting"
    /\ \/ /\ cancelled[s] \/ ssh[s] = "exited"
          /\ GiveUp(s)
       \/ /\ ssh[s] = "forwarding"
          /\ att' = [att EXCEPT ![s] = "dialling"]
          /\ UNCHANGED <<listening, cancelled>>
    /\ UNCHANGED <<sessVars, ssh, askpass, prompts, uiVars>>

Dial(s) ==
    /\ Alive /\ att[s] = "dialling"
    /\ \/ GiveUp(s)
       \/ /\ ssh[s] = "forwarding" /\ ~cancelled[s]
          /\ att' = [att EXCEPT ![s] = "connected"]
          /\ UNCHANGED <<listening, cancelled>>
    /\ UNCHANGED <<sessVars, ssh, askpass, prompts, uiVars>>

\* The rest of Tunnel.Close: once the askpass loop has ended the process is
\* interrupted, or killed after three seconds, and waited for.
Joined(s) == askpass[s] = "ended"

CloseTunnel(s) ==
    /\ Alive /\ att[s] = "closing" /\ Joined(s)
    /\ ssh' = [ssh EXCEPT ![s] = "exited"] /\ prompts' = [prompts EXCEPT ![s] = 0]
    /\ att' = [att EXCEPT ![s] = "failed"]
    /\ UNCHANGED <<sessVars, cancelled, askpass, listening, uiVars>>

\* The attempt's two minutes, which matter to WaitReady and the dial.
MutantTimer(s) == FALSE /\ UNCHANGED vars
Timer(s) ==
    /\ Alive /\ att[s] \in {"waiting", "dialling"} /\ ~cancelled[s]
    /\ cancelled' = [cancelled EXCEPT ![s] = TRUE]
    /\ UNCHANGED <<sessVars, att, sshVars, uiVars>>

-----------------------------------------------------------------------------
\* askpassLoop: one prompt at a time, sent to the program and waited for.

Ask(s) ==    \* handleAskpassConn has read a prompt
    /\ Alive /\ askpass[s] = "accept" /\ listening[s] /\ ssh[s] = "running"
    /\ prompts[s] < MaxPrompts
    /\ askpass' = [askpass EXCEPT ![s] = "asking"]
    /\ prompts' = [prompts EXCEPT ![s] = @ + 1]
    /\ UNCHANGED <<sessVars, attVars, ssh, listening, uiVars>>

\* prog.Send meets Update: the new prompt replaces the one shown.
SendPrompt(s) ==
    /\ Updating /\ askpass[s] = "asking"
    /\ askpass' = [askpass EXCEPT ![s] = "waiting"]
    /\ prompt' = s
    /\ overwritten' = overwritten \union ({prompt} \ {NoOne})
    /\ UNCHANGED <<sessVars, attVars, ssh, listening, prompts, dialog, switcher, app, tunnel>>

AskpassEnds(s) ==    \* Accept fails
    /\ Alive /\ askpass[s] = "accept" /\ ~listening[s]
    /\ askpass' = [askpass EXCEPT ![s] = "ended"]
    /\ UNCHANGED <<sessVars, attVars, ssh, listening, prompts, uiVars>>

\* The ssh process: it can set up the forwarding when it waits for no answer,
\* and may end at any time (what it does after the program has ended is not
\* followed).
SshForwards(s) ==
    /\ Alive /\ ssh[s] = "running" /\ askpass[s] \in {"accept", "ended"}
    /\ ssh' = [ssh EXCEPT ![s] = "forwarding"]
    /\ UNCHANGED <<sessVars, attVars, askpass, listening, prompts, uiVars>>

SshExits(s) ==
    /\ Alive /\ ssh[s] \in {"running", "forwarding"}
    /\ ssh' = [ssh EXCEPT ![s] = "exited"]
    /\ UNCHANGED <<sessVars, attVars, askpass, listening, prompts, uiVars>>

-----------------------------------------------------------------------------
\* Keys: a prompt takes them all, then the error dialog, then the rest.

\* handleSSHPromptInput: an answer, or a cancel that closes the channel; the
\* loop goes back to Accept either way.
AnswerPrompt ==
    /\ Updating /\ prompt # NoOne
    /\ askpass' = [askpass EXCEPT ![prompt] = "accept"]
    /\ prompt' = NoOne
    /\ UNCHANGED <<sessVars, attVars, ssh, listening, prompts, dialog, switcher, app, tunnel, overwritten>>

Dismiss ==
    /\ Updating /\ prompt = NoOne /\ dialog
    /\ dialog' = FALSE
    /\ UNCHANGED <<sessVars, attVars, sshVars, prompt, switcher, app, tunnel, overwritten>>

KeysFree == Updating /\ prompt = NoOne /\ ~dialog

ToggleSwitcher ==    \* S opens it if there is a choice, S and esc close it
    /\ KeysFree /\ (switcher \/ Cardinality(sessions) > 1)
    /\ switcher' = ~switcher
    /\ UNCHANGED <<sessVars, attVars, sshVars, prompt, dialog, app, tunnel, overwritten>>

PickServer(s) ==    \* handleSwitcherKey, enter
    /\ KeysFree /\ switcher /\ s \in sessions
    /\ \/ /\ connState[s] = "none" /\ asked[s] < MaxAsked
          /\ asked' = [asked EXCEPT ![s] = @ + 1] /\ UNCHANGED switcher
       \/ /\ connState[s] \in {"ready", "error"}
          /\ switcher' = FALSE /\ UNCHANGED asked
    /\ UNCHANGED <<sessions, connState, queue, connecting, attVars, sshVars>>
    /\ UNCHANGED <<prompt, dialog, app, tunnel, overwritten>>

Quit ==    \* q: every attempt is cancelled
    /\ KeysFree /\ app = "running"
    /\ app' = "quitting"
    /\ cancelled' = [s \in Server |-> cancelled[s] \/ att[s] \in {"starting", "waiting", "dialling"}]
    /\ UNCHANGED <<sessVars, att, sshVars, prompt, dialog, switcher, tunnel, overwritten>>

\* runSessions, once QuitMsg has come through: the tunnels are closed, then
\* the process ends and its goroutines with it.
RunReturns ==
    /\ app = "quitting" /\ app' = "cleanup"
    /\ UNCHANGED <<sessVars, attVars, sshVars, prompt, dialog, switcher, tunnel, overwritten>>

CleanUp(s) ==
    /\ app = "cleanup" /\ s \in tunnel
    /\ \/ /\ listening[s] /\ StopListening(s)
          /\ UNCHANGED <<ssh, tunnel>>
       \/ /\ Joined(s)
          /\ ssh' = [ssh EXCEPT ![s] = "exited"]
          /\ tunnel' = tunnel \ {s}
          /\ UNCHANGED listening
    /\ UNCHANGED <<sessVars, attVars, askpass, prompts, prompt, dialog, switcher, app, overwritten>>

Exit ==
    /\ app = "cleanup" /\ tunnel = {}
    /\ app' = "exited"
    /\ UNCHANGED <<sessVars, attVars, sshVars, prompt, dialog, switcher, tunnel, overwritten>>

-----------------------------------------------------------------------------
Attempt(s) ==
    \/ HandleConnect(s) \/ HandleFailed(s) \/ HandleConnected(s)
    \/ NewTunnelAskpass(s) \/ WaitReady(s) \/ Dial(s) \/ CloseTunnel(s) \/ Timer(s)
    \/ SendPrompt(s) \/ AskpassEnds(s) \/ CleanUp(s)

Program == RunReturns \/ Exit

Next ==
    \/ \E s \in Server : \/ Attempt(s) \/ ConnErr(s) \/ PickServer(s)
                         \/ Ask(s) \/ SshForwards(s) \/ SshExits(s)
    \/ AnswerPrompt \/ Dismiss \/ ToggleSwitcher \/ Quit
    \/ Program

Spec == Init /\ [][Next]_vars

\* The Go scheduler runs every goroutine and the two-minute timer runs; the
\* user answers the prompt that is on the screen.  Nobody has to press another
\* key, and ssh need neither connect nor end.
FairSpec ==
    /\ Spec
    /\ \A s \in Server : WF_vars(Attempt(s))
    /\ WF_vars(AnswerPrompt) /\ WF_vars(Program)

-----------------------------------------------------------------------------
TypeOK ==
    /\ sessions \subseteq Server /\ queue \in Seq(Server) /\ connecting \in Server \union {NoOne}
    /\ connState \in [Server -> {"none", "connecting", "ready", "error"}]
    /\ asked \in [Server -> Nat]
    /\ att \in [Server -> {"none", "starting", "waiting", "dialling", "closing", "failed", "connected"}]
    /\ cancelled \in [Server -> BOOLEAN] /\ listening \in [Server -> BOOLEAN]
    /\ ssh \in [Server -> {"running", "forwarding", "exited"}]
    /\ askpass \in [Server -> {"accept", "asking", "waiting", "ended"}]
    /\ prompts \in [Server -> 0..MaxPrompts] /\ prompt \in Server \union {NoOne}
    /\ dialog \in BOOLEAN /\ switcher \in BOOLEAN
    /\ app \in {"running", "quitting", "cleanup", "exited"}
    /\ tunnel \subseteq Server /\ overwritten \subseteq Server

\* A session says "connecting" exactly while an attempt for it is under way,
\* so a second attempt can neither start nor be locked out by a dead one; and
\* the server a.connecting holds the queue back for is one of them.
ConnectingIsReal ==
    /\ \A s \in Server : connState[s] = "connecting" <=> att[s] # "none"
    /\ connecting # NoOne => connState[connecting] = "connecting"

\* The prompt on the screen is one an askpass loop of a living attempt waits
\* for, and a loop waits for an answer nobody can give only when another
\* server's prompt replaced its own.
PromptLive ==
    /\ prompt # NoOne => askpass[prompt] = "waiting" /\ att[prompt] \in {"waiting", "closing"}
    /\ \A s \in Server : askpass[s] = "waiting" => prompt = s \/ s \in overwritten

\* An ssh process belongs to an attempt under way or to a session's tunnel;
\* what is left running at the end belongs to an attempt that was under way.
NoOrphanTunnel ==
    \A s \in Server : ssh[s] \in {"running", "forwarding"} => att[s] # "none" \/ s \in tunnel

\* An attempt ends, whatever ssh does: two minutes are enough once the user
\* has answered.  The exception is an attempt whose prompt another one
\* replaced: Tunnel.Close waits for a loop that waits for an answer.
ConnectEnds ==
    \A s \in Server : connState[s] = "connecting" ~>
        connState[s] # "connecting" \/ s \in overwritten \/ app = "exited"

\* While servers wait in the auto-connect queue, somebody is going to look at
\* it: a connectServerMsg is under way, or the attempt a.connecting names is,
\* and its end looks.  (A user who keeps two servers retrying can hold the
\* queue back for good: each new attempt takes a.connecting over.)
QueueDriven ==
    queue # <<>> => connecting # NoOne \/ \E s \in Server : asked[s] > 0

\* Quitting ends the process: no tunnel's Close waits for a prompt.
QuitExits == app = "quitting" ~> app = "exited"

\* What the program believes of its attempts is true of them: the state of a
\* session, the prompt on the screen, and the queue that waits for an attempt.
AttemptsReal == TypeOK /\ ConnectingIsReal /\ PromptLive /\ QueueDriven

\* What makes these inductive: ssh runs and asks only between the start of its
\* tunnel and the dial, and a session with a tunnel has no attempt.
SshOfAttempt ==
    \A s \in Server :
        /\ s \in tunnel => connState[s] \in {"ready", "error"}
        /\ att[s] \in {"none", "starting", "failed"} /\ s \notin tunnel => ssh[s] = "exited"
        /\ ssh[s] = "running" => att[s] \in {"waiting", "closing"}
        /\ askpass[s] \in {"asking", "waiting"} =>
              att[s] \in {"waiting", "closing"} /\ ssh[s] # "forwarding"
IInv == AttemptsReal /\ SshOfAttempt

\* Attempts end, and so does the program.
AttemptsEnd == ConnectEnds /\ QuitExits
=============================================================================
