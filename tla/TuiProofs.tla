----------------------------- MODULE TuiProofs ------------------------------
(***************************************************************************)
(* Proofs about the client's sessions and its detail view.                 *)
(*                                                                         *)
(* Session, for any servers, prompts and messages under way: what the      *)
(* program believes of its connection attempts is true, and no ssh process *)
(* is left without an attempt or a session that owns it.                   *)
(*                                                                         *)
(* DetailView, for any servers, targets, lines, filters and sizes: a view  *)
(* shows lines of its target, a filtered one the newest that pass, a       *)
(* paused one stays where it is, and one that loads is answered.           *)
(***************************************************************************)
EXTENDS Session, DetailView, FiniteSetTheorems, SequenceTheorems, WellFoundedInduction, TLAPS

-----------------------------------------------------------------------------
(* Session *)

\* There are finitely many servers, the first of them is one.
LEMMA Servers == IsFiniteSet(Server) /\ Order[1] \in Server
<1>1. Order \in Seq(Server) /\ Len(Order) \in Nat /\ DOMAIN Order = 1..Len(Order)
  BY SessionAssumption
<1>2. Order \in Surjection(1..Len(Order), Server)
  BY <1>1 DEF Surjection, Server
<1>3. IsFiniteSet(1..Len(Order))
  BY <1>1, FS_Interval
<1>4. IsFiniteSet(Server)
  BY <1>2, <1>3, FS_Surjection
<1>5. 1 \in DOMAIN Order
  BY <1>1, SessionAssumption, EmptySeq
<1>6. QED
  BY <1>4, <1>5 DEF Server

\* The auto-connect queue of a configuration is a sequence of servers.
LEMMA AutoOrderType ==
    ASSUME NEW auto \in SUBSET Server, NEW q \in AutoOrder(auto) PROVE q \in Seq(Server)
<1>1. Cardinality(auto) \in Nat
  BY Servers, FS_Subset, FS_CardinalityType
<1>2. q \in [1..Cardinality(auto) -> Server]
  BY DEF AutoOrder
<1>3. QED
  BY <1>1, <1>2

\* Whatever processAutoConnectQueue pops, the queue is forgotten, or a message
\* for the server it took is under way, or it waits for an attempt.
LEMMA QueueStep ==
    ASSUME queue \in Seq(Server), NEW sent \in [Server -> Nat], NEW state, NEW current,
           ProcessQueue(state, current, sent)
    PROVE  /\ queue' \in Seq(Server) /\ asked' \in [Server -> Nat]
           /\ queue' # <<>> => current # NoOne \/ \E s \in Server : asked'[s] > 0
<1>1. CASE current # NoOne \/ queue = <<>>
  BY <1>1 DEF ProcessQueue
<1>2. CASE ~(current # NoOne \/ queue = <<>>)
  <2> DEFINE w == Wanted(queue, state)
  <2>1. CASE w = {} /\ queue' = <<>> /\ asked' = sent
    BY <2>1
  <2>2. CASE \E first \in w : /\ queue' = Rest(first)
                              /\ asked' = [sent EXCEPT ![queue[first]] = @ + 1]
    <3>1. PICK first \in w : queue' = Rest(first) /\ asked' = [sent EXCEPT ![queue[first]] = @ + 1]
      BY <2>2
    <3>2. first \in 1..Len(queue) /\ Len(queue) \in Nat /\ queue[first] \in Server
      BY DEF Wanted
    <3>3. queue' \in Seq(Server)
      <4>1. \A i \in (first + 1)..Len(queue) : queue[i] \in Server
        BY <3>2
      <4>2. SubSeq(queue, first + 1, Len(queue)) \in Seq(Server)
        BY <3>2, <4>1
      <4>3. QED
        BY <3>1, <4>2 DEF Rest
    <3>4. asked' \in [Server -> Nat] /\ asked'[queue[first]] > 0
      BY <3>1, <3>2
    <3>5. QED
      BY <3>2, <3>3, <3>4
  <2>3. QED
    BY <1>2, <2>1, <2>2 DEF ProcessQueue
<1>3. QED
  BY <1>1, <1>2

\* The first state: no attempt, no ssh, at most one message under way.
LEMMA InvInit == Init => IInv
<1> SUFFICES ASSUME Init PROVE IInv
  OBVIOUS
<1>1. PICK auto \in SUBSET sessions :
          /\ queue \in AutoOrder(auto) /\ switcher = (auto = {})
          /\ asked = [s \in Server |-> IF queue # <<>> /\ s = Head(queue) THEN 1 ELSE 0]
  BY DEF Init
<1>2. sessions \subseteq Server
  BY Servers DEF Init
<1>3. queue \in Seq(Server) /\ asked \in [Server -> Nat] /\ switcher \in BOOLEAN
  BY <1>1, <1>2, AutoOrderType
<1>4. TypeOK
  <2>1. cancelled \in [Server -> BOOLEAN] /\ listening \in [Server -> BOOLEAN] /\ dialog \in BOOLEAN
    BY DEF Init
  <2>2. QED
    BY <1>2, <1>3, <2>1, SessionAssumption DEF Init, TypeOK
<1>5. ConnectingIsReal /\ PromptLive /\ SshOfAttempt
  BY DEF Init, ConnectingIsReal, PromptLive, SshOfAttempt
<1>6. QueueDriven
  <2>1. ASSUME queue # <<>> PROVE Head(queue) \in Server /\ asked[Head(queue)] > 0
    BY <1>1, <1>3, <2>1
  <2>2. QED
    BY <2>1 DEF QueueDriven
<1>7. QED
  BY <1>4, <1>5, <1>6 DEF IInv, AttemptsReal

-----------------------------------------------------------------------------
(* The steps *)

\* connectServerCmd: the tunnel, WaitReady, the dial, Tunnel.Close and the timer.
LEMMA CommandStep ==
    ASSUME IInv, NEW s \in Server,
           NewTunnelAskpass(s) \/ WaitReady(s) \/ Dial(s) \/ CloseTunnel(s) \/ Timer(s)
    PROVE  IInv'
<1> USE SessionAssumption DEF IInv, AttemptsReal
<1>1. CASE NewTunnelAskpass(s)
  <2>1. att[s] = "starting" /\ connState[s] = "connecting" /\ s \notin tunnel /\ ssh[s] = "exited"
    BY <1>1 DEF NewTunnelAskpass, ConnectingIsReal, SshOfAttempt, TypeOK
  <2>2. UNCHANGED <<sessVars, uiVars>>
    BY <1>1 DEF NewTunnelAskpass
  <2>3. CASE /\ att' = [att EXCEPT ![s] = "failed"]
             /\ cancelled' = [cancelled EXCEPT ![s] = FALSE]
             /\ UNCHANGED sshVars
    <3>1. TypeOK'
      BY <2>2, <2>3 DEF TypeOK, sessVars, sshVars, uiVars
    <3>2. ConnectingIsReal' /\ QueueDriven'
      BY <2>1, <2>2, <2>3
         DEF TypeOK, ConnectingIsReal, QueueDriven, sessVars, sshVars, uiVars
    <3>3. PromptLive' /\ SshOfAttempt'
      BY <2>1, <2>2, <2>3
         DEF TypeOK, PromptLive, SshOfAttempt, sessVars, sshVars, uiVars
    <3>4. QED
      BY <3>1, <3>2, <3>3
  <2>4. CASE /\ att' = [att EXCEPT ![s] = "waiting"]
             /\ ssh' = [ssh EXCEPT ![s] = "running"]
             /\ askpass' = [askpass EXCEPT ![s] = "accept"]
             /\ listening' = [listening EXCEPT ![s] = TRUE]
             /\ UNCHANGED <<prompts, cancelled>>
    <3>1. TypeOK'
      BY <2>2, <2>4 DEF TypeOK, sessVars, uiVars
    <3>2. ConnectingIsReal' /\ QueueDriven'
      BY <2>1, <2>2, <2>4
         DEF TypeOK, ConnectingIsReal, QueueDriven, sessVars, uiVars
    <3>3. PromptLive'
      BY <2>1, <2>2, <2>4 DEF TypeOK, PromptLive, SshOfAttempt, sessVars, uiVars
    <3>4. SshOfAttempt'
      BY <2>1, <2>2, <2>4 DEF TypeOK, SshOfAttempt, sessVars, uiVars
    <3>5. QED
      BY <3>1, <3>2, <3>3, <3>4
  <2>5. QED
    BY <1>1, <2>3, <2>4 DEF NewTunnelAskpass
<1>2. CASE WaitReady(s)
  <2>1. TypeOK'
    BY <1>2
       DEF WaitReady, GiveUp, StopListening, TypeOK, sessVars, attVars, sshVars,
           uiVars
  <2>2. ConnectingIsReal' /\ QueueDriven'
    BY SMTT(30), <1>2
       DEF WaitReady, GiveUp, StopListening, TypeOK, ConnectingIsReal,
           QueueDriven, sessVars,
       attVars, sshVars, uiVars
  <2>3. PromptLive'
    BY <1>2
       DEF WaitReady, GiveUp, StopListening, TypeOK, PromptLive, SshOfAttempt,
           sessVars,
       attVars, sshVars, uiVars
  <2>4. SshOfAttempt'
    BY <1>2
       DEF WaitReady, GiveUp, StopListening, TypeOK, ConnectingIsReal, PromptLive,
       SshOfAttempt, sessVars, attVars, sshVars, uiVars
  <2>5. QED
    BY <2>1, <2>2, <2>3, <2>4
<1>3. CASE Dial(s)
  <2>1. TypeOK'
    BY <1>3
       DEF Dial, GiveUp, StopListening, TypeOK, sessVars, attVars, sshVars, uiVars
  <2>2. ConnectingIsReal' /\ QueueDriven'
    BY SMTT(30), <1>3
       DEF Dial, GiveUp, StopListening, TypeOK, ConnectingIsReal, QueueDriven,
           sessVars,
       attVars, sshVars, uiVars
  <2>3. PromptLive'
    BY <1>3
       DEF Dial, GiveUp, StopListening, TypeOK, PromptLive, SshOfAttempt,
           sessVars, attVars,
       sshVars, uiVars
  <2>4. SshOfAttempt'
    BY <1>3
       DEF Dial, GiveUp, StopListening, TypeOK, ConnectingIsReal, PromptLive,
           SshOfAttempt,
       sessVars, attVars, sshVars, uiVars
  <2>5. QED
    BY <2>1, <2>2, <2>3, <2>4
<1>4. CASE CloseTunnel(s)
  <2>1. TypeOK'
    BY <1>4 DEF CloseTunnel, Joined, TypeOK, sessVars, attVars, sshVars, uiVars
  <2>2. ConnectingIsReal' /\ QueueDriven'
    BY <1>4
       DEF CloseTunnel, Joined, TypeOK, ConnectingIsReal, QueueDriven, sessVars,
           attVars,
       sshVars, uiVars
  <2>3. PromptLive'
    BY <1>4
       DEF CloseTunnel, Joined, TypeOK, PromptLive, SshOfAttempt, sessVars,
           attVars, sshVars,
       uiVars
  <2>4. SshOfAttempt'
    BY <1>4
       DEF CloseTunnel, Joined, TypeOK, ConnectingIsReal, PromptLive,
           SshOfAttempt, sessVars,
       attVars, sshVars, uiVars
  <2>5. QED
    BY <2>1, <2>2, <2>3, <2>4
<1>5. CASE Timer(s)
  <2>1. TypeOK'
    BY <1>5 DEF Timer, TypeOK, sessVars, attVars, sshVars, uiVars
  <2>2. ConnectingIsReal' /\ QueueDriven'
    BY <1>5
       DEF Timer, TypeOK, ConnectingIsReal, QueueDriven, sessVars, attVars,
           sshVars, uiVars
  <2>3. PromptLive'
    BY <1>5
       DEF Timer, TypeOK, PromptLive, SshOfAttempt, sessVars, attVars, sshVars,
           uiVars
  <2>4. SshOfAttempt'
    BY <1>5
       DEF Timer, TypeOK, ConnectingIsReal, PromptLive, SshOfAttempt, sessVars,
           attVars,
       sshVars, uiVars
  <2>5. QED
    BY <2>1, <2>2, <2>3, <2>4
<1>6. QED
  BY <1>1, <1>2, <1>3, <1>4, <1>5

\* The askpass loop, the prompt it sends, and the ssh process.
LEMMA AskpassStep ==
    ASSUME IInv, NEW s \in Server,
           Ask(s) \/ SendPrompt(s) \/ AskpassEnds(s) \/ SshForwards(s) \/ SshExits(s)
    PROVE  IInv'
<1> USE SessionAssumption DEF IInv, AttemptsReal
<1>1. CASE Ask(s)
  <2>1. TypeOK'
    BY SMTT(30), <1>1 DEF Ask, TypeOK, sessVars, attVars, sshVars, uiVars
  <2>2. ConnectingIsReal' /\ QueueDriven'
    BY <1>1
       DEF Ask, TypeOK, ConnectingIsReal, QueueDriven, sessVars, attVars, sshVars,
           uiVars
  <2>3. PromptLive'
    BY <1>1
       DEF Ask, TypeOK, PromptLive, SshOfAttempt, sessVars, attVars, sshVars,
           uiVars
  <2>4. SshOfAttempt'
    BY SMTT(30), <1>1
       DEF Ask, TypeOK, ConnectingIsReal, PromptLive, SshOfAttempt, sessVars,
           attVars,
       sshVars, uiVars
  <2>5. QED
    BY <2>1, <2>2, <2>3, <2>4
<1>2. CASE SendPrompt(s)
  <2>1. TypeOK'
    BY <1>2 DEF SendPrompt, TypeOK, sessVars, attVars, sshVars, uiVars
  <2>2. ConnectingIsReal' /\ QueueDriven'
    BY <1>2
       DEF SendPrompt, TypeOK, ConnectingIsReal, QueueDriven, sessVars, attVars,
           sshVars,
       uiVars
  <2>3. PromptLive'
    BY <1>2
       DEF SendPrompt, TypeOK, PromptLive, SshOfAttempt, sessVars, attVars,
           sshVars, uiVars
  <2>4. SshOfAttempt'
    BY <1>2
       DEF SendPrompt, TypeOK, ConnectingIsReal, PromptLive, SshOfAttempt,
           sessVars, attVars,
       sshVars, uiVars
  <2>5. QED
    BY <2>1, <2>2, <2>3, <2>4
<1>3. CASE AskpassEnds(s)
  <2>1. TypeOK'
    BY <1>3 DEF AskpassEnds, TypeOK, sessVars, attVars, sshVars, uiVars
  <2>2. ConnectingIsReal' /\ QueueDriven'
    BY <1>3
       DEF AskpassEnds, TypeOK, ConnectingIsReal, QueueDriven, sessVars, attVars,
           sshVars,
       uiVars
  <2>3. PromptLive'
    BY <1>3
       DEF AskpassEnds, TypeOK, PromptLive, SshOfAttempt, sessVars, attVars,
           sshVars, uiVars
  <2>4. SshOfAttempt'
    BY <1>3
       DEF AskpassEnds, TypeOK, ConnectingIsReal, PromptLive, SshOfAttempt,
           sessVars, attVars,
       sshVars, uiVars
  <2>5. QED
    BY <2>1, <2>2, <2>3, <2>4
<1>4. CASE SshForwards(s)
  <2>1. TypeOK'
    BY <1>4 DEF SshForwards, TypeOK, sessVars, attVars, sshVars, uiVars
  <2>2. ConnectingIsReal' /\ QueueDriven'
    BY <1>4
       DEF SshForwards, TypeOK, ConnectingIsReal, QueueDriven, sessVars, attVars,
           sshVars,
       uiVars
  <2>3. PromptLive'
    BY <1>4
       DEF SshForwards, TypeOK, PromptLive, SshOfAttempt, sessVars, attVars,
           sshVars, uiVars
  <2>4. SshOfAttempt'
    BY <1>4
       DEF SshForwards, TypeOK, ConnectingIsReal, PromptLive, SshOfAttempt,
           sessVars, attVars,
       sshVars, uiVars
  <2>5. QED
    BY <2>1, <2>2, <2>3, <2>4
<1>5. CASE SshExits(s)
  <2>1. TypeOK'
    BY <1>5 DEF SshExits, TypeOK, sessVars, attVars, sshVars, uiVars
  <2>2. ConnectingIsReal' /\ QueueDriven'
    BY <1>5
       DEF SshExits, TypeOK, ConnectingIsReal, QueueDriven, sessVars, attVars,
           sshVars, uiVars
  <2>3. PromptLive'
    BY <1>5
       DEF SshExits, TypeOK, PromptLive, SshOfAttempt, sessVars, attVars, sshVars,
           uiVars
  <2>4. SshOfAttempt'
    BY <1>5
       DEF SshExits, TypeOK, ConnectingIsReal, PromptLive, SshOfAttempt, sessVars,
           attVars,
       sshVars, uiVars
  <2>5. QED
    BY <2>1, <2>2, <2>3, <2>4
<1>6. QED
  BY <1>1, <1>2, <1>3, <1>4, <1>5

\* Keys, the answer to a prompt, a lost connection and the end of the program.
LEMMA KeyStep ==
    ASSUME IInv, NEW s \in Server,
           ConnErr(s) \/ PickServer(s) \/ AnswerPrompt \/ Dismiss
           \/ ToggleSwitcher \/ Quit \/ RunReturns \/ CleanUp(s) \/ Exit
    PROVE  IInv'
<1> USE SessionAssumption DEF IInv, AttemptsReal
<1>1. CASE ConnErr(s)
  <2>1. TypeOK'
    BY <1>1 DEF ConnErr, TypeOK, sessVars, attVars, sshVars, uiVars
  <2>2. ConnectingIsReal' /\ QueueDriven'
    BY SMTT(30), <1>1
       DEF ConnErr, TypeOK, ConnectingIsReal, QueueDriven, sessVars, attVars,
           sshVars, uiVars
  <2>3. PromptLive'
    BY <1>1
       DEF ConnErr, TypeOK, PromptLive, SshOfAttempt, sessVars, attVars, sshVars,
           uiVars
  <2>4. SshOfAttempt'
    BY <1>1
       DEF ConnErr, TypeOK, ConnectingIsReal, PromptLive, SshOfAttempt, sessVars,
           attVars,
       sshVars, uiVars
  <2>5. QED
    BY <2>1, <2>2, <2>3, <2>4
<1>2. CASE PickServer(s)
  <2>1. /\ UNCHANGED <<sessions, connState, queue, connecting, attVars, sshVars>>
        /\ UNCHANGED <<prompt, dialog, app, tunnel, overwritten>>
        /\ asked' = [asked EXCEPT ![s] = @ + 1] \/ UNCHANGED asked
    BY <1>2 DEF PickServer
  <2>2. switcher' \in BOOLEAN
    BY <1>2 DEF PickServer, TypeOK
  <2>3. asked' \in [Server -> Nat] /\ \A t \in Server : asked[t] > 0 => asked'[t] > 0
    <3>1. asked \in [Server -> Nat]
      BY DEF TypeOK
    <3>2. CASE asked' = [asked EXCEPT ![s] = @ + 1]
      BY <3>1, <3>2
    <3>3. QED
      BY <2>1, <3>1, <3>2
  <2>4. TypeOK'
    BY <2>1, <2>2, <2>3 DEF TypeOK, attVars, sshVars
  <2>5. ConnectingIsReal' /\ QueueDriven'
    BY <2>1, <2>3 DEF ConnectingIsReal, QueueDriven, attVars
  <2>6. PromptLive' /\ SshOfAttempt'
    BY <2>1 DEF PromptLive, SshOfAttempt, attVars, sshVars
  <2>7. QED
    BY <2>4, <2>5, <2>6
<1>3. CASE AnswerPrompt
  <2>1. TypeOK'
    BY <1>3 DEF AnswerPrompt, TypeOK, sessVars, attVars, sshVars, uiVars
  <2>2. ConnectingIsReal' /\ QueueDriven'
    BY <1>3
       DEF AnswerPrompt, TypeOK, ConnectingIsReal, QueueDriven, sessVars, attVars,
           sshVars,
       uiVars
  <2>3. PromptLive'
    BY <1>3
       DEF AnswerPrompt, TypeOK, PromptLive, SshOfAttempt, sessVars, attVars,
           sshVars, uiVars
  <2>4. SshOfAttempt'
    BY <1>3
       DEF AnswerPrompt, TypeOK, ConnectingIsReal, PromptLive, SshOfAttempt,
           sessVars,
       attVars, sshVars, uiVars
  <2>5. QED
    BY <2>1, <2>2, <2>3, <2>4
<1>4. CASE Dismiss
  <2>1. TypeOK'
    BY <1>4 DEF Dismiss, TypeOK, sessVars, attVars, sshVars, uiVars
  <2>2. ConnectingIsReal' /\ QueueDriven'
    BY <1>4
       DEF Dismiss, TypeOK, ConnectingIsReal, QueueDriven, sessVars, attVars,
           sshVars, uiVars
  <2>3. PromptLive'
    BY <1>4
       DEF Dismiss, TypeOK, PromptLive, SshOfAttempt, sessVars, attVars, sshVars,
           uiVars
  <2>4. SshOfAttempt'
    BY <1>4
       DEF Dismiss, TypeOK, ConnectingIsReal, PromptLive, SshOfAttempt, sessVars,
           attVars,
       sshVars, uiVars
  <2>5. QED
    BY <2>1, <2>2, <2>3, <2>4
<1>5. CASE ToggleSwitcher
  <2>1. TypeOK'
    BY <1>5 DEF ToggleSwitcher, TypeOK, sessVars, attVars, sshVars, uiVars
  <2>2. ConnectingIsReal' /\ QueueDriven'
    BY <1>5
       DEF ToggleSwitcher, TypeOK, ConnectingIsReal, QueueDriven, sessVars,
           attVars, sshVars,
       uiVars
  <2>3. PromptLive'
    BY <1>5
       DEF ToggleSwitcher, TypeOK, PromptLive, SshOfAttempt, sessVars, attVars,
           sshVars, uiVars
  <2>4. SshOfAttempt'
    BY <1>5
       DEF ToggleSwitcher, TypeOK, ConnectingIsReal, PromptLive, SshOfAttempt,
           sessVars,
       attVars, sshVars, uiVars
  <2>5. QED
    BY <2>1, <2>2, <2>3, <2>4
<1>6. CASE Quit
  <2>1. TypeOK'
    BY <1>6 DEF Quit, TypeOK, sessVars, attVars, sshVars, uiVars
  <2>2. ConnectingIsReal' /\ QueueDriven'
    BY <1>6
       DEF Quit, TypeOK, ConnectingIsReal, QueueDriven, sessVars, attVars,
           sshVars, uiVars
  <2>3. PromptLive'
    BY <1>6
       DEF Quit, TypeOK, PromptLive, SshOfAttempt, sessVars, attVars, sshVars,
           uiVars
  <2>4. SshOfAttempt'
    BY <1>6
       DEF Quit, TypeOK, ConnectingIsReal, PromptLive, SshOfAttempt, sessVars,
           attVars,
       sshVars, uiVars
  <2>5. QED
    BY <2>1, <2>2, <2>3, <2>4
<1>7. CASE RunReturns
  <2>1. TypeOK'
    BY <1>7 DEF RunReturns, TypeOK, sessVars, attVars, sshVars, uiVars
  <2>2. ConnectingIsReal' /\ QueueDriven'
    BY <1>7
       DEF RunReturns, TypeOK, ConnectingIsReal, QueueDriven, sessVars, attVars,
           sshVars,
       uiVars
  <2>3. PromptLive'
    BY <1>7
       DEF RunReturns, TypeOK, PromptLive, SshOfAttempt, sessVars, attVars,
           sshVars, uiVars
  <2>4. SshOfAttempt'
    BY <1>7
       DEF RunReturns, TypeOK, ConnectingIsReal, PromptLive, SshOfAttempt,
           sessVars, attVars,
       sshVars, uiVars
  <2>5. QED
    BY <2>1, <2>2, <2>3, <2>4
<1>8. CASE CleanUp(s)
  <2>1. TypeOK'
    BY <1>8
       DEF CleanUp, StopListening, Joined, TypeOK, sessVars, attVars, sshVars,
           uiVars
  <2>2. ConnectingIsReal' /\ QueueDriven'
    BY <1>8
       DEF CleanUp, StopListening, Joined, TypeOK, ConnectingIsReal, QueueDriven,
           sessVars,
       attVars, sshVars, uiVars
  <2>3. PromptLive'
    BY <1>8
       DEF CleanUp, StopListening, Joined, TypeOK, PromptLive, SshOfAttempt,
           sessVars,
       attVars, sshVars, uiVars
  <2>4. SshOfAttempt'
    BY <1>8
       DEF CleanUp, StopListening, Joined, TypeOK, ConnectingIsReal, PromptLive,
           SshOfAttempt,
       sessVars, attVars, sshVars, uiVars
  <2>5. QED
    BY <2>1, <2>2, <2>3, <2>4
<1>9. CASE Exit
  <2>1. TypeOK'
    BY <1>9 DEF Exit, TypeOK, sessVars, attVars, sshVars, uiVars
  <2>2. ConnectingIsReal' /\ QueueDriven'
    BY <1>9
       DEF Exit, TypeOK, ConnectingIsReal, QueueDriven, sessVars, attVars,
           sshVars, uiVars
  <2>3. PromptLive'
    BY <1>9
       DEF Exit, TypeOK, PromptLive, SshOfAttempt, sessVars, attVars, sshVars,
           uiVars
  <2>4. SshOfAttempt'
    BY <1>9
       DEF Exit, TypeOK, ConnectingIsReal, PromptLive, SshOfAttempt, sessVars,
           attVars,
       sshVars, uiVars
  <2>5. QED
    BY <2>1, <2>2, <2>3, <2>4
<1>10. QED
  BY <1>1, <1>2, <1>3, <1>4, <1>5, <1>6, <1>7, <1>8, <1>9

\* Update, for the messages of an attempt: the session's state follows it, and
\* processAutoConnectQueue looks at the queue.
LEMMA UpdateStep ==
    ASSUME IInv, NEW s \in Server, HandleConnect(s) \/ HandleFailed(s) \/ HandleConnected(s)
    PROVE  IInv'
<1> USE SessionAssumption DEF IInv, AttemptsReal
<1>1. CASE HandleConnect(s)
  <2> DEFINE sent == [asked EXCEPT ![s] = @ - 1]
  <2>1. sent \in [Server -> Nat] /\ queue \in Seq(Server) /\ UNCHANGED <<sessions, sshVars, uiVars>>
    BY <1>1 DEF HandleConnect, TypeOK
  <2>2. CASE CanConnect(s)
    <3>1. /\ connState' = [connState EXCEPT ![s] = "connecting"] /\ connecting' = s
          /\ att' = [att EXCEPT ![s] = "starting"] /\ cancelled' = [cancelled EXCEPT ![s] = FALSE]
          /\ queue' = queue /\ asked' = sent
      BY <1>1, <2>2 DEF HandleConnect
    <3>2. /\ connState[s] = "none" /\ att[s] = "none" /\ s \notin tunnel
          /\ ssh[s] = "exited" /\ s # NoOne
      BY <2>2 DEF CanConnect, ConnectingIsReal, SshOfAttempt, TypeOK
    <3>3. TypeOK'
      BY <2>1, <3>1 DEF TypeOK, sshVars, uiVars
    <3>4. ConnectingIsReal' /\ QueueDriven'
      BY <3>1, <3>2 DEF TypeOK, ConnectingIsReal, QueueDriven
    <3>5. PromptLive'
      BY <2>1, <3>1, <3>2 DEF TypeOK, PromptLive, SshOfAttempt, sshVars, uiVars
    <3>6. SshOfAttempt'
      BY <2>1, <3>1, <3>2 DEF TypeOK, SshOfAttempt, sshVars, uiVars
    <3>7. QED
      BY <3>3, <3>4, <3>5, <3>6
  <2>3. CASE ~CanConnect(s)
    <3>1. /\ ProcessQueue(connState, connecting, sent)
          /\ UNCHANGED <<connState, connecting, att, cancelled>>
      BY <1>1, <2>3 DEF HandleConnect
    <3>2. /\ queue' \in Seq(Server) /\ asked' \in [Server -> Nat]
          /\ queue' # <<>> => connecting # NoOne \/ \E t \in Server : asked'[t] > 0
      BY <2>1, <3>1, QueueStep
    <3>3. TypeOK'
      BY <2>1, <3>1, <3>2 DEF TypeOK, sshVars, uiVars
    <3>4. ConnectingIsReal' /\ QueueDriven'
      BY <3>1, <3>2 DEF ConnectingIsReal, QueueDriven
    <3>5. PromptLive' /\ SshOfAttempt'
      BY <2>1, <3>1 DEF PromptLive, SshOfAttempt, sshVars, uiVars
    <3>6. QED
      BY <3>3, <3>4, <3>5
  <2>4. QED
    BY <2>2, <2>3
<1>2. CASE HandleFailed(s)
  <2>1. /\ att[s] = "failed" /\ connState' = [connState EXCEPT ![s] = "none"]
        /\ connecting' = Cleared(s) /\ ProcessQueue(connState', Cleared(s), asked)
        /\ att' = [att EXCEPT ![s] = "none"] /\ cancelled' = [cancelled EXCEPT ![s] = FALSE]
        /\ UNCHANGED <<sessions, sshVars, prompt, app, overwritten>> /\ UNCHANGED tunnel
    BY <1>2 DEF HandleFailed
  <2>2. dialog' \in BOOLEAN /\ switcher' \in BOOLEAN
    BY <1>2 DEF HandleFailed, TypeOK
  <2>3. asked \in [Server -> Nat] /\ queue \in Seq(Server)
    BY DEF TypeOK
  <2>4. /\ queue' \in Seq(Server) /\ asked' \in [Server -> Nat]
        /\ queue' # <<>> => connecting' # NoOne \/ \E t \in Server : asked'[t] > 0
    BY <2>1, <2>3, QueueStep
  <2>5. /\ connecting' \in Server \union {NoOne}
        /\ (connecting' # NoOne => connecting' = connecting /\ connecting # s)
    BY <2>1 DEF TypeOK, Cleared
  <2>6. TypeOK'
    BY <2>1, <2>2, <2>4, <2>5 DEF TypeOK, sshVars
  <2>7. ConnectingIsReal' /\ QueueDriven'
    BY <2>1, <2>4, <2>5 DEF TypeOK, ConnectingIsReal, QueueDriven
  <2>8. PromptLive'
    BY <2>1 DEF TypeOK, PromptLive, sshVars
  <2>9. SshOfAttempt'
    BY <2>1 DEF TypeOK, ConnectingIsReal, SshOfAttempt, sshVars
  <2>10. QED
    BY <2>6, <2>7, <2>8, <2>9
<1>3. CASE HandleConnected(s)
  <2>1. /\ att[s] = "connected" /\ connState' = [connState EXCEPT ![s] = "ready"]
        /\ connecting' = Cleared(s) /\ ProcessQueue(connState', Cleared(s), asked)
        /\ att' = [att EXCEPT ![s] = "none"] /\ cancelled' = [cancelled EXCEPT ![s] = FALSE]
        /\ UNCHANGED <<sessions, sshVars, prompt, app, overwritten>> /\ tunnel' = tunnel \union {s}
    BY <1>3 DEF HandleConnected, Kept
  <2>2. dialog' \in BOOLEAN /\ switcher' \in BOOLEAN
    BY <1>3 DEF HandleConnected, TypeOK
  <2>3. asked \in [Server -> Nat] /\ queue \in Seq(Server)
    BY DEF TypeOK
  <2>4. /\ queue' \in Seq(Server) /\ asked' \in [Server -> Nat]
        /\ queue' # <<>> => connecting' # NoOne \/ \E t \in Server : asked'[t] > 0
    BY <2>1, <2>3, QueueStep
  <2>5. /\ connecting' \in Server \union {NoOne}
        /\ (connecting' # NoOne => connecting' = connecting /\ connecting # s)
    BY <2>1 DEF TypeOK, Cleared
  <2>6. TypeOK'
    BY <2>1, <2>2, <2>4, <2>5 DEF TypeOK, sshVars
  <2>7. ConnectingIsReal' /\ QueueDriven'
    BY <2>1, <2>4, <2>5 DEF TypeOK, ConnectingIsReal, QueueDriven
  <2>8. PromptLive'
    BY <2>1 DEF TypeOK, PromptLive, sshVars
  <2>9. SshOfAttempt'
    BY <2>1 DEF TypeOK, ConnectingIsReal, SshOfAttempt, sshVars
  <2>10. QED
    BY <2>6, <2>7, <2>8, <2>9
<1>4. QED
  BY <1>1, <1>2, <1>3

\* Every step keeps the invariant.
LEMMA InvStep == IInv /\ [Next]_vars => IInv'
<1> SUFFICES ASSUME IInv, [Next]_vars PROVE IInv'
  OBVIOUS
<1>1. CASE UNCHANGED vars
  BY <1>1
     DEF vars, sessVars, attVars, sshVars, uiVars, IInv, AttemptsReal, TypeOK,
     ConnectingIsReal,
              PromptLive, QueueDriven, SshOfAttempt
<1>2. Order[1] \in Server
  BY Servers
<1>3. QED
  BY <1>1, <1>2, CommandStep, AskpassStep, KeyStep, UpdateStep
     DEF Next, Attempt, Program

\* Whatever servers, ssh and the user do, what the program believes of its
\* attempts is true: AttemptsReal holds of every state.
THEOREM AttemptsAreReal == Spec => []AttemptsReal
<1>1. Spec => []IInv
  BY InvInit, InvStep, PTL DEF Spec
<1>2. IInv => AttemptsReal
  BY DEF IInv
<1>3. QED
  BY <1>1, <1>2, PTL

\* Every ssh process belongs to an attempt or to a session that closes it
\* (connectServerCmd, Tunnel.Close, runSessions): NoOrphanTunnel holds.
THEOREM TunnelsAreOwned == Spec => []NoOrphanTunnel
<1>1. Spec => []IInv
  BY InvInit, InvStep, PTL DEF Spec
<1>2. IInv => NoOrphanTunnel
  BY DEF IInv, AttemptsReal, SshOfAttempt, NoOrphanTunnel
<1>3. QED
  BY <1>1, <1>2, PTL

-----------------------------------------------------------------------------
(* Numbers *)

\* A nonempty set of numbers has a least one.
LEMMA Smallest ==
    ASSUME NEW S, S \subseteq Nat, S # {}
    PROVE  \E x \in S : \A y \in S : x <= y
<1> DEFINE R == OpToRel(<, Nat)
<1>1. IsWellFoundedOn(R, Nat)
  BY NatLessThanWellFounded
<1>2. \A x, y \in Nat : y < x => <<y, x>> \in R
  BY DEF OpToRel
<1> HIDE DEF R
<1>3. PICK x \in S : \A y \in S : <<y, x>> \notin R
  BY <1>1, WFMin
<1>4. ASSUME NEW y \in S PROVE x <= y
  <2>1. x \in Nat /\ y \in Nat
    OBVIOUS
  <2>2. ~(y < x)
    BY <1>2, <1>3, <2>1, Zenon
  <2>3. QED
    BY <2>1, <2>2
<1>5. QED
  BY <1>4

\* A finite set of numbers is bounded.
LEMMA FiniteTop ==
    ASSUME NEW S, S \subseteq Nat, IsFiniteSet(S)
    PROVE  \E top \in Nat : \A x \in S : x <= top
<1> DEFINE Above(x) == {z \in S : z > x}
           counts == {Cardinality(Above(x)) : x \in S}
<1>1. CASE S = {}
  BY <1>1
<1>2. CASE S # {}
  <2>1. \A x \in S : Above(x) \subseteq S /\ IsFiniteSet(Above(x)) /\ Cardinality(Above(x)) \in Nat
    <3>1. \A x \in S : Above(x) \subseteq S
      OBVIOUS
    <3> HIDE DEF Above
    <3>2. QED
      BY <3>1, FS_Subset, FS_CardinalityType
  <2>2. PICK n \in counts : \A m \in counts : n <= m
    <3>1. counts \subseteq Nat /\ counts # {}
      BY <1>2, <2>1
    <3> HIDE DEF counts
    <3>2. QED
      BY <3>1, Smallest
  <2>3. PICK x \in S : \A z \in S : Cardinality(Above(x)) <= Cardinality(Above(z))
    BY <2>2
  <2>4. ASSUME NEW z \in S, z > x PROVE FALSE
    <3>1. Above(z) \subseteq Above(x) /\ z \in Above(x) /\ z \notin Above(z)
      <4>1. x \in Nat /\ z \in Nat
        OBVIOUS
      <4>2. ASSUME NEW y \in S, y > z PROVE y > x
        <5>1. y \in Nat
          OBVIOUS
        <5>2. QED
          BY <2>4, <4>1, <4>2, <5>1
      <4>3. Above(z) \subseteq Above(x)
        BY <4>2, Zenon
      <4>4. QED
        BY <2>4, <4>1, <4>3
    <3> HIDE DEF Above
    <3>2. Cardinality(Above(z)) <= Cardinality(Above(x))
      BY <2>1, <3>1, FS_Subset
    <3>3. Cardinality(Above(z)) # Cardinality(Above(x))
      BY <2>1, <3>1, FS_Subset
    <3>4. Cardinality(Above(x)) \in Nat /\ Cardinality(Above(z)) \in Nat
      BY <2>1
    <3>5. Cardinality(Above(x)) <= Cardinality(Above(z))
      BY <2>3
    <3>6. QED
      BY <3>2, <3>3, <3>4, <3>5
  <2>5. x \in Nat /\ \A z \in S : z <= x
    BY <2>4
  <2>6. QED
    BY <2>5
<1>3. QED
  BY <1>1, <1>2

-----------------------------------------------------------------------------
(* DetailView: the elements of a sequence at some of its places *)

Rank(places, i) == Cardinality({j \in places : j <= i})

\* Places have ranks, and a later one has a higher rank.
LEMMA RankGrows ==
    ASSUME NEW I, I \subseteq Nat, IsFiniteSet(I), NEW i \in I, NEW j \in I, i < j
    PROVE  /\ Rank(I, i) \in Nat /\ Rank(I, j) \in Nat /\ Rank(I, i) < Rank(I, j)
<1> DEFINE A == {x \in I : x <= i}
           B == {x \in I : x <= j}
<1>1. A \subseteq B /\ B \subseteq I /\ j \in B /\ j \notin A
  <2>1. i \in Nat /\ j \in Nat
    OBVIOUS
  <2>2. ASSUME NEW x \in I, x <= i PROVE x <= j
    <3>1. x \in Nat
      OBVIOUS
    <3>2. QED
      BY <2>1, <2>2, <3>1
  <2>3. A \subseteq B /\ B \subseteq I
    BY <2>2, Zenon
  <2>4. QED
    BY <2>1, <2>3
<1>2. Rank(I, i) = Cardinality(A) /\ Rank(I, j) = Cardinality(B)
  BY DEF Rank
<1> HIDE DEF A, B
<1>3. IsFiniteSet(B) /\ IsFiniteSet(A)
  BY <1>1, FS_Subset
<1>4. Cardinality(A) \in Nat /\ Cardinality(B) \in Nat
  BY <1>3, FS_CardinalityType
<1>5. Cardinality(A) <= Cardinality(B) /\ Cardinality(A) # Cardinality(B)
  BY <1>1, <1>3, FS_Subset
<1>6. QED
  BY <1>2, <1>4, <1>5

\* A rank belongs to one place.
LEMMA RankUnique ==
    ASSUME NEW I, I \subseteq Nat, IsFiniteSet(I), NEW i \in I, NEW j \in I,
           Rank(I, i) = Rank(I, j)
    PROVE  i = j
<1>1. ~(i < j) /\ ~(j < i)
  <2>1. i < j => Rank(I, i) < Rank(I, j) /\ Rank(I, i) \in Nat
    BY RankGrows
  <2>2. j < i => Rank(I, j) < Rank(I, i) /\ Rank(I, i) \in Nat
    BY RankGrows
  <2>3. QED
    BY <2>1, <2>2
<1>2. i \in Nat /\ j \in Nat
  OBVIOUS
<1>3. QED
  BY <1>1, <1>2

\* Every number up to their cardinality is the rank of one of the places.
LEMMA NthIn ==
    ASSUME NEW I, I \subseteq Nat, IsFiniteSet(I), NEW k \in 1..Cardinality(I)
    PROVE  Nth(I, k) \in I /\ Rank(I, Nth(I, k)) = k
<1> DEFINE Below(m) == {x \in I : x <= m}
           many == {m \in Nat : Cardinality(Below(m)) >= k}
<1>1. \A m \in Nat : Below(m) \subseteq I /\ IsFiniteSet(Below(m)) /\ Cardinality(Below(m)) \in Nat
  <2>1. \A m \in Nat : Below(m) \subseteq I
    OBVIOUS
  <2> HIDE DEF Below
  <2>2. QED
    BY <2>1, FS_Subset, FS_CardinalityType
<1>2. PICK top \in Nat : \A x \in I : x <= top
  BY FiniteTop
<1>3. Cardinality(I) \in Nat /\ k \in Nat /\ k > 0 /\ k <= Cardinality(I)
  BY FS_CardinalityType
<1>4. PICK m \in many : \A p \in many : m <= p
  <2>1. Below(top) = I
    BY <1>2
  <2>2. top \in many
    BY <1>2, <1>3, <2>1
  <2>3. many \subseteq Nat /\ many # {}
    BY <2>2
  <2> HIDE DEF many
  <2>4. QED
    BY <2>3, Smallest
<1>5. m \in Nat /\ Cardinality(Below(m)) >= k
  BY <1>4
<1>6. m \in I
  <2>1. SUFFICES ASSUME m \notin I PROVE FALSE
    OBVIOUS
  <2>2. CASE m = 0
    <3>1. ASSUME NEW x \in I PROVE ~(x <= m)
      <4>1. x \in Nat /\ x # m
        BY <2>1
      <4>2. QED
        BY <2>2, <4>1
    <3>2. Below(m) = {}
      BY <3>1
    <3>3. Cardinality(Below(m)) = 0
      BY <3>2, FS_EmptySet
    <3>4. QED
      BY <1>3, <1>5, <3>3
  <2>3. CASE m # 0
    <3>1. ASSUME NEW x \in I PROVE x <= m - 1 <=> x <= m
      <4>1. x \in Nat /\ x # m
        BY <2>1
      <4>2. QED
        BY <1>5, <4>1
    <3>2. Below(m - 1) = Below(m)
      BY <3>1, Zenon
    <3>3. m - 1 \in Nat /\ Below(m - 1) = Below(m)
      BY <1>5, <2>3, <3>2
    <3> HIDE DEF Below
    <3>4. m - 1 \in many
      BY <1>5, <3>3
    <3>5. m <= m - 1
      BY <1>4, <3>4
    <3>6. QED
      BY <1>5, <3>5
  <2>4. QED
    BY <2>2, <2>3
<1>7. Cardinality(Below(m)) = k
  <2> SUFFICES ASSUME Cardinality(Below(m)) > k PROVE FALSE
    BY <1>1, <1>3, <1>5
  <2> DEFINE rest == Below(m) \ {m}
  <2>1. m \in Below(m) /\ IsFiniteSet(Below(m)) /\ Cardinality(Below(m)) \in Nat
    BY <1>1, <1>5, <1>6
  <2>2. Cardinality(rest) = Cardinality(Below(m)) - 1
    BY <2>1, FS_RemoveElement
  <2>3. Cardinality(rest) >= k
    BY <1>3, <2>1, <2>2
  <2>4. CASE m = 0
    <3>1. ASSUME NEW x \in I, x <= m PROVE x = m
      <4>1. x \in Nat
        OBVIOUS
      <4>2. QED
        BY <2>4, <3>1, <4>1
    <3>2. rest = {}
      BY <3>1
    <3>3. QED
      BY <1>3, <2>3, <3>2, FS_EmptySet
  <2>5. CASE m # 0
    <3>1. ASSUME NEW x \in I PROVE x <= m - 1 <=> x <= m /\ x # m
      <4>1. x \in Nat
        OBVIOUS
      <4>2. QED
        BY <1>5, <4>1
    <3>2. Below(m - 1) = rest
      BY <3>1, Zenon
    <3>3. m - 1 \in Nat /\ Below(m - 1) = rest
      BY <1>5, <2>5, <3>2
    <3> HIDE DEF Below, rest
    <3>4. m - 1 \in many
      BY <2>3, <3>3
    <3>5. m <= m - 1
      BY <1>4, <3>4
    <3>6. QED
      BY <1>5, <3>5
  <2>6. QED
    BY <2>4, <2>5
<1>8. \E i \in I : Cardinality({j \in I : j <= i}) = k
  BY <1>6, <1>7
<1>9. QED
  BY <1>8, Zenon DEF Nth, Rank

\* The elements at some places are elements of the sequence, in a sequence as long
\* as there are places.
LEMMA AtElements ==
    ASSUME NEW T, NEW seq \in Seq(T), NEW I, I \subseteq DOMAIN seq
    PROVE  /\ IsFiniteSet(I) /\ Cardinality(I) \in Nat
           /\ Len(At(seq, I)) = Cardinality(I)
           /\ \A k \in 1..Cardinality(I) :
                 Nth(I, k) \in I /\ Rank(I, Nth(I, k)) = k /\ At(seq, I)[k] = seq[Nth(I, k)]
<1>1. Len(seq) \in Nat /\ DOMAIN seq = 1..Len(seq)
  BY LenProperties
<1>2. IsFiniteSet(1..Len(seq))
  BY <1>1, FS_Interval
<1>3. IsFiniteSet(I)
  BY <1>1, <1>2, FS_Subset
<1>4. Cardinality(I) \in Nat
  BY <1>3, FS_CardinalityType
<1>5. I \subseteq Nat
  BY <1>1
<1>6. \A k \in 1..Cardinality(I) : Nth(I, k) \in I /\ Rank(I, Nth(I, k)) = k
  BY <1>3, <1>5, NthIn
<1>7. Len(At(seq, I)) = Cardinality(I)
  BY <1>4 DEF At
<1>8. \A k \in 1..Cardinality(I) : At(seq, I)[k] = seq[Nth(I, k)]
  BY DEF At
<1>9. QED
  BY <1>3, <1>4, <1>6, <1>7, <1>8

\* What holds of the elements at these places holds of the sequence.
LEMMA AtType ==
    ASSUME NEW T, NEW seq \in Seq(T), NEW I, I \subseteq DOMAIN seq,
           NEW U, \A i \in I : seq[i] \in U
    PROVE  At(seq, I) \in Seq(U)
<1> DEFINE n == Cardinality(I)
<1>1. n \in Nat /\ \A k \in 1..n : Nth(I, k) \in I
  BY AtElements
<1>2. \A k \in 1..n : seq[Nth(I, k)] \in U
  BY <1>1
<1>3. At(seq, I) \in [1..n -> U]
  BY <1>2 DEF At
<1>4. QED
  BY <1>1, <1>3, SeqDef

\* All places give the sequence.
LEMMA AtAll ==
    ASSUME NEW T, NEW seq \in Seq(T)
    PROVE  At(seq, DOMAIN seq) = seq
<1> DEFINE n == Len(seq)
           I == 1..n
<1>1. n \in Nat /\ DOMAIN seq = I /\ seq \in [1..n -> T]
  BY LenProperties
<1>2. IsFiniteSet(I) /\ Cardinality(I) = n
  BY <1>1, FS_Interval
<1>3. ASSUME NEW k \in 1..n PROVE Nth(I, k) = k
  <2>1. {x \in I : x <= k} = 1..k
    BY <1>1
  <2>2. Rank(I, k) = k
    <3>1. Cardinality(1..k) = k
      BY <1>1, FS_Interval
    <3>2. Rank(I, k) = Cardinality({x \in I : x <= k})
      BY DEF Rank
    <3>3. QED
      BY <2>1, <3>1, <3>2
  <2>3. Nth(I, k) \in I /\ Rank(I, Nth(I, k)) = k
    BY <1>1, <1>2, NthIn
  <2>4. I \subseteq Nat /\ k \in I
    BY <1>1
  <2> HIDE DEF I
  <2>5. QED
    BY <1>2, <2>2, <2>3, <2>4, RankUnique
<1>4. At(seq, I) = [k \in 1..n |-> seq[k]]
  BY <1>2, <1>3 DEF At
<1>5. QED
  BY <1>1, <1>4

\* Ranks and places undo each other.
LEMMA NthOfRank ==
    ASSUME NEW I, I \subseteq Nat, IsFiniteSet(I), NEW i \in I
    PROVE  Rank(I, i) \in 1..Cardinality(I) /\ Nth(I, Rank(I, i)) = i
<1> DEFINE A == {x \in I : x <= i}
           k == Rank(I, i)
<1>1. A \subseteq I /\ i \in A
  OBVIOUS
<1>2. k = Cardinality(A)
  BY DEF Rank
<1> HIDE DEF A, k
<1>3. IsFiniteSet(A)
  BY <1>1, FS_Subset
<1>4. Cardinality(A) \in Nat /\ Cardinality(I) \in Nat
  BY <1>3, FS_CardinalityType
<1>5. Cardinality(A) <= Cardinality(I)
  BY <1>1, FS_Subset
<1>6. Cardinality(A) # 0
  BY <1>1, <1>3, FS_EmptySet
<1>7. k \in 1..Cardinality(I)
  BY <1>2, <1>4, <1>5, <1>6
<1>8. Nth(I, k) \in I /\ Rank(I, Nth(I, k)) = k
  BY <1>7, NthIn
<1>9. Nth(I, k) = i
  BY <1>8, RankUnique DEF k
<1>10. QED
  BY <1>7, <1>9 DEF k

\* A later element is at a later place.
LEMMA NthGrows ==
    ASSUME NEW I, I \subseteq Nat, IsFiniteSet(I),
           NEW k \in 1..Cardinality(I), NEW l \in 1..Cardinality(I), k < l
    PROVE  Nth(I, k) \in Nat /\ Nth(I, l) \in Nat /\ Nth(I, k) < Nth(I, l)
<1> DEFINE a == Nth(I, k)
           b == Nth(I, l)
<1>1. a \in I /\ b \in I /\ Rank(I, a) = k /\ Rank(I, b) = l
  BY NthIn
<1> HIDE DEF a, b
<1>2. b < a => Rank(I, b) < Rank(I, a)
  BY <1>1, RankGrows
<1>3. k \in Int /\ l \in Int
  OBVIOUS
<1>4. a \in Nat /\ b \in Nat
  BY <1>1
<1>5. ~(b < a) /\ a # b
  BY <1>1, <1>2, <1>3
<1>6. a < b
  BY <1>4, <1>5
<1>7. QED
  BY <1>4, <1>6 DEF a, b

\* An increasing function onto an interval counts it.
Onto(g, n, c, top) ==
    /\ \A k \in 1..n : g[k] \in (c + 1)..top
    /\ \A k, l \in 1..n : k < l => g[k] < g[l]
    /\ \A i \in (c + 1)..top : \E k \in 1..n : g[k] = i

LEMMA Counting ==
    ASSUME NEW n \in Nat, NEW c \in Nat, NEW top \in Nat, c <= top, NEW g, Onto(g, n, c, top)
    PROVE  n = top - c /\ \A k \in 1..n : g[k] = c + k
<1> USE DEF Onto
<1> DEFINE wrong == {k \in 1..n : g[k] # c + k}
<1>1. wrong = {}
  <2> SUFFICES ASSUME wrong # {} PROVE FALSE
    OBVIOUS
  <2>1. PICK k \in wrong : \A l \in wrong : k <= l
    <3>1. wrong \subseteq Nat
      OBVIOUS
    <3> HIDE DEF wrong
    <3>2. QED
      BY <3>1, Smallest
  <2>2. k \in 1..n /\ g[k] # c + k /\ g[k] \in (c + 1)..top
    BY <2>1
  <2>3. \A l \in 1..n : l < k => g[l] = c + l
    BY <2>1
  <2>4. g[k] > c + k
    <3>1. CASE k = 1
      BY <2>2, <3>1
    <3>2. CASE k # 1
      <4>1. k - 1 \in 1..n /\ k - 1 < k
        BY <2>2, <3>2
      <4>2. g[k - 1] = c + (k - 1) /\ g[k - 1] < g[k]
        BY <2>2, <2>3, <4>1
      <4>3. QED
        BY <2>2, <4>1, <4>2
    <3>3. QED
      BY <3>1, <3>2
  <2>5. c + k \in (c + 1)..top
    BY <2>2, <2>4
  <2>6. PICK l \in 1..n : g[l] = c + k
    BY <2>5
  <2>7. CASE l < k
    BY <2>2, <2>3, <2>6, <2>7
  <2>8. CASE l = k
    BY <2>2, <2>6, <2>8
  <2>9. CASE l > k
    <3>1. g[k] < g[l]
      BY <2>2, <2>9
    <3>2. QED
      BY <2>2, <2>4, <2>6, <3>1
  <2>10. QED
    BY <2>2, <2>7, <2>8, <2>9
<1>2. \A k \in 1..n : g[k] = c + k
  BY <1>1
<1>3. n <= top - c
  <2>1. CASE n = 0
    BY <2>1
  <2>2. CASE n # 0
    <3>1. n \in 1..n
      BY <2>2
    <3>2. g[n] = c + n /\ g[n] \in (c + 1)..top
      BY <1>2, <3>1
    <3>3. QED
      BY <3>2
  <2>3. QED
    BY <2>1, <2>2
<1>4. ~(n < top - c)
  <2> SUFFICES ASSUME n < top - c PROVE FALSE
    OBVIOUS
  <2>1. c + n + 1 \in (c + 1)..top
    OBVIOUS
  <2>2. PICK k \in 1..n : g[k] = c + n + 1
    BY <2>1
  <2>3. g[k] = c + k
    BY <1>2
  <2>4. QED
    BY <2>2, <2>3
<1>5. QED
  BY <1>2, <1>3, <1>4

LEMMA ReverseType ==
    ASSUME NEW T, NEW seq \in Seq(T)
    PROVE  /\ Reverse(seq) \in Seq(T) /\ Len(Reverse(seq)) = Len(seq)
           /\ \A i \in 1..Len(seq) : Reverse(seq)[i] = seq[Len(seq) - i + 1]
<1> DEFINE n == Len(seq)
<1>1. n \in Nat /\ seq \in [1..n -> T]
  BY LenProperties
<1>2. Reverse(seq) = [i \in 1..n |-> seq[(n - i) + 1]]
  BY DEF Reverse
<1>3. \A i \in 1..n : (n - i) + 1 \in 1..n
  BY <1>1
<1>4. Reverse(seq) \in [1..n -> T]
  BY <1>1, <1>2, <1>3
<1>5. QED
  BY <1>1, <1>2, <1>4, SeqDef, LenProperties

LEMMA SlicesType ==
    ASSUME NEW T, NEW seq \in Seq(T), NEW m \in Int, m >= 1, NEW n \in Int, n <= Len(seq)
    PROVE  /\ SubSeq(seq, m, n) \in Seq(T)
           /\ Len(SubSeq(seq, m, n)) = IF m <= n THEN n - m + 1 ELSE 0
           /\ \A i \in 1..(n - m + 1) : SubSeq(seq, m, n)[i] = seq[m + i - 1]
<1>1. Len(seq) \in Nat /\ seq \in [1..Len(seq) -> T]
  BY LenProperties
<1>2. \A i \in m..n : i \in 1..Len(seq)
  BY <1>1
<1>3. \A i \in m..n : seq[i] \in T
  BY <1>1, <1>2
<1>4. QED
  BY <1>3, SubSeqProperties

-----------------------------------------------------------------------------
(* DetailView: the ring and the rows *)

LEMMA DetailNumbers ==
    /\ Cap \in Nat /\ Cap > 0 /\ Height \in Nat /\ Height > 0 /\ SecPerDay \in Nat /\ SecPerDay > 0
    /\ None \notin Target /\ First \in Sessions
<1>1. {Cap, Height, SecPerDay} \subseteq Nat \ {0} /\ None \notin Target /\ First \in Sessions
  BY DetailAssumption
<1>2. Cap \in Nat \ {0} /\ Height \in Nat \ {0} /\ SecPerDay \in Nat \ {0}
  BY <1>1
<1>3. QED
  BY <1>1, <1>2

\* A push keeps the last Cap of the old and the new elements.
LEMMA PushKeeps ==
    ASSUME NEW T, NEW ring \in Seq(T), NEW s \in Seq(T)
    PROVE  /\ Push(ring, s) \in Seq(T) /\ Len(Push(ring, s)) <= Cap
           /\ Len(ring) + Len(s) <= Cap => Push(ring, s) = ring \o s
<1> DEFINE all == ring \o s
           m == Most(1, Len(all) - Cap + 1)
<1>1. all \in Seq(T) /\ Len(all) = Len(ring) + Len(s) /\ Len(all) \in Nat
  BY ConcatProperties, LenProperties
<1>2. Push(ring, s) = SubSeq(all, m, Len(all))
  BY DEF Push
<1> HIDE DEF all
<1>3. m \in Int /\ m >= 1 /\ m >= Len(all) - Cap + 1 /\ (Len(all) <= Cap => m = 1)
  BY <1>1, DetailNumbers DEF Most
<1> HIDE DEF m
<1>4. SubSeq(all, m, Len(all)) \in Seq(T)
  BY <1>1, <1>3, SlicesType
<1>5. Len(SubSeq(all, m, Len(all))) = IF m <= Len(all) THEN Len(all) - m + 1 ELSE 0
  BY <1>1, <1>3, SlicesType
<1>6. Len(all) <= Cap => SubSeq(all, m, Len(all)) = all
  BY <1>1, <1>3, SubSeqFull
<1>7. Len(SubSeq(all, m, Len(all))) <= Cap
  BY <1>1, <1>3, <1>5, DetailNumbers
<1>8. QED
  BY <1>1, <1>2, <1>4, <1>6, <1>7 DEF all

-----------------------------------------------------------------------------
(* DetailView: the deploy separators *)

Doubled(seq) ==
    [i \in 1..(2 * Len(seq)) |->
       IF i % 2 = 0 THEN seq[i \div 2] ELSE Separator(seq[(i + 1) \div 2])]

KeptPlaces(seq) ==
    {i \in DOMAIN Doubled(seq) : i % 2 = 0 \/ (i + 1) \div 2 \in Redeploys(seq)}

LEMMA NoLevel == "" \in STRING
<1>1. ASSUME NEW x \in Level PROVE x \in STRING
  <2>1. Levels \in Seq(STRING)
    BY DetailAssumption, Zenon
  <2>2. QED
    BY <2>1, LenProperties DEF Level
<1>2. "" \in Level
  BY DetailAssumption, Zenon
<1>3. QED
  BY <1>1, <1>2, Zenon

LEMMA SeparatorIs ==
    ASSUME NEW l \in Line
    PROVE  Separator(l) \in Line /\ Separator(l).n = 0 /\ Separator(l).c = l.c
<1> DEFINE none == ""
<1>1. none \in STRING
  BY NoLevel, Zenon
<1>2. Separator(l) = [n |-> 0, c |-> l.c, at |-> l.at, lvl |-> none, hit |-> SeparatorHit]
  BY Zenon DEF Separator
<1>3. SeparatorHit \in BOOLEAN
  BY Zenon, RowsAssumption
<1> HIDE DEF none
<1>4. Separator(l) \in Line /\ Separator(l).n = 0 /\ Separator(l).c = l.c
  BY <1>1, <1>2, <1>3 DEF Line
<1>5. QED
  BY <1>4

\* Every line is kept, at the even places.
LEMMA InjectShape ==
    ASSUME NEW T, NEW seq \in Seq(T), NEW U, T \subseteq U, \A l \in T : Separator(l) \in U
    PROVE  /\ InjectDeploySeparators(seq) = At(Doubled(seq), KeptPlaces(seq))
           /\ Doubled(seq) \in Seq(U) /\ KeptPlaces(seq) \subseteq DOMAIN Doubled(seq)
           /\ Len(seq) \in Nat /\ DOMAIN Doubled(seq) = 1..(2 * Len(seq))
           /\ \A i \in 1..Len(seq) : 2 * i \in KeptPlaces(seq)
           /\ \A i \in DOMAIN Doubled(seq) :
                 \/ /\ i % 2 = 0 /\ i \div 2 \in 1..Len(seq) /\ i = 2 * (i \div 2)
                    /\ Doubled(seq)[i] = seq[i \div 2]
                 \/ /\ i % 2 # 0 /\ (i + 1) \div 2 \in 1..Len(seq)
                    /\ Doubled(seq)[i] = Separator(seq[(i + 1) \div 2])
<1> DEFINE n == Len(seq)
           d == Doubled(seq)
<1>1. n \in Nat /\ \A i \in 1..n : seq[i] \in T
  BY LenProperties
<1>2. DOMAIN d = 1..(2 * n)
  BY DEF Doubled
<1>3. ASSUME NEW i \in 1..(2 * n)
      PROVE  \/ /\ i % 2 = 0 /\ i \div 2 \in 1..n /\ i = 2 * (i \div 2) /\ d[i] = seq[i \div 2]
             \/ /\ i % 2 # 0 /\ (i + 1) \div 2 \in 1..n /\ d[i] = Separator(seq[(i + 1) \div 2])
  <2>1. d[i] = IF i % 2 = 0 THEN seq[i \div 2] ELSE Separator(seq[(i + 1) \div 2])
    BY DEF Doubled
  <2> HIDE DEF d
  <2>2. CASE i % 2 = 0
    <3>1. i \div 2 \in 1..n /\ i = 2 * (i \div 2)
      BY <1>1, <2>2
    <3>2. QED
      BY <2>1, <2>2, <3>1
  <2>3. CASE i % 2 # 0
    <3>1. (i + 1) \div 2 \in 1..n
      BY <1>1, <2>3
    <3>2. QED
      BY <2>1, <2>3, <3>1
  <2>4. QED
    BY <2>2, <2>3
<1>4. d \in Seq(U)
  <2>1. \A i \in 1..(2 * n) : d[i] \in U
    BY <1>1, <1>3
  <2>2. d = [i \in 1..(2 * n) |-> d[i]] /\ 2 * n \in Nat
    BY <1>1 DEF Doubled
  <2> HIDE DEF d
  <2>3. d \in [1..(2 * n) -> U]
    BY <2>1, <2>2
  <2>4. QED
    BY <2>2, <2>3, SeqDef
<1>5. \A i \in 1..n : 2 * i \in KeptPlaces(seq)
  <2>1. \A i \in 1..n : 2 * i \in 1..(2 * n) /\ (2 * i) % 2 = 0
    BY <1>1
  <2>2. QED
    BY <1>2, <2>1 DEF KeptPlaces
<1>6. InjectDeploySeparators(seq) = At(Doubled(seq), KeptPlaces(seq))
  BY DEF InjectDeploySeparators, Doubled, KeptPlaces
<1>7. KeptPlaces(seq) \subseteq DOMAIN Doubled(seq)
  BY DEF KeptPlaces
<1>8. QED
  BY <1>1, <1>2, <1>3, <1>4, <1>5, <1>6, <1>7

LEMMA InjectType ==
    ASSUME NEW T, NEW seq \in Seq(T), \A l \in T : Separator(l) \in T
    PROVE  InjectDeploySeparators(seq) \in Seq(T)
<1> DEFINE d == Doubled(seq)
           S == KeptPlaces(seq)
<1>1. InjectDeploySeparators(seq) = At(d, S) /\ d \in Seq(T) /\ S \subseteq DOMAIN d
  BY InjectShape
<1> HIDE DEF d, S
<1>2. \A i \in S : d[i] \in T
  BY <1>1, LenProperties
<1>3. At(d, S) \in Seq(T)
  BY <1>1, <1>2, AtType
<1>4. QED
  BY <1>1, <1>3

\* In the ring, the lines without their separators are the last ones, and some are
\* missing only if it is full.
LEMMA RowsEnd ==
    ASSUME NEW P, P \subseteq Row, NEW seq \in Seq(P),
           NEW U, P \subseteq U, \A l \in P : Separator(l) \in U
    PROVE  LET m == Push(<<>>, InjectDeploySeparators(seq))
               J == {i \in DOMAIN m : m[i].n > 0}
           IN /\ m \in Seq(U)
              /\ \A i \in J : m[i] \in P
              /\ \E left \in 0..Len(seq) : /\ At(m, J) = SubSeq(seq, left + 1, Len(seq))
                                           /\ left > 0 => Len(m) = Cap
<1> DEFINE top == Len(seq)
           D == Doubled(seq)
           S == KeptPlaces(seq)
           size == Cardinality(S)
           all == At(D, S)
           a == Most(1, size - Cap + 1)
           m == Push(<<>>, all)
           J == {i \in DOMAIN m : m[i].n > 0}
           M == size - a + 1
           Place(i) == Nth(S, a + i - 1)
<1>1. /\ InjectDeploySeparators(seq) = all /\ D \in Seq(U) /\ S \subseteq DOMAIN D
      /\ top \in Nat /\ DOMAIN D = 1..(2 * top) /\ \A i \in 1..top : 2 * i \in S /\ seq[i] \in P
      /\ \A i \in DOMAIN D :
            \/ i % 2 = 0 /\ i \div 2 \in 1..top /\ i = 2 * (i \div 2) /\ D[i] = seq[i \div 2]
            \/ i % 2 # 0 /\ (i + 1) \div 2 \in 1..top /\ D[i] = Separator(seq[(i + 1) \div 2])
  BY InjectShape, LenProperties
<1> HIDE DEF top, D, S
<1>2. /\ IsFiniteSet(S) /\ size \in Nat /\ Len(all) = size /\ S \subseteq Nat
      /\ \A k \in 1..size : Nth(S, k) \in S /\ Rank(S, Nth(S, k)) = k /\ all[k] = D[Nth(S, k)]
  BY <1>1, AtElements
<1>3. all \in Seq(U)
  <2>1. \A i \in S : D[i] \in U
    BY <1>1, LenProperties
  <2>2. QED
    BY <1>1, <2>1, AtType
<1> HIDE DEF size, all
<1>4. /\ a \in Nat /\ a >= 1 /\ a <= size + 1 /\ M \in Nat
      /\ a > 1 => M = Cap
  BY <1>2, DetailNumbers DEF Most
<1>5. /\ m \in Seq(U) /\ Len(m) = M /\ DOMAIN m = 1..M
      /\ \A i \in 1..M : a + i - 1 \in 1..size /\ m[i] = D[Place(i)] /\ Place(i) \in S
  <2>1. <<>> \o all = all
    BY <1>3, ConcatEmptySeq
  <2>2. m = SubSeq(all, a, size)
    BY <1>2, <2>1 DEF Push
  <2> HIDE DEF a, m
  <2>3. /\ SubSeq(all, a, size) \in Seq(U)
        /\ Len(SubSeq(all, a, size)) = IF a <= size THEN size - a + 1 ELSE 0
        /\ \A i \in 1..(size - a + 1) : SubSeq(all, a, size)[i] = all[a + i - 1]
    BY <1>2, <1>3, <1>4, SlicesType
  <2>4. m \in Seq(U) /\ Len(m) = M
    BY <1>2, <1>4, <2>2, <2>3
  <2>5. DOMAIN m = 1..M
    BY <2>4, LenProperties
  <2>6. ASSUME NEW i \in 1..M
        PROVE  a + i - 1 \in 1..size /\ m[i] = D[Place(i)] /\ Place(i) \in S
    <3>1. a + i - 1 \in 1..size
      BY <1>2, <1>4
    <3>2. m[i] = all[a + i - 1]
      BY <2>2, <2>3
    <3>3. QED
      BY <1>2, <3>1, <3>2
  <2>7. QED
    BY <2>4, <2>5, <2>6
<1> HIDE DEF a, m, M
<1>51. \A i \in 1..M : a + i - 1 \in 1..size
  BY <1>5
<1>52. top \in Nat /\ \A i \in 1..top : 2 * i \in S
  BY <1>1
\* The lines are those at even places.
<1>6. ASSUME NEW i \in 1..M
      PROVE  /\ i \in J <=> Place(i) % 2 = 0
             /\ Place(i) % 2 = 0 => /\ Place(i) \div 2 \in 1..top /\ Place(i) = 2 * (Place(i) \div 2)
                                    /\ m[i] = seq[Place(i) \div 2]
  <2>1. Place(i) \in DOMAIN D /\ m[i] = D[Place(i)]
    BY <1>1, <1>5
  <2>2. CASE /\ Place(i) % 2 = 0 /\ Place(i) \div 2 \in 1..top /\ Place(i) = 2 * (Place(i) \div 2)
             /\ D[Place(i)] = seq[Place(i) \div 2]
    <3>1. m[i] \in Row
      BY <1>1, <2>1, <2>2
    <3>2. m[i].n > 0
      BY <3>1 DEF Row
    <3>3. QED
      BY <1>5, <2>1, <2>2, <3>2
  <2>3. CASE /\ Place(i) % 2 # 0 /\ (Place(i) + 1) \div 2 \in 1..top
             /\ D[Place(i)] = Separator(seq[(Place(i) + 1) \div 2])
    <3>1. seq[(Place(i) + 1) \div 2] \in Line
      BY <1>1, <2>1, <2>3 DEF Row
    <3>2. m[i].n = 0
      BY <2>1, <2>3, <3>1, SeparatorIs
    <3>3. QED
      BY <1>5, <2>3, <3>2
  <2>4. QED
    BY <1>1, <2>1, <2>2, <2>3
<1>7. \A i \in J : m[i] \in P
  BY <1>1, <1>5, <1>6
<1> DEFINE many == Cardinality(J)
           g == [k \in 1..many |-> Place(Nth(J, k)) \div 2]
           found == {i \in 1..top : Rank(S, 2 * i) >= a}
<1>8. /\ IsFiniteSet(J) /\ J \subseteq 1..M /\ many \in Nat
      /\ \A k \in 1..many : Nth(J, k) \in J /\ At(m, J)[k] = m[Nth(J, k)]
      /\ At(m, J) = [k \in 1..many |-> At(m, J)[k]]
  <2>1. J \subseteq DOMAIN m
    OBVIOUS
  <2> HIDE DEF J
  <2>2. /\ IsFiniteSet(J) /\ many \in Nat
        /\ \A k \in 1..many : Nth(J, k) \in J /\ At(m, J)[k] = m[Nth(J, k)]
    BY <1>5, <2>1, AtElements
  <2>3. At(m, J) = [k \in 1..many |-> At(m, J)[k]]
    BY DEF At
  <2>4. QED
    BY <1>5, <2>1, <2>2, <2>3
<1> HIDE DEF J, many
<1>9. ASSUME NEW k \in 1..many
      PROVE  /\ Nth(J, k) \in 1..M /\ g[k] \in 1..top /\ Place(Nth(J, k)) = 2 * g[k]
             /\ At(m, J)[k] = seq[g[k]]
  BY <1>6, <1>8
<1>10. \A k \in 1..many : g[k] \in found
  <2> SUFFICES ASSUME NEW k \in 1..many PROVE Rank(S, 2 * g[k]) >= a
    BY <1>9
  <2> DEFINE p == Nth(J, k)
  <2>1. p \in 1..M /\ Place(p) = 2 * g[k]
    BY <1>9
  <2> HIDE DEF p, g
  <2>2. a + p - 1 \in 1..size
    BY <1>5, <2>1
  <2>3. Rank(S, 2 * g[k]) = a + p - 1
    BY <1>2, <2>1, <2>2
  <2>4. QED
    BY <1>4, <2>1, <2>3
<1>11. ASSUME NEW k \in 1..many, NEW l \in 1..many, k < l PROVE g[k] < g[l]
  <2> DEFINE p == Nth(J, k)
             q == Nth(J, l)
  <2>1. p < q
    <3>1. J \subseteq Nat
      BY <1>8
    <3>2. QED
      BY <1>8, <1>11, <3>1, NthGrows DEF many
  <2>2. p \in 1..M /\ q \in 1..M /\ Place(p) = 2 * g[k] /\ Place(q) = 2 * g[l]
        /\ g[k] \in 1..top /\ g[l] \in 1..top
    BY <1>9
  <2>6. a \in Nat /\ size \in Nat
    BY <1>2, <1>4
  <2> HIDE DEF p, q, g
  <2>3. a + p - 1 \in 1..size /\ a + q - 1 \in 1..size /\ a + p - 1 < a + q - 1
    <3>1. p \in 1..M /\ q \in 1..M
      BY <2>2
    <3>2. a + p - 1 \in 1..size /\ a + q - 1 \in 1..size
      BY <1>51, <3>1
    <3>3. p \in Nat /\ q \in Nat
      BY <1>4, <3>1
    <3>4. QED
      BY <2>1, <2>6, <3>2, <3>3
  <2>4. Place(p) < Place(q)
    BY <1>2, <2>3, NthGrows DEF size
  <2>5. QED
    BY <2>2, <2>4
<1>12. ASSUME NEW i \in found PROVE \E k \in 1..many : g[k] = i
  <2> DEFINE p == Rank(S, 2 * i)
             q == p - a + 1
             k == Rank(J, q)
  <2>1. 2 * i \in S /\ i \in 1..top /\ p >= a
    BY <1>1
  <2>2. p \in 1..size /\ Nth(S, p) = 2 * i
    BY <1>2, <2>1, NthOfRank DEF size
  <2> HIDE DEF p
  <2>3. q \in 1..M /\ a + q - 1 = p
    BY <1>2, <1>4, <2>1, <2>2 DEF M
  <2>4. Place(q) = 2 * i
    BY <2>2, <2>3
  <2>5. Place(q) % 2 = 0 /\ Place(q) \div 2 = i
    BY <2>1, <2>4
  <2> HIDE DEF q
  <2>6. q \in J
    BY <1>6, <2>3, <2>5
  <2>7. k \in 1..many /\ Nth(J, k) = q
    <3>1. J \subseteq Nat
      BY <1>8
    <3>2. QED
      BY <1>8, <2>6, <3>1, NthOfRank DEF many
  <2> HIDE DEF k
  <2>8. g[k] = i
    BY <2>5, <2>7
  <2>9. QED
    BY <2>7, <2>8
<1>13. \A i, j \in 1..top : i < j => Rank(S, 2 * i) < Rank(S, 2 * j)
  <2> SUFFICES ASSUME NEW i \in 1..top, NEW j \in 1..top, i < j
               PROVE  Rank(S, 2 * i) < Rank(S, 2 * j)
    OBVIOUS
  <2>1. 2 * i \in S /\ 2 * j \in S /\ 2 * i < 2 * j
    BY <1>52
  <2>2. QED
    BY <1>2, <2>1, RankGrows
<1>14. \A i \in 1..top : Rank(S, 2 * i) \in Nat /\ Rank(S, 2 * i) >= 1
  <2> SUFFICES ASSUME NEW i \in 1..top PROVE Rank(S, 2 * i) \in Nat /\ Rank(S, 2 * i) >= 1
    OBVIOUS
  <2>1. 2 * i \in S
    BY <1>1
  <2>2. Rank(S, 2 * i) \in 1..Cardinality(S)
    BY <1>2, <2>1, NthOfRank
  <2>3. QED
    BY <2>2
\* So the ring holds an end of the lines.
<1>15. PICK left \in 0..top : found = (left + 1)..top
  <2>1. CASE found = {}
    <3>1. top \in 0..top /\ (top + 1)..top = {}
      BY <1>1
    <3>2. QED
      BY <2>1, <3>1
  <2>2. CASE found # {}
    <3>1. PICK i \in found : \A j \in found : i <= j
      <4>1. found \subseteq Nat
        OBVIOUS
      <4> HIDE DEF found
      <4>2. QED
        BY <2>2, <4>1, Smallest
    <3>2. i \in 1..top /\ Rank(S, 2 * i) >= a
      BY <3>1
    <3>3. ASSUME NEW j \in i..top PROVE j \in found
      <4>1. j \in 1..top /\ (j = i \/ i < j)
        BY <3>2
      <4>2. Rank(S, 2 * j) >= Rank(S, 2 * i)
        BY <1>13, <1>14, <3>2, <4>1
      <4>3. QED
        BY <1>4, <1>14, <3>2, <4>1, <4>2
    <3>4. found = i..top
      <4>1. \A j \in found : j \in i..top
        BY <3>1, <3>2
      <4> HIDE DEF found
      <4>2. QED
        BY <3>3, <4>1
    <3>5. i - 1 \in 0..top /\ (i - 1) + 1 = i
      BY <1>52, <3>2
    <3> HIDE DEF found
    <3>6. QED
      BY <3>4, <3>5
  <2>3. QED
    BY <2>1, <2>2
<1>16. left > 0 => Len(m) = Cap
  <2> SUFFICES ASSUME left > 0 PROVE Len(m) = Cap
    OBVIOUS
  <2>1. 1 \notin found /\ 1 \in 1..top
    BY <1>1, <1>15
  <2>2. Rank(S, 2 * 1) < a /\ Rank(S, 2 * 1) >= 1 /\ Rank(S, 2 * 1) \in Nat
    BY <1>4, <1>14, <2>1
  <2>3. a > 1
    BY <1>4, <2>2
  <2>4. QED
    BY <1>4, <1>5, <2>3
<1> HIDE DEF found, g
<1>17. many = top - left /\ \A k \in 1..many : g[k] = left + k
  <2>1. \A k \in 1..many : g[k] \in (left + 1)..top
    BY <1>10, <1>15
  <2>2. \A i \in (left + 1)..top : \E k \in 1..many : g[k] = i
    BY <1>12, <1>15
  <2>3. left \in Nat /\ left <= top
    BY <1>15, <1>52
  <2>4. top \in Nat /\ many \in Nat
    BY <1>8, <1>52
  <2>5. \A k, l \in 1..many : k < l => g[k] < g[l]
    BY <1>11
  <2>6. Onto(g, many, left, top)
    BY <2>1, <2>2, <2>5, Zenon DEF Onto
  <2>7. QED
    BY <2>3, <2>4, <2>6, Counting
<1>18. At(m, J) = SubSeq(seq, left + 1, top)
  <2>1. /\ SubSeq(seq, left + 1, top) \in Seq(P)
        /\ Len(SubSeq(seq, left + 1, top)) = IF left + 1 <= top THEN top - (left + 1) + 1 ELSE 0
        /\ \A k \in 1..(top - (left + 1) + 1) :
              SubSeq(seq, left + 1, top)[k] = seq[(left + 1) + k - 1]
    <3>1. left + 1 \in Int /\ left + 1 >= 1 /\ top \in Int /\ top <= Len(seq)
      BY <1>1 DEF top
    <3>2. QED
      BY <3>1, SlicesType
  <2>2. Len(SubSeq(seq, left + 1, top)) = many
    BY <1>1, <1>17, <2>1
  <2>3. ASSUME NEW k \in 1..many PROVE At(m, J)[k] = SubSeq(seq, left + 1, top)[k]
    <3>1. k \in 1..(top - (left + 1) + 1) /\ (left + 1) + k - 1 = left + k
      BY <1>1, <1>17
    <3>2. At(m, J)[k] = seq[left + k]
      BY <1>9, <1>17
    <3>3. QED
      BY <2>1, <3>1, <3>2
  <2>4. SubSeq(seq, left + 1, top) = [k \in 1..many |-> SubSeq(seq, left + 1, top)[k]]
    BY <2>1, <2>2, LenProperties
  <2>5. QED
    BY <1>8, <2>3, <2>4
<1>19. QED
  BY <1>1, <1>5, <1>7, <1>15, <1>16, <1>18 DEF m, J, top

-----------------------------------------------------------------------------
(* DetailView: the rows that pass a filter *)

Passing(scope, level, search) == {l \in Row : l.c \in scope /\ Matches(l, level, search)}

LEMMA FoundPasses ==
    ASSUME NEW rows \in Seq(Row), NEW scope, NEW level, NEW search, NEW win,
           NEW places, places \subseteq Selected(rows, scope, level, search, win)
    PROVE  /\ places \subseteq 1..Len(rows) /\ Len(rows) \in Nat
           /\ Cardinality(places) \in Nat
           /\ \A i \in places : rows[i] \in Passing(scope, level, search)
<1>1. Len(rows) \in Nat /\ DOMAIN rows = 1..Len(rows) /\ \A i \in 1..Len(rows) : rows[i] \in Row
  BY LenProperties
<1>2. places \subseteq 1..Len(rows)
  BY <1>1 DEF Selected
<1>3. Cardinality(places) \in Nat
  <2>1. 1 \in Int /\ Len(rows) \in Int
    BY <1>1
  <2>2. IsFiniteSet(1..Len(rows)) /\ places \in SUBSET (1..Len(rows))
    BY <1>2, <2>1, FS_Interval
  <2>3. QED
    BY <2>2, FS_Subset, FS_CardinalityType
<1>4. \A i \in places : rows[i] \in Passing(scope, level, search)
  BY <1>1, <1>2 DEF Selected, Passing
<1>5. QED
  BY <1>1, <1>2, <1>3, <1>4

\* An answer consists of rows that pass the filter and fits in the ring.
LEMMA AnswerPasses ==
    ASSUME NEW rows \in Seq(Row), NEW scope, NEW level, NEW search, NEW win,
           NEW places, places \subseteq Selected(rows, scope, level, search, win),
           NEW f \in [1..Least(Cap, Cardinality(places)) -> places]
    PROVE  /\ RowsAt(rows, f) \in Seq(Passing(scope, level, search))
           /\ Len(RowsAt(rows, f)) <= Cap
<1> DEFINE n == Least(Cap, Cardinality(places))
           P == Passing(scope, level, search)
<1>1. Cardinality(places) \in Nat /\ \A i \in places : rows[i] \in P
  BY FoundPasses
<1>2. n \in Nat /\ n <= Cap
  BY <1>1, DetailNumbers DEF Least
<1>3. DOMAIN f = 1..n /\ \A i \in 1..n : f[i] \in places
  OBVIOUS
<1> HIDE DEF n, P
<1>4. \A i \in 1..n : rows[f[i]] \in P
  BY <1>1, <1>3
<1>5. RowsAt(rows, f) = [i \in 1..n |-> rows[f[i]]]
  BY <1>3 DEF RowsAt
<1>6. RowsAt(rows, f) \in [1..n -> P]
  BY <1>4, <1>5
<1>7. RowsAt(rows, f) \in Seq(P) /\ Len(RowsAt(rows, f)) = n
  BY <1>2, <1>6, SeqDef, LenProperties
<1>8. QED
  BY <1>2, <1>7 DEF P

\* IsNewest, of the whole list.
NewestOf(rows, scope, had, level, search, list) ==
    \E m \in had..Len(rows) : \E w \in Windows :
        LET places == Selected(rows, scope, level, search, Bounded(w, search)) \cap 1..m
        IN \E f \in [1..Least(Cap, Cardinality(places)) -> places] :
              NewestFirst(rows, places, f) /\ list = Reverse(RowsAt(rows, f))

Newest(rows, scope, d, list) == NewestOf(rows, scope, d.had, d.level, d.search, list)

LEMMA NewestEnd ==
    ASSUME NEW rows, NEW scope, NEW d, NEW list, NEW shown, NEW left \in Nat, Newest(rows, scope, d, list),
           left <= Len(list), shown = SubSeq(list, left + 1, Len(list))
    PROVE  IsNewest(rows, scope, d, shown, left)
<1> DEFINE Places(m, w) ==
             Selected(rows, scope, d.level, d.search, Bounded(w, d.search)) \cap 1..m
<1>1. PICK m \in d.had..Len(rows), w \in Windows :
          \E f \in [1..Least(Cap, Cardinality(Places(m, w))) -> Places(m, w)] :
             NewestFirst(rows, Places(m, w), f) /\ list = Reverse(RowsAt(rows, f))
  BY Zenon DEF Newest, NewestOf
<1>2. \E f \in [1..Least(Cap, Cardinality(Places(m, w))) -> Places(m, w)] :
         /\ NewestFirst(rows, Places(m, w), f)
         /\ left <= Len(Reverse(RowsAt(rows, f)))
         /\ shown = SubSeq(Reverse(RowsAt(rows, f)), left + 1, Len(Reverse(RowsAt(rows, f))))
  BY <1>1, Zenon
<1>3. QED
  BY <1>2, Zenon DEF IsNewest

LEMMA NewestShown ==
    ASSUME NEW rows \in Seq(Row), NEW scope, NEW d, NEW shown, Newest(rows, scope, d, shown)
    PROVE  shown \in Seq(Passing(scope, d.level, d.search)) /\ Len(shown) <= Cap
<1> DEFINE P == Passing(scope, d.level, d.search)
           Places(m, w) ==
             Selected(rows, scope, d.level, d.search, Bounded(w, d.search)) \cap 1..m
<1>1. PICK m \in d.had..Len(rows), w \in Windows :
          \E f \in [1..Least(Cap, Cardinality(Places(m, w))) -> Places(m, w)] :
             NewestFirst(rows, Places(m, w), f) /\ shown = Reverse(RowsAt(rows, f))
  BY Zenon DEF Newest, NewestOf
<1> DEFINE win == Bounded(w, d.search)
           places == Places(m, w)
<1>2. PICK f \in [1..Least(Cap, Cardinality(places)) -> places] : shown = Reverse(RowsAt(rows, f))
  BY <1>1
<1>3. places \subseteq Selected(rows, scope, d.level, d.search, win)
  OBVIOUS
<1> HIDE DEF places, P, win
<1>4. RowsAt(rows, f) \in Seq(P) /\ Len(RowsAt(rows, f)) <= Cap
  BY <1>3, AnswerPasses DEF P
<1>5. shown \in Seq(P) /\ Len(shown) = Len(RowsAt(rows, f))
  BY <1>2, <1>4, ReverseType
<1>6. QED
  BY <1>4, <1>5 DEF P

\* Rows stored later do not change what were the newest rows at an earlier moment.
LEMMA NewestStays ==
    ASSUME NEW rows \in Seq(Row), NEW more \in Seq(Row), NEW scope, NEW d, NEW shown,
           d.had \in Nat, d.had <= Len(rows), Newest(rows, scope, d, shown)
    PROVE  Newest(rows \o more, scope, d, shown)
<1> DEFINE all == rows \o more
           Old(m, w) == Selected(rows, scope, d.level, d.search, Bounded(w, d.search)) \cap 1..m
           New(m, w) == Selected(all, scope, d.level, d.search, Bounded(w, d.search)) \cap 1..m
<1>1. /\ Len(rows) \in Nat /\ Len(all) \in Nat /\ Len(rows) <= Len(all)
      /\ DOMAIN rows = 1..Len(rows) /\ DOMAIN all = 1..Len(all)
      /\ \A i \in 1..Len(rows) : all[i] = rows[i]
  <2>1. /\ Len(rows) \in Nat /\ Len(more) \in Nat /\ all \in Seq(Row)
        /\ Len(all) = Len(rows) + Len(more)
        /\ DOMAIN rows = 1..Len(rows) /\ DOMAIN all = 1..Len(all)
    BY LenProperties, ConcatProperties
  <2>2. ASSUME NEW i \in 1..Len(rows) PROVE all[i] = rows[i]
    <3>1. i \in 1..(Len(rows) + Len(more)) /\ i <= Len(rows)
      BY <2>1
    <3>2. QED
      BY <3>1, ConcatProperties
  <2>3. QED
    BY <2>1, <2>2
<1>2. PICK m \in d.had..Len(rows), w \in Windows :
          \E f \in [1..Least(Cap, Cardinality(Old(m, w))) -> Old(m, w)] :
             NewestFirst(rows, Old(m, w), f) /\ shown = Reverse(RowsAt(rows, f))
  BY Zenon DEF Newest, NewestOf
<1> DEFINE win == Bounded(w, d.search)
           places == Old(m, w)
<1>3. PICK f \in [1..Least(Cap, Cardinality(places)) -> places] :
          NewestFirst(rows, places, f) /\ shown = Reverse(RowsAt(rows, f))
  BY <1>2
<1>4. m \in d.had..Len(all) /\ m <= Len(rows)
  BY <1>1
<1>5. places \subseteq 1..Len(rows)
  BY <1>1, <1>4
<1>6. New(m, w) = places
  <2>1. ASSUME NEW i \in 1..m PROVE i \in Selected(all, scope, d.level, d.search, win)
                                      <=> i \in Selected(rows, scope, d.level, d.search, win)
    <3>1. i \in 1..Len(rows) /\ i \in 1..Len(all) /\ all[i] = rows[i]
      BY <1>1, <1>4
    <3> HIDE DEF all
    <3>2. QED
      BY <1>1, <3>1 DEF Selected
  <2>2. QED
    BY <2>1
<1> HIDE DEF all, places
<1>7. \A i \in DOMAIN f : f[i] \in places /\ all[f[i]] = rows[f[i]]
  BY <1>1, <1>5
<1>8. RowsAt(all, f) = RowsAt(rows, f)
  BY <1>7 DEF RowsAt
<1>9. NewestFirst(all, places, f)
  BY <1>1, <1>3, <1>5, <1>7 DEF NewestFirst
<1>10. QED
  <2> HIDE DEF New
  <2>1. \E g \in [1..Least(Cap, Cardinality(New(m, w))) -> New(m, w)] :
            NewestFirst(all, New(m, w), g) /\ shown = Reverse(RowsAt(all, g))
    BY <1>3, <1>6, <1>8, <1>9
  <2>2. QED
    BY <1>4, <2>1, Zenon DEF Newest, NewestOf, New, all

\* The answer to a query is the newest rows of this moment, backwards.
LEMMA AnswerNewest ==
    ASSUME NEW rows \in Seq(Row), NEW scope, NEW d, d.had \in Nat, d.had <= Len(rows),
           NEW w \in Windows, NEW win, win = Bounded(w, d.search),
           NEW f \in [1..Least(Cap, Cardinality(Selected(rows, scope, d.level, d.search, win)))
                        -> Selected(rows, scope, d.level, d.search, win)],
           NewestFirst(rows, Selected(rows, scope, d.level, d.search, win), f)
    PROVE  Newest(rows, scope, d, Reverse(RowsAt(rows, f)))
<1> DEFINE found == Selected(rows, scope, d.level, d.search, win)
           m == Len(rows)
           places == found \cap 1..m
<1>1. m \in d.had..Len(rows)
  BY LenProperties
<1>2. places = found
  BY FoundPasses
<1>3. \E g \in [1..Least(Cap, Cardinality(places)) -> places] :
          NewestFirst(rows, places, g) /\ Reverse(RowsAt(rows, f)) = Reverse(RowsAt(rows, g))
  BY <1>2
<1> HIDE DEF m
<1>4. QED
  BY <1>1, <1>3, Zenon DEF Newest, NewestOf

-----------------------------------------------------------------------------
(* DetailView: what a view shows *)

LEMMA FilterType ==
    ASSUME NEW T, NEW d, d.logs \in Seq(T)
    PROVE  FilteredData(d) \in Seq(T)
<1> DEFINE I == {i \in DOMAIN d.logs : Matches(d.logs[i], d.level, d.search)}
<1>1. I \subseteq DOMAIN d.logs /\ \A i \in DOMAIN d.logs : d.logs[i] \in T
  BY LenProperties
<1>2. FilteredData(d) = At(d.logs, I)
  BY DEF FilteredData
<1> HIDE DEF I
<1>3. QED
  BY <1>1, <1>2, AtType

\* A view of lines that all pass its filter shows them all.
LEMMA AllShown ==
    ASSUME NEW T, NEW d, d.logs \in Seq(T), \A l \in T : Matches(l, d.level, d.search)
    PROVE  FilteredData(d) = d.logs
<1> DEFINE I == {i \in DOMAIN d.logs : Matches(d.logs[i], d.level, d.search)}
<1>1. \A i \in DOMAIN d.logs : d.logs[i] \in T
  BY LenProperties
<1>2. I = DOMAIN d.logs
  BY <1>1
<1>3. FilteredData(d) = At(d.logs, DOMAIN d.logs)
  BY <1>2 DEF FilteredData
<1>4. QED
  BY <1>3, AtAll

LEMMA Unfiltered ==
    ASSUME NEW T, NEW d, d.logs \in Seq(T), ~IsSearchActive(d)
    PROVE  FilteredData(d) = d.logs
<1>1. d.level = "" /\ d.search = [re |-> FALSE, from |-> 0, to |-> 0]
  BY DEF IsSearchActive, NoSearch
<1>2. \A l \in T : Matches(l, d.level, d.search)
  <2>1. d.search.re = FALSE /\ d.search.from = 0 /\ d.search.to = 0
    <3> DEFINE none == [re |-> FALSE, from |-> 0, to |-> 0]
    <3>1. none.re = FALSE /\ none.from = 0 /\ none.to = 0
      OBVIOUS
    <3>2. QED
      BY <1>1, <3>1, Zenon
  <2>2. ~(d.search.from > 0) /\ ~(d.search.to > 0)
    BY <2>1
  <2>3. QED
    BY <1>1, <2>1, <2>2, Zenon DEF Matches
<1>3. QED
  BY <1>2, AllShown

\* The answer is merged in front of the lines, and alone into an empty view.
LEMMA MergedType ==
    ASSUME NEW T, NEW d, NEW q, d.logs \in Seq(T), q.lines \in Seq(T),
           \A l \in T : Separator(l) \in T
    PROVE  /\ Merged(d, q) \in Seq(T) /\ Len(Merged(d, q)) <= Cap
           /\ d.logs = <<>> =>
                 Merged(d, q) = Push(<<>>, InjectDeploySeparators(Reverse(q.lines)))
<1> DEFINE old == InjectDeploySeparators(Reverse(q.lines))
           I == {i \in DOMAIN old : d.logs = <<>> \/ old[i].at < d.logs[1].at}
           before == At(old, I)
           both == before \o d.logs
<1>1. old \in Seq(T)
  <2>1. Reverse(q.lines) \in Seq(T)
    BY ReverseType
  <2>2. QED
    BY <2>1, InjectType
<1> HIDE DEF old
<1>2. I \subseteq DOMAIN old /\ \A i \in I : old[i] \in T
  BY <1>1, LenProperties
<1>3. d.logs = <<>> => I = DOMAIN old
  OBVIOUS
<1> HIDE DEF I
<1>4. before \in Seq(T)
  BY <1>1, <1>2, AtType
<1>5. d.logs = <<>> => before = old
  BY <1>1, <1>3, AtAll
<1>6. Merged(d, q) = Push(<<>>, both)
  BY DEF Merged, both, before, I, old
<1> HIDE DEF before
<1>7. both \in Seq(T) /\ (d.logs = <<>> => both = before)
  BY <1>4, ConcatProperties, ConcatEmptySeq
<1> HIDE DEF both
<1>8. <<>> \in Seq(T) /\ Len(<<>>) = 0
  BY EmptySeq
<1>9. Push(<<>>, both) \in Seq(T) /\ Len(Push(<<>>, both)) <= Cap
  BY <1>7, <1>8, PushKeeps
<1>10. QED
  BY <1>5, <1>6, <1>7, <1>9 DEF old

\* The window ends scroll lines before the newest one, and is empty only then.
LEMMA WindowShape ==
    ASSUME NEW T, NEW data \in Seq(T), NEW d, d.scroll \in Nat
    PROVE  LET w == VisibleLogWindow(d, data)
           IN /\ w.start \in Nat /\ w.end \in Nat /\ w.end <= Len(data)
              /\ w.end = Most(0, Len(data) - d.scroll)
              /\ w.start <= w.end /\ (w.end > 0 => w.start < w.end)
<1> DEFINE end == Most(0, Len(data) - d.scroll)
           seen == SubSeq(data, Most(0, end - Height) + 1, end)
           days == {i \in 2..Len(seen) : Day(seen[i]) # Day(seen[i - 1])}
           slots == Most(1, Height - CountDateChanges(seen))
           start == Most(0, end - slots)
<1>1. Len(data) \in Nat
  BY LenProperties
<1>2. end \in Nat /\ end <= Len(data)
  BY <1>1 DEF Most
<1> HIDE DEF end
<1>3. Most(0, end - Height) + 1 \in Int /\ Most(0, end - Height) + 1 >= 1
  BY <1>2, DetailNumbers DEF Most
<1>4. seen \in Seq(T)
  BY <1>2, <1>3, SlicesType
<1>5. Len(seen) \in Nat
  BY <1>4, LenProperties
<1> HIDE DEF seen
<1>6. Cardinality(days) \in Nat
  <2>1. IsFiniteSet(2..Len(seen)) /\ days \subseteq 2..Len(seen)
    BY <1>5, FS_Interval
  <2> HIDE DEF days
  <2>2. QED
    BY <2>1, FS_Subset, FS_CardinalityType
<1>7. CountDateChanges(seen) \in Nat
  BY <1>6 DEF CountDateChanges
<1>8. slots \in Nat /\ slots >= 1
  BY <1>7, DetailNumbers DEF Most
<1> HIDE DEF slots
<1>9. start \in Nat /\ start <= end /\ (end > 0 => start < end)
  BY <1>2, <1>8 DEF Most
<1> HIDE DEF start
<1>10. VisibleLogWindow(d, data) = [start |-> start, end |-> end]
  BY DEF VisibleLogWindow, start, slots, seen, end
<1>11. QED
  BY <1>2, <1>9, <1>10 DEF end

\* What is visible ends with the line at the end of the window.
LEMMA LastVisible ==
    ASSUME NEW T, NEW d, d.logs \in Seq(T), d.scroll \in Nat
    PROVE  LET data == FilteredData(d)
               end == Most(0, Len(data) - d.scroll)
           IN /\ end \in Nat /\ end <= Len(data)
              /\ Len(Visible(d)) \in Nat
              /\ Visible(d) = <<>> <=> end = 0
              /\ end > 0 => Last(Visible(d)) = data[end]
<1> DEFINE data == FilteredData(d)
           w == VisibleLogWindow(d, data)
           a == w.start
           b == w.end
<1>1. data \in Seq(T)
  BY FilterType
<1>2. Visible(d) = SubSeq(data, a + 1, b)
  BY DEF Visible
<1> HIDE DEF data
<1>3. /\ a \in Nat /\ b \in Nat /\ b <= Len(data) /\ b = Most(0, Len(data) - d.scroll)
      /\ a <= b /\ (b > 0 => a < b)
  BY <1>1, WindowShape
<1> HIDE DEF a, b, w
<1>4. /\ SubSeq(data, a + 1, b) \in Seq(T)
      /\ Len(SubSeq(data, a + 1, b)) = IF a + 1 <= b THEN b - (a + 1) + 1 ELSE 0
      /\ \A i \in 1..(b - (a + 1) + 1) : SubSeq(data, a + 1, b)[i] = data[(a + 1) + i - 1]
  BY <1>1, <1>3, SlicesType
<1>5. CASE b = 0
  <2>1. SubSeq(data, a + 1, b) = <<>>
    BY <1>3, <1>5, SubSeqEmpty
  <2>2. QED
    BY <1>2, <1>3, <1>5, <2>1, EmptySeq DEF data
<1>6. CASE b > 0
  <2>1. Len(Visible(d)) = b - a /\ b - a \in Nat /\ b - a > 0
    BY SMTT(30), <1>2, <1>3, <1>4, <1>6
  <2>2. Visible(d) # <<>>
    BY <2>1, EmptySeq
  <2>3. Visible(d)[b - a] = data[b]
    <3>1. b - a \in 1..(b - (a + 1) + 1) /\ (a + 1) + (b - a) - 1 = b
      BY <1>3, <2>1
    <3>2. QED
      BY <1>2, <1>4, <3>1
  <2>4. Last(Visible(d)) = data[b]
    BY <2>1, <2>3 DEF Last
  <2>5. QED
    BY <1>3, <1>6, <2>1, <2>2, <2>4 DEF data
<1>7. QED
  BY <1>3, <1>5, <1>6

-----------------------------------------------------------------------------
(* DetailView: DetailInv, view by view and query by query *)

OfScope(scope) == {l \in Line : l.c \in scope}

\* A filtered view shows an end of a list, and all of it unless its ring is full.
EndsAfter(d, list, left) ==
    /\ ShownRows(d) = SubSeq(list, left + 1, Len(list))
    /\ left > 0 => Len(d.logs) = Cap

ShowsEnd(d, list) == \E left \in 0..Len(list) : EndsAfter(d, list, left)

LEMMA EndShown ==
    ASSUME NEW d, NEW list,
           \E left \in 0..Len(list) : /\ ShownRows(d) = SubSeq(list, left + 1, Len(list))
                                      /\ left > 0 => Len(d.logs) = Cap
    PROVE  ShowsEnd(d, list)
<1>1. PICK left \in 0..Len(list) : /\ ShownRows(d) = SubSeq(list, left + 1, Len(list))
                                   /\ left > 0 => Len(d.logs) = Cap
  OBVIOUS
<1>2. EndsAfter(d, list, left)
  BY <1>1, Zenon DEF EndsAfter
<1>3. QED
  BY <1>2, Zenon DEF ShowsEnd

ViewGood(s, d, rows, k) ==
    /\ d \in Viewed /\ Len(d.logs) <= Cap /\ d.target \in DOMAIN Live[s] \union {None}
    /\ ~d.stray => d.logs \in Seq(OfScope(Scope[s][d.target]))
    /\ d.pending => ~d.backfilled
    /\ d.stray => d.backfilled
    /\ d.target = None => d.logs = <<>> /\ ~IsSearchActive(d)
    /\ IsSearchActive(d) /\ ~d.backfilled => d.logs = <<>>
    /\ IsSearchActive(d) /\ d.backfilled /\ d.took = d.asked /\ d.took # 0 =>
          \E list : Newest(rows, Scope[s][d.target], d, list) /\ ShowsEnd(d, list)
    /\ d.asked <= k /\ d.had <= Len(rows)

AskedOf(q, s, d, rows) ==
    /\ q.srv = s /\ q.tgt = d.target
    /\ IsSearchActive(d) =>
          /\ q.kind = "search"
          /\ q.at # "fired" => /\ q.scope = Scope[s][d.target]
                               /\ q.level = d.level /\ q.search = d.search
                               /\ \E w \in Windows : q.win = Bounded(w, d.search)
          /\ q.at = "answered" => Newest(rows, Scope[s][d.target], d, Reverse(q.lines))

QueryGood(q, ds, rows, k) ==
    /\ q \in Queried /\ q.tgt \in DOMAIN Live[q.srv] /\ ds[q.srv].target # None
    /\ q.at # "answered" => q.lines = <<>>
    /\ q.at = "sent" /\ ~q.late => q.scope = Scope[q.srv][q.tgt]
    /\ ~q.late => q.lines \in Seq(OfScope(Scope[q.srv][q.tgt]))
    /\ q.n \in 1..k
    /\ \A s \in Sessions : q.n = ds[s].asked => AskedOf(q, s, ds[s], rows[s])

DetailRest ==
    /\ lines \in Nat /\ keys \in Nat /\ fails \in Nat
    /\ batch \in [Container -> Seq(Row)] /\ logs \in [Sessions -> Seq(Row)]
    /\ wire \in [Sessions -> Seq(Row)]
    /\ sub \in [Sessions -> Target \union {None}] /\ det \in [Sessions -> Viewed]
    /\ view \in {"dashboard", "alerts", "detail"} /\ active \in Sessions

ShownGood == InDetail => det[active].target # None /\ (det[active].pending => queries # {})
ViewsGood == \A s \in Sessions : ViewGood(s, det[s], logs[s], keys)
QueriesGood == \A q \in queries : QueryGood(q, det, logs, keys)

DetailGood == DetailRest /\ ShownGood /\ ViewsGood /\ QueriesGood

LEMMA DetailGoodIsInv == DetailGood => DetailInv
<1> SUFFICES ASSUME DetailGood PROVE DetailInv
  OBVIOUS
<1> USE DEF DetailGood
<1>1. DetailTypeOK
  <2>1. queries \subseteq Queried
    BY DEF QueriesGood, QueryGood
  <2>2. \A s \in Sessions :
           Len(det[s].logs) <= Cap /\ det[s].target \in DOMAIN Live[s] \union {None}
    BY DEF ViewsGood, ViewGood
  <2>3. QED
    BY <2>1, <2>2 DEF DetailRest, DetailTypeOK
<1>2. RightTarget
  <2> SUFFICES ASSUME NEW s \in Sessions, ~det[s].stray, NEW i \in DOMAIN det[s].logs
               PROVE  det[s].logs[i].c \in Scope[s][det[s].target]
    BY DEF RightTarget
  <2>1. det[s].logs \in Seq(OfScope(Scope[s][det[s].target]))
    BY DEF ViewsGood, ViewGood
  <2>2. det[s].logs[i] \in OfScope(Scope[s][det[s].target])
    BY <2>1, LenProperties
  <2>3. QED
    BY <2>2 DEF OfScope
<1>3. FilterExact
  <2> SUFFICES ASSUME NEW s \in Sessions, IsSearchActive(det[s]), det[s].backfilled,
                      det[s].took = det[s].asked, det[s].took # 0
               PROVE  \E left \in 0..Cap :
                         /\ IsNewest(logs[s], Scope[s][det[s].target], det[s], ShownRows(det[s]), left)
                         /\ left > 0 => Len(det[s].logs) = Cap
    BY Zenon DEF FilterExact
  <2> DEFINE d == det[s]
             rows == logs[s]
             scope == Scope[s][d.target]
  <2>1. PICK list : Newest(rows, scope, d, list) /\ ShowsEnd(d, list)
    BY Zenon DEF ViewsGood, ViewGood
  <2>2. rows \in Seq(Row)
    BY DEF DetailRest
  <2> HIDE DEF rows, scope, d
  <2>3. Len(list) <= Cap /\ Len(list) \in Nat
    <3>1. list \in Seq(Passing(scope, d.level, d.search)) /\ Len(list) <= Cap
      BY <2>1, <2>2, NewestShown
    <3>2. QED
      BY <3>1, LenProperties
  <2>4. PICK left \in 0..Len(list) : EndsAfter(d, list, left)
    BY <2>1, Zenon DEF ShowsEnd
  <2>5. left \in 0..Cap /\ left <= Len(list) /\ left \in Nat
    BY <2>3, DetailNumbers
  <2> DEFINE shown == ShownRows(d)
             full == Len(d.logs) = Cap
  <2>6. shown = SubSeq(list, left + 1, Len(list)) /\ (left > 0 => full)
    BY <2>4, Zenon DEF EndsAfter
  <2> HIDE DEF shown, full
  <2>7. IsNewest(rows, scope, d, shown, left)
    BY <2>1, <2>5, <2>6, NewestEnd
  <2>8. \E x \in 0..Cap : IsNewest(rows, scope, d, shown, x) /\ (x > 0 => full)
    BY <2>5, <2>6, <2>7
  <2>9. QED
    BY <2>8, Zenon DEF rows, scope, d, shown, full
<1>4. LoadingIsAwaited
  BY Zenon DEF LoadingIsAwaited, ShownGood
<1>5. Loading
  BY Zenon DEF Loading, ViewsGood, ViewGood
<1>6. Opened
  BY Zenon DEF Opened, ShownGood, QueriesGood, QueryGood
<1>7. Scoped
  <2> SUFFICES ASSUME NEW q \in queries
               PROVE  /\ q.at # "answered" => q.lines = <<>>
                      /\ q.at = "sent" /\ ~q.late => q.scope = Scope[q.srv][q.tgt]
                      /\ ~q.late => \A i \in DOMAIN q.lines : q.lines[i].c \in Scope[q.srv][q.tgt]
    BY Zenon DEF Scoped
  <2>1. QueryGood(q, det, logs, keys)
    BY DEF QueriesGood
  <2>2. ASSUME ~q.late, NEW i \in DOMAIN q.lines PROVE q.lines[i].c \in Scope[q.srv][q.tgt]
    <3>1. q.lines \in Seq(OfScope(Scope[q.srv][q.tgt]))
      BY <2>1, <2>2, Zenon DEF QueryGood
    <3>2. q.lines[i] \in OfScope(Scope[q.srv][q.tgt])
      BY <3>1, LenProperties
    <3>3. QED
      BY <3>2 DEF OfScope
  <2>3. QED
    BY <2>1, <2>2, Zenon DEF QueryGood
<1>8. Asked
  <2>1. \A s \in Sessions : det[s].asked <= keys /\ det[s].had <= Len(logs[s])
    BY Zenon DEF ViewsGood, ViewGood
  <2>2. ASSUME NEW q \in queries
        PROVE  /\ q.n \in 1..keys
               /\ \A s \in Sessions : q.n = det[s].asked => AskedOf(q, s, det[s], logs[s])
    BY Zenon DEF QueriesGood, QueryGood
  <2>3. ASSUME NEW q \in queries, NEW s \in Sessions, q.n = det[s].asked,
               IsSearchActive(det[s]), q.at = "answered"
        PROVE  IsNewest(logs[s], Scope[s][det[s].target], det[s], Reverse(q.lines), 0)
    <3> DEFINE back == Reverse(q.lines)
    <3>1. Newest(logs[s], Scope[s][det[s].target], det[s], back)
      BY <2>2, <2>3, Zenon DEF AskedOf
    <3>2. q.lines \in Seq(Row)
      BY DEF QueriesGood, QueryGood, Queried
    <3>3. back \in Seq(Row)
      BY <3>2, ReverseType
    <3> HIDE DEF back
    <3>4. Len(back) \in Nat
      BY <3>3, LenProperties
    <3>5. SubSeq(back, 0 + 1, Len(back)) = back /\ 0 <= Len(back)
      BY <3>3, <3>4, SubSeqFull
    <3>6. IsNewest(logs[s], Scope[s][det[s].target], det[s], back, 0)
      BY <3>1, <3>5, NewestEnd
    <3>7. QED
      BY <3>6 DEF back
  <2>4. QED
    BY <2>1, <2>2, <2>3, Zenon DEF Asked, AskedOf
<1>9. QED
  BY <1>1, <1>2, <1>3, <1>4, <1>5, <1>6, <1>7, <1>8 DEF DetailInv, ViewsRight

LEMMA SeqOfScope ==
    ASSUME NEW scope, NEW seq \in Seq(OfScope(scope))
    PROVE  seq \in Seq(Line)
<1>1. OfScope(scope) \subseteq Line
  BY DEF OfScope
<1>2. QED
  BY <1>1, SeqMonotonic

LEMMA ScopeSeparated ==
    ASSUME NEW scope
    PROVE  /\ \A l \in OfScope(scope) : Separator(l) \in OfScope(scope)
           /\ \A l \in Line : Separator(l) \in Line
           /\ Row \subseteq Line
<1>1. \A l \in Line : Separator(l) \in Line /\ Separator(l).c = l.c
  BY SeparatorIs
<1>2. QED
  BY <1>1 DEF OfScope, Row

\* What a key or a streamed line for another view does not touch.
SameView(d, e) ==
    /\ e.target = d.target /\ e.logs = d.logs /\ e.backfilled = d.backfilled
    /\ e.level = d.level /\ e.search = d.search /\ e.asked = d.asked /\ e.took = d.took
    /\ e.had = d.had /\ e.stray = d.stray

LEMMA ViewStays ==
    ASSUME NEW s, NEW d, NEW e, NEW rows, NEW k \in Nat, NEW m \in Nat, k <= m,
           ViewGood(s, d, rows, k), SameView(d, e), e \in Viewed, e.pending => ~e.backfilled
    PROVE  ViewGood(s, e, rows, m)
<1>1. e.asked <= m
  <2>1. e.asked \in Nat /\ e.asked <= k
    BY DEF ViewGood, SameView, Viewed
  <2>2. QED
    BY <2>1
<1>2. ShownRows(e) = ShownRows(d) /\ (IsSearchActive(e) <=> IsSearchActive(d))
  BY Zenon DEF SameView, ShownRows, IsSearchActive
<1>3. \A scope, list : /\ Newest(rows, scope, d, list) => Newest(rows, scope, e, list)
                       /\ ShowsEnd(d, list) => ShowsEnd(e, list)
  BY <1>2, Zenon DEF SameView, Newest, ShowsEnd, EndsAfter
<1>4. QED
  BY <1>1, <1>2, <1>3, Zenon DEF ViewGood, SameView

\* The question that a view asks, and the views that a query outlives.
SameQuestion(d, e) ==
    /\ e.target = d.target /\ e.level = d.level /\ e.search = d.search
    /\ e.asked = d.asked /\ e.had = d.had

Follows(d, e, k) ==
    /\ d.target # None => e.target # None
    /\ SameQuestion(d, e) \/ e.asked \notin 1..k

LEMMA SameAsked ==
    ASSUME NEW q, NEW s, NEW d, NEW e, NEW rows, AskedOf(q, s, d, rows), SameQuestion(d, e)
    PROVE  AskedOf(q, s, e, rows)
<1>1. IsSearchActive(e) <=> IsSearchActive(d)
  BY Zenon DEF SameQuestion, IsSearchActive
<1>2. \A scope, shown : Newest(rows, scope, d, shown) => Newest(rows, scope, e, shown)
  BY Zenon DEF SameQuestion, Newest
<1>3. QED
  BY <1>1, <1>2, Zenon DEF AskedOf, SameQuestion

LEMMA QueryStays ==
    ASSUME NEW q, NEW ds, NEW es, NEW rows, NEW k \in Nat, NEW m \in Nat, k <= m,
           QueryGood(q, ds, rows, k), \A s \in Sessions : Follows(ds[s], es[s], k)
    PROVE  QueryGood(q, es, rows, m)
<1>1. q.n \in 1..k /\ q \in Queried /\ q.srv \in Sessions
  BY DEF QueryGood, Queried
<1>2. q.n \in 1..m
  BY <1>1
<1>3. es[q.srv].target # None
  BY <1>1, Zenon DEF QueryGood, Follows
<1>4. ASSUME NEW s \in Sessions, q.n = es[s].asked PROVE AskedOf(q, s, es[s], rows[s])
  <2>1. SameQuestion(ds[s], es[s])
    BY <1>1, <1>4, Zenon DEF Follows
  <2>2. AskedOf(q, s, ds[s], rows[s])
    BY <1>4, <2>1, Zenon DEF QueryGood, SameQuestion
  <2>3. QED
    BY <2>1, <2>2, SameAsked
<1>5. QED
  BY <1>1, <1>2, <1>3, <1>4, Zenon DEF QueryGood

LEMMA TargetsKnown ==
    ASSUME NEW s \in Sessions, NEW t \in DOMAIN Live[s]
    PROVE  /\ t \in Target /\ t # None /\ Live[s][t] \subseteq Scope[s][t]
           /\ Scope[s][t] \subseteq Container
<1>1. /\ DOMAIN Live[s] \subseteq Target
      /\ Live[s][t] \subseteq Scope[s][t] /\ Scope[s][t] \subseteq Container
  BY DetailAssumption
<1>2. None \notin Target
  BY DetailNumbers
<1>3. QED
  BY <1>1, <1>2

\* A streamed line is appended to an unfiltered view that takes its container.
LEMMA ViewStreamed ==
    ASSUME NEW s \in Sessions, NEW d, NEW live, NEW line \in Line, NEW rows, NEW k,
           ViewGood(s, d, rows, k), d.target # None => live = Live[s][d.target]
    PROVE  ViewGood(s, OnStreamEntry(d, live, line), rows, k)
<1> DEFINE e == OnStreamEntry(d, live, line)
<1>1. CASE d.target = None \/ line.c \notin live \/ IsSearchActive(d)
  <2>1. e = d
    BY <1>1 DEF OnStreamEntry
  <2>2. QED
    BY <2>1
<1>2. CASE d.target # None /\ line.c \in live /\ ~IsSearchActive(d)
  <2> DEFINE more == <<line>>
             scope == Scope[s][d.target]
  <2>1. e = [d EXCEPT !.logs = Push(d.logs, more), !.scroll = IF d.paused THEN @ + 1 ELSE @]
    BY <1>2 DEF OnStreamEntry
  <2>2. d \in Viewed /\ d.target \in DOMAIN Live[s]
    BY <1>2 DEF ViewGood
  <2>3. line \in OfScope(scope)
    <3>1. Live[s][d.target] \subseteq scope
      BY <2>2, TargetsKnown
    <3>2. QED
      BY <1>2, <3>1 DEF OfScope
  <2>4. d.logs \in Seq(Line) /\ more \in Seq(Line)
    BY <2>2 DEF Viewed
  <2>5. more \in Seq(OfScope(scope))
    BY <2>3
  <2> HIDE DEF more
  <2>6. Push(d.logs, more) \in Seq(Line) /\ Len(Push(d.logs, more)) <= Cap
    BY <2>4, PushKeeps
  <2>7. ~d.stray => Push(d.logs, more) \in Seq(OfScope(scope))
    <3>1. SUFFICES ASSUME ~d.stray PROVE Push(d.logs, more) \in Seq(OfScope(scope))
      OBVIOUS
    <3>2. d.logs \in Seq(OfScope(scope))
      BY <3>1, Zenon DEF ViewGood
    <3>3. QED
      BY <2>5, <3>2, PushKeeps
  <2> DEFINE p == Push(d.logs, more)
  <2> HIDE DEF p
  <2>8. e = [d EXCEPT !.logs = p, !.scroll = IF d.paused THEN @ + 1 ELSE @]
    BY <2>1 DEF p
  <2> HIDE DEF e
  <2>9. e \in Viewed /\ e.logs = p
    <3> DEFINE sc == IF d.paused THEN d.scroll + 1 ELSE d.scroll
    <3>1. sc \in Nat
      BY <2>2 DEF Viewed
    <3>2. e = [d EXCEPT !.logs = p, !.scroll = sc]
      BY <2>8
    <3>3. p \in Seq(Line)
      BY <2>6 DEF p
    <3> HIDE DEF sc
    <3>4. QED
      BY <2>2, <3>1, <3>2, <3>3 DEF Viewed
  <2>10. /\ e.target = d.target /\ e.stray = d.stray /\ e.pending = d.pending
         /\ e.backfilled = d.backfilled /\ e.level = d.level /\ e.search = d.search
         /\ e.asked = d.asked /\ e.had = d.had
    BY <2>2, <2>8 DEF Viewed
  <2>11. ~IsSearchActive(e)
    BY <1>2, <2>10, Zenon DEF IsSearchActive
  <2>12. e.target # None
    BY <1>2, <2>10
  <2>13. Len(e.logs) <= Cap /\ (~e.stray => e.logs \in Seq(OfScope(Scope[s][e.target])))
    BY <2>6, <2>7, <2>9, <2>10, Zenon DEF p
  <2>14. ViewGood(s, e, rows, k)
    BY <2>9, <2>10, <2>11, <2>12, <2>13, Zenon DEF ViewGood
  <2>15. QED
    BY <2>14 DEF e
<1>3. QED
  BY <1>1, <1>2

\* Rows stored later change neither a view nor a query.
LEMMA ViewStored ==
    ASSUME NEW s, NEW d, NEW rows \in Seq(Row), NEW more \in Seq(Row), NEW k,
           ViewGood(s, d, rows, k)
    PROVE  ViewGood(s, d, rows \o more, k)
<1>1. Len(rows) \in Nat /\ Len(more) \in Nat /\ Len(rows \o more) = Len(rows) + Len(more)
  BY LenProperties, ConcatProperties
<1>2. d.had \in Nat /\ d.had <= Len(rows)
  BY DEF ViewGood, Viewed
<1>3. d.had <= Len(rows \o more)
  BY <1>1, <1>2
<1>4. \A scope, shown : Newest(rows, scope, d, shown) => Newest(rows \o more, scope, d, shown)
  BY <1>2, NewestStays
<1>5. QED
  BY <1>3, <1>4, Zenon DEF ViewGood

LEMMA QueryStored ==
    ASSUME NEW q, NEW ds, NEW rows, NEW grown, NEW k, QueryGood(q, ds, rows, k),
           \A s \in Sessions : /\ rows[s] \in Seq(Row)
                               /\ ds[s].had \in Nat /\ ds[s].had <= Len(rows[s])
                               /\ \E more \in Seq(Row) : grown[s] = rows[s] \o more
    PROVE  QueryGood(q, ds, grown, k)
<1>1. ASSUME NEW s \in Sessions, AskedOf(q, s, ds[s], rows[s]) PROVE AskedOf(q, s, ds[s], grown[s])
  <2>1. PICK more \in Seq(Row) : grown[s] = rows[s] \o more
    OBVIOUS
  <2>2. /\ rows[s] \in Seq(Row) /\ ds[s].had \in Nat /\ ds[s].had <= Len(rows[s])
    OBVIOUS
  <2> DEFINE d == ds[s]
             r == rows[s]
  <2> HIDE DEF d, r
  <2>3. \A scope, shown : Newest(r, scope, d, shown) => Newest(r \o more, scope, d, shown)
    <3>1. r \in Seq(Row) /\ d.had \in Nat /\ d.had <= Len(r)
      BY <2>2 DEF d, r
    <3>2. QED
      BY <3>1, NewestStays
  <2>4. AskedOf(q, s, d, r) => AskedOf(q, s, d, r \o more)
    BY <2>3, Zenon DEF AskedOf
  <2>5. QED
    BY <1>1, <2>1, <2>4 DEF d, r
<1>2. QED
  BY <1>1, Zenon DEF QueryGood

\* The keys that scroll move only the cursor, the scroll and the pause.
LEMMA FilteredLength ==
    ASSUME NEW d \in Viewed
    PROVE  Len(FilteredData(d)) \in Nat /\ Len(Visible(d)) \in Nat
<1>1. d.logs \in Seq(Line) /\ d.scroll \in Nat
  BY DEF Viewed
<1>2. FilteredData(d) \in Seq(Line)
  BY <1>1, FilterType
<1>3. Len(Visible(d)) \in Nat
  BY <1>1, LastVisible
<1>4. Len(FilteredData(d)) \in Nat
  BY <1>2, LenProperties
<1>5. QED
  BY <1>3, <1>4

Positioned(d, e) ==
    \E sc \in Nat, cu \in Nat, pa \in BOOLEAN :
        e = [d EXCEPT !.scroll = sc, !.cursor = cu, !.paused = pa]

LEMMA PositionedView ==
    ASSUME NEW d \in Viewed, NEW e, Positioned(d, e)
    PROVE  e \in Viewed /\ SameView(d, e) /\ e.pending = d.pending
<1>1. PICK sc \in Nat, cu \in Nat, pa \in BOOLEAN :
          e = [d EXCEPT !.scroll = sc, !.cursor = cu, !.paused = pa]
  BY Zenon DEF Positioned
<1>2. e \in Viewed
  BY <1>1 DEF Viewed
<1>3. SameView(d, e) /\ e.pending = d.pending
  BY <1>1 DEF Viewed, SameView
<1>4. QED
  BY <1>2, <1>3

LEMMA MovedPositions ==
    ASSUME NEW d \in Viewed, NEW key \in {"j", "k", "ctrl+d", "ctrl+u", "gg", "G"}
    PROVE  Positioned(d, Moved(d, key))
<1> DEFINE len == Len(FilteredData(d))
           visible == Len(Visible(d))
           max == MaxScroll(FilteredData(d))
           half == Most(1, visible \div 2)
           held == [d EXCEPT !.paused = TRUE]
<1>1. len \in Nat /\ visible \in Nat
  BY FilteredLength
<1>2. max \in Nat
  BY <1>1, DetailNumbers DEF MaxScroll, Most
<1>3. half \in Nat
  <2>1. visible \div 2 \in Int
    BY <1>1
  <2>2. QED
    BY <2>1 DEF Most
<1>4. d.scroll \in Nat /\ d.cursor \in Nat /\ d.paused \in BOOLEAN
  BY DEF Viewed
<1>5. ASSUME NEW m \in Viewed, Positioned(d, m) PROVE Positioned(d, ResumedAt(m, visible))
  <2>1. CASE ResumedAt(m, visible) = m
    BY <1>5, <2>1
  <2>2. CASE ResumedAt(m, visible) = ResetLogPosition(m)
    <3> DEFINE cu == Most(0, Len(FilteredData(m)) - 1)
    <3>1. cu \in Nat
      BY <1>5, FilteredLength DEF Most
    <3>2. ResetLogPosition(m) = [m EXCEPT !.scroll = 0, !.paused = FALSE, !.cursor = cu]
      BY DEF ResetLogPosition
    <3> HIDE DEF cu
    <3>3. PICK sc \in Nat, c \in Nat, pa \in BOOLEAN :
              m = [d EXCEPT !.scroll = sc, !.cursor = c, !.paused = pa]
      BY <1>5, Zenon DEF Positioned
    <3>4. ResetLogPosition(m) = [d EXCEPT !.scroll = 0, !.cursor = cu, !.paused = FALSE]
      BY <3>2, <3>3 DEF Viewed
    <3>5. QED
      BY <2>2, <3>1, <3>4 DEF Positioned
  <2>3. QED
    BY <2>1, <2>2 DEF ResumedAt
<1>6. ASSUME NEW n \in Nat PROVE Positioned(d, StepUp(held, max, n))
  <2> DEFINE up == Least(n, d.cursor)
             cu == d.cursor - up
             sc == Most(d.scroll, Least(max, d.scroll + n - up))
  <2>1. up \in Nat /\ cu \in Nat /\ sc \in Nat
    BY <1>2, <1>4 DEF Least, Most
  <2>2. StepUp(held, max, n) = [d EXCEPT !.scroll = sc, !.cursor = cu, !.paused = TRUE]
    <3>1. held.cursor = d.cursor /\ held.scroll = d.scroll
      BY DEF Viewed
    <3>2. StepUp(held, max, n) = [held EXCEPT !.cursor = cu, !.scroll = sc]
      BY <3>1 DEF StepUp
    <3> HIDE DEF cu, sc
    <3>3. QED
      BY <3>2 DEF Viewed
  <2> HIDE DEF up, cu, sc
  <2>3. QED
    BY <2>1, <2>2 DEF Positioned
<1>7. Positioned(d, StepDown(d, visible, half))
  <2> DEFINE down == Least(half, Most(0, visible - 1 - d.cursor))
             cu == d.cursor + down
             sc == Most(0, d.scroll - (half - down))
  <2> HIDE DEF half, visible
  <2>1. down \in Nat /\ cu \in Nat /\ sc \in Nat
    BY <1>1, <1>3, <1>4 DEF Least, Most
  <2>2. StepDown(d, visible, half) = [d EXCEPT !.cursor = cu, !.scroll = sc]
    BY DEF StepDown
  <2> HIDE DEF down, cu, sc
  <2>3. StepDown(d, visible, half) = [d EXCEPT !.scroll = sc, !.cursor = cu, !.paused = d.paused]
    BY <2>2 DEF Viewed
  <2>4. Positioned(d, StepDown(d, visible, half))
    BY <1>4, <2>1, <2>3 DEF Positioned
  <2>5. QED
    BY <2>4 DEF half, visible
<1>8. ASSUME NEW m, Positioned(d, m) PROVE m \in Viewed
  BY <1>8, PositionedView
<1>9. Positioned(d, d)
  <2>1. d = [d EXCEPT !.scroll = d.scroll, !.cursor = d.cursor, !.paused = d.paused]
    BY DEF Viewed
  <2>2. QED
    BY <1>4, <2>1 DEF Positioned
<1>10. CASE key = "j"
  <2> DEFINE next == [d EXCEPT !.cursor = @ + 1]
             m == IF d.cursor < visible - 1 THEN next ELSE d
  <2>1. Positioned(d, next)
    <3>1. next = [d EXCEPT !.scroll = d.scroll, !.cursor = d.cursor + 1, !.paused = d.paused]
      BY DEF Viewed
    <3>2. d.cursor + 1 \in Nat
      BY <1>4
    <3>3. QED
      BY <1>4, <3>1, <3>2 DEF Positioned
  <2>2. Moved(d, key) = ResumedAt(m, visible)
    BY <1>10 DEF Moved
  <2>3. Positioned(d, m)
    BY <1>9, <2>1
  <2> HIDE DEF m
  <2>4. QED
    BY <1>5, <1>8, <2>2, <2>3
<1>11. CASE key = "k"
  <2>1. Moved(d, key) = StepUp(held, max, 1)
    BY <1>11 DEF Moved
  <2>2. QED
    BY <1>6, <2>1
<1>12. CASE key = "ctrl+d"
  <2> DEFINE m == StepDown(d, visible, half)
  <2>1. Moved(d, key) = IF m.scroll = 0 THEN ResumedAt(m, visible) ELSE m
    BY <1>12 DEF Moved
  <2>2. QED
    BY <1>5, <1>7, <1>8, <2>1
<1>13. CASE key = "ctrl+u"
  <2>1. Moved(d, key) = StepUp(held, max, half)
    BY <1>13 DEF Moved
  <2>2. QED
    BY <1>3, <1>6, <2>1
<1>14. CASE key = "gg"
  <2>1. Moved(d, key) = [d EXCEPT !.scroll = max, !.cursor = 0, !.paused = TRUE]
    BY <1>14 DEF Moved
  <2>2. QED
    BY <1>2, <2>1 DEF Positioned
<1>15. CASE key = "G"
  <2> DEFINE cu == IF FilteredData(d) = <<>> THEN d.cursor ELSE len - 1
  <2>1. cu \in Nat
    <3>1. FilteredData(d) \in Seq(Line)
      BY FilterType DEF Viewed
    <3>2. FilteredData(d) # <<>> => len - 1 \in Nat
      BY <3>1, EmptySeq
    <3>3. QED
      BY <1>4, <3>2
  <2>2. Moved(d, key) = [d EXCEPT !.scroll = 0, !.cursor = cu, !.paused = FALSE]
    BY <1>15 DEF Moved
  <2> HIDE DEF cu
  <2>3. QED
    BY <2>1, <2>2 DEF Positioned
<1>16. QED
  BY <1>10, <1>11, <1>12, <1>13, <1>14, <1>15

\* An answer that is taken: merged into a view that had none, and alone into a
\* filtered one.
LEMMA ViewAnswered ==
    ASSUME NEW s \in Sessions, NEW d, NEW q, NEW ds, NEW rows, NEW k, s = active,
           ViewGood(s, d, rows[s], k), QueryGood(q, ds, rows, k), ds[s] = d,
           q.at \in {"answered", "failed"}, rows[s] \in Seq(Row)
    PROVE  ViewGood(s, HandleBackfill(d, q), rows[s], k)
<1> DEFINE f == HandleBackfill(d, q)
           scope == Scope[s][d.target]
<1>1. d \in Viewed /\ q \in Queried /\ q.lines \in Seq(Row) /\ d.logs \in Seq(Line)
  BY DEF ViewGood, QueryGood, Viewed, Queried
<1>6. q.lines \in Seq(Line)
  BY <1>1, ScopeSeparated, SeqMonotonic
<1>2. CASE d.backfilled \/ d.target = None
  <2>1. f = [d EXCEPT !.pending = FALSE, !.backfilled = TRUE]
    BY <1>2 DEF HandleBackfill
  <2> HIDE DEF f
  <2>2. f \in Viewed
    BY <1>1, <2>1 DEF Viewed
  <2>3. /\ f.target = d.target /\ f.logs = d.logs /\ f.level = d.level /\ f.search = d.search
        /\ f.asked = d.asked /\ f.took = d.took /\ f.had = d.had /\ f.stray = d.stray
        /\ f.pending = FALSE /\ f.backfilled = TRUE
    BY <1>1, <2>1 DEF Viewed
  <2>4. ShownRows(f) = ShownRows(d) /\ (IsSearchActive(f) <=> IsSearchActive(d))
    BY <2>3, Zenon DEF ShownRows, IsSearchActive
  <2>5. \A sc, list : /\ Newest(rows[s], sc, d, list) => Newest(rows[s], sc, f, list)
                      /\ ShowsEnd(d, list) => ShowsEnd(f, list)
    <3>1. \A sc, list : Newest(rows[s], sc, d, list) => Newest(rows[s], sc, f, list)
      BY <2>3, Zenon DEF Newest
    <3>2. \A list : ShowsEnd(d, list) => ShowsEnd(f, list)
      BY <2>3, <2>4, Zenon DEF ShowsEnd, EndsAfter
    <3>3. QED
      BY <3>1, <3>2
  <2>6. ViewGood(s, f, rows[s], k)
    BY <1>2, <2>2, <2>3, <2>4, <2>5, Zenon DEF ViewGood
  <2>7. QED
    BY <2>6 DEF f
<1>3. CASE ~(d.backfilled \/ d.target = None) /\ ~IsFor(q, d)
  <2>1. f = [d EXCEPT !.pending = FALSE]
    BY <1>3 DEF HandleBackfill
  <2> HIDE DEF f
  <2>2. f \in Viewed
    BY <1>1, <2>1 DEF Viewed
  <2>3. /\ f.target = d.target /\ f.logs = d.logs /\ f.level = d.level /\ f.search = d.search
        /\ f.asked = d.asked /\ f.took = d.took /\ f.had = d.had /\ f.stray = d.stray
        /\ f.pending = FALSE /\ f.backfilled = d.backfilled
    BY <1>1, <2>1 DEF Viewed
  <2>4. IsSearchActive(f) <=> IsSearchActive(d)
    BY <2>3, Zenon DEF IsSearchActive
  <2>5. ViewGood(s, f, rows[s], k)
    BY <1>3, <2>2, <2>3, <2>4, Zenon DEF ViewGood
  <2>6. QED
    BY <2>5 DEF f
<1>4. CASE ~d.backfilled /\ d.target # None /\ IsFor(q, d)
  <2> DEFINE m == Merged(d, q)
             stray == q.late \/ q.srv # active
             took == IF q.at = "failed" THEN 0 ELSE q.n
             e == [d EXCEPT !.pending = FALSE, !.backfilled = TRUE, !.stray = stray, !.took = took]
             cu == IF m = <<>> THEN d.cursor ELSE Len(m) - 1
  <2>1. f = IF q.lines = <<>> THEN e ELSE [e EXCEPT !.logs = m, !.cursor = cu]
    BY <1>1, <1>4 DEF HandleBackfill, Viewed
  <2>2. q.tgt = d.target
    BY <1>4 DEF IsFor
  <2>3. ~d.stray
    BY <1>4, Zenon DEF ViewGood
  <2>4. d.logs \in Seq(OfScope(scope))
    BY <2>3, Zenon DEF ViewGood
  <2>5. m \in Seq(Line) /\ Len(m) <= Cap
    BY <1>1, <1>6, MergedType, ScopeSeparated
  <2>6. ~stray => m \in Seq(OfScope(scope))
    <3>1. SUFFICES ASSUME ~stray PROVE m \in Seq(OfScope(scope))
      OBVIOUS
    <3>2. ~q.late /\ q.srv = s
      BY <3>1
    <3>3. q.lines \in Seq(OfScope(scope))
      BY <2>2, <3>2, Zenon DEF QueryGood
    <3>4. QED
      BY <2>4, <3>3, MergedType, ScopeSeparated
  <2>7. IsSearchActive(d) => d.logs = <<>>
    BY <1>4, Zenon DEF ViewGood
  <2>8. took \in Nat /\ stray \in BOOLEAN
    BY <1>1 DEF Queried
  <2>9. cu \in Nat
    <3>1. m # <<>> => Len(m) - 1 \in Nat
      BY <2>5, EmptySeq
    <3>2. QED
      BY <1>1, <3>1 DEF Viewed
  <2> HIDE DEF stray, cu
  \* The lines of the new view, and its other fields.
  <2> DEFINE shown == IF q.lines = <<>> THEN d.logs ELSE m
  <2>10. /\ f \in Viewed /\ f.logs = shown
         /\ f.target = d.target /\ f.level = d.level /\ f.search = d.search
         /\ f.asked = d.asked /\ f.took = took /\ f.had = d.had /\ f.stray = stray
         /\ f.pending = FALSE /\ f.backfilled = TRUE
    <3> HIDE DEF m, took, f
    <3>1. e \in Viewed
      BY <1>1, <2>8 DEF Viewed
    <3>2. /\ e.logs = d.logs /\ e.target = d.target /\ e.level = d.level /\ e.search = d.search
          /\ e.asked = d.asked /\ e.took = took /\ e.had = d.had /\ e.stray = stray
          /\ e.pending = FALSE /\ e.backfilled = TRUE
      BY <1>1 DEF Viewed
    <3> HIDE DEF e
    <3>3. CASE q.lines = <<>>
      BY <2>1, <3>1, <3>2, <3>3
    <3>4. CASE q.lines # <<>>
      <4>1. f = [e EXCEPT !.logs = m, !.cursor = cu]
        BY <2>1, <3>4
      <4>2. f \in Viewed
        BY <2>5, <2>9, <3>1, <4>1 DEF Viewed
      <4>3. /\ f.logs = m /\ f.target = e.target /\ f.level = e.level /\ f.search = e.search
            /\ f.asked = e.asked /\ f.took = e.took /\ f.had = e.had /\ f.stray = e.stray
            /\ f.pending = e.pending /\ f.backfilled = e.backfilled
        BY <3>1, <4>1 DEF Viewed
      <4>4. QED
        BY <3>2, <3>4, <4>2, <4>3
    <3>5. QED
      BY <3>3, <3>4
  <2>11. /\ Len(f.logs) <= Cap
         /\ ~f.stray => f.logs \in Seq(OfScope(scope))
    <3>1. Len(d.logs) <= Cap
      BY DEF ViewGood
    <3>2. QED
      BY <2>4, <2>5, <2>6, <2>10, <3>1
  <2>12. IsSearchActive(f) <=> IsSearchActive(d)
    BY <2>10, Zenon DEF IsSearchActive
  <2>13. ASSUME IsSearchActive(d), took = d.asked, took # 0
         PROVE  \E list : Newest(rows[s], scope, f, list) /\ ShowsEnd(f, list)
    <3>1. q.n = ds[s].asked /\ q.at = "answered"
      BY <2>13
    <3>2. AskedOf(q, s, d, rows[s])
      BY <3>1, Zenon DEF QueryGood
    <3> DEFINE P == Passing(scope, d.level, d.search)
               back == Reverse(q.lines)
    <3>3. Newest(rows[s], scope, d, back)
      BY <2>13, <3>1, <3>2, Zenon DEF AskedOf
    <3>4. back \in Seq(P) /\ Len(back) <= Cap
      BY <3>3, NewestShown
    <3>5. P \subseteq Row /\ P \subseteq Line /\ \A l \in P : Separator(l) \in Line
      <4>1. P \subseteq Row
        BY DEF Passing
      <4> HIDE DEF P
      <4>2. QED
        BY <4>1, ScopeSeparated
    <3>6. q.lines = <<>> => back = <<>>
      <4>1. Len(back) = Len(q.lines)
        BY <1>1, ReverseType
      <4>2. Len(q.lines) = 0 => back = <<>>
        BY <3>4, <4>1, EmptySeq
      <4>3. QED
        BY <4>2, EmptySeq
    <3> DEFINE ring == Push(<<>>, InjectDeploySeparators(back))
               J == {i \in DOMAIN ring : ring[i].n > 0}
    <3>7. m = ring
      BY <1>1, <1>6, <2>7, <2>13, MergedType, ScopeSeparated
    <3> HIDE DEF back, m, P
    <3>8. /\ ring \in Seq(Line) /\ \A i \in J : ring[i] \in P
          /\ \E left \in 0..Len(back) : /\ At(ring, J) = SubSeq(back, left + 1, Len(back))
                                        /\ left > 0 => Len(ring) = Cap
      BY <3>4, <3>5, RowsEnd
    <3> HIDE DEF ring, took
    <3>9. ASSUME q.lines # <<>> PROVE ShowsEnd(f, back)
      <4>1. f.logs = ring
        BY <2>10, <3>7, <3>9
      <4>2. \A l \in P : Matches(l, f.level, f.search)
        BY <2>10 DEF Passing, P
      <4>3. ShownRows(f) = At(ring, J)
        <5>1. {i \in DOMAIN f.logs : f.logs[i].n > 0 /\ Matches(f.logs[i], f.level, f.search)} = J
          BY <3>8, <4>1, <4>2
        <5> HIDE DEF J, f
        <5>2. QED
          BY <4>1, <5>1 DEF ShownRows
      <4> HIDE DEF f, J
      <4>4. \E left \in 0..Len(back) : /\ ShownRows(f) = SubSeq(back, left + 1, Len(back))
                                       /\ left > 0 => Len(f.logs) = Cap
        BY <3>8, <4>1, <4>3, Zenon
      <4>5. QED
        BY <4>4, EndShown
    <3>10. ASSUME q.lines = <<>> PROVE ShowsEnd(f, back)
      <4>1. f.logs = <<>> /\ back = <<>>
        BY <2>7, <2>10, <2>13, <3>6, <3>10
      <4>2. ShownRows(f) = At(<<>>, {})
        <5>1. {i \in DOMAIN f.logs : f.logs[i].n > 0 /\ Matches(f.logs[i], f.level, f.search)} = {}
          BY <4>1
        <5> HIDE DEF f
        <5>2. QED
          BY <4>1, <5>1 DEF ShownRows
      <4>3. At(<<>>, {}) = <<>>
        <5>1. Cardinality({}) = 0
          BY FS_EmptySet
        <5>2. QED
          BY <5>1 DEF At
      <4>4. SubSeq(back, 0 + 1, Len(back)) = <<>> /\ Len(back) = 0
        BY <4>1
      <4>5. 0 \in 0..Len(back) /\ ~(0 > 0)
        BY <4>4
      <4> HIDE DEF f
      <4>6. EndsAfter(f, back, 0)
        BY <4>2, <4>3, <4>4, <4>5, Zenon DEF EndsAfter
      <4>7. QED
        BY <4>5, <4>6, Zenon DEF ShowsEnd
    <3>11. Newest(rows[s], scope, f, back)
      <4> HIDE DEF f, scope, shown
      <4>1. f.level = d.level /\ f.search = d.search /\ f.had = d.had
        BY <2>10
      <4>2. QED
        BY <3>3, <4>1, Zenon DEF Newest
    <3> HIDE DEF f
    <3>12. ShowsEnd(f, back)
      BY <3>9, <3>10, Zenon
    <3> HIDE DEF f
    <3>13. QED
      BY <3>11, <3>12
  <2>14. ViewGood(s, f, rows[s], k)
    <3> HIDE DEF f, took
    <3>1. d.asked <= k /\ d.had <= Len(rows[s]) /\ d.target \in DOMAIN Live[s] \union {None}
      BY DEF ViewGood
    <3>2. IsSearchActive(f) /\ f.backfilled /\ f.took = f.asked /\ f.took # 0 =>
             \E list : Newest(rows[s], Scope[s][f.target], f, list) /\ ShowsEnd(f, list)
      BY <2>10, <2>12, <2>13
    <3>3. f.target # None /\ f.backfilled /\ ~f.pending
      BY <1>4, <2>10
    <3>4. QED
      BY <2>10, <2>11, <3>1, <3>2, <3>3, Zenon DEF ViewGood
  <2>15. QED
    BY <2>14
<1>5. QED
  BY <1>2, <1>3, <1>4

-----------------------------------------------------------------------------
(* DetailView: the steps *)

\* A view that was just opened, or not at all.
LEMMA FreshGood ==
    ASSUME NEW s \in Sessions, NEW t \in DOMAIN Live[s] \union {None}, NEW rows \in Seq(Row),
           NEW k \in Nat
    PROVE  ViewGood(s, Fresh(t), rows, k)
<1> DEFINE d == Fresh(t)
<1>1. d \in Viewed
  <2>1. "" \in Level /\ t \in Target \union {None}
    BY DetailAssumption
  <2>2. NoSearch \in Search
    BY DEF NoSearch, Search
  <2>3. <<>> \in Seq(Line)
    BY EmptySeq
  <2>4. QED
    BY <2>1, <2>2, <2>3 DEF Fresh, Viewed
<1>2. /\ d.logs = <<>> /\ d.target = t /\ ~d.stray /\ ~d.pending /\ d.asked = 0 /\ d.had = 0
      /\ ~d.backfilled
  BY DEF Fresh
<1>3. ~IsSearchActive(d)
  BY DEF Fresh, IsSearchActive
<1>4. Len(<<>>) = 0 /\ \A scope : <<>> \in Seq(OfScope(scope))
  BY EmptySeq
<1>5. Len(d.logs) <= Cap /\ d.asked <= k /\ d.had <= Len(rows)
  <2>1. Len(rows) \in Nat
    BY LenProperties
  <2> HIDE DEF d
  <2>2. QED
    BY <1>2, <1>4, <2>1, DetailNumbers
<1> HIDE DEF d
<1>6. ViewGood(s, d, rows, k)
  BY <1>1, <1>2, <1>3, <1>4, <1>5, Zenon DEF ViewGood
<1>7. QED
  BY <1>6 DEF d

LEMMA DetailGoodInit == DetailInit => DetailGood
<1> SUFFICES ASSUME DetailInit PROVE DetailGood
  OBVIOUS
<1> USE DEF DetailInit
<1>1. ASSUME NEW s \in Sessions PROVE ViewGood(s, det[s], logs[s], keys)
  <2>1. det[s] = Fresh(None) /\ logs[s] \in Seq(Row) /\ keys \in Nat
    BY RowsAssumption
  <2>2. QED
    BY <2>1, FreshGood
<1>2. DetailRest
  <2>1. \A s \in Sessions : det[s] \in Viewed
    BY <1>1 DEF ViewGood
  <2>2. QED
    BY <2>1, EmptySeq, DetailNumbers, RowsAssumption DEF DetailRest
<1>3. ShownGood
  BY DEF ShownGood, InDetail
<1>4. QED
  BY <1>1, <1>2, <1>3 DEF DetailGood, ViewsGood, QueriesGood

LEMMA PublishGood ==
    ASSUME DetailGood, NEW s \in Sessions, NEW c \in Container, NEW kind \in Written[c],
           Publish(s, c, kind)
    PROVE  DetailGood'
<1> USE DEF DetailGood
<1>1. kind.lvl \in STRING /\ kind.hit \in BOOLEAN /\ kind.at \in Nat
  <2>1. Written \in [Container -> SUBSET [lvl : STRING, hit : BOOLEAN, at : Nat]]
    BY DetailAssumption
  <2>2. kind \in [lvl : STRING, hit : BOOLEAN, at : Nat]
    BY <2>1
  <2>3. QED
    BY <2>2
<1>2. lines' \in Nat /\ lines' > 0
  BY DEF Publish, DetailRest
<1> DEFINE line == [n |-> lines', c |-> c, at |-> kind.at, lvl |-> kind.lvl, hit |-> kind.hit]
<1>3. line \in Row
  <2>1. line \in Line /\ line.n > 0
    BY <1>1, <1>2 DEF Line
  <2> HIDE DEF line
  <2>2. QED
    BY <2>1 DEF Row
<1>4. /\ batch' = [batch EXCEPT ![c] = Append(@, line)]
      /\ wire' = [wire EXCEPT ![s] = Append(@, line)] \/ wire' = wire
  BY DEF Publish
<1>5. UNCHANGED <<logs, sub, det, view, active, queries, keys, fails>>
  BY DEF Publish
<1> HIDE DEF line
<1>6. /\ [batch EXCEPT ![c] = Append(@, line)] \in [Container -> Seq(Row)]
      /\ [wire EXCEPT ![s] = Append(@, line)] \in [Sessions -> Seq(Row)]
  BY <1>3 DEF DetailRest
<1>7. DetailRest'
  BY <1>2, <1>4, <1>5, <1>6 DEF DetailRest
<1>8. ShownGood' /\ ViewsGood' /\ QueriesGood'
  BY <1>5 DEF ShownGood, InDetail, ViewsGood, QueriesGood
<1>9. QED
  BY <1>7, <1>8

LEMMA InsertLogsGood ==
    ASSUME DetailGood, NEW s \in Sessions, NEW c \in Container, InsertLogs(s, c)
    PROVE  DetailGood'
<1> USE DEF DetailGood
<1>1. /\ \/ logs' = [logs EXCEPT ![s] = @ \o batch[c]]
         \/ logs' = logs
      /\ batch' = [batch EXCEPT ![c] = <<>>] /\ fails' \in Nat
      /\ UNCHANGED <<lines, wire, sub, det, view, active, queries, keys>>
  BY DEF InsertLogs, DetailRest
<1>2. batch[c] \in Seq(Row) /\ \A t \in Sessions : logs[t] \in Seq(Row)
  BY DEF DetailRest
<1>3. logs[s] \o batch[c] \in Seq(Row)
  BY <1>2, ConcatProperties
<1>4. DetailRest'
  <2>1. logs' \in [Sessions -> Seq(Row)]
    BY <1>1, <1>3 DEF DetailRest
  <2>2. batch' \in [Container -> Seq(Row)]
    BY <1>1, EmptySeq DEF DetailRest
  <2>3. QED
    BY <1>1, <2>1, <2>2 DEF DetailRest
<1>5. \A t \in Sessions : \E more \in Seq(Row) : logs'[t] = logs[t] \o more
  <2> SUFFICES ASSUME NEW t \in Sessions PROVE \E more \in Seq(Row) : logs'[t] = logs[t] \o more
    OBVIOUS
  <2>1. CASE logs'[t] = logs[t] \o batch[c]
    BY <1>2, <2>1
  <2>2. CASE logs'[t] = logs[t]
    <3>1. logs'[t] = logs[t] \o <<>>
      BY <1>2, <2>2, ConcatEmptySeq
    <3>2. QED
      BY <3>1, EmptySeq
  <2>3. QED
    BY <1>1, <2>1, <2>2 DEF DetailRest
<1>6. ViewsGood'
  <2>1. ASSUME NEW t \in Sessions PROVE ViewGood(t, det[t], logs'[t], keys)
    <3>1. ViewGood(t, det[t], logs[t], keys)
      BY DEF ViewsGood
    <3>2. PICK more \in Seq(Row) : logs'[t] = logs[t] \o more
      BY <1>5
    <3>3. ViewGood(t, det[t], logs[t] \o more, keys)
      BY <1>2, <3>1, ViewStored
    <3>4. QED
      BY <3>2, <3>3
  <2>2. QED
    BY <1>1, <2>1 DEF ViewsGood
<1>7. QueriesGood'
  <2>1. \A t \in Sessions : /\ logs[t] \in Seq(Row)
                            /\ det[t].had \in Nat /\ det[t].had <= Len(logs[t])
                            /\ \E more \in Seq(Row) : logs'[t] = logs[t] \o more
    BY <1>2, <1>5 DEF ViewsGood, ViewGood, Viewed
  <2>2. ASSUME NEW q \in queries PROVE QueryGood(q, det, logs', keys)
    <3>1. QueryGood(q, det, logs, keys)
      BY DEF QueriesGood
    <3>2. QED
      BY <2>1, <3>1, QueryStored
  <2>3. QED
    BY <1>1, <2>2 DEF QueriesGood
<1>8. ShownGood'
  BY <1>1 DEF ShownGood, InDetail
<1>9. QED
  BY <1>4, <1>6, <1>7, <1>8

\* A step that changes only one view, to one that asks the same question.
LEMMA OneViewGood ==
    ASSUME DetailGood, NEW s \in Sessions, NEW e, ViewGood(s, e, logs[s], keys),
           SameQuestion(det[s], e), e.pending => det[s].pending,
           det' = [det EXCEPT ![s] = e],
           wire' \in [Sessions -> Seq(Row)], queries' \subseteq queries,
           queries' # queries => ~e.pending /\ s = active,
           UNCHANGED <<agent, sub, view, active, keys, fails>>
    PROVE  DetailGood'
<1> USE DEF DetailGood, agent
<1>1. e \in Viewed
  BY DEF ViewGood
<1>2. DetailRest'
  BY <1>1 DEF DetailRest
<1>3. det'[s] = e /\ \A t \in Sessions \ {s} : det'[t] = det[t]
  BY DEF DetailRest
<1>4. ViewsGood'
  <2>1. \A t \in Sessions : ViewGood(t, det'[t], logs[t], keys)
    BY <1>3 DEF ViewsGood
  <2>2. QED
    BY <2>1 DEF ViewsGood
<1>5. QueriesGood'
  <2>1. \A t \in Sessions : Follows(det[t], det'[t], keys)
    BY <1>3, Zenon DEF Follows, SameQuestion
  <2>2. keys \in Nat /\ keys <= keys
    BY DEF DetailRest
  <2>3. ASSUME NEW q \in queries' PROVE QueryGood(q, det', logs, keys)
    <3>1. QueryGood(q, det, logs, keys)
      BY DEF QueriesGood
    <3>2. QED
      BY <2>1, <2>2, <3>1, QueryStays
  <2>4. QED
    BY <2>3 DEF QueriesGood
<1>6. ShownGood'
  <2>1. det'[active].target = det[active].target
    BY <1>3, Zenon DEF SameQuestion, DetailRest
  <2>2. det'[active].pending => det[active].pending /\ queries' = queries
    BY <1>3, Zenon DEF DetailRest
  <2>3. QED
    BY <2>1, <2>2 DEF ShownGood, InDetail
<1>7. QED
  BY <1>2, <1>4, <1>5, <1>6

LEMMA LogMsgGood ==
    ASSUME DetailGood, NEW s \in Sessions, LogMsg(s)
    PROVE  DetailGood'
<1> DEFINE d == det[s]
           live == IF d.target = None THEN {} ELSE Live[s][d.target]
           line == Head(wire[s])
           e == IF InDetail /\ s = active THEN OnStreamEntry(d, live, line) ELSE d
<1>1. /\ wire[s] \in Seq(Row) /\ wire[s] # <<>> /\ wire' = [wire EXCEPT ![s] = Tail(@)]
      /\ det \in [Sessions -> Viewed] /\ wire \in [Sessions -> Seq(Row)]
      /\ UNCHANGED <<agent, sub, view, active, queries, keys, fails>>
  BY DEF LogMsg, DetailGood, DetailRest
<1>2. line \in Line /\ Tail(wire[s]) \in Seq(Row)
  <2>1. line \in Row /\ Tail(wire[s]) \in Seq(Row)
    BY <1>1, HeadTailProperties
  <2> HIDE DEF line
  <2>2. QED
    BY <2>1 DEF Row
<1>3. ViewGood(s, d, logs[s], keys)
  BY DEF DetailGood, ViewsGood
<1>4. det' = [det EXCEPT ![s] = e]
  <2>1. CASE InDetail /\ s = active
    BY <2>1 DEF LogMsg
  <2>2. CASE ~(InDetail /\ s = active)
    <3>1. det' = det
      BY <2>2 DEF LogMsg
    <3>2. QED
      BY <1>1, <2>2, <3>1
  <2>3. QED
    BY <2>1, <2>2
<1>5. wire' \in [Sessions -> Seq(Row)]
  BY <1>1, <1>2
<1>6. ViewGood(s, e, logs[s], keys)
  <2>1. ViewGood(s, OnStreamEntry(d, live, line), logs[s], keys)
    <3> HIDE DEF d, line
    <3>1. d.target # None => live = Live[s][d.target]
      OBVIOUS
    <3> HIDE DEF live
    <3>2. QED
      BY <1>2, <1>3, <3>1, ViewStreamed
  <2>2. QED
    BY <1>3, <2>1
<1>7. SameQuestion(d, e) /\ (e.pending => d.pending)
  <2>1. d \in Viewed
    BY <1>1
  <2>2. CASE e = d
    BY <2>2 DEF SameQuestion
  <2>3. CASE e # d
    <3> DEFINE p == Push(d.logs, <<line>>)
               sc == IF d.paused THEN d.scroll + 1 ELSE d.scroll
    <3>1. e = [d EXCEPT !.logs = p, !.scroll = sc]
      BY <2>3 DEF OnStreamEntry
    <3> HIDE DEF p, sc, e, d
    <3>2. /\ e.target = d.target /\ e.level = d.level /\ e.search = d.search
          /\ e.asked = d.asked /\ e.had = d.had /\ e.pending = d.pending
      BY <2>1, <3>1 DEF Viewed
    <3>3. SameQuestion(d, e) /\ (e.pending => d.pending)
      BY <3>2 DEF SameQuestion
    <3>4. QED
      BY <3>3 DEF e, d
  <2>4. QED
    BY <2>2, <2>3
<1>8. queries' = queries
  BY <1>1
<1> HIDE DEF e
<1>9. QED
  BY <1>1, <1>4, <1>5, <1>6, <1>7, <1>8, OneViewGood

LEMMA ScrollGood ==
    ASSUME DetailGood, NEW key \in {"j", "k", "ctrl+d", "ctrl+u", "gg", "G"}, Scroll(key)
    PROVE  DetailGood'
<1> DEFINE d == det[active]
           e == Moved(d, key)
<1>1. /\ active \in Sessions /\ d \in Viewed /\ keys \in Nat /\ keys' = keys + 1
      /\ InDetail /\ det' = [det EXCEPT ![active] = e] /\ det \in [Sessions -> Viewed]
      /\ UNCHANGED <<agent, wire, fails, sub, view, active, queries>>
  BY DEF Scroll, Key, DetailGood, DetailRest
<1>2. Positioned(d, e)
  BY <1>1, MovedPositions
<1>3. e \in Viewed /\ SameView(d, e) /\ e.pending = d.pending
  BY <1>1, <1>2, PositionedView
<1> HIDE DEF e
<1>4. keys + 1 \in Nat /\ keys <= keys + 1
  BY <1>1
<1>5. DetailRest'
  BY <1>1, <1>3, <1>4 DEF DetailGood, DetailRest, agent
<1>6. det'[active] = e /\ \A t \in Sessions \ {active} : det'[t] = det[t]
  BY <1>1
<1>7. ViewsGood'
  <2>1. ASSUME NEW t \in Sessions PROVE ViewGood(t, det'[t], logs[t], keys + 1)
    <3> DEFINE f == det'[t]
    <3>1. ViewGood(t, det[t], logs[t], keys)
      BY DEF DetailGood, ViewsGood
    <3>2. f \in Viewed /\ SameView(det[t], f) /\ f.pending = det[t].pending
      BY <1>1, <1>3, <1>6 DEF SameView
    <3> HIDE DEF f
    <3>3. f.pending => ~f.backfilled
      BY <3>1, <3>2, Zenon DEF ViewGood, SameView
    <3>4. ViewGood(t, f, logs[t], keys + 1)
      BY <1>1, <1>4, <3>1, <3>2, <3>3, ViewStays
    <3>5. QED
      BY <3>4 DEF f
  <2>2. QED
    BY <1>1, <2>1 DEF ViewsGood, agent
<1>8. QueriesGood'
  <2>1. \A t \in Sessions : Follows(det[t], det'[t], keys)
    BY <1>3, <1>6, Zenon DEF Follows, SameQuestion, SameView
  <2>2. ASSUME NEW q \in queries PROVE QueryGood(q, det', logs, keys + 1)
    <3>1. QueryGood(q, det, logs, keys)
      BY DEF DetailGood, QueriesGood
    <3>2. QED
      BY <1>1, <1>4, <2>1, <3>1, QueryStays
  <2>3. QED
    BY <1>1, <2>2 DEF QueriesGood, agent
<1>9. ShownGood'
  <2>1. det'[active].target = d.target /\ det'[active].pending = d.pending
    BY <1>3, <1>6, Zenon DEF SameView
  <2>2. QED
    BY <1>1, <2>1 DEF DetailGood, ShownGood, InDetail
<1>10. QED
  BY <1>5, <1>7, <1>8, <1>9 DEF DetailGood

LEMMA RenderGood ==
    ASSUME DetailGood, Render
    PROVE  DetailGood'
<1> DEFINE d == det[active]
           c == Most(0, Least(d.cursor, Len(Visible(d)) - 1))
           e == [d EXCEPT !.cursor = c]
<1>1. /\ active \in Sessions /\ d \in Viewed /\ det \in [Sessions -> Viewed]
      /\ wire \in [Sessions -> Seq(Row)] /\ det' = [det EXCEPT ![active].cursor = c]
      /\ UNCHANGED <<agent, wire, sub, view, active, queries, keys, fails>> /\ keys \in Nat
  BY DEF Render, DetailGood, DetailRest
<1>2. c \in Nat
  <2>1. d.cursor \in Nat /\ Len(Visible(d)) \in Nat
    BY <1>1, FilteredLength DEF Viewed
  <2>2. QED
    BY <2>1 DEF Most, Least
<1>3. ViewGood(active, d, logs[active], keys)
  BY <1>1 DEF DetailGood, ViewsGood
<1> HIDE DEF c
<1>4. e \in Viewed /\ SameView(d, e) /\ e.pending = d.pending
  BY <1>1, <1>2 DEF Viewed, SameView
<1>5. det' = [det EXCEPT ![active] = e]
  BY <1>1
<1> HIDE DEF d, e
<1>6. e.pending => ~e.backfilled
  BY <1>3, <1>4, Zenon DEF ViewGood, SameView
<1>7. keys <= keys
  BY <1>1
<1>8. ViewGood(active, e, logs[active], keys)
  BY <1>1, <1>3, <1>4, <1>6, <1>7, ViewStays
<1>9. SameQuestion(det[active], e) /\ (e.pending => det[active].pending)
  BY <1>4, Zenon DEF SameQuestion, SameView, d
<1>10. wire' \in [Sessions -> Seq(Row)] /\ queries' = queries
  BY <1>1
<1>11. QED
  BY <1>1, <1>5, <1>8, <1>9, <1>10, OneViewGood

\* A step that changes one query.
LEMMA QueryReplaced ==
    ASSUME DetailGood, NEW q \in queries, NEW r, Updated(q, r), QueryGood(r, det, logs, keys),
           fails' \in Nat, UNCHANGED <<agent, wire, sub, det, view, active, keys>>
    PROVE  DetailGood'
<1> USE DEF DetailGood, agent
<1>1. queries' = (queries \ {q}) \union {r}
  BY DEF Updated
<1>2. DetailRest'
  BY DEF DetailRest
<1>3. ViewsGood'
  BY DEF ViewsGood
<1>4. QueriesGood'
  BY <1>1 DEF QueriesGood
<1>5. ShownGood'
  BY <1>1 DEF ShownGood, InDetail
<1>6. QED
  BY <1>2, <1>3, <1>4, <1>5

LEMMA BuildLogReqGood ==
    ASSUME DetailGood, NEW q \in queries, BuildLogReq(q)
    PROVE  DetailGood'
<1> DEFINE d == det[q.srv]
           search == IF q.kind = "search" THEN d.search ELSE NoSearch
           scope == Scope[q.srv][d.target]
           late == d.target # q.tgt
<1>1. QueryGood(q, det, logs, keys) /\ q.at = "fired" /\ q \in Queried /\ q.srv \in Sessions
  BY DEF BuildLogReq, DetailGood, QueriesGood, QueryGood, Queried
<1>2. ViewGood(q.srv, d, logs[q.srv], keys) /\ d \in Viewed /\ d.target # None
  BY <1>1 DEF DetailGood, ViewsGood, ViewGood, QueryGood
<1>3. PICK w \in Windows : Updated(q, Built(q, d, w))
  BY DEF BuildLogReq
<1> DEFINE win == Bounded(w, search)
           r == [q EXCEPT !.at = "sent", !.level = d.level, !.scope = scope, !.late = late,
                          !.search = search, !.win = win]
<1>15. Updated(q, r)
  BY <1>3, Zenon DEF Built
<1>4. scope \in SUBSET Container
  <2>1. d.target \in DOMAIN Live[q.srv]
    BY <1>2 DEF ViewGood
  <2>2. QED
    BY <1>1, <2>1, TargetsKnown
<1>5. search \in Search /\ d.level \in Level
  <2>1. NoSearch \in Search
    BY DEF NoSearch, Search
  <2>2. QED
    BY <1>2, <2>1 DEF Viewed
<1>16. win \in Window
  <2>1. Windows \subseteq Window
    BY RowsAssumption
  <2>2. w.from \in Nat /\ w.to \in Nat
    BY <2>1 DEF Window
  <2>3. search.from \in Nat /\ search.to \in Nat
    BY <1>5 DEF Search
  <2> HIDE DEF search
  <2>4. QED
    BY <2>2, <2>3 DEF Bounded, Window
<1> HIDE DEF search, scope, win
<1>6. late \in BOOLEAN
  OBVIOUS
<1>7. /\ r \in Queried /\ r.n = q.n /\ r.srv = q.srv /\ r.tgt = q.tgt /\ r.kind = q.kind
      /\ r.at = "sent" /\ r.scope = scope /\ r.level = d.level /\ r.search = search
      /\ r.lines = q.lines /\ r.win = win
  <2> HIDE DEF late, d
  <2>1. r \in Queried
    BY <1>1, <1>4, <1>5, <1>6, <1>16 DEF Queried
  <2>2. /\ r.n = q.n /\ r.srv = q.srv /\ r.tgt = q.tgt /\ r.kind = q.kind
        /\ r.at = "sent" /\ r.scope = scope /\ r.level = d.level /\ r.search = search
        /\ r.lines = q.lines /\ r.win = win
    BY <1>1 DEF Queried
  <2>3. QED
    BY <2>1, <2>2
<1>8. r.late <=> d.target # q.tgt
  BY <1>1 DEF Queried
<1> HIDE DEF r
<1>9. q.lines = <<>> /\ \A x : <<>> \in Seq(OfScope(x))
  <2>1. q.lines = <<>>
    BY <1>1 DEF QueryGood
  <2>2. QED
    BY <2>1, EmptySeq
<1>10. ~r.late => r.scope = Scope[r.srv][r.tgt]
  BY <1>7, <1>8 DEF scope
<1>11. ASSUME NEW s \in Sessions, r.n = det[s].asked PROVE AskedOf(r, s, det[s], logs[s])
  <2>1. AskedOf(q, s, det[s], logs[s])
    BY <1>1, <1>7, <1>11, Zenon DEF QueryGood
  <2>2. det[s] = d /\ q.srv = s
    BY <2>1 DEF AskedOf
  <2>3. IsSearchActive(d) => search = d.search /\ q.kind = "search"
    BY <2>1, <2>2 DEF AskedOf, search
  <2>4. r.at # "answered"
    BY <1>7
  <2>5. IsSearchActive(d) => \E v \in Windows : r.win = Bounded(v, d.search)
    BY <1>7, <2>3, Zenon DEF win
  <2>6. QED
    BY <1>7, <2>1, <2>2, <2>3, <2>4, <2>5, Zenon DEF AskedOf, scope
<1>12. QueryGood(r, det, logs, keys)
  <2>1. r.lines \in Seq(OfScope(Scope[r.srv][r.tgt]))
    BY <1>7, <1>9
  <2>2. q.n \in 1..keys /\ q.tgt \in DOMAIN Live[q.srv]
    BY <1>1, Zenon DEF QueryGood
  <2>3. QED
    BY <1>2, <1>7, <1>9, <1>10, <1>11, <2>1, <2>2, Zenon DEF QueryGood
<1>13. fails' \in Nat /\ UNCHANGED <<agent, wire, sub, det, view, active, keys>>
  BY DEF BuildLogReq, DetailGood, DetailRest
<1>14. QED
  BY <1>15, <1>12, <1>13, QueryReplaced

LEMMA QueryLogsGood ==
    ASSUME DetailGood, NEW q \in queries, QueryLogs(q)
    PROVE  DetailGood'
<1> DEFINE rows == logs[q.srv]
           places == Selected(rows, q.scope, q.level, q.search, q.win)
<1>1. QueryGood(q, det, logs, keys) /\ q.at = "sent" /\ q \in Queried /\ q.srv \in Sessions
  BY DEF QueryLogs, DetailGood, QueriesGood, QueryGood, Queried
<1>2. rows \in Seq(Row)
  BY <1>1 DEF DetailGood, DetailRest
<1>3. PICK f \in [1..Least(Cap, Cardinality(places)) -> places] :
          /\ NewestFirst(rows, places, f)
          /\ Updated(q, [q EXCEPT !.at = "answered", !.lines = RowsAt(rows, f)])
  BY Zenon DEF QueryLogs
<1> DEFINE answer == RowsAt(rows, f)
           r == [q EXCEPT !.at = "answered", !.lines = answer]
<1>4. Updated(q, r)
  BY <1>3
<1>5. /\ answer \in Seq(Passing(q.scope, q.level, q.search))
      /\ \A d : d.level = q.level /\ d.search = q.search /\ d.had \in Nat /\ d.had <= Len(rows)
               /\ (\E w \in Windows : q.win = Bounded(w, d.search)) =>
            Newest(rows, q.scope, d, Reverse(answer))
  <2> HIDE DEF rows
  <2>1. answer \in Seq(Passing(q.scope, q.level, q.search))
    BY <1>2, AnswerPasses
  <2>2. ASSUME NEW d, d.level = q.level, d.search = q.search, d.had \in Nat, d.had <= Len(rows),
               NEW w \in Windows, q.win = Bounded(w, d.search)
        PROVE  Newest(rows, q.scope, d, Reverse(answer))
    <3>1. places = Selected(rows, q.scope, d.level, d.search, q.win)
      BY <2>2
    <3>2. QED
      BY <1>2, <1>3, <2>2, <3>1, AnswerNewest
  <2>3. QED
    BY <2>1, <2>2
<1> HIDE DEF answer
<1>6. answer \in Seq(Row) /\ answer \in Seq(OfScope(q.scope))
  <2>1. /\ Passing(q.scope, q.level, q.search) \subseteq Row
        /\ Passing(q.scope, q.level, q.search) \subseteq OfScope(q.scope)
    BY DEF Passing, OfScope, Row, Line
  <2>2. answer \in Seq(Passing(q.scope, q.level, q.search))
    BY <1>5
  <2> DEFINE P == Passing(q.scope, q.level, q.search)
  <2> HIDE DEF P
  <2>3. P \subseteq Row /\ P \subseteq OfScope(q.scope) /\ answer \in Seq(P)
    BY <2>1, <2>2, Zenon DEF P
  <2>4. answer \in Seq(Row)
    BY <2>3, SeqMonotonic
  <2>5. answer \in Seq(OfScope(q.scope))
    BY <2>3, SeqMonotonic
  <2>6. QED
    BY <2>4, <2>5
<1>7. /\ r \in Queried /\ r.n = q.n /\ r.srv = q.srv /\ r.tgt = q.tgt /\ r.kind = q.kind
      /\ r.at = "answered" /\ r.scope = q.scope /\ r.level = q.level /\ r.search = q.search
      /\ r.lines = answer /\ r.late = q.late /\ r.win = q.win
  BY <1>1, <1>6 DEF Queried
<1> HIDE DEF r
<1>8. ASSUME NEW s \in Sessions, r.n = det[s].asked PROVE AskedOf(r, s, det[s], logs[s])
  <2>1. AskedOf(q, s, det[s], logs[s])
    BY <1>1, <1>7, <1>8, Zenon DEF QueryGood
  <2>2. q.srv = s /\ q.tgt = det[s].target
    BY <2>1, Zenon DEF AskedOf
  <2>3. ASSUME IsSearchActive(det[s])
        PROVE  Newest(logs[s], Scope[s][det[s].target], det[s], Reverse(r.lines))
    <3>1. /\ q.scope = Scope[s][det[s].target] /\ q.level = det[s].level /\ q.search = det[s].search
          /\ \E w \in Windows : q.win = Bounded(w, det[s].search)
      BY <1>1, <2>1, <2>3 DEF AskedOf
    <3>2. det[s].had \in Nat /\ det[s].had <= Len(logs[s])
      BY DEF DetailGood, ViewsGood, ViewGood, Viewed
    <3>3. QED
      BY <1>5, <1>7, <2>2, <3>1, <3>2
  <2>4. IsSearchActive(det[s]) =>
            /\ q.kind = "search" /\ q.scope = Scope[s][det[s].target]
            /\ q.level = det[s].level /\ q.search = det[s].search
            /\ \E w \in Windows : q.win = Bounded(w, det[s].search)
    BY <1>1, <2>1 DEF AskedOf
  <2>5. QED
    BY <1>7, <2>2, <2>3, <2>4, Zenon DEF AskedOf
<1>9. QueryGood(r, det, logs, keys)
  <2>1. ~r.late => r.lines \in Seq(OfScope(Scope[r.srv][r.tgt]))
    BY <1>1, <1>6, <1>7, Zenon DEF QueryGood
  <2>2. q.n \in 1..keys /\ q.tgt \in DOMAIN Live[q.srv] /\ det[q.srv].target # None
    BY <1>1, Zenon DEF QueryGood
  <2>3. r.at = "answered" /\ r.at # "sent"
    BY <1>7
  <2>4. QED
    BY <1>7, <1>8, <2>1, <2>2, <2>3, Zenon DEF QueryGood
<1>10. fails' \in Nat /\ UNCHANGED <<agent, wire, sub, det, view, active, keys>>
  BY DEF QueryLogs, DetailGood, DetailRest
<1>11. QED
  BY <1>4, <1>9, <1>10, QueryReplaced

LEMMA FailQueryGood ==
    ASSUME DetailGood, NEW q \in queries, FailQuery(q)
    PROVE  DetailGood'
<1> DEFINE r == [q EXCEPT !.at = "failed"]
<1>1. QueryGood(q, det, logs, keys) /\ q.at = "sent" /\ q \in Queried
  BY DEF FailQuery, DetailGood, QueriesGood, QueryGood
<1>2. Updated(q, r)
  BY DEF FailQuery
<1>3. /\ r \in Queried /\ r.n = q.n /\ r.srv = q.srv /\ r.tgt = q.tgt /\ r.kind = q.kind
      /\ r.at = "failed" /\ r.scope = q.scope /\ r.level = q.level /\ r.search = q.search
      /\ r.lines = q.lines /\ r.late = q.late /\ r.win = q.win
  BY <1>1 DEF Queried
<1> HIDE DEF r
<1>4. q.at # "fired" /\ q.at # "answered" /\ r.at # "answered" /\ r.at # "sent"
  BY <1>1, <1>3
<1>5. ASSUME NEW s \in Sessions, r.n = det[s].asked PROVE AskedOf(r, s, det[s], logs[s])
  <2>1. AskedOf(q, s, det[s], logs[s])
    BY <1>1, <1>3, <1>5, Zenon DEF QueryGood
  <2>2. QED
    BY <1>3, <1>4, <2>1, Zenon DEF AskedOf
<1>6. QueryGood(r, det, logs, keys)
  BY <1>1, <1>3, <1>4, <1>5, Zenon DEF QueryGood
<1>7. fails' \in Nat /\ UNCHANGED <<agent, wire, sub, det, view, active, keys>>
  BY DEF FailQuery, DetailGood, DetailRest
<1>8. QED
  BY <1>2, <1>6, <1>7, QueryReplaced

LEMMA DetailLogQueryMsgGood ==
    ASSUME DetailGood, NEW q \in queries, DetailLogQueryMsg(q)
    PROVE  DetailGood'
<1> DEFINE s == active
           d == det[s]
           e == HandleBackfill(d, q)
<1>1. /\ q.at \in {"answered", "failed"} /\ queries' = queries \ {q}
      /\ det' = [det EXCEPT ![s] = e]
      /\ UNCHANGED <<agent, wire, sub, view, active, keys, fails>>
  BY DEF DetailLogQueryMsg
<1>2. /\ s \in Sessions /\ logs[s] \in Seq(Row) /\ ViewGood(s, d, logs[s], keys)
      /\ QueryGood(q, det, logs, keys) /\ wire' \in [Sessions -> Seq(Row)] /\ d \in Viewed
  BY <1>1 DEF DetailGood, DetailRest, ViewsGood, QueriesGood
<1>3. ViewGood(s, e, logs[s], keys)
  <2> HIDE DEF e
  <2>1. QED
    BY <1>1, <1>2, ViewAnswered DEF e
<1>4. SameQuestion(d, e) /\ ~e.pending
  <2> HIDE DEF d
  <2>1. PICK bf, st, tk, lg, cu :
            e = [d EXCEPT !.pending = FALSE, !.backfilled = bf, !.stray = st, !.took = tk,
                          !.logs = lg, !.cursor = cu]
    <3>1. CASE d.backfilled \/ d.target = None
      <4>1. e = [d EXCEPT !.pending = FALSE, !.backfilled = TRUE, !.stray = d.stray,
                          !.took = d.took, !.logs = d.logs, !.cursor = d.cursor]
        BY <1>2, <3>1 DEF HandleBackfill, Viewed, d
      <4> HIDE DEF e
      <4>2. QED
        BY <4>1
    <3>2. CASE ~(d.backfilled \/ d.target = None) /\ ~IsFor(q, d)
      <4>1. e = [d EXCEPT !.pending = FALSE, !.backfilled = d.backfilled, !.stray = d.stray,
                          !.took = d.took, !.logs = d.logs, !.cursor = d.cursor]
        BY <1>2, <3>2 DEF HandleBackfill, Viewed, d
      <4> HIDE DEF e
      <4>2. QED
        BY <4>1
    <3>3. CASE ~(d.backfilled \/ d.target = None) /\ IsFor(q, d)
      <4> DEFINE m == Merged(d, q)
                 st == q.late \/ q.srv # active
                 tk == IF q.at = "failed" THEN 0 ELSE q.n
                 f == [d EXCEPT !.pending = FALSE, !.backfilled = TRUE, !.stray = st, !.took = tk]
                 cu == IF m = <<>> THEN f.cursor ELSE Len(m) - 1
      <4>1. e = IF q.lines = <<>> THEN f ELSE [f EXCEPT !.logs = m, !.cursor = cu]
        BY <3>3 DEF HandleBackfill
      <4> HIDE DEF m, st, tk, cu
      <4>2. f = [d EXCEPT !.pending = FALSE, !.backfilled = TRUE, !.stray = st, !.took = tk,
                          !.logs = d.logs, !.cursor = d.cursor]
        BY <1>2 DEF Viewed, d
      <4>3. [f EXCEPT !.logs = m, !.cursor = cu] =
            [d EXCEPT !.pending = FALSE, !.backfilled = TRUE, !.stray = st, !.took = tk,
                      !.logs = m, !.cursor = cu]
        BY <1>2 DEF Viewed, d
      <4> HIDE DEF e, f
      <4>4. CASE q.lines = <<>>
        <5>1. e = [d EXCEPT !.pending = FALSE, !.backfilled = TRUE, !.stray = st, !.took = tk,
                            !.logs = d.logs, !.cursor = d.cursor]
          BY <4>1, <4>2, <4>4
        <5>2. QED
          BY <5>1
      <4>5. CASE q.lines # <<>>
        <5>1. e = [d EXCEPT !.pending = FALSE, !.backfilled = TRUE, !.stray = st, !.took = tk,
                            !.logs = m, !.cursor = cu]
          BY <4>1, <4>3, <4>5
        <5>2. QED
          BY <5>1
      <4>6. QED
        BY <4>4, <4>5
    <3>4. QED
      BY <3>1, <3>2, <3>3
  <2> HIDE DEF e
  <2>2. SameQuestion(d, e) /\ ~e.pending
    BY <1>2, <2>1 DEF Viewed, SameQuestion, d
  <2>3. QED
    BY <2>2
<1> HIDE DEF e
<1>5. queries' \subseteq queries /\ (e.pending => det[s].pending)
  BY <1>1, <1>4
<1>6. SameQuestion(det[s], e)
  BY <1>4
<1>7. QED
  BY <1>1, <1>2, <1>3, <1>4, <1>5, <1>6, OneViewGood

\* A query is asked by a key, for what is open.
LEMMA NewQueryGood ==
    ASSUME NEW s \in Sessions, NEW d, NEW kind \in {"backfill", "search", "refetch"},
           NEW es, NEW rows, keys \in Nat, d.target \in DOMAIN Live[s], es[s].target # None,
           \A t \in Sessions : es[t].asked = keys + 1 =>
               t = s /\ es[t].target = d.target /\ (IsSearchActive(es[t]) => kind = "search")
    PROVE  QueryGood(Query(s, d, kind), es, rows, keys + 1)
<1> DEFINE q == Query(s, d, kind)
<1>1. /\ q.n = keys + 1 /\ q.srv = s /\ q.tgt = d.target /\ q.kind = kind /\ q.at = "fired"
      /\ q.lines = <<>> /\ ~q.late
  BY DEF Query
<1>2. q \in Queried
  <2>1. keys + 1 \in Nat /\ d.target \in Target
    BY TargetsKnown
  <2>2. "" \in Level /\ NoSearch \in Search /\ <<>> \in Seq(Row)
    BY DetailAssumption, EmptySeq DEF NoSearch, Search
  <2> DEFINE w == [from |-> 0, to |-> 0]
             none == ""
  <2>3. w \in Window /\ none \in Level
    BY <2>2, Zenon DEF Window
  <2>4. q = [n |-> keys + 1, srv |-> s, tgt |-> d.target, kind |-> kind, at |-> "fired",
             scope |-> {}, level |-> none, search |-> NoSearch, win |-> w, lines |-> <<>>,
             late |-> FALSE]
    BY Zenon DEF Query
  <2> HIDE DEF w, q, none
  <2>5. QED
    BY <2>1, <2>2, <2>3, <2>4 DEF Queried
<1> HIDE DEF q
<1>3. q.n \in 1..(keys + 1)
  BY <1>1
<1>4. \A t \in Sessions : q.n = es[t].asked => AskedOf(q, t, es[t], rows[t])
  BY <1>1 DEF AskedOf
<1>5. \A x : <<>> \in Seq(OfScope(x))
  BY EmptySeq
<1>6. QueryGood(q, es, rows, keys + 1)
  <2>1. q.at # "sent" /\ q.at # "answered"
    BY <1>1
  <2>2. QED
    BY <1>1, <1>2, <1>3, <1>4, <1>5, <2>1, Zenon DEF QueryGood
<1>7. QED
  BY <1>6 DEF q

\* A key changes the view of the active session, and may ask a query.
LEMMA KeyGood ==
    ASSUME DetailGood, Key, NEW e, ViewGood(active, e, logs[active], keys + 1),
           Follows(det[active], e, keys), det' = [det EXCEPT ![active] = e],
           \A q \in queries' : q \in queries \/ QueryGood(q, det', logs, keys + 1),
           sub' \in [Sessions -> Target \union {None}], active' \in Sessions,
           view' \in {"dashboard", "alerts", "detail"}, ShownGood'
    PROVE  DetailGood'
<1>1. /\ DetailRest /\ keys \in Nat /\ active \in Sessions /\ keys' = keys + 1
      /\ UNCHANGED <<agent, wire, fails>> /\ det \in [Sessions -> Viewed]
  BY DEF Key, DetailGood, DetailRest
<1>2. keys + 1 \in Nat /\ keys <= keys + 1
  BY <1>1
<1>3. DetailRest'
  <2>1. e \in Viewed
    BY DEF ViewGood
  <2>2. det' \in [Sessions -> Viewed]
    BY <1>1, <2>1
  <2>3. QED
    BY <1>1, <1>2, <2>2 DEF DetailRest, agent
<1>4. det'[active] = e /\ \A t \in Sessions \ {active} : det'[t] = det[t]
  BY <1>1
<1>5. ViewsGood'
  <2>1. ASSUME NEW t \in Sessions PROVE ViewGood(t, det'[t], logs[t], keys + 1)
    <3>1. CASE t = active
      BY <1>4, <3>1
    <3>2. CASE t # active
      <4> DEFINE f == det[t]
      <4>1. ViewGood(t, f, logs[t], keys) /\ f \in Viewed
        BY DEF DetailGood, ViewsGood, ViewGood
      <4>2. f.pending => ~f.backfilled
        BY <4>1, Zenon DEF ViewGood
      <4> HIDE DEF f
      <4>3. SameView(f, f)
        BY DEF SameView
      <4>4. ViewGood(t, f, logs[t], keys + 1)
        BY <1>1, <1>2, <4>1, <4>2, <4>3, ViewStays
      <4>5. QED
        BY <1>4, <3>2, <4>4 DEF f
    <3>3. QED
      BY <3>1, <3>2
  <2>2. QED
    BY <1>1, <2>1 DEF ViewsGood, agent
<1>6. QueriesGood'
  <2>1. \A t \in Sessions : Follows(det[t], det'[t], keys)
    BY <1>4, Zenon DEF Follows, SameQuestion
  <2>2. ASSUME NEW q \in queries PROVE QueryGood(q, det', logs, keys + 1)
    <3>1. QueryGood(q, det, logs, keys)
      BY DEF DetailGood, QueriesGood
    <3>2. QED
      BY <1>1, <1>2, <2>1, <3>1, QueryStays
  <2>3. QED
    BY <1>1, <2>2 DEF QueriesGood, agent
<1>7. QED
  BY <1>3, <1>5, <1>6 DEF DetailGood

\* onSwitch subscribes and asks, unless an answer was taken.
LEMMA OnSwitchGood ==
    ASSUME DetailGood, Key, NEW d, ViewGood(active, d, logs[active], keys), d.target # None,
           Follows(det[active], d, keys), OnSwitch(active, d), InDetail', UNCHANGED active
    PROVE  DetailGood'
<1> DEFINE s == active
           e == IF d.backfilled THEN d ELSE [d EXCEPT !.pending = TRUE]
<1>1. /\ s \in Sessions /\ keys \in Nat /\ logs[s] \in Seq(Row) /\ view' = "detail"
      /\ det \in [Sessions -> Viewed] /\ sub \in [Sessions -> Target \union {None}]
  BY DEF DetailGood, DetailRest, InDetail
<1>2. d \in Viewed /\ d.target \in DOMAIN Live[s] /\ (d.pending => ~d.backfilled)
      /\ d.asked \in Nat /\ d.asked <= keys
  BY DEF ViewGood, Viewed
<1>3. /\ sub' = [sub EXCEPT ![s] = d.target] /\ det' = [det EXCEPT ![s] = e]
      /\ queries' = IF d.backfilled THEN queries ELSE queries \union {Query(s, d, "backfill")}
  BY DEF OnSwitch
<1>4. e \in Viewed /\ SameView(d, e) /\ (e.pending => ~e.backfilled)
      /\ (e.pending => ~d.backfilled)
  <2>1. CASE d.backfilled
    BY <1>2, <2>1 DEF SameView
  <2>2. CASE ~d.backfilled
    <3>1. e = [d EXCEPT !.pending = TRUE]
      BY <2>2
    <3> HIDE DEF e
    <3>2. e \in Viewed /\ SameView(d, e) /\ e.backfilled = d.backfilled
      BY <1>2, <3>1 DEF Viewed, SameView
    <3>3. QED
      BY <2>2, <3>2
  <2>3. QED
    BY <2>1, <2>2
<1> HIDE DEF e
<1>5. keys + 1 \in Nat /\ keys <= keys + 1
  BY <1>1
<1>6. ViewGood(s, e, logs[s], keys + 1)
  BY <1>1, <1>4, <1>5, ViewStays
<1>7. Follows(det[s], e, keys)
  BY <1>4, Zenon DEF Follows, SameQuestion, SameView
<1>8. det'[s] = e /\ \A t \in Sessions \ {s} : det'[t] = det[t]
  BY <1>1, <1>3
<1>9. e.target = d.target /\ e.asked = d.asked
  BY <1>4 DEF SameView
<1>10. QueryGood(Query(s, d, "backfill"), det', logs, keys + 1)
  <2>1. ASSUME NEW t \in Sessions PROVE det'[t].asked # keys + 1
    <3>1. det[t].asked \in Nat /\ det[t].asked <= keys
      BY DEF DetailGood, ViewsGood, ViewGood, Viewed
    <3>2. det'[t].asked <= keys /\ det'[t].asked \in Nat
      BY <1>2, <1>8, <1>9, <3>1
    <3>3. QED
      BY <1>1, <3>2
  <2>2. det'[s].target # None
    BY <1>8, <1>9
  <2>3. QED
    BY <1>1, <1>2, <2>1, <2>2, NewQueryGood
<1>11. \A q \in queries' : q \in queries \/ QueryGood(q, det', logs, keys + 1)
  BY <1>3, <1>10
<1>12. sub' \in [Sessions -> Target \union {None}]
  <2>1. d.target \in Target
    BY <1>1, <1>2, TargetsKnown
  <2>2. QED
    BY <1>1, <1>3, <2>1
<1>13. ShownGood'
  <2>1. det'[active'].target # None
    BY <1>8, <1>9
  <2>2. det'[active'].pending => queries' # {}
    BY <1>3, <1>4, <1>8
  <2>3. QED
    BY <2>1, <2>2 DEF ShownGood
<1>14. QED
  BY <1>1, <1>3, <1>6, <1>7, <1>11, <1>12, <1>13, KeyGood

LEMMA EnterDetailGood ==
    ASSUME DetailGood, NEW t, EnterDetail(t) \/ EnterDetailByContainerID(t)
    PROVE  DetailGood'
<1> DEFINE d == IF EnterDetail(t) THEN Reentered(det[active], t) ELSE Fresh(t)
<1>1. /\ Key /\ t \in DOMAIN Live[active] /\ InDetail' /\ UNCHANGED active
      /\ OnSwitch(active, d)
  BY DEF EnterDetail, EnterDetailByContainerID, InDetail
<1>2. active \in Sessions /\ logs[active] \in Seq(Row) /\ keys \in Nat
  BY DEF DetailGood, DetailRest
<1>3. t # None
  BY <1>1, <1>2, TargetsKnown
<1>4. d = Fresh(t) \/ (d = det[active] /\ d.target = t)
  BY DEF Reentered
<1> HIDE DEF d
<1>5. CASE d = Fresh(t)
  <2>1. ViewGood(active, Fresh(t), logs[active], keys)
    BY <1>1, <1>2, FreshGood
  <2>2. d.target = t /\ d.asked = 0
    BY <1>5 DEF Fresh
  <2>3. d.asked \notin 1..keys
    BY <1>2, <2>2
  <2>4. Follows(det[active], d, keys)
    BY <1>3, <2>2, <2>3, Zenon DEF Follows
  <2>5. QED
    BY <1>1, <1>3, <1>5, <2>1, <2>2, <2>4, OnSwitchGood
<1>6. CASE d = det[active] /\ d.target = t
  <2>1. ViewGood(active, d, logs[active], keys)
    BY <1>2, <1>6 DEF DetailGood, ViewsGood
  <2>2. Follows(det[active], d, keys)
    BY <1>6, Zenon DEF Follows, SameQuestion
  <2>3. QED
    BY <1>1, <1>3, <1>6, <2>1, <2>2, OnSwitchGood
<1>7. QED
  BY <1>4, <1>5, <1>6

LEMMA HandleZoomGood ==
    ASSUME DetailGood, HandleZoom
    PROVE  DetailGood'
<1> DEFINE d == det[active]
<1>1. Key /\ InDetail' /\ OnSwitch(active, d) /\ UNCHANGED active /\ d.target # None
  BY DEF HandleZoom, InDetail, DetailGood, ShownGood
<1>2. ViewGood(active, d, logs[active], keys)
  BY DEF DetailGood, DetailRest, ViewsGood
<1>3. Follows(det[active], d, keys)
  BY Zenon DEF Follows, SameQuestion
<1> HIDE DEF d
<1>4. QED
  BY <1>1, <1>2, <1>3, OnSwitchGood

\* A key that leaves the views as they are.
LEMMA SameViewsGood ==
    ASSUME DetailGood, Key, UNCHANGED <<det, queries>>, Left, active' \in Sessions,
           view' \in {"dashboard", "alerts"}
    PROVE  DetailGood'
<1>1. /\ active \in Sessions /\ keys \in Nat /\ det \in [Sessions -> Viewed]
      /\ sub \in [Sessions -> Target \union {None}]
  BY DEF DetailGood, DetailRest
<1> DEFINE d == det[active]
<1>2. ViewGood(active, d, logs[active], keys) /\ d \in Viewed
  BY <1>1 DEF DetailGood, ViewsGood, ViewGood
<1>3. det' = [det EXCEPT ![active] = d]
  BY <1>1
<1>4. Follows(det[active], d, keys)
  BY Zenon DEF Follows, SameQuestion
<1> HIDE DEF d
<1>5. SameView(d, d) /\ (d.pending => ~d.backfilled) /\ keys + 1 \in Nat /\ keys <= keys + 1
  BY <1>1, <1>2 DEF SameView, ViewGood
<1>6. ViewGood(active, d, logs[active], keys + 1)
  BY <1>1, <1>2, <1>5, ViewStays
<1>7. sub' \in [Sessions -> Target \union {None}]
  BY <1>1 DEF Left
<1>8. ShownGood'
  BY DEF ShownGood, InDetail
<1>9. view' \in {"dashboard", "alerts", "detail"}
  OBVIOUS
<1>10. QED
  BY <1>3, <1>4, <1>6, <1>7, <1>8, <1>9, KeyGood

\* fireSearch asks when there is a filter.
Asks(level, search, kind) == level # "" \/ search # NoSearch => kind = "search"

\* A change of the filter empties the view and asks for the rows that pass it.
LEMMA RefilterGood ==
    ASSUME DetailGood, Key, InDetail, NEW level \in Level, NEW search \in Search,
           NEW kind \in {"search", "refetch"}, Asks(level, search, kind),
           Refilter(level, search, kind)
    PROVE  DetailGood'
<1> DEFINE s == active
           d == det[s]
           had == Len(logs[s])
           e == [d EXCEPT !.level = level, !.search = search, !.logs = <<>>, !.scroll = 0,
                          !.cursor = 0, !.paused = FALSE, !.backfilled = FALSE, !.pending = TRUE,
                          !.asked = keys + 1, !.took = 0, !.had = had, !.stray = FALSE]
<1>1. /\ s \in Sessions /\ keys \in Nat /\ logs[s] \in Seq(Row) /\ d \in Viewed
      /\ det \in [Sessions -> Viewed] /\ sub \in [Sessions -> Target \union {None}]
      /\ d.target # None /\ view = "detail"
  BY DEF DetailGood, DetailRest, ShownGood, InDetail
<1>2. d.target \in DOMAIN Live[s]
  BY <1>1 DEF DetailGood, ViewsGood, ViewGood
<1>3. had \in Nat /\ keys + 1 \in Nat /\ <<>> \in Seq(Line) /\ Len(<<>>) = 0
  <2>1. had \in Nat
    BY <1>1, LenProperties
  <2>2. keys + 1 \in Nat
    BY <1>1
  <2>3. QED
    BY <2>1, <2>2, EmptySeq
<1>4. ResetLogs([d EXCEPT !.level = level, !.search = search], s) = e
  BY <1>1 DEF ResetLogs, Viewed
<1>5. /\ det' = [det EXCEPT ![s] = e]
      /\ queries' = queries \union {Query(s, e, kind)}
      /\ UNCHANGED <<sub, view, active>>
  BY <1>4 DEF Refilter
<1> HIDE DEF had, d
<1>6. e \in Viewed
  BY <1>1, <1>3 DEF Viewed
<1>7. /\ e.target = d.target /\ e.level = level /\ e.search = search /\ e.logs = <<>>
      /\ ~e.backfilled /\ e.pending /\ e.asked = keys + 1 /\ e.had = had /\ ~e.stray
  BY <1>1 DEF Viewed
<1> HIDE DEF e
<1>8. ViewGood(s, e, logs[s], keys + 1)
  <2>1. Len(e.logs) <= Cap /\ e.asked <= keys + 1 /\ e.had <= Len(logs[s])
    <3>1. 0 <= Cap
      BY DetailNumbers
    <3>2. e.had <= had /\ e.asked <= keys + 1
      BY <1>3, <1>7
    <3>3. Len(e.logs) <= Cap
      BY <1>3, <1>7, <3>1
    <3>4. QED
      BY <3>2, <3>3 DEF had
  <2>2. \A x : <<>> \in Seq(OfScope(x))
    BY EmptySeq
  <2>3. e.target # None /\ e.target \in DOMAIN Live[s] \union {None}
    BY <1>1, <1>2, <1>7
  <2>4. QED
    BY <1>6, <1>7, <2>1, <2>2, <2>3, Zenon DEF ViewGood
<1>9. Follows(det[s], e, keys)
  <2>1. e.asked \notin 1..keys
    <3>1. keys + 1 \notin 1..keys
      BY <1>1
    <3>2. QED
      BY <1>7, <3>1
  <2>2. e.target # None
    BY <1>1, <1>7
  <2>3. QED
    BY <2>1, <2>2 DEF Follows
<1>10. det'[s] = e /\ \A t \in Sessions \ {s} : det'[t] = det[t]
  BY <1>1, <1>5
<1>11. QueryGood(Query(s, e, kind), det', logs, keys + 1)
  <2>1. ASSUME NEW t \in Sessions, det'[t].asked = keys + 1
        PROVE  t = s /\ det'[t].target = e.target /\ (IsSearchActive(det'[t]) => kind = "search")
    <3>1. t = s
      <4>1. det[t].asked \in Nat /\ det[t].asked <= keys
        BY DEF DetailGood, ViewsGood, ViewGood, Viewed
      <4>2. det[t].asked # keys + 1
        BY <1>1, <4>1
      <4>3. QED
        BY <1>10, <2>1, <4>2
    <3>2. det'[t] = e
      BY <1>10, <3>1
    <3>3. IsSearchActive(e) => kind = "search"
      BY <1>7, Zenon DEF IsSearchActive, Asks
    <3>4. QED
      BY <3>1, <3>2, <3>3
  <2>2. e.target \in DOMAIN Live[s] /\ det'[s].target # None
    BY <1>1, <1>2, <1>7, <1>10
  <2>3. QED
    BY <1>1, <2>1, <2>2, NewQueryGood
<1>12. \A q \in queries' : q \in queries \/ QueryGood(q, det', logs, keys + 1)
  BY <1>5, <1>11
<1>13. ShownGood'
  <2>1. det'[active'].target # None /\ queries' # {}
    BY <1>1, <1>5, <1>7, <1>10
  <2>2. QED
    BY <2>1 DEF ShownGood
<1>14. /\ sub' \in [Sessions -> Target \union {None}] /\ active' \in Sessions
       /\ view' \in {"dashboard", "alerts", "detail"}
  BY <1>1, <1>5
<1>15. QED
  BY <1>5, <1>8, <1>9, <1>12, <1>13, <1>14, KeyGood

LEMMA NextLevelKnown ==
    ASSUME NEW level \in Level
    PROVE  NextLevel(level) \in Level
<1> DEFINE i == CHOOSE i \in DOMAIN Levels : Levels[i] = level
<1>1. Levels \in Seq(STRING)
  BY DetailAssumption
<1>2. Len(Levels) \in Nat /\ DOMAIN Levels = 1..Len(Levels)
  BY <1>1, LenProperties
<1>3. i \in DOMAIN Levels
  BY DEF Level
<1> HIDE DEF i
<1>4. i \in Nat /\ Len(Levels) > 0
  BY <1>2, <1>3
<1>5. (i % Len(Levels)) \in 0..(Len(Levels) - 1)
  BY <1>2, <1>4
<1>6. (i % Len(Levels)) + 1 \in DOMAIN Levels
  BY <1>2, <1>5
<1>7. NextLevel(level) = Levels[(i % Len(Levels)) + 1]
  BY DEF NextLevel, i
<1>8. QED
  BY <1>6, <1>7 DEF Level

LEMMA FilterKeysGood ==
    ASSUME DetailGood, CycleLevel \/ ClearFilter \/ \E f \in Dialogs : UpdateFilterModal(f)
    PROVE  DetailGood'
<1> DEFINE d == det[active]
<1>1. d.level \in Level /\ d.search \in Search
  BY DEF DetailGood, DetailRest, Viewed
<1>2. "" \in Level /\ NoSearch \in Search /\ Dialogs \subseteq Search
  BY DetailAssumption DEF NoSearch, Search
<1>3. CASE CycleLevel
  <2>1. /\ Key /\ InDetail /\ Refilter(NextLevel(d.level), d.search, "search")
        /\ Asks(NextLevel(d.level), d.search, "search")
    BY <1>3 DEF CycleLevel, Asks
  <2>2. NextLevel(d.level) \in Level
    BY <1>1, NextLevelKnown
  <2> HIDE DEF d
  <2>3. QED
    BY <1>1, <2>1, <2>2, RefilterGood
<1>4. CASE ClearFilter
  <2>1. /\ Key /\ InDetail /\ Refilter("", NoSearch, "refetch")
        /\ Asks("", NoSearch, "refetch")
    BY <1>4 DEF ClearFilter, Asks
  <2>2. QED
    BY <1>2, <2>1, RefilterGood
<1>5. CASE \E f \in Dialogs : UpdateFilterModal(f)
  <2>1. PICK f \in Dialogs : UpdateFilterModal(f)
    BY <1>5
  <2> DEFINE kind == IF d.level # "" \/ f # NoSearch THEN "search" ELSE "refetch"
  <2>2. Key /\ InDetail /\ Refilter(d.level, f, kind)
    BY <2>1 DEF UpdateFilterModal
  <2>3. kind \in {"search", "refetch"} /\ Asks(d.level, f, kind)
    BY DEF Asks
  <2>4. f \in Search
    BY <1>2
  <2> HIDE DEF kind, d
  <2>5. QED
    BY <1>1, <2>2, <2>3, <2>4, RefilterGood
<1>6. QED
  BY <1>3, <1>4, <1>5

LEMMA LeaveGood ==
    ASSUME DetailGood,
           (\E v \in {"dashboard", "alerts"} : Leave(v)) \/ \E s \in Sessions : SwitchServer(s)
    PROVE  DetailGood'
<1>1. /\ Key /\ UNCHANGED <<det, queries>> /\ Left /\ active' \in Sessions
      /\ view' \in {"dashboard", "alerts"}
  BY DEF Leave, SwitchServer, DetailGood, DetailRest
<1>2. QED
  BY <1>1, SameViewsGood

LEMMA DetailGoodNext == DetailGood /\ [DetailNext]_detailVars => DetailGood'
<1> SUFFICES ASSUME DetailGood, [DetailNext]_detailVars PROVE DetailGood'
  OBVIOUS
<1>1. CASE Agent
  <2>1. PICK s \in Sessions : \E c \in Containers(s) :
            (\E k \in Written[c] : Publish(s, c, k)) \/ InsertLogs(s, c)
    BY <1>1 DEF Agent
  <2>2. PICK c \in Containers(s) : (\E k \in Written[c] : Publish(s, c, k)) \/ InsertLogs(s, c)
    BY <2>1
  <2>3. c \in Container
    BY TargetsKnown DEF Containers
  <2>4. ASSUME NEW k \in Written[c], Publish(s, c, k)
        PROVE  DetailGood'
    BY <2>3, <2>4, PublishGood
  <2>5. CASE InsertLogs(s, c)
    BY <2>3, <2>5, InsertLogsGood
  <2>6. QED
    BY <2>2, <2>4, <2>5
<1>2. CASE Keys
  <2>1. CASE \E t \in Target : EnterDetail(t) \/ EnterDetailByContainerID(t)
    BY <2>1, EnterDetailGood
  <2>2. CASE (\E v \in {"dashboard", "alerts"} : Leave(v)) \/ \E s \in Sessions : SwitchServer(s)
    BY <2>2, LeaveGood
  <2>3. CASE HandleZoom
    BY <2>3, HandleZoomGood
  <2>4. CASE CycleLevel \/ ClearFilter \/ \E f \in Dialogs : UpdateFilterModal(f)
    BY <2>4, FilterKeysGood
  <2>5. CASE \E k \in {"j", "k", "ctrl+d", "ctrl+u", "gg", "G"} : Scroll(k)
    BY <2>5, ScrollGood
  <2>6. QED
    BY <1>2, <2>1, <2>2, <2>3, <2>4, <2>5, Zenon DEF Keys
<1>3. CASE Answers
  <2>1. PICK q \in queries :
            BuildLogReq(q) \/ QueryLogs(q) \/ FailQuery(q) \/ DetailLogQueryMsg(q)
    BY <1>3 DEF Answers
  <2>2. QED
    BY <2>1, BuildLogReqGood, QueryLogsGood, FailQueryGood, DetailLogQueryMsgGood
<1>4. CASE Render
  BY <1>4, RenderGood
<1>5. CASE \E s \in Sessions : LogMsg(s)
  BY <1>5, LogMsgGood
<1>6. CASE UNCHANGED detailVars
  <2>1. UNCHANGED <<lines, batch, logs, wire, sub, det, view, active, queries, keys, fails>>
    BY <1>6 DEF detailVars, agent
  <2>2. QED
    BY <2>1
       DEF DetailGood, DetailRest, ShownGood, InDetail, ViewsGood, QueriesGood
<1>7. QED
  BY <1>1, <1>2, <1>3, <1>4, <1>5, <1>6 DEF DetailNext

LEMMA DetailGoodAlways == DetailSpec => []DetailGood
  BY DetailGoodInit, DetailGoodNext, PTL DEF DetailSpec

\* DetailInv is an invariant: every step keeps each view and each query good.
THEOREM DetailInvariant == DetailSpec => []DetailInv
  BY DetailGoodAlways, DetailGoodIsInv, PTL

\* The lines of a view are lines of its target (handleBackfill, onStreamEntry), unless
\* the answer that was taken was built for another target or asked of another server.
THEOREM ViewsAreRight == DetailSpec => []ViewsRight
<1>1. DetailInv => ViewsRight
  BY DEF DetailInv
<1>2. QED
  BY <1>1, DetailInvariant, PTL

\* A filtered view that took its own answer shows the newest matching rows
\* (fireSearch, handleBackfill, onStreamEntry).
THEOREM FiltersAreExact == DetailSpec => []FilterExact
<1>1. DetailInv => FilterExact
  BY DEF DetailInv
<1>2. QED
  BY <1>1, DetailInvariant, PTL

\* An open view loads only while a query is under way (onSwitch, resetLogs, and the
\* answers that Update hands to handleBackfill).
THEOREM LoadingEnds == DetailSpec => []LoadingIsAwaited
<1>1. DetailInv => LoadingIsAwaited
  BY DEF DetailInv
<1>2. QED
  BY <1>1, DetailInvariant, PTL

-----------------------------------------------------------------------------
(* DetailView: a paused view does not move *)

\* The ring is appended to, or loses its oldest line.
LEMMA PushOne ==
    ASSUME NEW T, NEW ring \in Seq(T), Len(ring) <= Cap, NEW line \in T
    PROVE  LET p == Push(ring, <<line>>)
           IN \/ /\ Len(ring) < Cap /\ Len(p) = Len(ring) + 1
                 /\ \A i \in 1..Len(ring) : p[i] = ring[i]
              \/ /\ Len(ring) = Cap /\ Len(p) = Cap
                 /\ \A i \in 1..(Cap - 1) : p[i] = ring[i + 1]
<1> DEFINE one == <<line>>
           all == ring \o one
           m == Most(1, Len(all) - Cap + 1)
           p == Push(ring, one)
<1>1. Len(ring) \in Nat /\ one \in Seq(T) /\ Len(one) = 1
  BY LenProperties
<1> HIDE DEF one
<1>2. /\ all \in Seq(T) /\ Len(all) = Len(ring) + 1
      /\ \A i \in 1..Len(ring) : all[i] = ring[i]
  <2>1. /\ all \in Seq(T) /\ Len(all) = Len(ring) + Len(one)
        /\ \A i \in 1..(Len(ring) + Len(one)) :
              all[i] = IF i <= Len(ring) THEN ring[i] ELSE one[i - Len(ring)]
    BY <1>1, ConcatProperties
  <2> HIDE DEF all
  <2>2. QED
    BY <1>1, <2>1
<1>3. p = SubSeq(all, m, Len(all))
  BY DEF Push
<1> HIDE DEF all, p
<1>4. CASE Len(ring) < Cap
  <2>1. m = 1
    BY <1>1, <1>2, <1>4, DetailNumbers DEF Most
  <2>2. p = all
    BY <1>2, <1>3, <2>1, SubSeqFull
  <2>3. QED
    BY <1>2, <1>4, <2>2 DEF p, one
<1>5. CASE Len(ring) = Cap
  <2>1. m = 2
    BY <1>1, <1>2, <1>5, DetailNumbers DEF Most
  <2> HIDE DEF m
  <2>2. /\ Len(p) = IF m <= Len(all) THEN Len(all) - m + 1 ELSE 0
        /\ \A i \in 1..(Len(all) - m + 1) : p[i] = all[m + i - 1]
    BY <1>1, <1>2, <1>3, <2>1, SlicesType
  <2>3. Len(p) = Cap
    BY <1>2, <1>5, <2>1, <2>2, DetailNumbers
  <2>4. ASSUME NEW i \in 1..(Cap - 1) PROVE p[i] = ring[i + 1]
    <3>1. i \in 1..(Len(all) - m + 1) /\ m + i - 1 = i + 1 /\ i + 1 \in 1..Len(ring)
      BY <1>2, <1>5, <2>1, DetailNumbers
    <3>2. QED
      BY <1>2, <2>2, <3>1
  <2>5. QED
    BY <1>5, <2>3, <2>4 DEF p, one
<1>6. QED
  BY <1>1, <1>4, <1>5, DetailNumbers

LEMMA StreamedStable ==
    ASSUME NEW d \in Viewed, Len(d.logs) <= Cap, NEW live, NEW line \in Line, d.paused,
           Visible(d) # <<>>
    PROVE  LET e == OnStreamEntry(d, live, line)
           IN \/ Visible(e) # <<>> /\ Last(Visible(e)) = Last(Visible(d))
              \/ Visible(e) = <<>> /\ Len(d.logs) = Cap
                    /\ VisibleLogWindow(d, FilteredData(d)).end = 1
<1> DEFINE e == OnStreamEntry(d, live, line)
           p == Push(d.logs, <<line>>)
           n == Len(d.logs)
<1>1. CASE e = d
  BY <1>1
<1>2. CASE e # d
  <2>1. ~IsSearchActive(d) /\ e = [d EXCEPT !.logs = p, !.scroll = d.scroll + 1]
    BY <1>2 DEF OnStreamEntry
  <2>2. d.logs \in Seq(Line) /\ d.scroll \in Nat /\ <<line>> \in Seq(Line)
    BY DEF Viewed
  <2>3. p \in Seq(Line)
    BY <2>2, PushKeeps
  <2>4. \/ /\ n < Cap /\ Len(p) = n + 1
           /\ \A i \in 1..n : p[i] = d.logs[i]
        \/ /\ n = Cap /\ Len(p) = Cap
           /\ \A i \in 1..(Cap - 1) : p[i] = d.logs[i + 1]
    BY <2>2, PushOne
  <2>5. n \in Nat
    BY <2>2, LenProperties
  <2> HIDE DEF p, n, e
  <2>6. /\ e.logs = p /\ e.scroll = d.scroll + 1 /\ e.level = d.level /\ e.search = d.search
    BY <2>1 DEF Viewed
  <2>7. ~IsSearchActive(e)
    BY <2>1, <2>6, Zenon DEF IsSearchActive
  <2>8. FilteredData(d) = d.logs /\ FilteredData(e) = p
    BY <2>1, <2>2, <2>3, <2>6, <2>7, Unfiltered
  <2> DEFINE end == Most(0, n - d.scroll)
             next == Most(0, Len(p) - (d.scroll + 1))
  <2>9. /\ end \in Nat /\ end <= n /\ (Visible(d) = <<>> <=> end = 0)
        /\ end > 0 => Last(Visible(d)) = d.logs[end]
    BY <2>2, <2>8, LastVisible DEF n
  <2>10. /\ next \in Nat /\ next <= Len(p) /\ (Visible(e) = <<>> <=> next = 0)
         /\ next > 0 => Last(Visible(e)) = p[next]
    <3>1. e.logs \in Seq(Line) /\ e.scroll \in Nat
      BY <2>2, <2>3, <2>6
    <3>2. QED
      BY <2>6, <2>8, <3>1, LastVisible
  <2>11. end > 0
    BY <2>9
  <2>12. CASE n < Cap /\ Len(p) = n + 1 /\ \A i \in 1..n : p[i] = d.logs[i]
    <3>1. next = end
      <4>1. Len(p) = n + 1 /\ d.scroll \in Nat
        BY <2>2, <2>12
      <4>2. Len(p) - (d.scroll + 1) = n - d.scroll
        BY <2>5, <4>1
      <4>3. QED
        BY <4>2
    <3> HIDE DEF next, end
    <3>2. p[end] = d.logs[end]
      BY <2>5, <2>9, <2>11, <2>12
    <3>3. Visible(e) # <<>> /\ Last(Visible(e)) = Last(Visible(d))
      BY <2>9, <2>10, <2>11, <3>1, <3>2
    <3>4. QED
      BY <3>3 DEF e
  <2>13. CASE n = Cap /\ Len(p) = Cap /\ \A i \in 1..(Cap - 1) : p[i] = d.logs[i + 1]
    <3>1. next = end - 1
      BY <2>2, <2>5, <2>11, <2>13 DEF Most
    <3> HIDE DEF next
    <3>2. CASE end = 1
      <4>1. VisibleLogWindow(d, d.logs).end = end
        BY <2>2, WindowShape DEF n
      <4>2. Visible(e) = <<>>
        BY <2>10, <3>1, <3>2
      <4>3. QED
        BY <2>8, <2>13, <3>2, <4>1, <4>2 DEF e, n
    <3>3. CASE end # 1
      <4> HIDE DEF end
      <4>1. next \in 1..(Cap - 1) /\ next + 1 = end /\ next > 0
        BY <2>9, <2>11, <2>13, <3>1, <3>3, DetailNumbers
      <4>2. p[next] = d.logs[end]
        BY <2>13, <4>1
      <4>3. Visible(e) # <<>> /\ Last(Visible(e)) = Last(Visible(d))
        BY <2>9, <2>10, <2>11, <4>1, <4>2
      <4>4. QED
        BY <4>3 DEF e
    <3>4. QED
      BY <3>2, <3>3
  <2>14. QED
    BY <2>4, <2>12, <2>13
<1>3. QED
  BY <1>1, <1>2

\* A streamed line does not move a paused view (onStreamEntry counts it into the
\* scroll).
THEOREM PausedStays == DetailSpec => PausedStable
<1> DEFINE Stable(s) ==
              LET d == det[s] IN
              (LogMsg(s) /\ InDetail /\ active = s /\ d.paused /\ Visible(d) # <<>>) =>
                  \/ Visible(d') # <<>> /\ Last(Visible(d')) = Last(Visible(d))
                  \/ Visible(d') = <<>> /\ Len(d.logs) = Cap
                        /\ VisibleLogWindow(d, FilteredData(d)).end = 1
<1>1. ASSUME DetailGood, NEW s \in Sessions PROVE Stable(s)
  <2> SUFFICES ASSUME LogMsg(s), InDetail, active = s, det[s].paused, Visible(det[s]) # <<>>
               PROVE  LET d == det[s]
                      IN \/ Visible(d') # <<>> /\ Last(Visible(d')) = Last(Visible(d))
                         \/ Visible(d') = <<>> /\ Len(d.logs) = Cap
                               /\ VisibleLogWindow(d, FilteredData(d)).end = 1
    OBVIOUS
  <2> DEFINE d == det[s]
             live == IF d.target = None THEN {} ELSE Live[s][d.target]
             line == Head(wire[s])
             e == OnStreamEntry(d, live, line)
  <2>1. det' = [det EXCEPT ![s] = e] /\ wire[s] # <<>>
    BY DEF LogMsg
  <2>2. det \in [Sessions -> Viewed] /\ wire[s] \in Seq(Row)
    BY <1>1 DEF DetailGood, DetailRest
  <2>3. det'[s] = e /\ d \in Viewed /\ line \in Line
    <3>1. line \in Row
      BY <2>1, <2>2, HeadTailProperties
    <3>2. QED
      BY <2>1, <2>2, <3>1, ScopeSeparated
  <2>4. Len(d.logs) <= Cap
    BY <1>1 DEF DetailGood, ViewsGood, ViewGood
  <2> HIDE DEF live, line
  <2>5. \/ Visible(e) # <<>> /\ Last(Visible(e)) = Last(Visible(d))
        \/ Visible(e) = <<>> /\ Len(d.logs) = Cap
              /\ VisibleLogWindow(d, FilteredData(d)).end = 1
    <3> HIDE DEF d
    <3>1. d.paused /\ Visible(d) # <<>>
      BY DEF d
    <3>2. QED
      BY <2>3, <2>4, <3>1, StreamedStable
  <2> HIDE DEF e
  <2>6. QED
    BY <2>3, <2>5
<1>2. DetailGood => [\A s \in Sessions : Stable(s)]_detailVars
  BY <1>1
<1>3. QED
  BY <1>2, DetailGoodAlways, PTL DEF PausedStable
=============================================================================
