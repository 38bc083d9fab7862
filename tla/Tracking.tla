------------------------------ MODULE Tracking ------------------------------
(***************************************************************************)
(* Which containers are tracked: the collector's map and its collect cycle *)
(* (src/internal/agent/docker.go), the requests that change and read it    *)
(* over several connections (socket.go), its copy in the store             *)
(* (store_queries.go) and a restart (agent.go), the container events that  *)
(* make clients ask again (events.go), and what a client shows             *)
(* (src/internal/tui/app.go, app_connect.go, dashboard.go).                *)
(*                                                                         *)
(* Containers are known by their names; the metrics of a container are in  *)
(* module Metrics.  Answers reach Update in any order: each query runs in a *)
(* command of its own.                                                     *)
(***************************************************************************)
EXTENDS Integers, FiniteSets, Functions

CONSTANTS
    Name,       \* container names
    Project,    \* compose projects
    ProjectOf,  \* the project of each name
    AtStart,    \* the containers there are at first
    AutoTracked,\* the names shouldAutoTrack accepts
    Conn,       \* connections that toggle, one per client
    Viewer,     \* the one whose screen is followed
    StreamEnds, \* whether the event stream ever ends
    MaxSets,    \* bound: toggles
    MaxChurn,   \* bound: containers created and removed
    MaxRestarts \* bound: restarts of the agent

ASSUME TrackingAssumption ==
    /\ ProjectOf \in [Name -> Project] /\ Viewer \in Conn
    /\ AtStart \subseteq Name /\ AutoTracked \subseteq Name
    /\ StreamEnds \in BOOLEAN
    /\ MaxSets \in Nat /\ MaxChurn \in Nat /\ MaxRestarts \in Nat

VARIABLES
    present,   \* the containers Docker has
    event,     \* an event is on its way to the clients
    tracked,   \* d.tracked: a function from some names to BOOLEAN
    last,      \* d.lastContainers
    scan,      \* the collect cycle: where it is, what was listed, what is left
    saved,     \* the tracking_state table
    request,   \* each connection's setTracking: where it is, the copy it saves
    info,      \* the viewer's s.ContInfo: a function from names to BOOLEAN
    metrics,   \* the containers of the last metrics it got
    asking,    \* queryContainers it has sent
    answers,   \* answers that have not reached its Update
    decided,   \* history: the last manual decision about each name
    missed,    \* history: decisions about names a listing since did not have
    sets, savedSet,  \* history: toggles made; those in the copy saved last
    churn, restarts

docker == <<present, event, churn>>
agent  == <<tracked, last, scan, saved, request>>
client == <<info, metrics, asking, answers>>
hist   == <<decided, missed, sets, savedSet>>
vars == <<docker, agent, client, hist, restarts>>

Nowhere == [n \in {} |-> TRUE]
Override(f, names, val) == [n \in DOMAIN f \union names |-> IF n \in names THEN val ELSE f[n]]
Maps == UNION {[S -> BOOLEAN] : S \in SUBSET Name}

Idle == [at |-> "idle", listed |-> {}, todo |-> {}, name |-> {}, out |-> {}]
NoRequest == [at |-> "idle", names |-> {}, val |-> TRUE, copy |-> Nowhere, set |-> 0]

Init ==
    /\ present = AtStart /\ event = FALSE /\ churn = 0
    /\ tracked = Nowhere /\ last = {} /\ scan = Idle /\ saved = Nowhere
    /\ request = [c \in Conn |-> NoRequest]
    /\ info = Nowhere /\ metrics = {} /\ asking = 1 /\ answers = {}
    /\ decided = Nowhere /\ missed = {} /\ sets = 0 /\ savedSet = 0 /\ restarts = 0

-----------------------------------------------------------------------------
\* Docker (external) and the event watcher.

Churn(n) ==
    /\ churn < MaxChurn /\ churn' = churn + 1
    /\ present' = IF n \in present THEN present \ {n} ELSE present \union {n}
    /\ event' = TRUE
    /\ UNCHANGED <<agent, client, hist, restarts>>

\* handleEvent publishes; a client answers it with queryContainersCmd.
HandleEvent ==
    /\ event /\ event' = FALSE
    /\ asking' = asking + 1
    /\ UNCHANGED <<present, churn, agent, info, metrics, answers, hist, restarts>>

\* watch has returned and Run waits for its backoff: the event is lost.
MissEvent ==
    /\ StreamEnds /\ event /\ event' = FALSE
    /\ UNCHANGED <<present, churn, agent, client, hist, restarts>>

-----------------------------------------------------------------------------
\* Collect: list, one container after another, then lastContainers and, in a
\* lock of its own, the pruning of the map.

CollectList ==
    /\ scan.at = "idle"
    /\ scan' = [Idle EXCEPT !.at = "loop", !.listed = present, !.todo = present]
    /\ missed' = missed \union (DOMAIN decided \ present)
    /\ UNCHANGED <<docker, tracked, last, saved, request, client, decided, sets, savedSet, restarts>>

\* The next container, in the order of the list; the first lock reads whether
\* it is known.
CollectNext ==
    /\ scan.at = "loop" /\ scan.todo # {}
    /\ LET n == CHOOSE x \in scan.todo : TRUE
           seen == n \in DOMAIN tracked
       IN  scan' = [scan EXCEPT !.todo = @ \ {n},
                                !.at = IF seen THEN "loop" ELSE "auto",
                                !.name = IF seen THEN {} ELSE {n},
                                !.out = IF seen /\ tracked[n] THEN @ \union {n} ELSE @]
    /\ UNCHANGED <<docker, tracked, last, saved, request, client, hist, restarts>>

\* The second lock looks again before it writes shouldAutoTrack's verdict.
MutantUnseen(n) == TRUE
Unseen(n) == n \notin DOMAIN tracked

CollectAuto ==
    /\ scan.at = "auto"
    /\ \E n \in scan.name :
        /\ tracked' = IF Unseen(n) THEN Override(tracked, {n}, n \in AutoTracked) ELSE tracked
        /\ scan' = [scan EXCEPT !.at = "loop", !.name = {},
                                !.out = IF tracked'[n] THEN @ \union {n} ELSE @]
    /\ UNCHANGED <<docker, last, saved, request, client, hist, restarts>>

CollectLast ==
    /\ scan.at = "loop" /\ scan.todo = {}
    /\ last' = scan.listed
    /\ scan' = [scan EXCEPT !.at = "prune"]
    /\ UNCHANGED <<docker, tracked, saved, request, client, hist, restarts>>

\* The rest of the cycle publishes the metrics of the tracked containers.
CollectPrune ==
    /\ scan.at = "prune"
    /\ tracked' = Restrict(tracked, DOMAIN tracked \intersect scan.listed)
    /\ metrics' = scan.out
    /\ scan' = Idle
    /\ UNCHANGED <<docker, last, saved, request, info, asking, answers, hist, restarts>>

-----------------------------------------------------------------------------
\* setTracking: the map under its lock, a copy under a second, the table.

\* toggleTracking sends the opposite of what the viewer's screen shows.  A
\* container that is shown by its metrics but is not in ContInfo has no name to
\* send: the agent refuses the request, and the client asks for the list all
\* the same.  Another client's screen may show any container, one that is gone
\* or not listed yet included.
Shown == metrics \union DOMAIN info
IsContainerTracked(n) == n \in DOMAIN info /\ info[n]
IsProjectTracked(p) == \E n \in DOMAIN info : ProjectOf[n] = p /\ info[n]

Send(c, names, val) ==
    /\ request[c].at = "idle" /\ sets < MaxSets
    /\ request' = [request EXCEPT ![c] = [at |-> "sent", names |-> names, val |-> val,
                                                copy |-> Nowhere, set |-> 0]]
    /\ sets' = sets + 1
    /\ UNCHANGED <<docker, tracked, last, scan, saved, client, decided, missed, savedSet, restarts>>

ToggleContainer(n) ==
    /\ n \in Shown
    /\ Send(Viewer, {n} \intersect DOMAIN info, ~IsContainerTracked(n))

ToggleProject(p) ==
    /\ \E n \in Shown : ProjectOf[n] = p
    /\ Send(Viewer, {p}, ~IsProjectTracked(p))

ToggleElsewhere(c) ==
    \E n \in Name, val \in BOOLEAN : c # Viewer /\ Send(c, {n}, val)

Targets(names) == {n \in Name : n \in names \/ (ProjectOf[n] \in names /\ n \in last)}

\* The answer gives the viewer trackingDoneMsg: it asks for the list again.
Answered(c) ==
    /\ request' = [request EXCEPT ![c] = NoRequest]
    /\ asking' = IF c = Viewer THEN asking + 1 ELSE asking

SetTracking(c) ==
    /\ request[c].at = "sent"
    /\ LET r == request[c]
           t == Targets(r.names)
       IN  IF r.names = {}
           THEN /\ Answered(c)
                /\ UNCHANGED <<tracked, decided, missed>>
           ELSE /\ tracked' = Override(tracked, t, r.val)
                /\ request' = [request EXCEPT ![c] = [NoRequest EXCEPT !.at = "set"]]
                /\ decided' = Override(decided, t, r.val)
                /\ missed' = (missed \ t) \union
                             (IF scan.at = "idle" THEN {} ELSE t \ scan.listed)
                /\ UNCHANGED asking
    /\ UNCHANGED <<docker, last, scan, saved, info, metrics, answers, sets, savedSet, restarts>>

\* The toggles applied so far.
Sending == {c \in Conn : request[c].at = "sent"}
Applied == sets - Cardinality(Sending)

GetTrackingState(c) ==
    /\ request[c].at = "set"
    /\ request' = [request EXCEPT ![c] = [@ EXCEPT !.at = "copied", !.copy = tracked, !.set = Applied]]
    /\ UNCHANGED <<docker, tracked, last, scan, saved, client, hist, restarts>>

\* One transaction, best-effort; the request is answered either way.
MutantTable(c) == Restrict(request[c].copy, {n \in DOMAIN request[c].copy : request[c].copy[n]})
Table(c) == request[c].copy

SaveTracking(c) ==
    /\ request[c].at = "copied"
    /\ \/ saved' = Table(c) /\ savedSet' = request[c].set
       \/ UNCHANGED <<saved, savedSet>>
    /\ Answered(c)
    /\ UNCHANGED <<docker, tracked, last, scan, info, metrics, answers, decided, missed, sets, restarts>>

\* queryContainers: the last list with what is tracked now; Update takes the
\* answers in any order.
Answer == [n \in last |-> n \in DOMAIN tracked /\ tracked[n]]

QueryContainers ==
    /\ asking > 0
    /\ asking' = asking - 1
    /\ answers' = answers \union {Answer}
    /\ UNCHANGED <<docker, agent, info, metrics, hist, restarts>>

SessionContainers ==
    /\ \E a \in answers : info' = a /\ answers' = answers \ {a}
    /\ UNCHANGED <<docker, agent, metrics, asking, hist, restarts>>

\* The agent ends at any point and is started again: New loads the table.
\* The clients are started again too; a restored entry counts as decided.
Restart ==
    /\ restarts < MaxRestarts /\ restarts' = restarts + 1
    /\ tracked' = saved /\ last' = {} /\ scan' = Idle
    /\ request' = [c \in Conn |-> NoRequest]
    /\ info' = Nowhere /\ metrics' = {} /\ asking' = 1 /\ answers' = {}
    /\ decided' = saved /\ missed' = {} /\ savedSet' = sets
    /\ event' = FALSE
    /\ UNCHANGED <<present, churn, saved, sets>>

-----------------------------------------------------------------------------
Collect ==
    CollectList \/ CollectNext \/ CollectAuto \/ CollectLast \/ CollectPrune

Serve(c) ==
    SetTracking(c) \/ GetTrackingState(c) \/ SaveTracking(c)

Refresh == HandleEvent \/ QueryContainers \/ SessionContainers

Next ==
    \/ Collect \/ Refresh \/ MissEvent \/ Restart
    \/ \E n \in Name : Churn(n) \/ ToggleContainer(n)
    \/ \E p \in Project : ToggleProject(p)
    \/ \E c \in Conn : Serve(c) \/ ToggleElsewhere(c)

Spec == Init /\ [][Next]_vars

-----------------------------------------------------------------------------
Requests == [at : {"idle", "sent", "set", "copied"}, names : SUBSET (Name \union Project),
             val : BOOLEAN, copy : Maps, set : 0..sets]
Scans == [at : {"idle", "loop", "auto", "prune"}, listed : SUBSET Name, todo : SUBSET Name,
          name : SUBSET Name, out : SUBSET Name]

TypeOK ==
    /\ present \subseteq Name /\ last \subseteq Name
    /\ event \in BOOLEAN
    /\ tracked \in Maps /\ saved \in Maps /\ decided \in Maps
    /\ scan \in Scans
    /\ request \in [Conn -> Requests]
    /\ info \in Maps /\ metrics \subseteq Name /\ asking \in Nat /\ answers \subseteq Maps
    /\ missed \subseteq Name /\ sets \in 0..MaxSets /\ savedSet \in 0..sets

\* f has every decision that no listing has cost.
Agrees(f) == \A n \in DOMAIN decided \ missed : n \in DOMAIN f /\ f[n] = decided[n]

\* "Manual toggles (already in map) are never overridden" (docker.go): what the
\* user decided last about a container is what the map says, however collect
\* cycles and other clients' toggles fall, unless a listing since then did not
\* have the container.
ManualWins == Agrees(tracked)

\* When the copy saved last was taken after the last toggle, a restart brings
\* every decision back, also while older copies wait to be saved.  A failed
\* save, or two connections that save in the order other than that of their
\* copies, leaves an older copy in the table.
DecisionsSaved == savedSet = sets => Agrees(saved)

\* The maps are well formed and hold what the users decided (SetTracking, Collect).
DecisionsHold == TypeOK /\ ManualWins

\* What makes the two inductive.  A cycle that will prune has listed every
\* container with a decision to keep; the toggles under way are counted; and a
\* copy that counts every toggle was taken when none was left to apply.
ListedDecisions == scan.at # "idle" => DOMAIN decided \ missed \subseteq scan.listed
SentCounted == IsFiniteSet(Sending) /\ Cardinality(Sending) <= sets
CopiesAgree ==
    /\ \A c \in Conn : request[c].at = "copied" /\ request[c].set = sets =>
          Sending = {} /\ Agrees(request[c].copy)
    /\ savedSet = sets => Sending = {} /\ Agrees(saved)
IInv == TypeOK /\ ManualWins /\ ListedDecisions /\ SentCounted /\ CopiesAgree
=============================================================================
