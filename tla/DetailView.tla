----------------------------- MODULE DetailView -----------------------------
(***************************************************************************)
(* The log half of the client's detail view (src/internal/tui/detail.go,   *)
(* detail_log.go, detail_key.go, the log cases of app.go and the keys that *)
(* open and leave the view in app_key.go and alerts.go), with the agent it *)
(* asks: queryLogs (src/internal/agent/socket.go), the logs table          *)
(* (store_queries.go) and the order in which a tailer publishes and stores *)
(* (logs.go; module LogTailer has the tailer itself).                      *)
(*                                                                         *)
(* A query is a command: a goroutine that builds its request from the      *)
(* shared DetailState when it starts, and whose answer Update gives to the *)
(* session that is active when it arrives.  The answers of one connection  *)
(* and the lines streamed over it do not wait for one another.             *)
(***************************************************************************)
EXTENDS Integers, Sequences, FiniteSets, SequencesExt

CONSTANTS
    Sessions,   \* the sessions, all connected
    First,      \* the one that is active at first
    Container,  \* containers of all servers; their IDs are unique
    Target,     \* what can be opened: containers and projects
    Live,       \* Live[s][t]: the containers whose stream a view of t takes
    Scope,      \* Scope[s][t]: the containers whose stored lines it asks for
    Name,       \* Name[c]: c's name; a container that is redeployed keeps it
    Written,    \* Written[c]: the lines c writes: level, hit (the search matches), second
    Stored,     \* Stored[s]: the rows of the logs table when the client starts
    SeparatorHit, \* the search matches the text of a deploy separator
    Windows,    \* what now - range .. now can be when a query is built: [from, to]
    Levels,     \* the cycle of the level filter, "" first
    Dialogs,    \* what the filter dialog can be left with: [re, from, to]
    Cap,        \* logBufCapacity
    Height,     \* logAreaHeight
    SecPerDay,  \* seconds per day, for the date headers
    None,
    MaxLines, MaxKeys, MaxFails \* bounds: lines published, keys, failures

\* A line of the view: one that a container wrote, or a deploy separator (n = 0).
Line == [n : Nat, c : Container, at : Nat, lvl : STRING, hit : BOOLEAN]
Row == {line \in Line : line.n > 0}
Window == [from : Nat, to : Nat]
Search == [re : BOOLEAN, from : Nat, to : Nat]
Level == {Levels[i] : i \in DOMAIN Levels}

ASSUME DetailAssumption ==
    /\ DOMAIN Live = Sessions /\ DOMAIN Scope = Sessions
    /\ \A s \in Sessions :
          /\ DOMAIN Live[s] \subseteq Target /\ DOMAIN Scope[s] = DOMAIN Live[s]
          /\ \A t \in DOMAIN Live[s] :
                Live[s][t] \subseteq Scope[s][t] /\ Scope[s][t] \subseteq Container
    /\ Written \in [Container -> SUBSET [lvl : STRING, hit : BOOLEAN, at : Nat]]
    /\ Levels \in Seq(STRING) /\ "" \in Level /\ Dialogs \subseteq Search
    /\ {Cap, Height, SecPerDay} \subseteq Nat \ {0} /\ None \notin Target /\ First \in Sessions
    /\ {MaxLines, MaxKeys, MaxFails} \subseteq Nat

ASSUME RowsAssumption ==
    /\ DOMAIN Name = Container /\ SeparatorHit \in BOOLEAN
    /\ Windows \subseteq Window /\ Stored \in [Sessions -> Seq(Row)]

VARIABLES
    lines,    \* lines published since, on all servers
    batch,    \* batch[c]: what the tailer of c has published and not yet stored
    logs,     \* logs[s]: the logs table, in the order of insertion
    wire,     \* wire[s]: lines streamed to the client, not yet delivered
    sub,      \* sub[s]: the target this connection is subscribed to
    det,      \* det[s]: s.Detail
    view, active,
    queries,  \* log queries whose answer has not been applied
    keys, fails

agent == <<lines, batch, logs>>
detailVars  == <<agent, wire, sub, det, view, active, queries, keys, fails>>

NoSearch == [re |-> FALSE, from |-> 0, to |-> 0]

\* History: asked, the query of the last change of the filter, and had, the rows
\* stored by then; took, the query whose answer was taken; stray, an answer was
\* taken whose request was built when another target had been opened, or was made
\* to another server.
Fresh(t) ==
    [target |-> t, logs |-> <<>>, backfilled |-> FALSE, pending |-> FALSE,
     level |-> "", search |-> NoSearch,
     scroll |-> 0, cursor |-> 0, paused |-> FALSE,
     asked |-> 0, took |-> 0, had |-> 0, stray |-> FALSE]

DetailInit ==
    /\ lines = 0
    /\ batch = [c \in Container |-> <<>>] /\ logs = Stored
    /\ wire = [s \in Sessions |-> <<>>] /\ sub = [s \in Sessions |-> None]
    /\ det = [s \in Sessions |-> Fresh(None)]
    /\ view = "dashboard" /\ active = First
    /\ queries = {} /\ keys = 0 /\ fails = 0

-----------------------------------------------------------------------------
\* The agent: a tailer publishes a line when it has read it and stores it with its
\* batch.  The time of a line is the one Docker gives it: the tailers of a server are
\* not in step, and one that has just started reads older lines.
Containers(s) == UNION {Live[s][t] : t \in DOMAIN Live[s]}

Publish(s, c, kind) ==
    /\ lines < MaxLines /\ lines' = lines + 1
    /\ LET line == [n |-> lines', c |-> c, at |-> kind.at, lvl |-> kind.lvl, hit |-> kind.hit] IN
         /\ batch' = [batch EXCEPT ![c] = Append(@, line)]
         /\ wire' = IF sub[s] # None /\ c \in Live[s][sub[s]]
                      THEN [wire EXCEPT ![s] = Append(@, line)] ELSE wire
    /\ UNCHANGED <<logs, sub, det, view, active, queries, keys, fails>>

\* A batch that the store refuses is dropped.
InsertLogs(s, c) ==
    /\ batch[c] # <<>> /\ batch' = [batch EXCEPT ![c] = <<>>]
    /\ \/ logs' = [logs EXCEPT ![s] = @ \o batch[c]] /\ fails' = fails
       \/ fails < MaxFails /\ fails' = fails + 1 /\ logs' = logs
    /\ UNCHANGED <<lines, wire, sub, det, view, active, queries, keys>>

-----------------------------------------------------------------------------
\* What the view shows.

Matches(line, level, search) ==
    /\ level # "" => line.lvl = level
    /\ search.re => line.hit
    /\ search.from > 0 => line.at >= search.from
    /\ search.to > 0 => line.at <= search.to

IsSearchActive(d) == d.level # "" \/ d.search # NoSearch

\* The elements of a sequence at some of its places, in their order.
Nth(places, k) == CHOOSE i \in places : Cardinality({j \in places : j <= i}) = k
At(seq, places) == [k \in 1..Cardinality(places) |-> seq[Nth(places, k)]]

FilteredData(d) == At(d.logs, {i \in DOMAIN d.logs : Matches(d.logs[i], d.level, d.search)})

Least(a, b) == IF a < b THEN a ELSE b
Most(a, b) == IF a > b THEN a ELSE b

\* What a ring buffer of Cap entries keeps.
Push(ring, s) == LET all == ring \o s IN SubSeq(all, Most(1, Len(all) - Cap + 1), Len(all))

Day(line) == line.at \div SecPerDay

CountDateChanges(data) ==
    IF data = <<>> THEN 0
    ELSE 1 + Cardinality({i \in 2..Len(data) : Day(data[i]) # Day(data[i - 1])})

\* [start, end]: the visible entries are start+1..end.
VisibleLogWindow(d, data) ==
    LET end == Most(0, Len(data) - d.scroll)
        slots == Most(1, Height - CountDateChanges(SubSeq(data, Most(0, end - Height) + 1, end)))
    IN [start |-> Most(0, end - slots), end |-> end]

Visible(d) ==
    LET data == FilteredData(d)
        w == VisibleLogWindow(d, data)
    IN SubSeq(data, w.start + 1, w.end)

InDetail == view = "detail"

-----------------------------------------------------------------------------
\* Streamed lines.

MutantOnStreamEntry(d, live, line) ==
    IF d.target = None \/ line.c \notin live THEN d
    ELSE IF IsSearchActive(d) THEN d
    ELSE [d EXCEPT !.logs = Push(@, <<line>>)]

OnStreamEntry(d, live, line) ==
    IF d.target = None \/ line.c \notin live THEN d
    ELSE IF IsSearchActive(d) THEN d
    ELSE [d EXCEPT !.logs = Push(@, <<line>>),
                   !.scroll = IF d.paused THEN @ + 1 ELSE @]

LogMsg(s) ==
    /\ wire[s] # <<>>
    /\ wire' = [wire EXCEPT ![s] = Tail(@)]
    /\ det' = IF InDetail /\ s = active
                THEN [det EXCEPT ![s] =
                        OnStreamEntry(@, IF @.target = None THEN {} ELSE Live[s][@.target],
                                      Head(wire[s]))]
                ELSE det
    /\ UNCHANGED <<agent, sub, view, active, queries, keys, fails>>

-----------------------------------------------------------------------------
\* The keys.  Queries are numbered by the key that fired them.

Key ==
    /\ keys < MaxKeys /\ keys' = keys + 1
    /\ UNCHANGED <<agent, wire, fails>>

\* The times of the filter replace those of the clock.
Bounded(w, search) ==
    [from |-> IF search.from > 0 THEN search.from ELSE w.from,
     to |-> IF search.to > 0 THEN search.to ELSE w.to]

\* buildLogReq reads the DetailState, and the clock, as they are when the command
\* runs.  Only fireSearch sends the search and its times.
Built(q, d, w) ==
    LET search == IF q.kind = "search" THEN d.search ELSE NoSearch
    IN [q EXCEPT !.at = "sent", !.level = d.level, !.scope = Scope[q.srv][d.target],
                 !.late = d.target # q.tgt, !.search = search, !.win = Bounded(w, search)]

Query(s, d, kind) ==
    [n |-> keys + 1, srv |-> s, tgt |-> d.target, kind |-> kind, at |-> "fired",
     scope |-> {}, level |-> "", search |-> NoSearch, win |-> [from |-> 0, to |-> 0],
     lines |-> <<>>, late |-> FALSE]

\* onSwitch subscribes, and asks for the lines it has not got.
OnSwitch(s, d) ==
    /\ sub' = [sub EXCEPT ![s] = d.target]
    /\ det' = [det EXCEPT ![s] = IF d.backfilled THEN d
                                   ELSE [d EXCEPT !.pending = TRUE]]
    /\ queries' = IF d.backfilled THEN queries
                    ELSE queries \union {Query(s, d, "backfill")}

Reentered(d, t) == IF d.target = t THEN d ELSE Fresh(t)

EnterDetail(t) ==
    /\ Key /\ view = "dashboard" /\ t \in DOMAIN Live[active]
    /\ view' = "detail"
    /\ OnSwitch(active, Reentered(det[active], t))
    /\ UNCHANGED active

\* goToAlertContainer, from the alerts view.
EnterDetailByContainerID(t) ==
    /\ Key /\ view = "alerts" /\ t \in DOMAIN Live[active]
    /\ view' = "detail"
    /\ OnSwitch(active, Fresh(t))
    /\ UNCHANGED active

Left == sub' = IF InDetail THEN [sub EXCEPT ![active] = None] ELSE sub

\* Esc (when no filter is set) and the keys 1 and 2.
Leave(to) ==
    /\ Key /\ view # to
    /\ Left /\ view' = to
    /\ UNCHANGED <<det, active, queries>>

SwitchServer(s) ==
    /\ Key /\ s # active
    /\ Left /\ view' = "dashboard" /\ active' = s
    /\ UNCHANGED <<det, queries>>

\* A zoom subscribes again, and asks again when no answer came yet.
HandleZoom ==
    /\ Key /\ InDetail
    /\ OnSwitch(active, det[active])
    /\ UNCHANGED <<view, active>>

ResetLogs(d, s) ==
    [d EXCEPT !.logs = <<>>, !.scroll = 0, !.cursor = 0, !.paused = FALSE,
              !.backfilled = FALSE, !.pending = TRUE,
              !.asked = keys + 1, !.took = 0, !.had = Len(logs[s]), !.stray = FALSE]

Refilter(level, search, kind) ==
    LET d == ResetLogs([det[active] EXCEPT !.level = level, !.search = search], active) IN
    /\ det' = [det EXCEPT ![active] = d]
    /\ queries' = queries \union {Query(active, d, kind)}
    /\ UNCHANGED <<sub, view, active>>

NextLevel(level) ==
    LET i == CHOOSE i \in DOMAIN Levels : Levels[i] = level
    IN Levels[(i % Len(Levels)) + 1]

CycleLevel ==
    /\ Key /\ InDetail
    /\ Refilter(NextLevel(det[active].level), det[active].search, "search")

\* Enter in the filter dialog.
UpdateFilterModal(dialog) ==
    /\ Key /\ InDetail
    /\ Refilter(det[active].level, dialog,
                IF det[active].level # "" \/ dialog # NoSearch THEN "search" ELSE "refetch")

ClearFilter ==
    /\ Key /\ InDetail /\ IsSearchActive(det[active])
    /\ Refilter("", NoSearch, "refetch")

-----------------------------------------------------------------------------
\* Scrolling: the cursor counts from the first visible entry, the scroll from
\* the newest one.

MaxScroll(data) == Most(0, Len(data) - Height)

ResetLogPosition(d) ==
    [d EXCEPT !.scroll = 0, !.paused = FALSE, !.cursor = Most(0, Len(FilteredData(d)) - 1)]

\* n steps: the cursor moves until it cannot, then the view does.
StepDown(d, visible, n) ==
    LET down == Least(n, Most(0, visible - 1 - d.cursor))
    IN [d EXCEPT !.cursor = @ + down, !.scroll = Most(0, @ - (n - down))]

StepUp(d, max, n) ==
    LET up == Least(n, d.cursor)
    IN [d EXCEPT !.cursor = @ - up, !.scroll = Most(@, Least(max, @ + n - up))]

ResumedAt(d, visible) ==
    IF d.paused /\ d.cursor >= visible - 1 THEN ResetLogPosition(d) ELSE d

Moved(d, key) ==
    LET data == FilteredData(d)
        visible == Len(Visible(d))
        half == Most(1, visible \div 2)
    IN CASE key = "j" ->
              ResumedAt(IF d.cursor < visible - 1 THEN [d EXCEPT !.cursor = @ + 1] ELSE d, visible)
         [] key = "k" -> StepUp([d EXCEPT !.paused = TRUE], MaxScroll(data), 1)
         [] key = "ctrl+d" ->
              LET m == StepDown(d, visible, half)
              IN IF m.scroll = 0 THEN ResumedAt(m, visible) ELSE m
         [] key = "ctrl+u" -> StepUp([d EXCEPT !.paused = TRUE], MaxScroll(data), half)
         [] key = "gg" -> [d EXCEPT !.scroll = MaxScroll(data), !.cursor = 0, !.paused = TRUE]
         [] key = "G" -> [d EXCEPT !.scroll = 0, !.paused = FALSE,
                                   !.cursor = IF data = <<>> THEN @ ELSE Len(data) - 1]

Scroll(key) ==
    /\ Key /\ InDetail
    /\ det' = [det EXCEPT ![active] = Moved(@, key)]
    /\ UNCHANGED <<sub, view, active, queries>>

\* renderDetailLogs clamps the cursor to what is visible.
Render ==
    LET d == det[active]
        c == Most(0, Least(d.cursor, Len(Visible(d)) - 1))
    IN /\ InDetail /\ ~d.pending /\ FilteredData(d) # <<>> /\ c # d.cursor
       /\ det' = [det EXCEPT ![active].cursor = c]
       /\ UNCHANGED <<agent, wire, sub, view, active, queries, keys, fails>>

-----------------------------------------------------------------------------
\* The queries.

Updated(q, r) == queries' = (queries \ {q}) \union {r}

BuildLogReq(q) ==
    /\ q.at = "fired"
    /\ \E w \in Windows : Updated(q, Built(q, det[q.srv], w))
    /\ UNCHANGED <<agent, wire, sub, det, view, active, keys, fails>>

\* The places of the rows that a query selects.
Selected(rows, scope, level, search, win) ==
    {i \in DOMAIN rows : /\ rows[i].c \in scope /\ Matches(rows[i], level, search)
                         /\ win.from <= rows[i].at /\ rows[i].at <= win.to}

\* ORDER BY timestamp DESC LIMIT Cap: each of the places that f lists holds a row no
\* older than those of the places after it and of the places left out.  SQL leaves the
\* order of the rows of one second open.
NewestFirst(rows, places, f) ==
    /\ f \in [1..Least(Cap, Cardinality(places)) -> places]
    /\ \A i, j \in DOMAIN f : i < j => f[i] # f[j] /\ rows[f[i]].at >= rows[f[j]].at
    /\ \A i \in DOMAIN f : \A p \in places :
          (\A j \in DOMAIN f : f[j] # p) => rows[f[i]].at >= rows[p].at

RowsAt(rows, f) == [i \in DOMAIN f |-> rows[f[i]]]

QueryLogs(q) ==
    LET rows == logs[q.srv]
        places == Selected(rows, q.scope, q.level, q.search, q.win)
    IN /\ q.at = "sent"
       /\ \E f \in [1..Least(Cap, Cardinality(places)) -> places] :
             /\ NewestFirst(rows, places, f)
             /\ Updated(q, [q EXCEPT !.at = "answered", !.lines = RowsAt(rows, f)])
       /\ UNCHANGED <<agent, wire, sub, det, view, active, keys, fails>>

\* A query that fails, is refused for its range or times out is answered by no lines.
MutantFailQuery(q) ==
    /\ q.at = "sent" /\ fails < MaxFails /\ fails' = fails + 1
    /\ queries' = queries \ {q}
    /\ UNCHANGED <<agent, wire, sub, det, view, active, keys>>

FailQuery(q) ==
    /\ q.at = "sent" /\ fails < MaxFails /\ fails' = fails + 1
    /\ Updated(q, [q EXCEPT !.at = "failed"])
    /\ UNCHANGED <<agent, wire, sub, det, view, active, keys>>

\* A separator goes before a line of a container that is not the one that wrote the
\* last line of that name.
Separator(line) ==
    [n |-> 0, c |-> line.c, at |-> line.at, lvl |-> "", hit |-> SeparatorHit]

Redeploys(seq) ==
    {i \in DOMAIN seq : \E j \in 1..(i - 1) :
        /\ Name[seq[j].c] = Name[seq[i].c] /\ seq[j].c # seq[i].c
        /\ \A k \in (j + 1)..(i - 1) : Name[seq[k].c] # Name[seq[i].c]}

InjectDeploySeparators(seq) ==
    LET doubled == [i \in 1..(2 * Len(seq)) |->
                      IF i % 2 = 0 THEN seq[i \div 2] ELSE Separator(seq[(i + 1) \div 2])]
    IN At(doubled, {i \in DOMAIN doubled : i % 2 = 0 \/ (i + 1) \div 2 \in Redeploys(seq)})

MutantMerged(d, q) == Push(<<>>, InjectDeploySeparators(q.lines) \o d.logs)

Merged(d, q) ==
    LET old == InjectDeploySeparators(Reverse(q.lines))
        before == At(old, {i \in DOMAIN old : d.logs = <<>> \/ old[i].at < d.logs[1].at})
    IN Push(<<>>, before \o d.logs)

MutantIsFor(q, d) == TRUE
IsFor(q, d) == q.tgt = d.target

HandleBackfill(d, q) ==
    IF d.backfilled \/ d.target = None THEN [d EXCEPT !.pending = FALSE, !.backfilled = TRUE]
    ELSE IF ~IsFor(q, d) THEN [d EXCEPT !.pending = FALSE]
    ELSE LET e == [d EXCEPT !.pending = FALSE, !.backfilled = TRUE,
                             !.stray = q.late \/ q.srv # active,
                             !.took = IF q.at = "failed" THEN 0 ELSE q.n]
             m == Merged(d, q)
         IN IF q.lines = <<>> THEN e
            ELSE [e EXCEPT !.logs = m, !.cursor = IF m = <<>> THEN @ ELSE Len(m) - 1]

DetailLogQueryMsg(q) ==
    /\ q.at \in {"answered", "failed"}
    /\ queries' = queries \ {q}
    /\ det' = [det EXCEPT ![active] = HandleBackfill(@, q)]
    /\ UNCHANGED <<agent, wire, sub, view, active, keys, fails>>

-----------------------------------------------------------------------------
Agent ==
    \E s \in Sessions : \E c \in Containers(s) :
       \/ \E k \in Written[c] : Publish(s, c, k)
       \/ InsertLogs(s, c)

Keys ==
    \/ \E t \in Target : EnterDetail(t) \/ EnterDetailByContainerID(t)
    \/ \E v \in {"dashboard", "alerts"} : Leave(v)
    \/ \E s \in Sessions : SwitchServer(s)
    \/ HandleZoom \/ CycleLevel \/ ClearFilter
    \/ \E f \in Dialogs : UpdateFilterModal(f)
    \/ \E k \in {"j", "k", "ctrl+d", "ctrl+u", "gg", "G"} : Scroll(k)

Answers == \E q \in queries : BuildLogReq(q) \/ QueryLogs(q) \/ FailQuery(q) \/ DetailLogQueryMsg(q)

DetailNext == Agent \/ Keys \/ Answers \/ Render \/ \E s \in Sessions : LogMsg(s)

DetailSpec == DetailInit /\ [][DetailNext]_detailVars

-----------------------------------------------------------------------------
\* Properties.

Viewed ==
    [target : Target \union {None}, logs : Seq(Line), backfilled : BOOLEAN, pending : BOOLEAN,
     level : Level, search : Search, scroll : Nat, cursor : Nat, paused : BOOLEAN,
     asked : Nat, took : Nat, had : Nat, stray : BOOLEAN]

Queried ==
    [n : Nat, srv : Sessions, tgt : Target, kind : {"backfill", "search", "refetch"},
     at : {"fired", "sent", "answered", "failed"}, scope : SUBSET Container,
     level : Level, search : Search, win : Window, lines : Seq(Row), late : BOOLEAN]

\* Every variable has its type; a view has no more lines than its ring, and is of a
\* target of its server.
DetailTypeOK ==
    /\ {lines, keys, fails} \subseteq Nat
    /\ batch \in [Container -> Seq(Row)] /\ {logs, wire} \subseteq [Sessions -> Seq(Row)]
    /\ sub \in [Sessions -> Target \union {None}] /\ det \in [Sessions -> Viewed]
    /\ view \in {"dashboard", "alerts", "detail"} /\ active \in Sessions
    /\ queries \subseteq Queried
    /\ \A s \in Sessions :
          Len(det[s].logs) <= Cap /\ det[s].target \in DOMAIN Live[s] \union {None}

\* Every line in the view of a target is a line of that target on that server,
\* whatever was open before and whichever answers are still on their way
\* (handleBackfill and onStreamEntry compare the identity).  Only a request that was
\* built late, when its goroutine found another target in *det, or an answer of
\* another server that has a project of the same name, brings others.
RightTarget ==
    \A s \in Sessions : ~det[s].stray => \A i \in DOMAIN det[s].logs :
        det[s].logs[i].c \in Scope[s][det[s].target]

\* The newest of the matching rows among those stored at some moment since the filter
\* was set, in the window of some moment, cut off at Cap and in the order of time;
\* shown is this list without its first lines, left of them.
IsNewest(rows, scope, d, shown, left) ==
    \E m \in d.had..Len(rows) : \E w \in Windows :
        LET places == Selected(rows, scope, d.level, d.search, Bounded(w, d.search)) \cap 1..m
        IN \E f \in [1..Least(Cap, Cardinality(places)) -> places] :
              LET newest == Reverse(RowsAt(rows, f))
              IN /\ NewestFirst(rows, places, f)
                 /\ left <= Len(newest) /\ shown = SubSeq(newest, left + 1, Len(newest))

\* What a view shows apart from its separators.
ShownRows(d) ==
    At(d.logs, {i \in DOMAIN d.logs : d.logs[i].n > 0 /\ Matches(d.logs[i], d.level, d.search)})

\* A view that took the answer to the query of its last filter change shows the
\* newest stored lines that pass the filter: the filter is applied before the
\* limit, and neither a streamed line nor a later answer changes the list.  Only the
\* deploy separators, which take places in the ring whether they pass the filter or
\* not, push the oldest of these lines out of a full ring.
FilterExact ==
    \A s \in Sessions :
        LET d == det[s]
        IN IsSearchActive(d) /\ d.backfilled /\ d.took = d.asked /\ d.took # 0 =>
              \E left \in 0..Cap :
                 /\ IsNewest(logs[s], Scope[s][d.target], d, ShownRows(d), left)
                 /\ left > 0 => Len(d.logs) = Cap

\* A streamed line does not move a paused view: its newest visible line stays,
\* unless the full buffer has just dropped that line.
PausedStable ==
    [][\A s \in Sessions :
          LET d == det[s] IN
          (LogMsg(s) /\ InDetail /\ active = s /\ d.paused /\ Visible(d) # <<>>) =>
              \/ Visible(d') # <<>> /\ Last(Visible(d')) = Last(Visible(d))
              \/ Visible(d') = <<>> /\ Len(d.logs) = Cap
                    /\ VisibleLogWindow(d, FilteredData(d)).end = 1]_detailVars

\* An open view shows "loading" only while some answer is still to come, and
\* every query gets one, if only at its timeout: an answer to a query of any
\* view ends the wait.
LoadingIsAwaited ==
    (InDetail /\ det[active].pending) => queries # {}

\* The views are well formed and of their targets (enterDetail, leaveDetail).
ViewsRight == DetailTypeOK /\ RightTarget

\* What these need to be inductive.  A view that loads has taken no answer, one that
\* took a stray answer has taken one, and one that is not open has no lines and no filter;
Loading ==
    \A s \in Sessions :
        LET d == det[s]
        IN /\ d.pending => ~d.backfilled
           /\ d.stray => d.backfilled
           /\ d.target = None => d.logs = <<>> /\ ~IsSearchActive(d)
           /\ IsSearchActive(d) /\ ~d.backfilled => d.logs = <<>>

\* what is shown, and what was asked for, was opened;
Opened ==
    /\ InDetail => det[active].target # None
    /\ \A q \in queries : q.tgt \in DOMAIN Live[q.srv] /\ det[q.srv].target # None

\* a query that was not built late asks for its target and is answered with its lines;
Scoped ==
    \A q \in queries :
        /\ q.at # "answered" => q.lines = <<>>
        /\ q.at = "sent" /\ ~q.late => q.scope = Scope[q.srv][q.tgt]
        /\ ~q.late => \A i \in DOMAIN q.lines : q.lines[i].c \in Scope[q.srv][q.tgt]

\* and the query of the last change of a filter is built from it, and answered with
\* the newest rows.
Asked ==
    /\ \A s \in Sessions : det[s].asked <= keys /\ det[s].had <= Len(logs[s])
    /\ \A q \in queries :
          /\ q.n \in 1..keys
          /\ \A s \in Sessions : q.n = det[s].asked =>
                LET d == det[s]
                IN /\ q.srv = s /\ q.tgt = d.target
                   /\ IsSearchActive(d) =>
                         /\ q.kind = "search"
                         /\ q.at # "fired" => /\ q.scope = Scope[s][d.target]
                                              /\ q.level = d.level /\ q.search = d.search
                                              /\ \E w \in Windows : q.win = Bounded(w, d.search)
                         /\ q.at = "answered" =>
                               IsNewest(logs[s], Scope[s][d.target], d, Reverse(q.lines), 0)

DetailInv ==
    /\ ViewsRight /\ FilterExact /\ LoadingIsAwaited
    /\ Loading /\ Opened /\ Scoped /\ Asked
=============================================================================
