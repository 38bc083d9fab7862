------------------------------ MODULE Metrics ------------------------------
(***************************************************************************)
(* From a sample to a graph: collect, insert and prune                     *)
(* (src/internal/agent/agent.go, store_queries.go), the metrics query with *)
(* its two aggregations (socket.go, store_queries.go, downsample.go), and  *)
(* the client's graphs, its time windows and backfills over several        *)
(* servers (src/internal/tui/app.go, app_key.go, app_connect.go, state.go). *)
(*                                                                         *)
(* A sample is one reading of the host and of one container; both have a   *)
(* CPU and a memory value.  Bucket bounds are exact fractions here, floats *)
(* in the code.  A reload of the configuration changes how long an agent   *)
(* keeps rows and answers queries; a session only knows what the answers   *)
(* it got have told it.                                                    *)
(***************************************************************************)
EXTENDS Integers, Sequences, FiniteSets, FiniteSetsExt, SequencesExt

CONSTANTS
    Server,     \* the sessions of the client
    First,      \* the one that is active at first
    Value,      \* readings: [cpu, mem]
    Past,       \* Past[s]: what the tables of an agent may hold at first
    Gaps,       \* seconds from one cycle to the next
    Points,     \* histBufSize: the ring's capacity and the points of a query
    LiveRange,  \* seconds of the live backfill
    Windows,    \* timeWindows: seconds, in growing order, 0 (live) first
    Retentions, \* Retentions[s]: seconds the configuration of an agent may keep rows for
    Local,      \* servers dialled before the program runs
    MaxCycles,  \* bound: MaxCycles[s], the cycles of an agent
    MaxMoves,   \* bound: changes of the window, of the active server and of a
                \* retention, and queries that fail, together
    MaxQueries, \* bound: backfills in flight when one more is asked for
    MaxWire     \* bound: updates in flight to the client

Sample == [at : Nat, cpu : Nat, mem : Nat]

ASSUME MetricsAssumption ==
    /\ First \in Server /\ Gaps \subseteq Nat \ {0}
    /\ \A s \in Server : \A past \in Past[s] : past \subseteq Sample /\ IsFiniteSet(past)
    /\ \A v \in Value : v.cpu \in Nat \ {0} /\ v.mem \in Nat \ {0}
    /\ Points \in Nat \ {0} /\ LiveRange \in Nat \ {0}
    /\ Windows \in Seq(Nat) /\ Len(Windows) > 1 /\ Windows[1] = 0
    /\ \A i \in 2..Len(Windows) : Windows[i] > Windows[i - 1]
    \* a day is the least retention, the live backfill is of 6000 seconds
    /\ \A s \in Server : Retentions[s] \subseteq {r \in Nat : r >= LiveRange}
    /\ Local \subseteq Server
    /\ MaxCycles \in [Server -> Nat]
    /\ {MaxMoves, MaxQueries, MaxWire} \subseteq Nat

VARIABLES
    now,
    rows,      \* rows[s]: the metrics tables, samples by their second
    cycles,
    retention, \* retention[s]: ss.retentionDays, in seconds; no longer query is served
    ready,     \* sessions connected when the program began
    updates,      \* updates[s]: updates on their way to the client, TRUE with a host
    joined,    \* sessions that are connected
    ring,      \* ring[s]: HostCPUHist and HostMemHist, by the window a point was drawn for
    gen,       \* gen[s]: s.BackfillGen
    pending,   \* pending[s]: s.BackfillPending
    known,     \* known[s]: s.RetentionDays, 0 until an answer tells it
    window,    \* a.windowIdx
    active,
    queries,   \* backfills whose answer has not been applied
    lost,      \* history: sessions whose last backfill got no answer
    foreign,   \* history: sessions not active at the last change of the window
    beyond,    \* history: sessions not active when it was last zoomed in, or told less since
    refused,   \* history: of a refused backfill, what its session knew and what was kept
    moves

agent  == <<now, rows, cycles, retention>>
hist   == <<lost, foreign, beyond, refused>>
metricsVars ==
    <<agent, ready, updates, joined, ring, gen, pending, known, window, active, queries, hist,
      moves>>

Moved == moves < MaxMoves /\ moves' = moves + 1

\* backfillMetrics.  The query remembers what its session knew, unless the window was
\* made wider for another session since it was active.
Backfill(s, win, g) ==
    [srv |-> s, gen |-> g, win |-> win, known |-> IF s \in beyond THEN 0 ELSE known[s],
     at |-> "sent", told |-> 0, points |-> 0]

\* The sessions main has connected are subscribed, and their graphs asked for, by
\* App.Init, which leaves BackfillPending as it is.
MetricsInit ==
    /\ now = 10 /\ rows \in [Server -> UNION {Past[s] : s \in Server}]
    /\ \A s \in Server : rows[s] \in Past[s]
    /\ cycles = [s \in Server |-> 0]
    /\ retention \in [Server -> UNION {Retentions[s] : s \in Server}]
    /\ \A s \in Server : retention[s] \in Retentions[s]
    /\ updates = [s \in Server |-> <<>>]
    /\ ready \in SUBSET Local /\ joined = ready /\ ring = [s \in Server |-> <<>>]
    /\ gen = [s \in Server |-> 0] /\ pending = [s \in Server |-> FALSE]
    /\ known = [s \in Server |-> 0]
    /\ window = 1 /\ active = First
    /\ lost = {} /\ foreign = {} /\ beyond = {} /\ refused = {}
    /\ queries = {Backfill(s, Windows[1], 0) : s \in ready}
    /\ moves = 0

-----------------------------------------------------------------------------
\* The agent's cycle.  A host that cannot be read gives no row, and an update
\* without a host; a row that cannot be inserted is logged and lost.

Pruned(set, s, t) == {r \in set : r.at >= t - retention[s]}

\* A cycle's rows of the four tables share its second.
Inserted(set, v, t) == set \union {[at |-> t, cpu |-> v.cpu, mem |-> v.mem]}

Collect(s, gap, v, read, stored, prunes) ==
    LET t == now + gap
        all == IF read /\ stored THEN Inserted(rows[s], v, t) ELSE rows[s]
    IN /\ cycles[s] < MaxCycles[s] /\ Len(updates[s]) < MaxWire
       /\ cycles' = [cycles EXCEPT ![s] = @ + 1]
       /\ now' = t /\ UNCHANGED <<retention, ready>>
       /\ rows' = [rows EXCEPT ![s] = IF prunes THEN Pruned(all, s, t) ELSE all]
       /\ updates' = IF s \in joined THEN [updates EXCEPT ![s] = Append(@, read)] ELSE updates
       /\ UNCHANGED <<joined, ring, gen, pending, known, window, active, queries, hist, moves>>

\* applyConfig and SetRetentionDays
Reconfigure(s, r) ==
    /\ Moved /\ r # retention[s] /\ retention' = [retention EXCEPT ![s] = r]
    /\ UNCHANGED <<now, rows, cycles, ready, updates, joined, ring, gen, pending, known>>
    /\ UNCHANGED <<window, active, queries, hist>>

-----------------------------------------------------------------------------
\* The metrics query over [start, end]; with points > 0, SQL groups the rows in
\* seconds and downsample spreads the groups over the points.

InRange(set, start, end) == {r \in set : start <= r.at /\ r.at <= end}

\* Of a set of rows or groups with one per second: those in order, and the first.
ByTime(set) ==
    [i \in 1..Cardinality(set) |->
        CHOOSE r \in set : Cardinality({x \in set : x.at < r.at}) = i - 1]
Earliest(set) == CHOOSE r \in set : \A x \in set : r.at <= x.at

Peak(set, f(_)) == Max({f(r) : r \in set})
Cpu(r) == r.cpu
Mem(r) == r.mem

BucketDur(start, end) == LET d == (end - start) \div Points IN IF d <= 0 THEN 1 ELSE d

Grouped(set, start, end) ==
    LET d == BucketDur(start, end)
        G(r) == (r.at - start) \div d
        In(g) == {r \in set : G(r) = g}
    IN {[at |-> start + g * d, cpu |-> Peak(In(g), Cpu), mem |-> Peak(In(g), Mem)] :
           g \in {G(r) : r \in set}}

\* Buckets are numbered from 0.
Bucket(t, start, end) ==
    LET i == ((t - start) * Points) \div (end - start)
    IN IF i >= Points THEN Points - 1 ELSE i

Stamp(i, start, end) == start + ((i + 1) * (end - start)) \div Points

Empty(i, start, end) == [at |-> Stamp(i, start, end), cpu |-> 0, mem |-> 0]

InBucket(groups, i, start, end) == {g \in groups : Bucket(g.at, start, end) = i}

\* Of no group, no points; else a point per bucket, 0 where there is no group.
MutantDownsampleHost(groups, start, end) ==
    IF groups = {} THEN <<>>
    ELSE [j \in 1..Points |->
            LET in == InBucket(groups, j - 1, start, end) IN
            IF in = {} THEN Empty(j - 1, start, end)
            ELSE [at |-> Stamp(j - 1, start, end),
                  cpu |-> Earliest(in).cpu, mem |-> Peak(in, Mem)]]

DownsampleHost(groups, start, end) ==
    IF groups = {} THEN <<>>
    ELSE [j \in 1..Points |->
            LET in == InBucket(groups, j - 1, start, end) IN
            IF in = {} THEN Empty(j - 1, start, end)
            ELSE [at |-> Stamp(j - 1, start, end), cpu |-> Peak(in, Cpu), mem |-> Peak(in, Mem)]]

\* A series of at most Points groups keeps the whole group with the most CPU.
DownsampleContainers(groups, start, end) ==
    IF Cardinality(groups) > Points \/ groups = {} THEN DownsampleHost(groups, start, end)
    ELSE [j \in 1..Points |->
            LET in == InBucket(groups, j - 1, start, end)
                most == {g \in in : g.cpu = Peak(in, Cpu)}
            IN IF in = {} THEN Empty(j - 1, start, end)
               ELSE [Earliest(most) EXCEPT !.at = Stamp(j - 1, start, end)]]

Range_(win) == IF win > 0 THEN win ELSE LiveRange

\* queryMetrics; at most one raw row has a second.
Answer(s, win) ==
    LET start == now - Range_(win)
        in == InRange(rows[s], start, now)
        groups == Grouped(in, start, now)
    IN [start |-> start, end |-> now, rows |-> in, groups |-> groups,
        host |-> IF win > 0 THEN DownsampleHost(groups, start, now) ELSE ByTime(in),
        cont |-> IF win > 0 THEN DownsampleContainers(groups, start, now) ELSE ByTime(in)]

-----------------------------------------------------------------------------
\* The client.

WindowSeconds == Windows[window]

\* What a ring buffer keeps.
Push(buf, points) ==
    LET all == buf \o points
    IN IF Len(all) > Points THEN SubSeq(all, Len(all) - Points + 1, Len(all)) ELSE all

Drawn(points, win) == [i \in 1..points |-> win]

\* handleConnectDone and subscribeAll
Connect(s) ==
    /\ Cardinality(queries) < MaxQueries
    /\ s \notin joined /\ joined' = joined \union {s}
    /\ pending' = [pending EXCEPT ![s] = TRUE]
    /\ queries' = queries \union {Backfill(s, WindowSeconds, gen[s])}
    /\ UNCHANGED <<agent, ready, updates, ring, gen, known, window, active, hist, moves>>

\* Only the active session's graph starts anew, although all share the window.
FreshGen(g) == g + 1

Zoomed(i) ==
    /\ Moved /\ Cardinality(queries) < MaxQueries /\ active \in joined
    /\ window' = i
    /\ ring' = [ring EXCEPT ![active] = <<>>]
    /\ gen' = [gen EXCEPT ![active] = FreshGen(@)]
    /\ pending' = [pending EXCEPT ![active] = TRUE]
    /\ queries' = queries \union {Backfill(active, Windows[i], gen'[active])}
    /\ lost' = lost \ {active} /\ foreign' = (foreign \union joined) \ {active}
    /\ UNCHANGED <<agent, ready, updates, joined, known, active, refused>>

MutantMayZoomIn(i) == i <= Len(Windows)
MayZoomIn(i) == i <= Len(Windows) /\ (known[active] > 0 => Windows[i] <= known[active])

ZoomIn ==
    /\ MayZoomIn(window + 1) /\ Zoomed(window + 1)
    /\ beyond' = (beyond \union joined) \ {active}
ZoomOut == window > 1 /\ Zoomed(window - 1) /\ UNCHANGED beyond

SwitchServer(s) ==
    /\ s # active /\ Moved /\ active' = s
    /\ UNCHANGED <<agent, ready, updates, joined, ring, gen, pending, known>>
    /\ UNCHANGED <<window, queries, hist>>

\* Live points are pushed for every session, historical windows are static.
MetricsMsg(s) ==
    /\ updates[s] # <<>>
    /\ updates' = [updates EXCEPT ![s] = Tail(@)]
    /\ ring' = IF Head(updates[s]) /\ WindowSeconds = 0
                 THEN [ring EXCEPT ![s] = Push(@, Drawn(1, 0))] ELSE ring
    /\ UNCHANGED <<agent, ready, joined, gen, pending, known, window, active, queries, hist>>
    /\ UNCHANGED moves

Updated(q, r) == queries' = (queries \ {q}) \union {r}

\* The range is checked, and the retention read again for the answer.
TimeRangeFits(q) ==
    /\ q.at = "sent" /\ Range_(q.win) <= retention[q.srv]
    /\ Updated(q, [q EXCEPT !.at = "checked"])
    /\ UNCHANGED <<agent, ready, updates, joined, ring, gen, pending, known, window, active>>
    /\ UNCHANGED <<hist, moves>>

QueryMetrics(q) ==
    /\ q.at = "checked"
    /\ Updated(q, [q EXCEPT !.at = "answered", !.told = retention[q.srv],
                            !.points = Len(Answer(q.srv, q.win).host)])
    /\ UNCHANGED <<agent, ready, updates, joined, ring, gen, pending, known, window, active>>
    /\ UNCHANGED <<hist, moves>>

\* A backfill that fails ends without a message.
Silent(q) ==
    /\ queries' = queries \ {q}
    /\ lost' = IF q.gen = gen[q.srv] THEN lost \union {q.srv} ELSE lost
    /\ UNCHANGED <<agent, ready, updates, joined, ring, gen, pending, known, window, active>>
    /\ UNCHANGED <<foreign, beyond>>

CheckTimeRange(q) ==
    /\ q.at = "sent" /\ Range_(q.win) > retention[q.srv]
    /\ refused' = refused \union {[known |-> q.known, kept |-> retention[q.srv]]}
    /\ Silent(q) /\ UNCHANGED moves

FailQuery(q) ==
    /\ q.at # "answered" /\ Moved /\ Silent(q) /\ UNCHANGED refused

MutantIsStale(q) == FALSE
IsStale(q) == q.gen # gen[q.srv]

MutantAnswered(q) == pending' = pending
Answered(q) == pending' = [pending EXCEPT ![q.srv] = FALSE]

MetricsBackfillMsg(q) ==
    /\ q.at = "answered" /\ queries' = queries \ {q}
    /\ IF IsStale(q) THEN UNCHANGED <<ring, pending, known, beyond>>
       ELSE /\ known' = [known EXCEPT ![q.srv] = q.told]
            /\ beyond' = IF q.told < WindowSeconds THEN beyond \union {q.srv} ELSE beyond
            /\ ring' = [ring EXCEPT ![q.srv] =
                          IF q.win > 0 THEN Push(<<>>, Drawn(q.points, q.win))
                          ELSE Push(@, Drawn(q.points, 0))]
            /\ Answered(q)
    /\ UNCHANGED <<agent, ready, updates, joined, gen, window, active, lost, foreign, refused,
                   moves>>

-----------------------------------------------------------------------------
\* The reading of a sample that gives no row.
AnyValue == CHOOSE v \in Value : TRUE

Agent ==
    \E s \in Server, gap \in Gaps :
        \/ \E v \in Value, prunes \in BOOLEAN : Collect(s, gap, v, TRUE, TRUE, prunes)
        \/ \E read \in BOOLEAN : Collect(s, gap, AnyValue, read, FALSE, FALSE)
        \/ \E r \in Retentions[s] : Reconfigure(s, r)

Queries == \E q \in queries :
    \/ TimeRangeFits(q) \/ CheckTimeRange(q) \/ QueryMetrics(q) \/ FailQuery(q)
    \/ MetricsBackfillMsg(q)

MetricsNext ==
    \/ Agent \/ Queries
    \/ \E s \in Server : Connect(s) \/ SwitchServer(s) \/ MetricsMsg(s)
    \/ ZoomIn \/ ZoomOut

MetricsSpec == MetricsInit /\ [][MetricsNext]_metricsVars

-----------------------------------------------------------------------------
\* Properties.

Queried ==
    [srv : Server, gen : Nat, win : Nat, known : Nat, at : {"sent", "checked", "answered"},
     told : Nat, points : Nat]

\* Every variable has its type; a ring is drawn for windows, and a graph of a window
\* has as many points as it asked for, or none.
MetricsTypeOK ==
    /\ now \in Nat /\ rows \in [Server -> SUBSET Sample] /\ cycles \in [Server -> Nat]
    /\ retention \in [Server -> Nat] /\ ready \subseteq joined
    /\ updates \in [Server -> Seq(BOOLEAN)] /\ ring \in [Server -> Seq(Nat)]
    /\ gen \in [Server -> Nat] /\ pending \in [Server -> BOOLEAN] /\ known \in [Server -> Nat]
    /\ joined \subseteq Server /\ window \in 1..Len(Windows) /\ active \in Server
    /\ lost \subseteq joined /\ foreign \subseteq joined /\ beyond \subseteq joined
    /\ queries \subseteq Queried
    /\ \A s \in Server : Len(updates[s]) <= MaxWire /\ IsFiniteSet(rows[s])
    /\ \A q \in queries : q.srv \in joined /\ (q.win > 0 => q.points \in {0, Points})

\* A downsampled graph loses no peak and invents none: the point of a row's
\* bucket, or the one before it (the row's group may start there), is no lower
\* than the row, and every point that is not 0 is the value of a row of its
\* bucket or the next.  Of a container with few groups the code keeps the group
\* with the most CPU, so only the CPU is promised then.  (QueryMetricsGrouped,
\* downsample.go.)
Near(ans, points, f(_)) ==
    LET bucket(r) == Bucket(r.at, ans.start, ans.end)
    IN /\ \A r \in ans.rows :
             \E j \in {bucket(r), bucket(r) + 1} \intersect 1..Points : f(points[j]) >= f(r)
       /\ \A j \in DOMAIN points : f(points[j]) = 0 \/
             \E r \in ans.rows : f(r) = f(points[j]) /\ bucket(r) \in {j - 1, j}

PeakNear ==
    \A q \in queries : q.at # "answered" /\ q.win > 0 =>
        LET ans == Answer(q.srv, q.win)
        IN /\ Near(ans, ans.host, Cpu) /\ Near(ans, ans.host, Mem)
           /\ Near(ans, ans.cont, Cpu)
           /\ Cardinality(ans.groups) > Points => Near(ans, ans.cont, Mem)

\* The graph of a session whose window last changed while it was the active
\* session holds at most a ring's points, all drawn for that window: no answer
\* to an older window, and no live point, is mixed in (handleZoom,
\* metricsBackfillMsg, RingBuffer).
GraphOfWindow ==
    \A s \in joined \ foreign :
        Len(ring[s]) <= Points /\ \A i \in DOMAIN ring[s] : ring[s][i] = WindowSeconds

\* A session shows "loading" exactly while its latest backfill is in flight or was
\* lost without a word: an answer to an older one never ends the wait, and its own
\* always does.  Only the first backfill of a session that main had connected is not
\* shown: App.Init sends it without setting BackfillPending (app.go:210).
PendingIsReal ==
    \A s \in Server :
        pending[s] <=> /\ s \in ready => gen[s] > 0
                       /\ \/ \E q \in queries : q.srv = s /\ q.gen = gen[s]
                          \/ s \in lost

\* A backfill is refused as too long only when its session could not know: it had
\* not been told a retention, or was not active when the window was last made wider,
\* or had been told one shorter than its window, or one that has been reduced since.
\* While the configuration stays, zooming out of a window that fits leads to one that
\* fits.
RefusedUnforeseen == \A r \in refused : r.known # 0 => r.kept < r.known

\* The graphs are well formed and of their windows (handleZoom, RingBuffer).
GraphsRight == MetricsTypeOK /\ GraphOfWindow

\* What these need to be inductive.  A session that has not connected has nothing;
IsLatest(q) == q.gen = gen[q.srv]
Untouched ==
    \A s \in Server \ joined :
        ring[s] = <<>> /\ updates[s] = <<>> /\ known[s] = 0 /\ ~pending[s]

\* a session has one latest backfill at most, and has not lost it while it is coming;
OneLatest ==
    /\ \A q \in queries : q.gen <= gen[q.srv] /\ (IsLatest(q) => q.srv \notin lost)
    /\ \A q, r \in queries : q.srv = r.srv /\ q.gen = r.gen => q = r

\* the latest is of the window, or of a wider one if that was chosen for another session;
LatestOfWindow ==
    \A q \in queries : IsLatest(q) =>
        /\ q.srv \notin foreign => q.win = WindowSeconds
        /\ q.srv \notin beyond => WindowSeconds <= q.win

\* and what a session has been told fits the windows it asked for.
KnownFits ==
    /\ \A s \in joined \ beyond : known[s] # 0 => WindowSeconds <= known[s]
    /\ \A q \in queries : q.known # 0 => q.win <= q.known

\* The live backfill always fits the configuration.
RetentionFits == \A s \in Server : retention[s] >= LiveRange

MetricsInv ==
    /\ GraphsRight /\ PendingIsReal /\ RefusedUnforeseen
    /\ Untouched /\ OneLatest /\ LatestOfWindow /\ KnownFits /\ RetentionFits
=============================================================================
