# A TLA+ model of tori

tori is a monitoring agent for one Docker host and a terminal client for it.
The agent (`internal/agent`) collects host and container metrics every few
seconds, tails container logs, evaluates alert rules, sends notifications and
serves clients over a Unix socket. The client (`internal/tui`) reaches the
socket, usually through an SSH tunnel, and shows what it is told.

This directory models the parts of both programs where several goroutines, a
database, a network connection and processes that may die at any moment must
agree. TLC checks the models on small instances; TLAPS proves what matters most
for every value of the constants.

* [Inventory](#inventory): the components, their state and what is hard
* [Modules](#modules): what each module models, and how it corresponds to the code
* [Runs](#runs): what is checked, on which instances, and why they are enough
* [Fairness](#fairness)
* [Proofs](#proofs)
* [Disagreements](#disagreements): where the code does other than one would expect
* [Not modelled](#not-modelled)

## Inventory

| Component | State | Operations | Who interacts | What is hard, and what makes it correct |
|---|---|---|---|---|
| Alerter (`alert.go`) | `instances` (state, pendingSince, falseAt, resolvedAt, dbID), `deferred`, `lastNotified`, `silences` | Evaluate, EvaluateContainerEvent, AdoptFiring, ResolveAll, Silence | collect loop and event watcher call it under `a.mu`; it writes the alerts table, publishes to the hub, sends to the notifier after unlocking | two goroutines share `deferred`; rows and memory must agree across crashes, reloads and refused writes; durations must be honoured; a failed collection must resolve nothing |
| Alerts table (`store_queries.go`) | rows, open until `resolved_at` is set | InsertAlert, ResolveAlert, ResolveOrphanedAlerts, QueryFiringAlerts, Prune | alerter, New, socket snapshot, collect loop | one open row per key; a row is closed once and never reopened |
| Notifier (`notify.go`) | queue of 64, pending wait group, worker | Send, Flush, Stop | alerter, test-notify, applyConfig, shutdown | retries per channel; the queue at its limit; Stop drains; a send after Stop panics |
| Main loop (`agent.go`) | reload channel of one, pointers to the alerter | Run, Reload, applyConfig, shutdown | every component | other goroutines hold their own pointer while the alerter is replaced; order of shutdown |
| Event watcher (`events.go`) | alerter pointer, backoff | Run, watch, handleEvent, SetAlerter | Docker, alerter, hub | pointer read, then used; events between two streams are lost |
| Hub (`hub.go`) | subscribers with a buffer of 64 | Subscribe, Unsubscribe, Publish | alerter, collectors, connections | never blocks, drops instead; no send on a channel that was closed |
| Socket server (`socket.go`) | connections, tokens, subscriptions, write mutexes, time of the last test notification | accept, dispatch, queries, subscribe/unsubscribe, Stop | hub, store, alerter, collector, notifier | clients that do not read, leave or resubscribe; no request answered twice; snapshot and stream overlap; nothing leaks |
| Log tailer (`logs.go`) | `tailers` by container, per tailer a pipeline of goroutines | Sync, Stop | collect loop, Docker, store, hub | a pipeline with five blocking points must end; no line lost, repeated or swapped; the entry and the goroutine behind it live differently long |
| Docker collector (`docker.go`) | tracking map, last listing, inspect cache, previous CPU counters | Collect, SetTracking, GetTrackingState, LoadTrackingState | Docker, socket server, store | two locks per container and one for pruning; copies of the map saved in another order; a toggle in between must win |
| Store (`store.go`, `store_queries.go`, `downsample.go`) | SQLite tables | inserts, grouped and paged queries, Prune | agent, socket server | two groupings with different bounds, peaks that must survive them |
| Wire protocol (`protocol`) | none | WriteMsg, ReadMsg | socket server, client | a frame is two writes; an unreadable frame ends the connection |
| TUI client (`client.go`) | pending requests by id, read loop, `c.mu`, `done`, `closed` | Request, readLoop, Close, subscriptions | commands, update loop, agent | answers, timeouts, loss and Close race for an entry; the update loop writes to the connection the read loop needs it to drain |
| Sessions and tunnel (`app.go`, `app_connect.go`, `session.go`, `tunnel.go`) | ConnState, auto-connect queue, `connecting`, one prompt, tunnels | connect, prompt, cancel, timeout, loss, quit | ssh, user, client | attempts overlap; one prompt on the screen for several tunnels; no ssh may be left |
| Graphs (`app.go`, `app_key.go`, `state.go`) | ring buffers, window, backfill generation, retention | live points, zoom, backfill, switching servers | agent | answers to an older window or session |
| Detail and log views (`detail*.go`) | lines, filter, scroll, pending query | open, filter, search, scroll, page, leave | agent, store, stream | answers to what was open before; the stream while paused |
| Alerts view, rendering, rates (`alerts*.go`, `*_render.go`, `rates.go`) | lists and dialogs over session data | keys | sessions | mostly stateless |
| Host collector, conditions, configuration, log parsing, command line | | | | stateless or sequential |

`PROJECT.json` lists every component with what is modelled of it, and the
hazards, each at its line, with the properties that would catch it.

## Modules

| Module | Models | Properties (see [Runs](#runs)) | Proofs |
|---|---|---|---|
| `Alerter` | alert.go, the alerts table, the snapshot it is fed, restart and reload | `IInv`, timing, notifications, liveness | `AlerterProofs` |
| `AlertLedger` | the abstract promise of the alerts table: open, close, expire | implemented by `Alerter` (`LedgerSpec`) | `AlerterProofs` |
| `Notifier` | notify.go | `DeliveryExact`, `NotifierEnds` | `NotifierProofs` |
| `Outbox` | the abstract promise of the notifier: take or refuse, deal with in order, return when empty | implemented by `Notifier` (`OutboxSpec`) | `NotifierProofs` |
| `Reload` | Run, Reload, applyConfig, shutdown against event watcher and connections; an alerter is its generation, the keys it holds firing and whether its queue is closed, so it composes the views of `Alerter` and `Notifier` | `PanicOnlyInReload`, `RetiredIsIdle`, `MainEnds` | `AgentProofs` |
| `AlertStream` | fire/resolve, hub, subscribeAlerts, the forwarding goroutine, readLoop and Update: one event's way from the alerter to the screen | `NothingMissed`, `ShownRight`, `EventuallyShown` | `StreamProofs` |
| `LogTailer` | logs.go | `LinesExact`, `EndsRight`, `StopReturns` | `AgentProofs` |
| `LineStore` | the abstract promise of log collection: a line is sent, leaves with a batch from the front, none is left at the end | implemented by `LogTailer` (`StoreSpec`) | `AgentProofs` |
| `SocketServer` | socket.go and hub.go: connections, requests, subscriptions, writes, Stop | `ConnectionsExact`, `LinesRight`, `AnsweredOnce`, `TestSpaced`, `ConnectionsEnd` | `SocketServerProofs` |
| `Client` | client.go and the framing of codec.go, with the update loop that uses it | `ConnectionExact`, `RequestsEnd`, `QuitEnds` | `ClientProofs` |
| `Session` | connecting, prompts, tunnels, the auto-connect queue, quitting | `AttemptsReal`, `NoOrphanTunnel`, `AttemptsEnd` | `TuiProofs` |
| `Tracking` | Collect's map, setTracking, the saved table, a restart, the client's view of it | `DecisionsHold`, `DecisionsSaved` | `TrackingProofs` |
| `DetailView` | the log half of the detail view with the agent it asks | `ViewsRight`, `FilterExact`, `LoadingIsAwaited`, `PausedStable` | `TuiProofs` |
| `Metrics` | from a sample to a graph: insert, prune, query, downsample, backfill, zoom, a reload of the retention | `PeakNear`, `GraphsRight`, `PendingIsReal`, `RefusedUnforeseen` | `StreamProofs` |
| `MC*` | instances for TLC | | |

Definitions named `Mutant...` are plausible wrong versions of the definition that
follows them. No specification uses them; they document what each property, and
each part of one, would catch.

Modules meet at what one promises and the next assumes: `Client` takes from
`SocketServer!AnsweredOnce` that a request has at most one answer; `Reload` takes
from `Notifier` that a send after Stop panics; `DetailView` takes from `LogTailer`
that lines are published when read and stored in batches, in order (`LineStore`);
`Tracking` and `LogTailer` see the same collect cycle from two sides.

### Alerter

`inst` is `a.instances` (an absent entry has state "none"), `alerts` the table
(a row's position is its id), `deferred` the slice of the same name, `pending`
what a goroutine copied out of it before unlocking, `mu` the holder of `a.mu`,
`todo` the keys the evaluation that holds it has still to visit and `obs` what
the snapshot or the event says of each key. One evaluation is a sequence of
steps, one `Transition` per key and one `CleanUp` per stale key, because each
writes rows and a crash may fall between two.

The code compares `now.Sub(instant)` with durations. The model keeps the time
elapsed since each instant, saturated at the duration it is compared with, which
decides every comparison alike and needs no bound on time. Rule conditions are
abstracted to the set `bad` of keys whose condition holds; messages,
severities and values are left out.

A reload is `Retire`, ResolveAll on the old alerter, and `Install`, the new one in
its place. The collect loop runs both, so it evaluates nothing in between, but the
event watcher may have read the old pointer (`events.go:194`): `Overtaken` says what
it may still have to evaluate there, and `LateTransition` is one key of it, with
`old` the ids the old entries hold. What it opens or gives up has no entry. A start
reads as many open rows as the query's limit allows (`RowsRead`), and of several
rows of one key the last one read has the entry.

History variables: `feed` (what a subscriber that missed nothing shows), `adrift`
(rows left without an entry: their resolve was refused, a late evaluation opened or
gave them up, or an adoption did not read or overwrote them), `held` (how long the
observations of a key have been what they are), `owed` (notifications decided and
not handed over, in their order).

### Notifier

`Add` and `Offer` are the two halves of `send`, between which another goroutine
may run; the worker's steps are taking a message, one attempt on one channel,
the end of a backoff and leaving. Stop may come while others are still sending, as
on a reload: a send on the closed queue panics and ends the process. `Box` is what
`Outbox` sees of it: the message the worker holds, in front of the queue. Attempts,
retries and the wait group are inside.

### Reload

The main goroutine's program counter follows `applyConfig` and `shutdown` call by
call, `a.logs.Stop` (`stopLogs`) included; each handler reads its pointer in one step
and uses it in later ones, as the code does after unlocking. `stuck` is what
`LogTailer` says of a tailer whose scanner gave up: it never returns.

### AlertStream

The database row, the event in flight, the subscriber's buffer, the event the
forwarding goroutine holds, the connection and the client's map are separate, so
the snapshot's rows and the events can overtake each other as they can in the
code. `cut` collects the alerts that fell to a documented limit (hub buffer,
`LIMIT 1000`, the map's cap, a failed query). Alerts are taken to fire in
different seconds, in the order of their ids.

### LogTailer

One container: tailers of different containers share only the wait group. Per
tailer the model has the demultiplexer, the two synchronous pipes, the two
scanners, the channel, the batching loop and the goroutine that closes the
stream. `seen` is what Collect found, used by the Sync that follows it; the
container may exit or restart in between. Docker is external: a follow stream
delivers what the container wrote since the requested line and ends with the run
it follows, or earlier, when it breaks (`StreamBreaks`): StdCopy's error is ignored,
so the tailer ends all the same. What a line contains is left out, except whether it
exceeds the scanner's 64 KB. `OnWay` is what `LineStore` sees of the pipeline: the lines between
StdCopy and the store, as one set per tailer; `Told` keeps a line's place and stream.

### SocketServer

`conn` is the stage of `handleConn`: reading, handling a request, writing its
answer, leaving (the deferred calls), released, done. A request comes from the
client's `script`. A handler checks it (`Check`) or refuses it (`Refuse`), answers
(`Reply`), or ends without a word (`Finish`); `Say` is the call of sendResult,
sendError or sendResponse, after which it goes on with what it has still to do.
`reply` counts what was written and what was lost of it: to the encoder, to
MaxMessageSize or to a closed connection (`AnswerDropped`, `Broken`). `writeMsg` is
two steps: lock `writeMu` (`writer` is its holder); write, which blocks while the
client does not read and fails once either side closed, and unlock. A subscription is a
forwarding goroutine (`fwd`) with a channel (`buf`), a context (`cancelled`) and an
entry in `connState.subs` and in the hub; Unsubscribe cancels first and removes and
closes under the hub's lock. Publish holds the hub's lock over one `Offer` per
subscriber. `testNotify` loads the time of the last test and compares-and-swaps
it in another step.

One topic stands for the four, because subscriptions of a connection to different
topics share only its write mutex. What a query answers is left out here.

### Client

A request registers under a fresh id, takes `c.mu`, writes a frame in two halves,
and waits for its channel, a timeout or `done`. The read loop reads a message,
looks the request up under the lock, and sends on its channel after unlocking;
when a read fails it releases what is pending, looks at `closed` and reports the
loss to the update loop. The update loop itself writes when a view is left
(`unsubscribe`), on the same mutex and connection. The agent is external: it
answers in order, at most once, and may drop an answer it cannot encode or that is
too long.

### Session

Per server: the attempt (`att`), a command in a goroutine of its own; its ssh
process and its askpass loop; a two-minute timer. `sessions`, `queue`, `connecting`,
`prompt` and `dialog` are the fields of `App` that the attempts' messages change in
`Update`. `Init` has a value receiver, so what it pops from the queue stays in
the program's. Quitting runs `CleanUp` per session after the update loop has
returned. The ssh process and the user are external: ssh may prompt, connect or
end, the user may cancel, pick another server, and dismiss.

### Tracking

`tracked` is `d.tracked`. Collect is the listing, two steps per container (known?
and the verdict, in locks of their own), and pruning. `setTracking` is the toggle,
the copy and the save; a save may fail, and saves of two connections may overtake
each other. `decided` and `missed` are history: the last manual decision about each
name, and the names a listing since did not have. The viewer's side (`info`,
`asking`, `answers`) follows what the client shows of it.

### DetailView

`det[s]` is the `DetailState` of a session. A query is built from it by a goroutine
when that starts, not when it was asked for, and its answer is given to the session
that is active when it arrives. Lines are published and streamed when they are read
and stored with the batch of their container, or lost when the store refuses it; their
times are those Docker gives them, so the table is not in the order of time, and of the
lines of one second the query may return any (`NewestFirst`). A line is its container,
its second, a level and whether the search matches; `Selected` is the WHERE clause of the
log queries, their window of time included, `At` the rows at given places. The
window a query is built with is one of `Windows`, narrowed by the search dialog's
(`Bounded`). A container has a `Name`, which the one that replaces it has too; the
separators an answer gets where one took the other's place (`InjectDeploySeparators`)
are lines of the ring without a number. The visible part is computed with the code's arithmetic,
date headers included. History: `asked` and `had` (the query of the last change of a
filter, and the rows stored by then), `took` (the query whose answer was taken) and
`stray` (that answer was for another target, or another server).

### Metrics

A sample has a CPU and a memory value. `QueryMetricsGrouped` groups by whole seconds
of the query's bucket length, `downsample.go` spreads the groups over buckets of
exact fractions of the range; both are functions of the stored rows. `ring[s]`
holds, for each point of a graph, the window it was drawn for. `gen` and `pending`
are `BackfillGen` and `BackfillPending`. `retention` is what each agent keeps, which a
reload changes (`Reconfigure`); a query reads it twice, to check its range
(`TimeRangeFits`) and to tell it (`told`), and a session keeps what it was told
(`known`). `ready` are the sessions connected before the program starts, whose first
backfill App.Init sends without setting `BackfillPending`. History: `lost` (a latest backfill failed
without a word), `foreign` and `beyond` (sessions that were not active when the zoom
was last changed, or last made wider; of the latter also one that was told less than
its window), `refused` (what a session had been told of the retention when its
backfill was refused as too long, and what was kept then).

## Runs

| Run | Instance | States | Shows |
|---|---|---|---|
| `alerter` | one rule on the state of one container, for = resolve_for = 1, cooldown 2, two rows, an adoption of one, two restarts or reloads, any write may be refused | 2.3 M | entry, row and subscriber agree (`IInv`), the table is a ledger (`LedgerSpec`), notifications are handed over once (`NotificationsAccounted`), nothing fires or clears early (`ForHonoured`, `ResolveJustified`), with both goroutines, silences, pruning, crashes and reloads, overtaken or not |
| `alerter_live` | one metric rule, two containers | 363 k | a condition that lasts fires and one that is over clears (`AlertsFollow`) |
| `notifier` | three messages, queue of two, two channels, a Stop and a Flush | 1.1 M | counts are exact, nothing accepted is left behind and each channel has its attempts (`DeliveryExact`), only a full queue refuses and the others are dealt with in order (`OutboxSpec`), sends and Stop end (`NotifierEnds`) |
| `reload` | three alerters, an event handler and a connection, one key, a tailer that may be stuck | 49 k | only a reload can panic (`PanicOnlyInReload`), a retired alerter nobody holds stays idle (`RetiredIsIdle`), reload and shutdown end unless a tailer is stuck (`MainEnds`) |
| `stream` | three alerts, buffers, snapshot limit and map of two | 130 k | no firing alert is missed except at a limit (`NothingMissed`), what is shown wrongly comes from the snapshot (`ShownRight`), an alert that keeps firing is shown (`EventuallyShown`) |
| `tailer` | three lines, batches of two, channel of one, two runs of the container, the third line too long for a scanner, every fault | 976 k | lines are stored in order and once (`LinesExact`), an ended tailer has flushed, and one that was not cancelled, over a stream that did not break, has dealt with its whole run (`EndsRight`), lines leave in batches from the front (`StoreSpec`), Stop returns unless a tailer is stuck (`StopReturns`) |
| `server` | two tokens for three connections, buffers of one, two messages, five sets of sessions | 292 k | hub, subscriptions and tokens agree with the connections (`ConnectionsExact`), lines go out once and pass the filter (`LinesRight`), an awaited answer is written or lost once before the next request (`AnsweredOnce`), test notifications are spaced (`TestSpaced`), publishers, connections and Stop end (`ConnectionsEnd`) |
| `client` | two requests, a pushed message, an unsubscription | 356 k | own answers, whole frames, true errors (`ConnectionExact`), requests end (`RequestsEnd`), the read loop ends (`QuitEnds`) |
| `session` | two servers, any of them auto-connected, one prompt per ssh process | 641 k | what the program believes of its attempts is true (`AttemptsReal`), every tunnel has an owner (`NoOrphanTunnel`), attempts and quitting end (`AttemptsEnd`) |
| `tracking` | two containers of a project, two clients, two toggles, one restart | 2.9 M | decisions hold (`DecisionsHold`), and come back after a restart (`DecisionsSaved`) |
| `detail` | two servers, three targets, a ring and a limit of two, two stored lines and one to come, of two levels and of the same or another second, a container that replaced another, two windows of time, three keys, one failed query or refused batch, a project of one name on both servers | 2.1 M | the lines are the target's (`ViewsRight`), a filter shows the newest matches (`FilterExact`), loading has an answer to wait for (`LoadingIsAwaited`), a paused view stays (`PausedStable`) |
| `metrics` | two servers that keep seven or four and four seconds, one connected before the program, three points, three windows, five moves (zooms, switches, reloads, failures), two backfills under way, pasts with gaps | 3.1 M | no peak is lost or invented (`PeakNear`), graphs are of one window (`GraphsRight`), "loading" ends with its own answer (`PendingIsReal`), a session is refused only what it could not know (`RefusedUnforeseen`) |

Why the bounds are enough. Capacities of one and two with one more item than fits
reach the empty, the full and the overflowing buffer, queue, map and semaphore.
Durations of 1 and 2 make every timer both pending and expired, and cooldown 2 is
longer than the others so that it is the one that decides. Two rows per key are the
least that can be two open rows, and an adoption limit of one leaves the other unread;
a restart meets what an earlier process left, and two of them what a reload and a
crash left together.
Three alerters let an event handler hold the first while the third is installed. A
connection that subscribes, unsubscribes and subscribes again has two forwarding
goroutines at once, and two published messages can be forwarded by both. Two
requests and an unsubscription are three writers for one mutex. Two attempts are the
least that can overwrite a prompt. Two toggles and two connections save in either
order, with a third copy already in the table. A detail view of three keys can open,
filter and leave, or open, leave and open another; its two stored lines and one to come are more than its
ring and its limit of two, so the limit cuts, and a separator needs a place they
need. Four and seven seconds of retention let a reload make a window that was allowed
too long. Seven seconds and three points
give groups of one and of two seconds, and fewer groups than points as well as
more; the bounds of groups and buckets then fall together or apart.

Runs that say `CHECK_DEADLOCK FALSE` are systems that stop: a notifier, an agent
that was shut down, a client that quit, a bounded number of alerts, lines or keys.

## Fairness

Weak fairness of a goroutine's next step stands for Go's scheduler: a goroutine
that can run runs. Strong fairness is used where a lock, a channel or a `select`
is contended and Go's implementations are starvation-free or choose at random:
taking `a.mu` for an evaluation whose collection succeeds (which also assumes
that collections do not fail for ever), writing to a connection, and leaving a
loop when told to.

`LogTailer` assumes that its pipeline as a whole takes a step while a stage can
(`WF_tailerVars(Work)`). That a stream breaks, the container writes or exits, and Sync
or Stop is called is never owed.

`SocketServer` and `Client` assume no more: only that the program as a whole takes a
step while one of its goroutines can (`WF_vars(System)`, `WF_vars(Running)`). Their
bounded instances make every such run come to rest, so the liveness properties say
that the system never rests in a state it should leave, and no fair choice among
goroutines is needed.

`Session` has weak fairness per attempt, of the user's answer to the prompt that is
on the screen, and of the end of the program; the timer is a step of the attempt.
Nothing else is owed by the user, and ssh need neither connect nor end.

Nothing is assumed of containers, metrics, clients that read, reloads, crashes,
lost connections, key strokes, or of a notification channel succeeding. `Client` has
one assumption about room: the connection takes the frames of all outstanding
requests (`UpBuf`, six halves), as a few hundred bytes of requests always fit the
kernel's buffer. Without it the update loop, which writes to the connection itself,
would wait for an agent that waits for the read loop, which waits for the update
loop.

## Proofs

Every theorem is checked by TLAPS and holds for every value of the constants that
satisfies the module's named assumption. Every invariant the runs check is proved, and
so are the three refinements and the action properties. In each case the invariant the run
checks is not inductive as it stands; the named parts below are what it takes.

* `AlerterProofs`: for every set of rules, targets, keys and durations,
  `TypeCorrect` and `AlerterInvariant` and, from it, `NoOrphans`, `Ownership`,
  `OneOpenRow` and `FeedIsExact`. The four agreements support each other: that a
  key has one open row that is not adrift is preserved by `fire` only because such a
  row belongs to a firing entry. `AdriftUnowned` keeps the rows nobody owns apart:
  no entry has the id of one, so no evaluation, and no late one on a replaced alerter,
  takes a row from the entry that owns it. `DownIsIdle` is what makes a crash
  harmless. `AlerterImplementsLedger` shows with the same invariant that every step,
  late evaluations and adoptions cut by the limit included, is a step of
  `AlertLedger` or leaves the table alone: a second open row for a key appears only
  where the first, or the new one, has been left by its alerter.
  `NotificationsAreAccounted`, which compares sequences, so also their order, `ForIsHonoured` and `ResolvesAreJustified` add
  `OneEvaluation` (a key that waits for its turn is in no queue: the goroutine that
  holds `a.mu` has copied nothing yet) and `ClocksHeld`: `pendingSince` and
  `falseAt` never run ahead of `held`, the time for which the observations really
  were what they are. A step that fires or resolves is then a `Transition` whose
  entry had waited long enough.
* `AgentProofs`, on `Reload`: for any number of connections and reloads,
  `ShutdownIsSafe` and `ReplacedStaysIdle`, from the invariant that a queue is closed
  only when its alerter is no longer current (or about to be replaced, or the agent
  is down), that pointers differ from `a.alerter` only between the assignment and
  their SetAlerter, and that shutdown has waited for the goroutines it names.
  On `LogTailer`: `LinesAreExact` and `TailersEndFlushed`, for any lines, batches,
  channels, runs and faults, lines too long for a scanner included. The pipeline is
  read from its end: `KeepsOrder` says that what is stored comes before what the
  batch holds, that before the channel, the scanners and StdCopy; `LosesNone` that
  these places and the refused batches share out the lines delivered so far;
  `EndsInTurn` that the stages end in the order of the pipeline, except a scanner
  that a long line ended. `FollowsRun` adds why they end: only a cancellation or the
  end of the tailer closes its stream, the channel is closed after StdCopy only (a long
  line ends one scanner, not both, and StdCopy stays), and StdCopy returns from an open
  stream when its run is over and read, or when the stream broke. With it
  `RunsAreStored` follows, for streams that did not break, and that the loop, which
  ends last, leaves nothing behind, whatever ended it. The two are the parts of
  `EndsRight` (`TailersEndRight`). `FollowerIsOne` is the agreement of `lt.tailers`
  with the goroutines, for any number of tailers; the run has one tailer, so it is
  proved only. `TailersImplementStore` maps the four places of
  the pipeline to one ordered set: a move from one place to the next is a stutter
  (`MoveRefines`), StdCopy's write sends a line behind all others of its stream
  (`CopyRefines`, from `LosesNone`), and a flush takes lines from the front
  (`LeaveRefines`, from `KeepsOrder`), also the last one, which ends the tailer.
* `StreamProofs`, on `AlertStream`: for all capacities and limits, `StreamTypes`,
  `StreamMissesNothing` and `ShownIsRight`. The first strengthening is that a
  "resolved" event on its way is about a row that is resolved for good, so applying
  it never removes an alert that fires. For the client's map, `RemovalComing` says
  that a resolved alert which is shown, or will be, has its removal on the way; it
  holds because outside the snapshot no "firing" event comes behind the "resolved"
  one (`ResolvedLast`, over the hub's buffer, the forwarding goroutine and the
  connection) and nothing is sent before the subscription (`NothingEarly`). The cap
  rests on the fact that a nonempty set of numbers has a least one to evict.
  On `Metrics`: `PeaksAreNear` for every set of rows, window and number of points. A
  row is in one group, whose reading is its maximum (a nonempty finite set of numbers
  has one) and whose time is less than a bucket earlier, so the group falls into the
  row's bucket or the one before; a bucket that keeps the maximum of its groups, or
  of its CPU, therefore keeps every row's, and what it holds came from one.
  `GraphsAreRight`, `LoadingIsTrue` and `RefusalsAreUnforeseen` come from `MetricsInv`:
  a session has one latest backfill at most (`OneLatest`), which is of the window or
  of a wider one chosen elsewhere (`LatestOfWindow`), what a session has been told
  of the retention fits the windows it asks for (`KnownFits`), so that a refusal means
  that less has been kept since (`RetentionFits` says what retentions there are), and one that has not
  connected has nothing (`Untouched`).
* `NotifierProofs`: `DeliveriesAreAccounted` and `ChannelsAreTried`, together
  `DeliveriesAreExact`, for any number of messages, channels, Stops and Flushes. `WorkerProgress` says that the channels
  before the worker's are settled, the current one has as many tries as the attempt
  counter says and the later ones none; `WaitersRight` that a Stop returned only
  after the worker left, and that what a Flush waits for was never dropped. That the
  wait group never goes negative rests on counting the messages in flight.
  `NotifierImplementsOutbox`: taking a message from the queue moves it within the box,
  so only a sender's success, its refusal by a full queue, the last answer of the last
  channel, the first Stop and a Stop's return are steps of `Outbox`; what was delivered
  on the way is seen when the message leaves the box.
* `SocketServerProofs`: `ConnectionsAreExact`, `RequestsAreAnswered`,
  `TestsAreSpaced` and `LinesAreRight`, for any connections, requests, filters and
  buffers. `HubSafe` adds that a connection's subscriptions are its own, their
  channels open, and that Publish visits subscribers of the hub only, which is why it
  never sends on a closed channel; `AnswerDue` says what a handler has said at each stage: nothing until its
  answer is written or lost, and then it has nothing left to do.
  Tokens are counted by the cardinality of the connections served. For the lines, `InOnePlace`
  says that a message is in one buffer, in one forwarding goroutine or on the
  connection, also across the old and the new subscription of a connection;
  `NotEarly` that the one being published has reached none of the subscribers still
  to be visited; `FilterKept` that what is held passed the filter of its
  subscription.
* `ClientProofs`: `ConnectionIsExact`, for any number of requests and any room on the
  connection. `AnswersNamed` says that whatever carries an answer, or will become
  one (entry, frame, channel, message), names the request that waits for it;
  `WriterHoldsLock` that half a frame is on the connection only while its writer
  holds `c.mu`; `EndHasCause` that the read loop ends without Close only after a loss.
* `TuiProofs`, on `Session`: `AttemptsAreReal` and `TunnelsAreOwned`, for any number of
  servers and prompts. `SshOfAttempt` ties ssh, its askpass loop and the tunnel to the
  stage of their attempt: a session with a tunnel has no attempt, so a new attempt
  never overwrites a tunnel.
  On `DetailView`: `ViewsAreRight`, `FiltersAreExact`, `LoadingEnds` and the action
  property `PausedStays`, for any servers, targets, lines, filters and sizes of buffer
  and screen. `DetailInv` adds what the messages on their way may carry: a query asks
  for its target (`Scoped`), the query of the last change of a filter was built from
  that filter and answered with its newest rows (`Asked`), only opened targets are
  asked for (`Opened`), and a view that loads has taken nothing yet (`Loading`). The
  lemmas number the selected rows by their rank among the places of a table. The rows a
  query returned stay the newest of those stored by then, whatever is stored later, and
  an answer to the view's own query passes the filter again when it is shown. The
  separators put into it take places of the ring, so of the rows an end is left, and
  rows are missing only from a full ring; the lemma `EndShown` is that an end of the
  list with separators shows an end of the rows.
  `PausedStays` follows the cursor's arithmetic through `Push`: while paused, the
  scroll grows by the streamed line that passes, and the last visible line stays.
* `TrackingProofs`: `DecisionsAreKept` and `SavedDecisionsAreComplete`, for any
  containers, projects, connections, toggles and restarts. `ListedDecisions` says
  that a cycle that will prune has listed every container with a decision to keep;
  `CopiesAgree`, with the count of toggles under way, that a copy that counts every
  toggle was taken when none was left to apply.

Assumptions: `KeyAssumption`, `RuleAssumption`, `BoundAssumption` (a key has a rule
and a target, durations and bounds are naturals), `ReloadAssumption`,
`TailerAssumption`, `StreamAssumption`, `RowsAssumption`, `MetricsAssumption`, `NotifierAssumption`,
`ServerAssumption`, `ClientAssumption`, `SessionAssumption`, `DetailAssumption`,
`TrackingAssumption`: capacities are positive, bounds are naturals, sets that are
counted are finite, names are told apart, windows grow, a retention covers the live
range, readings are positive (0 marks a point without one). TLC evaluates them in every run.

Only model-checked: the liveness properties, `AlertsFollow`,
`NotifierEnds`, `MainEnds`, `EventuallyShown`, `StopReturns`, `ConnectionsEnd`,
`RequestsEnd`, `QuitEnds` and `AttemptsEnd`, because fairness and ENABLED are beyond
the prover. `StopReturns` and `MainEnds` except a tailer that is stuck in a scanner that
gave up on a long line (see below). The prover has no induction over data. Where an argument needs
one, it uses that a nonempty set of naturals has a least element, or that a finite
set has a cardinality, which the library states without operator parameters.

## Disagreements

What the code does, met while modelling, where its comments or a reader would
expect something else. The properties state what holds; this list says what does not.

Agent:

* An empty list of containers keeps the alerts of the last one firing: Collect
  returns a nil slice when nothing is tracked (`docker.go:205`), which the alerter
  takes for a failed collection (`alert.go:141`, `alert.go:240`).
* A failed stats call yields zero metrics (`docker.go:312`), which can resolve a
  numeric alert of a container that still runs.
* An event handler that read the old alerter's pointer (`events.go:194`) fires an
  alert on it after ResolveAll (`alert.go:477`), or resolves one it had opened there;
  a row it opens stays open, beside one the new alerter may open for the same key,
  until a start adopts or closes it. `IInv` keeps account of these rows (`adrift`).
  The same window makes a notification panic on the closed queue; `PanicOnlyInReload`
  shows that shutdown has no such window.
* A start adopts at most 1000 open rows (`store_queries.go:157`), as many as a
  snapshot shows; of two open rows of a key the last one read is adopted. The others
  stay open, unowned.
* ResolveAll leaves `falseAt` where it is (`alert.go:477`); nothing reads it, because
  the alerter is stopped next, but for a late event evaluation.
* A rule's cooldown lives with its entry (`alert.go:154`): after a cleanup or a
  restart the rule may fire again inside it.
* A second reload while one is pending is dropped (`agent.go:114`), as the comment
  above it says, also when it is the newer one.
* A line over 64 KB ends a scanner (`logs.go:187`) without closing its pipe; the
  demultiplexer stays blocked and Stop never returns, nor does the agent's shutdown,
  which calls it (`agent.go:353`).
* The error of StdCopy is ignored (`logs.go:122`): a stream that breaks, as when Docker
  restarts, ends its tailer as the end of the run does. While the entry stays in
  `lt.tailers`, the rest of the run is not read; `EndsRight` excepts such a tailer.
* A tailer that has ended keeps its entry in `lt.tailers` until a Sync removes it
  (`logs.go:52`): a container that restarts between two collections is read again
  only later, and then from the start of its run (`logs.go:92`); what an earlier
  agent had stored is stored twice.
* A snapshot row written after its "resolved" event leaves an alert on the client's
  screen (`socket.go:413`); `ShownRight` says it is the only way without a dropped
  event.
* An answer that cannot be encoded (`socket.go:232`), or that is over the limit of a
  frame (`codec.go:20`), is not sent, and nothing in its place: the client waits for
  its timeout. `AnsweredOnce` counts it as lost.
* The retention of an agent can be reduced by a reload (`agent.go:182`). A session keeps
  what it was told until the next answer tells it (`app.go:475`), so a window it takes
  for allowed is refused; a query reads the retention twice (`socket.go:264`,
  `socket.go:513`) and may be told another than it was checked against.
  `RefusedUnforeseen` excepts exactly these refusals.
* Toggles can be saved in the order other than that of their copies
  (`socket.go:791`), so a restart may bring back the older decision.
* Of a container with few groups the downsampling keeps the group with the most CPU
  per bucket and its memory with it, so a peak of the memory can be lost.

Client:

* A new container is announced by an event, upon which the client asks for the
  containers (`app.go:504`); the agent lists it only after its next collection
  (`docker.go:175`), so the container is missing until another event.
* The program has one prompt (`app.go:354`). A second server's prompt replaces the
  first; the askpass loop of the first waits for an answer nobody can give, and
  closing its tunnel waits for that loop (`tunnel.go:280`). `AttemptsEnd` excepts
  exactly these attempts (`overwritten`).
* An attempt under way when the program exits leaves its ssh process running;
  `NoOrphanTunnel` covers what sessions hold.
* A backfill that fails sends no message, so the session shows "loading" until the
  next one (`session.go:48`); `PendingIsReal` excepts it (`lost`). A session that is
  connected before the program starts gets its first backfill from App.Init
  (`app.go:214`), which does not set `BackfillPending`, so it is not shown although
  the comment says "true while a backfill query is in-flight"; excepted as well.
* The window is shared by all sessions but a change refreshes the active one only:
  another server's ring keeps points of the old window (`foreign` in
  `GraphOfWindow`), and the zoom looks at the retention of the active server, so
  that a switch to a server with a shorter one is refused (`session.go:50`).
* A live backfill pushes its history after the live points that have already come.
* A query for log lines is built by its goroutine from the shared `DetailState`
  while the update loop may change it (`detail_log.go:47`): a data race, which the
  model explores as "the old or the new target". `ViewsRight` excepts a view whose
  query was built late (`late`, then `stray`).
* The answer to a query with an older filter is taken if it comes first
  (`detail.go:259`, `detail_key.go:87`) and may lack lines the newer one should show.
* Answers go to the active session: projects of the same name on two servers
  (`detail.go:265` compares the name only), and a target that is opened again, cannot
  be told from one another. The lines of one server can so appear in the view of the
  other; `ViewsRight` excepts it (`stray`).
* The separators an answer gets where a container was redeployed (`detail.go:289`) take
  places in the ring, whether they pass the filter or not, so as many of its oldest
  lines are pushed out (`FilterExact` says an end of the newest is shown).
* Lines of the second in which a backfill ends, and lines not yet stored by the
  tailer's batch, can be missing from a view or shown twice.
* A failed search shows a total of 0; changing the zoom asks again without the
  search; and `gg` does not reach the oldest line when there are date headers,
  because the largest scroll does not count them (`detail_key.go:36`).

## Not modelled

* Host collector, configuration, conditions, log field parsing, formatting and
  layout: sequential computations without state that other parts read; the modules
  see their results ("matches or not", a reading, a level).
* CPU deltas, the inspect cache and the image cache of the Docker collector; disks
  and networks in the store, which run through the same queries as the host's and
  containers' rows.
* SMTP, HTTP and Docker's API beyond success, failure and what they return.
* The alerts list, dialogs and modals, the graphs of the detail view, navigation in
  lists, rates, and the flags of the command line.
* Limits inside modelled parts: a collection fails per source and not per container;
  a listing of containers is one step; `AckAlert` changes nothing the properties
  see; the length of the event watcher's backoff is left to chance; the wall clock
  does not go backwards.
* Composition: modules are composed where they share state (`Reload`, `AlertStream`,
  `DetailView`, `Tracking`); one model of agent and client together is out of reach,
  and its parts meet at the promises listed under [Modules](#modules).

What would come next: an abstract exchange of requests and answers that `Client` and
`SocketServer` both implement, an abstract stream for `AlertStream`, and the client's
alerts view.
