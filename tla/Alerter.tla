------------------------------ MODULE Alerter ------------------------------
(***************************************************************************)
(* The alert state machine of the agent (internal/agent/alert.go), with    *)
(* the alerts table it writes (store_queries.go), the snapshot the collect *)
(* loop feeds it (agent.go, docker.go) and the life of the process around  *)
(* it: crash, restart with AdoptFiring, and reload, which resolves what    *)
(* fires and replaces the alerter although an event may still evaluate it. *)
(*                                                                         *)
(* Time.  The code stores instants and compares differences with a rule's  *)
(* durations.  The model stores the time elapsed since the instant,        *)
(* saturated at the duration it is compared with, and Never for Go's zero  *)
(* time: every comparison has the same outcome, and no bound on time is    *)
(* needed.  Evaluate and EvaluateContainerEvent read the clock once, right *)
(* after taking a.mu, so time passes only while a.mu is free.  A field the *)
(* code no longer reads (pendingSince once an entry is not pending) is     *)
(* reset to Never.                                                         *)
(*                                                                         *)
(* Locking.  Both evaluations hold a.mu while they write rows one by one,  *)
(* so the steps of one evaluation are steps of the model: a crash, a       *)
(* Silence (silencesMu is another lock) or a prune may fall between two.   *)
(***************************************************************************)
EXTENDS Integers, Sequences, FiniteSets

CONSTANTS
    Rules,          \* every rule some version of the config file defines
    Targets,        \* containers, mountpoints, and the host
    Keys,           \* instance keys: "rule" for the host, "rule:target" else
    RuleOf,         \* [Keys -> Rules]
    TargetOf,       \* [Keys -> Targets]
    Source,         \* [Rules -> Sources], the snapshot field a rule reads
    StrRules,       \* container rules on state or health, evaluated on events
    LogRules,       \* rules that count log lines in the store
    NotifyRules,    \* rules whose actions include "notify"
    ForDur, ResolveForDur, Cooldown, NotifyCooldown,    \* [Rules -> Nat]
    MaxSilence,     \* longest silence a client asks for; negative: none does
    AdoptLimit,     \* the limit of the query AdoptFiring reads open rows with
    MaxAlerts,      \* bound: rows the table can hold, an insert beyond fails
    MaxRestarts,    \* bound: crashes and reloads in one behaviour
    StoreFails      \* BOOLEAN: may the database refuse a write?

Sources == {"host", "disks", "containers"}
Durations == [Rules -> Nat]

ASSUME KeyAssumption ==
    /\ RuleOf \in [Keys -> Rules]
    /\ TargetOf \in [Keys -> Targets]
    /\ Source \in [Rules -> Sources]

ASSUME RuleAssumption ==
    /\ StrRules \subseteq Rules
    /\ LogRules \subseteq Rules
    /\ NotifyRules \subseteq Rules
    /\ ForDur \in Durations /\ ResolveForDur \in Durations
    /\ Cooldown \in Durations /\ NotifyCooldown \in Durations

ASSUME BoundAssumption ==
    /\ MaxSilence \in Int /\ MaxAlerts \in Nat /\ MaxRestarts \in Nat
    /\ AdoptLimit \in Nat \ {0}
    /\ StoreFails \in BOOLEAN

VARIABLES
    \* the world the collectors look at
    present,        \* targets that exist (containers: exist and are tracked)
    bad,            \* keys whose condition the current metrics satisfy
    \* the database
    alerts,         \* the alerts table; a row's id is its index
    \* the agent process
    up,             \* is the process running?
    rules,          \* names in a.rules; {} means the agent has no alerter
    inst,           \* a.instances, with state "none" for a missing entry
    mu,             \* who holds a.mu
    todo,           \* keys the running evaluation has still to transition
    obs,            \* what the running evaluation reads of each key
    deferred,       \* a.deferred: keys whose notification was queued under mu
    pending,        \* runDeferred's copy, per goroutine
    retiring,       \* is applyConfig between ResolveAll and the new alerter?
    late,           \* keys an event has still to transition in a retired alerter
    old,            \* the ids that alerter's entries of those keys hold
    lastNotified,   \* [Rules -> time since the last notification]
    silences,       \* [Rules -> time left of the silence]
    \* history, read by properties only
    feed,           \* ids a lossless "alerts" subscriber shows as firing
    adrift,         \* rows that were left without an entry, and may stay open
    held,           \* last observation of a key and for how long it holds
    owed,           \* notifications decided and not yet handed over, per goroutine
    restarts        \* crashes and reloads so far

world == <<present, bad>>
control == <<mu, todo, obs>>
history == <<feed, adrift, held, owed>>
retired == <<retiring, late, old>>
vars == <<present, bad, alerts, up, rules, inst, mu, todo, obs, deferred, pending,
          retiring, late, old, lastNotified, silences, feed, adrift, held, owed,
          restarts>>

-----------------------------------------------------------------------------
(* Values *)

Never == -1
Threads == {"collect", "event"}
Ids == 1..Len(alerts)
Age == Nat \cup {Never}
InstStates == {"none", "inactive", "pending", "firing"}
Instance == [state : InstStates, pendingSince : Age, falseAt : Age,
             resolvedAt : Age, dbID : Nat]
Row == [key : Keys, state : {"firing", "resolved", "deleted"}]
Observation == {"nil", "gone", "ok", "bad"}

\* &alertInstance{}: every field zero, the state inactive
NewInstance == [state |-> "inactive", pendingSince |-> Never, falseAt |-> Never,
                resolvedAt |-> Never, dbID |-> 0]
NoInstance == [NewInstance EXCEPT !.state = "none"]
Untouched == [k \in Keys |-> "nil"]
NotObserved == [was |-> "gone", age |-> 0]
NothingPending == [t \in Threads |-> <<>>]
NoRows == [k \in Keys |-> 0]

\* What the store answers to a write.
Answers == IF StoreFails THEN BOOLEAN ELSE {TRUE}

RuleKeys(rs) == {k \in Keys : RuleOf[k] \in rs}
Firing == {k \in Keys : inst[k].state = "firing"}
Unresolved == {i \in Ids : alerts[i].state = "firing"}
SourceTargets(s) == {TargetOf[k] : k \in {l \in Keys : Source[RuleOf[l]] = s}}

-----------------------------------------------------------------------------
(* The snapshot *)

\* What Evaluate sees of a key: "nil" when the field of the snapshot is nil
\* (collection failed, or the collector returned an empty, hence nil, slice)
\* or the log count failed; "gone" when the target is not in the field.
Observe(k, failed, logErrs) ==
    LET s == Source[RuleOf[k]]
    IN  CASE \/ s \in failed
             \/ RuleOf[k] \in logErrs
             \/ s # "host" /\ SourceTargets(s) \cap present = {} -> "nil"
          [] TargetOf[k] \notin present -> "gone"
          [] k \in bad -> "bad"
          [] OTHER -> "ok"

\* The keys a nil field keeps out of stale cleanup are those with an entry;
\* the others have nothing to clean up.
Seen(k) == obs[k] # "gone"

-----------------------------------------------------------------------------
(* transition, fire, resolve *)

\* The entry transition works on: created when the map has none.
Entry(k) == IF inst[k].state = "none" THEN NewInstance ELSE inst[k]

CoolingDown(k, i) ==
    /\ Cooldown[RuleOf[k]] > 0
    /\ i.resolvedAt # Never
    /\ i.resolvedAt < Cooldown[RuleOf[k]]

\* Mutant: `for` is not waited for.
MutantMustFire(k, i, matched) ==
    matched /\ i.state \in {"inactive", "pending"} /\ ~CoolingDown(k, i)

\* Mutant: > for >= at the end of the pending period.
MutantMustFireLate(k, i, matched) ==
    /\ matched
    /\ \/ i.state = "inactive" /\ ~CoolingDown(k, i) /\ ForDur[RuleOf[k]] = 0
       \/ i.state = "pending" /\ i.pendingSince > ForDur[RuleOf[k]]

MustFire(k, i, matched) ==
    /\ matched
    /\ \/ i.state = "inactive" /\ ~CoolingDown(k, i) /\ ForDur[RuleOf[k]] = 0
       \/ i.state = "pending" /\ i.pendingSince >= ForDur[RuleOf[k]]

\* Mutant: > for >= at the end of the grace period.
MutantMustResolve(k, i, matched) ==
    /\ i.state = "firing"
    /\ ~matched
    /\ i.falseAt # Never /\ i.falseAt > ResolveForDur[RuleOf[k]]

MustResolve(k, i, matched) ==
    /\ i.state = "firing"
    /\ ~matched
    /\ \/ ResolveForDur[RuleOf[k]] = 0
       \/ i.falseAt # Never /\ i.falseAt >= ResolveForDur[RuleOf[k]]

\* Mutant: a true observation does not restart the grace period.
MutantStepNoReset(k, i, matched) ==
    CASE i.state = "inactive" /\ matched /\ ~CoolingDown(k, i) ->
            [i EXCEPT !.state = "pending", !.pendingSince = 0]
      [] i.state = "pending" /\ ~matched ->
            [i EXCEPT !.state = "inactive", !.pendingSince = Never]
      [] i.state = "firing" /\ ~matched /\ i.falseAt = Never ->
            [i EXCEPT !.falseAt = 0]
      [] OTHER -> i

\* The entry after a transition that neither fires nor resolves.
Step(k, i, matched) ==
    CASE i.state = "inactive" /\ matched /\ ~CoolingDown(k, i) ->
            [i EXCEPT !.state = "pending", !.pendingSince = 0]
      [] i.state = "pending" /\ ~matched ->
            [i EXCEPT !.state = "inactive", !.pendingSince = Never]
      [] i.state = "firing" /\ matched -> [i EXCEPT !.falseAt = Never]
      [] i.state = "firing" /\ ~matched /\ i.falseAt = Never ->
            [i EXCEPT !.falseAt = 0]
      [] OTHER -> i

Silenced(r) == silences[r] # Never

\* May fire hand a notification of rule r to the notifier?
Notifies(r) ==
    /\ r \in NotifyRules
    /\ ~Silenced(r)
    /\ \/ NotifyCooldown[r] = 0
       \/ lastNotified[r] = Never
       \/ lastNotified[r] >= NotifyCooldown[r]

\* InsertAlert, whose id is 0 when the store refuses the row, and the "firing" event
\* published with that id.
Insert(k, id) ==
    /\ id \in {IF ok /\ Len(alerts) < MaxAlerts THEN Len(alerts) + 1 ELSE 0 : ok \in Answers}
    /\ alerts' = IF id = 0 THEN alerts
                 ELSE Append(alerts, [key |-> k, state |-> "firing"])
    /\ feed' = feed \cup {id}

\* fire: insert the row and publish, queue the notification under the lock.
Fire(k, i) ==
    /\ \E id \in {0, Len(alerts) + 1} :
          /\ Insert(k, id)
          /\ inst' = [inst EXCEPT ![k] =
                         [i EXCEPT !.state = "firing", !.pendingSince = Never, !.dbID = id]]
    /\ IF Notifies(RuleOf[k])
       THEN /\ deferred' = Append(deferred, k)
            /\ lastNotified' = [lastNotified EXCEPT ![RuleOf[k]] = 0]
            /\ owed' = [owed EXCEPT ![mu] = Append(@, k)]
       ELSE UNCHANGED <<deferred, lastNotified, owed>>
    /\ UNCHANGED adrift

\* ResolveAlert on the rows `ids`, of which the store refuses `refused`; a row
\* already deleted is an UPDATE of zero rows.
ResolveRows(ids, refused) ==
    [i \in Ids |-> IF i \in ids \ refused /\ alerts[i].state = "firing"
                   THEN [alerts[i] EXCEPT !.state = "resolved"]
                   ELSE alerts[i]]

\* Which of the rows `ids` the store may refuse to resolve.
Refusals(ids) == IF StoreFails THEN SUBSET ids ELSE {{}}

\* The rows `ids` are to be resolved, and their entries give them up: those the store
\* refuses stay "firing" without one.
Close(ids) ==
    \E refused \in Refusals(ids) :
        /\ alerts' = ResolveRows(ids, refused)
        /\ adrift' = adrift \cup (refused \cap Unresolved)

\* Mutant: no "resolved" event is published.
MutantResolve(ks) == Close({inst[k].dbID : k \in ks} \ {0}) /\ UNCHANGED feed

\* resolve of the entries in ks: an entry without an id has no row to resolve
\* and no "resolved" event to publish.
Resolve(ks) ==
    LET ids == {inst[k].dbID : k \in ks} \ {0}
    IN  /\ Close(ids)
        /\ feed' = feed \ ids

\* The entry after resolve: the id is forgotten whatever the store answered.
\* falseAt is set only where resolve_for > 0, and cleared on that path.
Resolved(i) == [i EXCEPT !.state = "inactive", !.resolvedAt = 0,
                         !.falseAt = Never, !.dbID = 0]

\* The observation history: a key seen again with the same answer keeps its age.
Hold(k, o) ==
    held' = [held EXCEPT ![k] = IF @.was = o THEN @ ELSE [was |-> o, age |-> 0]]

\* Mutant: an evaluation starts with what the last one queued.
MutantResetDeferred == UNCHANGED deferred

\* a.deferred = a.deferred[:0]
ResetDeferred == deferred' = <<>>

-----------------------------------------------------------------------------
(* Evaluate, run by the collect loop, and EvaluateContainerEvent, run by the
   event watcher. *)

\* Collect a snapshot and enter Evaluate.  Host and disks fail together.
BeginEvaluate(failed, logErrs) ==
    /\ up /\ rules # {} /\ mu = "free" /\ pending["collect"] = <<>> /\ ~retiring
    /\ mu' = "collect"
    /\ obs' = [k \in Keys |-> IF RuleOf[k] \in rules
                              THEN Observe(k, failed, logErrs) ELSE "gone"]
    /\ todo' = {k \in RuleKeys(rules) : Observe(k, failed, logErrs) \in {"ok", "bad"}}
    /\ ResetDeferred
    /\ UNCHANGED <<world, alerts, up, rules, inst, pending, retired, lastNotified,
                   silences, history, restarts>>

\* The keys an event of container t evaluates: those of the rules on its state or health.
EventKeys(t) == {k \in RuleKeys(rules \cap StrRules) : TargetOf[k] = t}

\* A Docker event for tracked container t: only string rules are evaluated,
\* on the state and health the event's action stands for, whatever the
\* container's real condition is.  While a reload goes on it is the old alerter's.
BeginEvent(t, matches) ==
    LET ks == EventKeys(t)
    IN  /\ up /\ rules # {} /\ mu = "free" /\ pending["event"] = <<>> /\ late = {}
        /\ t \in present
        /\ matches \subseteq ks
        /\ mu' = "event"
        /\ obs' = [k \in Keys |-> CASE k \in matches -> "bad"
                                    [] k \in ks -> "ok"
                                    [] OTHER -> "nil"]
        /\ todo' = ks
        /\ ResetDeferred
        /\ UNCHANGED <<world, alerts, up, rules, inst, pending, retired,
                       lastNotified, silences, history, restarts>>

\* One iteration of the evaluation loops: transition of one key.  Rules are
\* visited by name and keys in snapshot order; keys share nothing but the
\* notify cooldown, so any order is allowed.
Transition(k) ==
    LET i == Entry(k)
        matched == obs[k] = "bad"
    IN  /\ k \in todo
        /\ todo' = todo \ {k}
        /\ Hold(k, obs[k])
        /\ \/ MustFire(k, i, matched) /\ Fire(k, i)
           \/ /\ MustResolve(k, i, matched)
              /\ Resolve({k})
              /\ inst' = [inst EXCEPT ![k] = Resolved(i)]
              /\ UNCHANGED <<deferred, lastNotified, owed>>
           \/ /\ ~MustFire(k, i, matched) /\ ~MustResolve(k, i, matched)
              /\ inst' = [inst EXCEPT ![k] = Step(k, i, matched)]
              /\ UNCHANGED <<alerts, feed, adrift, deferred, lastNotified, owed>>
        /\ UNCHANGED <<world, up, rules, mu, obs, pending, retired, silences, restarts>>

\* Entries of the map the evaluation did not see.
StaleKeys == {k \in Keys : inst[k].state # "none" /\ ~Seen(k)}

\* Stale cleanup of one entry: resolve it if it fires, then delete it.
CleanUp(k) ==
    /\ mu = "collect" /\ todo = {} /\ k \in StaleKeys
    /\ IF inst[k].state = "firing"
       THEN Resolve({k})
       ELSE UNCHANGED <<alerts, feed, adrift>>
    /\ inst' = [inst EXCEPT ![k] = NoInstance]
    /\ held' = [held EXCEPT ![k] = NotObserved]
    /\ UNCHANGED <<world, up, rules, control, deferred, pending, retired, lastNotified,
                   silences, owed, restarts>>

\* runDeferred: copy the queued notifications, release a.mu.  Only Evaluate
\* cleans up stale entries.
RunDeferred ==
    /\ mu # "free" /\ todo = {}
    /\ mu = "collect" => StaleKeys = {}
    /\ pending' = [pending EXCEPT ![mu] = deferred]
    /\ mu' = "free" /\ obs' = Untouched
    /\ UNCHANGED <<world, alerts, up, rules, inst, todo, deferred, retired, lastNotified,
                   silences, history, restarts>>

\* A queue without its head.
Rest(queue) == SubSeq(queue, 2, Len(queue))

\* runDeferred, continued without the lock: hand the next notification over.
SendAlert(t) ==
    /\ pending[t] # <<>>
    /\ pending' = [pending EXCEPT ![t] = Rest(@)]
    /\ owed' = [owed EXCEPT ![t] = Rest(@)]
    /\ UNCHANGED <<world, alerts, up, rules, inst, control, deferred, retired,
                   lastNotified, silences, feed, adrift, held, restarts>>

\* A client silences a rule; a silence of 0 ends the one in force.
Silence(r, d) ==
    /\ up /\ r \in rules
    /\ silences' = [silences EXCEPT ![r] = d]
    /\ UNCHANGED <<world, alerts, up, rules, inst, control, deferred, pending, retired,
                   lastNotified, history, restarts>>

-----------------------------------------------------------------------------
(* The life of the process *)

\* NewAlerter with rules rs: nothing is remembered of an earlier one.
NewAlerter(rs) ==
    /\ rules' = rs
    /\ lastNotified' = [r \in Rules |-> Never]
    /\ silences' = [r \in Rules |-> Never]
    /\ deferred' = <<>>
    /\ held' = [k \in Keys |-> NotObserved]

\* applyConfig: the old alerter resolves everything.  The collect loop runs it, between
\* two collections; ResolveAll waits for a.mu, so for an event that is being evaluated.
\* It leaves falseAt, and the entries that do not fire.
Retire ==
    /\ up /\ ~retiring /\ mu = "free" /\ pending["collect"] = <<>>
    /\ restarts < MaxRestarts /\ restarts' = restarts + 1
    /\ retiring' = TRUE
    /\ Resolve(Firing)
    /\ inst' = [k \in Keys |-> IF k \in Firing
                               THEN [Resolved(inst[k]) EXCEPT !.falseAt = inst[k].falseAt]
                               ELSE inst[k]]
    /\ UNCHANGED <<world, up, rules, control, deferred, pending, late, old, lastNotified,
                   silences, held, owed>>

\* What the event watcher may have left to do in the alerter it read (events.go:194)
\* when that one is replaced: the rest of an evaluation, one it has not begun, or none.
Overtaken ==
    CASE mu = "event" -> {todo}
      [] late # {} -> {late}
      [] pending["event"] # <<>> -> {{}}
      [] OTHER -> {{}} \cup {EventKeys(t) : t \in present \cap SourceTargets("containers")}

\* applyConfig, continued: the new alerter takes the old one's place, which nobody
\* waits for.  A row an event opened in it since ResolveAll has no entry from now on.
\* What the late evaluation still queues meets a closed notifier (module Reload).
Install(rs) ==
    /\ up /\ retiring /\ mu # "collect"
    /\ retiring' = FALSE
    /\ late' \in Overtaken
    /\ old' = IF late # {} THEN old
              ELSE [k \in Keys |-> IF k \in late' THEN inst[k].dbID ELSE 0]
    /\ adrift' = adrift \cup ({inst[k].dbID : k \in Keys} \ {0})
    /\ inst' = [k \in Keys |-> NoInstance]
    /\ mu' = "free" /\ todo' = {} /\ obs' = Untouched
    /\ owed' = IF mu = "event" THEN [owed EXCEPT !["event"] = <<>>] ELSE owed
    /\ NewAlerter(rs)
    /\ UNCHANGED <<world, alerts, up, pending, feed, restarts>>

\* A transition of the retired alerter: its row, new or old, is in nobody's hands.
LateTransition(k) ==
    /\ k \in late /\ late' = late \ {k}
    /\ old' = [old EXCEPT ![k] = 0]
    /\ \/ UNCHANGED <<alerts, feed, adrift>>
       \/ /\ old[k] = 0
          /\ \E id \in {0, Len(alerts) + 1} :
                Insert(k, id) /\ adrift' = adrift \cup ({id} \ {0})
       \/ /\ old[k] # 0
          /\ Close({old[k]}) /\ feed' = feed \ {old[k]}
    /\ UNCHANGED <<world, up, rules, inst, control, deferred, pending, retiring,
                   lastNotified, silences, held, owed, restarts>>

\* The process dies, at any point; the table survives.
Crash ==
    /\ up /\ up' = FALSE
    /\ restarts < MaxRestarts /\ restarts' = restarts + 1
    /\ NewAlerter({})
    /\ inst' = [k \in Keys |-> NoInstance]
    /\ mu' = "free" /\ todo' = {} /\ obs' = Untouched
    /\ pending' = NothingPending /\ owed' = NothingPending
    /\ retiring' = FALSE /\ late' = {} /\ old' = NoRows
    /\ feed' = {}
    /\ UNCHANGED <<world, alerts, adrift>>

\* The open rows QueryFiringAlerts returns: as many as its limit allows.  They come
\* newest first by a time in whole seconds; of rows of one second any may be first.
RowsRead ==
    IF Cardinality(Unresolved) <= AdoptLimit THEN {Unresolved}
    ELSE {read \in SUBSET Unresolved : Cardinality(read) = AdoptLimit}

\* Each row read for a key of a known rule overwrites the entry of the one before it:
\* the rows whose entry may be the last; 0 is no entry.
LastRead(k, read) ==
    LET mine == {i \in read : alerts[i].key = k}
    IN  IF RuleOf[k] \in rules' /\ mine # {} THEN mine ELSE {0}

AdoptedEntry(i) ==
    IF i = 0 THEN NoInstance ELSE [NewInstance EXCEPT !.state = "firing", !.dbID = i]

\* Mutant: a restarted agent ignores the rows of the process before it.
MutantAdoptFiring ==
    /\ inst' = [k \in Keys |-> NoInstance]
    /\ UNCHANGED <<alerts, adrift>>

\* AdoptFiring: rows of known rules become firing entries, the others are resolved.
\* Without an entry stay those not read, overwritten, or refused by the store.
AdoptFiring ==
    \E read \in RowsRead : \E row \in [Keys -> read \cup {0}] :
        LET unknown == {i \in read : RuleOf[alerts[i].key] \notin rules'}
            overwritten == {i \in read : row[alerts[i].key] \in read \ {i}}
        IN  /\ \A k \in Keys : row[k] \in LastRead(k, read)
            /\ inst' = [k \in Keys |-> AdoptedEntry(row[k])]
            /\ \E refused \in Refusals(unknown) :
                  /\ alerts' = ResolveRows(unknown, refused)
                  /\ adrift' = (Unresolved \ read) \cup overwritten \cup refused

\* ResolveOrphanedAlerts, one UPDATE for the whole table; and the failed query
\* of AdoptFiring, after which the agent runs on with no entries.
ResolveOrphanedAlerts ==
    /\ inst' = [k \in Keys |-> NoInstance]
    /\ \E ok \in Answers :
          /\ alerts' = IF ok THEN ResolveRows(Unresolved, {}) ELSE alerts
          /\ adrift' = IF ok THEN adrift ELSE adrift \cup Unresolved

AdoptFails ==
    /\ StoreFails
    /\ inst' = [k \in Keys |-> NoInstance]
    /\ adrift' = adrift \cup Unresolved
    /\ UNCHANGED alerts

\* New: with rules, adopt what an earlier process left firing; without, resolve
\* it.  Clients that reconnect are sent the unresolved rows.
Restart(rs) ==
    /\ ~up /\ up' = TRUE
    /\ NewAlerter(rs)
    /\ IF rs = {} THEN ResolveOrphanedAlerts ELSE AdoptFiring \/ AdoptFails
    /\ feed' = {i \in Ids : alerts'[i].state = "firing"}
    /\ UNCHANGED <<world, control, pending, retired, owed, restarts>>

\* Prune deletes the rows fired before the cutoff, resolved or not.  It runs in
\* the collect loop, after Evaluate.
Prune(last) ==
    /\ up /\ mu # "collect" /\ pending["collect"] = <<>> /\ ~retiring
    /\ \E i \in 1..last : alerts[i].state # "deleted"
    /\ alerts' = [i \in Ids |-> IF i <= last
                                THEN [alerts[i] EXCEPT !.state = "deleted"]
                                ELSE alerts[i]]
    /\ UNCHANGED <<world, up, rules, inst, control, deferred, pending, retired,
                   lastNotified, silences, history, restarts>>

-----------------------------------------------------------------------------
(* The environment *)

\* Targets come and go; the host stays.
Movable == SourceTargets("disks") \cup SourceTargets("containers")

ComeOrGo(t) ==
    /\ present' = IF t \in present THEN present \ {t} ELSE present \cup {t}
    /\ UNCHANGED <<bad, alerts, up, rules, inst, control, deferred, pending, retired,
                   lastNotified, silences, history, restarts>>

\* The metrics of k's target cross the threshold of k's rule.
Flip(k) ==
    /\ bad' = IF k \in bad THEN bad \ {k} ELSE bad \cup {k}
    /\ UNCHANGED <<present, alerts, up, rules, inst, control, deferred, pending, retired,
                   lastNotified, silences, history, restarts>>

Older(age, cap) == IF age = Never \/ age >= cap THEN age ELSE age + 1

HeldCap(k) == CASE held[k].was = "bad" -> ForDur[RuleOf[k]]
                [] held[k].was = "ok" -> ResolveForDur[RuleOf[k]]
                [] OTHER -> 0

\* What is left of a silence one unit later: isSilenced ends it after its last
\* instant.
TimeLeft(r) == IF silences[r] = Never THEN Never ELSE silences[r] - 1

\* One unit of time.
Tick ==
    /\ up /\ mu = "free"
    /\ inst' = [k \in Keys |->
                  [inst[k] EXCEPT
                     !.pendingSince = Older(@, ForDur[RuleOf[k]]),
                     !.falseAt = Older(@, ResolveForDur[RuleOf[k]]),
                     !.resolvedAt = Older(@, Cooldown[RuleOf[k]])]]
    /\ lastNotified' = [r \in Rules |-> Older(lastNotified[r], NotifyCooldown[r])]
    /\ silences' = [r \in Rules |-> TimeLeft(r)]
    /\ held' = [k \in Keys |-> [held[k] EXCEPT !.age = Older(@, HeldCap(k))]]
    /\ UNCHANGED <<world, alerts, up, rules, control, deferred, pending, retired, feed,
                   adrift, owed, restarts>>

-----------------------------------------------------------------------------
Init ==
    /\ present = Targets
    /\ bad = {}
    /\ alerts = <<>>
    /\ up = FALSE /\ rules = {}
    /\ inst = [k \in Keys |-> NoInstance]
    /\ mu = "free" /\ todo = {} /\ obs = Untouched
    /\ deferred = <<>> /\ pending = NothingPending
    /\ retiring = FALSE /\ late = {} /\ old = NoRows
    /\ lastNotified = [r \in Rules |-> Never]
    /\ silences = [r \in Rules |-> Never]
    /\ feed = {} /\ adrift = {}
    /\ held = [k \in Keys |-> NotObserved]
    /\ owed = NothingPending
    /\ restarts = 0

\* host.Collect and docker.Collect fail separately.
FailedSources == {{}, {"host", "disks"}, {"containers"}, Sources}
LogErrors == IF StoreFails THEN SUBSET LogRules ELSE {{}}

Evaluate ==
    \/ \E failed \in FailedSources, logErrs \in LogErrors :
          BeginEvaluate(failed, logErrs)
    \/ \E t \in Movable : \E matches \in SUBSET RuleKeys(StrRules) :
          BeginEvent(t, matches)
    \/ \E k \in Keys : Transition(k) \/ CleanUp(k)
    \/ RunDeferred
    \/ \E t \in Threads : SendAlert(t)

Life ==
    \/ Retire
    \/ \E rs \in SUBSET Rules : Install(rs) \/ Restart(rs)
    \/ \E k \in Keys : LateTransition(k)
    \/ Crash
    \/ \E last \in Ids : Prune(last)
    \/ \E r \in Rules, d \in 0..MaxSilence : Silence(r, d)

Environment ==
    \/ \E t \in Movable : ComeOrGo(t)
    \/ \E k \in Keys : Flip(k)
    \/ Tick

Next == Evaluate \/ Life \/ Environment

\* An evaluation or a reload that has started runs to its end, unless the process
\* dies; the ticker of the collect loop keeps firing and now and then a collection
\* succeeds (a.mu is starvation-free); time passes.
Fairness ==
    /\ WF_vars(\E k \in Keys : Transition(k) \/ CleanUp(k))
    /\ WF_vars(RunDeferred)
    /\ WF_vars(\E t \in Threads : SendAlert(t))
    /\ WF_vars(\E rs \in SUBSET Rules : Install(rs))
    /\ WF_vars(\E k \in Keys : LateTransition(k))
    /\ SF_vars(BeginEvaluate({}, {}))
    /\ SF_vars(Tick)

Spec == Init /\ [][Next]_vars
FairSpec == Spec /\ Fairness

-----------------------------------------------------------------------------
(* Properties *)

\* Every variable has its type: entries, rows and observations are well formed
\* and the lock is held by one of the two goroutines or by none.
TypeOK ==
    /\ present \subseteq Targets
    /\ bad \subseteq Keys
    /\ alerts \in Seq(Row)
    /\ up \in BOOLEAN
    /\ rules \subseteq Rules
    /\ inst \in [Keys -> Instance]
    /\ mu \in Threads \cup {"free"}
    /\ todo \subseteq Keys
    /\ obs \in [Keys -> Observation]
    /\ deferred \in Seq(Keys)
    /\ pending \in [Threads -> Seq(Keys)]
    /\ retiring \in BOOLEAN
    /\ late \subseteq Keys
    /\ old \in [Keys -> Nat]
    /\ lastNotified \in [Rules -> Age]
    /\ silences \in [Rules -> Age]
    /\ feed \subseteq Nat
    /\ adrift \subseteq Nat
    /\ held \in [Keys -> [was : Observation, age : Nat]]
    /\ owed \in [Threads -> Seq(Keys)]
    /\ restarts \in 0..MaxRestarts

\* An entry that carries an id (alertInstance.dbID) is firing and the row is its
\* own and still open, unless retention deleted it: no fire, resolve, adoption or
\* cleanup, in any order, lets an entry hold another key's row or a closed one.
FiringOwnsRow ==
    \A k \in Keys : inst[k].dbID # 0 =>
        /\ inst[k].state = "firing"
        /\ inst[k].dbID \in Ids
        /\ alerts[inst[k].dbID].key = k
        /\ alerts[inst[k].dbID].state \in {"firing", "deleted"}

\* While the agent runs, a row the table shows as firing is the row of the entry
\* of its key, so a later evaluation can resolve it; a row left behind by a crash
\* is adopted or resolved.  What breaks this is known: the store refused to close the
\* row, an event opened it in an alerter a reload had retired, or AdoptFiring did not
\* read it, beyond its limit, or read two of its key.
NoOrphanRow == up => \A i \in Unresolved : inst[alerts[i].key].dbID = i \/ i \in adrift

\* Of two open rows of one key, one was left behind in one of those ways, also while
\* the agent is down: AdoptFiring, which keeps one row per key, loses no other.
OneOpenRowPerKey ==
    \A i, j \in Unresolved :
        alerts[i].key = alerts[j].key /\ i # j => i \in adrift \/ j \in adrift

\* A subscriber that starts from the open rows and misses no "firing" or
\* "resolved" event shows exactly the alerts the alerter holds as firing (id 0,
\* which a failed insert publishes, and the rows left behind aside).
FeedExact ==
    up => /\ \A k \in Keys : inst[k].dbID # 0 => inst[k].dbID \in feed
          /\ \A i \in feed \ {0} : i \in Ids /\ (inst[alerts[i].key].dbID = i \/ i \in adrift)

\* The inductive strengthening of the four: a process that is down holds nothing, and
\* a row that was left behind, as those of a retired alerter are, is no entry's.
DownIsIdle ==
    ~up => todo = {} /\ mu = "free" /\ \A k \in Keys : inst[k].dbID = 0 /\ old[k] = 0
AdriftUnowned ==
    /\ adrift \subseteq Ids
    /\ \A k \in Keys : inst[k].dbID \notin adrift /\ old[k] \in adrift \cup {0}
Agreement == FiringOwnsRow /\ NoOrphanRow /\ OneOpenRowPerKey /\ FeedExact /\ AdriftUnowned
IInv == TypeOK /\ Agreement /\ DownIsIdle

\* The notifications a goroutine decided under a.mu are, in the order of its
\* transitions, those waiting in a.deferred or in its copy: resetting a.deferred at the
\* start of an evaluation neither drops nor repeats what another one queued, and each
\* is handed over once, the earlier first.
NotificationsAccounted ==
    \A t \in Threads : owed[t] = IF mu = t THEN deferred ELSE pending[t]

\* What NotificationsAccounted needs to be inductive: a goroutine that evaluates has
\* handed over what it copied before; keys wait to be transitioned only while one does,
\* and have been observed.
OneEvaluation ==
    /\ mu = "free" => todo = {}
    /\ mu # "free" => pending[mu] = <<>>
    /\ \A k \in todo : obs[k] \in {"ok", "bad"}

Ledger == INSTANCE AlertLedger WITH table <- alerts

\* The alerts table is a ledger: a row is opened for a key whose open rows were all left
\* behind, unless an event opens it in a retired alerter; it is closed once, never
\* reopened or renamed, through every interleaving of evaluations, reloads, crashes and
\* pruning.
LedgerSpec == Ledger!Spec

\* An entry starts firing only when every observation of its key over the last
\* `for` found the condition true, whichever goroutine made them.
ForHonoured ==
    [][\A k \in Keys :
         up /\ inst[k].state # "firing" /\ inst'[k].state = "firing"
           => held'[k].was = "bad" /\ held'[k].age >= ForDur[RuleOf[k]]]_vars

\* An evaluation ends a firing alert only if every observation of it over the
\* last resolve_for was false, or its target was missing from a snapshot that was
\* collected: a failed collection, however often repeated, resolves nothing.  (Within a
\* reload the old alerter may: ResolveAll leaves falseAt set.)
ResolveJustified ==
    [][\A k \in Keys :
         mu # "free" /\ ~retiring /\ up' /\ inst[k].state = "firing" /\ inst'[k].state # "firing"
           => \/ held'[k].was = "ok" /\ held'[k].age >= ResolveForDur[RuleOf[k]]
              \/ mu = "collect" /\ obs[k] = "gone"]_vars

\* What the two need: the clock of a pending entry, and of a firing one whose condition
\* turned false, shows no more than the time its observation has held.
ClocksHeld ==
    \A k \in Keys :
        /\ inst[k].state = "pending" =>
              held[k].was = "bad" /\ inst[k].pendingSince \in 0..held[k].age
        /\ ~retiring /\ inst[k].state = "firing" /\ inst[k].falseAt # Never =>
              held[k].was = "ok" /\ inst[k].falseAt \in 0..held[k].age
        /\ ~retiring /\ inst[k].state # "firing" => inst[k].falseAt = Never

\* The rule of k is loaded and the agent runs.
Watched(k) == up /\ RuleOf[k] \in rules

\* A metric condition that stays true is eventually an alert that stays firing,
\* whatever evaluations of events, failed collections and silences come between.
BadFires ==
    \A k \in Keys \ RuleKeys(StrRules) :
        <>[](Watched(k) /\ TargetOf[k] \in present /\ k \in bad)
            => <>[](k \in Firing)

\* An alert whose condition stays false, or whose target is gone while the
\* collector still finds another target, is eventually resolved for good.
QuietClears ==
    \A k \in Keys :
        <>[](/\ Watched(k)
             /\ IF TargetOf[k] \in present
                THEN k \notin bad /\ RuleOf[k] \notin StrRules
                ELSE SourceTargets(Source[RuleOf[k]]) \cap present # {})
            => <>[](k \notin Firing)

\* What a user sees of a metric condition in the end is the condition: it is a firing
\* alert when it lasts and none when it is over.
AlertsFollow == BadFires /\ QuietClears
=============================================================================
