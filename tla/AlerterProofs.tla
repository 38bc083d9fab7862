--------------------------- MODULE AlerterProofs ---------------------------
(***************************************************************************)
(* Proofs about Alerter: type correctness, the agreement of the entries,   *)
(* the table and the published feed, and the refinement of AlertLedger.    *)
(***************************************************************************)
EXTENDS Alerter, SequenceTheorems, TLAPS

\* Reading a row of the table.
LEMMA RowType ==
    ASSUME alerts \in Seq(Row)
    PROVE  /\ Len(alerts) \in Nat
           /\ \A i \in Ids : /\ alerts[i] \in Row
                             /\ alerts[i].key \in Keys
                             /\ alerts[i].state \in {"firing", "resolved", "deleted"}
<1>1. Len(alerts) \in Nat /\ \A i \in Ids : alerts[i] \in Row
  BY DEF Ids
<1>2. \A r \in Row : r.key \in Keys /\ r.state \in {"firing", "resolved", "deleted"}
  BY DEF Row
<1> QED BY <1>1, <1>2

\* ResolveRows keeps the table a table of the same length.
LEMMA ResolveRowsType ==
    ASSUME alerts \in Seq(Row), NEW ids, NEW refused
    PROVE  /\ ResolveRows(ids, refused) \in Seq(Row)
           /\ Len(ResolveRows(ids, refused)) = Len(alerts)
           /\ \A i \in Ids : ResolveRows(ids, refused)[i] =
                 IF i \in ids \ refused /\ alerts[i].state = "firing"
                 THEN [alerts[i] EXCEPT !.state = "resolved"] ELSE alerts[i]
<1> DEFINE rr == ResolveRows(ids, refused)
<1>1. Len(alerts) \in Nat /\ \A i \in Ids : alerts[i] \in Row
  BY RowType
<1>2. \A i \in Ids : [alerts[i] EXCEPT !.state = "resolved"] \in Row
  BY <1>1 DEF Row
<1>3. rr \in [1..Len(alerts) -> Row]
  BY <1>1, <1>2 DEF ResolveRows, Ids
<1>4. rr \in Seq(Row) /\ Len(rr) = Len(alerts)
  BY <1>1, <1>3
<1> QED BY <1>4 DEF ResolveRows, Ids

\* Closing rows keeps the types of the table and of the rows left behind.
LEMMA CloseType ==
    ASSUME alerts \in Seq(Row), adrift \subseteq Nat, NEW ids, Close(ids)
    PROVE  alerts' \in Seq(Row) /\ Len(alerts') = Len(alerts) /\ adrift' \subseteq Nat
<1>1. PICK refused \in Refusals(ids) :
         /\ alerts' = ResolveRows(ids, refused)
         /\ adrift' = adrift \cup (refused \cap Unresolved)
  BY DEF Close
<1>2. alerts' \in Seq(Row) /\ Len(alerts') = Len(alerts)
  BY <1>1, ResolveRowsType
<1>3. Unresolved \subseteq Nat
  BY RowType DEF Unresolved, Ids
<1> QED BY <1>1, <1>2, <1>3

\* The empty alerter's values have the types of the variables that hold them.
LEMMA NewAlerterType ==
    ASSUME NEW rs \in SUBSET Rules, NewAlerter(rs)
    PROVE  /\ rules' \subseteq Rules
           /\ lastNotified' \in [Rules -> Age] /\ silences' \in [Rules -> Age]
           /\ deferred' \in Seq(Keys)
           /\ held' \in [Keys -> [was : Observation, age : Nat]]
BY DEF NewAlerter, Age, Never, NotObserved, Observation

\* A queue without its head is a queue.
LEMMA RestType ==
    ASSUME NEW s \in Seq(Keys)
    PROVE  Rest(s) \in Seq(Keys)
<1>1. Len(s) \in Nat /\ \A i \in 2..Len(s) : s[i] \in Keys
  BY LenProperties, ElementOfSeq
<1>2. CASE Len(s) >= 1
  BY <1>1, <1>2, SubSeqProperties DEF Rest
<1>3. CASE Len(s) = 0
  BY <1>1, <1>3, SubSeqProperties DEF Rest
<1> QED BY <1>1, <1>2, <1>3

\* The named constants of the model have the types their uses expect.
LEMMA ConstantsType ==
    /\ NewInstance \in Instance /\ NoInstance \in Instance
    /\ [k \in Keys |-> NoInstance] \in [Keys -> Instance]
    /\ Untouched \in [Keys -> Observation]
    /\ NothingPending \in [Threads -> Seq(Keys)]
    /\ NoRows \in [Keys -> Nat]
    /\ NotObserved \in [was : Observation, age : Nat]
BY DEF NewInstance, NoInstance, Instance, InstStates, Age, Never, Untouched,
       Observation, NothingPending, NoRows, NotObserved

\* The entry a transition works on, and what it becomes, are entries.
LEMMA EntryType ==
    ASSUME TypeOK, NEW k \in Keys
    PROVE  /\ Entry(k) \in Instance
           /\ \A m \in BOOLEAN : Step(k, Entry(k), m) \in Instance
           /\ Resolved(Entry(k)) \in Instance
           /\ \A id \in Nat : [Entry(k) EXCEPT !.state = "firing",
                                  !.pendingSince = Never, !.dbID = id] \in Instance
<1>1. Entry(k) \in Instance
  BY ConstantsType DEF TypeOK, Entry
<1>2. ASSUME NEW i \in Instance
      PROVE  /\ [i EXCEPT !.state = "pending", !.pendingSince = 0] \in Instance
             /\ [i EXCEPT !.state = "inactive", !.pendingSince = Never] \in Instance
             /\ [i EXCEPT !.falseAt = Never] \in Instance
             /\ [i EXCEPT !.falseAt = 0] \in Instance
             /\ Resolved(i) \in Instance
             /\ \A id \in Nat : [i EXCEPT !.state = "firing",
                                  !.pendingSince = Never, !.dbID = id] \in Instance
  BY DEF Instance, InstStates, Age, Never, Resolved
<1>3. \A m \in BOOLEAN : Step(k, Entry(k), m) \in Instance
  BY <1>1, <1>2 DEF Step
<1> QED BY <1>1, <1>2, <1>3

\* InsertAlert keeps the types of the table and the feed, and never shortens the table.
LEMMA InsertType ==
    ASSUME alerts \in Seq(Row), feed \subseteq Nat, NEW k \in Keys,
           NEW id \in {0, Len(alerts) + 1}, Insert(k, id)
    PROVE  /\ id \in Nat /\ alerts' \in Seq(Row) /\ feed' \subseteq Nat
           /\ Ids \subseteq Ids' /\ (id # 0 => id \in Ids')
<1>1. [key |-> k, state |-> "firing"] \in Row
  BY DEF Row
<1>2. Len(alerts) \in Nat
  BY RowType
<1>3. alerts' = IF id = 0 THEN alerts ELSE Append(alerts, [key |-> k, state |-> "firing"])
  BY DEF Insert
<1>4. alerts' \in Seq(Row) /\ Len(alerts') \in {Len(alerts), Len(alerts) + 1}
      /\ (id # 0 => Len(alerts') = Len(alerts) + 1)
  BY <1>1, <1>2, <1>3
<1>5. id \in Nat /\ feed' \subseteq Nat
  BY <1>2 DEF Insert
<1>6. Ids \subseteq Ids' /\ (id # 0 => id \in Ids')
  BY <1>2, <1>4 DEF Ids
<1> QED BY <1>4, <1>5, <1>6

\* fire keeps the types of everything it writes.
LEMMA FireType ==
    ASSUME TypeOK, NEW k \in Keys, Fire(k, Entry(k))
    PROVE  /\ alerts' \in Seq(Row) /\ inst' \in [Keys -> Instance]
           /\ feed' \subseteq Nat /\ deferred' \in Seq(Keys)
           /\ lastNotified' \in [Rules -> Age] /\ owed' \in [Threads -> Seq(Keys)]
           /\ adrift' \subseteq Nat
<1>1. PICK id \in {0, Len(alerts) + 1} :
        /\ Insert(k, id)
        /\ inst' = [inst EXCEPT ![k] =
                       [Entry(k) EXCEPT !.state = "firing",
                                        !.pendingSince = Never, !.dbID = id]]
  BY DEF Fire
<1>2. id \in Nat /\ alerts' \in Seq(Row) /\ feed' \subseteq Nat
  <2>1. alerts \in Seq(Row) /\ feed \subseteq Nat
    BY DEF TypeOK
  <2> QED BY <1>1, <2>1, InsertType
<1>3. inst' \in [Keys -> Instance]
  BY <1>1, <1>2, EntryType DEF TypeOK
<1>4. adrift' \subseteq Nat
  BY <1>2 DEF Fire, TypeOK
<1>5. /\ deferred' \in Seq(Keys) /\ lastNotified' \in [Rules -> Age]
      /\ owed' \in [Threads -> Seq(Keys)]
  <2>1. CASE Notifies(RuleOf[k])
    <3>1. /\ deferred' = Append(deferred, k)
          /\ lastNotified' = [lastNotified EXCEPT ![RuleOf[k]] = 0]
          /\ owed' = [owed EXCEPT ![mu] = Append(owed[mu], k)]
      BY <2>1 DEF Fire
    <3>2. 0 \in Age
      BY DEF Age
    <3>3. /\ deferred \in Seq(Keys) /\ lastNotified \in [Rules -> Age]
          /\ owed \in [Threads -> Seq(Keys)]
      BY DEF TypeOK
    <3>4. deferred' \in Seq(Keys)
      BY <3>1, <3>3
    <3>5. lastNotified' \in [Rules -> Age]
      BY <3>1, <3>2, <3>3
    <3>6. mu \in Threads => Append(owed[mu], k) \in Seq(Keys)
      BY <3>3
    <3> QED BY <3>1, <3>3, <3>4, <3>5, <3>6
  <2>2. CASE ~Notifies(RuleOf[k])
    BY <2>2 DEF Fire, TypeOK
  <2> QED BY <2>1, <2>2
<1> QED BY <1>2, <1>3, <1>4, <1>5

\* One transition keeps the types: nothing happens, it fires, or it resolves.
LEMMA TransitionType ==
    ASSUME TypeOK, NEW k \in Keys, Transition(k)
    PROVE  TypeOK'
<1> DEFINE i == Entry(k)
           matched == obs[k] = "bad"
<1>1. /\ UNCHANGED <<world, up, rules, mu, obs, pending, retired, silences, restarts>>
      /\ todo' = todo \ {k} /\ Hold(k, obs[k])
  BY DEF Transition
<1>2. held' \in [Keys -> [was : Observation, age : Nat]]
  BY <1>1 DEF Hold, TypeOK
<1>3. /\ alerts' \in Seq(Row) /\ inst' \in [Keys -> Instance]
      /\ feed' \subseteq Nat /\ deferred' \in Seq(Keys)
      /\ lastNotified' \in [Rules -> Age] /\ owed' \in [Threads -> Seq(Keys)]
      /\ adrift' \subseteq Nat
  <2>1. CASE Fire(k, i)
    BY <2>1, FireType
  <2>2. CASE /\ Resolve({k}) /\ inst' = [inst EXCEPT ![k] = Resolved(i)]
             /\ UNCHANGED <<deferred, lastNotified, owed>>
    <3>1. alerts' \in Seq(Row) /\ adrift' \subseteq Nat /\ feed' \subseteq Nat
      BY <2>2, CloseType DEF Resolve, TypeOK
    <3> QED BY <2>2, <3>1, EntryType DEF TypeOK
  <2>3. CASE /\ inst' = [inst EXCEPT ![k] = Step(k, i, matched)]
             /\ UNCHANGED <<alerts, feed, adrift, deferred, lastNotified, owed>>
    BY <2>3, EntryType DEF TypeOK, Ids
  <2> QED BY <2>1, <2>2, <2>3 DEF Transition
<1> QED BY <1>1, <1>2, <1>3 DEF TypeOK, world, retired

\* Dropping a stale key keeps the types.
LEMMA CleanUpType ==
    ASSUME TypeOK, NEW k \in Keys, CleanUp(k)
    PROVE  TypeOK'
<1>1. alerts' \in Seq(Row) /\ adrift' \subseteq Nat /\ feed' \subseteq Nat
  <2>1. CASE inst[k].state = "firing"
    <3>1. Resolve({k})
      BY <2>1 DEF CleanUp
    <3> QED BY <3>1, CloseType DEF Resolve, TypeOK
  <2>2. CASE inst[k].state # "firing"
    BY <2>2 DEF CleanUp, TypeOK, Ids
  <2> QED BY <2>1, <2>2
<1>2. inst' \in [Keys -> Instance] /\ held' \in [Keys -> [was : Observation, age : Nat]]
  BY ConstantsType DEF CleanUp, TypeOK
<1> QED BY <1>1, <1>2 DEF CleanUp, TypeOK, world, control, retired

\* The steps of the two evaluations.
LEMMA EvaluateType ==
    ASSUME TypeOK, Evaluate
    PROVE  TypeOK'
<1>1. ASSUME NEW failed \in FailedSources, NEW logErrs \in LogErrors,
             BeginEvaluate(failed, logErrs)
      PROVE  TypeOK'
  <2>1. obs' \in [Keys -> Observation] /\ todo' \subseteq Keys
    BY <1>1 DEF BeginEvaluate, Observe, Observation, RuleKeys
  <2>2. mu' \in Threads \cup {"free"} /\ deferred' \in Seq(Keys)
    BY <1>1 DEF BeginEvaluate, ResetDeferred, Threads
  <2> QED BY <1>1, <2>1, <2>2 DEF BeginEvaluate, TypeOK, world, retired, history
<1>2. ASSUME NEW t \in Movable, NEW matches \in SUBSET RuleKeys(StrRules),
             BeginEvent(t, matches)
      PROVE  TypeOK'
  <2>1. obs' \in [Keys -> Observation] /\ todo' \subseteq Keys
    BY <1>2 DEF BeginEvent, EventKeys, Observation, RuleKeys
  <2>2. mu' \in Threads \cup {"free"} /\ deferred' \in Seq(Keys)
    BY <1>2 DEF BeginEvent, ResetDeferred, Threads
  <2> QED BY <1>2, <2>1, <2>2 DEF BeginEvent, TypeOK, world, retired, history
<1>3. ASSUME NEW k \in Keys, Transition(k) \/ CleanUp(k)
      PROVE  TypeOK'
  BY <1>3, TransitionType, CleanUpType
<1>4. CASE RunDeferred
  <2>1. pending' \in [Threads -> Seq(Keys)]
    BY <1>4 DEF RunDeferred, TypeOK
  <2>2. obs' \in [Keys -> Observation] /\ mu' \in Threads \cup {"free"}
    BY <1>4, ConstantsType DEF RunDeferred
  <2> QED BY <1>4, <2>1, <2>2 DEF RunDeferred, TypeOK, world, retired, history
<1>5. ASSUME NEW t \in Threads, SendAlert(t)
      PROVE  TypeOK'
  <2>1. pending' \in [Threads -> Seq(Keys)]
    BY <1>5, RestType DEF SendAlert, TypeOK
  <2>2. owed' \in [Threads -> Seq(Keys)]
    BY <1>5, RestType DEF SendAlert, TypeOK
  <2> QED BY <1>5, <2>1, <2>2 DEF SendAlert, TypeOK, world, control, retired
<1> QED BY <1>1, <1>2, <1>3, <1>4, <1>5 DEF Evaluate

\* What AdoptFiring reads and makes of it.
LEMMA AdoptFacts ==
    ASSUME alerts \in Seq(Row), AdoptFiring
    PROVE  \E read \in SUBSET Unresolved, refused \in SUBSET Unresolved :
              \E row \in [Keys -> read \cup {0}] :
              /\ \A k \in Keys : /\ inst'[k] = AdoptedEntry(row[k])
                                 /\ row[k] \in LastRead(k, read)
              /\ inst' = [k \in Keys |-> AdoptedEntry(row[k])]
              /\ \A i \in refused : RuleOf[alerts[i].key] \notin rules'
              /\ alerts' = ResolveRows({i \in read : RuleOf[alerts[i].key] \notin rules'},
                                      refused)
              /\ adrift' = (Unresolved \ read)
                              \cup {i \in read : row[alerts[i].key] \in read \ {i}}
                              \cup refused
<1>1. PICK read \in RowsRead : \E row \in [Keys -> read \cup {0}] :
        LET unknown == {i \in read : RuleOf[alerts[i].key] \notin rules'}
            overwritten == {i \in read : row[alerts[i].key] \in read \ {i}}
        IN  /\ \A k \in Keys : row[k] \in LastRead(k, read)
            /\ inst' = [k \in Keys |-> AdoptedEntry(row[k])]
            /\ \E refused \in Refusals(unknown) :
                  /\ alerts' = ResolveRows(unknown, refused)
                  /\ adrift' = (Unresolved \ read) \cup overwritten \cup refused
  BY DEF AdoptFiring
<1>2. read \in SUBSET Unresolved
  BY DEF RowsRead
<1> DEFINE unknown == {i \in read : RuleOf[alerts[i].key] \notin rules'}
<1>3. PICK row \in [Keys -> read \cup {0}] :
        /\ \A k \in Keys : row[k] \in LastRead(k, read)
        /\ inst' = [k \in Keys |-> AdoptedEntry(row[k])]
        /\ \E refused \in Refusals(unknown) :
              /\ alerts' = ResolveRows(unknown, refused)
              /\ adrift' = (Unresolved \ read)
                              \cup {i \in read : row[alerts[i].key] \in read \ {i}}
                              \cup refused
  BY <1>1
<1>4. PICK refused \in Refusals(unknown) :
        /\ alerts' = ResolveRows(unknown, refused)
        /\ adrift' = (Unresolved \ read)
                        \cup {i \in read : row[alerts[i].key] \in read \ {i}}
                        \cup refused
  BY <1>3
<1>5. refused \subseteq unknown
  BY DEF Refusals
<1>6. refused \in SUBSET Unresolved /\ \A i \in refused : RuleOf[alerts[i].key] \notin rules'
  BY <1>2, <1>5
<1> QED BY <1>2, <1>3, <1>4, <1>6

\* A restart keeps the types of the entries, the table and the rows left behind.
LEMMA RestartType ==
    ASSUME TypeOK, NEW rs \in SUBSET Rules, Restart(rs)
    PROVE  TypeOK'
<1>1. NewAlerter(rs)
  BY DEF Restart
<1>2. alerts \in Seq(Row) /\ Len(alerts) \in Nat /\ Unresolved \subseteq Nat
  BY RowType DEF TypeOK, Unresolved, Ids
<1>3. /\ inst' \in [Keys -> Instance] /\ alerts' \in Seq(Row)
      /\ Len(alerts') = Len(alerts) /\ adrift' \subseteq Nat
  <2>1. CASE ResolveOrphanedAlerts
    <3>1. inst' \in [Keys -> Instance]
      BY <2>1, ConstantsType DEF ResolveOrphanedAlerts
    <3>2. alerts' \in Seq(Row) /\ Len(alerts') = Len(alerts)
      BY <1>2, <2>1, ResolveRowsType DEF ResolveOrphanedAlerts
    <3>3. adrift' \subseteq Nat
      BY <1>2, <2>1 DEF ResolveOrphanedAlerts, TypeOK
    <3> QED BY <3>1, <3>2, <3>3
  <2>2. CASE AdoptFiring
    <3>1. PICK read \in SUBSET Unresolved, refused \in SUBSET Unresolved :
             \E row \in [Keys -> read \cup {0}] :
             /\ inst' = [k \in Keys |-> AdoptedEntry(row[k])]
             /\ alerts' = ResolveRows({i \in read : RuleOf[alerts[i].key] \notin rules'},
                                     refused)
             /\ adrift' = (Unresolved \ read)
                             \cup {i \in read : row[alerts[i].key] \in read \ {i}}
                             \cup refused
      BY <1>2, <2>2, AdoptFacts
    <3>2. \A i \in Nat : AdoptedEntry(i) \in Instance
      BY ConstantsType DEF AdoptedEntry, Instance, InstStates
    <3>3. read \cup {0} \subseteq Nat
      BY <1>2
    <3>4. inst' \in [Keys -> Instance]
      <4>1. PICK row \in [Keys -> read \cup {0}] :
               inst' = [k \in Keys |-> AdoptedEntry(row[k])]
        BY <3>1
      <4> QED BY <3>2, <3>3, <4>1
    <3>5. alerts' \in Seq(Row) /\ Len(alerts') = Len(alerts)
      BY <1>2, <3>1, ResolveRowsType
    <3>6. adrift' \subseteq Nat
      BY <1>2, <3>1
    <3> QED BY <3>4, <3>5, <3>6
  <2>3. CASE AdoptFails
    BY <1>2, <2>3, ConstantsType DEF AdoptFails, TypeOK
  <2> QED BY <2>1, <2>2, <2>3 DEF Restart
<1>4. feed' \subseteq Nat /\ adrift' \subseteq Nat
  BY <1>2, <1>3 DEF Restart, Ids
<1> QED BY <1>1, <1>3, <1>4, NewAlerterType DEF Restart, TypeOK, world, control, retired

\* A reload keeps the types, and so do the events that go on in the alerter it retires.
LEMMA ReloadType ==
    ASSUME TypeOK,
           \/ Retire
           \/ \E rs \in SUBSET Rules : Install(rs)
           \/ \E k \in Keys : LateTransition(k)
    PROVE  TypeOK'
<1>1. CASE Retire
  <2>1. alerts' \in Seq(Row) /\ adrift' \subseteq Nat /\ feed' \subseteq Nat
    BY <1>1, CloseType DEF Retire, Resolve, TypeOK
  <2>2. inst' \in [Keys -> Instance]
    <3>1. ASSUME NEW i \in Instance
          PROVE  [Resolved(i) EXCEPT !.falseAt = i.falseAt] \in Instance
      BY DEF Instance, InstStates, Resolved, Age, Never
    <3> QED BY <1>1, <3>1 DEF Retire, TypeOK
  <2>3. restarts' \in 0..MaxRestarts
    BY <1>1, BoundAssumption DEF Retire, TypeOK
  <2> QED BY <1>1, <2>1, <2>2, <2>3 DEF Retire, TypeOK, world, control
<1>2. ASSUME NEW rs \in SUBSET Rules, Install(rs)
      PROVE  TypeOK'
  <2>1. NewAlerter(rs) /\ late' \in Overtaken /\ alerts' = alerts
    BY <1>2 DEF Install
  <2>2. late' \subseteq Keys
    BY <2>1 DEF Overtaken, EventKeys, RuleKeys, TypeOK
  <2>3. \A k \in Keys : inst[k].dbID \in Nat
    BY DEF TypeOK, Instance
  <2>4. old' \in [Keys -> Nat]
    BY <1>2, <2>3 DEF Install, TypeOK
  <2>5. adrift' \subseteq Nat
    BY <1>2, <2>3 DEF Install, TypeOK
  <2>6. owed' \in [Threads -> Seq(Keys)]
    BY <1>2 DEF Install, TypeOK
  <2>7. inst' \in [Keys -> Instance] /\ obs' \in [Keys -> Observation]
    BY <1>2, ConstantsType DEF Install
  <2> QED BY <1>2, <2>1, <2>2, <2>4, <2>5, <2>6, <2>7, NewAlerterType
          DEF Install, TypeOK, world
<1>3. ASSUME NEW k \in Keys, LateTransition(k)
      PROVE  TypeOK'
  <2>1. alerts' \in Seq(Row) /\ adrift' \subseteq Nat /\ feed' \subseteq Nat
    <3>1. CASE UNCHANGED <<alerts, feed, adrift>>
      BY <3>1 DEF TypeOK, Ids
    <3>2. ASSUME NEW id \in {0, Len(alerts) + 1}, Insert(k, id),
                 adrift' = adrift \cup ({id} \ {0})
          PROVE  alerts' \in Seq(Row) /\ adrift' \subseteq Nat /\ feed' \subseteq Nat
      BY <3>2, InsertType DEF TypeOK
    <3>3. CASE Close({old[k]}) /\ feed' = feed \ {old[k]}
      BY <3>3, CloseType DEF TypeOK
    <3> QED BY <1>3, <3>1, <3>2, <3>3 DEF LateTransition
  <2>2. late' \subseteq Keys /\ old' \in [Keys -> Nat]
    BY <1>3 DEF LateTransition, TypeOK
  <2> QED BY <1>3, <2>1, <2>2 DEF LateTransition, TypeOK, world, control
<1> QED BY <1>1, <1>2, <1>3

\* Crash, pruning and silences.
LEMMA LifeType ==
    ASSUME TypeOK, Life
    PROVE  TypeOK'
<1>1. CASE \/ Retire
           \/ \E rs \in SUBSET Rules : Install(rs)
           \/ \E k \in Keys : LateTransition(k)
  BY <1>1, ReloadType
<1>2. ASSUME NEW rs \in SUBSET Rules, Restart(rs)
      PROVE  TypeOK'
  BY <1>2, RestartType
<1>3. CASE Crash
  <2>1. NewAlerter({}) /\ {} \in SUBSET Rules
    BY <1>3 DEF Crash
  <2>2. restarts' \in 0..MaxRestarts
    BY <1>3, BoundAssumption DEF Crash, TypeOK
  <2>3. /\ inst' \in [Keys -> Instance] /\ obs' \in [Keys -> Observation]
        /\ pending' \in [Threads -> Seq(Keys)] /\ old' \in [Keys -> Nat]
        /\ owed' \in [Threads -> Seq(Keys)] /\ feed' \subseteq Nat
    BY <1>3, ConstantsType DEF Crash
  <2> QED BY <1>3, <2>1, <2>2, <2>3, NewAlerterType DEF Crash, TypeOK, world
<1>4. ASSUME NEW last \in Ids, Prune(last)
      PROVE  TypeOK'
  <2>1. \A i \in Ids : alerts[i] \in Row /\ [alerts[i] EXCEPT !.state = "deleted"] \in Row
    BY RowType DEF TypeOK, Row
  <2>2. alerts' \in [1..Len(alerts) -> Row] /\ Len(alerts) \in Nat
    BY <1>4, <2>1, RowType DEF Prune, Ids, TypeOK
  <2>3. alerts' \in Seq(Row)
    BY <2>2
  <2> QED BY <1>4, <2>3 DEF Prune, TypeOK, world, control, retired, history
<1>5. ASSUME NEW r \in Rules, NEW d \in 0..MaxSilence, Silence(r, d)
      PROVE  TypeOK'
  <2>1. d \in Age
    BY BoundAssumption DEF Age
  <2>2. silences' \in [Rules -> Age]
    BY <1>5, <2>1 DEF Silence, TypeOK
  <2> QED BY <1>5, <2>2 DEF Silence, TypeOK, world, control, retired, history
<1> QED BY <1>1, <1>2, <1>3, <1>4, <1>5 DEF Life

\* The environment's steps.
LEMMA EnvironmentType ==
    ASSUME TypeOK, Environment
    PROVE  TypeOK'
<1>1. ASSUME NEW t \in Movable, ComeOrGo(t)
      PROVE  TypeOK'
  <2>1. t \in Targets
    BY KeyAssumption DEF Movable, SourceTargets
  <2> QED BY <1>1, <2>1 DEF ComeOrGo, TypeOK, control, retired, history
<1>2. ASSUME NEW k \in Keys, Flip(k)
      PROVE  TypeOK'
  BY <1>2 DEF Flip, TypeOK, control, retired, history
<1>3. CASE Tick
  <2>1. \A a \in Age, c \in Nat : Older(a, c) \in Age
    BY DEF Older, Age, Never
  <2>2. \A a \in Nat, c \in Nat : Older(a, c) \in Nat
    BY DEF Older, Never
  <2>3. \A k \in Keys : /\ ForDur[RuleOf[k]] \in Nat
                        /\ ResolveForDur[RuleOf[k]] \in Nat
                        /\ Cooldown[RuleOf[k]] \in Nat
                        /\ HeldCap(k) \in Nat
    BY KeyAssumption, RuleAssumption DEF Durations, HeldCap
  <2>4. inst' \in [Keys -> Instance]
    <3>1. ASSUME NEW i \in Instance, NEW a \in Age, NEW b \in Age, NEW c \in Age
          PROVE  [i EXCEPT !.pendingSince = a, !.falseAt = b, !.resolvedAt = c] \in Instance
      BY DEF Instance
    <3>2. ASSUME NEW k \in Keys
          PROVE  [inst[k] EXCEPT
                    !.pendingSince = Older(@, ForDur[RuleOf[k]]),
                    !.falseAt = Older(@, ResolveForDur[RuleOf[k]]),
                    !.resolvedAt = Older(@, Cooldown[RuleOf[k]])] \in Instance
      <4>1. inst[k] \in Instance /\ inst[k].pendingSince \in Age
            /\ inst[k].falseAt \in Age /\ inst[k].resolvedAt \in Age
        BY DEF TypeOK, Instance
      <4> QED BY <2>1, <2>3, <3>1, <4>1
    <3> QED BY <1>3, <3>2 DEF Tick
  <2>5. lastNotified' \in [Rules -> Age]
    BY <1>3, <2>1, RuleAssumption DEF Tick, TypeOK, Durations
  <2>6. silences' \in [Rules -> Age]
    <3>1. \A r \in Rules : silences[r] \in Age
      BY DEF TypeOK
    <3>2. \A r \in Rules : TimeLeft(r) \in Age
      BY <3>1 DEF TimeLeft, Age, Never
    <3> QED BY <1>3, <3>2 DEF Tick
  <2>7. held' \in [Keys -> [was : Observation, age : Nat]]
    BY <1>3, <2>2, <2>3 DEF Tick, TypeOK
  <2> QED BY <1>3, <2>4, <2>5, <2>6, <2>7 DEF Tick, TypeOK, world, control, retired
<1> QED BY <1>1, <1>2, <1>3 DEF Environment

\* Type correctness: no evaluation, event, reload, crash or restart leaves the
\* alerter or the alerts table in a malformed state.
THEOREM TypeCorrect == Spec => []TypeOK
<1>1. Init => TypeOK
  <2> SUFFICES ASSUME Init PROVE TypeOK
    OBVIOUS
  <2>1. alerts \in Seq(Row)
    BY DEF Init
  <2>2. lastNotified \in [Rules -> Age] /\ silences \in [Rules -> Age]
    BY DEF Init, Age, Never
  <2>3. owed \in [Threads -> Seq(Keys)] /\ held \in [Keys -> [was : Observation, age : Nat]]
    BY ConstantsType DEF Init
  <2>4. restarts \in 0..MaxRestarts
    BY BoundAssumption DEF Init
  <2>5. deferred \in Seq(Keys) /\ pending \in [Threads -> Seq(Keys)]
    BY ConstantsType DEF Init
  <2> QED BY <2>1, <2>2, <2>3, <2>4, <2>5, ConstantsType DEF Init, TypeOK
<1>2. TypeOK /\ [Next]_vars => TypeOK'
  <2> SUFFICES ASSUME TypeOK, [Next]_vars PROVE TypeOK'
    OBVIOUS
  <2>1. CASE UNCHANGED vars
    BY <2>1 DEF vars, TypeOK
  <2> QED BY <2>1, EvaluateType, LifeType, EnvironmentType DEF Next
<1> QED BY <1>1, <1>2, PTL DEF Spec

-----------------------------------------------------------------------------
(* Agreement of the entries, the table and the feed.  A row is changed by
   closing rows (CloseFacts), opening one (InsertFacts) and pruning; an id is
   dropped by resolve (ResolveAgreement) and by a reload, which sets it adrift
   (InstallAgreement), and taken by fire and AdoptFiring; all other steps leave
   the three alone (QuietAgreement). *)

\* Closing rows: a row outside ids is untouched, a row in ids is closed or set adrift.
LEMMA CloseFacts ==
    ASSUME TypeOK, AdriftUnowned, NEW ids, Close(ids)
    PROVE  /\ Ids' = Ids
           /\ adrift \subseteq adrift' /\ adrift' \subseteq adrift \cup (ids \cap Ids)
           /\ \A i \in Ids : /\ alerts'[i].key = alerts[i].key
                             /\ i \notin ids => alerts'[i].state = alerts[i].state
                             /\ alerts'[i].state = "firing" =>
                                   /\ alerts[i].state = "firing"
                                   /\ i \in ids => i \in adrift'
                             /\ alerts[i].state = "deleted" => alerts'[i].state = "deleted"
<1>1. PICK refused \in Refusals(ids) :
         /\ alerts' = ResolveRows(ids, refused)
         /\ adrift' = adrift \cup (refused \cap Unresolved)
  BY DEF Close
<1>2. alerts \in Seq(Row) /\ refused \subseteq ids
  BY DEF TypeOK, Refusals
<1>3. Len(alerts') = Len(alerts) /\ Ids' = Ids
  BY <1>1, <1>2, ResolveRowsType DEF Ids
<1>4. \A i \in Ids : alerts'[i] = IF i \in ids \ refused /\ alerts[i].state = "firing"
                                  THEN [alerts[i] EXCEPT !.state = "resolved"]
                                  ELSE alerts[i]
  BY <1>1, <1>2, ResolveRowsType
<1>5. \A i \in Ids : /\ [alerts[i] EXCEPT !.state = "resolved"].key = alerts[i].key
                     /\ [alerts[i] EXCEPT !.state = "resolved"].state = "resolved"
  BY <1>2, RowType DEF Row
<1>6. ASSUME NEW i \in Ids
      PROVE  /\ alerts'[i].key = alerts[i].key
             /\ i \notin ids => alerts'[i].state = alerts[i].state
             /\ alerts'[i].state = "firing" =>
                   /\ alerts[i].state = "firing"
                   /\ i \in ids => i \in adrift'
             /\ alerts[i].state = "deleted" => alerts'[i].state = "deleted"
  <2>1. CASE i \in ids \ refused /\ alerts[i].state = "firing"
    BY <1>4, <1>5, <2>1
  <2>2. CASE ~(i \in ids \ refused /\ alerts[i].state = "firing")
    <3>1. alerts'[i] = alerts[i]
      BY <1>4, <2>2
    <3>2. alerts[i].state = "firing" /\ i \in ids => i \in adrift'
      BY <1>1, <2>2 DEF Unresolved
    <3> QED BY <3>1, <3>2
  <2> QED BY <2>1, <2>2
<1>7. adrift \subseteq adrift' /\ adrift' \subseteq adrift \cup (ids \cap Ids)
  BY <1>1, <1>2 DEF Unresolved
<1> QED BY <1>3, <1>6, <1>7

\* Opening a row: the others are untouched.
LEMMA InsertFacts ==
    ASSUME TypeOK, NEW k \in Keys, NEW id \in {0, Len(alerts) + 1}, Insert(k, id)
    PROVE  /\ feed' = feed \cup {id} /\ id \notin Ids
           /\ Ids' = Ids \cup ({id} \ {0})
           /\ \A i \in Ids : alerts'[i] = alerts[i]
           /\ id # 0 => alerts'[id].key = k /\ alerts'[id].state = "firing"
           /\ Unresolved' = Unresolved \cup ({id} \ {0})
<1>1. alerts \in Seq(Row) /\ Len(alerts) \in Nat
  BY RowType DEF TypeOK
<1>2. feed' = feed \cup {id} /\ id \notin Ids
  BY <1>1 DEF Insert, Ids
<1>3. CASE id = 0
  <2>1. alerts' = alerts
    BY <1>3 DEF Insert
  <2> QED BY <1>2, <1>3, <2>1 DEF Ids, Unresolved
<1>4. CASE id # 0
  <2>1. id = Len(alerts) + 1 /\ alerts' = Append(alerts, [key |-> k, state |-> "firing"])
    BY <1>4 DEF Insert
  <2>2. Len(alerts') = Len(alerts) + 1 /\ alerts'[id] = [key |-> k, state |-> "firing"]
        /\ \A i \in Ids : alerts'[i] = alerts[i]
    BY <1>1, <2>1 DEF Ids
  <2>3. Ids' = Ids \cup {id}
    BY <1>1, <2>1, <2>2 DEF Ids
  <2>4. alerts'[id].key = k /\ alerts'[id].state = "firing"
    BY <2>2
  <2>5. Unresolved' = Unresolved \cup {id}
    BY <1>2, <2>2, <2>3, <2>4 DEF Unresolved
  <2> QED BY <1>2, <1>4, <2>2, <2>3, <2>4, <2>5
<1> QED BY <1>3, <1>4

\* While the agent runs, of two open rows of a key at most one is the entry's.
LEMMA OneOwner ==
    ASSUME up', NoOrphanRow'
    PROVE  OneOpenRowPerKey'
BY DEF NoOrphanRow, OneOpenRowPerKey

\* A step that touches neither the rows, the feed nor any id.
LEMMA QuietAgreement ==
    ASSUME IInv, up' = up, UNCHANGED <<alerts, adrift, feed, old>>,
           \A k \in Keys : /\ inst'[k].dbID = inst[k].dbID
                           /\ inst[k].state = "firing" => inst'[k].state = "firing"
    PROVE  Agreement'
<1>1. Ids' = Ids /\ Unresolved' = Unresolved
  BY DEF Ids, Unresolved
<1>2. alerts \in Seq(Row) /\ \A i \in Ids : alerts[i].key \in Keys
  BY RowType DEF IInv, TypeOK
<1>3. FiringOwnsRow' /\ OneOpenRowPerKey' /\ AdriftUnowned'
  BY <1>1, <1>2 DEF IInv, Agreement, FiringOwnsRow, OneOpenRowPerKey, AdriftUnowned
<1>4. NoOrphanRow'
  BY <1>1, <1>2 DEF IInv, Agreement, NoOrphanRow, Unresolved
<1>5. FeedExact'
  BY <1>1, <1>2 DEF IInv, Agreement, FeedExact
<1> QED BY <1>3, <1>4, <1>5 DEF Agreement

\* resolve of the entries ks, which drop their ids.
LEMMA ResolveAgreement ==
    ASSUME IInv, up, up', NEW ks \in SUBSET Keys, Resolve(ks), UNCHANGED old,
           \A k \in ks : inst'[k].dbID = 0,
           \A k \in Keys \ ks : /\ inst'[k].dbID = inst[k].dbID
                                /\ inst[k].dbID # 0 => inst'[k].state = "firing"
    PROVE  Agreement'
<1> DEFINE ids == {inst[k].dbID : k \in ks} \ {0}
<1>1. Close(ids) /\ feed' = feed \ ids
  BY DEF Resolve
<1>2. TypeOK /\ Agreement
  BY DEF IInv
<1>3. /\ Ids' = Ids
      /\ adrift \subseteq adrift' /\ adrift' \subseteq adrift \cup (ids \cap Ids)
      /\ \A i \in Ids : /\ alerts'[i].key = alerts[i].key
                        /\ i \notin ids => alerts'[i].state = alerts[i].state
                        /\ alerts'[i].state = "firing" =>
                              /\ alerts[i].state = "firing"
                              /\ i \in ids => i \in adrift'
                        /\ alerts[i].state = "deleted" => alerts'[i].state = "deleted"
  BY <1>1, <1>2, CloseFacts DEF Agreement
<1>4. alerts \in Seq(Row) /\ (\A i \in Ids : alerts[i].key \in Keys) /\ 0 \notin Ids
  BY <1>2, RowType DEF TypeOK, Ids
<1>5. \A k \in Keys : inst'[k].dbID # 0 =>
         k \notin ks /\ inst'[k].dbID = inst[k].dbID /\ inst[k].dbID \notin ids
  BY <1>2 DEF Agreement, FiringOwnsRow
<1> HIDE DEF ids
<1>6. FiringOwnsRow'
  BY <1>2, <1>3, <1>5 DEF Agreement, FiringOwnsRow
<1>7. ASSUME NEW i \in Ids, inst[alerts[i].key].dbID = i
      PROVE  i \in ids \/ inst'[alerts[i].key].dbID = i
  <2>1. i # 0 /\ alerts[i].key \in Keys
    BY <1>4 DEF Ids
  <2> QED BY <1>7, <2>1 DEF ids
<1>8. NoOrphanRow'
  BY <1>2, <1>3, <1>7 DEF Agreement, NoOrphanRow, Unresolved
<1>9. AdriftUnowned'
  <2>1. \A k \in Keys : inst'[k].dbID \notin adrift'
    BY <1>2, <1>3, <1>4, <1>5 DEF Agreement, AdriftUnowned
  <2> QED BY <1>2, <1>3, <2>1 DEF Agreement, AdriftUnowned
<1>10. FeedExact'
  <2>1. \A k \in Keys : inst'[k].dbID # 0 => inst'[k].dbID \in feed'
    BY <1>1, <1>2, <1>5 DEF Agreement, FeedExact
  <2>2. ASSUME NEW i \in feed' \ {0}
        PROVE  i \in Ids' /\ (inst'[alerts'[i].key].dbID = i \/ i \in adrift')
    BY <1>1, <1>2, <1>3, <1>7 DEF Agreement, FeedExact
  <2> QED BY <2>1, <2>2 DEF FeedExact
<1> QED BY <1>6, <1>8, <1>9, <1>10, OneOwner DEF Agreement

\* fire of an entry that was not firing, which holds no row.
LEMMA FireAgreement ==
    ASSUME IInv, up, up', NEW k \in Keys, Fire(k, Entry(k)), UNCHANGED old,
           inst[k].state # "firing"
    PROVE  Agreement'
<1>1. PICK id \in {0, Len(alerts) + 1} :
        /\ Insert(k, id)
        /\ inst' = [inst EXCEPT ![k] =
                       [Entry(k) EXCEPT !.state = "firing",
                                        !.pendingSince = Never, !.dbID = id]]
  BY DEF Fire
<1>2. TypeOK /\ Agreement /\ adrift' = adrift
  BY DEF IInv, Fire
<1>3. /\ feed' = feed \cup {id} /\ id \notin Ids
      /\ Ids' = Ids \cup ({id} \ {0})
      /\ \A i \in Ids : alerts'[i] = alerts[i]
      /\ id # 0 => alerts'[id].key = k /\ alerts'[id].state = "firing"
      /\ Unresolved' = Unresolved \cup ({id} \ {0})
  BY <1>1, <1>2, InsertFacts
<1>4. /\ inst'[k].dbID = id /\ inst'[k].state = "firing"
      /\ \A l \in Keys \ {k} : inst'[l] = inst[l]
  <2>1. inst \in [Keys -> Instance] /\ Entry(k) \in Instance
    BY <1>2, EntryType DEF TypeOK
  <2> QED BY <1>1, <2>1 DEF Instance
<1>5. inst[k].dbID = 0 /\ 0 \notin Ids /\ \A i \in Ids : alerts[i].key \in Keys
  BY <1>2, RowType DEF Agreement, FiringOwnsRow, TypeOK, Ids
<1>6. FiringOwnsRow'
  <2>1. ASSUME NEW l \in Keys \ {k}, inst'[l].dbID # 0
        PROVE  /\ inst'[l].state = "firing" /\ inst'[l].dbID \in Ids'
               /\ alerts'[inst'[l].dbID].key = l
               /\ alerts'[inst'[l].dbID].state \in {"firing", "deleted"}
    BY <1>2, <1>3, <1>4, <2>1 DEF Agreement, FiringOwnsRow
  <2> QED BY <1>3, <1>4, <2>1 DEF FiringOwnsRow
<1>7. NoOrphanRow'
  <2>1. ASSUME NEW i \in Unresolved
        PROVE  inst'[alerts'[i].key].dbID = i \/ i \in adrift'
    <3>1. i \in Ids /\ alerts'[i] = alerts[i] /\ alerts[i].key \in Keys /\ i # 0
      BY <1>3, <1>5 DEF Unresolved
    <3> QED BY <1>2, <1>4, <1>5, <3>1 DEF Agreement, NoOrphanRow
  <2> QED BY <1>3, <1>4, <2>1 DEF NoOrphanRow
<1>8. FeedExact'
  <2>1. \A l \in Keys : inst'[l].dbID # 0 => inst'[l].dbID \in feed'
    BY <1>2, <1>3, <1>4 DEF Agreement, FeedExact
  <2>2. ASSUME NEW i \in feed' \ {0}
        PROVE  i \in Ids' /\ (inst'[alerts'[i].key].dbID = i \/ i \in adrift')
    <3>1. CASE i = id
      BY <1>3, <1>4, <2>2, <3>1
    <3>2. CASE i # id
      <4>1. i \in Ids /\ (inst[alerts[i].key].dbID = i \/ i \in adrift)
        BY <1>2, <1>3, <2>2, <3>2 DEF Agreement, FeedExact
      <4> QED BY <1>2, <1>3, <1>4, <1>5, <4>1
    <3> QED BY <3>1, <3>2
  <2> QED BY <2>1, <2>2 DEF FeedExact
<1>9. AdriftUnowned'
  BY <1>2, <1>3, <1>4 DEF Agreement, AdriftUnowned
<1> QED BY <1>6, <1>7, <1>8, <1>9, OneOwner DEF Agreement

\* One key's transition keeps the agreement.
LEMMA TransitionAgreement ==
    ASSUME IInv, NEW k \in Keys, Transition(k)
    PROVE  Agreement' /\ DownIsIdle'
<1> DEFINE i == Entry(k)
           matched == obs[k] = "bad"
<1>1. TypeOK /\ up /\ up' = up /\ UNCHANGED old
  BY DEF IInv, DownIsIdle, Transition, retired
<1>2. inst \in [Keys -> Instance] /\ i \in Instance /\ i.dbID = inst[k].dbID
      /\ (i.state = "firing" <=> inst[k].state = "firing")
  <2>1. inst \in [Keys -> Instance] /\ i \in Instance
    BY <1>1, EntryType DEF TypeOK
  <2>2. inst[k].state = "none" => inst[k].dbID = 0
    BY DEF IInv, Agreement, FiringOwnsRow
  <2> QED BY <2>1, <2>2 DEF Entry, NewInstance
<1>3. Agreement'
  <2>1. CASE MustFire(k, i, matched) /\ Fire(k, i)
    <3>1. inst[k].state # "firing"
      BY <1>2, <2>1 DEF MustFire
    <3> QED BY <1>1, <2>1, <3>1, FireAgreement
  <2>2. CASE Resolve({k}) /\ inst' = [inst EXCEPT ![k] = Resolved(i)]
    <3>1. inst'[k].dbID = 0 /\ \A l \in Keys \ {k} : inst'[l] = inst[l]
      BY <1>2, <2>2 DEF Resolved, Instance
    <3>2. \A l \in Keys : inst[l].dbID # 0 => inst[l].state = "firing"
      BY DEF IInv, Agreement, FiringOwnsRow
    <3> QED BY <1>1, <2>2, <3>1, <3>2, ResolveAgreement
  <2>3. CASE /\ inst' = [inst EXCEPT ![k] = Step(k, i, matched)]
             /\ UNCHANGED <<alerts, feed, adrift>>
    <3>1. Step(k, i, matched).dbID = i.dbID
          /\ (i.state = "firing" => Step(k, i, matched).state = "firing")
      BY <1>2 DEF Step, Instance
    <3>2. \A l \in Keys : /\ inst'[l].dbID = inst[l].dbID
                          /\ inst[l].state = "firing" => inst'[l].state = "firing"
      BY <1>2, <2>3, <3>1
    <3> QED BY <1>1, <2>3, <3>2, QuietAgreement
  <2> QED BY <2>1, <2>2, <2>3 DEF Transition
<1> QED BY <1>1, <1>3 DEF DownIsIdle

\* Dropping a stale key resolves its row first, so the agreement survives.
LEMMA CleanUpAgreement ==
    ASSUME IInv, NEW k \in Keys, CleanUp(k)
    PROVE  Agreement' /\ DownIsIdle'
<1>1. TypeOK /\ up /\ up' = up /\ inst \in [Keys -> Instance]
      /\ inst' = [inst EXCEPT ![k] = NoInstance] /\ UNCHANGED old
  BY DEF IInv, DownIsIdle, CleanUp, TypeOK, retired
<1>2. inst'[k].dbID = 0 /\ \A l \in Keys \ {k} : inst'[l] = inst[l]
  BY <1>1 DEF NoInstance, NewInstance
<1>3. \A l \in Keys : inst[l].dbID # 0 => inst[l].state = "firing"
  BY DEF IInv, Agreement, FiringOwnsRow
<1>4. CASE inst[k].state = "firing"
  <2>1. Resolve({k})
    BY <1>4 DEF CleanUp
  <2> QED BY <1>1, <1>2, <1>3, <2>1, ResolveAgreement DEF DownIsIdle
<1>5. CASE inst[k].state # "firing"
  <2>1. UNCHANGED <<alerts, feed, adrift>>
    BY <1>5 DEF CleanUp
  <2>2. \A l \in Keys : /\ inst'[l].dbID = inst[l].dbID
                        /\ inst[l].state = "firing" => inst'[l].state = "firing"
    BY <1>2, <1>3, <1>5
  <2> QED BY <1>1, <2>1, <2>2, QuietAgreement DEF DownIsIdle
<1> QED BY <1>4, <1>5

\* A restarted process owns one open row per key, of those it read; the others are
\* adrift.
LEMMA RestartAgreement ==
    ASSUME IInv, NEW rs \in SUBSET Rules, Restart(rs)
    PROVE  Agreement' /\ DownIsIdle'
<1>1. /\ TypeOK /\ Agreement /\ up' /\ rules' = rs /\ UNCHANGED old
      /\ feed' = {i \in Ids : alerts'[i].state = "firing"}
      /\ \A k \in Keys : old[k] = 0
  BY DEF IInv, Restart, NewAlerter, retired, DownIsIdle
<1>2. /\ alerts \in Seq(Row) /\ adrift \subseteq Ids /\ 0 \notin Ids
      /\ \A i \in Ids : alerts[i].key \in Keys
  BY <1>1, RowType DEF TypeOK, Agreement, AdriftUnowned, Ids
<1>3. ASSUME Ids' = Ids, adrift' \subseteq Ids,
             \A i \in Ids : alerts'[i].key = alerts[i].key,
             \A k \in Keys : inst'[k].dbID # 0 =>
                /\ inst'[k].state = "firing" /\ inst'[k].dbID \in Ids \ adrift'
                /\ alerts[inst'[k].dbID].key = k
                /\ alerts'[inst'[k].dbID].state = "firing",
             \A i \in Ids : alerts'[i].state = "firing" =>
                inst'[alerts[i].key].dbID = i \/ i \in adrift'
      PROVE  Agreement' /\ DownIsIdle'
  <2>1. FiringOwnsRow'
    BY <1>3 DEF FiringOwnsRow
  <2>2. NoOrphanRow'
    BY <1>3 DEF NoOrphanRow, Unresolved
  <2>3. AdriftUnowned'
    BY <1>1, <1>2, <1>3 DEF AdriftUnowned
  <2>4. FeedExact'
    BY <1>1, <1>3 DEF FeedExact
  <2> QED BY <1>1, <2>1, <2>2, <2>3, <2>4, OneOwner DEF Agreement, DownIsIdle
<1>4. CASE AdoptFiring
  <2>1. PICK read \in SUBSET Unresolved, refused \in SUBSET Unresolved :
           \E row \in [Keys -> read \cup {0}] :
              /\ \A k \in Keys : inst'[k] = AdoptedEntry(row[k]) /\ row[k] \in LastRead(k, read)
              /\ \A i \in refused : RuleOf[alerts[i].key] \notin rules'
              /\ alerts' = ResolveRows({i \in read : RuleOf[alerts[i].key] \notin rules'},
                                      refused)
              /\ adrift' = (Unresolved \ read)
                              \cup {i \in read : row[alerts[i].key] \in read \ {i}}
                              \cup refused
    BY <1>2, <1>4, AdoptFacts
  <2>2. PICK row \in [Keys -> read \cup {0}] :
              /\ \A k \in Keys : inst'[k] = AdoptedEntry(row[k]) /\ row[k] \in LastRead(k, read)
              /\ \A i \in refused : RuleOf[alerts[i].key] \notin rules'
              /\ alerts' = ResolveRows({i \in read : RuleOf[alerts[i].key] \notin rules'},
                                      refused)
              /\ adrift' = (Unresolved \ read)
                              \cup {i \in read : row[alerts[i].key] \in read \ {i}}
                              \cup refused
    BY <2>1
  <2> DEFINE unknown == {i \in read : RuleOf[alerts[i].key] \notin rules'}
  <2>3. /\ Ids' = Ids
        /\ \A i \in Ids : alerts'[i] =
              IF i \in unknown \ refused /\ alerts[i].state = "firing"
              THEN [alerts[i] EXCEPT !.state = "resolved"] ELSE alerts[i]
    BY <1>2, <2>2, ResolveRowsType DEF Ids
  <2>4. \A i \in Ids : /\ [alerts[i] EXCEPT !.state = "resolved"].key = alerts[i].key
                       /\ [alerts[i] EXCEPT !.state = "resolved"].state = "resolved"
    BY <1>2, RowType DEF Row
  <2>5. Unresolved \subseteq Ids /\ \A i \in Unresolved : alerts[i].state = "firing"
    BY DEF Unresolved
  <2>6. \A i \in Ids : alerts'[i].key = alerts[i].key
    BY <2>3, <2>4
  <2>7. ASSUME NEW k \in Keys, inst'[k].dbID # 0
        PROVE  /\ inst'[k].dbID = row[k] /\ inst'[k].state = "firing"
               /\ row[k] \in read /\ alerts[row[k]].key = k /\ RuleOf[k] \in rules'
    <3>1. row[k] # 0
      BY <2>2, <2>7 DEF AdoptedEntry, NoInstance, NewInstance
    <3>2. row[k] \in read /\ alerts[row[k]].key = k /\ RuleOf[k] \in rules'
      BY <2>2, <3>1 DEF LastRead
    <3>3. inst'[k].dbID = row[k] /\ inst'[k].state = "firing"
      BY <2>2, <3>1 DEF AdoptedEntry, NewInstance
    <3> QED BY <3>2, <3>3
  <2>8. ASSUME NEW k \in Keys, inst'[k].dbID # 0
        PROVE  /\ inst'[k].state = "firing" /\ inst'[k].dbID \in Ids \ adrift'
               /\ alerts[inst'[k].dbID].key = k
               /\ alerts'[inst'[k].dbID].state = "firing"
    <3>1. /\ inst'[k].dbID = row[k] /\ inst'[k].state = "firing"
          /\ row[k] \in read /\ alerts[row[k]].key = k /\ RuleOf[k] \in rules'
      BY <2>7, <2>8
    <3>2. row[k] \notin adrift'
      BY <2>2, <3>1
    <3>3. alerts'[row[k]].state = "firing"
      BY <2>3, <2>5, <3>1
    <3> QED BY <2>5, <3>1, <3>2, <3>3
  <2>9. ASSUME NEW i \in Ids, alerts'[i].state = "firing"
        PROVE  inst'[alerts[i].key].dbID = i \/ i \in adrift'
    <3> DEFINE k == alerts[i].key
    <3>1. i \in Unresolved /\ k \in Keys /\ (i \in unknown => i \in refused)
      BY <1>2, <2>3, <2>4, <2>9 DEF Unresolved
    <3>2. CASE i \notin read \/ RuleOf[k] \notin rules'
      BY <2>2, <3>1, <3>2
    <3>3. CASE i \in read /\ RuleOf[k] \in rules'
      <4>1. row[k] \in read /\ row[k] # 0
        BY <1>2, <2>2, <2>5, <3>1, <3>3 DEF LastRead
      <4>2. inst'[k].dbID = row[k]
        BY <2>2, <3>1, <4>1 DEF AdoptedEntry, NewInstance
      <4> QED BY <2>2, <3>3, <4>1, <4>2
    <3> QED BY <3>2, <3>3
  <2>10. adrift' \subseteq Ids
    BY <2>2, <2>5
  <2> QED BY <1>3, <2>3, <2>6, <2>8, <2>9, <2>10
<1>5. CASE ResolveOrphanedAlerts
  <2>1. \A k \in Keys : inst'[k].dbID = 0
    BY <1>5 DEF ResolveOrphanedAlerts, NoInstance, NewInstance
  <2>2. PICK ok \in Answers :
          /\ alerts' = IF ok THEN ResolveRows(Unresolved, {}) ELSE alerts
          /\ adrift' = IF ok THEN adrift ELSE adrift \cup Unresolved
    BY <1>5 DEF ResolveOrphanedAlerts
  <2>3. CASE ok
    <3>1. Ids' = Ids /\ adrift' \subseteq Ids
      BY <1>2, <2>2, <2>3, ResolveRowsType DEF Ids
    <3>2. ASSUME NEW i \in Ids
          PROVE  alerts'[i].key = alerts[i].key /\ alerts'[i].state # "firing"
      <4>1. alerts'[i] = IF i \in Unresolved
                         THEN [alerts[i] EXCEPT !.state = "resolved"] ELSE alerts[i]
        BY <1>2, <2>2, <2>3, ResolveRowsType DEF Unresolved
      <4>2. [alerts[i] EXCEPT !.state = "resolved"].key = alerts[i].key
            /\ [alerts[i] EXCEPT !.state = "resolved"].state = "resolved"
        BY <1>2, RowType DEF Row
      <4> QED BY <4>1, <4>2 DEF Unresolved
    <3> QED BY <1>3, <2>1, <3>1, <3>2
  <2>4. CASE ~ok
    <3>1. alerts' = alerts /\ Ids' = Ids /\ adrift' = adrift \cup Unresolved
      BY <2>2, <2>4 DEF Ids
    <3> QED BY <1>2, <1>3, <2>1, <3>1 DEF Unresolved
  <2> QED BY <2>3, <2>4
<1>6. CASE AdoptFails
  <2>1. \A k \in Keys : inst'[k].dbID = 0
    BY <1>6 DEF AdoptFails, NoInstance, NewInstance
  <2>2. alerts' = alerts /\ Ids' = Ids /\ adrift' = adrift \cup Unresolved
    BY <1>6 DEF AdoptFails, Ids
  <2> QED BY <1>2, <1>3, <2>1, <2>2 DEF Unresolved
<1> QED BY <1>4, <1>5, <1>6 DEF Restart

\* Pruning turns rows into deleted ones, which no part speaks of.
LEMMA PruneAgreement ==
    ASSUME IInv, NEW last \in Ids, Prune(last)
    PROVE  Agreement' /\ DownIsIdle'
<1>1. TypeOK /\ Agreement /\ up /\ UNCHANGED <<up, inst, feed, adrift, old>>
  BY DEF IInv, Prune, history, retired
<1>2. alerts \in Seq(Row) /\ Len(alerts) \in Nat /\ \A i \in Ids : alerts[i].key \in Keys
  BY <1>1, RowType DEF TypeOK
<1>3. alerts' = [i \in Ids |-> IF i <= last
                               THEN [alerts[i] EXCEPT !.state = "deleted"]
                               ELSE alerts[i]]
  BY DEF Prune
<1>4. Len(alerts') = Len(alerts)
  BY <1>2, <1>3 DEF Ids
<1>5. Ids' = Ids
  BY <1>4 DEF Ids
<1>6. \A i \in Ids : /\ alerts'[i].key = alerts[i].key
                     /\ alerts'[i].state \in {alerts[i].state, "deleted"}
  <2>1. ASSUME NEW i \in Ids
        PROVE  /\ [alerts[i] EXCEPT !.state = "deleted"].key = alerts[i].key
               /\ [alerts[i] EXCEPT !.state = "deleted"].state = "deleted"
    BY <1>2, RowType DEF Row
  <2> QED BY <1>3, <2>1
<1>7. FiringOwnsRow' /\ AdriftUnowned'
  BY <1>1, <1>5, <1>6 DEF Agreement, FiringOwnsRow, AdriftUnowned
<1>8. NoOrphanRow'
  BY <1>1, <1>5, <1>6 DEF Agreement, NoOrphanRow, Unresolved
<1>9. FeedExact'
  BY <1>1, <1>5, <1>6 DEF Agreement, FeedExact
<1> QED BY <1>1, <1>7, <1>8, <1>9, OneOwner DEF Agreement, DownIsIdle

\* The process dies: only the parts about rows remain to be shown.
LEMMA CrashAgreement ==
    ASSUME IInv, Crash
    PROVE  Agreement' /\ DownIsIdle'
<1>1. /\ ~up' /\ alerts' = alerts /\ adrift' = adrift /\ feed' = {}
      /\ mu' = "free" /\ todo' = {}
      /\ \A k \in Keys : inst'[k].dbID = 0 /\ old'[k] = 0
  BY DEF Crash, NoInstance, NewInstance, NoRows
<1>2. Ids' = Ids /\ Unresolved' = Unresolved /\ adrift \subseteq Ids /\ 0 \notin Ids
  BY <1>1, RowType DEF IInv, Agreement, AdriftUnowned, Ids, Unresolved, TypeOK
<1>3. OneOpenRowPerKey'
  BY <1>1, <1>2 DEF IInv, Agreement, OneOpenRowPerKey
<1>4. FiringOwnsRow' /\ NoOrphanRow' /\ FeedExact' /\ DownIsIdle'
  BY <1>1 DEF FiringOwnsRow, NoOrphanRow, FeedExact, DownIsIdle
<1>5. AdriftUnowned'
  BY <1>1, <1>2 DEF AdriftUnowned
<1> QED BY <1>3, <1>4, <1>5 DEF Agreement

\* A reload begins with resolving every entry that fires.
LEMMA RetireAgreement ==
    ASSUME IInv, Retire
    PROVE  Agreement' /\ DownIsIdle'
<1>1. /\ up /\ up' /\ Resolve(Firing) /\ Firing \in SUBSET Keys /\ UNCHANGED old
      /\ inst \in [Keys -> Instance]
  BY DEF Retire, Firing, IInv, TypeOK
<1>2. \A k \in Firing : inst'[k].dbID = 0
  <2>1. \A i \in Instance : [Resolved(i) EXCEPT !.falseAt = i.falseAt].dbID = 0
    BY DEF Resolved, Instance
  <2> QED BY <1>1, <2>1 DEF Retire
<1>3. \A k \in Keys \ Firing : inst'[k] = inst[k] /\ inst[k].dbID = 0
  BY DEF Retire, IInv, Agreement, FiringOwnsRow, Firing
<1> QED BY <1>1, <1>2, <1>3, ResolveAgreement DEF DownIsIdle

\* A reload ends with an alerter that has no entry: what the old one still held is adrift.
LEMMA InstallAgreement ==
    ASSUME IInv, NEW rs \in SUBSET Rules, Install(rs)
    PROVE  Agreement' /\ DownIsIdle'
<1>1. /\ up /\ up' /\ UNCHANGED <<alerts, feed>>
      /\ adrift' = adrift \cup ({inst[k].dbID : k \in Keys} \ {0})
      /\ old' = IF late # {} THEN old
                ELSE [k \in Keys |-> IF k \in late' THEN inst[k].dbID ELSE 0]
      /\ \A k \in Keys : inst'[k].dbID = 0
  BY DEF Install, NoInstance, NewInstance
<1>2. TypeOK /\ Agreement /\ Ids' = Ids /\ Unresolved' = Unresolved
  BY <1>1 DEF IInv, Ids, Unresolved
<1>3. alerts \in Seq(Row) /\ (\A i \in Ids : alerts[i].key \in Keys) /\ 0 \notin Ids
  BY <1>2, RowType DEF TypeOK, Ids
<1>4. AdriftUnowned'
  <2>1. adrift' \subseteq Ids /\ 0 \notin adrift'
    BY <1>1, <1>2, <1>3 DEF Agreement, AdriftUnowned, FiringOwnsRow
  <2>2. \A k \in Keys : old'[k] \in adrift' \cup {0}
    BY <1>1, <1>2 DEF Agreement, AdriftUnowned
  <2> QED BY <1>1, <1>2, <2>1, <2>2 DEF AdriftUnowned
<1>5. ASSUME NEW i \in Ids, inst[alerts[i].key].dbID = i
      PROVE  i \in adrift'
  BY <1>1, <1>3, <1>5
<1>6. NoOrphanRow' /\ FeedExact'
  BY <1>1, <1>2, <1>5 DEF Agreement, NoOrphanRow, FeedExact, Unresolved
<1> QED BY <1>1, <1>4, <1>6, OneOwner DEF Agreement, FiringOwnsRow, DownIsIdle

\* What an event still does in a retired alerter concerns rows that are adrift.
LEMMA LateAgreement ==
    ASSUME IInv, NEW k \in Keys, LateTransition(k)
    PROVE  Agreement' /\ DownIsIdle'
<1>1. /\ TypeOK /\ Agreement /\ UNCHANGED <<up, inst, mu, todo>>
      /\ old' = [old EXCEPT ![k] = 0] /\ old \in [Keys -> Nat]
  BY DEF LateTransition, control, IInv, TypeOK
<1>2. old'[k] = 0 /\ \A l \in Keys \ {k} : old'[l] = old[l]
  BY <1>1
<1>3. /\ alerts \in Seq(Row) /\ (\A i \in Ids : alerts[i].key \in Keys) /\ 0 \notin Ids
      /\ adrift \subseteq Ids
  BY <1>1, RowType DEF TypeOK, Ids, Agreement, AdriftUnowned
<1>4. DownIsIdle'
  BY <1>1, <1>2 DEF IInv, DownIsIdle
<1>5. CASE UNCHANGED <<alerts, feed, adrift>>
  <2>1. Ids' = Ids /\ Unresolved' = Unresolved
    BY <1>5 DEF Ids, Unresolved
  <2>2. AdriftUnowned'
    BY <1>1, <1>2, <1>5, <2>1 DEF Agreement, AdriftUnowned
  <2> QED BY <1>1, <1>4, <1>5, <2>1, <2>2
          DEF Agreement, FiringOwnsRow, NoOrphanRow, OneOpenRowPerKey, FeedExact
<1>6. ASSUME NEW id \in {0, Len(alerts) + 1}, Insert(k, id),
             adrift' = adrift \cup ({id} \ {0})
      PROVE  Agreement'
  <2>1. /\ feed' = feed \cup {id} /\ id \notin Ids
        /\ Ids' = Ids \cup ({id} \ {0})
        /\ \A i \in Ids : alerts'[i] = alerts[i]
        /\ id # 0 => alerts'[id].key = k /\ alerts'[id].state = "firing"
        /\ Unresolved' = Unresolved \cup ({id} \ {0})
    BY <1>1, <1>6, InsertFacts
  <2>2. FiringOwnsRow'
    BY <1>1, <2>1 DEF Agreement, FiringOwnsRow
  <2>3. \A i \in Unresolved : i \in Ids /\ alerts'[i] = alerts[i]
    BY <2>1 DEF Unresolved
  <2>4. NoOrphanRow' /\ OneOpenRowPerKey'
    BY <1>1, <1>6, <2>1, <2>3 DEF Agreement, NoOrphanRow, OneOpenRowPerKey
  <2>5. FeedExact'
    BY <1>1, <1>6, <2>1 DEF Agreement, FeedExact
  <2>6. AdriftUnowned'
    <3>1. \A l \in Keys : inst[l].dbID # 0 => inst[l].dbID \in Ids
      BY <1>1 DEF Agreement, FiringOwnsRow
    <3> QED BY <1>1, <1>2, <1>6, <2>1, <3>1 DEF Agreement, AdriftUnowned
  <2> QED BY <2>2, <2>4, <2>5, <2>6 DEF Agreement
<1>7. CASE /\ old[k] # 0 /\ Close({old[k]}) /\ feed' = feed \ {old[k]}
  <2>1. old[k] \in adrift
    BY <1>1, <1>7 DEF Agreement, AdriftUnowned
  <2>2. /\ Ids' = Ids /\ adrift' = adrift
        /\ \A i \in Ids : /\ alerts'[i].key = alerts[i].key
                          /\ i # old[k] => alerts'[i].state = alerts[i].state
                          /\ alerts'[i].state = "firing" => alerts[i].state = "firing"
    BY <1>1, <1>7, <2>1, CloseFacts DEF Agreement
  <2>3. \A l \in Keys : inst[l].dbID # old[k]
    BY <1>1, <2>1 DEF Agreement, AdriftUnowned
  <2>4. FiringOwnsRow' /\ FeedExact'
    BY <1>1, <1>7, <2>2, <2>3 DEF Agreement, FiringOwnsRow, FeedExact
  <2>5. NoOrphanRow' /\ OneOpenRowPerKey'
    BY <1>1, <2>2 DEF Agreement, NoOrphanRow, OneOpenRowPerKey, Unresolved
  <2>6. AdriftUnowned'
    BY <1>1, <1>2, <2>2 DEF Agreement, AdriftUnowned
  <2> QED BY <1>4, <2>4, <2>5, <2>6 DEF Agreement
<1> QED BY <1>4, <1>5, <1>6, <1>7 DEF LateTransition

\* Every step keeps the agreement.
LEMMA NextAgreement ==
    ASSUME IInv, [Next]_vars
    PROVE  Agreement' /\ DownIsIdle'
<1>1. ASSUME UNCHANGED <<alerts, adrift, feed, inst, old, up>>, up
      PROVE  Agreement' /\ DownIsIdle'
  BY <1>1, QuietAgreement DEF DownIsIdle
<1>2. ASSUME UNCHANGED <<alerts, adrift, feed, inst, old, up, mu, todo>>
      PROVE  Agreement' /\ DownIsIdle'
  BY <1>2, QuietAgreement DEF DownIsIdle, IInv
<1>3. CASE Evaluate
  <2>1. ASSUME NEW failed \in FailedSources, NEW logErrs \in LogErrors,
               BeginEvaluate(failed, logErrs)
        PROVE  Agreement' /\ DownIsIdle'
    BY <1>1, <2>1 DEF BeginEvaluate, history, retired
  <2>2. ASSUME NEW t \in Movable, NEW matches \in SUBSET RuleKeys(StrRules),
               BeginEvent(t, matches)
        PROVE  Agreement' /\ DownIsIdle'
    BY <1>1, <2>2 DEF BeginEvent, history, retired
  <2>3. CASE RunDeferred
    <3>1. up
      BY <2>3 DEF RunDeferred, IInv, DownIsIdle
    <3> QED BY <1>1, <2>3, <3>1 DEF RunDeferred, history, retired
  <2>4. ASSUME NEW t \in Threads, SendAlert(t)
        PROVE  Agreement' /\ DownIsIdle'
    BY <1>2, <2>4 DEF SendAlert, control, retired
  <2> QED BY <1>3, <2>1, <2>2, <2>3, <2>4, TransitionAgreement, CleanUpAgreement
          DEF Evaluate
<1>4. CASE Life
  <2>1. ASSUME NEW r \in Rules, NEW d \in 0..MaxSilence, Silence(r, d)
        PROVE  Agreement' /\ DownIsIdle'
    BY <1>2, <2>1 DEF Silence, control, history, retired
  <2> QED BY <1>4, <2>1, RetireAgreement, InstallAgreement, LateAgreement,
             RestartAgreement, CrashAgreement, PruneAgreement DEF Life
<1>5. CASE Environment
  <2>1. CASE Tick
    <3>1. inst \in [Keys -> Instance]
      BY DEF IInv, TypeOK
    <3>2. \A k \in Keys : /\ inst'[k].dbID = inst[k].dbID
                          /\ inst'[k].state = inst[k].state
      BY <2>1, <3>1 DEF Tick, Instance
    <3>3. up /\ up' = up /\ UNCHANGED <<alerts, adrift, feed, old>>
      BY <2>1 DEF Tick, retired
    <3> QED BY <3>2, <3>3, QuietAgreement DEF DownIsIdle
  <2>2. ASSUME NEW t \in Movable, ComeOrGo(t) PROVE Agreement' /\ DownIsIdle'
    BY <1>2, <2>2 DEF ComeOrGo, control, history, retired
  <2>3. ASSUME NEW k \in Keys, Flip(k) PROVE Agreement' /\ DownIsIdle'
    BY <1>2, <2>3 DEF Flip, control, history, retired
  <2> QED BY <1>5, <2>1, <2>2, <2>3 DEF Environment
<1>6. CASE UNCHANGED vars
  BY <1>2, <1>6 DEF vars
<1> QED BY <1>3, <1>4, <1>5, <1>6 DEF Next

\* The empty table and the empty alerter agree.
LEMMA InitAgreement == Init => Agreement /\ DownIsIdle
<1> SUFFICES ASSUME Init PROVE Agreement /\ DownIsIdle
  OBVIOUS
<1>1. Len(alerts) = 0 /\ Ids = {} /\ Unresolved = {} /\ adrift = {}
  BY DEF Init, Ids, Unresolved
<1>2. \A k \in Keys : inst[k].dbID = 0 /\ old[k] = 0
  BY DEF Init, NoInstance, NewInstance, NoRows
<1> QED BY <1>1, <1>2 DEF Init, Agreement, FiringOwnsRow, NoOrphanRow,
                          OneOpenRowPerKey, FeedExact, AdriftUnowned, DownIsIdle

\* The inductive invariant: the types, what the entries, the table and the feed say of
\* one another, that a process that is down holds nothing, and that no entry holds a row
\* that was left behind, of which those of a retired alerter are.
THEOREM AlerterInvariant == Spec => []IInv
<1>1. Init /\ TypeOK => IInv
  BY InitAgreement DEF IInv
<1>2. IInv /\ TypeOK' /\ [Next]_vars => IInv'
  BY NextAgreement DEF IInv
<1> QED BY <1>1, <1>2, TypeCorrect, PTL DEF Spec

\* While the agent runs, every open row is owned by the entry that will close it,
\* whatever the rules, the targets, the durations and the order of evaluations, events,
\* reloads, crashes, restarts and prunings, but for the rows left behind: those whose
\* closing the store refused, those an event opens in an alerter a reload has
\* retired, and those AdoptFiring did not read or read two of for one key.
THEOREM NoOrphans == Spec => []NoOrphanRow
<1>1. IInv => NoOrphanRow
  BY DEF IInv, Agreement
<1> QED BY <1>1, AlerterInvariant, PTL

\* An entry with an id fires and owns the open (or expired) row of that id.
THEOREM Ownership == Spec => []FiringOwnsRow
<1>1. IInv => FiringOwnsRow
  BY DEF IInv, Agreement
<1> QED BY <1>1, AlerterInvariant, PTL

\* Of two open rows of one key one was left behind, also while the agent is down: a
\* refused write, a reload an event overlaps and the limit of AdoptFiring are the only
\* ways to a second one.
THEOREM OneOpenRow == Spec => []OneOpenRowPerKey
<1>1. IInv => OneOpenRowPerKey
  BY DEF IInv, Agreement
<1> QED BY <1>1, AlerterInvariant, PTL

\* Snapshot plus events tell a subscriber exactly what is firing, rows left behind aside.
THEOREM FeedIsExact == Spec => []FeedExact
<1>1. IInv => FeedExact
  BY DEF IInv, Agreement
<1> QED BY <1>1, AlerterInvariant, PTL

-----------------------------------------------------------------------------
(* Notifications.  What a goroutine owes is in a.deferred while it holds a.mu and in its
   copy afterwards; only the start of an evaluation and its end move it. *)

\* The steps that read or write none of the queues.
LEMMA QuietQueues ==
    ASSUME TypeOK, OneEvaluation, NotificationsAccounted,
           UNCHANGED <<mu, todo, obs, deferred, pending, owed>>
    PROVE  OneEvaluation' /\ NotificationsAccounted'
BY DEF OneEvaluation, NotificationsAccounted

\* A transition queues at most its own key, which leaves todo.
LEMMA TransitionQueues ==
    ASSUME TypeOK, OneEvaluation, NotificationsAccounted, NEW k \in Keys, Transition(k)
    PROVE  OneEvaluation' /\ NotificationsAccounted'
<1>1. /\ UNCHANGED <<mu, obs, pending>> /\ k \in todo /\ todo' = todo \ {k}
      /\ mu \in Threads /\ owed \in [Threads -> Seq(Keys)]
  BY DEF Transition, OneEvaluation, TypeOK
<1>2. \/ UNCHANGED <<deferred, owed>>
      \/ /\ deferred' = Append(deferred, k)
         /\ owed' = [owed EXCEPT ![mu] = Append(owed[mu], k)]
  BY DEF Transition, Fire
<1>3. OneEvaluation'
  BY <1>1 DEF OneEvaluation
<1>4. NotificationsAccounted'
  BY <1>1, <1>2 DEF NotificationsAccounted
<1> QED BY <1>3, <1>4

\* An evaluation that starts finds its goroutine with nothing left to hand over.
LEMMA BeginQueues ==
    ASSUME TypeOK, NotificationsAccounted, mu = "free", mu' \in Threads,
           pending[mu'] = <<>>, deferred' = <<>>, UNCHANGED <<pending, owed>>,
           \A k \in todo' : obs'[k] \in {"ok", "bad"}
    PROVE  OneEvaluation' /\ NotificationsAccounted'
<1>1. mu' # "free"
  BY DEF Threads
<1>2. \A t \in Threads : owed[t] = pending[t]
  BY DEF NotificationsAccounted, Threads
<1>3. OneEvaluation'
  BY <1>1 DEF OneEvaluation
<1>4. NotificationsAccounted'
  BY <1>2 DEF NotificationsAccounted
<1> QED BY <1>3, <1>4

\* A reload, a crash and a restart: what the alerter that goes away still had queued
\* goes with it, and what was copied is handed over all the same.
LEMMA LifeQueues ==
    ASSUME TypeOK, DownIsIdle, OneEvaluation, NotificationsAccounted, Life
    PROVE  OneEvaluation' /\ NotificationsAccounted'
<1>1. ASSUME UNCHANGED <<mu, todo, obs, deferred, pending, owed>>
      PROVE  OneEvaluation' /\ NotificationsAccounted'
  BY <1>1, QuietQueues
<1>2. ASSUME mu' = "free", todo' = {},
             \A t \in Threads : owed'[t] = pending'[t]
      PROVE  OneEvaluation' /\ NotificationsAccounted'
  BY <1>2 DEF OneEvaluation, NotificationsAccounted, Threads
<1>3. ASSUME NEW rs \in SUBSET Rules, Install(rs)
      PROVE  OneEvaluation' /\ NotificationsAccounted'
  <2>1. /\ mu' = "free" /\ todo' = {} /\ pending' = pending
        /\ mu \in {"free", "event"} /\ owed \in [Threads -> Seq(Keys)]
        /\ owed' = IF mu = "event" THEN [owed EXCEPT !["event"] = <<>>] ELSE owed
    BY <1>3 DEF Install, TypeOK, Threads
  <2>2. CASE mu = "event"
    <3>1. pending["event"] = <<>> /\ owed["collect"] = pending["collect"]
      BY <2>2 DEF OneEvaluation, NotificationsAccounted, Threads
    <3>2. owed'["event"] = <<>> /\ owed'["collect"] = owed["collect"]
      BY <2>1, <2>2 DEF Threads
    <3> QED BY <1>2, <2>1, <3>1, <3>2 DEF Threads
  <2>3. CASE mu = "free"
    <3>1. owed' = owed /\ \A t \in Threads : owed[t] = pending[t]
      BY <2>1, <2>3 DEF NotificationsAccounted, Threads
    <3> QED BY <1>2, <2>1, <3>1
  <2> QED BY <2>1, <2>2, <2>3
<1>4. ASSUME NEW rs \in SUBSET Rules, Restart(rs)
      PROVE  OneEvaluation' /\ NotificationsAccounted'
  <2>1. UNCHANGED <<mu, todo, pending, owed>> /\ mu = "free" /\ todo = {}
    BY <1>4 DEF Restart, control, DownIsIdle
  <2>2. \A t \in Threads : owed[t] = pending[t]
    BY <2>1 DEF NotificationsAccounted, Threads
  <2> QED BY <1>2, <2>1, <2>2
<1>5. CASE Crash
  BY <1>2, <1>5 DEF Crash
<1>6. CASE Retire
  BY <1>1, <1>6 DEF Retire, control
<1>7. ASSUME NEW k \in Keys, LateTransition(k)
      PROVE  OneEvaluation' /\ NotificationsAccounted'
  BY <1>1, <1>7 DEF LateTransition, control
<1>8. ASSUME NEW last \in Ids, Prune(last)
      PROVE  OneEvaluation' /\ NotificationsAccounted'
  BY <1>1, <1>8 DEF Prune, control, history
<1>9. ASSUME NEW r \in Rules, NEW d \in 0..MaxSilence, Silence(r, d)
      PROVE  OneEvaluation' /\ NotificationsAccounted'
  BY <1>1, <1>9 DEF Silence, control, history
<1> QED BY <1>3, <1>4, <1>5, <1>6, <1>7, <1>8, <1>9 DEF Life

\* No step loses, repeats, reorders or invents a notification.
LEMMA NextQueues ==
    ASSUME TypeOK, DownIsIdle, OneEvaluation, NotificationsAccounted, [Next]_vars
    PROVE  OneEvaluation' /\ NotificationsAccounted'
<1> DEFINE Goal == OneEvaluation' /\ NotificationsAccounted'
<1>1. ASSUME UNCHANGED <<mu, todo, obs, deferred, pending, owed>> PROVE Goal
  BY <1>1, QuietQueues
<1> HIDE DEF Goal
<1>2. ASSUME NEW failed \in FailedSources, NEW logErrs \in LogErrors,
             BeginEvaluate(failed, logErrs)
      PROVE  Goal
  <2>1. \A k \in todo' : obs'[k] \in {"ok", "bad"}
    BY <1>2 DEF BeginEvaluate, RuleKeys
  <2>2. /\ mu = "free" /\ mu' = "collect" /\ pending["collect"] = <<>>
        /\ deferred' = <<>> /\ UNCHANGED <<pending, owed>>
    BY <1>2 DEF BeginEvaluate, ResetDeferred, history
  <2>3. mu' \in Threads /\ pending[mu'] = <<>>
    BY <2>2 DEF Threads
  <2> QED BY <2>1, <2>2, <2>3, BeginQueues DEF Goal
<1>3. ASSUME NEW t \in Movable, NEW matches \in SUBSET RuleKeys(StrRules),
             BeginEvent(t, matches)
      PROVE  Goal
  <2>1. \A k \in todo' : obs'[k] \in {"ok", "bad"}
    BY <1>3 DEF BeginEvent, EventKeys, RuleKeys
  <2>2. /\ mu = "free" /\ mu' = "event" /\ pending["event"] = <<>>
        /\ deferred' = <<>> /\ UNCHANGED <<pending, owed>>
    BY <1>3 DEF BeginEvent, ResetDeferred, history
  <2>3. mu' \in Threads /\ pending[mu'] = <<>>
    BY <2>2 DEF Threads
  <2> QED BY <2>1, <2>2, <2>3, BeginQueues DEF Goal
<1>4. ASSUME NEW k \in Keys, Transition(k) PROVE Goal
  BY <1>4, TransitionQueues DEF Goal
<1>5. ASSUME NEW k \in Keys, CleanUp(k) PROVE Goal
  BY <1>1, <1>5 DEF CleanUp, control
<1>6. CASE RunDeferred
  <2>1. /\ mu \in Threads /\ pending' = [pending EXCEPT ![mu] = deferred]
        /\ mu' = "free" /\ todo' = {} /\ UNCHANGED <<deferred, owed>>
        /\ pending \in [Threads -> Seq(Keys)]
    BY <1>6 DEF RunDeferred, TypeOK, history
  <2>2. OneEvaluation'
    BY <2>1 DEF OneEvaluation
  <2>3. \A t \in Threads : pending'[t] = IF t = mu THEN deferred ELSE pending[t]
    BY <2>1
  <2>4. \A t \in Threads : owed'[t] = pending'[t] /\ t # "free"
    BY <2>1, <2>3 DEF NotificationsAccounted, Threads
  <2>5. NotificationsAccounted'
    BY <2>1, <2>4 DEF NotificationsAccounted
  <2> QED BY <2>2, <2>5 DEF Goal
<1>7. ASSUME NEW t \in Threads, SendAlert(t) PROVE Goal
  <2>1. /\ pending[t] # <<>> /\ pending' = [pending EXCEPT ![t] = Rest(pending[t])]
        /\ owed' = [owed EXCEPT ![t] = Rest(owed[t])]
        /\ UNCHANGED <<mu, todo, obs, deferred>>
        /\ pending \in [Threads -> Seq(Keys)] /\ owed \in [Threads -> Seq(Keys)]
        /\ mu \in Threads \cup {"free"}
    BY <1>7 DEF SendAlert, control, TypeOK
  <2>2. mu # t
    BY <2>1 DEF OneEvaluation, Threads
  <2>3. /\ pending'[t] = Rest(pending[t]) /\ owed'[t] = Rest(owed[t])
        /\ \A u \in Threads \ {t} : pending'[u] = pending[u] /\ owed'[u] = owed[u]
    BY <2>1
  <2>4. OneEvaluation'
    BY <2>1, <2>2, <2>3 DEF OneEvaluation
  <2>5. NotificationsAccounted'
    BY <2>1, <2>2, <2>3 DEF NotificationsAccounted
  <2> QED BY <2>4, <2>5 DEF Goal
<1>8. CASE Life
  BY <1>8, LifeQueues DEF Goal
<1>9. CASE Environment
  BY <1>1, <1>9 DEF Environment, ComeOrGo, Flip, Tick, control, history, Goal
<1>10. CASE UNCHANGED vars
  BY <1>1, <1>10 DEF vars, Goal
<1> QED BY <1>2, <1>3, <1>4, <1>5, <1>6, <1>7, <1>8, <1>9, <1>10 DEF Next, Evaluate, Goal

\* Initially nothing is queued.
LEMMA InitQueues == Init => OneEvaluation /\ NotificationsAccounted
<1> SUFFICES ASSUME Init PROVE OneEvaluation /\ NotificationsAccounted
  OBVIOUS
<1>1. OneEvaluation
  BY DEF Init, OneEvaluation
<1>2. NotificationsAccounted
  BY DEF Init, NotificationsAccounted, NothingPending, Threads
<1> QED BY <1>1, <1>2

\* Whatever the order of evaluations, events, reloads and crashes, the notifications a
\* goroutine decided under a.mu wait in one place, in the order of its transitions, and
\* each is handed over once: NotificationsAccounted holds of every state.
THEOREM NotificationsAreAccounted == Spec => []NotificationsAccounted
<1> DEFINE QInv == OneEvaluation /\ NotificationsAccounted
<1>1. Init => QInv
  BY InitQueues
<1>2. IInv /\ QInv /\ [Next]_vars => QInv'
  BY NextQueues DEF IInv
<1>3. QInv => NotificationsAccounted
  OBVIOUS
<1> HIDE DEF QInv
<1> QED BY <1>1, <1>2, <1>3, AlerterInvariant, PTL DEF Spec

-----------------------------------------------------------------------------
(* `for` and resolve_for *)

\* One unit of time keeps a clock within the time its observation has held.
LEMMA OlderWithin ==
    ASSUME NEW cap \in Nat, NEW b \in Nat, NEW a \in 0..b
    PROVE  Older(a, cap) \in 0..Older(b, cap)
BY DEF Older, Never

\* A transition keeps the clock of its entry within what was observed.
LEMMA TransitionClocks ==
    ASSUME TypeOK, OneEvaluation, ClocksHeld, NEW k \in Keys, Transition(k)
    PROVE  ClocksHeld'
<1> DEFINE i == Entry(k)
           o == obs[k]
           matched == o = "bad"
           h == held'[k]
<1>1. /\ retiring' = retiring /\ o \in {"ok", "bad"} /\ inst \in [Keys -> Instance] /\ i \in Instance
      /\ held' = [held EXCEPT ![k] = IF held[k].was = o THEN held[k]
                                     ELSE [was |-> o, age |-> 0]]
      /\ held \in [Keys -> [was : Observation, age : Nat]]
  BY EntryType DEF Transition, OneEvaluation, Hold, TypeOK, retired
<1>2. /\ h.was = o /\ h.age \in Nat
      /\ held[k].was = o => h = held[k]
      /\ \A l \in Keys \ {k} : held'[l] = held[l]
  BY <1>1
<1>3. /\ i.state = "pending" => held[k].was = "bad" /\ i.pendingSince \in 0..held[k].age
      /\ ~retiring /\ i.state = "firing" /\ i.falseAt # Never =>
            held[k].was = "ok" /\ i.falseAt \in 0..held[k].age
      /\ ~retiring /\ i.state # "firing" => i.falseAt = Never
      /\ i.state \in {"inactive", "pending", "firing"}
  BY <1>1 DEF ClocksHeld, Entry, NewInstance, Instance, InstStates
<1>4. ASSUME NEW new, inst' = [inst EXCEPT ![k] = new],
             new.state = "pending" => h.was = "bad" /\ new.pendingSince \in 0..h.age,
             ~retiring /\ new.state = "firing" /\ new.falseAt # Never =>
                 h.was = "ok" /\ new.falseAt \in 0..h.age,
             ~retiring /\ new.state # "firing" => new.falseAt = Never
      PROVE  ClocksHeld'
  <2>1. /\ inst'[k] = new /\ (\A l \in Keys \ {k} : inst'[l] = inst[l])
        /\ retiring' = retiring
    BY <1>1, <1>4
  <2> QED BY <1>2, <1>4, <2>1 DEF ClocksHeld
<1>5. CASE MustFire(k, i, matched) /\ Fire(k, i)
  <2>1. PICK id : inst' = [inst EXCEPT ![k] =
                             [i EXCEPT !.state = "firing", !.pendingSince = Never, !.dbID = id]]
    BY <1>5 DEF Fire
  <2>2. i.state # "firing"
    BY <1>5 DEF MustFire
  <2> DEFINE new == [i EXCEPT !.state = "firing", !.pendingSince = Never, !.dbID = id]
  <2>3. new.state = "firing" /\ (~retiring => new.falseAt = Never)
    BY <1>1, <1>3, <2>2 DEF Instance
  <2> HIDE DEF new
  <2> QED BY <1>4, <2>1, <2>3 DEF new
<1>6. CASE inst' = [inst EXCEPT ![k] = Resolved(i)]
  <2>1. Resolved(i).state = "inactive" /\ Resolved(i).falseAt = Never
    BY <1>1 DEF Resolved, Instance
  <2> QED BY <1>4, <1>6, <2>1
<1>7. CASE inst' = [inst EXCEPT ![k] = Step(k, i, matched)]
  <2> DEFINE new == Step(k, i, matched)
  <2>1. CASE i.state = "inactive" /\ matched /\ ~CoolingDown(k, i)
    <3>1. new = [i EXCEPT !.state = "pending", !.pendingSince = 0]
      BY <2>1 DEF Step
    <3>2. /\ new.state = "pending" /\ new.pendingSince = 0
          /\ ~retiring => new.falseAt = Never
      BY <1>1, <1>3, <2>1, <3>1 DEF Instance
    <3>3. h.was = "bad" /\ new.pendingSince \in 0..h.age
      BY <1>2, <2>1, <3>2
    <3>4. new.state # "firing"
      BY <3>2
    <3> HIDE DEF new
    <3> QED BY <1>4, <1>7, <3>2, <3>3, <3>4 DEF new
  <2>2. CASE i.state = "pending" /\ ~matched
    <3>1. new = [i EXCEPT !.state = "inactive", !.pendingSince = Never]
      BY <2>2 DEF Step
    <3>2. new.state = "inactive" /\ (~retiring => new.falseAt = Never)
      BY <1>1, <1>3, <2>2, <3>1 DEF Instance
    <3> QED BY <1>4, <1>7, <3>2
  <2>3. CASE i.state = "firing" /\ matched
    <3>1. new = [i EXCEPT !.falseAt = Never]
      BY <2>3 DEF Step
    <3>2. new.state = "firing" /\ new.falseAt = Never
      BY <1>1, <2>3, <3>1 DEF Instance
    <3> QED BY <1>4, <1>7, <3>2
  <2>4. CASE i.state = "firing" /\ ~matched /\ i.falseAt = Never
    <3>1. new = [i EXCEPT !.falseAt = 0]
      BY <2>4 DEF Step
    <3>2. new.state = "firing" /\ new.falseAt = 0
      BY <1>1, <2>4, <3>1 DEF Instance
    <3>3. h.was = "ok" /\ new.falseAt \in 0..h.age
      BY <1>1, <1>2, <2>4, <3>2
    <3>4. new.state # "pending"
      BY <3>2
    <3> HIDE DEF new
    <3> QED BY <1>4, <1>7, <3>2, <3>3, <3>4 DEF new
  <2>5. CASE /\ ~(i.state = "inactive" /\ matched /\ ~CoolingDown(k, i))
             /\ ~(i.state = "pending" /\ ~matched) /\ ~(i.state = "firing" /\ matched)
             /\ ~(i.state = "firing" /\ ~matched /\ i.falseAt = Never)
    <3>1. new = i
      BY <2>5 DEF Step
    <3>2. i.state = "pending" => matched /\ h = held[k]
      BY <1>2, <1>3, <2>5
    <3>3. ~retiring /\ i.state = "firing" => o = "ok" /\ h = held[k]
      BY <1>1, <1>2, <1>3, <2>5
    <3>4. new.state = "pending" => h.was = "bad" /\ new.pendingSince \in 0..h.age
      BY <1>2, <1>3, <3>1, <3>2
    <3>5. ~retiring /\ new.state = "firing" /\ new.falseAt # Never =>
             h.was = "ok" /\ new.falseAt \in 0..h.age
      BY <1>2, <1>3, <3>1, <3>3
    <3>6. ~retiring /\ new.state # "firing" => new.falseAt = Never
      BY <1>3, <3>1
    <3> HIDE DEF new
    <3> QED BY <1>4, <1>7, <3>4, <3>5, <3>6 DEF new
  <2> QED BY <2>1, <2>2, <2>3, <2>4, <2>5
<1> QED BY <1>5, <1>6, <1>7 DEF Transition

\* Every step keeps the clocks within what was observed.
LEMMA NextClocks ==
    ASSUME TypeOK, OneEvaluation, ClocksHeld, [Next]_vars
    PROVE  ClocksHeld'
<1>1. ASSUME UNCHANGED <<inst, held, retiring>> PROVE ClocksHeld'
  BY <1>1 DEF ClocksHeld
<1>2. NoInstance.state = "none" /\ NoInstance.falseAt = Never
  BY DEF NoInstance, NewInstance
<1>3. ASSUME inst' = [k \in Keys |-> NoInstance] PROVE ClocksHeld'
  BY <1>2, <1>3 DEF ClocksHeld
<1>4. ASSUME NEW k \in Keys, Transition(k) PROVE ClocksHeld'
  BY <1>4, TransitionClocks
<1>5. ASSUME NEW k \in Keys, CleanUp(k) PROVE ClocksHeld'
  <2>1. /\ inst' = [inst EXCEPT ![k] = NoInstance]
        /\ held' = [held EXCEPT ![k] = NotObserved] /\ retiring' = retiring
    BY <1>5 DEF CleanUp, retired
  <2>2. /\ inst'[k] = NoInstance
        /\ \A l \in Keys \ {k} : inst'[l] = inst[l] /\ held'[l] = held[l]
    BY <2>1 DEF TypeOK
  <2> QED BY <1>2, <2>1, <2>2 DEF ClocksHeld
<1>6. CASE Evaluate
  BY <1>1, <1>4, <1>5, <1>6
     DEF Evaluate, BeginEvaluate, BeginEvent, RunDeferred, SendAlert, history, retired
<1>7. ASSUME NEW rs \in SUBSET Rules, Restart(rs) PROVE ClocksHeld'
  <2>1. CASE AdoptFiring
    <3>1. \A i : AdoptedEntry(i).state \in {"none", "firing"} /\ AdoptedEntry(i).falseAt = Never
      BY <1>2 DEF AdoptedEntry, NewInstance
    <3>2. \A k \in Keys : \E i : inst'[k] = AdoptedEntry(i)
      BY <2>1 DEF AdoptFiring
    <3> QED BY <3>1, <3>2 DEF ClocksHeld
  <2> QED BY <1>3, <1>7, <2>1 DEF Restart, AdoptFails, ResolveOrphanedAlerts
<1>8. CASE Life
  <2>1. CASE Retire
    <3>1. /\ retiring' = TRUE /\ held' = held /\ inst \in [Keys -> Instance]
          /\ \A k \in Keys : k \notin Firing => inst'[k] = inst[k]
      BY <2>1 DEF Retire, TypeOK
    <3>2. \A k \in Firing : inst'[k].state = "inactive"
      <4>1. \A i \in Instance : [Resolved(i) EXCEPT !.falseAt = i.falseAt].state = "inactive"
        BY DEF Resolved, Instance
      <4> QED BY <2>1, <3>1, <4>1 DEF Retire, Firing
    <3> QED BY <3>1, <3>2 DEF ClocksHeld
  <2>2. ASSUME NEW k \in Keys, LateTransition(k) PROVE ClocksHeld'
    BY <1>1, <2>2 DEF LateTransition
  <2>3. ASSUME NEW rs \in SUBSET Rules, Install(rs) PROVE ClocksHeld'
    BY <1>3, <2>3 DEF Install
  <2>4. CASE Crash
    BY <1>3, <2>4 DEF Crash
  <2> QED BY <1>1, <1>7, <1>8, <2>1, <2>2, <2>3, <2>4
          DEF Life, Prune, Silence, history, retired
<1>9. CASE Tick
  <2>1. ASSUME NEW k \in Keys
        PROVE  /\ inst'[k].state = inst[k].state
               /\ inst'[k].pendingSince = Older(inst[k].pendingSince, ForDur[RuleOf[k]])
               /\ inst'[k].falseAt = Older(inst[k].falseAt, ResolveForDur[RuleOf[k]])
               /\ held'[k].was = held[k].was
               /\ held'[k].age = Older(held[k].age, HeldCap(k))
               /\ retiring' = retiring
    BY <1>9 DEF Tick, TypeOK, Instance, retired
  <2>2. ASSUME NEW k \in Keys
        PROVE  /\ ForDur[RuleOf[k]] \in Nat /\ ResolveForDur[RuleOf[k]] \in Nat
               /\ held[k].age \in Nat
    BY KeyAssumption, RuleAssumption DEF Durations, TypeOK
  <2>3. ASSUME NEW k \in Keys, inst'[k].state = "pending"
        PROVE  held'[k].was = "bad" /\ inst'[k].pendingSince \in 0..held'[k].age
    <3>1. held[k].was = "bad" /\ inst[k].pendingSince \in 0..held[k].age
      BY <2>1, <2>3 DEF ClocksHeld
    <3>2. HeldCap(k) = ForDur[RuleOf[k]]
      BY <3>1 DEF HeldCap
    <3> QED BY <2>1, <2>2, <3>1, <3>2, OlderWithin
  <2>4. ASSUME ~retiring, NEW k \in Keys, inst'[k].state = "firing", inst'[k].falseAt # Never
        PROVE  held'[k].was = "ok" /\ inst'[k].falseAt \in 0..held'[k].age
    <3>1. inst[k].falseAt # Never
      BY <2>1, <2>4 DEF Older
    <3>2. held[k].was = "ok" /\ inst[k].falseAt \in 0..held[k].age
      BY <2>1, <2>4, <3>1 DEF ClocksHeld
    <3>3. HeldCap(k) = ResolveForDur[RuleOf[k]]
      BY <3>2 DEF HeldCap
    <3> QED BY <2>1, <2>2, <3>2, <3>3, OlderWithin
  <2>5. ASSUME ~retiring, NEW k \in Keys, inst'[k].state # "firing"
        PROVE  inst'[k].falseAt = Never
    BY <2>1, <2>5 DEF ClocksHeld, Older
  <2> QED BY <2>1, <2>3, <2>4, <2>5 DEF ClocksHeld
<1>10. CASE Environment
  BY <1>1, <1>9, <1>10 DEF Environment, ComeOrGo, Flip, history, retired
<1>11. CASE UNCHANGED vars
  BY <1>1, <1>11 DEF vars
<1> QED BY <1>6, <1>8, <1>10, <1>11 DEF Next

\* What the two action properties are derived from.
LEMMA ClocksInvariant == Spec => [](IInv /\ OneEvaluation /\ ClocksHeld)
<1> DEFINE QInv == OneEvaluation /\ NotificationsAccounted
<1>1. Init => QInv /\ ClocksHeld
  <2> SUFFICES ASSUME Init PROVE QInv /\ ClocksHeld
    OBVIOUS
  <2>1. ClocksHeld
    BY DEF Init, ClocksHeld, NoInstance, NewInstance
  <2> QED BY <2>1, InitQueues
<1>2. IInv /\ QInv /\ ClocksHeld /\ [Next]_vars => QInv' /\ ClocksHeld'
  BY NextQueues, NextClocks DEF IInv
<1>3. QInv => OneEvaluation
  OBVIOUS
<1> HIDE DEF QInv
<1> QED BY <1>1, <1>2, <1>3, AlerterInvariant, PTL DEF Spec

\* Only a transition makes an entry fire while the agent runs.
LEMMA FiresInTransition ==
    ASSUME TypeOK, [Next]_vars, up, NEW k \in Keys,
           inst[k].state # "firing", inst'[k].state = "firing"
    PROVE  Transition(k) /\ MustFire(k, Entry(k), obs[k] = "bad")
<1>1. inst' # inst /\ inst \in [Keys -> Instance] /\ NoInstance.state = "none"
  BY DEF TypeOK, NoInstance, NewInstance
<1>2. inst' # [l \in Keys |-> NoInstance]
  BY <1>1
<1>3. PICK l \in Keys : Transition(l) \/ CleanUp(l)
  <2>1. ~Tick
    <3>1. ASSUME Tick PROVE inst'[k].state = inst[k].state
      BY <1>1, <3>1 DEF Tick, Instance
    <3> QED BY <3>1
  <2>2. ~Retire
    <3>1. ASSUME Retire PROVE inst'[k] = inst[k]
      BY <1>1, <3>1 DEF Retire, Firing
    <3> QED BY <3>1
  <2> QED BY <1>1, <1>2, <2>1, <2>2 DEF Next, Evaluate, Life, Environment, vars,
            BeginEvaluate, BeginEvent, RunDeferred, SendAlert, Install, LateTransition,
            Restart, Crash, Prune, Silence, ComeOrGo, Flip
<1>4. Transition(l) /\ l = k
  <2>1. ASSUME l # k PROVE inst'[k] = inst[k]
    BY <1>1, <1>3, <2>1 DEF Transition, Fire, CleanUp
  <2>2. ASSUME CleanUp(l) PROVE inst'[l].state = "none"
    BY <1>1, <2>2 DEF CleanUp
  <2> QED BY <1>3, <2>1, <2>2
<1>5. ~MustResolve(k, Entry(k), obs[k] = "bad")
  BY DEF MustResolve, Entry, NewInstance
<1>6. ~MustFire(k, Entry(k), obs[k] = "bad") =>
         inst' = [inst EXCEPT ![k] = Step(k, Entry(k), obs[k] = "bad")]
  BY <1>4, <1>5 DEF Transition
<1>7. Step(k, Entry(k), obs[k] = "bad").state # "firing"
  <2> DEFINE i == Entry(k)
  <2>1. i \in Instance /\ i.state # "firing"
    BY EntryType DEF Entry, NewInstance
  <2>2. /\ [i EXCEPT !.state = "pending", !.pendingSince = 0].state = "pending"
        /\ [i EXCEPT !.state = "inactive", !.pendingSince = Never].state = "inactive"
    BY <2>1 DEF Instance
  <2> QED BY <2>1, <2>2 DEF Step
<1> QED BY <1>1, <1>4, <1>6, <1>7

\* An entry fires only on a condition that has held for its rule's `for`, whatever
\* the rules and whichever goroutine observed it: ForHonoured.
THEOREM ForIsHonoured == Spec => ForHonoured
<1> DEFINE A == \A k \in Keys :
                  up /\ inst[k].state # "firing" /\ inst'[k].state = "firing"
                    => held'[k].was = "bad" /\ held'[k].age >= ForDur[RuleOf[k]]
           I == IInv /\ OneEvaluation /\ ClocksHeld
<1>1. I /\ [Next]_vars => A
  <2> SUFFICES ASSUME I, [Next]_vars, NEW k \in Keys, up,
                      inst[k].state # "firing", inst'[k].state = "firing"
               PROVE  held'[k].was = "bad" /\ held'[k].age >= ForDur[RuleOf[k]]
    OBVIOUS
  <2>1. TypeOK /\ Transition(k) /\ MustFire(k, Entry(k), obs[k] = "bad")
    BY FiresInTransition DEF IInv
  <2>2. /\ obs[k] = "bad" /\ held[k].age \in Nat
        /\ held' = [held EXCEPT ![k] = IF held[k].was = "bad" THEN held[k]
                                       ELSE [was |-> "bad", age |-> 0]]
    BY <2>1 DEF Transition, Hold, MustFire, TypeOK
  <2>3. held'[k] = IF held[k].was = "bad" THEN held[k] ELSE [was |-> "bad", age |-> 0]
    BY <2>1, <2>2 DEF TypeOK
  <2>4. ForDur[RuleOf[k]] \in Nat
    BY KeyAssumption, RuleAssumption DEF Durations
  <2>5. CASE ForDur[RuleOf[k]] = 0
    BY <2>2, <2>3, <2>5
  <2>6. CASE ForDur[RuleOf[k]] # 0
    <3>1. inst[k].state = "pending" /\ inst[k].pendingSince >= ForDur[RuleOf[k]]
      BY <2>1, <2>6 DEF MustFire, Entry, NewInstance
    <3>2. held[k].was = "bad" /\ inst[k].pendingSince \in 0..held[k].age
      BY <3>1 DEF ClocksHeld
    <3>3. held'[k] = held[k]
      BY <2>3, <3>2
    <3> QED BY <2>2, <2>4, <3>1, <3>2, <3>3
  <2> QED BY <2>5, <2>6
<1>2. Spec => []I
  BY ClocksInvariant
<1> HIDE DEF I
<1>3. I /\ [Next]_vars => [A]_vars
  BY <1>1
<1>4. Spec => [][A]_vars
  <2> HIDE DEF A
  <2> QED BY <1>2, <1>3, PTL DEF Spec
<1> QED BY <1>4 DEF ForHonoured

\* Whatever failed to be collected and for how long, an evaluation ends an alert
\* only on a condition that was false for resolve_for, or for a target that a
\* collected snapshot lacked, an alerter a reload is about to retire aside:
\* ResolveJustified.
THEOREM ResolvesAreJustified == Spec => ResolveJustified
<1> DEFINE A == \A k \in Keys :
                  mu # "free" /\ ~retiring /\ up' /\ inst[k].state = "firing" /\ inst'[k].state # "firing"
                    => \/ held'[k].was = "ok" /\ held'[k].age >= ResolveForDur[RuleOf[k]]
                       \/ mu = "collect" /\ obs[k] = "gone"
           I == IInv /\ OneEvaluation /\ ClocksHeld
<1>1. I /\ [Next]_vars => A
  <2> SUFFICES ASSUME I, [Next]_vars, NEW k \in Keys, mu # "free", ~retiring, up',
                      inst[k].state = "firing", inst'[k].state # "firing",
                      ~(mu = "collect" /\ obs[k] = "gone")
               PROVE  held'[k].was = "ok" /\ held'[k].age >= ResolveForDur[RuleOf[k]]
    OBVIOUS
  <2>0. TypeOK /\ inst \in [Keys -> Instance] /\ up /\ inst' # inst
    BY DEF IInv, TypeOK, DownIsIdle
  <2>1. PICK l \in Keys : Transition(l) \/ CleanUp(l)
    <3>1. ~Crash /\ ~Retire /\ \A rs \in SUBSET Rules : ~Install(rs) /\ ~Restart(rs)
      BY <2>0 DEF Crash, Retire, Install, Restart
    <3> QED BY <2>0, <3>1 DEF Next, Evaluate, Life, Environment, vars, BeginEvaluate,
              BeginEvent, RunDeferred, SendAlert, LateTransition, Prune, Silence,
              ComeOrGo, Flip, Tick
  <2>2. l = k
    BY <2>0, <2>1 DEF Transition, Fire, CleanUp
  <2>3. Transition(k)
    BY <2>1, <2>2 DEF CleanUp, StaleKeys, Seen
  <2>4. Entry(k) = inst[k] /\ obs[k] \in {"ok", "bad"}
    BY <2>3 DEF Entry, OneEvaluation, Transition
  <2>5. MustResolve(k, inst[k], obs[k] = "bad")
    <3>1. ~MustFire(k, inst[k], obs[k] = "bad")
      BY DEF MustFire
    <3>2. Step(k, inst[k], obs[k] = "bad").state = "firing"
      <4>1. /\ inst[k] \in Instance
            /\ [inst[k] EXCEPT !.falseAt = Never].state = "firing"
            /\ [inst[k] EXCEPT !.falseAt = 0].state = "firing"
        BY <2>0 DEF Instance
      <4> QED BY <4>1 DEF Step
    <3>3. inst' # [inst EXCEPT ![k] = Step(k, inst[k], obs[k] = "bad")]
      BY <2>0, <3>2
    <3> QED BY <2>3, <2>4, <3>1, <3>3 DEF Transition
  <2>6. /\ obs[k] = "ok" /\ held[k].age \in Nat
        /\ held'[k] = IF held[k].was = "ok" THEN held[k] ELSE [was |-> "ok", age |-> 0]
    BY <2>0, <2>3, <2>4, <2>5 DEF Transition, Hold, MustResolve, TypeOK
  <2>7. ResolveForDur[RuleOf[k]] \in Nat
    BY KeyAssumption, RuleAssumption DEF Durations
  <2>8. CASE ResolveForDur[RuleOf[k]] = 0
    BY <2>6, <2>8
  <2>9. CASE ResolveForDur[RuleOf[k]] # 0
    <3>1. inst[k].falseAt # Never /\ inst[k].falseAt >= ResolveForDur[RuleOf[k]]
      BY <2>5, <2>9 DEF MustResolve
    <3>2. held[k].was = "ok" /\ inst[k].falseAt \in 0..held[k].age
      BY <3>1 DEF ClocksHeld
    <3> QED BY <2>6, <2>7, <3>1, <3>2
  <2> QED BY <2>8, <2>9
<1>2. Spec => []I
  BY ClocksInvariant
<1> HIDE DEF I
<1>3. I /\ [Next]_vars => [A]_vars
  BY <1>1
<1>4. Spec => [][A]_vars
  <2> HIDE DEF A
  <2> QED BY <1>2, <1>3, PTL DEF Spec
<1> QED BY <1>4 DEF ResolveJustified

-----------------------------------------------------------------------------
(* Refinement of AlertLedger. *)

\* Closing rows is a closing of the ledger, whichever of them the store refuses.
LEMMA CloseRefines ==
    ASSUME NEW ids, Close(ids), alerts \in Seq(Row)
    PROVE  Ledger!Next
<1>1. PICK refused \in Refusals(ids) : alerts' = ResolveRows(ids, refused)
  BY DEF Close
<1> DEFINE closed == (ids \ refused) \cap (1..Len(alerts))
<1>2. Ledger!CloseSome(closed)
  BY <1>1 DEF ResolveRows, Ids, Ledger!CloseSome
<1>3. closed \in SUBSET (1..Len(alerts))
  OBVIOUS
<1> HIDE DEF closed
<1> QED BY <1>2, <1>3 DEF Ledger!Next

\* fire opens a row of a key whose open rows were all left behind.
LEMMA FireRefines ==
    ASSUME IInv, up, NEW k \in Keys, Fire(k, Entry(k)),
           inst[k].state # "firing"
    PROVE  [Ledger!Next]_alerts
<1>1. alerts' = alerts \/ alerts' = Append(alerts, [key |-> k, state |-> "firing"])
  BY DEF Fire, Insert
<1>2. inst[k].dbID = 0
  BY DEF IInv, Agreement, FiringOwnsRow
<1>3. \A i \in Unresolved : alerts[i].key = k => i \in adrift
  BY <1>2 DEF IInv, Agreement, NoOrphanRow, Unresolved, Ids
<1>4. Ledger!OpenRows(k) \subseteq adrift
  BY <1>3 DEF Ledger!OpenRows, Unresolved, Ids
<1>5. CASE alerts' = Append(alerts, [key |-> k, state |-> "firing"])
  <2>1. Ledger!Open(k)
    BY <1>4, <1>5 DEF Ledger!Open
  <2> QED BY <2>1 DEF Ledger!Next
<1> QED BY <1>1, <1>5

\* Every step of the alerter is a step of the ledger or leaves it alone.
LEMMA NextRefines ==
    ASSUME IInv, [Next]_vars
    PROVE  [Ledger!Next]_alerts
<1> DEFINE Goal == [Ledger!Next]_alerts
<1>0. alerts \in Seq(Row) /\ TypeOK
  BY DEF IInv, TypeOK
<1>1. ASSUME UNCHANGED alerts PROVE Goal
  BY <1>1
<1>2. ASSUME NEW ids, Close(ids) PROVE Goal
  BY <1>0, <1>2, CloseRefines
<1>3. ASSUME NEW ks, Resolve(ks) PROVE Goal
  BY <1>2, <1>3 DEF Resolve
<1> HIDE DEF Goal
<1>4. ASSUME NEW k \in Keys, Transition(k) PROVE Goal
  <2>1. up
    BY <1>4 DEF IInv, DownIsIdle, Transition
  <2>2. MustFire(k, Entry(k), obs[k] = "bad") => inst[k].state # "firing"
    BY DEF MustFire, Entry
  <2>3. CASE MustFire(k, Entry(k), obs[k] = "bad") /\ Fire(k, Entry(k))
    BY <2>1, <2>2, <2>3, FireRefines DEF Goal
  <2>4. CASE Resolve({k})
    BY <1>3, <2>4
  <2>5. CASE UNCHANGED alerts
    BY <1>1, <2>5
  <2> QED BY <1>4, <2>3, <2>4, <2>5 DEF Transition
<1>5. ASSUME NEW k \in Keys, CleanUp(k) PROVE Goal
  BY <1>1, <1>3, <1>5 DEF CleanUp
<1>6. CASE Retire
  BY <1>3, <1>6 DEF Retire, Goal
<1>7. ASSUME NEW rs \in SUBSET Rules, Restart(rs) PROVE Goal
  <2>1. CASE AdoptFiring
    <3>1. PICK ids, refused : alerts' = ResolveRows(ids, refused)
      BY <2>1 DEF AdoptFiring
    <3> DEFINE closed == (ids \ refused) \cap (1..Len(alerts))
    <3>2. Ledger!CloseSome(closed)
      BY <3>1 DEF ResolveRows, Ids, Ledger!CloseSome
    <3>3. closed \in SUBSET (1..Len(alerts))
      OBVIOUS
    <3> HIDE DEF closed
    <3> QED BY <3>2, <3>3 DEF Ledger!Next, Goal
  <2>2. CASE AdoptFails
    BY <2>2 DEF AdoptFails, Goal
  <2>3. CASE ResolveOrphanedAlerts
    <3>1. PICK ok \in Answers : alerts' = IF ok THEN ResolveRows(Unresolved, {}) ELSE alerts
      BY <2>3 DEF ResolveOrphanedAlerts
    <3>2. CASE ok
      <4>1. Ledger!CloseSome(Unresolved)
        BY <3>1, <3>2 DEF ResolveRows, Ids, Ledger!CloseSome
      <4>2. Unresolved \in SUBSET (1..Len(alerts))
        BY DEF Unresolved, Ids
      <4> QED BY <4>1, <4>2 DEF Ledger!Next, Goal
    <3> QED BY <3>1, <3>2 DEF Goal
  <2> QED BY <1>7, <2>1, <2>2, <2>3 DEF Restart
<1>8. ASSUME NEW last \in Ids, Prune(last) PROVE Goal
  <2>1. Ledger!Expire(last)
    BY <1>8 DEF Prune, Ids, Ledger!Expire
  <2> QED BY <2>1 DEF Goal, Ids, Ledger!Next
<1>9. CASE Evaluate
  BY <1>1, <1>4, <1>5, <1>9
     DEF Evaluate, BeginEvaluate, BeginEvent, RunDeferred, SendAlert, Goal
<1>10. ASSUME NEW k \in Keys, LateTransition(k) PROVE Goal
  <2>1. ASSUME NEW id \in {0, Len(alerts) + 1}, Insert(k, id),
               adrift' = adrift \cup ({id} \ {0})
        PROVE  Goal
    <3>1. CASE id = 0
      BY <1>1, <2>1, <3>1 DEF Insert
    <3>2. CASE id # 0
      <4>1. Ledger!Open(k)
        BY <2>1, <3>2 DEF Insert, Ledger!Open
      <4> QED BY <4>1 DEF Ledger!Next, Goal
    <3> QED BY <3>1, <3>2
  <2> QED BY <1>1, <1>2, <1>10, <2>1 DEF LateTransition
<1>11. CASE Life
  BY <1>1, <1>6, <1>7, <1>8, <1>10, <1>11 DEF Life, Install, Crash, Silence, Goal
<1>12. CASE Environment
  BY <1>1, <1>12 DEF Environment, ComeOrGo, Flip, Tick, Goal
<1>13. CASE UNCHANGED vars
  BY <1>1, <1>13 DEF vars, Goal
<1> QED BY <1>9, <1>11, <1>12, <1>13 DEF Next, Goal

\* The alerter implements the ledger: every behaviour of the alerter, its crashes, its
\* reloads and the events they overtake, shows readers of the alerts table a behaviour
\* of AlertLedger: a second open row of a key only where the first was left behind or
\* the new one is, a row never reopened.
THEOREM AlerterImplementsLedger == Spec => LedgerSpec
<1>1. Init => Ledger!Init
  BY DEF Init, Ledger!Init
<1>2. IInv /\ [Next]_vars => [Ledger!Next]_alerts
  BY NextRefines
<1> QED BY <1>1, <1>2, AlerterInvariant, PTL DEF Spec, LedgerSpec, Ledger!Spec
=============================================================================
