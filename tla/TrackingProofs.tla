--------------------------- MODULE TrackingProofs ---------------------------
(***************************************************************************)
(* Proofs about Tracking, for any containers, projects and connections and *)
(* any number of toggles and restarts: a manual decision is never          *)
(* overridden, and a table saved after the last toggle has every decision. *)
(***************************************************************************)
EXTENDS Tracking, FiniteSetTheorems, TLAPS

(* Maps from names to decisions *)

\* A map is a function from a set of names to BOOLEAN.
LEMMA MapIs ==
    ASSUME NEW f PROVE f \in Maps <=> DOMAIN f \subseteq Name /\ f \in [DOMAIN f -> BOOLEAN]
BY DEF Maps

\* The empty map.
LEMMA MapEmpty == Nowhere \in Maps /\ DOMAIN Nowhere = {}
BY MapIs DEF Nowhere

\* What Override does: the names given are in the map with the value given, the
\* others are as before.
LEMMA MapOverride ==
    ASSUME NEW f \in Maps, NEW S \in SUBSET Name, NEW v, v \in BOOLEAN
    PROVE  /\ Override(f, S, v) \in Maps
           /\ DOMAIN Override(f, S, v) = DOMAIN f \union S
           /\ \A n \in S : Override(f, S, v)[n] = v
           /\ \A n \in DOMAIN f \ S : Override(f, S, v)[n] = f[n]
<1>1. DOMAIN f \subseteq Name /\ f \in [DOMAIN f -> BOOLEAN]
  BY MapIs
<1>2. Override(f, S, v) \in [DOMAIN f \union S -> BOOLEAN]
  BY <1>1 DEF Override
<1>3. DOMAIN Override(f, S, v) = DOMAIN f \union S
  BY DEF Override
<1>4. Override(f, S, v) \in Maps
  BY <1>1, <1>2, <1>3, MapIs
<1>5. QED
  BY <1>3, <1>4 DEF Override

\* A map cut down to some of its names.
LEMMA MapRestrict ==
    ASSUME NEW f \in Maps, NEW S \in SUBSET (DOMAIN f)
    PROVE  /\ Restrict(f, S) \in Maps /\ DOMAIN Restrict(f, S) = S
           /\ \A n \in S : Restrict(f, S)[n] = f[n]
<1>1. DOMAIN f \subseteq Name /\ f \in [DOMAIN f -> BOOLEAN]
  BY MapIs
<1>2. Restrict(f, S) \in [S -> BOOLEAN] /\ DOMAIN Restrict(f, S) = S
  BY <1>1 DEF Restrict
<1>3. Restrict(f, S) \in Maps
  BY <1>1, <1>2, MapIs
<1>4. QED
  BY <1>2, <1>3 DEF Restrict

\* The value of a map is a truth value.
LEMMA MapValue ==
    ASSUME NEW f \in Maps, NEW n \in DOMAIN f PROVE f[n] \in BOOLEAN /\ n \in Name
BY MapIs

-----------------------------------------------------------------------------
(* Init and the actions that change no decision *)

\* The initial state: no decision and no request.
LEMMA InvInit == Init => IInv
<1> SUFFICES ASSUME Init PROVE IInv
  OBVIOUS
<1>1. Sending = {}
  BY DEF Init, Sending, NoRequest
<1>2. SentCounted
  BY <1>1, FS_EmptySet DEF Init, SentCounted
<1>3. TypeOK
  <2>1. NoRequest \in Requests
    BY MapEmpty DEF Init, NoRequest, Requests
  <2>2. Idle \in Scans
    BY DEF Idle, Scans
  <2>3. request \in [Conn -> Requests]
    BY <2>1 DEF Init
  <2>4. event \in BOOLEAN
    BY DEF Init
  <2>5. QED
    BY <2>2, <2>3, <2>4, TrackingAssumption, MapEmpty DEF Init, TypeOK
<1>4. ManualWins /\ ListedDecisions /\ CopiesAgree
  BY <1>1, MapEmpty DEF Init, ManualWins, ListedDecisions, CopiesAgree, Agrees, NoRequest, Idle
<1>5. QED
  BY <1>2, <1>3, <1>4 DEF IInv

\* A step that changes neither decisions, toggles, map, table nor requests, and
\* no listing, keeps what the invariant says of them.
LEMMA Undecided ==
    ASSUME IInv,
           UNCHANGED <<tracked, saved, request, decided, missed, sets, savedSet>>,
           scan'.at # "idle" => scan.at # "idle" /\ scan'.listed = scan.listed
    PROVE  ManualWins' /\ ListedDecisions' /\ SentCounted' /\ CopiesAgree'
<1>1. Sending' = Sending
  BY DEF Sending
<1>2. QED
  BY <1>1 DEF IInv, ManualWins, ListedDecisions, SentCounted, CopiesAgree, Agrees

\* Docker, events, clients and the parts of the cycle that write no map.
LEMMA QuietStep ==
    ASSUME IInv, \/ \E n \in Name : Churn(n)
                 \/ HandleEvent \/ MissEvent \/ QueryContainers \/ SessionContainers
                 \/ CollectNext \/ CollectLast
    PROVE  IInv'
<1> USE DEF IInv
<1>1. ASSUME NEW n \in Name, Churn(n) PROVE IInv'
  BY <1>1, Undecided DEF Churn, TypeOK, agent, client, hist, Requests
<1>2. CASE HandleEvent
  <2>1. event' \in BOOLEAN
    BY <1>2 DEF HandleEvent
  <2>2. TypeOK'
    BY <1>2, <2>1 DEF HandleEvent, TypeOK, agent, hist, Requests
  <2>3. QED
    BY <1>2, <2>2, Undecided DEF HandleEvent, agent, hist
<1>3. CASE MissEvent
  BY <1>3, Undecided DEF MissEvent, TypeOK, agent, client, hist, Requests
<1>4. CASE QueryContainers
  <2>1. Answer \in Maps
    <3>1. Answer \in [last -> BOOLEAN] /\ DOMAIN Answer = last
      <4>1. ASSUME NEW n \in last PROVE (n \in DOMAIN tracked /\ tracked[n]) \in BOOLEAN
        OBVIOUS
      <4>2. QED
        BY <4>1 DEF Answer
    <3>2. QED
      BY <3>1, MapIs DEF TypeOK
  <2>2. TypeOK'
    BY <1>4, <2>1 DEF QueryContainers, TypeOK, docker, agent, hist, Requests
  <2>3. QED
    BY <1>4, <2>2, Undecided DEF QueryContainers, agent, hist
<1>5. CASE SessionContainers
  BY <1>5, Undecided DEF SessionContainers, TypeOK, docker, agent, hist, Requests
<1>6. CASE CollectNext
  <2> DEFINE n == CHOOSE x \in scan.todo : TRUE
             seen == n \in DOMAIN tracked
  <2>1. n \in scan.todo /\ n \in Name
    BY <1>6 DEF CollectNext, TypeOK, Scans
  <2>2. scan' = [scan EXCEPT !.todo = @ \ {n}, !.at = IF seen THEN "loop" ELSE "auto",
                             !.name = IF seen THEN {} ELSE {n},
                             !.out = IF seen /\ tracked[n] THEN @ \union {n} ELSE @]
    BY <1>6 DEF CollectNext
  <2>3. scan' \in Scans /\ scan'.listed = scan.listed /\ scan.at = "loop"
    <3>1. scan \in Scans /\ scan.at = "loop"
      BY <1>6 DEF CollectNext, TypeOK
    <3>2. scan.out \union {n} \in SUBSET Name /\ scan.todo \ {n} \in SUBSET Name
      BY <2>1, <3>1 DEF Scans
    <3>3. CASE ~seen
      BY <2>1, <2>2, <3>1, <3>2, <3>3 DEF Scans
    <3>4. CASE seen /\ tracked[n]
      BY <2>1, <2>2, <3>1, <3>2, <3>4 DEF Scans
    <3>5. CASE seen /\ ~tracked[n]
      BY <2>1, <2>2, <3>1, <3>2, <3>5 DEF Scans
    <3>6. QED
      BY <3>3, <3>4, <3>5
  <2>4. TypeOK'
    BY <1>6, <2>3 DEF CollectNext, TypeOK, docker, client, hist, Requests
  <2>5. QED
    BY <1>6, <2>3, <2>4, Undecided DEF CollectNext, hist
<1>7. CASE CollectLast
  BY <1>7, Undecided DEF CollectLast, TypeOK, docker, client, hist, Requests, Scans
<1>8. QED
  BY <1>1, <1>2, <1>3, <1>4, <1>5, <1>6, <1>7

-----------------------------------------------------------------------------
(* The collect cycle *)

\* The parts of the cycle that list, auto-track and prune: a decision that the
\* listing has is not touched.
LEMMA CycleStep ==
    ASSUME IInv, CollectList \/ CollectAuto \/ CollectPrune
    PROVE  IInv'
<1> USE DEF IInv
<1>1. CASE CollectList
  <2>1. scan' \in Scans /\ scan'.listed = present
    BY <1>1 DEF CollectList, Idle, Scans, TypeOK
  <2>2. DOMAIN decided \subseteq Name
    BY MapIs DEF TypeOK
  <2>3. TypeOK'
    BY <1>1, <2>1, <2>2 DEF CollectList, TypeOK, docker, client, Requests
  <2>4. ListedDecisions'
    BY <1>1, <2>1 DEF CollectList, ListedDecisions
  <2>5. ManualWins' /\ CopiesAgree' /\ SentCounted'
    BY <1>1 DEF CollectList, ManualWins, CopiesAgree, SentCounted, Agrees, Sending
  <2>6. QED
    BY <2>3, <2>4, <2>5
<1>2. CASE CollectAuto
  <2>1. PICK n \in scan.name :
            /\ tracked' = IF Unseen(n) THEN Override(tracked, {n}, n \in AutoTracked) ELSE tracked
            /\ scan' = [scan EXCEPT !.at = "loop", !.name = {},
                                    !.out = IF tracked'[n] THEN @ \union {n} ELSE @]
    BY <1>2, Zenon DEF CollectAuto
  <2>2. /\ n \in Name /\ {n} \in SUBSET Name /\ scan \in Scans
        /\ (n \in AutoTracked) \in BOOLEAN /\ tracked \in Maps
    BY DEF TypeOK, Scans
  <2>3. /\ tracked' \in Maps
        /\ \A x \in DOMAIN tracked : x \in DOMAIN tracked' /\ tracked'[x] = tracked[x]
    <3>1. CASE Unseen(n)
      <4>1. Override(tracked, {n}, n \in AutoTracked) \in Maps
        BY <2>2, MapOverride
      <4>2. /\ DOMAIN Override(tracked, {n}, n \in AutoTracked) = DOMAIN tracked \union {n}
            /\ \A x \in DOMAIN tracked \ {n} : Override(tracked, {n}, n \in AutoTracked)[x] = tracked[x]
        BY DEF Override
      <4>3. QED
        BY <2>1, <3>1, <4>1, <4>2 DEF Unseen
    <3>2. CASE ~Unseen(n)
      BY <2>1, <2>2, <3>2
    <3>3. QED
      BY <3>1, <3>2
  <2>4. scan' \in Scans /\ scan'.listed = scan.listed /\ scan.at = "auto"
    <3>1. scan.out \union {n} \in SUBSET Name /\ scan.at = "auto"
      BY <1>2, <2>2 DEF Scans, CollectAuto
    <3>2. CASE tracked'[n]
      BY <2>1, <2>2, <3>1, <3>2 DEF Scans
    <3>3. CASE ~tracked'[n]
      BY <2>1, <2>2, <3>1, <3>3 DEF Scans
    <3>4. QED
      BY <3>2, <3>3
  <2>5. TypeOK'
    BY <1>2, <2>3, <2>4 DEF CollectAuto, TypeOK, docker, client, hist, Requests
  <2>6. ManualWins'
    BY <1>2, <2>3 DEF CollectAuto, hist, ManualWins, Agrees
  <2>7. ListedDecisions' /\ CopiesAgree' /\ SentCounted'
    BY <1>2, <2>4 DEF CollectAuto, hist, ListedDecisions, CopiesAgree, SentCounted, Agrees, Sending
  <2>8. QED
    BY <2>5, <2>6, <2>7
<1>3. CASE CollectPrune
  <2>1. tracked \in Maps /\ scan \in Scans /\ scan.at = "prune"
    BY <1>3 DEF CollectPrune, TypeOK
  <2> DEFINE S == DOMAIN tracked \intersect scan.listed
  <2>2. /\ tracked' \in Maps /\ DOMAIN tracked' = S
        /\ \A x \in S : tracked'[x] = tracked[x]
    <3>1. tracked' = Restrict(tracked, S) /\ S \in SUBSET DOMAIN tracked
      BY <1>3 DEF CollectPrune
    <3>2. QED
      BY <2>1, <3>1, MapRestrict
  <2>3. TypeOK'
    <3>1. Idle \in Scans
      BY DEF Idle, Scans
    <3>2. QED
      BY <1>3, <2>1, <2>2, <3>1 DEF CollectPrune, TypeOK, docker, hist, Requests, Scans
  <2>4. ManualWins'
    BY <1>3, <2>1, <2>2 DEF CollectPrune, hist, ManualWins, ListedDecisions, Agrees
  <2>5. ListedDecisions' /\ CopiesAgree' /\ SentCounted'
    BY <1>3 DEF CollectPrune, hist, Idle, ListedDecisions, CopiesAgree, SentCounted, Agrees, Sending
  <2>6. QED
    BY <2>3, <2>4, <2>5
<1>4. QED
  BY <1>1, <1>2, <1>3

-----------------------------------------------------------------------------
(* Requests *)

\* A toggle that is sent: it is counted, and no copy counts it yet.
LEMMA SendStep ==
    ASSUME IInv, NEW c \in Conn, NEW S \in SUBSET (Name \union Project), NEW v \in BOOLEAN,
           Send(c, S, v)
    PROVE  IInv'
<1> USE DEF IInv
<1> DEFINE r == [at |-> "sent", names |-> S, val |-> v, copy |-> Nowhere, set |-> 0]
<1>1. /\ request' = [request EXCEPT ![c] = r] /\ sets' = sets + 1 /\ sets < MaxSets
      /\ request[c].at = "idle"
      /\ UNCHANGED <<docker, tracked, last, scan, saved, client, decided, missed, savedSet, restarts>>
  BY DEF Send
<1>2. sets \in Nat /\ sets' \in 0..MaxSets /\ request \in [Conn -> Requests] /\ savedSet \in 0..sets
  BY <1>1, TrackingAssumption DEF TypeOK
<1>3. r \in Requests' /\ r.at = "sent"
  <2>1. 0 \in 0..sets' /\ Nowhere \in Maps /\ "sent" \in {"idle", "sent", "set", "copied"}
    BY <1>1, <1>2, MapEmpty
  <2>2. r \in Requests'
    BY <2>1, Zenon DEF Requests
  <2>3. QED
    BY <2>2
<1>4. request' \in [Conn -> Requests']
  <2>1. ASSUME NEW x \in Conn PROVE request[x] \in Requests'
    BY <1>1, <1>2 DEF Requests
  <2>2. QED
    BY <1>1, <1>2, <1>3, <2>1
<1>5. TypeOK'
  BY <1>1, <1>2, <1>4 DEF TypeOK, docker, client
<1>6. Sending' = Sending \union {c} /\ c \notin Sending
  BY <1>1, <1>2, <1>3 DEF Sending
<1>7. SentCounted'
  <2>1. IsFiniteSet(Sending) /\ Cardinality(Sending) <= sets
    BY DEF SentCounted
  <2>2. IsFiniteSet(Sending') /\ Cardinality(Sending') = Cardinality(Sending) + 1
    BY <1>6, <2>1, FS_AddElement
  <2>3. Cardinality(Sending) \in Nat
    BY <2>1, FS_CardinalityType
  <2>4. QED
    BY <1>1, <1>2, <2>1, <2>2, <2>3 DEF SentCounted
<1>8. ManualWins' /\ ListedDecisions'
  BY <1>1 DEF ManualWins, ListedDecisions, Agrees
<1>9. CopiesAgree'
  <2>1. savedSet' # sets'
    BY <1>1, <1>2
  <2>2. ASSUME NEW x \in Conn, request'[x].at = "copied" PROVE request'[x].set # sets'
    <3>1. x # c /\ request'[x] = request[x]
      BY <1>1, <1>2, <1>3, <2>2
    <3>2. request[x].set \in 0..sets
      BY <1>2 DEF Requests
    <3>3. QED
      BY <1>1, <1>2, <3>1, <3>2
  <2>3. QED
    BY <2>1, <2>2 DEF CopiesAgree
<1>10. QED
  BY <1>5, <1>7, <1>8, <1>9

\* The three ways to toggle send such a request.
LEMMA ToggleStep ==
    ASSUME IInv, \/ \E n \in Name : ToggleContainer(n)
                 \/ \E p \in Project : ToggleProject(p)
                 \/ \E c \in Conn : ToggleElsewhere(c)
    PROVE  IInv'
<1>1. ASSUME NEW n \in Name, ToggleContainer(n) PROVE IInv'
  <2>1. {n} \intersect DOMAIN info \in SUBSET (Name \union Project) /\ (~IsContainerTracked(n)) \in BOOLEAN
    BY DEF IsContainerTracked
  <2>2. Viewer \in Conn
    BY TrackingAssumption
  <2>3. QED
    BY <1>1, <2>1, <2>2, SendStep DEF ToggleContainer
<1>2. ASSUME NEW p \in Project, ToggleProject(p) PROVE IInv'
  <2>1. {p} \in SUBSET (Name \union Project) /\ (~IsProjectTracked(p)) \in BOOLEAN
    BY DEF IsProjectTracked
  <2>2. Viewer \in Conn
    BY TrackingAssumption
  <2>3. QED
    BY <1>2, <2>1, <2>2, SendStep DEF ToggleProject
<1>3. ASSUME NEW c \in Conn, ToggleElsewhere(c) PROVE IInv'
  <2>1. PICK n \in Name, v \in BOOLEAN : Send(c, {n}, v)
    BY <1>3 DEF ToggleElsewhere
  <2>2. {n} \in SUBSET (Name \union Project)
    OBVIOUS
  <2>3. QED
    BY <2>1, <2>2, SendStep
<1>4. QED
  BY <1>1, <1>2, <1>3

\* setTracking: the request leaves those under way, its decisions enter map and
\* history alike.
LEMMA SetStep ==
    ASSUME IInv, NEW c \in Conn, SetTracking(c) PROVE IInv'
<1> USE DEF IInv
<1> DEFINE r == request[c]
           t == Targets(r.names)
<1>1. request \in [Conn -> Requests] /\ r \in Requests /\ r.at = "sent" /\ c \in Sending
  BY DEF SetTracking, TypeOK, Sending
<1>2. t \in SUBSET Name /\ r.val \in BOOLEAN /\ tracked \in Maps /\ decided \in Maps
  BY <1>1 DEF Targets, TypeOK, Requests
<1>3. UNCHANGED <<docker, last, scan, saved, info, metrics, answers, sets, savedSet, restarts>>
  BY DEF SetTracking
<1>4. ASSUME NEW a \in {"idle", "set"}, request' = [request EXCEPT ![c] = [NoRequest EXCEPT !.at = a]]
      PROVE  /\ request' \in [Conn -> Requests'] /\ Sending' = Sending \ {c}
             /\ SentCounted' /\ CopiesAgree'
  <2>1. Requests' = Requests
    BY <1>3 DEF Requests
  <2>2. [NoRequest EXCEPT !.at = a] \in Requests /\ [NoRequest EXCEPT !.at = a].at = a
    <3>1. 0 \in 0..sets
      BY DEF TypeOK
    <3>2. QED
      BY <3>1, MapEmpty DEF NoRequest, Requests
  <2>3. request' \in [Conn -> Requests']
    BY <1>1, <1>4, <2>1, <2>2
  <2>4. Sending' = Sending \ {c}
    BY <1>1, <1>4, <2>2 DEF Sending
  <2>5. IsFiniteSet(Sending') /\ Cardinality(Sending') <= sets'
    <3>1. IsFiniteSet(Sending) /\ Cardinality(Sending) <= sets /\ Cardinality(Sending) \in Nat
      BY FS_CardinalityType DEF SentCounted
    <3>2. IsFiniteSet(Sending') /\ Cardinality(Sending') = Cardinality(Sending) - 1
      BY <1>1, <2>4, <3>1, FS_RemoveElement
    <3>3. QED
      BY <1>3, <3>1, <3>2 DEF TypeOK
  <2>6. savedSet' # sets'
    BY <1>1, <1>3 DEF CopiesAgree
  <2>7. ASSUME NEW x \in Conn, request'[x].at = "copied" PROVE request'[x].set # sets'
    <3>1. request'[x] = request[x]
      BY <1>1, <1>4, <2>2, <2>7
    <3>2. QED
      BY <1>1, <1>3, <2>7, <3>1 DEF CopiesAgree
  <2>8. QED
    BY <2>3, <2>4, <2>5, <2>6, <2>7 DEF SentCounted, CopiesAgree
<1>5. CASE r.names = {}
  <2>1. Answered(c) /\ UNCHANGED <<tracked, decided, missed>>
    BY <1>5 DEF SetTracking
  <2>2. request' = [request EXCEPT ![c] = [NoRequest EXCEPT !.at = "idle"]]
    BY <2>1 DEF Answered, NoRequest
  <2>3. asking' \in Nat
    BY <2>1 DEF Answered, TypeOK
  <2>4. TypeOK'
    BY <1>3, <1>4, <2>1, <2>2, <2>3 DEF TypeOK, docker
  <2>5. ManualWins' /\ ListedDecisions'
    BY <1>3, <2>1 DEF ManualWins, ListedDecisions, Agrees
  <2>6. QED
    BY <1>4, <2>2, <2>4, <2>5
<1>6. CASE r.names # {}
  <2>1. /\ tracked' = Override(tracked, t, r.val)
        /\ request' = [request EXCEPT ![c] = [NoRequest EXCEPT !.at = "set"]]
        /\ decided' = Override(decided, t, r.val)
        /\ missed' = (missed \ t) \union (IF scan.at = "idle" THEN {} ELSE t \ scan.listed)
        /\ UNCHANGED asking
    BY <1>6 DEF SetTracking
  <2>2. /\ tracked' \in Maps /\ DOMAIN tracked' = DOMAIN tracked \union t
        /\ \A n \in t : tracked'[n] = r.val
        /\ \A n \in DOMAIN tracked \ t : tracked'[n] = tracked[n]
    <3> HIDE DEF t, r
    <3>1. Override(tracked, t, r.val) \in Maps
      BY <1>2, MapOverride
    <3>2. QED
      BY <2>1, <3>1 DEF Override
  <2>3. /\ decided' \in Maps /\ DOMAIN decided' = DOMAIN decided \union t
        /\ \A n \in t : decided'[n] = r.val
        /\ \A n \in DOMAIN decided \ t : decided'[n] = decided[n]
    <3> HIDE DEF t, r
    <3>1. Override(decided, t, r.val) \in Maps
      BY <1>2, MapOverride
    <3>2. QED
      BY <2>1, <3>1 DEF Override
  <2>4. missed' \subseteq Name
    BY <1>2, <2>1 DEF TypeOK
  <2>5. TypeOK'
    BY <1>3, <1>4, <2>1, <2>2, <2>3, <2>4 DEF TypeOK, docker
  <2>6. ManualWins'
    <3>1. ASSUME NEW n \in DOMAIN decided' \ missed'
          PROVE  n \in DOMAIN tracked' /\ tracked'[n] = decided'[n]
      <4>1. CASE n \in t
        BY <2>2, <2>3, <4>1
      <4>2. CASE n \notin t
        <5>1. n \in DOMAIN decided \ missed
          BY <2>1, <2>3, <3>1, <4>2
        <5>2. n \in DOMAIN tracked /\ tracked[n] = decided[n]
          BY <5>1 DEF ManualWins, Agrees
        <5>3. QED
          BY <2>2, <2>3, <4>2, <5>1, <5>2
      <4>3. QED
        BY <4>1, <4>2
    <3>2. QED
      BY <3>1 DEF ManualWins, Agrees
  <2>7. ListedDecisions'
    BY <1>3, <2>1, <2>3 DEF ListedDecisions
  <2>8. QED
    BY <1>4, <2>1, <2>5, <2>6, <2>7
<1>7. QED
  BY <1>5, <1>6

\* A copy is the map of its moment; when it counts every toggle, none was left
\* to apply.
LEMMA CopyStep ==
    ASSUME IInv, NEW c \in Conn, GetTrackingState(c) PROVE IInv'
<1> USE DEF IInv
<1>1. /\ request[c].at = "set"
      /\ request' = [request EXCEPT ![c] = [@ EXCEPT !.at = "copied", !.copy = tracked, !.set = Applied]]
      /\ UNCHANGED <<docker, tracked, last, scan, saved, client, hist, restarts>>
  BY DEF GetTrackingState
<1> DEFINE r == [request[c] EXCEPT !.at = "copied", !.copy = tracked, !.set = Applied]
<1>2. request \in [Conn -> Requests] /\ tracked \in Maps /\ sets \in Nat
  BY TrackingAssumption DEF TypeOK
<1>3. /\ Cardinality(Sending) \in Nat /\ Applied \in 0..sets
      /\ Applied = sets => Sending = {}
  <2>1. IsFiniteSet(Sending) /\ Cardinality(Sending) <= sets
    BY DEF SentCounted
  <2>2. Cardinality(Sending) \in Nat /\ (Cardinality(Sending) = 0 <=> Sending = {})
    BY <2>1, FS_CardinalityType, FS_EmptySet
  <2>3. QED
    BY <1>2, <2>1, <2>2 DEF Applied
<1>4. r \in Requests /\ r.at = "copied" /\ r.copy = tracked /\ r.set = Applied
  BY <1>2, <1>3 DEF Requests
<1>5. request' = [request EXCEPT ![c] = r]
  BY <1>1
<1>6. request' \in [Conn -> Requests'] /\ Sending' = Sending
  <2>1. Requests' = Requests
    BY <1>1 DEF Requests, hist
  <2>2. QED
    BY <1>1, <1>2, <1>4, <1>5, <2>1 DEF Sending
<1>7. TypeOK'
  BY <1>1, <1>6 DEF TypeOK, docker, client, hist
<1>8. ManualWins' /\ ListedDecisions' /\ SentCounted'
  BY <1>1, <1>6 DEF hist, ManualWins, ListedDecisions, SentCounted, Agrees
<1>9. CopiesAgree'
  <2>1. UNCHANGED <<sets, savedSet, saved, decided, missed>>
    BY <1>1 DEF hist
  <2>2. ASSUME NEW x \in Conn, request'[x].at = "copied", request'[x].set = sets'
        PROVE  Sending' = {} /\ Agrees(request[x].copy)'
    <3>1. CASE x = c
      <4>1. request'[x] = r
        BY <1>2, <1>5, <3>1
      <4>2. QED
        BY <1>3, <1>4, <1>6, <2>1, <2>2, <4>1 DEF ManualWins, Agrees
    <3>2. CASE x # c
      <4>1. request'[x] = request[x]
        BY <1>2, <1>5, <3>2
      <4>2. QED
        BY <1>6, <2>1, <2>2, <4>1 DEF CopiesAgree, Agrees
    <3>3. QED
      BY <3>1, <3>2
  <2>3. savedSet' = sets' => Sending' = {} /\ Agrees(saved)'
    BY <1>6, <2>1 DEF CopiesAgree, Agrees
  <2>4. QED
    BY <2>2, <2>3 DEF CopiesAgree, Agrees
<1>10. QED
  BY <1>7, <1>8, <1>9

\* A save puts one copy into the table, or fails; the request is over.
LEMMA SaveStep ==
    ASSUME IInv, NEW c \in Conn, SaveTracking(c) PROVE IInv'
<1> USE DEF IInv
<1>1. /\ request[c].at = "copied" /\ Answered(c)
      /\ \/ saved' = request[c].copy /\ savedSet' = request[c].set
         \/ UNCHANGED <<saved, savedSet>>
      /\ UNCHANGED <<docker, tracked, last, scan, info, metrics, answers, decided, missed, sets, restarts>>
  BY DEF SaveTracking, Table
<1>2. request \in [Conn -> Requests] /\ request' = [request EXCEPT ![c] = NoRequest]
  BY <1>1 DEF Answered, TypeOK
<1>3. saved' \in Maps /\ savedSet' \in 0..sets'
  <2>1. request[c].copy \in Maps /\ request[c].set \in 0..sets
    BY <1>2 DEF Requests
  <2>2. QED
    BY <1>1, <2>1 DEF TypeOK
<1>4. request' \in [Conn -> Requests'] /\ Sending' = Sending
  <2>1. Requests' = Requests
    BY <1>1 DEF Requests
  <2>2. NoRequest \in Requests /\ NoRequest.at = "idle"
    <3>1. 0 \in 0..sets
      BY DEF TypeOK
    <3>2. QED
      BY <3>1, MapEmpty DEF NoRequest, Requests
  <2>3. QED
    BY <1>1, <1>2, <2>1, <2>2 DEF Sending
<1>5. asking' \in Nat
  BY <1>1 DEF Answered, TypeOK
<1>6. TypeOK'
  BY <1>1, <1>3, <1>4, <1>5 DEF TypeOK, docker
<1>7. ManualWins' /\ ListedDecisions' /\ SentCounted'
  BY <1>1, <1>4 DEF ManualWins, ListedDecisions, SentCounted, Agrees
<1>8. CopiesAgree'
  <2>1. savedSet' = sets' => Sending' = {} /\ Agrees(saved)'
    BY <1>1, <1>4 DEF CopiesAgree, Agrees
  <2>2. ASSUME NEW x \in Conn, request'[x].at = "copied", request'[x].set = sets'
        PROVE  Sending' = {} /\ Agrees(request[x].copy)'
    <3>1. request'[x] = request[x]
      BY <1>2, <2>2 DEF NoRequest
    <3>2. QED
      BY <1>1, <1>4, <2>2, <3>1 DEF CopiesAgree, Agrees
  <2>3. QED
    BY <2>1, <2>2 DEF CopiesAgree, Agrees
<1>9. QED
  BY <1>6, <1>7, <1>8

\* After a restart the decisions are those of the table.
LEMMA RestartStep == ASSUME IInv, Restart PROVE IInv'
<1> USE DEF IInv
<1>1. /\ tracked' = saved /\ last' = {} /\ scan' = Idle /\ request' = [c \in Conn |-> NoRequest]
      /\ info' = Nowhere /\ metrics' = {} /\ asking' = 1 /\ answers' = {}
      /\ decided' = saved /\ missed' = {} /\ savedSet' = sets
      /\ UNCHANGED <<present, saved, sets>>
  BY DEF Restart
<1>2. event' \in BOOLEAN
  BY DEF Restart
<1>3. Sending' = {}
  BY <1>1 DEF Sending, NoRequest
<1>4. request' \in [Conn -> Requests']
  <2>1. 0 \in 0..sets'
    BY <1>1 DEF TypeOK
  <2>2. NoRequest \in Requests'
    BY <2>1, MapEmpty DEF NoRequest, Requests
  <2>3. QED
    BY <1>1, <2>2
<1>5. TypeOK'
  <2>1. Idle \in Scans
    BY DEF Idle, Scans
  <2>2. QED
    BY <1>1, <1>2, <1>4, <2>1, MapEmpty DEF TypeOK
<1>6. SentCounted'
  BY <1>1, <1>3, FS_EmptySet DEF SentCounted, TypeOK
<1>7. ManualWins' /\ ListedDecisions' /\ CopiesAgree'
  BY <1>1, <1>3 DEF ManualWins, ListedDecisions, CopiesAgree, Agrees, Idle, NoRequest
<1>8. QED
  BY <1>5, <1>6, <1>7

-----------------------------------------------------------------------------
(* The theorems *)

\* Every step keeps the invariant.
LEMMA InvStep == IInv /\ [Next]_vars => IInv'
<1> SUFFICES ASSUME IInv, [Next]_vars PROVE IInv'
  OBVIOUS
<1>1. CASE \E c \in Conn : Serve(c)
  BY <1>1, SetStep, CopyStep, SaveStep DEF Serve
<1>2. CASE UNCHANGED vars
  BY <1>2 DEF vars, docker, agent, client, hist, IInv, TypeOK, ManualWins, ListedDecisions,
              SentCounted, CopiesAgree, Agrees, Sending, Requests
<1>3. QED
  BY <1>1, <1>2, QuietStep, CycleStep, ToggleStep, RestartStep DEF Next, Collect, Refresh

\* The inductive invariant holds, for any number of clients, containers and
\* restarts.
THEOREM TrackingInvariant == Spec => []IInv
BY InvInit, InvStep, PTL DEF Spec

\* Types, and that no collect cycle and no older request overrides what a user
\* decided last (docker.go): DecisionsHold holds of every state.
THEOREM DecisionsAreKept == Spec => []DecisionsHold
<1>1. IInv => DecisionsHold
  BY DEF IInv, DecisionsHold
<1>2. QED
  BY <1>1, TrackingInvariant, PTL

\* A table saved from a copy taken after the last toggle has every decision, so
\* a restart brings them back (setTracking, SaveTracking, LoadTracking).
THEOREM SavedDecisionsAreComplete == Spec => []DecisionsSaved
<1>1. IInv => DecisionsSaved
  BY DEF IInv, CopiesAgree, DecisionsSaved
<1>2. QED
  BY <1>1, TrackingInvariant, PTL
=============================================================================
