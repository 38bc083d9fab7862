---------------------------- MODULE ClientProofs ----------------------------
(***************************************************************************)
(* Proofs about Client, for any number of requests and any room on the     *)
(* connection: a request returns its own answer and no other's, frames     *)
(* stay whole, and a lost connection is told as what it was.               *)
(***************************************************************************)
EXTENDS Client, SequenceTheorems, TLAPS

-----------------------------------------------------------------------------
(* Sequences *)

LEMMA Appended ==
    ASSUME NEW S, NEW q \in Seq(S), NEW x \in S
    PROVE  /\ Append(q, x) \in Seq(S) /\ Append(q, x) # <<>>
           /\ Len(q) \in Nat /\ Len(Append(q, x)) = Len(q) + 1
           /\ \A i \in 1..Len(q) : Append(q, x)[i] = q[i]
           /\ Append(q, x)[Len(q) + 1] = x
  OBVIOUS

LEMMA Tailed ==
    ASSUME NEW S, NEW q \in Seq(S), q # <<>>
    PROVE  /\ Head(q) = q[1] /\ Head(q) \in S /\ Tail(q) \in Seq(S)
           /\ Len(q) \in Nat \ {0} /\ Len(Tail(q)) = Len(q) - 1
           /\ \A i \in 1..Len(q) - 1 : Tail(q)[i] = q[i + 1]
<1>1. Len(q) \in Nat \ {0}
  BY EmptySeq
<1>2. QED
  BY <1>1, HeadTailProperties

\* A frame that was read is gone.
LEMMA Dropped ==
    ASSUME NEW S, NEW q \in Seq(S), Len(q) >= 2
    PROVE  LET t == SubSeq(q, 3, Len(q)) IN
           /\ t \in Seq(S) /\ Len(t) = Len(q) - 2
           /\ \A i \in 1..Len(q) - 2 : t[i] = q[i + 2]
<1> DEFINE t == SubSeq(q, 3, Len(q))
<1>1. Len(q) \in Int /\ \A i \in 3..Len(q) : q[i] \in S
  OBVIOUS
<1>2. /\ t \in Seq(S) /\ Len(t) = IF 3 <= Len(q) THEN Len(q) - 3 + 1 ELSE 0
      /\ \A i \in 1..Len(q) - 3 + 1 : t[i] = q[3 + i - 1]
  BY <1>1, SubSeqProperties
<1> HIDE DEF t
<1>3. Len(t) = Len(q) - 2 /\ Len(q) - 3 + 1 = Len(q) - 2
  <2>1. Len(t) = IF 3 <= Len(q) THEN Len(q) - 3 + 1 ELSE 0
    BY <1>2
  <2>2. Len(q) \in Int
    BY <1>1
  <2>3. QED
    BY <2>1, <2>2
<1>4. ASSUME NEW i \in 1..Len(q) - 2 PROVE t[i] = q[i + 2]
  <2>1. t[i] = q[3 + i - 1]
    BY <1>2, <1>3
  <2>2. 3 + i - 1 = i + 2
    OBVIOUS
  <2>3. QED
    BY <2>1, <2>2
<1>5. QED
  BY <1>2, <1>3, <1>4 DEF t

\* The two writes of a frame keep frames whole when no half is waiting for its
\* other half before the first, and its own header is before the second.
LEMMA PutWhole ==
    ASSUME up \in Seq(Half), FramesWhole, NEW part \in {"header", "body"},
           NEW w \in Req \union {Unsub},
           conn = "up" /\ part = "header" => ~HalfSent,
           conn = "up" /\ part = "body" => HalfSent /\ up[Len(up)][2] = w,
           conn # "up" => up = <<>>,
           CanWrite, Len(up) <= UpBuf, UpBuf \in Nat,
           Put(part, w)
    PROVE  /\ up' \in Seq(Half) /\ Len(up') <= UpBuf
           /\ FramesWhole'
           /\ conn # "up" => up' = <<>>
           /\ conn = "up" => /\ up' # <<>> /\ up'[Len(up')] = <<part, w>>
                             /\ HalfSent' <=> part = "header"
           /\ \A i \in 1..Len(up') :
                 (i \in 1..Len(up) /\ up'[i] = up[i]) \/ up'[i] = <<part, w>>
<1>1. CASE conn # "up"
  BY <1>1 DEF Put, FramesWhole
<1>2. CASE conn = "up"
  <2> DEFINE x == <<part, w>>
  <2>1. x \in Half /\ x[1] = part /\ x[2] = w
    BY DEF Half
  <2>2. up' = Append(up, x)
    BY <1>2 DEF Put
  <2> HIDE DEF x
  <2>3. /\ up' \in Seq(Half) /\ up' # <<>> /\ Len(up) \in Nat /\ Len(up') = Len(up) + 1
        /\ \A i \in 1..Len(up) : up'[i] = up[i]
        /\ up'[Len(up) + 1] = x
    BY <2>1, <2>2, Appended
  <2>4. Len(up') <= UpBuf
    BY <1>2, <2>3 DEF CanWrite
  <2>5. FramesWhole'
    <3> SUFFICES ASSUME NEW i \in 1..Len(up')
                 PROVE /\ up'[i][1] = "body" => i > 1 /\ up'[i - 1] = <<"header", up'[i][2]>>
                       /\ up'[i][1] = "header" /\ i < Len(up') => up'[i + 1] = <<"body", up'[i][2]>>
      BY DEF FramesWhole
    <3>1. CASE i < Len(up)
      BY SMTT(30), <2>3, <3>1 DEF FramesWhole
    <3>2. CASE i = Len(up)
      <4>1. up[i] \in Half
        BY <3>2, <2>3
      <4>2. up'[i] = up[i] /\ up'[i + 1] = x
        BY <2>3, <3>2
      <4>3. up[i][1] = "body" => i > 1 /\ up'[i - 1] = <<"header", up[i][2]>>
        BY <2>3, <3>2 DEF FramesWhole
      <4>4. up[i][1] = "header" => x = <<"body", up[i][2]>>
        BY <1>2, <3>2, <2>3 DEF HalfSent, x
      <4>5. QED
        BY <4>2, <4>3, <4>4
    <3>3. CASE i = Len(up) + 1
      <4>1. up'[i] = x /\ ~(i < Len(up'))
        BY <2>3, <3>3
      <4>2. ASSUME part = "body" PROVE i > 1 /\ up'[i - 1] = <<"header", w>>
        <5>1. HalfSent /\ up[Len(up)][2] = w
          BY <1>2, <4>2
        <5>2. Len(up) \in 1..Len(up) /\ up[Len(up)] \in Half
          BY <5>1, <2>3, EmptySeq DEF HalfSent
        <5>3. up[Len(up)] = <<"header", w>>
          BY <5>1, <5>2 DEF HalfSent, Half
        <5>4. QED
          BY <5>2, <5>3, <2>3, <3>3
      <4>3. QED
        BY <4>1, <4>2, <2>1
    <3>4. QED
      BY <3>1, <3>2, <3>3, <2>3
  <2>6. up'[Len(up')] = x /\ (HalfSent' <=> part = "header")
    BY <2>1, <2>3 DEF HalfSent
  <2>7. \A i \in 1..Len(up') : (i \in 1..Len(up) /\ up'[i] = up[i]) \/ up'[i] = x
    BY <2>3
  <2>8. QED
    BY <1>2, <2>3, <2>4, <2>5, <2>6, <2>7 DEF x
<1>3. QED
  BY <1>1, <1>2

\* Reading a whole frame leaves whole frames, and the half that waits.
LEMMA ReadWhole ==
    ASSUME up \in Seq(Half), FramesWhole, Len(up) >= 2, up' = SubSeq(up, 3, Len(up))
    PROVE  /\ up' \in Seq(Half) /\ Len(up') = Len(up) - 2
           /\ \A i \in 1..Len(up') : i + 2 \in 1..Len(up) /\ up'[i] = up[i + 2]
           /\ FramesWhole'
           /\ HalfSent' <=> HalfSent
           /\ up' # <<>> => up'[Len(up')] = up[Len(up)]
<1>1. /\ up' \in Seq(Half) /\ Len(up) \in Nat /\ Len(up') = Len(up) - 2
      /\ \A i \in 1..Len(up') : i + 2 \in 1..Len(up) /\ up'[i] = up[i + 2]
  BY Dropped
<1>2. \A i \in 1..Len(up) : up[i] \in Half
  BY <1>1
<1>3. up[1][1] = "header"
  <2>1. up[1] \in Half /\ 1 \in 1..Len(up)
    BY <1>1, <1>2
  <2>2. up[1][1] # "body"
    BY <2>1 DEF FramesWhole
  <2>3. QED
    BY <2>1, <2>2 DEF Half
<1>4. up[2][1] = "body"
  <2>1. 1 \in 1..Len(up) /\ 1 < Len(up) /\ 1 + 1 = 2
    BY <1>1
  <2>2. up[2] = <<"body", up[1][2]>>
    BY <1>3, <2>1 DEF FramesWhole
  <2>3. QED
    BY <2>2
<1>5. Len(up) >= 3 => up[3][1] # "body"
  <2>1. Len(up) >= 3 /\ up[3][1] = "body" => up[2] = <<"header", up[3][2]>>
    <3>1. Len(up) >= 3 => 3 \in 1..Len(up) /\ 3 - 1 = 2
      BY <1>1
    <3>2. QED
      BY <3>1 DEF FramesWhole
  <2>2. QED
    BY <1>4, <2>1
<1>6. FramesWhole'
  <2> SUFFICES ASSUME NEW i \in 1..Len(up')
               PROVE /\ up'[i][1] = "body" => i > 1 /\ up'[i - 1] = <<"header", up'[i][2]>>
                     /\ up'[i][1] = "header" /\ i < Len(up') => up'[i + 1] = <<"body", up'[i][2]>>
    BY DEF FramesWhole
  <2>1. i + 2 \in 1..Len(up) /\ up'[i] = up[i + 2]
    BY <1>1
  <2>2. up[i + 2][1] = "body" => up[i + 1] = <<"header", up[i + 2][2]>>
    <3>1. i + 2 - 1 = i + 1
      BY <1>1
    <3>2. QED
      BY <2>1, <3>1 DEF FramesWhole
  <2>3. up[i + 2][1] = "header" /\ i + 2 < Len(up) => up[i + 3] = <<"body", up[i + 2][2]>>
    <3>1. i + 2 + 1 = i + 3
      BY <1>1
    <3>2. QED
      BY <2>1, <3>1 DEF FramesWhole
  <2>4. CASE i = 1
    <3>1. up[i + 2][1] # "body"
      BY <2>1, <2>4, <1>5, <1>1
    <3>2. i < Len(up') => up'[i + 1] = up[i + 3] /\ i + 2 < Len(up)
      BY <1>1, <2>1
    <3>3. QED
      BY <2>1, <2>3, <3>1, <3>2
  <2>5. CASE i > 1
    <3>1. up'[i - 1] = up[i + 1]
      BY <1>1, <2>5
    <3>2. i < Len(up') => up'[i + 1] = up[i + 3] /\ i + 2 < Len(up)
      BY <1>1, <2>1
    <3>3. QED
      BY <2>1, <2>2, <2>3, <2>5, <3>1, <3>2
  <2>6. QED
    BY <2>4, <2>5, <1>1
<1>7. CASE Len(up) = 2
  <2>1. up' = <<>> /\ up # <<>> /\ up[Len(up)][1] = "body"
    BY <1>1, <1>4, <1>7, EmptySeq
  <2>2. QED
    BY <1>1, <1>6, <2>1 DEF HalfSent
<1>8. CASE Len(up) > 2
  <2>1. Len(up') > 0 /\ Len(up') \in 1..Len(up') /\ Len(up') + 2 = Len(up)
    BY <1>1, <1>8
  <2>2. up' # <<>> /\ up # <<>>
    <3>1. up' = <<>> => Len(up') = 0
      OBVIOUS
    <3>2. up = <<>> => Len(up) = 0
      OBVIOUS
    <3>3. Len(up') # 0 /\ Len(up) # 0
      BY <2>1, <1>8
    <3>4. QED
      BY <3>1, <3>2, <3>3
  <2>3. up'[Len(up')] = up[Len(up)]
    BY <1>1, <2>1
  <2>4. QED
    BY <1>1, <1>6, <2>2, <2>3 DEF HalfSent
<1>9. QED
  BY <1>1, <1>7, <1>8

-----------------------------------------------------------------------------
(* The first state and the steps *)

\* Before anything was asked.
LEMMA InvInit == Init => IInv
<1> SUFFICES ASSUME Init PROVE IInv
  OBVIOUS
<1>1. Nothing \in Message
  BY DEF Message, Kinds, Nothing, Reply
<1>2. up \in Seq(Half) /\ down \in Seq(Message) /\ agent \in Seq(Req) /\ Len(up) = 0 /\ Len(down) = 0
  BY EmptySeq DEF Init
<1>3. pending \in [DOMAIN pending -> Req] /\ DOMAIN pending = {}
  BY DEF Init
<1>4. TypeOK
  <2>1. read \in [at : {"reading", "delivering", "sending"} \union Over,
                  msg : Message, to : Req \union {Nobody}]
    BY <1>1 DEF Init
  <2>2. outcome \in [Req -> Message] /\ ch \in [Req -> Message]
    BY <1>1 DEF Init
  <2>3. done \in BOOLEAN /\ closed \in BOOLEAN /\ lost \in BOOLEAN
    BY DEF Init
  <2>4. QED
    BY <1>2, <1>3, <2>1, <2>2, <2>3, ClientAssumption DEF Init, TypeOK
<1>5. OwnAnswer /\ PendingExact /\ FramesWhole /\ ErrorIsReal
  BY DEF Init, OwnAnswer, PendingExact, FramesWhole, ErrorIsReal
<1>6. AnswersNamed
  BY DEF Init, AnswersNamed, Nothing
<1>7. WriterHoldsLock
  BY ClientAssumption DEF Init, WriterHoldsLock, HalfSent, Unsub, Nobody
<1>8. EndHasCause
  BY DEF Init, EndHasCause, Over
<1>9. QED
  BY <1>4, <1>5, <1>6, <1>7, <1>8 DEF IInv, ConnectionExact

\* Request: registering, writing the frame, and the select.
LEMMA RequestStep ==
    ASSUME IInv, NEW r \in Req,
           Register(r) \/ RequestLock(r) \/ WriteHeader(r) \/ WriteBody(r)
           \/ GetAnswer(r) \/ Timeout(r) \/ GetDone(r)
    PROVE  IInv'
<1> USE ClientAssumption DEF IInv, ConnectionExact
<1>1. CASE Register(r)
  <2>1. at[r] = "new" /\ id[r] = 0 /\ FreshID \in Nat /\ FreshID > nextID
    BY SMTT(30), <1>1 DEF Register, FreshID, TypeOK, AnswersNamed
  <2>2. /\ nextID' = FreshID /\ id' = [id EXCEPT ![r] = FreshID]
        /\ pending' = [i \in DOMAIN pending \union {FreshID} |-> IF i = FreshID THEN r ELSE pending[i]]
        /\ at' = [at EXCEPT ![r] = "registered"]
        /\ UNCHANGED <<outcome, ch, wireVars, peerVars, loopVars, connVars, uiVars>>
    BY <1>1 DEF Register, FreshID
  <2> HIDE DEF FreshID
  <2>3. TypeOK'
    <3>1. pending' \in [DOMAIN pending' -> Req] /\ DOMAIN pending' \subseteq 1..nextID'
      BY SMTT(30), <2>1, <2>2 DEF TypeOK
    <3>2. id' \in [Req -> 0..nextID'] /\ nextID' \in Nat
      BY <2>1, <2>2 DEF TypeOK
    <3>3. at' \in [Req -> {"new", "registered", "header", "body", "waiting", "returned"}]
      BY <2>2 DEF TypeOK
    <3>4. QED
      BY SMTT(30), <2>2, <3>1, <3>2, <3>3
         DEF TypeOK, reqVars, wireVars, peerVars, loopVars, connVars, uiVars
  <2>4. OwnAnswer'
    BY <2>2 DEF OwnAnswer, TypeOK
  <2>5. PendingExact'
    BY SMTT(30), <2>1, <2>2 DEF PendingExact, TypeOK, AnswersNamed, loopVars
  <2>6. AnswersNamed'
    <3>1. \A q \in Req : /\ id'[q] = IF q = r THEN FreshID ELSE id[q]
                         /\ at'[q] = "new" <=> id'[q] = 0
      BY <2>1, <2>2 DEF TypeOK, AnswersNamed
    <3>2. \A i \in DOMAIN pending' : id'[pending'[i]] = i
      <4>1. \A i \in DOMAIN pending : pending[i] \in Req /\ pending[i] # r /\ i # FreshID
        BY <2>1 DEF TypeOK, AnswersNamed
      <4>2. QED
        BY <2>1, <2>2, <3>1, <4>1 DEF AnswersNamed
    <3>3. \A i \in 1..Len(up) : up[i][2] \in Req => id'[up[i][2]] # 0
      BY <2>1, <3>1 DEF AnswersNamed
    <3>4. \A i \in 1..Len(agent) : id'[agent[i]] # 0
      BY SMTT(30), <2>1, <3>1 DEF AnswersNamed, TypeOK
    <3>5. \A i \in 1..Len(down) : down[i].id # 0 => down[i].of \in Req /\ down[i].id = id'[down[i].of]
      BY <2>1, <3>1 DEF AnswersNamed
    <3>6. QED
      BY ZenonT(60), <2>2, <3>1, <3>2, <3>3, <3>4, <3>5
         DEF AnswersNamed, reqVars, wireVars, peerVars, loopVars, connVars, uiVars
  <2>7. WriterHoldsLock'
    BY <2>1, <2>2
       DEF WriterHoldsLock, HalfSent, TypeOK, reqVars, wireVars, peerVars,
           loopVars, connVars, uiVars
  <2>8. FramesWhole' /\ ErrorIsReal' /\ EndHasCause'
    BY <2>2
       DEF FramesWhole, ErrorIsReal, EndHasCause, reqVars, wireVars, peerVars,
           loopVars, connVars, uiVars
  <2>9. QED
    BY <2>3, <2>4, <2>5, <2>6, <2>7, <2>8
<1>2. CASE RequestLock(r)
  <2>1. TypeOK'
    BY SMTT(30), <1>2
       DEF RequestLock, Lock, Free, TypeOK, reqVars, wireVars, peerVars, loopVars,
           connVars, uiVars
  <2>2. OwnAnswer'
    BY <1>2
       DEF RequestLock, Lock, Free, OwnAnswer, TypeOK, AnswersNamed, reqVars,
           wireVars, peerVars, loopVars, connVars, uiVars
  <2>3. PendingExact'
    BY SMTT(30), <1>2
       DEF RequestLock, Lock, Free, PendingExact, TypeOK, AnswersNamed,
           EndHasCause, reqVars, wireVars, peerVars, loopVars, connVars, uiVars
  <2>4. AnswersNamed'
    BY <1>2
       DEF RequestLock, Lock, Free, AnswersNamed, PendingExact, TypeOK, Nobody,
           Unsub, reqVars, wireVars, peerVars, loopVars, connVars, uiVars
  <2>5. WriterHoldsLock'
    <3>1. mu = Nobody /\ mu' = r /\ at' = [at EXCEPT ![r] = "header"] /\ UNCHANGED <<up, ui, conn>>
      BY <1>2 DEF RequestLock, Lock, Free, connVars, uiVars
    <3>2. r # Nobody /\ r # Unsub /\ Unsub # Nobody /\ \A q \in Req : q # Nobody
      BY ClientAssumption DEF Nobody, Unsub
    <3>3. ~HalfSent
      BY <3>1, <3>2 DEF WriterHoldsLock, HalfSent, TypeOK, Half
    <3>4. QED
      BY <3>1, <3>2, <3>3 DEF WriterHoldsLock, HalfSent, TypeOK
  <2>6. FramesWhole' /\ ErrorIsReal' /\ EndHasCause'
    BY <1>2
       DEF RequestLock, FramesWhole, ErrorIsReal, EndHasCause, reqVars, wireVars,
           peerVars, loopVars, connVars, uiVars
  <2>7. QED
    BY <2>1, <2>2, <2>3, <2>4, <2>5, <2>6
<1>3. CASE WriteHeader(r)
  <2>1. /\ at[r] = "header" /\ mu = r /\ ~HalfSent /\ id[r] # 0 /\ r \in Req \union {Unsub}
        /\ at' = [at EXCEPT ![r] = "body"] /\ Put("header", r) /\ CanWrite
    BY <1>3 DEF WriteHeader, WriterHoldsLock, AnswersNamed
  <2>2. /\ up' \in Seq(Half) /\ Len(up') <= UpBuf /\ FramesWhole'
        /\ conn # "up" => up' = <<>>
        /\ conn = "up" => /\ up' # <<>> /\ up'[Len(up')] = <<"header", r>>
                          /\ HalfSent'
        /\ \A i \in 1..Len(up') :
             (i \in 1..Len(up) /\ up'[i] = up[i]) \/ up'[i] = <<"header", r>>
    BY <2>1, PutWhole DEF TypeOK, WriterHoldsLock
  <2>3. UNCHANGED <<id, outcome, ch, pending, nextID, mu, down, peerVars, loopVars, connVars, uiVars>>
    BY <1>3 DEF WriteHeader
  <2>4. TypeOK'
    BY SMTT(30), <2>1, <2>2, <2>3
       DEF TypeOK, reqVars, wireVars, peerVars, loopVars, connVars, uiVars
  <2>5. OwnAnswer' /\ PendingExact' /\ ErrorIsReal' /\ EndHasCause'
    BY <2>1, <2>3
       DEF OwnAnswer, PendingExact, ErrorIsReal, EndHasCause, TypeOK, reqVars,
           wireVars, peerVars, loopVars, connVars, uiVars
  <2>6. AnswersNamed'
    <3>1. \A i \in 1..Len(up') : up'[i][2] \in Req => id[up'[i][2]] # 0
      BY <2>1, <2>2 DEF AnswersNamed
    <3>2. QED
      BY <2>1, <2>3, <3>1
         DEF AnswersNamed, TypeOK, reqVars, wireVars, peerVars, loopVars,
             connVars, uiVars
  <2>7. WriterHoldsLock'
    <3>1. \A q \in Req : q # r => at'[q] \notin {"header", "body"}
      BY <2>1 DEF WriterHoldsLock, TypeOK
    <3>2. ui \notin {"write", "body"}
      BY <2>1, ClientAssumption DEF WriterHoldsLock, Unsub
    <3>3. up' # <<>> => up'[Len(up')] = <<"header", r>>
      BY <2>2
    <3>4. QED
      BY <2>1, <2>2, <2>3, <3>1, <3>2, <3>3
         DEF WriterHoldsLock, TypeOK, reqVars, wireVars, peerVars, loopVars,
             connVars, uiVars
  <2>8. QED
    BY <2>2, <2>4, <2>5, <2>6, <2>7
<1>4. CASE WriteBody(r)
  <2>1. /\ at[r] = "body" /\ mu = r /\ id[r] # 0 /\ r \in Req \union {Unsub} /\ r # Unsub /\ r # Nobody
        /\ conn = "up" => HalfSent /\ up[Len(up)][2] = r
    BY <1>4, ClientAssumption
       DEF WriteBody, WriterHoldsLock, AnswersNamed, HalfSent, Unsub, Nobody
  <2>2. /\ Put("body", r) /\ CanWrite /\ mu' = Nobody
        /\ UNCHANGED <<id, ch, nextID, down, peerVars, loopVars, connVars, uiVars>>
    BY <1>4 DEF WriteBody
  <2>3. /\ up' \in Seq(Half) /\ Len(up') <= UpBuf /\ FramesWhole'
        /\ conn # "up" => up' = <<>>
        /\ conn = "up" => /\ up' # <<>> /\ up'[Len(up')] = <<"body", r>>
                          /\ ~HalfSent'
        /\ \A i \in 1..Len(up') :
             (i \in 1..Len(up) /\ up'[i] = up[i]) \/ up'[i] = <<"body", r>>
    BY <2>1, <2>2, PutWhole DEF TypeOK, WriterHoldsLock
  <2>4. /\ at' \in [Req -> {"new", "registered", "header", "body", "waiting", "returned"}]
        /\ outcome' \in [Req -> Message] /\ OwnAnswer'
        /\ pending' \in [DOMAIN pending' -> Req] /\ DOMAIN pending' \subseteq DOMAIN pending
        /\ \A i \in DOMAIN pending' : pending'[i] = pending[i]
        /\ at'[r] \in {"waiting", "returned"} /\ \A q \in Req : q # r => at'[q] = at[q]
        /\ at'[r] = "returned" => id[r] \notin DOMAIN pending'
        /\ \A i \in DOMAIN pending : i # id[r] \/ at'[r] = "waiting" => i \in DOMAIN pending'
    <3>1. CASE conn = "up"
      <4>1. at' = [at EXCEPT ![r] = "waiting"] /\ outcome' = outcome /\ pending' = pending
        BY <1>4, <3>1 DEF WriteBody
      <4>2. at'[r] = "waiting" /\ \A q \in Req : q # r => at'[q] = at[q]
        BY <4>1 DEF TypeOK
      <4>3. OwnAnswer'
        BY <4>1, <4>2 DEF OwnAnswer
      <4>4. QED
        BY <4>1, <4>2, <4>3 DEF TypeOK
    <3>2. CASE conn # "up"
      <4>1. Reply(r, id[r], "failed") \in Message /\ Reply(r, id[r], "failed").of = r
        BY DEF Reply, Message, Kinds, TypeOK
      <4>2. Return(r, Reply(r, id[r], "failed"))
        BY <1>4, <3>2 DEF WriteBody
      <4>3. QED
        BY <4>1, <4>2 DEF Return, Forget, TypeOK, OwnAnswer
    <3>3. QED
      BY <3>1, <3>2
  <2>5. TypeOK'
    BY SMTT(30), <2>2, <2>3, <2>4
       DEF TypeOK, reqVars, wireVars, peerVars, loopVars, connVars, uiVars
  <2>6. PendingExact'
    BY <2>1, <2>2, <2>4 DEF PendingExact, TypeOK, loopVars
  <2>7. AnswersNamed'
    <3>1. \A i \in 1..Len(up') : up'[i][2] \in Req => id[up'[i][2]] # 0
      BY <2>1, <2>3 DEF AnswersNamed
    <3>2. \A q \in Req : at'[q] = "new" <=> id[q] = 0
      BY <2>1, <2>4 DEF AnswersNamed
    <3>3. QED
      BY <2>2, <2>4, <3>1, <3>2
         DEF AnswersNamed, reqVars, wireVars, peerVars, loopVars, connVars, uiVars
  <2>8. WriterHoldsLock'
    <3>1. \A q \in Req : at'[q] \notin {"header", "body"}
      BY <2>1, <2>4 DEF WriterHoldsLock
    <3>2. ui \notin {"write", "body"} /\ Unsub # Nobody /\ Nobody \notin Req
      BY <2>1, ClientAssumption DEF WriterHoldsLock, Unsub, Nobody
    <3>3. up' # <<>> => up'[Len(up')][1] # "header"
      BY <2>3
    <3>4. QED
      BY <2>2, <2>3, <3>1, <3>2, <3>3
         DEF WriterHoldsLock, reqVars, wireVars, peerVars, loopVars, connVars,
             uiVars
  <2>9. ErrorIsReal' /\ EndHasCause'
    BY <2>2
       DEF ErrorIsReal, EndHasCause, reqVars, wireVars, peerVars, loopVars,
           connVars, uiVars
  <2>10. QED
    BY <2>3, <2>4, <2>5, <2>6, <2>7, <2>8, <2>9
<1>5. CASE GetAnswer(r)
  <2>1. TypeOK'
    BY SMTT(30), <1>5
       DEF GetAnswer, Settle, Return, Forget, Received, Reply, Nothing, TypeOK,
           Message, Kinds, reqVars, wireVars, peerVars, loopVars, connVars, uiVars
  <2>2. OwnAnswer'
    BY <1>5
       DEF GetAnswer, Settle, Return, Forget, Received, Reply, Nothing, OwnAnswer,
           TypeOK, AnswersNamed, reqVars, wireVars, peerVars, loopVars, connVars,
           uiVars
  <2>3. PendingExact'
    BY <1>5
       DEF GetAnswer, Settle, Return, Forget, Received, Reply, Nothing,
           PendingExact, TypeOK, AnswersNamed, EndHasCause, reqVars, wireVars,
           peerVars, loopVars, connVars, uiVars
  <2>4. AnswersNamed'
    BY <1>5
       DEF GetAnswer, Settle, Return, Forget, Received, Reply, Nothing,
           AnswersNamed, PendingExact, TypeOK, Nobody, Unsub, reqVars, wireVars,
           peerVars, loopVars, connVars, uiVars
  <2>5. WriterHoldsLock'
    BY <1>5
       DEF GetAnswer, Settle, Return, Forget, Received, Reply, Nothing,
           WriterHoldsLock, FramesWhole, HalfSent, TypeOK, Nobody, Unsub, reqVars,
           wireVars, peerVars, loopVars, connVars, uiVars
  <2>6. FramesWhole' /\ ErrorIsReal' /\ EndHasCause'
    BY <1>5
       DEF GetAnswer, FramesWhole, ErrorIsReal, EndHasCause, Settle, reqVars,
           wireVars, peerVars, loopVars, connVars, uiVars
  <2>7. QED
    BY <2>1, <2>2, <2>3, <2>4, <2>5, <2>6
<1>6. CASE Timeout(r)
  <2>1. TypeOK'
    BY <1>6
       DEF Timeout, Settle, Return, Forget, Reply, TypeOK, Message, Kinds,
           reqVars, wireVars, peerVars, loopVars, connVars, uiVars
  <2>2. OwnAnswer'
    BY <1>6
       DEF Timeout, Settle, Return, Forget, Reply, OwnAnswer, TypeOK,
           AnswersNamed, reqVars, wireVars, peerVars, loopVars, connVars, uiVars
  <2>3. PendingExact'
    BY <1>6
       DEF Timeout, Settle, Return, Forget, Reply, PendingExact, TypeOK,
           AnswersNamed, EndHasCause, reqVars, wireVars, peerVars, loopVars,
           connVars, uiVars
  <2>4. AnswersNamed'
    BY <1>6
       DEF Timeout, Settle, Return, Forget, Reply, AnswersNamed, PendingExact,
           TypeOK, Nobody, Unsub, reqVars, wireVars, peerVars, loopVars, connVars,
           uiVars
  <2>5. WriterHoldsLock'
    BY <1>6
       DEF Timeout, Settle, Return, Forget, Reply, WriterHoldsLock, FramesWhole,
           HalfSent, TypeOK, Nobody, Unsub, reqVars, wireVars, peerVars, loopVars,
           connVars, uiVars
  <2>6. FramesWhole' /\ ErrorIsReal' /\ EndHasCause'
    BY <1>6
       DEF Timeout, FramesWhole, ErrorIsReal, EndHasCause, Settle, reqVars,
           wireVars, peerVars, loopVars, connVars, uiVars
  <2>7. QED
    BY <2>1, <2>2, <2>3, <2>4, <2>5, <2>6
<1>7. CASE GetDone(r)
  <2>1. TypeOK'
    BY <1>7
       DEF GetDone, Settle, Return, Forget, Reply, TypeOK, Message, Kinds,
           reqVars, wireVars, peerVars, loopVars, connVars, uiVars
  <2>2. OwnAnswer'
    BY <1>7
       DEF GetDone, Settle, Return, Forget, Reply, OwnAnswer, TypeOK,
           AnswersNamed, reqVars, wireVars, peerVars, loopVars, connVars, uiVars
  <2>3. PendingExact'
    BY <1>7
       DEF GetDone, Settle, Return, Forget, Reply, PendingExact, TypeOK,
           AnswersNamed, EndHasCause, reqVars, wireVars, peerVars, loopVars,
           connVars, uiVars
  <2>4. AnswersNamed'
    BY <1>7
       DEF GetDone, Settle, Return, Forget, Reply, AnswersNamed, PendingExact,
           TypeOK, Nobody, Unsub, reqVars, wireVars, peerVars, loopVars, connVars,
           uiVars
  <2>5. WriterHoldsLock'
    BY <1>7
       DEF GetDone, Settle, Return, Forget, Reply, WriterHoldsLock, FramesWhole,
           HalfSent, TypeOK, Nobody, Unsub, reqVars, wireVars, peerVars, loopVars,
           connVars, uiVars
  <2>6. FramesWhole' /\ ErrorIsReal' /\ EndHasCause'
    BY <1>7
       DEF GetDone, FramesWhole, ErrorIsReal, EndHasCause, Settle, reqVars,
           wireVars, peerVars, loopVars, connVars, uiVars
  <2>7. QED
    BY <2>1, <2>2, <2>3, <2>4, <2>5, <2>6
<1>8. QED
  BY <1>1, <1>2, <1>3, <1>4, <1>5, <1>6, <1>7

\* readLoop.
LEMMA ReadLoopStep ==
    ASSUME IInv,
           ReadMsg \/ DeliverAnswer \/ SendStream \/ ReadFails
           \/ ReleasePending \/ CheckClosed \/ SendConnErr
    PROVE  IInv'
<1> USE ClientAssumption DEF IInv, ConnectionExact
<1>1. CASE ReadMsg
  <2> DEFINE msg == Head(down)
  <2>1. /\ down # <<>> /\ down' = Tail(down) /\ read.at = "reading"
        /\ UNCHANGED <<done, mu, up, reqVars, peerVars, connVars, uiVars>>
    BY <1>1 DEF ReadMsg
  <2>2. /\ msg = down[1] /\ msg \in Message /\ down' \in Seq(Message)
        /\ Len(down) \in Nat \ {0} /\ Len(down') = Len(down) - 1
        /\ \A i \in 1..Len(down') : down'[i] = down[i + 1] /\ i + 1 \in 1..Len(down)
    BY SMTT(30), <2>1, Tailed DEF TypeOK
  <2>3. /\ msg.id \in Nat /\ msg.id # 0 => msg.of \in Req /\ msg.id = id[msg.of]
    BY <2>2 DEF Message, AnswersNamed
  <2>4. \/ read' = [at |-> "sending", msg |-> msg, to |-> Nobody]
        \/ /\ msg.id # 0 /\ msg.id \in DOMAIN pending
           /\ read' = [at |-> "delivering", msg |-> msg, to |-> pending[msg.id]]
        \/ read' = read
    BY <1>1 DEF ReadMsg
  <2> HIDE DEF msg
  <2>5. msg.id \in DOMAIN pending /\ msg.id # 0 => pending[msg.id] \in Req /\ pending[msg.id] = msg.of
    BY <2>3 DEF TypeOK, AnswersNamed, PendingExact
  <2>6. TypeOK'
    <3>1. read' \in [at : {"reading", "delivering", "sending"} \union Over,
                     msg : Message, to : Req \union {Nobody}]
      BY SMTT(30), <2>2, <2>4, <2>5 DEF TypeOK
    <3>2. Len(down') <= DownBuf
      BY <2>2, ClientAssumption DEF TypeOK
    <3>3. QED
      BY <2>1, <2>2, <3>1, <3>2
         DEF TypeOK, reqVars, wireVars, peerVars, loopVars, connVars, uiVars
  <2>7. AnswersNamed'
    <3>1. \A i \in 1..Len(down') : down'[i].id # 0 => down'[i].of \in Req /\ down'[i].id = id[down'[i].of]
      BY SMTT(30), <2>2 DEF AnswersNamed
    <3>2. read'.at = "delivering" => read'.to \in Req /\ read'.msg.of = read'.to
      BY <2>1, <2>4, <2>5
    <3>3. QED
      BY <2>1, <3>1, <3>2
         DEF AnswersNamed, reqVars, wireVars, peerVars, loopVars, connVars, uiVars
  <2>8. read'.at \notin Over /\ ErrorIsReal' /\ EndHasCause'
    BY <2>1, <2>4
       DEF ErrorIsReal, EndHasCause, Over, reqVars, wireVars, peerVars, loopVars,
           connVars, uiVars
  <2>9. OwnAnswer' /\ PendingExact' /\ FramesWhole' /\ WriterHoldsLock'
    BY <2>1
       DEF OwnAnswer, PendingExact, FramesWhole, WriterHoldsLock, HalfSent,
           reqVars, wireVars, peerVars, loopVars, connVars, uiVars
  <2>10. QED
    BY <2>6, <2>7, <2>8, <2>9
<1>2. CASE DeliverAnswer
  <2>1. TypeOK'
    BY <1>2, ZenonT(60)
       DEF DeliverAnswer, Deliver, TypeOK, Over, reqVars, wireVars, peerVars,
           loopVars, connVars, uiVars
  <2>2. AnswersNamed'
    BY <1>2
       DEF DeliverAnswer, Deliver, AnswersNamed, PendingExact, TypeOK, Nobody,
           Unsub, reqVars, wireVars, peerVars, loopVars, connVars, uiVars
  <2>3. ErrorIsReal' /\ EndHasCause'
    BY <1>2
       DEF DeliverAnswer, Deliver, ErrorIsReal, EndHasCause, TypeOK, Over,
           reqVars, wireVars, peerVars, loopVars, connVars, uiVars
  <2>4. OwnAnswer' /\ PendingExact' /\ FramesWhole' /\ WriterHoldsLock'
    BY <1>2
       DEF DeliverAnswer, OwnAnswer, PendingExact, FramesWhole, WriterHoldsLock,
           HalfSent, reqVars, wireVars, peerVars, loopVars, connVars, uiVars
  <2>5. QED
    BY <2>1, <2>2, <2>3, <2>4
<1>3. CASE SendStream
  <2>1. TypeOK'
    BY <1>3
       DEF SendStream, TypeOK, reqVars, wireVars, peerVars, loopVars, connVars,
           uiVars
  <2>2. AnswersNamed'
    BY <1>3
       DEF SendStream, AnswersNamed, PendingExact, TypeOK, Nobody, Unsub, reqVars,
           wireVars, peerVars, loopVars, connVars, uiVars
  <2>3. ErrorIsReal' /\ EndHasCause'
    BY <1>3
       DEF SendStream, ErrorIsReal, EndHasCause, TypeOK, Over, reqVars, wireVars,
           peerVars, loopVars, connVars, uiVars
  <2>4. OwnAnswer' /\ PendingExact' /\ FramesWhole' /\ WriterHoldsLock'
    BY <1>3
       DEF SendStream, OwnAnswer, PendingExact, FramesWhole, WriterHoldsLock,
           HalfSent, reqVars, wireVars, peerVars, loopVars, connVars, uiVars
  <2>5. QED
    BY <2>1, <2>2, <2>3, <2>4
<1>4. CASE ReadFails
  <2>1. TypeOK'
    BY <1>4
       DEF ReadFails, TypeOK, Over, reqVars, wireVars, peerVars, loopVars,
           connVars, uiVars
  <2>2. PendingExact'
    BY <1>4
       DEF ReadFails, PendingExact, TypeOK, AnswersNamed, EndHasCause, reqVars,
           wireVars, peerVars, loopVars, connVars, uiVars
  <2>3. AnswersNamed'
    BY <1>4
       DEF ReadFails, AnswersNamed, PendingExact, TypeOK, Nobody, Unsub, reqVars,
           wireVars, peerVars, loopVars, connVars, uiVars
  <2>4. ErrorIsReal' /\ EndHasCause'
    BY <1>4
       DEF ReadFails, ErrorIsReal, EndHasCause, TypeOK, Over, reqVars, wireVars,
           peerVars, loopVars, connVars, uiVars
  <2>5. OwnAnswer' /\ FramesWhole' /\ WriterHoldsLock'
    BY <1>4
       DEF ReadFails, OwnAnswer, FramesWhole, WriterHoldsLock, HalfSent, reqVars,
           wireVars, peerVars, loopVars, connVars, uiVars
  <2>6. QED
    BY <2>1, <2>2, <2>3, <2>4, <2>5
<1>5. CASE ReleasePending
  <2>1. TypeOK'
    <3>1. ch' \in [Req -> Message]
      BY SMTT(30), <1>5 DEF ReleasePending, Reply, Message, Kinds, TypeOK
    <3>2. pending' \in [DOMAIN pending' -> Req] /\ DOMAIN pending' = {}
      BY <1>5 DEF ReleasePending
    <3>3. read' \in [at : {"reading", "delivering", "sending"} \union Over,
                     msg : Message, to : Req \union {Nobody}]
      BY <1>5 DEF ReleasePending, TypeOK, Over
    <3>4. QED
      BY <1>5, <3>1, <3>2, <3>3
         DEF ReleasePending, TypeOK, reqVars, wireVars, peerVars, loopVars,
             connVars, uiVars
  <2>2. PendingExact'
    BY <1>5
       DEF ReleasePending, Reply, PendingExact, TypeOK, AnswersNamed, EndHasCause,
           reqVars, wireVars, peerVars, loopVars, connVars, uiVars
  <2>3. AnswersNamed'
    BY <1>5
       DEF ReleasePending, Reply, AnswersNamed, PendingExact, TypeOK, Nobody,
           Unsub, reqVars, wireVars, peerVars, loopVars, connVars, uiVars
  <2>4. ErrorIsReal' /\ EndHasCause'
    BY <1>5
       DEF ReleasePending, Reply, ErrorIsReal, EndHasCause, TypeOK, Over, reqVars,
           wireVars, peerVars, loopVars, connVars, uiVars
  <2>5. OwnAnswer' /\ FramesWhole' /\ WriterHoldsLock'
    BY <1>5
       DEF ReleasePending, OwnAnswer, FramesWhole, WriterHoldsLock, HalfSent,
           reqVars, wireVars, peerVars, loopVars, connVars, uiVars
  <2>6. QED
    BY <2>1, <2>2, <2>3, <2>4, <2>5
<1>6. CASE CheckClosed
  <2>1. TypeOK'
    BY ZenonT(60), <1>6
       DEF CheckClosed, TypeOK, Over, reqVars, wireVars, peerVars, loopVars,
           connVars, uiVars
  <2>2. AnswersNamed'
    BY <1>6
       DEF CheckClosed, AnswersNamed, PendingExact, TypeOK, Nobody, Unsub,
           reqVars, wireVars, peerVars, loopVars, connVars, uiVars
  <2>3. ErrorIsReal' /\ EndHasCause'
    BY <1>6
       DEF CheckClosed, ErrorIsReal, EndHasCause, TypeOK, Over, reqVars, wireVars,
           peerVars, loopVars, connVars, uiVars
  <2>4. OwnAnswer' /\ PendingExact' /\ FramesWhole' /\ WriterHoldsLock'
    BY <1>6
       DEF CheckClosed, OwnAnswer, PendingExact, FramesWhole, WriterHoldsLock,
           HalfSent, reqVars, wireVars, peerVars, loopVars, connVars, uiVars
  <2>5. QED
    BY <2>1, <2>2, <2>3, <2>4
<1>7. CASE SendConnErr
  <2>1. TypeOK'
    <3>1. told' \in 0..1
      BY <1>7 DEF SendConnErr, TypeOK, EndHasCause
    <3>2. read' \in [at : {"reading", "delivering", "sending"} \union Over,
                     msg : Message, to : Req \union {Nobody}]
      BY <1>7 DEF SendConnErr, TypeOK, Over
    <3>3. QED
      BY <1>7, <3>1, <3>2
         DEF SendConnErr, TypeOK, reqVars, wireVars, peerVars, loopVars, connVars,
             uiVars
  <2>2. AnswersNamed'
    BY <1>7
       DEF SendConnErr, AnswersNamed, PendingExact, TypeOK, Nobody, Unsub,
           reqVars, wireVars, peerVars, loopVars, connVars, uiVars
  <2>3. ErrorIsReal' /\ EndHasCause'
    BY <1>7
       DEF SendConnErr, ErrorIsReal, EndHasCause, TypeOK, Over, reqVars, wireVars,
           peerVars, loopVars, connVars, uiVars
  <2>4. OwnAnswer' /\ PendingExact' /\ FramesWhole' /\ WriterHoldsLock'
    BY <1>7
       DEF SendConnErr, OwnAnswer, PendingExact, FramesWhole, WriterHoldsLock,
           HalfSent, reqVars, wireVars, peerVars, loopVars, connVars, uiVars
  <2>5. QED
    BY <2>1, <2>2, <2>3, <2>4
<1>8. QED
  BY <1>1, <1>2, <1>3, <1>4, <1>5, <1>6, <1>7

\* The update loop and Close.
LEMMA ProgramStep ==
    ASSUME IInv, LeaveDetail \/ UnsubLock \/ UnsubWrite \/ Quit \/ Close("idle") \/ Close("quit") \/ CloseConn
    PROVE  IInv'
<1> USE ClientAssumption DEF IInv, ConnectionExact
<1>1. CASE LeaveDetail
  <2>1. TypeOK'
    BY SMTT(30), <1>1
       DEF LeaveDetail, TypeOK, reqVars, wireVars, peerVars, loopVars, connVars,
           uiVars
  <2>2. WriterHoldsLock'
    BY <1>1
       DEF LeaveDetail, WriterHoldsLock, FramesWhole, HalfSent, TypeOK, Nobody,
           Unsub, reqVars, wireVars, peerVars, loopVars, connVars, uiVars
  <2>3. OwnAnswer' /\ PendingExact' /\ FramesWhole' /\ AnswersNamed' /\ ErrorIsReal' /\ EndHasCause'
    BY <1>1
       DEF LeaveDetail, OwnAnswer, PendingExact, FramesWhole, AnswersNamed,
           ErrorIsReal, EndHasCause, reqVars, wireVars, peerVars, loopVars,
           connVars, uiVars
  <2>4. QED
    BY <2>1, <2>2, <2>3
<1>2. CASE UnsubLock
  <2>1. TypeOK'
    BY <1>2
       DEF UnsubLock, Lock, Free, TypeOK, reqVars, wireVars, peerVars, loopVars,
           connVars, uiVars
  <2>2. WriterHoldsLock'
    <3>1. mu = Nobody /\ mu' = Unsub /\ ui' = "write" /\ UNCHANGED <<up, at, conn>>
      BY <1>2 DEF UnsubLock, Lock, Free, connVars, reqVars
    <3>2. Unsub # Nobody /\ \A q \in Req : q # Nobody /\ q # Unsub
      BY ClientAssumption DEF Nobody, Unsub
    <3>3. ~HalfSent
      BY <3>1, <3>2 DEF WriterHoldsLock, HalfSent, TypeOK, Half
    <3>4. QED
      BY <3>1, <3>2, <3>3 DEF WriterHoldsLock, HalfSent
  <2>3. OwnAnswer' /\ PendingExact' /\ FramesWhole' /\ AnswersNamed' /\ ErrorIsReal' /\ EndHasCause'
    BY <1>2
       DEF UnsubLock, OwnAnswer, PendingExact, FramesWhole, AnswersNamed,
           ErrorIsReal, EndHasCause, reqVars, wireVars, peerVars, loopVars,
           connVars, uiVars
  <2>4. QED
    BY <2>1, <2>2, <2>3
<1>3. CASE UnsubWrite
  <2> DEFINE part == IF ui = "write" THEN "header" ELSE "body"
  <2>1. /\ ui \in {"write", "body"} /\ mu = Unsub
        /\ part \in {"header", "body"} /\ Unsub \in Req \union {Unsub}
        /\ conn = "up" /\ part = "header" => ~HalfSent
        /\ conn = "up" /\ part = "body" => HalfSent /\ up[Len(up)][2] = Unsub
    BY <1>3 DEF UnsubWrite, WriterHoldsLock, HalfSent
  <2>2. /\ CanWrite /\ Put(part, Unsub)
        /\ \/ part = "header" /\ ui' = "body" /\ mu' = mu
           \/ part = "body" /\ ui' = "idle" /\ mu' = Nobody
        /\ UNCHANGED <<down, unsubs, told, reqVars, peerVars, loopVars, connVars>>
    BY <1>3, <2>1 DEF UnsubWrite
  <2> HIDE DEF part
  <2>3. /\ up' \in Seq(Half) /\ Len(up') <= UpBuf /\ FramesWhole'
        /\ conn # "up" => up' = <<>>
        /\ conn = "up" => /\ up' # <<>> /\ up'[Len(up')] = <<part, Unsub>>
                          /\ HalfSent' <=> part = "header"
        /\ \A i \in 1..Len(up') :
             (i \in 1..Len(up) /\ up'[i] = up[i]) \/ up'[i] = <<part, Unsub>>
    BY <2>1, <2>2, PutWhole, ClientAssumption DEF TypeOK, WriterHoldsLock
  <2>4. TypeOK'
    BY <2>1, <2>2, <2>3
       DEF TypeOK, reqVars, wireVars, peerVars, loopVars, connVars, uiVars
  <2>5. AnswersNamed'
    <3>1. \A i \in 1..Len(up') : up'[i][2] \in Req => id[up'[i][2]] # 0
      BY <2>3, ClientAssumption DEF AnswersNamed, Unsub
    <3>2. QED
      BY <2>2, <3>1
         DEF AnswersNamed, reqVars, wireVars, peerVars, loopVars, connVars, uiVars
  <2>6. WriterHoldsLock'
    <3>1. \A q \in Req : at[q] \notin {"header", "body"} /\ q # Nobody /\ q # Unsub
      BY <2>1, ClientAssumption DEF WriterHoldsLock, Nobody, Unsub
    <3>2. Unsub # Nobody
      BY DEF Unsub, Nobody
    <3>3. up' # <<>> => up'[Len(up')][1] = part /\ up'[Len(up')][2] = Unsub
      BY <2>3
    <3>4. QED
      BY <2>1, <2>2, <2>3, <3>1, <3>2, <3>3
         DEF WriterHoldsLock, reqVars, wireVars, peerVars, loopVars, connVars,
             uiVars
  <2>7. OwnAnswer' /\ PendingExact' /\ ErrorIsReal' /\ EndHasCause'
    BY <2>2
       DEF OwnAnswer, PendingExact, ErrorIsReal, EndHasCause, reqVars, wireVars,
           peerVars, loopVars, connVars, uiVars
  <2>8. QED
    BY <2>3, <2>4, <2>5, <2>6, <2>7
<1>4. CASE Quit
  <2>1. TypeOK'
    BY <1>4
       DEF Quit, TypeOK, reqVars, wireVars, peerVars, loopVars, connVars, uiVars
  <2>2. WriterHoldsLock'
    BY <1>4
       DEF Quit, WriterHoldsLock, FramesWhole, HalfSent, TypeOK, Nobody, Unsub,
           reqVars, wireVars, peerVars, loopVars, connVars, uiVars
  <2>3. OwnAnswer' /\ PendingExact' /\ FramesWhole' /\ AnswersNamed' /\ ErrorIsReal' /\ EndHasCause'
    BY <1>4
       DEF Quit, OwnAnswer, PendingExact, FramesWhole, AnswersNamed, ErrorIsReal,
           EndHasCause, reqVars, wireVars, peerVars, loopVars, connVars, uiVars
  <2>4. QED
    BY <2>1, <2>2, <2>3
<1>5. CASE Close("idle")
  <2>1. TypeOK'
    BY <1>5
       DEF Close, SetClosed, TypeOK, reqVars, wireVars, peerVars, loopVars,
           connVars, uiVars
  <2>2. ErrorIsReal' /\ EndHasCause'
    BY <1>5
       DEF Close, SetClosed, ErrorIsReal, EndHasCause, TypeOK, Over, reqVars,
           wireVars, peerVars, loopVars, connVars, uiVars
  <2>3. OwnAnswer' /\ PendingExact' /\ FramesWhole' /\ AnswersNamed' /\ WriterHoldsLock'
    BY <1>5
       DEF Close, OwnAnswer, PendingExact, FramesWhole, AnswersNamed,
           WriterHoldsLock, HalfSent, SetClosed, reqVars, wireVars, peerVars,
           loopVars, connVars, uiVars
  <2>4. QED
    BY <2>1, <2>2, <2>3
<1>6. CASE Close("quit")
  <2>1. TypeOK'
    BY <1>6
       DEF Close, SetClosed, TypeOK, reqVars, wireVars, peerVars, loopVars,
           connVars, uiVars
  <2>2. ErrorIsReal' /\ EndHasCause'
    BY <1>6
       DEF Close, SetClosed, ErrorIsReal, EndHasCause, TypeOK, Over, reqVars,
           wireVars, peerVars, loopVars, connVars, uiVars
  <2>3. OwnAnswer' /\ PendingExact' /\ FramesWhole' /\ AnswersNamed' /\ WriterHoldsLock'
    BY <1>6
       DEF Close, OwnAnswer, PendingExact, FramesWhole, AnswersNamed,
           WriterHoldsLock, HalfSent, SetClosed, reqVars, wireVars, peerVars,
           loopVars, connVars, uiVars
  <2>4. QED
    BY <2>1, <2>2, <2>3
<1>7. CASE CloseConn
  <2>1. TypeOK'
    BY <1>7
       DEF CloseConn, TypeOK, reqVars, wireVars, peerVars, loopVars, connVars,
           uiVars
  <2>2. FramesWhole'
    BY <1>7
       DEF CloseConn, FramesWhole, TypeOK, WriterHoldsLock, HalfSent, Half,
           reqVars, wireVars, peerVars, loopVars, connVars, uiVars
  <2>3. AnswersNamed'
    BY <1>7
       DEF CloseConn, AnswersNamed, PendingExact, TypeOK, Nobody, Unsub, reqVars,
           wireVars, peerVars, loopVars, connVars, uiVars
  <2>4. WriterHoldsLock'
    BY <1>7
       DEF CloseConn, WriterHoldsLock, FramesWhole, HalfSent, TypeOK, Nobody,
           Unsub, reqVars, wireVars, peerVars, loopVars, connVars, uiVars
  <2>5. ErrorIsReal' /\ EndHasCause'
    BY <1>7
       DEF CloseConn, ErrorIsReal, EndHasCause, TypeOK, Over, reqVars, wireVars,
           peerVars, loopVars, connVars, uiVars
  <2>6. OwnAnswer' /\ PendingExact'
    BY <1>7
       DEF CloseConn, OwnAnswer, PendingExact, reqVars, wireVars, peerVars,
           loopVars, connVars, uiVars
  <2>7. QED
    BY <2>1, <2>2, <2>3, <2>4, <2>5, <2>6
<1>8. QED
  BY <1>1, <1>2, <1>3, <1>4, <1>5, <1>6, <1>7

\* The agent and the network.
LEMMA AgentStep ==
    ASSUME IInv, AgentReads \/ AgentAnswers \/ AgentDrops \/ AgentPushes \/ Lose
    PROVE  IInv'
<1> USE ClientAssumption DEF IInv, ConnectionExact
<1>1. CASE AgentReads
  <2>1. /\ Len(up) >= 2 /\ conn = "up" /\ up' = SubSeq(up, 3, Len(up))
        /\ agent' = IF up[1][2] = Unsub THEN agent ELSE Append(agent, up[1][2])
        /\ UNCHANGED <<mu, down, dropped, pushed, reqVars, loopVars, connVars, uiVars>>
    BY <1>1 DEF AgentReads
  <2>2. /\ up' \in Seq(Half) /\ Len(up') = Len(up) - 2 /\ Len(up) \in Nat
        /\ \A i \in 1..Len(up') : i + 2 \in 1..Len(up) /\ up'[i] = up[i + 2]
        /\ FramesWhole' /\ (HalfSent' <=> HalfSent)
        /\ up' # <<>> => up'[Len(up')] = up[Len(up)]
    BY SMTT(30), <2>1, ReadWhole DEF TypeOK
  <2>3. up[1] \in Half /\ 1 \in 1..Len(up)
    BY <2>1, <2>2 DEF TypeOK
  <2>4. agent' \in Seq(Req) /\ \A i \in 1..Len(agent') : id[agent'[i]] # 0
    <3>1. CASE up[1][2] = Unsub
      BY <2>1, <3>1 DEF TypeOK, AnswersNamed
    <3>2. CASE up[1][2] # Unsub
      <4>1. up[1][2] \in Req /\ agent \in Seq(Req) /\ agent' = Append(agent, up[1][2])
        BY <2>1, <2>3, <3>2 DEF Half, TypeOK
      <4>2. id[up[1][2]] # 0
        BY <2>3, <4>1 DEF AnswersNamed
      <4>3. /\ agent' \in Seq(Req) /\ Len(agent) \in Nat /\ Len(agent') = Len(agent) + 1
            /\ \A i \in 1..Len(agent) : agent'[i] = agent[i]
            /\ agent'[Len(agent) + 1] = up[1][2]
        BY <4>1, Appended
      <4>4. \A i \in 1..Len(agent') : i \in 1..Len(agent) \/ i = Len(agent) + 1
        BY <4>3
      <4>5. QED
        BY <4>2, <4>3, <4>4 DEF AnswersNamed
    <3>3. QED
      BY <3>1, <3>2
  <2>5. TypeOK'
    <3>1. Len(up') <= UpBuf
      BY <2>2, ClientAssumption DEF TypeOK
    <3>2. QED
      BY ZenonT(60), <2>1, <2>2, <2>4, <3>1
         DEF TypeOK, reqVars, wireVars, peerVars, loopVars, connVars, uiVars
  <2>6. AnswersNamed'
    <3>1. \A i \in 1..Len(up') : up'[i][2] \in Req => id[up'[i][2]] # 0
      BY SMTT(30), <2>2 DEF AnswersNamed
    <3>2. QED
      BY <2>1, <2>4, <3>1
         DEF AnswersNamed, reqVars, wireVars, peerVars, loopVars, connVars, uiVars
  <2>7. WriterHoldsLock'
    <3>1. up' # <<>> => up # <<>>
      BY <2>1
    <3>2. QED
      BY <2>1, <2>2, <3>1
         DEF WriterHoldsLock, reqVars, wireVars, peerVars, loopVars, connVars,
             uiVars
  <2>8. OwnAnswer' /\ PendingExact' /\ ErrorIsReal' /\ EndHasCause'
    BY <2>1
       DEF OwnAnswer, PendingExact, ErrorIsReal, EndHasCause, reqVars, wireVars,
           peerVars, loopVars, connVars, uiVars
  <2>9. QED
    BY <2>2, <2>5, <2>6, <2>7, <2>8
<1>2. CASE AgentAnswers
  <2> DEFINE msg == Reply(Head(agent), id[Head(agent)], "answer")
  <2>1. /\ agent # <<>> /\ Len(down) < DownBuf /\ down' = Append(down, msg) /\ agent' = Tail(agent)
        /\ UNCHANGED <<mu, up, dropped, pushed, reqVars, loopVars, connVars, uiVars>>
    BY <1>2 DEF AgentAnswers
  <2>2. /\ Head(agent) \in Req /\ agent' \in Seq(Req)
        /\ \A i \in 1..Len(agent') : agent'[i] = agent[i + 1] /\ i + 1 \in 1..Len(agent)
    <3>1. agent \in Seq(Req)
      BY DEF TypeOK
    <3>2. /\ Head(agent) \in Req /\ agent' \in Seq(Req)
          /\ Len(agent) \in Nat \ {0} /\ Len(agent') = Len(agent) - 1
          /\ \A i \in 1..Len(agent) - 1 : agent'[i] = agent[i + 1]
      BY <2>1, <3>1, Tailed
    <3>3. QED
      BY <3>2
  <2>3. msg \in Message /\ msg.of = Head(agent) /\ msg.id = id[msg.of]
    BY <2>2 DEF Reply, Message, Kinds, TypeOK
  <2> HIDE DEF msg
  <2>4. /\ down' \in Seq(Message) /\ Len(down) \in Nat /\ Len(down') = Len(down) + 1
        /\ \A i \in 1..Len(down) : down'[i] = down[i]
        /\ down'[Len(down) + 1] = msg
    BY <2>1, <2>3, Appended DEF TypeOK
  <2>5. TypeOK'
    <3>1. Len(down') <= DownBuf
      BY <2>1, <2>4, ClientAssumption
    <3>2. QED
      BY ZenonT(60), <2>1, <2>2, <2>4, <3>1
         DEF TypeOK, reqVars, wireVars, peerVars, loopVars, connVars, uiVars
  <2>6. AnswersNamed'
    <3>1. \A i \in 1..Len(down') : i \in 1..Len(down) \/ i = Len(down) + 1
      BY <2>4
    <3>2. \A i \in 1..Len(down') : down'[i].id # 0 => down'[i].of \in Req /\ down'[i].id = id[down'[i].of]
      BY <2>2, <2>3, <2>4, <3>1 DEF AnswersNamed
    <3>3. \A i \in 1..Len(agent') : id[agent'[i]] # 0
      BY <2>2 DEF AnswersNamed
    <3>4. QED
      BY <2>1, <3>2, <3>3
         DEF AnswersNamed, reqVars, wireVars, peerVars, loopVars, connVars, uiVars
  <2>7. OwnAnswer' /\ PendingExact' /\ FramesWhole' /\ WriterHoldsLock' /\ ErrorIsReal' /\ EndHasCause'
    BY <2>1
       DEF OwnAnswer, PendingExact, FramesWhole, WriterHoldsLock, HalfSent,
           ErrorIsReal, EndHasCause, reqVars, wireVars, peerVars, loopVars,
           connVars, uiVars
  <2>8. QED
    BY <2>5, <2>6, <2>7
<1>3. CASE AgentDrops
  <2>1. /\ agent # <<>> /\ dropped' = dropped \union {Head(agent)} /\ agent' = Tail(agent)
        /\ UNCHANGED <<pushed, reqVars, wireVars, loopVars, connVars, uiVars>>
    BY <1>3 DEF AgentDrops
  <2>2. /\ Head(agent) \in Req /\ agent' \in Seq(Req)
        /\ \A i \in 1..Len(agent') : agent'[i] = agent[i + 1] /\ i + 1 \in 1..Len(agent)
    <3>1. agent \in Seq(Req)
      BY DEF TypeOK
    <3>2. /\ Head(agent) \in Req /\ agent' \in Seq(Req)
          /\ Len(agent) \in Nat \ {0} /\ Len(agent') = Len(agent) - 1
          /\ \A i \in 1..Len(agent) - 1 : agent'[i] = agent[i + 1]
      BY <2>1, <3>1, Tailed
    <3>3. QED
      BY <3>2
  <2>3. TypeOK'
    BY ZenonT(60), <2>1, <2>2
       DEF TypeOK, reqVars, wireVars, peerVars, loopVars, connVars, uiVars
  <2>4. AnswersNamed'
    <3>1. \A i \in 1..Len(agent') : id[agent'[i]] # 0
      BY <2>2 DEF AnswersNamed
    <3>2. QED
      BY <2>1, <3>1
         DEF AnswersNamed, reqVars, wireVars, peerVars, loopVars, connVars, uiVars
  <2>5. OwnAnswer' /\ PendingExact' /\ FramesWhole' /\ WriterHoldsLock' /\ ErrorIsReal' /\ EndHasCause'
    BY <2>1
       DEF OwnAnswer, PendingExact, FramesWhole, WriterHoldsLock, HalfSent,
           ErrorIsReal, EndHasCause, reqVars, wireVars, peerVars, loopVars,
           connVars, uiVars
  <2>6. QED
    BY <2>3, <2>4, <2>5
<1>4. CASE AgentPushes
  <2>1. /\ pushed < MaxPushed /\ Len(down) < DownBuf /\ pushed' = pushed + 1 /\ down' = Append(down, Push)
        /\ UNCHANGED <<mu, up, agent, dropped, reqVars, loopVars, connVars, uiVars>>
    BY <1>4 DEF AgentPushes
  <2>2. Push \in Message /\ Push.id = 0
    BY DEF Push, Reply, Message, Kinds
  <2>3. /\ down' \in Seq(Message) /\ Len(down) \in Nat /\ Len(down') = Len(down) + 1
        /\ \A i \in 1..Len(down) : down'[i] = down[i]
        /\ down'[Len(down) + 1] = Push
    BY <2>1, <2>2, Appended DEF TypeOK
  <2>4. TypeOK'
    <3>1. Len(down') <= DownBuf /\ pushed' \in 0..MaxPushed
      BY SMTT(30), <2>1, <2>3, ClientAssumption DEF TypeOK
    <3>2. QED
      BY SMTT(30), <2>1, <2>3, <3>1
         DEF TypeOK, reqVars, wireVars, peerVars, loopVars, connVars, uiVars
  <2>5. AnswersNamed'
    <3>1. \A i \in 1..Len(down') : i \in 1..Len(down) \/ i = Len(down) + 1
      BY <2>3
    <3>2. \A i \in 1..Len(down') : down'[i].id # 0 => down'[i].of \in Req /\ down'[i].id = id[down'[i].of]
      BY <2>2, <2>3, <3>1 DEF AnswersNamed
    <3>3. QED
      BY <2>1, <3>2
         DEF AnswersNamed, reqVars, wireVars, peerVars, loopVars, connVars, uiVars
  <2>6. OwnAnswer' /\ PendingExact' /\ FramesWhole' /\ WriterHoldsLock' /\ ErrorIsReal' /\ EndHasCause'
    BY <2>1
       DEF OwnAnswer, PendingExact, FramesWhole, WriterHoldsLock, HalfSent,
           ErrorIsReal, EndHasCause, reqVars, wireVars, peerVars, loopVars,
           connVars, uiVars
  <2>7. QED
    BY <2>4, <2>5, <2>6
<1>5. CASE Lose
  <2>1. TypeOK'
    BY <1>5
       DEF Lose, TypeOK, reqVars, wireVars, peerVars, loopVars, connVars, uiVars
  <2>2. FramesWhole'
    BY <1>5
       DEF Lose, FramesWhole, TypeOK, WriterHoldsLock, HalfSent, Half, reqVars,
           wireVars, peerVars, loopVars, connVars, uiVars
  <2>3. AnswersNamed'
    BY <1>5
       DEF Lose, AnswersNamed, PendingExact, TypeOK, Nobody, Unsub, reqVars,
           wireVars, peerVars, loopVars, connVars, uiVars
  <2>4. WriterHoldsLock'
    BY <1>5
       DEF Lose, WriterHoldsLock, FramesWhole, HalfSent, TypeOK, Nobody, Unsub,
           reqVars, wireVars, peerVars, loopVars, connVars, uiVars
  <2>5. ErrorIsReal' /\ EndHasCause'
    BY <1>5
       DEF Lose, ErrorIsReal, EndHasCause, TypeOK, Over, reqVars, wireVars,
           peerVars, loopVars, connVars, uiVars
  <2>6. OwnAnswer' /\ PendingExact'
    BY <1>5
       DEF Lose, OwnAnswer, PendingExact, reqVars, wireVars, peerVars, loopVars,
           connVars, uiVars
  <2>7. QED
    BY <2>1, <2>2, <2>3, <2>4, <2>5, <2>6
<1>6. QED
  BY <1>1, <1>2, <1>3, <1>4, <1>5

\* Nothing happens.
LEMMA Stutter == IInv /\ UNCHANGED vars => IInv'
BY
   DEF IInv, ConnectionExact, TypeOK, OwnAnswer, PendingExact, FramesWhole,
       ErrorIsReal, AnswersNamed, WriterHoldsLock, HalfSent, EndHasCause, vars,
       reqVars, wireVars, peerVars, loopVars, connVars, uiVars

-----------------------------------------------------------------------------
(* The theorems *)

\* The inductive invariant of a connection: c.pending, the channels, what is on
\* the connection and who writes to it.
THEOREM ClientInvariant == Spec => []IInv
<1>1. IInv /\ [Next]_vars => IInv'
  BY RequestStep, ReadLoopStep, ProgramStep, AgentStep, Stutter
     DEF Next, Request, ReadLoop, Agent
<1>2. QED
  BY InvInit, <1>1, PTL DEF Spec

\* Answers, timeouts, the read loop and Close in any order: every request returns
\* its own answer, the entries of c.pending are exact, frames are whole, and the
\* program hears of a lost connection only when it was lost.
THEOREM ConnectionIsExact == Spec => []ConnectionExact
<1>1. IInv => ConnectionExact
  BY DEF IInv
<1>2. QED
  BY ClientInvariant, <1>1, PTL
=============================================================================
