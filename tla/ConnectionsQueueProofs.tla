---------------------- MODULE ConnectionsQueueProofs ----------------------
(***************************************************************************)
(* Theorems about what waits on the queues of Connections: the packets of  *)
(* a connection and the buffers they own, the requests and how long the    *)
(* timeout scan can miss them.                                             *)
(***************************************************************************)
EXTENDS ConnectionsProofs, FiniteSetTheorems

-----------------------------------------------------------------------------
(* What a step can do to the packets that were kept.  Each handler is      *)
(* looked at once, here; the two theorems on packets are about the five    *)
(* kinds of step below.                                                    *)

\* No packet moves and no connection comes or goes.
PacketsStay == UNCHANGED <<packets, inUse, kept, cnnList>>

\* APB_CreateConnection.
Created(c) ==
    /\ ~ IsLive(c)
    /\ cnnList' = Append(cnnList, c)
    /\ packets' = [packets EXCEPT ![c] = <<>>]
    /\ UNCHANGED <<inUse, kept>>

\* APB_DestroyConnection, of the connection at index m of the list.
Destroyed(c, m) ==
    /\ cnnList[m] = c
    /\ cnnList' = Unlink(cnnList, m)
    /\ inUse' = ReleaseQueue(c)
    /\ packets' = [packets EXCEPT ![c] = <<>>]
    /\ UNCHANGED kept

\* The packet APB_HandleConnectionPacket has no use for and does not release.
Forgotten ==
    /\ in # <<>> /\ Head(in).type = "NO_HANDLER" /\ in' = Tail(in)
    /\ kept' = kept + 1 /\ inUse' = Hold
    /\ UNCHANGED <<packets, cnnList>>

\* APB_PushToClient hands over and releases the first m packets of q.
Pushed(c, q, used, m) ==
    /\ IsLive(c)
    /\ packets' = [packets EXCEPT ![c] = SubSeq(q, m + 1, Len(q))]
    /\ inUse' = used \ {q[i].sn : i \in 1..m}
    /\ UNCHANGED cnnList

\* It is called for a READ, with the queue as it is, or for a packet, with
\* the packet added to it.
PushedFor(c) ==
    \/ /\ \E m \in 0..Len(packets[c]) : Pushed(c, packets[c], inUse, m)
       /\ UNCHANGED kept
    \/ \E p \in Queued :
         /\ p.sn = kept + 1
         /\ \E m \in 0..(Len(packets[c]) + 1) : Pushed(c, Append(packets[c], p), Hold, m)
         /\ kept' = kept + 1

LEMMA PushPackets ==
    ASSUME TypeOK, NEW c \in Objects,
           NEW q \in Seq(Queued), NEW w \in Seq(Reqs), NEW rq, NEW used,
           PushToClient(c, q, w, rq, used), IsLive(c), UNCHANGED cnnList
    PROVE  \E m \in 0..Len(q) : Pushed(c, q, used, m)
<1>1. CASE ~ CanPush(c)
  <2>1. packets' = [packets EXCEPT ![c] = q] /\ inUse' = used
    BY <1>1 DEF PushToClient
  <2>2. SubSeq(q, 0 + 1, Len(q)) = q
    <3> DEFINE s == SubSeq(q, 0 + 1, Len(q))
    <3>1. /\ s \in Seq(Queued) /\ Len(s) = Len(q) - 0
          /\ \A i \in 1..(Len(q) - 0) : s[i] = q[0 + i]
      BY Rest, 0 \in 0..Len(q)
    <3> HIDE DEF s
    <3>2. Len(q) \in Nat /\ Len(q) - 0 = Len(q) /\ \A i \in 1..Len(q) : 0 + i = i
      OBVIOUS
    <3>3. s = q
      BY <3>1, <3>2, SeqEqual
    <3> QED
      BY <3>3 DEF s
  <2>3. inUse' = used \ {q[i].sn : i \in 1..0}
    BY <2>1
  <2>4. Pushed(c, q, used, 0)
    BY <2>1, <2>2, <2>3 DEF Pushed
  <2> QED
    BY <2>4, 0 \in 0..Len(q)
<1>2. CASE CanPush(c)
  <2>0. PICK n \in 0..Len(w) : \E d \in [0..n -> 0..Len(q)] : PushResult(c, q, w, rq, used, n, d)
    BY <1>2 DEF PushToClient, PushResult
  <2>1. PICK d \in [0..n -> 0..Len(q)] : PushResult(c, q, w, rq, used, n, d)
    BY <2>0
  <2>2. d[n] \in 0..Len(q)
    OBVIOUS
  <2>3. Pushed(c, q, used, d[n])
    BY <2>1 DEF PushResult, Pushed
  <2> QED
    BY <2>2, <2>3, Zenon
<1> QED
  BY <1>1, <1>2

\* APB_FindConnection finds a connection of the list.
LEMMA FoundLive ==
    ASSUME NEW id, NEW c, FindConnection(id, c)
    PROVE  IsLive(c)
  BY DEF FindConnection, IsLive

LEMMA PacketSteps ==
    ASSUME TypeOK, [Next]_vars
    PROVE  \/ PacketsStay
           \/ \E c \in Objects : Created(c) \/ PushedFor(c)
           \/ \E c \in Objects, m \in DOMAIN cnnList : Destroyed(c, m)
           \/ Forgotten
<1> USE DEF serverVars, packetVars, clientVars, remoteVars, historyVars
<1>1. CASE ClientStep
  <2>1. \A r, type, id, len, timeout : PutMsg(r, type, id, len, timeout) => PacketsStay
    BY DEF PutMsg, PacketsStay
  <2>2. \A r : GetReply(r) \/ Abort(r) => PacketsStay
    BY DEF GetReply, Abort, PacketsStay
  <2>3. \A k : FreeConnection(k) => PacketsStay
    BY DEF FreeConnection, PacketsStay
  <2> QED
    BY <1>1, <2>1, <2>2, <2>3 DEF ClientStep, OpenConnection, CloseConnection, Read, Write
<1>2. CASE HandleRequest
  <2>1. ASSUME NEW r \in Reqs, NEW c \in Objects, NEW s \in CnnState, HandleOpen(r, c, s)
        PROVE  Created(c)
    BY <2>1 DEF HandleOpen, Created
  <2>2. ASSUME NEW r \in Reqs, NEW c \in Objects, HandleRead(r, c)
        PROVE  PushedFor(c)
    <3> DEFINE w  == AddRequest(reqs[c], r)
               rq == [req EXCEPT ![r] = Accept(r, cnn[c].id)]
    <3>1. PushToClient(c, packets[c], w, rq, inUse) /\ UNCHANGED <<cnnList, kept>>
      BY <2>2 DEF HandleRead
    <3>2. w \in Seq(Reqs) /\ packets[c] \in Seq(Queued)
      BY DEF TypeOK, AddRequest
    <3>3. IsLive(c)
      BY <2>2, FoundLive DEF HandleRead
    <3> HIDE DEF w, rq
    <3>4. \E m \in 0..Len(packets[c]) : Pushed(c, packets[c], inUse, m)
      BY <3>1, <3>2, <3>3, PushPackets
    <3> QED
      BY <3>1, <3>4 DEF PushedFor
  <2>3. ASSUME NEW r \in Reqs, NEW c \in Objects,
               \/ RejectRequest(r) \/ RefuseControl(r)
               \/ HandleClose(r, c) \/ RefuseRequest(r, c) \/ HandleWrite(r, c)
        PROVE  PacketsStay
    BY <2>3 DEF RejectRequest, RefuseControl, HandleClose, RefuseRequest, HandleWrite, PacketsStay
  <2>4. ASSUME NEW r \in Reqs, RejectRequest(r) \/ RefuseControl(r)
        PROVE  PacketsStay
    BY <2>4 DEF RejectRequest, RefuseControl, PacketsStay
  <2> QED
    BY <1>2, <2>1, <2>2, <2>3, <2>4 DEF HandleRequest
<1>3. CASE HandlePacket
  <2>1. ASSUME NEW c \in Objects, HandleConnected(c) PROVE PacketsStay
    BY <2>1 DEF HandleConnected, PacketsStay
  <2>2. ASSUME NEW c \in Objects, HandleNoHandler(c) PROVE Forgotten
    BY <2>2 DEF HandleNoHandler, GetPacket, KeepPacket, Forgotten
  <2>3. ASSUME NEW c \in Objects, HandleDisconnected(c)
        PROVE  \E m \in DOMAIN cnnList : Destroyed(c, m)
    BY <2>3 DEF HandleDisconnected, Destroyed, Unlink
  <2>4. ASSUME NEW c \in Objects, HandleData(c) PROVE PacketsStay \/ PushedFor(c)
    <3>1. CASE cnn[c].state >= CS_DISCONNECTING
      BY <2>4, <3>1 DEF HandleData, PacketsStay
    <3>2. CASE ~ (cnn[c].state >= CS_DISCONNECTING)
      <4> DEFINE p == [sn |-> kept + 1, len |-> Head(in).len]
                 q == Append(packets[c], p)
      <4>1. PushToClient(c, q, reqs[c], req, Hold) /\ kept' = kept + 1 /\ UNCHANGED cnnList
        BY <2>4, <3>2 DEF HandleData, AddPacket, KeepPacket
      <4>2. p \in Queued /\ p.sn = kept + 1
        <5>1. Head(in) \in InPacket
          BY <2>4, InHead DEF HandleData, GetPacket
        <5> QED
          BY <5>1 DEF Queued, InPacket, TypeOK
      <4> HIDE DEF p
      <4>3. q \in Seq(Queued) /\ Len(q) = Len(packets[c]) + 1 /\ reqs[c] \in Seq(Reqs)
        BY <4>2 DEF TypeOK
      <4>4. IsLive(c)
        BY <2>4, FoundLive DEF HandleData
      <4> HIDE DEF q
      <4>5. \E m \in 0..Len(q) : Pushed(c, q, Hold, m)
        BY <4>1, <4>3, <4>4, PushPackets
      <4> QED
        BY <4>1, <4>2, <4>3, <4>5 DEF PushedFor, q
    <3> QED
      BY <3>1, <3>2
  <2>5. CASE UnknownConnection \/ HandleControlPacket
    BY <2>5 DEF UnknownConnection, HandleControlPacket, PacketsStay
  <2> QED
    BY <1>3, <2>1, <2>2, <2>3, <2>4, <2>5 DEF HandlePacket
<1>4. CASE CheckRequestTimeouts
  BY <1>4 DEF CheckRequestTimeouts, PacketsStay
<1>5. CASE PiStep
  <2>1. UNCHANGED amigaVars
    BY <1>5 DEF PiStep, PiAnswerConnect, PiAnswerDisconnect, LeaveAmiga, LosePacket,
                ResendPacket, PiSend, PiClose
  <2> QED
    BY <2>1 DEF amigaVars, PacketsStay
<1>6. CASE UNCHANGED vars
  BY <1>6 DEF vars, PacketsStay
<1> QED
  BY <1>1, <1>2, <1>3, <1>4, <1>5, <1>6 DEF Next

-----------------------------------------------------------------------------
(* Packets in use.                                                         *)

\* A connection that is not on the server's list has no packets.
PacketsLive == \A c \in Objects : ~ IsLive(c) => packets[c] = <<>>

\* The queue of a connection after a push: what was behind the m packets
\* that were handed over.
LEMMA PushedQueue ==
    ASSUME TypeOK, NEW c \in Objects, NEW q \in Seq(Queued), NEW used, NEW m \in 0..Len(q),
           Pushed(c, q, used, m)
    PROVE  /\ DOMAIN packets'[c] = 1..(Len(q) - m)
           /\ \A i \in 1..(Len(q) - m) : m + i \in 1..Len(q) /\ packets'[c][i] = q[m + i]
           /\ \A e \in Objects : e # c => packets'[e] = packets[e]
<1>1. packets'[c] = SubSeq(q, m + 1, Len(q)) /\ \A e \in Objects : e # c => packets'[e] = packets[e]
  BY DEF Pushed, TypeOK
<1>2. /\ packets'[c] \in Seq(Queued) /\ Len(packets'[c]) = Len(q) - m
      /\ \A i \in 1..(Len(q) - m) : packets'[c][i] = q[m + i]
  BY <1>1, Rest
<1>3. Len(q) \in Nat /\ \A i \in 1..(Len(q) - m) : m + i \in 1..Len(q)
  OBVIOUS
<1> QED
  BY <1>1, <1>2, <1>3

\* The connection that is created is the only one to join the list, and the
\* one that is destroyed the only one to leave it.
LEMMA LiveCreated ==
    ASSUME TypeOK, NEW c \in Objects, NEW e \in Objects, Created(c), IsLive(e) \/ e = c
    PROVE  IsLive(e)'
<1>0. cnnList \in Seq(Objects)
  BY DEF TypeOK
<1> DEFINE n == Len(cnnList)
<1>1. /\ n \in Nat /\ DOMAIN cnnList = 1..n /\ DOMAIN cnnList' = 1..(n + 1)
      /\ cnnList'[n + 1] = c /\ \A i \in 1..n : cnnList'[i] = cnnList[i]
  BY <1>0 DEF Created
<1> HIDE DEF n
<1>2. n + 1 \in 1..(n + 1) /\ \A i \in 1..n : i \in 1..(n + 1)
  BY <1>1
<1> QED
  BY <1>1, <1>2 DEF IsLive

LEMMA LiveDestroyed ==
    ASSUME TypeOK, NEW c \in Objects, NEW m \in DOMAIN cnnList, NEW e \in Objects,
           Destroyed(c, m), IsLive(e), e # c
    PROVE  IsLive(e)'
<1>0. cnnList \in Seq(Objects)
  BY DEF TypeOK
<1>1. PICK k \in DOMAIN cnnList : cnnList[k] = e
  BY DEF IsLive
<1> DEFINE n == Len(cnnList)
<1>2. /\ n \in Nat /\ DOMAIN cnnList = 1..n /\ k # m
  BY <1>0, <1>1 DEF Destroyed
<1>3. /\ Len(cnnList') = n - 1 /\ cnnList' \in Seq(Objects)
      /\ \A j \in 1..(n - 1) : cnnList'[j] = IF j < m THEN cnnList[j] ELSE cnnList[j + 1]
  BY <1>0, UnlinkSeq DEF Destroyed
<1>4. DOMAIN cnnList' = 1..(n - 1)
  BY <1>2, <1>3
<1> HIDE DEF n
<1>5. CASE k < m
  <2>1. k \in 1..(n - 1) /\ m \in 1..n
    BY <1>2, <1>5
  <2>2. cnnList'[k] = e
    BY <1>1, <1>3, <1>5, <2>1
  <2> QED
    BY <1>4, <2>1, <2>2 DEF IsLive
<1>6. CASE k > m
  <2>1. k - 1 \in 1..(n - 1) /\ ~ (k - 1 < m) /\ (k - 1) + 1 = k
    BY <1>2, <1>6
  <2>2. cnnList'[k - 1] = e
    BY <1>1, <1>3, <2>1
  <2> QED
    BY <1>4, <2>1, <2>2 DEF IsLive
<1> QED
  BY <1>2, <1>5, <1>6

LEMMA PacketsLiveStep ==
    ASSUME TypeOK, PacketsLive, [Next]_vars
    PROVE  PacketsLive'
<1> SUFFICES ASSUME NEW e \in Objects, ~ IsLive(e)' PROVE packets'[e] = <<>>
  BY DEF PacketsLive
<1>1. CASE PacketsStay \/ Forgotten
  BY <1>1 DEF PacketsStay, Forgotten, PacketsLive, IsLive
<1>2. ASSUME NEW c \in Objects, Created(c) PROVE packets'[e] = <<>>
  <2>1. e # c /\ ~ IsLive(e)
    BY <1>2, LiveCreated
  <2> QED
    BY <1>2, <2>1 DEF Created, PacketsLive, TypeOK
<1>3. ASSUME NEW c \in Objects, NEW m \in DOMAIN cnnList, Destroyed(c, m)
      PROVE packets'[e] = <<>>
  <2>1. CASE e = c
    BY <1>3, <2>1 DEF Destroyed, TypeOK
  <2>2. CASE e # c
    <3>1. ~ IsLive(e)
      BY <1>3, <2>2, LiveDestroyed
    <3> QED
      BY <1>3, <2>2, <3>1 DEF Destroyed, PacketsLive, TypeOK
  <2> QED
    BY <2>1, <2>2
<1>4. ASSUME NEW c \in Objects, PushedFor(c) PROVE packets'[e] = <<>>
  <2>1. PICK q, used, m : Pushed(c, q, used, m)
    BY <1>4 DEF PushedFor
  <2>2. IsLive(c) /\ ~ IsLive(e) /\ packets'[e] = packets[e]
    BY <2>1 DEF Pushed, IsLive, TypeOK
  <2> QED
    BY <2>2 DEF PacketsLive
<1> QED
  BY <1>1, <1>2, <1>3, <1>4, PacketSteps

LEMMA PacketsLiveCorrect == Spec => []PacketsLive
<1>1. Init => PacketsLive
  BY DEF Init, PacketsLive
<1> QED
  BY <1>1, PacketsLiveStep, TypeCorrect, PTL DEF Spec

\* A push releases what it hands over: a packet that is in use after it and
\* on no queue was in use before it and on no queue.
LEMMA PushedStrands ==
    ASSUME TypeOK, NEW c \in Objects, NEW q \in Seq(Queued), NEW used, NEW m \in 0..Len(q),
           Pushed(c, q, used, m),
           \A i \in DOMAIN packets[c] : \E j \in DOMAIN q : q[j] = packets[c][i],
           NEW sn \in Stranded'
    PROVE  /\ sn \in used
           /\ \A j \in DOMAIN q : q[j].sn # sn
           /\ \A e \in Objects : \A i \in DOMAIN packets[e] : packets[e][i].sn # sn
<1>1. /\ sn \in inUse'
      /\ \A e \in Objects : \A i \in DOMAIN packets'[e] : packets'[e][i].sn # sn
  BY DEF Stranded
<1>2. /\ DOMAIN packets'[c] = 1..(Len(q) - m)
      /\ \A i \in 1..(Len(q) - m) : m + i \in 1..Len(q) /\ packets'[c][i] = q[m + i]
      /\ \A e \in Objects : e # c => packets'[e] = packets[e]
  BY PushedQueue
<1>3. sn \in used /\ \A i \in 1..m : q[i].sn # sn
  BY <1>1 DEF Pushed
<1>4. ASSUME NEW j \in DOMAIN q PROVE q[j].sn # sn
  <2>1. j \in 1..Len(q) /\ Len(q) \in Nat
    OBVIOUS
  <2>2. CASE j <= m
    BY <1>3, <2>1, <2>2
  <2>3. CASE j > m
    <3>1. j - m \in 1..(Len(q) - m) /\ m + (j - m) = j
      BY <2>1, <2>3
    <3>2. packets'[c][j - m] = q[j] /\ j - m \in DOMAIN packets'[c]
      BY <1>2, <3>1
    <3> QED
      BY <1>1, <3>2
  <2> QED
    BY <2>1, <2>2, <2>3
<1>5. \A i \in DOMAIN packets[c] : packets[c][i].sn # sn
  BY <1>4
<1> QED
  BY <1>1, <1>2, <1>3, <1>4, <1>5

LEMMA PushedForStrands ==
    ASSUME TypeOK, NEW c \in Objects, PushedFor(c)
    PROVE  Stranded' \subseteq Stranded
<1> SUFFICES ASSUME NEW sn \in Stranded' PROVE sn \in Stranded
  OBVIOUS
<1>0. packets[c] \in Seq(Queued)
  BY DEF TypeOK
<1>1. CASE \E m \in 0..Len(packets[c]) : Pushed(c, packets[c], inUse, m)
  <2>1. PICK m \in 0..Len(packets[c]) : Pushed(c, packets[c], inUse, m)
    BY <1>1
  <2>2. /\ sn \in inUse
        /\ \A e \in Objects : \A i \in DOMAIN packets[e] : packets[e][i].sn # sn
    BY <1>0, <2>1, PushedStrands
  <2> QED
    BY <2>2 DEF Stranded
<1>2. ASSUME NEW p \in Queued, p.sn = kept + 1, NEW m \in 0..(Len(packets[c]) + 1),
             Pushed(c, Append(packets[c], p), Hold, m)
      PROVE  sn \in Stranded
  <2> DEFINE q == Append(packets[c], p)
             n == Len(packets[c])
  <2>1. /\ q \in Seq(Queued) /\ Len(q) = n + 1 /\ n \in Nat
        /\ DOMAIN q = 1..(n + 1) /\ DOMAIN packets[c] = 1..n
        /\ q[n + 1] = p /\ \A i \in 1..n : q[i] = packets[c][i]
    BY <1>0
  <2>2. Pushed(c, q, Hold, m) /\ m \in 0..Len(q)
    BY <1>2, <2>1
  <2> HIDE DEF q, n
  <2>3. n + 1 \in DOMAIN q /\ \A i \in DOMAIN packets[c] : i \in DOMAIN q
    BY <2>1
  <2>4. /\ sn \in Hold
        /\ \A j \in DOMAIN q : q[j].sn # sn
        /\ \A e \in Objects : \A i \in DOMAIN packets[e] : packets[e][i].sn # sn
    BY <2>1, <2>2, <2>3, PushedStrands
  <2>5. sn # kept + 1
    BY <1>2, <2>1, <2>3, <2>4
  <2> QED
    BY <2>4, <2>5 DEF Hold, Stranded
<1> QED
  BY <1>1, <1>2 DEF PushedFor

\* Every buffer the server still holds when a step ends either is on the
\* queue of a connection, where it will be released, or already was on none:
\* READs, arriving data, time-outs and APB_DestroyConnection release exactly
\* the packets they drop, and only the NO_HANDLER path of
\* APB_HandleConnectionPacket forgets one.
THEOREM NothingStranded == Spec => StrandsOnlyNoHandler
<1>1. ASSUME TypeOK, PacketsLive, [Next]_vars
      PROVE  \/ Stranded' \subseteq Stranded
             \/ in # <<>> /\ Head(in).type = "NO_HANDLER" /\ in' = Tail(in)
  <2>1. CASE PacketsStay
    BY <2>1 DEF PacketsStay, Stranded
  <2>2. CASE Forgotten
    BY <2>2 DEF Forgotten
  <2>3. ASSUME NEW c \in Objects, Created(c) PROVE Stranded' \subseteq Stranded
    <3>1. packets' = packets /\ inUse' = inUse
      <4>1. packets[c] = <<>>
        BY <1>1, <2>3 DEF Created, PacketsLive
      <4> QED
        BY <1>1, <2>3, <4>1 DEF Created, TypeOK
    <3> QED
      BY <3>1 DEF Stranded
  <2>4. ASSUME NEW c \in Objects, NEW m \in DOMAIN cnnList, Destroyed(c, m)
        PROVE  Stranded' \subseteq Stranded
    <3> SUFFICES ASSUME NEW sn \in Stranded' PROVE sn \in Stranded
      OBVIOUS
    <3>1. /\ sn \in inUse /\ \A i \in DOMAIN packets[c] : packets[c][i].sn # sn
      BY <2>4 DEF Destroyed, ReleaseQueue, Stranded
    <3>2. \A e \in Objects : e # c => packets'[e] = packets[e]
      BY <1>1, <2>4 DEF Destroyed, TypeOK
    <3> QED
      BY <3>1, <3>2 DEF Stranded
  <2> QED
    BY <1>1, <2>1, <2>2, <2>3, <2>4, PushedForStrands, PacketSteps
<1> QED
  BY <1>1, TypeCorrect, PacketsLiveCorrect, PTL DEF Spec, StrandsOnlyNoHandler

-----------------------------------------------------------------------------
(* The invariant behind QueuedInUse: arrival numbers are handed out once,  *)
(* so the packet that joins a queue differs from all that are in use.      *)

NumberedOnce == \A sn \in inUse : sn <= kept

\* QueuedInUse of any queues and any set of packets in use.
Buffered(Q, U) ==
    /\ \A c \in Objects : \A i \in DOMAIN Q[c] : Q[c][i].sn \in U
    /\ \A c, e \in Objects : \A i \in DOMAIN Q[c], j \in DOMAIN Q[e] :
         Q[c][i].sn = Q[e][j].sn => c = e /\ i = j

\* A push takes packets off the head of one queue and releases those only.
LEMMA PushedBuffered ==
    ASSUME TypeOK, NEW c \in Objects, NEW q \in Seq(Queued), NEW used, NEW m \in 0..Len(q),
           Pushed(c, q, used, m), Buffered([packets EXCEPT ![c] = q], used)
    PROVE  Buffered(packets', inUse')
<1> DEFINE Q == [packets EXCEPT ![c] = q]
<1>1. Q[c] = q /\ \A e \in Objects : e # c => Q[e] = packets[e]
  BY DEF TypeOK
<1>2. Buffered(Q, used)
  OBVIOUS
<1> HIDE DEF Q
<1>3. /\ DOMAIN packets'[c] = 1..(Len(q) - m)
      /\ \A i \in 1..(Len(q) - m) : m + i \in 1..Len(q) /\ packets'[c][i] = q[m + i]
      /\ \A e \in Objects : e # c => packets'[e] = packets[e]
  BY PushedQueue
<1> DEFINE from(e, i) == IF e = c THEN m + i ELSE i
<1>4. ASSUME NEW e \in Objects, NEW i \in DOMAIN packets'[e]
      PROVE  /\ from(e, i) \in DOMAIN Q[e] /\ packets'[e][i] = Q[e][from(e, i)]
             /\ e = c => from(e, i) > m
  <2>1. CASE e = c
    <3>1. from(e, i) = m + i /\ i \in 1..(Len(q) - m) /\ Len(q) \in Nat /\ DOMAIN q = 1..Len(q)
      BY <1>3, <2>1
    <3>2. m + i \in DOMAIN q /\ packets'[c][i] = q[m + i] /\ m + i > m
      BY <1>3, <3>1
    <3> HIDE DEF from
    <3> QED
      BY <1>1, <2>1, <3>1, <3>2
  <2>2. CASE e # c
    BY <1>1, <1>3, <2>2
  <2> QED
    BY <2>1, <2>2
<1>5. ASSUME NEW e \in Objects, NEW i \in DOMAIN packets'[e], NEW j \in DOMAIN packets'[e],
             from(e, i) = from(e, j)
      PROVE  i = j
  <2>1. CASE e = c
    BY <1>3, <1>5, <2>1
  <2>2. CASE e # c
    BY <1>5, <2>2
  <2> QED
    BY <2>1, <2>2
<1>6. ASSUME NEW e \in Objects, NEW i \in DOMAIN packets'[e] PROVE packets'[e][i].sn \in inUse'
  <2> DEFINE k == from(e, i)
  <2>1. k \in DOMAIN Q[e] /\ packets'[e][i] = Q[e][k] /\ (e = c => k > m)
    BY <1>4
  <2> HIDE DEF k
  <2>2. packets'[e][i].sn \in used
    BY <1>2, <2>1 DEF Buffered
  <2>3. ASSUME NEW j \in 1..m PROVE q[j].sn # packets'[e][i].sn
    <3>1. j \in DOMAIN Q[c] /\ Q[c][j] = q[j] /\ (e = c => j # k)
      BY <1>1, <2>1
    <3> QED
      BY <1>2, <2>1, <3>1 DEF Buffered
  <2>4. inUse' = used \ {q[j].sn : j \in 1..m}
    BY DEF Pushed
  <2>5. packets'[e][i].sn \notin {q[j].sn : j \in 1..m}
    BY <2>3
  <2> QED
    BY <2>2, <2>4, <2>5
<1>7. ASSUME NEW e \in Objects, NEW f \in Objects,
             NEW i \in DOMAIN packets'[e], NEW j \in DOMAIN packets'[f],
             packets'[e][i].sn = packets'[f][j].sn
      PROVE  e = f /\ i = j
  <2>1. e = f /\ from(e, i) = from(f, j)
    <3> HIDE DEF from
    <3> QED
      BY <1>2, <1>4, <1>7 DEF Buffered
  <2> QED
    BY <1>5, <2>1
<1> QED
  BY <1>6, <1>7 DEF Buffered

\* A packet with a number no other has, put at the end of a queue.
LEMMA AddedBuffered ==
    ASSUME TypeOK, Buffered(packets, inUse), NumberedOnce, NEW c \in Objects,
           NEW p \in Queued, p.sn = kept + 1
    PROVE  Buffered([packets EXCEPT ![c] = Append(packets[c], p)], Hold)
<1> DEFINE Q == [packets EXCEPT ![c] = Append(packets[c], p)]
           n == Len(packets[c])
<1>1. /\ n \in Nat /\ DOMAIN packets[c] = 1..n /\ DOMAIN Q[c] = 1..(n + 1)
      /\ Q[c][n + 1] = p /\ \A i \in 1..n : Q[c][i] = packets[c][i]
      /\ \A e \in Objects : e # c => Q[e] = packets[e]
  BY DEF TypeOK
<1> HIDE DEF Q, n
<1>2. ASSUME NEW e \in Objects, NEW i \in DOMAIN Q[e]
      PROVE  \/ i \in DOMAIN packets[e] /\ Q[e][i] = packets[e][i] /\ Q[e][i].sn \in inUse
             \/ e = c /\ i = n + 1 /\ Q[e][i].sn = kept + 1
  BY <1>1 DEF Buffered
<1>3. \A sn \in inUse : sn # kept + 1
  BY DEF NumberedOnce, TypeOK
<1>4. \A e \in Objects : \A i \in DOMAIN Q[e] : Q[e][i].sn \in Hold
  BY <1>2 DEF Hold
<1>5. ASSUME NEW e \in Objects, NEW f \in Objects, NEW i \in DOMAIN Q[e], NEW j \in DOMAIN Q[f],
             Q[e][i].sn = Q[f][j].sn
      PROVE  e = f /\ i = j
  <2>1. CASE i \in DOMAIN packets[e] /\ Q[e][i] = packets[e][i] /\ Q[e][i].sn \in inUse
    <3>1. j \in DOMAIN packets[f] /\ Q[f][j] = packets[f][j]
      BY <1>2, <1>3, <1>5, <2>1
    <3> QED
      BY <1>5, <2>1, <3>1 DEF Buffered
  <2>2. CASE e = c /\ i = n + 1 /\ Q[e][i].sn = kept + 1
    <3>1. f = c /\ j = n + 1
      BY <1>2, <1>3, <1>5, <2>2
    <3> QED
      BY <2>2, <3>1
  <2> QED
    BY <1>2, <2>1, <2>2
<1>6. Buffered(Q, Hold)
  BY <1>4, <1>5 DEF Buffered
<1> QED
  BY <1>6 DEF Q

\* The buffer of every packet on a connection's queue is still the packet's
\* (APB_ReleaseInPacket is called when the packet leaves the queue and never
\* before), and no packet is on two queues, so none is released twice.
THEOREM BuffersKept == Spec => []QueuedInUse
<1> DEFINE Inv == Buffered(packets, inUse) /\ NumberedOnce
<1>1. Init => Inv
  BY DEF Init, Buffered, NumberedOnce
<1>2. ASSUME TypeOK, Inv, [Next]_vars PROVE Inv'
  <2>0. kept \in Nat /\ inUse \subseteq Nat
    BY <1>2 DEF TypeOK
  <2>1. CASE PacketsStay
    BY <1>2, <2>1 DEF PacketsStay, Buffered, NumberedOnce
  <2>2. CASE Forgotten
    <3>1. packets' = packets /\ inUse' = inUse \cup {kept + 1} /\ kept' = kept + 1
      BY <2>2 DEF Forgotten, Hold
    <3> QED
      BY <1>2, <2>0, <3>1 DEF Buffered, NumberedOnce
  <2>3. ASSUME NEW c \in Objects, packets' = [packets EXCEPT ![c] = <<>>], kept' = kept,
               inUse' = inUse \/ inUse' = ReleaseQueue(c)
        PROVE  Inv'
    <3>1. packets'[c] = <<>> /\ \A e \in Objects : e # c => packets'[e] = packets[e]
      BY <1>2, <2>3 DEF TypeOK
    <3>2. ASSUME NEW e \in Objects, NEW i \in DOMAIN packets'[e]
          PROVE  e # c /\ i \in DOMAIN packets[e] /\ packets'[e][i] = packets[e][i]
      BY <3>1
    <3>3. ASSUME NEW e \in Objects, NEW i \in DOMAIN packets'[e]
          PROVE  packets'[e][i].sn \in inUse'
      <4>1. packets[e][i].sn \in inUse /\ e # c /\ packets'[e][i] = packets[e][i]
            /\ i \in DOMAIN packets[e]
        BY <1>2, <3>2 DEF Buffered
      <4>2. \A j \in DOMAIN packets[c] : packets[c][j].sn # packets[e][i].sn
        BY <1>2, <4>1 DEF Buffered
      <4> QED
        BY <2>3, <4>1, <4>2 DEF ReleaseQueue
    <3>4. Buffered(packets', inUse')
      BY <1>2, <3>2, <3>3 DEF Buffered
    <3>5. NumberedOnce'
      BY <1>2, <2>3 DEF NumberedOnce, ReleaseQueue
    <3> QED
      BY <3>4, <3>5 DEF Buffered
  <2>4. ASSUME NEW c \in Objects, PushedFor(c) PROVE Inv'
    <3>0. packets[c] \in Seq(Queued)
      BY <1>2 DEF TypeOK
    <3>1. ASSUME NEW m \in 0..Len(packets[c]), Pushed(c, packets[c], inUse, m), kept' = kept
          PROVE  Inv'
      <4>1. [packets EXCEPT ![c] = packets[c]] = packets
        BY <1>2 DEF TypeOK
      <4>2. Buffered(packets', inUse')
        BY <1>2, <3>0, <3>1, <4>1, PushedBuffered
      <4>3. NumberedOnce'
        BY <1>2, <3>1 DEF NumberedOnce, Pushed
      <4> QED
        BY <4>2, <4>3 DEF Buffered
    <3>2. ASSUME NEW p \in Queued, p.sn = kept + 1, NEW m \in 0..(Len(packets[c]) + 1),
                 Pushed(c, Append(packets[c], p), Hold, m), kept' = kept + 1
          PROVE  Inv'
      <4> DEFINE q == Append(packets[c], p)
      <4>1. q \in Seq(Queued) /\ Len(q) = Len(packets[c]) + 1
        BY <3>0
      <4>2. Buffered([packets EXCEPT ![c] = q], Hold)
        BY <1>2, <3>2, AddedBuffered
      <4>3. Pushed(c, q, Hold, m) /\ m \in 0..Len(q)
        BY <3>2, <4>1
      <4> HIDE DEF q
      <4>4. Buffered(packets', inUse')
        BY <1>2, <4>1, <4>2, <4>3, PushedBuffered
      <4>5. NumberedOnce'
        <5>1. inUse' \subseteq inUse \cup {kept + 1}
          BY <4>3 DEF Pushed, Hold
        <5> QED
          BY <1>2, <2>0, <3>2, <5>1 DEF NumberedOnce
      <4> QED
        BY <4>4, <4>5 DEF Buffered
    <3> QED
      BY <2>4, <3>1, <3>2 DEF PushedFor
  <2> QED
    BY <1>2, <2>1, <2>2, <2>3, <2>4, PacketSteps DEF Created, Destroyed
<1>3. Inv => QueuedInUse
  BY DEF Buffered, QueuedInUse
<1> QED
  BY <1>1, <1>2, <1>3, TypeCorrect, PTL DEF Spec

-----------------------------------------------------------------------------
(* How long the scan can miss a request.                                   *)

\* The first of the numbers with some property.
LEMMA FirstOf ==
    ASSUME NEW S, S \subseteq Nat, S # {}
    PROVE  \E x \in S : \A y \in S : x <= y
<1>1. PICK R : IsWellFoundedOn(R, Nat) /\ \A x, y \in Nat : <<x, y>> \in R <=> x < y
  <2>1. \A x, y \in Nat : <<x, y>> \in OpToRel(<, Nat) <=> x < y
    BY Zenon DEF OpToRel
  <2> QED
    BY <2>1, NatLessThanWellFounded, Zenon
<1>2. \E x \in S : \A y \in S : ~ (<<y, x>> \in R)
  <2>1. IsWellFoundedOn(R, Nat)
    BY <1>1
  <2> HIDE <1>1
  <2> QED
    BY <2>1, WFMin
<1>3. \A x, y \in Nat : ~ (y < x) => x <= y
  OBVIOUS
<1> QED
  BY <1>1, <1>2, <1>3, Zenon

\* A queue without duplicates is no longer than there are requests.
LEMMA QueueLength ==
    ASSUME NEW w \in Seq(Reqs), \A i, j \in DOMAIN w : w[i] = w[j] => i = j
    PROVE  Cardinality(Reqs) \in Nat /\ Len(w) <= Cardinality(Reqs)
<1>1. IsFiniteSet(Reqs)
  BY FiniteAssumption DEF Reqs
<1> DEFINE n == Len(w)
<1>2. n \in Nat /\ DOMAIN w = 1..n /\ w \in [1..n -> Reqs]
  OBVIOUS
<1>3. w \in Injection(1..n, Reqs)
  BY <1>2 DEF Injection, IsInjective
<1> HIDE DEF n
<1>4. Cardinality(1..n) <= Cardinality(Reqs)
  BY <1>1, <1>3, FS_Injection
<1>5. Cardinality(1..n) = n
  BY <1>2, FS_Interval, 1 \in Int, n \in Int
<1> QED
  BY <1>1, <1>4, <1>5, FS_CardinalityType DEF n

\* No request of v is further from the head than in w.
Advances(v, w) == \A j \in DOMAIN v : \E k \in DOMAIN w : j <= k /\ v[j] = w[k]

LEMMA AdvancesUnlink ==
    ASSUME NEW w \in Seq(Reqs), NEW i \in DOMAIN w
    PROVE  /\ \A j \in DOMAIN Unlink(w, i) :
                IF j < i THEN j \in DOMAIN w /\ Unlink(w, i)[j] = w[j]
                         ELSE j + 1 \in DOMAIN w /\ Unlink(w, i)[j] = w[j + 1]
           /\ Advances(Unlink(w, i), w)
<1> DEFINE v == Unlink(w, i)
<1>1. /\ v \in Seq(Reqs) /\ Len(v) = Len(w) - 1
      /\ \A j \in 1..(Len(w) - 1) : v[j] = IF j < i THEN w[j] ELSE w[j + 1]
  BY UnlinkSeq
<1>2. DOMAIN v = 1..(Len(w) - 1) /\ DOMAIN w = 1..Len(w) /\ Len(w) \in Nat
  BY <1>1
<1> HIDE DEF v
<1>3. \A j \in DOMAIN v : IF j < i THEN j \in DOMAIN w /\ v[j] = w[j]
                                   ELSE j + 1 \in DOMAIN w /\ v[j] = w[j + 1]
  BY <1>1, <1>2
<1>4. ASSUME NEW j \in DOMAIN v PROVE \E k \in DOMAIN w : j <= k /\ v[j] = w[k]
  <2>1. j <= j /\ j <= j + 1
    BY <1>2
  <2> QED
    BY <1>3, <2>1
<1> QED
  BY <1>3, <1>4 DEF Advances, v

\* A push takes requests off the head of the queue.
LEMMA PushAdvances ==
    ASSUME TypeOK, NEW c \in Objects, NEW q, NEW w \in Seq(Reqs), NEW rq, NEW used,
           PushToClient(c, q, w, rq, used)
    PROVE  Advances(reqs'[c], w) /\ \A e \in Objects : e # c => reqs'[e] = reqs[e]
<1>0. Len(w) \in Nat /\ DOMAIN w = 1..Len(w)
  OBVIOUS
<1>1. CASE ~ CanPush(c)
  <2>1. reqs'[c] = w /\ \A e \in Objects : e # c => reqs'[e] = reqs[e]
    BY <1>1 DEF PushToClient, TypeOK
  <2>2. \A j \in DOMAIN w : j <= j
    BY <1>0
  <2> QED
    BY <2>1, <2>2 DEF Advances
<1>2. CASE CanPush(c)
  <2>1. PICK n \in 0..Len(w) : \E d \in [0..n -> 0..Len(q)] : PushResult(c, q, w, rq, used, n, d)
    BY <1>2 DEF PushToClient, PushResult
  <2>2. reqs' = [reqs EXCEPT ![c] = SubSeq(w, n + 1, Len(w))]
    BY <2>1 DEF PushResult
  <2>3. /\ reqs'[c] = SubSeq(w, n + 1, Len(w))
        /\ \A e \in Objects : e # c => reqs'[e] = reqs[e]
    BY <2>2 DEF TypeOK
  <2>4. /\ reqs'[c] \in Seq(Reqs) /\ Len(reqs'[c]) = Len(w) - n
        /\ \A i \in 1..(Len(w) - n) : reqs'[c][i] = w[n + i]
    BY <2>3, Rest
  <2>5. \A j \in 1..(Len(w) - n) : n + j \in DOMAIN w /\ j <= n + j
    BY <1>0
  <2>6. DOMAIN reqs'[c] = 1..(Len(w) - n)
    <3> DEFINE v == reqs'[c]
    <3>1. v \in Seq(Reqs) /\ Len(v) = Len(w) - n
      BY <2>4
    <3> HIDE DEF v
    <3>2. DOMAIN v = 1..Len(v)
      BY <3>1
    <3> QED
      BY <3>1, <3>2 DEF v
  <2> QED
    BY <2>3, <2>4, <2>5, <2>6 DEF Advances
<1> QED
  BY <1>1, <1>2

\* What a step does to the delay of a request that is on queue c at position
\* j when it ends: it is new there, or it has moved up at least as far as it
\* has been missed.
Gains(c, j) ==
    LET x == reqs'[c][j] IN
        \/ skipped'[x] = 0
        \/ \E k \in DOMAIN reqs[c] : reqs[c][k] = x /\ skipped'[x] + j <= skipped[x] + k

LEMMA AdvancesGain ==
    ASSUME TypeOK, TypeOK', NEW c \in Objects, Advances(reqs'[c], reqs[c]),
           NEW j \in DOMAIN reqs'[c],
           \A r \in Reqs : skipped'[r] = skipped[r] \/ skipped'[r] = 0
    PROVE  Gains(c, j)
<1>1. PICK k \in DOMAIN reqs[c] : j <= k /\ reqs'[c][j] = reqs[c][k]
  BY DEF Advances
<1>2. reqs[c][k] \in Reqs /\ reqs[c] \in Seq(Reqs) /\ k \in Nat
  <2>1. reqs[c] \in Seq(Reqs)
    BY DEF TypeOK
  <2> QED
    BY <2>1, ElementOfSeq
<1> DEFINE x == reqs'[c][j]
<1>3. x \in Reqs /\ x = reqs[c][k]
  BY <1>1, <1>2
<1> HIDE DEF x
<1>4. skipped'[x] = 0 \/ skipped'[x] = skipped[x]
  BY <1>3
<1>5. CASE skipped'[x] = skipped[x]
  <2>1. skipped[x] \in Nat
    BY <1>3 DEF TypeOK
  <2>2. k \in Nat /\ j <= k
    BY <1>1, <1>2
  <2>3. j \in Nat
    <3>1. reqs'[c] \in Seq(Reqs)
      BY DEF TypeOK
    <3> QED
      BY <3>1
  <2>4. skipped'[x] + j <= skipped[x] + k
    BY <1>5, <2>1, <2>2, <2>3
  <2> QED
    BY <1>3, <2>4 DEF Gains, x
<1> QED
  BY <1>4, <1>5 DEF Gains, x

\* The scan misses only requests that stand behind the one it answers, and
\* that one leaves the queue.
LEMMA ScanGains ==
    ASSUME TypeOK, TypeOK', OneOwner, CheckRequestTimeouts,
           NEW c \in Objects, NEW j \in DOMAIN reqs'[c]
    PROVE  Gains(c, j)
<1>0. reqs[c] \in Seq(Reqs) /\ reqs'[c] \in Seq(Reqs)
  BY DEF TypeOK
<1> DEFINE n == Len(reqs[c])
<1>1. n \in Nat /\ DOMAIN reqs[c] = 1..n /\ j \in Nat
  BY <1>0
<1>2. ASSUME NEW k \in DOMAIN reqs[c]
      PROVE  reqs[c][k] \in Reqs /\ skipped[reqs[c][k]] \in Nat
  <2>1. reqs[c][k] \in Reqs
    BY <1>0, ElementOfSeq
  <2> QED
    BY <2>1 DEF TypeOK
<1> HIDE DEF n
<1>3. ASSUME NEW k \in DOMAIN reqs[c]
      PROVE  /\ skipped'[reqs[c][k]] \in {skipped[reqs[c][k]], skipped[reqs[c][k]] + 1}
             /\ Reached(c, k) => skipped'[reqs[c][k]] = skipped[reqs[c][k]]
  <2> DEFINE x == reqs[c][k]
  <2>1. x \in Reqs
    BY <1>2
  <2>2. skipped'[x] = IF ScanSkips(x) THEN skipped[x] + 1 ELSE skipped[x]
    BY <2>1 DEF CheckRequestTimeouts
  <2>3. ASSUME Reached(c, k) PROVE ~ ScanSkips(x)
    <3> SUFFICES ASSUME NEW e \in Objects, NEW i \in DOMAIN reqs[e],
                        reqs[e][i] = x, ~ Reached(e, i)
                 PROVE  FALSE
      BY DEF ScanSkips
    <3>1. e = c /\ i = k
      BY DEF OneOwner
    <3> QED
      BY <2>3, <3>1
  <2> QED
    BY <2>2, <2>3
<1>4. CASE \E m \in DOMAIN reqs[c] : Expires(c, m)
  <2> DEFINE m == CHOOSE i \in DOMAIN reqs[c] : Expires(c, i)
  <2>1. m \in DOMAIN reqs[c] /\ Expires(c, m)
    BY <1>4
  <2>2. reqs'[c] = Unlink(reqs[c], m)
    BY <1>4 DEF CheckRequestTimeouts
  <2> HIDE DEF m
  <2>3. IF j < m THEN j \in DOMAIN reqs[c] /\ reqs'[c][j] = reqs[c][j]
                 ELSE j + 1 \in DOMAIN reqs[c] /\ reqs'[c][j] = reqs[c][j + 1]
    BY <1>0, <2>1, <2>2, AdvancesUnlink
  <2>4. CASE j < m
    <3>1. j \in DOMAIN reqs[c] /\ reqs'[c][j] = reqs[c][j]
      BY <2>3, <2>4
    <3>2. Reached(c, j)
      <4>1. \A i \in 1..(j-1) : i \in 1..(m-1)
        BY <1>1, <2>1, <2>4
      <4> QED
        BY <2>1, <4>1 DEF Expires, Reached
    <3>3. skipped'[reqs[c][j]] = skipped[reqs[c][j]]
      BY <1>3, <3>1, <3>2
    <3> QED
      BY <1>1, <1>2, <3>1, <3>3 DEF Gains
  <2>5. CASE ~ (j < m)
    <3>1. j + 1 \in DOMAIN reqs[c] /\ reqs'[c][j] = reqs[c][j + 1]
      BY <2>3, <2>5
    <3>2. skipped'[reqs[c][j + 1]] + j <= skipped[reqs[c][j + 1]] + (j + 1)
      BY <1>1, <1>2, <1>3, <3>1
    <3> QED
      BY <3>1, <3>2 DEF Gains
  <2> QED
    BY <2>4, <2>5
<1>5. CASE ~ \E m \in DOMAIN reqs[c] : Expires(c, m)
  <2>1. reqs'[c] = reqs[c]
    BY <1>5 DEF CheckRequestTimeouts
  <2>2. Reached(c, j)
    <3> SUFFICES ASSUME ~ Reached(c, j) PROVE FALSE
      OBVIOUS
    <3> DEFINE S == {i \in DOMAIN reqs[c] : req[reqs[c][i]].ticks = 1}
    <3>1. S # {} /\ S \subseteq Nat
      <4>1. PICK i \in 1..(j-1) : req[reqs[c][i]].ticks = 1
        BY DEF Reached
      <4>2. i \in DOMAIN reqs[c] /\ DOMAIN reqs[c] \subseteq Nat
        BY <1>1, <2>1
      <4> QED
        BY <4>1, <4>2
    <3>2. PICK i \in S : \A k \in S : i <= k
      BY <3>1, FirstOf
    <3>3. \A k \in 1..(i-1) : k \in DOMAIN reqs[c] /\ ~ (i <= k)
      BY <1>1, <3>2
    <3>4. Expires(c, i)
      BY <3>2, <3>3 DEF Expires, Reached
    <3> QED
      BY <1>5, <3>2, <3>4
  <2>3. skipped'[reqs[c][j]] = skipped[reqs[c][j]]
    BY <1>3, <2>1, <2>2
  <2> QED
    BY <1>1, <1>2, <2>1, <2>3 DEF Gains
<1> QED
  BY <1>4, <1>5

\* Every other step leaves the delays alone or starts them again.
LEMMA StepGains ==
    ASSUME TypeOK, TypeOK', OneOwner, [Next]_vars,
           NEW c \in Objects, NEW j \in DOMAIN reqs'[c]
    PROVE  Gains(c, j)
<1> USE DEF serverVars, packetVars, clientVars, remoteVars, historyVars
<1> DEFINE Kept == \A r \in Reqs : skipped'[r] = skipped[r] \/ skipped'[r] = 0
<1>0. reqs \in [Objects -> Seq(Reqs)]
  BY DEF TypeOK
<1>1. \A w \in Seq(Reqs) : Advances(w, w)
  BY DEF Advances
<1>2. CASE skipped' = skipped /\ reqs' = reqs
  BY <1>0, <1>1, <1>2, AdvancesGain
<1>3. CASE ClientStep
  <2>1. \A r, type, id, len, timeout :
          PutMsg(r, type, id, len, timeout) => UNCHANGED <<skipped, reqs>>
    BY DEF PutMsg
  <2>2. \A k : FreeConnection(k) => UNCHANGED <<skipped, reqs>>
    BY DEF FreeConnection
  <2>3. ASSUME NEW r \in Reqs, TakeBack(r) PROVE Kept
    BY <2>3 DEF TakeBack, TypeOK
  <2>4. ASSUME NEW r \in Reqs, GetReply(r) PROVE Gains(c, j)
    <3>1. Kept /\ reqs' = reqs
      BY <2>3, <2>4 DEF GetReply
    <3> QED
      BY <1>0, <1>1, <3>1, AdvancesGain
  <2>5. ASSUME NEW r \in Reqs, Abort(r) PROVE Gains(c, j)
    <3>1. Kept
      BY <2>3, <2>5 DEF Abort
    <3>2. reqs' = reqs \/ \E e \in Objects : \E i \in DOMAIN reqs[e] :
                            reqs' = [reqs EXCEPT ![e] = Unlink(@, i)]
      BY <2>5 DEF Abort
    <3>3. ASSUME NEW e \in Objects, NEW i \in DOMAIN reqs[e],
                 reqs' = [reqs EXCEPT ![e] = Unlink(reqs[e], i)]
          PROVE  Advances(reqs'[c], reqs[c])
      <4>1. c = e => reqs'[c] = Unlink(reqs[c], i)
        BY <1>0, <3>3
      <4>2. c # e => reqs'[c] = reqs[c]
        BY <1>0, <3>3
      <4>3. reqs[c] \in Seq(Reqs) /\ reqs[e] \in Seq(Reqs)
        BY <1>0
      <4> QED
        BY <1>1, <4>1, <4>2, <4>3, AdvancesUnlink
    <3>4. Advances(reqs'[c], reqs[c])
      BY <1>0, <1>1, <3>2, <3>3
    <3> HIDE DEF Gains
    <3> QED
      BY <3>1, <3>4, AdvancesGain
  <2> QED
    BY <1>2, <1>3, <2>1, <2>2, <2>4, <2>5
    DEF ClientStep, OpenConnection, CloseConnection, Read, Write
<1>4. CASE HandleRequest
  <2>1. ASSUME NEW r \in Reqs, NEW e \in Objects, NEW s \in CnnState, HandleOpen(r, e, s)
        PROVE  Gains(c, j)
    <3>1. skipped' = [skipped EXCEPT ![r] = 0] /\ reqs' = [reqs EXCEPT ![e] = <<r>>]
      BY <2>1 DEF HandleOpen
    <3>2. CASE c = e
      <4>1. reqs'[c] = <<r>>
        BY <1>0, <3>1, <3>2
      <4>2. reqs'[c][j] = r
        <5>1. j \in DOMAIN <<r>>
          BY <4>1
        <5>2. <<r>>[j] = r
          BY <5>1
        <5> QED
          BY <4>1, <5>2
      <4>3. skipped'[r] = 0
        BY <3>1 DEF TypeOK
      <4> QED
        BY <4>2, <4>3 DEF Gains
    <3>3. CASE c # e
      <4>1. Kept /\ Advances(reqs'[c], reqs[c])
        BY <1>0, <1>1, <3>1, <3>3 DEF TypeOK
      <4> QED
        BY <4>1, AdvancesGain
    <3> QED
      BY <3>2, <3>3
  <2>2. ASSUME NEW r \in Reqs, NEW e \in Objects, HandleRead(r, e) PROVE Gains(c, j)
    <3> DEFINE w  == AddRequest(reqs[e], r)
               rq == [req EXCEPT ![r] = Accept(r, cnn[e].id)]
    <3>1. PushToClient(e, packets[e], w, rq, inUse) /\ skipped' = [skipped EXCEPT ![r] = 0]
      BY <2>2 DEF HandleRead
    <3>2. w \in Seq(Reqs) /\ w = Append(reqs[e], r)
      BY <1>0 DEF AddRequest
    <3>3. Kept
      BY <3>1 DEF TypeOK
    <3> HIDE DEF w, rq
    <3>4. Advances(reqs'[e], w) /\ \A f \in Objects : f # e => reqs'[f] = reqs[f]
      BY <3>1, <3>2, PushAdvances
    <3>5. CASE c = e
      <4>1. PICK k \in DOMAIN w : j <= k /\ reqs'[c][j] = w[k]
        BY <3>4, <3>5 DEF Advances
      <4>2. \/ w[k] = r
            \/ k \in DOMAIN reqs[c] /\ w[k] = reqs[c][k]
        BY <1>0, <3>2, <3>5
      <4>3. CASE w[k] = r
        BY <3>1, <4>1, <4>3 DEF Gains, TypeOK
      <4>4. CASE k \in DOMAIN reqs[c] /\ w[k] = reqs[c][k]
        <5> DEFINE x == reqs[c][k]
        <5>1. x \in Reqs /\ k \in Nat
          <6>1. reqs[c] \in Seq(Reqs)
            BY <1>0
          <6> QED
            BY <4>4, <6>1, ElementOfSeq
        <5>2. skipped'[x] = 0 \/ skipped'[x] = skipped[x]
          BY <3>3, <5>1
        <5>3. skipped[x] \in Nat
          BY <5>1 DEF TypeOK
        <5>4. j \in Nat
          <6>1. reqs'[c] \in Seq(Reqs)
            BY DEF TypeOK
          <6> QED
            BY <6>1
        <5> HIDE DEF x
        <5>5. skipped'[x] = 0 \/ skipped'[x] + j <= skipped[x] + k
          BY <4>1, <5>1, <5>2, <5>3, <5>4
        <5>6. reqs'[c][j] = x /\ reqs[c][k] = x
          BY <4>1, <4>4 DEF x
        <5> QED
          BY <4>4, <5>5, <5>6 DEF Gains
      <4> QED
        BY <4>2, <4>3, <4>4
    <3>6. CASE c # e
      <4>1. Advances(reqs'[c], reqs[c])
        BY <1>0, <1>1, <3>4, <3>6
      <4> QED
        BY <3>3, <4>1, AdvancesGain
    <3> QED
      BY <3>5, <3>6
  <2>3. ASSUME NEW r \in Reqs, NEW e \in Objects,
               HandleClose(r, e) \/ RefuseRequest(r, e) \/ HandleWrite(r, e)
        PROVE  UNCHANGED <<skipped, reqs>>
    BY <2>3 DEF HandleClose, RefuseRequest, HandleWrite
  <2>4. ASSUME NEW r \in Reqs, RejectRequest(r) \/ RefuseControl(r)
        PROVE  UNCHANGED <<skipped, reqs>>
    BY <2>4 DEF RejectRequest, RefuseControl
  <2> QED
    BY <1>2, <1>4, <2>1, <2>2, <2>3, <2>4 DEF HandleRequest
<1>5. CASE HandlePacket
  <2>0. skipped' = skipped
    BY <1>5 DEF HandlePacket, UnknownConnection, HandleControlPacket, HandleConnected,
                HandleNoHandler, HandleDisconnected, HandleData, GetPacket
  <2>1. ASSUME NEW e \in Objects, NEW state, AnswerOpen(e, state)
        PROVE  Advances(reqs'[c], reqs[c])
    <3>1. reqs' = reqs \/ \E i \in DOMAIN reqs[e] : reqs' = [reqs EXCEPT ![e] = Unlink(@, i)]
      BY <2>1 DEF AnswerOpen
    <3>2. ASSUME NEW i \in DOMAIN reqs[e], reqs' = [reqs EXCEPT ![e] = Unlink(reqs[e], i)]
          PROVE  Advances(reqs'[c], reqs[c])
      <4>1. c = e => reqs'[c] = Unlink(reqs[c], i)
        BY <1>0, <3>2
      <4>2. c # e => reqs'[c] = reqs[c]
        BY <1>0, <3>2
      <4>3. reqs[c] \in Seq(Reqs) /\ reqs[e] \in Seq(Reqs)
        BY <1>0
      <4> QED
        BY <1>1, <4>1, <4>2, <4>3, AdvancesUnlink
    <3> QED
      BY <1>0, <1>1, <3>1, <3>2
  <2>2. ASSUME NEW e \in Objects, HandleConnected(e) \/ HandleNoHandler(e)
        PROVE  Advances(reqs'[c], reqs[c])
    BY <2>1, <2>2 DEF HandleConnected, HandleNoHandler
  <2>3. ASSUME NEW e \in Objects, HandleDisconnected(e)
        PROVE  Advances(reqs'[c], reqs[c])
    <3>1. reqs'[c] = <<>> \/ reqs'[c] = reqs[c]
      BY <1>0, <2>3 DEF HandleDisconnected
    <3>2. Advances(<<>>, reqs[c])
      BY DEF Advances
    <3> QED
      BY <1>0, <1>1, <3>1, <3>2
  <2>4. ASSUME NEW e \in Objects, HandleData(e) PROVE Advances(reqs'[c], reqs[c])
    <3>1. reqs' = reqs \/ \E q : PushToClient(e, q, reqs[e], req, Hold)
      BY <2>4 DEF HandleData
    <3>2. ASSUME NEW q, PushToClient(e, q, reqs[e], req, Hold)
          PROVE  Advances(reqs'[c], reqs[c])
      <4>1. Advances(reqs'[e], reqs[e]) /\ \A f \in Objects : f # e => reqs'[f] = reqs[f]
        BY <1>0, <3>2, PushAdvances
      <4> QED
        BY <1>0, <1>1, <4>1
    <3> QED
      BY <1>0, <1>1, <3>1, <3>2
  <2>5. ASSUME UnknownConnection \/ HandleControlPacket
        PROVE  Advances(reqs'[c], reqs[c])
    BY <1>0, <1>1, <2>5 DEF UnknownConnection, HandleControlPacket
  <2>6. Advances(reqs'[c], reqs[c])
    BY <1>5, <2>2, <2>3, <2>4, <2>5 DEF HandlePacket
  <2> QED
    BY <2>0, <2>6, AdvancesGain
<1>6. CASE CheckRequestTimeouts
  BY <1>6, ScanGains
<1>7. CASE PiStep
  <2>1. UNCHANGED amigaVars
    BY <1>7 DEF PiStep, PiAnswerConnect, PiAnswerDisconnect, LeaveAmiga, LosePacket,
                ResendPacket, PiSend, PiClose
  <2> QED
    BY <1>2, <2>1 DEF amigaVars
<1>8. CASE UNCHANGED vars
  BY <1>2, <1>8 DEF vars
<1> QED
  BY <1>3, <1>4, <1>5, <1>6, <1>7, <1>8 DEF Next

\* APB_CheckRequestTimeouts loses its way when it replies to a request, and
\* misses those behind it in that tick; but it never misses one in more
\* ticks than there are requests, because each time one ahead of it leaves.
THEOREM DelayBounded == Spec => []BoundedDelay
<1>1. Init => BoundedDelay
  BY DEF Init, BoundedDelay
<1>2. ASSUME TypeOK, TypeOK', OneOwner, OneOwner', BoundedDelay, [Next]_vars
      PROVE  BoundedDelay'
  <2> SUFFICES ASSUME NEW c \in Objects, NEW j \in DOMAIN reqs'[c]
               PROVE  skipped'[reqs'[c][j]] + j <= Cardinality(Reqs)
    BY DEF BoundedDelay
  <2>1. Gains(c, j)
    BY <1>2, StepGains
  <2>2. reqs'[c] \in Seq(Reqs)
    BY <1>2 DEF TypeOK
  <2>3. Len(reqs'[c]) <= Cardinality(Reqs) /\ Cardinality(Reqs) \in Nat
    <3>1. \A i, k \in DOMAIN reqs'[c] : reqs'[c][i] = reqs'[c][k] => i = k
      BY <1>2 DEF OneOwner
    <3> QED
      BY <2>2, <3>1, QueueLength
  <2>4. j \in Nat /\ j <= Len(reqs'[c]) /\ Len(reqs'[c]) \in Nat
    BY <2>2
  <2> DEFINE x == reqs'[c][j]
  <2>5. CASE skipped'[x] = 0
    BY <2>3, <2>4, <2>5
  <2>6. CASE \E k \in DOMAIN reqs[c] : reqs[c][k] = x /\ skipped'[x] + j <= skipped[x] + k
    <3>1. PICK k \in DOMAIN reqs[c] : reqs[c][k] = x /\ skipped'[x] + j <= skipped[x] + k
      BY <2>6
    <3>2. skipped[x] + k <= Cardinality(Reqs)
      BY <1>2, <3>1 DEF BoundedDelay
    <3>3. x \in Reqs /\ k \in Nat
      <4>1. reqs[c] \in Seq(Reqs)
        BY <1>2 DEF TypeOK
      <4> QED
        BY <2>2, <3>1, <4>1, ElementOfSeq
    <3>4. skipped'[x] \in Nat /\ skipped[x] \in Nat
      BY <1>2, <3>3 DEF TypeOK
    <3> HIDE DEF x
    <3> QED
      BY <2>3, <2>4, <3>1, <3>2, <3>3, <3>4 DEF x
  <2> QED
    BY <2>1, <2>5, <2>6 DEF Gains
<1> QED
  BY <1>1, <1>2, TypeCorrect, Ownership, PTL DEF Spec

=============================================================================
