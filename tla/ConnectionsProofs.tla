------------------------- MODULE ConnectionsProofs -------------------------
(***************************************************************************)
(* Theorems about Connections, for every set of clients, requests and      *)
(* connection objects and every value of the bounds.                       *)
(***************************************************************************)
EXTENDS Connections, SequenceTheorems, TLAPS

-----------------------------------------------------------------------------
(* Facts about the operations on queues.                                   *)

\* Remove() of an Exec list leaves a list one shorter, whose elements are
\* those of the old list from before and from behind the removed node.
LEMMA UnlinkSeq ==
    ASSUME NEW S, NEW w \in Seq(S), NEW i \in DOMAIN w
    PROVE  /\ Unlink(w, i) \in Seq(S)
           /\ Len(Unlink(w, i)) = Len(w) - 1
           /\ \A j \in 1..(Len(w) - 1) :
                Unlink(w, i)[j] = IF j < i THEN w[j] ELSE w[j + 1]
<1>1. i \in 1..Len(w) /\ Len(w) \in Nat
  OBVIOUS
<1> DEFINE A == SubSeq(w, 1, i-1)
           B == SubSeq(w, i+1, Len(w))
<1>2. /\ A \in Seq(S) /\ Len(A) = i - 1
      /\ \A j \in 1..(i-1) : A[j] = w[j]
  <2>1. \A j \in 1..(i-1) : w[j] \in S
    BY <1>1
  <2> QED
    BY <1>1, <2>1, SubSeqProperties, 1 \in Int, i - 1 \in Int
<1>3. /\ B \in Seq(S) /\ Len(B) = Len(w) - i
      /\ \A j \in 1..(Len(w)-i) : B[j] = w[i + j]
  <2>1. \A j \in (i+1)..Len(w) : w[j] \in S
    BY <1>1
  <2>2. /\ B \in Seq(S)
        /\ Len(B) = IF i + 1 <= Len(w) THEN Len(w) - (i+1) + 1 ELSE 0
        /\ \A j \in 1..(Len(w) - (i+1) + 1) : B[j] = w[(i+1) + j - 1]
    BY <1>1, <2>1, SubSeqProperties, i + 1 \in Int, Len(w) \in Int
  <2> QED
    BY <1>1, <2>2
<1> HIDE DEF A, B
<1> DEFINE C == A \o B
<1>4. /\ C \in Seq(S) /\ Len(C) = Len(A) + Len(B)
      /\ \A j \in 1..(Len(A) + Len(B)) : C[j] = IF j <= Len(A) THEN A[j] ELSE B[j - Len(A)]
  BY <1>2, <1>3, ConcatProperties
<1>5. Unlink(w, i) = C
  BY DEF Unlink, RemoveAt, A, B
<1> HIDE DEF C
<1>6. ASSUME NEW j \in 1..(Len(w) - 1)
      PROVE  C[j] = IF j < i THEN w[j] ELSE w[j + 1]
  <2>0. C[j] = IF j <= i - 1 THEN A[j] ELSE B[j - (i - 1)]
    <3>1. Len(A) = i - 1 /\ j \in 1..(Len(A) + Len(B))
      BY ONLY <1>1, <1>2, <1>3, j \in 1..(Len(w) - 1)
    <3> QED
      BY ONLY <1>4, <3>1
  <2>1. CASE j < i
    BY <2>0, <2>1, <1>1, <1>2
  <2>2. CASE j >= i
    <3>1. j - (i - 1) \in 1..(Len(w) - i) /\ i + (j - (i - 1)) = j + 1 /\ ~ (j <= i - 1)
      BY <2>2, <1>1
    <3>2. B[j - (i - 1)] = w[i + (j - (i - 1))]
      BY ONLY <3>1, <1>3
    <3> QED
      BY ONLY <3>1, <3>2, <2>0, <2>2, <1>1
  <2> QED
    BY <2>1, <2>2, <1>1
<1>7. Len(C) = Len(w) - 1
  BY ONLY <1>1, <1>2, <1>3, <1>4
<1> QED
  BY ONLY <1>4, <1>5, <1>6, <1>7

\* What is left of a queue behind its first m elements.
LEMMA Rest ==
    ASSUME NEW S, NEW q \in Seq(S), NEW m \in 0..Len(q)
    PROVE  /\ SubSeq(q, m + 1, Len(q)) \in Seq(S)
           /\ Len(SubSeq(q, m + 1, Len(q))) = Len(q) - m
           /\ \A i \in 1..(Len(q) - m) : SubSeq(q, m + 1, Len(q))[i] = q[m + i]
<1>1. \A i \in (m+1)..Len(q) : q[i] \in S
  OBVIOUS
<1>2. /\ SubSeq(q, m + 1, Len(q)) \in Seq(S)
      /\ Len(SubSeq(q, m + 1, Len(q))) = IF m + 1 <= Len(q) THEN Len(q) - (m+1) + 1 ELSE 0
      /\ \A i \in 1..(Len(q) - (m+1) + 1) : SubSeq(q, m + 1, Len(q))[i] = q[(m+1) + i - 1]
  BY <1>1, SubSeqProperties, m + 1 \in Int, Len(q) \in Int
<1> QED
  BY <1>2

-----------------------------------------------------------------------------
(* Type correctness.                                                       *)

LEMMA InitType == Init => TypeOK
  BY ConnectionsAssumption
  DEF Init, TypeOK, Unused, NoCnn, CnnState, Reqs, Request, ReqType, ReqState

\* PushToClient keeps the types of what it changes, whatever queues it is
\* given.
LEMMA PushType ==
    ASSUME TypeOK, NEW c \in Objects,
           NEW q \in Seq(Queued), NEW w \in Seq(Reqs), NEW rq \in [Reqs -> Request],
           NEW used \in SUBSET Nat,
           PushToClient(c, q, w, rq, used)
    PROVE  /\ packets' \in [Objects -> Seq(Queued)]
           /\ reqs' \in [Objects -> Seq(Reqs)]
           /\ req' \in [Reqs -> Request]
           /\ inUse' \subseteq Nat
           /\ where' \in [Reqs -> {"client", "server", "replied"}]
           /\ delivered' \in [Objects -> Seq(Nat)]
<1>1. CASE ~ CanPush(c)
  BY <1>1 DEF PushToClient, TypeOK
<1>2. CASE CanPush(c)
  <2>0. PICK n \in 0..Len(w) : \E d \in [0..n -> 0..Len(q)] : PushResult(c, q, w, rq, used, n, d)
    BY <1>2 DEF PushToClient, PushResult
  <2>1. PICK d \in [0..n -> 0..Len(q)] : PushResult(c, q, w, rq, used, n, d)
    BY <2>0
  <2> USE DEF PushResult
  <2>2. n \in 0..Len(w) /\ d[n] \in 0..Len(q) /\ Len(q) \in Nat /\ Len(w) \in Nat
    OBVIOUS
  <2>a. \A i \in 1..Len(q) : q[i].sn \in Nat
    <3>1. ASSUME NEW i \in 1..Len(q) PROVE q[i] \in Queued
      BY ElementOfSeq
    <3> QED
      BY <3>1 DEF Queued
  <2>3. packets' \in [Objects -> Seq(Queued)]
    BY <2>1, <2>2, Rest DEF TypeOK
  <2>4. reqs' \in [Objects -> Seq(Reqs)]
    BY <2>1, <2>2, Rest DEF TypeOK
  <2>5. ASSUME NEW r \in Reqs, NEW i \in 1..n
        PROVE  Answer(rq[r], q, d[i-1], d[i]) \in Request
    <3>1. rq[r] \in Request /\ d[i] \in 0..Len(q) /\ d[i-1] \in 0..Len(q)
      BY <2>2
    <3>2. CASE d[i] = d[i-1]
      BY <3>1, <3>2 DEF Answer, Request, ReqState
    <3>3. CASE d[i] # d[i-1]
      <4>1. d[i] \in 1..Len(q)
        BY <3>1, <3>3, <2>1, <2>2 DEF PushLoop
      <4>2. q[d[i]].sn \in Nat
        BY <4>1, <2>a
      <4> QED
        BY <3>1, <3>3, <4>2 DEF Answer, Request, ReqState
    <3> QED
      BY <3>2, <3>3
  <2>6. req' \in [Reqs -> Request]
    <3>1. ASSUME NEW r \in Reqs
          PROVE (IF \E i \in 1..n : w[i] = r
                 THEN LET i == CHOOSE i \in 1..n : w[i] = r
                      IN  Answer(rq[r], q, d[i-1], d[i])
                 ELSE rq[r]) \in Request
      <4>1. CASE \E i \in 1..n : w[i] = r
        <5> DEFINE j == CHOOSE i \in 1..n : w[i] = r
        <5>1. j \in 1..n
          BY <4>1
        <5>2. Answer(rq[r], q, d[j-1], d[j]) \in Request
          BY <5>1, <2>5
        <5> QED
          BY <4>1, <5>2
      <4>2. CASE ~ \E i \in 1..n : w[i] = r
        BY <4>2
      <4> QED
        BY <4>1, <4>2
    <3> QED
      BY <3>1, <2>1
  <2>7. inUse' \subseteq Nat
    BY <2>1
  <2>8. where' \in [Reqs -> {"client", "server", "replied"}]
    BY <2>1 DEF TypeOK
  <2>9. delivered' \in [Objects -> Seq(Nat)]
    <3>1. [i \in 1..d[n] |-> q[i].sn] \in Seq(Nat)
      <4> DEFINE m == d[n]
      <4>1. m \in Nat /\ \A i \in 1..m : q[i].sn \in Nat
        BY <2>2, <2>a
      <4> HIDE DEF m
      <4>2. [i \in 1..m |-> q[i].sn] \in Seq(Nat)
        BY <4>1
      <4> QED
        BY <4>2 DEF m
    <3>2. delivered[c] \o [i \in 1..d[n] |-> q[i].sn] \in Seq(Nat)
      BY <3>1, ConcatProperties DEF TypeOK
    <3> QED
      BY <2>1, <3>2 DEF TypeOK
  <2> QED
    BY <2>3, <2>4, <2>6, <2>7, <2>8, <2>9
<1> QED
  BY <1>1, <1>2

LEMMA AcceptType ==
    ASSUME TypeOK, NEW r \in Reqs, NEW id \in 0..(IdMod-1)
    PROVE  Accept(r, id) \in Request
<1>1. req[r] \in Request
  BY DEF TypeOK
<1> QED
  BY <1>1 DEF Accept, Request, ReqState

LEMMA AllocType ==
    ASSUME TypeOK, NEW type \in OutType, NEW id \in 0..(IdMod-1),
           NEW r \in Reqs \cup {NoReq}, AllocPacket(type, id, r)
    PROVE  out' \in Seq(OutPacket)
<1>1. [type |-> type, conn |-> id, req |-> r] \in OutPacket
  BY DEF OutPacket
<1> QED
  BY <1>1 DEF AllocPacket, TypeOK

LEMMA ReplyType ==
    ASSUME TypeOK, NEW r \in Reqs, NEW fields \in Request, ReplyMsg(r, fields)
    PROVE  /\ req' \in [Reqs -> Request]
           /\ where' \in [Reqs -> {"client", "server", "replied"}]
  BY DEF ReplyMsg, TypeOK

\* The request at the head of the public port.
LEMMA PortHead ==
    ASSUME TypeOK, NEW r, NEW type, GetMsg(r, type)
    PROVE  r \in Reqs /\ port' \in Seq(Reqs)
<1>1. port \in Seq(Reqs) /\ port # <<>>
  BY DEF GetMsg, TypeOK
<1> QED
  BY <1>1, HeadTailProperties DEF GetMsg

\* The packet at the head of the input.
LEMMA InHead ==
    ASSUME TypeOK, in # <<>>
    PROVE  Head(in) \in InPacket /\ Tail(in) \in Seq(InPacket)
  BY HeadTailProperties DEF TypeOK

LEMMA OutHead ==
    ASSUME TypeOK, out # <<>>
    PROVE  Head(out) \in OutPacket /\ Tail(out) \in Seq(OutPacket)
  BY HeadTailProperties DEF TypeOK

LEMMA FoundType ==
    ASSUME TypeOK, NEW id, NEW c \in Objects, FindConnection(id, c)
    PROVE  cnn[c].id = id /\ id \in 0..(IdMod-1)
  BY DEF FindConnection, TypeOK

\* Whatever AnswerOpen does is one reply or nothing.
LEMMA AnswerOpenType ==
    ASSUME TypeOK, NEW c \in Objects, NEW state \in ReqState, AnswerOpen(c, state)
    PROVE  /\ reqs' \in [Objects -> Seq(Reqs)]
           /\ req' \in [Reqs -> Request]
           /\ where' \in [Reqs -> {"client", "server", "replied"}]
<1>1. CASE UNCHANGED <<reqs, req, where>>
  BY <1>1 DEF TypeOK
<1>2. CASE \E i \in DOMAIN reqs[c] :
             /\ reqs' = [reqs EXCEPT ![c] = Unlink(@, i)]
             /\ ReplyMsg(reqs[c][i], [req[reqs[c][i]] EXCEPT !.state = state])
  <2>1. PICK i \in DOMAIN reqs[c] :
             /\ reqs' = [reqs EXCEPT ![c] = Unlink(@, i)]
             /\ ReplyMsg(reqs[c][i], [req[reqs[c][i]] EXCEPT !.state = state])
    BY <1>2
  <2>2. reqs[c] \in Seq(Reqs)
    BY DEF TypeOK
  <2>3. reqs[c][i] \in Reqs
    BY <2>2, ElementOfSeq
  <2>4. [req[reqs[c][i]] EXCEPT !.state = state] \in Request
    <3>1. req[reqs[c][i]] \in Request
      BY <2>3 DEF TypeOK
    <3> QED
      BY <3>1 DEF Request
  <2>5. Unlink(reqs[c], i) \in Seq(Reqs)
    BY <2>2, UnlinkSeq
  <2> QED
    BY <2>1, <2>3, <2>4, <2>5, ReplyType DEF TypeOK
<1> QED
  BY <1>1, <1>2 DEF AnswerOpen

\* The scan of CheckRequestTimeouts.
LEMMA ScanType ==
    ASSUME TypeOK, CheckRequestTimeouts
    PROVE  TypeOK'
<1>1. req' \in [Reqs -> Request]
  <2>1. ASSUME NEW r \in Reqs
        PROVE  /\ [req[r] EXCEPT !.state = "TIMEOUT"] \in Request
               /\ [req[r] EXCEPT !.ticks = CountDown(@)] \in Request
    <3>1. req[r] \in Request
      BY DEF TypeOK
    <3> QED
      BY <3>1 DEF Request, ReqState, CountDown
  <2> QED
    BY <2>1 DEF CheckRequestTimeouts, TypeOK
<1>2. reqs' \in [Objects -> Seq(Reqs)]
  <2>1. ASSUME NEW c \in Objects, \E i \in DOMAIN reqs[c] : Expires(c, i)
        PROVE  Unlink(reqs[c], CHOOSE i \in DOMAIN reqs[c] : Expires(c, i)) \in Seq(Reqs)
    <3> DEFINE k == CHOOSE i \in DOMAIN reqs[c] : Expires(c, i)
    <3>1. k \in DOMAIN reqs[c]
      BY <2>1
    <3>2. reqs[c] \in Seq(Reqs)
      BY DEF TypeOK
    <3> HIDE DEF k
    <3>3. Unlink(reqs[c], k) \in Seq(Reqs)
      BY <3>1, <3>2, UnlinkSeq
    <3> QED
      BY <3>3 DEF k
  <2> QED
    BY <2>1 DEF CheckRequestTimeouts, TypeOK
<1>3. where' \in [Reqs -> {"client", "server", "replied"}]
  BY DEF CheckRequestTimeouts, TypeOK
<1>4. skipped' \in [Reqs -> Nat]
  BY DEF CheckRequestTimeouts, TypeOK
<1> QED
  BY <1>1, <1>2, <1>3, <1>4
  DEF CheckRequestTimeouts, TypeOK, packetVars, clientVars, remoteVars

\* The steps of the clients.
LEMMA ClientType ==
    ASSUME TypeOK, ClientStep
    PROVE  TypeOK'
<1> USE ConnectionsAssumption
<1> USE DEF serverVars, packetVars, clientVars, remoteVars, historyVars, DEFAULT_CONNECTION
<1>1. ASSUME NEW r \in Reqs, NEW type \in ReqType, NEW id \in 0..(IdMod-1),
             NEW len \in Nat, NEW timeout \in Nat, PutMsg(r, type, id, len, timeout)
      PROVE  /\ req' \in [Reqs -> Request]
             /\ where' \in [Reqs -> {"client", "server", "replied"}]
             /\ port' \in Seq(Reqs)
  <2>1. req[r] \in Request
    BY DEF TypeOK
  <2>2. [req[r] EXCEPT !.type = type, !.conn = id, !.len = len, !.timeout = timeout] \in Request
    BY <2>1 DEF Request
  <2>3. req' = [req EXCEPT ![r] = [req[r] EXCEPT !.type = type, !.conn = id, !.len = len,
                                                !.timeout = timeout]]
    BY <1>1, <2>1 DEF PutMsg, TypeOK
  <2>4. req' \in [Reqs -> Request]
    BY <2>2, <2>3 DEF TypeOK
  <2>5. where' = [where EXCEPT ![r] = "server"] /\ port' = Append(port, r)
    BY <1>1 DEF PutMsg
  <2> QED
    BY <2>4, <2>5 DEF TypeOK
<1>2. ASSUME NEW r \in Reqs, TakeBack(r)
      PROVE  /\ req' \in [Reqs -> Request]
             /\ where' \in [Reqs -> {"client", "server", "replied"}]
             /\ skipped' \in [Reqs -> Nat]
  <2>1. req[r] \in Request
    BY DEF TypeOK
  <2>2. Unused(req[r].ticks) \in Request
    BY <2>1 DEF Unused, Request, ReqType, ReqState
  <2> QED
    BY <1>2, <2>2 DEF TakeBack, TypeOK
<1>3. ASSUME NEW k \in Clients, OpenConnection(k) PROVE TypeOK'
  <2>1. <<k, Ctl>> \in Reqs /\ "OPEN" \in ReqType /\ 0 \in 0..(IdMod-1) /\ CtlTimeout \in Nat
    BY DEF Reqs, ReqType
  <2> QED
    BY <1>3, <2>1, <1>1 DEF OpenConnection, PutMsg, TypeOK
<1>4. ASSUME NEW k \in Clients, CloseConnection(k) PROVE TypeOK'
  <2>1. <<k, Ctl>> \in Reqs /\ "CLOSE" \in ReqType /\ connId[k] \in 0..(IdMod-1) /\ CtlTimeout \in Nat
    BY DEF Reqs, ReqType, TypeOK
  <2> QED
    BY <1>4, <2>1, <1>1 DEF CloseConnection, PutMsg, TypeOK
<1>5. ASSUME NEW k \in Clients, NEW s \in Slots, NEW len \in Lengths, NEW timeout \in Timeouts,
             Read(k, s, len, timeout)
      PROVE  TypeOK'
  <2>1. <<k, s>> \in Reqs /\ "READ" \in ReqType /\ connId[k] \in 0..(IdMod-1)
        /\ len \in Nat /\ timeout \in Nat
    BY DEF Reqs, ReqType, TypeOK
  <2> QED
    BY <1>5, <2>1, <1>1 DEF Read, PutMsg, TypeOK
<1>6. ASSUME NEW k \in Clients, NEW s \in Slots, Write(k, s) PROVE TypeOK'
  <2>1. <<k, s>> \in Reqs /\ "WRITE" \in ReqType /\ connId[k] \in 0..(IdMod-1)
    BY DEF Reqs, ReqType, TypeOK
  <2> QED
    BY <1>6, <2>1, <1>1 DEF Write, PutMsg, TypeOK
<1>7. ASSUME NEW r \in Reqs, GetReply(r) PROVE TypeOK'
  <2>1. TakeBack(r)
    BY <1>7 DEF GetReply
  <2>2. r[1] \in Clients
    BY DEF Reqs
  <2>3. req[r].conn \in 0..(IdMod-1)
    BY DEF TypeOK, Request
  <2>4. /\ phase' \in [Clients -> {"idle", "opening", "open", "failed", "closing"}]
        /\ connId' \in [Clients -> 0..(IdMod-1)]
    <3>1. CASE r[2] # Ctl
      BY <1>7, <3>1 DEF GetReply, TypeOK
    <3>2. CASE r[2] = Ctl /\ req[r].type = "OPEN"
      BY <1>7, <3>2, <2>2, <2>3 DEF GetReply, TypeOK
    <3>3. CASE r[2] = Ctl /\ req[r].type # "OPEN"
      <4>1. /\ phase' = [phase EXCEPT ![r[1]] = "idle"]
            /\ connId' = [connId EXCEPT ![r[1]] = 0]
        BY <1>7, <3>3 DEF GetReply
      <4> QED
        BY <4>1, <2>2 DEF TypeOK
    <3> QED
      BY <3>1, <3>2, <3>3
  <2> QED
    BY <1>7, <1>2, <2>1, <2>4 DEF GetReply, TypeOK
<1>8. ASSUME NEW r \in Reqs, Abort(r) PROVE TypeOK'
  <2>1. TakeBack(r)
    BY <1>8 DEF Abort
  <2>2. port' \in Seq(Reqs) /\ reqs' \in [Objects -> Seq(Reqs)]
    <3>1. ASSUME NEW w \in Seq(Reqs), NEW i \in DOMAIN w PROVE Unlink(w, i) \in Seq(Reqs)
      BY UnlinkSeq
    <3>2. CASE UNCHANGED <<port, reqs>>
      BY <3>2 DEF TypeOK
    <3>3. CASE \E i \in DOMAIN port : port' = Unlink(port, i) /\ UNCHANGED reqs
      BY <3>1, <3>3 DEF TypeOK
    <3>4. CASE \E c \in Objects : \E i \in DOMAIN reqs[c] :
                 reqs' = [reqs EXCEPT ![c] = Unlink(@, i)] /\ UNCHANGED port
      <4>1. PICK c \in Objects : \E i \in DOMAIN reqs[c] :
                   reqs' = [reqs EXCEPT ![c] = Unlink(@, i)] /\ UNCHANGED port
        BY <3>4
      <4>2. PICK i \in DOMAIN reqs[c] :
                   reqs' = [reqs EXCEPT ![c] = Unlink(@, i)] /\ UNCHANGED port
        BY <4>1
      <4>3. Unlink(reqs[c], i) \in Seq(Reqs)
        BY <3>1 DEF TypeOK
      <4> QED
        BY <4>2, <4>3 DEF TypeOK
    <3> QED
      BY <1>8, <3>2, <3>3, <3>4 DEF Abort
  <2> QED
    BY <1>8, <1>2, <2>1, <2>2 DEF Abort, TypeOK
<1>9. ASSUME NEW k \in Clients, FreeConnection(k) PROVE TypeOK'
  <2>1. /\ phase' = [phase EXCEPT ![k] = "idle"]
        /\ connId' = [connId EXCEPT ![k] = 0]
    BY <1>9 DEF FreeConnection
  <2>2. /\ phase' \in [Clients -> {"idle", "opening", "open", "failed", "closing"}]
        /\ connId' \in [Clients -> 0..(IdMod-1)]
    <3>1. phase \in [Clients -> {"idle", "opening", "open", "failed", "closing"}]
          /\ connId \in [Clients -> 0..(IdMod-1)]
      BY DEF TypeOK
    <3>2. 0 \in 0..(IdMod-1)
      OBVIOUS
    <3> QED
      BY <2>1, <3>1, <3>2
  <2>3. UNCHANGED <<nextId, opens, cnnList, cnn, packets, reqs, inUse, kept, out, req, port, where,
                    in, piOpen, piSent, accepted, delivered, skipped>>
    BY <1>9 DEF FreeConnection
  <2> QED
    BY <2>2, <2>3 DEF TypeOK
<1> QED
  BY <1>3, <1>4, <1>5, <1>6, <1>7, <1>8, <1>9 DEF ClientStep

\* The steps of the server that serve a request.
LEMMA RequestType ==
    ASSUME TypeOK, HandleRequest
    PROVE  TypeOK'
<1> USE ConnectionsAssumption
<1> USE DEF serverVars, packetVars, clientVars, remoteVars, historyVars
<1>1. ASSUME NEW r \in Reqs, RejectRequest(r) \/ RefuseControl(r) PROVE TypeOK'
  <2>1. port' \in Seq(Reqs)
    BY <1>1, PortHead DEF RejectRequest, RefuseControl
  <2>2. /\ [req[r] EXCEPT !.state = "NO_CONNECTION"] \in Request
        /\ [req[r] EXCEPT !.state = "FAILED"] \in Request
    <3>1. req[r] \in Request
      BY DEF TypeOK
    <3> QED
      BY <3>1 DEF Request, ReqState
  <2>3. /\ req' \in [Reqs -> Request]
        /\ where' \in [Reqs -> {"client", "server", "replied"}]
    BY <1>1, <2>2, ReplyType DEF RejectRequest, RefuseControl
  <2> QED
    BY <1>1, <2>1, <2>3 DEF RejectRequest, RefuseControl, TypeOK
<1>2. ASSUME NEW r \in Reqs, NEW c \in Objects, NEW s \in CnnState, HandleOpen(r, c, s)
      PROVE  TypeOK'
  <2>1. port' \in Seq(Reqs)
    BY <1>2, PortHead DEF HandleOpen
  <2>2. nextId \in 0..(IdMod-1) /\ nextId' \in 0..(IdMod-1) /\ opens' \in Nat
    BY <1>2 DEF HandleOpen, TypeOK, NextId
  <2>3. out' \in Seq(OutPacket)
    BY <1>2, <2>2, AllocType, "CONNECT" \in OutType DEF HandleOpen, OutType
  <2>4. cnn' \in [Objects -> [id : 0..(IdMod-1), state : CnnState]]
    <3>1. (IF HasRoom THEN CS_CONNECTING ELSE s) \in CnnState
      BY DEF CS_CONNECTING, CnnState
    <3> QED
      BY <1>2, <2>2, <3>1 DEF HandleOpen, TypeOK
  <2>5. req' \in [Reqs -> Request]
    BY <1>2, <2>2, AcceptType DEF HandleOpen, TypeOK
  <2>6. cnnList' \in Seq(Objects)
    BY <1>2 DEF HandleOpen, TypeOK
  <2>7. reqs' \in [Objects -> Seq(Reqs)] /\ packets' \in [Objects -> Seq(Queued)]
    BY <1>2 DEF HandleOpen, TypeOK
  <2>8. /\ accepted' \in [Objects -> Seq(Nat)] /\ delivered' \in [Objects -> Seq(Nat)]
        /\ skipped' \in [Reqs -> Nat]
    BY <1>2 DEF HandleOpen, TypeOK
  <2> QED
    BY <1>2, <2>1, <2>2, <2>3, <2>4, <2>5, <2>6, <2>7, <2>8 DEF HandleOpen, TypeOK
<1>3. ASSUME NEW r \in Reqs, NEW c \in Objects, HandleClose(r, c) PROVE TypeOK'
  <2>1. port' \in Seq(Reqs)
    BY <1>3, PortHead DEF HandleClose
  <2>2. cnn[c].id \in 0..(IdMod-1)
    BY DEF TypeOK
  <2>3. /\ req' \in [Reqs -> Request]
        /\ where' \in [Reqs -> {"client", "server", "replied"}]
    BY <1>3, <2>2, AcceptType, ReplyType DEF HandleClose
  <2>4. /\ out' \in Seq(OutPacket)
        /\ cnn' \in [Objects -> [id : 0..(IdMod-1), state : CnnState]]
    <3>1. CASE cnn[c].state < CS_DISCONNECTING
      <4>1. out' \in Seq(OutPacket)
        BY <1>3, <2>2, <3>1, AllocType, "DISCONNECT" \in OutType DEF HandleClose, OutType
      <4>2. (IF HasRoom THEN CS_DISCONNECTING ELSE cnn[c].state) \in CnnState
        BY DEF CS_DISCONNECTING, CnnState, TypeOK
      <4>3. cnn' = [cnn EXCEPT ![c] =
                      [cnn[c] EXCEPT !.state = IF HasRoom THEN CS_DISCONNECTING ELSE cnn[c].state]]
        BY <1>3, <3>1 DEF HandleClose
      <4> QED
        BY <4>1, <4>2, <4>3 DEF TypeOK
    <3>2. CASE ~ (cnn[c].state < CS_DISCONNECTING)
      BY <1>3, <3>2 DEF HandleClose, TypeOK
    <3> QED
      BY <3>1, <3>2
  <2> QED
    BY <1>3, <2>1, <2>3, <2>4 DEF HandleClose, TypeOK
<1>4. ASSUME NEW r \in Reqs, NEW c \in Objects, RefuseRequest(r, c) PROVE TypeOK'
  <2>1. port' \in Seq(Reqs)
    BY <1>4, PortHead DEF RefuseRequest
  <2>2. [Accept(r, cnn[c].id) EXCEPT !.state = Refusal(c)] \in Request
    <3>1. Accept(r, cnn[c].id) \in Request
      BY AcceptType DEF TypeOK
    <3>2. Refusal(c) \in ReqState
      BY DEF Refusal, ReqState
    <3> QED
      BY <3>1, <3>2 DEF Request
  <2>3. /\ req' \in [Reqs -> Request]
        /\ where' \in [Reqs -> {"client", "server", "replied"}]
    BY <1>4, <2>2, ReplyType DEF RefuseRequest
  <2> QED
    BY <1>4, <2>1, <2>3 DEF RefuseRequest, TypeOK
<1>5. ASSUME NEW r \in Reqs, NEW c \in Objects, HandleRead(r, c) PROVE TypeOK'
  <2>1. port' \in Seq(Reqs)
    BY <1>5, PortHead DEF HandleRead
  <2> DEFINE w  == AddRequest(reqs[c], r)
             rq == [req EXCEPT ![r] = Accept(r, cnn[c].id)]
  <2>2. w \in Seq(Reqs)
    BY DEF TypeOK, AddRequest
  <2>3. rq \in [Reqs -> Request]
    <3>1. Accept(r, cnn[c].id) \in Request
      BY AcceptType DEF TypeOK
    <3> QED
      BY <3>1 DEF TypeOK
  <2>4. packets[c] \in Seq(Queued) /\ inUse \in SUBSET Nat
    BY DEF TypeOK
  <2>5. PushToClient(c, packets[c], w, rq, inUse)
    BY <1>5 DEF HandleRead
  <2> HIDE DEF w, rq
  <2>6. /\ packets' \in [Objects -> Seq(Queued)]
        /\ reqs' \in [Objects -> Seq(Reqs)]
        /\ req' \in [Reqs -> Request]
        /\ inUse' \subseteq Nat
        /\ where' \in [Reqs -> {"client", "server", "replied"}]
        /\ delivered' \in [Objects -> Seq(Nat)]
    BY <2>2, <2>3, <2>4, <2>5, PushType
  <2>7. skipped' \in [Reqs -> Nat]
    BY <1>5 DEF HandleRead, TypeOK
  <2> QED
    BY <1>5, <2>1, <2>6, <2>7 DEF HandleRead, TypeOK
<1>6. ASSUME NEW r \in Reqs, NEW c \in Objects, HandleWrite(r, c) PROVE TypeOK'
  <2>1. port' \in Seq(Reqs)
    BY <1>6, PortHead DEF HandleWrite
  <2>2. out' \in Seq(OutPacket)
    <3>1. cnn[c].id \in 0..(IdMod-1) /\ "DATA" \in OutType
      BY DEF TypeOK, OutType
    <3> QED
      BY <1>6, <3>1, AllocType DEF HandleWrite
  <2>3. [Accept(r, cnn[c].id) EXCEPT !.state = IF HasRoom THEN "OK" ELSE "FAILED"] \in Request
    <3>1. Accept(r, cnn[c].id) \in Request
      BY AcceptType DEF TypeOK
    <3> QED
      BY <3>1 DEF Request, ReqState
  <2>4. /\ req' \in [Reqs -> Request]
        /\ where' \in [Reqs -> {"client", "server", "replied"}]
    BY <1>6, <2>3, ReplyType DEF HandleWrite
  <2> QED
    BY <1>6, <2>1, <2>2, <2>4 DEF HandleWrite, TypeOK
<1> QED
  BY <1>1, <1>2, <1>3, <1>4, <1>5, <1>6 DEF HandleRequest

\* The steps of the server that handle a packet.
LEMMA ServePacketType ==
    ASSUME TypeOK, HandlePacket
    PROVE  TypeOK'
<1> USE ConnectionsAssumption
<1> USE DEF serverVars, packetVars, clientVars, remoteVars, historyVars
<1>0. ASSUME NEW type, GetPacket(type)
      PROVE  in' \in Seq(InPacket) /\ Head(in) \in InPacket
  BY <1>0, InHead DEF GetPacket
<1>1. ASSUME UnknownConnection PROVE TypeOK'
  <2>1. in' \in Seq(InPacket) /\ Head(in) \in InPacket
    BY <1>0, <1>1 DEF UnknownConnection
  <2>2. out' \in Seq(OutPacket)
    <3>1. Head(in).conn \in 0..(IdMod-1) /\ "NO_CONNECTION" \in OutType
      BY <2>1 DEF InPacket, OutType
    <3> QED
      BY <1>1, <3>1, AllocType DEF UnknownConnection
  <2> QED
    BY <1>1, <2>1, <2>2 DEF UnknownConnection, GetPacket, TypeOK
<1>6. ASSUME HandleControlPacket PROVE TypeOK'
  <2>1. in' \in Seq(InPacket)
    BY <1>0, <1>6 DEF HandleControlPacket
  <2> QED
    BY <1>6, <2>1 DEF HandleControlPacket, GetPacket, TypeOK
<1>2. ASSUME NEW c \in Objects, HandleConnected(c) PROVE TypeOK'
  <2>1. in' \in Seq(InPacket)
    BY <1>0, <1>2 DEF HandleConnected
  <2>2. cnn' \in [Objects -> [id : 0..(IdMod-1), state : CnnState]]
    <3>1. cnn' = [cnn EXCEPT ![c] = [cnn[c] EXCEPT !.state = CS_CONNECTED]]
      BY <1>2 DEF HandleConnected
    <3>2. CS_CONNECTED \in CnnState
      BY DEF CS_CONNECTED, CnnState
    <3> QED
      BY <3>1, <3>2 DEF TypeOK
  <2>3. /\ reqs' \in [Objects -> Seq(Reqs)]
        /\ req' \in [Reqs -> Request]
        /\ where' \in [Reqs -> {"client", "server", "replied"}]
    BY <1>2, AnswerOpenType, "OK" \in ReqState DEF HandleConnected, ReqState
  <2> QED
    BY <1>2, <2>1, <2>2, <2>3 DEF HandleConnected, GetPacket, TypeOK
<1>3. ASSUME NEW c \in Objects, HandleNoHandler(c) PROVE TypeOK'
  <2>1. in' \in Seq(InPacket)
    BY <1>0, <1>3 DEF HandleNoHandler
  <2>2. cnn' \in [Objects -> [id : 0..(IdMod-1), state : CnnState]]
    <3>1. cnn' = [cnn EXCEPT ![c] = [cnn[c] EXCEPT !.state = CS_NO_HANDLER]]
      BY <1>3 DEF HandleNoHandler
    <3>2. CS_NO_HANDLER \in CnnState
      BY DEF CS_NO_HANDLER, CnnState
    <3> QED
      BY <3>1, <3>2 DEF TypeOK
  <2>3. /\ reqs' \in [Objects -> Seq(Reqs)]
        /\ req' \in [Reqs -> Request]
        /\ where' \in [Reqs -> {"client", "server", "replied"}]
    BY <1>3, AnswerOpenType, "NO_HANDLER" \in ReqState DEF HandleNoHandler, ReqState
  <2>4. kept' \in Nat /\ inUse' \subseteq Nat
    <3>1. kept' = kept + 1 /\ inUse' = inUse \cup {kept + 1}
      BY <1>3 DEF HandleNoHandler, KeepPacket, Hold
    <3> QED
      BY <3>1 DEF TypeOK
  <2> QED
    BY <1>3, <2>1, <2>2, <2>3, <2>4 DEF HandleNoHandler, GetPacket, TypeOK
<1>4. ASSUME NEW c \in Objects, HandleDisconnected(c) PROVE TypeOK'
  <2>1. in' \in Seq(InPacket)
    BY <1>0, <1>4 DEF HandleDisconnected
  <2>2. cnn' \in [Objects -> [id : 0..(IdMod-1), state : CnnState]]
    BY <1>4 DEF HandleDisconnected, TypeOK, CnnState, NoCnn
  <2>3. cnnList' \in Seq(Objects)
    <3>1. PICK i \in DOMAIN cnnList : cnnList' = RemoveAt(cnnList, i)
      BY <1>4 DEF HandleDisconnected
    <3> QED
      BY <3>1, UnlinkSeq DEF Unlink, TypeOK
  <2>4. inUse' \subseteq Nat
    BY <1>4 DEF HandleDisconnected, ReleaseQueue, TypeOK
  <2>5. /\ packets' \in [Objects -> Seq(Queued)] /\ reqs' \in [Objects -> Seq(Reqs)]
        /\ accepted' \in [Objects -> Seq(Nat)] /\ delivered' \in [Objects -> Seq(Nat)]
    <3>1. /\ packets' = [packets EXCEPT ![c] = <<>>] /\ reqs' = [reqs EXCEPT ![c] = <<>>]
          /\ accepted' = [accepted EXCEPT ![c] = <<>>] /\ delivered' = [delivered EXCEPT ![c] = <<>>]
      BY <1>4 DEF HandleDisconnected
    <3> QED
      BY <3>1 DEF TypeOK
  <2> QED
    BY <1>4, <2>1, <2>2, <2>3, <2>4, <2>5 DEF HandleDisconnected, GetPacket, TypeOK
<1>5. ASSUME NEW c \in Objects, HandleData(c) PROVE TypeOK'
  <2>1. in' \in Seq(InPacket) /\ Head(in) \in InPacket
    BY <1>0, <1>5 DEF HandleData
  <2>2. CASE cnn[c].state >= CS_DISCONNECTING
    BY <1>5, <2>1, <2>2 DEF HandleData, GetPacket, TypeOK
  <2>3. CASE ~ (cnn[c].state >= CS_DISCONNECTING)
    <3> DEFINE q == AddPacket(packets[c], [sn |-> kept + 1, len |-> Head(in).len])
    <3>1. q \in Seq(Queued)
      <4>1. [sn |-> kept + 1, len |-> Head(in).len] \in Queued
        BY <2>1 DEF Queued, InPacket, TypeOK
      <4> QED
        BY <4>1 DEF AddPacket, TypeOK
    <3>2. PushToClient(c, q, reqs[c], req, Hold)
      BY <1>5, <2>3 DEF HandleData
    <3>3. reqs[c] \in Seq(Reqs) /\ req \in [Reqs -> Request] /\ Hold \in SUBSET Nat
      BY DEF TypeOK, Hold
    <3> HIDE DEF q
    <3>4. /\ packets' \in [Objects -> Seq(Queued)]
          /\ reqs' \in [Objects -> Seq(Reqs)]
          /\ req' \in [Reqs -> Request]
          /\ inUse' \subseteq Nat
          /\ where' \in [Reqs -> {"client", "server", "replied"}]
          /\ delivered' \in [Objects -> Seq(Nat)]
      BY <3>1, <3>2, <3>3, PushType
    <3>5. kept' \in Nat /\ accepted' \in [Objects -> Seq(Nat)]
      <4>1. kept' = kept + 1 /\ accepted' = [accepted EXCEPT ![c] = Append(@, kept + 1)]
        BY <1>5, <2>3 DEF HandleData, KeepPacket
      <4>2. kept + 1 \in Nat /\ accepted[c] \in Seq(Nat)
        BY DEF TypeOK
      <4>3. Append(accepted[c], kept + 1) \in Seq(Nat)
        BY <4>2
      <4> QED
        BY <4>1, <4>2, <4>3 DEF TypeOK
    <3> QED
      BY <1>5, <2>1, <3>4, <3>5 DEF HandleData, GetPacket, TypeOK
  <2> QED
    BY <2>2, <2>3
<1> QED
  BY <1>1, <1>2, <1>3, <1>4, <1>5, <1>6 DEF HandlePacket

\* The steps of the Pi and of the link.
LEMMA PiType ==
    ASSUME TypeOK, PiStep
    PROVE  TypeOK'
<1> USE ConnectionsAssumption
<1> USE DEF amigaVars, serverVars, packetVars, clientVars, remoteVars, historyVars
<1>1. ASSUME NEW type \in PacketType, NEW id \in 0..(IdMod-1), NEW len \in Nat,
             ToAmiga(type, id, len)
      PROVE  in' \in Seq(InPacket)
  <2>1. [type |-> type, conn |-> id, len |-> len] \in InPacket
    BY DEF InPacket
  <2> QED
    BY <1>1, <2>1 DEF ToAmiga, TypeOK
<1>2. CASE PiAnswerConnect
  <2>1. Head(out).conn \in 0..(IdMod-1) /\ out' \in Seq(OutPacket)
    BY <1>2, OutHead DEF PiAnswerConnect, OutPacket
  <2>2. in' \in Seq(InPacket) /\ piOpen' \subseteq 0..(IdMod-1)
    BY <1>1, <1>2, <2>1 DEF PiAnswerConnect, PacketType, TypeOK
  <2> QED
    BY <1>2, <2>1, <2>2 DEF PiAnswerConnect, TypeOK
<1>3. CASE PiAnswerDisconnect
  <2>1. Head(out).conn \in 0..(IdMod-1) /\ out' \in Seq(OutPacket)
    BY <1>3, OutHead DEF PiAnswerDisconnect, OutPacket
  <2>2. in' \in Seq(InPacket) /\ piOpen' \subseteq 0..(IdMod-1)
    BY <1>1, <1>3, <2>1 DEF PiAnswerDisconnect, PacketType, TypeOK
  <2> QED
    BY <1>3, <2>1, <2>2 DEF PiAnswerDisconnect, TypeOK
<1>4. CASE LeaveAmiga
  <2>1. out' \in Seq(OutPacket)
    BY <1>4, OutHead DEF LeaveAmiga
  <2> QED
    BY <1>4, <2>1 DEF LeaveAmiga, TypeOK
<1>5. CASE LosePacket
  <2>1. in' \in Seq(InPacket)
    BY <1>5, InHead DEF LosePacket
  <2> QED
    BY <1>5, <2>1 DEF LosePacket, TypeOK
<1>6. CASE ResendPacket
  <2>1. in # <<>>
    BY <1>6 DEF ResendPacket
  <2>2. in' \in Seq(InPacket)
    BY <1>6, <2>1, InHead DEF ResendPacket
  <2> QED
    BY <1>6, <2>2 DEF ResendPacket, TypeOK
<1>7. ASSUME NEW id \in piOpen, PiClose(id) PROVE TypeOK'
  <2>1. id \in 0..(IdMod-1)
    BY DEF TypeOK
  <2>2. in' \in Seq(InPacket)
    BY <1>1, <1>7, <2>1 DEF PiClose, PacketType
  <2> QED
    BY <1>7, <2>2 DEF PiClose, TypeOK
<1>8. ASSUME NEW id \in piOpen, NEW len \in Lengths, PiSend(id, len) PROVE TypeOK'
  <2>1. id \in 0..(IdMod-1) /\ len \in Nat
    BY DEF TypeOK
  <2>2. in' \in Seq(InPacket)
    BY <1>1, <1>8, <2>1 DEF PiSend, PacketType
  <2> QED
    BY <1>8, <2>2 DEF PiSend, TypeOK
<1> QED
  BY <1>2, <1>3, <1>4, <1>5, <1>6, <1>7, <1>8 DEF PiStep

\* Every variable keeps its type in every step of the system; in particular
\* the ids the server hands out stay within the UWORD they are kept in.
THEOREM TypeCorrect == Spec => []TypeOK
<1>1. TypeOK /\ [Next]_vars => TypeOK'
  <2> SUFFICES ASSUME TypeOK, [Next]_vars PROVE TypeOK'
    OBVIOUS
  <2>1. CASE UNCHANGED vars
    BY <2>1 DEF vars, serverVars, packetVars, clientVars, remoteVars, historyVars, TypeOK
  <2> QED
    BY <2>1, ClientType, RequestType, ServePacketType, ScanType, PiType DEF Next
<1> QED
  BY <1>1, InitType, PTL DEF Spec

-----------------------------------------------------------------------------
(* Ownership of requests.  Own states OneOwner of any port P, queues Q and *)
(* owners W, so that a handler that first moves a request and then thins a *)
(* queue out can be followed through its intermediate state.               *)

Own(P, Q, W) ==
    /\ \A i \in DOMAIN P : W[P[i]] = "server"
    /\ \A c \in Objects : \A i \in DOMAIN Q[c] : W[Q[c][i]] = "server"
    /\ \A i, j \in DOMAIN P : P[i] = P[j] => i = j
    /\ \A c, e \in Objects : \A i \in DOMAIN Q[c], j \in DOMAIN Q[e] :
         Q[c][i] = Q[e][j] => c = e /\ i = j
    /\ \A c \in Objects : \A i \in DOMAIN Q[c], j \in DOMAIN P : Q[c][i] # P[j]

\* v holds some of the nodes of w, none of them twice.
Thins(v, w) ==
    \E f \in [DOMAIN v -> DOMAIN w] :
        /\ \A i, j \in DOMAIN v : f[i] = f[j] => i = j
        /\ \A i \in DOMAIN v : v[i] = w[f[i]]

\* Taking nodes off lists keeps ownership, as long as what stays on a list
\* stays with the server.
LEMMA ThinOwn ==
    ASSUME NEW P, NEW Q, NEW W, NEW P2, NEW Q2, NEW W2, Own(P, Q, W),
           Thins(P2, P), \A c \in Objects : Thins(Q2[c], Q[c]),
           \A i \in DOMAIN P2 : W2[P2[i]] = "server",
           \A c \in Objects : \A i \in DOMAIN Q2[c] : W2[Q2[c][i]] = "server"
    PROVE  Own(P2, Q2, W2)
<1>1. PICK f \in [DOMAIN P2 -> DOMAIN P] :
        /\ \A i, j \in DOMAIN P2 : f[i] = f[j] => i = j
        /\ \A i \in DOMAIN P2 : P2[i] = P[f[i]]
  BY DEF Thins
<1>2. \A i, j \in DOMAIN P2 : P2[i] = P2[j] => i = j
  BY <1>1 DEF Own
<1>3. ASSUME NEW c \in Objects, NEW e \in Objects, NEW i \in DOMAIN Q2[c], NEW j \in DOMAIN Q2[e],
             Q2[c][i] = Q2[e][j]
      PROVE  c = e /\ i = j
  <2>1. PICK g \in [DOMAIN Q2[c] -> DOMAIN Q[c]] :
          /\ \A k, l \in DOMAIN Q2[c] : g[k] = g[l] => k = l
          /\ \A k \in DOMAIN Q2[c] : Q2[c][k] = Q[c][g[k]]
    BY DEF Thins
  <2>2. PICK h \in [DOMAIN Q2[e] -> DOMAIN Q[e]] :
          \A k \in DOMAIN Q2[e] : Q2[e][k] = Q[e][h[k]]
    BY DEF Thins
  <2>3. Q[c][g[i]] = Q[e][h[j]] /\ g[i] \in DOMAIN Q[c] /\ h[j] \in DOMAIN Q[e]
    BY <1>3, <2>1, <2>2
  <2>4. c = e /\ g[i] = h[j]
    BY <2>3 DEF Own
  <2>5. j \in DOMAIN Q2[c] /\ Q[c][g[i]] = Q[c][g[j]] /\ g[j] \in DOMAIN Q[c]
    BY <1>3, <2>1, <2>4
  <2>6. g[i] = g[j]
    BY <2>3, <2>5 DEF Own
  <2> QED
    BY <2>1, <2>4, <2>5, <2>6
<1>4. ASSUME NEW c \in Objects, NEW i \in DOMAIN Q2[c], NEW j \in DOMAIN P2
      PROVE  Q2[c][i] # P2[j]
  <2>1. PICK g \in [DOMAIN Q2[c] -> DOMAIN Q[c]] :
          \A k \in DOMAIN Q2[c] : Q2[c][k] = Q[c][g[k]]
    BY DEF Thins
  <2> QED
    BY <1>1, <2>1 DEF Own
<1> QED
  BY <1>2, <1>3, <1>4 DEF Own

LEMMA ThinsSame ==
    ASSUME NEW w PROVE Thins(w, w)
<1> DEFINE f == [i \in DOMAIN w |-> i]
<1>1. f \in [DOMAIN w -> DOMAIN w]
  OBVIOUS
<1> QED
  BY <1>1 DEF Thins

LEMMA ThinsUnlink ==
    ASSUME NEW S, NEW w \in Seq(S), NEW i \in DOMAIN w
    PROVE  /\ Thins(Unlink(w, i), w)
           /\ \A j \in DOMAIN Unlink(w, i) : \E k \in DOMAIN w : k # i /\ Unlink(w, i)[j] = w[k]
<1> DEFINE v == Unlink(w, i)
<1>1. /\ v \in Seq(S) /\ Len(v) = Len(w) - 1
      /\ \A j \in 1..(Len(w) - 1) : v[j] = IF j < i THEN w[j] ELSE w[j + 1]
  BY UnlinkSeq
<1>2. DOMAIN v = 1..(Len(w) - 1) /\ DOMAIN w = 1..Len(w) /\ Len(w) \in Nat
  BY <1>1
<1> HIDE DEF v
<1> DEFINE f == [j \in DOMAIN v |-> IF j < i THEN j ELSE j + 1]
<1>3. f \in [DOMAIN v -> DOMAIN w]
  BY <1>2
<1>4. \A j, k \in DOMAIN v : f[j] = f[k] => j = k
  BY <1>2
<1>5. \A j \in DOMAIN v : f[j] # i /\ v[j] = w[f[j]]
  BY <1>1, <1>2
<1> HIDE DEF f
<1>6. Thins(v, w) /\ \A j \in DOMAIN v : \E k \in DOMAIN w : k # i /\ v[j] = w[k]
  BY <1>3, <1>4, <1>5 DEF Thins
<1> QED
  BY <1>6 DEF v

LEMMA ThinsRest ==
    ASSUME NEW S, NEW w \in Seq(S), NEW m \in 0..Len(w)
    PROVE  /\ Thins(SubSeq(w, m + 1, Len(w)), w)
           /\ \A j \in DOMAIN SubSeq(w, m + 1, Len(w)) :
                \E k \in DOMAIN w : k > m /\ SubSeq(w, m + 1, Len(w))[j] = w[k]
<1> DEFINE v == SubSeq(w, m + 1, Len(w))
<1>1. /\ v \in Seq(S) /\ Len(v) = Len(w) - m
      /\ \A j \in 1..(Len(w) - m) : v[j] = w[m + j]
  BY Rest
<1>2. DOMAIN v = 1..(Len(w) - m) /\ DOMAIN w = 1..Len(w) /\ Len(w) \in Nat
  BY <1>1
<1> HIDE DEF v
<1> DEFINE f == [j \in DOMAIN v |-> m + j]
<1>3. f \in [DOMAIN v -> DOMAIN w]
  BY <1>2
<1>4. \A j, k \in DOMAIN v : f[j] = f[k] => j = k
  BY <1>2
<1>5. \A j \in DOMAIN v : f[j] > m /\ v[j] = w[f[j]]
  BY <1>1, <1>2
<1> HIDE DEF f
<1>6. Thins(v, w) /\ \A j \in DOMAIN v : \E k \in DOMAIN w : k > m /\ v[j] = w[k]
  BY <1>3, <1>4, <1>5 DEF Thins
<1> QED
  BY <1>6 DEF v

LEMMA ThinsEmpty ==
    ASSUME NEW w PROVE Thins(<<>>, w)
<1> DEFINE f == [i \in {} |-> i]
<1>1. f \in [DOMAIN <<>> -> DOMAIN w] /\ DOMAIN <<>> = {}
  OBVIOUS
<1> QED
  BY <1>1 DEF Thins

\* A request taken off a queue, and possibly given back.
LEMMA UnlinkQueueOwn ==
    ASSUME NEW P \in Seq(Reqs), NEW Q \in [Objects -> Seq(Reqs)], NEW W, NEW W2, Own(P, Q, W),
           NEW c \in Objects, NEW i \in DOMAIN Q[c],
           \A r \in Reqs : r # Q[c][i] => W2[r] = W[r]
    PROVE  Own(P, [Q EXCEPT ![c] = Unlink(Q[c], i)], W2)
<1> DEFINE Q2 == [Q EXCEPT ![c] = Unlink(Q[c], i)]
<1>1. \A j \in DOMAIN P : P[j] \in Reqs
  BY ElementOfSeq
<1>2. \A j \in DOMAIN P : P[j] # Q[c][i] /\ W2[P[j]] = "server"
  BY <1>1 DEF Own
<1>3. /\ Thins(Q2[c], Q[c])
      /\ \A j \in DOMAIN Q2[c] : \E k \in DOMAIN Q[c] : k # i /\ Q2[c][j] = Q[c][k]
  BY ThinsUnlink, Q2[c] = Unlink(Q[c], i), Q[c] \in Seq(Reqs)
<1>4. \A e \in Objects : e # c => Q2[e] = Q[e]
  OBVIOUS
<1> HIDE DEF Q2
<1>5. \A e \in Objects : Thins(Q2[e], Q[e])
  BY <1>3, <1>4, ThinsSame
<1>6. ASSUME NEW e \in Objects, NEW j \in DOMAIN Q2[e]
      PROVE  W2[Q2[e][j]] = "server"
  <2>1. PICK k \in DOMAIN Q[e] : Q2[e][j] = Q[e][k] /\ ~ (e = c /\ k = i)
    BY <1>3, <1>4
  <2>2. Q[e][k] \in Reqs /\ Q[e] \in Seq(Reqs)
    BY ElementOfSeq
  <2>3. Q[e][k] # Q[c][i] /\ W[Q[e][k]] = "server"
    BY <2>1 DEF Own
  <2> QED
    BY <2>1, <2>2, <2>3
<1>7. Own(P, Q2, W2)
  BY <1>2, <1>5, <1>6, ThinOwn, ThinsSame
<1> QED
  BY <1>7 DEF Q2

\* A request taken off the port, and possibly given back.
LEMMA UnlinkPortOwn ==
    ASSUME NEW P \in Seq(Reqs), NEW Q \in [Objects -> Seq(Reqs)], NEW W, NEW W2, Own(P, Q, W),
           NEW i \in DOMAIN P,
           \A r \in Reqs : r # P[i] => W2[r] = W[r]
    PROVE  Own(Unlink(P, i), Q, W2)
<1> DEFINE P2 == Unlink(P, i)
<1>1. Thins(P2, P) /\ \A j \in DOMAIN P2 : \E k \in DOMAIN P : k # i /\ P2[j] = P[k]
  BY ThinsUnlink
<1> HIDE DEF P2
<1>2. ASSUME NEW j \in DOMAIN P2 PROVE W2[P2[j]] = "server"
  <2>1. PICK k \in DOMAIN P : k # i /\ P2[j] = P[k]
    BY <1>1
  <2>2. P[k] \in Reqs
    BY ElementOfSeq
  <2> QED
    BY <2>1, <2>2 DEF Own
<1>3. ASSUME NEW e \in Objects, NEW j \in DOMAIN Q[e] PROVE W2[Q[e][j]] = "server"
  <2>1. Q[e][j] \in Reqs /\ Q[e] \in Seq(Reqs)
    BY ElementOfSeq
  <2> QED
    BY <2>1 DEF Own
<1>4. Own(P2, Q, W2)
  BY <1>1, <1>2, <1>3, ThinOwn, ThinsSame
<1> QED
  BY <1>4 DEF P2

\* GetMsg on the port.
LEMMA TailOwn ==
    ASSUME NEW P \in Seq(Reqs), NEW Q \in [Objects -> Seq(Reqs)], NEW W, NEW W2, Own(P, Q, W),
           P # <<>>,
           \A r \in Reqs : r # Head(P) => W2[r] = W[r]
    PROVE  /\ Own(Tail(P), Q, W2)
           /\ W[Head(P)] = "server"
           /\ \A j \in DOMAIN Tail(P) : Tail(P)[j] # Head(P)
           /\ \A c \in Objects : \A j \in DOMAIN Q[c] : Q[c][j] # Head(P)
<1>1. 1 \in DOMAIN P /\ Head(P) = P[1]
  OBVIOUS
<1>2. Thins(SubSeq(P, 2, Len(P)), P)
      /\ \A j \in DOMAIN SubSeq(P, 2, Len(P)) :
           \E k \in DOMAIN P : k > 1 /\ SubSeq(P, 2, Len(P))[j] = P[k]
  BY <1>1, ThinsRest, 1 \in 0..Len(P), 1 + 1 = 2
<1>3. Tail(P) = SubSeq(P, 2, Len(P))
  BY <1>1
<1> DEFINE P2 == Tail(P)
<1>4. Thins(P2, P) /\ \A j \in DOMAIN P2 : \E k \in DOMAIN P : k > 1 /\ P2[j] = P[k]
  BY <1>2, <1>3
<1> HIDE DEF P2
<1>5. ASSUME NEW j \in DOMAIN P2 PROVE W2[P2[j]] = "server" /\ P2[j] # Head(P)
  <2>1. PICK k \in DOMAIN P : k > 1 /\ P2[j] = P[k]
    BY <1>4
  <2>2. P[k] \in Reqs
    BY ElementOfSeq
  <2> QED
    BY <1>1, <2>1, <2>2 DEF Own
<1>6. ASSUME NEW e \in Objects, NEW j \in DOMAIN Q[e]
      PROVE  W2[Q[e][j]] = "server" /\ Q[e][j] # Head(P)
  <2>1. Q[e][j] \in Reqs /\ Q[e] \in Seq(Reqs)
    BY ElementOfSeq
  <2> QED
    BY <1>1, <2>1 DEF Own
<1>7. Own(P2, Q, W2)
  BY <1>4, <1>5, <1>6, ThinOwn, ThinsSame
<1> QED
  BY <1>1, <1>5, <1>6, <1>7 DEF P2, Own

\* AddTail of a request that is on no list.
LEMMA AddOwn ==
    ASSUME NEW P, NEW Q \in [Objects -> Seq(Reqs)], NEW W, Own(P, Q, W),
           NEW c \in Objects, NEW r \in Reqs, W[r] = "server",
           \A j \in DOMAIN P : P[j] # r,
           \A e \in Objects : \A j \in DOMAIN Q[e] : Q[e][j] # r
    PROVE  Own(P, [Q EXCEPT ![c] = Append(Q[c], r)], W)
<1> DEFINE Q2 == [Q EXCEPT ![c] = Append(Q[c], r)]
<1>1. \A e \in Objects : e # c => Q2[e] = Q[e]
  OBVIOUS
<1>2. /\ DOMAIN Q2[c] = 1..(Len(Q[c]) + 1) /\ DOMAIN Q[c] = 1..Len(Q[c]) /\ Len(Q[c]) \in Nat
      /\ Q2[c][Len(Q[c]) + 1] = r
      /\ \A j \in DOMAIN Q[c] : Q2[c][j] = Q[c][j]
  OBVIOUS
<1> HIDE DEF Q2
<1>3. \A j \in DOMAIN Q2[c] :
        \/ j = Len(Q[c]) + 1 /\ Q2[c][j] = r
        \/ j \in DOMAIN Q[c] /\ Q2[c][j] = Q[c][j]
  <2> DEFINE n == Len(Q[c])
  <2>1. n \in Nat /\ DOMAIN Q2[c] = 1..(n + 1) /\ DOMAIN Q[c] = 1..n
    BY <1>2
  <2>2. Q2[c][n + 1] = r /\ \A j \in DOMAIN Q[c] : Q2[c][j] = Q[c][j]
    BY <1>2
  <2> HIDE DEF n
  <2>3. \A j \in DOMAIN Q2[c] : j = n + 1 \/ j \in DOMAIN Q[c]
    BY <2>1
  <2>4. \A j \in DOMAIN Q2[c] :
          \/ j = n + 1 /\ Q2[c][j] = r
          \/ j \in DOMAIN Q[c] /\ Q2[c][j] = Q[c][j]
    BY <2>2, <2>3
  <2> QED
    BY <2>4 DEF n
<1>4. \A e \in Objects : \A j \in DOMAIN Q2[e] : W[Q2[e][j]] = "server"
  BY <1>1, <1>3 DEF Own
<1>5. \A e \in Objects : \A i \in DOMAIN Q2[e], j \in DOMAIN P : Q2[e][i] # P[j]
  BY <1>1, <1>3 DEF Own
<1>6. ASSUME NEW e \in Objects, NEW f \in Objects, NEW i \in DOMAIN Q2[e], NEW j \in DOMAIN Q2[f],
             Q2[e][i] = Q2[f][j]
      PROVE  e = f /\ i = j
  <2>1. CASE e = c /\ f = c
    <3>1. (i = Len(Q[c]) + 1 /\ Q2[c][i] = r) \/ (i \in DOMAIN Q[c] /\ Q2[c][i] = Q[c][i])
      BY <2>1, <1>3
    <3>2. (j = Len(Q[c]) + 1 /\ Q2[c][j] = r) \/ (j \in DOMAIN Q[c] /\ Q2[c][j] = Q[c][j])
      BY <2>1, <1>3
    <3> QED
      BY <2>1, <3>1, <3>2, <1>6 DEF Own
  <2>2. CASE e = c /\ f # c
    <3>1. j \in DOMAIN Q[f] /\ Q2[f][j] = Q[f][j]
      BY <2>2, <1>1
    <3>2. Q2[c][i] = r \/ (i \in DOMAIN Q[c] /\ Q2[c][i] = Q[c][i])
      BY <2>2, <1>3
    <3> QED
      BY <2>2, <3>1, <3>2, <1>6 DEF Own
  <2>3. CASE e # c /\ f = c
    <3>1. i \in DOMAIN Q[e] /\ Q2[e][i] = Q[e][i]
      BY <2>3, <1>1
    <3>2. Q2[c][j] = r \/ (j \in DOMAIN Q[c] /\ Q2[c][j] = Q[c][j])
      BY <2>3, <1>3
    <3>3. CASE Q2[c][j] = r
      BY <2>3, <3>1, <3>3, <1>6
    <3>4. CASE j \in DOMAIN Q[c] /\ Q2[c][j] = Q[c][j]
      <4>1. j \in DOMAIN Q[f] /\ Q[e][i] = Q[f][j]
        BY <2>3, <3>1, <3>4, <1>6
      <4> QED
        BY ONLY <4>1, <3>1, <2>3, e \in Objects, f \in Objects, Own(P, Q, W) DEF Own
    <3> QED
      BY ONLY <3>2, <3>3, <3>4
  <2>4. CASE e # c /\ f # c
    BY <2>4, <1>1, <1>6 DEF Own
  <2> QED
    BY <2>1, <2>2, <2>3, <2>4
<1>7. Own(P, Q2, W)
  BY <1>4, <1>5, <1>6 DEF Own
<1> QED
  BY <1>7 DEF Q2

\* APB_PushToClient, whatever packets it finds: it replies to the requests
\* it takes off the queue and to no others.
LEMMA PushOwn ==
    ASSUME TypeOK, NEW c \in Objects, NEW P \in Seq(Reqs),
           NEW q \in Seq(Queued), NEW w \in Seq(Reqs), NEW rq, NEW used,
           PushToClient(c, q, w, rq, used),
           Own(P, [reqs EXCEPT ![c] = w], where)
    PROVE  Own(P, reqs', where')
<1> DEFINE Q == [reqs EXCEPT ![c] = w]
<1>0. Q[c] = w /\ \A e \in Objects : e # c => Q[e] = reqs[e]
  BY DEF TypeOK
<1>00. \A e \in Objects : Q[e] \in Seq(Reqs)
  BY DEF TypeOK
<1>000. Own(P, Q, where)
  OBVIOUS
<1>1. CASE ~ CanPush(c)
  BY <1>1 DEF PushToClient
<1>2. CASE CanPush(c)
  <2>0. PICK n \in 0..Len(w) : \E d \in [0..n -> 0..Len(q)] : PushResult(c, q, w, rq, used, n, d)
    BY <1>2 DEF PushToClient, PushResult
  <2>1. /\ reqs' = [reqs EXCEPT ![c] = SubSeq(w, n + 1, Len(w))]
        /\ where' = [r \in Reqs |-> IF \E i \in 1..n : w[i] = r THEN "replied" ELSE where[r]]
    BY <2>0 DEF PushResult
  <2>2. reqs'[c] = SubSeq(w, n + 1, Len(w)) /\ \A e \in Objects : e # c => reqs'[e] = Q[e]
    BY <1>0, <2>1 DEF TypeOK
  <2>3. /\ Thins(reqs'[c], w)
        /\ \A j \in DOMAIN reqs'[c] : \E k \in DOMAIN w : k > n /\ reqs'[c][j] = w[k]
    BY <2>2, ThinsRest
  <2> HIDE DEF Q
  <2>4. \A e \in Objects : Thins(reqs'[e], Q[e])
    BY <1>0, <2>2, <2>3, ThinsSame
  <2>5. ASSUME NEW j \in DOMAIN P PROVE where'[P[j]] = "server"
    <3>1. P[j] \in Reqs
      BY ElementOfSeq
    <3>2. \A i \in 1..n : w[i] # P[j]
      <4>1. 1..n \subseteq DOMAIN w
        OBVIOUS
      <4> QED
        BY <4>1, <1>0, <1>000 DEF Own
    <3> QED
      BY <2>1, <3>1, <3>2, <1>000 DEF Own
  <2>6. ASSUME NEW e \in Objects, NEW j \in DOMAIN reqs'[e] PROVE where'[reqs'[e][j]] = "server"
    <3>1. PICK k \in DOMAIN Q[e] : reqs'[e][j] = Q[e][k] /\ (e = c => k > n)
      BY <1>0, <2>2, <2>3
    <3>2. Q[e][k] \in Reqs
      BY <1>00, ElementOfSeq
    <3>3. \A i \in 1..n : w[i] # Q[e][k]
      <4>1. 1..n \subseteq DOMAIN Q[c] /\ \A i \in 1..n : i # k \/ e # c
        BY <1>0, <3>1
      <4> QED
        BY <4>1, <1>0, <1>000 DEF Own
    <3> QED
      BY <2>1, <3>1, <3>2, <3>3, <1>000 DEF Own
  <2> QED
    BY <2>4, <2>5, <2>6, <1>000, ThinOwn, ThinsSame
<1> QED
  BY <1>1, <1>2

\* One step of the server that serves a request: it leaves the port, and
\* goes back to its client or onto one queue.
LEMMA RequestOwn ==
    ASSUME TypeOK, Own(port, reqs, where), HandleRequest
    PROVE  Own(port', reqs', where')
<1> USE DEF serverVars, packetVars, clientVars, remoteVars, historyVars
<1>0. port \in Seq(Reqs) /\ reqs \in [Objects -> Seq(Reqs)]
  BY DEF TypeOK
<1>1. ASSUME NEW r \in Reqs, NEW type, NEW fields, GetMsg(r, type), ReplyMsg(r, fields),
             UNCHANGED reqs
      PROVE  Own(port', reqs', where')
  <2>1. port # <<>> /\ port' = Tail(port) /\ r = Head(port)
    BY <1>1 DEF GetMsg
  <2>2. \A s \in Reqs : s # r => where'[s] = where[s]
    BY <1>1 DEF ReplyMsg, TypeOK
  <2> QED
    BY <1>0, <1>1, <2>1, <2>2, TailOwn
<1>2. ASSUME NEW r \in Reqs, NEW type, GetMsg(r, type)
      PROVE  /\ Own(port', reqs, where) /\ port' \in Seq(Reqs) /\ where[r] = "server"
             /\ \A j \in DOMAIN port' : port'[j] # r
             /\ \A c \in Objects : \A j \in DOMAIN reqs[c] : reqs[c][j] # r
  <2>1. port # <<>> /\ port' = Tail(port) /\ r = Head(port)
    BY <1>2 DEF GetMsg
  <2> QED
    BY <1>0, <1>2, <2>1, TailOwn, PortHead
<1>3. ASSUME NEW r \in Reqs, RejectRequest(r) \/ RefuseControl(r)
      PROVE  Own(port', reqs', where')
  BY <1>1, <1>3 DEF RejectRequest, RefuseControl
<1>4. ASSUME NEW r \in Reqs, NEW c \in Objects, NEW s \in CnnState, HandleOpen(r, c, s)
      PROVE  Own(port', reqs', where')
  <2> DEFINE Q == [reqs EXCEPT ![c] = <<>>]
  <2>1. /\ Own(port', reqs, where) /\ where[r] = "server"
        /\ \A j \in DOMAIN port' : port'[j] # r
        /\ \A e \in Objects : \A j \in DOMAIN reqs[e] : reqs[e][j] # r
    BY <1>2, <1>4 DEF HandleOpen
  <2>2. Q \in [Objects -> Seq(Reqs)] /\ Q[c] = <<>> /\ \A e \in Objects : e # c => Q[e] = reqs[e]
    BY <1>0
  <2>3. reqs' = [Q EXCEPT ![c] = Append(Q[c], r)] /\ where' = where
    <3>1. Append(Q[c], r) = <<r>>
      BY <2>2
    <3>2. [Q EXCEPT ![c] = <<r>>] = [reqs EXCEPT ![c] = <<r>>]
      BY <1>0
    <3> HIDE DEF Q
    <3> QED
      BY <1>4, <3>1, <3>2 DEF HandleOpen
  <2> HIDE DEF Q
  <2>4. Own(port', Q, where)
    <3>1. \A e \in Objects : Thins(Q[e], reqs[e])
      BY <2>2, ThinsSame, ThinsEmpty
    <3>2. \A e \in Objects : \A i \in DOMAIN Q[e] : where[Q[e][i]] = "server"
      BY <2>1, <2>2 DEF Own
    <3>3. \A i \in DOMAIN port' : where[port'[i]] = "server"
      BY <2>1 DEF Own
    <3> QED
      BY <2>1, <3>1, <3>2, <3>3, ThinOwn, ThinsSame
  <2>5. \A e \in Objects : \A j \in DOMAIN Q[e] : Q[e][j] # r
    BY <2>1, <2>2
  <2>6. Own(port', [Q EXCEPT ![c] = Append(Q[c], r)], where)
    BY <2>1, <2>2, <2>4, <2>5, AddOwn
  <2> QED
    BY <2>3, <2>6
<1>5. ASSUME NEW r \in Reqs, NEW c \in Objects, HandleClose(r, c) PROVE Own(port', reqs', where')
  BY <1>1, <1>5 DEF HandleClose
<1>6. ASSUME NEW r \in Reqs, NEW c \in Objects, RefuseRequest(r, c) PROVE Own(port', reqs', where')
  BY <1>1, <1>6 DEF RefuseRequest
<1>7. ASSUME NEW r \in Reqs, NEW c \in Objects, HandleRead(r, c) PROVE Own(port', reqs', where')
  <2> DEFINE w  == AddRequest(reqs[c], r)
             rq == [req EXCEPT ![r] = Accept(r, cnn[c].id)]
  <2>1. /\ Own(port', reqs, where) /\ port' \in Seq(Reqs) /\ where[r] = "server"
        /\ \A j \in DOMAIN port' : port'[j] # r
        /\ \A e \in Objects : \A j \in DOMAIN reqs[e] : reqs[e][j] # r
    BY <1>2, <1>7 DEF HandleRead
  <2>2. Own(port', [reqs EXCEPT ![c] = w], where)
    BY <1>0, <2>1, AddOwn DEF AddRequest
  <2>3. w \in Seq(Reqs) /\ packets[c] \in Seq(Queued)
    BY DEF TypeOK, AddRequest
  <2>4. PushToClient(c, packets[c], w, rq, inUse)
    BY <1>7 DEF HandleRead
  <2> HIDE DEF w, rq
  <2> QED
    BY <2>1, <2>2, <2>3, <2>4, PushOwn
<1>8. ASSUME NEW r \in Reqs, NEW c \in Objects, HandleWrite(r, c) PROVE Own(port', reqs', where')
  BY <1>1, <1>8 DEF HandleWrite
<1> QED
  BY <1>3, <1>4, <1>5, <1>6, <1>7, <1>8 DEF HandleRequest

\* One step of the server that handles a packet.
LEMMA PacketOwn ==
    ASSUME TypeOK, Own(port, reqs, where), HandlePacket
    PROVE  Own(port', reqs', where')
<1> USE DEF serverVars, packetVars, clientVars, remoteVars, historyVars
<1>0. port \in Seq(Reqs) /\ reqs \in [Objects -> Seq(Reqs)]
  BY DEF TypeOK
<1>1. CASE UnknownConnection \/ HandleControlPacket
  BY <1>1 DEF UnknownConnection, HandleControlPacket, GetPacket
<1>2. ASSUME NEW c \in Objects, NEW state, AnswerOpen(c, state), UNCHANGED port
      PROVE  Own(port', reqs', where')
  <2>1. CASE UNCHANGED <<reqs, req, where>>
    BY <1>2, <2>1
  <2>2. CASE \E i \in DOMAIN reqs[c] :
               /\ reqs' = [reqs EXCEPT ![c] = Unlink(@, i)]
               /\ \E fields : ReplyMsg(reqs[c][i], fields)
    <3>1. PICK i \in DOMAIN reqs[c] :
               /\ reqs' = [reqs EXCEPT ![c] = Unlink(@, i)]
               /\ \E fields : ReplyMsg(reqs[c][i], fields)
      BY <2>2
    <3>2. \A s \in Reqs : s # reqs[c][i] => where'[s] = where[s]
      BY <3>1 DEF ReplyMsg, TypeOK
    <3> QED
      BY <1>0, <1>2, <3>1, <3>2, UnlinkQueueOwn
  <2> QED
    BY <1>2, <2>1, <2>2 DEF AnswerOpen
<1>3. ASSUME NEW c \in Objects, HandleConnected(c) PROVE Own(port', reqs', where')
  BY <1>2, <1>3 DEF HandleConnected, GetPacket
<1>4. ASSUME NEW c \in Objects, HandleNoHandler(c) PROVE Own(port', reqs', where')
  BY <1>2, <1>4 DEF HandleNoHandler, GetPacket
<1>5. ASSUME NEW c \in Objects, HandleDisconnected(c) PROVE Own(port', reqs', where')
  <2>1. reqs' = [reqs EXCEPT ![c] = <<>>] /\ UNCHANGED <<port, where>>
    BY <1>5 DEF HandleDisconnected, GetPacket
  <2>2. reqs'[c] = <<>> /\ \A e \in Objects : e # c => reqs'[e] = reqs[e]
    BY <1>0, <2>1
  <2>3. \A e \in Objects : Thins(reqs'[e], reqs[e])
    BY <2>2, ThinsSame, ThinsEmpty
  <2>4. \A e \in Objects : \A i \in DOMAIN reqs'[e] : where[reqs'[e][i]] = "server"
    BY <2>2 DEF Own
  <2>5. \A i \in DOMAIN port : where[port[i]] = "server"
    BY DEF Own
  <2> QED
    BY <2>1, <2>3, <2>4, <2>5, ThinOwn, ThinsSame
<1>6. ASSUME NEW c \in Objects, HandleData(c) PROVE Own(port', reqs', where')
  <2>1. CASE cnn[c].state >= CS_DISCONNECTING
    BY <1>6, <2>1 DEF HandleData, GetPacket
  <2>2. CASE ~ (cnn[c].state >= CS_DISCONNECTING)
    <3> DEFINE q == AddPacket(packets[c], [sn |-> kept + 1, len |-> Head(in).len])
    <3>1. PushToClient(c, q, reqs[c], req, Hold) /\ UNCHANGED port
      BY <1>6, <2>2 DEF HandleData, GetPacket
    <3>2. q \in Seq(Queued)
      <4>1. Head(in) \in InPacket
        BY <1>6, InHead DEF HandleData, GetPacket
      <4>2. [sn |-> kept + 1, len |-> Head(in).len] \in Queued
        BY <4>1 DEF Queued, InPacket, TypeOK
      <4> QED
        BY <4>2 DEF AddPacket, TypeOK
    <3>3. [reqs EXCEPT ![c] = reqs[c]] = reqs /\ reqs[c] \in Seq(Reqs)
      BY <1>0
    <3> HIDE DEF q
    <3> QED
      BY <1>0, <3>1, <3>2, <3>3, PushOwn
  <2> QED
    BY <2>1, <2>2
<1> QED
  BY <1>1, <1>3, <1>4, <1>5, <1>6 DEF HandlePacket

\* One step of a client: it posts a request that is its own, or takes back
\* one that was answered or that it aborts.
LEMMA ClientOwn ==
    ASSUME TypeOK, Own(port, reqs, where), ClientStep
    PROVE  Own(port', reqs', where')
<1> USE DEF serverVars, packetVars, clientVars, remoteVars, historyVars
<1>0. port \in Seq(Reqs) /\ reqs \in [Objects -> Seq(Reqs)]
  BY DEF TypeOK
<1>1. ASSUME NEW r \in Reqs, NEW type, NEW id, NEW len, NEW timeout,
             PutMsg(r, type, id, len, timeout)
      PROVE  Own(port', reqs', where')
  <2>1. /\ where[r] = "client" /\ where' = [where EXCEPT ![r] = "server"]
        /\ port' = Append(port, r) /\ reqs' = reqs
    BY <1>1 DEF PutMsg
  <2>2. \A i \in DOMAIN port : port[i] # r /\ where'[port[i]] = "server"
    BY <1>0, <2>1, ElementOfSeq DEF Own, TypeOK
  <2>3. ASSUME NEW c \in Objects, NEW i \in DOMAIN reqs[c]
        PROVE  reqs[c][i] # r /\ where'[reqs[c][i]] = "server"
    <3>1. reqs[c][i] \in Reqs
      BY <1>0, ElementOfSeq
    <3> QED
      BY <2>1, <3>1 DEF Own, TypeOK
  <2>4. Own(port, reqs, where')
    BY <2>2, <2>3 DEF Own
  <2>5. where'[r] = "server"
    BY <2>1 DEF TypeOK
  <2> DEFINE n == Len(port)
  <2>6. /\ n \in Nat /\ DOMAIN port' = 1..(n + 1) /\ DOMAIN port = 1..n /\ port'[n + 1] = r
        /\ \A j \in DOMAIN port : port'[j] = port[j]
    BY <1>0, <2>1
  <2> HIDE DEF n
  <2>7. \A j \in DOMAIN port' :
          \/ j = n + 1 /\ port'[j] = r
          \/ j \in DOMAIN port /\ port'[j] = port[j]
    BY <2>6
  <2> QED
    BY <2>1, <2>2, <2>3, <2>4, <2>5, <2>7 DEF Own
<1>2. ASSUME NEW k \in Clients, NEW s \in Slots
      PROVE  <<k, s>> \in Reqs /\ <<k, Ctl>> \in Reqs
  BY ConnectionsAssumption DEF Reqs
<1>3. ASSUME NEW k \in Clients, OpenConnection(k) \/ CloseConnection(k)
      PROVE  Own(port', reqs', where')
  BY <1>1, <1>3, ConnectionsAssumption DEF OpenConnection, CloseConnection, Reqs
<1>4. ASSUME NEW k \in Clients, NEW s \in Slots,
             \/ \E len \in Lengths, timeout \in Timeouts : Read(k, s, len, timeout)
             \/ Write(k, s)
      PROVE  Own(port', reqs', where')
  BY <1>1, <1>2, <1>4 DEF Read, Write
<1>5. ASSUME NEW r \in Reqs, TakeBack(r)
      PROVE  \A s \in Reqs : s # r => where'[s] = where[s]
  BY <1>5 DEF TakeBack, TypeOK
<1>6. ASSUME NEW r \in Reqs, where[r] = "replied", TakeBack(r), UNCHANGED <<port, reqs>>
      PROVE  Own(port', reqs', where')
  <2>1. \A s \in Reqs : s # r => where'[s] = where[s]
    BY <1>5, <1>6
  <2>2. \A i \in DOMAIN port : where'[port[i]] = "server"
    BY <1>0, <1>6, <2>1, ElementOfSeq DEF Own
  <2>3. ASSUME NEW c \in Objects, NEW i \in DOMAIN reqs[c] PROVE where'[reqs[c][i]] = "server"
    <3>1. reqs[c][i] \in Reqs
      BY <1>0, ElementOfSeq
    <3> QED
      BY <1>6, <2>1, <3>1 DEF Own
  <2> QED
    BY <1>6, <2>2, <2>3 DEF Own
<1>7. ASSUME NEW r \in Reqs, GetReply(r) PROVE Own(port', reqs', where')
  BY <1>6, <1>7 DEF GetReply
<1>8. ASSUME NEW r \in Reqs, Abort(r) PROVE Own(port', reqs', where')
  <2>0. TakeBack(r)
    BY <1>8 DEF Abort
  <2>1. CASE where[r] = "replied" /\ UNCHANGED <<port, reqs>>
    BY <1>6, <2>0, <2>1
  <2>2. CASE \E i \in DOMAIN port : port[i] = r /\ port' = Unlink(port, i) /\ UNCHANGED reqs
    BY <1>0, <1>5, <2>0, <2>2, UnlinkPortOwn
  <2>3. CASE \E c \in Objects : \E i \in DOMAIN reqs[c] :
               /\ reqs[c][i] = r
               /\ reqs' = [reqs EXCEPT ![c] = Unlink(@, i)]
               /\ UNCHANGED port
    <3>1. PICK c \in Objects : \E i \in DOMAIN reqs[c] :
               /\ reqs[c][i] = r
               /\ reqs' = [reqs EXCEPT ![c] = Unlink(@, i)]
               /\ UNCHANGED port
      BY <2>3
    <3>2. PICK i \in DOMAIN reqs[c] :
               /\ reqs[c][i] = r
               /\ reqs' = [reqs EXCEPT ![c] = Unlink(@, i)]
               /\ UNCHANGED port
      BY <3>1
    <3> QED
      BY <1>0, <1>5, <2>0, <3>2, UnlinkQueueOwn
  <2> QED
    BY <1>8, <2>1, <2>2, <2>3 DEF Abort
<1>9. ASSUME NEW k \in Clients, FreeConnection(k) PROVE Own(port', reqs', where')
  BY <1>9 DEF FreeConnection
<1> QED
  BY <1>3, <1>4, <1>7, <1>8, <1>9 DEF ClientStep

\* A tick: at most one request leaves each queue, the first whose count is 1.
LEMMA ScanOwn ==
    ASSUME TypeOK, Own(port, reqs, where), CheckRequestTimeouts
    PROVE  Own(port', reqs', where')
<1>0. port \in Seq(Reqs) /\ reqs \in [Objects -> Seq(Reqs)] /\ port' = port
  BY DEF TypeOK, CheckRequestTimeouts
<1>1. ASSUME NEW c \in Objects, NEW i \in DOMAIN reqs[c], NEW j \in DOMAIN reqs[c],
             Expires(c, i), Expires(c, j)
      PROVE  i = j
  <2>1. i \in Nat /\ j \in Nat /\ i >= 1 /\ j >= 1
    BY <1>0
  <2>2. ~ (i < j) /\ ~ (j < i)
    BY <1>1, <2>1 DEF Expires, Reached
  <2> QED
    BY <2>1, <2>2
<1>2. ASSUME NEW c \in Objects
      PROVE  /\ Thins(reqs'[c], reqs[c])
             /\ \A j \in DOMAIN reqs'[c] :
                  \E k \in DOMAIN reqs[c] : reqs'[c][j] = reqs[c][k] /\ ~ Expires(c, k)
  <2>1. CASE \E i \in DOMAIN reqs[c] : Expires(c, i)
    <3> DEFINE m == CHOOSE i \in DOMAIN reqs[c] : Expires(c, i)
    <3>1. m \in DOMAIN reqs[c] /\ Expires(c, m)
      BY <2>1
    <3>2. reqs'[c] = Unlink(reqs[c], m)
      BY <2>1 DEF CheckRequestTimeouts
    <3> HIDE DEF m
    <3>3. Thins(reqs'[c], reqs[c])
          /\ \A j \in DOMAIN reqs'[c] : \E k \in DOMAIN reqs[c] : k # m /\ reqs'[c][j] = reqs[c][k]
      BY <1>0, <3>1, <3>2, ThinsUnlink
    <3>4. \A k \in DOMAIN reqs[c] : k # m => ~ Expires(c, k)
      BY <1>1, <3>1
    <3> QED
      BY <3>3, <3>4
  <2>2. CASE ~ \E i \in DOMAIN reqs[c] : Expires(c, i)
    <3>1. reqs'[c] = reqs[c]
      BY <2>2 DEF CheckRequestTimeouts
    <3> QED
      BY <2>2, <3>1, ThinsSame
  <2> QED
    BY <2>1, <2>2
<1>3. ASSUME NEW c \in Objects, NEW k \in DOMAIN reqs[c], ~ Expires(c, k)
      PROVE  where'[reqs[c][k]] = "server"
  <2> DEFINE r == reqs[c][k]
  <2>1. r \in Reqs
    BY <1>0, ElementOfSeq
  <2>2. ~ (ScanReaches(r) /\ req[r].ticks = 1)
    <3> SUFFICES ASSUME ScanReaches(r), req[r].ticks = 1 PROVE FALSE
      OBVIOUS
    <3>1. PICK e \in Objects : \E i \in DOMAIN reqs[e] : reqs[e][i] = r /\ Reached(e, i)
      BY DEF ScanReaches
    <3>2. PICK i \in DOMAIN reqs[e] : reqs[e][i] = r /\ Reached(e, i)
      BY <3>1
    <3>3. e = c /\ i = k
      BY <3>2 DEF Own
    <3> QED
      BY <1>3, <3>2, <3>3 DEF Expires
  <2>3. where[r] = "server"
    BY DEF Own
  <2> HIDE DEF r
  <2>4. where'[r] = "server"
    BY <2>1, <2>2, <2>3 DEF CheckRequestTimeouts
  <2> QED
    BY <2>4 DEF r
<1>4. \A c \in Objects : \A j \in DOMAIN reqs'[c] : where'[reqs'[c][j]] = "server"
  BY <1>2, <1>3
<1>5. ASSUME NEW j \in DOMAIN port PROVE where'[port[j]] = "server"
  <2> DEFINE r == port[j]
  <2>1. r \in Reqs
    BY <1>0, ElementOfSeq
  <2>2. ~ ScanReaches(r) /\ where[r] = "server"
    BY DEF ScanReaches, Own
  <2> HIDE DEF r
  <2>3. where'[r] = "server"
    BY <2>1, <2>2 DEF CheckRequestTimeouts
  <2> QED
    BY <2>3 DEF r
<1> QED
  BY <1>0, <1>2, <1>4, <1>5, ThinOwn, ThinsSame

\* A request is on at most one list of the server, and on none that is
\* walked once its client has it back.
THEOREM Ownership == Spec => []OneOwner
<1> USE DEF serverVars, packetVars, clientVars, remoteVars, historyVars
<1>1. Init => Own(port, reqs, where)
  BY DEF Init, Own
<1>2. TypeOK /\ Own(port, reqs, where) /\ [Next]_vars => Own(port, reqs, where)'
  <2> SUFFICES ASSUME TypeOK, Own(port, reqs, where), [Next]_vars
               PROVE  Own(port', reqs', where')
    BY DEF Own
  <2>1. CASE UNCHANGED <<port, reqs, where>>
    BY <2>1
  <2>2. CASE PiStep
    <3>1. UNCHANGED amigaVars
      BY <2>2 DEF PiStep, PiAnswerConnect, PiAnswerDisconnect, LeaveAmiga, LosePacket,
                  ResendPacket, PiSend, PiClose
    <3> QED
      BY <2>1, <3>1 DEF amigaVars
  <2> QED
    BY <2>1, <2>2, ClientOwn, RequestOwn, PacketOwn, ScanOwn DEF Next, vars
<1>3. Own(port, reqs, where) <=> OneOwner
  BY DEF Own, OneOwner
<1> QED
  BY <1>1, <1>2, <1>3, TypeCorrect, PTL DEF Spec

-----------------------------------------------------------------------------
(* The stream of a connection.                                             *)

LEMMA SerialsType ==
    ASSUME NEW q \in Seq(Queued)
    PROVE  /\ SerialsOf(q) \in Seq(Nat) /\ Len(SerialsOf(q)) = Len(q)
           /\ \A i \in 1..Len(q) : SerialsOf(q)[i] = q[i].sn
<1>1. DOMAIN q = 1..Len(q) /\ Len(q) \in Nat
  OBVIOUS
<1>2. \A i \in 1..Len(q) : q[i].sn \in Nat
  <2>1. ASSUME NEW i \in 1..Len(q) PROVE q[i] \in Queued
    BY ElementOfSeq
  <2> QED
    BY <2>1 DEF Queued
<1> QED
  BY <1>1, <1>2 DEF SerialsOf

\* Moving the first m packets of the queue from the queue to the READs
\* leaves the stream as it is.
LEMMA StreamMoved ==
    ASSUME NEW d \in Seq(Nat), NEW q \in Seq(Queued), NEW m \in 0..Len(q)
    PROVE  (d \o [i \in 1..m |-> q[i].sn]) \o SerialsOf(SubSeq(q, m + 1, Len(q)))
             = d \o SerialsOf(q)
<1> DEFINE A == [i \in 1..m |-> q[i].sn]
           R == SubSeq(q, m + 1, Len(q))
           B == SerialsOf(R)
           C == SerialsOf(q)
<1>1. C \in Seq(Nat) /\ Len(C) = Len(q) /\ \A i \in 1..Len(q) : C[i] = q[i].sn
  BY SerialsType
<1>2. R \in Seq(Queued) /\ Len(R) = Len(q) - m /\ \A i \in 1..(Len(q) - m) : R[i] = q[m + i]
  BY Rest
<1>3. m \in Nat /\ Len(q) \in Nat /\ m <= Len(q)
  OBVIOUS
<1>4. A \in Seq(Nat) /\ Len(A) = m /\ \A i \in 1..m : A[i] = C[i]
  <2>1. \A i \in 1..m : q[i].sn \in Nat /\ q[i].sn = C[i]
    BY <1>1, <1>3, ElementOfSeq
  <2> QED
    BY <1>3, <2>1
<1> HIDE DEF R
<1>5. B \in Seq(Nat) /\ Len(B) = Len(q) - m /\ \A i \in 1..(Len(q) - m) : B[i] = C[m + i]
  <2>1. B \in Seq(Nat) /\ Len(B) = Len(R) /\ \A i \in 1..Len(R) : B[i] = R[i].sn
    BY <1>2, SerialsType
  <2>2. \A i \in 1..(Len(q) - m) : m + i \in 1..Len(q)
    BY <1>3
  <2> QED
    BY <1>1, <1>2, <2>1, <2>2
<1> HIDE DEF A, B, C
<1>6. A \o B = C
  <2>1. /\ A \o B \in Seq(Nat) /\ Len(A \o B) = Len(A) + Len(B)
        /\ \A i \in 1..(Len(A) + Len(B)) : (A \o B)[i] = IF i <= Len(A) THEN A[i] ELSE B[i - Len(A)]
    <3>1. A \in Seq(Nat) /\ B \in Seq(Nat)
      BY <1>4, <1>5
    <3> QED
      BY ONLY <3>1, ConcatProperties
  <2> DEFINE D == A \o B
  <2>2. D \in Seq(Nat) /\ Len(D) = Len(q)
        /\ \A i \in 1..Len(q) : D[i] = IF i <= m THEN A[i] ELSE B[i - m]
    BY <2>1, <1>3, <1>4, <1>5
  <2> HIDE DEF D
  <2>3. ASSUME NEW i \in 1..Len(q) PROVE D[i] = C[i]
    <3>1. CASE i <= m
      BY <1>3, <1>4, <2>2, <3>1
    <3>2. CASE i > m
      <4>1. i - m \in 1..(Len(q) - m) /\ m + (i - m) = i
        BY <1>3, <3>2
      <4> QED
        BY <1>3, <1>5, <2>2, <3>2, <4>1
    <3> QED
      BY <1>3, <3>1, <3>2
  <2>4. D = C
    BY <1>1, <2>2, <2>3, SeqEqual
  <2> QED
    BY <2>4 DEF D
<1>7. (d \o A) \o B = d \o (A \o B)
  <2>1. A \in Seq(Nat) /\ B \in Seq(Nat)
    BY <1>4, <1>5
  <2>2. d \in Seq(Nat)
    OBVIOUS
  <2> QED
    BY ONLY <2>1, <2>2, ConcatAssociative, Z3T(30)
<1> QED
  BY <1>6, <1>7 DEF A, B, C, R

\* A packet that arrives extends the stream.
LEMMA StreamExtended ==
    ASSUME NEW d \in Seq(Nat), NEW q \in Seq(Queued), NEW p \in Queued
    PROVE  d \o SerialsOf(Append(q, p)) = Append(d \o SerialsOf(q), p.sn)
<1>1. p.sn \in Nat
  BY DEF Queued
<1>2. SerialsOf(Append(q, p)) = SerialsOf(q) \o <<p.sn>>
  <2> DEFINE L == SerialsOf(Append(q, p))
             S == SerialsOf(q)
             T == <<p.sn>>
             R == S \o T
  <2>1. /\ L \in Seq(Nat) /\ Len(L) = Len(q) + 1
        /\ \A i \in 1..(Len(q) + 1) : L[i] = Append(q, p)[i].sn
    BY SerialsType, Append(q, p) \in Seq(Queued), Len(Append(q, p)) = Len(q) + 1
  <2>2. S \in Seq(Nat) /\ Len(S) = Len(q) /\ \A i \in 1..Len(q) : S[i] = q[i].sn
    BY SerialsType
  <2>3. T \in Seq(Nat) /\ Len(T) = 1 /\ T[1] = p.sn
    BY <1>1
  <2> HIDE DEF S, T
  <2>4. /\ R \in Seq(Nat) /\ Len(R) = Len(S) + Len(T)
        /\ \A i \in 1..(Len(S) + Len(T)) : R[i] = IF i <= Len(S) THEN S[i] ELSE T[i - Len(S)]
    <3>1. S \in Seq(Nat) /\ T \in Seq(Nat)
      BY <2>2, <2>3
    <3> HIDE DEF L
    <3> QED
      BY ONLY <3>1, ConcatProperties DEF R
  <2> HIDE DEF L, R
  <2>5. ASSUME NEW i \in 1..(Len(q) + 1) PROVE L[i] = R[i]
    <3>1. CASE i <= Len(q)
      <4>1. i \in 1..Len(q) /\ Append(q, p)[i] = q[i]
        BY <3>1, AppendProperties
      <4> QED
        BY <2>1, <2>2, <2>3, <2>4, <3>1, <4>1
    <3>2. CASE i = Len(q) + 1
      <4>1. Append(q, p)[i] = p
        BY <3>2, AppendProperties
      <4>2. L[i] = p.sn
        BY <2>1, <4>1
      <4>3. Len(q) \in Nat /\ ~ (i <= Len(q)) /\ i - Len(q) = 1
        BY <3>2
      <4>4. R[i] = T[1]
        BY <2>2, <2>3, <2>4, <4>3
      <4> QED
        BY <2>3, <4>2, <4>4
    <3> QED
      BY <3>1, <3>2
  <2>6. L = R
    BY <2>1, <2>2, <2>3, <2>4, <2>5, SeqEqual
  <2> QED
    BY <2>6 DEF L, R, S, T
<1>3. SerialsOf(q) \in Seq(Nat) /\ <<p.sn>> \in Seq(Nat)
  BY <1>1, SerialsType
<1> DEFINE S == SerialsOf(q)
           T == <<p.sn>>
<1>4. d \o (S \o T) = (d \o S) \o T
  BY <1>3, ConcatAssociative
<1>5. d \o S \in Seq(Nat)
  BY <1>3, ConcatProperties
<1>6. (d \o S) \o <<p.sn>> = Append(d \o S, p.sn)
  BY <1>1, <1>5, AppendIsConcat
<1> QED
  BY <1>2, <1>4, <1>6

\* APB_PushToClient keeps the stream of its connection and touches no other.
LEMMA PushStream ==
    ASSUME TypeOK, NEW c \in Objects,
           NEW q \in Seq(Queued), NEW w \in Seq(Reqs), NEW rq, NEW used,
           PushToClient(c, q, w, rq, used)
    PROVE  /\ delivered'[c] \o SerialsOf(packets'[c]) = delivered[c] \o SerialsOf(q)
           /\ \A e \in Objects : e # c => delivered'[e] = delivered[e] /\ packets'[e] = packets[e]
<1>1. CASE ~ CanPush(c)
  BY <1>1 DEF PushToClient, TypeOK
<1>2. CASE CanPush(c)
  <2>0. PICK n \in 0..Len(w) : \E d \in [0..n -> 0..Len(q)] : PushResult(c, q, w, rq, used, n, d)
    BY <1>2 DEF PushToClient, PushResult
  <2>1. PICK m \in 0..Len(q) :
          /\ packets' = [packets EXCEPT ![c] = SubSeq(q, m + 1, Len(q))]
          /\ delivered' = [delivered EXCEPT ![c] = @ \o [i \in 1..m |-> q[i].sn]]
    <3>1. PICK d \in [0..n -> 0..Len(q)] : PushResult(c, q, w, rq, used, n, d)
      BY <2>0
    <3>2. d[n] \in 0..Len(q)
      OBVIOUS
    <3>3. /\ packets' = [packets EXCEPT ![c] = SubSeq(q, d[n] + 1, Len(q))]
          /\ delivered' = [delivered EXCEPT ![c] = @ \o [i \in 1..d[n] |-> q[i].sn]]
      BY <3>1 DEF PushResult
    <3> QED
      BY <3>2, <3>3, Zenon
  <2>2. /\ packets'[c] = SubSeq(q, m + 1, Len(q))
        /\ delivered'[c] = delivered[c] \o [i \in 1..m |-> q[i].sn]
        /\ \A e \in Objects : e # c => delivered'[e] = delivered[e] /\ packets'[e] = packets[e]
    BY <2>1 DEF TypeOK
  <2>3. delivered[c] \in Seq(Nat)
    BY DEF TypeOK
  <2> QED
    BY <2>2, <2>3, StreamMoved
<1> QED
  BY <1>1, <1>2

\* READs are answered with exactly the data that arrived, in order.
THEOREM StreamCorrect == Spec => []StreamIntact
<1> USE DEF serverVars, packetVars, clientVars, remoteVars, historyVars
<1>1. Init => StreamIntact
  <2>1. SerialsOf(<<>>) = <<>>
    BY DEF SerialsOf
  <2>2. <<>> \o <<>> = <<>>
    BY ConcatEmptySeq, <<>> \in Seq(Nat)
  <2> QED
    BY <2>1, <2>2 DEF Init, StreamIntact
<1>2. TypeOK /\ StreamIntact /\ [Next]_vars => StreamIntact'
  <2> SUFFICES ASSUME TypeOK, StreamIntact, [Next]_vars,
                      NEW e \in Objects
               PROVE  accepted'[e] = delivered'[e] \o SerialsOf(packets'[e])
    BY DEF StreamIntact
  <2>1. CASE accepted'[e] = accepted[e] /\ delivered'[e] = delivered[e] /\ packets'[e] = packets[e]
    BY <2>1 DEF StreamIntact
  <2>2. CASE ClientStep
    <3>1. \A r, type, id, len, timeout :
            PutMsg(r, type, id, len, timeout) => UNCHANGED <<accepted, delivered, packets>>
      BY DEF PutMsg
    <3>2. \A r : GetReply(r) \/ Abort(r) => UNCHANGED <<accepted, delivered, packets>>
      BY DEF GetReply, Abort
    <3>3. UNCHANGED <<accepted, delivered, packets>>
      BY <2>2, <3>1, <3>2 DEF ClientStep, OpenConnection, CloseConnection, FreeConnection, Read, Write
    <3> QED
      BY <2>1, <3>3
  <2>3. CASE HandleRequest
    <3>1. ASSUME NEW r \in Reqs, NEW c \in Objects, NEW s \in CnnState, HandleOpen(r, c, s)
          PROVE  accepted'[e] = delivered'[e] \o SerialsOf(packets'[e])
      <4>1. CASE e = c
        <5>1. accepted'[e] = <<>> /\ delivered'[e] = <<>> /\ packets'[e] = <<>>
          BY <3>1, <4>1 DEF HandleOpen, TypeOK
        <5>2. SerialsOf(<<>>) = <<>> /\ <<>> \o <<>> = <<>>
          BY ConcatEmptySeq, <<>> \in Seq(Nat) DEF SerialsOf
        <5> QED
          BY <5>1, <5>2
      <4>2. CASE e # c
        BY <2>1, <3>1, <4>2 DEF HandleOpen, TypeOK
      <4> QED
        BY <4>1, <4>2
    <3>2. ASSUME NEW r \in Reqs, NEW c \in Objects, HandleRead(r, c)
          PROVE  accepted'[e] = delivered'[e] \o SerialsOf(packets'[e])
      <4> DEFINE w  == AddRequest(reqs[c], r)
                 rq == [req EXCEPT ![r] = Accept(r, cnn[c].id)]
      <4>1. PushToClient(c, packets[c], w, rq, inUse) /\ accepted' = accepted
        BY <3>2 DEF HandleRead
      <4>2. w \in Seq(Reqs) /\ packets[c] \in Seq(Queued)
        BY DEF TypeOK, AddRequest
      <4> HIDE DEF w, rq
      <4>3. /\ delivered'[c] \o SerialsOf(packets'[c]) = delivered[c] \o SerialsOf(packets[c])
            /\ e # c => delivered'[e] = delivered[e] /\ packets'[e] = packets[e]
        BY <4>1, <4>2, PushStream
      <4> QED
        BY <2>1, <4>1, <4>3 DEF StreamIntact
    <3>3. ASSUME NEW r \in Reqs, NEW c \in Objects,
                 \/ RejectRequest(r) \/ RefuseControl(r)
                 \/ HandleClose(r, c) \/ RefuseRequest(r, c) \/ HandleWrite(r, c)
          PROVE  accepted'[e] = delivered'[e] \o SerialsOf(packets'[e])
      BY <2>1, <3>3 DEF RejectRequest, RefuseControl, HandleClose, RefuseRequest, HandleWrite
    <3> QED
      BY <2>3, <3>1, <3>2, <3>3 DEF HandleRequest
  <2>4. CASE HandlePacket
    <3>1. ASSUME NEW c \in Objects,
                 HandleConnected(c) \/ HandleNoHandler(c)
          PROVE  accepted'[e] = delivered'[e] \o SerialsOf(packets'[e])
      BY <2>1, <3>1 DEF HandleConnected, HandleNoHandler
    <3>2. ASSUME NEW c \in Objects, HandleDisconnected(c)
          PROVE  accepted'[e] = delivered'[e] \o SerialsOf(packets'[e])
      <4>0. /\ accepted' = [accepted EXCEPT ![c] = <<>>]
            /\ delivered' = [delivered EXCEPT ![c] = <<>>]
            /\ packets' = [packets EXCEPT ![c] = <<>>]
        BY <3>2 DEF HandleDisconnected
      <4>1. CASE e = c
        <5>1. accepted'[e] = <<>> /\ delivered'[e] = <<>> /\ packets'[e] = <<>>
          BY <4>0, <4>1 DEF TypeOK
        <5>2. SerialsOf(<<>>) = <<>> /\ <<>> \o <<>> = <<>>
          BY ConcatEmptySeq, <<>> \in Seq(Nat) DEF SerialsOf
        <5> QED
          BY <5>1, <5>2
      <4>2. CASE e # c
        BY <2>1, <4>0, <4>2 DEF TypeOK
      <4> QED
        BY <4>1, <4>2
    <3>3. ASSUME NEW c \in Objects, HandleData(c)
          PROVE  accepted'[e] = delivered'[e] \o SerialsOf(packets'[e])
      <4>1. CASE cnn[c].state >= CS_DISCONNECTING
        BY <2>1, <3>3, <4>1 DEF HandleData
      <4>2. CASE ~ (cnn[c].state >= CS_DISCONNECTING)
        <5> DEFINE p == [sn |-> kept + 1, len |-> Head(in).len]
                   q == Append(packets[c], p)
        <5>1. PushToClient(c, q, reqs[c], req, Hold)
          BY <3>3, <4>2 DEF HandleData, AddPacket
        <5>2. accepted' = [accepted EXCEPT ![c] = Append(accepted[c], p.sn)]
          BY <3>3, <4>2 DEF HandleData
        <5>3. p \in Queued
          <6>1. Head(in) \in InPacket
            BY <3>3, InHead DEF HandleData, GetPacket
          <6> QED
            BY <6>1 DEF Queued, InPacket, TypeOK
        <5> HIDE DEF p
        <5>4. packets[c] \in Seq(Queued) /\ q \in Seq(Queued) /\ reqs[c] \in Seq(Reqs)
              /\ delivered[c] \in Seq(Nat)
          BY <5>3 DEF TypeOK
        <5>5. delivered[c] \o SerialsOf(q) = Append(delivered[c] \o SerialsOf(packets[c]), p.sn)
          BY <5>3, <5>4, StreamExtended
        <5> HIDE DEF q
        <5>6. /\ delivered'[c] \o SerialsOf(packets'[c]) = delivered[c] \o SerialsOf(q)
              /\ e # c => delivered'[e] = delivered[e] /\ packets'[e] = packets[e]
          BY <5>1, <5>4, PushStream
        <5>7. CASE e = c
          <6>1. accepted'[c] = Append(accepted[c], p.sn)
            BY <5>2 DEF TypeOK
          <6> QED
            BY <5>5, <5>6, <5>7, <6>1 DEF StreamIntact
        <5>8. CASE e # c
          <6>1. accepted'[e] = accepted[e]
            BY <5>2, <5>8 DEF TypeOK
          <6> QED
            BY <2>1, <5>6, <5>8, <6>1
        <5> QED
          BY <5>7, <5>8
      <4> QED
        BY <4>1, <4>2
    <3>4. CASE UnknownConnection \/ HandleControlPacket
      BY <2>1, <3>4 DEF UnknownConnection, HandleControlPacket
    <3> QED
      BY <2>4, <3>1, <3>2, <3>3, <3>4 DEF HandlePacket
  <2>5. CASE CheckRequestTimeouts
    BY <2>1, <2>5 DEF CheckRequestTimeouts
  <2>6. CASE PiStep
    <3>1. UNCHANGED amigaVars
      BY <2>6 DEF PiStep, PiAnswerConnect, PiAnswerDisconnect, LeaveAmiga, LosePacket,
                  ResendPacket, PiSend, PiClose
    <3> QED
      BY <2>1, <3>1 DEF amigaVars
  <2>7. CASE UNCHANGED vars
    BY <2>1, <2>7 DEF vars
  <2> QED
    BY <2>2, <2>3, <2>4, <2>5, <2>6, <2>7 DEF Next
<1> QED
  BY <1>1, <1>2, TypeCorrect, PTL DEF Spec

-----------------------------------------------------------------------------
(* Connection ids.                                                         *)

\* Until the counter has wrapped, the live connections have different ids
\* from those handed out so far, and the next id is a new one.
IdInv ==
    opens < IdMod =>
        /\ \A i \in DOMAIN cnnList : cnn[cnnList[i]].id \in 1..opens
        /\ \A i, j \in DOMAIN cnnList : cnn[cnnList[i]].id = cnn[cnnList[j]].id => i = j
        /\ opens + 1 < IdMod => nextId = opens + 1

\* A step that changes no id and no membership of the list.
LEMMA IdSame ==
    ASSUME TypeOK, IdInv, UNCHANGED <<opens, nextId, cnnList>>,
           \A c \in Objects : cnn'[c].id = cnn[c].id
    PROVE  IdInv'
<1>1. \A i \in DOMAIN cnnList : cnnList[i] \in Objects
  BY ElementOfSeq DEF TypeOK
<1> QED
  BY <1>1 DEF IdInv

LEMMA IdOpen ==
    ASSUME TypeOK, IdInv, NEW r \in Reqs, NEW c \in Objects, NEW s \in CnnState, HandleOpen(r, c, s)
    PROVE  IdInv'
<1> USE ConnectionsAssumption
<1> SUFFICES ASSUME opens' < IdMod
             PROVE  /\ \A i \in DOMAIN cnnList' : cnn'[cnnList'[i]].id \in 1..opens'
                    /\ \A i, j \in DOMAIN cnnList' :
                         cnn'[cnnList'[i]].id = cnn'[cnnList'[j]].id => i = j
                    /\ opens' + 1 < IdMod => nextId' = opens' + 1
  BY DEF IdInv
<1> DEFINE n == Len(cnnList)
<1>1. opens \in Nat /\ opens' = opens + 1 /\ cnnList \in Seq(Objects) /\ n \in Nat
  BY DEF HandleOpen, TypeOK
<1>2. opens < IdMod /\ nextId = opens + 1
  BY <1>1 DEF IdInv
<1>3. /\ cnn'[c].id = nextId
      /\ \A e \in Objects : e # c => cnn'[e] = cnn[e]
  BY DEF HandleOpen, TypeOK
<1>4. /\ DOMAIN cnnList' = 1..(n + 1) /\ cnnList'[n + 1] = c
      /\ DOMAIN cnnList = 1..n /\ \A i \in 1..n : cnnList'[i] = cnnList[i]
  BY <1>1 DEF HandleOpen
<1> HIDE DEF n
<1>5. ASSUME NEW i \in 1..n PROVE cnn'[cnnList'[i]].id = cnn[cnnList[i]].id
  <2>0. i \in DOMAIN cnnList
    BY <1>4
  <2>1. cnnList[i] \in Objects /\ cnnList[i] # c
    BY <1>1, <2>0, ElementOfSeq DEF HandleOpen, IsLive
  <2> QED
    BY <1>3, <1>4, <2>1
<1>6. \A i \in 1..(n + 1) : i \in 1..n \/ i = n + 1
  BY <1>1
<1>7. \A i \in 1..n : cnn[cnnList[i]].id \in 1..opens
  BY <1>2, <1>4 DEF IdInv
<1>8. cnn'[cnnList'[n + 1]].id = opens + 1
  BY <1>2, <1>3, <1>4
<1>9. \A i \in DOMAIN cnnList' : cnn'[cnnList'[i]].id \in 1..opens'
  BY <1>1, <1>4, <1>5, <1>6, <1>7, <1>8
<1>10. ASSUME NEW i \in 1..(n + 1), NEW j \in 1..(n + 1),
              cnn'[cnnList'[i]].id = cnn'[cnnList'[j]].id
       PROVE  i = j
  <2>1. CASE i \in 1..n /\ j \in 1..n
    BY <1>2, <1>4, <1>5, <1>10, <2>1 DEF IdInv
  <2>2. CASE i \in 1..n /\ j = n + 1
    BY <1>1, <1>5, <1>7, <1>8, <1>10, <2>2
  <2>3. CASE i = n + 1 /\ j \in 1..n
    BY <1>1, <1>5, <1>7, <1>8, <1>10, <2>3
  <2> QED
    BY <1>6, <2>1, <2>2, <2>3
<1>11. opens' + 1 < IdMod => nextId' = opens' + 1
  BY <1>1, <1>2 DEF HandleOpen, NextId
<1> QED
  BY <1>4, <1>9, <1>10, <1>11

LEMMA IdDestroy ==
    ASSUME TypeOK, IdInv, NEW c \in Objects, HandleDisconnected(c)
    PROVE  IdInv'
<1> SUFFICES ASSUME opens < IdMod
             PROVE  /\ \A i \in DOMAIN cnnList' : cnn'[cnnList'[i]].id \in 1..opens
                    /\ \A i, j \in DOMAIN cnnList' :
                         cnn'[cnnList'[i]].id = cnn'[cnnList'[j]].id => i = j
                    /\ opens + 1 < IdMod => nextId = opens + 1
  BY DEF IdInv, HandleDisconnected, GetPacket
<1>1. PICK m \in DOMAIN cnnList : cnnList[m] = c /\ cnnList' = Unlink(cnnList, m)
  BY DEF HandleDisconnected, Unlink
<1>2. cnnList \in Seq(Objects)
  BY DEF TypeOK
<1>3. \A e \in Objects : e # c => cnn'[e] = cnn[e]
  BY DEF HandleDisconnected, TypeOK
<1> DEFINE n == Len(cnnList)
<1>4. /\ n \in Nat /\ DOMAIN cnnList = 1..n /\ m \in 1..n
      /\ DOMAIN cnnList' = 1..(n - 1)
      /\ \A i \in 1..(n - 1) : cnnList'[i] = IF i < m THEN cnnList[i] ELSE cnnList[i + 1]
  <2>1. /\ cnnList' \in Seq(Objects) /\ Len(cnnList') = Len(cnnList) - 1
        /\ \A i \in 1..(Len(cnnList) - 1) :
             cnnList'[i] = IF i < m THEN cnnList[i] ELSE cnnList[i + 1]
    BY <1>1, <1>2, UnlinkSeq
  <2> QED
    BY <1>2, <2>1
<1> HIDE DEF n
<1> DEFINE old(i) == IF i < m THEN i ELSE i + 1
<1>5. ASSUME NEW i \in 1..(n - 1)
      PROVE  /\ old(i) \in 1..n /\ old(i) # m
             /\ cnn'[cnnList'[i]].id = cnn[cnnList[old(i)]].id
  <2>1. old(i) \in 1..n /\ old(i) # m /\ cnnList'[i] = cnnList[old(i)]
    BY <1>4
  <2>2. cnnList[old(i)] \in Objects
    BY <1>2, <1>4, <2>1, ElementOfSeq
  <2>3. cnnList[old(i)] # c
    BY <1>1, <1>4, <2>1 DEF IdInv
  <2> QED
    BY <1>3, <2>1, <2>2, <2>3
<1>6. ASSUME NEW i \in 1..(n - 1), NEW j \in 1..(n - 1), old(i) = old(j) PROVE i = j
  BY <1>4, <1>6
<1> HIDE DEF old
<1>7. \A i \in DOMAIN cnnList' : cnn'[cnnList'[i]].id \in 1..opens
  BY <1>4, <1>5 DEF IdInv
<1>8. ASSUME NEW i \in DOMAIN cnnList', NEW j \in DOMAIN cnnList',
             cnn'[cnnList'[i]].id = cnn'[cnnList'[j]].id
      PROVE  i = j
  <2>1. i \in 1..(n - 1) /\ j \in 1..(n - 1)
    BY <1>4
  <2>2. cnn[cnnList[old(i)]].id = cnn[cnnList[old(j)]].id
    BY <1>5, <1>8, <2>1
  <2>3. old(i) = old(j)
    BY <1>4, <1>5, <2>1, <2>2 DEF IdInv
  <2> QED
    BY <1>6, <2>1, <2>3
<1> QED
  BY <1>7, <1>8 DEF IdInv

\* Writing cnn_State leaves every cnn_Id alone.
LEMMA EditedId ==
    ASSUME TypeOK, NEW c \in Objects, NEW s,
           cnn' = [cnn EXCEPT ![c] = [cnn[c] EXCEPT !.state = s]]
    PROVE  \A e \in Objects : cnn'[e].id = cnn[e].id
<1>1. DOMAIN cnn = Objects /\ "id" \in DOMAIN cnn[c]
  BY DEF TypeOK
<1>2. [cnn[c] EXCEPT !.state = s].id = cnn[c].id
  BY <1>1
<1>3. \A e \in Objects : cnn'[e] = IF e = c THEN [cnn[c] EXCEPT !.state = s] ELSE cnn[e]
  BY <1>1
<1> QED
  BY <1>2, <1>3

LEMMA IdInvCorrect == Spec => []IdInv
<1> USE DEF serverVars, packetVars, clientVars, remoteVars, historyVars
<1>1. Init => IdInv
  BY ConnectionsAssumption DEF Init, IdInv
<1>2. TypeOK /\ IdInv /\ [Next]_vars => IdInv'
  <2> SUFFICES ASSUME TypeOK, IdInv, [Next]_vars PROVE IdInv'
    OBVIOUS
  <2>1. CASE UNCHANGED <<opens, nextId, cnnList, cnn>>
    BY <2>1, IdSame
  <2>2. CASE ClientStep
    <3>1. \A r, type, id, len, timeout :
            PutMsg(r, type, id, len, timeout) => UNCHANGED <<opens, nextId, cnnList, cnn>>
      BY DEF PutMsg
    <3>2. \A r : GetReply(r) \/ Abort(r) => UNCHANGED <<opens, nextId, cnnList, cnn>>
      BY DEF GetReply, Abort
    <3>3. UNCHANGED <<opens, nextId, cnnList, cnn>>
      BY <2>2, <3>1, <3>2 DEF ClientStep, OpenConnection, CloseConnection, FreeConnection, Read, Write
    <3> QED
      BY <2>1, <3>3
  <2>3. CASE HandleRequest
    <3>1. ASSUME NEW r \in Reqs, NEW c \in Objects, HandleClose(r, c) PROVE IdInv'
      <4>1. \A e \in Objects : cnn'[e].id = cnn[e].id
        <5>1. cnn' = cnn \/ \E s : cnn' = [cnn EXCEPT ![c] = [cnn[c] EXCEPT !.state = s]]
          BY <3>1 DEF HandleClose
        <5>2. CASE cnn' = cnn
          BY <5>2
        <5>3. ASSUME NEW s, cnn' = [cnn EXCEPT ![c] = [cnn[c] EXCEPT !.state = s]]
              PROVE  \A e \in Objects : cnn'[e].id = cnn[e].id
          BY <5>3, EditedId
        <5> QED
          BY ONLY <5>1, <5>2, <5>3
      <4> QED
        BY <3>1, <4>1, IdSame DEF HandleClose
    <3>2. ASSUME NEW r \in Reqs, NEW c \in Objects,
                 \/ RefuseRequest(r, c)
                 \/ HandleRead(r, c) \/ HandleWrite(r, c)
          PROVE  IdInv'
      BY <2>1, <3>2 DEF RefuseRequest, HandleRead, HandleWrite
    <3>3. ASSUME NEW r \in Reqs, NEW c \in Objects, NEW s \in CnnState, HandleOpen(r, c, s)
          PROVE  IdInv'
      BY <3>3, IdOpen
    <3>4. ASSUME NEW r \in Reqs, RejectRequest(r) \/ RefuseControl(r) PROVE IdInv'
      BY <2>1, <3>4 DEF RejectRequest, RefuseControl
    <3> QED
      BY <2>3, <3>1, <3>2, <3>3, <3>4 DEF HandleRequest
  <2>4. CASE HandlePacket
    <3>1. ASSUME NEW c \in Objects, HandleConnected(c) \/ HandleNoHandler(c) PROVE IdInv'
      <4>1. \A e \in Objects : cnn'[e].id = cnn[e].id
        <5>1. PICK s : cnn' = [cnn EXCEPT ![c] = [cnn[c] EXCEPT !.state = s]]
          BY <3>1 DEF HandleConnected, HandleNoHandler
        <5> QED
          BY <5>1, EditedId
      <4> QED
        BY <3>1, <4>1, IdSame DEF HandleConnected, HandleNoHandler, GetPacket
    <3>2. ASSUME NEW c \in Objects, HandleData(c) PROVE IdInv'
      BY <2>1, <3>2 DEF HandleData, GetPacket
    <3>3. CASE UnknownConnection \/ HandleControlPacket
      BY <2>1, <3>3 DEF UnknownConnection, HandleControlPacket, GetPacket
    <3>4. ASSUME NEW c \in Objects, HandleDisconnected(c) PROVE IdInv'
      BY <3>4, IdDestroy
    <3> QED
      BY <2>4, <3>1, <3>2, <3>3, <3>4 DEF HandlePacket
  <2>5. CASE CheckRequestTimeouts
    BY <2>1, <2>5 DEF CheckRequestTimeouts
  <2>6. CASE PiStep
    <3>1. UNCHANGED amigaVars
      BY <2>6 DEF PiStep, PiAnswerConnect, PiAnswerDisconnect, LeaveAmiga, LosePacket,
                  ResendPacket, PiSend, PiClose
    <3> QED
      BY <2>1, <3>1 DEF amigaVars
  <2> QED
    BY <2>1, <2>2, <2>3, <2>4, <2>5, <2>6 DEF Next, vars
<1> QED
  BY <1>1, <1>2, TypeCorrect, PTL DEF Spec

\* While fewer than IdMod connections have been opened since the server
\* started, APB_FindConnection finds the one connection with the id, and no
\* connection has the id of control messages.
THEOREM IdsCorrect == Spec => []UniqueIds
<1>1. IdInv /\ TypeOK => UniqueIds
  <2> SUFFICES ASSUME IdInv, opens < IdMod,
                      NEW i \in DOMAIN cnnList, NEW j \in DOMAIN cnnList
               PROVE  /\ cnn[cnnList[i]].id # 0
                      /\ cnn[cnnList[i]].id = cnn[cnnList[j]].id => i = j
    BY DEF UniqueIds
  <2> QED
    BY DEF IdInv
<1> QED
  BY <1>1, IdInvCorrect, TypeCorrect, PTL

=============================================================================
