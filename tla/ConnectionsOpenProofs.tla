---------------------- MODULE ConnectionsOpenProofs -----------------------
(***************************************************************************)
(* Theorems about Connections that rest on the life of an OPEN: who holds  *)
(* which connection id, when, and what of it is still on its way to or     *)
(* from the Pi.                                                            *)
(***************************************************************************)
EXTENDS ConnectionsQueueProofs

-----------------------------------------------------------------------------
(* What the server does to requests.                                       *)

\* The data at the head of the incoming packets is queued at the end of the
\* packets of its connection.
LEMMA DataQueued ==
    ASSUME TypeOK, in # <<>>, NEW c \in Objects
    PROVE  AddPacket(packets[c], [sn |-> kept + 1, len |-> Head(in).len]) \in Seq(Queued)
<1>1. kept + 1 \in Nat
  BY DEF TypeOK
<1>2. Head(in).len \in Nat
  BY InHead DEF InPacket
<1>3. packets[c] \in Seq(Queued)
  BY DEF TypeOK
<1> DEFINE p == [sn |-> kept + 1, len |-> Head(in).len]
<1>4. p \in Queued
  BY <1>1, <1>2 DEF Queued
<1> HIDE DEF p
<1>5. Append(packets[c], p) \in Seq(Queued)
  BY <1>3, <1>4
<1> QED
  BY <1>5 DEF AddPacket, p

\* APB_PushToClient touches only requests it answers, and answers one only
\* if the connection is open and there is a packet.
LEMMA PushKeeps ==
    ASSUME TypeOK, NEW c \in Objects, NEW q \in Seq(Queued), NEW w \in Seq(Reqs),
           NEW rq \in [Reqs -> Request], NEW used, PushToClient(c, q, w, rq, used),
           NEW r \in Reqs
    PROVE  \/ req'[r] = rq[r] /\ where'[r] = where[r]
           \/ /\ CanPush(c) /\ q # <<>> /\ \E i \in DOMAIN w : w[i] = r
              /\ where'[r] = "replied"
              /\ req'[r].type = rq[r].type /\ req'[r].conn = rq[r].conn
<1>1. CASE ~ CanPush(c)
  BY <1>1 DEF PushToClient
<1>2. CASE CanPush(c)
  <2>0. PICK n \in 0..Len(w) : \E d \in [0..n -> 0..Len(q)] : PushResult(c, q, w, rq, used, n, d)
    BY <1>2 DEF PushToClient, PushResult
  <2>1. PICK d \in [0..n -> 0..Len(q)] : PushResult(c, q, w, rq, used, n, d)
    BY <2>0
  <2>2. CASE \E i \in 1..n : w[i] = r
    <3> DEFINE i == CHOOSE i \in 1..n : w[i] = r
               ans == Answer(rq[r], q, d[i-1], d[i])
    <3>1. req'[r] = ans /\ where'[r] = "replied"
      BY <2>1, <2>2 DEF PushResult
    <3>2. rq[r] \in Request
      OBVIOUS
    <3>3. ans.type = rq[r].type /\ ans.conn = rq[r].conn
      <4> HIDE DEF i
      <4> QED
        BY <3>2 DEF Answer, Request
    <3>4. 1 \in 1..n /\ d[1 - 1] < Len(q)
      BY <2>1, <2>2 DEF PushResult, PushLoop
    <3>5. q # <<>>
      <4>1. d[0] < Len(q) /\ d[0] \in 0..Len(q) /\ Len(q) \in Nat
        BY <3>4
      <4> QED
        BY <4>1
    <3>6. \E j \in DOMAIN w : w[j] = r
      BY <2>2
    <3> HIDE DEF ans
    <3> QED
      BY <1>2, <3>1, <3>3, <3>5, <3>6
  <2>3. CASE ~ \E i \in 1..n : w[i] = r
    BY <2>1, <2>3 DEF PushResult
  <2> QED
    BY <2>2, <2>3
<1> QED
  BY <1>1, <1>2

\* Data for an open connection answers requests that wait for it, no others.
LEMMA DataKeeps ==
    ASSUME TypeOK, NEW c \in Objects, HandleData(c), ~ (cnn[c].state >= CS_DISCONNECTING),
           NEW r \in Reqs
    PROVE  \/ req'[r] = req[r] /\ where'[r] = where[r]
           \/ CanPush(c) /\ \E i \in DOMAIN reqs[c] : reqs[c][i] = r
<1> DEFINE q == AddPacket(packets[c], [sn |-> kept + 1, len |-> Head(in).len])
<1>1. PushToClient(c, q, reqs[c], req, Hold)
  BY DEF HandleData
<1>2. q \in Seq(Queued)
  BY DataQueued DEF HandleData, GetPacket
<1> HIDE DEF q
<1>3. reqs[c] \in Seq(Reqs) /\ req \in [Reqs -> Request]
  BY DEF TypeOK
<1> QED
  BY <1>1, <1>2, <1>3, PushKeeps

\* The request at the head of the port, and the one on a queue, are the
\* server's.
LEMMA ServersOwn ==
    ASSUME TypeOK, OneOwner
    PROVE  /\ \A r, type : GetMsg(r, type) => r \in Reqs /\ where[r] = "server" /\ OnPort(r)
           /\ \A c \in Objects : \A i \in DOMAIN reqs[c] :
                reqs[c][i] \in Reqs /\ where[reqs[c][i]] = "server" /\ ~ OnPort(reqs[c][i])
<1>1. ASSUME NEW r, NEW type, GetMsg(r, type)
      PROVE  r \in Reqs /\ where[r] = "server" /\ OnPort(r)
  <2>1. port # <<>> /\ r = Head(port) /\ port \in Seq(Reqs)
    BY <1>1 DEF GetMsg, TypeOK
  <2>2. 1 \in DOMAIN port /\ r = port[1]
    BY <2>1
  <2> QED
    BY <2>1, <2>2, ElementOfSeq DEF OneOwner, OnPort
<1>2. ASSUME NEW c \in Objects, NEW i \in DOMAIN reqs[c]
      PROVE  reqs[c][i] \in Reqs /\ where[reqs[c][i]] = "server" /\ ~ OnPort(reqs[c][i])
  <2>1. reqs[c] \in Seq(Reqs)
    BY DEF TypeOK
  <2> QED
    BY <2>1, ElementOfSeq DEF OneOwner, OnPort
<1> QED
  BY <1>1, <1>2

\* What the server leaves of a request: its type, and its connection unless
\* the step serves it as an OPEN; it may reply.
Served(r) ==
    /\ req'[r].type = req[r].type
    /\ where'[r] = where[r] \/ (where[r] = "server" /\ where'[r] = "replied")
    /\ \/ req'[r].conn = req[r].conn
       \/ \E c \in Objects : \E s \in CnnState : HandleOpen(r, c, s)

ServerStep == HandleRequest \/ HandlePacket \/ CheckRequestTimeouts \/ PiStep

LEMMA ServerSteps ==
    ASSUME TypeOK, OneOwner, ServerStep
    PROVE  UNCHANGED <<phase, connId>> /\ \A r \in Reqs : Served(r)
<1> USE DEF serverVars, packetVars, clientVars, remoteVars, historyVars
<1>0. /\ req \in [Reqs -> Request]
      /\ where \in [Reqs -> {"client", "server", "replied"}]
      /\ packets \in [Objects -> Seq(Queued)] /\ reqs \in [Objects -> Seq(Reqs)]
  BY DEF TypeOK
<1>1. CASE UNCHANGED <<req, where, phase, connId>>
  BY <1>1 DEF Served
<1>2. ASSUME NEW x \in Reqs, where[x] = "server", NEW fields, ReplyMsg(x, fields),
             fields.type = req[x].type, fields.conn = req[x].conn, UNCHANGED <<phase, connId>>,
             NEW r \in Reqs
      PROVE  Served(r)
  BY <1>0, <1>2 DEF ReplyMsg, Served
<1>3. ASSUME NEW x \in Reqs, NEW id
      PROVE  /\ Accept(x, id).type = req[x].type /\ Accept(x, id).conn = id
             /\ \A s : [Accept(x, id) EXCEPT !.state = s].type = req[x].type
             /\ \A s : [Accept(x, id) EXCEPT !.state = s].conn = id
             /\ \A s : [req[x] EXCEPT !.state = s].type = req[x].type
             /\ \A s : [req[x] EXCEPT !.state = s].conn = req[x].conn
  <2>1. req[x] \in Request
    BY <1>0
  <2> QED
    BY <2>1 DEF Accept, Request
<1>8. ASSUME NEW x \in Reqs, where[x] = "server", UNCHANGED <<phase, connId>>, NEW r \in Reqs,
             \/ \E s : ReplyMsg(x, [req[x] EXCEPT !.state = s])
             \/ ReplyMsg(x, Accept(x, req[x].conn))
             \/ \E s : ReplyMsg(x, [Accept(x, req[x].conn) EXCEPT !.state = s])
      PROVE  Served(r)
  <2>1. ASSUME NEW s, ReplyMsg(x, [req[x] EXCEPT !.state = s]) PROVE Served(r)
    <3> DEFINE f == [req[x] EXCEPT !.state = s]
    <3>1. f.type = req[x].type /\ f.conn = req[x].conn /\ ReplyMsg(x, f)
      BY <1>3, <2>1
    <3> HIDE DEF f
    <3> QED
      BY <1>2, <1>8, <3>1
  <2>2. ASSUME ReplyMsg(x, Accept(x, req[x].conn)) PROVE Served(r)
    <3> DEFINE f == Accept(x, req[x].conn)
    <3>1. f.type = req[x].type /\ f.conn = req[x].conn /\ ReplyMsg(x, f)
      BY <1>3, <2>2
    <3> HIDE DEF f
    <3> QED
      BY <1>2, <1>8, <3>1
  <2>3. ASSUME NEW s, ReplyMsg(x, [Accept(x, req[x].conn) EXCEPT !.state = s]) PROVE Served(r)
    <3> DEFINE f == [Accept(x, req[x].conn) EXCEPT !.state = s]
    <3>1. f.type = req[x].type /\ f.conn = req[x].conn /\ ReplyMsg(x, f)
      BY <1>3, <2>3
    <3> HIDE DEF f
    <3> QED
      BY <1>2, <1>8, <3>1
  <2> QED
    BY <1>8, <2>1, <2>2, <2>3
<1>4. CASE HandleRequest
  <2>1. UNCHANGED <<phase, connId>>
    <3>1. ASSUME NEW r \in Reqs, RejectRequest(r) \/ RefuseControl(r) PROVE UNCHANGED <<phase, connId>>
      BY <3>1 DEF RejectRequest, RefuseControl
    <3>2. ASSUME NEW r \in Reqs, NEW c \in Objects,
                 \/ \E s \in CnnState : HandleOpen(r, c, s)
                 \/ HandleClose(r, c)
          PROVE  UNCHANGED <<phase, connId>>
      BY <3>2 DEF HandleOpen, HandleClose
    <3>3. ASSUME NEW r \in Reqs, NEW c \in Objects,
                 RefuseRequest(r, c) \/ HandleRead(r, c) \/ HandleWrite(r, c)
          PROVE  UNCHANGED <<phase, connId>>
      BY <3>3 DEF RefuseRequest, HandleRead, HandleWrite
    <3> QED
      BY <1>4, <3>1, <3>2, <3>3 DEF HandleRequest
  <2>2. ASSUME NEW x \in Reqs, RejectRequest(x) \/ RefuseControl(x), NEW r \in Reqs
        PROVE  Served(r)
    <3>1. where[x] = "server"
      BY <2>2, ServersOwn DEF RejectRequest, RefuseControl
    <3>2. \E s : ReplyMsg(x, [req[x] EXCEPT !.state = s])
      BY <2>2 DEF RejectRequest, RefuseControl
    <3> QED
      BY <1>8, <2>1, <3>1, <3>2
  <2>3. ASSUME NEW x \in Reqs, NEW c \in Objects, NEW s \in CnnState, HandleOpen(x, c, s),
               NEW r \in Reqs
        PROVE  Served(r)
    <3>1. where[x] = "server" /\ OnPort(x) /\ req[x].type = "OPEN"
      BY <2>3, ServersOwn DEF HandleOpen, GetMsg
    <3>2. req' = [req EXCEPT ![x] = Accept(x, nextId)] /\ where' = where
      BY <2>3 DEF HandleOpen
    <3>3. r = x => \E e \in Objects : \E t \in CnnState : HandleOpen(r, e, t)
      BY <2>3
    <3>4. r # x => req'[r].conn = req[r].conn
      BY <1>0, <3>2
    <3> HIDE <2>3
    <3>5. req'[r].type = req[r].type /\ where'[r] = where[r]
      BY <1>0, <1>3, <3>1, <3>2
    <3> QED
      BY <3>3, <3>4, <3>5 DEF Served
  <2>4. ASSUME NEW x \in Reqs, NEW c \in Objects,
               HandleClose(x, c) \/ RefuseRequest(x, c) \/ HandleWrite(x, c),
               NEW r \in Reqs
        PROVE  Served(r)
    <3>1. where[x] = "server" /\ req[x].conn = cnn[c].id
      BY <2>4, ServersOwn DEF HandleClose, RefuseRequest, HandleWrite, FindConnection
    <3>2. \/ ReplyMsg(x, Accept(x, cnn[c].id))
          \/ \E s : ReplyMsg(x, [Accept(x, cnn[c].id) EXCEPT !.state = s])
      BY <2>4 DEF HandleClose, RefuseRequest, HandleWrite
    <3> QED
      BY <1>8, <2>1, <3>1, <3>2
  <2>5. ASSUME NEW x \in Reqs, NEW c \in Objects, HandleRead(x, c), NEW r \in Reqs
        PROVE  Served(r)
    <3> DEFINE w  == AddRequest(reqs[c], x)
               rq == [req EXCEPT ![x] = Accept(x, cnn[c].id)]
    <3>1. PushToClient(c, packets[c], w, rq, inUse)
      BY <2>5 DEF HandleRead
    <3>2. where[x] = "server" /\ req[x].conn = cnn[c].id
      BY <2>5, ServersOwn DEF HandleRead, FindConnection
    <3>3. /\ w \in Seq(Reqs)
          /\ \A i \in DOMAIN w : w[i] = x \/ \E j \in DOMAIN reqs[c] : w[i] = reqs[c][j]
      BY <1>0 DEF AddRequest
    <3>4. Accept(x, cnn[c].id) \in Request
      BY AcceptType DEF TypeOK
    <3>5. rq \in [Reqs -> Request] /\ rq[r].type = req[r].type /\ rq[r].conn = req[r].conn
      BY <1>0, <1>3, <3>2, <3>4
    <3>6. \A i \in DOMAIN w : where[w[i]] = "server"
      BY <3>2, <3>3, ServersOwn
    <3> HIDE DEF w, rq
    <3>7. packets[c] \in Seq(Queued)
      BY <1>0
    <3>8. \/ req'[r] = rq[r] /\ where'[r] = where[r]
          \/ /\ \E i \in DOMAIN w : w[i] = r
             /\ where'[r] = "replied"
             /\ req'[r].type = rq[r].type /\ req'[r].conn = rq[r].conn
      BY <3>1, <3>3, <3>5, <3>7, PushKeeps
    <3> QED
      BY <3>5, <3>6, <3>8 DEF Served
  <2> QED
    BY <1>4, <2>1, <2>2, <2>3, <2>4, <2>5 DEF HandleRequest
<1>5. CASE HandlePacket
  <2>1. UNCHANGED <<phase, connId>>
    BY <1>5 DEF HandlePacket, UnknownConnection, HandleControlPacket, HandleConnected,
                HandleNoHandler, HandleDisconnected, HandleData, GetPacket
  <2>2. ASSUME NEW c \in Objects, NEW state, AnswerOpen(c, state), NEW r \in Reqs
        PROVE  Served(r)
    <3>1. CASE UNCHANGED <<reqs, req, where>>
      BY <3>1 DEF Served
    <3>2. CASE \E i \in DOMAIN reqs[c] :
                 ReplyMsg(reqs[c][i], [req[reqs[c][i]] EXCEPT !.state = state])
      <4>1. PICK i \in DOMAIN reqs[c] :
                 ReplyMsg(reqs[c][i], [req[reqs[c][i]] EXCEPT !.state = state])
        BY <3>2
      <4> DEFINE x == reqs[c][i]
      <4>2. x \in Reqs /\ where[x] = "server"
        BY ServersOwn
      <4>3. \E s : ReplyMsg(x, [req[x] EXCEPT !.state = s])
        BY <4>1
      <4> HIDE DEF x
      <4> QED
        BY <1>8, <2>1, <4>2, <4>3
    <3> QED
      BY <2>2, <3>1, <3>2 DEF AnswerOpen
  <2>3. ASSUME NEW c \in Objects, HandleData(c), NEW r \in Reqs
        PROVE  Served(r)
    <3>1. CASE cnn[c].state >= CS_DISCONNECTING
      BY <2>3, <3>1 DEF HandleData, Served
    <3>2. CASE ~ (cnn[c].state >= CS_DISCONNECTING)
      <4> DEFINE q == AddPacket(packets[c], [sn |-> kept + 1, len |-> Head(in).len])
      <4>1. PushToClient(c, q, reqs[c], req, Hold)
        BY <2>3, <3>2 DEF HandleData
      <4>2. q \in Seq(Queued)
        BY <2>3, DataQueued DEF HandleData, GetPacket
      <4> HIDE DEF q
      <4>3. reqs[c] \in Seq(Reqs)
        BY <1>0
      <4>4. \/ req'[r] = req[r] /\ where'[r] = where[r]
            \/ /\ \E i \in DOMAIN reqs[c] : reqs[c][i] = r
               /\ where'[r] = "replied"
               /\ req'[r].type = req[r].type /\ req'[r].conn = req[r].conn
        BY <1>0, <4>1, <4>2, <4>3, PushKeeps
      <4> QED
        BY <4>4, ServersOwn DEF Served
    <3> QED
      BY <3>1, <3>2
  <2> QED
    BY <1>1, <1>5, <2>1, <2>2, <2>3
    DEF HandlePacket, UnknownConnection, HandleControlPacket, HandleConnected,
        HandleNoHandler, HandleDisconnected
<1>6. CASE CheckRequestTimeouts
  <2>1. UNCHANGED <<phase, connId>>
    BY <1>6 DEF CheckRequestTimeouts
  <2>2. ASSUME NEW r \in Reqs PROVE Served(r)
    <3>1. req[r] \in Request
      BY <1>0
    <3>2. req'[r].type = req[r].type /\ req'[r].conn = req[r].conn
      BY <1>6, <3>1 DEF CheckRequestTimeouts, Request
    <3>3. ScanReaches(r) => where[r] = "server"
      BY ServersOwn DEF ScanReaches
    <3> QED
      BY <1>6, <3>2, <3>3 DEF CheckRequestTimeouts, Served
  <2> QED
    BY <2>1, <2>2
<1>7. CASE PiStep
  <2>1. UNCHANGED amigaVars
    BY <1>7 DEF PiStep, PiAnswerConnect, PiAnswerDisconnect, LeaveAmiga, LosePacket,
                ResendPacket, PiSend, PiClose
  <2> QED
    BY <1>1, <2>1 DEF amigaVars
<1> QED
  BY <1>4, <1>5, <1>6, <1>7 DEF ServerStep

\* A push that may answer an OPEN.
Bothered(r) == \E c \in Objects : OnQueue(r, c) /\ CanPush(c) /\ (packets[c] # <<>> \/ HandleData(c))

\* What the server does to an OPEN unless APB_PushToClient gets hold of it.
LEMMA OpenReplies ==
    ASSUME TypeOK, OneOwner, ServerStep, NEW r \in Reqs, req[r].type = "OPEN"
    PROVE  \/ req'[r] = req[r] /\ where'[r] = where[r]
           \/ where[r] = "server" /\ where'[r] = "server" /\ req'[r].got \in {0, req[r].got}
           \/ /\ where[r] = "server" /\ req'[r].got = req[r].got
              /\ \/ req'[r].state \in {"NO_HANDLER", "TIMEOUT"}
                 \/ req'[r].state = "OK" /\ \E c \in Objects : HandleConnected(c) /\ OnQueue(r, c)
           \/ Bothered(r)
<1> DEFINE Same  == req'[r] = req[r] /\ where'[r] = where[r]
           Moved == where[r] = "server" /\ where'[r] = "server" /\ req'[r].got \in {0, req[r].got}
           Connects == \E c \in Objects : HandleConnected(c) /\ OnQueue(r, c)
           Reply == /\ where[r] = "server" /\ req'[r].got = req[r].got
                    /\ \/ req'[r].state \in {"NO_HANDLER", "TIMEOUT"}
                       \/ req'[r].state = "OK" /\ Connects
<1> USE DEF serverVars, packetVars, clientVars, remoteVars, historyVars
<1>0. /\ req \in [Reqs -> Request] /\ req[r] \in Request
      /\ where \in [Reqs -> {"client", "server", "replied"}]
      /\ packets \in [Objects -> Seq(Queued)] /\ reqs \in [Objects -> Seq(Reqs)]
  BY DEF TypeOK
<1>1. UNCHANGED <<req, where>> => Same
  OBVIOUS
<1>2. ASSUME NEW x \in Reqs, x # r, NEW fields, ReplyMsg(x, fields) PROVE Same
  BY <1>0, <1>2 DEF ReplyMsg
<1>3. CASE HandleRequest
  <2>1. ASSUME NEW x \in Reqs, RejectRequest(x) \/ RefuseControl(x) PROVE Same
    BY <1>2, <2>1 DEF RejectRequest, RefuseControl
  <2>2. ASSUME NEW x \in Reqs, NEW c \in Objects, NEW s \in CnnState, HandleOpen(x, c, s)
        PROVE  Same \/ Moved
    <3>1. req' = [req EXCEPT ![x] = Accept(x, nextId)] /\ where' = where
      BY <2>2 DEF HandleOpen
    <3>2. where[x] = "server" /\ x \in Reqs
      BY <2>2, ServersOwn DEF HandleOpen
    <3>3. req[x] \in Request
      BY <1>0
    <3>4. Accept(x, nextId).got = 0
      BY <3>3 DEF Accept, Request
    <3> QED
      BY <1>0, <3>1, <3>2, <3>4
  <2>3. ASSUME NEW x \in Reqs, NEW c \in Objects,
               HandleClose(x, c) \/ RefuseRequest(x, c) \/ HandleWrite(x, c)
        PROVE  Same
    <3>1. x # r
      BY <2>3 DEF HandleClose, RefuseRequest, HandleWrite, GetMsg
    <3>2. \E fields : ReplyMsg(x, fields)
      BY <2>3 DEF HandleClose, RefuseRequest, HandleWrite
    <3> QED
      BY <1>2, <3>1, <3>2
  <2>4. ASSUME NEW x \in Reqs, NEW c \in Objects, HandleRead(x, c) PROVE Same \/ Bothered(r)
    <3> DEFINE w  == AddRequest(reqs[c], x)
               rq == [req EXCEPT ![x] = Accept(x, cnn[c].id)]
    <3>1. PushToClient(c, packets[c], w, rq, inUse)
      BY <2>4 DEF HandleRead
    <3>2. x # r
      BY <2>4 DEF HandleRead, GetMsg
    <3>3. /\ w \in Seq(Reqs)
          /\ \A i \in DOMAIN w : w[i] = x \/ \E j \in DOMAIN reqs[c] : w[i] = reqs[c][j]
      BY <1>0 DEF AddRequest
    <3>4. Accept(x, cnn[c].id) \in Request
      BY AcceptType DEF TypeOK
    <3>5. rq \in [Reqs -> Request] /\ rq[r] = req[r]
      BY <1>0, <3>2, <3>4
    <3> HIDE DEF w, rq
    <3>6. packets[c] \in Seq(Queued)
      BY <1>0
    <3>7. \/ req'[r] = rq[r] /\ where'[r] = where[r]
          \/ CanPush(c) /\ packets[c] # <<>> /\ \E i \in DOMAIN w : w[i] = r
      BY <3>1, <3>3, <3>5, <3>6, PushKeeps
    <3>8. (\E i \in DOMAIN w : w[i] = r) => OnQueue(r, c)
      BY <3>2, <3>3 DEF OnQueue
    <3> QED
      BY <3>5, <3>7, <3>8 DEF Bothered
  <2> QED
    BY <1>3, <2>1, <2>2, <2>3, <2>4 DEF HandleRequest
<1>4. CASE HandlePacket
  <2>1. ASSUME NEW c \in Objects, NEW state, AnswerOpen(c, state)
        PROVE  \/ Same
               \/ /\ where[r] = "server" /\ req'[r].got = req[r].got /\ req'[r].state = state
                  /\ OnQueue(r, c)
    <3>1. CASE UNCHANGED <<reqs, req, where>>
      BY <3>1
    <3>2. CASE \E i \in DOMAIN reqs[c] :
                 ReplyMsg(reqs[c][i], [req[reqs[c][i]] EXCEPT !.state = state])
      <4>1. PICK i \in DOMAIN reqs[c] :
                 ReplyMsg(reqs[c][i], [req[reqs[c][i]] EXCEPT !.state = state])
        BY <3>2
      <4> DEFINE x == reqs[c][i]
      <4>2. x \in Reqs /\ where[x] = "server"
        BY ServersOwn
      <4>3. ReplyMsg(x, [req[x] EXCEPT !.state = state])
        BY <4>1
      <4> HIDE DEF x
      <4>4. CASE x = r
        <5>1. req'[r] = [req[r] EXCEPT !.state = state]
          BY <1>0, <4>3, <4>4 DEF ReplyMsg
        <5>2. req'[r].got = req[r].got /\ req'[r].state = state
          BY <1>0, <5>1 DEF Request
        <5>3. OnQueue(r, c)
          BY <4>4 DEF OnQueue, x
        <5> QED
          BY <2>1, <4>2, <4>4, <5>2, <5>3
      <4>5. CASE x # r
        BY <1>2, <4>2, <4>3, <4>5
      <4> QED
        BY <4>4, <4>5
    <3> QED
      BY <2>1, <3>1, <3>2 DEF AnswerOpen
  <2>2. ASSUME NEW c \in Objects, HandleData(c) PROVE Same \/ Bothered(r)
    <3>1. CASE cnn[c].state >= CS_DISCONNECTING
      BY <2>2, <3>1 DEF HandleData
    <3>2. CASE ~ (cnn[c].state >= CS_DISCONNECTING)
      <4>4. \/ req'[r] = req[r] /\ where'[r] = where[r]
            \/ CanPush(c) /\ \E i \in DOMAIN reqs[c] : reqs[c][i] = r
        BY <2>2, <3>2, DataKeeps
      <4>5. HandleData(c)
        BY <2>2
      <4> QED
        BY <4>4, <4>5 DEF Bothered, OnQueue
    <3> QED
      BY <3>1, <3>2
  <2>3. ASSUME NEW c \in Objects, HandleConnected(c) PROVE Same \/ Reply
    <3>1. AnswerOpen(c, "OK")
      BY <2>3 DEF HandleConnected
    <3>2. OnQueue(r, c) => Connects
      BY <2>3
    <3> HIDE DEF Connects
    <3> QED
      BY <2>1, <3>1, <3>2
  <2>4. ASSUME NEW c \in Objects, HandleNoHandler(c) PROVE Same \/ Reply
    <3>1. AnswerOpen(c, "NO_HANDLER")
      BY <2>4 DEF HandleNoHandler
    <3> QED
      BY <2>1, <3>1
  <2> QED
    BY <1>1, <1>4, <2>2, <2>3, <2>4 DEF HandlePacket, UnknownConnection, HandleControlPacket,
                                        HandleDisconnected
<1>5. CASE CheckRequestTimeouts
  <2>1. ScanReaches(r) => where[r] = "server"
    BY ServersOwn DEF ScanReaches
  <2>2. CASE ScanReaches(r) /\ req[r].ticks = 1
    BY <1>0, <1>5, <2>1, <2>2 DEF CheckRequestTimeouts, Request
  <2>3. CASE ScanReaches(r) /\ req[r].ticks # 1
    BY <1>0, <1>5, <2>1, <2>3 DEF CheckRequestTimeouts, Request
  <2>4. CASE ~ ScanReaches(r)
    BY <1>0, <1>5, <2>4 DEF CheckRequestTimeouts
  <2> QED
    BY <2>2, <2>3, <2>4
<1>6. CASE PiStep
  <2>1. UNCHANGED amigaVars
    BY <1>6 DEF PiStep, PiAnswerConnect, PiAnswerDisconnect, LeaveAmiga, LosePacket,
                ResendPacket, PiSend, PiClose
  <2> QED
    BY <2>1 DEF amigaVars
<1> QED
  BY <1>3, <1>4, <1>5, <1>6 DEF ServerStep

-----------------------------------------------------------------------------
(* What the clients do to requests, and when.                              *)

\* A client fills in a request only while it is its own, the control request
\* is out exactly while it opens or closes, and what is out names the
\* connection the client has.
Manners ==
    /\ \A r \in Reqs :
         /\ where[r] = "client" => req[r].type = "OPEN" /\ req[r].conn = 0 /\ req[r].got = 0
         /\ where[r] # "client" =>
              IF r[2] = Ctl
              THEN phase[r[1]] = IF req[r].type = "OPEN" THEN "opening" ELSE "closing"
              ELSE req[r].type # "OPEN" /\ phase[r[1]] \in {"open", "failed"}
         /\ where[r] # "client" /\ req[r].type # "OPEN" => req[r].conn = connId[r[1]]
    /\ \A k \in Clients :
         /\ phase[k] \in {"idle", "opening"} => connId[k] = 0
         /\ phase[k] \in {"opening", "closing"} => where[<<k, Ctl>>] # "client"

LEMMA MannersServer ==
    ASSUME TypeOK, OneOwner, ServerStep, Manners
    PROVE  Manners'
<1>1. UNCHANGED <<phase, connId>> /\ \A r \in Reqs : Served(r)
  BY ServerSteps
<1>2. ASSUME NEW r \in Reqs, where[r] = "client"
      PROVE  where'[r] = "client" /\ req'[r] = req[r]
  <2>1. req[r].type = "OPEN" /\ where'[r] = "client"
    BY <1>1, <1>2 DEF Manners, Served
  <2>2. ~ Bothered(r)
    BY <1>2, ServersOwn DEF Bothered, OnQueue
  <2> QED
    BY <1>2, <2>1, <2>2, OpenReplies
<1>3. \A r \in Reqs : where[r] # "client" => where'[r] # "client"
  BY <1>1 DEF Served
<1>4. \A r \in Reqs : req[r].type # "OPEN" => req'[r].conn = req[r].conn
  BY <1>1 DEF Served, HandleOpen, GetMsg
<1>5. \A k \in Clients : <<k, Ctl>> \in Reqs
  BY ConnectionsAssumption DEF Reqs
<1>6. \A r \in Reqs : req'[r].type = req[r].type
  BY <1>1 DEF Served
<1> QED
  BY <1>1, <1>2, <1>3, <1>4, <1>5, <1>6 DEF Manners

\* What APB_PutMsg and the replies do to the other requests: nothing.
LEMMA PutRequest ==
    ASSUME TypeOK, NEW x \in Reqs, NEW type, NEW id, NEW len, NEW timeout,
           PutMsg(x, type, id, len, timeout)
    PROVE  /\ where[x] = "client" /\ where'[x] = "server"
           /\ req'[x].type = type /\ req'[x].conn = id /\ req'[x].got = req[x].got
           /\ \A r \in Reqs : r # x => req'[r] = req[r] /\ where'[r] = where[r]
<1> DEFINE f == [req[x] EXCEPT !.type = type, !.conn = id, !.len = len, !.timeout = timeout]
<1>1. req \in [Reqs -> Request] /\ req[x] \in Request
  BY DEF TypeOK
<1>2. f.type = type /\ f.conn = id /\ f.got = req[x].got
  BY <1>1 DEF Request
<1>3. req' = [req EXCEPT ![x] = f]
  BY DEF PutMsg
<1> HIDE DEF f
<1> QED
  BY <1>1, <1>2, <1>3 DEF PutMsg, TypeOK

LEMMA TakenBack ==
    ASSUME TypeOK, NEW x \in Reqs, TakeBack(x)
    PROVE  /\ where'[x] = "client"
           /\ req'[x].type = "OPEN" /\ req'[x].conn = 0 /\ req'[x].got = 0
           /\ \A r \in Reqs : r # x => req'[r] = req[r] /\ where'[r] = where[r]
<1>1. /\ req' = [req EXCEPT ![x] = Unused(req[x].ticks)]
      /\ where' = [where EXCEPT ![x] = "client"]
  BY DEF TakeBack
<1> QED
  BY <1>1 DEF TypeOK, Unused

LEMMA MannersClient ==
    ASSUME TypeOK, OneOwner, ClientStep, Manners
    PROVE  Manners'
<1>0. /\ \A k \in Clients : <<k, Ctl>> \in Reqs
      /\ \A r \in Reqs : r[1] \in Clients /\ r[2] \in Slots /\ r = <<r[1], r[2]>>
      /\ \A k \in Clients, s \in Slots : <<k, s>> \in Reqs /\ <<k, s>>[1] = k /\ <<k, s>>[2] = s
  BY ConnectionsAssumption DEF Reqs
<1>1. /\ phase \in [Clients -> {"idle", "opening", "open", "failed", "closing"}]
      /\ connId \in [Clients -> 0..(IdMod-1)]
  BY DEF TypeOK
<1>2. ASSUME NEW k \in Clients, OpenConnection(k) PROVE Manners'
  <2> DEFINE x == <<k, Ctl>>
  <2>1. PutMsg(x, "OPEN", DEFAULT_CONNECTION, 0, CtlTimeout) /\ x \in Reqs
    BY <1>0, <1>2 DEF OpenConnection
  <2>2. /\ where[x] = "client" /\ where'[x] = "server"
        /\ req'[x].type = "OPEN" /\ req'[x].conn = DEFAULT_CONNECTION
        /\ \A r \in Reqs : r # x => req'[r] = req[r] /\ where'[r] = where[r]
    BY <2>1, PutRequest
  <2>3. /\ phase[k] = "idle" /\ phase'[k] = "opening"
        /\ \A l \in Clients : l # k => phase'[l] = phase[l]
        /\ connId' = connId
    BY <1>1, <1>2 DEF OpenConnection
  <2>4. \A r \in Reqs : r # x /\ r[1] = k => where[r] = "client"
    BY <1>0, <2>3 DEF Manners
  <2>5. x[1] = k /\ x[2] = Ctl /\ \A l \in Clients : l # k => <<l, Ctl>> # x
    OBVIOUS
  <2> HIDE DEF x
  <2>6. <<k, Ctl>> = x
    BY DEF x
  <2> QED
    BY <1>0, <2>2, <2>3, <2>4, <2>5, <2>6 DEF Manners
<1>3. ASSUME NEW k \in Clients, CloseConnection(k) PROVE Manners'
  <2> DEFINE x == <<k, Ctl>>
  <2>1. PutMsg(x, "CLOSE", connId[k], 0, CtlTimeout) /\ x \in Reqs
    BY <1>0, <1>3 DEF CloseConnection
  <2>2. /\ where[x] = "client" /\ where'[x] = "server"
        /\ req'[x].type = "CLOSE" /\ req'[x].conn = connId[k]
        /\ \A r \in Reqs : r # x => req'[r] = req[r] /\ where'[r] = where[r]
    BY <2>1, PutRequest
  <2>3. /\ phase'[k] = "closing"
        /\ \A l \in Clients : l # k => phase'[l] = phase[l]
        /\ connId' = connId
    BY <1>1, <1>3 DEF CloseConnection
  <2>4. \A r \in Reqs : r # x /\ r[1] = k => where[r] = "client"
    <3>1. \A s \in Slots : where[<<k, s>>] = "client"
      BY <1>3 DEF CloseConnection
    <3> QED
      BY <1>0, <3>1
  <2>5. x[1] = k /\ x[2] = Ctl /\ \A l \in Clients : l # k => <<l, Ctl>> # x
    OBVIOUS
  <2> HIDE DEF x
  <2>6. <<k, Ctl>> = x
    BY DEF x
  <2> QED
    BY <1>0, <2>2, <2>3, <2>4, <2>5, <2>6 DEF Manners
<1>4. ASSUME NEW k \in Clients, FreeConnection(k) PROVE Manners'
  <2>1. UNCHANGED <<req, where>>
    BY <1>4 DEF FreeConnection
  <2>2. /\ phase'[k] = "idle" /\ connId'[k] = 0
        /\ \A l \in Clients : l # k => phase'[l] = phase[l] /\ connId'[l] = connId[l]
    BY <1>1, <1>4 DEF FreeConnection
  <2>3. \A r \in Reqs : r[1] = k => where[r] = "client"
    <3>1. \A s \in Slots : where[<<k, s>>] = "client"
      BY <1>4 DEF FreeConnection
    <3> QED
      BY <1>0, <3>1
  <2> QED
    BY <1>0, <2>1, <2>2, <2>3 DEF Manners
<1>5. ASSUME NEW k \in Clients, NEW s \in Slots, NEW type, type # "OPEN", NEW len, NEW timeout,
             MayUse(k), s # Ctl, PutMsg(<<k, s>>, type, connId[k], len, timeout),
             UNCHANGED clientVars
      PROVE  Manners'
  <2> DEFINE x == <<k, s>>
  <2>1. x \in Reqs /\ x[1] = k /\ x[2] = s
    BY <1>0
  <2>2. /\ where[x] = "client" /\ where'[x] = "server"
        /\ req'[x].type = type /\ req'[x].conn = connId[k]
        /\ \A r \in Reqs : r # x => req'[r] = req[r] /\ where'[r] = where[r]
    BY <1>5, <2>1, PutRequest
  <2>3. phase' = phase /\ connId' = connId /\ phase[k] \in {"open", "failed"}
    BY <1>5 DEF MayUse, clientVars
  <2>4. \A l \in Clients : <<l, Ctl>> # x
    BY <1>5
  <2> HIDE DEF x
  <2> QED
    BY <1>0, <1>5, <2>1, <2>2, <2>3, <2>4 DEF Manners
<1>6. ASSUME NEW x \in Reqs, GetReply(x) PROVE Manners'
  <2>1. /\ where'[x] = "client"
        /\ req'[x].type = "OPEN" /\ req'[x].conn = 0 /\ req'[x].got = 0
        /\ \A r \in Reqs : r # x => req'[r] = req[r] /\ where'[r] = where[r]
    BY <1>6, TakenBack DEF GetReply
  <2>2. where[x] = "replied"
    BY <1>6 DEF GetReply
  <2>3. CASE x[2] # Ctl
    <3>1. phase' = phase /\ connId' = connId
      BY <1>6, <2>3 DEF GetReply
    <3>2. \A l \in Clients : <<l, Ctl>> # x
      BY <2>3
    <3> QED
      BY <1>0, <2>1, <2>3, <3>1, <3>2 DEF Manners
  <2>4. CASE x[2] = Ctl
    <3> DEFINE k == x[1]
    <3>1. /\ \A l \in Clients : l # k => phase'[l] = phase[l] /\ connId'[l] = connId[l]
          /\ \/ phase'[k] \in {"open", "failed"}
             \/ phase'[k] = "idle" /\ connId'[k] = 0
      BY <1>0, <1>1, <1>6, <2>4 DEF GetReply
    <3>2. phase[k] \in {"opening", "closing"} /\ k \in Clients /\ x = <<k, Ctl>>
      BY <1>0, <2>2, <2>4 DEF Manners
    <3>3. \A r \in Reqs : r # x /\ r[1] = k => where[r] = "client"
      BY <1>0, <3>2 DEF Manners
    <3>4. \A l \in Clients : l # k => <<l, Ctl>> # x
      BY <3>2
    <3> HIDE DEF k
    <3>5. x[1] = k
      BY DEF k
    <3> QED
      BY <1>0, <2>1, <2>4, <3>1, <3>2, <3>3, <3>4, <3>5 DEF Manners
  <2> QED
    BY <2>3, <2>4
<1>7. ASSUME NEW x \in Reqs, Abort(x) PROVE Manners'
  <2>1. /\ where'[x] = "client"
        /\ req'[x].type = "OPEN" /\ req'[x].conn = 0 /\ req'[x].got = 0
        /\ \A r \in Reqs : r # x => req'[r] = req[r] /\ where'[r] = where[r]
    BY <1>7, TakenBack DEF Abort
  <2>2. phase' = phase /\ connId' = connId /\ x[2] # Ctl
    BY <1>7 DEF Abort, clientVars
  <2>3. \A l \in Clients : <<l, Ctl>> # x
    BY <2>2
  <2> QED
    BY <1>0, <2>1, <2>2, <2>3 DEF Manners
<1>8. ASSUME NEW k \in Clients, NEW s \in Slots, NEW len, NEW timeout, Read(k, s, len, timeout)
      PROVE  Manners'
  BY <1>5, <1>8 DEF Read
<1>9. ASSUME NEW k \in Clients, NEW s \in Slots, Write(k, s) PROVE Manners'
  BY <1>5, <1>9 DEF Write
<1> QED
  BY <1>2, <1>3, <1>4, <1>6, <1>7, <1>8, <1>9 DEF ClientStep

LEMMA MannersCorrect == Spec => []Manners
<1>1. Init => Manners
  BY ConnectionsAssumption DEF Init, Manners, Unused, Reqs
<1>2. TypeOK /\ OneOwner /\ Manners /\ [Next]_vars => Manners'
  <2> SUFFICES ASSUME TypeOK, OneOwner, Manners, [Next]_vars PROVE Manners'
    OBVIOUS
  <2>1. CASE UNCHANGED vars
    BY <2>1 DEF vars, clientVars, Manners
  <2> QED
    BY <2>1, MannersServer, MannersClient DEF Next, ServerStep
<1> QED
  BY <1>1, <1>2, TypeCorrect, Ownership, PTL DEF Spec

-----------------------------------------------------------------------------
(* The request queues.                                                     *)

\* A queue only moves up, except that APB_RT_OPEN starts one and a READ joins
\* one at its end.
LEMMA QueueMoves ==
    ASSUME TypeOK, [Next]_vars, NEW c \in Objects
    PROVE  \/ Advances(reqs'[c], reqs[c])
           \/ \E r \in Reqs, s \in CnnState : HandleOpen(r, c, s) /\ reqs'[c] = <<r>>
           \/ \E r \in Reqs : HandleRead(r, c) /\ Advances(reqs'[c], Append(reqs[c], r))
<1> USE DEF serverVars, packetVars, clientVars, remoteVars, historyVars
<1> DEFINE Up == Advances(reqs'[c], reqs[c])
           Opened == \E r \in Reqs, s \in CnnState : HandleOpen(r, c, s) /\ reqs'[c] = <<r>>
           Joined == \E r \in Reqs : HandleRead(r, c) /\ Advances(reqs'[c], Append(reqs[c], r))
<1>0. reqs \in [Objects -> Seq(Reqs)]
  BY DEF TypeOK
<1>1. \A w \in Seq(Reqs) : Advances(w, w) /\ Advances(<<>>, w)
  BY DEF Advances
<1>2. ASSUME reqs' = reqs PROVE Up
  BY <1>0, <1>1, <1>2
<1>3. ASSUME NEW e \in Objects, NEW i \in DOMAIN reqs[e], reqs' = [reqs EXCEPT ![e] = Unlink(reqs[e], i)]
      PROVE  Up
  <2>1. c = e => reqs'[c] = Unlink(reqs[c], i)
    BY <1>0, <1>3
  <2>2. c # e => reqs'[c] = reqs[c]
    BY <1>0, <1>3
  <2>3. reqs[c] \in Seq(Reqs) /\ reqs[e] \in Seq(Reqs)
    BY <1>0
  <2> QED
    BY <1>1, <2>1, <2>2, <2>3, AdvancesUnlink
<1>4. CASE ClientStep
  <2>1. \A r, type, id, len, timeout : PutMsg(r, type, id, len, timeout) => reqs' = reqs
    BY DEF PutMsg
  <2>2. \A k : FreeConnection(k) => reqs' = reqs
    BY DEF FreeConnection
  <2>3. \A r : GetReply(r) => reqs' = reqs
    BY DEF GetReply
  <2>4. ASSUME NEW r \in Reqs, Abort(r) PROVE Up
    <3>1. reqs' = reqs \/ \E e \in Objects : \E i \in DOMAIN reqs[e] :
                            reqs' = [reqs EXCEPT ![e] = Unlink(@, i)]
      BY <2>4 DEF Abort
    <3> QED
      BY <1>2, <1>3, <3>1
  <2> QED
    BY <1>2, <1>4, <2>1, <2>2, <2>3, <2>4
    DEF ClientStep, OpenConnection, CloseConnection, Read, Write
<1>5. CASE HandleRequest
  <2>1. ASSUME NEW r \in Reqs, NEW e \in Objects, NEW s \in CnnState, HandleOpen(r, e, s)
        PROVE  Up \/ Opened
    <3>1. reqs' = [reqs EXCEPT ![e] = <<r>>]
      BY <2>1 DEF HandleOpen
    <3>2. CASE c = e
      <4>1. reqs'[c] = <<r>> /\ HandleOpen(r, c, s)
        BY <1>0, <2>1, <3>1, <3>2
      <4> HIDE <2>1
      <4> QED
        BY <4>1
    <3>3. CASE c # e
      BY <1>0, <1>1, <3>1, <3>3
    <3> QED
      BY <3>2, <3>3
  <2>2. ASSUME NEW r \in Reqs, NEW e \in Objects, HandleRead(r, e) PROVE Up \/ Joined
    <3> DEFINE w  == AddRequest(reqs[e], r)
               rq == [req EXCEPT ![r] = Accept(r, cnn[e].id)]
    <3>1. PushToClient(e, packets[e], w, rq, inUse)
      BY <2>2 DEF HandleRead
    <3>2. w \in Seq(Reqs) /\ w = Append(reqs[e], r)
      BY <1>0 DEF AddRequest
    <3> HIDE DEF w, rq
    <3>3. Advances(reqs'[e], w) /\ \A f \in Objects : f # e => reqs'[f] = reqs[f]
      BY <3>1, <3>2, PushAdvances
    <3>4. CASE c = e
      <4>1. HandleRead(r, c) /\ Advances(reqs'[c], Append(reqs[c], r))
        BY <2>2, <3>2, <3>3, <3>4
      <4> HIDE <2>2
      <4> QED
        BY <4>1
    <3>5. CASE c # e
      BY <1>0, <1>1, <3>3, <3>5
    <3> QED
      BY <3>4, <3>5
  <2>3. ASSUME NEW r \in Reqs, NEW e \in Objects,
               HandleClose(r, e) \/ RefuseRequest(r, e) \/ HandleWrite(r, e)
        PROVE  Up
    BY <1>2, <2>3 DEF HandleClose, RefuseRequest, HandleWrite
  <2>4. ASSUME NEW r \in Reqs, RejectRequest(r) \/ RefuseControl(r) PROVE Up
    BY <1>2, <2>4 DEF RejectRequest, RefuseControl
  <2> HIDE DEF Up, Opened, Joined
  <2>5. Up \/ Opened \/ Joined
    BY <1>5, <2>1, <2>2, <2>3, <2>4 DEF HandleRequest
  <2> QED
    BY <2>5 DEF Up, Opened, Joined
<1>6. CASE HandlePacket
  <2>1. ASSUME NEW e \in Objects, NEW state, AnswerOpen(e, state) PROVE Up
    <3>1. reqs' = reqs \/ \E i \in DOMAIN reqs[e] : reqs' = [reqs EXCEPT ![e] = Unlink(@, i)]
      BY <2>1 DEF AnswerOpen
    <3> QED
      BY <1>2, <1>3, <3>1
  <2>2. ASSUME NEW e \in Objects, HandleConnected(e) \/ HandleNoHandler(e) PROVE Up
    BY <2>1, <2>2 DEF HandleConnected, HandleNoHandler
  <2>3. ASSUME NEW e \in Objects, HandleDisconnected(e) PROVE Up
    <3>1. reqs'[c] = <<>> \/ reqs'[c] = reqs[c]
      BY <1>0, <2>3 DEF HandleDisconnected
    <3> QED
      BY <1>0, <1>1, <3>1
  <2>4. ASSUME NEW e \in Objects, HandleData(e) PROVE Up
    <3>1. reqs' = reqs \/ \E q : PushToClient(e, q, reqs[e], req, Hold)
      BY <2>4 DEF HandleData
    <3>2. ASSUME NEW q, PushToClient(e, q, reqs[e], req, Hold) PROVE Up
      <4>1. Advances(reqs'[e], reqs[e]) /\ \A f \in Objects : f # e => reqs'[f] = reqs[f]
        BY <1>0, <3>2, PushAdvances
      <4> QED
        BY <1>0, <1>1, <4>1
    <3> QED
      BY <1>2, <3>1, <3>2
  <2>5. ASSUME UnknownConnection \/ HandleControlPacket PROVE Up
    BY <1>2, <2>5 DEF UnknownConnection, HandleControlPacket
  <2> QED
    BY <1>6, <2>2, <2>3, <2>4, <2>5 DEF HandlePacket
<1>7. CASE CheckRequestTimeouts
  <2>1. CASE \E m \in DOMAIN reqs[c] : Expires(c, m)
    <3> DEFINE m == CHOOSE i \in DOMAIN reqs[c] : Expires(c, i)
    <3>1. m \in DOMAIN reqs[c] /\ reqs'[c] = Unlink(reqs[c], m)
      BY <1>7, <2>1 DEF CheckRequestTimeouts
    <3> HIDE DEF m
    <3>2. reqs[c] \in Seq(Reqs)
      BY <1>0
    <3> QED
      BY <3>1, <3>2, AdvancesUnlink
  <2>2. CASE ~ \E m \in DOMAIN reqs[c] : Expires(c, m)
    BY <1>0, <1>1, <1>7, <2>2 DEF CheckRequestTimeouts
  <2> QED
    BY <2>1, <2>2
<1>8. CASE PiStep
  <2>1. UNCHANGED amigaVars
    BY <1>8 DEF PiStep, PiAnswerConnect, PiAnswerDisconnect, LeaveAmiga, LosePacket,
                ResendPacket, PiSend, PiClose
  <2> QED
    BY <1>2, <2>1 DEF amigaVars
<1>9. CASE UNCHANGED vars
  BY <1>2, <1>9 DEF vars
<1> QED
  BY <1>4, <1>5, <1>6, <1>7, <1>8, <1>9 DEF Next

\* A request keeps its type while the server has it.
LEMMA TypeKept ==
    ASSUME TypeOK, OneOwner, [Next]_vars, NEW x \in Reqs,
           where[x] = "server", where'[x] = "server"
    PROVE  req'[x].type = req[x].type
<1>1. CASE ClientStep
  <2>1. ASSUME NEW y \in Reqs, NEW type, NEW id, NEW len, NEW timeout,
               PutMsg(y, type, id, len, timeout)
        PROVE  req'[x] = req[x]
    BY <2>1, PutRequest
  <2>2. ASSUME NEW y \in Reqs, TakeBack(y) PROVE req'[x] = req[x]
    BY <2>2, TakenBack
  <2>3. \A k : FreeConnection(k) => req' = req
    BY DEF FreeConnection
  <2>4. \A k \in Clients, s \in Slots : <<k, s>> \in Reqs /\ <<k, Ctl>> \in Reqs
    BY ConnectionsAssumption DEF Reqs
  <2>5. ASSUME NEW k \in Clients, OpenConnection(k) \/ CloseConnection(k) \/ FreeConnection(k)
        PROVE  req'[x] = req[x]
    <3>1. <<k, Ctl>> \in Reqs
      BY ConnectionsAssumption DEF Reqs
    <3>2. FreeConnection(k) \/ \E type, id, len, timeout : PutMsg(<<k, Ctl>>, type, id, len, timeout)
      BY <2>5 DEF OpenConnection, CloseConnection
    <3> QED
      BY <2>1, <2>3, <3>1, <3>2
  <2>6. ASSUME NEW k \in Clients, NEW s \in Slots, NEW len, NEW timeout,
               Read(k, s, len, timeout) \/ Write(k, s)
        PROVE  req'[x] = req[x]
    BY <2>1, <2>4, <2>6 DEF Read, Write
  <2>7. ASSUME NEW r \in Reqs, GetReply(r) \/ Abort(r) PROVE req'[x] = req[x]
    BY <2>2, <2>7 DEF GetReply, Abort
  <2>8. req'[x] = req[x]
    BY <1>1, <2>5, <2>6, <2>7 DEF ClientStep
  <2> QED
    BY <2>8
<1>2. CASE ServerStep
  BY <1>2, ServerSteps DEF Served
<1>3. CASE UNCHANGED vars
  BY <1>3 DEF vars
<1> QED
  BY <1>1, <1>2, <1>3 DEF Next, ServerStep

\* An OPEN is the first request of its connection, so what is left of the
\* queue when it is answered holds none.
OpensFirst ==
    \A c \in Objects : \A i \in DOMAIN reqs[c] : req[reqs[c][i]].type = "OPEN" => i = 1

LEMMA OpensFirstCorrect == Spec => []OpensFirst
<1>1. Init => OpensFirst
  BY DEF Init, OpensFirst
<1>2. ASSUME TypeOK, TypeOK', OneOwner, OneOwner', OpensFirst, [Next]_vars
      PROVE  OpensFirst'
  <2> SUFFICES ASSUME NEW c \in Objects, NEW j \in DOMAIN reqs'[c],
                      req'[reqs'[c][j]].type = "OPEN"
               PROVE  j = 1
    BY DEF OpensFirst
  <2>0. reqs[c] \in Seq(Reqs) /\ reqs'[c] \in Seq(Reqs)
    BY <1>2 DEF TypeOK
  <2> DEFINE x == reqs'[c][j]
  <2>1. x \in Reqs /\ where'[x] = "server" /\ j \in Nat /\ j >= 1
    BY <1>2, <2>0, ElementOfSeq DEF OneOwner
  <2>2. ASSUME NEW k \in DOMAIN reqs[c], j <= k, x = reqs[c][k] PROVE j = 1
    <3>1. where[x] = "server"
      BY <1>2, <2>2 DEF OneOwner
    <3>2. req[reqs[c][k]].type = "OPEN"
      BY <1>2, <2>1, <2>2, <3>1, TypeKept
    <3>3. k = 1
      BY <1>2, <3>2 DEF OpensFirst
    <3> QED
      BY <2>1, <2>2, <3>3
  <2>3. CASE Advances(reqs'[c], reqs[c])
    BY <2>2, <2>3 DEF Advances
  <2>4. CASE \E r \in Reqs : reqs'[c] = <<r>>
    BY <2>4
  <2>5. ASSUME NEW r \in Reqs, HandleRead(r, c), Advances(reqs'[c], Append(reqs[c], r))
        PROVE  j = 1
    <3> DEFINE w == Append(reqs[c], r)
    <3>1. PICK k \in DOMAIN w : j <= k /\ x = w[k]
      BY <2>5 DEF Advances
    <3>2. (k \in DOMAIN reqs[c] /\ w[k] = reqs[c][k]) \/ w[k] = r
      BY <2>0
    <3>3. x # r
      <4>1. req[r].type = "READ" /\ where[r] = "server"
        BY <1>2, <2>5, ServersOwn DEF HandleRead, GetMsg
      <4>2. x = r => req'[r].type = "READ"
        BY <1>2, <2>1, <4>1, TypeKept
      <4> QED
        BY <4>2
    <3> HIDE DEF w
    <3> QED
      BY <2>2, <3>1, <3>2, <3>3
  <2> QED
    BY <1>2, <2>3, <2>4, <2>5, QueueMoves
<1> QED
  BY <1>1, <1>2, TypeCorrect, Ownership, PTL DEF Spec

-----------------------------------------------------------------------------
(* The packets on their way.                                               *)

\* There is a packet of type t for connection x in the sequence s, and no two
\* of type t are for the same connection.
Has(s, t, x) == \E i \in DOMAIN s : s[i].type = t /\ s[i].conn = x
OneEach(s, t) ==
    \A i, j \in DOMAIN s : s[i].type = t /\ s[j].type = t /\ s[i].conn = s[j].conn => i = j

LEMMA HasHead ==
    ASSUME NEW S, NEW s \in Seq(S), s # <<>>
    PROVE  /\ Has(s, Head(s).type, Head(s).conn)
           /\ \A t, x : Has(s, t, x) <=> (Head(s).type = t /\ Head(s).conn = x) \/ Has(Tail(s), t, x)
           /\ \A t : OneEach(s, t) => OneEach(Tail(s), t)
           /\ \A t : OneEach(s, t) /\ Head(s).type = t => ~ Has(Tail(s), t, Head(s).conn)
<1> DEFINE v == Tail(s)
<1>1. /\ Len(s) \in Nat /\ Len(s) > 0 /\ DOMAIN s = 1..Len(s) /\ Head(s) = s[1]
      /\ v \in Seq(S) /\ Len(v) = Len(s) - 1
      /\ \A i \in 1..(Len(s) - 1) : v[i] = s[i + 1]
  OBVIOUS
<1>2. DOMAIN v = 1..(Len(s) - 1)
  <2> HIDE DEF v
  <2>1. DOMAIN v = 1..Len(v)
    BY <1>1
  <2> QED
    BY <1>1, <2>1
<1> HIDE DEF v
<1> DEFINE n == Len(s)
<1>3. n \in Nat /\ n > 0 /\ DOMAIN s = 1..n /\ DOMAIN v = 1..(n - 1)
  BY <1>1, <1>2
<1>4. \A i \in 1..(n - 1) : v[i] = s[i + 1]
  BY <1>1
<1> HIDE DEF n
<1>5. 1 \in DOMAIN s /\ \A i \in 1..(n - 1) : i + 1 \in DOMAIN s /\ i + 1 # 1
  BY <1>3
<1>6. \A i \in DOMAIN s : i = 1 \/ (i - 1 \in DOMAIN v /\ v[i - 1] = s[i])
  <2> SUFFICES ASSUME NEW i \in DOMAIN s, i # 1 PROVE i - 1 \in DOMAIN v /\ v[i - 1] = s[i]
    OBVIOUS
  <2>1. i - 1 \in 1..(n - 1) /\ (i - 1) + 1 = i
    BY <1>3
  <2> QED
    BY <1>3, <1>4, <2>1
<1>7. Has(s, Head(s).type, Head(s).conn)
  BY <1>1, <1>5 DEF Has
<1>8. ASSUME NEW t, NEW x
      PROVE  Has(s, t, x) <=> (Head(s).type = t /\ Head(s).conn = x) \/ Has(v, t, x)
  <2>1. \A i \in DOMAIN v : i + 1 \in DOMAIN s /\ s[i + 1] = v[i]
    BY <1>3, <1>4, <1>5
  <2>2. \A i \in DOMAIN s : s[i] = Head(s) \/ \E j \in DOMAIN v : v[j] = s[i]
    BY <1>1, <1>6
  <2>3. Has(v, t, x) => Has(s, t, x)
    BY <2>1, Zenon DEF Has
  <2>4. Has(s, t, x) => (Head(s).type = t /\ Head(s).conn = x) \/ Has(v, t, x)
    BY <2>2, Zenon DEF Has
  <2> QED
    BY <1>7, <2>3, <2>4
<1>9. ASSUME NEW t, OneEach(s, t) PROVE OneEach(v, t)
  <2> SUFFICES ASSUME NEW i \in DOMAIN v, NEW j \in DOMAIN v, v[i].type = t, v[j].type = t,
                      v[i].conn = v[j].conn
               PROVE  i = j
    BY DEF OneEach
  <2>0. i \in Nat /\ j \in Nat /\ v[i] = s[i + 1] /\ v[j] = s[j + 1]
        /\ i + 1 \in DOMAIN s /\ j + 1 \in DOMAIN s
    BY <1>3, <1>4, <1>5
  <2>1. i + 1 = j + 1
    BY <2>0, <1>9, Zenon DEF OneEach
  <2> QED
    BY <1>3, <2>1
<1>10. ASSUME NEW t, OneEach(s, t), Head(s).type = t, Has(v, t, Head(s).conn) PROVE FALSE
  <2>1. PICK i \in DOMAIN v : v[i].type = t /\ v[i].conn = Head(s).conn
    BY <1>10 DEF Has
  <2>2. i + 1 \in DOMAIN s /\ i + 1 # 1 /\ s[i + 1] = v[i]
    BY <1>3, <1>4, <1>5
  <2>3. i + 1 = 1
    BY <1>1, <1>5, <1>10, <2>1, <2>2 DEF OneEach
  <2> QED
    BY <2>2, <2>3
<1> QED
  BY <1>7, <1>8, <1>9, <1>10 DEF v

LEMMA HasAppend ==
    ASSUME NEW S, NEW s \in Seq(S), NEW e
    PROVE  /\ \A t, x : Has(Append(s, e), t, x) <=> Has(s, t, x) \/ (e.type = t /\ e.conn = x)
           /\ \A t : OneEach(s, t) /\ ~ (e.type = t /\ Has(s, t, e.conn)) => OneEach(Append(s, e), t)
<1> DEFINE v == Append(s, e)
           n == Len(s)
<1>1. /\ n \in Nat /\ DOMAIN s = 1..n /\ DOMAIN v = 1..(n + 1) /\ v[n + 1] = e
      /\ \A i \in 1..n : v[i] = s[i]
  OBVIOUS
<1> HIDE DEF v, n
<1>2. \A i \in DOMAIN v : i = n + 1 \/ i \in DOMAIN s
  BY <1>1
<1>3. n + 1 \in DOMAIN v /\ \A i \in DOMAIN s : i \in DOMAIN v
  BY <1>1
<1>4. ASSUME NEW t, NEW x PROVE Has(v, t, x) <=> Has(s, t, x) \/ (e.type = t /\ e.conn = x)
  BY <1>1, <1>2, <1>3 DEF Has
<1>5. ASSUME NEW t, OneEach(s, t), ~ (e.type = t /\ Has(s, t, e.conn)) PROVE OneEach(v, t)
  <2> SUFFICES ASSUME NEW i \in DOMAIN v, NEW j \in DOMAIN v, v[i].type = t, v[j].type = t,
                      v[i].conn = v[j].conn
               PROVE  i = j
    BY DEF OneEach
  <2>1. CASE i \in DOMAIN s /\ j \in DOMAIN s
    BY <1>1, <1>5, <2>1 DEF OneEach
  <2>2. CASE i = n + 1 /\ j \in DOMAIN s
    BY <1>1, <1>5, <2>2 DEF Has
  <2>3. CASE i \in DOMAIN s /\ j = n + 1
    BY <1>1, <1>5, <2>3 DEF Has
  <2> QED
    BY <1>2, <2>1, <2>2, <2>3
<1> QED
  BY <1>4, <1>5 DEF v

\* ResendPacket neither makes a packet nor copies one.
LEMMA HasMoved ==
    ASSUME NEW S, NEW s \in Seq(S), s # <<>>
    PROVE  /\ \A t, x : Has(Append(Tail(s), Head(s)), t, x) <=> Has(s, t, x)
           /\ \A t : OneEach(s, t) => OneEach(Append(Tail(s), Head(s)), t)
<1> DEFINE v == Tail(s)
           e == Head(s)
<1>1. v \in Seq(S)
  OBVIOUS
<1>2. /\ \A t, x : Has(s, t, x) <=> (e.type = t /\ e.conn = x) \/ Has(v, t, x)
      /\ \A t : OneEach(s, t) => OneEach(v, t)
      /\ \A t : OneEach(s, t) /\ e.type = t => ~ Has(v, t, e.conn)
  BY HasHead
<1> HIDE DEF v, e
<1>3. /\ \A t, x : Has(Append(v, e), t, x) <=> Has(v, t, x) \/ (e.type = t /\ e.conn = x)
      /\ \A t : OneEach(v, t) /\ ~ (e.type = t /\ Has(v, t, e.conn)) => OneEach(Append(v, e), t)
  BY <1>1, HasAppend
<1> QED
  BY <1>2, <1>3 DEF v, e

\* Everything that happens on the line in one step.
NetStep ==
    \/ UNCHANGED <<in, out, piOpen>>
    \/ /\ in # <<>> /\ in' = Tail(in) /\ piOpen' = piOpen
       /\ \/ out' = out
          \/ \E e : out' = Append(out, e) /\ e.type = "NO_CONNECTION" /\ e.conn = Head(in).conn
    \/ /\ UNCHANGED <<in, piOpen>>
       /\ \E e : /\ out' = Append(out, e)
                 /\ \/ /\ e.type = "CONNECT" /\ e.conn = nextId
                       /\ \E r \in Reqs, c \in Objects, s \in CnnState : HandleOpen(r, c, s)
                    \/ e.type \in {"DISCONNECT", "DATA"} /\ \E c \in Objects : e.conn = cnn[c].id
    \/ out # <<>> /\ out' = Tail(out) /\ UNCHANGED <<in, piOpen>>
    \/ /\ out # <<>> /\ out' = Tail(out)
       /\ \E e : /\ in' = Append(in, e) /\ e.conn = Head(out).conn
                 /\ \/ /\ Head(out).type = "CONNECT" /\ e.type \in {"CONNECTED", "NO_HANDLER", "ERROR"}
                       /\ piOpen' \subseteq piOpen \cup {Head(out).conn}
                    \/ e.type = "DISCONNECTED" /\ piOpen' \subseteq piOpen
    \/ /\ out' = out /\ piOpen' \subseteq piOpen
       /\ \E e : in' = Append(in, e) /\ e.conn \in piOpen /\ e.type \in {"DATA", "DISCONNECTED"}
    \/ in # <<>> /\ in' = Append(Tail(in), Head(in)) /\ UNCHANGED <<out, piOpen>>

LEMMA NetSteps ==
    ASSUME TypeOK, [Next]_vars
    PROVE  NetStep
<1> USE DEF serverVars, packetVars, clientVars, remoteVars, historyVars
<1>1. UNCHANGED <<in, out, piOpen>> => NetStep
  BY DEF NetStep
<1>2. ASSUME NEW type, NEW id, NEW r, AllocPacket(type, id, r), UNCHANGED <<in, piOpen>>,
             type \in {"DISCONNECT", "DATA"}, \E c \in Objects : id = cnn[c].id
      PROVE  NetStep
  <2> DEFINE e == [type |-> type, conn |-> id, req |-> r]
  <2>1. e.type = type /\ e.conn = id /\ (out' = out \/ out' = Append(out, e))
    BY <1>2 DEF AllocPacket
  <2> HIDE DEF e
  <2> QED
    BY <1>2, <2>1 DEF NetStep
<1>3. CASE ClientStep
  <2>1. \A r, type, id, len, timeout :
          PutMsg(r, type, id, len, timeout) => UNCHANGED <<in, out, piOpen>>
    BY DEF PutMsg
  <2>2. \A r : GetReply(r) \/ Abort(r) => UNCHANGED <<in, out, piOpen>>
    BY DEF GetReply, Abort
  <2> QED
    BY <1>1, <1>3, <2>1, <2>2
    DEF ClientStep, OpenConnection, CloseConnection, FreeConnection, Read, Write
<1>4. CASE HandleRequest
  <2>1. ASSUME NEW r \in Reqs, NEW c \in Objects, NEW s \in CnnState, HandleOpen(r, c, s)
        PROVE  NetStep
    <3> DEFINE e == [type |-> "CONNECT", conn |-> nextId, req |-> NoReq]
    <3>1. e.type = "CONNECT" /\ e.conn = nextId /\ (out' = out \/ out' = Append(out, e))
      BY <2>1 DEF HandleOpen, AllocPacket
    <3>2. UNCHANGED <<in, piOpen>>
      BY <2>1 DEF HandleOpen
    <3> HIDE DEF e
    <3> QED
      BY <2>1, <3>1, <3>2 DEF NetStep
  <2>2. ASSUME NEW r \in Reqs, NEW c \in Objects, HandleClose(r, c) PROVE NetStep
    <3>1. UNCHANGED <<in, piOpen>> /\ (out' = out \/ AllocPacket("DISCONNECT", cnn[c].id, NoReq))
      BY <2>2 DEF HandleClose
    <3> QED
      BY <1>1, <1>2, <3>1
  <2>3. ASSUME NEW r \in Reqs, NEW c \in Objects, HandleWrite(r, c) PROVE NetStep
    <3>1. UNCHANGED <<in, piOpen>> /\ AllocPacket("DATA", cnn[c].id, r)
      BY <2>3 DEF HandleWrite
    <3> QED
      BY <1>2, <3>1
  <2>4. ASSUME NEW r \in Reqs, NEW c \in Objects, RefuseRequest(r, c) \/ HandleRead(r, c)
        PROVE  NetStep
    BY <1>1, <2>4 DEF RefuseRequest, HandleRead
  <2>5. ASSUME NEW r \in Reqs, RejectRequest(r) \/ RefuseControl(r) PROVE NetStep
    BY <1>1, <2>5 DEF RejectRequest, RefuseControl
  <2> QED
    BY <1>4, <2>1, <2>2, <2>3, <2>4, <2>5 DEF HandleRequest
<1>5. CASE HandlePacket
  <2>1. ASSUME NEW c \in Objects, HandleConnected(c) \/ HandleNoHandler(c)
                                  \/ HandleDisconnected(c) \/ HandleData(c)
        PROVE  NetStep
    BY <2>1 DEF HandleConnected, HandleNoHandler, HandleDisconnected, HandleData, GetPacket, NetStep
  <2>2. CASE HandleControlPacket
    BY <2>2 DEF HandleControlPacket, GetPacket, NetStep
  <2>3. CASE UnknownConnection
    <3> DEFINE e == [type |-> "NO_CONNECTION", conn |-> Head(in).conn, req |-> NoReq]
    <3>1. e.type = "NO_CONNECTION" /\ e.conn = Head(in).conn /\ (out' = out \/ out' = Append(out, e))
      BY <2>3 DEF UnknownConnection, AllocPacket
    <3>2. in # <<>> /\ in' = Tail(in) /\ piOpen' = piOpen
      BY <2>3 DEF UnknownConnection, GetPacket
    <3> HIDE DEF e
    <3> QED
      BY <3>1, <3>2 DEF NetStep
  <2> QED
    BY <1>5, <2>1, <2>2, <2>3 DEF HandlePacket
<1>6. CASE CheckRequestTimeouts
  BY <1>1, <1>6 DEF CheckRequestTimeouts
<1>7. CASE PiStep
  <2>1. ASSUME NEW type, NEW id, NEW len, ToAmiga(type, id, len)
        PROVE  \E e : in' = Append(in, e) /\ e.conn = id /\ e.type = type
    <3> DEFINE e == [type |-> type, conn |-> id, len |-> len]
    <3>1. in' = Append(in, e) /\ e.conn = id /\ e.type = type
      BY <2>1 DEF ToAmiga
    <3> HIDE DEF e
    <3> QED
      BY <3>1
  <2>2. CASE PiAnswerConnect
    <3>1. /\ out # <<>> /\ Head(out).type = "CONNECT" /\ out' = Tail(out)
          /\ \/ ToAmiga("CONNECTED", Head(out).conn, 0)
             \/ ToAmiga("NO_HANDLER", Head(out).conn, 0)
             \/ ToAmiga("ERROR", Head(out).conn, 1)
          /\ piOpen' \subseteq piOpen \cup {Head(out).conn}
      BY <2>2 DEF PiAnswerConnect
    <3>2. \E e : /\ in' = Append(in, e) /\ e.conn = Head(out).conn
                 /\ e.type \in {"CONNECTED", "NO_HANDLER", "ERROR"}
      BY <2>1, <3>1
    <3> QED
      BY <3>1, <3>2 DEF NetStep
  <2>3. CASE PiAnswerDisconnect
    <3>1. out # <<>> /\ out' = Tail(out) /\ piOpen' \subseteq piOpen
      BY <2>3 DEF PiAnswerDisconnect
    <3>2. \E e : in' = Append(in, e) /\ e.conn = Head(out).conn /\ e.type = "DISCONNECTED"
      BY <2>1, <2>3 DEF PiAnswerDisconnect
    <3> QED
      BY <3>1, <3>2 DEF NetStep
  <2>4. CASE LeaveAmiga
    BY <2>4 DEF LeaveAmiga, NetStep
  <2>5. ASSUME NEW id \in piOpen, NEW len, PiSend(id, len) PROVE NetStep
    <3>1. \E e : in' = Append(in, e) /\ e.conn = id /\ e.type = "DATA"
      BY <2>1, <2>5 DEF PiSend
    <3> QED
      BY <2>5, <3>1 DEF PiSend, NetStep
  <2>6. ASSUME NEW id \in piOpen, PiClose(id) PROVE NetStep
    <3>1. \E e : in' = Append(in, e) /\ e.conn = id /\ e.type = "DISCONNECTED"
      BY <2>1, <2>6 DEF PiClose
    <3> QED
      BY <2>6, <3>1 DEF PiClose, NetStep
  <2>7. CASE LosePacket
    BY <2>7 DEF LosePacket, NetStep
  <2>8. CASE ResendPacket
    <3>1. in # <<>>
      BY <2>8 DEF ResendPacket
    <3> QED
      BY <2>8, <3>1 DEF ResendPacket, NetStep
  <2> QED
    BY <1>7, <2>2, <2>3, <2>4, <2>5, <2>6, <2>7, <2>8 DEF PiStep
<1>8. CASE UNCHANGED vars
  BY <1>1, <1>8 DEF vars
<1> QED
  BY <1>3, <1>4, <1>5, <1>6, <1>7, <1>8 DEF Next

\* Where a packet on the line comes from.
LEMMA NetOrigin ==
    ASSUME TypeOK, [Next]_vars
    PROVE  /\ \A t, x : Has(in', t, x) =>
                \/ Has(in, t, x)
                \/ Has(out, "CONNECT", x) /\ t \in {"CONNECTED", "NO_HANDLER", "ERROR"}
                \/ t = "DISCONNECTED" /\ (x \in piOpen \/ \E u : Has(out, u, x))
                \/ t = "DATA" /\ x \in piOpen
           /\ \A t, x : Has(out', t, x) =>
                \/ Has(out, t, x)
                \/ /\ t = "CONNECT" /\ x = nextId
                   /\ \E r \in Reqs, c \in Objects, s \in CnnState : HandleOpen(r, c, s)
                \/ t \in {"DISCONNECT", "DATA"} /\ \E c \in Objects : x = cnn[c].id
                \/ t = "NO_CONNECTION" /\ \E u : Has(in, u, x)
           /\ \A x \in piOpen' : x \in piOpen \/ Has(out, "CONNECT", x)
<1>0. in \in Seq(InPacket) /\ out \in Seq(OutPacket)
  BY DEF TypeOK
<1>1. ASSUME out # <<>>
      PROVE  Has(out, Head(out).type, Head(out).conn)
             /\ \A t, x : Has(Tail(out), t, x) => Has(out, t, x)
  BY <1>0, <1>1, HasHead
<1>2. ASSUME in # <<>>
      PROVE  /\ Has(in, Head(in).type, Head(in).conn)
             /\ \A t, x : Has(Tail(in), t, x) => Has(in, t, x)
             /\ \A t, x : Has(Append(Tail(in), Head(in)), t, x) => Has(in, t, x)
  BY <1>0, <1>2, HasHead, HasMoved
<1>3. \A e, t, x : Has(Append(in, e), t, x) => Has(in, t, x) \/ (e.type = t /\ e.conn = x)
  BY <1>0, HasAppend
<1>4. \A e, t, x : Has(Append(out, e), t, x) => Has(out, t, x) \/ (e.type = t /\ e.conn = x)
  BY <1>0, HasAppend
<1>5. NetStep
  BY NetSteps
<1>6. ASSUME NEW t, NEW x, Has(in', t, x)
      PROVE  \/ Has(in, t, x)
             \/ Has(out, "CONNECT", x) /\ t \in {"CONNECTED", "NO_HANDLER", "ERROR"}
             \/ t = "DISCONNECTED" /\ (x \in piOpen \/ \E u : Has(out, u, x))
             \/ t = "DATA" /\ x \in piOpen
  BY <1>1, <1>2, <1>3, <1>5, <1>6 DEF NetStep
<1>7. ASSUME NEW t, NEW x, Has(out', t, x)
      PROVE  \/ Has(out, t, x)
             \/ /\ t = "CONNECT" /\ x = nextId
                /\ \E r \in Reqs, c \in Objects, s \in CnnState : HandleOpen(r, c, s)
             \/ t \in {"DISCONNECT", "DATA"} /\ \E c \in Objects : x = cnn[c].id
             \/ t = "NO_CONNECTION" /\ \E u : Has(in, u, x)
  <2>1. \/ out' = out
        \/ out # <<>> /\ out' = Tail(out)
        \/ \E e : /\ out' = Append(out, e)
                 /\ \/ e.type = "NO_CONNECTION" /\ in # <<>> /\ e.conn = Head(in).conn
                    \/ /\ e.type = "CONNECT" /\ e.conn = nextId
                       /\ \E r \in Reqs, c \in Objects, s \in CnnState : HandleOpen(r, c, s)
                    \/ e.type \in {"DISCONNECT", "DATA"} /\ \E c \in Objects : e.conn = cnn[c].id
    BY <1>5 DEF NetStep
  <2>2. in # <<>> => \E u : Has(in, u, Head(in).conn)
    BY <1>2
  <2> QED
    BY <1>1, <1>4, <1>7, <2>1, <2>2
<1>8. ASSUME NEW x \in piOpen' PROVE x \in piOpen \/ Has(out, "CONNECT", x)
  BY <1>1, <1>5, <1>8 DEF NetStep
<1> QED
  BY <1>6, <1>7, <1>8

-----------------------------------------------------------------------------
(* The connections.                                                        *)

\* What a step does to connection c: nothing but perhaps take requests off
\* its queue, or one of the handlers below, or it is not connected afterwards.
Quiet(c) == cnn'[c] = cnn[c] /\ packets'[c] = packets[c] /\ Advances(reqs'[c], reqs[c])

LEMMA CnnSteps ==
    ASSUME TypeOK, [Next]_vars, NEW c \in Objects
    PROVE  \/ Quiet(c)
           \/ \E r \in Reqs, s \in CnnState : HandleOpen(r, c, s)
           \/ HandleConnected(c)
           \/ cnn'[c] = cnn[c] /\ (HandleData(c) \/ \E r \in Reqs : HandleRead(r, c))
           \/ /\ IsLive(c) /\ cnn'[c].state # CS_CONNECTED
              /\ cnn'[c].id = cnn[c].id \/ (cnn'[c] = NoCnn /\ reqs'[c] = <<>>)
<1> USE DEF serverVars, packetVars, clientVars, remoteVars, historyVars
<1> DEFINE Gone   == /\ IsLive(c) /\ cnn'[c].state # CS_CONNECTED
                     /\ cnn'[c].id = cnn[c].id \/ (cnn'[c] = NoCnn /\ reqs'[c] = <<>>)
           Pushes == cnn'[c] = cnn[c] /\ (HandleData(c) \/ \E r \in Reqs : HandleRead(r, c))
           Opens  == \E r \in Reqs, s \in CnnState : HandleOpen(r, c, s)
<1>0. /\ reqs \in [Objects -> Seq(Reqs)] /\ packets \in [Objects -> Seq(Queued)]
      /\ cnn \in [Objects -> [id : 0..(IdMod-1), state : CnnState]]
  BY DEF TypeOK
<1>1. Advances(reqs[c], reqs[c])
  BY <1>0 DEF Advances
<1>2. ASSUME cnn' = cnn, packets' = packets, reqs'[c] = reqs[c] PROVE Quiet(c)
  BY <1>1, <1>2 DEF Quiet
<1>3. ASSUME cnn'[c] = cnn[c], packets'[c] = packets[c] PROVE Quiet(c) \/ Opens \/ Pushes
  <2>1. ASSUME NEW r \in Reqs, HandleRead(r, c) PROVE Pushes
    BY <1>3, <2>1
  <2> QED
    BY <1>3, <2>1, QueueMoves DEF Quiet
<1>4. CASE ClientStep
  <2>1. \A r, type, id, len, timeout :
          PutMsg(r, type, id, len, timeout) => UNCHANGED <<cnn, packets>>
    BY DEF PutMsg
  <2>2. \A r : GetReply(r) \/ Abort(r) => UNCHANGED <<cnn, packets>>
    BY DEF GetReply, Abort
  <2>3. UNCHANGED <<cnn, packets>>
    BY <1>4, <2>1, <2>2
    DEF ClientStep, OpenConnection, CloseConnection, FreeConnection, Read, Write
  <2> QED
    BY <1>3, <2>3
<1>5. CASE HandleRequest
  <2>1. ASSUME NEW r \in Reqs, NEW e \in Objects, NEW s \in CnnState, HandleOpen(r, e, s)
        PROVE  Quiet(c) \/ Opens \/ Pushes
    <3>1. CASE e = c
      <4>1. HandleOpen(r, c, s)
        BY <2>1, <3>1
      <4> QED
        BY <4>1
    <3>2. CASE e # c
      <4>1. cnn'[c] = cnn[c] /\ packets'[c] = packets[c]
        BY <1>0, <2>1, <3>2 DEF HandleOpen
      <4> QED
        BY <1>3, <4>1
    <3> QED
      BY <3>1, <3>2
  <2>2. ASSUME NEW r \in Reqs, NEW e \in Objects, HandleClose(r, e)
        PROVE  Quiet(c) \/ Gone
    <3>1. packets' = packets /\ reqs' = reqs
      BY <2>2 DEF HandleClose
    <3>2. \/ cnn' = cnn
          \/ cnn' = [cnn EXCEPT ![e].state = CS_DISCONNECTING]
          \/ cnn' = [cnn EXCEPT ![e].state = @]
      BY <2>2 DEF HandleClose
    <3>3. cnn[e] \in [id : 0..(IdMod-1), state : CnnState]
      BY <1>0
    <3>4. [cnn EXCEPT ![e].state = @] = cnn
      BY <1>0, <3>3
    <3>5. CASE cnn' = cnn
      BY <1>2, <3>1, <3>5
    <3>6. CASE cnn' = [cnn EXCEPT ![e].state = CS_DISCONNECTING]
      <4>1. CASE e = c
        <5>1. IsLive(c)
          BY <2>2, <4>1, FoundLive DEF HandleClose
        <5> QED
          BY <1>0, <3>3, <3>6, <4>1, <5>1 DEF CS_DISCONNECTING, CS_CONNECTED
      <4>2. CASE e # c
        BY <1>0, <1>1, <3>1, <3>6, <4>2 DEF Quiet
      <4> QED
        BY <4>1, <4>2
    <3> QED
      BY <3>2, <3>4, <3>5, <3>6
  <2>3. ASSUME NEW r \in Reqs, NEW e \in Objects, HandleRead(r, e)
        PROVE  Quiet(c) \/ Opens \/ Pushes
    <3>1. cnn' = cnn
      BY <2>3 DEF HandleRead
    <3>2. CASE e = c
      <4>1. HandleRead(r, c)
        BY <2>3, <3>2
      <4> QED
        BY <3>1, <4>1
    <3>3. CASE e # c
      <4> DEFINE w  == AddRequest(reqs[e], r)
                 rq == [req EXCEPT ![r] = Accept(r, cnn[e].id)]
      <4>1. PushToClient(e, packets[e], w, rq, inUse)
        BY <2>3 DEF HandleRead
      <4> HIDE DEF w, rq
      <4>2. packets'[c] = packets[c]
        BY <1>0, <3>3, <4>1 DEF PushToClient, PushResult
      <4> QED
        BY <1>3, <3>1, <4>2
    <3> QED
      BY <3>2, <3>3
  <2>4. ASSUME NEW r \in Reqs, NEW e \in Objects, RefuseRequest(r, e) \/ HandleWrite(r, e)
        PROVE  Quiet(c)
    BY <1>2, <2>4 DEF RefuseRequest, HandleWrite
  <2>5. ASSUME NEW r \in Reqs, RejectRequest(r) \/ RefuseControl(r) PROVE Quiet(c)
    BY <1>2, <2>5 DEF RejectRequest, RefuseControl
  <2> HIDE DEF Gone, Pushes, Opens
  <2>6. Quiet(c) \/ Opens \/ Pushes \/ Gone
    BY <1>5, <2>1, <2>2, <2>3, <2>4, <2>5 DEF HandleRequest
  <2> QED
    BY <2>6 DEF Gone, Pushes, Opens
<1>6. CASE HandlePacket
  <2>1. ASSUME NEW e \in Objects, HandleConnected(e)
        PROVE  Quiet(c) \/ Opens \/ Pushes \/ HandleConnected(c)
    <3>1. CASE e = c
      BY <2>1, <3>1
    <3>2. CASE e # c
      <4>1. cnn'[c] = cnn[c] /\ packets'[c] = packets[c]
        BY <1>0, <2>1, <3>2 DEF HandleConnected
      <4> QED
        BY <1>3, <4>1
    <3> QED
      BY <3>1, <3>2
  <2>2. ASSUME NEW e \in Objects, HandleNoHandler(e)
        PROVE  Quiet(c) \/ Opens \/ Pushes \/ Gone
    <3>0. cnn[e] \in [id : 0..(IdMod-1), state : CnnState]
      BY <1>0
    <3>1. cnn' = [cnn EXCEPT ![e].state = CS_NO_HANDLER] /\ packets' = packets
      BY <2>2 DEF HandleNoHandler
    <3>2. CASE e = c
      <4>1. IsLive(c)
        BY <2>2, <3>2, FoundLive DEF HandleNoHandler
      <4> QED
        BY <1>0, <3>0, <3>1, <3>2, <4>1 DEF CS_NO_HANDLER, CS_CONNECTED
    <3>3. CASE e # c
      <4>1. cnn'[c] = cnn[c] /\ packets'[c] = packets[c]
        BY <1>0, <3>1, <3>3
      <4> QED
        BY <1>3, <4>1
    <3> QED
      BY <3>2, <3>3
  <2>3. ASSUME NEW e \in Objects, HandleDisconnected(e)
        PROVE  Quiet(c) \/ Opens \/ Pushes \/ Gone
    <3>1. CASE e = c
      <4>1. cnn'[c] = NoCnn /\ reqs'[c] = <<>> /\ IsLive(c)
        BY <1>0, <2>3, <3>1, FoundLive DEF HandleDisconnected
      <4> QED
        BY <4>1 DEF NoCnn, CS_CONNECTED
    <3>2. CASE e # c
      <4>1. cnn'[c] = cnn[c] /\ packets'[c] = packets[c]
        BY <1>0, <2>3, <3>2 DEF HandleDisconnected
      <4> QED
        BY <1>3, <4>1
    <3> QED
      BY <3>1, <3>2
  <2>4. ASSUME NEW e \in Objects, HandleData(e) PROVE Quiet(c) \/ Opens \/ Pushes
    <3>1. cnn' = cnn
      BY <2>4 DEF HandleData
    <3>2. CASE e = c
      BY <2>4, <3>1, <3>2
    <3>3. CASE e # c
      <4>1. packets' = packets \/ \E q : PushToClient(e, q, reqs[e], req, Hold)
        BY <2>4 DEF HandleData
      <4>2. packets'[c] = packets[c]
        BY <1>0, <3>3, <4>1 DEF PushToClient, PushResult
      <4> QED
        BY <1>3, <3>1, <4>2
    <3> QED
      BY <3>2, <3>3
  <2>5. ASSUME UnknownConnection \/ HandleControlPacket PROVE Quiet(c)
    BY <1>2, <2>5 DEF UnknownConnection, HandleControlPacket
  <2> HIDE DEF Gone, Pushes, Opens
  <2>6. Quiet(c) \/ Opens \/ Pushes \/ Gone \/ HandleConnected(c)
    BY <1>6, <2>1, <2>2, <2>3, <2>4, <2>5 DEF HandlePacket
  <2> QED
    BY <2>6 DEF Gone, Pushes, Opens
<1>7. CASE CheckRequestTimeouts
  <2>1. UNCHANGED <<cnn, packets>>
    BY <1>7 DEF CheckRequestTimeouts
  <2> QED
    BY <1>3, <2>1
<1>8. CASE PiStep
  <2>1. UNCHANGED amigaVars
    BY <1>8 DEF PiStep, PiAnswerConnect, PiAnswerDisconnect, LeaveAmiga, LosePacket,
                ResendPacket, PiSend, PiClose
  <2> QED
    BY <1>2, <2>1 DEF amigaVars
<1>9. CASE UNCHANGED vars
  BY <1>2, <1>9 DEF vars
<1> QED
  BY <1>4, <1>5, <1>6, <1>7, <1>8, <1>9 DEF Next

\* Until the counter has wrapped, no id that has not been handed out is on the
\* line, in a connection or in use at the Pi.
IdsKnown ==
    opens < IdMod =>
        /\ \A t, x : Has(in, t, x) \/ Has(out, t, x) => x \in 0..opens
        /\ piOpen \subseteq 0..opens
        /\ \A c \in Objects : cnn[c].id \in 0..opens

\* The id a connection is opened with is a new one.
LEMMA NewId ==
    ASSUME TypeOK, IdInv, NEW r \in Reqs, NEW c \in Objects, NEW s \in CnnState, HandleOpen(r, c, s),
           opens' < IdMod
    PROVE  /\ opens \in Nat /\ opens' = opens + 1 /\ nextId = opens' /\ nextId \notin 0..opens
           /\ cnn'[c].id = nextId
           /\ cnn'[c].state = CS_CONNECTED => out' = out
           /\ in' = in /\ piOpen' = piOpen /\ packets'[c] = <<>>
<1>1. opens \in Nat /\ opens' = opens + 1 /\ IdMod \in Nat
  BY ConnectionsAssumption DEF TypeOK, HandleOpen
<1>2. nextId = opens + 1
  BY <1>1 DEF IdInv
<1>3. cnn'[c] = [id |-> nextId, state |-> IF HasRoom THEN CS_CONNECTING ELSE s]
  BY DEF HandleOpen, TypeOK
<1>4. cnn'[c].state = CS_CONNECTED => ~ HasRoom
  BY <1>3 DEF CS_CONNECTED, CS_CONNECTING
<1>5. ~ HasRoom => out' = out
  BY DEF HandleOpen, AllocPacket
<1>6. in' = in /\ piOpen' = piOpen /\ packets'[c] = <<>>
  BY DEF HandleOpen, TypeOK, remoteVars
<1> QED
  BY <1>1, <1>2, <1>3, <1>4, <1>5, <1>6

\* The number of ids handed out only grows, and by APB_RT_OPEN.
LEMMA OpensGrow ==
    ASSUME TypeOK, [Next]_vars
    PROVE  /\ opens \in Nat
           /\ opens' = opens \/ opens' = opens + 1
           /\ opens' = opens \/ \E r \in Reqs, c \in Objects, s \in CnnState : HandleOpen(r, c, s)
<1> USE DEF serverVars, packetVars, clientVars, remoteVars, historyVars
<1>1. CASE ClientStep
  <2>1. \A r, type, id, len, timeout : PutMsg(r, type, id, len, timeout) => opens' = opens
    BY DEF PutMsg
  <2>2. \A r : GetReply(r) \/ Abort(r) => opens' = opens
    BY DEF GetReply, Abort
  <2> QED
    BY <1>1, <2>1, <2>2
    DEF ClientStep, OpenConnection, CloseConnection, FreeConnection, Read, Write, TypeOK
<1>2. CASE HandleRequest
  <2>1. ASSUME NEW r \in Reqs, NEW c \in Objects,
               HandleClose(r, c) \/ RefuseRequest(r, c) \/ HandleRead(r, c) \/ HandleWrite(r, c)
        PROVE  opens' = opens
    BY <2>1 DEF HandleClose, RefuseRequest, HandleRead, HandleWrite
  <2>2. ASSUME NEW r \in Reqs, RejectRequest(r) \/ RefuseControl(r) PROVE opens' = opens
    BY <2>2 DEF RejectRequest, RefuseControl
  <2>3. \A r, c, s : HandleOpen(r, c, s) => opens' = opens + 1
    BY DEF HandleOpen
  <2> QED
    BY <1>2, <2>1, <2>2, <2>3 DEF HandleRequest, TypeOK
<1>3. CASE HandlePacket
  BY <1>3 DEF HandlePacket, UnknownConnection, HandleControlPacket, HandleConnected,
              HandleNoHandler, HandleDisconnected, HandleData, GetPacket, TypeOK
<1>4. CASE CheckRequestTimeouts
  BY <1>4 DEF CheckRequestTimeouts, TypeOK
<1>5. CASE PiStep
  <2>1. UNCHANGED amigaVars
    BY <1>5 DEF PiStep, PiAnswerConnect, PiAnswerDisconnect, LeaveAmiga, LosePacket,
                ResendPacket, PiSend, PiClose
  <2> QED
    BY <2>1 DEF amigaVars, TypeOK
<1>6. CASE UNCHANGED vars
  BY <1>6 DEF vars, TypeOK
<1> QED
  BY <1>1, <1>2, <1>3, <1>4, <1>5, <1>6 DEF Next

LEMMA IdsKnownCorrect == Spec => []IdsKnown
<1>1. Init => IdsKnown
  BY DEF Init, IdsKnown, Has, NoCnn
<1>2. ASSUME TypeOK, IdInv, IdsKnown, [Next]_vars PROVE IdsKnown'
  <2> SUFFICES ASSUME opens' < IdMod
               PROVE  /\ \A t, x : Has(in', t, x) \/ Has(out', t, x) => x \in 0..opens'
                      /\ piOpen' \subseteq 0..opens'
                      /\ \A c \in Objects : cnn'[c].id \in 0..opens'
    BY DEF IdsKnown, Has
  <2>1. /\ opens \in Nat
        /\ opens' = opens \/ opens' = opens + 1
        /\ opens' = opens \/ \E r \in Reqs, c \in Objects, s \in CnnState : HandleOpen(r, c, s)
    BY <1>2, OpensGrow
  <2>2. opens < IdMod /\ \A x \in 0..opens : x \in 0..opens'
    BY <2>1, ConnectionsAssumption
  <2>3. /\ \A t, x : Has(in, t, x) \/ Has(out, t, x) => x \in 0..opens
        /\ piOpen \subseteq 0..opens
        /\ \A c \in Objects : cnn[c].id \in 0..opens
    BY <1>2, <2>2 DEF IdsKnown
  <2>4. ASSUME NEW r \in Reqs, NEW c \in Objects, NEW s \in CnnState, HandleOpen(r, c, s)
        PROVE  nextId \in 0..opens' /\ cnn'[c].id = nextId
    <3>1. nextId = opens' /\ opens' = opens + 1 /\ cnn'[c].id = nextId
      BY <1>2, <2>4, NewId
    <3> QED
      BY <2>1, <3>1
  <2>5. ASSUME NEW t, NEW x, Has(in', t, x) PROVE x \in 0..opens'
    <3>1. x \in piOpen \/ (\E u : Has(in, u, x)) \/ (\E u : Has(out, u, x))
      BY <1>2, <2>5, NetOrigin
    <3> QED
      BY <2>2, <2>3, <3>1
  <2>6. ASSUME NEW t, NEW x, Has(out', t, x) PROVE x \in 0..opens'
    <3>1. \/ (\E u : Has(in, u, x)) \/ (\E u : Has(out, u, x))
          \/ \E c \in Objects : x = cnn[c].id
          \/ x = nextId /\ \E r \in Reqs, c \in Objects, s \in CnnState : HandleOpen(r, c, s)
      BY <1>2, <2>6, NetOrigin
    <3> QED
      BY <2>2, <2>3, <2>4, <3>1
  <2>7. ASSUME NEW x \in piOpen' PROVE x \in 0..opens'
    <3>1. x \in piOpen \/ Has(out, "CONNECT", x)
      BY <1>2, NetOrigin
    <3> QED
      BY <2>2, <2>3, <3>1
  <2>8. ASSUME NEW c \in Objects PROVE cnn'[c].id \in 0..opens'
    <3>1. CASE cnn'[c].id = cnn[c].id \/ cnn'[c].id = 0
      <4>1. 0 \in 0..opens
        BY <2>1
      <4> QED
        BY <2>2, <2>3, <3>1, <4>1
    <3>2. CASE \E r \in Reqs, s \in CnnState : HandleOpen(r, c, s)
      BY <2>4, <3>2
    <3>3. CASE HandleConnected(c)
      <4>1. cnn' = [cnn EXCEPT ![c].state = CS_CONNECTED]
        BY <3>3 DEF HandleConnected
      <4>2. cnn'[c].id = cnn[c].id
        <5>1. cnn[c] \in [id : 0..(IdMod-1), state : CnnState]
          BY <1>2 DEF TypeOK
        <5> QED
          BY <1>2, <4>1, <5>1 DEF TypeOK
      <4> QED
        BY <3>1, <4>2
    <3> QED
      BY <1>2, <3>1, <3>2, <3>3, CnnSteps DEF Quiet, NoCnn
  <2> QED
    BY <2>5, <2>6, <2>7, <2>8
<1> QED
  BY <1>1, <1>2, TypeCorrect, IdInvCorrect, PTL DEF Spec

-----------------------------------------------------------------------------
(* OPENs take no data.                                                     *)

HasOpen(c) == \E i \in DOMAIN reqs[c] : req[reqs[c][i]].type = "OPEN"

\* An OPEN comes onto a queue with the connection and no other way.
LEMMA OpenWasThere ==
    ASSUME TypeOK, TypeOK', OneOwner, OneOwner', [Next]_vars, NEW c \in Objects, HasOpen(c)'
    PROVE  HasOpen(c) \/ \E r \in Reqs, s \in CnnState : HandleOpen(r, c, s)
<1>0. reqs[c] \in Seq(Reqs) /\ reqs'[c] \in Seq(Reqs)
  BY DEF TypeOK
<1>1. PICK j \in DOMAIN reqs'[c] : req'[reqs'[c][j]].type = "OPEN"
  BY DEF HasOpen
<1> DEFINE x == reqs'[c][j]
<1>2. x \in Reqs /\ where'[x] = "server"
  BY <1>0, ElementOfSeq DEF OneOwner
<1>3. ASSUME NEW k \in DOMAIN reqs[c], x = reqs[c][k] PROVE HasOpen(c)
  <2>1. where[x] = "server"
    BY <1>3 DEF OneOwner
  <2>2. req[x].type = "OPEN"
    BY <1>1, <1>2, <2>1, TypeKept
  <2> QED
    BY <1>3, <2>2 DEF HasOpen
<1>4. CASE Advances(reqs'[c], reqs[c])
  BY <1>3, <1>4 DEF Advances
<1>5. ASSUME NEW r \in Reqs, HandleRead(r, c), Advances(reqs'[c], Append(reqs[c], r))
      PROVE  HasOpen(c)
  <2> DEFINE w == Append(reqs[c], r)
  <2>1. PICK k \in DOMAIN w : x = w[k]
    BY <1>5 DEF Advances
  <2>2. (k \in DOMAIN reqs[c] /\ w[k] = reqs[c][k]) \/ w[k] = r
    BY <1>0
  <2>3. x # r
    <3>1. req[r].type = "READ" /\ where[r] = "server"
      BY <1>5, ServersOwn DEF HandleRead, GetMsg
    <3>2. x = r => req'[r].type = "READ"
      BY <1>2, <3>1, TypeKept
    <3> QED
      BY <1>1, <3>2
  <2> HIDE DEF w
  <2> QED
    BY <1>3, <2>1, <2>2, <2>3
<1> QED
  BY <1>4, <1>5, QueueMoves

\* CONNECTED and NO_HANDLER take the OPEN off the queue.
LEMMA OpenAnswered ==
    ASSUME TypeOK, TypeOK', OneOwner, OneOwner', OpensFirst, [Next]_vars,
           NEW c \in Objects, NEW state, AnswerOpen(c, state)
    PROVE  ~ HasOpen(c)'
<1>0. reqs[c] \in Seq(Reqs) /\ reqs \in [Objects -> Seq(Reqs)] /\ reqs'[c] \in Seq(Reqs)
  BY DEF TypeOK
<1>1. CASE \E i \in DOMAIN reqs[c] : /\ req[reqs[c][i]].type = "OPEN"
                                     /\ reqs' = [reqs EXCEPT ![c] = Unlink(@, i)]
  <2>1. PICK i \in DOMAIN reqs[c] : /\ req[reqs[c][i]].type = "OPEN"
                                    /\ reqs' = [reqs EXCEPT ![c] = Unlink(@, i)]
    BY <1>1
  <2>2. i = 1 /\ reqs'[c] = Unlink(reqs[c], i)
    BY <1>0, <2>1 DEF OpensFirst
  <2> SUFFICES ASSUME NEW j \in DOMAIN reqs'[c], req'[reqs'[c][j]].type = "OPEN" PROVE FALSE
    BY DEF HasOpen
  <2> DEFINE x == reqs'[c][j]
  <2>3. j + 1 \in DOMAIN reqs[c] /\ x = reqs[c][j + 1] /\ j \in Nat /\ j > 0
    <3>1. IF j < i THEN j \in DOMAIN reqs[c] /\ x = reqs[c][j]
                   ELSE j + 1 \in DOMAIN reqs[c] /\ x = reqs[c][j + 1]
      BY <1>0, <2>2, AdvancesUnlink
    <3>2. j \in Nat /\ j > 0
      BY <1>0
    <3> QED
      BY <2>2, <3>1, <3>2
  <2>4. x \in Reqs /\ where'[x] = "server" /\ where[x] = "server"
    BY <1>0, <2>3, ElementOfSeq DEF OneOwner
  <2>5. req[reqs[c][j + 1]].type = "OPEN"
    BY <2>3, <2>4, TypeKept
  <2>6. j + 1 = 1
    BY <2>3, <2>5 DEF OpensFirst
  <2> QED
    BY <2>3, <2>6
<1>2. CASE /\ reqs' = reqs /\ req' = req
           /\ \A i \in DOMAIN reqs[c] :
                ~ (req[reqs[c][i]].type = "OPEN" /\ \A j \in 1..(i-1) : req[reqs[c][j]].type # "OPEN")
  <2> SUFFICES ASSUME NEW i \in DOMAIN reqs[c], req[reqs[c][i]].type = "OPEN" PROVE FALSE
    BY <1>2 DEF HasOpen
  <2>1. i = 1
    BY DEF OpensFirst
  <2>2. \A j \in 1..(i-1) : FALSE
    BY <2>1
  <2> QED
    BY <1>2, <2>2
<1> QED
  BY <1>1, <1>2 DEF AnswerOpen

\* A connection that is connected while its OPEN still waits is one whose
\* cnn_State was never written: the Pi has never heard of it.
OpenUnreached ==
    opens < IdMod =>
        \A c \in Objects : CanPush(c) /\ HasOpen(c) =>
            /\ packets[c] = <<>>
            /\ cnn[c].id \notin piOpen
            /\ ~ Has(out, "CONNECT", cnn[c].id)
            /\ \A t : Has(in, t, cnn[c].id) => t = "DISCONNECTED"

LEMMA InHas ==
    ASSUME TypeOK, in # <<>>
    PROVE  Has(in, Head(in).type, Head(in).conn)
<1>1. in \in Seq(InPacket)
  BY DEF TypeOK
<1> QED
  BY <1>1, HasHead

LEMMA OpenUnreachedCorrect == Spec => []OpenUnreached
<1>1. Init => OpenUnreached
  BY DEF Init, OpenUnreached, HasOpen
<1>2. ASSUME TypeOK, TypeOK', OneOwner, OneOwner', OpensFirst, IdInv, IdsKnown, OpenUnreached,
             [Next]_vars
      PROVE  OpenUnreached'
  <2> SUFFICES ASSUME opens' < IdMod, NEW c \in Objects, CanPush(c)', HasOpen(c)'
               PROVE  /\ packets'[c] = <<>>
                      /\ cnn'[c].id \notin piOpen'
                      /\ ~ Has(out', "CONNECT", cnn'[c].id)
                      /\ \A t : Has(in', t, cnn'[c].id) => t = "DISCONNECTED"
    BY DEF OpenUnreached, Has
  <2>1. /\ opens \in Nat
        /\ opens' = opens \/ opens' = opens + 1
    BY <1>2, OpensGrow
  <2>2. opens < IdMod
    BY <2>1, ConnectionsAssumption
  <2>3. CASE \E r \in Reqs, s \in CnnState : HandleOpen(r, c, s)
    <3>1. PICK r \in Reqs, s \in CnnState : HandleOpen(r, c, s)
      BY <2>3
    <3>2. /\ nextId \notin 0..opens /\ cnn'[c].id = nextId
          /\ cnn'[c].state = CS_CONNECTED => out' = out
          /\ in' = in /\ piOpen' = piOpen /\ packets'[c] = <<>>
      BY <1>2, <3>1, NewId
    <3>3. out' = out
      BY <3>2 DEF CanPush
    <3>4. /\ \A t, x : Has(in, t, x) \/ Has(out, t, x) => x \in 0..opens
          /\ piOpen \subseteq 0..opens
      BY <1>2, <2>2 DEF IdsKnown
    <3> QED
      BY <3>2, <3>3, <3>4
  <2>4. CASE ~ \E r \in Reqs, s \in CnnState : HandleOpen(r, c, s)
    <3>1. HasOpen(c)
      BY <1>2, <2>4, OpenWasThere
    <3>2. ~ HandleConnected(c)
      BY <1>2, OpenAnswered DEF HandleConnected
    <3>3. cnn'[c] = cnn[c] /\ (Quiet(c) \/ HandleData(c) \/ \E r \in Reqs : HandleRead(r, c))
      BY <1>2, <2>4, <3>2, CnnSteps DEF Quiet, CanPush
    <3>4. CanPush(c)
      BY <3>3 DEF CanPush
    <3> DEFINE id == cnn[c].id
    <3>5. /\ packets[c] = <<>> /\ id \notin piOpen /\ ~ Has(out, "CONNECT", id)
          /\ \A t : Has(in, t, id) => t = "DISCONNECTED"
      BY <1>2, <2>2, <3>1, <3>4 DEF OpenUnreached
    <3>6. id \in 0..opens
      BY <1>2, <2>2 DEF IdsKnown
    <3>7. ASSUME NEW t, Has(in', t, id) PROVE t = "DISCONNECTED"
      BY <1>2, <3>5, <3>7, NetOrigin
    <3>8. ~ Has(out', "CONNECT", id)
      <4>1. ASSUME NEW r \in Reqs, NEW e \in Objects, NEW s \in CnnState, HandleOpen(r, e, s)
            PROVE  nextId # id
        BY <1>2, <3>6, <4>1, NewId
      <4> QED
        BY <1>2, <3>5, <4>1, NetOrigin
    <3>9. id \notin piOpen'
      <4>1. ASSUME id \in piOpen' PROVE Has(out, "CONNECT", id)
        <5>1. \A x \in piOpen' : x \in piOpen \/ Has(out, "CONNECT", x)
          BY <1>2, NetOrigin
        <5> QED
          BY <3>5, <4>1, <5>1
      <4> QED
        BY <3>5, <4>1
    <3>10. packets'[c] = <<>>
      <4>1. CASE Quiet(c)
        BY <3>5, <4>1 DEF Quiet
      <4>2. CASE HandleData(c)
        <5>1. Has(in, Head(in).type, Head(in).conn)
          BY <1>2, <4>2, InHas DEF HandleData, GetPacket
        <5>2. Head(in).conn = id /\ Head(in).type \in {"DATA", "ERROR"}
          BY <4>2 DEF HandleData, GetPacket, FindConnection
        <5> QED
          BY <3>5, <5>1, <5>2
      <4>3. ASSUME NEW r \in Reqs, HandleRead(r, c) PROVE packets'[c] = <<>>
        <5> DEFINE w  == AddRequest(reqs[c], r)
                   rq == [req EXCEPT ![r] = Accept(r, cnn[c].id)]
        <5>1. PushToClient(c, packets[c], w, rq, inUse) /\ cnnList' = cnnList
          BY <4>3 DEF HandleRead
        <5>2. w \in Seq(Reqs) /\ packets[c] \in Seq(Queued) /\ IsLive(c)
          BY <1>2, <4>3, FoundLive DEF AddRequest, TypeOK, HandleRead
        <5> HIDE DEF w, rq
        <5>3. PICK m \in 0..Len(packets[c]) : Pushed(c, packets[c], inUse, m)
          BY <1>2, <5>1, <5>2, PushPackets
        <5>4. m = 0 /\ Len(packets[c]) = 0
          BY <3>5
        <5>5. DOMAIN packets'[c] = 1..0
          BY <1>2, <5>2, <5>3, <5>4, PushedQueue
        <5>6. packets'[c] \in Seq(Queued)
          BY <1>2 DEF TypeOK
        <5> DEFINE v == packets'[c]
        <5>7. v \in Seq(Queued) /\ DOMAIN v = 1..0
          BY <5>5, <5>6
        <5> HIDE DEF v
        <5>8. v = <<>>
          BY <5>7
        <5> QED
          BY <5>8 DEF v
      <4> QED
        BY <3>3, <4>1, <4>2, <4>3
    <3> HIDE DEF id
    <3> QED
      BY <3>3, <3>7, <3>8, <3>9, <3>10 DEF id
  <2> QED
    BY <2>3, <2>4
<1> QED
  BY <1>1, <1>2, TypeCorrect, Ownership, OpensFirstCorrect, IdInvCorrect, IdsKnownCorrect, PTL
  DEF Spec

\* An OPEN holds no packet and, once replied to, one of the answers there are
\* to an open.
OpensPlain ==
    opens < IdMod =>
        \A r \in Reqs : req[r].type = "OPEN" =>
            /\ req[r].got = 0
            /\ where[r] = "replied" => req[r].state \in {"OK", "NO_HANDLER", "TIMEOUT"}

\* The request APB_PushToClient pops is never an OPEN while there is a packet
\* to give: OPENs are answered by CONNECTED or NO_HANDLER, or time out.
THEOREM OpensTakeNoData == Spec => []OpenTakesNoData
<1>1. Init => OpensPlain
  BY DEF Init, OpensPlain, Unused
<1>2. ASSUME TypeOK, OneOwner, Manners, OpenUnreached, OpensPlain, [Next]_vars
      PROVE  OpensPlain'
  <2> SUFFICES ASSUME opens' < IdMod, NEW r \in Reqs, req'[r].type = "OPEN"
               PROVE  /\ req'[r].got = 0
                      /\ where'[r] = "replied" => req'[r].state \in {"OK", "NO_HANDLER", "TIMEOUT"}
    BY DEF OpensPlain
  <2>1. opens < IdMod
    BY <1>2, OpensGrow, ConnectionsAssumption
  <2>2. ASSUME req'[r] = req[r], where'[r] = where[r]
        PROVE  /\ req'[r].got = 0
               /\ where'[r] = "replied" => req'[r].state \in {"OK", "NO_HANDLER", "TIMEOUT"}
    BY <1>2, <2>1, <2>2 DEF OpensPlain
  <2>3. CASE ClientStep
    <3>1. ASSUME NEW x \in Reqs, NEW type, NEW id, NEW len, NEW timeout,
                 PutMsg(x, type, id, len, timeout)
          PROVE  \/ req'[r] = req[r] /\ where'[r] = where[r]
                 \/ where'[r] = "server" /\ req'[r].got = 0
      BY <1>2, <3>1, PutRequest DEF Manners
    <3>2. ASSUME NEW x \in Reqs, TakeBack(x)
          PROVE  \/ req'[r] = req[r] /\ where'[r] = where[r]
                 \/ where'[r] = "client" /\ req'[r].got = 0
      BY <1>2, <3>2, TakenBack
    <3>3. \A k : FreeConnection(k) => UNCHANGED <<req, where>>
      BY DEF FreeConnection
    <3>4. ASSUME NEW k \in Clients, OpenConnection(k) \/ CloseConnection(k)
          PROVE  \E x \in Reqs : \E type, id, len, timeout : PutMsg(x, type, id, len, timeout)
      <4>1. <<k, Ctl>> \in Reqs
        BY ConnectionsAssumption DEF Reqs
      <4> QED
        BY <3>4, <4>1 DEF OpenConnection, CloseConnection
    <3>5. ASSUME NEW k \in Clients, NEW s \in Slots, NEW len, NEW timeout,
                 Read(k, s, len, timeout) \/ Write(k, s)
          PROVE  \E x \in Reqs : \E type, id, l, t : PutMsg(x, type, id, l, t)
      <4>1. <<k, s>> \in Reqs
        BY DEF Reqs
      <4> QED
        BY <3>5, <4>1 DEF Read, Write
    <3>6. \/ \E k \in Clients : FreeConnection(k)
          \/ \E x \in Reqs : \E type, id, l, t : PutMsg(x, type, id, l, t)
          \/ \E x \in Reqs : TakeBack(x)
      BY <2>3, <3>4, <3>5 DEF ClientStep, GetReply, Abort
    <3> QED
      BY <2>2, <3>1, <3>2, <3>3, <3>6
  <2>4. CASE ServerStep
    <3>1. req[r].type = "OPEN"
      BY <1>2, <2>4, ServerSteps DEF Served
    <3>2. req[r].got = 0
      BY <1>2, <2>1, <3>1 DEF OpensPlain
    <3>3. ~ Bothered(r)
      <4> SUFFICES ASSUME NEW c \in Objects, OnQueue(r, c), CanPush(c),
                          packets[c] # <<>> \/ HandleData(c)
                   PROVE  FALSE
        BY DEF Bothered
      <4>1. HasOpen(c)
        BY <3>1 DEF HasOpen, OnQueue
      <4>2. packets[c] = <<>> /\ \A t : Has(in, t, cnn[c].id) => t = "DISCONNECTED"
        BY <1>2, <2>1, <4>1 DEF OpenUnreached
      <4>3. HandleData(c)
        BY <4>2
      <4>4. Has(in, Head(in).type, Head(in).conn)
        BY <1>2, <4>3, InHas DEF HandleData, GetPacket
      <4>5. Head(in).conn = cnn[c].id /\ Head(in).type \in {"DATA", "ERROR"}
        BY <4>3 DEF HandleData, GetPacket, FindConnection
      <4> QED
        BY <4>2, <4>4, <4>5
    <3>4. \/ req'[r] = req[r] /\ where'[r] = where[r]
          \/ where'[r] = "server" /\ req'[r].got \in {0, req[r].got}
          \/ req'[r].got = req[r].got /\ req'[r].state \in {"OK", "NO_HANDLER", "TIMEOUT"}
      BY <1>2, <2>4, <3>1, <3>3, OpenReplies
    <3> QED
      BY <2>2, <3>2, <3>4
  <2>5. CASE UNCHANGED vars
    BY <2>2, <2>5 DEF vars
  <2> QED
    BY <1>2, <2>3, <2>4, <2>5 DEF Next, ServerStep
<1>3. OpensPlain => OpenTakesNoData
  BY DEF OpensPlain, OpenTakesNoData
<1> QED
  BY <1>1, <1>2, <1>3, TypeCorrect, Ownership, MannersCorrect, OpenUnreachedCorrect, PTL DEF Spec

-----------------------------------------------------------------------------
(* Who holds an id.                                                        *)

\* The id a client's connection has or is being given.
IdOf(k) == IF phase[k] = "opening" THEN req[<<k, Ctl>>].conn ELSE connId[k]

LEMMA ControlRequests ==
    /\ \A k \in Clients : <<k, Ctl>> \in Reqs
    /\ \A r \in Reqs : r[1] \in Clients /\ r[2] \in Slots /\ r = <<r[1], r[2]>>
    /\ \A k \in Clients, s \in Slots : <<k, s>> \in Reqs
  BY ConnectionsAssumption DEF Reqs

LEMMA OpenGivesId ==
    ASSUME TypeOK, NEW r \in Reqs, NEW c \in Objects, NEW s \in CnnState, HandleOpen(r, c, s)
    PROVE  /\ req'[r].conn = nextId /\ reqs'[c] = <<r>>
           /\ \A x \in Reqs : x # r => req'[x] = req[x]
<1>1. req' = [req EXCEPT ![r] = Accept(r, nextId)] /\ reqs' = [reqs EXCEPT ![c] = <<r>>]
  BY DEF HandleOpen
<1>2. req[r] \in Request
  BY DEF TypeOK
<1>3. Accept(r, nextId).conn = nextId
  BY <1>2 DEF Accept, Request
<1> QED
  BY <1>1, <1>3 DEF TypeOK

\* A step keeps a client's id, takes it away, or serves the client's OPEN.
LEMMA IdOfSteps ==
    ASSUME TypeOK, OneOwner, Manners, [Next]_vars, NEW k \in Clients
    PROVE  \/ IdOf(k)' = IdOf(k)
           \/ IdOf(k)' = 0
           \/ /\ \E c \in Objects, s \in CnnState : HandleOpen(<<k, Ctl>>, c, s)
              /\ IdOf(k)' = nextId
<1> DEFINE z == <<k, Ctl>>
           Keeps == IdOf(k)' = IdOf(k) \/ IdOf(k)' = 0
<1>0. z \in Reqs /\ /\ phase \in [Clients -> {"idle", "opening", "open", "failed", "closing"}]
                    /\ connId \in [Clients -> 0..(IdMod-1)]
  BY ControlRequests DEF TypeOK
<1>1. ASSUME phase'[k] = phase[k], connId'[k] = connId[k], req'[z].conn = req[z].conn PROVE Keeps
  BY <1>1 DEF IdOf
<1>2. CASE ServerStep
  <2>1. phase' = phase /\ connId' = connId /\ Served(z)
    BY <1>0, <1>2, ServerSteps
  <2>2. CASE req'[z].conn = req[z].conn
    BY <1>1, <2>1, <2>2
  <2>3. ASSUME NEW c \in Objects, NEW s \in CnnState, HandleOpen(z, c, s)
        PROVE  IdOf(k)' = nextId
    <3>1. req'[z].conn = nextId
      BY <1>0, <2>3, OpenGivesId
    <3>2. phase[k] = "opening"
      <4>1. where[z] = "server" /\ req[z].type = "OPEN" /\ z[1] = k /\ z[2] = Ctl
        BY <2>3, ServersOwn DEF HandleOpen, GetMsg
      <4> QED
        BY <1>0, <4>1 DEF Manners
    <3> QED
      BY <2>1, <3>1, <3>2 DEF IdOf
  <2> QED
    BY <2>1, <2>2, <2>3 DEF Served
<1>3. CASE ClientStep
  <2>1. ASSUME NEW x \in Reqs, NEW type, NEW id, NEW len, NEW timeout,
               PutMsg(x, type, id, len, timeout)
        PROVE  req'[x].conn = id /\ (x # z => req'[z] = req[z])
    BY <1>0, <2>1, PutRequest
  <2>2. ASSUME NEW x \in Reqs, TakeBack(x) PROVE x # z => req'[z] = req[z]
    BY <1>0, <2>2, TakenBack
  <2>3. ASSUME NEW l \in Clients, OpenConnection(l) PROVE Keeps
    <3>1. <<l, Ctl>> \in Reqs /\ PutMsg(<<l, Ctl>>, "OPEN", DEFAULT_CONNECTION, 0, CtlTimeout)
      BY <2>3, ControlRequests DEF OpenConnection
    <3>2. phase' = [phase EXCEPT ![l] = "opening"] /\ connId' = connId
      BY <2>3 DEF OpenConnection
    <3>3. CASE l = k
      <4>1. req'[z].conn = 0 /\ phase'[k] = "opening"
        BY <1>0, <2>1, <3>1, <3>2, <3>3 DEF DEFAULT_CONNECTION
      <4> QED
        BY <4>1 DEF IdOf
    <3>4. CASE l # k
      <4>1. req'[z] = req[z] /\ phase'[k] = phase[k]
        BY <1>0, <2>1, <3>1, <3>2, <3>4
      <4> QED
        BY <1>1, <3>2, <4>1
    <3> QED
      BY <3>3, <3>4
  <2>4. ASSUME NEW l \in Clients, CloseConnection(l) PROVE Keeps
    <3>1. /\ <<l, Ctl>> \in Reqs /\ PutMsg(<<l, Ctl>>, "CLOSE", connId[l], 0, CtlTimeout)
          /\ phase[l] \in {"open", "failed"}
      BY <2>4, ControlRequests DEF CloseConnection, MayUse
    <3>2. phase' = [phase EXCEPT ![l] = "closing"] /\ connId' = connId
      BY <2>4 DEF CloseConnection
    <3>3. CASE l = k
      BY <1>0, <3>1, <3>2, <3>3 DEF IdOf
    <3>4. CASE l # k
      <4>1. req'[z] = req[z] /\ phase'[k] = phase[k]
        BY <1>0, <2>1, <3>1, <3>2, <3>4
      <4> QED
        BY <1>1, <3>2, <4>1
    <3> QED
      BY <3>3, <3>4
  <2>5. ASSUME NEW l \in Clients, FreeConnection(l) PROVE Keeps
    <3>1. /\ phase' = [phase EXCEPT ![l] = "idle"] /\ connId' = [connId EXCEPT ![l] = 0]
          /\ req' = req
      BY <2>5 DEF FreeConnection
    <3>2. CASE l = k
      BY <1>0, <3>1, <3>2 DEF IdOf
    <3>3. CASE l # k
      BY <1>0, <1>1, <3>1, <3>3
    <3> QED
      BY <3>2, <3>3
  <2>6. ASSUME NEW l \in Clients, NEW s \in Slots, NEW len, NEW timeout,
               Read(l, s, len, timeout) \/ Write(l, s)
        PROVE  Keeps
    <3>1. /\ s # Ctl /\ phase' = phase /\ connId' = connId
          /\ \E type, id, n, t : PutMsg(<<l, s>>, type, id, n, t)
      BY <2>6 DEF Read, Write, clientVars
    <3>2. <<l, s>> # z /\ <<l, s>> \in Reqs
      BY <3>1, ControlRequests
    <3> QED
      BY <1>1, <2>1, <3>1, <3>2
  <2>7. ASSUME NEW x \in Reqs, GetReply(x) PROVE Keeps
    <3>1. TakeBack(x) /\ where[x] = "replied"
      BY <2>7 DEF GetReply
    <3>2. CASE x = z
      <4>1. CASE req[x].type = "OPEN"
        <5>1. phase[k] = "opening"
          BY <1>0, <3>1, <3>2, <4>1 DEF Manners
        <5>2. phase'[k] \in {"open", "failed"} /\ connId'[k] = req[x].conn
          BY <1>0, <2>7, <3>2, <4>1 DEF GetReply
        <5> QED
          BY <3>2, <5>1, <5>2 DEF IdOf
      <4>2. CASE req[x].type # "OPEN"
        <5>1. phase'[k] = "idle" /\ connId'[k] = 0
          BY <1>0, <2>7, <3>2, <4>2 DEF GetReply
        <5> QED
          BY <5>1 DEF IdOf
      <4> QED
        BY <4>1, <4>2
    <3>3. CASE x # z
      <4>1. phase'[k] = phase[k] /\ connId'[k] = connId[k]
        <5>1. x[2] = Ctl => x[1] # k
          BY <3>3, ControlRequests
        <5> QED
          BY <1>0, <2>7, <5>1 DEF GetReply
      <4> QED
        BY <1>1, <2>2, <3>1, <3>3, <4>1
    <3> QED
      BY <3>2, <3>3
  <2>8. ASSUME NEW x \in Reqs, Abort(x) PROVE Keeps
    <3>1. TakeBack(x) /\ phase' = phase /\ connId' = connId /\ x # z
      BY <2>8 DEF Abort, clientVars
    <3> QED
      BY <1>1, <2>2, <3>1
  <2> HIDE DEF Keeps
  <2>9. Keeps
    BY <1>3, <2>3, <2>4, <2>5, <2>6, <2>7, <2>8 DEF ClientStep
  <2> QED
    BY <2>9 DEF Keeps
<1>4. CASE UNCHANGED vars
  BY <1>4 DEF vars, clientVars, IdOf
<1> QED
  BY <1>2, <1>3, <1>4 DEF Next, ServerStep

\* Until the counter has wrapped, no two clients have the same id.
OneHolder ==
    opens < IdMod =>
        /\ \A k \in Clients : IdOf(k) \in 0..opens
        /\ \A k, l \in Clients : IdOf(k) = IdOf(l) /\ IdOf(k) # 0 => k = l

LEMMA OneHolderCorrect == Spec => []OneHolder
<1>1. Init => OneHolder
  BY DEF Init, OneHolder, IdOf
<1>2. ASSUME TypeOK, OneOwner, Manners, IdInv, OneHolder, [Next]_vars PROVE OneHolder'
  <2> SUFFICES ASSUME opens' < IdMod
               PROVE  /\ \A k \in Clients : IdOf(k)' \in 0..opens'
                      /\ \A k, l \in Clients : IdOf(k)' = IdOf(l)' /\ IdOf(k)' # 0 => k = l
    BY DEF OneHolder, IdOf
  <2>1. opens \in Nat /\ (opens' = opens \/ opens' = opens + 1)
    BY <1>2, OpensGrow
  <2>2. opens < IdMod /\ (\A x \in 0..opens : x \in 0..opens') /\ 0 \in 0..opens'
    BY <2>1, ConnectionsAssumption
  <2> DEFINE Serves(k) == \E c \in Objects, s \in CnnState : HandleOpen(<<k, Ctl>>, c, s)
  <2>3. ASSUME NEW k \in Clients, Serves(k) PROVE nextId \in 0..opens' /\ nextId \notin 0..opens
    <3>1. nextId = opens' /\ opens' = opens + 1 /\ nextId \notin 0..opens
      BY <1>2, <2>3, ControlRequests, NewId
    <3> QED
      BY <2>1, <3>1
  <2>4. ASSUME NEW k \in Clients, NEW l \in Clients, Serves(k), Serves(l) PROVE k = l
    <3>1. \A j \in Clients : Serves(j) => <<j, Ctl>> = Head(port)
      BY DEF HandleOpen, GetMsg
    <3>2. <<k, Ctl>> = <<l, Ctl>>
      BY <2>4, <3>1
    <3> QED
      BY <3>2
  <2> HIDE DEF Serves
  <2>5. \A k \in Clients : IdOf(k)' = IdOf(k) \/ IdOf(k)' = 0 \/ (Serves(k) /\ IdOf(k)' = nextId)
    BY <1>2, IdOfSteps DEF Serves
  <2>6. /\ \A k \in Clients : IdOf(k) \in 0..opens
        /\ \A k, l \in Clients : IdOf(k) = IdOf(l) /\ IdOf(k) # 0 => k = l
    BY <1>2, <2>2 DEF OneHolder
  <2>7. ASSUME NEW k \in Clients PROVE IdOf(k)' \in 0..opens'
    BY <2>2, <2>3, <2>5, <2>6
  <2>8. ASSUME NEW k \in Clients, NEW l \in Clients, IdOf(k)' = IdOf(l)', IdOf(k)' # 0 PROVE k = l
    BY <2>3, <2>4, <2>5, <2>6, <2>8
  <2> QED
    BY <2>7, <2>8
<1> QED
  BY <1>1, <1>2, TypeCorrect, Ownership, MannersCorrect, IdInvCorrect, PTL DEF Spec

-----------------------------------------------------------------------------
(* Blank connections, and the one answer to an open.                       *)

\* A connection that is not on the server's list has no id.
BlankDead == \A c \in Objects : ~ IsLive(c) => cnn[c] = NoCnn

LEMMA ListSteps ==
    ASSUME TypeOK, [Next]_vars
    PROVE  \/ cnnList' = cnnList
           \/ \E r \in Reqs, c \in Objects, s \in CnnState : HandleOpen(r, c, s)
           \/ \E c \in Objects : HandleDisconnected(c)
<1> USE DEF serverVars, packetVars, clientVars, remoteVars, historyVars
<1>1. CASE ClientStep
  <2>1. \A r, type, id, len, timeout : PutMsg(r, type, id, len, timeout) => cnnList' = cnnList
    BY DEF PutMsg
  <2>2. \A r : GetReply(r) \/ Abort(r) => cnnList' = cnnList
    BY DEF GetReply, Abort
  <2> QED
    BY <1>1, <2>1, <2>2
    DEF ClientStep, OpenConnection, CloseConnection, FreeConnection, Read, Write
<1>2. CASE HandleRequest
  <2>1. ASSUME NEW r \in Reqs, NEW c \in Objects,
               HandleClose(r, c) \/ RefuseRequest(r, c) \/ HandleRead(r, c) \/ HandleWrite(r, c)
        PROVE  cnnList' = cnnList
    BY <2>1 DEF HandleClose, RefuseRequest, HandleRead, HandleWrite
  <2>2. ASSUME NEW r \in Reqs, RejectRequest(r) \/ RefuseControl(r) PROVE cnnList' = cnnList
    BY <2>2 DEF RejectRequest, RefuseControl
  <2> QED
    BY <1>2, <2>1, <2>2 DEF HandleRequest
<1>3. CASE HandlePacket
  <2>1. ASSUME NEW c \in Objects, HandleConnected(c) \/ HandleNoHandler(c) \/ HandleData(c)
        PROVE  cnnList' = cnnList
    BY <2>1 DEF HandleConnected, HandleNoHandler, HandleData
  <2>2. UnknownConnection \/ HandleControlPacket => cnnList' = cnnList
    BY DEF UnknownConnection, HandleControlPacket
  <2> QED
    BY <1>3, <2>1, <2>2 DEF HandlePacket
<1>4. CASE CheckRequestTimeouts
  BY <1>4 DEF CheckRequestTimeouts
<1>5. CASE PiStep
  <2>1. UNCHANGED amigaVars
    BY <1>5 DEF PiStep, PiAnswerConnect, PiAnswerDisconnect, LeaveAmiga, LosePacket,
                ResendPacket, PiSend, PiClose
  <2> QED
    BY <2>1 DEF amigaVars
<1>6. CASE UNCHANGED vars
  BY <1>6 DEF vars
<1> QED
  BY <1>1, <1>2, <1>3, <1>4, <1>5, <1>6 DEF Next

LEMMA BlankDeadCorrect == Spec => []BlankDead
<1>1. Init => BlankDead
  BY DEF Init, BlankDead
<1>2. ASSUME TypeOK, BlankDead, [Next]_vars PROVE BlankDead'
  <2> SUFFICES ASSUME NEW c \in Objects, ~ IsLive(c)' PROVE cnn'[c] = NoCnn
    BY DEF BlankDead
  <2>1. CASE cnnList' = cnnList
    <3>1. ~ IsLive(c) /\ cnn[c] = NoCnn
      BY <1>2, <2>1 DEF IsLive, BlankDead
    <3>2. ~ HandleConnected(c)
      BY <3>1, FoundLive DEF HandleConnected
    <3>3. \A r, s : ~ HandleOpen(r, c, s)
      <4> SUFFICES ASSUME NEW r, NEW s, HandleOpen(r, c, s) PROVE FALSE
        OBVIOUS
      <4>1. cnnList' = Append(cnnList, c) /\ cnnList \in Seq(Objects)
        BY <1>2 DEF HandleOpen, TypeOK
      <4>2. Len(cnnList') = Len(cnnList) + 1 /\ Len(cnnList) \in Nat
        BY <4>1
      <4> QED
        BY <2>1, <4>2
    <3> QED
      BY <1>2, <3>1, <3>2, <3>3, CnnSteps DEF Quiet
  <2>2. ASSUME NEW r \in Reqs, NEW e \in Objects, NEW s \in CnnState, HandleOpen(r, e, s)
        PROVE  cnn'[c] = NoCnn
    <3>1. Created(e)
      BY <2>2 DEF HandleOpen, Created, packetVars
    <3>2. ~ IsLive(c) /\ e # c
      BY <1>2, <3>1, LiveCreated
    <3> QED
      BY <1>2, <2>2, <3>2 DEF HandleOpen, TypeOK, BlankDead
  <2>3. ASSUME NEW e \in Objects, HandleDisconnected(e) PROVE cnn'[c] = NoCnn
    <3>1. CASE e = c
      BY <1>2, <2>3, <3>1 DEF HandleDisconnected, TypeOK
    <3>2. CASE e # c
      <4>1. \E m \in DOMAIN cnnList : Destroyed(e, m)
        BY <2>3 DEF HandleDisconnected, Destroyed, Unlink
      <4>2. ~ IsLive(c)
        BY <1>2, <3>2, <4>1, LiveDestroyed
      <4> QED
        BY <1>2, <2>3, <3>2, <4>2 DEF HandleDisconnected, TypeOK, BlankDead
    <3> QED
      BY <3>1, <3>2
  <2> QED
    BY <1>2, <2>1, <2>2, <2>3, ListSteps
<1> QED
  BY <1>1, <1>2, TypeCorrect, PTL DEF Spec

\* Until the counter has wrapped, an id belongs to one connection.
LEMMA OneConnection ==
    ASSUME TypeOK, UniqueIds, BlankDead, opens < IdMod,
           NEW c \in Objects, NEW e \in Objects, cnn[c].id = cnn[e].id, cnn[c].id # 0
    PROVE  c = e
<1>1. IsLive(c) /\ IsLive(e)
  BY DEF BlankDead, NoCnn
<1> QED
  BY <1>1 DEF IsLive, UniqueIds

\* For each id there is one CONNECT or one CONNECTED on its way, or none.
OneToken ==
    opens < IdMod =>
        /\ OneEach(out, "CONNECT") /\ OneEach(in, "CONNECTED")
        /\ \A x : ~ (Has(out, "CONNECT", x) /\ Has(in, "CONNECTED", x))

LEMMA OneTokenCorrect == Spec => []OneToken
<1>1. Init => OneToken
  BY DEF Init, OneToken, OneEach, Has
<1>2. ASSUME TypeOK, IdInv, IdsKnown, OneToken, [Next]_vars PROVE OneToken'
  <2> SUFFICES ASSUME opens' < IdMod
               PROVE  /\ OneEach(out', "CONNECT") /\ OneEach(in', "CONNECTED")
                      /\ \A x : ~ (Has(out', "CONNECT", x) /\ Has(in', "CONNECTED", x))
    BY DEF OneToken, OneEach, Has
  <2>0. opens < IdMod
    BY <1>2, OpensGrow, ConnectionsAssumption
  <2>1. /\ OneEach(out, "CONNECT") /\ OneEach(in, "CONNECTED")
        /\ \A x : ~ (Has(out, "CONNECT", x) /\ Has(in, "CONNECTED", x))
    BY <1>2, <2>0 DEF OneToken
  <2>2. in \in Seq(InPacket) /\ out \in Seq(OutPacket)
    BY <1>2 DEF TypeOK
  <2>3. ASSUME out # <<>>
        PROVE  /\ OneEach(Tail(out), "CONNECT")
               /\ \A x : Has(Tail(out), "CONNECT", x) => Has(out, "CONNECT", x)
               /\ Head(out).type = "CONNECT" =>
                    ~ Has(Tail(out), "CONNECT", Head(out).conn) /\ Has(out, "CONNECT", Head(out).conn)
    BY <2>1, <2>2, <2>3, HasHead
  <2>4. ASSUME in # <<>>
        PROVE  /\ OneEach(Tail(in), "CONNECTED")
               /\ \A x : Has(Tail(in), "CONNECTED", x) => Has(in, "CONNECTED", x)
               /\ OneEach(Append(Tail(in), Head(in)), "CONNECTED")
               /\ \A x : Has(Append(Tail(in), Head(in)), "CONNECTED", x) => Has(in, "CONNECTED", x)
    BY <2>1, <2>2, <2>4, HasHead, HasMoved
  <2>5. ASSUME NEW e
        PROVE  /\ \A x : Has(Append(in, e), "CONNECTED", x) <=>
                           Has(in, "CONNECTED", x) \/ (e.type = "CONNECTED" /\ e.conn = x)
               /\ (e.type = "CONNECTED" => ~ Has(in, "CONNECTED", e.conn))
                    => OneEach(Append(in, e), "CONNECTED")
    BY <2>1, <2>2, HasAppend
  <2>6. ASSUME NEW e
        PROVE  /\ \A x : Has(Append(out, e), "CONNECT", x) <=>
                           Has(out, "CONNECT", x) \/ (e.type = "CONNECT" /\ e.conn = x)
               /\ (e.type = "CONNECT" => ~ Has(out, "CONNECT", e.conn))
                    => OneEach(Append(out, e), "CONNECT")
    BY <2>1, <2>2, HasAppend
  <2>7. ASSUME NEW r \in Reqs, NEW c \in Objects, NEW s \in CnnState, HandleOpen(r, c, s)
        PROVE  ~ Has(out, "CONNECT", nextId) /\ ~ Has(in, "CONNECTED", nextId)
    <3>1. nextId \notin 0..opens
      BY <1>2, <2>7, NewId
    <3> QED
      BY <1>2, <2>0, <3>1 DEF IdsKnown
  <2> DEFINE Goal == /\ OneEach(out', "CONNECT") /\ OneEach(in', "CONNECTED")
                     /\ \A x : ~ (Has(out', "CONNECT", x) /\ Has(in', "CONNECTED", x))
  <2>8. UNCHANGED <<in, out>> => Goal
    BY <2>1
  <2>9. in # <<>> /\ in' = Tail(in) /\ out' = out => Goal
    BY <2>1, <2>4
  <2>10. ASSUME in # <<>>, in' = Tail(in),
                NEW e, out' = Append(out, e), e.type = "NO_CONNECTION"
         PROVE  Goal
    BY <2>1, <2>4, <2>6, <2>10
  <2>11. ASSUME in' = in, NEW e, out' = Append(out, e), e.type = "CONNECT", e.conn = nextId,
                \E r \in Reqs, c \in Objects, s \in CnnState : HandleOpen(r, c, s)
         PROVE  Goal
    BY <2>1, <2>6, <2>7, <2>11
  <2>12. ASSUME in' = in, NEW e, out' = Append(out, e), e.type \in {"DISCONNECT", "DATA"}
         PROVE  Goal
    BY <2>1, <2>6, <2>12
  <2>13. out # <<>> /\ out' = Tail(out) /\ in' = in => Goal
    BY <2>1, <2>3
  <2>14. ASSUME out # <<>>, out' = Tail(out), NEW e, in' = Append(in, e), e.conn = Head(out).conn,
                Head(out).type = "CONNECT"
         PROVE  Goal
    BY <2>1, <2>3, <2>5, <2>14
  <2>15. ASSUME out # <<>>, out' = Tail(out), NEW e, in' = Append(in, e), e.type = "DISCONNECTED"
         PROVE  Goal
    BY <2>1, <2>3, <2>5, <2>15
  <2>16. ASSUME out' = out, NEW e, in' = Append(in, e), e.type \in {"DATA", "DISCONNECTED"}
         PROVE  Goal
    BY <2>1, <2>5, <2>16
  <2>17. in # <<>> /\ in' = Append(Tail(in), Head(in)) /\ out' = out => Goal
    BY <2>1, <2>4
  <2>18. NetStep
    BY <1>2, NetSteps
  <2> HIDE DEF Goal
  <2>19. Goal
    BY <2>8, <2>9, <2>10, <2>11, <2>12, <2>13, <2>14, <2>15, <2>16, <2>17, <2>18 DEF NetStep
  <2> QED
    BY <2>19 DEF Goal
<1> QED
  BY <1>1, <1>2, TypeCorrect, IdInvCorrect, IdsKnownCorrect, PTL DEF Spec

-----------------------------------------------------------------------------
(* A queue with an OPEN holds nothing else.                                *)

\* A request on a queue keeps its fields' connection, too.
LEMMA ConnKept ==
    ASSUME TypeOK, OneOwner, [Next]_vars, NEW x \in Reqs,
           where[x] = "server", where'[x] = "server", ~ OnPort(x)
    PROVE  req'[x].conn = req[x].conn
<1>1. CASE ClientStep
  <2>1. ASSUME NEW y \in Reqs, NEW type, NEW id, NEW len, NEW timeout,
               PutMsg(y, type, id, len, timeout)
        PROVE  req'[x] = req[x]
    BY <2>1, PutRequest
  <2>2. ASSUME NEW y \in Reqs, TakeBack(y) PROVE req'[x] = req[x]
    BY <2>2, TakenBack
  <2>3. ASSUME NEW k \in Clients, OpenConnection(k) \/ CloseConnection(k) \/ FreeConnection(k)
        PROVE  req'[x] = req[x]
    <3>1. <<k, Ctl>> \in Reqs
      BY ControlRequests
    <3>2. req' = req \/ \E type, id, len, timeout : PutMsg(<<k, Ctl>>, type, id, len, timeout)
      BY <2>3 DEF OpenConnection, CloseConnection, FreeConnection
    <3> QED
      BY <2>1, <3>1, <3>2
  <2>4. ASSUME NEW k \in Clients, NEW s \in Slots, NEW len, NEW timeout,
               Read(k, s, len, timeout) \/ Write(k, s)
        PROVE  req'[x] = req[x]
    BY <2>1, <2>4, ControlRequests DEF Read, Write
  <2>5. ASSUME NEW r \in Reqs, GetReply(r) \/ Abort(r) PROVE req'[x] = req[x]
    BY <2>2, <2>5 DEF GetReply, Abort
  <2>6. req'[x] = req[x]
    BY <1>1, <2>3, <2>4, <2>5 DEF ClientStep
  <2> QED
    BY <2>6
<1>2. CASE ServerStep
  <2>1. \A c, s : ~ HandleOpen(x, c, s)
    BY ServersOwn DEF HandleOpen
  <2> QED
    BY <1>2, <2>1, ServerSteps DEF Served
<1>3. CASE UNCHANGED vars
  BY <1>3 DEF vars
<1> QED
  BY <1>1, <1>2, <1>3 DEF Next, ServerStep

\* Until the counter has wrapped, a connection whose OPEN still waits has no
\* other request: no client knows its id before the OPEN is answered.
OpenAlone ==
    opens < IdMod =>
        \A c \in Objects : HasOpen(c) =>
            Len(reqs[c]) = 1 /\ req[reqs[c][1]].conn = cnn[c].id /\ cnn[c].id # 0

LEMMA OpenAloneCorrect == Spec => []OpenAlone
<1>1. Init => OpenAlone
  BY DEF Init, OpenAlone, HasOpen
<1>2. ASSUME TypeOK, TypeOK', OneOwner, OneOwner', Manners, OpensFirst, IdInv, OneHolder,
             OpenAlone, [Next]_vars
      PROVE  OpenAlone'
  <2> SUFFICES ASSUME opens' < IdMod, NEW c \in Objects, HasOpen(c)'
               PROVE  /\ Len(reqs'[c]) = 1 /\ req'[reqs'[c][1]].conn = cnn'[c].id
                      /\ cnn'[c].id # 0
    BY DEF OpenAlone
  <2>0. reqs[c] \in Seq(Reqs) /\ reqs'[c] \in Seq(Reqs)
    BY <1>2 DEF TypeOK
  <2>1. opens < IdMod /\ opens \in Nat
    BY <1>2, OpensGrow, ConnectionsAssumption
  <2>2. CASE \E r \in Reqs, s \in CnnState : HandleOpen(r, c, s)
    <3>1. PICK r \in Reqs, s \in CnnState : HandleOpen(r, c, s)
      BY <2>2
    <3>2. cnn'[c].id = nextId /\ nextId \notin 0..opens
      BY <1>2, <3>1, NewId
    <3>3. reqs'[c] = <<r>> /\ req'[r].conn = nextId
      BY <1>2, <3>1, OpenGivesId
    <3>4. nextId # 0
      BY <2>1, <3>2
    <3> QED
      BY <3>2, <3>3, <3>4
  <2>3. CASE ~ \E r \in Reqs, s \in CnnState : HandleOpen(r, c, s)
    <3>1. HasOpen(c)
      BY <1>2, <2>3, OpenWasThere
    <3>2. Len(reqs[c]) = 1 /\ req[reqs[c][1]].conn = cnn[c].id /\ cnn[c].id # 0
      BY <1>2, <2>1, <3>1 DEF OpenAlone
    <3>3. DOMAIN reqs[c] = {1}
      BY <2>0, <3>2
    <3> DEFINE z == reqs[c][1]
    <3>4. z \in Reqs /\ where[z] = "server" /\ req[z].type = "OPEN" /\ ~ OnPort(z)
      <4>1. 1 \in DOMAIN reqs[c]
        BY <3>3
      <4>2. req[z].type = "OPEN"
        BY <3>1, <3>3 DEF HasOpen
      <4> QED
        BY <1>2, <4>1, <4>2, ServersOwn
    <3>5. cnn'[c].id = cnn[c].id
      <4>1. ~ HandleConnected(c)
        BY <1>2, OpenAnswered DEF HandleConnected
      <4>2. reqs'[c] # <<>>
        BY DEF HasOpen
      <4> QED
        BY <1>2, <2>3, <4>1, <4>2, CnnSteps DEF Quiet
    <3>6. Advances(reqs'[c], reqs[c])
      <4>1. ASSUME NEW r \in Reqs, HandleRead(r, c) PROVE FALSE
        <5>1. req[r].type = "READ" /\ where[r] = "server" /\ req[r].conn = cnn[c].id
          BY <1>2, <4>1, ServersOwn DEF HandleRead, GetMsg, FindConnection
        <5> DEFINE k == z[1]
                   l == r[1]
        <5>2. k \in Clients /\ l \in Clients /\ z = <<k, z[2]>>
          BY <3>4, ControlRequests
        <5>3. phase[k] = "opening" /\ z[2] = Ctl
          BY <1>2, <3>4 DEF Manners
        <5>4. phase[l] # "opening" /\ connId[l] = cnn[c].id
          BY <1>2, <5>1 DEF Manners
        <5>5. IdOf(k) = cnn[c].id /\ IdOf(l) = cnn[c].id
          BY <3>2, <5>2, <5>3, <5>4 DEF IdOf
        <5>6. k = l
          BY <1>2, <2>1, <3>2, <5>2, <5>5 DEF OneHolder
        <5> QED
          BY <5>3, <5>4, <5>6
      <4> QED
        BY <1>2, <2>3, <4>1, QueueMoves
    <3>7. PICK i \in DOMAIN reqs'[c] : req'[reqs'[c][i]].type = "OPEN"
      BY DEF HasOpen
    <3>8. \A j \in DOMAIN reqs'[c] : j = 1 /\ reqs'[c][j] = z
      <4>1. \A j \in DOMAIN reqs'[c] : j <= 1 /\ reqs'[c][j] = z
        BY <3>3, <3>6 DEF Advances
      <4>2. \A j \in DOMAIN reqs'[c] : j \in Nat /\ j >= 1
        BY <2>0
      <4> QED
        BY <4>1, <4>2
    <3>9. Len(reqs'[c]) = 1 /\ reqs'[c][1] = z
      <4> DEFINE v == reqs'[c]
      <4>1. /\ v \in Seq(Reqs) /\ 1 \in DOMAIN v /\ v[1] = z
            /\ \A j \in DOMAIN v : j = 1
        BY <2>0, <3>7, <3>8
      <4> HIDE DEF v
      <4>2. Len(v) \in Nat /\ DOMAIN v = 1..Len(v)
        BY <4>1
      <4>3. Len(v) \in DOMAIN v
        BY <4>1, <4>2
      <4> QED
        BY <4>1, <4>3 DEF v
    <3>10. where'[z] = "server"
      BY <1>2, <3>7, <3>8 DEF OneOwner
    <3>11. req'[z].conn = req[z].conn
      BY <1>2, <3>4, <3>10, ConnKept
    <3> HIDE DEF z
    <3>12. req[z].conn = cnn[c].id
      BY <3>2 DEF z
    <3> QED
      BY <3>2, <3>5, <3>9, <3>11, <3>12
  <2> QED
    BY <2>2, <2>3
<1> QED
  BY <1>1, <1>2, TypeCorrect, Ownership, MannersCorrect, OpensFirstCorrect, IdInvCorrect,
     OneHolderCorrect, PTL DEF Spec

-----------------------------------------------------------------------------
(* No READ is left waiting beside data.                                    *)

\* APB_PushToClient goes on until one of the two queues is empty.
LEMMA PushDrains ==
    ASSUME TypeOK, NEW c \in Objects, NEW q \in Seq(Queued), NEW w \in Seq(Reqs), NEW rq, NEW used,
           PushToClient(c, q, w, rq, used), CanPush(c)
    PROVE  packets'[c] = <<>> \/ reqs'[c] = <<>>
<1>1. PICK n \in 0..Len(w) : \E d \in [0..n -> 0..Len(q)] : PushResult(c, q, w, rq, used, n, d)
  BY DEF PushToClient, PushResult
<1>2. PICK d \in [0..n -> 0..Len(q)] : PushResult(c, q, w, rq, used, n, d)
  BY <1>1
<1>3. /\ n = Len(w) \/ d[n] = Len(q)
      /\ packets'[c] = SubSeq(q, d[n] + 1, Len(q))
      /\ reqs'[c] = SubSeq(w, n + 1, Len(w))
  BY <1>2 DEF PushResult, PushLoop, LoopEnds, TypeOK
<1>4. \A S : \A s \in Seq(S) : SubSeq(s, Len(s) + 1, Len(s)) = <<>>
  OBVIOUS
<1> QED
  BY <1>3, <1>4

\* The open of k's connection succeeded, whether or not k has noticed.
Opened(k) ==
    \/ phase[k] = "open"
    \/ phase[k] = "opening" /\ where[<<k, Ctl>>] = "replied" /\ req[<<k, Ctl>>].state = "OK"

\* An open succeeds by CONNECTED and no other way.
LEMMA OpenedSteps ==
    ASSUME TypeOK, OneOwner, Manners, OpenUnreached, opens < IdMod, [Next]_vars,
           NEW k \in Clients, Opened(k)'
    PROVE  /\ IdOf(k)' = IdOf(k)
           /\ \/ Opened(k)
              \/ /\ phase[k] = "opening" /\ req[<<k, Ctl>>].type = "OPEN"
                 /\ \E c \in Objects : HandleConnected(c) /\ OnQueue(<<k, Ctl>>, c)
<1> DEFINE z == <<k, Ctl>>
           Arrives == /\ phase[k] = "opening" /\ req[z].type = "OPEN"
                      /\ \E c \in Objects : HandleConnected(c) /\ OnQueue(z, c)
<1>0. z \in Reqs /\ /\ phase \in [Clients -> {"idle", "opening", "open", "failed", "closing"}]
                    /\ connId \in [Clients -> 0..(IdMod-1)]
  BY ControlRequests DEF TypeOK
<1>1. ASSUME phase'[k] = phase[k], connId'[k] = connId[k],
             phase'[k] # "open" => req'[z] = req[z] /\ where'[z] = where[z]
      PROVE  IdOf(k)' = IdOf(k) /\ Opened(k)
  BY <1>1 DEF IdOf, Opened
<1>2. CASE ServerStep
  <2>1. phase' = phase /\ connId' = connId /\ Served(z)
    BY <1>0, <1>2, ServerSteps
  <2>2. CASE phase[k] = "open"
    BY <1>1, <2>1, <2>2
  <2>3. CASE phase[k] # "open"
    <3>1. phase[k] = "opening" /\ where'[z] = "replied" /\ req'[z].state = "OK"
      BY <2>1, <2>3 DEF Opened
    <3>2. z[1] = k /\ z[2] = Ctl
      OBVIOUS
    <3>3. req[z].type = "OPEN" /\ where[z] # "client"
      BY <1>0, <1>2, <3>1, <3>2 DEF Manners
    <3>4. ~ Bothered(z)
      <4> SUFFICES ASSUME NEW c \in Objects, OnQueue(z, c), CanPush(c),
                          packets[c] # <<>> \/ HandleData(c)
                   PROVE  FALSE
        BY DEF Bothered
      <4>1. HasOpen(c)
        BY <3>3 DEF HasOpen, OnQueue
      <4>2. packets[c] = <<>> /\ \A t : Has(in, t, cnn[c].id) => t = "DISCONNECTED"
        BY <4>1 DEF OpenUnreached
      <4>3. HandleData(c)
        BY <4>2
      <4>4. Has(in, Head(in).type, Head(in).conn)
        BY <4>3, InHas DEF HandleData, GetPacket
      <4>5. Head(in).conn = cnn[c].id /\ Head(in).type \in {"DATA", "ERROR"}
        BY <4>3 DEF HandleData, GetPacket, FindConnection
      <4> QED
        BY <4>2, <4>4, <4>5
    <3> HIDE DEF z
    <3>5. \/ req'[z] = req[z] /\ where'[z] = where[z]
          \/ where[z] = "server" /\ \E c \in Objects : HandleConnected(c) /\ OnQueue(z, c)
      BY <1>0, <1>2, <3>1, <3>3, <3>4, OpenReplies
    <3>6. CASE req'[z] = req[z] /\ where'[z] = where[z]
      BY <1>1, <2>1, <3>6
    <3>7. CASE where[z] = "server" /\ \E c \in Objects : HandleConnected(c) /\ OnQueue(z, c)
      <4>1. req'[z].conn = req[z].conn
        <5>1. PICK c \in Objects : HandleConnected(c) /\ OnQueue(z, c)
          BY <3>7
        <5>2. ~ OnPort(z)
          BY <5>1, ServersOwn DEF OnQueue
        <5>3. \A e, s : ~ HandleOpen(z, e, s)
          BY <5>2, ServersOwn DEF HandleOpen
        <5> QED
          BY <2>1, <5>3 DEF Served
      <4>2. IdOf(k)' = IdOf(k)
        BY <2>1, <4>1 DEF IdOf, z
      <4> QED
        BY <3>1, <3>3, <3>7, <4>2 DEF z
    <3> QED
      BY <3>5, <3>6, <3>7
  <2> QED
    BY <2>2, <2>3
<1>3. CASE ClientStep
  <2>1. ASSUME NEW x \in Reqs, NEW type, NEW id, NEW len, NEW timeout,
               PutMsg(x, type, id, len, timeout)
        PROVE  IF x = z THEN where'[z] = "server" ELSE req'[z] = req[z] /\ where'[z] = where[z]
    BY <1>0, <2>1, PutRequest
  <2>2. ASSUME NEW x \in Reqs, TakeBack(x), x # z PROVE req'[z] = req[z] /\ where'[z] = where[z]
    BY <1>0, <2>2, TakenBack
  <2> DEFINE Goal == IdOf(k)' = IdOf(k) /\ Opened(k)
  <2>3. ASSUME NEW l \in Clients, OpenConnection(l) PROVE Goal
    <3>1. <<l, Ctl>> \in Reqs /\ PutMsg(<<l, Ctl>>, "OPEN", DEFAULT_CONNECTION, 0, CtlTimeout)
      BY <2>3, ControlRequests DEF OpenConnection
    <3>2. phase' = [phase EXCEPT ![l] = "opening"] /\ connId' = connId
      BY <2>3 DEF OpenConnection
    <3>3. l # k
      <4> SUFFICES ASSUME l = k PROVE FALSE
        OBVIOUS
      <4>1. where'[z] = "server" /\ phase'[k] = "opening"
        BY <1>0, <2>1, <3>1, <3>2
      <4> QED
        BY <4>1 DEF Opened
    <3>4. req'[z] = req[z] /\ where'[z] = where[z] /\ phase'[k] = phase[k]
      BY <1>0, <2>1, <3>1, <3>2, <3>3
    <3> QED
      BY <1>1, <3>2, <3>4
  <2>4. ASSUME NEW l \in Clients, CloseConnection(l) PROVE Goal
    <3>1. <<l, Ctl>> \in Reqs /\ PutMsg(<<l, Ctl>>, "CLOSE", connId[l], 0, CtlTimeout)
      BY <2>4, ControlRequests DEF CloseConnection
    <3>2. phase' = [phase EXCEPT ![l] = "closing"] /\ connId' = connId
      BY <2>4 DEF CloseConnection
    <3>3. l # k
      BY <1>0, <3>2 DEF Opened
    <3>4. req'[z] = req[z] /\ where'[z] = where[z] /\ phase'[k] = phase[k]
      BY <1>0, <2>1, <3>1, <3>2, <3>3
    <3> QED
      BY <1>1, <3>2, <3>4
  <2>5. ASSUME NEW l \in Clients, FreeConnection(l) PROVE Goal
    <3>1. /\ phase' = [phase EXCEPT ![l] = "idle"] /\ connId' = [connId EXCEPT ![l] = 0]
          /\ req' = req /\ where' = where
      BY <2>5 DEF FreeConnection
    <3>2. l # k
      BY <1>0, <3>1 DEF Opened
    <3> QED
      BY <1>0, <1>1, <3>1, <3>2
  <2>6. ASSUME NEW l \in Clients, NEW s \in Slots, NEW len, NEW timeout,
               Read(l, s, len, timeout) \/ Write(l, s)
        PROVE  Goal
    <3>1. /\ s # Ctl /\ phase' = phase /\ connId' = connId
          /\ \E type, id, n, t : PutMsg(<<l, s>>, type, id, n, t)
      BY <2>6 DEF Read, Write, clientVars
    <3>2. <<l, s>> # z /\ <<l, s>> \in Reqs
      BY <3>1, ControlRequests
    <3> QED
      BY <1>1, <2>1, <3>1, <3>2
  <2>7. ASSUME NEW x \in Reqs, GetReply(x) PROVE Goal
    <3>1. TakeBack(x) /\ where[x] = "replied"
      BY <2>7 DEF GetReply
    <3>2. CASE x = z
      <4>1. CASE req[x].type = "OPEN"
        <5>1. phase[k] = "opening"
          BY <1>0, <3>1, <3>2, <4>1 DEF Manners
        <5>2. /\ phase'[k] = IF req[x].state = "OK" THEN "open" ELSE "failed"
              /\ connId'[k] = req[x].conn
          BY <1>0, <2>7, <3>2, <4>1 DEF GetReply
        <5>3. req[x].state = "OK"
          BY <5>2 DEF Opened
        <5> QED
          BY <3>1, <3>2, <5>1, <5>2, <5>3 DEF IdOf, Opened
      <4>2. CASE req[x].type # "OPEN"
        <5>1. phase'[k] = "idle"
          BY <1>0, <2>7, <3>2, <4>2 DEF GetReply
        <5> QED
          BY <5>1 DEF Opened
      <4> QED
        BY <4>1, <4>2
    <3>3. CASE x # z
      <4>1. phase'[k] = phase[k] /\ connId'[k] = connId[k]
        <5>1. x[2] = Ctl => x[1] # k
          BY <3>3, ControlRequests
        <5> QED
          BY <1>0, <2>7, <5>1 DEF GetReply
      <4> QED
        BY <1>1, <2>2, <3>1, <3>3, <4>1
    <3> QED
      BY <3>2, <3>3
  <2>8. ASSUME NEW x \in Reqs, Abort(x) PROVE Goal
    <3>1. TakeBack(x) /\ phase' = phase /\ connId' = connId /\ x # z
      BY <2>8 DEF Abort, clientVars
    <3> QED
      BY <1>1, <2>2, <3>1
  <2> HIDE DEF Goal
  <2>9. Goal
    BY <1>3, <2>3, <2>4, <2>5, <2>6, <2>7, <2>8 DEF ClientStep
  <2> QED
    BY <2>9 DEF Goal
<1>4. CASE UNCHANGED vars
  BY <1>1, <1>4 DEF vars, clientVars
<1> QED
  BY <1>2, <1>3, <1>4 DEF Next, ServerStep

\* Until the counter has wrapped: once a client's open has succeeded, no
\* CONNECTED for its connection can come any more, and of the two queues of
\* the connection one is empty.
OpenedSettled ==
    opens < IdMod =>
        \A k \in Clients : Opened(k) =>
            /\ IdOf(k) # 0
            /\ ~ Has(out, "CONNECT", IdOf(k)) /\ ~ Has(in, "CONNECTED", IdOf(k))
            /\ \A c \in Objects : cnn[c].id = IdOf(k) /\ CanPush(c)
                  => packets[c] = <<>> \/ reqs[c] = <<>>

\* What a step does to the queues of a connection that is and stays CONNECTED.
LEMMA SettledStays ==
    ASSUME TypeOK, TypeOK', [Next]_vars, NEW c \in Objects,
           CanPush(c)', ~ HandleConnected(c),
           \A r \in Reqs, s \in CnnState : ~ HandleOpen(r, c, s)
    PROVE  /\ cnn'[c].id = cnn[c].id /\ CanPush(c)
           /\ packets[c] = <<>> \/ reqs[c] = <<>> => packets'[c] = <<>> \/ reqs'[c] = <<>>
<1>0. /\ reqs[c] \in Seq(Reqs) /\ packets[c] \in Seq(Queued) /\ reqs'[c] \in Seq(Reqs)
      /\ req \in [Reqs -> Request]
  BY DEF TypeOK
<1>1. cnn'[c] = cnn[c] /\ (Quiet(c) \/ HandleData(c) \/ \E r \in Reqs : HandleRead(r, c))
  BY CnnSteps DEF Quiet, CanPush
<1>2. CanPush(c)
  BY <1>1 DEF CanPush
<1>3. CASE Quiet(c)
  <2>1. ASSUME reqs[c] = <<>> PROVE reqs'[c] = <<>>
    <3> DEFINE v == reqs'[c]
    <3>1. v \in Seq(Reqs) /\ \A j \in DOMAIN v : FALSE
      BY <1>0, <1>3, <2>1 DEF Quiet, Advances
    <3> HIDE DEF v
    <3>2. Len(v) \in Nat /\ DOMAIN v = 1..Len(v)
      BY <3>1
    <3>3. ~ (Len(v) > 0)
      BY <3>1, <3>2
    <3>4. v = <<>>
      BY <3>1, <3>2, <3>3
    <3> QED
      BY <3>4 DEF v
  <2> QED
    BY <1>1, <1>2, <1>3, <2>1 DEF Quiet
<1>4. CASE HandleData(c)
  <2> DEFINE q == AddPacket(packets[c], [sn |-> kept + 1, len |-> Head(in).len])
  <2>1. PushToClient(c, q, reqs[c], req, Hold)
    BY <1>2, <1>4 DEF HandleData, CanPush, CS_CONNECTED, CS_DISCONNECTING
  <2>2. q \in Seq(Queued)
    BY <1>4, DataQueued DEF HandleData, GetPacket
  <2> HIDE DEF q
  <2>3. packets'[c] = <<>> \/ reqs'[c] = <<>>
    BY <1>0, <1>2, <2>1, <2>2, PushDrains
  <2> QED
    BY <1>1, <1>2, <2>3
<1>5. ASSUME NEW r \in Reqs, HandleRead(r, c) PROVE packets'[c] = <<>> \/ reqs'[c] = <<>>
  <2> DEFINE w  == AddRequest(reqs[c], r)
             rq == [req EXCEPT ![r] = Accept(r, cnn[c].id)]
  <2>1. PushToClient(c, packets[c], w, rq, inUse)
    BY <1>5 DEF HandleRead
  <2>2. w \in Seq(Reqs)
    BY <1>0 DEF AddRequest
  <2> HIDE DEF w, rq
  <2> QED
    BY <1>0, <1>2, <2>1, <2>2, PushDrains
<1> QED
  BY <1>1, <1>2, <1>3, <1>4, <1>5

\* The CONNECTED that answers the open of client k.
LEMMA SettledArrives ==
    ASSUME TypeOK, TypeOK', OneOwner, OneOwner', OpensFirst, OpenAlone, OneToken, UniqueIds,
           BlankDead, opens < IdMod, [Next]_vars,
           NEW k \in Clients, phase[k] = "opening", req[<<k, Ctl>>].type = "OPEN",
           NEW e \in Objects, HandleConnected(e), OnQueue(<<k, Ctl>>, e)
    PROVE  /\ IdOf(k) # 0
           /\ ~ Has(out', "CONNECT", IdOf(k)) /\ ~ Has(in', "CONNECTED", IdOf(k))
           /\ \A c \in Objects : cnn'[c].id = IdOf(k) /\ CanPush(c)'
                  => packets'[c] = <<>> \/ reqs'[c] = <<>>
<1> DEFINE z == <<k, Ctl>>
           id == cnn[e].id
<1>0. reqs[e] \in Seq(Reqs) /\ reqs'[e] \in Seq(Reqs) /\ reqs \in [Objects -> Seq(Reqs)]
  BY DEF TypeOK
<1>1. HasOpen(e)
  BY DEF HasOpen, OnQueue
<1>2. Len(reqs[e]) = 1 /\ req[reqs[e][1]].conn = id /\ id # 0
  BY <1>1 DEF OpenAlone
<1>3. reqs[e][1] = z
  <2>1. PICK i \in DOMAIN reqs[e] : reqs[e][i] = z
    BY DEF OnQueue
  <2>2. i = 1
    BY <1>0, <1>2, <2>1
  <2> QED
    BY <2>1, <2>2
<1>4. IdOf(k) = id
  BY <1>2, <1>3 DEF IdOf
<1>5. in # <<>> /\ Head(in).type = "CONNECTED" /\ Head(in).conn = id /\ in' = Tail(in) /\ out' = out
  BY DEF HandleConnected, GetPacket, FindConnection
<1>6. /\ Has(in, "CONNECTED", id) /\ ~ Has(Tail(in), "CONNECTED", id)
  <2>1. in \in Seq(InPacket) /\ OneEach(in, "CONNECTED")
    BY DEF TypeOK, OneToken
  <2> HIDE DEF id
  <2> QED
    BY <1>5, <2>1, HasHead
<1>7. ~ Has(out, "CONNECT", id)
  BY <1>6 DEF OneToken
<1>8. reqs'[e] = <<>>
  <2>1. AnswerOpen(e, "OK")
    BY DEF HandleConnected
  <2>2. ~ HasOpen(e)'
    BY <2>1, OpenAnswered
  <2>3. \/ \E i \in DOMAIN reqs[e] : reqs' = [reqs EXCEPT ![e] = Unlink(@, i)]
        \/ UNCHANGED <<reqs, req>>
    BY <2>1 DEF AnswerOpen
  <2>4. ~ UNCHANGED <<reqs, req>>
    BY <1>1, <2>2 DEF HasOpen
  <2>5. PICK i \in DOMAIN reqs[e] : reqs' = [reqs EXCEPT ![e] = Unlink(@, i)]
    BY <2>3, <2>4
  <2> DEFINE v == reqs'[e]
  <2>6. v = Unlink(reqs[e], i)
    BY <1>0, <2>5
  <2>7. v \in Seq(Reqs) /\ Len(v) = 0
    BY <1>0, <1>2, <2>6, UnlinkSeq
  <2> HIDE DEF v
  <2>8. v = <<>>
    BY <2>7
  <2> QED
    BY <2>8 DEF v
<1>9. ASSUME NEW c \in Objects, cnn'[c].id = id PROVE c = e
  <2> SUFFICES ASSUME c # e PROVE FALSE
    OBVIOUS
  <2>1. cnn'[c] = cnn[c]
    BY DEF HandleConnected, TypeOK
  <2> QED
    BY <1>2, <1>9, <2>1, OneConnection
<1> HIDE DEF id
<1> QED
  BY <1>2, <1>4, <1>5, <1>6, <1>7, <1>8, <1>9

LEMMA SettledCorrect == Spec => []OpenedSettled
<1>1. Init => OpenedSettled
  BY DEF Init, OpenedSettled, Opened
<1>2. ASSUME TypeOK, TypeOK', OneOwner, OneOwner', Manners, OpensFirst, IdInv, IdsKnown, UniqueIds,
             BlankDead, OpenUnreached, OneHolder, OpenAlone, OneToken, OpenedSettled, [Next]_vars
      PROVE  OpenedSettled'
  <2> SUFFICES ASSUME opens' < IdMod, NEW k \in Clients, Opened(k)'
               PROVE  /\ IdOf(k)' # 0
                      /\ ~ Has(out', "CONNECT", IdOf(k)') /\ ~ Has(in', "CONNECTED", IdOf(k)')
                      /\ \A c \in Objects : cnn'[c].id = IdOf(k)' /\ CanPush(c)'
                            => packets'[c] = <<>> \/ reqs'[c] = <<>>
    BY DEF OpenedSettled, IdOf, Opened, Has, CanPush
  <2>1. opens < IdMod
    BY <1>2, OpensGrow, ConnectionsAssumption
  <2>2. IdOf(k)' = IdOf(k)
    BY <1>2, <2>1, OpenedSteps
  <2> DEFINE id == IdOf(k)
  <2>3. CASE Opened(k)
    <3>1. /\ id # 0 /\ ~ Has(out, "CONNECT", id) /\ ~ Has(in, "CONNECTED", id)
          /\ \A c \in Objects : cnn[c].id = id /\ CanPush(c) => packets[c] = <<>> \/ reqs[c] = <<>>
      BY <1>2, <2>1, <2>3 DEF OpenedSettled
    <3>2. id \in 0..opens
      BY <1>2, <2>1 DEF OneHolder
    <3>3. ASSUME NEW r \in Reqs, NEW e \in Objects, NEW s \in CnnState, HandleOpen(r, e, s)
          PROVE  nextId # id /\ cnn'[e].id = nextId
      BY <1>2, <3>2, <3>3, NewId
    <3> HIDE DEF id
    <3>4. ~ Has(in', "CONNECTED", id)
      BY <1>2, <3>1, NetOrigin
    <3>5. ~ Has(out', "CONNECT", id)
      BY <1>2, <3>1, <3>3, NetOrigin
    <3>6. ASSUME NEW c \in Objects, cnn'[c].id = id, CanPush(c)'
          PROVE  packets'[c] = <<>> \/ reqs'[c] = <<>>
      <4>1. \A r \in Reqs, s \in CnnState : ~ HandleOpen(r, c, s)
        BY <3>3, <3>6
      <4>2. ~ HandleConnected(c)
        <5> SUFFICES ASSUME HandleConnected(c) PROVE FALSE
          OBVIOUS
        <5>1. in # <<>> /\ Head(in).type = "CONNECTED" /\ Head(in).conn = cnn[c].id
          BY DEF HandleConnected, GetPacket, FindConnection
        <5>2. Has(in, "CONNECTED", cnn[c].id)
          BY <1>2, <5>1, InHas
        <5>3. cnn'[c].id = cnn[c].id
          <6>1. cnn[c] \in [id : 0..(IdMod-1), state : CnnState]
            BY <1>2 DEF TypeOK
          <6> QED
            BY <1>2, <6>1 DEF HandleConnected, TypeOK
        <5> QED
          BY <3>1, <3>6, <5>2, <5>3
      <4>3. /\ cnn'[c].id = cnn[c].id /\ CanPush(c)
            /\ packets[c] = <<>> \/ reqs[c] = <<>> => packets'[c] = <<>> \/ reqs'[c] = <<>>
        BY <1>2, <3>6, <4>1, <4>2, SettledStays
      <4> QED
        BY <3>1, <3>6, <4>3
    <3> QED
      BY <2>2, <3>1, <3>4, <3>5, <3>6 DEF id
  <2>4. ASSUME phase[k] = "opening", req[<<k, Ctl>>].type = "OPEN",
               NEW e \in Objects, HandleConnected(e), OnQueue(<<k, Ctl>>, e)
        PROVE  /\ id # 0 /\ ~ Has(out', "CONNECT", id) /\ ~ Has(in', "CONNECTED", id)
               /\ \A c \in Objects : cnn'[c].id = id /\ CanPush(c)'
                     => packets'[c] = <<>> \/ reqs'[c] = <<>>
    BY <1>2, <2>1, <2>4, SettledArrives
  <2>5. \/ Opened(k)
        \/ /\ phase[k] = "opening" /\ req[<<k, Ctl>>].type = "OPEN"
           /\ \E e \in Objects : HandleConnected(e) /\ OnQueue(<<k, Ctl>>, e)
    BY <1>2, <2>1, OpenedSteps
  <2> HIDE DEF id
  <2> QED
    BY <2>2, <2>3, <2>4, <2>5 DEF id
<1> QED
  BY <1>1, <1>2, TypeCorrect, Ownership, MannersCorrect, OpensFirstCorrect, IdInvCorrect,
     IdsKnownCorrect, IdsCorrect, BlankDeadCorrect, OpenUnreachedCorrect, OneHolderCorrect,
     OpenAloneCorrect, OneTokenCorrect, PTL DEF Spec

\* A client whose open succeeded never has a READ waiting on its connection
\* while data waits there too: APB_PushToClient is called whenever one of the
\* two arrives, and the one transition to CONNECTED that does not call it
\* finds no READ, since no client knows the id before the OPEN is answered.
THEOREM NoReadWaits == Spec => []NoReadLeftWaiting
<1>1. TypeOK /\ OpenedSettled => NoReadLeftWaiting
  <2> SUFFICES ASSUME TypeOK, OpenedSettled, opens < IdMod, NEW i \in DOMAIN cnnList, NEW k \in Clients,
                      phase[k] = "open", connId[k] = cnn[cnnList[i]].id,
                      cnn[cnnList[i]].state = CS_CONNECTED
               PROVE  packets[cnnList[i]] = <<>> \/ reqs[cnnList[i]] = <<>>
    BY DEF NoReadLeftWaiting
  <2>1. cnnList[i] \in Objects
    BY ElementOfSeq DEF TypeOK
  <2>2. Opened(k) /\ IdOf(k) = connId[k]
    BY DEF Opened, IdOf
  <2> QED
    BY <2>1, <2>2 DEF OpenedSettled, CanPush
<1> QED
  BY <1>1, SettledCorrect, TypeCorrect, PTL

=============================================================================
