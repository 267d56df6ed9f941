---------------------------- MODULE Connections ----------------------------
(***************************************************************************)
(* The server's connections: server/connection.c together with the         *)
(* dispatch of client requests and of connection packets in                *)
(* server/server.c, and the clients that call it through                   *)
(* amipiborg.library.                                                      *)
(*                                                                         *)
(* A request is an Exec message owned by a client.  It travels from the    *)
(* client to the server's public port, from there either straight back to  *)
(* the client's reply port or first onto the request queue of a            *)
(* connection.  Packets from the Pi wait on the packet queue of their      *)
(* connection until a READ takes them.  Each action below is one complete  *)
(* handler of the server (which is a single task), one library call of a   *)
(* client, or one step of the Pi or of the link.                           *)
(***************************************************************************)
EXTENDS Integers, SequencesExt

CONSTANTS
    Clients,      \* client tasks
    Slots,        \* the request objects of one client
    Ctl,          \* the slot Open/CloseConnection allocate their request in
    Careless,     \* the clients that go on with a connection whose open failed
    Objects,      \* the object pool of server connections
    NoReq,        \* "no request"
    IdMod,        \* 2^width of srv_NextConnId (a UWORD: 65536)
    CtlTimeout,   \* CNN_MSG_TIMEOUT
    Timeouts,     \* values clients put in r_Timeout of their I/O requests
    Lengths,      \* sizes of packets and of read buffers
    OutMax,       \* packets the packet writer can hold before alloc fails
    InMax,        \* bound: packets in flight from the Pi
    MaxOpens,     \* bound: no open is posted once so many were served
    MaxData       \* bound: unsolicited packets of the Pi

ASSUME ConnectionsAssumption ==
    /\ Ctl \in Slots /\ Careless \subseteq Clients
    /\ NoReq \notin Clients \X Slots
    /\ IdMod \in Nat /\ IdMod > 1
    /\ CtlTimeout \in Nat \ {0}
    /\ Timeouts \subseteq Nat
    /\ Lengths \subseteq Nat
    /\ OutMax \in Nat /\ InMax \in Nat /\ MaxOpens \in Nat /\ MaxData \in Nat

\* There are only so many tasks and request objects; BoundedDelay counts them.
ASSUME FiniteAssumption == IsFiniteSet(Clients \X Slots)

(* The connection states, in the order the comparisons of the code use.    *)
(* A freshly allocated connection has an arbitrary cnn_State: 0 and 6      *)
(* stand for the values below and above the enumeration.                   *)
CS_CONNECTING    == 1
CS_CONNECTED     == 2
CS_DISCONNECTING == 3
CS_DISCONNECTED  == 4
CS_NO_HANDLER    == 5
CnnState         == 0..6
NoCnn            == [id |-> 0, state |-> 0]

\* The id of control messages, which belong to no connection.
DEFAULT_CONNECTION == 0

Reqs == Clients \X Slots

ReqType  == {"OPEN", "CLOSE", "READ", "WRITE"}
ReqState == {"OK", "FAILED", "NOT_CONNECTED", "NO_HANDLER", "NO_CONNECTION",
             "BUFFER_TOO_SMALL", "TIMEOUT"}
PacketType == {"CONNECTED", "DISCONNECTED", "NO_HANDLER", "DATA", "ERROR"}
OutType    == {"CONNECT", "DISCONNECT", "DATA", "NO_CONNECTION"}

VARIABLES
    \* the server
    nextId,    \* srv_NextConnId
    opens,     \* number of ids handed out so far
    cnnList,   \* srv_Connections: the live connections in list order
    cnn,       \* cnn_Id and cnn_State of each connection object
    packets,   \* cnn_PacketQueue
    reqs,      \* cnn_ReqQueue
    out,       \* packets allocated in the packet writer, not yet on the wire
    inUse,     \* InPackets handed to the connections and not yet released
    kept,      \* number of packets kept so far; numbers them in arrival order
    \* the requests and the ports
    req,       \* the fields of struct APBRequest and ri_TimeoutTicks
    port,      \* the public port "AmiPiBorg"
    where,     \* who may touch the request
    \* the clients
    phase,     \* what the client is doing with its connection
    connId,    \* c_ConnId
    \* the Pi and the link to the Amiga
    in,        \* packets on their way to the Amiga
    piOpen,    \* connections a handler of the Pi is serving
    piSent,    \* number of unsolicited packets
    \* history
    accepted,  \* arrival numbers of the packets queued on the connection
    delivered, \* arrival numbers of the packets READs were answered with
    skipped    \* timer ticks in which a queued request was not counted down

serverVars  == <<nextId, opens, cnnList, cnn, packets, reqs>>
packetVars  == <<inUse, kept>>
clientVars  == <<phase, connId>>
remoteVars  == <<in, piOpen, piSent>>
historyVars == <<accepted, delivered, skipped>>

vars == <<serverVars, packetVars, out, req, port, where, clientVars,
          remoteVars, historyVars>>

-----------------------------------------------------------------------------

InPacket  == [type : PacketType, conn : 0..(IdMod-1), len : Nat]
OutPacket == [type : OutType, conn : 0..(IdMod-1), req : Reqs \cup {NoReq}]
Queued    == [sn : Nat, len : Nat]
Request   == [type : ReqType, conn : 0..(IdMod-1), len : Nat, timeout : Nat,
              ticks : Nat, state : ReqState, got : Nat]

\* A request its client has not filled in: of what the last use left there
\* only ri_TimeoutTicks, which is the server's, can matter again.
Unused(ticks) == [type |-> "OPEN", conn |-> 0, len |-> 0, timeout |-> 0,
                  ticks |-> ticks, state |-> "OK", got |-> 0]

TypeOK ==
    /\ nextId \in 0..(IdMod-1)
    /\ cnnList \in Seq(Objects)
    /\ cnn \in [Objects -> [id : 0..(IdMod-1), state : CnnState]]
    /\ packets \in [Objects -> Seq(Queued)]
    /\ reqs \in [Objects -> Seq(Reqs)]
    /\ out \in Seq(OutPacket)
    /\ inUse \subseteq Nat
    /\ kept \in Nat
    /\ req \in [Reqs -> Request]
    /\ port \in Seq(Reqs)
    /\ where \in [Reqs -> {"client", "server", "replied"}]
    /\ phase \in [Clients -> {"idle", "opening", "open", "failed", "closing"}]
    /\ connId \in [Clients -> 0..(IdMod-1)]
    /\ opens \in Nat
    /\ in \in Seq(InPacket)
    /\ piOpen \subseteq 0..(IdMod-1)
    /\ piSent \in Nat
    /\ accepted \in [Objects -> Seq(Nat)]
    /\ delivered \in [Objects -> Seq(Nat)]
    /\ skipped \in [Reqs -> Nat]

Init ==
    /\ nextId = 1
    /\ cnnList = <<>>
    /\ cnn = [c \in Objects |-> NoCnn]
    /\ packets = [c \in Objects |-> <<>>]
    /\ reqs = [c \in Objects |-> <<>>]
    /\ out = <<>>
    /\ inUse = {}
    /\ kept = 0
    /\ req = [r \in Reqs |-> Unused(0)]
    /\ port = <<>>
    /\ where = [r \in Reqs |-> "client"]
    /\ phase = [k \in Clients |-> "idle"]
    /\ connId = [k \in Clients |-> 0]
    /\ opens = 0
    /\ in = <<>>
    /\ piOpen = {}
    /\ piSent = 0
    /\ accepted = [c \in Objects |-> <<>>]
    /\ delivered = [c \in Objects |-> <<>>]
    /\ skipped = [r \in Reqs |-> 0]

-----------------------------------------------------------------------------
(* The clients: library/connection.c, io.c and request.c.                  *)

\* APB_PutMsg: the request moves to the server's public port.
PutMsg(r, type, id, len, timeout) ==
    /\ where[r] = "client"
    /\ where' = [where EXCEPT ![r] = "server"]
    /\ req' = [req EXCEPT ![r].type = type, ![r].conn = id, ![r].len = len,
                          ![r].timeout = timeout]
    /\ port' = Append(port, r)
    /\ UNCHANGED <<serverVars, packetVars, out, remoteVars, historyVars>>

TakeBack(r) ==
    /\ where' = [where EXCEPT ![r] = "client"]
    /\ req' = [req EXCEPT ![r] = Unused(req[r].ticks)]
    /\ skipped' = [skipped EXCEPT ![r] = 0]

OpenConnection(k) ==
    /\ phase[k] = "idle" /\ opens < MaxOpens
    /\ PutMsg(<<k, Ctl>>, "OPEN", DEFAULT_CONNECTION, 0, CtlTimeout)
    /\ phase' = [phase EXCEPT ![k] = "opening"]
    /\ UNCHANGED connId

\* The library does not ask whether the open succeeded before it closes,
\* reads or writes, and not every client does.
MayUse(k) == phase[k] = "open" \/ (phase[k] = "failed" /\ k \in Careless)

\* The documented precondition: no request is pending when a client closes.
CloseConnection(k) ==
    /\ MayUse(k)
    /\ \A s \in Slots : where[<<k, s>>] = "client"
    /\ PutMsg(<<k, Ctl>>, "CLOSE", connId[k], 0, CtlTimeout)
    /\ phase' = [phase EXCEPT ![k] = "closing"]
    /\ UNCHANGED connId

Read(k, s, len, timeout) ==
    /\ MayUse(k) /\ s # Ctl
    /\ PutMsg(<<k, s>>, "READ", connId[k], len, timeout)
    /\ UNCHANGED clientVars

Write(k, s) ==
    /\ MayUse(k) /\ s # Ctl
    /\ PutMsg(<<k, s>>, "WRITE", connId[k], 0, 0)
    /\ UNCHANGED clientVars

\* A client whose open failed may free its connection without closing it.
FreeConnection(k) ==
    /\ phase[k] = "failed"
    /\ \A s \in Slots : where[<<k, s>>] = "client"
    /\ phase' = [phase EXCEPT ![k] = "idle"]
    /\ connId' = [connId EXCEPT ![k] = 0]
    /\ UNCHANGED <<serverVars, packetVars, out, req, port, where, remoteVars, historyVars>>

\* GetMsg on the reply port.  For the control request this is the rest of
\* APB_OpenConnection, which takes over the id even of an open that failed,
\* or of APB_CloseConnection.
GetReply(r) ==
    LET k == r[1] IN
    /\ where[r] = "replied"
    /\ IF r[2] # Ctl THEN UNCHANGED <<phase, connId>>
       ELSE IF req[r].type = "OPEN"
            THEN /\ phase' = [phase EXCEPT ![k] = IF req[r].state = "OK" THEN "open" ELSE "failed"]
                 /\ connId' = [connId EXCEPT ![k] = req[r].conn]
            ELSE /\ phase' = [phase EXCEPT ![k] = "idle"]
                 /\ connId' = [connId EXCEPT ![k] = 0]
    /\ TakeBack(r)
    /\ UNCHANGED <<serverVars, packetVars, out, port, remoteVars, accepted, delivered>>

\* Variants of the operators below that a slip in the code would produce; no
\* action uses them.
UnlinkForgotten(w, i)  == w
AddRequestAtHead(w, r) == <<r>> \o w
AddPacketAtHead(q, p)  == <<p>> \o q
NextIdNotWrapped       == nextId + 1
NextIdNotAdvanced      == nextId
HoldForgotten          == inUse
ReleaseForgotten(c)    == inUse
PushUnguarded(c)       == TRUE
PushOnce(q, w, n, d)   == n = 1 \/ n = Len(w) \/ d[n] = Len(q)
CountDownStops(ticks)  == IF ticks > 2 THEN ticks - 1 ELSE ticks
NullNotChecked(id)     == FALSE

\* The lists a request can be found on, as APB_Abort's Remove sees them.
OnPort(r)     == \E i \in DOMAIN port : port[i] = r
OnQueue(r, c) == \E i \in DOMAIN reqs[c] : reqs[c][i] = r
IsLive(c)     == \E i \in DOMAIN cnnList : cnnList[i] = c

\* Remove() of a request from a port or a request queue.
Unlink(w, i) == RemoveAt(w, i)

\* APB_Abort takes the request off whatever list holds it, without a reply.
\* A request whose connection was destroyed under it is on no list; what
\* Remove does then is not modelled.
Abort(r) ==
    /\ r[2] # Ctl
    /\ \/ /\ where[r] = "replied"
          /\ UNCHANGED <<port, reqs>>
       \/ \E i \in DOMAIN port :
            /\ port[i] = r
            /\ port' = Unlink(port, i)
            /\ UNCHANGED reqs
       \/ \E c \in Objects : \E i \in DOMAIN reqs[c] :
            /\ reqs[c][i] = r
            /\ reqs' = [reqs EXCEPT ![c] = Unlink(@, i)]
            /\ UNCHANGED port
    /\ TakeBack(r)
    /\ UNCHANGED <<nextId, opens, cnnList, cnn, packets, packetVars, out, clientVars,
                   remoteVars, accepted, delivered>>

-----------------------------------------------------------------------------
(* The server.  An operation that adds a packet to the writer is given the *)
(* packet; when the writer is full the allocation fails and, as the code   *)
(* does, the operation logs an error and changes nothing.                  *)

HasRoom == Len(out) < OutMax

AllocPacket(type, id, r) ==
    out' = IF HasRoom THEN Append(out, [type |-> type, conn |-> id, req |-> r]) ELSE out

\* APB_FindConnection: the first connection of the list with that id.  Both
\* callers look for one only if the id is not that of control messages.
FindConnection(id, c) ==
    /\ id # DEFAULT_CONNECTION
    /\ \E i \in DOMAIN cnnList :
         /\ cnnList[i] = c /\ cnn[c].id = id
         /\ \A j \in 1..(i-1) : cnn[cnnList[j]].id # id

\* srv_NextConnId++ on a UWORD.
NextId == IF nextId + 1 = IdMod THEN 0 ELSE nextId + 1

NoConnection(id) ==
    /\ id # DEFAULT_CONNECTION
    /\ \A i \in DOMAIN cnnList : cnn[cnnList[i]].id # id

\* The fields APB_HandleClientRequest sets before it looks at the type.
\* ri_TimeoutTicks keeps its old value when r_Timeout is 0.
Accept(r, id) ==
    [req[r] EXCEPT !.state = "OK", !.got = 0, !.conn = id,
                   !.ticks = IF req[r].timeout > 0 THEN req[r].timeout ELSE @]

\* ReplyMsg with the request's final fields.
ReplyMsg(r, fields) ==
    /\ req' = [req EXCEPT ![r] = fields]
    /\ where' = [where EXCEPT ![r] = "replied"]

\* GetMsg on the public port, for a request of the given type.
GetMsg(r, type) ==
    /\ port # <<>> /\ r = Head(port) /\ req[r].type = type
    /\ port' = Tail(port)

(***************************************************************************)
(* APB_PushToClient on connection c, given its two queues q and w and the  *)
(* requests rq as the caller leaves them.  The loop of the code runs n     *)
(* times; d[i] is the number of packets the first i requests have taken.   *)
(* Every iteration answers one request: with the packet at the head of q   *)
(* if it fits, and otherwise with BUFFER_TOO_SMALL, the packet going back  *)
(* to the head.  It ends when either queue is empty.                       *)
(***************************************************************************)
\* The two AddTail calls.
AddRequest(w, r) == Append(w, r)
AddPacket(q, p)  == Append(q, p)

Fits(w, i, q, j, rq) == q[j].len <= rq[w[i]].len

LoopEnds(q, w, n, d) == n = Len(w) \/ d[n] = Len(q)

PushLoop(q, w, rq, n, d) ==
    /\ d[0] = 0
    /\ \A i \in 1..n :
         /\ d[i-1] < Len(q)
         /\ d[i] = IF Fits(w, i, q, d[i-1] + 1, rq) THEN d[i-1] + 1 ELSE d[i-1]
    /\ LoopEnds(q, w, n, d)

Answer(fields, q, from, to) ==
    IF to = from THEN [fields EXCEPT !.state = "BUFFER_TOO_SMALL", !.got = 0]
                 ELSE [fields EXCEPT !.state = "OK", !.got = q[to].sn]

\* What a run of the loop leaves behind.
PushResult(c, q, w, rq, used, n, d) ==
    /\ PushLoop(q, w, rq, n, d)
    /\ packets' = [packets EXCEPT ![c] = SubSeq(q, d[n] + 1, Len(q))]
    /\ reqs' = [reqs EXCEPT ![c] = SubSeq(w, n + 1, Len(w))]
    /\ req' = [r \in Reqs |->
                 IF \E i \in 1..n : w[i] = r
                 THEN LET i == CHOOSE i \in 1..n : w[i] = r
                      IN  Answer(rq[r], q, d[i-1], d[i])
                 ELSE rq[r]]
    /\ where' = [r \in Reqs |-> IF \E i \in 1..n : w[i] = r THEN "replied" ELSE where[r]]
    /\ inUse' = used \ {q[i].sn : i \in 1..d[n]}
    /\ delivered' = [delivered EXCEPT ![c] = @ \o [i \in 1..d[n] |-> q[i].sn]]

CanPush(c) == cnn[c].state = CS_CONNECTED

PushToClient(c, q, w, rq, used) ==
    IF ~ CanPush(c)
    THEN /\ packets' = [packets EXCEPT ![c] = q]
         /\ reqs' = [reqs EXCEPT ![c] = w]
         /\ req' = rq
         /\ inUse' = used
         /\ UNCHANGED <<where, delivered>>
    ELSE \E n \in 0..Len(w) : \E d \in [0..n -> 0..Len(q)] : PushResult(c, q, w, rq, used, n, d)

\* APB_HandleClientControlMessage, APB_RT_OPEN (the only control message that
\* concerns connections): APB_CreateConnection, then
\* APB_HandleClientRequest and APB_CnnConnect on the new connection, whose
\* cnn_State is whatever the memory held if no packet can be allocated.
HandleOpen(r, c, s) ==
    /\ GetMsg(r, "OPEN") /\ req[r].conn = DEFAULT_CONNECTION
    /\ ~ IsLive(c)
    /\ cnnList' = Append(cnnList, c)
    /\ cnn' = [cnn EXCEPT ![c] = [id |-> nextId, state |-> IF HasRoom THEN CS_CONNECTING ELSE s]]
    /\ nextId' = NextId /\ opens' = opens + 1
    /\ AllocPacket("CONNECT", nextId, NoReq)
    /\ packets' = [packets EXCEPT ![c] = <<>>]
    /\ reqs' = [reqs EXCEPT ![c] = <<r>>]
    /\ req' = [req EXCEPT ![r] = Accept(r, nextId)]
    /\ accepted' = [accepted EXCEPT ![c] = <<>>]
    /\ delivered' = [delivered EXCEPT ![c] = <<>>]
    /\ skipped' = [skipped EXCEPT ![r] = 0]
    /\ UNCHANGED <<packetVars, where, clientVars, remoteVars>>

\* APB_ReceiveFromClient: the request names a connection that is not there.
RejectRequest(r) ==
    /\ GetMsg(r, req[r].type) /\ req[r].type # "OPEN"
    /\ NoConnection(req[r].conn)
    /\ ReplyMsg(r, [req[r] EXCEPT !.state = "NO_CONNECTION"])
    /\ UNCHANGED <<serverVars, packetVars, out, clientVars, remoteVars, historyVars>>

\* APB_HandleClientControlMessage of a type it does not know: a request on
\* the id of control messages.
RefuseControl(r) ==
    /\ GetMsg(r, req[r].type) /\ req[r].type # "OPEN"
    /\ req[r].conn = DEFAULT_CONNECTION
    /\ ReplyMsg(r, [req[r] EXCEPT !.state = "FAILED"])
    /\ UNCHANGED <<serverVars, packetVars, out, clientVars, remoteVars, historyVars>>

HandleClose(r, c) ==
    /\ GetMsg(r, "CLOSE")
    /\ FindConnection(req[r].conn, c)
    /\ IF cnn[c].state < CS_DISCONNECTING
       THEN /\ AllocPacket("DISCONNECT", cnn[c].id, NoReq)
            /\ cnn' = [cnn EXCEPT ![c].state = IF HasRoom THEN CS_DISCONNECTING ELSE @]
       ELSE UNCHANGED <<out, cnn>>
    /\ ReplyMsg(r, Accept(r, cnn[c].id))
    /\ UNCHANGED <<nextId, opens, cnnList, packets, reqs, packetVars, clientVars, remoteVars,
                   historyVars>>

\* The state a READ or WRITE is refused with, if it is refused.
Refusal(c) ==
    CASE cnn[c].state \in {CS_DISCONNECTING, CS_DISCONNECTED} -> "NOT_CONNECTED"
      [] cnn[c].state = CS_NO_HANDLER -> "NO_HANDLER"
      [] OTHER -> "OK"

RefuseRequest(r, c) ==
    /\ GetMsg(r, req[r].type) /\ req[r].type \in {"READ", "WRITE"}
    /\ FindConnection(req[r].conn, c)
    /\ Refusal(c) # "OK"
    /\ ReplyMsg(r, [Accept(r, cnn[c].id) EXCEPT !.state = Refusal(c)])
    /\ UNCHANGED <<serverVars, packetVars, out, clientVars, remoteVars, historyVars>>

HandleRead(r, c) ==
    /\ GetMsg(r, "READ")
    /\ FindConnection(req[r].conn, c)
    /\ Refusal(c) = "OK"
    /\ PushToClient(c, packets[c], AddRequest(reqs[c], r),
                    [req EXCEPT ![r] = Accept(r, cnn[c].id)], inUse)
    /\ skipped' = [skipped EXCEPT ![r] = 0]
    /\ UNCHANGED <<nextId, opens, cnnList, cnn, kept, out, clientVars, remoteVars, accepted>>

\* APB_PushToRemote: the request is answered as soon as its data is copied.
HandleWrite(r, c) ==
    /\ GetMsg(r, "WRITE")
    /\ FindConnection(req[r].conn, c)
    /\ Refusal(c) = "OK"
    /\ AllocPacket("DATA", cnn[c].id, r)
    /\ ReplyMsg(r, [Accept(r, cnn[c].id) EXCEPT !.state = IF HasRoom THEN "OK" ELSE "FAILED"])
    /\ UNCHANGED <<serverVars, packetVars, clientVars, remoteVars, historyVars>>

-----------------------------------------------------------------------------
(* Packets from the Pi: APB_HandlePacket and APB_HandleConnectionPacket.   *)

GetPacket(type) ==
    /\ in # <<>> /\ Head(in).type = type
    /\ in' = Tail(in)
    /\ UNCHANGED <<nextId, opens, port, clientVars, piOpen, piSent, skipped>>

\* The packet is not released before the handler returns.
KeepPacket == kept' = kept + 1
Hold       == inUse \cup {kept + 1}

\* The first OPEN on the request queue of c is taken off and answered.
AnswerOpen(c, state) ==
    LET FirstOpen(i) == /\ req[reqs[c][i]].type = "OPEN"
                        /\ \A j \in 1..(i-1) : req[reqs[c][j]].type # "OPEN"
    IN  \/ \E i \in DOMAIN reqs[c] :
             /\ FirstOpen(i)
             /\ reqs' = [reqs EXCEPT ![c] = Unlink(@, i)]
             /\ ReplyMsg(reqs[c][i], [req[reqs[c][i]] EXCEPT !.state = state])
        \/ /\ \A i \in DOMAIN reqs[c] : ~ FirstOpen(i)
           /\ UNCHANGED <<reqs, req, where>>

HandleConnected(c) ==
    /\ GetPacket("CONNECTED")
    /\ FindConnection(Head(in).conn, c)
    /\ cnn' = [cnn EXCEPT ![c].state = CS_CONNECTED]
    /\ AnswerOpen(c, "OK")
    /\ UNCHANGED <<cnnList, packets, out, packetVars, accepted, delivered>>

\* The packet itself is not released.
HandleNoHandler(c) ==
    /\ GetPacket("NO_HANDLER")
    /\ FindConnection(Head(in).conn, c)
    /\ cnn' = [cnn EXCEPT ![c].state = CS_NO_HANDLER]
    /\ AnswerOpen(c, "NO_HANDLER")
    /\ KeepPacket /\ inUse' = Hold
    /\ UNCHANGED <<cnnList, packets, out, accepted, delivered>>

ReleaseQueue(c) == inUse \ {packets[c][i].sn : i \in DOMAIN packets[c]}

\* APB_DestroyConnection: the queued packets are released; the queued
\* requests are not answered and are on no list any more.
HandleDisconnected(c) ==
    /\ GetPacket("DISCONNECTED")
    /\ FindConnection(Head(in).conn, c)
    /\ cnn' = [cnn EXCEPT ![c] = NoCnn]
    /\ inUse' = ReleaseQueue(c)
    /\ packets' = [packets EXCEPT ![c] = <<>>]
    /\ reqs' = [reqs EXCEPT ![c] = <<>>]
    /\ \E i \in DOMAIN cnnList : cnnList[i] = c /\ cnnList' = RemoveAt(cnnList, i)
    /\ accepted' = [accepted EXCEPT ![c] = <<>>]
    /\ delivered' = [delivered EXCEPT ![c] = <<>>]
    /\ UNCHANGED <<out, req, where, kept>>

\* Every other type is data, an Error packet too.
HandleData(c) ==
    /\ GetPacket("DATA") \/ GetPacket("ERROR")
    /\ FindConnection(Head(in).conn, c)
    /\ IF cnn[c].state >= CS_DISCONNECTING
       THEN UNCHANGED <<packets, reqs, req, where, packetVars, accepted, delivered>>
       ELSE /\ KeepPacket
            /\ accepted' = [accepted EXCEPT ![c] = Append(@, kept + 1)]
            /\ PushToClient(c, AddPacket(packets[c], [sn |-> kept + 1, len |-> Head(in).len]),
                            reqs[c], req, Hold)
    /\ UNCHANGED <<cnnList, cnn, out>>

UnknownConnection ==
    /\ \E t \in PacketType : GetPacket(t)
    /\ NoConnection(Head(in).conn)
    /\ AllocPacket("NO_CONNECTION", Head(in).conn, NoReq)
    /\ UNCHANGED <<cnnList, cnn, packets, reqs, req, where, packetVars, accepted, delivered>>

\* APB_HandleControlPacket releases a packet with the id of control messages
\* whatever its type; the type matters to none of the connections.
HandleControlPacket ==
    /\ \E t \in PacketType : GetPacket(t)
    /\ Head(in).conn = DEFAULT_CONNECTION
    /\ UNCHANGED <<cnnList, cnn, packets, out, reqs, req, where, packetVars, accepted, delivered>>

(***************************************************************************)
(* APB_CheckRequestTimeouts, once per timer tick while the server is       *)
(* connected.  The scan of a queue goes on through ln_Succ of the request  *)
(* it has just replied to, which by then is the last node of the client's  *)
(* reply port: it ends there, and the requests behind are not looked at.   *)
(***************************************************************************)
Reached(c, i) == \A j \in 1..(i-1) : req[reqs[c][j]].ticks # 1
Expires(c, i) == Reached(c, i) /\ req[reqs[c][i]].ticks = 1

ScanReaches(r) == \E c \in Objects : \E i \in DOMAIN reqs[c] : reqs[c][i] = r /\ Reached(c, i)
ScanSkips(r) ==
    /\ req[r].ticks > 0
    /\ \E c \in Objects : \E i \in DOMAIN reqs[c] : reqs[c][i] = r /\ ~ Reached(c, i)

CountDown(ticks) == IF ticks > 1 THEN ticks - 1 ELSE ticks

CheckRequestTimeouts ==
    /\ req' = [r \in Reqs |->
                 IF ScanReaches(r)
                 THEN IF req[r].ticks = 1 THEN [req[r] EXCEPT !.state = "TIMEOUT"]
                      ELSE [req[r] EXCEPT !.ticks = CountDown(@)]
                 ELSE req[r]]
    /\ where' = [r \in Reqs |-> IF ScanReaches(r) /\ req[r].ticks = 1
                                THEN "replied" ELSE where[r]]
    /\ reqs' = [c \in Objects |->
                  IF \E i \in DOMAIN reqs[c] : Expires(c, i)
                  THEN Unlink(reqs[c], CHOOSE i \in DOMAIN reqs[c] : Expires(c, i))
                  ELSE reqs[c]]
    /\ skipped' = [r \in Reqs |-> IF ScanSkips(r) THEN skipped[r] + 1 ELSE skipped[r]]
    /\ UNCHANGED <<nextId, opens, cnnList, cnn, packets, packetVars, out, port, clientVars,
                   remoteVars, accepted, delivered>>

-----------------------------------------------------------------------------
(* The Pi and the link, as far as the protocol in README.md tells: a       *)
(* Connect is answered with Connected, NoHandler or Error, a Disconnect    *)
(* with Disconnected; a handler may send data and may close.  Packets can  *)
(* be lost in both directions, and one lost on the way to the Amiga can be *)
(* sent again behind the packets that followed it.                         *)

amigaVars == <<serverVars, packetVars, req, port, where, clientVars, historyVars>>

ToAmiga(type, id, len) ==
    /\ Len(in) < InMax
    /\ in' = Append(in, [type |-> type, conn |-> id, len |-> len])

PiAnswerConnect ==
    /\ out # <<>> /\ Head(out).type = "CONNECT"
    /\ out' = Tail(out)
    /\ \/ ToAmiga("CONNECTED", Head(out).conn, 0) /\ piOpen' = piOpen \cup {Head(out).conn}
       \/ ToAmiga("NO_HANDLER", Head(out).conn, 0) /\ UNCHANGED piOpen
       \/ ToAmiga("ERROR", Head(out).conn, 1) /\ UNCHANGED piOpen
    /\ UNCHANGED <<amigaVars, piSent>>

PiAnswerDisconnect ==
    /\ out # <<>> /\ Head(out).type = "DISCONNECT"
    /\ out' = Tail(out)
    /\ ToAmiga("DISCONNECTED", Head(out).conn, 0)
    /\ piOpen' = piOpen \ {Head(out).conn}
    /\ UNCHANGED <<amigaVars, piSent>>

\* A data packet reaches its handler, or any packet is lost on the way.
LeaveAmiga ==
    /\ out # <<>>
    /\ out' = Tail(out)
    /\ UNCHANGED <<amigaVars, remoteVars>>

PiSend(id, len) ==
    /\ id \in piOpen /\ piSent < MaxData
    /\ ToAmiga("DATA", id, len)
    /\ piSent' = piSent + 1
    /\ UNCHANGED <<amigaVars, out, piOpen>>

PiClose(id) ==
    /\ id \in piOpen /\ piSent < MaxData
    /\ ToAmiga("DISCONNECTED", id, 0)
    /\ piOpen' = piOpen \ {id}
    /\ piSent' = piSent + 1
    /\ UNCHANGED <<amigaVars, out>>

LosePacket ==
    /\ in # <<>>
    /\ in' = Tail(in)
    /\ UNCHANGED <<amigaVars, out, piOpen, piSent>>

ResendPacket ==
    /\ Len(in) > 1
    /\ in' = Append(Tail(in), Head(in))
    /\ UNCHANGED <<amigaVars, out, piOpen, piSent>>

-----------------------------------------------------------------------------

ClientStep ==
    \/ \E k \in Clients : OpenConnection(k) \/ CloseConnection(k) \/ FreeConnection(k)
    \/ \E k \in Clients, s \in Slots :
         \/ \E len \in Lengths, timeout \in Timeouts : Read(k, s, len, timeout)
         \/ Write(k, s)
    \/ \E r \in Reqs : GetReply(r) \/ Abort(r)

HandleRequest ==
    \E r \in Reqs :
        \/ RejectRequest(r) \/ RefuseControl(r)
        \/ \E c \in Objects :
             \/ \E s \in CnnState : HandleOpen(r, c, s)
             \/ HandleClose(r, c) \/ RefuseRequest(r, c)
             \/ HandleRead(r, c) \/ HandleWrite(r, c)

HandlePacket ==
    \/ UnknownConnection \/ HandleControlPacket
    \/ \E c \in Objects :
         \/ HandleConnected(c) \/ HandleNoHandler(c) \/ HandleDisconnected(c)
         \/ HandleData(c)

PiStep ==
    \/ PiAnswerConnect \/ PiAnswerDisconnect \/ LeaveAmiga
    \/ LosePacket \/ ResendPacket
    \/ \E id \in piOpen : PiClose(id) \/ \E len \in Lengths : PiSend(id, len)

Next == ClientStep \/ HandleRequest \/ HandlePacket \/ CheckRequestTimeouts \/ PiStep

Spec == Init /\ [][Next]_vars

\* The server task takes what is on its port and on the line.  It owes no
\* time-out scan: APB_HandleTimer makes it in SS_CONNECTED only, and only
\* while the timer is sent again.
Fairness == WF_vars(HandleRequest) /\ WF_vars(HandlePacket)

FairSpec == Spec /\ Fairness

-----------------------------------------------------------------------------
(* Properties.                                                             *)

SerialsOf(q) == [i \in DOMAIN q |-> q[i].sn]
Waiting(r)   == \E c \in Objects : OnQueue(r, c)

\* A request is a node of at most one Exec list, and of none that the server
\* walks once it belongs to the client again: every path through
\* APB_HandleClientRequest, APB_PushToClient, the timeout scan and the
\* answers to CONNECTED/NO_HANDLER unlinks a request exactly when it replies.
OneOwner ==
    /\ \A i \in DOMAIN port : where[port[i]] = "server"
    /\ \A c \in Objects : \A i \in DOMAIN reqs[c] : where[reqs[c][i]] = "server"
    /\ \A i, j \in DOMAIN port : port[i] = port[j] => i = j
    /\ \A c, e \in Objects : \A i \in DOMAIN reqs[c], j \in DOMAIN reqs[e] :
         reqs[c][i] = reqs[e][j] => c = e /\ i = j
    /\ \A c \in Objects : \A i \in DOMAIN reqs[c], j \in DOMAIN port : reqs[c][i] # port[j]

\* What a connection accepted from the Pi is handed to READs in the order it
\* arrived, nothing skipped and nothing twice, however READs that are too
\* small, time-outs and aborts interleave with it (APB_PushToClient puts a
\* packet that did not fit back at the head of the queue).
StreamIntact ==
    \A c \in Objects :
        accepted[c] = delivered[c] \o SerialsOf(packets[c])

\* A packet on a connection's queue still owns its piece of the read buffer
\* (APB_ReleaseInPacket has not been called for it), and no packet is on two
\* queues.
QueuedInUse ==
    /\ \A c \in Objects : \A i \in DOMAIN packets[c] : packets[c][i].sn \in inUse
    /\ \A c, e \in Objects : \A i \in DOMAIN packets[c], j \in DOMAIN packets[e] :
         packets[c][i].sn = packets[e][j].sn => c = e /\ i = j

\* Packets in use that no connection will ever release.
Stranded == {sn \in inUse : \A c \in Objects : \A i \in DOMAIN packets[c] : packets[c][i].sn # sn}

\* No step strands a packet, destroying a connection included, but the one
\* APB_HandleConnectionPacket has for NO_HANDLER.
StrandsOnlyNoHandler ==
    [][Stranded' \subseteq Stranded \/ (in # <<>> /\ Head(in).type = "NO_HANDLER" /\ in' = Tail(in))]_vars

\* The connection of a client whose open succeeded never holds both data and
\* a READ waiting for data: whichever comes second triggers APB_PushToClient,
\* and a CONNECTED packet, which does not, never finds such a pair.  (It can
\* when a client ignores that its open timed out, and once srv_NextConnId has
\* wrapped and the client's id is that of another connection too.)
NoReadLeftWaiting ==
    opens < IdMod =>
        \A i \in DOMAIN cnnList, k \in Clients : LET c == cnnList[i] IN
            phase[k] = "open" /\ connId[k] = cnn[c].id /\ cnn[c].state = CS_CONNECTED
                => packets[c] = <<>> \/ reqs[c] = <<>>

\* Until srv_NextConnId has wrapped, data is only ever given to READs: the OPEN
\* that waits on the same queue is gone before APB_PushToClient may pop it.
\* (Afterwards a new connection can have the id of one the Pi still serves.)
OpenTakesNoData ==
    opens < IdMod =>
        \A r \in Reqs : where[r] = "replied" /\ req[r].type = "OPEN"
            => req[r].state \in {"OK", "NO_HANDLER", "TIMEOUT"} /\ req[r].got = 0

\* Until srv_NextConnId has wrapped, ids identify connections and none is the
\* id of control messages, so APB_FindConnection finds the right one.
UniqueIds ==
    opens < IdMod =>
        \A i, j \in DOMAIN cnnList :
            /\ cnn[cnnList[i]].id # 0
            /\ cnn[cnnList[i]].id = cnn[cnnList[j]].id => i = j

\* The scan misses a queued request in some ticks, but never in more of them
\* than there are requests: in each such tick one ahead of it leaves.
BoundedDelay ==
    \A c \in Objects : \A i \in DOMAIN reqs[c] :
        skipped[reqs[c][i]] + i <= Cardinality(Reqs)

\* The server stays connected with its timer running, so the scan is made
\* again and again.  Module ServerTimeouts says when that is so.
TimerServed == WF_vars(CheckRequestTimeouts)

\* While the ticks go on, a queued request with a time-out leaves its queue,
\* answered or taken off, although the scan may miss it in some of them.
TimeoutFires ==
    TimerServed => \A r \in Reqs : (Waiting(r) /\ req[r].ticks > 0) ~> ~ Waiting(r)

\* Whatever connection a request names, the live one, one that has been
\* destroyed since or none, APB_ReceiveFromClient gets it off the port.
PortServed == \A r \in Reqs : OnPort(r) ~> ~ OnPort(r)

-----------------------------------------------------------------------------
(* What the documentation says and the code does not do.                   *)

\* README.md: a Read is returned when data has been received or it times out,
\* so one the server has is always somewhere it can be answered from.
NoReadLost ==
    \A r \in Reqs : where[r] = "server" /\ req[r].type = "READ" => OnPort(r) \/ Waiting(r)

=============================================================================
