------------------------------- MODULE ApbFs -------------------------------
(***************************************************************************)
(* ApbFs, the file system client (clients/ApbFs): an AmigaDOS handler that *)
(* turns the DOS packets of its volumes into requests to the Pi, all over  *)
(* one connection, and answers the packets from the Pi's responses.        *)
(*                                                                         *)
(* The handler is one process: a step of it is the handling of one message.*)
(* Programs that send packets, the server and the Pi run in between.       *)
(*                                                                         *)
(* DOS packets of the same control flow have one type here:                *)
(*   LOCATE_OBJECT  also PARENT, PARENT_FH                                 *)
(*   INFO           every packet answered from one response without more   *)
(*                  ado: DISK_INFO, FIND..., EXAMINE..., SEEK, ...         *)
(*   IS_FILESYSTEM  every packet answered without asking the Pi: SET_...,  *)
(*                  CURRENT_VOLUME, EXAMINE_OBJECT of the root, unknown    *)
(* Names, data and sizes are left out, save the number of requests a WRITE *)
(* needs.  Requests with and without data share one pool here.             *)
(***************************************************************************)
EXTENDS Integers, SequencesExt

CONSTANTS
    Pkts,        \* DOS packets
    Vols,        \* ids of volumes
    Types,       \* types of packets that are sent
    Chunks,      \* numbers of requests of a WRITE
    MaxReqs,     \* maximum of OT_REQUEST_MIN and OT_REQUEST_MAX, 100
    MaxLocks,    \* maximum of OT_LOCK, 100
    MaxSends,    \* bound: packets sent
    MaxParts,    \* bound: responses but the last to one READ
    MaxEvents    \* bound: mount and unmount messages of the Pi, volumes that cannot
                 \* be mounted, Ctrl-Cs, connections lost

PktTypes == {"LOCATE_OBJECT", "CREATE_DIR", "FREE_LOCK", "COPY_DIR", "INFO", "END", "READ",
             "WRITE", "FH_FROM_LOCK", "IS_FILESYSTEM"}

ASSUME ApbFsAssumption ==
    /\ Types \subseteq PktTypes /\ IsFiniteSet(Pkts)
    /\ Vols \subseteq Nat \ {0} /\ IsFiniteSet(Vols) /\ Vols # {}
    /\ MaxReqs \in Nat \ {0} /\ MaxLocks \in Nat /\ Chunks \subseteq Nat
    /\ MaxSends \in Nat /\ MaxParts \in Nat /\ MaxEvents \in Nat

VARIABLES
    \* programs
    at,         \* where a packet is
    pkt,        \* struct DosPacket; root: its lock has fl_Key = 0
    own,        \* locks in the hands of programs, by volume and whether fl_Key = 0
    \* struct ApbFs and its volumes
    vols,       \* fs_Vols
    mounted,    \* v_Mounted
    lockCount,  \* v_LockCount
    locks,      \* objects of type OT_LOCK in use
    port,       \* v_Port
    q,          \* fs_Reqs, fs_SentReqs, fs_Writer, fs_WriteReady; again: a request has been
                \* taken off its list twice
    remotePort, \* fs_RemotePort
    resp,       \* what is in fs_ReadBuf
    reading,    \* fs_Reader is with the server
    pc,         \* FS_Run runs, or how it has ended
    sig,        \* signals of the process
    got,        \* the local sig of FS_Run, as far as it is to be looked at
    \* server and Pi
    connected,  \* the connection has not been lost
    piReqs,     \* requests on their way to the Pi
    parts,      \* responses to the READ at the head of piReqs
    \* history
    sends, events,
    remounted,  \* volumes mounted again
    leaked,     \* locks no program has and the handler has not freed
    missed      \* a volume's signal was taken and not looked at

pktVars == <<at, pkt, port>>
lockVars == <<own, lockCount, locks, leaked>>
volVars == <<vols, mounted, remounted>>
lineVars == <<connected, piReqs, parts>>
readVars == <<resp, reading, remotePort>>
runVars == <<sig, got, missed>>
boundVars == <<sends, events>>
vars == <<pktVars, lockVars, volVars, lineVars, readVars, q, pc, runVars, boundVars>>

-----------------------------------------------------------------------------
(* Exec lists: the nodes are the requests and the two list headers.        *)

Ids == 1..MaxReqs
REQ == 0
SENT == -1
Nodes == Ids \cup {REQ, SENT}

AddTail(l, h, n) ==
    [succ |-> [l.succ EXCEPT ![l.pred[h]] = n, ![n] = h],
     pred |-> [l.pred EXCEPT ![n] = l.pred[h], ![h] = n]]

\* A node keeps its own links.
Unlink(l, n) ==
    [succ |-> [l.succ EXCEPT ![l.pred[n]] = l.succ[n]],
     pred |-> [l.pred EXCEPT ![l.succ[n]] = l.pred[n]]]

\* The list at h links the nodes of S and no others.
Links(l, h, S) == \A n \in S \cup {h} : l.succ[n] \in S \cup {h} /\ l.pred[l.succ[n]] = n

-----------------------------------------------------------------------------
(* Requests.  st tells whether a request is on fs_Reqs, on fs_SentReqs, or *)
(* has been answered; an orphan's packet has been given back.              *)

Request == [pkt : Pkts, type : PktTypes, left : Nat,
            st : {"queued", "sent", "done"}, orphan : BOOLEAN]

In(st) == {i \in DOMAIN q.reqs : q.reqs[i].st = st}

\* fs_Reqs links the requests that wait.  If it did not, nothing would be said
\* of what the handler does.
Linked == Links(q.links, REQ, In("queued"))

FreeIds(s) == Ids \ DOMAIN s.reqs

\* A bug for TLC: the request sent stays on fs_Reqs.
SendHead(s) ==
    LET n == s.links.succ[REQ]
    IN  IF n = REQ THEN s
        ELSE [s EXCEPT !.links = AddTail(s.links, SENT, n), !.reqs[n].st = "sent",
                       !.writer = n, !.ready = FALSE]

FS_SendReq(s) ==
    LET n == s.links.succ[REQ]
    IN  IF n = REQ THEN s
        ELSE [s EXCEPT !.links = AddTail(Unlink(s.links, n), SENT, n), !.reqs[n].st = "sent",
                       !.writer = n, !.ready = FALSE]

\* FS_AllocRequest and FS_EnqueueRequest.
Enqueue(s, r) ==
    LET n == Min(FreeIds(s))
        t == [s EXCEPT !.links = AddTail(s.links, REQ, n),
                       !.reqs = [i \in DOMAIN s.reqs \cup {n} |-> IF i = n THEN r ELSE s.reqs[i]]]
    IN  IF s.ready THEN FS_SendReq(t) ELSE t

\* FS_FreeRequest; what the links of a free request are does not matter.
FreeRequest(s, n) ==
    [s EXCEPT !.reqs = Restrict(s.reqs, DOMAIN s.reqs \ {n}),
              !.links.succ[n] = n, !.links.pred[n] = n]

NoPacket == [type |-> "INFO", vol |-> CHOOSE v \in Vols : TRUE, root |-> FALSE, chunks |-> 0]

\* The packet goes back to its sender; its other requests are orphans.
Orphaned(s, p) ==
    [s EXCEPT !.reqs = [i \in DOMAIN s.reqs |->
                           [s.reqs[i] EXCEPT !.orphan = @ \/ s.reqs[i].pkt = p]]]

\* What the program does with it is not the handler's business.
ReplyToDosPacket(p) ==
    /\ at' = [at EXCEPT ![p] = "client"]
    /\ pkt' = [pkt EXCEPT ![p] = NoPacket]

\* Signal bits; those of the volumes' ports are their ids.
REMOTE == 0
BREAK == -1

NoMsg == [key |-> "none"]

-----------------------------------------------------------------------------
Init ==
    /\ at = [p \in Pkts |-> "client"]
    /\ pkt = [p \in Pkts |-> NoPacket]
    /\ own = [v \in Vols |-> [r \in BOOLEAN |-> 0]]
    /\ vols = <<>> /\ mounted = {} /\ remounted = {}
    /\ lockCount = [v \in Vols |-> 0] /\ leaked = lockCount /\ locks = 0
    /\ port = [v \in Vols |-> <<>>]
    /\ q = [links |-> [succ |-> [n \in Nodes |-> n], pred |-> [n \in Nodes |-> n]],
            reqs |-> <<>>, writer |-> 0, ready |-> TRUE, again |-> FALSE]
    /\ remotePort = <<>> /\ resp = NoMsg /\ reading = TRUE
    /\ pc = "run" /\ sig = {} /\ got = {} /\ missed = FALSE
    /\ connected = TRUE /\ piReqs = <<>> /\ parts = 0
    /\ sends = 0 /\ events = 0

\* FS_FreeDevice, or a write through NULL, is the end.
Running == pc = "run"

-----------------------------------------------------------------------------
(* Programs.                                                               *)

NeedsLock(type) == type \in {"FREE_LOCK", "FH_FROM_LOCK"}

\* A program sends a packet, no matter which, to a volume's port.  The lock of
\* FREE_LOCK and FH_FROM_LOCK is out of its hands until the answer.
Send(type, v, root, chunks) ==
    LET free == {p \in Pkts : at[p] = "client"}
        p == CHOOSE p \in free : TRUE
    IN
    /\ Running /\ free # {} /\ sends < MaxSends
    /\ chunks > 0 => type = "WRITE"
    /\ root => type \in {"FREE_LOCK", "COPY_DIR"}
    /\ NeedsLock(type) => own[v][root] > 0
    /\ type = "COPY_DIR" /\ ~ root => own[v][FALSE] > 0
    /\ own' = IF NeedsLock(type) THEN [own EXCEPT ![v][root] = @ - 1] ELSE own
    /\ pkt' = [pkt EXCEPT ![p] = [type |-> type, vol |-> v, root |-> root, chunks |-> chunks]]
    /\ at' = [at EXCEPT ![p] = "port"]
    /\ port' = [port EXCEPT ![v] = Append(@, p)]
    /\ sig' = sig \cup {v}
    /\ sends' = sends + 1
    /\ UNCHANGED <<lockCount, locks, leaked, volVars, lineVars, readVars, q, pc, got, missed,
                   events>>

Happens == events < MaxEvents /\ events' = events + 1

Break ==
    /\ Running /\ Happens
    /\ sig' = sig \cup {BREAK}
    /\ UNCHANGED <<pktVars, lockVars, volVars, lineVars, readVars, q, pc, got, missed, sends>>

-----------------------------------------------------------------------------
(* FS_Run.                                                                 *)

\* A pass begins with the signals that have come; got is what of them is still
\* to be looked at: first one volume's, then the remote port's, then Ctrl-C.
Wait ==
    /\ Running /\ got = {} /\ sig # {}
    /\ got' = sig /\ sig' = {}
    /\ missed' = (missed \/ Cardinality(sig \cap Vols) > 1)
    /\ UNCHANGED <<pktVars, lockVars, volVars, lineVars, readVars, q, pc, boundVars>>

\* The first volume of fs_Vols whose signal has come: the only one looked at.
Looks(v) ==
    LET signalled == SelectSeq(vols, LAMBDA w : w \in got)
    IN  signalled # <<>> /\ v = Head(signalled)

LooksAtRemote == got \cap Vols = {} /\ REMOTE \in got

\* The loop of FS_ReceiveDosMessage ends.
NoMoreDos ==
    /\ Running /\ \E v \in Vols : Looks(v) /\ port[v] = <<>>
    /\ got' = got \ Vols
    /\ UNCHANGED <<pktVars, lockVars, volVars, lineVars, readVars, q, pc, sig, missed, boundVars>>

\* The loop of FS_ReceiveFromRemote ends.
NoMoreRemote ==
    /\ Running /\ LooksAtRemote /\ remotePort = <<>>
    /\ got' = got \ {REMOTE}
    /\ UNCHANGED <<pktVars, lockVars, volVars, lineVars, readVars, q, pc, sig, missed, boundVars>>

FS_CanQuit == \A v \in ToSet(vols) : lockCount[v] <= 0

\* The volumes go, and packets that are still with the handler are forgotten.
FS_FreeDevice == pc' = "stopped" /\ vols' = <<>> /\ mounted' = {}

\* With Ctrl-C the loop ends unless a volume has locks.
BreakSeen ==
    /\ Running /\ got = {BREAK} /\ got' = {}
    /\ IF FS_CanQuit THEN FS_FreeDevice ELSE UNCHANGED <<pc, vols, mounted>>
    /\ UNCHANGED <<pktVars, lockVars, remounted, lineVars, readVars, q, sig, missed, boundVars>>

-----------------------------------------------------------------------------
(* FS_HandlePacket.                                                        *)

\* The handler takes packet p off the port of v.
GetDosPacket(p, v) ==
    /\ Running /\ port[v] # <<>> /\ p = Head(port[v]) /\ Looks(v)
    /\ Linked
    /\ port' = [port EXCEPT ![v] = Tail(@)]
    /\ UNCHANGED <<volVars, lineVars, readVars, runVars, boundVars>>

\* FS_ActionFreeLock asks the Pi for a lock with a key, on an unmounted volume
\* too.
FreesAtPi(p) == pkt[p].type = "FREE_LOCK" /\ ~ pkt[p].root

\* Packets answered at once; the lock with key 0 of FREE_LOCK is not freed.
ReplyAtOnce(p, v) ==
    /\ GetDosPacket(p, v)
    /\ ~ FreesAtPi(p)
    /\ v \in mounted => pkt[p].type = "IS_FILESYSTEM" \/ (pkt[p].type = "FREE_LOCK" /\ pkt[p].root)
    /\ ReplyToDosPacket(p)
    /\ leaked' = IF pkt[p].type = "FREE_LOCK" THEN [leaked EXCEPT ![v] = @ + 1] ELSE leaked
    /\ own' = IF pkt[p].type = "FH_FROM_LOCK" THEN [own EXCEPT ![v][FALSE] = @ + 1] ELSE own
    /\ UNCHANGED <<lockCount, locks, q, pc>>

\* A bug for TLC: locks without a maximum.
AllocLockUnbounded(v, root) ==
    /\ locks' = locks + 1
    /\ lockCount' = [lockCount EXCEPT ![v] = @ + 1]
    /\ own' = [own EXCEPT ![v][root] = @ + 1]
    /\ UNCHANGED leaked

\* FS_AllocLock for a lock that a program gets.
FS_AllocLock(v, root) ==
    /\ locks < MaxLocks
    /\ locks' = locks + 1
    /\ lockCount' = [lockCount EXCEPT ![v] = @ + 1]
    /\ own' = [own EXCEPT ![v][root] = @ + 1]
    /\ UNCHANGED leaked

\* FS_ActionCopyDir.
ActionCopyDir(p, v) ==
    /\ GetDosPacket(p, v)
    /\ v \in mounted /\ pkt[p].type = "COPY_DIR"
    /\ \/ FS_AllocLock(v, pkt[p].root)
       \/ locks = MaxLocks /\ UNCHANGED lockVars
    /\ ReplyToDosPacket(p)
    /\ UNCHANGED <<q, pc>>

OneRequest(p) ==
    [pkt |-> p, type |-> pkt[p].type, st |-> "queued", orphan |-> FALSE, left |-> 0]

\* FS_ActionWrite; left is r_Arg3, what is still to be written after a request.
WriteRequests(p) ==
    [i \in 1..pkt[p].chunks |-> [OneRequest(p) EXCEPT !.left = pkt[p].chunks - i]]

\* The requests a packet needs.
Asked(p) == IF pkt[p].type = "WRITE" THEN WriteRequests(p) ELSE <<OneRequest(p)>>

Asks(p, v) ==
    \/ FreesAtPi(p)
    \/ v \in mounted /\ pkt[p].type \notin {"IS_FILESYSTEM", "COPY_DIR", "FREE_LOCK"}

\* A bug for TLC: FH_FROM_LOCK too is answered while its request is enqueued.
RepliesTooTwo(p) == pkt[p].type \in {"END", "FH_FROM_LOCK"}

RepliesToo(p) == pkt[p].type = "END"

\* FS_Action...: the requests are enqueued.  END is answered at once too.
Ask(p, v) ==
    /\ GetDosPacket(p, v) /\ Asks(p, v)
    /\ Len(Asked(p)) <= Cardinality(FreeIds(q))
    /\ LET s == FoldLeft(Enqueue, q, Asked(p))
       IN  IF RepliesToo(p)
           THEN ReplyToDosPacket(p) /\ q' = Orphaned(s, p)
           ELSE at' = [at EXCEPT ![p] = "handler"] /\ q' = s /\ UNCHANGED pkt
    /\ UNCHANGED <<lockVars, pc>>

\* The result of FS_AllocRequest is not checked: the handler writes through
\* NULL.
OutOfRequests(p, v) ==
    /\ GetDosPacket(p, v) /\ Asks(p, v)
    /\ Len(Asked(p)) > Cardinality(FreeIds(q))
    /\ pc' = "dead"
    /\ UNCHANGED <<at, pkt, lockVars, q>>

-----------------------------------------------------------------------------
(* The server and the Pi.                                                  *)

PostToRemotePort(m) ==
    /\ remotePort' = Append(remotePort, m)
    /\ sig' = sig \cup {REMOTE}

\* fs_Writer comes back; the request is on its way if there is a connection.
WriteDone ==
    /\ Running /\ q.writer # 0
    /\ piReqs' = IF connected THEN Append(piReqs, q.writer) ELSE piReqs
    /\ q' = [q EXCEPT !.writer = 0]
    /\ PostToRemotePort("writer")
    /\ UNCHANGED <<pktVars, lockVars, volVars, connected, parts, resp, reading, pc, got, missed,
                   boundVars>>

\* fs_Reader comes back with message m, or without one when the connection is
\* lost.
ReadDone(m) ==
    /\ Running /\ reading /\ reading' = FALSE /\ resp' = m
    /\ PostToRemotePort("reader")
    /\ UNCHANGED <<pktVars, lockVars, volVars, q, pc, got, missed, sends>>

\* r_Res2 of a response to a READ or WRITE: 0, -1 or an error.
More == 0
Final == -1
Error == 1

Results(r) ==
    CASE r.type = "READ"  -> {Final, Error} \cup (IF parts < MaxParts THEN {More} ELSE {})
      [] r.type = "WRITE" -> {IF r.left > 0 THEN More ELSE Final, Error}
      [] OTHER            -> {Final, Error}

\* The Pi answers the requests in turn; it may leave an END unanswered.
PiAnswers ==
    /\ connected /\ piReqs # <<>>
    /\ LET n == Head(piReqs)
       IN  \E res \in Results(q.reqs[n]) :
             /\ ReadDone([key |-> "request", req |-> n, res2 |-> res])
             /\ IF q.reqs[n].type = "READ" /\ res = More
                THEN parts' = parts + 1 /\ UNCHANGED piReqs
                ELSE parts' = 0 /\ piReqs' = Tail(piReqs)
    /\ UNCHANGED <<connected, events>>

PiSkipsEnd ==
    /\ Running /\ piReqs # <<>> /\ q.reqs[Head(piReqs)].type = "END"
    /\ piReqs' = Tail(piReqs)
    /\ UNCHANGED <<pktVars, lockVars, volVars, connected, parts, readVars, q, pc, runVars, boundVars>>

\* The Pi numbers its volumes one after the other.
PiMounts(key, v) ==
    /\ \A w \in 1..(v - 1) : w \in ToSet(vols)
    /\ connected /\ Happens
    /\ ReadDone([key |-> key, vol |-> v])
    /\ UNCHANGED lineVars

LoseConnection ==
    /\ connected /\ connected' = FALSE
    /\ Happens
    /\ ReadDone([key |-> "error"])
    /\ UNCHANGED <<piReqs, parts>>

-----------------------------------------------------------------------------
(* FS_ReceiveFromRemote.                                                   *)

GetRemoteMsg(m) ==
    /\ Running /\ remotePort # <<>> /\ m = Head(remotePort) /\ LooksAtRemote
    /\ Linked
    /\ remotePort' = Tail(remotePort)
    /\ UNCHANGED <<lineVars, runVars, sends>>

\* A bug for TLC: nothing is sent when the writer comes back.
SendNothing == [q EXCEPT !.ready = TRUE]

SendNext == FS_SendReq([q EXCEPT !.ready = TRUE])

WriterBack ==
    /\ GetRemoteMsg("writer")
    /\ q' = SendNext
    /\ UNCHANGED <<pktVars, lockVars, volVars, resp, reading, pc, events>>

\* After an error nothing is read any more.
ReaderError ==
    /\ GetRemoteMsg("reader") /\ resp.key = "error"
    /\ UNCHANGED <<pktVars, lockVars, volVars, resp, reading, q, pc, events>>

\* FS_ReceiveResponse reads on after it has handled the response.
Response(key) ==
    /\ GetRemoteMsg("reader") /\ resp.key = key
    /\ reading' = TRUE /\ resp' = NoMsg

WithVolume(v) == IF v \in ToSet(vols) THEN vols ELSE Append(vols, v)

\* FS_MountVolume sets v_LockCount, for a volume mounted again too.
FS_MountVolume(v) ==
    /\ mounted' = mounted \cup {v} /\ vols' = WithVolume(v)
    /\ lockCount' = [lockCount EXCEPT ![v] = 0]
    /\ remounted' = remounted \cup ({v} \cap ToSet(vols))
    /\ UNCHANGED events

\* When MakeDosEntry or AddDosEntry fails what FS_MountVolume and
\* FS_CreateDosDevice return is undefined: FS_CreateVolume may return a volume that
\* is not mounted.
MountFails(v) ==
    /\ Happens
    /\ vols' \in {vols, WithVolume(v)}
    /\ UNCHANGED <<mounted, lockCount, remounted>>

HandleMountVolume ==
    /\ Response("mount")
    /\ FS_MountVolume(resp.vol) \/ MountFails(resp.vol)
    /\ UNCHANGED <<pktVars, own, locks, leaked, q, pc>>

FS_UnmountVolume(v) == mounted' = mounted \ {v}

HandleUnmountVolume ==
    /\ Response("unmount") /\ FS_UnmountVolume(resp.vol)
    /\ UNCHANGED <<pktVars, lockVars, vols, remounted, q, pc, events>>

\* FS_ReceiveRemoteMessage for request n: the request leaves fs_SentReqs, from
\* which a READ answered before has already gone.
Answered(n) ==
    [q EXCEPT !.links = Unlink(@, n), !.reqs[n].st = "done",
              !.again = @ \/ q.reqs[n].st = "done"]

\* A response to a packet that has been given back is written into the packet,
\* and the packet is given back again, to whoever has it by then or to the
\* handler itself.  Nothing is said of what follows.
AnsweredTwice ==
    /\ Response("request") /\ q.reqs[resp.req].orphan
    /\ q' = Answered(resp.req) /\ pc' = "wild"
    /\ UNCHANGED <<pktVars, lockVars, volVars, events>>

\* The rest of a READ or WRITE is still to come.
AnsweredInPart ==
    /\ Response("request") /\ ~ q.reqs[resp.req].orphan
    /\ q.reqs[resp.req].type \in {"READ", "WRITE"} /\ resp.res2 = More
    /\ q' = Answered(resp.req)
    /\ UNCHANGED <<pktVars, lockVars, volVars, pc, events>>

\* A bug for TLC: v_LockCount is not counted down.
FreeLockUncounted(v) ==
    /\ locks' = locks - 1
    /\ UNCHANGED <<lockCount, own, leaked>>

\* FS_ActionFreeLockReply with FS_FreeLock.
FreeLockReply(v) ==
    /\ locks' = locks - 1
    /\ lockCount' = [lockCount EXCEPT ![v] = @ - 1]
    /\ UNCHANGED <<own, leaked>>

\* FS_ActionFHFromLockReply tries to free its file handle, not its lock.
FHFromLockReply(v, ok) ==
    /\ leaked' = IF ok THEN [leaked EXCEPT ![v] = @ + 1] ELSE leaked
    /\ own' = IF ok THEN own ELSE [own EXCEPT ![v][FALSE] = @ + 1]
    /\ UNCHANGED <<locks, lockCount>>

\* Without a free lock the packet fails.
LocateObjectReply(v, ok) ==
    IF ok /\ locks < MaxLocks THEN FS_AllocLock(v, FALSE) ELSE UNCHANGED lockVars

\* Replies that only fill in the packet and what it points to.
OtherReply == UNCHANGED lockVars

\* FS_ActionCreateDirReply writes into the lock also when there is none.
NoLockForDir(r) == r.type = "CREATE_DIR" /\ resp.res2 = Final /\ locks = MaxLocks

\* The packet is answered, and its request freed.
AnsweredWhole ==
    /\ Response("request") /\ ~ q.reqs[resp.req].orphan
    /\ LET n == resp.req
           r == q.reqs[n]
           v == pkt[r.pkt].vol
           ok == resp.res2 = Final
       IN  /\ r.type \in {"READ", "WRITE"} => resp.res2 # More
           /\ CASE r.type = "FREE_LOCK" -> FreeLockReply(v)
                [] r.type = "FH_FROM_LOCK" -> FHFromLockReply(v, ok)
                [] r.type \in {"LOCATE_OBJECT", "CREATE_DIR"} -> LocateObjectReply(v, ok)
                [] OTHER -> OtherReply
           /\ pc' = IF NoLockForDir(r) THEN "wild" ELSE pc
           /\ ReplyToDosPacket(r.pkt)
           /\ q' = FreeRequest(Orphaned(Answered(n), r.pkt), n)
    /\ UNCHANGED <<port, volVars, events>>

-----------------------------------------------------------------------------
Handler ==
    \/ Wait \/ NoMoreDos \/ NoMoreRemote \/ BreakSeen
    \/ \E v \in Vols : \E p \in ToSet(port[v]) :
          ReplyAtOnce(p, v) \/ ActionCopyDir(p, v) \/ Ask(p, v) \/ OutOfRequests(p, v)
    \/ WriterBack \/ ReaderError \/ HandleMountVolume \/ HandleUnmountVolume
    \/ AnsweredTwice \/ AnsweredInPart \/ AnsweredWhole

Environment ==
    \/ \E type \in Types, v \in ToSet(vols), root \in BOOLEAN, chunks \in Chunks \cup {0} :
          Send(type, v, root, chunks)
    \/ Break \/ PiSkipsEnd \/ LoseConnection
    \/ \E key \in {"mount", "unmount"}, v \in Vols : PiMounts(key, v)

Next == Handler \/ WriteDone \/ PiAnswers \/ Environment

Spec == Init /\ [][Next]_vars

\* The handler runs when it can, the server handles what is written, and the
\* Pi answers what it receives.
FairSpec == Spec /\ WF_vars(Handler) /\ WF_vars(WriteDone) /\ WF_vars(PiAnswers)

-----------------------------------------------------------------------------
(* Properties.                                                             *)

TypeOK ==
    /\ at \in [Pkts -> {"client", "port", "handler"}]
    /\ \A p \in Pkts : pkt[p] \in [type : PktTypes, vol : Vols, root : BOOLEAN, chunks : Chunks \cup {0}]
    /\ own \in [Vols -> [BOOLEAN -> Nat]] /\ leaked \in [Vols -> Nat]
    /\ lockCount \in [Vols -> Int] /\ locks \in 0..MaxLocks
    /\ vols \in Seq(Vols) /\ IsInjective(vols)
    /\ mounted \subseteq ToSet(vols) /\ remounted \subseteq Vols
    /\ port \in [Vols -> Seq(Pkts)]
    /\ q.links \in [succ : [Nodes -> Nodes], pred : [Nodes -> Nodes]]
    /\ DOMAIN q.reqs \subseteq Ids /\ Range(q.reqs) \subseteq Request
    /\ q.writer \in DOMAIN q.reqs \cup {0} /\ {q.ready, q.again} \subseteq BOOLEAN
    /\ remotePort \in Seq({"reader", "writer"}) /\ reading \in BOOLEAN
    /\ pc \in {"run", "stopped", "wild", "dead"}
    /\ sig \cup got \subseteq Vols \cup {REMOTE, BREAK}
    /\ ToSet(piReqs) \subseteq DOMAIN q.reqs

\* Locks of volume v that programs have, or have just given back.
Out(v) ==
    own[v][TRUE] + own[v][FALSE]
        + Cardinality({p \in Pkts : at[p] # "client" /\ pkt[p].vol = v /\ NeedsLock(pkt[p].type)})

\* Whatever the Pi, the programs and lock shortages do, every lock object is with
\* a program or in a packet that gives it back, except those that FREE_LOCK of a
\* null key and FH_FROM_LOCK leave behind; v_LockCount counts those of its volume;
\* and the handler does not stop while a program has a lock (device.c:268).
\* Neither holds of a volume that has been mounted again.
LocksKept ==
    /\ locks = FoldSet(LAMBDA v, n : n + Out(v) + leaked[v], 0, Vols)
    /\ \A v \in Vols \ remounted :
          /\ lockCount[v] = Out(v) + leaked[v]
          /\ pc = "stopped" => Out(v) = 0

\* A response to request i is still to come.
Expected(i) ==
    \/ q.reqs[i].st = "queued" \/ q.writer = i \/ i \in ToSet(piReqs) \/ ~ connected
    \/ resp.key = "request" /\ resp.req = i

\* There are requests for every packet at once.
Enough == \A n \in Chunks \cup {1} : n + Cardinality(Pkts) - 1 <= MaxReqs

\* A packet that the handler has is being asked for, so that it will be answered,
\* unless it is a WRITE of nothing; and it is answered once: no response comes
\* for a packet that has been given back, save for END and for WRITEs of more than one
\* request.  Where there are enough requests for every packet, only these use
\* them up, too.
AnsweredOnce ==
    /\ \A p \in Pkts : at[p] = "handler" =>
          \/ pkt[p].type = "WRITE" /\ pkt[p].chunks = 0
          \/ \E i \in DOMAIN q.reqs : q.reqs[i].pkt = p /\ ~ q.reqs[i].orphan /\ Expected(i)
    /\ \A i \in DOMAIN q.reqs :
          LET r == q.reqs[i]
          IN  IF r.orphan THEN r.type \in {"END", "WRITE"}
              ELSE at[r.pkt] = "handler" /\ pkt[r.pkt].type = r.type
    /\ pc = "dead" /\ Enough => \E i \in DOMAIN q.reqs : q.reqs[i].type \in {"END", "WRITE"}

\* fs_Reqs holds the requests that wait, and fs_SentReqs those that have been
\* sent until a request is taken off it a second time.
ListsIntact == Linked /\ (q.again \/ Links(q.links, SENT, In("sent")))

\* Every packet is answered, unless it is a WRITE of nothing, a volume's signal was
\* overlooked, the connection is lost or the handler has ended.
AllAnswered ==
    \A p \in Pkts :
        at[p] # "client" ~>
            \/ at[p] = "client" \/ ~ connected \/ missed \/ pc # "run"
            \/ pkt[p].type = "WRITE" /\ pkt[p].chunks = 0

=============================================================================
