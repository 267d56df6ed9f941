---------------------------- MODULE PacketReader ----------------------------
(***************************************************************************)
(* How the server receives: the read half of the serial remote             *)
(* (remote/serialremote.c), APB_SrvBeginRead and APB_SrvReceiveFromRemote   *)
(* (server/server.c), and the packet reader (server/packetreader.c).       *)
(*                                                                         *)
(* What is read goes into read buffers, one after the other.  The reader   *)
(* keeps a chain of them, cuts packets out, which may lie across two       *)
(* buffers, and skips what is no packet.  A packet points into its         *)
(* buffers; a buffer is given back when the last of the packets counted in *)
(* it is released.                                                         *)
(*                                                                         *)
(* Lengths are in words of two bytes: packets begin at even offsets,       *)
(* because odd ones are padded.  A word of the line is known by its packet *)
(* and its place in it.  The words of a header that tell anything are the  *)
(* first, which holds pac_Id, and the second, which stands for the others. *)
(* A checksum is right when the words are those of one packet.             *)
(***************************************************************************)
EXTENDS Integers, SequencesExt

CONSTANTS
    BufferSize,   \* BUFFER_SIZE / 2
    Header,       \* sizeof(struct Packet) / 2
    Lengths,      \* lengths of the data of packets
    PoolSize,     \* buffers the pool can still give: at most MAX_BUFFERS = 16
    CountMod,     \* values of ib_PacketCount, a UWORD
    IdMod,        \* values of pac_PackId, a UWORD
    MaxPackets,   \* bound: packets of the Pi
    MaxLost,      \* bound: words lost on the line
    MaxFail       \* bound: allocations refused, and reads that fail

ASSUME PacketReaderAssumption ==
    /\ Header \in Nat \ {0, 1} /\ BufferSize \in Nat /\ BufferSize > Header
    /\ Lengths \subseteq 0..BufferSize
    /\ PoolSize \in Nat \ {0} /\ CountMod \in Nat /\ CountMod > BufferSize /\ IdMod \in Nat \ {0}
    /\ MaxPackets \in Nat /\ MaxLost \in Nat /\ MaxFail \in Nat

VARIABLES
    \* the Pi and the line
    sent,      \* lengths of the packets the Pi has sent
    wire,      \* words on the line
    \* struct Server, struct Remote
    stream,    \* words read: buffer b holds the b-th BufferSize of them
    rbuf,      \* srv_ReadBuffer: number of the buffer, 0 for NULL
    reading,   \* a read is under way: r_ReadReady is FALSE
    lastIn,    \* srv_LastInPackId
    pc,        \* where APB_SrvReceiveFromRemote is
    \* struct PacketReader, struct InBuffer
    chain,     \* the buffers appended: ib_Next leads from each to the one with
               \* the next higher number
    cur,       \* pr_InBuf, 0 for NULL
    ib1,       \* the local ib1 of APB_ProcessBuffer, 0 for NULL
    off,       \* ib_Offset
    count,     \* ib_PacketCount
    canRel,    \* buffers with ib_CanRelease
    live,      \* buffers that have not been given back
    queue,     \* pr_Queue
    \* packets
    held,      \* packets kept by connections
    \* history
    handled,   \* serials of the packets handed to APB_HandlePacket
    asked,     \* ids of packets asked for again
    crossed,   \* a packet was held when another buffer was appended
    lost,      \* words lost on the line
    fails      \* allocations refused, and reads that failed

lineVars == <<sent, wire, lost>>
readVars == <<stream, rbuf, reading>>
chainVars == <<chain, cur, canRel>>
bufVars == <<off, count, live>>
packetVars == <<held, lastIn, handled, asked>>
vars == <<lineVars, readVars, pc, chainVars, ib1, bufVars, queue, packetVars, crossed, fails>>

Init ==
    /\ sent = <<>> /\ wire = <<>> /\ stream = <<>> /\ rbuf = 0 /\ reading = FALSE
    /\ lastIn = 0 /\ pc = "begin"
    /\ chain = {} /\ cur = 0 /\ ib1 = 0
    /\ off = <<>> /\ count = <<>> /\ canRel = {} /\ live = {} /\ queue = <<>>
    /\ held = {} /\ handled = <<>> /\ asked = {} /\ crossed = FALSE
    /\ lost = 0 /\ fails = 0

Least(m, n) == IF m <= n THEN m ELSE n

-----------------------------------------------------------------------------
(* The Pi and the line.                                                    *)

Words(n, len) == [i \in 1..(Header + len) |-> [pac |-> n, at |-> i]]

PiSends ==
    /\ Len(sent) < MaxPackets
    /\ \E len \in Lengths :
        /\ sent' = Append(sent, len)
        /\ wire' = wire \o Words(Len(sent) + 1, len)
    /\ UNCHANGED <<readVars, pc, chainVars, ib1, bufVars, queue, packetVars, crossed, lost, fails>>

LoseWord ==
    /\ lost < MaxLost /\ wire # <<>>
    /\ wire' = Tail(wire) /\ lost' = lost + 1
    /\ UNCHANGED <<sent, readVars, pc, chainVars, ib1, bufVars, queue, packetVars, crossed, fails>>

-----------------------------------------------------------------------------
(* The buffers.                                                            *)

\* b_Offset of a buffer, and the words in it.
Bytes(b) == Least(BufferSize, Len(stream) - (b - 1) * BufferSize)
Data(b) == SubSeq(stream, (b - 1) * BufferSize + 1, (b - 1) * BufferSize + Bytes(b))
Full(b) == Bytes(b) = BufferSize

\* ib_Next, 0 for NULL.
NextOf(b) ==
    LET after == {c \in chain : c > b}
    IN  IF after = {} THEN 0 ELSE Min(after)

\* REM_CanRead, and REM_Read with BeginRead of the remote: a read is under way.
CanRead == ~ reading
REM_Read == reading' = TRUE

\* BeginRead reads one byte and ContinueRead what more has come, as far as the
\* buffer has room: the read ends with n words.
ContinueRead(n) ==
    /\ reading /\ n <= Least(BufferSize - Bytes(rbuf), Len(wire))
    /\ stream' = stream \o SubSeq(wire, 1, n)
    /\ wire' = SubSeq(wire, n + 1, Len(wire))
    /\ reading' = FALSE

\* APB_SrvBeginRead takes another buffer when there is none or it is full, and
\* begins a read.
BeginRead ==
    /\ pc = "begin" /\ CanRead
    /\ IF rbuf = 0 \/ Full(rbuf)
       THEN /\ Cardinality(live) < PoolSize
            /\ rbuf' = Len(off) + 1
            /\ off' = Append(off, 0) /\ count' = Append(count, 0)
            /\ live' = live \cup {rbuf'}
       ELSE UNCHANGED <<rbuf, bufVars>>
    /\ REM_Read /\ pc' = "handle"
    /\ UNCHANGED <<lineVars, stream, chainVars, ib1, queue, packetVars, crossed, fails>>

\* It goes on without a buffer: the read, of no bytes, writes through NULL or
\* behind the end of the full buffer.
NoReadBuffer ==
    /\ pc = "begin" /\ (rbuf = 0 \/ Full(rbuf))
    /\ \/ Cardinality(live) = PoolSize /\ UNCHANGED fails
       \/ fails < MaxFail /\ fails' = fails + 1
    /\ pc' = "dead"
    /\ UNCHANGED <<lineVars, readVars, chainVars, ib1, bufVars, queue, packetVars, crossed>>

\* APB_AppendBuffer: the read buffer goes to the end of the chain once.
AppendBuffer ==
    /\ chain' = chain \cup {rbuf}
    /\ cur' = IF cur = 0 THEN rbuf ELSE cur
    /\ canRel' = IF rbuf \in chain \/ cur = 0 THEN canRel
                 ELSE canRel \cup {b \in chain : b >= cur}

\* A read has ended with n words, and APB_SrvReceiveFromRemote sees it.
Receive(n) ==
    /\ pc = "idle" /\ ContinueRead(n)
    /\ \/ /\ AppendBuffer
          /\ ib1' = cur' /\ pc' = "parse"
          /\ crossed' = (crossed \/ (held # {} /\ rbuf \notin chain))
          /\ UNCHANGED fails
       \/ /\ rbuf \notin chain /\ fails < MaxFail
          /\ fails' = fails + 1 /\ pc' = "begin"
          /\ UNCHANGED <<chainVars, ib1, crossed>>
    /\ UNCHANGED <<sent, lost, rbuf, bufVars, queue, packetVars>>

\* A read has ended with no words: no other read is begun.
ReadFails ==
    /\ pc = "idle" /\ reading /\ fails < MaxFail
    /\ reading' = FALSE /\ fails' = fails + 1
    /\ UNCHANGED <<lineVars, stream, rbuf, pc, chainVars, ib1, bufVars, queue, packetVars, crossed>>

-----------------------------------------------------------------------------
(* One iteration of the loop of APB_ProcessBuffer.                         *)

\* The buffer behind ib1 that the code looks into: only that of a full one.
ib2 == IF ib1 # 0 /\ Full(ib1) THEN NextOf(ib1) ELSE 0

\* The words behind ib_Offset, in ib1 and in the buffer behind it, and how many
\* of them are in ib1.
bc == Bytes(ib1) - off[ib1]
Ahead == SubSeq(Data(ib1), off[ib1] + 1, Bytes(ib1)) \o (IF ib2 # 0 THEN Data(ib2) ELSE <<>>)

Straddles == bc < Header
HeaderRead == Len(Ahead) >= Header

\* pac_Length; in the place of the length another word is too large.
Length(w) == IF w.at = 2 THEN sent[w.pac] ELSE BufferSize + 1

HeaderOk == Ahead[1].at = 1 /\ Length(Ahead[2]) <= BufferSize

\* The words of header and data.
Size == Header + Length(Ahead[2])

\* A bug for TLC: a packet that ends with its buffer is looked for in the next.
SplitsAtEnd == Straddles \/ bc <= Size

\* Do they reach into the next buffer?
Splits == Straddles \/ bc < Size

\* The buffers hold the whole packet.
Complete == Splits => ib2 # 0 /\ Bytes(ib2) >= Size - bc

ChecksumOk == SubSeq(Ahead, 1, Size) = Words(Ahead[1].pac, sent[Ahead[1].pac])

\* There is a header, and all of the packet it announces: the iteration decides
\* what to do with it.
Decides ==
    /\ pc = "parse" /\ ib1 # 0 /\ off[ib1] <= Bytes(ib1)
    /\ HeaderRead /\ (HeaderOk => Complete)

\* Otherwise, or without an InPacket for the packet, the loop ends.
LoopEnds ==
    /\ pc = "parse"
    /\ Decides => HeaderOk /\ ChecksumOk /\ fails < MaxFail
    /\ fails' = IF Decides THEN fails + 1 ELSE fails
    /\ pc' = "begin" /\ ib1' = 0
    /\ UNCHANGED <<lineVars, readVars, chainVars, bufVars, queue, packetVars, crossed>>

\* A bug for TLC: a packet goes to the front of the queue.
AddHead(p) == <<p>> \o queue

AddTail(p) == Append(queue, p)

\* A packet is put into the queue.
AcceptPacket ==
    /\ Decides /\ HeaderOk /\ ChecksumOk
    /\ LET to == IF Splits THEN ib2 ELSE ib1
           size == IF Splits THEN Size - bc ELSE Size
       IN  /\ queue' = AddTail([sn |-> Ahead[1].pac, ib |-> ib1, to |-> to])
           /\ count' = [b \in DOMAIN count |->
                            IF b \in {ib1, to} THEN (count[b] + 1) % CountMod ELSE count[b]]
           /\ off' = [off EXCEPT ![to] = @ + size]
           /\ cur' = to
           /\ ib1' = IF off[to] + size = BufferSize THEN NextOf(to) ELSE to
    /\ UNCHANGED <<lineVars, readVars, pc, chain, canRel, live, packetVars, crossed, fails>>

\* badData: the search goes on one word further on, in the next buffer if that
\* had to be looked into.
BadData ==
    /\ Decides /\ (HeaderOk => ~ ChecksumOk)
    /\ LET to == IF Straddles \/ (HeaderOk /\ Splits) THEN ib2 ELSE ib1
       IN  /\ ib1' = to
           /\ IF off[to] < Bytes(to)
              THEN off' = [off EXCEPT ![to] = @ + 1] /\ UNCHANGED cur
              ELSE /\ cur' = IF Full(to) /\ NextOf(to) # 0 THEN NextOf(to) ELSE cur
                   /\ UNCHANGED off
    /\ UNCHANGED <<lineVars, readVars, pc, chain, canRel, count, live, queue, packetVars, crossed,
                   fails>>

-----------------------------------------------------------------------------
(* The packets.                                                            *)

\* Bugs for TLC: the count is signed; the buffer read into can be given back.
CountDownSigned(c, b) == [c EXCEPT ![b] = @ - 1]
GoneUnmarked(c, b) == IF c[b] = 0 THEN {b} ELSE {}

\* Counting down the packets of buffer b, which is given back at 0.
CountDown(c, b) == [c EXCEPT ![b] = (@ - 1) % CountMod]
Gone(c, b) == IF c[b] = 0 /\ b \in canRel THEN {b} ELSE {}

\* APB_ReleaseInPacket counts down the packet's buffer and the one behind it,
\* whether the packet is split or not.  Nothing is said of what it does to a
\* buffer that has been given back.
ReleaseInPacket(p) ==
    LET next == NextOf(p.ib)
        c1 == CountDown(count, p.ib)
        c2 == IF next = 0 THEN c1 ELSE CountDown(c1, next)
    IN  /\ {p.ib, next} \subseteq live \cup {0}
        /\ count' = c2
        /\ live' = live \ (Gone(c1, p.ib) \cup (IF next = 0 THEN {} ELSE Gone(c2, next)))

\* A bug for TLC: the last id is noted before it is compared.
NotedFirst(id) ==
    /\ lastIn' = id
    /\ UNCHANGED <<asked, fails>>

\* APB_HandlePacket asks for the packets between the last one and this one, up
\* to the first for which the packet writer has no room.
AskForGap(id) ==
    /\ lastIn' = id
    /\ \/ asked' = asked \cup (lastIn + 1)..(id - 1) /\ UNCHANGED fails
       \/ \E room \in (lastIn + 1)..(id - 1) :
             /\ fails < MaxFail /\ fails' = fails + 1
             /\ asked' = asked \cup (lastIn + 1)..(room - 1)

\* It then hands the packet on; it is released, or kept by its connection.
HandlePacket ==
    /\ pc = "handle" /\ queue # <<>>
    /\ LET p == Head(queue)
       IN  /\ AskForGap(p.sn % IdMod)
           /\ handled' = Append(handled, p.sn)
           /\ \/ ReleaseInPacket(p) /\ UNCHANGED held
              \/ held' = held \cup {p} /\ UNCHANGED <<count, live>>
    /\ queue' = Tail(queue)
    /\ UNCHANGED <<lineVars, readVars, pc, chainVars, ib1, off, crossed>>

PassDone ==
    /\ pc = "handle" /\ queue = <<>>
    /\ pc' = "idle"
    /\ UNCHANGED <<lineVars, readVars, chainVars, ib1, bufVars, queue, packetVars, crossed, fails>>

\* A client has read the packet, or its connection is destroyed.
ReleaseHeld ==
    /\ pc = "idle"
    /\ \E p \in held : ReleaseInPacket(p) /\ held' = held \ {p}
    /\ UNCHANGED <<lineVars, readVars, pc, chainVars, ib1, off, queue, lastIn, handled, asked,
                   crossed, fails>>

\* APB_DestroyPacketReader: the buffers of the chain are not given back.
DestroyPacketReader ==
    /\ pc = "idle" /\ held = {} /\ fails < MaxFail
    /\ pc' = "destroyed" /\ cur' = 0 /\ fails' = fails + 1
    /\ UNCHANGED <<lineVars, readVars, chain, canRel, ib1, bufVars, queue, packetVars, crossed>>

Server ==
    \/ BeginRead \/ NoReadBuffer
    \/ \E n \in 1..BufferSize : Receive(n)
    \/ LoopEnds \/ AcceptPacket \/ BadData
    \/ HandlePacket \/ PassDone

Next ==
    \/ Server \/ ReadFails \/ ReleaseHeld \/ DestroyPacketReader
    \/ PiSends \/ LoseWord

Spec == Init /\ [][Next]_vars

\* The device ends a read when something has come, and the server takes every
\* step it can.
FairSpec == Spec /\ WF_vars(Server)

-----------------------------------------------------------------------------
(* Properties.                                                             *)

TypeOK ==
    /\ sent \in Seq(Lengths) /\ rbuf \in 0..Len(off) /\ reading \in BOOLEAN
    /\ wire \in Seq([pac : Nat, at : Nat]) /\ stream \in Seq([pac : Nat, at : Nat])
    /\ lastIn \in 0..(IdMod - 1) /\ asked \subseteq 0..(IdMod - 1)
    /\ pc \in {"idle", "parse", "begin", "handle", "dead", "destroyed"}
    /\ chain \subseteq DOMAIN off /\ cur \in chain \cup {0} /\ ib1 \in chain \cup {0}
    /\ off \in Seq(Nat) /\ count \in Seq(0..(CountMod - 1)) /\ Len(count) = Len(off)
    /\ canRel \subseteq chain /\ live \subseteq DOMAIN off
    /\ queue \in Seq([sn : DOMAIN sent, ib : chain, to : chain])
    /\ held \subseteq [sn : DOMAIN sent, ib : chain, to : chain]
    /\ handled \in Seq(DOMAIN sent)
    /\ crossed \in BOOLEAN /\ lost \in Nat /\ fails \in Nat

\* Whatever the line loses and wherever packets meet the ends of buffers,
\* packets are handed to APB_HandlePacket in the order in which the Pi sent
\* them, none of them twice.
InSequence ==
    LET sns == handled \o [i \in DOMAIN queue |-> queue[i].sn]
    IN  \A i, j \in DOMAIN sns : i < j => sns[i] < sns[j]

\* Packets that have been accepted and not yet released.
Outstanding == held \cup ToSet(queue)

\* A packet longer than a buffer without a header: the code takes lengths up to
\* BUFFER_SIZE, but does not look into a third buffer.
TooLong == \E i \in DOMAIN sent : sent[i] > BufferSize - Header

\* While nothing is lost, no allocation or read fails, and no packet is held when
\* another buffer is appended, a packet's buffers and pr_InBuf are not given back, ib_PacketCount is the number
\* of packets in a buffer, ib_Offset stays within what has been read, and if no
\* packet is too long three buffers are enough.  After a loss the search for the
\* next packet can pass one by and find it only when the next buffer is there.
PromptSafe ==
    crossed \/ lost > 0 \/ fails > 0 \/
        /\ \A p \in Outstanding : {p.ib, p.to} \subseteq live
        /\ cur \in live \cup {0}
        /\ \A b \in live : count[b] = Cardinality({p \in Outstanding : b \in {p.ib, p.to}})
        /\ \A b \in DOMAIN off : off[b] <= Bytes(b)
        /\ TooLong \/ Cardinality(live) <= 3

\* Every packet is received if nothing is lost, no allocation or read fails, no
\* packet is held across buffers, and none is too long.
AllReceived ==
    \A n \in 1..MaxPackets :
        (Len(sent) >= n) ~>
            \/ n \in ToSet(handled)
            \/ lost > 0 \/ fails > 0 \/ crossed \/ TooLong

\* While no allocation or read fails, the packets missing in front of one that
\* was handed on have been asked for again, if their ids do not wrap in between.
GapsAsked ==
    fails > 0 \/
    \A i \in DOMAIN handled :
        LET before == IF i = 1 THEN 0 ELSE handled[i - 1]
        IN  before \div IdMod = handled[i] \div IdMod =>
                \A n \in (before + 1)..(handled[i] - 1) : n % IdMod \in asked

\* A packet queued for a connection stays where it is until a client reads it
\* (README.md:319).
HeldIntact == \A p \in held : {p.ib, p.to} \subseteq live

=============================================================================
