---------------------------- MODULE PacketWriter ----------------------------
(***************************************************************************)
(* The packet writer of the server (server/packetwriter.c) over the write  *)
(* half of the serial remote (remote/serialremote.c).                      *)
(*                                                                         *)
(* Packets are put one behind the other into buffers; the buffers form a   *)
(* queue, and the bytes of the first one that have not been written yet    *)
(* are given to the device in one asynchronous write.  The last packets    *)
(* are kept, in their buffers, to be sent again on request; a buffer is    *)
(* given back when it has left the queue and the last of its packets is    *)
(* dropped.  While a write runs the device reads from the buffer itself.   *)
(* When the writer is destroyed the buffers of the queue are freed before  *)
(* the packets, which still count down what they lay in: memory that is no *)
(* longer the writer's.                                                    *)
(*                                                                         *)
(* Packets are known by a serial number: their place in the order in which *)
(* the writer accepted them.  Contents and checksums are left out; that a  *)
(* packet gets its checksum is op_Sent, assigned with it.                  *)
(***************************************************************************)
EXTENDS Integers, SequencesExt

CONSTANTS
    OutBufs,     \* the objects of type OT_OUT_BUFFER: MAX_BUFFERS = 16
    NoBuf,       \* no buffer: pw_OutBuf is NULL
    MaxPackets,  \* objects of type OT_OUT_PACKET: MAX_BUFFERS * 10
    BufferSize,  \* BUFFER_SIZE: 4096
    Header,      \* sizeof(struct Packet): 14
    Keep,        \* RECENT_PACKETS_TO_KEEP: 10
    IdMod,       \* values of a UWORD: 2^16
    PACKET_ID,   \* pac_Id of every packet: 0x416d5069
    Lengths,     \* lengths, with the header, that the server asks for
    MaxAccept,   \* bound: packets accepted
    MaxFail      \* bound: allocations refused

ASSUME PacketWriterAssumption ==
    /\ NoBuf \notin OutBufs
    /\ MaxPackets \in Nat /\ Keep \in Nat /\ MaxAccept \in Nat /\ MaxFail \in Nat
    /\ Header \in Nat \ {0} /\ Header % 2 = 0
    /\ BufferSize \in Nat /\ BufferSize % 2 = 0 /\ BufferSize > Header
    /\ IdMod \in Nat \ {0, 1}
    /\ PACKET_ID \in Nat /\ PACKET_ID >= IdMod
    /\ Lengths \subseteq Nat

VARIABLES
    \* struct PacketWriter
    queue,     \* pw_Queue; pw_BufCount is its length
    recent,    \* pw_RecentPackets; pw_RecentCount is its length
    cur,       \* pw_OutBuf
    nextId,    \* pw_NextPackId
    \* objects of type OT_OUT_BUFFER
    ob,        \* their fields
    live,      \* those allocated
    lost,      \* those of them whose Buffer could not be allocated
    overrun,   \* a pad byte has been written behind the end of a buffer
    freed,     \* those that APB_DestroyPacketWriter has taken off the queue and freed
    \* struct Remote and the device
    open,      \* the remote is open, closed with the writer still there, or
               \* the writer is destroyed
    device,    \* the asynchronous write, or Ready
    \* history and bounds
    accepted,  \* number of packets accepted
    handed,    \* serials of the packets given to the device
    fails      \* allocations refused

writerVars == <<queue, recent, cur, nextId>>
bufferVars == <<ob, live, lost, overrun, freed>>
remoteVars == <<open, device>>
historyVars == <<accepted, handed, fails>>
vars == <<writerVars, bufferVars, remoteVars, historyVars>>

\* struct OutBuffer: b_Offset, the serials of the packets in it, how many of
\* them are below ob_Offset, ob_PacketCount and ob_CanRelease.  start is the
\* number of packets accepted before the buffer was taken into use.
EmptyBuffer == [off |-> 0, pacs |-> <<>>, wrote |-> 0, count |-> 0, canRelease |-> FALSE,
                start |-> 0]

\* struct OutPacket with the packet it points to.
NewPacket(sn, id, b, len) == [sn |-> sn, id |-> id, buf |-> b, len |-> len, sent |-> FALSE]

\* The write is done, or none was ever begun: r_WriteReady.
Ready == [buf |-> NoBuf, held |-> TRUE, done |-> TRUE]

CanWrite == open = "open" /\ device = Ready

Init ==
    /\ queue = <<>> /\ recent = <<>> /\ cur = NoBuf /\ nextId = 1
    /\ ob = [b \in OutBufs |-> EmptyBuffer]
    /\ live = {} /\ lost = {} /\ overrun = FALSE /\ freed = {}
    /\ open = "open" /\ device = Ready
    /\ accepted = 0 /\ handed = <<>> /\ fails = 0

-----------------------------------------------------------------------------
(* Allocation of a packet.                                                 *)

\* The sizes APB_AllocPacketWithId accepts.
SizeOk(len) == len <= BufferSize /\ len >= Header

Padded(len) == len + (len % 2)

\* A bug for TLC: no room is left for the pad byte.
NoPadRoom(len) == cur # NoBuf => ob[cur].off + len >= BufferSize

\* No current buffer, or no room in it.
NeedsBuffer(len) == cur # NoBuf => ob[cur].off + len + 1 >= BufferSize

\* A bug for TLC: the loop drops every packet at the head that has been sent.
DropsAllSent(k) ==
    /\ \A i \in 1..k : recent[i].sent
    /\ k < Len(recent) => ~ recent[k + 1].sent

\* The packets the eviction loop drops: those at the head that have been sent,
\* while more than Keep are kept.
Drops(k) ==
    /\ \A i \in 1..k : recent[i].sent
    /\ k > 0 => Len(recent) - k >= Keep
    /\ k < Len(recent) => Len(recent) - k <= Keep \/ ~ recent[k + 1].sent

\* Packets of buffer b among the first k recent packets.
OfBuffer(b, k) == {i \in 1..k : recent[i].buf = b}

\* A bug for TLC: ob_PacketCount is tested before it is counted down.
ReleasedLate(o, k) ==
    {b \in live : OfBuffer(b, k) # {} /\ o[b].count = 0 /\ o[b].canRelease}

\* A bug for TLC: the count of packets is not looked at.
ReleasedUncounted(o, k) == {b \in live : OfBuffer(b, k) # {} /\ o[b].canRelease}

\* The buffers, with fields o, that APB_ReleaseOutPacket gives
\* back when the first k recent packets are dropped.
Released(o, k) ==
    {b \in live : /\ OfBuffer(b, k) # {}
                  /\ o[b].count = Cardinality(OfBuffer(b, k))
                  /\ o[b].canRelease}

\* The device goes on reading a buffer that is given back under it.
Disturb(gone) ==
    device' = IF device.buf \in gone /\ ~ device.done THEN [device EXCEPT !.held = FALSE]
              ELSE device

\* The fields of a buffer with one more packet of len bytes.
WithPacket(r, len) ==
    [r EXCEPT !.off = @ + Padded(len), !.pacs = Append(@, accepted + 1), !.count = @ + 1]

\* Without the first k recent packets.
Counted(o, k) == [c \in OutBufs |-> [o[c] EXCEPT !.count = @ - Cardinality(OfBuffer(c, k))]]

\* The packet of len bytes, with the given id, goes to the end of buffer b
\* whose fields are o[b], and packets no longer kept are dropped: lines
\* 184-226 of APB_AllocPacketWithId.
PutPacket(o, b, len, id) ==
    \E k \in 0..Len(recent) :
        LET o2 == [o EXCEPT ![b] = WithPacket(@, len)]
            gone == Released(o2, k)
        IN  /\ Len(recent) < MaxPackets
            /\ Drops(k)
            /\ ob' = Counted(o2, k)
            /\ live' = (live \cup {b}) \ gone
            /\ Disturb(gone)
            /\ recent' = Append(SubSeq(recent, k + 1, Len(recent)),
                                NewPacket(accepted + 1, id, b, len))
            /\ overrun' = (overrun \/ (len % 2 = 1 /\ o2[b].off >= BufferSize))
            /\ accepted' = accepted + 1
            /\ UNCHANGED <<lost, freed, open, handed, fails>>

\* A bug for TLC: AddHead for AddTail.
TakeBufferAtHead(b) ==
    /\ b \in OutBufs \ live
    /\ queue' = <<b>> \o queue
    /\ cur' = b

\* A new OutBuffer with its Buffer at the end of the queue.
TakeBuffer(b) ==
    /\ b \in OutBufs \ live
    /\ queue' = Append(queue, b)
    /\ cur' = b

Fresh(b) == [ob EXCEPT ![b] = [EmptyBuffer EXCEPT !.start = accepted]]

\* APB_AllocPacketWithId finds room in the current buffer.
AllocInBuffer(len, id) ==
    /\ SizeOk(len) /\ ~ NeedsBuffer(len)
    /\ PutPacket(ob, cur, len, id)
    /\ UNCHANGED <<queue, cur>>

\* It takes a new buffer.
AllocNewBuffer(len, id) ==
    /\ SizeOk(len) /\ NeedsBuffer(len)
    /\ \E b \in OutBufs : TakeBuffer(b) /\ PutPacket(Fresh(b), b, len, id)

\* It returns NULL and has changed nothing: a size it refuses, no OutBuffer, or
\* no OutPacket for a buffer with room.
AllocRefused == UNCHANGED <<queue, cur, bufferVars, device>>

\* It returns NULL without the Buffer, and keeps the OutBuffer object.
AllocNoBuffer(len) ==
    /\ SizeOk(len) /\ NeedsBuffer(len)
    /\ \E b \in OutBufs \ live : live' = live \cup {b} /\ lost' = lost \cup {b}
    /\ UNCHANGED <<queue, cur, ob, overrun, freed, device>>

\* It returns NULL without the OutPacket, and leaves the new buffer empty.
AllocNoPacket(len) ==
    /\ SizeOk(len) /\ NeedsBuffer(len)
    /\ \E b \in OutBufs :
        /\ TakeBuffer(b)
        /\ ob' = Fresh(b)
        /\ live' = live \cup {b}
    /\ UNCHANGED <<lost, overrun, freed, device>>

AllocFails(len) ==
    /\ fails < MaxFail
    /\ AllocRefused \/ AllocNoBuffer(len) \/ AllocNoPacket(len)
    /\ fails' = fails + 1
    /\ UNCHANGED <<recent, open, accepted, handed>>

AllocPacketWithId(len, id) == AllocInBuffer(len, id) \/ AllocNewBuffer(len, id) \/ AllocFails(len)

\* A bug for TLC: the id grows out of a UWORD.
AllocPacketUnwrapped(len) ==
    /\ open = "open" /\ accepted < MaxAccept
    /\ nextId' = nextId + 1
    /\ AllocPacketWithId(len, nextId)

\* Every call of APB_AllocPacket uses up an id.
AllocPacket(len) ==
    /\ open = "open" /\ accepted < MaxAccept
    /\ nextId' = (nextId + 1) % IdMod
    /\ AllocPacketWithId(len, nextId)

\* What APB_ResendPacket compares with the id it looks for: pac_Id.
Matches(op, packId) == PACKET_ID = packId

\* The Pi asks for a packet again: a copy of it, with the id it had.  None ever
\* matches.
ResendPacket(packId) ==
    /\ open = "open" /\ accepted < MaxAccept
    /\ IF \E i \in DOMAIN recent : Matches(recent[i], packId)
       THEN AllocPacketWithId(SelectSeq(recent, LAMBDA op : Matches(op, packId))[1].len, packId)
       ELSE UNCHANGED <<queue, recent, cur, bufferVars, remoteVars, historyVars>>
    /\ UNCHANGED nextId

-----------------------------------------------------------------------------
(* Writing.                                                                *)

\* The first buffer has packets that have not been written: they get their
\* checksums and the device gets them.
WriteHead ==
    LET b == Head(queue)
        n == Len(ob[b].pacs)
    IN  /\ recent' = [i \in DOMAIN recent |->
                        IF recent[i].buf = b THEN [recent[i] EXCEPT !.sent = TRUE] ELSE recent[i]]
        /\ device' = [buf |-> b, held |-> TRUE, done |-> FALSE]
        /\ handed' = handed \o SubSeq(ob[b].pacs, ob[b].wrote + 1, n)

\* A bug for TLC: a buffer that has been written stays in the queue.
SendKeepsHead ==
    /\ CanWrite /\ queue # <<>>
    /\ LET b == Head(queue)
           n == Len(ob[b].pacs)
       IN  /\ ob[b].wrote < n /\ WriteHead
           /\ ob' = [ob EXCEPT ![b] = [@ EXCEPT !.wrote = n]]
    /\ UNCHANGED <<queue, cur, nextId, live, lost, overrun, freed, open, accepted, fails>>

\* APB_SrvSendToRemote and APB_WriteBuffer.  A buffer behind which another
\* one waits leaves the queue.
SendToRemote ==
    /\ CanWrite /\ queue # <<>>
    /\ LET b == Head(queue)
           n == Len(ob[b].pacs)
       IN  /\ IF ob[b].wrote < n THEN WriteHead ELSE UNCHANGED <<recent, device, handed>>
           /\ ob' = [ob EXCEPT ![b] = [@ EXCEPT !.wrote = n, !.canRelease = Len(queue) > 1]]
           /\ queue' = IF Len(queue) > 1 THEN Tail(queue) ELSE queue
    /\ UNCHANGED <<cur, nextId, live, lost, overrun, freed, open, accepted, fails>>

\* The device has sent the last byte and replied to the request.
WriteDone ==
    /\ open = "open" /\ ~ device.done
    /\ device' = [device EXCEPT !.done = TRUE]
    /\ UNCHANGED <<writerVars, bufferVars, open, historyVars>>

\* REM_HandleSignal: r_WriteReady.
HandleSignal ==
    /\ open = "open" /\ device.done /\ device # Ready
    /\ device' = Ready
    /\ UNCHANGED <<writerVars, bufferVars, open, historyVars>>

\* REM_CloseRemote aborts a write.
CloseRemote ==
    /\ open = "open"
    /\ open' = "closed" /\ device' = Ready
    /\ UNCHANGED <<writerVars, bufferVars, historyVars>>

(* APB_DestroyPacketWriter, once the remote is closed.                     *)

\* First the buffers of the queue are freed, whatever packets lie in them.
DestroyBuffer ==
    /\ open = "closed" /\ queue # <<>>
    /\ live' = live \ {Head(queue)} /\ freed' = freed \cup {Head(queue)}
    /\ queue' = Tail(queue)
    /\ UNCHANGED <<recent, cur, nextId, ob, lost, overrun, remoteVars, historyVars>>

\* Then APB_ReleaseOutPacket gets the packets.  One in a buffer just freed
\* counts that down and looks at its ob_CanRelease all the same: while the
\* memory is as it was left, that is FALSE, as for every buffer of the queue.
DestroyPacket ==
    /\ open = "closed" /\ queue = <<>> /\ recent # <<>>
    /\ ob' = Counted(ob, 1)
    /\ live' = live \ Released(ob, 1)
    /\ recent' = Tail(recent)
    /\ UNCHANGED <<queue, cur, nextId, lost, overrun, freed, remoteVars, historyVars>>

\* The pool may have given the memory back, and somebody else may have it: the
\* writer counts down, and may even free, what is not its own.
DestroyForeign ==
    /\ open = "closed" /\ queue = <<>> /\ recent # <<>>
    /\ Head(recent).buf \in freed
    /\ open' = "wild"
    /\ UNCHANGED <<writerVars, bufferVars, device, historyVars>>

\* Last the PacketWriter itself is freed.
DestroyWriter ==
    /\ open = "closed" /\ queue = <<>> /\ recent = <<>>
    /\ open' = "destroyed" /\ cur' = NoBuf
    /\ UNCHANGED <<queue, recent, nextId, bufferVars, device, historyVars>>

DestroyPacketWriter == DestroyBuffer \/ DestroyPacket \/ DestroyForeign \/ DestroyWriter

Next ==
    \/ \E len \in Lengths : AllocPacket(len)
    \/ \E packId \in 0..(IdMod - 1) : ResendPacket(packId)
    \/ SendToRemote
    \/ WriteDone
    \/ HandleSignal
    \/ CloseRemote
    \/ DestroyPacketWriter

Spec == Init /\ [][Next]_vars

\* APB_WaitForMessage ends every pass with APB_SrvSendToRemote, and while the
\* timer runs there is a pass every second; the device finishes its writes.
Fairness == WF_vars(SendToRemote) /\ WF_vars(WriteDone) /\ WF_vars(HandleSignal)

FairSpec == Spec /\ Fairness

-----------------------------------------------------------------------------
(* Properties.                                                             *)

Buffer == [off : Nat, pacs : Seq(Nat), wrote : Nat, count : Int, canRelease : BOOLEAN,
           start : Nat]

Packet == [sn : Nat, id : 0..(IdMod - 1), buf : OutBufs, len : Lengths, sent : BOOLEAN]

TypeOK ==
    /\ queue \in Seq(OutBufs) /\ cur \in OutBufs \cup {NoBuf} /\ nextId \in 0..(IdMod - 1)
    /\ recent \in Seq(Packet)
    /\ ob \in [OutBufs -> Buffer]
    /\ live \subseteq OutBufs /\ lost \subseteq OutBufs /\ overrun \in BOOLEAN
    /\ freed \subseteq OutBufs
    /\ open \in {"open", "closed", "destroyed", "wild"}
    /\ device \in [buf : OutBufs \cup {NoBuf}, held : BOOLEAN, done : BOOLEAN]
    /\ accepted \in Nat /\ handed \in Seq(Nat)
    /\ fails \in Nat

\* The packet writer hands packets to the remote in the order in which it
\* accepted them, every packet once, whatever buffers they lie in and whatever
\* allocation fails in between.
Fifo == INSTANCE PacketQueue WITH accepted <- accepted, handed <- handed
InOrder == Fifo!Spec

\* A kept packet lies in a buffer that has not been given back, and
\* ob_PacketCount, on which that depends, is the number of kept packets.  The
\* exception is APB_DestroyPacketWriter: it frees the buffers of the queue
\* while packets are still kept in them.
KeptInLive ==
    /\ \A i \in DOMAIN recent : recent[i].buf \in (live \ lost) \cup freed
    /\ open = "open" => freed = {}
    /\ \A b \in live \ lost : ob[b].count = Cardinality(OfBuffer(b, Len(recent)))

\* APB_ReleaseOutPacket gives a buffer back under a running write only when
\* more than Keep packets are kept and the device has been given none of them:
\* all were accepted behind those in the buffer, before the write or during it.
WrittenBufferHeld ==
    device.held \/ (Len(recent) > Keep /\ \A i \in DOMAIN recent : ~ recent[i].sent)

\* The buffers nothing leads to any more: allocated, not in the queue, without
\* a kept packet.
Leaked == live \ (lost \cup ToSet(queue) \cup {recent[i].buf : i \in DOMAIN recent})

\* No packet dropped by APB_AllocPacketWithId or APB_DestroyPacketWriter leaves
\* behind a buffer that nobody will release.  A buffer can only be lost as
\* APB_WriteBuffer takes it off the queue: when it never got a packet, or when
\* its packets had all been dropped by then, which takes more than Keep packets
\* accepted behind them of which the device has been given none.
LeaksOnlyLeaving ==
    [][\A b \in Leaked' \ Leaked :
           /\ b \in ToSet(queue)
           /\ \/ ob[b].pacs = <<>>
              \/ Len(recent) > Keep /\ \A i \in DOMAIN recent : ~ recent[i].sent]_vars

\* Unless a packet is one byte shorter than a buffer, no pad byte is written
\* outside a buffer.
PadInside == (BufferSize - 1) \notin Lengths => ~ overrun

\* Every packet accepted is handed to the remote, unless that is closed.
AllHanded == \A n \in 1..MaxAccept : (accepted >= n) ~> (Len(handed) >= n \/ open # "open")

=============================================================================
