------------------------- MODULE PacketWriterProofs -------------------------
(***************************************************************************)
(* Theorems about PacketWriter, for every size and number of buffers and   *)
(* every sequence of lengths.                                              *)
(***************************************************************************)
EXTENDS PacketWriter, SequenceTheorems, FiniteSetTheorems, TLAPS

-----------------------------------------------------------------------------
(* Types.                                                                  *)

LEMMA Fields ==
    ASSUME NEW o \in [OutBufs -> Buffer], NEW b \in OutBufs
    PROVE  /\ o[b].start \in Nat /\ o[b].wrote \in Nat
           /\ o[b].pacs \in Seq(Nat) /\ Len(o[b].pacs) \in Nat
BY DEF Buffer

\* What the operations do to the fields of a buffer.
LEMMA CountBuffer ==
    ASSUME NEW r \in Buffer, NEW count \in Int
    PROVE  LET s == [r EXCEPT !.count = count]
           IN  /\ s \in Buffer
               /\ s.off = r.off /\ s.pacs = r.pacs /\ s.count = count
               /\ s.wrote = r.wrote /\ s.canRelease = r.canRelease /\ s.start = r.start
BY DEF Buffer

LEMMA WriteBuffer ==
    ASSUME NEW r \in Buffer, NEW wrote \in Nat, NEW can \in BOOLEAN
    PROVE  LET s == [r EXCEPT !.wrote = wrote, !.canRelease = can]
           IN  /\ s \in Buffer
               /\ s.off = r.off /\ s.pacs = r.pacs /\ s.count = r.count
               /\ s.wrote = wrote /\ s.canRelease = can /\ s.start = r.start
BY DEF Buffer

LEMMA StartBuffer ==
    ASSUME NEW start \in Nat
    PROVE  LET s == [EmptyBuffer EXCEPT !.start = start]
           IN  /\ s \in Buffer
               /\ s.off = 0 /\ s.pacs = <<>> /\ s.count = 0
               /\ s.wrote = 0 /\ s.canRelease = FALSE /\ s.start = start
<1>1. /\ EmptyBuffer \in Buffer
      /\ EmptyBuffer.off = 0 /\ EmptyBuffer.pacs = <<>> /\ EmptyBuffer.count = 0
      /\ EmptyBuffer.wrote = 0 /\ EmptyBuffer.canRelease = FALSE
  BY DEF Buffer, EmptyBuffer
<1>2. ASSUME NEW r \in Buffer
      PROVE  LET s == [r EXCEPT !.start = start]
             IN  /\ s \in Buffer
                 /\ s.off = r.off /\ s.pacs = r.pacs /\ s.count = r.count
                 /\ s.wrote = r.wrote /\ s.canRelease = r.canRelease /\ s.start = start
  BY DEF Buffer
<1> QED BY <1>1, <1>2

LEMMA Counts ==
    ASSUME NEW b, NEW k \in Nat
    PROVE  Cardinality(OfBuffer(b, k)) \in Nat
<1>1. IsFiniteSet(1..k)
  BY FS_Interval
<1>2. OfBuffer(b, k) \subseteq 1..k
  BY DEF OfBuffer
<1> QED BY <1>1, <1>2, FS_Subset, FS_CardinalityType

LEMMA CountedBuffers ==
    ASSUME NEW o \in [OutBufs -> Buffer], NEW k \in Nat
    PROVE  /\ Counted(o, k) \in [OutBufs -> Buffer]
           /\ \A c \in OutBufs :
                 /\ Counted(o, k)[c].count = o[c].count - Cardinality(OfBuffer(c, k))
                 /\ Counted(o, k)[c].canRelease = o[c].canRelease
<1>1. ASSUME NEW c \in OutBufs
      PROVE  LET s == Counted(o, k)[c]
             IN  /\ s \in Buffer /\ s.canRelease = o[c].canRelease
                 /\ s.count = o[c].count - Cardinality(OfBuffer(c, k))
  <2>1. PICK count \in Int : count = o[c].count - Cardinality(OfBuffer(c, k))
    <3>1. o[c].count \in Int /\ Cardinality(OfBuffer(c, k)) \in Nat
      BY Counts DEF Buffer
    <3> QED BY <3>1
  <2>2. PICK r \in Buffer : r = o[c]
    OBVIOUS
  <2>3. Counted(o, k)[c] = [r EXCEPT !.count = count]
    BY <2>1, <2>2 DEF Counted
  <2> QED BY <2>1, <2>2, <2>3, CountBuffer
<1> QED BY <1>1 DEF Counted

\* A packet dropped is one that the queue of recent packets has.
LEMMA PutBuffers ==
    ASSUME TypeOK, NEW o \in [OutBufs -> Buffer], NEW b \in OutBufs, NEW len \in Lengths,
           NEW id \in 0..(IdMod - 1), PutPacket(o, b, len, id)
    PROVE  /\ ob' \in [OutBufs -> Buffer]
           /\ \A c \in OutBufs :
                 /\ ob'[c].off = IF c = b THEN o[b].off + Padded(len) ELSE o[c].off
                 /\ ob'[c].pacs = IF c = b THEN Append(o[b].pacs, accepted + 1) ELSE o[c].pacs
                 /\ ob'[c].wrote = o[c].wrote /\ ob'[c].canRelease = o[c].canRelease
                 /\ ob'[c].start = o[c].start
           /\ accepted' = accepted + 1 /\ handed' = handed /\ open' = open /\ fails' = fails
           /\ lost' = lost /\ freed' = freed
           /\ live' \subseteq OutBufs
           /\ \A c \in live \cup {b} : ~ o[c].canRelease => c \in live'
           /\ \A c \in live' : c \in live \cup {b}
           /\ recent' \in Seq(Packet)
           /\ overrun' = (overrun \/ (len % 2 = 1 /\ ob'[b].off >= BufferSize))
           /\ device' \in [buf : OutBufs \cup {NoBuf}, held : BOOLEAN, done : BOOLEAN]
<1> DEFINE n == WithPacket(o[b], len)
           o2 == [o EXCEPT ![b] = n]
<1>1. PICK k \in 0..Len(recent) :
          /\ ob' = Counted(o2, k)
          /\ live' = (live \cup {b}) \ Released(o2, k)
          /\ Disturb(Released(o2, k))
          /\ recent' = Append(SubSeq(recent, k + 1, Len(recent)),
                              NewPacket(accepted + 1, id, b, len))
          /\ overrun' = (overrun \/ (len % 2 = 1 /\ o2[b].off >= BufferSize))
          /\ accepted' = accepted + 1
          /\ UNCHANGED <<lost, freed, open, handed, fails>>
  BY DEF PutPacket
<1>2. len \in Nat /\ Padded(len) \in Nat /\ accepted + 1 \in Nat
  BY PacketWriterAssumption DEF Padded, TypeOK
<1>3. /\ o[b] \in Buffer /\ o[b].off + Padded(len) \in Nat
      /\ Append(o[b].pacs, accepted + 1) \in Seq(Nat) /\ o[b].count + 1 \in Int
  BY <1>2 DEF Buffer
<1>4. /\ n \in Buffer
      /\ n.off = o[b].off + Padded(len) /\ n.pacs = Append(o[b].pacs, accepted + 1)
      /\ n.wrote = o[b].wrote /\ n.canRelease = o[b].canRelease /\ n.start = o[b].start
  <2>1. PICK off \in Nat : off = o[b].off + Padded(len)
    BY <1>3
  <2>2. PICK pacs \in Seq(Nat) : pacs = Append(o[b].pacs, accepted + 1)
    BY <1>3
  <2>3. PICK count \in Int : count = o[b].count + 1
    BY <1>3
  <2>4. PICK r \in Buffer : r = o[b]
    BY <1>3
  <2>5. n = [r EXCEPT !.off = off, !.pacs = pacs, !.count = count]
    BY <2>1, <2>2, <2>3, <2>4 DEF WithPacket
  <2> HIDE DEF n
  <2>6. LET s == [r EXCEPT !.off = off, !.pacs = pacs, !.count = count]
        IN  /\ s \in Buffer
            /\ s.off = off /\ s.pacs = pacs /\ s.count = count
            /\ s.wrote = r.wrote /\ s.canRelease = r.canRelease /\ s.start = r.start
    BY ONLY r \in Buffer, off \in Nat, pacs \in Seq(Nat), count \in Int DEF Buffer
  <2> QED BY <2>1, <2>2, <2>4, <2>5, <2>6
<1> HIDE DEF n
<1>5. \A c \in OutBufs : o2[c] \in Buffer /\ o2[c] = IF c = b THEN n ELSE o[c]
  BY <1>4
<1> HIDE DEF o2
<1>6. \A c \in OutBufs : o2[c].count - Cardinality(OfBuffer(c, k)) \in Int
  <2> TAKE c \in OutBufs
  <2>1. o2[c].count \in Int
    BY <1>5 DEF Buffer
  <2>2. Cardinality(OfBuffer(c, k)) \in Nat
    BY <1>1, Counts DEF TypeOK
  <2> QED BY <2>1, <2>2
<1>7. \A c \in OutBufs :
          /\ ob'[c] \in Buffer /\ ob'[c].off = o2[c].off /\ ob'[c].pacs = o2[c].pacs
          /\ ob'[c].wrote = o2[c].wrote /\ ob'[c].canRelease = o2[c].canRelease
          /\ ob'[c].start = o2[c].start
  <2> TAKE c \in OutBufs
  <2>1. ob'[c] = [o2[c] EXCEPT !.count = o2[c].count - Cardinality(OfBuffer(c, k))]
    BY <1>1 DEF Counted
  <2> QED BY <1>5, <1>6, <2>1, CountBuffer
<1>8. ob' \in [OutBufs -> Buffer]
  BY <1>1, <1>7 DEF Counted
<1>9. \A c \in OutBufs : o2[c].canRelease = o[c].canRelease
  BY <1>4, <1>5
<1>10. /\ live' \subseteq OutBufs
       /\ \A c \in live \cup {b} : ~ o[c].canRelease => c \in live'
       /\ \A c \in live' : c \in live \cup {b}
  BY <1>1, <1>9 DEF Released, TypeOK
<1>11. recent' \in Seq(Packet)
  <2>1. NewPacket(accepted + 1, id, b, len) \in Packet
    BY <1>2 DEF NewPacket, Packet
  <2>2. SubSeq(recent, k + 1, Len(recent)) \in Seq(Packet)
    BY <1>1, SubSeqProperties DEF TypeOK
  <2> QED BY <1>1, <2>1, <2>2
<1>12. device' \in [buf : OutBufs \cup {NoBuf}, held : BOOLEAN, done : BOOLEAN]
  BY <1>1 DEF Disturb, TypeOK
<1>13. \A c \in OutBufs :
          /\ ob'[c].off = IF c = b THEN o[b].off + Padded(len) ELSE o[c].off
          /\ ob'[c].pacs = IF c = b THEN Append(o[b].pacs, accepted + 1) ELSE o[c].pacs
          /\ ob'[c].wrote = o[c].wrote /\ ob'[c].canRelease = o[c].canRelease
          /\ ob'[c].start = o[c].start
  <2> TAKE c \in OutBufs
  <2>1. CASE c = b
    BY <1>4, <1>5, <1>7, <2>1
  <2>2. CASE c # b
    <3>1. o2[c] = o[c]
      BY <1>5, <2>2
    <3> QED BY <1>7, <2>2, <3>1
  <2> QED BY <2>1, <2>2
<1>14. o2[b].off = ob'[b].off
  BY <1>7
<1> QED BY <1>1, <1>8, <1>10, <1>11, <1>12, <1>13, <1>14

LEMMA FreshBuffers ==
    ASSUME TypeOK, NEW b \in OutBufs
    PROVE  /\ Fresh(b) \in [OutBufs -> Buffer]
           /\ \A c \in OutBufs \ {b} : Fresh(b)[c] = ob[c]
           /\ Fresh(b)[b].off = 0 /\ Fresh(b)[b].pacs = <<>> /\ Fresh(b)[b].wrote = 0
           /\ Fresh(b)[b].canRelease = FALSE /\ Fresh(b)[b].start = accepted
           /\ Fresh(b)[b].count = 0
<1>1. accepted \in Nat /\ ob \in [OutBufs -> Buffer]
  BY DEF TypeOK
<1> DEFINE s == [EmptyBuffer EXCEPT !.start = accepted]
<1>2. /\ s \in Buffer /\ s.off = 0 /\ s.pacs = <<>> /\ s.wrote = 0
      /\ s.canRelease = FALSE /\ s.start = accepted /\ s.count = 0
  BY <1>1, StartBuffer
<1>3. Fresh(b) = [ob EXCEPT ![b] = s]
  BY DEF Fresh
<1> HIDE DEF s
<1> QED BY <1>1, <1>2, <1>3

\* What a write does to the buffers.
LEMMA SendBuffers ==
    ASSUME TypeOK, SendToRemote
    PROVE  LET b == queue[1]
               n == Len(ob[b].pacs)
           IN  /\ queue # <<>> /\ b \in OutBufs
               /\ ob' \in [OutBufs -> Buffer]
               /\ \A c \in OutBufs :
                     /\ ob'[c].off = ob[c].off /\ ob'[c].pacs = ob[c].pacs
                     /\ ob'[c].start = ob[c].start /\ ob'[c].count = ob[c].count
                     /\ ob'[c].wrote = IF c = b THEN n ELSE ob[c].wrote
                     /\ ob'[c].canRelease = IF c = b THEN Len(queue) > 1 ELSE ob[c].canRelease
               /\ queue' = IF Len(queue) > 1 THEN Tail(queue) ELSE queue
<1> DEFINE b == queue[1]
           n == Len(ob[b].pacs)
<1>1. queue # <<>> /\ Head(queue) = queue[1] /\ b \in OutBufs
  BY DEF SendToRemote, TypeOK
<1>2. /\ ob' = [ob EXCEPT ![b] = [@ EXCEPT !.wrote = n, !.canRelease = Len(queue) > 1]]
      /\ queue' = IF Len(queue) > 1 THEN Tail(queue) ELSE queue
  BY <1>1 DEF SendToRemote
<1>3. ob[b] \in Buffer /\ n \in Nat
  <2>1. ob \in [OutBufs -> Buffer] /\ b \in OutBufs
    BY <1>1 DEF TypeOK
  <2> HIDE DEF b
  <2> QED BY <2>1, Fields
<1>4. PICK r \in Buffer : r = ob[b]
  BY <1>3
<1>5. PICK w \in Nat : w = n
  BY <1>3
<1>6. PICK can \in BOOLEAN : can = (Len(queue) > 1)
  <2> DEFINE more == Len(queue) > 1
  <2>1. more \in BOOLEAN
    BY SMT
  <2> HIDE DEF more
  <2>2. \E can \in BOOLEAN : can = more
    BY <2>1, Zenon
  <2> QED BY <2>2 DEF more
<1> DEFINE s == [r EXCEPT !.wrote = w, !.canRelease = can]
<1>7. /\ s \in Buffer
      /\ s.off = r.off /\ s.pacs = r.pacs /\ s.wrote = w /\ s.canRelease = can
      /\ s.start = r.start /\ s.count = r.count
  BY DEF Buffer
<1>8. ob' = [ob EXCEPT ![b] = s]
  BY <1>2, <1>4, <1>5, <1>6
<1> HIDE DEF s
<1>9. /\ ob' \in [OutBufs -> Buffer]
      /\ ob'[b] = s /\ \A c \in OutBufs \ {b} : ob'[c] = ob[c]
  BY <1>1, <1>7, <1>8 DEF TypeOK
<1> QED BY <1>1, <1>2, <1>4, <1>5, <1>6, <1>7, <1>9

\* The parts of TypeOK but those on nextId, the queue and its last buffer.
Types ==
    /\ recent \in Seq(Packet)
    /\ ob \in [OutBufs -> Buffer]
    /\ live \subseteq OutBufs /\ lost \subseteq OutBufs /\ freed \subseteq OutBufs
    /\ open \in {"open", "closed", "destroyed", "wild"}
    /\ device \in [buf : OutBufs \cup {NoBuf}, held : BOOLEAN, done : BOOLEAN]
    /\ accepted \in Nat /\ handed \in Seq(Nat)
    /\ fails \in Nat

QueueTypes == queue \in Seq(OutBufs) /\ cur \in OutBufs \cup {NoBuf}

LEMMA Parts ==
    TypeOK <=> Types /\ QueueTypes /\ nextId \in 0..(IdMod - 1) /\ overrun \in BOOLEAN
BY DEF TypeOK, Types, QueueTypes

LEMMA InitTypes == Init => TypeOK
<1> SUFFICES ASSUME Init PROVE TypeOK
  OBVIOUS
<1>1. EmptyBuffer \in Buffer
  BY DEF EmptyBuffer, Buffer
<1>2. /\ ob \in [OutBufs -> Buffer] /\ nextId \in 0..(IdMod - 1)
      /\ accepted \in Nat /\ fails \in Nat
  BY <1>1, PacketWriterAssumption DEF Init
<1>3. queue \in Seq(OutBufs) /\ recent \in Seq(Packet) /\ handed \in Seq(Nat)
  BY EmptySeq DEF Init
<1>4. device \in [buf : OutBufs \cup {NoBuf}, held : BOOLEAN, done : BOOLEAN]
  BY DEF Init, Ready
<1>5. live = {} /\ lost = {} /\ overrun = FALSE /\ freed = {} /\ open = "open" /\ cur = NoBuf
  BY DEF Init
<1> QED BY <1>2, <1>3, <1>4, <1>5 DEF TypeOK

LEMMA Queued ==
    ASSUME TypeOK, NEW b \in OutBufs, TakeBuffer(b)
    PROVE  QueueTypes'
BY DEF TypeOK, TakeBuffer, QueueTypes

LEMMA AllocTypes ==
    ASSUME TypeOK, NEW len \in Lengths, NEW id \in 0..(IdMod - 1), AllocPacketWithId(len, id)
    PROVE  Types' /\ QueueTypes' /\ overrun' \in BOOLEAN
<1>0. /\ recent \in Seq(Packet) /\ ob \in [OutBufs -> Buffer]
      /\ live \subseteq OutBufs /\ lost \subseteq OutBufs /\ freed \subseteq OutBufs
      /\ open \in {"open", "closed", "destroyed", "wild"} /\ accepted \in Nat /\ handed \in Seq(Nat)
      /\ fails \in Nat /\ device \in [buf : OutBufs \cup {NoBuf}, held : BOOLEAN, done : BOOLEAN]
      /\ queue \in Seq(OutBufs) /\ cur \in OutBufs \cup {NoBuf}
  BY DEF TypeOK
<1>1. ASSUME NEW o \in [OutBufs -> Buffer], NEW b \in OutBufs, PutPacket(o, b, len, id)
      PROVE  Types' /\ overrun' \in BOOLEAN
  <2>1. /\ ob' \in [OutBufs -> Buffer] /\ accepted' = accepted + 1 /\ handed' = handed
        /\ open' = open /\ fails' = fails /\ lost' = lost /\ freed' = freed
        /\ live' \subseteq OutBufs
        /\ recent' \in Seq(Packet)
        /\ device' \in [buf : OutBufs \cup {NoBuf}, held : BOOLEAN, done : BOOLEAN]
        /\ overrun' = (overrun \/ (len % 2 = 1 /\ ob'[b].off >= BufferSize))
    BY <1>1, PutBuffers
  <2>2. Types'
    BY <1>0, <2>1 DEF Types
  <2>3. overrun' \in BOOLEAN
    BY <2>1, Zenon
  <2> QED BY <2>2, <2>3
<1>2. CASE AllocInBuffer(len, id)
  <2>1. cur # NoBuf /\ PutPacket(ob, cur, len, id) /\ queue' = queue /\ cur' = cur
    BY <1>2 DEF AllocInBuffer, NeedsBuffer
  <2>2. QueueTypes'
    BY <1>0, <2>1 DEF QueueTypes
  <2> QED BY <1>0, <1>1, <2>1, <2>2
<1>3. CASE AllocNewBuffer(len, id)
  <2>1. PICK b \in OutBufs : TakeBuffer(b) /\ PutPacket(Fresh(b), b, len, id)
    BY <1>3 DEF AllocNewBuffer
  <2> QED BY <1>1, <2>1, FreshBuffers, Queued
<1>4. CASE AllocFails(len)
  <2>1. fails' \in Nat /\ recent' = recent /\ open' = open /\ accepted' = accepted
        /\ handed' = handed
    BY <1>0, <1>4 DEF AllocFails
  <2>2. CASE AllocRefused
    <3>1. /\ queue' = queue /\ cur' = cur /\ ob' = ob /\ live' = live /\ lost' = lost
          /\ overrun' = overrun /\ freed' = freed /\ device' = device
      BY <2>2 DEF AllocRefused, bufferVars
    <3>2. Types' /\ QueueTypes'
      BY <1>0, <2>1, <3>1 DEF Types, QueueTypes
    <3> QED BY <3>1, <3>2 DEF TypeOK
  <2>3. CASE AllocNoBuffer(len)
    <3>1. /\ queue' = queue /\ cur' = cur /\ ob' = ob /\ live' \subseteq OutBufs
          /\ lost' \subseteq OutBufs /\ overrun' = overrun /\ freed' = freed
          /\ device' = device
      BY <1>0, <2>3 DEF AllocNoBuffer
    <3>2. Types' /\ QueueTypes'
      BY <1>0, <2>1, <3>1 DEF Types, QueueTypes
    <3> QED BY <3>1, <3>2 DEF TypeOK
  <2>4. CASE AllocNoPacket(len)
    <3>1. PICK b \in OutBufs : TakeBuffer(b) /\ ob' = Fresh(b) /\ live' = live \cup {b}
      BY <2>4 DEF AllocNoPacket
    <3>2. lost' = lost /\ overrun' = overrun /\ freed' = freed /\ device' = device
      BY <2>4 DEF AllocNoPacket
    <3>3. ob' \in [OutBufs -> Buffer]
      BY <3>1, FreshBuffers
    <3>4. Types'
      BY <1>0, <2>1, <3>1, <3>2, <3>3 DEF Types
    <3>5. QueueTypes'
      BY <3>1, Queued
    <3> QED BY <3>2, <3>4, <3>5 DEF TypeOK
  <2> QED BY <1>4, <2>2, <2>3, <2>4 DEF AllocFails
<1> QED BY <1>2, <1>3, <1>4 DEF AllocPacketWithId

\* No packet of those kept has the id asked for.
LEMMA NoMatch ==
    ASSUME NEW packId \in 0..(IdMod - 1), ResendPacket(packId)
    PROVE  UNCHANGED vars
<1>1. \A op : ~ Matches(op, packId)
  BY PacketWriterAssumption DEF Matches
<1>2. UNCHANGED <<queue, recent, cur, bufferVars, remoteVars, historyVars>> /\ UNCHANGED nextId
  BY <1>1 DEF ResendPacket
<1> QED BY <1>2 DEF vars, writerVars

LEMMA DestroyTypes ==
    ASSUME TypeOK, DestroyPacketWriter
    PROVE  TypeOK'
<1>0. /\ recent \in Seq(Packet) /\ ob \in [OutBufs -> Buffer] /\ queue \in Seq(OutBufs)
      /\ live \subseteq OutBufs /\ freed \subseteq OutBufs
  BY DEF TypeOK
<1>1. CASE DestroyBuffer
  <2>1. /\ Head(queue) \in OutBufs /\ Tail(queue) \in Seq(OutBufs)
    BY <1>0, <1>1 DEF DestroyBuffer
  <2>2. /\ live' \subseteq OutBufs /\ freed' \subseteq OutBufs /\ queue' \in Seq(OutBufs)
    BY <1>0, <1>1, <2>1 DEF DestroyBuffer
  <2> QED BY <1>1, <2>2 DEF DestroyBuffer, TypeOK, remoteVars, historyVars
<1>2. CASE DestroyPacket
  <2>1. live' \subseteq OutBufs /\ recent' \in Seq(Packet)
    BY <1>0, <1>2 DEF DestroyPacket
  <2>2. ob' \in [OutBufs -> Buffer]
    BY <1>0, <1>2, CountedBuffers DEF DestroyPacket
  <2> QED BY <1>2, <2>1, <2>2 DEF DestroyPacket, TypeOK, remoteVars, historyVars
<1>3. CASE DestroyForeign
  BY <1>3 DEF DestroyForeign, TypeOK, writerVars, bufferVars, historyVars
<1>4. CASE DestroyWriter
  BY <1>4 DEF DestroyWriter, TypeOK, bufferVars, historyVars
<1> QED BY <1>1, <1>2, <1>3, <1>4 DEF DestroyPacketWriter

LEMMA StepTypes == TypeOK /\ [Next]_vars => TypeOK'
<1> SUFFICES ASSUME TypeOK, [Next]_vars PROVE TypeOK'
  OBVIOUS
<1>0. /\ recent \in Seq(Packet) /\ ob \in [OutBufs -> Buffer]
      /\ live \subseteq OutBufs /\ lost \subseteq OutBufs /\ freed \subseteq OutBufs
      /\ open \in {"open", "closed", "destroyed", "wild"} /\ accepted \in Nat /\ handed \in Seq(Nat)
      /\ fails \in Nat /\ device \in [buf : OutBufs \cup {NoBuf}, held : BOOLEAN, done : BOOLEAN]
      /\ queue \in Seq(OutBufs) /\ cur \in OutBufs \cup {NoBuf}
      /\ nextId \in 0..(IdMod - 1) /\ overrun \in BOOLEAN
  BY DEF TypeOK
<1>1. CASE UNCHANGED vars
  BY <1>1 DEF TypeOK, vars, writerVars, bufferVars, remoteVars, historyVars
<1>2. ASSUME NEW len \in Lengths, AllocPacket(len) PROVE TypeOK'
  <2>1. nextId' \in 0..(IdMod - 1) /\ AllocPacketWithId(len, nextId)
    BY <1>0, <1>2, PacketWriterAssumption DEF AllocPacket
  <2> QED BY <1>0, <2>1, AllocTypes, Parts DEF TypeOK, Types, QueueTypes
<1>3. ASSUME NEW packId \in 0..(IdMod - 1), ResendPacket(packId) PROVE TypeOK'
  BY <1>1, <1>3, NoMatch
<1>4. CASE SendToRemote
  <2>1. /\ queue # <<>> /\ queue[1] \in OutBufs /\ Head(queue) = queue[1]
        /\ ob' \in [OutBufs -> Buffer]
        /\ queue' = IF Len(queue) > 1 THEN Tail(queue) ELSE queue
    BY <1>4, <1>0, SendBuffers
  <2>2. queue' \in Seq(OutBufs)
    BY <1>0, <2>1
  <2>3. /\ cur' = cur /\ nextId' = nextId /\ live' = live /\ lost' = lost
        /\ overrun' = overrun /\ freed' = freed /\ open' = open /\ accepted' = accepted
        /\ fails' = fails
    BY <1>4 DEF SendToRemote
  <2> DEFINE b == queue[1]
             n == Len(ob[b].pacs)
  <2>4. CASE ob[b].wrote < n
    <3>1. WriteHead
      BY <1>4, <2>1, <2>4 DEF SendToRemote
    <3>2. device' \in [buf : OutBufs \cup {NoBuf}, held : BOOLEAN, done : BOOLEAN]
      BY <2>1, <3>1 DEF WriteHead
    <3>3. ob[b].pacs \in Seq(Nat) /\ ob[b].wrote \in Nat
      BY <1>0, <2>1 DEF Buffer
    <3>4. SubSeq(ob[b].pacs, ob[b].wrote + 1, n) \in Seq(Nat)
      BY <3>3, SubSeqProperties
    <3>5. handed' = handed \o SubSeq(ob[b].pacs, ob[b].wrote + 1, n)
      BY <2>1, <3>1 DEF WriteHead
    <3>6. handed' \in Seq(Nat)
      BY <1>0, <3>4, <3>5, ConcatProperties
    <3>7. recent' \in Seq(Packet)
      <4>1. recent' = [i \in 1..Len(recent) |->
                          IF recent[i].buf = b THEN [recent[i] EXCEPT !.sent = TRUE]
                          ELSE recent[i]]
        BY <1>0, <2>1, <3>1 DEF WriteHead
      <4>2. \A i \in 1..Len(recent) : recent[i] \in Packet
        BY <1>0
      <4>3. \A op \in Packet : [op EXCEPT !.sent = TRUE] \in Packet
        BY DEF Packet
      <4>4. Len(recent) \in Nat
        BY <1>0
      <4> QED BY <4>1, <4>2, <4>3, <4>4
    <3> QED BY <1>0, <2>1, <2>2, <2>3, <3>2, <3>6, <3>7 DEF TypeOK
  <2>5. CASE ~ (ob[b].wrote < n)
    <3>1. recent' = recent /\ device' = device /\ handed' = handed
      BY <1>4, <2>1, <2>5 DEF SendToRemote
    <3> QED BY <1>0, <2>1, <2>2, <2>3, <3>1 DEF TypeOK
  <2> QED BY <2>4, <2>5
<1>5. CASE WriteDone
  BY <1>0, <1>5 DEF WriteDone, TypeOK, writerVars, bufferVars, historyVars
<1>6. CASE HandleSignal
  BY <1>0, <1>6 DEF HandleSignal, TypeOK, writerVars, bufferVars, historyVars, Ready
<1>7. CASE CloseRemote
  BY <1>0, <1>7 DEF CloseRemote, TypeOK, writerVars, bufferVars, historyVars, Ready
<1>8. CASE DestroyPacketWriter
  BY <1>0, <1>8, DestroyTypes
<1> QED BY <1>1, <1>2, <1>3, <1>4, <1>5, <1>6, <1>7, <1>8 DEF Next

\* Every variable of the packet writer keeps its type: no id outside a UWORD, no
\* buffer or packet that does not exist.
THEOREM TypeCorrect == Spec => []TypeOK
<1> QED BY InitTypes, StepTypes, PTL DEF Spec

-----------------------------------------------------------------------------
(* The queue.                                                              *)

\* With fields o of the buffers, q is a queue of distinct allocated buffers
\* that nothing will give back.  They hold, one behind the other, the packets
\* up to the acc-th in order; hd packets have been handed to the device, and
\* of the buffers behind the first nothing.
Filled(o, l, acc, b) ==
    /\ b \in l /\ ~ o[b].canRelease
    /\ o[b].wrote <= Len(o[b].pacs)
    /\ o[b].start + Len(o[b].pacs) <= acc
    /\ \A k \in 1..Len(o[b].pacs) : o[b].pacs[k] = o[b].start + k

Chained(o, q) ==
    \A i \in 1..Len(q) :
        i > 1 => /\ o[q[i]].wrote = 0
                 /\ o[q[i]].start = o[q[i - 1]].start + Len(o[q[i - 1]].pacs)

InOrderQueue(o, l, acc, hd, q) ==
    /\ \A i \in 1..Len(q) : Filled(o, l, acc, q[i])
    /\ \A i, j \in 1..Len(q) : q[i] = q[j] => i = j
    /\ Chained(o, q)
    /\ o[q[Len(q)]].start + Len(o[q[Len(q)]].pacs) = acc
    /\ o[q[1]].start + o[q[1]].wrote = hd

QueueInv ==
    IF queue # <<>>
    THEN cur = queue[Len(queue)] /\ InOrderQueue(ob, live, accepted, Len(handed), queue)
    ELSE cur = NoBuf /\ accepted = Len(handed)

\* Of that, what APB_DestroyPacketWriter leaves of the queue.
QueueWhole ==
    /\ \A i \in 1..Len(queue) : queue[i] \in live /\ ~ ob[queue[i]].canRelease
    /\ \A i, j \in 1..Len(queue) : queue[i] = queue[j] => i = j

QueueKept == (open = "open" => QueueInv) /\ QueueWhole

\* The queue with a packet more in its last buffer.
LEMMA PutQueue ==
    ASSUME TypeOK, NEW o \in [OutBufs -> Buffer], NEW q \in Seq(OutBufs), q # <<>>,
           NEW len \in Lengths, NEW id \in 0..(IdMod - 1), NEW l, l \subseteq live \cup {q[Len(q)]},
           InOrderQueue(o, l, accepted, Len(handed), q), PutPacket(o, q[Len(q)], len, id)
    PROVE  InOrderQueue(ob', live', accepted', Len(handed'), q)
<1> DEFINE b == q[Len(q)]
<1>1. /\ Len(q) \in Nat /\ Len(q) >= 1 /\ b \in OutBufs
      /\ \A i \in 1..Len(q) : q[i] \in OutBufs
      /\ accepted \in Nat /\ Len(handed) \in Nat
  BY DEF TypeOK
<1>2. /\ ob' \in [OutBufs -> Buffer]
      /\ \A c \in OutBufs :
            /\ ob'[c].pacs = IF c = b THEN Append(o[b].pacs, accepted + 1) ELSE o[c].pacs
            /\ ob'[c].wrote = o[c].wrote /\ ob'[c].canRelease = o[c].canRelease
            /\ ob'[c].start = o[c].start
      /\ accepted' = accepted + 1 /\ handed' = handed
      /\ \A c \in live \cup {b} : ~ o[c].canRelease => c \in live'
  BY <1>1, PutBuffers
<1>3. \A c \in OutBufs : /\ o[c].start \in Nat /\ o[c].wrote \in Nat
                         /\ o[c].pacs \in Seq(Nat) /\ Len(o[c].pacs) \in Nat
  BY Fields
<1>4. /\ \A i \in 1..Len(q) : Filled(o, l, accepted, q[i])
      /\ \A i, j \in 1..Len(q) : q[i] = q[j] => i = j
      /\ Chained(o, q)
      /\ o[b].start + Len(o[b].pacs) = accepted
      /\ o[q[1]].start + o[q[1]].wrote = Len(handed)
  BY DEF InOrderQueue
<1> HIDE DEF b
<1>5. /\ Len(ob'[b].pacs) = Len(o[b].pacs) + 1
      /\ \A k \in 1..Len(o[b].pacs) : ob'[b].pacs[k] = o[b].pacs[k]
      /\ ob'[b].pacs[Len(o[b].pacs) + 1] = accepted + 1
      /\ ob'[b].start = o[b].start /\ ob'[b].wrote = o[b].wrote
  <2>1. ob'[b].pacs = Append(o[b].pacs, accepted + 1)
    BY <1>1, <1>2
  <2>2. o[b].pacs \in Seq(Nat) /\ accepted + 1 \in Nat
    BY <1>1, <1>3
  <2>3. ob'[b].start = o[b].start /\ ob'[b].wrote = o[b].wrote
    BY <1>1, <1>2
  <2> QED BY <2>1, <2>2, <2>3, AppendProperties
<1>10. \A c \in OutBufs \ {b} :
          /\ ob'[c].pacs = o[c].pacs /\ ob'[c].wrote = o[c].wrote
          /\ ob'[c].start = o[c].start
  BY <1>2
<1>6. \A i \in 1..Len(q) : Filled(ob', live', accepted', q[i])
  <2> TAKE i \in 1..Len(q)
  <2>1. Filled(o, l, accepted, q[i]) /\ q[i] \in OutBufs
    BY <1>1, <1>4
  <2>2. q[i] \in live' /\ ~ ob'[q[i]].canRelease
    BY <2>1, <1>2 DEF Filled, b
  <2>3. CASE q[i] = b
    <3>1. /\ o[b].wrote <= Len(o[b].pacs)
          /\ \A k \in 1..Len(o[b].pacs) : o[b].pacs[k] = o[b].start + k
      BY <2>1, <2>3 DEF Filled
    <3>2. accepted' = accepted + 1
      BY <1>2
    <3>3. o[b].start + Len(o[b].pacs) = accepted /\ accepted \in Nat
      BY <1>1, <1>4
    <3>4. /\ ob'[b].wrote = o[b].wrote /\ ob'[b].start = o[b].start
          /\ ob'[b].pacs = Append(o[b].pacs, accepted + 1)
          /\ o[b].start \in Nat /\ o[b].wrote \in Nat /\ o[b].pacs \in Seq(Nat)
      BY <1>1, <1>2, <1>3
    <3>5. /\ o[b].wrote <= Len(ob'[b].pacs) /\ o[b].start + Len(ob'[b].pacs) = accepted + 1
          /\ \A k \in 1..Len(ob'[b].pacs) : ob'[b].pacs[k] = o[b].start + k
      <4>1. PICK n \in Nat : n = Len(o[b].pacs)
        BY <3>4
      <4>2. PICK st \in Nat : st = o[b].start
        BY <3>4
      <4>3. PICK wr \in Nat : wr = o[b].wrote
        BY <3>4
      <4>4. PICK acc \in Nat : acc = accepted
        BY <3>3
      <4>5. PICK p2 : p2 = ob'[b].pacs
        OBVIOUS
      <4>6. /\ wr <= n /\ st + n = acc
            /\ Len(p2) = n + 1 /\ p2[n + 1] = acc + 1 /\ \A k \in 1..n : p2[k] = st + k
        BY <1>5, <3>1, <3>3, <4>1, <4>2, <4>3, <4>4, <4>5, Zenon
      <4>7. wr <= n + 1 /\ st + (n + 1) = acc + 1
        BY ONLY <4>6, n \in Nat, st \in Nat, wr \in Nat, acc \in Nat
      <4>8. \A k \in 1..(n + 1) : p2[k] = st + k
        <5> TAKE k \in 1..(n + 1)
        <5>1. k \in 1..n \/ k = n + 1
          BY ONLY n \in Nat, k \in 1..(n + 1)
        <5> QED BY <4>6, <4>7, <5>1, Zenon
      <4> QED BY <4>2, <4>3, <4>4, <4>5, <4>6, <4>7, <4>8, Zenon
    <3>6. /\ ob'[b].wrote <= Len(ob'[b].pacs)
          /\ ob'[b].start + Len(ob'[b].pacs) <= accepted'
          /\ \A k \in 1..Len(ob'[b].pacs) : ob'[b].pacs[k] = ob'[b].start + k
      <4>1. accepted + 1 <= accepted + 1
        BY <3>3
      <4> QED BY ONLY <3>2, <3>4, <3>5, <4>1
    <3> QED BY <2>2, <2>3, <3>6 DEF Filled
  <2>4. CASE q[i] # b
    <3>1. /\ ob'[q[i]].wrote <= Len(ob'[q[i]].pacs)
          /\ ob'[q[i]].start + Len(ob'[q[i]].pacs) <= accepted'
          /\ \A k \in 1..Len(ob'[q[i]].pacs) : ob'[q[i]].pacs[k] = ob'[q[i]].start + k
      <4>1. accepted' = accepted + 1
        BY <1>2
      <4>2. /\ ob'[q[i]].pacs = o[q[i]].pacs /\ ob'[q[i]].wrote = o[q[i]].wrote
            /\ ob'[q[i]].start = o[q[i]].start
            /\ o[q[i]].start \in Nat /\ Len(o[q[i]].pacs) \in Nat
        BY <1>3, <1>10, <2>1, <2>4
      <4> QED BY <1>1, <2>1, <4>1, <4>2 DEF Filled
    <3> QED BY <2>2, <3>1 DEF Filled
  <2> QED BY <2>3, <2>4
<1>7. Chained(ob', q)
  <2> SUFFICES ASSUME NEW i \in 1..Len(q), i > 1
               PROVE  /\ ob'[q[i]].wrote = 0
                      /\ ob'[q[i]].start = ob'[q[i - 1]].start + Len(ob'[q[i - 1]].pacs)
    BY DEF Chained
  <2>1. i - 1 \in 1..Len(q) /\ i - 1 # Len(q)
    BY <1>1
  <2>2. q[i - 1] # b /\ q[i - 1] \in OutBufs /\ q[i] \in OutBufs
    BY <1>1, <1>4, <2>1 DEF b
  <2> QED BY <1>2, <1>4, <1>10, <2>2 DEF Chained
<1>8. ob'[b].start + Len(ob'[b].pacs) = accepted'
  <2>1. accepted' = accepted + 1
    BY <1>2
  <2>2. /\ o[b].start \in Nat /\ Len(o[b].pacs) \in Nat /\ accepted \in Nat
        /\ o[b].start + Len(o[b].pacs) = accepted
        /\ Len(ob'[b].pacs) = Len(o[b].pacs) + 1 /\ ob'[b].start = o[b].start
    BY <1>1, <1>3, <1>4, <1>5
  <2>3. ob'[b].start + Len(ob'[b].pacs) = o[b].start + (Len(o[b].pacs) + 1)
    BY <2>2, Zenon
  <2>4. o[b].start + (Len(o[b].pacs) + 1) = (o[b].start + Len(o[b].pacs)) + 1
    <3>1. \A x, y \in Nat : x + (y + 1) = (x + y) + 1
      OBVIOUS
    <3> QED BY <2>2, <3>1, Zenon
  <2> QED BY <2>1, <2>2, <2>3, <2>4, Zenon
<1>9. ob'[q[1]].start + ob'[q[1]].wrote = Len(handed')
  BY <1>1, <1>2, <1>4
<1> QED BY <1>4, <1>6, <1>7, <1>8, <1>9 DEF InOrderQueue, b

\* The queue with a buffer more.
LEMMA TakeQueue ==
    ASSUME TypeOK, QueueInv, open = "open", NEW b \in OutBufs, TakeBuffer(b)
    PROVE  /\ queue' \in Seq(OutBufs) /\ queue' # <<>>
           /\ cur' = b /\ queue'[Len(queue')] = b
           /\ InOrderQueue(Fresh(b), live \cup {b}, accepted, Len(handed), queue')
<1>1. /\ queue \in Seq(OutBufs) /\ b \notin live /\ queue' = Append(queue, b) /\ cur' = b
      /\ Len(queue) \in Nat /\ accepted \in Nat
  BY DEF TakeBuffer, TypeOK
<1>2. /\ queue' \in Seq(OutBufs) /\ Len(queue') = Len(queue) + 1
      /\ queue'[Len(queue) + 1] = b
      /\ \A i \in 1..Len(queue) : queue'[i] = queue[i] /\ queue[i] \in OutBufs
  BY <1>1
<1>3. /\ Fresh(b) \in [OutBufs -> Buffer]
      /\ \A c \in OutBufs \ {b} : Fresh(b)[c] = ob[c]
      /\ Fresh(b)[b].pacs = <<>> /\ Fresh(b)[b].wrote = 0
      /\ Fresh(b)[b].canRelease = FALSE /\ Fresh(b)[b].start = accepted
  BY FreshBuffers
<1> DEFINE o == Fresh(b)
<1> HIDE DEF o
<1>4. Len(o[b].pacs) = 0 /\ o[b].start + Len(o[b].pacs) = accepted
  BY <1>1, <1>3 DEF o
<1>5. Filled(o, live \cup {b}, accepted, b)
  BY <1>1, <1>3, <1>4 DEF Filled, o
<1>6. CASE queue = <<>>
  <2>1. Len(queue') = 1 /\ queue'[1] = b /\ accepted = Len(handed)
    BY <1>1, <1>2, <1>6 DEF QueueInv
  <2>2. \A i \in 1..Len(queue') : i = 1
    BY <2>1
  <2>3. Chained(o, queue')
    BY <2>2 DEF Chained
  <2>4. o[b].start + o[b].wrote = Len(handed)
    BY <1>1, <1>3, <2>1 DEF o
  <2>5. InOrderQueue(o, live \cup {b}, accepted, Len(handed), queue')
    BY <1>4, <1>5, <2>1, <2>2, <2>3, <2>4 DEF InOrderQueue
  <2> QED BY <1>1, <1>2, <1>6, <2>1, <2>5 DEF o
<1>7. CASE queue # <<>>
  <2>1. /\ \A i \in 1..Len(queue) : Filled(ob, live, accepted, queue[i])
        /\ \A i, j \in 1..Len(queue) : queue[i] = queue[j] => i = j
        /\ Chained(ob, queue)
        /\ ob[queue[Len(queue)]].start + Len(ob[queue[Len(queue)]].pacs) = accepted
        /\ ob[queue[1]].start + ob[queue[1]].wrote = Len(handed)
    BY <1>7 DEF QueueInv, InOrderQueue
  <2>2. Len(queue) >= 1
    BY <1>1, <1>7
  <2>3. \A i \in 1..Len(queue) : queue[i] # b /\ o[queue[i]] = ob[queue[i]]
    <3> TAKE i \in 1..Len(queue)
    <3>1. queue[i] \in live
      BY <2>1 DEF Filled
    <3> QED BY <1>1, <1>2, <1>3, <3>1 DEF o
  <2>4. \A i \in 1..Len(queue') : Filled(o, live \cup {b}, accepted, queue'[i])
    <3> TAKE i \in 1..Len(queue')
    <3>1. CASE i = Len(queue) + 1
      BY <1>2, <1>5, <3>1
    <3>2. CASE i \in 1..Len(queue)
      <4>1. Filled(ob, live, accepted, queue[i]) /\ o[queue[i]] = ob[queue[i]]
            /\ queue'[i] = queue[i]
        BY <1>2, <2>1, <2>3, <3>2
      <4> QED BY <4>1 DEF Filled
    <3> QED BY <1>1, <1>2, <3>1, <3>2
  <2>5. \A i, j \in 1..Len(queue') : queue'[i] = queue'[j] => i = j
    <3> TAKE i, j \in 1..Len(queue')
    <3>1. \A x \in 1..Len(queue') : x \in 1..Len(queue) \/ x = Len(queue) + 1
      BY <1>1, <1>2
    <3> QED BY <1>1, <1>2, <2>1, <2>3, <3>1
  <2>6. Chained(o, queue')
    <3> SUFFICES ASSUME NEW i \in 1..Len(queue'), i > 1
                 PROVE  /\ o[queue'[i]].wrote = 0
                        /\ o[queue'[i]].start
                             = o[queue'[i - 1]].start + Len(o[queue'[i - 1]].pacs)
      BY DEF Chained
    <3>1. /\ i - 1 \in 1..Len(queue) /\ queue'[i - 1] = queue[i - 1]
          /\ o[queue[i - 1]] = ob[queue[i - 1]]
      BY <1>1, <1>2, <2>3
    <3>2. CASE i = Len(queue) + 1
      <4>1. queue'[i] = b /\ i - 1 = Len(queue)
        BY <1>1, <1>2, <3>2
      <4> QED BY <1>3, <2>1, <3>1, <4>1 DEF o
    <3>3. CASE i \in 1..Len(queue)
      BY <1>2, <2>1, <2>3, <3>1, <3>3 DEF Chained
    <3> QED BY <1>1, <1>2, <3>2, <3>3
  <2>7. o[queue'[1]].start + o[queue'[1]].wrote = Len(handed)
    BY <1>2, <2>1, <2>2, <2>3
  <2>8. InOrderQueue(o, live \cup {b}, accepted, Len(handed), queue')
    BY <1>2, <1>4, <2>4, <2>5, <2>6, <2>7 DEF InOrderQueue
  <2> QED BY <1>1, <1>2, <2>8 DEF o
<1> QED BY <1>6, <1>7

\* A call of APB_AllocPacketWithId accepts one packet or none.
LEMMA AllocQueue ==
    ASSUME TypeOK, QueueInv, open = "open", NEW len \in Lengths, NEW id \in 0..(IdMod - 1),
           AllocPacketWithId(len, id)
    PROVE  QueueInv' /\ handed' = handed /\ accepted' \in {accepted, accepted + 1}
<1>1. CASE AllocInBuffer(len, id)
  <2>1. cur # NoBuf /\ PutPacket(ob, cur, len, id) /\ queue' = queue /\ cur' = cur
    BY <1>1 DEF AllocInBuffer, NeedsBuffer
  <2>2. /\ queue # <<>> /\ cur = queue[Len(queue)]
        /\ InOrderQueue(ob, live, accepted, Len(handed), queue)
    BY <2>1 DEF QueueInv
  <2>3. ob \in [OutBufs -> Buffer] /\ queue \in Seq(OutBufs) /\ cur \in OutBufs
    BY <2>1 DEF TypeOK
  <2>4. InOrderQueue(ob', live', accepted', Len(handed'), queue)
    BY <2>1, <2>2, <2>3, PutQueue
  <2>5. accepted' = accepted + 1 /\ handed' = handed
    BY <2>1, <2>3, PutBuffers
  <2> QED BY <2>1, <2>2, <2>4, <2>5 DEF QueueInv
<1>2. CASE AllocNewBuffer(len, id)
  <2>1. PICK b \in OutBufs : TakeBuffer(b) /\ PutPacket(Fresh(b), b, len, id)
    BY <1>2 DEF AllocNewBuffer
  <2>2. /\ queue' \in Seq(OutBufs) /\ queue' # <<>> /\ cur' = b /\ queue'[Len(queue')] = b
        /\ InOrderQueue(Fresh(b), live \cup {b}, accepted, Len(handed), queue')
    BY <2>1, TakeQueue
  <2>3. Fresh(b) \in [OutBufs -> Buffer]
    BY FreshBuffers
  <2>4. PICK q \in Seq(OutBufs) : q = queue'
    BY <2>2
  <2>5. InOrderQueue(ob', live', accepted', Len(handed'), q)
    BY <2>1, <2>2, <2>3, <2>4, PutQueue
  <2>6. accepted' = accepted + 1 /\ handed' = handed
    BY <2>1, <2>3, PutBuffers
  <2> QED BY <2>2, <2>4, <2>5, <2>6 DEF QueueInv
<1>3. CASE AllocFails(len)
  <2>1. open' = open /\ accepted' = accepted /\ handed' = handed
    BY <1>3 DEF AllocFails
  <2>2. CASE AllocRefused
    BY <2>1, <2>2 DEF AllocRefused, bufferVars, QueueInv
  <2>3. CASE AllocNoBuffer(len)
    <3>1. queue' = queue /\ cur' = cur /\ ob' = ob /\ live \subseteq live'
      BY <2>3 DEF AllocNoBuffer
    <3>2. CASE queue # <<>>
      <4>1. InOrderQueue(ob, live, accepted, Len(handed), queue)
        BY <3>2 DEF QueueInv
      <4>2. InOrderQueue(ob, live', accepted, Len(handed), queue)
        BY <3>1, <4>1 DEF InOrderQueue, Filled
      <4> QED BY <2>1, <3>1, <3>2, <4>2 DEF QueueInv
    <3> QED BY <2>1, <3>1, <3>2 DEF QueueInv
  <2>4. CASE AllocNoPacket(len)
    <3>1. PICK b \in OutBufs : TakeBuffer(b) /\ ob' = Fresh(b) /\ live' = live \cup {b}
      BY <2>4 DEF AllocNoPacket
    <3> QED BY <2>1, <3>1, TakeQueue DEF QueueInv
  <2> QED BY <1>3, <2>1, <2>2, <2>3, <2>4 DEF AllocFails
<1> QED BY <1>1, <1>2, <1>3 DEF AllocPacketWithId

LEMMA Slice ==
    ASSUME NEW p \in Seq(Nat), NEW n \in Nat, n = Len(p), NEW w \in Nat, w < n,
           NEW from \in Nat, \A k \in 1..n : p[k] = (from - w) + k
    PROVE  /\ SubSeq(p, w + 1, n) \in Seq(Nat) /\ Len(SubSeq(p, w + 1, n)) = n - w
           /\ SubSeq(p, w + 1, n) = [i \in 1..(n - w) |-> from + i]
<1> DEFINE s == SubSeq(p, w + 1, n)
           t == [i \in 1..(n - w) |-> from + i]
<1>1. \A i \in (w + 1)..n : p[i] \in Nat
  OBVIOUS
<1>2. w + 1 \in Int /\ n \in Int /\ w + 1 <= n /\ n - (w + 1) + 1 = n - w
  OBVIOUS
<1>3. s \in Seq(Nat) /\ Len(s) = n - w /\ \A i \in 1..(n - w) : s[i] = p[(w + 1) + i - 1]
  BY <1>1, <1>2, SubSeqProperties
<1>4. \A i \in 1..(n - w) : s[i] = from + i
  <2> HIDE DEF s
  <2> TAKE i \in 1..(n - w)
  <2>1. (w + 1) + i - 1 \in 1..n /\ (w + 1) + i - 1 = w + i
    OBVIOUS
  <2>2. p[w + i] = (from - w) + (w + i)
    BY <2>1
  <2> QED BY <1>3, <2>1, <2>2
<1>5. t \in Seq(Nat) /\ Len(t) = n - w /\ \A i \in 1..(n - w) : t[i] = from + i
  <2>1. n - w \in Nat
    OBVIOUS
  <2>2. \A i \in 1..(n - w) : from + i \in Nat
    OBVIOUS
  <2> QED BY <2>1, <2>2
<1>6. s = t
  <2> HIDE DEF s, t
  <2>1. Len(s) = Len(t) /\ \A i \in 1..Len(s) : s[i] = t[i]
    BY <1>3, <1>4, <1>5
  <2> QED BY <1>3, <1>5, <2>1, SeqEqual
<1> QED BY <1>3, <1>6

\* A write hands the rest of the first buffer to the device.
LEMMA SendQueue ==
    ASSUME TypeOK, QueueInv, SendToRemote
    PROVE  /\ QueueInv'
           /\ accepted' = accepted
           /\ \/ handed' = handed
              \/ \E n \in 1..accepted :
                    /\ Len(handed) + n <= accepted
                    /\ handed' = handed \o [i \in 1..n |-> Len(handed) + i]
<1> DEFINE b == queue[1]
           n == Len(ob[b].pacs)
           w == ob[b].wrote
<1>1. /\ queue \in Seq(OutBufs) /\ queue # <<>> /\ Len(queue) \in Nat /\ Len(queue) >= 1
      /\ b \in OutBufs /\ Head(queue) = b
      /\ ob \in [OutBufs -> Buffer] /\ accepted \in Nat /\ handed \in Seq(Nat)
      /\ \A i \in 1..Len(queue) : queue[i] \in OutBufs
  BY SendBuffers DEF TypeOK
<1>2. /\ ob' \in [OutBufs -> Buffer]
      /\ \A c \in OutBufs :
            /\ ob'[c].pacs = ob[c].pacs /\ ob'[c].start = ob[c].start
            /\ ob'[c].wrote = IF c = b THEN n ELSE ob[c].wrote
            /\ ob'[c].canRelease = IF c = b THEN Len(queue) > 1 ELSE ob[c].canRelease
      /\ queue' = IF Len(queue) > 1 THEN Tail(queue) ELSE queue
  BY SendBuffers
<1>3. /\ cur = queue[Len(queue)]
      /\ \A i \in 1..Len(queue) : Filled(ob, live, accepted, queue[i])
      /\ \A i, j \in 1..Len(queue) : queue[i] = queue[j] => i = j
      /\ Chained(ob, queue)
      /\ ob[queue[Len(queue)]].start + Len(ob[queue[Len(queue)]].pacs) = accepted
      /\ ob[b].start + w = Len(handed)
  BY <1>1 DEF QueueInv, InOrderQueue
<1>4. cur' = cur /\ live' = live /\ accepted' = accepted
  BY DEF SendToRemote
<1>5. /\ ob[b].start \in Nat /\ w \in Nat /\ n \in Nat /\ ob[b].pacs \in Seq(Nat)
      /\ Len(handed) \in Nat
  BY <1>1, Fields
<1>6. /\ b \in live /\ w <= n /\ ob[b].start + n <= accepted
      /\ \A k \in 1..n : ob[b].pacs[k] = ob[b].start + k
  BY <1>1, <1>3 DEF Filled
<1>7. /\ Len(handed') = ob[b].start + n
      /\ \/ handed' = handed
         \/ \E m \in 1..accepted :
               /\ Len(handed) + m <= accepted
               /\ handed' = handed \o [i \in 1..m |-> Len(handed) + i]
  <2>1. CASE w < n
    <3> DEFINE m == n - w
               part == SubSeq(ob[b].pacs, w + 1, n)
    <3>1. handed' = handed \o part
      BY <1>1, <2>1 DEF SendToRemote, WriteHead
    <3>2. m \in 1..accepted /\ Len(handed) + m <= accepted /\ Len(handed) + m = ob[b].start + n
      <4>1. accepted \in Nat /\ ob[b].start \in Nat /\ w \in Nat /\ n \in Nat
        BY <1>1, <1>5
      <4>2. ob[b].start + w = Len(handed) /\ ob[b].start + n <= accepted
        BY <1>3, <1>6
      <4>3. PICK st \in Nat : st = ob[b].start
        BY <4>1
      <4> HIDE DEF b, n, w
      <4> QED BY <2>1, <4>1, <4>2, <4>3
    <3>3. \A k \in 1..n : ob[b].pacs[k] = (Len(handed) - w) + k
      <4>1. Len(handed) - w = ob[b].start
        <5>1. ob[b].start + w = Len(handed) /\ ob[b].start \in Nat /\ w \in Nat
          BY <1>3, <1>5
        <5> HIDE DEF w
        <5> QED BY ONLY <5>1
      <4> QED BY <1>6, <4>1
    <3>4. /\ part \in Seq(Nat) /\ Len(part) = m
          /\ part = [i \in 1..m |-> Len(handed) + i]
      <4>1. n = Len(ob[b].pacs)
        OBVIOUS
      <4>2. ob[b].pacs \in Seq(Nat) /\ n \in Nat /\ w \in Nat /\ Len(handed) \in Nat
        BY <1>5
      <4>3. PICK p \in Seq(Nat) : p = ob[b].pacs
        BY <4>2
      <4>4. PICK from \in Nat : from = Len(handed)
        BY <4>2
      <4> HIDE DEF n, w
      <4>5. n = Len(p) /\ \A k \in 1..n : p[k] = (from - w) + k
        BY <3>3, <4>1, <4>3, <4>4, Zenon
      <4>6. /\ SubSeq(p, w + 1, n) \in Seq(Nat) /\ Len(SubSeq(p, w + 1, n)) = n - w
            /\ SubSeq(p, w + 1, n) = [i \in 1..(n - w) |-> from + i]
        BY ONLY <2>1, <4>2, <4>5, p \in Seq(Nat), from \in Nat, Slice
      <4> QED BY <4>3, <4>4, <4>6, Zenon
    <3>5. Len(handed') = Len(handed) + m
      <4>1. handed \in Seq(Nat)
        BY <1>1
      <4> HIDE DEF part, m
      <4>2. Len(handed \o part) = Len(handed) + Len(part)
        BY <3>4, <4>1, ConcatProperties, Zenon
      <4> QED BY <3>1, <3>4, <4>2, Zenon
    <3>6. handed' = handed \o [i \in 1..m |-> Len(handed) + i]
      <4> HIDE DEF part, m
      <4> QED BY <3>1, <3>4
    <3> HIDE DEF m
    <3> QED BY <3>2, <3>5, <3>6
  <2>2. CASE ~ (w < n)
    <3>1. handed' = handed /\ w = n
      BY <1>1, <1>5, <1>6, <2>2 DEF SendToRemote
    <3> QED BY <1>3, <3>1
  <2> QED BY <2>1, <2>2
<1>8. QueueInv'
  <2> HIDE DEF b, n, w
  <2>1. CASE Len(queue) > 1
    <3> DEFINE q == Tail(queue)
    <3>1. /\ queue' = q /\ q \in Seq(OutBufs) /\ Len(q) = Len(queue) - 1 /\ q # <<>>
          /\ \A i \in 1..Len(q) : q[i] = queue[i + 1] /\ i + 1 \in 1..Len(queue)
      <4>1. queue' = q
        BY <1>2, <2>1
      <4>2. /\ q \in Seq(OutBufs) /\ Len(q) = Len(queue) - 1
            /\ \A i \in 1..Len(q) : q[i] = queue[i + 1]
        BY <1>1, HeadTailProperties
      <4>3. Len(queue) \in Nat
        BY <1>1
      <4> HIDE DEF q
      <4>4. Len(q) # 0 /\ \A i \in 1..Len(q) : i + 1 \in 1..Len(queue)
        BY <2>1, <4>2, <4>3
      <4> QED BY <4>1, <4>2, <4>4
    <3> HIDE DEF q
    <3>2. \A i \in 1..Len(q) : q[i] \in OutBufs /\ q[i] # b
      BY <1>1, <1>3, <2>1, <3>1 DEF b
    <3>3. \A i \in 1..Len(q) : /\ ob'[q[i]].pacs = ob[q[i]].pacs
                               /\ ob'[q[i]].start = ob[q[i]].start
                               /\ ob'[q[i]].wrote = ob[q[i]].wrote
                               /\ ob'[q[i]].canRelease = ob[q[i]].canRelease
      BY <1>2, <3>2
    <3>4. \A i \in 1..Len(q) : Filled(ob', live', accepted', q[i])
      <4> TAKE i \in 1..Len(q)
      <4>1. Filled(ob, live, accepted, q[i])
        BY <1>3, <3>1
      <4>2. /\ ob'[q[i]].pacs = ob[q[i]].pacs /\ ob'[q[i]].start = ob[q[i]].start
            /\ ob'[q[i]].wrote = ob[q[i]].wrote
            /\ ob'[q[i]].canRelease = ob[q[i]].canRelease
        BY <3>3
      <4> QED BY <1>4, <4>1, <4>2 DEF Filled
    <3>5. ASSUME NEW i \in 1..Len(q), NEW j \in 1..Len(q), q[i] = q[j] PROVE i = j
      <4>1. i + 1 \in 1..Len(queue) /\ j + 1 \in 1..Len(queue) /\ queue[i + 1] = queue[j + 1]
        BY <3>1, <3>5
      <4>2. i + 1 = j + 1
        BY <1>3, <4>1
      <4>3. i \in Int /\ j \in Int
        OBVIOUS
      <4> QED BY ONLY <4>2, <4>3
    <3>6. Chained(ob', q)
      <4> SUFFICES ASSUME NEW i \in 1..Len(q), i > 1
                   PROVE  /\ ob'[q[i]].wrote = 0
                          /\ ob'[q[i]].start = ob'[q[i - 1]].start + Len(ob'[q[i - 1]].pacs)
        BY DEF Chained
      <4>1. /\ i - 1 \in 1..Len(q) /\ i + 1 \in 1..Len(queue) /\ i + 1 > 1
            /\ q[i] = queue[i + 1] /\ q[i - 1] = queue[(i + 1) - 1]
        BY <1>1, <3>1
      <4>2. /\ ob[queue[i + 1]].wrote = 0
            /\ ob[queue[i + 1]].start = ob[queue[(i + 1) - 1]].start
                                          + Len(ob[queue[(i + 1) - 1]].pacs)
        BY <1>3, <4>1 DEF Chained
      <4>3. /\ ob'[q[i]].wrote = ob[q[i]].wrote /\ ob'[q[i]].start = ob[q[i]].start
            /\ ob'[q[i - 1]].pacs = ob[q[i - 1]].pacs
            /\ ob'[q[i - 1]].start = ob[q[i - 1]].start
        BY <3>3, <4>1
      <4> QED BY <4>1, <4>2, <4>3
    <3>7. /\ Len(q) \in 1..Len(q) /\ q[Len(q)] = queue[Len(queue)]
          /\ 1 \in 1..Len(q) /\ q[1] = queue[2]
      BY <1>1, <2>1, <3>1
    <3>8. ob'[q[Len(q)]].start + Len(ob'[q[Len(q)]].pacs) = accepted'
      BY <1>3, <1>4, <3>3, <3>7
    <3>9. ob'[q[1]].start + ob'[q[1]].wrote = Len(handed')
      <4>1. ob[queue[2]].wrote = 0 /\ ob[queue[2]].start = ob[b].start + n
        <5>1. 2 \in 1..Len(queue) /\ 2 > 1 /\ 2 - 1 = 1
          BY <1>1, <2>1
        <5> QED BY <1>3, <5>1 DEF Chained, b, n
      <4>2. ob'[q[1]].start = ob[queue[2]].start /\ ob'[q[1]].wrote = ob[queue[2]].wrote
        BY <3>3, <3>7
      <4> QED BY <1>5, <1>7, <4>1, <4>2
    <3>10. InOrderQueue(ob', live', accepted', Len(handed'), q)
      BY <3>4, <3>5, <3>6, <3>8, <3>9 DEF InOrderQueue
    <3> QED BY <1>3, <1>4, <3>1, <3>7, <3>10 DEF QueueInv
  <2>2. CASE ~ (Len(queue) > 1)
    <3>1. queue' = queue /\ Len(queue) = 1 /\ \A i \in 1..Len(queue) : queue[i] = b
      <4>1. Len(queue) = 1
        <5>1. \A l \in Nat : l >= 1 /\ ~ (l > 1) => l = 1
          OBVIOUS
        <5>2. Len(queue) \in Nat /\ Len(queue) >= 1
          BY <1>1
        <5> QED BY <2>2, <5>1, <5>2, Zenon
      <4>2. queue' = queue
        BY <1>2, <2>2
      <4>3. \A i \in 1..Len(queue) : i = 1
        BY <4>1
      <4> QED BY <4>1, <4>2, <4>3 DEF b
    <3>2. /\ ob'[b].pacs = ob[b].pacs /\ ob'[b].start = ob[b].start /\ ob'[b].wrote = n
          /\ ~ ob'[b].canRelease
      BY <1>1, <1>2, <2>2
    <3>3. Filled(ob', live', accepted', b)
      BY <1>4, <1>5, <1>6, <3>2 DEF Filled, n
    <3>4. Chained(ob', queue)
      BY <3>1 DEF Chained
    <3>5. ob'[b].start + Len(ob'[b].pacs) = accepted'
      BY <1>3, <1>4, <3>1, <3>2 DEF b
    <3>6. ob'[b].start + ob'[b].wrote = Len(handed')
      BY <1>5, <1>7, <3>2
    <3>7. InOrderQueue(ob', live', accepted', Len(handed'), queue)
      BY <1>3, <3>1, <3>3, <3>4, <3>5, <3>6 DEF InOrderQueue
    <3> QED BY <1>1, <1>3, <1>4, <3>1, <3>7 DEF QueueInv
  <2> QED BY <2>1, <2>2
<1> QED BY <1>4, <1>7, <1>8

LEMMA WholeQueue == QueueInv => QueueWhole
<1> SUFFICES ASSUME QueueInv PROVE QueueWhole
  OBVIOUS
<1>1. CASE queue = <<>>
  BY <1>1 DEF QueueWhole
<1>2. CASE queue # <<>>
  BY <1>2 DEF QueueInv, InOrderQueue, Filled, QueueWhole
<1> QED BY <1>1, <1>2

\* The other steps leave the queue and the history alone.
LEMMA QuietQueue ==
    ASSUME QueueKept, WriteDone \/ HandleSignal \/ CloseRemote \/ UNCHANGED vars
    PROVE  QueueKept' /\ accepted' = accepted /\ handed' = handed
<1>1. /\ queue' = queue /\ cur' = cur /\ ob' = ob /\ live' = live /\ accepted' = accepted
      /\ handed' = handed /\ (open' = "open" => open = "open")
  BY DEF WriteDone, HandleSignal, CloseRemote, vars, writerVars, bufferVars, remoteVars,
         historyVars
<1>2. ASSUME QueueInv PROVE QueueInv'
  <2>1. CASE queue # <<>>
    <3>1. InOrderQueue(ob, live, accepted, Len(handed), queue)'
      BY <1>1, <1>2, <2>1 DEF QueueInv, InOrderQueue, Filled, Chained
    <3> QED BY <1>1, <1>2, <2>1, <3>1 DEF QueueInv
  <2>2. CASE queue = <<>>
    BY <1>1, <1>2, <2>2 DEF QueueInv
  <2> QED BY <2>1, <2>2
<1>3. QueueWhole'
  BY <1>1 DEF QueueKept, QueueWhole
<1> QED BY <1>1, <1>2, <1>3 DEF QueueKept

LEMMA TailQueue ==
    ASSUME NEW S, NEW q \in Seq(S), q # <<>>
    PROVE  /\ Len(q) \in Nat \ {0} /\ 1 \in 1..Len(q) /\ Head(q) = q[1] /\ q[1] \in S
           /\ Tail(q) \in Seq(S) /\ Len(Tail(q)) = Len(q) - 1
           /\ \A i \in 1..Len(Tail(q)) : Tail(q)[i] = q[i + 1] /\ i + 1 \in 1..Len(q) /\ i + 1 # 1
           /\ \A i \in 1..Len(q) : i # 1 => i - 1 \in 1..Len(Tail(q)) /\ Tail(q)[i - 1] = q[i]
<1>1. /\ Len(q) \in Nat \ {0} /\ 1 \in 1..Len(q) /\ Head(q) = q[1] /\ q[1] \in S
  OBVIOUS
<1>2. /\ Tail(q) \in Seq(S) /\ Len(Tail(q)) = Len(q) - 1
      /\ \A i \in 1..Len(Tail(q)) : Tail(q)[i] = q[i + 1]
  BY HeadTailProperties
<1>3. PICK t \in Seq(S) : t = Tail(q)
  BY <1>2
<1>4. \A i \in 1..Len(t) : i + 1 \in 1..Len(q) /\ i + 1 # 1
  BY <1>1, <1>2, <1>3
<1>5. ASSUME NEW i \in 1..Len(q), i # 1 PROVE i - 1 \in 1..Len(t) /\ t[i - 1] = q[i]
  <2>1. i - 1 \in 1..Len(t) /\ (i - 1) + 1 = i
    BY <1>1, <1>2, <1>3, <1>5
  <2> QED BY <1>2, <1>3, <2>1
<1> QED BY <1>1, <1>2, <1>3, <1>4, <1>5

\* What is left of the queue while APB_DestroyPacketWriter empties it.
LEMMA DestroyQueue ==
    ASSUME TypeOK, QueueKept, DestroyPacketWriter
    PROVE  QueueKept' /\ accepted' = accepted /\ handed' = handed
<1>1. open' # "open" /\ accepted' = accepted /\ handed' = handed
  BY DEF DestroyPacketWriter, DestroyBuffer, DestroyPacket, DestroyForeign, DestroyWriter,
         remoteVars, historyVars
<1>2. CASE DestroyBuffer
  <2>1. /\ queue \in Seq(OutBufs) /\ queue # <<>> /\ queue' = Tail(queue) /\ ob' = ob
        /\ live' = live \ {Head(queue)}
    BY <1>2 DEF DestroyBuffer, TypeOK
  <2>2. /\ 1 \in 1..Len(queue) /\ Head(queue) = queue[1]
        /\ \A i \in 1..Len(queue') : queue'[i] = queue[i + 1] /\ i + 1 \in 1..Len(queue) /\ i + 1 # 1
    BY <2>1, TailQueue
  <2>3. /\ \A i \in 1..Len(queue) : queue[i] \in live /\ ~ ob[queue[i]].canRelease
        /\ \A i, j \in 1..Len(queue) : queue[i] = queue[j] => i = j
    BY DEF QueueKept, QueueWhole
  <2>4. ASSUME NEW i \in 1..Len(queue')
        PROVE  queue'[i] \in live' /\ ~ ob'[queue'[i]].canRelease
    <3>1. queue[i + 1] # queue[1] /\ queue[i + 1] \in live /\ ~ ob[queue[i + 1]].canRelease
      BY <2>2, <2>3
    <3> QED BY <2>1, <2>2, <3>1
  <2>5. ASSUME NEW i \in 1..Len(queue'), NEW j \in 1..Len(queue'), queue'[i] = queue'[j]
        PROVE  i = j
    <3>1. i + 1 = j + 1
      BY <2>2, <2>3, <2>5
    <3>2. i \in Int /\ j \in Int
      OBVIOUS
    <3> QED BY ONLY <3>1, <3>2
  <2> QED BY <1>1, <2>4, <2>5 DEF QueueKept, QueueWhole
<1>3. CASE DestroyPacket \/ DestroyWriter
  <2>1. Len(queue') = 0
    BY <1>3 DEF DestroyPacket, DestroyWriter
  <2> QED BY <1>1, <2>1 DEF QueueKept, QueueWhole
<1>4. CASE DestroyForeign
  <2>1. queue' = queue /\ ob' = ob /\ live' = live
    BY <1>4 DEF DestroyForeign, writerVars, bufferVars
  <2> QED BY <1>1, <2>1 DEF QueueKept, QueueWhole
<1> QED BY <1>1, <1>2, <1>3, <1>4 DEF DestroyPacketWriter

LEMMA QueueStep ==
    TypeOK /\ QueueKept /\ [Next]_vars => QueueKept' /\ [Fifo!Next]_(Fifo!vars)
<1> SUFFICES ASSUME TypeOK, QueueKept, [Next]_vars
             PROVE  QueueKept' /\ [Fifo!Next]_(Fifo!vars)
  OBVIOUS
<1>0. QueueInv' => QueueWhole'
  BY WholeQueue, PTL
<1>1. ASSUME NEW len \in Lengths, AllocPacket(len)
      PROVE  QueueKept' /\ [Fifo!Next]_(Fifo!vars)
  <2>1. open = "open" /\ nextId \in 0..(IdMod - 1) /\ AllocPacketWithId(len, nextId)
    BY <1>1 DEF AllocPacket, TypeOK
  <2>2. QueueInv' /\ handed' = handed /\ accepted' \in {accepted, accepted + 1}
    BY <2>1, AllocQueue DEF QueueKept
  <2> QED BY <1>0, <2>2 DEF QueueKept, Fifo!Next, Fifo!Accept, Fifo!vars
<1>2. CASE SendToRemote
  <2>1. /\ QueueInv' /\ accepted' = accepted
        /\ handed' = handed \/ \E n \in 1..accepted : Fifo!Hand(n)
    BY <1>2, SendQueue DEF QueueKept, SendToRemote, CanWrite, Fifo!Hand
  <2> QED BY <1>0, <2>1 DEF QueueKept, Fifo!Next, Fifo!vars
<1>3. CASE WriteDone \/ HandleSignal \/ CloseRemote \/ UNCHANGED vars
  BY <1>3, QuietQueue DEF Fifo!vars
<1>4. CASE DestroyPacketWriter
  BY <1>4, DestroyQueue DEF Fifo!vars
<1>5. ASSUME NEW packId \in 0..(IdMod - 1), ResendPacket(packId)
      PROVE  QueueKept' /\ [Fifo!Next]_(Fifo!vars)
  BY <1>3, <1>5, NoMatch
<1> QED BY <1>1, <1>2, <1>3, <1>4, <1>5 DEF Next

LEMMA InitQueue == Init => QueueKept
<1> SUFFICES ASSUME Init PROVE QueueKept
  OBVIOUS
<1>1. queue = <<>> /\ Len(<<>>) = 0
  BY DEF Init
<1>2. QueueInv
  BY <1>1 DEF Init, QueueInv
<1> QED BY <1>2, WholeQueue DEF QueueKept

\* The packet writer implements the queue of packets: it hands them to the
\* remote in the order in which APB_AllocPacket accepted them, each one once,
\* for any number and sizes of buffers and packets and whatever allocation
\* fails.
THEOREM Refinement == Spec => InOrder
<1>1. Init => Fifo!Init
  BY DEF Init, Fifo!Init
<1> QED BY <1>1, InitQueue, InitTypes, StepTypes, QueueStep, PTL DEF Spec, InOrder, Fifo!Spec

-----------------------------------------------------------------------------
(* The pad byte.                                                           *)

LEMMA PadStep ==
    ASSUME TypeOK, ~ overrun, (BufferSize - 1) \notin Lengths, NEW len \in Lengths,
           NEW id \in 0..(IdMod - 1), AllocPacketWithId(len, id)
    PROVE  ~ overrun'
<1>0. len \in Nat /\ len # BufferSize - 1 /\ BufferSize \in Nat /\ BufferSize % 2 = 0
  BY PacketWriterAssumption
<1>1. CASE AllocInBuffer(len, id)
  <2>1. /\ cur # NoBuf /\ ~ (ob[cur].off + len + 1 >= BufferSize)
        /\ PutPacket(ob, cur, len, id)
    BY <1>1 DEF AllocInBuffer, NeedsBuffer
  <2>2. ob \in [OutBufs -> Buffer] /\ cur \in OutBufs
    BY <2>1 DEF TypeOK
  <2>3. /\ ob'[cur].off = ob[cur].off + Padded(len)
        /\ overrun' = (overrun \/ (len % 2 = 1 /\ ob'[cur].off >= BufferSize))
    BY <2>1, <2>2, PutBuffers
  <2>4. ob[cur].off \in Nat
    BY <2>2 DEF Buffer
  <2>5. ~ (len % 2 = 1 /\ ob'[cur].off >= BufferSize)
    BY <1>0, <2>1, <2>3, <2>4 DEF Padded
  <2> QED BY <2>3, <2>5, Zenon
<1>2. CASE AllocNewBuffer(len, id)
  <2>1. PICK b \in OutBufs : PutPacket(Fresh(b), b, len, id)
    BY <1>2 DEF AllocNewBuffer
  <2>2. Fresh(b) \in [OutBufs -> Buffer] /\ Fresh(b)[b].off = 0
    BY FreshBuffers
  <2>3. /\ ob'[b].off = 0 + Padded(len)
        /\ overrun' = (overrun \/ (len % 2 = 1 /\ ob'[b].off >= BufferSize))
    BY <2>1, <2>2, PutBuffers
  <2>4. len <= BufferSize
    BY <1>2 DEF AllocNewBuffer, SizeOk
  <2>5. ~ (len % 2 = 1 /\ ob'[b].off >= BufferSize)
    BY <1>0, <2>3, <2>4 DEF Padded
  <2> QED BY <2>3, <2>5, Zenon
<1>3. CASE AllocFails(len)
  BY <1>3 DEF AllocFails, AllocRefused, AllocNoBuffer, AllocNoPacket, bufferVars
<1> QED BY <1>1, <1>2, <1>3 DEF AllocPacketWithId

LEMMA OverrunStep == TypeOK /\ PadInside /\ [Next]_vars => PadInside'
<1> SUFFICES ASSUME TypeOK, [Next]_vars, (BufferSize - 1) \notin Lengths, ~ overrun
             PROVE  ~ overrun'
  BY DEF PadInside
<1>1. ASSUME NEW len \in Lengths, AllocPacket(len) PROVE ~ overrun'
  BY <1>1, PadStep DEF AllocPacket, TypeOK
<1>2. ASSUME NEW packId \in 0..(IdMod - 1), ResendPacket(packId) PROVE ~ overrun'
  BY <1>2, NoMatch DEF vars, bufferVars
<1>3. CASE SendToRemote \/ WriteDone \/ HandleSignal \/ CloseRemote \/ UNCHANGED vars
  BY <1>3 DEF SendToRemote, WriteDone, HandleSignal, CloseRemote, vars, bufferVars
<1>4. CASE DestroyPacketWriter
  BY <1>4 DEF DestroyPacketWriter, DestroyBuffer, DestroyPacket, DestroyForeign, DestroyWriter,
              bufferVars
<1> QED BY <1>1, <1>2, <1>3, <1>4 DEF Next

\* Unless the server asks for a packet one byte shorter than a buffer,
\* APB_AllocPacketWithId writes no pad byte behind the end of a buffer.
THEOREM PadsInside == Spec => []PadInside
<1>1. Init => PadInside
  BY DEF Init, PadInside
<1> QED BY <1>1, InitTypes, StepTypes, OverrunStep, PTL DEF Spec

-----------------------------------------------------------------------------
(* The packets of a buffer.                                                *)

\* The places up to k at which the sequence of packets R has one of buffer c.
Places(R, c, k) == {i \in 1..k : R[i].buf = c}

LEMMA PlacesFinite ==
    ASSUME NEW R, NEW c, NEW k \in Nat, NEW j \in 0..k
    PROVE  /\ IsFiniteSet(Places(R, c, k)) /\ Cardinality(Places(R, c, k)) \in Nat
           /\ Places(R, c, j) \subseteq Places(R, c, k)
           /\ Cardinality(Places(R, c, j)) <= Cardinality(Places(R, c, k))
<1>1. IsFiniteSet(1..k) /\ Places(R, c, k) \subseteq 1..k
  BY FS_Interval DEF Places
<1>2. Places(R, c, j) \subseteq Places(R, c, k)
  BY DEF Places
<1> QED BY <1>1, <1>2, FS_Subset, FS_CardinalityType

\* Without the first k packets.
LEMMA PlacesShift ==
    ASSUME NEW R, NEW R2, NEW c, NEW n \in Nat, NEW k \in 0..n,
           \A i \in 1..(n - k) : R2[i].buf = R[i + k].buf
    PROVE  Cardinality(Places(R2, c, n - k))
             = Cardinality(Places(R, c, n)) - Cardinality(Places(R, c, k))
<1> DEFINE A == Places(R, c, n)
           B == Places(R, c, k)
           D == Places(R2, c, n - k)
           f == [i \in D |-> i + k]
<1>1. IsFiniteSet(A) /\ B \subseteq A
  BY PlacesFinite
<1>2. IsFiniteSet(A \ B) /\ Cardinality(A \ B) = Cardinality(A) - Cardinality(B)
  <2>1. A \cap B = B
    BY <1>1
  <2> HIDE DEF A, B
  <2> QED BY <1>1, <2>1, FS_Difference
<1>3. n - k \in Nat /\ IsFiniteSet(D)
  <2>1. n - k \in Nat /\ 0 \in 0..(n - k)
    OBVIOUS
  <2> QED BY <2>1, PlacesFinite
<1>4. f \in Bijection(D, A \ B)
  <2>1. \A i \in D : i + k \in A \ B
    BY DEF Places
  <2>2. \A i, j \in D : i + k = j + k => i = j
    BY DEF Places
  <2>3. \A a \in A \ B : \E i \in D : i + k = a
    <3> TAKE a \in A \ B
    <3>1. a - k \in 1..(n - k) /\ (a - k) + k = a /\ R[a].buf = c
      BY DEF Places
    <3>2. a - k \in D
      BY <3>1 DEF Places
    <3> QED BY <3>1, <3>2
  <2> HIDE DEF A, B, D
  <2> QED BY <2>1, <2>2, <2>3 DEF Bijection, Injection, Surjection, IsInjective
<1>5. Cardinality(D) = Cardinality(A \ B)
  <2> HIDE DEF A, B, D, f
  <2>1. ExistsBijection(D, A \ B)
    BY <1>4 DEF ExistsBijection
  <2> QED BY <1>3, <2>1, FS_Bijection
<1> QED BY <1>2, <1>5

\* With one packet more, of buffer b.
LEMMA PlacesAppend ==
    ASSUME NEW R, NEW b, NEW c, NEW m \in Nat, R[m + 1].buf = b
    PROVE  Cardinality(Places(R, c, m + 1))
             = Cardinality(Places(R, c, m)) + (IF c = b THEN 1 ELSE 0)
<1>1. IsFiniteSet(Places(R, c, m)) /\ Cardinality(Places(R, c, m)) \in Nat
  <2>1. 0 \in 0..m
    OBVIOUS
  <2> QED BY <2>1, PlacesFinite
<1>2. m + 1 \notin Places(R, c, m)
  BY DEF Places
<1>3. CASE c = b
  <2>1. Places(R, c, m + 1) = Places(R, c, m) \cup {m + 1}
    BY <1>3 DEF Places
  <2> QED BY <1>1, <1>2, <1>3, <2>1, FS_AddElement
<1>4. CASE c # b
  <2>1. Places(R, c, m + 1) = Places(R, c, m)
    BY <1>4 DEF Places
  <2> QED BY <1>1, <1>4, <2>1
<1> QED BY <1>3, <1>4

KeptLive == \A i \in 1..Len(recent) : recent[i].buf \in live \ lost

KeptCounted == \A c \in live \ lost : ob[c].count = Cardinality(Places(recent, c, Len(recent)))

\* A buffer of the queue has its memory, and one that has left it is marked.
QueueNotLost == \A i \in 1..Len(queue) : queue[i] \notin lost

LeftMarked == \A c \in live \ lost : ob[c].canRelease \/ \E i \in 1..Len(queue) : queue[i] = c

Kept == KeptLive /\ KeptCounted /\ QueueNotLost /\ LeftMarked /\ lost \subseteq live

\* While the writer is destroyed the packets of the buffers freed with the queue
\* are still kept.
KeptFreed == \A i \in 1..Len(recent) : recent[i].buf \in (live \ lost) \cup freed

KeptAll ==
    /\ KeptFreed /\ (open = "open" => freed = {}) /\ freed \cap live = {}
    /\ KeptCounted /\ QueueNotLost /\ LeftMarked /\ lost \subseteq live

LEMMA OpenKept ==
    ASSUME KeptAll, open = "open"
    PROVE  Kept /\ freed = {}
BY DEF KeptAll, KeptFreed, Kept, KeptLive

LEMMA KeptIsKept == TypeOK /\ KeptAll => KeptInLive
<1> SUFFICES ASSUME TypeOK, KeptAll PROVE KeptInLive
  OBVIOUS
<1>1. recent \in Seq(Packet)
  BY DEF TypeOK
<1>2. DOMAIN recent = 1..Len(recent)
  BY <1>1
<1>3. \A c : Places(recent, c, Len(recent)) = OfBuffer(c, Len(recent))
  BY DEF Places, OfBuffer
<1> QED BY <1>2, <1>3 DEF KeptAll, KeptFreed, KeptCounted, KeptInLive

LEMMA InQueueLive ==
    ASSUME TypeOK, QueueInv
    PROVE  \A i \in 1..Len(queue) : queue[i] \in live /\ ~ ob[queue[i]].canRelease
<1>1. CASE queue = <<>>
  BY <1>1
<1>2. CASE queue # <<>>
  BY <1>2 DEF QueueInv, InOrderQueue, Filled
<1> QED BY <1>1, <1>2

\* What a packet put into buffer b does to the packets kept: the first k are
\* dropped, and the buffers of G are given back with them.
DroppedFor(o, b, k, G) ==
    /\ k > 0 => Len(recent) - k >= Keep
    /\ \A i \in 1..k : recent[i].sent
    /\ Len(recent') = (Len(recent) - k) + 1
    /\ \A i \in 1..(Len(recent) - k) : recent'[i] = recent[i + k]
    /\ recent'[(Len(recent) - k) + 1].buf = b
    /\ recent'[(Len(recent) - k) + 1].sn = accepted + 1
    /\ recent'[(Len(recent) - k) + 1].sent = FALSE
    /\ \A c \in OutBufs :
           ob'[c].count = (o[c].count + (IF c = b THEN 1 ELSE 0)) - Cardinality(Places(recent, c, k))
    /\ live' = (live \cup {b}) \ G
    /\ \A c \in G : /\ c \in live /\ Places(recent, c, k) # {} /\ o[c].canRelease
                    /\ o[c].count + (IF c = b THEN 1 ELSE 0) = Cardinality(Places(recent, c, k))
    /\ \A c \in live :
           /\ Places(recent, c, k) # {} /\ o[c].canRelease
           /\ o[c].count + (IF c = b THEN 1 ELSE 0) = Cardinality(Places(recent, c, k))
           => c \in G
    /\ Disturb(G)
    /\ lost' = lost

LEMMA PutDrops ==
    ASSUME TypeOK, NEW o \in [OutBufs -> Buffer], NEW b \in OutBufs, NEW len \in Lengths,
           NEW id \in 0..(IdMod - 1), PutPacket(o, b, len, id)
    PROVE  \E k \in 0..Len(recent) : \E G : DroppedFor(o, b, k, G)
<1> DEFINE r == WithPacket(o[b], len)
           o2 == [o EXCEPT ![b] = r]
           n == Len(recent)
<1>1. PICK k \in 0..n :
          /\ ob' = Counted(o2, k)
          /\ live' = (live \cup {b}) \ Released(o2, k)
          /\ recent' = Append(SubSeq(recent, k + 1, n), NewPacket(accepted + 1, id, b, len))
          /\ lost' = lost
          /\ Drops(k)
          /\ Disturb(Released(o2, k))
  BY DEF PutPacket
<1>2. n \in Nat /\ recent \in Seq(Packet)
  BY DEF TypeOK
<1>3. r.count = o[b].count + 1 /\ o[b].count \in Int
  <2>1. o[b] \in Buffer
    OBVIOUS
  <2> QED BY <2>1 DEF WithPacket, Buffer
<1> HIDE DEF r
<1>4. \A c \in OutBufs : /\ o2[c].count = o[c].count + (IF c = b THEN 1 ELSE 0)
                         /\ o[c].count \in Int
  <2> TAKE c \in OutBufs
  <2>1. o[c].count \in Int
    BY DEF Buffer
  <2> QED BY <1>3, <2>1
<1>5. \A c \in OutBufs : ob'[c].count = o2[c].count - Cardinality(OfBuffer(c, k))
  <2> TAKE c \in OutBufs
  <2>1. ob'[c] = [o2[c] EXCEPT !.count = @ - Cardinality(OfBuffer(c, k))]
    BY <1>1 DEF Counted
  <2>2. o2[c] \in Buffer
    <3>1. b \in OutBufs /\ ob' \in [OutBufs -> Buffer]
      BY PutBuffers
    <3>2. ob'[c] \in Buffer
      BY <3>1
    <3>3. CASE c # b
      BY <3>3
    <3>4. CASE c = b
      <4>1. o[b] \in Buffer /\ len \in Nat /\ accepted \in Nat
        BY PacketWriterAssumption DEF TypeOK
      <4>2. o[b].off + Padded(len) \in Nat /\ Append(o[b].pacs, accepted + 1) \in Seq(Nat)
        <5>1. Padded(len) \in Nat /\ accepted + 1 \in Nat
          BY <4>1 DEF Padded
        <5>2. o[b].off \in Nat /\ o[b].pacs \in Seq(Nat)
          BY <4>1 DEF Buffer
        <5> QED BY <5>1, <5>2
      <4>3. PICK off \in Nat : off = o[b].off + Padded(len)
        BY <4>2
      <4>4. PICK pacs \in Seq(Nat) : pacs = Append(o[b].pacs, accepted + 1)
        BY <4>2
      <4>5. PICK count \in Int : count = o[b].count + 1
        BY <1>3
      <4>6. PICK x \in Buffer : x = o[b]
        BY <4>1
      <4>7. r = [x EXCEPT !.off = off, !.pacs = pacs, !.count = count]
        BY <4>3, <4>4, <4>5, <4>6 DEF WithPacket, r
      <4>8. [x EXCEPT !.off = off, !.pacs = pacs, !.count = count] \in Buffer
        BY ONLY x \in Buffer, off \in Nat, pacs \in Seq(Nat), count \in Int DEF Buffer
      <4> QED BY <3>4, <4>7, <4>8
    <3> QED BY <3>3, <3>4
  <2> HIDE DEF o2
  <2>3. o2[c].count - Cardinality(OfBuffer(c, k)) \in Int
    <3>1. o2[c].count \in Int
      BY <2>2 DEF Buffer
    <3>2. Cardinality(OfBuffer(c, k)) \in Nat
      BY Counts
    <3> QED BY <3>1, <3>2
  <2> QED BY <2>1, <2>2, <2>3, CountBuffer
<1>6. /\ Len(recent') = (n - k) + 1
      /\ \A i \in 1..(n - k) : recent'[i] = recent[i + k]
      /\ recent'[(n - k) + 1].buf = b /\ recent'[(n - k) + 1].sn = accepted + 1
      /\ recent'[(n - k) + 1].sent = FALSE
  <2> DEFINE s == SubSeq(recent, k + 1, n)
             e == NewPacket(accepted + 1, id, b, len)
  <2>1. /\ s \in Seq(Packet) /\ Len(s) = n - k
        /\ \A i \in 1..(n - k) : s[i] = recent[i + k]
    <3>1. \A i \in (k + 1)..n : recent[i] \in Packet
      BY <1>2
    <3>2. k + 1 \in Int /\ n \in Int /\ n - (k + 1) + 1 = n - k
      BY <1>2
    <3>3. /\ s \in Seq(Packet) /\ Len(s) = (IF k + 1 <= n THEN n - (k + 1) + 1 ELSE 0)
          /\ \A i \in 1..(n - (k + 1) + 1) : s[i] = recent[(k + 1) + i - 1]
      BY <3>1, <3>2, SubSeqProperties
    <3>4. n - (k + 1) + 1 = n - k /\ (IF k + 1 <= n THEN n - (k + 1) + 1 ELSE 0) = n - k
      BY <1>2
    <3>5. \A i \in 1..(n - k) : (k + 1) + i - 1 = i + k
      BY <1>2
    <3> HIDE DEF s, n
    <3> QED BY ONLY <3>3, <3>4, <3>5
  <2>2. e.buf = b /\ e.sn = accepted + 1 /\ e.sent = FALSE
    BY DEF NewPacket
  <2>3. recent' = Append(s, e)
    BY <1>1
  <2>4. e \in Packet
    <3>1. accepted + 1 \in Nat
      BY DEF TypeOK
    <3> QED BY <3>1 DEF NewPacket, Packet
  <2> HIDE DEF s, e, n
  <2>5. /\ Len(Append(s, e)) = Len(s) + 1
        /\ \A i \in 1..Len(s) : Append(s, e)[i] = s[i]
        /\ Append(s, e)[Len(s) + 1] = e
    BY <2>1, <2>4, AppendProperties
  <2> QED BY <2>1, <2>2, <2>3, <2>5
<1>7. \A c : Places(recent, c, k) = OfBuffer(c, k)
  BY DEF Places, OfBuffer
<1>8. \A c \in OutBufs :
          ob'[c].count = (o[c].count + (IF c = b THEN 1 ELSE 0)) - Cardinality(Places(recent, c, k))
  BY <1>4, <1>5, <1>7
<1>9. \A c \in live : o2[c].canRelease = o[c].canRelease
  <2>1. o[b] \in Buffer
    OBVIOUS
  <2>2. r.canRelease = o[b].canRelease
    BY <2>1 DEF r, WithPacket, Buffer
  <2> HIDE DEF r
  <2> QED BY <2>2 DEF TypeOK
<1>10. \A c \in live :
           c \in Released(o2, k)
             <=> /\ Places(recent, c, k) # {} /\ o[c].canRelease
                 /\ o[c].count + (IF c = b THEN 1 ELSE 0) = Cardinality(Places(recent, c, k))
  <2> TAKE c \in live
  <2>1. c \in OutBufs
    BY DEF TypeOK
  <2>2. /\ o2[c].count = o[c].count + (IF c = b THEN 1 ELSE 0)
        /\ o2[c].canRelease = o[c].canRelease /\ Places(recent, c, k) = OfBuffer(c, k)
    BY <1>4, <1>7, <1>9, <2>1
  <2> HIDE DEF o2
  <2>3. c \in Released(o2, k) <=> /\ OfBuffer(c, k) # {} /\ o2[c].canRelease
                                  /\ o2[c].count = Cardinality(OfBuffer(c, k))
    BY DEF Released
  <2> QED BY <2>2, <2>3
<1>11. (k > 0 => n - k >= Keep) /\ \A i \in 1..k : recent[i].sent
  BY <1>1 DEF Drops
<1> DEFINE G == Released(o2, k)
<1>12. /\ live' = (live \cup {b}) \ G /\ Disturb(G)
       /\ \A c \in G : /\ c \in live /\ Places(recent, c, k) # {} /\ o[c].canRelease
                       /\ o[c].count + (IF c = b THEN 1 ELSE 0) = Cardinality(Places(recent, c, k))
       /\ \A c \in live :
              /\ Places(recent, c, k) # {} /\ o[c].canRelease
              /\ o[c].count + (IF c = b THEN 1 ELSE 0) = Cardinality(Places(recent, c, k))
              => c \in G
  <2>1. G \subseteq live
    BY DEF Released
  <2> HIDE DEF G
  <2>2. \A c \in G : c \in live /\ c \in Released(o2, k)
    BY <2>1 DEF G
  <2> QED BY <1>1, <1>10, <2>2 DEF G
<1> HIDE DEF G, o2
<1>13. DroppedFor(o, b, k, G)
  BY <1>1, <1>6, <1>8, <1>11, <1>12 DEF DroppedFor
<1> QED BY <1>13

\* The packet that is added counts, those that are dropped do not, and no
\* buffer with a packet that is kept is given back.
LEMMA PutKept ==
    ASSUME TypeOK, NEW o \in [OutBufs -> Buffer], NEW b \in OutBufs, NEW len \in Lengths,
           NEW id \in 0..(IdMod - 1), PutPacket(o, b, len, id), KeptLive, b \notin lost,
           lost \subseteq live,
           \A c \in (live \cup {b}) \ lost :
               o[c].count = Cardinality(Places(recent, c, Len(recent)))
    PROVE  KeptLive' /\ KeptCounted' /\ lost' \subseteq live' /\ lost' = lost
<1> DEFINE n == Len(recent)
<1>0. PICK k \in 0..n : \E G : DroppedFor(o, b, k, G)
  BY PutDrops
<1>1. PICK G : DroppedFor(o, b, k, G)
  BY <1>0
<1>2. n \in Nat /\ recent \in Seq(Packet)
  BY DEF TypeOK
<1>4. \A c \in OutBufs : o[c].count \in Int
  BY DEF Buffer
<1>5. /\ \A c \in OutBufs :
            ob'[c].count = (o[c].count + (IF c = b THEN 1 ELSE 0)) - Cardinality(Places(recent, c, k))
      /\ live' = (live \cup {b}) \ G /\ lost' = lost
      /\ \A c \in G : /\ c \in live /\ Places(recent, c, k) # {}
                      /\ o[c].count + (IF c = b THEN 1 ELSE 0) = Cardinality(Places(recent, c, k))
  BY <1>1 DEF DroppedFor
<1>6. /\ Len(recent') = (n - k) + 1
      /\ \A i \in 1..(n - k) : recent'[i] = recent[i + k]
      /\ recent'[(n - k) + 1].buf = b
  BY <1>1 DEF DroppedFor
<1> HIDE DEF n
<1>7. \A c \in (live \cup {b}) \ lost :
          ob'[c].count = Cardinality(Places(recent', c, (n - k) + 1))
  <2> TAKE c \in (live \cup {b}) \ lost
  <2>1. c \in OutBufs
    BY DEF TypeOK
  <2>3. n - k \in Nat
    BY <1>2
  <2>4. Cardinality(Places(recent', c, n - k))
          = Cardinality(Places(recent, c, n)) - Cardinality(Places(recent, c, k))
    <3>1. \A i \in 1..(n - k) : recent'[i].buf = recent[i + k].buf
      BY <1>6
    <3>2. n \in Nat /\ k \in 0..n
      BY <1>2
    <3>3. ASSUME NEW R, NEW R2, \A i \in 1..(n - k) : R2[i].buf = R[i + k].buf
          PROVE  Cardinality(Places(R2, c, n - k))
                   = Cardinality(Places(R, c, n)) - Cardinality(Places(R, c, k))
      BY ONLY <3>2, <3>3, PlacesShift
    <3> QED BY ONLY <3>1, <3>3
  <2>5. Cardinality(Places(recent', c, (n - k) + 1))
          = Cardinality(Places(recent', c, n - k)) + (IF c = b THEN 1 ELSE 0)
    BY <1>6, <2>3, PlacesAppend
  <2>6. o[c].count = Cardinality(Places(recent, c, n))
    BY DEF n
  <2>7. /\ Cardinality(Places(recent, c, n)) \in Nat /\ Cardinality(Places(recent, c, k)) \in Nat
    BY <1>2, PlacesFinite
  <2>8. ob'[c].count = (o[c].count + (IF c = b THEN 1 ELSE 0)) - Cardinality(Places(recent, c, k))
    BY <1>5, <2>1
  <2> QED BY <1>4, <2>1, <2>4, <2>5, <2>6, <2>7, <2>8
<1>8. KeptLive'
  <2> SUFFICES ASSUME NEW i \in 1..((n - k) + 1)
               PROVE  recent'[i].buf \in live' /\ recent'[i].buf \notin lost
    BY <1>5, <1>6 DEF KeptLive
  <2>1. recent'[i].buf \in (live \cup {b}) \ lost
    <3>1. CASE i = (n - k) + 1
      BY <1>6, <3>1
    <3>2. CASE i \in 1..(n - k)
      <4>1. recent'[i] = recent[i + k] /\ i + k \in 1..n
        BY <1>2, <1>6, <3>2
      <4>2. recent[i + k].buf \in live \ lost
        BY <4>1 DEF KeptLive, n
      <4> QED BY <4>1, <4>2
    <3>3. i = (n - k) + 1 \/ i \in 1..(n - k)
      BY <1>2
    <3> QED BY <3>1, <3>2, <3>3
  <2>2. PICK c \in (live \cup {b}) \ lost : c = recent'[i].buf
    BY <2>1
  <2>3. c \notin G
    <3> SUFFICES ASSUME c \in G PROVE FALSE
      OBVIOUS
    <3>1. /\ o[c].count + (IF c = b THEN 1 ELSE 0) = Cardinality(Places(recent, c, k))
          /\ c \in OutBufs
      BY <1>5 DEF TypeOK
    <3>2. o[c].count + (IF c = b THEN 1 ELSE 0) \in Int
      BY <1>4, <3>1
    <3>3. ob'[c].count = 0
      BY <1>5, <3>1, <3>2
    <3>4. Cardinality(Places(recent', c, (n - k) + 1)) = 0
      BY <1>7, <3>3
    <3>5. (n - k) + 1 \in Nat /\ 0 \in 0..((n - k) + 1)
      BY <1>2
    <3>6. IsFiniteSet(Places(recent', c, (n - k) + 1))
      BY <3>5, PlacesFinite
    <3>7. Places(recent', c, (n - k) + 1) = {}
      BY <3>4, <3>6, FS_EmptySet
    <3>8. i \in Places(recent', c, (n - k) + 1)
      BY <2>2 DEF Places
    <3> QED BY <3>7, <3>8
  <2> QED BY <1>5, <2>2, <2>3
<1>9. KeptCounted'
  <2> SUFFICES ASSUME NEW c \in live' \ lost'
               PROVE  ob'[c].count = Cardinality(Places(recent', c, Len(recent')))
    BY DEF KeptCounted
  <2>1. c \in (live \cup {b}) \ lost
    BY <1>5
  <2> QED BY <1>6, <1>7, <2>1
<1>10. lost' \subseteq live'
  <2> SUFFICES ASSUME NEW c \in lost PROVE c \in live'
    BY <1>5
  <2>1. c \notin G
    <3> SUFFICES ASSUME NEW i \in 1..k, recent[i].buf = c PROVE FALSE
      BY <1>5 DEF Places
    <3>1. i \in 1..n
      BY <1>2
    <3> QED BY <3>1 DEF KeptLive, n
  <2> QED BY <1>5, <2>1
<1> QED BY <1>5, <1>8, <1>9, <1>10

LEMMA AllocKept ==
    ASSUME TypeOK, QueueInv, Kept, open = "open", NEW len \in Lengths,
           NEW id \in 0..(IdMod - 1), AllocPacketWithId(len, id)
    PROVE  Kept'
<1>1. /\ KeptLive /\ KeptCounted /\ QueueNotLost /\ LeftMarked /\ lost \subseteq live
      /\ queue \in Seq(OutBufs) /\ ob \in [OutBufs -> Buffer] /\ live \subseteq OutBufs
  BY DEF Kept, TypeOK
<1>2. ASSUME NEW b \in OutBufs, TakeBuffer(b)
      PROVE  /\ queue' = Append(queue, b) /\ b \notin live /\ b \notin lost
             /\ \A i \in 1..Len(queue') : queue'[i] \notin lost
             /\ \A i \in 1..Len(queue) : \E j \in 1..Len(queue') : queue'[j] = queue[i]
             /\ \E j \in 1..Len(queue') : queue'[j] = b
             /\ Cardinality(Places(recent, b, Len(recent))) = 0
  <2>1. queue' = Append(queue, b) /\ b \notin live /\ b \notin lost
    BY <1>1, <1>2 DEF TakeBuffer
  <2>2. /\ Len(queue) \in Nat /\ Len(queue') = Len(queue) + 1 /\ queue'[Len(queue) + 1] = b
        /\ \A i \in 1..Len(queue) : queue'[i] = queue[i]
    BY <1>1, <2>1, AppendProperties
  <2>3. \A i \in 1..Len(queue') : i \in 1..Len(queue) \/ i = Len(queue) + 1
    BY <2>2
  <2>4. \A i \in 1..Len(queue') : queue'[i] \notin lost
    BY <1>1, <2>1, <2>2, <2>3 DEF QueueNotLost
  <2>5. \A i \in 1..Len(queue) : i \in 1..Len(queue') /\ queue'[i] = queue[i]
    BY <2>2
  <2>6. Len(queue) + 1 \in 1..Len(queue')
    BY <2>2
  <2>7. Places(recent, b, Len(recent)) = {}
    BY <1>1, <2>1 DEF KeptLive, Places
  <2> QED BY <2>1, <2>2, <2>4, <2>5, <2>6, <2>7, FS_EmptySet
<1>3. CASE AllocInBuffer(len, id)
  <2>1. cur # NoBuf /\ PutPacket(ob, cur, len, id) /\ queue' = queue
    BY <1>3 DEF AllocInBuffer, NeedsBuffer
  <2>2. cur \in OutBufs /\ Len(queue) \in Nat
    BY <2>1 DEF TypeOK
  <2>3. Len(queue) \in 1..Len(queue) /\ cur = queue[Len(queue)]
    <3>1. queue # <<>> /\ cur = queue[Len(queue)]
      BY <2>1 DEF QueueInv
    <3> QED BY <1>1, <3>1
  <2>4. cur \in live \ lost
    BY <1>1, <2>3, InQueueLive DEF QueueNotLost
  <2>5. KeptLive' /\ KeptCounted' /\ lost' \subseteq live' /\ lost' = lost
    BY <1>1, <2>1, <2>2, <2>4, PutKept DEF KeptCounted
  <2>6. QueueNotLost'
    BY <1>1, <2>1, <2>5 DEF QueueNotLost
  <2>7. /\ \A c \in OutBufs : ob'[c].canRelease = ob[c].canRelease
        /\ \A c \in live' : c \in live \cup {cur}
    BY <1>1, <2>1, <2>2, PutBuffers
  <2>8. LeftMarked'
    <3> SUFFICES ASSUME NEW c \in live' \ lost'
                 PROVE  ob'[c].canRelease \/ \E i \in 1..Len(queue') : queue'[i] = c
      BY DEF LeftMarked
    <3>1. c \in live \ lost
      BY <2>4, <2>5, <2>7
    <3>2. ob[c].canRelease \/ \E i \in 1..Len(queue) : queue[i] = c
      BY <1>1, <3>1 DEF LeftMarked
    <3> QED BY <1>1, <2>1, <2>7, <3>1, <3>2
  <2> QED BY <2>5, <2>6, <2>8 DEF Kept
<1>4. CASE AllocNewBuffer(len, id)
  <2>1. PICK b \in OutBufs : TakeBuffer(b) /\ PutPacket(Fresh(b), b, len, id)
    BY <1>4 DEF AllocNewBuffer
  <2>2. /\ queue' = Append(queue, b) /\ b \notin live /\ b \notin lost
        /\ \A i \in 1..Len(queue') : queue'[i] \notin lost
        /\ \A i \in 1..Len(queue) : \E j \in 1..Len(queue') : queue'[j] = queue[i]
        /\ \E j \in 1..Len(queue') : queue'[j] = b
        /\ Cardinality(Places(recent, b, Len(recent))) = 0
    BY <1>2, <2>1
  <2>3. /\ Fresh(b) \in [OutBufs -> Buffer] /\ Fresh(b)[b].count = 0
        /\ \A c \in OutBufs \ {b} : Fresh(b)[c] = ob[c]
    BY FreshBuffers
  <2>4. \A c \in (live \cup {b}) \ lost :
            Fresh(b)[c].count = Cardinality(Places(recent, c, Len(recent)))
    BY <1>1, <2>2, <2>3 DEF KeptCounted
  <2>5. KeptLive' /\ KeptCounted' /\ lost' \subseteq live' /\ lost' = lost
    BY <1>1, <2>1, <2>2, <2>3, <2>4, PutKept
  <2>6. QueueNotLost'
    BY <2>2, <2>5 DEF QueueNotLost
  <2>7. /\ \A c \in OutBufs : ob'[c].canRelease = Fresh(b)[c].canRelease
        /\ \A c \in live' : c \in live \cup {b}
    BY <2>1, <2>3, PutBuffers
  <2>8. LeftMarked'
    <3> SUFFICES ASSUME NEW c \in live' \ lost'
                 PROVE  ob'[c].canRelease \/ \E i \in 1..Len(queue') : queue'[i] = c
      BY DEF LeftMarked
    <3>1. CASE c = b
      BY <2>2, <3>1
    <3>2. CASE c # b
      <4>1. c \in live \ lost /\ c \in OutBufs
        BY <1>1, <2>5, <2>7, <3>2
      <4>2. ob[c].canRelease \/ \E i \in 1..Len(queue) : queue[i] = c
        BY <1>1, <4>1 DEF LeftMarked
      <4>3. ob'[c].canRelease = ob[c].canRelease
        BY <2>3, <2>7, <3>2, <4>1
      <4> QED BY <2>2, <4>2, <4>3
    <3> QED BY <3>1, <3>2
  <2> QED BY <2>5, <2>6, <2>8 DEF Kept
<1>5. CASE AllocFails(len)
  <2>1. recent' = recent
    BY <1>5 DEF AllocFails
  <2>2. CASE AllocRefused
    BY <2>1, <2>2 DEF AllocRefused, bufferVars, Kept, KeptLive, KeptCounted, QueueNotLost,
                      LeftMarked
  <2>3. CASE AllocNoBuffer(len)
    <3>1. PICK b \in OutBufs \ live : live' = live \cup {b} /\ lost' = lost \cup {b}
      BY <2>3 DEF AllocNoBuffer
    <3>2. queue' = queue /\ ob' = ob
      BY <2>3 DEF AllocNoBuffer
    <3>3. live' \ lost' = live \ lost
      BY <1>1, <3>1
    <3>4. KeptLive' /\ KeptCounted' /\ LeftMarked'
      BY <1>1, <2>1, <3>2, <3>3 DEF KeptLive, KeptCounted, LeftMarked
    <3>5. QueueNotLost'
      BY <1>1, <3>1, <3>2, InQueueLive DEF QueueNotLost
    <3> QED BY <1>1, <3>1, <3>4, <3>5 DEF Kept
  <2>4. CASE AllocNoPacket(len)
    <3>1. PICK b \in OutBufs : TakeBuffer(b) /\ ob' = Fresh(b) /\ live' = live \cup {b}
      BY <2>4 DEF AllocNoPacket
    <3>2. lost' = lost
      BY <2>4 DEF AllocNoPacket
    <3>3. /\ b \notin live /\ b \notin lost
          /\ \A i \in 1..Len(queue') : queue'[i] \notin lost
          /\ \A i \in 1..Len(queue) : \E j \in 1..Len(queue') : queue'[j] = queue[i]
          /\ \E j \in 1..Len(queue') : queue'[j] = b
          /\ Cardinality(Places(recent, b, Len(recent))) = 0
      BY <1>2, <3>1
    <3>4. ob'[b].count = 0 /\ \A c \in OutBufs \ {b} : ob'[c] = ob[c]
      BY <3>1, FreshBuffers
    <3>5. KeptLive'
      BY <1>1, <2>1, <3>1, <3>2 DEF KeptLive
    <3>6. KeptCounted'
      BY <1>1, <2>1, <3>1, <3>2, <3>3, <3>4 DEF KeptCounted
    <3>7. QueueNotLost'
      BY <3>2, <3>3 DEF QueueNotLost
    <3>8. LeftMarked'
      <4> SUFFICES ASSUME NEW c \in live' \ lost', c # b
                   PROVE  ob'[c].canRelease \/ \E i \in 1..Len(queue') : queue'[i] = c
        BY <3>3 DEF LeftMarked
      <4>1. c \in live \ lost /\ ob'[c] = ob[c]
        BY <1>1, <3>1, <3>2, <3>4
      <4>2. ob[c].canRelease \/ \E i \in 1..Len(queue) : queue[i] = c
        BY <1>1, <4>1 DEF LeftMarked
      <4> QED BY <3>3, <4>1, <4>2
    <3>9. lost' \subseteq live'
      BY <1>1, <3>1, <3>2
    <3> QED BY <3>5, <3>6, <3>7, <3>8, <3>9 DEF Kept
  <2> QED BY <1>5, <2>2, <2>3, <2>4 DEF AllocFails
<1> QED BY <1>3, <1>4, <1>5 DEF AllocPacketWithId

\* A write marks the kept packets of the buffer it writes as sent.
LEMMA SendRecent ==
    ASSUME TypeOK, SendToRemote
    PROVE  LET b == queue[1]
           IN  /\ Len(recent') = Len(recent)
               /\ \A i \in 1..Len(recent) :
                     /\ recent'[i].buf = recent[i].buf /\ recent'[i].sn = recent[i].sn
                     /\ recent[i].sent => recent'[i].sent
                     /\ recent'[i].sent => recent[i].sent \/ recent[i].buf = b
                     /\ ob[b].wrote < Len(ob[b].pacs) /\ recent[i].buf = b => recent'[i].sent
               /\ ~ (ob[b].wrote < Len(ob[b].pacs)) => recent' = recent
<1> DEFINE b == queue[1]
<1>1. queue # <<>> /\ Head(queue) = b
  BY DEF SendToRemote, TypeOK
<1>2. recent \in Seq(Packet)
  BY DEF TypeOK
<1>3. CASE ~ (ob[b].wrote < Len(ob[b].pacs))
  BY <1>1, <1>3 DEF SendToRemote
<1>4. CASE ob[b].wrote < Len(ob[b].pacs)
  <2>1. recent' = [i \in DOMAIN recent |->
                      IF recent[i].buf = b THEN [recent[i] EXCEPT !.sent = TRUE] ELSE recent[i]]
    BY <1>1, <1>4 DEF SendToRemote, WriteHead
  <2> HIDE DEF b
  <2>2. DOMAIN recent = 1..Len(recent) /\ Len(recent) \in Nat
    BY <1>2
  <2>3. Len(recent') = Len(recent)
    BY <2>1, <2>2
  <2>4. ASSUME NEW i \in 1..Len(recent)
        PROVE  /\ recent'[i].buf = recent[i].buf /\ recent'[i].sn = recent[i].sn
               /\ recent[i].sent => recent'[i].sent
               /\ recent'[i].sent => recent[i].sent \/ recent[i].buf = b
               /\ recent[i].buf = b => recent'[i].sent
    <3>1. recent[i] \in Packet
      BY <1>2
    <3>2. \A p \in Packet : /\ [p EXCEPT !.sent = TRUE].buf = p.buf
                            /\ [p EXCEPT !.sent = TRUE].sn = p.sn
                            /\ [p EXCEPT !.sent = TRUE].sent
      BY DEF Packet
    <3>3. recent'[i] = IF recent[i].buf = b THEN [recent[i] EXCEPT !.sent = TRUE] ELSE recent[i]
      BY <2>1, <2>2
    <3> QED BY <3>1, <3>2, <3>3, Zenon
  <2> QED BY <1>4, <2>3, <2>4 DEF b
<1> QED BY <1>3, <1>4

LEMMA SendKept ==
    ASSUME TypeOK, QueueInv, Kept, SendToRemote
    PROVE  Kept'
<1> DEFINE b == queue[1]
<1>1. /\ KeptLive /\ KeptCounted /\ QueueNotLost /\ LeftMarked /\ lost \subseteq live
      /\ queue \in Seq(OutBufs) /\ live \subseteq OutBufs /\ recent \in Seq(Packet)
  BY DEF Kept, TypeOK
<1>2. /\ queue # <<>> /\ b \in OutBufs
      /\ \A c \in OutBufs :
            /\ ob'[c].count = ob[c].count
            /\ ob'[c].canRelease = IF c = b THEN Len(queue) > 1 ELSE ob[c].canRelease
      /\ queue' = IF Len(queue) > 1 THEN Tail(queue) ELSE queue
  BY SendBuffers
<1>3. live' = live /\ lost' = lost
  BY DEF SendToRemote
<1>4. Len(recent') = Len(recent) /\ \A i \in 1..Len(recent) : recent'[i].buf = recent[i].buf
  BY SendRecent
<1>5. \A c : Places(recent', c, Len(recent')) = Places(recent, c, Len(recent))
  BY <1>4 DEF Places
<1>6. KeptLive' /\ KeptCounted'
  <2>1. KeptLive'
    BY <1>1, <1>3, <1>4 DEF KeptLive
  <2>2. ASSUME NEW c \in live' \ lost'
        PROVE  ob'[c].count = Cardinality(Places(recent', c, Len(recent')))
    <3>1. c \in live \ lost /\ ob'[c].count = ob[c].count
      BY <1>1, <1>2, <1>3
    <3> QED BY <1>1, <1>5, <3>1 DEF KeptCounted
  <2> QED BY <2>1, <2>2 DEF KeptCounted
<1>7. Len(queue) \in Nat /\ Len(queue) >= 1 /\ b \in live /\ ~ ob[b].canRelease
  <2>1. Len(queue) \in Nat /\ Len(queue) >= 1
    BY <1>1, <1>2
  <2>2. 1 \in 1..Len(queue)
    BY <2>1
  <2> QED BY <2>1, <2>2, InQueueLive
<1>8. CASE Len(queue) > 1
  <2>1. /\ queue' = Tail(queue) /\ Len(queue') = Len(queue) - 1
        /\ \A i \in 1..Len(queue') : queue'[i] = queue[i + 1]
    BY <1>1, <1>2, <1>8, HeadTailProperties
  <2>2. QueueNotLost'
    <3> SUFFICES ASSUME NEW i \in 1..Len(queue') PROVE queue'[i] \notin lost
      BY <1>3 DEF QueueNotLost
    <3>1. i + 1 \in 1..Len(queue)
      BY <1>7, <2>1
    <3> QED BY <1>1, <2>1, <3>1 DEF QueueNotLost
  <2>3. LeftMarked'
    <3> SUFFICES ASSUME NEW c \in live \ lost, ~ ob'[c].canRelease
                 PROVE  \E i \in 1..Len(queue') : queue'[i] = c
      BY <1>3 DEF LeftMarked
    <3>1. c # b /\ c \in OutBufs
      BY <1>1, <1>2, <1>8
    <3>2. PICK i \in 1..Len(queue) : queue[i] = c
      BY <1>1, <1>2, <3>1 DEF LeftMarked
    <3>3. i # 1 /\ i - 1 \in 1..Len(queue') /\ (i - 1) + 1 = i
      BY <1>7, <2>1, <3>1, <3>2
    <3> QED BY <2>1, <3>2, <3>3
  <2> QED BY <1>1, <1>3, <1>6, <2>2, <2>3 DEF Kept
<1>9. CASE ~ (Len(queue) > 1)
  <2>1. queue' = queue
    BY <1>2, <1>9
  <2>2. \A c \in OutBufs : ob[c].canRelease => ob'[c].canRelease
    BY <1>2, <1>7
  <2>3. QueueNotLost' /\ LeftMarked'
    BY <1>1, <1>3, <2>1, <2>2 DEF QueueNotLost, LeftMarked
  <2> QED BY <1>1, <1>3, <1>6, <2>3 DEF Kept
<1> QED BY <1>8, <1>9

\* A packet released as the writer is destroyed is counted down in its buffer.
LEMMA DestroyDrops ==
    ASSUME TypeOK, DestroyPacket
    PROVE  /\ Len(recent) \in Nat \ {0} /\ Len(recent') = Len(recent) - 1
           /\ \A i \in 1..Len(recent') : recent'[i] = recent[i + 1] /\ i + 1 \in 1..Len(recent)
           /\ \A i \in 1..Len(recent) :
                 i # 1 => i - 1 \in 1..Len(recent') /\ recent'[i - 1] = recent[i]
           /\ \A c \in OutBufs :
                 /\ ob'[c].count = ob[c].count - Cardinality(Places(recent, c, 1))
                 /\ ob'[c].canRelease = ob[c].canRelease
                 /\ Cardinality(Places(recent', c, Len(recent')))
                      = Cardinality(Places(recent, c, Len(recent)))
                          - Cardinality(Places(recent, c, 1))
           /\ live' = live \ Released(ob, 1)
<1> DEFINE n == Len(recent)
<1>1. /\ recent \in Seq(Packet) /\ recent # <<>> /\ recent' = Tail(recent) /\ ob' = Counted(ob, 1)
      /\ live' = live \ Released(ob, 1) /\ ob \in [OutBufs -> Buffer]
  BY DEF TypeOK, DestroyPacket
<1>2. /\ n \in Nat \ {0} /\ Len(recent') = n - 1
      /\ \A i \in 1..Len(recent') : recent'[i] = recent[i + 1] /\ i + 1 \in 1..n
      /\ \A i \in 1..n : i # 1 => i - 1 \in 1..Len(recent') /\ recent'[i - 1] = recent[i]
  BY <1>1, TailQueue
<1>3. ASSUME NEW c \in OutBufs
      PROVE  /\ ob'[c].count = ob[c].count - Cardinality(Places(recent, c, 1))
             /\ ob'[c].canRelease = ob[c].canRelease
  <2>1. Places(recent, c, 1) = OfBuffer(c, 1)
    BY DEF Places, OfBuffer
  <2> QED BY <1>1, <2>1, CountedBuffers
<1> HIDE DEF n
<1>4. ASSUME NEW c
      PROVE  Cardinality(Places(recent', c, n - 1))
               = Cardinality(Places(recent, c, n)) - Cardinality(Places(recent, c, 1))
  <2>1. \A i \in 1..(n - 1) : recent'[i].buf = recent[i + 1].buf
    BY <1>2
  <2>2. n \in Nat /\ 1 \in 0..n
    BY <1>2
  <2>3. ASSUME NEW R, NEW R2, \A i \in 1..(n - 1) : R2[i].buf = R[i + 1].buf
        PROVE  Cardinality(Places(R2, c, n - 1))
                 = Cardinality(Places(R, c, n)) - Cardinality(Places(R, c, 1))
    BY ONLY <2>2, <2>3, PlacesShift
  <2> QED BY ONLY <2>1, <2>3
<1>5. \A c \in OutBufs : Cardinality(Places(recent', c, Len(recent')))
                           = Cardinality(Places(recent, c, n)) - Cardinality(Places(recent, c, 1))
  BY <1>2, <1>4
<1> QED BY <1>1, <1>2, <1>3, <1>5 DEF n

LEMMA DestroyKept ==
    ASSUME TypeOK, QueueWhole, KeptAll, DestroyPacketWriter
    PROVE  KeptAll'
<1>1. /\ KeptFreed /\ freed \cap live = {} /\ KeptCounted /\ QueueNotLost /\ LeftMarked
      /\ lost \subseteq live /\ queue \in Seq(OutBufs) /\ live \subseteq OutBufs
      /\ recent \in Seq(Packet)
  BY DEF KeptAll, TypeOK
<1>2. open' # "open" /\ lost' = lost
  BY DEF DestroyPacketWriter, DestroyBuffer, DestroyPacket, DestroyForeign, DestroyWriter,
         remoteVars, bufferVars
<1>3. CASE DestroyBuffer
  <2> DEFINE b == queue[1]
  <2>1. queue # <<>> /\ queue' = Tail(queue) /\ ob' = ob /\ recent' = recent
        /\ live' = live \ {Head(queue)} /\ freed' = freed \cup {Head(queue)}
    BY <1>3 DEF DestroyBuffer
  <2>2. /\ 1 \in 1..Len(queue) /\ Head(queue) = b
        /\ \A i \in 1..Len(queue') : queue'[i] = queue[i + 1] /\ i + 1 \in 1..Len(queue) /\ i + 1 # 1
        /\ \A i \in 1..Len(queue) :
              i # 1 => i - 1 \in 1..Len(queue') /\ queue'[i - 1] = queue[i]
    BY <1>1, <2>1, TailQueue
  <2>3. b \in live /\ b \notin lost /\ ~ ob[b].canRelease
    BY <1>1, <2>2 DEF QueueWhole, QueueNotLost
  <2> HIDE DEF b
  <2>4. KeptFreed' /\ freed' \cap live' = {} /\ lost' \subseteq live'
    BY <1>1, <1>2, <2>1, <2>2, <2>3 DEF KeptFreed
  <2>5. KeptCounted'
    BY <1>1, <1>2, <2>1 DEF KeptCounted
  <2>6. QueueNotLost'
    BY <1>1, <1>2, <2>2 DEF QueueNotLost
  <2>7. LeftMarked'
    <3> SUFFICES ASSUME NEW c \in live' \ lost', ~ ob'[c].canRelease
                 PROVE  \E i \in 1..Len(queue') : queue'[i] = c
      BY DEF LeftMarked
    <3>1. c \in live \ lost /\ c # b /\ ~ ob[c].canRelease
      BY <1>2, <2>1, <2>2
    <3>2. PICK i \in 1..Len(queue) : queue[i] = c
      BY <1>1, <3>1 DEF LeftMarked
    <3>3. i # 1
      BY <3>1, <3>2 DEF b
    <3> QED BY <2>2, <3>2, <3>3
  <2> QED BY <1>2, <2>4, <2>5, <2>6, <2>7 DEF KeptAll
<1>4. CASE DestroyPacket
  <2>1. queue = <<>> /\ queue' = queue /\ freed' = freed
    BY <1>4 DEF DestroyPacket
  <2>2. /\ Len(recent') = Len(recent) - 1 /\ Len(recent) \in Nat \ {0}
        /\ \A i \in 1..Len(recent') : recent'[i] = recent[i + 1] /\ i + 1 \in 1..Len(recent)
        /\ \A c \in OutBufs :
              /\ ob'[c].count = ob[c].count - Cardinality(Places(recent, c, 1))
              /\ ob'[c].canRelease = ob[c].canRelease
              /\ Cardinality(Places(recent', c, Len(recent')))
                   = Cardinality(Places(recent, c, Len(recent))) - Cardinality(Places(recent, c, 1))
        /\ live' = live \ Released(ob, 1)
    BY <1>4, DestroyDrops
  <2>3. ASSUME NEW c \in live \ lost
        PROVE  ob'[c].count = Cardinality(Places(recent', c, Len(recent')))
    <3>1. c \in OutBufs
      BY <1>1
    <3> QED BY <1>1, <2>2, <2>3, <3>1 DEF KeptCounted
  <2>4. ASSUME NEW i \in 1..Len(recent'), recent'[i].buf \in Released(ob, 1)
        PROVE  recent'[i].buf \in freed
    <3>1. PICK c : c = recent'[i].buf
      OBVIOUS
    <3>2. recent[i + 1].buf = c /\ i + 1 \in 1..Len(recent)
      BY <2>2, <3>1
    <3>3. CASE c \in live \ lost
      <4>1. ob[c].count = Cardinality(Places(recent, c, 1)) /\ c \in OutBufs
        <5>1. Places(recent, c, 1) = OfBuffer(c, 1)
          BY DEF Places, OfBuffer
        <5> QED BY <1>1, <2>4, <3>1, <3>3, <5>1 DEF Released
      <4>2. Cardinality(Places(recent', c, Len(recent'))) = 0
        <5>1. 1 \in Nat /\ 0 \in 0..1
          OBVIOUS
        <5>2. Cardinality(Places(recent, c, 1)) \in Nat
          BY <5>1, PlacesFinite
        <5> QED BY <2>2, <2>3, <3>3, <4>1, <5>2
      <4>3. Len(recent') \in Nat /\ 0 \in 0..Len(recent')
        BY <2>2
      <4>4. IsFiniteSet(Places(recent', c, Len(recent')))
        BY <4>3, PlacesFinite
      <4>5. Places(recent', c, Len(recent')) = {}
        BY <4>2, <4>4, FS_EmptySet
      <4>6. i \in Places(recent', c, Len(recent'))
        BY <3>1 DEF Places
      <4> QED BY <4>5, <4>6
    <3>4. c \in (live \ lost) \cup freed
      BY <1>1, <3>2 DEF KeptFreed
    <3> QED BY <3>1, <3>3, <3>4
  <2>5. KeptFreed'
    <3> SUFFICES ASSUME NEW i \in 1..Len(recent')
                 PROVE  recent'[i].buf \in (live' \ lost) \cup freed
      BY <1>2, <2>1 DEF KeptFreed
    <3>1. PICK c : c = recent'[i].buf
      OBVIOUS
    <3>2. c \in (live \ lost) \cup freed
      BY <1>1, <2>2, <3>1 DEF KeptFreed
    <3> QED BY <2>2, <2>4, <3>1, <3>2
  <2>6. KeptCounted'
    BY <1>2, <2>2, <2>3 DEF KeptCounted
  <2>7. QueueNotLost' /\ freed' \cap live' = {}
    BY <1>1, <1>2, <2>1, <2>2 DEF QueueNotLost
  <2>8. LeftMarked'
    <3> SUFFICES ASSUME NEW c \in live \ lost PROVE ob'[c].canRelease
      BY <1>2, <2>2 DEF LeftMarked
    <3>1. c \in OutBufs /\ Len(queue) = 0
      BY <1>1, <2>1
    <3>2. ob[c].canRelease
      BY <1>1, <3>1 DEF LeftMarked
    <3> QED BY <2>2, <3>1, <3>2
  <2>9. lost' \subseteq live'
    <3> SUFFICES ASSUME NEW c \in lost, c \in Released(ob, 1) PROVE FALSE
      BY <1>1, <1>2, <2>2
    <3>1. PICK i \in 1..1 : recent[i].buf = c
      BY DEF Released, OfBuffer
    <3>2. i \in 1..Len(recent)
      BY <2>2
    <3>3. c \in (live \ lost) \cup freed
      BY <1>1, <3>1, <3>2 DEF KeptFreed
    <3> QED BY <1>1, <3>3
  <2> QED BY <1>2, <2>5, <2>6, <2>7, <2>8, <2>9 DEF KeptAll
<1>5. CASE DestroyForeign \/ DestroyWriter
  <2>1. queue' = queue /\ recent' = recent /\ ob' = ob /\ live' = live /\ freed' = freed
    BY <1>5 DEF DestroyForeign, DestroyWriter, writerVars, bufferVars
  <2> QED BY <1>1, <1>2, <2>1 DEF KeptAll, KeptFreed, KeptCounted, QueueNotLost, LeftMarked
<1> QED BY <1>3, <1>4, <1>5 DEF DestroyPacketWriter

\* The buffers freed with the queue are a matter of APB_DestroyPacketWriter.
LEMMA AllocFreed ==
    ASSUME TypeOK, NEW len \in Lengths, NEW id \in 0..(IdMod - 1), AllocPacketWithId(len, id)
    PROVE  freed' = freed /\ open' = open
<1>1. CASE AllocInBuffer(len, id)
  <2>1. cur \in OutBufs /\ PutPacket(ob, cur, len, id) /\ ob \in [OutBufs -> Buffer]
    BY <1>1 DEF AllocInBuffer, NeedsBuffer, TypeOK
  <2> QED BY <2>1, PutBuffers
<1>2. CASE AllocNewBuffer(len, id)
  <2>1. PICK b \in OutBufs : PutPacket(Fresh(b), b, len, id)
    BY <1>2 DEF AllocNewBuffer
  <2> QED BY <2>1, FreshBuffers, PutBuffers
<1>3. CASE AllocFails(len)
  BY <1>3 DEF AllocFails, AllocRefused, AllocNoBuffer, AllocNoPacket, bufferVars
<1> QED BY <1>1, <1>2, <1>3 DEF AllocPacketWithId

LEMMA KeptStep == TypeOK /\ QueueKept /\ KeptAll /\ [Next]_vars => KeptAll'
<1> SUFFICES ASSUME TypeOK, QueueKept, KeptAll, [Next]_vars PROVE KeptAll'
  OBVIOUS
<1>0. Kept' /\ freed' = {} => KeptAll'
  BY DEF KeptAll, KeptFreed, Kept, KeptLive
<1>1. ASSUME NEW len \in Lengths, AllocPacket(len) PROVE KeptAll'
  <2>1. open = "open" /\ nextId \in 0..(IdMod - 1) /\ AllocPacketWithId(len, nextId)
    BY <1>1 DEF AllocPacket, TypeOK
  <2>2. QueueInv /\ Kept /\ freed = {}
    BY <2>1, OpenKept DEF QueueKept
  <2> QED BY <1>0, <2>1, <2>2, AllocKept, AllocFreed
<1>2. CASE SendToRemote
  <2>1. QueueInv /\ Kept /\ freed = {} /\ freed' = freed
    BY <1>2, OpenKept DEF SendToRemote, CanWrite, QueueKept
  <2> QED BY <1>0, <1>2, <2>1, SendKept
<1>3. CASE WriteDone \/ HandleSignal \/ CloseRemote \/ UNCHANGED vars
  <2>1. /\ queue' = queue /\ recent' = recent /\ ob' = ob /\ live' = live /\ lost' = lost
        /\ freed' = freed /\ (open' = "open" => open = "open")
    BY <1>3 DEF WriteDone, HandleSignal, CloseRemote, vars, writerVars, bufferVars, remoteVars
  <2> QED BY <2>1 DEF KeptAll, KeptFreed, KeptCounted, QueueNotLost, LeftMarked
<1>4. ASSUME NEW packId \in 0..(IdMod - 1), ResendPacket(packId) PROVE KeptAll'
  BY <1>3, <1>4, NoMatch
<1> QED BY <1>1, <1>2, <1>3, <1>4, DestroyKept DEF Next, QueueKept

LEMMA KeptAlways == Spec => [](TypeOK /\ QueueKept /\ KeptAll)
<1>1. Init => KeptAll
  <2> SUFFICES ASSUME Init PROVE KeptAll
    OBVIOUS
  <2>1. queue = <<>> /\ recent = <<>> /\ live = {} /\ lost = {} /\ freed = {} /\ Len(<<>>) = 0
    BY DEF Init
  <2> QED BY <2>1 DEF KeptAll, KeptFreed, KeptCounted, QueueNotLost, LeftMarked
<1> QED BY <1>1, InitQueue, InitTypes, StepTypes, QueueStep, KeptStep, PTL DEF Spec

\* A packet kept to be sent again lies in a buffer that APB_ReleaseOutPacket has
\* not given back, and ob_PacketCount is exact, whatever order packets are
\* accepted, written and dropped in.  Only APB_DestroyPacketWriter leaves kept
\* packets without their buffers: those of the buffers it frees with the queue.
THEOREM KeptCorrect == Spec => []KeptInLive
  BY KeptAlways, KeptIsKept, PTL

-----------------------------------------------------------------------------
(* The buffer being written.                                               *)

\* With fields o of the buffers, the serials of the packets in buffer c.
In(o, c, sn) == o[c].start < sn /\ sn <= o[c].start + Len(o[c].pacs)

\* The kept packets are in order; those handed to the device are marked as
\* sent; and those of a buffer of the queue lie in it.
Ordered == \A i, j \in 1..Len(recent) : i < j => recent[i].sn < recent[j].sn

Marked ==
    \A i \in 1..Len(recent) : /\ recent[i].sn \in Nat /\ recent[i].sn <= accepted
                              /\ recent[i].sent <=> recent[i].sn <= Len(handed)

Placed ==
    \A i \in 1..Len(recent), q \in 1..Len(queue) :
        recent[i].buf = queue[q] <=> In(ob, queue[q], recent[i].sn)

InSequence == Ordered /\ Marked /\ Placed

\* No more packets are handed to the device than there are.
LEMMA HandedAccepted ==
    ASSUME TypeOK, QueueInv, queue # <<>>
    PROVE  Len(handed) <= accepted
<1> DEFINE b == queue[1]
<1>1. 1 \in 1..Len(queue) /\ b \in OutBufs
  BY DEF TypeOK
<1>2. /\ ob[b].wrote <= Len(ob[b].pacs) /\ ob[b].start + Len(ob[b].pacs) <= accepted
      /\ ob[b].start + ob[b].wrote = Len(handed)
  BY <1>1 DEF QueueInv, InOrderQueue, Filled
<1>3. ob[b].start \in Nat /\ ob[b].wrote \in Nat /\ Len(ob[b].pacs) \in Nat
  BY <1>1, Fields DEF TypeOK
<1> QED BY <1>2, <1>3 DEF TypeOK

\* A packet put at the end of the queue.  o gives the buffers, and new whether
\* b has just been taken.
LEMMA PutSequence ==
    ASSUME TypeOK, QueueInv, InSequence, KeptLive, TypeOK', QueueInv', open = "open",
           NEW o \in [OutBufs -> Buffer], NEW b \in OutBufs, NEW len \in Lengths,
           NEW id \in 0..(IdMod - 1), PutPacket(o, b, len, id),
           queue' # <<>>, queue'[Len(queue')] = b,
           \A c \in OutBufs \ {b} : o[c] = ob[c],
           \/ o[b] = ob[b] /\ queue' = queue
           \/ b \notin live /\ o[b].pacs = <<>> /\ queue' = Append(queue, b)
    PROVE  InSequence'
<1> DEFINE n == Len(recent)
<1>1. PICK k \in 0..n : \E G : DroppedFor(o, b, k, G)
  BY PutDrops
<1>2. /\ Len(recent') = (n - k) + 1
      /\ \A i \in 1..(n - k) : recent'[i] = recent[i + k]
      /\ recent'[(n - k) + 1].buf = b /\ recent'[(n - k) + 1].sn = accepted + 1
      /\ recent'[(n - k) + 1].sent = FALSE
  BY <1>1 DEF DroppedFor
<1>3. /\ n \in Nat /\ k \in Nat /\ n - k \in Nat /\ accepted \in Nat /\ Len(handed) \in Nat
      /\ accepted' = accepted + 1 /\ handed' = handed
  <2>1. accepted' = accepted + 1 /\ handed' = handed
    BY PutBuffers
  <2> QED BY <2>1 DEF TypeOK
<1>4. Ordered /\ Marked /\ Placed
  BY DEF InSequence
<1> HIDE DEF n
<1>5. \A i \in 1..(n - k) : i + k \in 1..n
  BY <1>3
<1>6. \A i \in 1..Len(recent') : i \in 1..(n - k) \/ i = (n - k) + 1
  BY <1>2, <1>3
<1>7. Ordered'
  <2> SUFFICES ASSUME NEW i \in 1..Len(recent'), NEW j \in 1..Len(recent'), i < j
               PROVE  recent'[i].sn < recent'[j].sn
    BY DEF Ordered
  <2>1. i \in 1..(n - k) /\ recent'[i] = recent[i + k]
    BY <1>2, <1>3
  <2>2. CASE j \in 1..(n - k)
    <3>1. i + k < j + k
      BY <1>3
    <3>2. recent[i + k].sn < recent[j + k].sn
      BY <1>4, <1>5, <2>1, <2>2, <3>1 DEF Ordered, n
    <3> QED BY <1>2, <2>1, <2>2, <3>2
  <2>3. CASE j = (n - k) + 1
    <3>1. recent[i + k].sn \in Nat /\ recent[i + k].sn <= accepted
      BY <1>4, <1>5, <2>1 DEF Marked, n
    <3> QED BY <1>2, <1>3, <2>1, <2>3, <3>1
  <2> QED BY <1>6, <2>2, <2>3
<1>8. Marked'
  <2> SUFFICES ASSUME NEW i \in 1..Len(recent')
               PROVE  /\ recent'[i].sn \in Nat /\ recent'[i].sn <= accepted'
                      /\ recent'[i].sent <=> recent'[i].sn <= Len(handed')
    BY DEF Marked
  <2>1. CASE i \in 1..(n - k)
    <3>1. /\ recent[i + k].sn \in Nat /\ recent[i + k].sn <= accepted
          /\ recent[i + k].sent <=> recent[i + k].sn <= Len(handed)
      BY <1>4, <1>5, <2>1 DEF Marked, n
    <3>2. recent[i + k].sn <= accepted + 1
      BY ONLY <1>3, <3>1
    <3>3. recent'[i] = recent[i + k]
      BY <1>2, <2>1
    <3> QED BY <1>3, <3>1, <3>2, <3>3, Zenon
  <2>2. CASE i = (n - k) + 1
    <3>1. Len(handed) <= accepted
      <4>1. CASE queue = <<>>
        BY <1>3, <4>1 DEF QueueInv
      <4>2. CASE queue # <<>>
        BY <4>2, HandedAccepted
      <4> QED BY <4>1, <4>2
    <3> QED BY <1>2, <1>3, <2>2, <3>1
  <2> QED BY <1>6, <2>1, <2>2
<1>9. ASSUME NEW q \in 1..Len(queue')
      PROVE  /\ queue'[q] \in OutBufs /\ (queue'[q] = b => q = Len(queue'))
             /\ q # Len(queue') => q \in 1..Len(queue) /\ queue'[q] = queue[q]
             /\ queue' = queue => q \in 1..Len(queue) /\ queue'[q] = queue[q]
  <2>1. queue' \in Seq(OutBufs) /\ queue \in Seq(OutBufs) /\ Len(queue') \in 1..Len(queue')
    BY DEF TypeOK
  <2>2. \A i, j \in 1..Len(queue') : queue'[i] = queue'[j] => i = j
    BY DEF QueueInv, InOrderQueue
  <2>3. queue'[q] \in OutBufs /\ (queue'[q] = b => q = Len(queue'))
    BY <2>1, <2>2
  <2>4. ASSUME q # Len(queue'), queue' = Append(queue, b)
        PROVE  q \in 1..Len(queue) /\ queue'[q] = queue[q]
    BY <2>1, <2>4, AppendProperties
  <2> QED BY <2>3, <2>4
<1>10. \A c \in OutBufs : /\ ob'[c].start = o[c].start
                          /\ ob'[c].pacs = IF c = b THEN Append(o[b].pacs, accepted + 1) ELSE o[c].pacs
  BY PutBuffers
<1>11. \A c \in OutBufs : o[c].start \in Nat /\ o[c].pacs \in Seq(Nat) /\ Len(o[c].pacs) \in Nat
  BY Fields
<1>12. /\ Len(ob'[b].pacs) = Len(o[b].pacs) + 1 /\ ob'[b].start = o[b].start
       /\ o[b].start + Len(o[b].pacs) = accepted
  <2>1. Len(ob'[b].pacs) = Len(o[b].pacs) + 1 /\ ob'[b].start = o[b].start
    <3>1. ob'[b].pacs = Append(o[b].pacs, accepted + 1) /\ o[b].pacs \in Seq(Nat)
      BY <1>10, <1>11
    <3> QED BY <1>3, <1>10, <3>1, AppendProperties
  <2>2. ob'[b].start + Len(ob'[b].pacs) = accepted'
    BY DEF QueueInv, InOrderQueue
  <2>3. o[b].start \in Nat /\ Len(o[b].pacs) \in Nat
    BY <1>11
  <2> QED BY <1>3, <2>1, <2>2, <2>3
<1>13. /\ o[b].start \in Nat /\ o[b].start <= accepted /\ ob'[b].start = o[b].start
       /\ ob'[b].start + Len(ob'[b].pacs) = accepted + 1
  <2>1. o[b].start \in Nat /\ Len(o[b].pacs) \in Nat
    BY <1>11
  <2>2. PICK x \in Nat : x = o[b].start
    BY <2>1
  <2>3. PICK y \in Nat : y = Len(o[b].pacs)
    BY <2>1
  <2>4. x + y = accepted
    BY <1>12, <2>2, <2>3, Zenon
  <2>5. x <= accepted /\ x + (y + 1) = accepted + 1
    BY ONLY <1>3, <2>4, x \in Nat, y \in Nat
  <2> QED BY <1>12, <2>2, <2>3, <2>5, Zenon
<1>14. Placed'
  <2> SUFFICES ASSUME NEW i \in 1..Len(recent'), NEW q \in 1..Len(queue')
               PROVE  recent'[i].buf = queue'[q] <=> In(ob', queue'[q], recent'[i].sn)
    BY DEF Placed
  <2> DEFINE c == queue'[q]
  <2>1. c \in OutBufs /\ (c = b => q = Len(queue'))
    BY <1>9
  <2>2. CASE i = (n - k) + 1
    <3>1. CASE c = b
      <4>1. In(ob', b, accepted + 1)
        BY ONLY <1>3, <1>13 DEF In
      <4> QED BY <1>2, <2>2, <3>1, <4>1
    <3>2. CASE c # b
      <4>1. ob'[c].start + Len(ob'[c].pacs) <= accepted
        <5>1. q # Len(queue')
          BY <3>2
        <5>2. q \in 1..Len(queue) /\ c = queue[q] /\ queue # <<>>
          BY <1>9, <5>1
        <5>3. ob[c].start + Len(ob[c].pacs) <= accepted
          BY <5>2 DEF QueueInv, InOrderQueue, Filled
        <5> QED BY <1>10, <2>1, <3>2, <5>3
      <4>2. ob'[c].start \in Nat /\ Len(ob'[c].pacs) \in Nat
        BY <1>10, <1>11, <2>1, <3>2
      <4>3. ~ (accepted + 1 <= ob'[c].start + Len(ob'[c].pacs))
        <5>1. \A a, st, m \in Nat : st + m <= a => ~ (a + 1 <= st + m)
          OBVIOUS
        <5> HIDE DEF c
        <5> QED BY <1>3, <4>1, <4>2, <5>1, Zenon
      <4>4. ~ In(ob', c, recent'[i].sn) /\ recent'[i].buf # c
        BY <1>2, <2>2, <3>2, <4>3 DEF In
      <4> QED BY <4>4
    <3> QED BY <3>1, <3>2
  <2>3. CASE i \in 1..(n - k)
    <3>1. /\ recent'[i] = recent[i + k] /\ i + k \in 1..Len(recent)
          /\ recent[i + k].sn \in Nat /\ recent[i + k].sn <= accepted
      BY <1>2, <1>4, <1>5, <2>3 DEF Marked, n
    <3>5. PICK x \in Nat : x = recent[i + k].sn /\ x <= accepted
      BY <3>1
    <3>2. CASE c = b /\ o[b] = ob[b] /\ queue' = queue
      <4>1. recent[i + k].buf = b <=> In(ob, b, x)
        BY <1>4, <1>9, <3>1, <3>5, <3>2 DEF Placed
      <4>2. /\ ob'[b].start = o[b].start /\ o[b].start \in Nat
            /\ ob'[b].start + Len(ob'[b].pacs) = accepted + 1
            /\ ob[b].start = o[b].start /\ ob[b].start + Len(ob[b].pacs) = accepted
        BY <1>12, <1>13, <3>2
      <4>3. In(ob', b, x) <=> o[b].start < x
        BY ONLY <1>3, <3>5, <4>2 DEF In
      <4>4. In(ob, b, x) <=> o[b].start < x
        BY ONLY <1>3, <3>5, <4>2 DEF In
      <4> QED BY <3>1, <3>5, <3>2, <4>1, <4>3, <4>4
    <3>3. CASE c = b /\ b \notin live /\ o[b].pacs = <<>>
      <4>1. recent[i + k].buf # b
        BY <3>1, <3>3 DEF KeptLive
      <4>2. Len(o[b].pacs) = 0
        BY <3>3
      <4>3. ob'[b].start = accepted
        BY ONLY <1>12, <1>13, <4>2
      <4>4. ~ In(ob', b, x)
        BY ONLY <1>3, <3>5, <4>3 DEF In
      <4> QED BY <3>1, <3>5, <3>3, <4>1, <4>4
    <3>4. CASE c # b
      <4>1. q \in 1..Len(queue) /\ c = queue[q]
        BY <1>9, <3>4
      <4>2. recent[i + k].buf = c <=> In(ob, c, recent[i + k].sn)
        BY <1>4, <3>1, <4>1 DEF Placed
      <4>3. ob'[c].start = ob[c].start /\ ob'[c].pacs = ob[c].pacs
        BY <1>10, <2>1, <3>4
      <4> QED BY <3>1, <4>2, <4>3 DEF In
    <3> QED BY <3>2, <3>3, <3>4
  <2> QED BY <1>6, <2>2, <2>3
<1> QED BY <1>7, <1>8, <1>14 DEF InSequence

LEMMA AllocSequence ==
    ASSUME TypeOK, QueueInv, Kept, InSequence, TypeOK', QueueInv', open = "open",
           NEW len \in Lengths, NEW id \in 0..(IdMod - 1), AllocPacketWithId(len, id)
    PROVE  InSequence'
<1>0. /\ KeptLive /\ Ordered /\ Marked /\ Placed
      /\ ob \in [OutBufs -> Buffer] /\ queue \in Seq(OutBufs) /\ recent \in Seq(Packet)
  BY DEF Kept, InSequence, TypeOK
<1>1. CASE AllocInBuffer(len, id)
  <2>1. cur # NoBuf /\ PutPacket(ob, cur, len, id) /\ queue' = queue
    BY <1>1 DEF AllocInBuffer, NeedsBuffer
  <2>2. cur \in OutBufs /\ queue' # <<>> /\ queue'[Len(queue')] = cur
    BY <2>1 DEF TypeOK, QueueInv
  <2> QED BY <1>0, <2>1, <2>2, PutSequence
<1>2. CASE AllocNewBuffer(len, id)
  <2>1. PICK b \in OutBufs : TakeBuffer(b) /\ PutPacket(Fresh(b), b, len, id)
    BY <1>2 DEF AllocNewBuffer
  <2>2. /\ queue' # <<>> /\ queue'[Len(queue')] = b
        /\ b \notin live /\ queue' = Append(queue, b)
    BY <2>1, TakeQueue DEF TakeBuffer
  <2>3. /\ Fresh(b) \in [OutBufs -> Buffer] /\ Fresh(b)[b].pacs = <<>>
        /\ \A c \in OutBufs \ {b} : Fresh(b)[c] = ob[c]
    BY FreshBuffers
  <2> QED BY <1>0, <2>1, <2>2, <2>3, PutSequence
<1>3. CASE AllocFails(len)
  <2>1. recent' = recent /\ accepted' = accepted /\ handed' = handed
    BY <1>3 DEF AllocFails
  <2>2. Ordered' /\ Marked'
    BY <1>0, <2>1 DEF Ordered, Marked
  <2>3. CASE AllocRefused \/ AllocNoBuffer(len)
    <3>1. queue' = queue /\ ob' = ob
      BY <2>3 DEF AllocRefused, AllocNoBuffer, bufferVars
    <3>2. Placed'
      BY <1>0, <2>1, <3>1 DEF Placed
    <3> QED BY <2>2, <3>2 DEF InSequence
  <2>4. CASE AllocNoPacket(len)
    <3>1. PICK b \in OutBufs : TakeBuffer(b) /\ ob' = Fresh(b)
      BY <2>4 DEF AllocNoPacket
    <3>2. queue' = Append(queue, b) /\ b \notin live
      BY <3>1 DEF TakeBuffer
    <3>3. /\ ob'[b].pacs = <<>> /\ ob'[b].start \in Nat
          /\ \A c \in OutBufs \ {b} : ob'[c] = ob[c]
      BY <3>1, FreshBuffers, Fields
    <3> SUFFICES ASSUME NEW i \in 1..Len(recent), NEW q \in 1..Len(queue')
                 PROVE  recent[i].buf = queue'[q] <=> In(ob', queue'[q], recent[i].sn)
      BY <2>1, <2>2 DEF InSequence, Placed
    <3>4. (q \in 1..Len(queue) /\ queue'[q] = queue[q]) \/ queue'[q] = b
      BY <1>0, <3>2, AppendProperties
    <3>5. CASE queue'[q] = b
      <4>1. recent[i].buf # b
        BY <1>0, <3>2 DEF KeptLive
      <4>2. Len(ob'[b].pacs) = 0 /\ recent[i].sn \in Nat
        BY <1>0, <3>3 DEF Marked
      <4>3. ~ In(ob', b, recent[i].sn)
        BY <3>3, <4>2 DEF In
      <4> QED BY <3>5, <4>1, <4>3
    <3>6. CASE q \in 1..Len(queue) /\ queue'[q] = queue[q]
      <4>1. queue[q] \in live /\ queue[q] \in OutBufs
        BY <1>0, <3>6, InQueueLive
      <4>2. ob'[queue[q]] = ob[queue[q]]
        BY <3>2, <3>3, <4>1
      <4>3. recent[i].buf = queue[q] <=> In(ob, queue[q], recent[i].sn)
        BY <1>0, <3>6 DEF Placed
      <4> QED BY <3>6, <4>2, <4>3 DEF In
    <3> QED BY <3>4, <3>5, <3>6
  <2> QED BY <1>3, <2>3, <2>4 DEF AllocFails
<1> QED BY <1>1, <1>2, <1>3 DEF AllocPacketWithId

\* A write hands over, and marks, all there is of the first buffer.
LEMMA SendSequence ==
    ASSUME TypeOK, QueueInv, InSequence, SendToRemote
    PROVE  InSequence'
<1> DEFINE b == queue[1]
           n == Len(ob[b].pacs)
           w == ob[b].wrote
           st == ob[b].start
<1>0. /\ Ordered /\ Marked /\ Placed /\ accepted' = accepted
      /\ queue \in Seq(OutBufs) /\ queue # <<>> /\ 1 \in 1..Len(queue) /\ b \in OutBufs
      /\ Head(queue) = b
  BY DEF InSequence, TypeOK, SendToRemote
<1>1. /\ st \in Nat /\ w \in Nat /\ n \in Nat /\ w <= n /\ st + w = Len(handed)
      /\ st + n <= accepted /\ handed \in Seq(Nat) /\ ob[b].pacs \in Seq(Nat)
  <2>1. st \in Nat /\ w \in Nat /\ ob[b].pacs \in Seq(Nat) /\ n \in Nat /\ handed \in Seq(Nat)
    BY <1>0, Fields DEF TypeOK
  <2>2. Filled(ob, live, accepted, b) /\ st + w = Len(handed)
    BY <1>0 DEF QueueInv, InOrderQueue
  <2> QED BY <2>1, <2>2 DEF Filled
<1>2. Len(handed') = st + n
  <2>1. CASE w < n
    <3>1. handed' = handed \o SubSeq(ob[b].pacs, w + 1, n)
      BY <1>0, <2>1 DEF SendToRemote, WriteHead
    <3> DEFINE p == ob[b].pacs
               v == SubSeq(p, w + 1, n)
    <3>2. v \in Seq(Nat) /\ Len(v) = n - w
      <4>0. p \in Seq(Nat) /\ n = Len(p)
        BY <1>1
      <4> HIDE DEF p, n, w
      <4>1. \A i \in (w + 1)..n : p[i] \in Nat
        BY <1>1, <4>0
      <4>2. w + 1 \in Int /\ n \in Int /\ w + 1 <= n /\ n - (w + 1) + 1 = n - w
        BY <1>1, <2>1
      <4> QED BY <4>1, <4>2, SubSeqProperties
    <3> HIDE DEF v, p, n, w, st
    <3>3. Len(handed \o v) = Len(handed) + Len(v)
      BY <1>1, <3>2, ConcatProperties
    <3>4. Len(handed') = (st + w) + (n - w)
      BY <1>1, <3>1, <3>2, <3>3 DEF v, p
    <3> QED BY <1>1, <3>4
  <2>2. CASE ~ (w < n)
    <3>1. handed' = handed
      BY <1>0, <2>2 DEF SendToRemote
    <3> QED BY <1>1, <2>2, <3>1
  <2> QED BY <2>1, <2>2
<1>3. /\ Len(recent') = Len(recent)
      /\ \A i \in 1..Len(recent) :
            /\ recent'[i].buf = recent[i].buf /\ recent'[i].sn = recent[i].sn
            /\ recent[i].sent => recent'[i].sent
            /\ recent'[i].sent => recent[i].sent \/ recent[i].buf = b
            /\ w < n /\ recent[i].buf = b => recent'[i].sent
  BY SendRecent
<1>4. Ordered'
  BY <1>0, <1>3 DEF Ordered
<1>5. Marked'
  <2> SUFFICES ASSUME NEW i \in 1..Len(recent)
               PROVE  /\ recent'[i].sn \in Nat /\ recent'[i].sn <= accepted'
                      /\ recent'[i].sent <=> recent'[i].sn <= Len(handed')
    BY <1>3 DEF Marked
  <2> DEFINE sn == recent[i].sn
  <2>1. /\ sn \in Nat /\ sn <= accepted /\ (recent[i].sent <=> sn <= st + w)
    BY <1>0, <1>1 DEF Marked
  <2>2. recent[i].buf = b <=> st < sn /\ sn <= st + n
    BY <1>0 DEF Placed, In
  <2> HIDE DEF sn, st, w, n
  <2>3. ASSUME recent'[i].sent PROVE sn <= st + n
    <3>1. recent[i].sent \/ recent[i].buf = b
      BY <1>3, <2>3
    <3> QED BY <1>1, <2>1, <2>2, <3>1
  <2>4. ASSUME sn <= st + n PROVE recent'[i].sent
    <3>1. CASE sn <= st + w
      BY <1>3, <2>1, <3>1
    <3>2. CASE ~ (sn <= st + w)
      <4>1. st < sn /\ w < n
        BY <1>1, <2>1, <2>4, <3>2
      <4> QED BY <1>3, <2>2, <2>4, <4>1
    <3> QED BY <3>1, <3>2
  <2>5. recent'[i].sent <=> sn <= st + n
    BY <2>3, <2>4
  <2>6. recent'[i].sn = sn
    BY <1>3 DEF sn
  <2> QED BY <1>0, <1>2, <2>1, <2>5, <2>6
<1>6. Placed'
  <2>1. \A c \in OutBufs : ob'[c].pacs = ob[c].pacs /\ ob'[c].start = ob[c].start
    BY SendBuffers
  <2>2. ASSUME NEW q \in 1..Len(queue') PROVE \E p \in 1..Len(queue) : queue'[q] = queue[p]
    <3>1. queue' = IF Len(queue) > 1 THEN Tail(queue) ELSE queue
      BY SendBuffers
    <3>2. CASE Len(queue) > 1
      <4>1. Len(queue') = Len(queue) - 1 /\ queue'[q] = queue[q + 1]
        BY <1>0, <3>1, <3>2, HeadTailProperties
      <4>2. q + 1 \in 1..Len(queue)
        BY <1>0, <4>1
      <4> QED BY <4>1, <4>2
    <3> QED BY <3>1, <3>2
  <2> SUFFICES ASSUME NEW i \in 1..Len(recent), NEW q \in 1..Len(queue')
               PROVE  recent'[i].buf = queue'[q] <=> In(ob', queue'[q], recent'[i].sn)
    BY <1>3 DEF Placed
  <2>3. PICK p \in 1..Len(queue) : queue'[q] = queue[p]
    BY <2>2
  <2>4. queue[p] \in OutBufs
    BY <1>0
  <2>5. recent[i].buf = queue[p] <=> In(ob, queue[p], recent[i].sn)
    BY <1>0 DEF Placed
  <2>6. recent'[i].buf = recent[i].buf /\ recent'[i].sn = recent[i].sn
    BY <1>3
  <2> HIDE DEF b, n, w, st
  <2> QED BY <2>1, <2>3, <2>4, <2>5, <2>6 DEF In
<1> QED BY <1>4, <1>5, <1>6 DEF InSequence

SequenceKept == open = "open" => InSequence

LEMMA SequenceStep ==
    TypeOK /\ TypeOK' /\ QueueKept /\ QueueKept' /\ KeptAll /\ SequenceKept /\ [Next]_vars
        => SequenceKept'
<1> SUFFICES ASSUME TypeOK, TypeOK', QueueKept, QueueKept', KeptAll, SequenceKept, [Next]_vars,
                    open' = "open"
             PROVE  InSequence'
  BY DEF SequenceKept
<1>0. open = "open"
  <2>1. CASE SendToRemote \/ WriteDone \/ HandleSignal \/ UNCHANGED vars
    BY <2>1 DEF SendToRemote, CanWrite, WriteDone, HandleSignal, vars, remoteVars
  <2>2. CASE CloseRemote \/ DestroyPacketWriter
    BY <2>2 DEF CloseRemote, DestroyPacketWriter, DestroyBuffer, DestroyPacket, DestroyForeign,
                DestroyWriter, remoteVars
  <2>3. ASSUME NEW len \in Lengths, AllocPacket(len) PROVE open = "open"
    BY <2>3 DEF AllocPacket
  <2>4. ASSUME NEW packId \in 0..(IdMod - 1), ResendPacket(packId) PROVE open = "open"
    BY <2>4 DEF ResendPacket
  <2> QED BY <2>1, <2>2, <2>3, <2>4 DEF Next
<1>1. QueueInv /\ QueueInv' /\ Kept /\ InSequence
  BY <1>0, OpenKept DEF QueueKept, SequenceKept
<1>2. ASSUME NEW len \in Lengths, AllocPacket(len) PROVE InSequence'
  BY <1>0, <1>1, <1>2, AllocSequence DEF AllocPacket, TypeOK
<1>3. CASE WriteDone \/ HandleSignal \/ CloseRemote \/ UNCHANGED vars
  <2>1. UNCHANGED <<recent, ob, queue, accepted, handed>>
    BY <1>3 DEF WriteDone, HandleSignal, CloseRemote, vars, writerVars, bufferVars, historyVars
  <2> QED BY <1>1, <2>1 DEF InSequence, Ordered, Marked, Placed
<1>4. CASE DestroyPacketWriter
  BY <1>0, <1>4 DEF DestroyPacketWriter, DestroyBuffer, DestroyPacket, DestroyForeign,
                    DestroyWriter
<1>5. ASSUME NEW packId \in 0..(IdMod - 1), ResendPacket(packId) PROVE InSequence'
  BY <1>3, <1>5, NoMatch
<1> QED BY <1>1, <1>2, <1>3, <1>4, <1>5, SendSequence DEF Next

\* A closed remote has no write.  While a write runs, the packets behind
\* those of its buffer have not been sent.
Held ==
    /\ open # "open" => device = Ready
    /\ WrittenBufferHeld
    /\ ~ device.done =>
           \A i, j \in 1..Len(recent) :
               i < j /\ recent[i].buf = device.buf /\ recent[j].sent
                   => recent[j].buf = device.buf

LEMMA PutHeld ==
    ASSUME TypeOK, KeptLive, Held, open = "open", NEW o \in [OutBufs -> Buffer],
           NEW b \in OutBufs, NEW len \in Lengths, NEW id \in 0..(IdMod - 1),
           PutPacket(o, b, len, id), ~ o[b].canRelease,
           \A c \in live \ lost : c # b => o[c].count = Cardinality(Places(recent, c, Len(recent)))
    PROVE  Held'
<1> DEFINE n == Len(recent)
<1>1. PICK k \in 0..n : \E G : DroppedFor(o, b, k, G)
  BY PutDrops
<1>2. PICK G : DroppedFor(o, b, k, G)
  BY <1>1
<1>3. /\ n \in Nat /\ k \in Nat /\ n - k \in Nat /\ Keep \in Nat /\ recent \in Seq(Packet)
      /\ device \in [buf : OutBufs \cup {NoBuf}, held : BOOLEAN, done : BOOLEAN]
  BY PacketWriterAssumption DEF TypeOK
<1>4. /\ k > 0 => n - k >= Keep
      /\ \A i \in 1..k : recent[i].sent
      /\ Len(recent') = (n - k) + 1
      /\ \A i \in 1..(n - k) : recent'[i] = recent[i + k]
      /\ ~ recent'[(n - k) + 1].sent
      /\ Disturb(G)
  BY <1>2 DEF DroppedFor
<1>5. \A i \in 1..Len(recent') : i \in 1..(n - k) \/ i = (n - k) + 1
  BY <1>3, <1>4
<1>6. \A i \in 1..(n - k) : i + k \in 1..n
  BY <1>3
<1>7. /\ device'.buf = device.buf /\ device'.done = device.done
      /\ ~ device'.held => ~ device.held \/ (device.buf \in G /\ ~ device.done)
  BY <1>3, <1>4 DEF Disturb
<1>8. open' = "open"
  BY PutBuffers
<1>9. /\ WrittenBufferHeld
      /\ ~ device.done =>
             \A i, j \in 1..n : i < j /\ recent[i].buf = device.buf /\ recent[j].sent
                                    => recent[j].buf = device.buf
  BY DEF Held
<1> HIDE DEF n
<1>10. ASSUME k > 0 \/ n > Keep, \A j \in 1..n : j > k => ~ recent[j].sent
       PROVE  Len(recent') > Keep /\ \A i \in 1..Len(recent') : ~ recent'[i].sent
  <2>1. Len(recent') > Keep
    BY <1>3, <1>4, <1>10
  <2>2. ASSUME NEW i \in 1..(n - k) PROVE ~ recent'[i].sent
    <3>1. i + k \in 1..n /\ i + k > k
      BY <1>3
    <3> QED BY <1>4, <1>10, <3>1
  <2> QED BY <1>4, <1>5, <2>1, <2>2
<1>11. ASSUME ~ device.held
       PROVE  Len(recent') > Keep /\ \A i \in 1..Len(recent') : ~ recent'[i].sent
  <2>1. n > Keep /\ \A j \in 1..n : ~ recent[j].sent
    BY <1>3, <1>9, <1>11 DEF WrittenBufferHeld, n
  <2> QED BY <1>10, <2>1
<1>12. ASSUME device.buf \in G, ~ device.done
       PROVE  Len(recent') > Keep /\ \A i \in 1..Len(recent') : ~ recent'[i].sent
  <2> DEFINE c == device.buf
  <2>1. /\ c \in live /\ Places(recent, c, k) # {} /\ o[c].canRelease
        /\ o[c].count + (IF c = b THEN 1 ELSE 0) = Cardinality(Places(recent, c, k))
    BY <1>2, <1>12 DEF DroppedFor
  <2>2. PICK i \in 1..k : recent[i].buf = c
    BY <2>1 DEF Places
  <2>3. i \in 1..n /\ k > 0
    BY <1>3
  <2>4. c \notin lost /\ c # b /\ c \in OutBufs
    BY <2>1, <2>2, <2>3 DEF KeptLive, n, TypeOK
  <2>5. o[c].count = Cardinality(Places(recent, c, n)) /\ o[c].count \in Int
    BY <2>1, <2>4 DEF n, Buffer
  <2>6. Cardinality(Places(recent, c, n)) = Cardinality(Places(recent, c, k))
    BY <2>1, <2>4, <2>5
  <2> HIDE DEF c
  <2>7. /\ IsFiniteSet(Places(recent, c, n)) /\ Places(recent, c, k) \subseteq Places(recent, c, n)
    BY <1>3, PlacesFinite
  <2>8. Places(recent, c, n) = Places(recent, c, k)
    BY <2>6, <2>7, FS_Subset
  <2>9. ASSUME NEW j \in 1..n, j > k PROVE ~ recent[j].sent
    <3>1. j \notin Places(recent, c, k)
      BY <1>3, <2>9 DEF Places
    <3>2. recent[j].buf # c
      BY <2>8, <3>1 DEF Places
    <3>3. i < j
      BY <1>3, <2>3, <2>9
    <3> QED BY <1>9, <1>12, <2>2, <2>3, <3>2, <3>3 DEF c
  <2> QED BY <1>10, <2>3, <2>9
<1>13. WrittenBufferHeld'
  <2>1. recent' \in Seq(Packet)
    BY PutBuffers
  <2>2. DOMAIN recent' = 1..Len(recent')
    BY <2>1
  <2>3. device'.held \in BOOLEAN
    BY PutBuffers
  <2>4. CASE ~ device'.held
    BY <1>7, <1>11, <1>12, <2>2, <2>4 DEF WrittenBufferHeld
  <2> QED BY <2>3, <2>4 DEF WrittenBufferHeld
<1>14. ASSUME ~ device'.done, NEW i \in 1..Len(recent'), NEW j \in 1..Len(recent'), i < j,
              recent'[i].buf = device'.buf, recent'[j].sent
       PROVE  recent'[j].buf = device'.buf
  <2>1. j \in 1..(n - k)
    BY <1>4, <1>5, <1>14
  <2>2. i \in 1..(n - k) /\ i + k < j + k
    BY <1>3, <1>14, <2>1
  <2>3. /\ recent'[i] = recent[i + k] /\ recent'[j] = recent[j + k]
        /\ i + k \in 1..n /\ j + k \in 1..n
    BY <1>4, <1>6, <2>1, <2>2
  <2> QED BY <1>7, <1>9, <1>14, <2>2, <2>3
<1> QED BY <1>8, <1>13, <1>14 DEF Held

LEMMA AllocHeld ==
    ASSUME TypeOK, QueueInv, Kept, Held, open = "open",
           NEW len \in Lengths, NEW id \in 0..(IdMod - 1), AllocPacketWithId(len, id)
    PROVE  Held'
<1>0. /\ KeptLive /\ KeptCounted /\ live \subseteq OutBufs /\ ob \in [OutBufs -> Buffer]
  BY DEF Kept, TypeOK
<1>1. CASE AllocInBuffer(len, id)
  <2>1. cur # NoBuf /\ PutPacket(ob, cur, len, id)
    BY <1>1 DEF AllocInBuffer, NeedsBuffer
  <2>2. queue # <<>> /\ cur = queue[Len(queue)] /\ queue \in Seq(OutBufs) /\ cur \in OutBufs
    BY <2>1 DEF QueueInv, TypeOK
  <2>3. Len(queue) \in 1..Len(queue)
    BY <2>2
  <2>4. ~ ob[cur].canRelease
    BY <2>2, <2>3, InQueueLive
  <2> QED BY <1>0, <2>1, <2>2, <2>4, PutHeld DEF KeptCounted
<1>2. CASE AllocNewBuffer(len, id)
  <2>1. PICK b \in OutBufs : PutPacket(Fresh(b), b, len, id)
    BY <1>2 DEF AllocNewBuffer
  <2>2. /\ Fresh(b) \in [OutBufs -> Buffer] /\ ~ Fresh(b)[b].canRelease
        /\ \A c \in OutBufs \ {b} : Fresh(b)[c] = ob[c]
    BY FreshBuffers
  <2>3. \A c \in live \ lost :
            c # b => Fresh(b)[c].count = Cardinality(Places(recent, c, Len(recent)))
    BY <1>0, <2>2 DEF KeptCounted
  <2> QED BY <1>0, <2>1, <2>2, <2>3, PutHeld
<1>3. CASE AllocFails(len)
  <2>1. recent' = recent /\ open' = open /\ device' = device
    BY <1>3 DEF AllocFails, AllocRefused, AllocNoBuffer, AllocNoPacket
  <2> QED BY <2>1 DEF Held, WrittenBufferHeld
<1> QED BY <1>1, <1>2, <1>3 DEF AllocPacketWithId

\* A packet behind one of the first buffer has been sent only if it lies in
\* that buffer too: the packets are handed to the device in order.
LEMMA SendHeld ==
    ASSUME TypeOK, QueueInv, InSequence, Held, SendToRemote
    PROVE  Held'
<1> DEFINE b == queue[1]
           n == Len(ob[b].pacs)
           w == ob[b].wrote
           st == ob[b].start
<1>1. /\ queue \in Seq(OutBufs) /\ queue # <<>> /\ 1 \in 1..Len(queue) /\ b \in OutBufs
      /\ Head(queue) = b /\ open' = "open" /\ device = Ready
      /\ Ordered /\ Marked /\ Placed
  BY DEF SendToRemote, CanWrite, TypeOK, InSequence
<1>2. CASE ~ (w < n)
  <2>1. device' = Ready
    BY <1>1, <1>2 DEF SendToRemote
  <2> QED BY <1>1, <2>1 DEF Held, WrittenBufferHeld, Ready
<1>3. CASE w < n
  <2>1. device' = [buf |-> b, held |-> TRUE, done |-> FALSE]
    BY <1>1, <1>3 DEF SendToRemote, WriteHead
  <2>2. /\ st \in Nat /\ w \in Nat /\ n \in Nat /\ st + w = Len(handed)
    <3>1. st \in Nat /\ w \in Nat /\ n \in Nat
      BY <1>1, Fields DEF TypeOK
    <3> QED BY <1>1, <3>1 DEF QueueInv, InOrderQueue
  <2>3. /\ Len(recent') = Len(recent)
        /\ \A i \in 1..Len(recent) :
              /\ recent'[i].buf = recent[i].buf
              /\ recent'[i].sent => recent[i].sent \/ recent[i].buf = b
    BY SendRecent
  <2>4. ASSUME NEW i \in 1..Len(recent), NEW j \in 1..Len(recent), i < j,
               recent[i].buf = b, recent[j].sent
        PROVE  recent[j].buf = b
    <3>1. recent[i].sn \in Nat /\ recent[j].sn \in Nat /\ recent[i].sn < recent[j].sn
      BY <1>1, <2>4 DEF Marked, Ordered
    <3>2. recent[j].sn <= st + w
      BY <1>1, <2>2, <2>4 DEF Marked
    <3>3. st < recent[i].sn
      BY <1>1, <2>4 DEF Placed, In
    <3> HIDE DEF st, n, w
    <3>4. st < recent[j].sn /\ recent[j].sn <= st + n
      BY <1>3, <2>2, <3>1, <3>2, <3>3
    <3> QED BY <1>1, <3>4 DEF Placed, In, st, n
  <2>5. ASSUME NEW i \in 1..Len(recent'), NEW j \in 1..Len(recent'), i < j,
               recent'[i].buf = b, recent'[j].sent
        PROVE  recent'[j].buf = b
    BY <2>3, <2>4, <2>5
  <2>6. device'.held /\ device'.buf = b
    BY <2>1
  <2> HIDE DEF b
  <2> QED BY <1>1, <2>5, <2>6 DEF Held, WrittenBufferHeld
<1> QED BY <1>2, <1>3

LEMMA HeldStep ==
    TypeOK /\ QueueKept /\ KeptAll /\ SequenceKept /\ Held /\ [Next]_vars => Held'
<1> SUFFICES ASSUME TypeOK, QueueKept, KeptAll, SequenceKept, Held, [Next]_vars PROVE Held'
  OBVIOUS
<1>0. Ready.held /\ Ready.done
  BY DEF Ready
<1>1. ASSUME NEW len \in Lengths, AllocPacket(len) PROVE Held'
  BY <1>1, AllocHeld, OpenKept DEF AllocPacket, TypeOK, QueueKept
<1>2. CASE WriteDone
  <2>1. /\ device'.done /\ device'.held = device.held /\ open' = open /\ open = "open"
        /\ recent' = recent
    BY <1>2 DEF WriteDone, writerVars, TypeOK
  <2> QED BY <2>1 DEF Held, WrittenBufferHeld
<1>3. CASE HandleSignal \/ CloseRemote
  <2>1. device' = Ready
    BY <1>3 DEF HandleSignal, CloseRemote
  <2> QED BY <1>0, <2>1 DEF Held, WrittenBufferHeld
<1>4. CASE DestroyPacketWriter
  <2>1. device' = Ready
    BY <1>4 DEF DestroyPacketWriter, DestroyBuffer, DestroyPacket, DestroyForeign, DestroyWriter,
                remoteVars, Held
  <2> QED BY <1>0, <2>1 DEF Held, WrittenBufferHeld
<1>5. CASE UNCHANGED vars
  BY <1>5 DEF vars, writerVars, remoteVars, Held, WrittenBufferHeld
<1>6. ASSUME NEW packId \in 0..(IdMod - 1), ResendPacket(packId) PROVE Held'
  BY <1>5, <1>6, NoMatch
<1>7. CASE SendToRemote
  BY <1>7, SendHeld DEF SendToRemote, CanWrite, QueueKept, SequenceKept
<1> QED BY <1>1, <1>2, <1>3, <1>4, <1>5, <1>6, <1>7 DEF Next

LEMMA InitSequence == Init => SequenceKept
<1> SUFFICES ASSUME Init PROVE InSequence
  BY DEF SequenceKept
<1>1. Len(recent) = 0
  BY DEF Init
<1> QED BY <1>1 DEF InSequence, Ordered, Marked, Placed

\* APB_ReleaseOutPacket gives back a buffer that the device still reads only
\* when more than RECENT_PACKETS_TO_KEEP packets have been accepted behind it
\* and none of them has been sent.
THEOREM HeldCorrect == Spec => []WrittenBufferHeld
<1>1. Init => Held
  <2> SUFFICES ASSUME Init PROVE Held
    OBVIOUS
  <2>1. Len(recent) = 0 /\ device = Ready /\ Ready.held /\ Ready.done
    BY DEF Init, Ready
  <2> QED BY <2>1 DEF Held, WrittenBufferHeld
<1>2. Held => WrittenBufferHeld
  BY DEF Held
<1> QED BY <1>1, <1>2, InitSequence, KeptAlways, SequenceStep, HeldStep, PTL DEF Spec

-----------------------------------------------------------------------------
(* Leaks.                                                                  *)

\* No packet behind the first buffer of the queue has been sent.
Ahead ==
    \A i \in 1..Len(recent), q \in 1..Len(queue) :
        q > 1 /\ recent[i].buf = queue[q] => ~ recent[i].sent

\* A buffer of the queue that has had packets and of which none is kept any
\* more is the first, with more than Keep packets kept behind it.
Crowded == Len(recent) > Keep /\ \A i \in 1..Len(recent) : ~ recent[i].sent

Pending ==
    \A q \in 1..Len(queue) :
        \/ ob[queue[q]].pacs = <<>>
        \/ \E i \in 1..Len(recent) : recent[i].buf = queue[q]
        \/ q = 1 /\ Crowded

LeavingKept == open = "open" => Ahead /\ Pending

\* A packet put into buffer b at the end of the queue.
LEMMA PutPending ==
    ASSUME TypeOK, QueueInv, InSequence, KeptLive, Ahead, Pending,
           NEW o \in [OutBufs -> Buffer], NEW b \in OutBufs, NEW len \in Lengths,
           NEW id \in 0..(IdMod - 1), PutPacket(o, b, len, id),
           \A c \in OutBufs \ {b} : o[c] = ob[c],
           queue' \in Seq(OutBufs),
           \A q \in 1..Len(queue') : \/ q \in 1..Len(queue) /\ queue'[q] = queue[q]
                                     \/ queue'[q] = b /\ b \notin live
    PROVE  Ahead' /\ Pending'
<1> DEFINE n == Len(recent)
<1>1. PICK k \in 0..n : \E G : DroppedFor(o, b, k, G)
  BY PutDrops
<1>2. /\ k > 0 => n - k >= Keep
      /\ \A i \in 1..k : recent[i].sent
      /\ Len(recent') = (n - k) + 1
      /\ \A i \in 1..(n - k) : recent'[i] = recent[i + k]
      /\ recent'[(n - k) + 1].buf = b
      /\ ~ recent'[(n - k) + 1].sent
  BY <1>1 DEF DroppedFor
<1>3. /\ n \in Nat /\ k \in Nat /\ n - k \in Nat /\ Keep \in Nat /\ Len(handed) \in Nat
      /\ queue \in Seq(OutBufs)
  BY PacketWriterAssumption DEF TypeOK
<1>4. Ordered /\ Marked /\ Placed
  BY DEF InSequence
<1> HIDE DEF n
<1>5. \A i \in 1..Len(recent') : i \in 1..(n - k) \/ i = (n - k) + 1
  BY <1>2, <1>3
<1>6. \A i \in 1..(n - k) : i + k \in 1..n
  BY <1>3
<1>7. \A i \in 1..n : i > k => i - k \in 1..(n - k) /\ recent'[i - k] = recent[i]
  <2> TAKE i \in 1..n
  <2> HAVE i > k
  <2>1. i - k \in 1..(n - k) /\ (i - k) + k = i
    BY <1>3
  <2> QED BY <1>2, <2>1
<1>8. \A i \in 1..(n - k) : i \in 1..Len(recent')
  BY <1>2, <1>3
<1>9. (n - k) + 1 \in 1..Len(recent')
  BY <1>2, <1>3
<1>10. Ahead'
  <2> SUFFICES ASSUME NEW i \in 1..Len(recent'), NEW q \in 1..Len(queue'), q > 1,
                      recent'[i].buf = queue'[q]
               PROVE  ~ recent'[i].sent
    BY DEF Ahead
  <2>1. CASE i = (n - k) + 1
    BY <1>2, <2>1
  <2>2. CASE i \in 1..(n - k)
    <3>1. recent'[i] = recent[i + k] /\ i + k \in 1..n
      BY <1>2, <1>6, <2>2
    <3>2. queue'[q] # b \/ b \in live
      BY <3>1 DEF KeptLive, n
    <3>3. q \in 1..Len(queue) /\ queue'[q] = queue[q]
      BY <3>2
    <3> QED BY <3>1, <3>3 DEF Ahead, n
  <2> QED BY <1>5, <2>1, <2>2
<1>11. ASSUME k > 0 \/ n > Keep, \A j \in 1..n : j > k => ~ recent[j].sent
       PROVE  Crowded'
  <2>1. Len(recent') > Keep
    BY <1>2, <1>3, <1>11
  <2>2. ASSUME NEW i \in 1..(n - k) PROVE ~ recent'[i].sent
    <3>1. i + k \in 1..n /\ i + k > k
      BY <1>3
    <3> QED BY <1>2, <1>11, <3>1
  <2> QED BY <1>2, <1>5, <2>1, <2>2 DEF Crowded
<1>12. Pending'
  <2> SUFFICES ASSUME NEW q \in 1..Len(queue')
               PROVE  \/ ob'[queue'[q]].pacs = <<>>
                      \/ \E i \in 1..Len(recent') : recent'[i].buf = queue'[q]
                      \/ q = 1 /\ Crowded'
    BY DEF Pending
  <2>1. CASE queue'[q] = b
    BY <1>2, <1>9, <2>1
  <2>2. CASE queue'[q] # b
    <3>1. PICK c \in OutBufs : c = queue'[q] /\ c = queue[q] /\ c # b
      BY <2>2
    <3>2. q \in 1..Len(queue)
      BY <2>2
    <3>3. ob'[c].pacs = ob[c].pacs
      BY <3>1, PutBuffers
    <3>4. CASE ob[c].pacs = <<>>
      BY <3>1, <3>3, <3>4
    <3>5. ASSUME NEW i \in 1..n, recent[i].buf = c, i > k
          PROVE  \E j \in 1..Len(recent') : recent'[j].buf = c
      BY <1>7, <1>8, <3>5
    <3>6. ASSUME NEW i \in 1..n, recent[i].buf = c, ~ (i > k),
                 \A j \in 1..n : j > k => recent[j].buf # c
          PROVE  q = 1 /\ Crowded'
      <4>1. i \in 1..k /\ recent[i].sent /\ k > 0
        BY <1>2, <1>3, <3>6
      <4>2. q = 1
        <5>1. ~ (q > 1)
          BY <3>1, <3>2, <3>6, <4>1 DEF Ahead, n
        <5> QED BY <3>2, <5>1
      <4>3. /\ ob[c].start \in Nat /\ ob[c].wrote \in Nat /\ Len(ob[c].pacs) \in Nat
            /\ ob[c].wrote <= Len(ob[c].pacs) /\ ob[c].start + ob[c].wrote = Len(handed)
        <5>1. queue # <<>> /\ c = queue[1]
          BY <1>3, <3>1, <3>2, <4>2
        <5>2. /\ ob[c].wrote <= Len(ob[c].pacs) /\ ob[c].start + ob[c].wrote = Len(handed)
          BY <3>2, <4>2, <5>1 DEF QueueInv, InOrderQueue, Filled
        <5> QED BY <5>2, Fields DEF TypeOK
      <4>4. ob[c].start < recent[i].sn
        BY <1>4, <3>1, <3>2, <3>6 DEF Placed, In, n
      <4>5. ASSUME NEW j \in 1..n, j > k PROVE ~ recent[j].sent
        <5> SUFFICES ASSUME recent[j].sent PROVE FALSE
          OBVIOUS
        <5>1. /\ recent[i].sn \in Nat /\ recent[j].sn \in Nat /\ recent[i].sn < recent[j].sn
              /\ recent[j].sn <= Len(handed)
          <6>1. i < j
            BY <1>3, <3>6, <4>5
          <6> QED BY <1>4, <6>1 DEF Marked, Ordered, n
        <5>2. In(ob, c, recent[j].sn)
          <6>1. \A st, w, m, h, x, y \in Nat :
                    w <= m /\ st + w = h /\ st < x /\ x < y /\ y <= h => st < y /\ y <= st + m
            OBVIOUS
          <6> QED BY <1>3, <4>3, <4>4, <5>1, <6>1, Zenon DEF In
        <5>3. recent[j].buf = c
          BY <1>4, <3>1, <3>2, <5>2 DEF Placed, n
        <5> QED BY <3>6, <4>5, <5>3
      <4> QED BY <1>11, <4>1, <4>2, <4>5
    <3>7. CASE q = 1 /\ Crowded
      <4>1. \A j \in 1..n : ~ recent[j].sent
        BY <3>7 DEF Crowded, n
      <4>2. n > Keep
        BY <3>7 DEF Crowded, n
      <4> QED BY <1>11, <3>7, <4>1, <4>2
    <3>8. \/ ob[c].pacs = <<>>
          \/ \E i \in 1..n : recent[i].buf = c
          \/ q = 1 /\ Crowded
      BY <3>1, <3>2 DEF Pending, n
    <3> QED BY <3>1, <3>4, <3>5, <3>6, <3>7, <3>8
  <2> QED BY <2>1, <2>2
<1> QED BY <1>10, <1>12

LEMMA AllocPending ==
    ASSUME TypeOK, QueueInv, Kept, InSequence, Ahead, Pending, TypeOK', open = "open",
           NEW len \in Lengths, NEW id \in 0..(IdMod - 1), AllocPacketWithId(len, id)
    PROVE  Ahead' /\ Pending'
<1>0. /\ KeptLive /\ ob \in [OutBufs -> Buffer] /\ queue \in Seq(OutBufs)
      /\ queue' \in Seq(OutBufs)
  BY DEF Kept, TypeOK
<1>1. ASSUME NEW b \in OutBufs, TakeBuffer(b)
      PROVE  /\ b \notin live
             /\ \A q \in 1..Len(queue') : \/ q \in 1..Len(queue) /\ queue'[q] = queue[q]
                                          \/ queue'[q] = b /\ b \notin live
  <2>1. queue' = Append(queue, b) /\ b \notin live
    BY <1>1 DEF TakeBuffer
  <2> QED BY <1>0, <2>1, AppendProperties
<1>2. CASE AllocInBuffer(len, id)
  <2>1. cur \in OutBufs /\ PutPacket(ob, cur, len, id) /\ queue' = queue
    BY <1>2 DEF AllocInBuffer, NeedsBuffer, TypeOK
  <2>2. \A q \in 1..Len(queue') : q \in 1..Len(queue) /\ queue'[q] = queue[q]
    BY <2>1
  <2> QED BY <1>0, <2>1, <2>2, PutPending
<1>3. CASE AllocNewBuffer(len, id)
  <2>1. PICK b \in OutBufs : TakeBuffer(b) /\ PutPacket(Fresh(b), b, len, id)
    BY <1>3 DEF AllocNewBuffer
  <2>2. /\ Fresh(b) \in [OutBufs -> Buffer]
        /\ \A c \in OutBufs \ {b} : Fresh(b)[c] = ob[c]
    BY FreshBuffers
  <2>3. \A q \in 1..Len(queue') : \/ q \in 1..Len(queue) /\ queue'[q] = queue[q]
                                  \/ queue'[q] = b /\ b \notin live
    BY <1>1, <2>1
  <2> QED BY <1>0, <2>1, <2>2, <2>3, PutPending
<1>4. CASE AllocFails(len)
  <2>1. recent' = recent
    BY <1>4 DEF AllocFails
  <2>2. CASE AllocRefused \/ AllocNoBuffer(len)
    <3>1. queue' = queue /\ ob' = ob
      BY <2>2 DEF AllocRefused, AllocNoBuffer, bufferVars
    <3> QED BY <2>1, <3>1 DEF Ahead, Pending, Crowded
  <2>3. CASE AllocNoPacket(len)
    <3>1. PICK b \in OutBufs : TakeBuffer(b) /\ ob' = Fresh(b)
      BY <2>3 DEF AllocNoPacket
    <3>2. /\ ob'[b].pacs = <<>> /\ \A c \in OutBufs \ {b} : ob'[c] = ob[c]
      BY <3>1, FreshBuffers
    <3>3. ASSUME NEW q \in 1..Len(queue')
          PROVE  \/ q \in 1..Len(queue) /\ queue'[q] = queue[q] /\ ob'[queue[q]] = ob[queue[q]]
                 \/ queue'[q] = b /\ \A i \in 1..Len(recent) : recent[i].buf # b
      <4>1. CASE queue'[q] = b
        <5>1. CASE b \in live
          BY <1>1, <3>1, <5>1
        <5> QED BY <1>0, <4>1, <5>1 DEF KeptLive
      <4>2. CASE queue'[q] # b
        <5>1. q \in 1..Len(queue) /\ queue'[q] = queue[q]
          BY <1>1, <3>1, <4>2
        <5> QED BY <1>0, <3>2, <4>2, <5>1
      <4> QED BY <4>1, <4>2
    <3>4. Ahead'
      <4> SUFFICES ASSUME NEW i \in 1..Len(recent), NEW q \in 1..Len(queue'), q > 1,
                          recent[i].buf = queue'[q]
                   PROVE  ~ recent[i].sent
        BY <2>1 DEF Ahead
      <4> QED BY <3>3 DEF Ahead
    <3>5. Pending'
      <4> SUFFICES ASSUME NEW q \in 1..Len(queue')
                   PROVE  \/ ob'[queue'[q]].pacs = <<>>
                          \/ \E i \in 1..Len(recent) : recent[i].buf = queue'[q]
                          \/ q = 1 /\ Crowded
        BY <2>1 DEF Pending, Crowded
      <4> QED BY <3>2, <3>3 DEF Pending
    <3> QED BY <3>4, <3>5
  <2> QED BY <1>4, <2>2, <2>3 DEF AllocFails
<1> QED BY <1>2, <1>3, <1>4 DEF AllocPacketWithId

LEMMA SendPending ==
    ASSUME TypeOK, QueueWhole, Ahead, Pending, SendToRemote
    PROVE  Ahead' /\ Pending'
<1>1. /\ queue \in Seq(OutBufs) /\ queue # <<>> /\ ob \in [OutBufs -> Buffer]
      /\ queue' = IF Len(queue) > 1 THEN Tail(queue) ELSE queue
      /\ \A c \in OutBufs : ob'[c].pacs = ob[c].pacs
  BY SendBuffers DEF TypeOK
<1>2. /\ Len(recent') = Len(recent)
      /\ \A i \in 1..Len(recent) :
            /\ recent'[i].buf = recent[i].buf
            /\ recent'[i].sent => recent[i].sent \/ recent[i].buf = queue[1]
  BY SendRecent
<1>3. /\ Len(queue) \in Nat \ {0} /\ 1 \in 1..Len(queue)
      /\ \A i \in 1..Len(queue) : queue[i] \in OutBufs
      /\ \A i, j \in 1..Len(queue) : queue[i] = queue[j] => i = j
  BY <1>1, TailQueue DEF QueueWhole
<1>4. ASSUME NEW q \in 1..Len(queue')
      PROVE  \E p \in 1..Len(queue) : /\ queue'[q] = queue[p]
                                      /\ (q > 1 => p > 1)
                                      /\ (p = 1 => q = 1 /\ Len(queue) = 1)
  <2>1. CASE Len(queue) > 1
    <3>1. queue' = Tail(queue)
      BY <1>1, <2>1
    <3>2. queue'[q] = queue[q + 1] /\ q + 1 \in 1..Len(queue) /\ q + 1 # 1
      BY <1>1, <3>1, TailQueue
    <3>3. q + 1 > 1
      OBVIOUS
    <3> QED BY <3>2, <3>3
  <2>2. CASE ~ (Len(queue) > 1)
    <3>1. queue' = queue /\ Len(queue) = 1
      <4>1. \A l \in Nat \ {0} : ~ (l > 1) => l = 1
        OBVIOUS
      <4> QED BY <1>1, <1>3, <2>2, <4>1, Zenon
    <3>2. q = 1 /\ 1 \in 1..Len(queue) /\ queue'[q] = queue[1]
      BY <3>1
    <3>3. q > 1 => 1 > 1
      BY <3>2
    <3> QED BY <3>1, <3>2, <3>3, Zenon
  <2> QED BY <2>1, <2>2
<1>5. Ahead'
  <2> SUFFICES ASSUME NEW i \in 1..Len(recent), NEW q \in 1..Len(queue'), q > 1,
                      recent'[i].buf = queue'[q]
               PROVE  ~ recent'[i].sent
    BY <1>2 DEF Ahead
  <2>1. PICK p \in 1..Len(queue) : queue'[q] = queue[p] /\ p > 1
    BY <1>4
  <2>2. recent[i].buf = queue[p] /\ queue[p] # queue[1]
    BY <1>2, <1>3, <2>1
  <2> QED BY <1>2, <2>1, <2>2 DEF Ahead
<1>6. Pending'
  <2> SUFFICES ASSUME NEW q \in 1..Len(queue')
               PROVE  \/ ob'[queue'[q]].pacs = <<>>
                      \/ \E i \in 1..Len(recent) : recent'[i].buf = queue'[q]
                      \/ q = 1 /\ Crowded'
    BY <1>2 DEF Pending
  <2>1. PICK p \in 1..Len(queue) : queue'[q] = queue[p] /\ (p = 1 => q = 1)
    BY <1>4
  <2>2. CASE ob[queue[p]].pacs = <<>>
    BY <1>1, <1>3, <2>1, <2>2
  <2>3. CASE \E i \in 1..Len(recent) : recent[i].buf = queue[p]
    BY <1>2, <2>1, <2>3
  <2>4. CASE p = 1 /\ Crowded /\ \A i \in 1..Len(recent) : recent[i].buf # queue[p]
    <3>1. Crowded'
      BY <1>2, <2>4 DEF Crowded
    <3> QED BY <2>1, <2>4, <3>1
  <2> QED BY <2>2, <2>3, <2>4 DEF Pending
<1> QED BY <1>5, <1>6

LEMMA LeavingStep ==
    TypeOK /\ TypeOK' /\ QueueKept /\ KeptAll /\ SequenceKept /\ LeavingKept /\ [Next]_vars
        => LeavingKept'
<1> SUFFICES ASSUME TypeOK, TypeOK', QueueKept, KeptAll, SequenceKept, LeavingKept,
                    [Next]_vars, open' = "open"
             PROVE  Ahead' /\ Pending'
  BY DEF LeavingKept
<1>1. ASSUME NEW len \in Lengths, AllocPacket(len) PROVE Ahead' /\ Pending'
  <2>1. open = "open" /\ nextId \in 0..(IdMod - 1) /\ AllocPacketWithId(len, nextId)
    BY <1>1 DEF AllocPacket, TypeOK
  <2>2. QueueInv /\ Kept /\ InSequence /\ Ahead /\ Pending
    BY <2>1, OpenKept DEF QueueKept, SequenceKept, LeavingKept
  <2> QED BY <2>1, <2>2, AllocPending
<1>2. CASE SendToRemote
  <2>1. open = "open"
    BY <1>2 DEF SendToRemote, CanWrite
  <2> QED BY <1>2, <2>1, SendPending DEF QueueKept, LeavingKept
<1>3. CASE WriteDone \/ HandleSignal \/ CloseRemote \/ UNCHANGED vars
  <2>1. UNCHANGED <<recent, ob, queue>> /\ open = "open"
    BY <1>3 DEF WriteDone, HandleSignal, CloseRemote, vars, writerVars, bufferVars, remoteVars
  <2> QED BY <2>1 DEF LeavingKept, Ahead, Pending, Crowded
<1>4. CASE DestroyPacketWriter
  BY <1>4 DEF DestroyPacketWriter, DestroyBuffer, DestroyPacket, DestroyForeign, DestroyWriter,
              remoteVars
<1>5. ASSUME NEW packId \in 0..(IdMod - 1), ResendPacket(packId) PROVE Ahead' /\ Pending'
  BY <1>3, <1>5, NoMatch
<1> QED BY <1>1, <1>2, <1>3, <1>4, <1>5 DEF Next

\* A leaked buffer, in terms of the places of the two lists.
Alone(c) ==
    /\ c \in live /\ c \notin lost
    /\ \A q \in 1..Len(queue) : queue[q] # c
    /\ \A i \in 1..Len(recent) : recent[i].buf # c

LEMMA LeakedAlone ==
    ASSUME TypeOK, TypeOK', NEW c
    PROVE  /\ c \in Leaked <=> Alone(c)
           /\ c \in Leaked' <=> Alone(c)'
<1>1. /\ queue \in Seq(OutBufs) /\ recent \in Seq(Packet)
      /\ queue' \in Seq(OutBufs) /\ recent' \in Seq(Packet)
  BY DEF TypeOK
<1>2. /\ DOMAIN queue = 1..Len(queue) /\ DOMAIN recent = 1..Len(recent)
      /\ DOMAIN queue' = 1..Len(queue') /\ DOMAIN recent' = 1..Len(recent')
  BY <1>1
<1> QED BY <1>2 DEF Leaked, Alone, ToSet

\* The last packet of a buffer that has left the queue takes it along.
LEMMA PutLeaks ==
    ASSUME TypeOK, Kept, NEW o \in [OutBufs -> Buffer], NEW b \in OutBufs,
           NEW len \in Lengths, NEW id \in 0..(IdMod - 1), PutPacket(o, b, len, id),
           \A c \in OutBufs \ {b} : o[c] = ob[c],
           \A q \in 1..Len(queue) : \E p \in 1..Len(queue') : queue'[p] = queue[q],
           NEW c, Alone(c)'
    PROVE  Alone(c)
<1> DEFINE n == Len(recent)
<1>1. PICK k \in 0..n : \E G : DroppedFor(o, b, k, G)
  BY PutDrops
<1>2. PICK G : DroppedFor(o, b, k, G)
  BY <1>1
<1>3. /\ Len(recent') = (n - k) + 1
      /\ \A i \in 1..(n - k) : recent'[i] = recent[i + k]
      /\ recent'[(n - k) + 1].buf = b
      /\ live' = (live \cup {b}) \ G /\ lost' = lost
  BY <1>2 DEF DroppedFor
<1>4. n \in Nat /\ k \in Nat /\ n - k \in Nat
  BY DEF TypeOK
<1>5. /\ c \in live' /\ c \notin lost' /\ \A q \in 1..Len(queue') : queue'[q] # c
      /\ \A i \in 1..Len(recent') : recent'[i].buf # c
  BY DEF Alone
<1>6. c # b
  <2>1. (n - k) + 1 \in 1..Len(recent')
    BY <1>3, <1>4
  <2> QED BY <1>3, <1>5, <2>1
<1>7. c \in live /\ c \notin lost /\ c \notin G /\ c \in OutBufs /\ o[c] = ob[c]
  BY <1>3, <1>5, <1>6 DEF TypeOK
<1>8. \A q \in 1..Len(queue) : queue[q] # c
  BY <1>5
<1> HIDE DEF n
<1>9. ASSUME NEW i \in 1..n, i > k PROVE recent[i].buf # c
  <2>1. /\ i - k \in 1..(n - k) /\ (i - k) + k = i /\ i - k \in 1..Len(recent')
    BY <1>3, <1>4, <1>9
  <2> QED BY <1>3, <1>5, <2>1
<1>10. ASSUME NEW i \in 1..n, recent[i].buf = c PROVE FALSE
  <2>1. i \in 1..k
    BY <1>4, <1>9, <1>10
  <2>2. Places(recent, c, n) = Places(recent, c, k) /\ Places(recent, c, k) # {}
    BY <1>4, <1>9, <1>10, <2>1 DEF Places
  <2>3. o[c].count = Cardinality(Places(recent, c, k)) /\ o[c].count \in Int
    BY <1>7, <2>2 DEF Kept, KeptCounted, Buffer, n
  <2>4. o[c].canRelease
    BY <1>7, <1>8 DEF Kept, LeftMarked
  <2>5. o[c].count + (IF c = b THEN 1 ELSE 0) = Cardinality(Places(recent, c, k))
    BY <1>6, <2>3
  <2> QED BY <1>2, <1>7, <2>2, <2>4, <2>5 DEF DroppedFor
<1> QED BY <1>7, <1>8, <1>10 DEF Alone, n

LEMMA AllocLeaks ==
    ASSUME TypeOK, TypeOK', Kept, NEW len \in Lengths, NEW id \in 0..(IdMod - 1),
           AllocPacketWithId(len, id), NEW c, Alone(c)'
    PROVE  Alone(c)
<1>0. ob \in [OutBufs -> Buffer] /\ queue \in Seq(OutBufs)
  BY DEF TypeOK
<1>1. ASSUME NEW b \in OutBufs, TakeBuffer(b)
      PROVE  /\ \A q \in 1..Len(queue) : \E p \in 1..Len(queue') : queue'[p] = queue[q]
             /\ \E p \in 1..Len(queue') : queue'[p] = b
  <2>1. queue' = Append(queue, b)
    BY <1>1 DEF TakeBuffer
  <2>2. /\ Len(queue) \in Nat /\ Len(queue') = Len(queue) + 1 /\ queue'[Len(queue) + 1] = b
        /\ \A i \in 1..Len(queue) : queue'[i] = queue[i]
    BY <1>0, <2>1, AppendProperties
  <2>3. /\ Len(queue) + 1 \in 1..Len(queue')
        /\ \A i \in 1..Len(queue) : i \in 1..Len(queue')
    BY <2>2
  <2> QED BY <2>2, <2>3
<1>2. CASE AllocInBuffer(len, id)
  <2>1. cur \in OutBufs /\ PutPacket(ob, cur, len, id) /\ queue' = queue
    BY <1>2 DEF AllocInBuffer, NeedsBuffer, TypeOK
  <2> QED BY <1>0, <2>1, PutLeaks
<1>3. CASE AllocNewBuffer(len, id)
  <2>1. PICK b \in OutBufs : TakeBuffer(b) /\ PutPacket(Fresh(b), b, len, id)
    BY <1>3 DEF AllocNewBuffer
  <2>2. /\ Fresh(b) \in [OutBufs -> Buffer]
        /\ \A x \in OutBufs \ {b} : Fresh(b)[x] = ob[x]
    BY FreshBuffers
  <2> QED BY <1>1, <2>1, <2>2, PutLeaks
<1>4. CASE AllocFails(len)
  <2>1. recent' = recent
    BY <1>4 DEF AllocFails
  <2>2. CASE AllocRefused
    BY <2>1, <2>2 DEF AllocRefused, bufferVars, Alone
  <2>3. CASE AllocNoBuffer(len)
    <3>1. PICK b \in OutBufs : live' = live \cup {b} /\ lost' = lost \cup {b}
      BY <2>3 DEF AllocNoBuffer
    <3>2. queue' = queue
      BY <2>3 DEF AllocNoBuffer
    <3> QED BY <2>1, <3>1, <3>2 DEF Alone
  <2>4. CASE AllocNoPacket(len)
    <3>1. PICK b \in OutBufs : TakeBuffer(b) /\ live' = live \cup {b}
      BY <2>4 DEF AllocNoPacket
    <3>2. lost' = lost
      BY <2>4 DEF AllocNoPacket
    <3> QED BY <1>1, <2>1, <3>1, <3>2 DEF Alone
  <2> QED BY <1>4, <2>2, <2>3, <2>4 DEF AllocFails
<1> QED BY <1>2, <1>3, <1>4 DEF AllocPacketWithId

LEMMA SendLeaks ==
    ASSUME TypeOK, Pending, SendToRemote, NEW c, Alone(c)', ~ Alone(c)
    PROVE  \E q \in 1..Len(queue) : queue[q] = c /\ (ob[c].pacs = <<>> \/ Crowded)
<1>1. /\ queue \in Seq(OutBufs) /\ queue # <<>>
      /\ queue' = IF Len(queue) > 1 THEN Tail(queue) ELSE queue
  BY SendBuffers DEF TypeOK
<1>2. Len(recent') = Len(recent) /\ \A i \in 1..Len(recent) : recent'[i].buf = recent[i].buf
  BY SendRecent
<1>3. live' = live /\ lost' = lost
  BY DEF SendToRemote
<1>4. PICK q \in 1..Len(queue) : queue[q] = c
  BY <1>2, <1>3 DEF Alone
<1> QED BY <1>2, <1>4 DEF Alone, Pending

LEMMA DestroyLeaks ==
    ASSUME TypeOK, TypeOK', KeptAll, DestroyPacketWriter, NEW c, Alone(c)'
    PROVE  Alone(c)
<1>1. lost' = lost
  BY DEF DestroyPacketWriter, DestroyBuffer, DestroyPacket, DestroyForeign, DestroyWriter,
         bufferVars
<1>2. CASE DestroyBuffer
  <2>1. /\ queue \in Seq(OutBufs) /\ queue # <<>> /\ queue' = Tail(queue)
        /\ recent' = recent /\ live' = live \ {Head(queue)}
    BY <1>2 DEF DestroyBuffer, TypeOK
  <2>2. /\ Head(queue) = queue[1]
        /\ \A i \in 1..Len(queue) :
              i # 1 => i - 1 \in 1..Len(queue') /\ queue'[i - 1] = queue[i]
    BY <2>1, TailQueue
  <2> QED BY <1>1, <2>1, <2>2 DEF Alone
<1>3. CASE DestroyPacket
  <2>1. queue = <<>> /\ queue' = queue
    BY <1>3 DEF DestroyPacket
  <2>2. /\ Len(recent) \in Nat \ {0}
        /\ \A i \in 1..Len(recent) :
              i # 1 => i - 1 \in 1..Len(recent') /\ recent'[i - 1] = recent[i]
        /\ live' = live \ Released(ob, 1)
    BY <1>3, DestroyDrops
  <2>3. /\ c \in live /\ c \notin lost /\ c \in OutBufs /\ c \notin Released(ob, 1)
        /\ \A i \in 1..Len(recent) : i # 1 => recent[i].buf # c
    BY <1>1, <2>2 DEF Alone, TypeOK
  <2>4. ASSUME recent[1].buf = c PROVE FALSE
    <3>1. Places(recent, c, Len(recent)) = OfBuffer(c, 1) /\ OfBuffer(c, 1) # {}
      BY <2>2, <2>3, <2>4 DEF Places, OfBuffer
    <3>2. ob[c].count = Cardinality(OfBuffer(c, 1))
      BY <2>3, <3>1 DEF KeptAll, KeptCounted
    <3>3. ob[c].canRelease
      BY <2>1, <2>3 DEF KeptAll, LeftMarked
    <3> QED BY <2>3, <3>1, <3>2, <3>3 DEF Released
  <2> QED BY <2>1, <2>3, <2>4 DEF Alone
<1>4. CASE DestroyForeign \/ DestroyWriter
  BY <1>4 DEF DestroyForeign, DestroyWriter, writerVars, bufferVars, Alone
<1> QED BY <1>2, <1>3, <1>4 DEF DestroyPacketWriter

Leaving ==
    \A b \in Leaked' \ Leaked :
        /\ b \in ToSet(queue)
        /\ \/ ob[b].pacs = <<>>
           \/ Len(recent) > Keep /\ \A i \in DOMAIN recent : ~ recent[i].sent

LEMMA LeakStep ==
    TypeOK /\ TypeOK' /\ QueueKept /\ KeptAll /\ LeavingKept /\ [Next]_vars => Leaving
<1> SUFFICES ASSUME TypeOK, TypeOK', QueueKept, KeptAll, LeavingKept, [Next]_vars
             PROVE  Leaving
  OBVIOUS
<1> SUFFICES ASSUME NEW c, Alone(c)', ~ Alone(c)
             PROVE  \E q \in 1..Len(queue) : queue[q] = c /\ (ob[c].pacs = <<>> \/ Crowded)
  <2>1. queue \in Seq(OutBufs) /\ recent \in Seq(Packet)
    BY DEF TypeOK
  <2>2. DOMAIN queue = 1..Len(queue) /\ DOMAIN recent = 1..Len(recent)
    BY <2>1
  <2>3. ASSUME NEW c \in Leaked' \ Leaked
        PROVE  Alone(c)' /\ ~ Alone(c)
    BY LeakedAlone
  <2> QED BY <2>2, <2>3 DEF Leaving, Crowded, ToSet
<1>1. ASSUME NEW len \in Lengths, AllocPacket(len) PROVE FALSE
  <2>1. open = "open" /\ nextId \in 0..(IdMod - 1) /\ AllocPacketWithId(len, nextId)
    BY <1>1 DEF AllocPacket, TypeOK
  <2> QED BY <2>1, AllocLeaks, OpenKept
<1>2. CASE SendToRemote
  BY <1>2, SendLeaks DEF SendToRemote, CanWrite, LeavingKept
<1>3. CASE WriteDone \/ HandleSignal \/ CloseRemote \/ UNCHANGED vars
  BY <1>3 DEF WriteDone, HandleSignal, CloseRemote, vars, writerVars, bufferVars, Alone
<1>4. CASE DestroyPacketWriter
  BY <1>4, DestroyLeaks
<1>5. ASSUME NEW packId \in 0..(IdMod - 1), ResendPacket(packId) PROVE FALSE
  BY <1>3, <1>5, NoMatch DEF vars, writerVars, bufferVars, Alone
<1> QED BY <1>1, <1>2, <1>3, <1>4, <1>5 DEF Next

\* APB_ReleaseOutPacket, called by APB_AllocPacketWithId or by
\* APB_DestroyPacketWriter, leaves behind no buffer that nothing leads to: the
\* last packet of a buffer that has left pw_Queue takes the buffer along.  One is
\* lost only as APB_WriteBuffer takes it off the queue: when no packet ever went
\* into it, or when all its packets had been dropped by then, with more than
\* RECENT_PACKETS_TO_KEEP unsent ones behind it.
THEOREM LeaksCorrect == Spec => LeaksOnlyLeaving
<1>1. Init => LeavingKept
  <2> SUFFICES ASSUME Init PROVE Ahead /\ Pending
    BY DEF LeavingKept
  <2>1. Len(queue) = 0 /\ Len(recent) = 0
    BY DEF Init
  <2> QED BY <2>1 DEF Ahead, Pending
<1>2. LeaksOnlyLeaving <=> [][Leaving]_vars
  BY DEF LeaksOnlyLeaving, Leaving
<1> QED BY <1>1, <1>2, InitSequence, KeptAlways, SequenceStep, LeavingStep, LeakStep, PTL DEF Spec

=============================================================================
