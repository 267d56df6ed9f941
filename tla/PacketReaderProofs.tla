------------------------- MODULE PacketReaderProofs -------------------------
(***************************************************************************)
(* Theorems about PacketReader, for every size of buffers, pool, counters  *)
(* and every sequence of lengths.                                          *)
(***************************************************************************)
EXTENDS PacketReader, SequenceTheorems, FiniteSetTheorems, WellFoundedInduction, TLAPS

Word == [pac : Nat, at : Nat]

-----------------------------------------------------------------------------
(* Buffers and the words in them.                                          *)

LEMMA Constants ==
    /\ BufferSize \in Nat /\ Header \in Nat /\ Header >= 2 /\ BufferSize > Header
    /\ CountMod \in Nat \ {0} /\ CountMod > BufferSize /\ IdMod \in Nat \ {0}
    /\ \A len \in Lengths : len \in Nat
BY PacketReaderAssumption

\* Number of words in front of buffer b.
Base(b) == (b - 1) * BufferSize

LEMMA Products ==
    ASSUME NEW x \in Nat, NEW y \in Nat, NEW z \in Nat, x <= y
    PROVE  x * z <= y * z
OBVIOUS

LEMMA Bases ==
    ASSUME NEW b \in Nat \ {0}
    PROVE  /\ Base(b) \in Nat
           /\ \A c \in Nat : c > b => Base(c) \in Nat /\ Base(b) + BufferSize <= Base(c)
<1>1. Base(b) \in Nat
  <2>1. b - 1 \in Nat
    OBVIOUS
  <2> QED BY <2>1, Constants DEF Base
<1>2. ASSUME NEW c \in Nat, c > b
      PROVE  Base(c) \in Nat /\ Base(b) + BufferSize <= Base(c)
  <2>1. /\ b - 1 \in Nat /\ c - 1 \in Nat /\ b <= c - 1
    BY <1>2
  <2>2. b * BufferSize <= (c - 1) * BufferSize
    BY <2>1, Products, Constants
  <2>3. Base(b) + BufferSize = b * BufferSize
    BY Constants DEF Base
  <2>4. (c - 1) * BufferSize \in Nat
    BY <2>1, Constants
  <2> QED BY <2>2, <2>3, <2>4 DEF Base
<1> QED BY <1>1, <1>2

\* The least of a set of numbers.
LEMMA LessThan ==
    \E R : IsWellFoundedOn(R, Nat) /\ \A x, y \in Nat : <<x, y>> \in R <=> x < y
<1>1. \A x, y \in Nat : <<x, y>> \in OpToRel(<, Nat) <=> x < y
  BY Zenon DEF OpToRel
<1> QED BY <1>1, NatLessThanWellFounded, Zenon

LEMMA Minimum ==
    ASSUME NEW S, S \subseteq Nat, S # {}
    PROVE  Min(S) \in S
<1>1. PICK R : IsWellFoundedOn(R, Nat) /\ \A x, y \in Nat : <<x, y>> \in R <=> x < y
  BY LessThan, Zenon
<1>2. \E x \in S : \A y \in S : ~ (<<y, x>> \in R)
  <2>1. IsWellFoundedOn(R, Nat)
    BY <1>1
  <2> HIDE <1>1
  <2> QED BY <2>1, WFMin
<1>3. \A x, y \in Nat : ~ (y < x) => x <= y
  OBVIOUS
<1>4. \E x \in S : \A y \in S : x <= y
  BY <1>1, <1>2, <1>3, Zenon
<1> QED BY <1>4, Zenon DEF Min

LEMMA Following ==
    ASSUME chain \subseteq Nat, NEW b \in Nat
    PROVE  NextOf(b) = 0 \/ (NextOf(b) \in chain /\ NextOf(b) > b)
<1> DEFINE after == {c \in chain : c > b}
<1>1. CASE after = {}
  BY <1>1 DEF NextOf
<1>2. CASE after # {}
  <2>1. Min(after) \in after
    BY <1>2, Minimum
  <2> QED BY <1>2, <2>1 DEF NextOf
<1> QED BY <1>1, <1>2

\* A part of a sequence, also where it is empty.
LEMMA Parts ==
    ASSUME NEW S, NEW s \in Seq(S), NEW m \in Nat \ {0}, NEW n \in Int, n <= Len(s)
    PROVE  /\ SubSeq(s, m, n) \in Seq(S)
           /\ Len(SubSeq(s, m, n)) = IF m <= n THEN n - m + 1 ELSE 0
           /\ \A k \in 1..Len(SubSeq(s, m, n)) : SubSeq(s, m, n)[k] = s[m + k - 1]
<1>1. CASE m <= n
  <2>1. \A k \in m..n : s[k] \in S
    OBVIOUS
  <2> QED BY <1>1, <2>1, SubSeqProperties
<1>2. CASE m > n
  BY <1>2
<1> QED BY <1>1, <1>2

LEMMA Rest ==
    ASSUME NEW S, NEW s \in Seq(S), NEW m \in Nat, m <= Len(s)
    PROVE  /\ SubSeq(s, m + 1, Len(s)) \in Seq(S)
           /\ Len(SubSeq(s, m + 1, Len(s))) = Len(s) - m
           /\ \A k \in 1..(Len(s) - m) : SubSeq(s, m + 1, Len(s))[k] = s[m + k]
<1>1. PICK n \in Nat : n = Len(s)
  OBVIOUS
<1>2. /\ SubSeq(s, m + 1, n) \in Seq(S)
      /\ Len(SubSeq(s, m + 1, n)) = IF m + 1 <= n THEN n - (m + 1) + 1 ELSE 0
      /\ \A k \in 1..Len(SubSeq(s, m + 1, n)) : SubSeq(s, m + 1, n)[k] = s[m + 1 + k - 1]
  BY <1>1, Parts
<1>3. Len(SubSeq(s, m + 1, n)) = n - m
  BY <1>1, <1>2
<1>4. \A k \in 1..(n - m) : SubSeq(s, m + 1, n)[k] = s[m + 1 + k - 1] /\ m + 1 + k - 1 = m + k
  BY <1>2, <1>3
<1> QED BY <1>1, <1>2, <1>3, <1>4

LEMMA Joined ==
    ASSUME NEW S, NEW s \in Seq(S), NEW t \in Seq(S)
    PROVE  /\ s \o t \in Seq(S) /\ Len(s \o t) = Len(s) + Len(t)
           /\ \A k \in 1..(Len(s) + Len(t)) :
                 (s \o t)[k] = IF k <= Len(s) THEN s[k] ELSE t[k - Len(s)]
BY ConcatProperties

LEMMA Regrouped ==
    ASSUME NEW S, NEW f \in Seq(S), NEW g \in Seq(S), NEW h \in Seq(S)
    PROVE  (f \o g) \o h = f \o (g \o h)
BY ConcatAssociative

LEMMA DataWords ==
    ASSUME stream \in Seq(Word), NEW b \in Nat \ {0}
    PROVE  /\ Bytes(b) \in Int /\ Bytes(b) <= BufferSize
           /\ Data(b) \in Seq(Word)
           /\ Len(Data(b)) = IF Bytes(b) > 0 THEN Bytes(b) ELSE 0
           /\ \A k \in 1..Len(Data(b)) :
                 Base(b) + k \in 1..Len(stream) /\ Data(b)[k] = stream[Base(b) + k]
<1>1. Base(b) \in Nat /\ Len(stream) \in Nat
  BY Bases
<1>2. /\ Bytes(b) \in Int /\ Bytes(b) <= BufferSize /\ Bytes(b) <= Len(stream) - Base(b)
  <2>1. PICK n \in Int : n = Len(stream) - Base(b)
    BY <1>1
  <2>2. Bytes(b) = Least(BufferSize, n)
    BY <2>1, Zenon DEF Bytes, Base
  <2>3. /\ Least(BufferSize, n) \in Int
        /\ Least(BufferSize, n) <= BufferSize /\ Least(BufferSize, n) <= n
    BY Constants DEF Least
  <2>4. Bytes(b) \in Int /\ Bytes(b) <= BufferSize /\ Bytes(b) <= n
    BY <2>2, <2>3
  <2> QED BY <2>1, <2>4
<1>3. Data(b) = SubSeq(stream, Base(b) + 1, Base(b) + Bytes(b))
  BY DEF Data, Base
<1>4. PICK m \in Nat : m = Base(b)
  BY <1>1
<1>5. PICK n \in Int : n = m + Bytes(b)
  BY <1>2, <1>4
<1>6. Data(b) = SubSeq(stream, m + 1, n)
  BY <1>3, <1>4, <1>5
<1>7. n <= Len(stream)
  BY <1>1, <1>2, <1>4, <1>5
<1>8. /\ SubSeq(stream, m + 1, n) \in Seq(Word)
      /\ Len(SubSeq(stream, m + 1, n)) = IF m + 1 <= n THEN n - (m + 1) + 1 ELSE 0
      /\ \A k \in 1..Len(SubSeq(stream, m + 1, n)) : SubSeq(stream, m + 1, n)[k] = stream[m + 1 + k - 1]
  BY <1>7, Parts
<1>9. PICK d \in Seq(Word) : d = Data(b)
  BY <1>6, <1>8
<1>10. /\ Len(d) = IF m + 1 <= n THEN n - (m + 1) + 1 ELSE 0
       /\ \A k \in 1..Len(d) : d[k] = stream[m + 1 + k - 1]
  BY <1>6, <1>8, <1>9, Zenon
<1>11. Len(d) = IF Bytes(b) > 0 THEN Bytes(b) ELSE 0
  BY <1>2, <1>5, <1>10
<1>12. ASSUME NEW k \in 1..Len(d)
       PROVE  m + k \in 1..Len(stream) /\ d[k] = stream[m + k]
  <2>1. m + 1 + k - 1 = m + k
    OBVIOUS
  <2> QED BY <1>1, <1>2, <1>5, <1>7, <1>10, <1>11, <2>1, SMTT(20)
<1> QED BY <1>2, <1>4, <1>9, <1>11, <1>12

-----------------------------------------------------------------------------

\* The words the loop looks at, and where they are in the stream.
LEMMA AheadWords ==
    ASSUME stream \in Seq(Word), chain \subseteq Nat \ {0}, ib1 \in chain,
           off[ib1] \in Nat, off[ib1] <= Bytes(ib1)
    PROVE  /\ bc \in Nat /\ off[ib1] + bc = Bytes(ib1) /\ Bytes(ib1) <= BufferSize
           /\ ib2 \in chain \cup {0}
           /\ ib2 # 0 => ib2 = NextOf(ib1) /\ ib2 > ib1 /\ Bytes(ib1) = BufferSize
           /\ Ahead \in Seq(Word)
           /\ Len(Ahead) > bc => ib2 # 0
           /\ \A k \in 1..Len(Ahead) : \E p \in 1..Len(stream) :
                 /\ Ahead[k] = stream[p]
                 /\ p = IF k <= bc THEN Base(ib1) + off[ib1] + k ELSE Base(ib2) + k - bc
<1>1. ib1 \in Nat \ {0}
  OBVIOUS
<1>2. ib2 \in chain \cup {0} /\ (ib2 # 0 => ib2 = NextOf(ib1) /\ ib2 > ib1 /\ Bytes(ib1) = BufferSize)
  BY <1>1, Following DEF ib2, Full
<1>3. /\ bc \in Nat /\ off[ib1] + bc = Bytes(ib1) /\ Bytes(ib1) \in Nat /\ Bytes(ib1) <= BufferSize
  BY <1>1, DataWords DEF bc
<1>4. Base(ib1) \in Nat /\ (ib2 # 0 => Base(ib2) \in Nat)
  BY <1>1, <1>2, Bases
<1> DEFINE A == SubSeq(Data(ib1), off[ib1] + 1, Bytes(ib1))
           B == IF ib2 # 0 THEN Data(ib2) ELSE <<>>
<1>5. Ahead = A \o B
  BY DEF Ahead
<1>6. Data(ib1) \in Seq(Word) /\ Len(Data(ib1)) = Bytes(ib1)
  BY <1>1, <1>3, DataWords
<1>7. A \in Seq(Word) /\ Len(A) = bc /\ \A k \in 1..bc : A[k] = Data(ib1)[off[ib1] + k]
  <2>1. PICK d : d = Data(ib1)
    OBVIOUS
  <2>2. PICK m \in Nat : m = off[ib1]
    OBVIOUS
  <2>3. d \in Seq(Word) /\ Len(d) = Bytes(ib1) /\ m <= Len(d)
    BY <1>3, <1>6, <2>1, <2>2
  <2>4. /\ SubSeq(d, m + 1, Len(d)) \in Seq(Word) /\ Len(SubSeq(d, m + 1, Len(d))) = Len(d) - m
        /\ \A k \in 1..(Len(d) - m) : SubSeq(d, m + 1, Len(d))[k] = d[m + k]
    BY <2>3, Rest
  <2>5. A = SubSeq(d, m + 1, Len(d)) /\ bc = Len(d) - m
    BY <2>1, <2>2, <2>3 DEF bc
  <2> HIDE DEF A
  <2> QED BY <2>1, <2>2, <2>4, <2>5
<1> HIDE DEF A, B, Data, Bytes, Base, bc
<1>8. \A k \in 1..bc : A[k] = stream[Base(ib1) + off[ib1] + k] /\ Base(ib1) + off[ib1] + k \in 1..Len(stream)
  <2>1. \A k \in 1..Len(Data(ib1)) :
           Base(ib1) + k \in 1..Len(stream) /\ Data(ib1)[k] = stream[Base(ib1) + k]
    BY <1>1, DataWords
  <2> SUFFICES ASSUME NEW k \in 1..bc
               PROVE  A[k] = stream[Base(ib1) + off[ib1] + k] /\ Base(ib1) + off[ib1] + k \in 1..Len(stream)
    OBVIOUS
  <2>2. off[ib1] + k \in 1..Len(Data(ib1)) /\ Base(ib1) + (off[ib1] + k) = Base(ib1) + off[ib1] + k
    BY <1>3, <1>4, <1>6
  <2> QED BY <1>7, <2>1, <2>2
<1>9. /\ B \in Seq(Word) /\ (Len(B) > 0 => ib2 # 0)
      /\ \A k \in 1..Len(B) : B[k] = stream[Base(ib2) + k] /\ Base(ib2) + k \in 1..Len(stream)
  <2> USE DEF B
  <2>1. CASE ib2 = 0
    BY <2>1
  <2>2. CASE ib2 # 0
    BY <1>2, <2>2, DataWords
  <2> QED BY <2>1, <2>2
<1> HIDE DEF A, B, Data, Bytes, Base, bc, ib2
<1>10. PICK x \in Seq(Word) : x = A
  BY <1>7
<1>11. PICK y \in Seq(Word) : y = B
  BY <1>9
<1>12. /\ Ahead \in Seq(Word) /\ Len(Ahead) = bc + Len(y) /\ Len(x) = bc
       /\ \A k \in 1..(bc + Len(y)) : Ahead[k] = IF k <= bc THEN x[k] ELSE y[k - bc]
  <2>1. /\ x \o y \in Seq(Word) /\ Len(x \o y) = Len(x) + Len(y)
        /\ \A k \in 1..(Len(x) + Len(y)) :
              (x \o y)[k] = IF k <= Len(x) THEN x[k] ELSE y[k - Len(x)]
    BY Joined
  <2>2. Ahead = x \o y /\ Len(x) = bc
    BY <1>5, <1>7, <1>10, <1>11, Zenon
  <2> QED BY <2>1, <2>2
<1>13. ASSUME NEW k \in 1..Len(Ahead)
       PROVE  \E p \in 1..Len(stream) :
                 /\ Ahead[k] = stream[p]
                 /\ p = IF k <= bc THEN Base(ib1) + off[ib1] + k ELSE Base(ib2) + k - bc
  <2>1. CASE k <= bc
    <3>1. k \in 1..bc /\ Ahead[k] = A[k]
      BY <1>3, <1>10, <1>12, <2>1
    <3> QED BY <1>8, <2>1, <3>1
  <2>2. CASE k > bc
    <3>1. PICK j \in Nat : j = k - bc
      BY <1>3, <1>12, <2>2
    <3>2. j \in 1..Len(y) /\ Ahead[k] = y[j]
      <4>1. PICK ly \in Nat : ly = Len(y)
        OBVIOUS
      <4>2. k \in 1..(bc + ly) /\ j \in 1..ly
        BY <1>3, <1>12, <2>2, <3>1, <4>1
      <4>3. Ahead[k] = y[k - bc]
        BY <1>3, <1>12, <2>2, <4>1, <4>2
      <4> QED BY <3>1, <4>1, <4>2, <4>3
    <3>3. ib2 # 0 /\ y[j] = stream[Base(ib2) + j] /\ Base(ib2) + j \in 1..Len(stream)
      BY <1>9, <1>11, <3>2
    <3>4. Base(ib2) + j = Base(ib2) + k - bc
      BY <1>3, <1>4, <3>1, <3>3
    <3> QED BY <1>3, <2>2, <3>2, <3>3, <3>4
  <2> QED BY <1>3, <2>1, <2>2
<1>14. Len(Ahead) > bc => ib2 # 0
  <2>1. Len(y) > 0 => ib2 # 0
    BY <1>9, <1>11
  <2> QED BY <1>3, <1>12, <2>1
<1> QED BY <1>2, <1>3, <1>12, <1>13, <1>14

-----------------------------------------------------------------------------
(* Types.                                                                  *)

SentWord == [pac : 1..Len(sent), at : Nat]

LineOK == sent \in Seq(Lengths) /\ wire \in Seq(SentWord) /\ stream \in Seq(SentWord)

BufOK ==
    /\ rbuf \in 0..Len(off) /\ reading \in BOOLEAN /\ (reading => rbuf # 0)
    /\ chain \subseteq DOMAIN off /\ cur \in chain \cup {0} /\ ib1 \in chain \cup {0}
    /\ off \in Seq(Nat) /\ count \in Seq(0..(CountMod - 1)) /\ Len(count) = Len(off)
    /\ canRel \subseteq chain /\ live \subseteq DOMAIN off

Pack == [sn : 1..Len(sent), ib : chain, to : chain]

PackOK == queue \in Seq(Pack) /\ held \subseteq Pack /\ handled \in Seq(1..Len(sent))

MiscOK ==
    /\ lastIn \in 0..(IdMod - 1) /\ asked \subseteq 0..(IdMod - 1)
    /\ pc \in {"idle", "parse", "begin", "handle", "dead", "destroyed"}
    /\ crossed \in BOOLEAN /\ lost \in Nat /\ fails \in Nat

\* The loop has a buffer only while it runs, and there is a current one unless
\* none has been appended.
LoopOK ==
    /\ ib1 # 0 => pc = "parse"
    /\ pc # "destroyed" /\ cur = 0 => chain = {}

Types == LineOK /\ BufOK /\ PackOK /\ MiscOK /\ LoopOK

LEMMA Wider ==
    ASSUME NEW S, NEW T, S \subseteq T, NEW s \in Seq(S)
    PROVE  s \in Seq(T)
<1>1. Len(s) \in Nat /\ s = [i \in 1..Len(s) |-> s[i]] /\ \A i \in 1..Len(s) : s[i] \in S
  OBVIOUS
<1>2. [i \in 1..Len(s) |-> s[i]] \in Seq(T)
  BY <1>1
<1> QED BY <1>1, <1>2, Zenon

LEMMA TypesOK == Types => TypeOK
<1> SUFFICES ASSUME Types
             PROVE  TypeOK
  OBVIOUS
<1>1. wire \in Seq([pac : Nat, at : Nat]) /\ stream \in Seq([pac : Nat, at : Nat])
  <2>1. sent \in Seq(Lengths)
    BY DEF Types, LineOK
  <2>2. SentWord \subseteq [pac : Nat, at : Nat]
    BY <2>1 DEF SentWord
  <2> HIDE DEF SentWord
  <2> QED BY <2>2, Wider DEF Types, LineOK
<1>2. DOMAIN sent = 1..Len(sent)
  BY DEF Types, LineOK
<1>3. /\ sent \in Seq(Lengths)
      /\ rbuf \in 0..Len(off) /\ reading \in BOOLEAN
      /\ chain \subseteq DOMAIN off /\ cur \in chain \cup {0} /\ ib1 \in chain \cup {0}
      /\ off \in Seq(Nat) /\ count \in Seq(0..(CountMod - 1)) /\ Len(count) = Len(off)
      /\ canRel \subseteq chain /\ live \subseteq DOMAIN off
  BY Zenon DEF Types, LineOK, BufOK
<1>4. /\ queue \in Seq([sn : DOMAIN sent, ib : chain, to : chain])
      /\ held \subseteq [sn : DOMAIN sent, ib : chain, to : chain]
      /\ handled \in Seq(DOMAIN sent)
  BY <1>2, Zenon DEF Types, PackOK, Pack
<1>5. MiscOK
  BY Zenon DEF Types
<1> QED BY <1>1, <1>3, <1>4, <1>5, Zenon DEF TypeOK, MiscOK

LEMMA InitTypes == Init => Types
<1> SUFFICES ASSUME Init
             PROVE  Types
  OBVIOUS
<1> USE DEF Init
<1>1. LineOK
  BY DEF LineOK
<1>2. BufOK
  <2>1. <<>> \in Seq(Nat) /\ <<>> \in Seq(0..(CountMod - 1)) /\ Len(<<>>) = 0
    OBVIOUS
  <2>2. /\ rbuf = 0 /\ reading = FALSE /\ chain = {} /\ cur = 0 /\ ib1 = 0
        /\ off = <<>> /\ count = <<>> /\ canRel = {} /\ live = {}
    OBVIOUS
  <2> HIDE DEF Init
  <2>3. off \in Seq(Nat) /\ count \in Seq(0..(CountMod - 1)) /\ Len(count) = 0 /\ Len(off) = 0
    BY <2>1, <2>2, Zenon
  <2>4. /\ rbuf \in 0..Len(off) /\ reading \in BOOLEAN /\ chain \subseteq DOMAIN off
        /\ canRel \subseteq chain /\ live \subseteq DOMAIN off
    <3>1. rbuf \in 0..0
      BY <2>2
    <3>2. rbuf \in 0..Len(off)
      BY <2>3, <3>1, Zenon
    <3>3. reading \in BOOLEAN
      BY <2>2, Zenon
    <3>4. chain \subseteq DOMAIN off /\ canRel \subseteq chain /\ live \subseteq DOMAIN off
      BY <2>2, Zenon
    <3> QED BY <3>2, <3>3, <3>4, Zenon
  <2> QED BY <2>2, <2>3, <2>4, Zenon DEF BufOK
<1>3. PackOK
  BY DEF PackOK
<1>4. MiscOK
  <2>1. 0 \in 0..(IdMod - 1)
    BY Constants
  <2>2. pc = "begin" /\ lastIn = 0 /\ asked = {} /\ crossed = FALSE /\ lost = 0 /\ fails = 0
    OBVIOUS
  <2> HIDE DEF Init
  <2> QED BY <2>1, <2>2 DEF MiscOK
<1>5. LoopOK
  BY DEF LoopOK
<1> QED BY <1>1, <1>2, <1>3, <1>4, <1>5 DEF Types

\* The Pi sends a packet, or a word is lost.
LEMMA LineTypes == Types /\ (PiSends \/ LoseWord) => Types'
<1> SUFFICES ASSUME Types, PiSends \/ LoseWord
             PROVE  Types'
  OBVIOUS
<1>1. /\ UNCHANGED <<stream, rbuf, reading, pc, chain, cur, canRel, ib1, off, count, live, queue,
                     held, lastIn, handled, asked, crossed, fails>>
      /\ lost' \in Nat
  BY DEF PiSends, LoseWord, readVars, chainVars, bufVars, packetVars, Types, MiscOK
<1>2. BufOK' /\ MiscOK' /\ LoopOK'
  BY <1>1 DEF Types, BufOK, MiscOK, LoopOK
<1>3. sent' \in Seq(Lengths) /\ Len(sent') \in Nat /\ Len(sent) <= Len(sent')
  <2>1. sent \in Seq(Lengths)
    BY DEF Types, LineOK
  <2>2. sent' = sent \/ \E len \in Lengths : sent' = Append(sent, len)
    BY DEF PiSends, LoseWord
  <2>3. ASSUME NEW len \in Lengths
        PROVE  Append(sent, len) \in Seq(Lengths) /\ Len(Append(sent, len)) = Len(sent) + 1
    BY <2>1
  <2> QED BY <2>1, <2>2, <2>3
<1>4. Len(sent) \in Nat /\ 1..Len(sent) \subseteq 1..Len(sent')
  BY <1>3 DEF Types, LineOK
<1>5. SentWord \subseteq SentWord' /\ Pack \subseteq Pack'
  BY <1>1, <1>4 DEF SentWord, Pack
<1>6. PackOK'
  <2>1. queue \in Seq(Pack') /\ held \subseteq Pack' /\ handled \in Seq(1..Len(sent'))
    BY <1>4, <1>5, Wider DEF Types, PackOK
  <2> QED BY <1>1, <2>1 DEF PackOK
<1>7. wire \in Seq(SentWord') /\ stream \in Seq(SentWord')
  BY <1>5, Wider DEF Types, LineOK
<1>8. wire' \in Seq(SentWord')
  <2>1. CASE PiSends
    <3>1. PICK len \in Lengths : sent' = Append(sent, len) /\ wire' = wire \o Words(Len(sent) + 1, len)
      BY <2>1 DEF PiSends
    <3>2. Words(Len(sent) + 1, len) \in Seq(SentWord')
      <4>1. Header + len \in Nat /\ Len(sent) + 1 \in 1..Len(sent')
        BY <1>3, <1>4, <3>1, Constants DEF Types, LineOK
      <4>2. PICK n \in Nat : n = Header + len
        BY <4>1
      <4>3. ASSUME NEW i \in 1..n
            PROVE  [pac |-> Len(sent) + 1, at |-> i] \in SentWord'
        BY <4>1 DEF SentWord
      <4>4. Words(Len(sent) + 1, len) = [i \in 1..n |-> [pac |-> Len(sent) + 1, at |-> i]]
        BY <4>2, Zenon DEF Words
      <4> HIDE DEF SentWord
      <4> QED BY <4>3, <4>4
    <3> HIDE DEF SentWord
    <3> QED BY <1>7, <3>1, <3>2, Joined
  <2>2. CASE LoseWord
    <3>1. wire' = Tail(wire) /\ wire # <<>>
      BY <2>2 DEF LoseWord
    <3> HIDE DEF SentWord
    <3> QED BY <1>7, <3>1
  <2> QED BY <2>1, <2>2
<1>9. LineOK'
  BY <1>1, <1>3, <1>7, <1>8, Zenon DEF LineOK
<1> QED BY <1>2, <1>6, <1>9 DEF Types


LEMMA Streams ==
    ASSUME Types
    PROVE  /\ stream \in Seq(Word) /\ wire \in Seq(Word) /\ sent \in Seq(Nat)
           /\ Len(stream) \in Nat /\ Len(wire) \in Nat /\ Len(sent) \in Nat
           /\ chain \subseteq Nat \ {0} /\ 0 \notin chain
<1>1. SentWord \subseteq Word /\ Lengths \subseteq Nat
  <2>1. sent \in Seq(Lengths)
    BY DEF Types, LineOK
  <2> QED BY <2>1, Constants DEF SentWord, Word
<1>2. sent \in Seq(Lengths) /\ wire \in Seq(SentWord) /\ stream \in Seq(SentWord)
  BY DEF Types, LineOK
<1>3. stream \in Seq(Word) /\ wire \in Seq(Word) /\ sent \in Seq(Nat)
  BY <1>1, <1>2, Wider
<1>4. chain \subseteq 1..Len(off) /\ Len(off) \in Nat
  BY DEF Types, BufOK
<1> QED BY <1>3, <1>4

\* A read moves words from the line to the stream.
LEMMA Reads ==
    ASSUME Types, NEW n \in 1..BufferSize, ContinueRead(n)
    PROVE  /\ stream' = stream \o SubSeq(wire, 1, n) /\ wire' = SubSeq(wire, n + 1, Len(wire))
           /\ n \in Nat /\ 1 <= n /\ n <= Len(wire)
           /\ rbuf \in 1..Len(off) /\ reading' = FALSE
<1>1. rbuf \in 1..Len(off)
  BY DEF ContinueRead, Types, BufOK
<1>2. Bytes(rbuf) \in Int
  BY <1>1, Streams, DataWords
<1>3. PICK m \in Int : m = BufferSize - Bytes(rbuf)
  BY <1>2, Constants
<1>4. n <= Least(m, Len(wire))
  BY <1>3, Zenon DEF ContinueRead
<1>5. n <= Len(wire)
  BY <1>4, Streams, Constants DEF Least
<1> QED BY <1>1, <1>5, Constants DEF ContinueRead

LEMMA ReadLine ==
    ASSUME Types, NEW n \in 1..BufferSize, ContinueRead(n), UNCHANGED sent
    PROVE  LineOK'
<1>1. n \in Nat /\ 1 <= n /\ n <= Len(wire)
  BY Reads
<1> DEFINE W == SentWord
<1>2. W' = W
  BY DEF SentWord
<1>3. stream \in Seq(W) /\ wire \in Seq(W) /\ sent \in Seq(Lengths)
  BY DEF Types, LineOK
<1> HIDE DEF W
<1>4. SubSeq(wire, 1, n) \in Seq(W) /\ SubSeq(wire, n + 1, Len(wire)) \in Seq(W)
  BY <1>1, <1>3, Parts, Rest
<1>5. stream \o SubSeq(wire, 1, n) \in Seq(W)
  BY <1>3, <1>4, Joined
<1>6. stream' \in Seq(W) /\ wire' \in Seq(W)
  BY <1>4, <1>5, Reads, Zenon
<1> QED BY <1>2, <1>3, <1>6 DEF LineOK, W

\* Packets stay what they are when buffers are added.
LEMMA KeepsPackets ==
    ASSUME Types, chain \subseteq chain', UNCHANGED <<sent, queue, held, handled>>
    PROVE  PackOK'
<1>1. Pack \subseteq Pack'
  BY DEF Pack
<1>2. queue \in Seq(Pack') /\ held \subseteq Pack' /\ handled \in Seq(1..Len(sent))
  BY <1>1, Wider DEF Types, PackOK
<1> QED BY <1>2 DEF PackOK

LEMMA ReceiveTypes ==
    ASSUME Types, NEW n \in 1..BufferSize, Receive(n)
    PROVE  Types'
<1>1. /\ ContinueRead(n) /\ pc = "idle"
      /\ UNCHANGED <<sent, lost, rbuf, off, count, live, queue, held, lastIn, handled, asked>>
  BY DEF Receive, bufVars, packetVars
<1>2. LineOK'
  BY <1>1, ReadLine
<1>3. rbuf \in 1..Len(off) /\ reading' = FALSE
  BY <1>1, Reads
<1>4. ib1 = 0 /\ chain \subseteq DOMAIN off /\ canRel \subseteq chain /\ cur \in chain \cup {0}
  BY <1>1 DEF Types, LoopOK, BufOK
<1>5. DOMAIN off = 1..Len(off)
  BY DEF Types, BufOK
<1>6. CASE pc' = "begin" /\ fails' = fails + 1 /\ UNCHANGED <<chain, cur, canRel, ib1, crossed>>
  <2>1. BufOK'
    BY <1>1, <1>3, <1>6 DEF Types, BufOK
  <2>2. MiscOK'
    BY <1>1, <1>6 DEF Types, MiscOK
  <2>3. LoopOK'
    BY <1>1, <1>4, <1>6 DEF Types, LoopOK
  <2> QED BY <1>1, <1>2, <1>6, <2>1, <2>2, <2>3, KeepsPackets DEF Types
<1>7. CASE /\ AppendBuffer /\ ib1' = cur' /\ pc' = "parse" /\ UNCHANGED fails
           /\ crossed' = (crossed \/ (held # {} /\ rbuf \notin chain))
  <2>1. chain' = chain \cup {rbuf} /\ cur' \in chain' /\ canRel' \subseteq chain'
    BY <1>4, <1>7 DEF AppendBuffer
  <2>2. BufOK'
    <3>1. chain' \subseteq DOMAIN off
      BY <1>3, <1>4, <1>5, <2>1
    <3> QED BY <1>1, <1>3, <1>7, <2>1, <3>1 DEF Types, BufOK
  <2>3. MiscOK'
    <3>1. crossed' \in BOOLEAN
      BY <1>7 DEF Types, MiscOK
    <3> QED BY <1>1, <1>7, <3>1 DEF Types, MiscOK
  <2>4. LoopOK'
    <3>1. cur' # 0
      BY <1>3, <1>4, <1>5, <2>1 DEF Types, BufOK
    <3> QED BY <1>7, <3>1 DEF LoopOK
  <2> QED BY <1>1, <1>2, <2>1, <2>2, <2>3, <2>4, KeepsPackets DEF Types
<1>8. \/ pc' = "begin" /\ fails' = fails + 1 /\ UNCHANGED <<chain, cur, canRel, ib1, crossed>>
      \/ /\ AppendBuffer /\ ib1' = cur' /\ pc' = "parse" /\ UNCHANGED fails
         /\ crossed' = (crossed \/ (held # {} /\ rbuf \notin chain))
  BY DEF Receive, chainVars
<1> QED BY <1>6, <1>7, <1>8

LEMMA BeginTypes ==
    ASSUME Types, BeginRead \/ NoReadBuffer \/ ReadFails
    PROVE  Types'
<1>1. /\ UNCHANGED <<sent, wire, lost, stream, chain, cur, canRel, queue, held, lastIn, handled,
                     asked, ib1, crossed>>
      /\ pc # "parse" /\ pc # "destroyed"
      /\ fails' \in Nat /\ pc' \in {"handle", "dead", "idle"}
  BY DEF BeginRead, NoReadBuffer, ReadFails, lineVars, chainVars, packetVars, readVars, Types, MiscOK
<1>2. LineOK' /\ PackOK' /\ MiscOK'
  <2>1. LineOK'
    BY <1>1 DEF Types, LineOK, SentWord
  <2>2. MiscOK'
    BY <1>1 DEF Types, MiscOK
  <2> QED BY <1>1, <2>1, <2>2, KeepsPackets
<1>3. LoopOK'
  BY <1>1 DEF Types, LoopOK
<1>4. BufOK'
  <2>1. CASE UNCHANGED <<rbuf, off, count, live>> /\ reading' \in BOOLEAN /\ (reading' => rbuf # 0)
    BY <1>1, <2>1 DEF Types, BufOK
  <2>2. CASE /\ rbuf' = Len(off) + 1 /\ off' = Append(off, 0) /\ count' = Append(count, 0)
             /\ live' = live \cup {rbuf'} /\ reading' = TRUE
    <3>1. off \in Seq(Nat) /\ count \in Seq(0..(CountMod - 1)) /\ Len(count) = Len(off)
      BY DEF Types, BufOK
    <3>2. 0 \in 0..(CountMod - 1)
      BY Constants
    <3>3. off' \in Seq(Nat) /\ Len(off') = Len(off) + 1 /\ DOMAIN off' = 1..(Len(off) + 1) /\ DOMAIN off = 1..Len(off)
      BY <2>2, <3>1
    <3>4. count' \in Seq(0..(CountMod - 1)) /\ Len(count') = Len(off')
      BY <2>2, <3>1, <3>2, <3>3
    <3>5. chain \subseteq DOMAIN off' /\ live' \subseteq DOMAIN off' /\ rbuf' \in 0..Len(off') /\ rbuf' # 0
      <4>1. chain \subseteq DOMAIN off /\ live \subseteq DOMAIN off
        BY DEF Types, BufOK
      <4> QED BY <2>2, <3>1, <3>3, <4>1
    <3> QED BY <1>1, <2>2, <3>3, <3>4, <3>5 DEF Types, BufOK
  <2>3. \/ UNCHANGED <<rbuf, off, count, live>> /\ reading' \in BOOLEAN /\ (reading' => rbuf # 0)
        \/ /\ rbuf' = Len(off) + 1 /\ off' = Append(off, 0) /\ count' = Append(count, 0)
           /\ live' = live \cup {rbuf'} /\ reading' = TRUE
    BY DEF BeginRead, NoReadBuffer, ReadFails, REM_Read, bufVars, readVars, Types, BufOK
  <2> QED BY <2>1, <2>2, <2>3
<1> QED BY <1>2, <1>3, <1>4 DEF Types

\* What the loop looks at when it decides: the words of a header, and the buffer
\* in which the packet, or the search, goes on.
LEMMA Decided ==
    ASSUME Types, Decides
    PROVE  /\ ib1 \in chain /\ off[ib1] \in Nat /\ off[ib1] <= Bytes(ib1) /\ bc \in Nat
           /\ Len(Ahead) \in Nat /\ Len(Ahead) >= Header
           /\ Ahead[1] \in SentWord /\ Ahead[2] \in SentWord
           /\ Length(Ahead[2]) \in Nat /\ Size \in Nat /\ Size >= Header
           /\ Straddles => ib2 \in chain
           /\ HeaderOk /\ Splits => ib2 \in chain /\ Size - bc \in Nat /\ Size - bc > 0
<1>1. /\ ib1 \in chain /\ off[ib1] <= Bytes(ib1) /\ Len(Ahead) >= Header /\ (HeaderOk => Complete)
  BY DEF Decides, HeaderRead, Types, BufOK
<1>2. off[ib1] \in Nat
  <2>1. off \in Seq(Nat) /\ chain \subseteq DOMAIN off
    BY DEF Types, BufOK
  <2> QED BY <1>1, <2>1
<1>3. stream \in Seq(Word) /\ chain \subseteq Nat \ {0} /\ 0 \notin chain
  BY Streams
<1> HIDE DEF Word, Ahead, bc, ib2, Bytes
<1>4. /\ bc \in Nat /\ ib2 \in chain \cup {0} /\ Ahead \in Seq(Word)
      /\ Len(Ahead) > bc => ib2 # 0
      /\ \A k \in 1..Len(Ahead) : \E p \in 1..Len(stream) : Ahead[k] = stream[p]
  BY <1>1, <1>2, <1>3, AheadWords
<1>5. Len(Ahead) \in Nat
  BY <1>4
<1>6. Ahead[1] \in SentWord /\ Ahead[2] \in SentWord
  <2>1. 1 \in 1..Len(Ahead) /\ 2 \in 1..Len(Ahead)
    BY <1>1, <1>5, Constants
  <2>2. \A p \in 1..Len(stream) : stream[p] \in SentWord
    BY DEF Types, LineOK
  <2> QED BY <1>4, <2>1, <2>2
<1>7. Length(Ahead[2]) \in Nat
  <2>1. Ahead[2].pac \in 1..Len(sent)
    BY <1>6 DEF SentWord
  <2>2. sent[Ahead[2].pac] \in Nat
    BY <2>1, Streams
  <2> QED BY <2>2, Constants DEF Length
<1>8. Size \in Nat /\ Size >= Header
  BY <1>7, Constants DEF Size
<1>9. Straddles => ib2 \in chain
  <2>1. Straddles => Len(Ahead) > bc
    BY <1>1, <1>4, <1>5, Constants DEF Straddles
  <2> QED BY <1>4, <2>1
<1>10. ASSUME HeaderOk, Splits
       PROVE  ib2 \in chain /\ Size - bc \in Nat /\ Size - bc > 0
  <2>1. ib2 # 0
    BY <1>1, <1>10 DEF Complete
  <2>2. bc < Size
    BY <1>4, <1>8, <1>10, Constants DEF Splits, Straddles
  <2> QED BY <1>4, <1>8, <2>1, <2>2
<1> QED BY <1>1, <1>2, <1>4, <1>5, <1>6, <1>7, <1>8, <1>9, <1>10

\* ib_Offset and the buffer gone on with stay what they are.
LEMMA Advance ==
    ASSUME Types, NEW to \in chain, NEW size \in Nat, NEW next \in chain \cup {0},
           off' = [off EXCEPT ![to] = @ + size], cur' \in chain \cup {0}, ib1' = next,
           count' \in Seq(0..(CountMod - 1)), Len(count') = Len(count),
           UNCHANGED <<rbuf, reading, chain, canRel, live>>
    PROVE  BufOK'
<1>1. off \in Seq(Nat) /\ chain \subseteq DOMAIN off
  BY DEF Types, BufOK
<1>2. off' \in Seq(Nat) /\ Len(off') = Len(off) /\ DOMAIN off' = DOMAIN off
  <2>1. off[to] + size \in Nat
    BY <1>1
  <2> QED BY <1>1, <2>1
<1> QED BY <1>2 DEF Types, BufOK

LEMMA Counts ==
    ASSUME NEW n \in Int
    PROVE  n % CountMod \in 0..(CountMod - 1)
BY Constants

\* NextOf of a buffer of the chain.
LEMMA NextOK ==
    ASSUME Types, NEW b \in chain \cup {0}
    PROVE  NextOf(b) \in chain \cup {0}
BY Streams, Following

LEMMA LoopTypes ==
    ASSUME Types, LoopEnds \/ AcceptPacket \/ BadData
    PROVE  Types'
<1>1. CASE LoopEnds
  <2>1. /\ UNCHANGED <<sent, wire, lost, stream, rbuf, reading, chain, cur, canRel, off, count,
                       live, queue, held, lastIn, handled, asked, crossed>>
        /\ pc = "parse" /\ pc' = "begin" /\ ib1' = 0 /\ fails' \in Nat
    BY <1>1 DEF LoopEnds, lineVars, readVars, chainVars, bufVars, packetVars, Types, MiscOK
  <2>2. LineOK'
    BY <2>1 DEF Types, LineOK, SentWord
  <2>3. BufOK'
    BY <2>1 DEF Types, BufOK
  <2>4. MiscOK' /\ LoopOK'
    BY <2>1 DEF Types, MiscOK, LoopOK
  <2> QED BY <2>1, <2>2, <2>3, <2>4, KeepsPackets DEF Types
<1>2. ASSUME AcceptPacket \/ BadData
      PROVE  /\ LineOK' /\ MiscOK' /\ ib1 \in chain
             /\ UNCHANGED <<sent, wire, lost, stream, rbuf, reading, pc, chain, canRel, live,
                            held, lastIn, handled, asked, crossed, fails>>
             /\ pc = "parse" /\ Decides
  <2>1. /\ UNCHANGED <<sent, wire, lost, stream, rbuf, reading, pc, chain, canRel, live,
                       held, lastIn, handled, asked, crossed, fails>>
        /\ Decides
    BY <1>2 DEF AcceptPacket, BadData, lineVars, readVars, packetVars
  <2>2. LineOK'
    BY <2>1 DEF Types, LineOK, SentWord
  <2>3. MiscOK'
    BY <2>1 DEF Types, MiscOK
  <2>4. pc = "parse" /\ ib1 \in chain
    BY <2>1, Decided DEF Decides
  <2> QED BY <2>1, <2>2, <2>3, <2>4
<1>3. CASE AcceptPacket
  <2> DEFINE to == IF Splits THEN ib2 ELSE ib1
             size == IF Splits THEN Size - bc ELSE Size
             p == [sn |-> Ahead[1].pac, ib |-> ib1, to |-> to]
  <2>1. /\ HeaderOk /\ queue' = AddTail(p) /\ cur' = to
        /\ count' = [b \in DOMAIN count |->
                        IF b \in {ib1, to} THEN (count[b] + 1) % CountMod ELSE count[b]]
        /\ off' = [off EXCEPT ![to] = @ + size]
        /\ ib1' = IF off[to] + size = BufferSize THEN NextOf(to) ELSE to
    BY <1>3 DEF AcceptPacket
  <2>2. to \in chain /\ size \in Nat /\ Ahead[1].pac \in 1..Len(sent)
    BY <1>2, <1>3, <2>1, Decided DEF SentWord
  <2> HIDE DEF to, size
  <2>3. ib1' \in chain \cup {0} /\ cur' \in chain
    BY <2>1, <2>2, NextOK
  <2>4. count' \in Seq(0..(CountMod - 1)) /\ Len(count') = Len(count)
    <3>1. count \in Seq(0..(CountMod - 1)) /\ DOMAIN count = 1..Len(count) /\ Len(count) \in Nat
      BY DEF Types, BufOK
    <3>2. ASSUME NEW b \in 1..Len(count)
          PROVE  (IF b \in {ib1, to} THEN (count[b] + 1) % CountMod ELSE count[b]) \in 0..(CountMod - 1)
      <4>1. count[b] \in 0..(CountMod - 1) /\ count[b] + 1 \in Int
        BY <3>1, Constants
      <4> QED BY <4>1, Counts
    <3>3. PICK n \in Nat : n = Len(count)
      BY <3>1
    <3>4. count' = [b \in 1..n |->
                        IF b \in {ib1, to} THEN (count[b] + 1) % CountMod ELSE count[b]]
      BY <2>1, <3>1, <3>3
    <3> QED BY <3>2, <3>3, <3>4
  <2>5. BufOK'
    BY <1>2, <1>3, <2>1, <2>2, <2>3, <2>4, Advance
  <2>6. PackOK'
    <3>1. p \in Pack
      BY <1>2, <1>3, <2>2 DEF Pack
    <3>2. Pack' = Pack
      BY <1>2, <1>3 DEF Pack
    <3>3. queue \in Seq(Pack) /\ held \subseteq Pack /\ handled \in Seq(1..Len(sent))
      BY DEF Types, PackOK
    <3> HIDE DEF p, Pack
    <3>4. queue' \in Seq(Pack)
      BY <2>1, <3>1, <3>3 DEF AddTail
    <3>5. held' \subseteq Pack /\ handled' \in Seq(1..Len(sent'))
      BY <1>2, <1>3, <3>3
    <3> QED BY <3>2, <3>4, <3>5, Zenon DEF PackOK
  <2>7. LoopOK'
    <3>1. cur' # 0
      BY <2>3, Streams
    <3> QED BY <1>2, <1>3, <3>1 DEF LoopOK
  <2> QED BY <1>2, <1>3, <2>5, <2>6, <2>7 DEF Types
<1>4. CASE BadData
  <2> DEFINE to == IF Straddles \/ (HeaderOk /\ Splits) THEN ib2 ELSE ib1
  <2>1. /\ ib1' = to /\ UNCHANGED <<count, queue>>
        /\ \/ off' = [off EXCEPT ![to] = @ + 1] /\ UNCHANGED cur
           \/ UNCHANGED off /\ (cur' = cur \/ (cur' = NextOf(to) /\ cur' # 0))
    BY <1>4 DEF BadData
  <2>2. to \in chain
    BY <1>2, <1>4, Decided
  <2> HIDE DEF to
  <2>3. cur' \in chain \cup {0} /\ (cur' = 0 => cur = 0)
    BY <2>1, <2>2, NextOK DEF Types, BufOK
  <2>4. BufOK'
    <3>1. count \in Seq(0..(CountMod - 1))
      BY DEF Types, BufOK
    <3>2. CASE off' = [off EXCEPT ![to] = @ + 1]
      BY <1>2, <1>4, <2>1, <2>2, <2>3, <3>1, <3>2, Advance
    <3>3. CASE UNCHANGED off
      BY <1>2, <1>4, <2>1, <2>2, <2>3, <3>3 DEF Types, BufOK
    <3> QED BY <2>1, <3>2, <3>3
  <2>5. PackOK'
    BY <1>2, <1>4, <2>1, KeepsPackets
  <2>6. LoopOK'
    BY <1>2, <1>4, <2>3 DEF Types, LoopOK
  <2> QED BY <1>2, <1>4, <2>4, <2>5, <2>6 DEF Types
<1> QED BY <1>1, <1>3, <1>4

\* Packets counted down, and buffers given back.
LEMMA Released ==
    ASSUME Types, NEW p \in Pack, ReleaseInPacket(p)
    PROVE  count' \in Seq(0..(CountMod - 1)) /\ Len(count') = Len(count) /\ live' \subseteq live
<1>1. count \in Seq(0..(CountMod - 1))
  BY DEF Types, BufOK
<1>2. ASSUME NEW c \in Seq(0..(CountMod - 1)), NEW b
      PROVE  CountDown(c, b) \in Seq(0..(CountMod - 1)) /\ Len(CountDown(c, b)) = Len(c)
  <2>1. CASE b \in DOMAIN c
    <3>1. c[b] - 1 \in Int
      BY <2>1, Constants
    <3>2. (c[b] - 1) % CountMod \in 0..(CountMod - 1)
      BY <3>1, Counts
    <3>3. PICK v \in 0..(CountMod - 1) : v = (c[b] - 1) % CountMod
      BY <3>2
    <3>4. CountDown(c, b) = [c EXCEPT ![b] = v]
      BY <3>3 DEF CountDown
    <3> QED BY <2>1, <3>4
  <2>2. CASE b \notin DOMAIN c
    <3>1. CountDown(c, b) = c
      <4>1. c = [k \in DOMAIN c |-> c[k]]
        OBVIOUS
      <4>2. CountDown(c, b) = [k \in DOMAIN c |-> IF k = b THEN (c[b] - 1) % CountMod ELSE c[k]]
        BY DEF CountDown
      <4>3. CountDown(c, b) = [k \in DOMAIN c |-> c[k]]
        BY <2>2, <4>2, Zenon
      <4> QED BY <4>1, <4>3, Zenon
    <3> QED BY <3>1
  <2> QED BY <2>1, <2>2
<1> DEFINE c1 == CountDown(count, p.ib)
           next == NextOf(p.ib)
           c2 == IF next = 0 THEN c1 ELSE CountDown(c1, next)
<1>3. c1 \in Seq(0..(CountMod - 1)) /\ Len(c1) = Len(count)
  BY <1>1, <1>2
<1>4. count' = c2 /\ live' \subseteq live
  BY DEF ReleaseInPacket
<1> HIDE DEF c1, next
<1>5. c2 \in Seq(0..(CountMod - 1)) /\ Len(c2) = Len(count)
  BY <1>2, <1>3
<1> QED BY <1>4, <1>5

LEMMA GapTypes ==
    ASSUME Types, NEW id \in 0..(IdMod - 1), AskForGap(id)
    PROVE  lastIn' \in 0..(IdMod - 1) /\ asked' \subseteq 0..(IdMod - 1) /\ fails' \in Nat
<1>1. lastIn \in 0..(IdMod - 1) /\ asked \subseteq 0..(IdMod - 1) /\ fails \in Nat
  BY DEF Types, MiscOK
<1>2. \A room \in (lastIn + 1)..id : (lastIn + 1)..(room - 1) \subseteq 0..(IdMod - 1)
  BY <1>1, Constants
<1>3. (lastIn + 1)..(id - 1) \subseteq 0..(IdMod - 1)
  BY <1>1, Constants
<1>4. CASE asked' = asked \cup (lastIn + 1)..(id - 1) /\ UNCHANGED fails
  BY <1>1, <1>3, <1>4 DEF AskForGap
<1>5. CASE \E room \in (lastIn + 1)..(id - 1) :
              fails' = fails + 1 /\ asked' = asked \cup (lastIn + 1)..(room - 1)
  <2>1. PICK room \in (lastIn + 1)..(id - 1) :
              fails' = fails + 1 /\ asked' = asked \cup (lastIn + 1)..(room - 1)
    BY <1>5
  <2>2. room \in (lastIn + 1)..id
    BY <1>1, Constants
  <2> QED BY <1>1, <1>2, <2>1, <2>2 DEF AskForGap
<1> QED BY <1>4, <1>5 DEF AskForGap

\* The buffers when only counts and given back buffers change.
LEMMA ReleaseTypes ==
    ASSUME Types, count' \in Seq(0..(CountMod - 1)), Len(count') = Len(count), live' \subseteq live,
           UNCHANGED <<rbuf, reading, chain, cur, canRel, ib1, off>>
    PROVE  BufOK'
BY DEF Types, BufOK

LEMMA PacketTypes ==
    ASSUME Types, HandlePacket \/ PassDone \/ ReleaseHeld \/ DestroyPacketReader
    PROVE  Types'
<1>1. /\ UNCHANGED <<sent, wire, lost, stream, rbuf, reading, chain, canRel, ib1, off, crossed>>
      /\ LineOK'
  <2>1. UNCHANGED <<sent, wire, lost, stream, rbuf, reading, chain, canRel, ib1, off, crossed>>
    BY DEF HandlePacket, PassDone, ReleaseHeld, DestroyPacketReader, lineVars, readVars, chainVars,
           bufVars
  <2> QED BY <2>1 DEF Types, LineOK, SentWord
<1>2. Pack' = Pack
  BY <1>1 DEF Pack
<1>3. queue \in Seq(Pack) /\ held \subseteq Pack /\ handled \in Seq(1..Len(sent))
  BY DEF Types, PackOK
<1>4. count \in Seq(0..(CountMod - 1))
  BY DEF Types, BufOK
<1>5. CASE HandlePacket
  <2> HIDE DEF Pack
  <2>1. /\ queue # <<>> /\ pc = "handle" /\ UNCHANGED <<pc, cur>>
        /\ queue' = Tail(queue) /\ handled' = Append(handled, Head(queue).sn)
        /\ AskForGap(Head(queue).sn % IdMod)
        /\ \/ ReleaseInPacket(Head(queue)) /\ UNCHANGED held
           \/ held' = held \cup {Head(queue)} /\ UNCHANGED <<count, live>>
    BY <1>5 DEF HandlePacket, chainVars
  <2>2. PICK p \in Pack : p = Head(queue)
    BY <1>3, <2>1
  <2>3. p.sn \in 1..Len(sent) /\ queue' \in Seq(Pack)
    <3>1. queue' \in Seq(Pack)
      BY <1>3, <2>1
    <3> QED BY <2>2, <3>1 DEF Pack
  <2>4. PackOK'
    <3>1. handled' \in Seq(1..Len(sent)) /\ held' \subseteq Pack
      BY <1>3, <2>1, <2>2, <2>3
    <3> QED BY <1>1, <1>2, <2>3, <3>1, Zenon DEF PackOK
  <2>5. BufOK'
    <3>1. count' \in Seq(0..(CountMod - 1)) /\ Len(count') = Len(count) /\ live' \subseteq live
      BY <1>4, <2>1, <2>2, Released
    <3> QED BY <1>1, <2>1, <3>1, ReleaseTypes
  <2>6. MiscOK'
    <3>1. p.sn % IdMod \in 0..(IdMod - 1)
      BY <2>3, Streams, Constants
    <3>2. lastIn' \in 0..(IdMod - 1) /\ asked' \subseteq 0..(IdMod - 1) /\ fails' \in Nat
      BY <2>1, <2>2, <3>1, GapTypes
    <3> QED BY <1>1, <2>1, <3>2 DEF Types, MiscOK
  <2>7. LoopOK'
    BY <1>1, <2>1 DEF Types, LoopOK
  <2> QED BY <1>1, <2>4, <2>5, <2>6, <2>7 DEF Types
<1>6. CASE PassDone \/ DestroyPacketReader
  <2>1. /\ UNCHANGED <<count, live, queue, held, lastIn, handled, asked>>
        /\ cur' \in {cur, 0} /\ pc # "parse" /\ fails' \in Nat
        /\ \/ pc' = "destroyed"
           \/ pc' = "idle" /\ pc = "handle" /\ cur' = cur
    BY <1>6 DEF PassDone, DestroyPacketReader, chainVars, bufVars, packetVars, Types, MiscOK
  <2>2. BufOK'
    BY <1>1, <2>1 DEF Types, BufOK
  <2>3. MiscOK' /\ LoopOK'
    BY <1>1, <2>1 DEF Types, MiscOK, LoopOK
  <2>4. PackOK'
    BY <1>1, <2>1, KeepsPackets
  <2> QED BY <1>1, <2>2, <2>3, <2>4 DEF Types
<1>7. CASE ReleaseHeld
  <2>1. /\ UNCHANGED <<pc, cur, queue, lastIn, handled, asked, fails>>
        /\ \E p \in held : ReleaseInPacket(p) /\ held' = held \ {p}
    BY <1>7 DEF ReleaseHeld, chainVars
  <2> HIDE DEF Pack
  <2>2. PICK p \in Pack : ReleaseInPacket(p) /\ held' = held \ {p}
    BY <1>3, <2>1
  <2>3. BufOK'
    BY <1>1, <2>1, <2>2, Released, ReleaseTypes
  <2>4. PackOK'
    <3>1. held' \subseteq Pack
      BY <1>3, <2>2
    <3> QED BY <1>1, <1>2, <1>3, <2>1, <3>1, Zenon DEF PackOK
  <2>5. MiscOK' /\ LoopOK'
    BY <1>1, <2>1 DEF Types, MiscOK, LoopOK
  <2> QED BY <1>1, <2>3, <2>4, <2>5 DEF Types
<1> QED BY <1>5, <1>6, <1>7

LEMMA StepTypes == Types /\ [Next]_vars => Types'
<1> SUFFICES ASSUME Types, [Next]_vars
             PROVE  Types'
  OBVIOUS
<1>1. CASE \E n \in 1..BufferSize : Receive(n)
  BY <1>1, ReceiveTypes
<1>2. CASE BeginRead \/ NoReadBuffer \/ ReadFails
  BY <1>2, BeginTypes
<1>3. CASE LoopEnds \/ AcceptPacket \/ BadData
  BY <1>3, LoopTypes
<1>4. CASE HandlePacket \/ PassDone \/ ReleaseHeld \/ DestroyPacketReader
  BY <1>4, PacketTypes
<1>5. CASE PiSends \/ LoseWord
  BY <1>5, LineTypes
<1>6. CASE UNCHANGED vars
  BY <1>6 DEF vars, lineVars, readVars, chainVars, bufVars, packetVars, Types, LineOK, BufOK, PackOK,
              MiscOK, LoopOK, SentWord, Pack
<1> QED BY <1>1, <1>2, <1>3, <1>4, <1>5, <1>6, Zenon DEF Next, Server

LEMMA AlwaysTypes == Spec => []Types
<1>1. Types /\ [Next]_vars => Types'
  BY StepTypes
<1> QED BY InitTypes, <1>1, PTL DEF Spec

\* Whatever the line loses and however long packets are, the reader, its buffers
\* and counters keep the types the code gives them: a packet of the queue is one
\* the Pi has sent and lies in buffers that have been appended
\* (server/packetreader.c).
THEOREM TypeCorrect == Spec => []TypeOK
BY AlwaysTypes, TypesOK, PTL

-----------------------------------------------------------------------------
(* The line: packets come in the order in which they were sent.            *)

Line == stream \o wire

\* The first words of packets, by the packet they belong to.
Increasing(s) ==
    \A i, j \in 1..Len(s) : i < j /\ s[i].at = 1 /\ s[j].at = 1 => s[i].pac < s[j].pac

LineInv == Increasing(Line)

LEMMA Lines ==
    ASSUME Types
    PROVE  /\ Line \in Seq(Word) /\ Len(Line) = Len(stream) + Len(wire)
           /\ \A k \in 1..Len(stream) : k \in 1..Len(Line) /\ Line[k] = stream[k]
           /\ \A k \in 1..Len(Line) :
                 Line[k] = IF k <= Len(stream) THEN stream[k] ELSE wire[k - Len(stream)]
<1>1. stream \in Seq(Word) /\ wire \in Seq(Word)
  BY Streams
<1> HIDE DEF Word
<1>2. /\ Line \in Seq(Word) /\ Len(Line) = Len(stream) + Len(wire)
      /\ \A k \in 1..(Len(stream) + Len(wire)) :
            Line[k] = IF k <= Len(stream) THEN stream[k] ELSE wire[k - Len(stream)]
  BY <1>1, Joined DEF Line
<1> QED BY <1>1, <1>2

\* A read leaves the words of the line where they are.
LEMMA SameLine ==
    ASSUME Types, NEW n \in 1..BufferSize, ContinueRead(n)
    PROVE  Line' = Line
<1>1. /\ stream' = stream \o SubSeq(wire, 1, n) /\ wire' = SubSeq(wire, n + 1, Len(wire))
      /\ n \in Nat /\ 1 <= n /\ n <= Len(wire)
  BY Reads
<1>2. stream \in Seq(Word) /\ wire \in Seq(Word)
  BY Streams
<1>3. ASSUME NEW s \in Seq(Word), NEW t \in Seq(Word), n <= Len(t)
      PROVE  (s \o SubSeq(t, 1, n)) \o SubSeq(t, n + 1, Len(t)) = s \o t
  <2> HIDE DEF Word
  <2>1. PICK ls \in Nat, lt \in Nat : ls = Len(s) /\ lt = Len(t)
    OBVIOUS
  <2>2. n \in Int /\ n <= lt /\ n \in Nat /\ 1 <= n
    BY <1>1, <1>3, <2>1
  <2>3. /\ SubSeq(t, 1, n) \in Seq(Word) /\ Len(SubSeq(t, 1, n)) = n
        /\ \A k \in 1..n : SubSeq(t, 1, n)[k] = t[k]
    <3>1. /\ SubSeq(t, 1, n) \in Seq(Word)
          /\ Len(SubSeq(t, 1, n)) = IF 1 <= n THEN n - 1 + 1 ELSE 0
          /\ \A k \in 1..Len(SubSeq(t, 1, n)) : SubSeq(t, 1, n)[k] = t[1 + k - 1]
      BY <2>1, <2>2, Parts
    <3>2. Len(SubSeq(t, 1, n)) = n
      BY <2>2, <3>1
    <3>3. \A k \in 1..n : 1 + k - 1 = k
      BY <2>2
    <3> QED BY <3>1, <3>2, <3>3
  <2>4. PICK x \in Seq(Word) : x = SubSeq(t, 1, n)
    BY <2>3
  <2>5. /\ SubSeq(t, n + 1, lt) \in Seq(Word) /\ Len(SubSeq(t, n + 1, lt)) = lt - n
        /\ \A k \in 1..(lt - n) : SubSeq(t, n + 1, lt)[k] = t[n + k]
    BY <2>1, <2>2, Rest
  <2>6. PICK y \in Seq(Word) : y = SubSeq(t, n + 1, lt)
    BY <2>5
  <2>7. /\ Len(x) = n /\ \A k \in 1..n : x[k] = t[k]
        /\ Len(y) = lt - n /\ \A k \in 1..(lt - n) : y[k] = t[n + k]
    BY <2>3, <2>4, <2>5, <2>6
  <2>8. PICK u \in Seq(Word) : u = s \o x
    BY Joined
  <2>9. Len(u) = ls + n /\ \A k \in 1..(ls + n) : u[k] = IF k <= ls THEN s[k] ELSE x[k - ls]
    <3>1. /\ Len(s \o x) = Len(s) + Len(x)
          /\ \A k \in 1..(Len(s) + Len(x)) : (s \o x)[k] = IF k <= Len(s) THEN s[k] ELSE x[k - Len(s)]
      BY Joined
    <3> QED BY <2>1, <2>7, <2>8, <3>1, Zenon
  <2>10. PICK a \in Seq(Word) : a = u \o y
    BY Joined
  <2>11. /\ Len(a) = (ls + n) + (lt - n)
         /\ \A k \in 1..((ls + n) + (lt - n)) : a[k] = IF k <= ls + n THEN u[k] ELSE y[k - (ls + n)]
    <3>1. /\ Len(u \o y) = Len(u) + Len(y)
          /\ \A k \in 1..(Len(u) + Len(y)) : (u \o y)[k] = IF k <= Len(u) THEN u[k] ELSE y[k - Len(u)]
      BY Joined
    <3>2. Len(u) = ls + n /\ Len(y) = lt - n
      BY <2>7, <2>9, Zenon
    <3> QED BY ONLY <2>10, <3>1, <3>2, Zenon
  <2>12. PICK b \in Seq(Word) : b = s \o t
    BY Joined
  <2>13. Len(b) = ls + lt /\ \A k \in 1..(ls + lt) : b[k] = IF k <= ls THEN s[k] ELSE t[k - ls]
    BY <2>1, <2>12, Joined
  <2>14. (ls + n) + (lt - n) = ls + lt
    BY <2>1, <2>2
  <2>15. ASSUME NEW k \in 1..(ls + lt)
         PROVE  a[k] = b[k]
    <3>1. /\ a[k] = IF k <= ls + n THEN u[k] ELSE y[k - (ls + n)]
          /\ b[k] = IF k <= ls THEN s[k] ELSE t[k - ls]
      BY <2>11, <2>13, <2>14, Zenon
    <3>2. CASE k <= ls
      <4>1. k \in 1..(ls + n) /\ k <= ls + n
        BY <2>1, <2>2, <3>2
      <4> QED BY <2>9, <3>1, <3>2, <4>1, Zenon
    <3>3. CASE ~ (k <= ls) /\ k <= ls + n
      <4>1. k - ls \in 1..n /\ k \in 1..(ls + n)
        BY <2>1, <2>2, <3>3
      <4> QED BY <2>7, <2>9, <3>1, <3>3, <4>1, Zenon
    <3>4. CASE ~ (k <= ls + n)
      <4>1. k - (ls + n) \in 1..(lt - n) /\ n + (k - (ls + n)) = k - ls /\ ~ (k <= ls)
        BY <2>1, <2>2, <3>4
      <4>2. y[k - (ls + n)] = t[n + (k - (ls + n))]
        BY <2>7, <4>1, Zenon
      <4>3. y[k - (ls + n)] = t[k - ls]
        BY <4>1, <4>2, Zenon
      <4> QED BY <3>1, <3>4, <4>1, <4>3, Zenon
    <3> QED BY <3>2, <3>3, <3>4, Zenon
  <2>16. Len(a) = Len(b) /\ \A k \in 1..Len(b) : a[k] = b[k]
    BY <2>11, <2>13, <2>14, <2>15, Zenon
  <2>17. a = b
    BY <2>16, SeqEqual
  <2> QED BY <2>1, <2>4, <2>6, <2>8, <2>10, <2>12, <2>17, Zenon
<1> QED BY <1>1, <1>2, <1>3 DEF Line

\* Words on the line are words of packets that were sent.
LEMMA LineWords ==
    ASSUME Types, NEW k \in 1..Len(Line)
    PROVE  Line[k].pac \in 1..Len(sent) /\ Line[k].at \in Nat
<1>1. stream \in Seq(SentWord) /\ wire \in Seq(SentWord)
  BY DEF Types, LineOK
<1>2. Line \in Seq(SentWord)
  <2> HIDE DEF SentWord
  <2> QED BY <1>1, Joined DEF Line
<1>3. Line[k] \in SentWord
  <2> HIDE DEF SentWord
  <2> QED BY <1>2
<1> QED BY <1>3 DEF SentWord

LEMMA SentLine ==
    ASSUME Types, PiSends
    PROVE  /\ Line' \in Seq(Word) /\ Len(Line) \in Nat /\ Len(Line') \in Nat /\ Len(Line) <= Len(Line')
           /\ \A k \in 1..Len(Line) : Line'[k] = Line[k]
           /\ \A k \in (Len(Line) + 1)..Len(Line') :
                 Line'[k].pac = Len(sent) + 1 /\ Line'[k].at = k - Len(Line)
<1>1. PICK len \in Lengths : wire' = wire \o Words(Len(sent) + 1, len)
  BY DEF PiSends
<1>2. stream' = stream
  BY DEF PiSends, readVars
<1>3. PICK W \in Seq(Word) :
          /\ W = Words(Len(sent) + 1, len)
          /\ \A i \in 1..Len(W) : W[i] = [pac |-> Len(sent) + 1, at |-> i]
  <2>1. PICK n \in Nat : n = Header + len
    BY Constants
  <2>2. PICK s \in Nat : s = Len(sent) + 1
    BY Streams
  <2>3. Words(Len(sent) + 1, len) = [i \in 1..n |-> [pac |-> s, at |-> i]]
    BY <2>1, <2>2, Zenon DEF Words
  <2>4. \A i \in 1..n : [pac |-> s, at |-> i] \in Word
    BY DEF Word
  <2> HIDE DEF Word
  <2>5. [i \in 1..n |-> [pac |-> s, at |-> i]] \in Seq(Word)
    BY <2>4
  <2> QED BY <2>2, <2>3, <2>5
<1>4. stream \in Seq(Word) /\ wire \in Seq(Word)
  BY Streams
<1> HIDE DEF Word
<1>5. Line' = Line \o W
  <2>1. (stream \o wire) \o W = stream \o (wire \o W)
    <3>1. PICK S : S = Word
      OBVIOUS
    <3>2. stream \in Seq(S) /\ wire \in Seq(S) /\ W \in Seq(S)
      BY <1>3, <1>4, <3>1
    <3> QED BY ONLY <3>2, Regrouped
  <2>2. Line' = stream \o (wire \o W)
    BY <1>1, <1>2, <1>3 DEF Line
  <2> QED BY <2>1, <2>2, Zenon DEF Line
<1>6. Line \in Seq(Word)
  BY Lines
<1>7. /\ Line \o W \in Seq(Word) /\ Len(Line \o W) = Len(Line) + Len(W)
      /\ \A k \in 1..(Len(Line) + Len(W)) :
            (Line \o W)[k] = IF k <= Len(Line) THEN Line[k] ELSE W[k - Len(Line)]
  BY <1>6, Joined
<1>8. PICK l \in Nat, w \in Nat : l = Len(Line) /\ w = Len(W)
  BY <1>6
<1>9. Line' \in Seq(Word) /\ Len(Line') = l + w
  BY <1>5, <1>7, <1>8, Zenon
<1>10. \A k \in 1..(l + w) : Line'[k] = IF k <= l THEN Line[k] ELSE W[k - l]
  BY <1>5, <1>7, <1>8, Zenon
<1>11. \A k \in 1..l : k \in 1..(l + w) /\ k <= l
  BY <1>8
<1>12. ASSUME NEW k \in (l + 1)..(l + w)
       PROVE  Line'[k].pac = Len(sent) + 1 /\ Line'[k].at = k - l
  <2>1. k \in 1..(l + w) /\ ~ (k <= l) /\ k - l \in 1..w
    BY <1>8
  <2>2. Line'[k] = W[k - l]
    BY <1>10, <2>1, Zenon
  <2>3. W[k - l] = [pac |-> Len(sent) + 1, at |-> k - l]
    BY <1>3, <1>8, <2>1, Zenon
  <2> QED BY <2>2, <2>3
<1>13. \A k \in 1..l : Line'[k] = Line[k]
  BY <1>10, <1>11, Zenon
<1>14. l + w \in Nat /\ l <= l + w
  BY <1>8
<1> QED BY <1>8, <1>9, <1>12, <1>13, <1>14, Zenon

\* A lost word: those behind it move up.
LEMMA LostLine ==
    ASSUME Types, LoseWord
    PROVE  /\ Line' \in Seq(Word) /\ Len(Line) \in Nat /\ Len(Line') = Len(Line) - 1
           /\ \A k \in 1..Len(Line') :
                 Line'[k] = IF k <= Len(stream) THEN Line[k] ELSE Line[k + 1]
<1>1. stream' = stream /\ wire # <<>> /\ wire' = Tail(wire)
  BY DEF LoseWord, readVars
<1>2. stream \in Seq(Word) /\ wire \in Seq(Word)
  BY Streams
<1> HIDE DEF Word
<1>3. PICK t \in Seq(Word) : t = Tail(wire)
  BY <1>1, <1>2
<1>4. Len(t) = Len(wire) - 1 /\ \A i \in 1..Len(t) : t[i] = wire[i + 1]
  BY <1>1, <1>2, <1>3
<1>5. PICK s \in Nat, w \in Nat : s = Len(stream) /\ w = Len(wire) /\ w - 1 \in Nat
  BY <1>1, <1>2
<1>6. /\ stream \o t \in Seq(Word) /\ Len(stream \o t) = Len(stream) + Len(t)
      /\ \A k \in 1..(Len(stream) + Len(t)) :
            (stream \o t)[k] = IF k <= Len(stream) THEN stream[k] ELSE t[k - Len(stream)]
  BY <1>2, Joined
<1>7. Line' = stream \o t
  BY <1>1, <1>3 DEF Line
<1>8. /\ Line' \in Seq(Word) /\ Len(Line') = s + (w - 1)
      /\ \A k \in 1..(s + (w - 1)) : Line'[k] = IF k <= s THEN stream[k] ELSE t[k - s]
  BY <1>4, <1>5, <1>6, <1>7, Zenon
<1>9. /\ Len(Line) = s + w
      /\ \A k \in 1..(s + w) : Line[k] = IF k <= s THEN stream[k] ELSE wire[k - s]
  BY <1>5, Lines, Zenon
<1>10. ASSUME NEW k \in 1..(s + (w - 1))
       PROVE  Line'[k] = IF k <= s THEN Line[k] ELSE Line[k + 1]
  <2>1. k \in 1..(s + w) /\ k + 1 \in 1..(s + w)
    BY <1>5
  <2>2. CASE k <= s
    BY <1>8, <1>9, <2>1, <2>2, Zenon
  <2>3. CASE ~ (k <= s)
    <3>1. k - s \in 1..(w - 1) /\ ~ (k + 1 <= s) /\ (k - s) + 1 = (k + 1) - s
      BY <1>5, <2>3
    <3>2. t[k - s] = wire[(k - s) + 1]
      BY <1>4, <1>5, <3>1, Zenon
    <3>3. Line[k + 1] = wire[(k + 1) - s]
      BY <1>9, <2>1, <3>1, Zenon
    <3> QED BY <1>8, <2>3, <3>1, <3>2, <3>3, Zenon
  <2> QED BY <2>2, <2>3
<1>11. s + w \in Nat /\ s + (w - 1) = (s + w) - 1
  BY <1>5
<1> QED BY <1>5, <1>8, <1>9, <1>10, <1>11, Zenon

\* Packets follow each other on the line, what ever of them is lost.
LEMMA StepLine == Types /\ LineInv /\ [Next]_vars => LineInv'
<1> SUFFICES ASSUME Types, LineInv, [Next]_vars
             PROVE  LineInv'
  OBVIOUS
<1>1. CASE PiSends
  <2>1. PICK l \in Nat, m \in Nat : l = Len(Line) /\ m = Len(Line') /\ l <= m
    BY <1>1, SentLine
  <2>2. SUFFICES ASSUME NEW i \in 1..m, NEW j \in 1..m, i < j, Line'[i].at = 1, Line'[j].at = 1
                 PROVE  Line'[i].pac < Line'[j].pac
    BY <2>1, Zenon DEF LineInv, Increasing
  <2>3. /\ \A k \in 1..l : Line'[k] = Line[k]
        /\ \A k \in (l + 1)..m : Line'[k].pac = Len(sent) + 1 /\ Line'[k].at = k - l
    BY <1>1, <2>1, SentLine, Zenon
  <2>4. \A k \in 1..l : Line[k].pac \in 1..Len(sent)
    BY <2>1, LineWords
  <2>5. CASE j <= l
    <3>1. i \in 1..l /\ j \in 1..l
      BY <2>1, <2>2, <2>5
    <3> QED BY <2>1, <2>2, <2>3, <3>1, Zenon DEF LineInv, Increasing
  <2>6. CASE j > l /\ i <= l
    <3>1. i \in 1..l /\ j \in (l + 1)..m
      BY <2>1, <2>6
    <3>2. Line'[i].pac \in 1..Len(sent) /\ Line'[j].pac = Len(sent) + 1
      BY <2>3, <2>4, <3>1, Zenon
    <3> QED BY <3>2, Streams
  <2>7. CASE i > l
    <3>1. i \in (l + 1)..m /\ j \in (l + 1)..m
      BY <2>1, <2>2, <2>7
    <3>2. i - l = 1 /\ j - l = 1
      BY <2>2, <2>3, <3>1, Zenon
    <3> QED BY <2>1, <2>2, <3>2
  <2> QED BY <2>1, <2>5, <2>6, <2>7
<1>2. CASE LoseWord
  <2>1. PICK l \in Nat, s \in Nat, m \in Nat :
            l = Len(Line) /\ s = Len(stream) /\ m = Len(Line') /\ m = l - 1
    <3>1. Line' \in Seq(Word) /\ Len(Line) \in Nat /\ Len(Line') = Len(Line) - 1
      BY <1>2, LostLine
    <3>2. Len(Line') \in Nat
      BY <3>1
    <3> QED BY <3>1, <3>2, Streams
  <2>2. SUFFICES ASSUME NEW i \in 1..m, NEW j \in 1..m, i < j, Line'[i].at = 1, Line'[j].at = 1
                 PROVE  Line'[i].pac < Line'[j].pac
    BY <2>1, Zenon DEF LineInv, Increasing
  <2>3. \A k \in 1..m : Line'[k] = IF k <= s THEN Line[k] ELSE Line[k + 1]
    BY <1>2, <2>1, LostLine, Zenon
  <2> DEFINE Was(k) == IF k <= s THEN k ELSE k + 1
  <2>4. Was(i) \in 1..l /\ Was(j) \in 1..l /\ Was(i) < Was(j)
    BY <2>1, <2>2
  <2>5. Line'[i] = Line[Was(i)] /\ Line'[j] = Line[Was(j)]
    BY <2>3, Zenon
  <2> HIDE DEF Was
  <2> QED BY <2>1, <2>2, <2>4, <2>5, Zenon DEF LineInv, Increasing
<1>3. CASE \E n \in 1..BufferSize : Receive(n)
  BY <1>3, SameLine DEF Receive, LineInv, Increasing
<1>4. CASE UNCHANGED <<stream, wire>>
  BY <1>4 DEF Line, LineInv, Increasing
<1>5. \/ PiSends \/ LoseWord \/ (\E n \in 1..BufferSize : Receive(n))
      \/ UNCHANGED <<stream, wire>>
  BY DEF Next, Server, vars, lineVars, readVars, BeginRead, NoReadBuffer, LoopEnds, AcceptPacket,
         BadData, HandlePacket, PassDone, ReadFails, ReleaseHeld, DestroyPacketReader
<1> QED BY <1>1, <1>2, <1>3, <1>4, <1>5, Zenon

-----------------------------------------------------------------------------
(* Where the reader stands in the stream.                                  *)

\* Only the current buffer's ib_Offset can lie behind its end, and the loop goes
\* no further than that buffer then.
OffsetInv == \A b \in DOMAIN off : off[b] > BufferSize => b = cur /\ ib1 \in {0, b}

\* The loop is in a buffer before the current one only when that is all read.
BehindInv ==
    ib1 # 0 /\ ib1 < cur =>
        cur = NextOf(ib1) /\ off[ib1] = BufferSize /\ Bytes(ib1) = BufferSize

RoomInv == pc # "destroyed" => OffsetInv /\ BehindInv

\* The words up to Reached are not looked at again as the first of a packet.
Reached ==
    IF cur = 0 THEN 0
    ELSE IF ib1 # 0 /\ ib1 < cur THEN Base(cur) ELSE Base(cur) + off[cur]

LEMMA ReachedType ==
    ASSUME Types
    PROVE  /\ Reached \in Nat
           /\ cur # 0 => Base(cur) \in Nat /\ off[cur] \in Nat /\ cur \in Nat \ {0}
<1>1. off \in Seq(Nat) /\ chain \subseteq DOMAIN off /\ cur \in chain \cup {0}
  BY DEF Types, BufOK
<1>2. chain \subseteq Nat \ {0}
  BY Streams
<1>3. cur # 0 => Base(cur) \in Nat /\ off[cur] \in Nat /\ cur \in Nat \ {0}
  BY <1>1, <1>2, Bases
<1> QED BY <1>3 DEF Reached

\* What the loop knows when it decides.
LEMMA Standing ==
    ASSUME Types, RoomInv, Decides
    PROVE  /\ cur \in chain /\ pc = "parse" /\ ib1 \in Nat \ {0}
           /\ chain \subseteq DOMAIN off
           /\ \A b \in DOMAIN off : off[b] \in Nat /\ off[b] <= BufferSize
           /\ ib2 # 0 => ib2 = NextOf(ib1) /\ ib2 > ib1 /\ ib2 \in Nat /\ Bytes(ib1) = BufferSize
           /\ ib1 < cur => cur = NextOf(ib1) /\ off[ib1] = BufferSize /\ bc = 0
           /\ off[ib1] + bc = Bytes(ib1) /\ Bytes(ib1) <= BufferSize
<1>1. ib1 \in chain /\ off[ib1] \in Nat /\ off[ib1] <= Bytes(ib1) /\ bc \in Nat
  BY Decided
<1>2. stream \in Seq(Word) /\ chain \subseteq Nat \ {0} /\ 0 \notin chain
  BY Streams
<1>3. pc = "parse" /\ OffsetInv /\ BehindInv
  BY DEF Decides, RoomInv
<1>4. cur \in chain
  BY <1>1, <1>3 DEF Types, LoopOK, BufOK
<1> HIDE DEF Word, ib2, bc, Bytes
<1>5. /\ off[ib1] + bc = Bytes(ib1) /\ Bytes(ib1) <= BufferSize /\ ib2 \in chain \cup {0}
      /\ ib2 # 0 => ib2 = NextOf(ib1) /\ ib2 > ib1 /\ Bytes(ib1) = BufferSize
  BY <1>1, <1>2, AheadWords
<1>6. chain \subseteq DOMAIN off /\ \A b \in DOMAIN off : off[b] \in Nat
  <2>1. off \in Seq(Nat) /\ chain \subseteq DOMAIN off
    BY DEF Types, BufOK
  <2> QED BY <2>1
<1>7. ASSUME NEW b \in DOMAIN off
      PROVE  off[b] <= BufferSize
  <2>1. CASE off[b] > BufferSize
    <3>1. ib1 = b
      BY <1>1, <1>2, <1>3, <2>1 DEF OffsetInv
    <3> QED BY <1>1, <1>5, <1>6, <2>1, <3>1, Constants
  <2> QED BY <1>6, <2>1, Constants
<1>8. ib1 < cur => cur = NextOf(ib1) /\ off[ib1] = BufferSize /\ bc = 0
  BY <1>1, <1>2, <1>3, <1>5, Constants DEF BehindInv
<1> QED BY <1>1, <1>2, <1>3, <1>4, <1>5, <1>6, <1>7, <1>8

\* The buffer the search goes on in, after data that was no packet.
LEMMA BadDataSteps ==
    ASSUME Types, RoomInv, BadData
    PROVE  \E to \in chain :
              /\ to = ib1 \/ (to = ib2 /\ ib2 # 0)
              /\ ib1' = to /\ UNCHANGED <<pc, chain, stream, wire, queue, handled>>
              /\ \/ off[to] < Bytes(to) /\ off' = [off EXCEPT ![to] = @ + 1] /\ UNCHANGED cur
                 \/ /\ ~ (off[to] < Bytes(to)) /\ UNCHANGED off
                    /\ \/ UNCHANGED cur
                       \/ cur' = NextOf(to) /\ cur' # 0 /\ Bytes(to) = BufferSize
<1> DEFINE to == IF Straddles \/ (HeaderOk /\ Splits) THEN ib2 ELSE ib1
<1>1. /\ Decides /\ ib1' = to /\ UNCHANGED <<pc, chain, stream, wire, queue, handled>>
      /\ \/ off[to] < Bytes(to) /\ off' = [off EXCEPT ![to] = @ + 1] /\ UNCHANGED cur
         \/ /\ ~ (off[to] < Bytes(to)) /\ UNCHANGED off
            /\ cur' = IF Full(to) /\ NextOf(to) # 0 THEN NextOf(to) ELSE cur
  BY DEF BadData, lineVars, readVars, packetVars
<1>2. to \in chain /\ (to = ib1 \/ (to = ib2 /\ ib2 # 0))
  BY <1>1, Decided, Streams
<1> HIDE DEF to
<1>3. cur' = (IF Full(to) /\ NextOf(to) # 0 THEN NextOf(to) ELSE cur) =>
         cur' = cur \/ (cur' = NextOf(to) /\ cur' # 0 /\ Bytes(to) = BufferSize)
  BY DEF Full
<1> QED BY <1>1, <1>2, <1>3, Zenon

\* NextOf and Bytes depend on the chain and the stream only.
LEMMA Same ==
    ASSUME UNCHANGED <<chain, stream>>, NEW b
    PROVE  NextOf(b)' = NextOf(b) /\ Bytes(b)' = Bytes(b)
BY DEF NextOf, Bytes

LEMMA BadDataRoom ==
    ASSUME Types, RoomInv, BadData
    PROVE  /\ RoomInv' /\ Reached <= Reached' /\ Reached' \in Nat
<1>1. PICK to \in chain :
              /\ to = ib1 \/ (to = ib2 /\ ib2 # 0)
              /\ ib1' = to /\ UNCHANGED <<pc, chain, stream>>
              /\ \/ off[to] < Bytes(to) /\ off' = [off EXCEPT ![to] = @ + 1] /\ UNCHANGED cur
                 \/ /\ ~ (off[to] < Bytes(to)) /\ UNCHANGED off
                    /\ \/ UNCHANGED cur
                       \/ cur' = NextOf(to) /\ cur' # 0 /\ Bytes(to) = BufferSize
  BY BadDataSteps
<1>2. Decides
  BY DEF BadData
<1>3. /\ cur \in chain /\ pc = "parse" /\ ib1 \in Nat \ {0} /\ cur \in Nat \ {0} /\ to \in Nat \ {0}
      /\ \A b \in DOMAIN off : off[b] \in Nat /\ off[b] <= BufferSize
      /\ ib2 # 0 => ib2 = NextOf(ib1) /\ ib2 > ib1 /\ ib2 \in Nat
      /\ ib1 < cur => cur = NextOf(ib1) /\ off[ib1] = BufferSize
      /\ off[ib1] <= Bytes(ib1) /\ Bytes(ib1) <= BufferSize
  BY <1>2, Standing, Decided, Streams
<1>4. off \in Seq(Nat) /\ chain \subseteq DOMAIN off
  BY DEF Types, BufOK
<1>5. Bytes(to) \in Int /\ Bytes(to) <= BufferSize
  BY <1>3, Streams, DataWords
<1>6. /\ \A b \in DOMAIN off' : off'[b] \in Nat /\ off'[b] <= BufferSize
      /\ off'[cur] \in Nat /\ off'[cur] >= off[cur]
  <2>1. CASE off[to] < Bytes(to) /\ off' = [off EXCEPT ![to] = @ + 1]
    <3>1. to \in DOMAIN off /\ cur \in DOMAIN off
      BY <1>3, <1>4
    <3>2. DOMAIN off' = DOMAIN off /\ off'[to] = off[to] + 1 /\ \A b \in DOMAIN off : b # to => off'[b] = off[b]
      BY <1>4, <2>1, <3>1
    <3>3. off[to] + 1 \in Nat /\ off[to] + 1 <= BufferSize /\ off[to] \in Nat
      BY <1>3, <1>5, <2>1, <3>1, Constants
    <3>4. \A b \in DOMAIN off : off'[b] \in Nat /\ off'[b] <= BufferSize
      BY <1>3, <3>2, <3>3, Zenon
    <3>5. off'[cur] >= off[cur]
      <4>1. CASE cur = to
        BY <3>2, <3>3, <4>1
      <4>2. CASE cur # to
        <5>1. off'[cur] = off[cur] /\ off[cur] \in Nat
          BY <1>3, <3>1, <3>2, <4>2, Zenon
        <5> QED BY <5>1
      <4> QED BY <4>1, <4>2
    <3> QED BY <3>1, <3>2, <3>4, <3>5, Zenon
  <2>2. CASE UNCHANGED off
    <3>1. off[cur] \in Nat
      BY <1>3, <1>4
    <3> QED BY <1>3, <2>2, <3>1
  <2> QED BY <1>1, <2>1, <2>2
<1>7. NextOf(to) = 0 \/ (NextOf(to) \in Nat /\ NextOf(to) > to)
  BY <1>3, Following, Streams
<1>8. to >= ib1 /\ ((ib1 < cur /\ to # ib1) => to = cur)
  BY <1>1, <1>3
<1>9. to < cur => ib1 = to /\ off[to] = BufferSize /\ Bytes(to) = BufferSize /\ cur = NextOf(to)
  <2> SUFFICES ASSUME to < cur
               PROVE  ib1 = to /\ off[to] = BufferSize /\ Bytes(to) = BufferSize /\ cur = NextOf(to)
    OBVIOUS
  <2>1. ib1 < cur /\ ~ (to = cur)
    BY <1>3, <1>8
  <2>2. ib1 = to
    BY <1>8, <2>1
  <2>3. off[ib1] = BufferSize /\ Bytes(ib1) <= BufferSize /\ off[ib1] <= Bytes(ib1) /\ cur = NextOf(ib1)
    BY <1>3, <2>1
  <2>4. Bytes(to) = BufferSize
    BY <1>5, <2>2, <2>3, Constants
  <2> QED BY <2>2, <2>3, <2>4
<1>10. NextOf(ib1)' = NextOf(to) /\ Bytes(ib1)' = Bytes(to)
  BY <1>1 DEF NextOf, Bytes
<1>11. OffsetInv'
  <2>1. \A b \in DOMAIN off' : ~ (off'[b] > BufferSize)
    BY <1>6, Constants
  <2> QED BY <1>1, <2>1 DEF OffsetInv
<1>12. /\ Base(cur) \in Nat /\ off[cur] \in Nat /\ off[cur] <= BufferSize
       /\ \A c \in Nat : c > cur => Base(c) \in Nat /\ Base(cur) + BufferSize <= Base(c)
  BY <1>3, <1>4, Bases
<1>13. Reached = IF ib1 < cur THEN Base(cur) ELSE Base(cur) + off[cur]
  BY <1>3 DEF Reached
<1>14. Reached' = IF cur' = 0 THEN 0
                ELSE IF ib1' # 0 /\ ib1' < cur' THEN Base(cur') ELSE Base(cur') + off'[cur']
  BY DEF Reached, Base
<1> HIDE DEF NextOf, Bytes, ib2, bc, Base, Reached
<1>15. CASE UNCHANGED cur
  <2>1. Reached' = IF to < cur THEN Base(cur) ELSE Base(cur) + off'[cur]
    BY <1>1, <1>3, <1>14, <1>15
  <2>2. off'[cur] \in Nat /\ off'[cur] >= off[cur]
    BY <1>6
  <2>3. Reached <= Reached' /\ Reached' \in Nat
    <3>1. CASE to < cur
      BY <1>9, <1>12, <1>13, <2>1, <3>1
    <3>2. CASE ~ (to < cur)
      BY <1>12, <1>13, <2>1, <2>2, <3>2
    <3> QED BY <3>1, <3>2
  <2>4. BehindInv'
    <3>1. to < cur => cur = NextOf(to) /\ off'[to] = BufferSize /\ Bytes(to) = BufferSize
      <4>1. off[to] = BufferSize /\ Bytes(to) = BufferSize => UNCHANGED off
        BY <1>1, Constants
      <4> QED BY <1>9, <4>1
    <3> QED BY <1>1, <1>10, <1>15, <3>1 DEF BehindInv
  <2> QED BY <1>11, <2>3, <2>4 DEF RoomInv
<1>16. CASE /\ ~ (off[to] < Bytes(to)) /\ UNCHANGED off /\ cur' = NextOf(to) /\ cur' # 0
            /\ Bytes(to) = BufferSize
  <2>1. cur' \in Nat /\ cur' > to /\ to >= ib1
    BY <1>7, <1>8, <1>16
  <2>2. Reached' = Base(cur')
    BY <1>1, <1>3, <1>14, <1>16, <2>1
  <2>3. off[to] = BufferSize
    BY <1>3, <1>4, <1>16, Constants
  <2>4. BehindInv'
    BY <1>1, <1>10, <1>16, <2>3 DEF BehindInv
  <2>5. cur' = cur \/ cur' > cur
    <3>1. CASE to < cur
      BY <1>9, <1>16, <3>1
    <3>2. CASE ~ (to < cur)
      BY <1>3, <2>1, <3>2
    <3> QED BY <3>1, <3>2
  <2>6. cur' = cur => ib1 < cur
    BY <1>3, <2>1
  <2>7. Reached <= Reached' /\ Reached' \in Nat
    <3>1. CASE cur' = cur
      BY <1>12, <1>13, <2>2, <2>6, <3>1
    <3>2. CASE cur' > cur
      <4>1. Base(cur') \in Nat /\ Base(cur) + BufferSize <= Base(cur')
        BY <1>12, <2>1, <3>2
      <4> QED BY <1>12, <1>13, <2>2, <4>1, Constants
    <3> QED BY <2>5, <3>1, <3>2
  <2> QED BY <1>11, <2>4, <2>7 DEF RoomInv
<1> QED BY <1>1, <1>15, <1>16

LEMMA AcceptRoom ==
    ASSUME Types, RoomInv, AcceptPacket
    PROVE  /\ RoomInv' /\ UNCHANGED <<pc, chain, stream, wire, handled>>
           /\ \E p \in 1..Len(stream) :
                 /\ p > Reached /\ p <= Reached' /\ Reached' \in Nat /\ stream[p].at = 1
                 /\ \E x : x.sn = stream[p].pac /\ queue' = Append(queue, x)
<1> DEFINE to == IF Splits THEN ib2 ELSE ib1
           size == IF Splits THEN Size - bc ELSE Size
           x == [sn |-> Ahead[1].pac, ib |-> ib1, to |-> to]
<1>1. /\ Decides /\ HeaderOk /\ queue' = Append(queue, x) /\ cur' = to
      /\ off' = [off EXCEPT ![to] = @ + size]
      /\ ib1' = IF off[to] + size = BufferSize THEN NextOf(to) ELSE to
      /\ UNCHANGED <<pc, chain, stream, wire, handled>>
  BY DEF AcceptPacket, AddTail, lineVars, readVars, packetVars
<1>2. /\ ib1 \in chain /\ bc \in Nat /\ Len(Ahead) \in Nat /\ Len(Ahead) >= Header
      /\ to \in chain /\ size \in Nat /\ size > 0 /\ (bc < Header => Splits)
      /\ Splits => ib2 # 0
  <2>1. /\ ib1 \in chain /\ bc \in Nat /\ Len(Ahead) \in Nat /\ Len(Ahead) >= Header
        /\ Size \in Nat /\ Size >= Header
        /\ HeaderOk /\ Splits => ib2 \in chain /\ Size - bc \in Nat /\ Size - bc > 0
    BY <1>1, Decided
  <2>2. 0 \notin chain
    BY Streams
  <2> QED BY <1>1, <2>1, <2>2, Constants DEF Splits, Straddles
<1>3. /\ cur \in chain /\ pc = "parse" /\ ib1 \in Nat \ {0} /\ chain \subseteq DOMAIN off
      /\ \A b \in DOMAIN off : off[b] \in Nat /\ off[b] <= BufferSize
      /\ ib2 # 0 => ib2 = NextOf(ib1) /\ ib2 > ib1 /\ ib2 \in Nat
      /\ ib1 < cur => cur = NextOf(ib1) /\ off[ib1] = BufferSize /\ bc = 0
      /\ off[ib1] + bc = Bytes(ib1) /\ Bytes(ib1) <= BufferSize
  BY <1>1, Standing
<1>4. /\ cur \in Nat \ {0} /\ to \in Nat \ {0} /\ off \in Seq(Nat)
      /\ stream \in Seq(Word) /\ chain \subseteq Nat \ {0}
  BY <1>2, <1>3, Streams DEF Types, BufOK
<1>5. NextOf(to) = 0 \/ (NextOf(to) \in Nat /\ NextOf(to) > to)
  BY <1>4, Following
\* Where the packet begins.
<1>6. PICK p \in 1..Len(stream) :
              /\ Ahead[1] = stream[p]
              /\ p = IF 1 <= bc THEN Base(ib1) + off[ib1] + 1 ELSE Base(ib2) + 1 - bc
  <2>1. 1 \in 1..Len(Ahead)
    BY <1>2, Constants
  <2>2. off[ib1] \in Nat /\ off[ib1] <= Bytes(ib1)
    BY <1>1, Decided
  <2> HIDE DEF Word, Ahead, bc, ib2, Bytes, Base, to, size
  <2> QED BY <1>2, <1>4, <2>1, <2>2, AheadWords
<1>7. stream[p].at = 1 /\ x.sn = stream[p].pac
  BY <1>1, <1>6 DEF HeaderOk
<1>8. /\ Base(ib1) \in Nat /\ off[ib1] \in Nat /\ off[ib1] <= BufferSize
      /\ Base(cur) \in Nat /\ off[cur] \in Nat /\ off[cur] <= BufferSize
      /\ Base(to) \in Nat /\ off[to] \in Nat
      /\ ib2 # 0 => Base(ib2) \in Nat /\ Base(ib1) + BufferSize <= Base(ib2)
      /\ cur < ib1 => Base(cur) + BufferSize <= Base(ib1)
  BY <1>2, <1>3, <1>4, Bases
<1>9. Reached = IF ib1 < cur THEN Base(cur) ELSE Base(cur) + off[cur]
  BY <1>3, <1>4 DEF Reached
<1>10. Reached' = IF cur' = 0 THEN 0
                ELSE IF ib1' # 0 /\ ib1' < cur' THEN Base(cur') ELSE Base(cur') + off'[cur']
  BY DEF Reached, Base
<1>11. to = IF Splits THEN ib2 ELSE ib1
  OBVIOUS
<1>12. off'[to] = off[to] + size
  BY <1>1, <1>2, <1>3, <1>4
<1> HIDE DEF Ahead, bc, ib2, Bytes, Base, to, size, Reached, Splits, NextOf
<1> HIDE DEF Word
<1>13. /\ 1 <= bc => p = Base(ib1) + off[ib1] + 1
       /\ ~ (1 <= bc) => p = Base(ib2) + 1 - bc
  BY <1>6, Zenon
<1>14. ~ (ib1' # 0 /\ ib1' < cur') /\ cur' # 0
  <2>1. ib1' = NextOf(to) \/ ib1' = to
    BY <1>1
  <2> QED BY <1>1, <1>4, <1>5, <2>1
<1>15. Reached' = Base(to) + off[to] + size
  <2>1. Reached' = Base(to) + off'[to]
    BY <1>1, <1>10, <1>14
  <2> QED BY <1>2, <1>8, <1>12, <2>1
<1>16. p > Reached
  <2>1. CASE ib1 < cur
    <3>1. Reached = Base(cur) /\ bc = 0 /\ ib2 # 0
      BY <1>2, <1>3, <1>9, <2>1, Constants
    <3>2. ib2 = cur
      BY <1>3, <2>1, <3>1
    <3> QED BY <1>13, <1>8, <3>1, <3>2
  <2>2. CASE ~ (ib1 < cur) /\ ib1 # cur
    <3>1. cur < ib1 /\ Base(cur) + BufferSize <= Base(ib1) /\ Reached = Base(cur) + off[cur]
      BY <1>3, <1>4, <1>8, <1>9, <2>2
    <3>2. Reached <= Base(ib1) /\ Reached \in Nat
      BY <1>8, <3>1, Constants
    <3>3. CASE 1 <= bc
      BY <1>2, <1>13, <1>8, <3>2, <3>3
    <3>4. CASE ~ (1 <= bc)
      <4>1. bc = 0 /\ ib2 # 0
        BY <1>2, <3>4, Constants
      <4>2. Base(ib1) + BufferSize <= Base(ib2)
        BY <1>8, <4>1, Zenon
      <4> QED BY <1>13, <1>8, <3>2, <4>1, <4>2, Constants
    <3> QED BY <3>3, <3>4
  <2>3. CASE ib1 = cur
    <3>1. Reached = Base(ib1) + off[ib1]
      BY <1>3, <1>9, <2>3
    <3>2. CASE 1 <= bc
      BY <1>2, <1>13, <1>8, <3>1, <3>2
    <3>3. CASE ~ (1 <= bc)
      <4>1. bc = 0 /\ ib2 # 0
        BY <1>2, <3>3, Constants
      <4>2. Base(ib1) + BufferSize <= Base(ib2)
        BY <1>8, <4>1, Zenon
      <4> QED BY <1>13, <1>8, <3>1, <4>1, <4>2, Constants
    <3> QED BY <3>2, <3>3
  <2> QED BY <2>1, <2>2, <2>3
<1>17. p <= Reached' /\ Reached' \in Nat
  <2>1. Reached' \in Nat
    BY <1>2, <1>8, <1>15
  <2>2. CASE 1 <= bc /\ to = ib1
    BY <1>2, <1>13, <1>8, <1>15, <2>2
  <2>3. CASE 1 <= bc /\ to # ib1
    <3>1. to = ib2 /\ ib2 # 0
      BY <1>2, <1>11, <2>3
    <3>2. Base(ib1) + BufferSize <= Base(ib2) /\ off[ib1] + 1 <= BufferSize
      <4>1. Base(ib1) + BufferSize <= Base(ib2)
        BY <1>8, <3>1, Zenon
      <4>2. off[ib1] + 1 <= BufferSize
        BY <1>2, <1>3, <1>8, <2>3, Constants
      <4> QED BY <4>1, <4>2
    <3>3. p = Base(ib1) + off[ib1] + 1
      BY <1>13, <2>3, Zenon
    <3>4. p <= Base(ib1) + BufferSize /\ p \in Int
      BY <1>8, <3>2, <3>3, Constants
    <3>5. p <= Base(to)
      BY <1>8, <3>1, <3>2, <3>4, Constants
    <3>6. Base(to) <= Reached'
      BY <1>2, <1>8, <1>15
    <3> QED BY <1>8, <2>1, <3>4, <3>5, <3>6
  <2>4. CASE ~ (1 <= bc)
    <3>1. bc = 0 /\ to = ib2
      BY <1>2, <1>11, <2>4, Constants
    <3> QED BY <1>2, <1>13, <1>8, <1>15, <3>1
  <2> QED BY <2>1, <2>2, <2>3, <2>4
<1>18. RoomInv'
  <2>1. BehindInv'
    BY <1>14 DEF BehindInv
  <2>2. ASSUME NEW b \in DOMAIN off', off'[b] > BufferSize
        PROVE  b = cur' /\ ib1' \in {0, b}
    <3>1. b \in DOMAIN off /\ (b # to => off'[b] = off[b])
      BY <1>1, <2>2
    <3>2. b = to
      BY <1>3, <2>2, <3>1, Constants
    <3>3. ib1' = to
      <4>1. off[to] + size # BufferSize
        BY <1>12, <2>2, <3>2, Constants
      <4> QED BY <1>1, <4>1
    <3> QED BY <1>1, <3>2, <3>3
  <2> QED BY <2>1, <2>2 DEF RoomInv, OffsetInv
<1> QED BY <1>1, <1>7, <1>16, <1>17, <1>18

\* Steps that leave the buffers of the chain as they are.
LEMMA StillRoom ==
    ASSUME Types, RoomInv, UNCHANGED <<cur, chain>>, pc # "destroyed",
           ib1' = 0 \/ UNCHANGED <<ib1, stream>>,
           DOMAIN off \subseteq DOMAIN off',
           \A b \in DOMAIN off : off'[b] = off[b],
           \A b \in DOMAIN off' : b \in DOMAIN off \/ off'[b] = 0
    PROVE  RoomInv' /\ Reached <= Reached' /\ Reached' \in Nat
<1>1. OffsetInv /\ BehindInv
  BY DEF RoomInv
<1>2. OffsetInv'
  <2>1. ASSUME NEW b \in DOMAIN off', off'[b] > BufferSize
        PROVE  b = cur' /\ ib1' \in {0, b}
    <3>1. b \in DOMAIN off
      BY <2>1, Constants
    <3>2. b = cur /\ ib1 \in {0, b}
      BY <1>1, <2>1, <3>1 DEF OffsetInv
    <3> QED BY <3>2
  <2> QED BY <2>1 DEF OffsetInv
<1>3. cur \in chain \cup {0} /\ chain \subseteq DOMAIN off /\ ib1 \in chain \cup {0}
  BY DEF Types, BufOK
<1>4. BehindInv'
  <2>1. CASE ib1' = 0
    BY <2>1 DEF BehindInv
  <2>2. CASE UNCHANGED <<ib1, stream>> /\ ib1 # 0
    <3>1. NextOf(ib1)' = NextOf(ib1) /\ Bytes(ib1)' = Bytes(ib1) /\ off'[ib1] = off[ib1]
      BY <1>3, <2>2 DEF NextOf, Bytes
    <3> QED BY <1>1, <2>2, <3>1 DEF BehindInv
  <2> QED BY <2>1, <2>2
<1>5. cur # 0 => off'[cur] = off[cur] /\ Base(cur) \in Nat /\ off[cur] \in Nat
  BY <1>3, ReachedType
<1>6. Reached' = IF cur' = 0 THEN 0
               ELSE IF ib1' # 0 /\ ib1' < cur' THEN Base(cur') ELSE Base(cur') + off'[cur']
  BY DEF Reached, Base
<1>7. Reached = IF cur = 0 THEN 0
              ELSE IF ib1 # 0 /\ ib1 < cur THEN Base(cur) ELSE Base(cur) + off[cur]
  BY DEF Reached
<1> HIDE DEF Reached, Base
<1>8. Reached <= Reached' /\ Reached' \in Nat
  <2>1. CASE cur = 0
    BY <1>6, <1>7, <2>1
  <2>2. CASE cur # 0 /\ ib1' = 0
    <3>1. Reached' = Base(cur) + off[cur]
      BY <1>5, <1>6, <2>2, Zenon
    <3> QED BY <1>5, <1>7, <2>2, <3>1
  <2>3. CASE cur # 0 /\ ib1' = ib1
    <3>1. Reached' = Reached
      BY <1>5, <1>6, <1>7, <2>3, Zenon
    <3> QED BY <3>1, ReachedType
  <2> QED BY <2>1, <2>2, <2>3
<1> QED BY <1>2, <1>4, <1>8 DEF RoomInv

LEMMA ReceiveRoom ==
    ASSUME Types, RoomInv, NEW n \in 1..BufferSize, Receive(n)
    PROVE  RoomInv' /\ Reached <= Reached' /\ Reached' \in Nat /\ UNCHANGED <<queue, handled>>
<1>1. /\ pc = "idle" /\ UNCHANGED <<off, queue, handled>> /\ ContinueRead(n)
      /\ \/ UNCHANGED <<cur, chain, ib1>>
         \/ AppendBuffer /\ ib1' = cur'
  BY DEF Receive, bufVars, chainVars, packetVars
<1>2. ib1 = 0
  BY <1>1 DEF Types, LoopOK
<1>3. CASE UNCHANGED <<cur, chain, ib1>>
  BY <1>1, <1>2, <1>3, StillRoom
<1>4. CASE AppendBuffer /\ ib1' = cur'
  <2>1. cur' = IF cur = 0 THEN rbuf ELSE cur
    BY <1>4 DEF AppendBuffer
  <2>2. rbuf \in 1..Len(off) /\ off \in Seq(Nat) /\ chain \subseteq DOMAIN off /\ cur \in chain \cup {0}
    BY <1>1, Reads DEF Types, BufOK
  <2>3. OffsetInv'
    <3>1. ASSUME NEW b \in DOMAIN off, off[b] > BufferSize
          PROVE  b = cur' /\ ib1' \in {0, b}
      <4>1. b = cur /\ cur # 0
        BY <1>1, <2>2, <3>1 DEF RoomInv, OffsetInv
      <4> QED BY <1>4, <2>1, <4>1
    <3> QED BY <1>1, <3>1 DEF OffsetInv
  <2>4. cur' \in Nat \ {0} /\ off[cur'] \in Nat /\ cur' \in DOMAIN off
    BY <2>1, <2>2
  <2>5. BehindInv'
    BY <1>4, <2>4 DEF BehindInv
  <2>6. Reached' = Base(cur') + off[cur']
    BY <1>1, <1>4, <2>4 DEF Reached, Base
  <2>7. Reached = IF cur = 0 THEN 0 ELSE Base(cur) + off[cur]
    BY <1>2 DEF Reached
  <2>8. Base(cur') \in Nat
    BY <2>4, Bases
  <2> HIDE DEF Base, Reached
  <2>9. Reached <= Reached' /\ Reached' \in Nat
    <3>1. Reached' \in Nat
      BY <2>4, <2>6, <2>8
    <3>2. CASE cur = 0
      BY <2>7, <3>1, <3>2
    <3>3. CASE cur # 0
      <4>1. Reached' = Reached
        BY <2>1, <2>6, <2>7, <3>3, Zenon
      <4> QED BY <3>1, <4>1
    <3> QED BY <3>2, <3>3
  <2> QED BY <1>1, <2>3, <2>5, <2>9 DEF RoomInv
<1> QED BY <1>1, <1>3, <1>4

LEMMA BeginRoom ==
    ASSUME Types, RoomInv, BeginRead
    PROVE  RoomInv' /\ Reached <= Reached' /\ Reached' \in Nat
<1>1. /\ pc = "begin" /\ UNCHANGED <<cur, chain, ib1, stream>>
      /\ UNCHANGED off \/ off' = Append(off, 0)
  BY DEF BeginRead, bufVars, chainVars
<1>2. off \in Seq(Nat)
  BY DEF Types, BufOK
<1>3. CASE off' = Append(off, 0)
  <2>1. PICK l \in Nat : l = Len(off)
    BY <1>2
  <2>2. DOMAIN off = 1..l /\ DOMAIN off' = 1..(l + 1) /\ off'[l + 1] = 0 /\ \A b \in 1..l : off'[b] = off[b]
    BY <1>2, <1>3, <2>1
  <2>3. 1..l \subseteq 1..(l + 1) /\ \A b \in 1..(l + 1) : b \in 1..l \/ b = l + 1
    OBVIOUS
  <2>4. /\ DOMAIN off \subseteq DOMAIN off'
        /\ \A b \in DOMAIN off : off'[b] = off[b]
        /\ \A b \in DOMAIN off' : b \in DOMAIN off \/ off'[b] = 0
    BY <2>2, <2>3, Zenon
  <2> QED BY <1>1, <2>4, StillRoom
<1>4. CASE UNCHANGED off
  BY <1>1, <1>4, StillRoom
<1> QED BY <1>1, <1>3, <1>4

\* The front never goes back.
LEMMA StepRoom ==
    ASSUME Types, RoomInv, [Next]_vars
    PROVE  /\ RoomInv'
           /\ \/ AcceptPacket \/ pc' = "destroyed"
              \/ (Reached <= Reached' /\ Reached' \in Nat /\ pc # "destroyed")
<1>1. CASE pc = "destroyed"
  <2>1. pc' = "destroyed"
    BY <1>1 DEF Next, Server, vars, BeginRead, NoReadBuffer, Receive, LoopEnds, AcceptPacket, BadData,
           Decides, HandlePacket, PassDone, ReadFails, ReleaseHeld, DestroyPacketReader, PiSends,
           LoseWord
  <2> QED BY <2>1 DEF RoomInv
<1>2. CASE AcceptPacket
  BY <1>2, AcceptRoom
<1>3. CASE BadData
  <2>1. pc # "destroyed"
    BY <1>3 DEF BadData, Decides
  <2> QED BY <1>3, <2>1, BadDataRoom
<1>4. CASE \E n \in 1..BufferSize : Receive(n)
  <2>1. pc # "destroyed"
    BY <1>4 DEF Receive
  <2> QED BY <1>4, <2>1, ReceiveRoom
<1>5. CASE BeginRead
  <2>1. pc # "destroyed"
    BY <1>5 DEF BeginRead
  <2> QED BY <1>5, <2>1, BeginRoom
<1>6. CASE DestroyPacketReader
  BY <1>6 DEF DestroyPacketReader, RoomInv
<1>7. CASE /\ UNCHANGED <<cur, chain, off>> /\ (ib1' = 0 \/ UNCHANGED <<ib1, stream>>)
           /\ pc # "destroyed"
  BY <1>7, StillRoom
<1>8. pc # "destroyed" =>
        \/ AcceptPacket \/ BadData \/ (\E n \in 1..BufferSize : Receive(n)) \/ BeginRead
        \/ DestroyPacketReader
        \/ UNCHANGED <<cur, chain, off>> /\ (ib1' = 0 \/ UNCHANGED <<ib1, stream>>)
  BY DEF Next, Server, vars, readVars, chainVars, bufVars, NoReadBuffer, LoopEnds, HandlePacket,
         PassDone, ReadFails, ReleaseHeld, PiSends, LoseWord
<1> QED BY <1>1, <1>2, <1>3, <1>4, <1>5, <1>6, <1>7, <1>8

-----------------------------------------------------------------------------
(* Packets are accepted in the order in which they were sent.              *)

\* The packets accepted, as InSequence lists them.
SnsOf(q) == [i \in DOMAIN q |-> q[i].sn]
Sns == handled \o SnsOf(queue)

Ascending(s) == \A i, j \in DOMAIN s : i < j => s[i] < s[j]

\* What is yet to be looked at comes behind all that has been accepted.
ReachedInv ==
    pc # "destroyed" =>
        \A i \in 1..Len(Line) :
            i > Reached /\ Line[i].at = 1 => \A k \in DOMAIN Sns : Sns[k] < Line[i].pac

LEMMA SnsOK ==
    ASSUME Types
    PROVE  /\ handled \in Seq(Nat) /\ SnsOf(queue) \in Seq(Nat) /\ Len(SnsOf(queue)) = Len(queue)
           /\ Sns \in Seq(Nat)
           /\ \A k \in DOMAIN Sns : Sns[k] \in 1..Len(sent)
<1>1. PICK n \in Nat : n = Len(sent)
  BY Streams
<1>2. handled \in Seq(1..n) /\ queue \in Seq(Pack) /\ \A x \in Pack : x.sn \in 1..n
  BY <1>1 DEF Types, PackOK, Pack
<1> HIDE DEF Pack
<1>3. SnsOf(queue) \in Seq(1..n) /\ Len(SnsOf(queue)) = Len(queue)
  BY <1>2 DEF SnsOf
<1>4. handled \o SnsOf(queue) \in Seq(1..n)
  BY <1>2, <1>3, Joined
<1>5. 1..n \subseteq Nat
  BY <1>1
<1>6. Sns \in Seq(1..n)
  BY <1>4 DEF Sns
<1>7. Sns \in Seq(Nat) /\ handled \in Seq(Nat) /\ SnsOf(queue) \in Seq(Nat)
  BY <1>2, <1>3, <1>5, <1>6, Wider
<1>8. \A k \in DOMAIN Sns : Sns[k] \in 1..n
  BY <1>6
<1> QED BY <1>1, <1>3, <1>7, <1>8

LEMMA NumbersRegrouped ==
    ASSUME NEW f \in Seq(Nat), NEW g \in Seq(Nat), NEW h \in Seq(Nat)
    PROVE  (f \o g) \o h = f \o (g \o h)
<1>1. PICK S : S = Nat
  OBVIOUS
<1>2. f \in Seq(S) /\ g \in Seq(S) /\ h \in Seq(S)
  BY <1>1, Zenon
<1> QED BY ONLY <1>2, Regrouped, SMTT(20)

\* Handing a packet on takes it from the queue to the packets handled.
LEMMA HandledSns ==
    ASSUME Types, HandlePacket
    PROVE  Sns' = Sns
<1>1. queue \in Seq(Pack) /\ queue # <<>> /\ handled \in Seq(Nat) /\ \A x \in Pack : x.sn \in Nat
  <2>1. \A x \in Pack : x.sn \in Nat
    BY DEF Pack
  <2> QED BY <2>1, SnsOK DEF Types, PackOK, HandlePacket
<1>2. queue' = Tail(queue) /\ handled' = Append(handled, Head(queue).sn)
  BY DEF HandlePacket
<1> HIDE DEF Pack
<1>3. PICK t \in Seq(Pack), x \in Pack :
          /\ t = Tail(queue) /\ x = Head(queue) /\ Len(queue) = Len(t) + 1 /\ queue[1] = x
          /\ \A i \in 1..Len(t) : t[i] = queue[i + 1]
          /\ Len(t) \in Nat
  <2>1. /\ Head(queue) \in Pack /\ Tail(queue) \in Seq(Pack) /\ Len(Tail(queue)) = Len(queue) - 1
        /\ \A i \in 1..Len(Tail(queue)) : Tail(queue)[i] = queue[i + 1]
    BY <1>1, HeadTailProperties
  <2>2. Len(queue) \in Nat /\ Head(queue) = queue[1]
    BY <1>1
  <2>3. Len(queue) = Len(Tail(queue)) + 1 /\ Len(Tail(queue)) \in Nat
    BY <2>1, <2>2
  <2> QED BY <2>1, <2>2, <2>3, Zenon
<1>4. PICK n \in Nat : n = Len(t)
  BY <1>3
<1>5. x.sn \in Nat /\ SnsOf(t) \in Seq(Nat) /\ SnsOf(queue) \in Seq(Nat)
  BY <1>1, <1>3 DEF SnsOf
<1>6. /\ Len(SnsOf(t)) = n /\ Len(SnsOf(queue)) = n + 1
      /\ SnsOf(queue)[1] = x.sn
      /\ \A i \in 1..n : SnsOf(t)[i] = SnsOf(queue)[i + 1]
  <2>1. DOMAIN t = 1..n /\ DOMAIN queue = 1..(n + 1)
    BY <1>1, <1>3, <1>4
  <2>2. 1 \in 1..(n + 1) /\ \A i \in 1..n : i + 1 \in 1..(n + 1)
    BY <1>4
  <2>3. SnsOf(queue)[1] = x.sn /\ \A i \in 1..n : SnsOf(t)[i] = SnsOf(queue)[i + 1]
    BY <1>3, <1>4, <2>1, <2>2 DEF SnsOf
  <2>4. DOMAIN SnsOf(t) = 1..n /\ DOMAIN SnsOf(queue) = 1..(n + 1)
    BY <2>1 DEF SnsOf
  <2> HIDE DEF SnsOf
  <2> QED BY <1>4, <1>5, <2>3, <2>4
<1> HIDE DEF SnsOf
<1>7. PICK a \in Seq(Nat), b \in Seq(Nat), e \in Nat : a = SnsOf(queue) /\ b = SnsOf(t) /\ e = x.sn
  BY <1>5
<1>8. Len(b) = n /\ Len(a) = n + 1 /\ a[1] = e /\ \A i \in 1..n : b[i] = a[i + 1]
  BY <1>6, <1>7, Zenon
<1>9. a = <<e>> \o b
  <2>1. <<e>> \in Seq(Nat) /\ Len(<<e>>) = 1 /\ <<e>>[1] = e
    OBVIOUS
  <2>2. PICK c \in Seq(Nat) : c = <<e>> \o b
    BY <2>1, Joined
  <2>3. /\ Len(<<e>> \o b) = Len(<<e>>) + Len(b)
        /\ \A k \in 1..(Len(<<e>>) + Len(b)) : (<<e>> \o b)[k] = IF k <= Len(<<e>>) THEN <<e>>[k] ELSE b[k - Len(<<e>>)]
    BY <2>1, Joined
  <2>4. /\ Len(c) = 1 + n
        /\ \A k \in 1..(1 + n) : c[k] = IF k <= 1 THEN <<e>>[k] ELSE b[k - 1]
    BY <1>8, <2>1, <2>2, <2>3, Zenon
  <2>5. ASSUME NEW k \in 1..(n + 1)
        PROVE  c[k] = a[k]
    <3>1. CASE k = 1
      <4>1. 1 \in 1..(1 + n) /\ 1 <= 1
        BY <1>4
      <4> QED BY <1>8, <2>1, <2>4, <3>1, <4>1, Zenon
    <3>2. CASE k # 1
      <4>1. k \in 1..(1 + n) /\ ~ (k <= 1) /\ k - 1 \in 1..n /\ (k - 1) + 1 = k
        BY <1>4, <3>2
      <4>2. b[k - 1] = a[(k - 1) + 1]
        BY <1>8, <4>1, Zenon
      <4> QED BY <2>4, <4>1, <4>2, Zenon
    <3> QED BY <3>1, <3>2
  <2>6. Len(c) = Len(a) /\ \A k \in 1..Len(c) : c[k] = a[k]
    BY <1>4, <1>8, <2>4, <2>5
  <2> QED BY <2>2, <2>6, SeqEqual
<1>10. Append(handled, e) = handled \o <<e>>
  BY <1>1, AppendIsConcat
<1>11. (handled \o <<e>>) \o b = handled \o (<<e>> \o b)
  <2>1. <<e>> \in Seq(Nat)
    BY <1>1
  <2>2. handled \in Seq(Nat) /\ b \in Seq(Nat)
    BY <1>1, Zenon
  <2> QED BY ONLY <2>1, <2>2, NumbersRegrouped, Zenon
<1>12. Sns' = Append(handled, e) \o b
  BY <1>2, <1>3, <1>7 DEF Sns, SnsOf
<1>13. Sns = handled \o a
  BY <1>7 DEF Sns
<1> QED BY <1>9, <1>10, <1>11, <1>12, <1>13, Zenon

\* An accepted packet comes behind all others.
LEMMA AcceptedSns ==
    ASSUME Types, NEW x, x.sn \in Nat, queue' = Append(queue, x), UNCHANGED handled
    PROVE  Sns' = Append(Sns, x.sn)
<1>1. handled \in Seq(Nat) /\ SnsOf(queue) \in Seq(Nat) /\ queue \in Seq(Pack)
  BY SnsOK DEF Types, PackOK
<1>2. SnsOf(Append(queue, x)) = Append(SnsOf(queue), x.sn)
  BY <1>1 DEF SnsOf
<1>3. handled \o Append(SnsOf(queue), x.sn) = Append(handled \o SnsOf(queue), x.sn)
  <2>1. PICK b \in Seq(Nat), e \in Nat : b = SnsOf(queue) /\ e = x.sn
    BY <1>1
  <2>2. <<e>> \in Seq(Nat) /\ handled \o b \in Seq(Nat)
    BY <1>1, Joined
  <2>3. Append(b, e) = b \o <<e>>
    BY AppendIsConcat
  <2>4. Append(handled \o b, e) = (handled \o b) \o <<e>>
    BY <2>2, AppendIsConcat
  <2>5. (handled \o b) \o <<e>> = handled \o (b \o <<e>>)
    <3>1. b \in Seq(Nat) /\ <<e>> \in Seq(Nat) /\ handled \in Seq(Nat)
      BY <1>1, <2>2
    <3> QED BY ONLY <3>1, NumbersRegrouped, Zenon
  <2> QED BY <2>1, <2>3, <2>4, <2>5, Zenon
<1>4. Sns' = handled \o SnsOf(Append(queue, x))
  BY DEF Sns, SnsOf
<1> QED BY <1>2, <1>3, <1>4, Zenon DEF Sns

\* Where the words of the line were before a step.
LEMMA LineFrom ==
    ASSUME Types, [Next]_vars, NEW i \in 1..Len(Line')
    PROVE  \/ \E j \in 1..Len(Line) : j >= i /\ Line'[i] = Line[j]
           \/ Line'[i].pac = Len(sent) + 1
<1>1. CASE PiSends
  <2>1. PICK l \in Nat, m \in Nat : l = Len(Line) /\ m = Len(Line') /\ l <= m
    BY <1>1, SentLine
  <2>2. /\ \A k \in 1..l : Line'[k] = Line[k]
        /\ \A k \in (l + 1)..m : Line'[k].pac = Len(sent) + 1
    BY <1>1, <2>1, SentLine, Zenon
  <2>3. (i \in 1..l /\ i >= i) \/ i \in (l + 1)..m
    BY <2>1
  <2> QED BY <2>1, <2>2, <2>3, Zenon
<1>2. CASE LoseWord
  <2>1. /\ Len(Line) \in Nat /\ Len(Line') = Len(Line) - 1
        /\ Line'[i] = IF i <= Len(stream) THEN Line[i] ELSE Line[i + 1]
    BY <1>2, LostLine
  <2>2. i \in 1..Len(Line) /\ i + 1 \in 1..Len(Line) /\ i >= i /\ i + 1 >= i
    BY <2>1
  <2> QED BY <2>1, <2>2, Zenon
<1>3. CASE Line' = Line
  <2>1. i \in 1..Len(Line) /\ i >= i /\ Line'[i] = Line[i]
    BY <1>3
  <2> QED BY <2>1, Zenon
<1>4. (\E n \in 1..BufferSize : Receive(n)) => Line' = Line
  BY SameLine DEF Receive
<1>5. UNCHANGED <<stream, wire>> => Line' = Line
  BY DEF Line
<1>6. \/ PiSends \/ LoseWord \/ (\E n \in 1..BufferSize : Receive(n))
      \/ UNCHANGED <<stream, wire>>
  BY DEF Next, Server, vars, lineVars, readVars, BeginRead, NoReadBuffer, LoopEnds, AcceptPacket,
         BadData, HandlePacket, PassDone, ReadFails, ReleaseHeld, DestroyPacketReader
<1> QED BY <1>1, <1>2, <1>3, <1>4, <1>5, <1>6, Zenon

LEMMA SameSns == Types /\ [Next]_vars => AcceptPacket \/ Sns' = Sns
<1>1. UNCHANGED <<queue, handled>> => Sns' = Sns
  BY DEF Sns, SnsOf
<1>2. [Next]_vars => AcceptPacket \/ HandlePacket \/ UNCHANGED <<queue, handled>>
  BY DEF Next, Server, vars, packetVars, Receive, BeginRead, NoReadBuffer, LoopEnds, BadData,
         PassDone, ReadFails, ReleaseHeld, DestroyPacketReader, PiSends, LoseWord
<1> QED BY <1>1, <1>2, HandledSns

LEMMA StepReached ==
    ASSUME Types, LineInv, RoomInv, ReachedInv, Ascending(Sns), [Next]_vars
    PROVE  ReachedInv' /\ Ascending(Sns')
<1>1. CASE AcceptPacket
  <2>1. UNCHANGED <<pc, chain, stream, wire, handled>> /\ pc # "destroyed"
    BY <1>1, AcceptRoom DEF AcceptPacket, Decides
  <2>2. PICK p \in 1..Len(stream) :
             /\ p > Reached /\ p <= Reached' /\ Reached' \in Nat /\ stream[p].at = 1
             /\ \E x : x.sn = stream[p].pac /\ queue' = Append(queue, x)
    BY <1>1, AcceptRoom
  <2>3. Line' = Line
    BY <2>1 DEF Line
  <2>4. PICK l \in Nat : l = Len(Line) /\ p \in 1..l /\ Line[p] = stream[p]
    BY Lines
  <2>5. PICK e \in Nat : e = Line[p].pac
    BY <2>4, LineWords, Streams
  <2>6. PICK s \in Seq(Nat) : s = Sns
    BY SnsOK
  <2>7. Sns' = Append(s, e)
    <3>1. PICK x : x.sn = e /\ queue' = Append(queue, x)
      BY <2>2, <2>4, <2>5, Zenon
    <3> QED BY <2>1, <2>5, <2>6, <3>1, AcceptedSns
  <2>8. \A k \in DOMAIN s : s[k] < e
    BY <2>1, <2>2, <2>4, <2>5, <2>6, Zenon DEF ReachedInv
  <2>9. PICK n \in Nat : n = Len(s) /\ DOMAIN s = 1..n
    BY <2>6
  <2>10. /\ DOMAIN Append(s, e) = 1..(n + 1) /\ Append(s, e)[n + 1] = e
         /\ \A k \in 1..n : Append(s, e)[k] = s[k]
    BY <2>9
  <2>11. Ascending(Append(s, e))
    <3>1. ASSUME NEW i \in 1..(n + 1), NEW j \in 1..(n + 1), i < j
          PROVE  Append(s, e)[i] < Append(s, e)[j]
      <4>1. i \in 1..n
        BY <2>9, <3>1
      <4>2. CASE j = n + 1
        BY <2>8, <2>9, <2>10, <4>1, <4>2, Zenon
      <4>3. CASE j # n + 1
        <5>1. j \in 1..n
          BY <2>9, <4>3
        <5>2. s[i] < s[j]
          BY <2>6, <2>9, <3>1, <4>1, <5>1, Zenon DEF Ascending
        <5> QED BY <2>10, <4>1, <5>1, <5>2, Zenon
      <4> QED BY <4>2, <4>3
    <3> QED BY <2>10, <3>1, Zenon DEF Ascending
  <2>12. ASSUME NEW i \in 1..l, i > Reached', Line[i].at = 1, NEW k \in 1..(n + 1)
         PROVE  Append(s, e)[k] < Line[i].pac
    <3>1. p < i
      BY <2>2, <2>4, <2>12
    <3>2. e < Line[i].pac
      BY <2>2, <2>4, <2>5, <2>12, <3>1, Zenon DEF LineInv, Increasing
    <3>3. CASE k = n + 1
      BY <2>10, <3>2, <3>3, Zenon
    <3>4. CASE k # n + 1
      <4>1. k \in 1..n
        BY <2>9, <3>4
      <4>2. s[k] < e /\ Append(s, e)[k] = s[k]
        BY <2>8, <2>9, <2>10, <4>1, Zenon
      <4>3. s[k] \in Nat /\ Line[i].pac \in Nat
        <5>1. s[k] \in Nat
          BY <2>9, <4>1
        <5>2. Line[i].pac \in 1..Len(sent)
          BY <2>4, LineWords
        <5>3. Line[i].pac \in Nat
          BY <5>2, Streams
        <5> QED BY <5>1, <5>3
      <4> QED BY <3>2, <4>2, <4>3
    <3> QED BY <3>3, <3>4
  <2>13. ReachedInv'
    <3>1. \A i \in 1..Len(Line') : i > Reached' /\ Line'[i].at = 1 =>
              \A k \in DOMAIN Sns' : Sns'[k] < Line'[i].pac
      BY <2>3, <2>4, <2>7, <2>10, <2>12, Zenon
    <3> QED BY <3>1, Zenon DEF ReachedInv
  <2>14. Ascending(Sns')
    BY <2>7, <2>11, Zenon
  <2> QED BY <2>13, <2>14
<1>2. CASE ~ AcceptPacket
  <2>1. Sns' = Sns
    BY <1>2, SameSns
  <2>2. Ascending(Sns')
    BY <2>1, Zenon
  <2>3. ASSUME pc' # "destroyed", NEW i \in 1..Len(Line'), i > Reached', Line'[i].at = 1,
               NEW k \in DOMAIN Sns
        PROVE  Sns[k] < Line'[i].pac
    <3>1. Reached <= Reached' /\ Reached' \in Nat /\ Reached \in Nat /\ pc # "destroyed"
      BY <1>2, <2>3, StepRoom, ReachedType
    <3>2. CASE \E j \in 1..Len(Line) : j >= i /\ Line'[i] = Line[j]
      <4>1. PICK j \in 1..Len(Line) : j >= i /\ Line'[i] = Line[j]
        BY <3>2
      <4>2. j > Reached
        BY <2>3, <3>1, <4>1
      <4> QED BY <2>3, <3>1, <4>1, <4>2, Zenon DEF ReachedInv
    <3>3. CASE Line'[i].pac = Len(sent) + 1
      <4>1. Sns[k] \in 1..Len(sent)
        BY SnsOK
      <4> QED BY <3>3, <4>1, Streams
    <3> QED BY <3>2, <3>3, LineFrom
  <2>4. ReachedInv'
    <3>1. pc' # "destroyed" =>
             \A i \in 1..Len(Line') : i > Reached' /\ Line'[i].at = 1 =>
                 \A k \in DOMAIN Sns' : Sns'[k] < Line'[i].pac
      BY <2>1, <2>3, Zenon
    <3> QED BY <3>1, Zenon DEF ReachedInv
  <2> QED BY <2>2, <2>4
<1> QED BY <1>1, <1>2

ReaderInv == Types /\ LineInv /\ RoomInv /\ ReachedInv /\ Ascending(Sns)

LEMMA InitReader == Init => ReaderInv
<1> SUFFICES ASSUME Init
             PROVE  ReaderInv
  OBVIOUS
<1>1. Types
  BY InitTypes
<1>2. stream = <<>> /\ wire = <<>> /\ off = <<>> /\ ib1 = 0 /\ handled = <<>> /\ queue = <<>>
  BY DEF Init
<1>3. Line = <<>> /\ Sns = <<>>
  BY <1>2 DEF Line, Sns, SnsOf
<1>4. LineInv /\ ReachedInv /\ Ascending(Sns)
  BY <1>3 DEF LineInv, Increasing, ReachedInv, Ascending
<1>5. RoomInv
  BY <1>2 DEF RoomInv, OffsetInv, BehindInv
<1> QED BY <1>1, <1>4, <1>5 DEF ReaderInv

LEMMA StepReader == ReaderInv /\ [Next]_vars => ReaderInv'
<1> SUFFICES ASSUME ReaderInv, [Next]_vars
             PROVE  ReaderInv'
  OBVIOUS
<1>1. Types /\ LineInv /\ RoomInv /\ ReachedInv /\ Ascending(Sns)
  BY DEF ReaderInv
<1>2. Types' /\ LineInv' /\ RoomInv'
  BY <1>1, StepTypes, StepLine, StepRoom
<1>3. ReachedInv' /\ Ascending(Sns')
  BY <1>1, StepReached
<1>4. Ascending(Sns)'
  BY <1>3 DEF Ascending
<1> QED BY <1>2, <1>3, <1>4 DEF ReaderInv

\* Whatever words the line loses, and wherever packets meet the ends of buffers:
\* APB_ProcessBuffer cuts no packet out twice and none before one that was sent
\* earlier, so APB_HandlePacket gets packets in the order of the Pi
\* (server/packetreader.c, server/server.c).
THEOREM PacketsInSequence == Spec => []InSequence
<1>1. ReaderInv => InSequence
  BY DEF ReaderInv, Ascending, Sns, SnsOf, InSequence
<1> QED BY InitReader, StepReader, <1>1, PTL DEF Spec

-----------------------------------------------------------------------------
(* Packets missing in between are asked for.                               *)

LEMMA Division ==
    ASSUME NEW n \in Nat
    PROVE  /\ n \div IdMod \in Nat /\ n % IdMod \in 0..(IdMod - 1)
           /\ IdMod * (n \div IdMod) \in Nat
           /\ n = IdMod * (n \div IdMod) + (n % IdMod)
<1>1. IdMod \in Nat \ {0}
  BY Constants
<1>2. n \div IdMod \in Nat
  BY <1>1
<1>3. n % IdMod \in 0..(IdMod - 1)
  BY <1>1
<1>4. IdMod * (n \div IdMod) \in Nat
  BY <1>1, <1>2
<1>5. n = IdMod * (n \div IdMod) + (n % IdMod)
  BY <1>1
<1> QED BY <1>2, <1>3, <1>4, <1>5

LEMMA Remainder ==
    ASSUME NEW q \in Nat, NEW r \in 0..(IdMod - 1)
    PROVE  (IdMod * q + r) % IdMod = r
BY Constants

\* Between two numbers with the same quotient, ids lie between theirs.
LEMMA Between ==
    ASSUME NEW a \in Nat, NEW b \in Nat, a \div IdMod = b \div IdMod, NEW n \in (a + 1)..(b - 1)
    PROVE  n % IdMod \in ((a % IdMod) + 1)..((b % IdMod) - 1)
<1>1. PICK q \in Nat, ra \in 0..(IdMod - 1), rb \in 0..(IdMod - 1) :
          q = a \div IdMod /\ ra = a % IdMod /\ rb = b % IdMod
  BY Division
<1>2. PICK z \in Nat : z = IdMod * q
  BY Constants
<1>3. a = z + ra /\ b = z + rb
  <2>1. a = IdMod * (a \div IdMod) + (a % IdMod) /\ b = IdMod * (b \div IdMod) + (b % IdMod)
    BY Division
  <2>2. IdMod * (a \div IdMod) = z /\ IdMod * (b \div IdMod) = z
    BY <1>1, <1>2, Zenon
  <2>3. a = z + (a % IdMod)
    BY <2>1, <2>2, Zenon
  <2>4. b = z + (b % IdMod)
    BY <2>1, <2>2, Zenon
  <2> QED BY <1>1, <2>3, <2>4, Zenon
<1>4. PICK r \in Int : r = n - z
  <2>1. n - z \in Int
    BY <1>2
  <2> QED BY <2>1
<1>5. r \in (ra + 1)..(rb - 1) /\ r \in 0..(IdMod - 1) /\ n = z + r
  BY <1>1, <1>2, <1>3, <1>4, Constants
<1>6. (IdMod * q + r) % IdMod = r
  BY <1>5, Remainder
<1>7. n % IdMod = r
  BY <1>2, <1>5, <1>6, Zenon
<1> QED BY <1>1, <1>5, <1>7, Zenon

\* srv_LastInPackId is the id of the packet handled last.
LastOf(h) == IF h = <<>> THEN 0 ELSE h[Len(h)]

GapInv == lastIn = LastOf(handled) % IdMod /\ GapsAsked

\* Steps other than handling a packet.
LEMMA SameGaps ==
    ASSUME Types, GapInv, UNCHANGED <<handled, lastIn, asked>>, fails' = fails \/ fails' = fails + 1
    PROVE  GapInv'
<1>1. fails \in Nat
  BY DEF Types, MiscOK
<1>2. fails' > 0 \/ (fails' = fails)
  BY <1>1
<1>3. GapsAsked'
  <2>1. CASE fails' > 0
    BY <2>1 DEF GapsAsked
  <2>2. CASE fails' = fails
    BY <2>2 DEF GapInv, GapsAsked
  <2> QED BY <1>2, <2>1, <2>2
<1> QED BY <1>3 DEF GapInv, LastOf

LEMMA HandledGaps ==
    ASSUME Types, GapInv, HandlePacket
    PROVE  GapInv'
<1>1. handled \in Seq(Nat) /\ queue # <<>> /\ queue \in Seq(Pack) /\ fails \in Nat
  BY SnsOK DEF Types, PackOK, MiscOK, HandlePacket
<1>2. PICK sn \in Nat : sn = Head(queue).sn
  <2>1. \A x \in Pack : x.sn \in Nat
    BY DEF Pack
  <2>2. Head(queue) \in Pack
    <3> HIDE DEF Pack
    <3> QED BY <1>1
  <2> QED BY <2>1, <2>2
<1>3. handled' = Append(handled, sn) /\ AskForGap(sn % IdMod)
  BY <1>2 DEF HandlePacket
<1>4. PICK l \in Nat : l = Len(handled)
  BY <1>1
<1>5. /\ DOMAIN handled = 1..l /\ DOMAIN handled' = 1..(l + 1) /\ Len(handled') = l + 1
      /\ handled' # <<>> /\ handled'[l + 1] = sn /\ \A i \in 1..l : handled'[i] = handled[i]
  BY <1>1, <1>3, <1>4
<1>6. lastIn' = sn % IdMod
  BY <1>3 DEF AskForGap
<1>7. LastOf(handled') = sn
  BY <1>5 DEF LastOf
<1>8. CASE asked' = asked \cup (lastIn + 1)..((sn % IdMod) - 1) /\ UNCHANGED fails
  <2>1. ASSUME ~ (fails' > 0), NEW i \in 1..(l + 1), NEW before,
               before = (IF i = 1 THEN 0 ELSE handled'[i - 1]),
               before \div IdMod = handled'[i] \div IdMod,
               NEW n \in (before + 1)..(handled'[i] - 1)
        PROVE  n % IdMod \in asked'
    <3>1. CASE i = l + 1
      <4>1. before = LastOf(handled)
        <5>1. CASE l = 0
          <6>1. i = 1
            BY <1>4, <3>1, <5>1
          <6>2. handled = <<>>
            BY <1>1, <1>4, <5>1, EmptySeq
          <6> QED BY <2>1, <6>1, <6>2, Zenon DEF LastOf
        <5>2. CASE l # 0
          <6>1. i # 1 /\ i - 1 = l /\ l \in 1..l /\ handled # <<>>
            BY <1>1, <1>4, <3>1, <5>2
          <6> QED BY <1>4, <1>5, <2>1, <6>1, Zenon DEF LastOf
        <5> QED BY <5>1, <5>2
      <4>2. before \in Nat
        BY <1>1, <1>4, <4>1 DEF LastOf
      <4>3. handled'[i] = sn
        BY <1>5, <3>1, Zenon
      <4>4. n % IdMod \in ((before % IdMod) + 1)..((sn % IdMod) - 1)
        BY <2>1, <4>2, <4>3, Between
      <4>5. lastIn = before % IdMod
        BY <4>1, Zenon DEF GapInv
      <4> QED BY <1>8, <4>4, <4>5, Zenon
    <3>2. CASE i # l + 1
      <4>1. i \in 1..l /\ (i # 1 => i - 1 \in 1..l)
        BY <1>4, <3>2
      <4>2. handled'[i] = handled[i] /\ (i # 1 => handled'[i - 1] = handled[i - 1])
        BY <1>5, <4>1, Zenon
      <4>3. before = IF i = 1 THEN 0 ELSE handled[i - 1]
        BY <2>1, <4>2, Zenon
      <4>4. ~ (fails > 0) /\ GapsAsked
        BY <1>8, <2>1, Zenon DEF GapInv
      <4>5. n % IdMod \in asked
        BY <1>5, <2>1, <4>1, <4>2, <4>3, <4>4, Zenon DEF GapsAsked
      <4> QED BY <1>8, <4>5, Zenon
    <3> QED BY <3>1, <3>2
  <2>2. GapsAsked'
    BY <1>5, <2>1, Zenon DEF GapsAsked
  <2> QED BY <1>6, <1>7, <2>2, Zenon DEF GapInv, LastOf
<1>9. CASE fails' = fails + 1
  <2>1. fails' > 0
    BY <1>1, <1>9
  <2> QED BY <1>6, <1>7, <2>1, Zenon DEF GapInv, GapsAsked, LastOf
<1>10. \/ asked' = asked \cup (lastIn + 1)..((sn % IdMod) - 1) /\ UNCHANGED fails
       \/ fails' = fails + 1
  BY <1>3 DEF AskForGap
<1> QED BY <1>8, <1>9, <1>10

LEMMA StepGaps == Types /\ GapInv /\ [Next]_vars => GapInv'
<1>1. Types /\ [Next]_vars =>
         \/ HandlePacket
         \/ UNCHANGED <<handled, lastIn, asked>> /\ (fails' = fails \/ fails' = fails + 1)
  BY DEF Next, Server, vars, packetVars, Receive, BeginRead, NoReadBuffer, LoopEnds, AcceptPacket,
         BadData, PassDone, ReadFails, ReleaseHeld, DestroyPacketReader, PiSends, LoseWord
<1> QED BY <1>1, HandledGaps, SameGaps

\* Unless ids wrap in between or a request is given up, every packet missing in
\* front of one that is handed on has been asked for again, because
\* srv_LastInPackId is always the id of the packet handed on last
\* (APB_HandlePacket, server/server.c).
THEOREM GapsAreAsked == Spec => []GapsAsked
<1>1. Init => GapInv
  <2> SUFFICES ASSUME Init
               PROVE  GapInv
    OBVIOUS
  <2>1. handled = <<>> /\ lastIn = 0
    BY DEF Init
  <2>2. IdMod * 0 + 0 = 0 /\ 0 \in 0..(IdMod - 1)
    BY Constants
  <2>3. 0 % IdMod = 0
    BY <2>2, Remainder
  <2>4. GapsAsked
    BY <2>1 DEF GapsAsked
  <2> QED BY <2>1, <2>3, <2>4 DEF GapInv, LastOf
<1>2. GapInv => GapsAsked
  BY DEF GapInv
<1> QED BY AlwaysTypes, StepGaps, <1>1, <1>2, PTL DEF Spec

-----------------------------------------------------------------------------
(* When nothing is lost, refused or failed.                                *)

\* The last buffer of the chain, the place in the stream of the packet the loop
\* is at, and where that packet ends.
Top == IF rbuf \in chain \/ rbuf = 0 THEN rbuf ELSE rbuf - 1
Pos == IF cur = 0 THEN 0 ELSE Base(cur) + off[cur]
End == Pos + Header + sent[Line[Pos + 1].pac]

\* All words of a packet follow its first, and then another packet begins.
Whole ==
    /\ Len(Line) > 0 => Line[1].at = 1
    /\ \A i \in 1..Len(Line) : Line[i].at = 1 =>
         LET n == Header + sent[Line[i].pac]
         IN  /\ i + n - 1 <= Len(Line)
             /\ \A k \in 1..n : Line[i + k - 1] = [pac |-> Line[i].pac, at |-> k]
             /\ i + n <= Len(Line) => Line[i + n].at = 1

\* The chain has all buffers but one that is yet empty.
Chained ==
    /\ rbuf = Len(off) /\ chain = 1..Top /\ canRel = 1..(Top - 1)
    /\ rbuf = 0 => stream = <<>>
    /\ rbuf # 0 => Base(rbuf) <= Len(stream) /\ Len(stream) <= Base(rbuf) + BufferSize
    /\ rbuf # 0 => (Base(rbuf) < Len(stream) <=> rbuf \in chain)

\* The loop stands at the beginning of a packet, in pr_InBuf.  When it has ended
\* the packet is not there yet; while it runs a packet does not end in a buffer
\* that has another behind it.  Only a packet that is too long leaves the loop
\* behind by more than one buffer.
Stands ==
    /\ ib1 \in {0, cur} /\ pc # "destroyed"
    /\ Pos <= Len(stream) /\ (Pos < Len(Line) => Line[Pos + 1].at = 1)
    /\ \A b \in DOMAIN off : off[b] <= BufferSize /\ (b > cur => off[b] = 0)
    /\ ib1 # 0 /\ cur < Top => End > Base(cur + 1)
    /\ ib1 = 0 /\ Pos < Len(stream) => End > Len(stream) \/ End > Base(cur + 2)
    /\ cur # 0 /\ cur + 1 < Top => End > Base(cur + 2)

Clear == lost = 0 /\ fails = 0

Tidy == (lost = 0 => Whole) /\ (Clear => Chained /\ Stands)

LEMMA NextBase ==
    /\ Base(1) = 0
    /\ \A b \in Int : Base(b) \in Int /\ Base(b + 1) = Base(b) + BufferSize
    /\ \A b \in Int : Base(b + 2) = Base(b) + 2 * BufferSize
<1>1. Base(1) = 0
  BY Constants DEF Base
<1>2. ASSUME NEW b \in Int
      PROVE  /\ Base(b) \in Int /\ Base(b + 1) = Base(b) + BufferSize
             /\ Base(b + 2) = Base(b) + 2 * BufferSize
  <2>1. /\ (b - 1) * BufferSize \in Int
        /\ ((b + 1) - 1) * BufferSize = (b - 1) * BufferSize + BufferSize
        /\ ((b + 2) - 1) * BufferSize = (b - 1) * BufferSize + 2 * BufferSize
    BY Constants
  <2> QED BY <2>1 DEF Base
<1> QED BY <1>1, <1>2

\* The numbers behind Chained.
LEMMA Tops ==
    ASSUME Types, Chained
    PROVE  /\ Top \in Nat /\ Len(off) \in Nat /\ rbuf \in Nat /\ DOMAIN off = 1..rbuf
           /\ rbuf \in {Top, Top + 1} /\ (rbuf \in chain => rbuf = Top) /\ (Top = 0 => chain = {})
           /\ cur \in 0..Top /\ ib1 \in 0..Top
           /\ \A b \in 1..rbuf : off[b] \in Nat
           /\ Base(Top) < Len(stream) \/ Top = 0
           /\ Len(stream) <= Base(Top + 1)
           /\ \A b \in 1..Top : b < Top => Base(b + 1) < Len(stream)
<1>1. /\ off \in Seq(Nat) /\ rbuf \in 0..Len(off) /\ cur \in chain \cup {0} /\ ib1 \in chain \cup {0}
  BY DEF Types, BufOK
<1>2. Len(off) \in Nat /\ rbuf \in Nat /\ DOMAIN off = 1..rbuf /\ \A b \in 1..rbuf : off[b] \in Nat
  BY <1>1 DEF Chained
<1>3. Top \in Int /\ rbuf \in {Top, Top + 1} /\ (rbuf \in chain => rbuf = Top) /\ (rbuf = 0 => Top = 0)
  BY <1>2 DEF Top
<1>4. Top \in Nat
  BY <1>2, <1>3
<1>5. cur \in 0..Top /\ ib1 \in 0..Top /\ (Top = 0 => chain = {})
  BY <1>1, <1>4 DEF Chained
<1>6. Len(stream) \in Nat
  BY Streams
<1>7. /\ Base(Top) < Len(stream) \/ Top = 0
      /\ Len(stream) <= Base(Top + 1)
  <2>1. CASE rbuf = 0
    <3>1. Len(stream) = 0 /\ Top = 0
      BY <1>3, <2>1 DEF Chained
    <3> QED BY <3>1, NextBase
  <2>2. CASE rbuf # 0 /\ rbuf \in chain
    <3>1. Base(Top + 1) = Base(Top) + BufferSize
      BY <1>4, NextBase
    <3> QED BY <1>3, <2>2, <3>1 DEF Chained
  <2>3. CASE rbuf # 0 /\ rbuf \notin chain
    <3>1. rbuf = Top + 1
      BY <1>2, <2>3 DEF Top
    <3>2. Base(rbuf) = Len(stream)
      <4>1. /\ Base(rbuf) <= Len(stream)
            /\ ~ (Base(rbuf) < Len(stream))
        BY <2>3 DEF Chained
      <4>2. Base(rbuf) \in Int
        BY <1>2, NextBase
      <4> QED BY <1>6, <4>1, <4>2
    <3>3. Base(Top + 1) = Base(Top) + BufferSize /\ Base(Top) \in Int
      BY <1>4, NextBase
    <3> QED BY <1>6, <3>1, <3>2, <3>3, Constants
  <2> QED BY <2>1, <2>2, <2>3
<1>8. ASSUME NEW b \in 1..Top, b < Top
      PROVE  Base(b + 1) < Len(stream)
  <2>1. b + 1 \in Nat \ {0} /\ b + 1 <= Top
    BY <1>4, <1>8
  <2>2. CASE b + 1 = Top
    BY <1>7, <1>8, <2>2
  <2>3. CASE b + 1 # Top
    <3>1. Top > b + 1
      BY <1>4, <2>1, <2>3
    <3>2. Base(b + 1) + BufferSize <= Base(Top) /\ Base(b + 1) \in Nat /\ Base(Top) \in Nat
      BY <1>4, <2>1, <3>1, Bases
    <3> QED BY <1>6, <1>7, <1>8, <3>2, Constants
  <2> QED BY <2>2, <2>3
<1> QED BY <1>2, <1>3, <1>4, <1>5, <1>7, <1>8

\* The buffers of the chain follow each other.
LEMMA NextInChain ==
    ASSUME Types, Chained, NEW b \in 1..Top
    PROVE  NextOf(b) = IF b < Top THEN b + 1 ELSE 0
<1> DEFINE after == {c \in chain : c > b}
<1>1. Top \in Nat /\ chain = 1..Top
  BY Tops DEF Chained
<1>2. CASE b < Top
  <2>1. b + 1 \in after /\ after \subseteq Nat /\ \A c \in after : b + 1 <= c
    BY <1>1, <1>2
  <2>2. Min(after) \in after
    BY <2>1, Minimum
  <2>3. after # {}
    BY <2>1
  <2>4. Min(after) = CHOOSE x \in after : \A y \in after : x <= y
    BY DEF Min
  <2>5. \E x \in after : \A y \in after : x <= y
    BY <2>1
  <2>6. \A y \in after : Min(after) <= y
    BY <2>4, <2>5
  <2>7. Min(after) = b + 1
    BY <2>1, <2>2, <2>6
  <2> QED BY <1>2, <2>3, <2>7 DEF NextOf
<1>3. CASE ~ (b < Top)
  <2>1. after = {}
    BY <1>1, <1>3
  <2> QED BY <1>3, <2>1 DEF NextOf
<1> QED BY <1>2, <1>3

LEMMA BytesIn ==
    ASSUME Types, Chained, NEW b \in 1..rbuf
    PROVE  /\ Bytes(b) \in 0..BufferSize
           /\ b < Top => Bytes(b) = BufferSize
           /\ b >= Top => Bytes(b) = Len(stream) - Base(b)
           /\ Base(b) + Bytes(b) <= Len(stream)
<1>1. Len(stream) \in Nat
  BY Streams
<1>2. /\ Top \in Nat /\ rbuf \in Nat /\ rbuf \in {Top, Top + 1} /\ b \in Int /\ b >= 1 /\ b <= rbuf
      /\ \A c \in 1..Top : c < Top => Base(c + 1) < Len(stream)
      /\ Base(Top) < Len(stream) \/ Top = 0
      /\ Len(stream) <= Base(Top + 1)
  BY Tops
<1>3. /\ Base(b) \in Int /\ Base(b + 1) = Base(b) + BufferSize /\ Base(Top) \in Int
      /\ Base(Top + 1) = Base(Top) + BufferSize
  <2>1. b \in Int /\ Top \in Int
    BY <1>2
  <2> QED BY ONLY <2>1, NextBase
<1>4. PICK n \in Int : n = Len(stream) - Base(b)
  BY <1>1, <1>3
<1>5. Bytes(b) = Least(BufferSize, n)
  BY <1>4, Zenon DEF Bytes, Base
<1>6. Bytes(b) = IF BufferSize <= n THEN BufferSize ELSE n
  BY <1>5 DEF Least
<1>7. CASE b < Top
  <2>1. Base(b + 1) < Len(stream)
    BY <1>2, <1>7
  <2> QED BY <1>1, <1>2, <1>3, <1>4, <1>6, <1>7, <2>1, Constants
<1>8. CASE ~ (b < Top)
  <2>1. CASE b = Top
    <3>1. Base(Top) < Len(stream) /\ Base(b) = Base(Top)
      BY <1>2, <2>1
    <3>2. n \in 0..BufferSize
      BY <1>1, <1>2, <1>3, <1>4, <3>1, Constants
    <3>3. Bytes(b) = n
      BY <1>6, <3>2, Constants
    <3> QED BY <1>1, <1>2, <1>3, <1>4, <2>1, <3>2, <3>3
  <2>2. CASE b # Top
    <3>1. b = Top + 1 /\ rbuf = Top + 1 /\ rbuf # 0 /\ b = rbuf
      BY <1>2, <1>8, <2>2
    <3>2. Base(rbuf) <= Len(stream)
      BY <3>1 DEF Chained
    <3>3. Len(stream) = Base(b)
      BY <1>1, <1>2, <1>3, <3>1, <3>2
    <3> QED BY <1>1, <1>2, <1>3, <1>4, <1>6, <3>1, <3>3, Constants
  <2> QED BY <1>2, <2>1, <2>2
<1> QED BY <1>7, <1>8

\* The packet at Pos.
LEMMA AtPos ==
    ASSUME Types, Whole, Stands, Chained, Pos < Len(Line)
    PROVE  \E x \in 1..Len(sent), n \in Nat :
              /\ n = Header + sent[x] /\ n >= Header /\ sent[x] \in Lengths /\ End = Pos + n
              /\ Line[Pos + 1].pac = x
              /\ End <= Len(Line)
              /\ \A k \in 1..n : Line[Pos + k] = [pac |-> x, at |-> k]
              /\ End < Len(Line) => Line[End + 1].at = 1
<1>1. /\ Len(stream) \in Nat /\ Len(wire) \in Nat /\ Len(Line) = Len(stream) + Len(wire)
      /\ sent \in Seq(Lengths) /\ Len(sent) \in Nat
  BY Streams, Lines DEF Types, LineOK
<1>2. Pos \in Nat
  <2>1. CASE cur = 0
    BY <2>1 DEF Pos
  <2>2. CASE cur # 0
    <3>1. cur \in 1..Top /\ Top \in Nat /\ off[cur] \in Nat
      BY <2>2, Tops
    <3>2. Base(cur) \in Nat
      BY <3>1, Bases
    <3> QED BY <2>2, <3>1, <3>2 DEF Pos
  <2> QED BY <2>1, <2>2
<1> DEFINE i == Pos + 1
           x == Line[i].pac
           n == Header + sent[x]
<1>3. i \in 1..Len(Line) /\ Line[i].at = 1
  BY <1>1, <1>2 DEF Stands
<1>4. x \in 1..Len(sent)
  BY <1>3, LineWords
<1>5. sent[x] \in Lengths /\ n \in Nat /\ n >= Header
  <2>1. sent[x] \in Lengths
    <3> HIDE DEF x
    <3> QED BY <1>1, <1>4
  <2>2. PICK len \in Nat : len = sent[x]
    BY <2>1, Constants, Zenon
  <2>3. n = Header + len
    BY <2>2
  <2>4. Header + len \in Nat /\ Header + len >= Header
    BY Constants
  <2> QED BY <2>1, <2>3, <2>4, Zenon
<1>6. /\ i + n - 1 <= Len(Line)
      /\ \A k \in 1..n : Line[i + k - 1] = [pac |-> x, at |-> k]
      /\ i + n <= Len(Line) => Line[i + n].at = 1
  BY <1>3 DEF Whole
<1>7. End = Pos + n
  BY <1>2, <1>5, Constants DEF End
<1> HIDE DEF n, x
<1>8. \A k \in 1..n : i + k - 1 = Pos + k
  BY <1>2
<1>9. i + n = End + 1 /\ i + n - 1 = End
  BY <1>2, <1>5, <1>7
<1>10. \A k \in 1..n : Line[Pos + k] = [pac |-> x, at |-> k]
  BY <1>6, <1>8
<1>11. End < Len(Line) => Line[End + 1].at = 1
  BY <1>1, <1>2, <1>5, <1>6, <1>7, <1>9
<1> QED BY <1>4, <1>5, <1>6, <1>7, <1>9, <1>10, <1>11 DEF n, x

\* What the loop looks at are the words from Pos on.
LEMMA AheadIs ==
    ASSUME Types, Chained, Stands, ib1 # 0
    PROVE  /\ ib1 = cur /\ cur \in 1..Top /\ Pos = Base(cur) + off[cur] /\ Pos \in Nat
           /\ bc \in Nat /\ off[ib1] \in Nat /\ off[ib1] + bc = Bytes(ib1)
           /\ ib2 = IF cur < Top THEN cur + 1 ELSE 0
           /\ cur < Top => off[ib1] + bc = BufferSize
           /\ Len(Ahead) = IF cur < Top THEN bc + Bytes(cur + 1) ELSE bc
           /\ Len(Ahead) \in Nat /\ Pos + Len(Ahead) <= Len(stream)
           /\ Ahead \in Seq(Word)
           /\ \A k \in 1..Len(Ahead) : Ahead[k] = Line[Pos + k]
<1>1. /\ ib1 = cur /\ cur \in 1..Top /\ Top \in Nat /\ rbuf \in Nat /\ cur \in 1..rbuf /\ DOMAIN off = 1..rbuf
      /\ off[cur] \in Nat /\ chain = 1..Top /\ rbuf \in {Top, Top + 1}
  <2>1. ib1 = cur /\ chain = 1..Top
    BY DEF Stands, Chained
  <2> QED BY <2>1, Tops
<1>2. Pos = Base(cur) + off[cur] /\ cur # 0
  BY <1>1 DEF Pos
<1>3. stream \in Seq(Word) /\ Len(stream) \in Nat /\ Base(cur) \in Nat /\ Base(cur + 1) = Base(cur) + BufferSize
  <2>1. Base(cur) \in Nat
    BY <1>1, Bases
  <2>2. cur \in Int
    BY <1>1
  <2> QED BY <2>1, <2>2, Streams, NextBase
<1>4. /\ Bytes(cur) \in 0..BufferSize /\ (cur < Top => Bytes(cur) = BufferSize)
      /\ (cur >= Top => Bytes(cur) = Len(stream) - Base(cur))
      /\ Base(cur) + Bytes(cur) <= Len(stream)
  BY <1>1, BytesIn
<1>5. off[cur] <= Bytes(cur)
  <2>1. off[cur] <= BufferSize /\ Pos <= Len(stream)
    BY <1>1 DEF Stands
  <2> QED BY <1>1, <1>2, <1>3, <1>4, <2>1
<1>6. bc = Bytes(cur) - off[cur]
  BY <1>1 DEF bc
<1>7. bc \in Nat /\ off[cur] + bc = Bytes(cur)
  BY <1>1, <1>4, <1>5, <1>6, Constants
<1>8. ib2 = IF cur < Top THEN cur + 1 ELSE 0
  <2>1. NextOf(cur) = IF cur < Top THEN cur + 1 ELSE 0
    BY <1>1, NextInChain
  <2> QED BY <1>1, <1>2, <1>4, <2>1 DEF ib2, Full
<1>9. cur < Top => /\ cur + 1 \in 1..rbuf /\ cur + 1 \in Nat \ {0}
                   /\ Bytes(cur + 1) \in 0..BufferSize
                   /\ Base(cur + 1) + Bytes(cur + 1) <= Len(stream)
  <2>1. cur < Top => cur + 1 \in 1..rbuf /\ cur + 1 \in Nat \ {0}
    BY <1>1
  <2> QED BY <2>1, BytesIn
<1> DEFINE d == Data(cur)
           e == Data(cur + 1)
           m == off[cur]
<1>10. d \in Seq(Word) /\ Len(d) = Bytes(cur)
  <2>1. cur \in Nat \ {0}
    BY <1>1
  <2>2. d \in Seq(Word) /\ Len(d) = IF Bytes(cur) > 0 THEN Bytes(cur) ELSE 0
    BY <1>3, <2>1, DataWords
  <2> QED BY <1>4, <2>2
<1>11. cur < Top => e \in Seq(Word) /\ Len(e) = Bytes(cur + 1)
  <2>1. ASSUME cur < Top
        PROVE  e \in Seq(Word) /\ Len(e) = IF Bytes(cur + 1) > 0 THEN Bytes(cur + 1) ELSE 0
    BY <1>3, <1>9, <2>1, DataWords
  <2> QED BY <1>9, <2>1
<1>12. Ahead = SubSeq(d, m + 1, Len(d)) \o (IF cur < Top THEN e ELSE <<>>)
  <2>1. d = Data(ib1) /\ m = off[ib1] /\ Bytes(ib1) = Len(d)
    BY <1>1, <1>10, Zenon
  <2>2. (Data(ib2) = e /\ ib2 # 0) \/ (~ (cur < Top) /\ ib2 = 0)
    <3>1. cur + 1 # 0
      BY <1>1
    <3> QED BY <1>8, <3>1, Zenon
  <2>3. Ahead = SubSeq(d, m + 1, Len(d)) \o (IF ib2 # 0 THEN Data(ib2) ELSE <<>>)
    BY <2>1, Zenon DEF Ahead
  <2>4. ib2 # 0 <=> cur < Top
    BY <1>1, <1>8
  <2> HIDE DEF d, e, m
  <2> QED BY <2>2, <2>3, <2>4, Zenon
<1> HIDE DEF d, e, m, Word
<1>13. PICK a \in Seq(Word) : a = SubSeq(d, m + 1, Len(d)) /\ Len(a) = bc
  <2>1. m \in Nat /\ m <= Len(d) /\ Len(d) - m = bc
    BY <1>1, <1>5, <1>6, <1>10 DEF m
  <2> QED BY <1>10, <2>1, Rest
<1>14. PICK b \in Seq(Word) : b = IF cur < Top THEN e ELSE <<>>
  <2>1. <<>> \in Seq(Word)
    OBVIOUS
  <2> QED BY <1>11, <2>1, Zenon
<1>15. Len(b) = IF cur < Top THEN Bytes(cur + 1) ELSE 0
  BY <1>11, <1>14
<1>16. Ahead \in Seq(Word) /\ Len(Ahead) = Len(a) + Len(b)
  <2>1. Ahead = a \o b
    BY <1>12, <1>13, <1>14
  <2> QED BY <2>1, Joined
<1>17. Len(Ahead) = IF cur < Top THEN bc + Bytes(cur + 1) ELSE bc
  BY <1>7, <1>9, <1>13, <1>15, <1>16
<1>18. Len(Ahead) \in Nat /\ Pos + Len(Ahead) <= Len(stream)
  <2>1. CASE cur < Top
    <3>1. /\ BufferSize \in Nat /\ Base(cur) \in Nat /\ off[cur] \in Nat /\ bc \in Nat /\ Len(stream) \in Nat
          /\ Bytes(cur + 1) \in Nat /\ Base(cur) + BufferSize + Bytes(cur + 1) <= Len(stream)
          /\ off[cur] + bc = BufferSize
      BY <1>1, <1>3, <1>4, <1>7, <1>9, <2>1, Constants
    <3>2. /\ bc + Bytes(cur + 1) \in Nat
          /\ Base(cur) + off[cur] + (bc + Bytes(cur + 1)) <= Len(stream)
      <4>1. bc + Bytes(cur + 1) \in Nat
        BY ONLY <3>1, SMTT(20)
      <4>2. Base(cur) + off[cur] + (bc + Bytes(cur + 1)) = Base(cur) + BufferSize + Bytes(cur + 1)
        BY ONLY <3>1, SMTT(20)
      <4> QED BY <3>1, <4>1, <4>2, Zenon
    <3> QED BY <1>2, <1>17, <2>1, <3>2
  <2>2. CASE ~ (cur < Top)
    <3>1. /\ Base(cur) \in Nat /\ off[cur] \in Nat /\ bc \in Nat /\ Len(stream) \in Nat /\ Bytes(cur) \in Nat
          /\ off[cur] + bc = Bytes(cur) /\ Base(cur) + Bytes(cur) <= Len(stream)
      BY <1>1, <1>3, <1>4, <1>7
    <3>2. Base(cur) + off[cur] + bc <= Len(stream)
      BY ONLY <3>1
    <3> QED BY <1>2, <1>7, <1>17, <2>2, <3>2
  <2> QED BY <2>1, <2>2
<1>19. ASSUME NEW k \in 1..Len(Ahead)
       PROVE  Ahead[k] = Line[Pos + k]
  <2>1. \E p \in 1..Len(stream) :
           /\ Ahead[k] = stream[p]
           /\ p = IF k <= bc THEN Base(ib1) + off[ib1] + k ELSE Base(ib2) + k - bc
    <3>1. chain \subseteq Nat \ {0} /\ ib1 \in chain /\ off[ib1] \in Nat /\ off[ib1] <= Bytes(ib1)
      BY <1>1, <1>5
    <3> QED BY <1>3, <3>1, AheadWords
  <2>2. PICK p \in 1..Len(stream) :
           /\ Ahead[k] = stream[p]
           /\ p = IF k <= bc THEN Base(cur) + off[cur] + k ELSE Base(ib2) + k - bc
    BY <1>1, <2>1
  <2>3. p = Pos + k
    <3>1. k \in Nat
      BY <1>18
    <3>2. CASE k <= bc
      BY <1>2, <2>2, <3>2
    <3>3. CASE ~ (k <= bc)
      <4>1. cur < Top
        BY <1>7, <1>17, <1>18, <3>1, <3>3
      <4>2. p = Base(cur) + BufferSize + k - bc
        BY <1>3, <1>8, <2>2, <3>3, <4>1
      <4>3. /\ BufferSize \in Nat /\ Base(cur) \in Nat /\ off[cur] \in Nat /\ bc \in Nat /\ k \in Nat
            /\ off[cur] + bc = BufferSize
        BY <1>1, <1>3, <1>4, <1>7, <3>1, <4>1, Constants
      <4>4. Base(cur) + BufferSize + k - bc = Base(cur) + off[cur] + k
        BY ONLY <4>3, SMTT(20)
      <4> QED BY <1>2, <4>2, <4>4
    <3> QED BY <3>2, <3>3
  <2> QED BY <2>2, <2>3, Lines
<1>20. cur < Top => off[cur] + bc = BufferSize
  BY <1>4, <1>7
<1>21. off[ib1] \in Nat /\ off[ib1] + bc = Bytes(ib1) /\ (cur < Top => off[ib1] + bc = BufferSize)
  BY <1>1, <1>7, <1>20
<1>22. Pos \in Nat
  BY <1>1, <1>2, <1>3
<1> QED BY <1>1, <1>2, <1>7, <1>8, <1>16, <1>17, <1>18, <1>19, <1>21, <1>22, Zenon

\* A header that has been read is that of the packet at Pos.
LEMMA Announced ==
    ASSUME Types, Whole, Chained, Stands, ib1 # 0, HeaderRead
    PROVE  /\ Pos < Len(stream) /\ HeaderOk
           /\ \E x \in 1..Len(sent), n \in Nat :
                 /\ n = Header + sent[x] /\ n >= Header /\ sent[x] \in Lengths /\ End = Pos + n
                 /\ End <= Len(Line)
                 /\ \A k \in 1..n : Line[Pos + k] = [pac |-> x, at |-> k]
                 /\ End < Len(Line) => Line[End + 1].at = 1
                 /\ Ahead[1].pac = x /\ Size = n
<1>1. Len(Ahead) >= Header
  BY DEF HeaderRead
<1>2. /\ Pos \in Nat /\ Len(Ahead) \in Nat /\ Pos + Len(Ahead) <= Len(stream)
      /\ \A k \in 1..Len(Ahead) : Ahead[k] = Line[Pos + k]
  BY AheadIs
<1>3. Len(stream) \in Nat /\ Len(wire) \in Nat /\ Len(Line) = Len(stream) + Len(wire)
  BY Streams, Lines
<1>4. Pos < Len(stream) /\ Pos < Len(Line)
  BY <1>1, <1>2, <1>3, Constants
<1>5. PICK x \in 1..Len(sent), n \in Nat :
              /\ n = Header + sent[x] /\ n >= Header /\ sent[x] \in Lengths /\ End = Pos + n
              /\ Line[Pos + 1].pac = x
              /\ End <= Len(Line)
              /\ \A k \in 1..n : Line[Pos + k] = [pac |-> x, at |-> k]
              /\ End < Len(Line) => Line[End + 1].at = 1
  BY <1>4, AtPos
<1>6. Ahead[1] = [pac |-> x, at |-> 1] /\ Ahead[2] = [pac |-> x, at |-> 2]
  <2>1. 1 \in 1..n /\ 2 \in 1..n /\ 1 \in 1..Len(Ahead) /\ 2 \in 1..Len(Ahead)
    <3>1. n \in Nat /\ n >= Header /\ Header \in Nat /\ Header >= 2
      BY <1>5, Constants
    <3>2. Len(Ahead) \in Nat /\ Len(Ahead) >= Header
      BY <1>1, <1>2
    <3>3. n >= 2 /\ Len(Ahead) >= 2
      BY ONLY <3>1, <3>2
    <3> QED BY ONLY <3>1, <3>2, <3>3
  <2>2. Ahead[1] = Line[Pos + 1] /\ Ahead[2] = Line[Pos + 2]
    BY <1>2, <2>1
  <2> QED BY <1>5, <2>1, <2>2
<1>7. Length(Ahead[2]) = sent[x] /\ sent[x] \in Nat /\ sent[x] <= BufferSize
  <2>1. sent[x] \in Nat /\ sent[x] <= BufferSize
    <3>1. sent[x] \in 0..BufferSize /\ BufferSize \in Nat
      BY <1>5, PacketReaderAssumption, Zenon
    <3> QED BY ONLY <3>1
  <2> QED BY <1>6, <2>1 DEF Length
<1>8. HeaderOk
  BY <1>6, <1>7 DEF HeaderOk
<1>9. Size = n
  BY <1>5, <1>7 DEF Size
<1>10. Ahead[1].pac = x
  BY <1>6
<1> QED BY <1>4, <1>5, <1>8, <1>9, <1>10

\* An iteration that decides takes a packet.
LEMMA Deciding ==
    ASSUME Types, Whole, Chained, Stands, Decides
    PROVE  /\ HeaderOk /\ ChecksumOk
           /\ Pos < Len(stream) /\ End = Pos + Size /\ End <= Len(stream)
           /\ Size \in Nat /\ Size >= Header
           /\ End < Len(Line) => Line[End + 1].at = 1
           /\ Splits <=> cur < Top
           /\ cur < Top => /\ Top = cur + 1 /\ ib2 = Top
                           /\ Size - bc \in 1..BufferSize
                           /\ Base(Top) + (Size - bc) = End
           /\ cur = Top => off[cur] + Size <= BufferSize /\ Base(Top) + (off[cur] + Size) = End
<1>1. ib1 # 0 /\ Len(Ahead) >= Header /\ (HeaderOk => Complete)
  BY DEF Decides, HeaderRead
<1>2. /\ ib1 = cur /\ cur \in 1..Top /\ Pos = Base(cur) + off[cur] /\ Pos \in Nat
      /\ bc \in Nat /\ off[cur] \in Nat /\ off[cur] + bc = Bytes(cur)
      /\ ib2 = IF cur < Top THEN cur + 1 ELSE 0
      /\ cur < Top => off[cur] + bc = BufferSize
      /\ Len(Ahead) = IF cur < Top THEN bc + Bytes(cur + 1) ELSE bc
      /\ Len(Ahead) \in Nat /\ Pos + Len(Ahead) <= Len(stream)
      /\ Ahead \in Seq(Word)
      /\ \A k \in 1..Len(Ahead) : Ahead[k] = Line[Pos + k]
  BY <1>1, AheadIs
<1>3. Len(stream) \in Nat /\ Len(sent) \in Nat /\ Top \in Nat /\ rbuf \in Nat /\ rbuf >= Top
  BY Streams, Tops
<1>4. Pos < Len(stream) /\ HeaderOk
  BY <1>1, Announced DEF HeaderRead
<1>5. PICK x \in 1..Len(sent), n \in Nat :
              /\ n = Header + sent[x] /\ n >= Header /\ sent[x] \in Lengths /\ End = Pos + n
              /\ End <= Len(Line)
              /\ \A k \in 1..n : Line[Pos + k] = [pac |-> x, at |-> k]
              /\ End < Len(Line) => Line[End + 1].at = 1
              /\ Ahead[1].pac = x /\ Size = n
  BY <1>1, Announced DEF HeaderRead
<1>8. HeaderOk
  BY <1>4
<1>9. Size = n
  BY <1>5
<1>10. cur < Top => cur + 1 \in 1..rbuf /\ Bytes(cur + 1) \in 0..BufferSize
  <2>1. cur < Top => cur + 1 \in 1..rbuf
    BY <1>2, <1>3
  <2> QED BY <2>1, BytesIn
<1>11. n <= Len(Ahead) /\ (Splits => cur < Top /\ n - bc <= BufferSize)
  <2>1. CASE Splits
    <3>1. ib2 # 0 /\ Bytes(ib2) >= Size - bc
      BY <1>1, <1>8, <2>1 DEF Complete
    <3>2. cur < Top /\ ib2 = cur + 1
      BY <1>2, <3>1
    <3>3. /\ bc \in Nat /\ n \in Nat /\ Bytes(cur + 1) \in Nat /\ BufferSize \in Nat
          /\ Bytes(cur + 1) >= n - bc /\ Bytes(cur + 1) <= BufferSize
          /\ Len(Ahead) = bc + Bytes(cur + 1)
      BY <1>2, <1>9, <1>10, <3>1, <3>2, Constants
    <3>4. n <= Len(Ahead) /\ n - bc <= BufferSize
      BY ONLY <3>3
    <3> QED BY <3>2, <3>4
  <2>2. CASE ~ Splits
    <3>1. ~ (bc < n)
      BY <1>9, <2>2 DEF Splits
    <3>2. bc <= Len(Ahead)
      BY <1>2, <1>10, Constants
    <3> QED BY <1>2, <1>5, <2>2, <3>1, <3>2
  <2> QED BY <2>1, <2>2
<1>12. Base(cur + 1) = Base(cur) + BufferSize /\ Base(cur) \in Int /\ Base(cur + 2) = Base(cur) + 2 * BufferSize
  <2>1. cur \in Int
    BY <1>2
  <2> QED BY <2>1, NextBase
<1>13. ASSUME cur < Top
       PROVE  Splits /\ bc < n
  <2>1. End > Base(cur + 1)
    BY <1>1, <1>13 DEF Stands
  <2>2. bc < n
    <3>1. /\ BufferSize \in Nat /\ Base(cur) \in Int /\ off[cur] \in Nat /\ bc \in Nat /\ n \in Nat
          /\ off[cur] + bc = BufferSize /\ Base(cur) + off[cur] + n > Base(cur) + BufferSize
      BY <1>2, <1>5, <1>12, <1>13, <2>1, Constants
    <3> QED BY ONLY <3>1
  <2> QED BY <1>9, <2>2 DEF Splits
<1>14. ASSUME cur < Top
       PROVE  /\ Top = cur + 1 /\ ib2 = Top /\ Size - bc \in 1..BufferSize
              /\ Base(Top) + (Size - bc) = End
  <2>1. n - bc \in 1..BufferSize
    BY <1>2, <1>11, <1>13, <1>14, Constants
  <2>2. End = Base(cur + 1) + (n - bc)
    <3>1. /\ BufferSize \in Nat /\ Base(cur) \in Int /\ off[cur] \in Nat /\ bc \in Nat /\ n \in Nat
          /\ off[cur] + bc = BufferSize
      BY <1>2, <1>5, <1>12, <1>14, Constants
    <3>2. Base(cur) + off[cur] + n = Base(cur) + BufferSize + (n - bc)
      BY ONLY <3>1
    <3> QED BY <1>2, <1>5, <1>12, <3>2
  <2>3. ~ (End > Base(cur + 2))
    BY <1>12, <2>1, <2>2, Constants
  <2>4. ~ (cur + 1 < Top) /\ cur # 0
    BY <1>2, <2>3 DEF Stands
  <2>5. Top = cur + 1
    BY <1>2, <1>3, <1>14, <2>4
  <2> QED BY <1>2, <1>9, <1>14, <2>1, <2>2, <2>5
<1>15. ASSUME cur = Top
       PROVE  off[cur] + Size <= BufferSize /\ Base(Top) + (off[cur] + Size) = End
  <2>1. n <= bc /\ Bytes(cur) <= BufferSize
    <3>1. cur \in 1..rbuf
      BY <1>2, <1>3
    <3>2. Bytes(cur) <= BufferSize
      BY <3>1, BytesIn
    <3> QED BY <1>2, <1>11, <1>15, <3>2
  <2>2. /\ BufferSize \in Nat /\ Base(cur) \in Int /\ off[cur] \in Nat /\ bc \in Nat /\ n \in Nat
        /\ off[cur] + bc <= BufferSize /\ n <= bc
    BY <1>2, <1>5, <1>12, <2>1, Constants
  <2>3. off[cur] + n <= BufferSize /\ Base(cur) + (off[cur] + n) = (Base(cur) + off[cur]) + n
    BY ONLY <2>2
  <2> QED BY <1>2, <1>5, <1>9, <1>15, <2>3
<1>16. ChecksumOk
  <2>1. Words(x, sent[x]) = [i \in 1..n |-> [pac |-> x, at |-> i]]
    BY <1>5 DEF Words
  <2>2. \A i \in 1..n : [pac |-> x, at |-> i] \in Word
    BY <1>3, <1>5 DEF Word
  <2> HIDE DEF Word
  <2>3. PICK w \in Seq(Word) :
            w = [i \in 1..n |-> [pac |-> x, at |-> i]] /\ Len(w) = n /\ \A i \in 1..n : w[i] = [pac |-> x, at |-> i]
    <3>1. n \in Nat
      BY <1>5
    <3>2. [i \in 1..n |-> [pac |-> x, at |-> i]] \in Seq(Word)
      BY ONLY <2>2, <3>1
    <3>3. /\ Len([i \in 1..n |-> [pac |-> x, at |-> i]]) = n
          /\ \A j \in 1..n : [i \in 1..n |-> [pac |-> x, at |-> i]][j] = [pac |-> x, at |-> j]
      BY ONLY <3>1
    <3> QED BY <3>2, <3>3
  <2>4. /\ SubSeq(Ahead, 1, n) \in Seq(Word) /\ Len(SubSeq(Ahead, 1, n)) = n
        /\ \A k \in 1..n : SubSeq(Ahead, 1, n)[k] = Ahead[k]
    <3>1. 1 \in Nat \ {0} /\ n \in Int /\ n >= 1
      BY <1>5, Constants
    <3>2. /\ SubSeq(Ahead, 1, n) \in Seq(Word)
          /\ Len(SubSeq(Ahead, 1, n)) = IF 1 <= n THEN n - 1 + 1 ELSE 0
          /\ \A k \in 1..Len(SubSeq(Ahead, 1, n)) : SubSeq(Ahead, 1, n)[k] = Ahead[1 + k - 1]
      <4>1. Ahead \in Seq(Word) /\ n <= Len(Ahead)
        BY <1>2, <1>11, Zenon
      <4> QED BY ONLY <3>1, <4>1, Parts
    <3>3. Len(SubSeq(Ahead, 1, n)) = n
      BY <3>1, <3>2
    <3>4. \A k \in 1..n : 1 + k - 1 = k
      BY <1>5
    <3> QED BY <3>2, <3>3, <3>4
  <2>5. PICK v \in Seq(Word) : v = SubSeq(Ahead, 1, n)
    BY <2>4
  <2>6. \A k \in 1..n : v[k] = w[k]
    <3>1. \A k \in 1..n : k \in 1..Len(Ahead)
      BY <1>2, <1>5, <1>11
    <3>2. \A k \in 1..n : v[k] = Ahead[k] /\ Ahead[k] = Line[Pos + k] /\ Line[Pos + k] = [pac |-> x, at |-> k]
      BY <1>2, <1>5, <2>4, <2>5, <3>1, Zenon
    <3> QED BY <2>3, <3>2, Zenon
  <2>7. Len(v) = Len(w) /\ \A k \in 1..Len(v) : v[k] = w[k]
    BY <2>3, <2>4, <2>5, <2>6, Zenon
  <2>8. v = w
    BY <2>7, SeqEqual
  <2>9. Ahead[1].pac = x
    BY <1>5
  <2> QED BY <1>9, <2>1, <2>3, <2>5, <2>8, <2>9 DEF ChecksumOk
<1>17. End <= Len(stream)
  <2>1. /\ Pos \in Nat /\ n \in Nat /\ Len(Ahead) \in Nat /\ Len(stream) \in Nat
        /\ n <= Len(Ahead) /\ Pos + Len(Ahead) <= Len(stream)
    BY <1>2, <1>3, <1>5, <1>11
  <2>2. Pos + n <= Len(stream)
    BY ONLY <2>1
  <2> QED BY <1>5, <2>2
<1>18. Splits <=> cur < Top
  BY <1>11, <1>13
<1> QED BY <1>4, <1>5, <1>8, <1>9, <1>14, <1>15, <1>16, <1>17, <1>18

\* The loop ends only when the packet at Pos is not there.
LEMMA Waiting ==
    ASSUME Types, Whole, Chained, Stands, pc = "parse", ib1 # 0, ~ Decides, Pos < Len(stream)
    PROVE  End > Len(stream) \/ End > Base(cur + 2)
<1>0. Len(stream) \in Nat /\ Len(Line) \in Nat /\ Pos < Len(Line)
  <2>1. Len(stream) \in Nat /\ Len(wire) \in Nat /\ Len(Line) = Len(stream) + Len(wire)
    BY Streams, Lines
  <2>2. Pos \in Nat
    BY AheadIs
  <2> QED BY <2>1, <2>2
<1>a. \E n \in Nat : n >= Header /\ End = Pos + n
  BY <1>0, AtPos, Zenon
<1> SUFFICES ASSUME End <= Len(stream), End <= Base(cur + 2)
             PROVE  FALSE
  <2>1. Pos \in Nat /\ cur \in Int
    BY AheadIs, Tops
  <2>2. Base(cur + 2) \in Int
    <3>1. cur + 2 \in Int
      BY <2>1
    <3> QED BY <3>1, NextBase
  <2>3. End \in Int
    BY <1>a, <2>1
  <2>4. End <= Len(stream) /\ End <= Base(cur + 2) => FALSE
    OBVIOUS
  <2> QED BY <1>0, <2>2, <2>3, <2>4
<1>1. /\ ib1 = cur /\ cur \in 1..Top /\ Pos = Base(cur) + off[cur] /\ Pos \in Nat
      /\ bc \in Nat /\ off[cur] \in Nat /\ off[cur] + bc = Bytes(cur)
      /\ ib2 = IF cur < Top THEN cur + 1 ELSE 0
      /\ cur < Top => off[cur] + bc = BufferSize
      /\ Len(Ahead) = IF cur < Top THEN bc + Bytes(cur + 1) ELSE bc
      /\ Len(Ahead) \in Nat /\ Pos + Len(Ahead) <= Len(stream)
  BY AheadIs
<1>2. /\ Len(stream) \in Nat /\ Len(wire) \in Nat /\ Len(Line) = Len(stream) + Len(wire)
      /\ Top \in Nat /\ rbuf \in Nat /\ rbuf >= Top
  BY Streams, Lines, Tops
<1>3. PICK n \in Nat : n >= Header /\ End = Pos + n
  BY <1>a
<1>4. /\ Base(cur) \in Int /\ Base(cur + 1) = Base(cur) + BufferSize
      /\ Base(cur + 2) = Base(cur) + 2 * BufferSize
  <2>1. cur \in Int
    BY <1>1
  <2> QED BY <2>1, NextBase
<1>5. cur < Top => /\ Bytes(cur + 1) \in Nat /\ (cur + 1 < Top => Bytes(cur + 1) = BufferSize)
                   /\ (cur + 1 >= Top => Bytes(cur + 1) = Len(stream) - Base(cur + 1))
  <2>1. cur < Top => cur + 1 \in 1..rbuf
    BY <1>1, <1>2
  <2> QED BY <2>1, BytesIn, Constants
<1>6. n <= Len(Ahead)
  <2>1. CASE cur = Top
    <3>1. Bytes(cur) = Len(stream) - Base(cur)
      BY <1>1, <1>2, <2>1, BytesIn
    <3>2. /\ Base(cur) \in Int /\ off[cur] \in Nat /\ bc \in Nat /\ n \in Nat /\ Len(stream) \in Nat
          /\ off[cur] + bc = Len(stream) - Base(cur)
          /\ (Base(cur) + off[cur]) + n <= Len(stream)
          /\ Len(Ahead) = bc
      BY <1>1, <1>2, <1>3, <1>4, <2>1, <3>1
    <3> QED BY ONLY <3>2, SMTT(20)
  <2>2. CASE cur # Top /\ cur + 1 = Top
    <3>1. /\ BufferSize \in Nat /\ Base(cur) \in Int /\ off[cur] \in Nat /\ bc \in Nat /\ n \in Nat
          /\ Len(stream) \in Nat /\ off[cur] + bc = BufferSize
          /\ (Base(cur) + off[cur]) + n <= Len(stream)
          /\ Len(Ahead) = bc + (Len(stream) - (Base(cur) + BufferSize))
      BY <1>1, <1>2, <1>3, <1>4, <1>5, <2>2, Constants, SMTT(20)
    <3> QED BY ONLY <3>1, SMTT(20)
  <2>3. CASE cur + 1 < Top
    <3>1. /\ BufferSize \in Nat /\ Base(cur) \in Int /\ off[cur] \in Nat /\ bc \in Nat /\ n \in Nat
          /\ off[cur] + bc = BufferSize
          /\ (Base(cur) + off[cur]) + n <= Base(cur) + 2 * BufferSize
          /\ Len(Ahead) = bc + BufferSize
      BY <1>1, <1>2, <1>3, <1>4, <1>5, <2>3, Constants, SMTT(20)
    <3> QED BY ONLY <3>1, SMTT(20)
  <2> QED BY <1>1, <1>2, <2>1, <2>2, <2>3
<1>7. HeaderRead
  BY <1>1, <1>3, <1>6, Constants DEF HeaderRead
<1>8. Size = n
  <2>1. \E k \in Nat : End = Pos + k /\ Size = k
    BY <1>7, Announced
  <2> QED BY <1>1, <1>3, <2>1
<1>9. Complete
  <2>1. ASSUME Splits
        PROVE  ib2 # 0 /\ Bytes(ib2) >= Size - bc
    <3>1. bc < n
      BY <1>1, <1>3, <1>8, <2>1, Constants DEF Splits, Straddles
    <3>2. cur < Top
      BY <1>1, <1>6, <3>1
    <3>3. ib2 = cur + 1 /\ ib2 # 0
      BY <1>1, <3>2
    <3>4. /\ bc \in Nat /\ Bytes(cur + 1) \in Nat /\ n \in Nat
          /\ n <= bc + Bytes(cur + 1)
      BY <1>1, <1>3, <1>5, <1>6, <3>2
    <3>5. Bytes(cur + 1) >= n - bc
      BY ONLY <3>4
    <3> QED BY <1>8, <3>3, <3>5, Zenon
  <2> QED BY <2>1 DEF Complete
<1>10. off[ib1] <= Bytes(ib1)
  <2>1. Bytes(cur) = off[cur] + bc
    BY <1>1
  <2> QED BY <1>1, <2>1
<1> QED BY <1>7, <1>9, <1>10 DEF Decides

-----------------------------------------------------------------------------

LEMMA SentWhole ==
    ASSUME Types, Whole, PiSends
    PROVE  /\ Whole' /\ Len(Line) <= Len(Line')
           /\ \A k \in 1..Len(Line) : Line'[k] = Line[k] /\ sent'[Line[k].pac] = sent[Line[k].pac]
           /\ Len(Line) < Len(Line') => Line'[Len(Line) + 1].at = 1
<1>1. PICK len \in Lengths : /\ sent' = Append(sent, len)
                             /\ wire' = wire \o Words(Len(sent) + 1, len)
                             /\ stream' = stream
  BY DEF PiSends, readVars
<1>2. PICK l \in Nat, h \in Nat : l = Len(Line) /\ h = Header + len /\ h >= 2
  BY <1>1, Constants, SentLine
<1>3. /\ Len(stream) \in Nat /\ Len(wire) \in Nat /\ Len(Line) = Len(stream) + Len(wire)
      /\ stream \in Seq(Word) /\ wire \in Seq(Word) /\ sent \in Seq(Nat) /\ Len(sent) \in Nat
  BY Streams, Lines
<1>4. Len(Line') = l + h
  <2>1. PICK W : W = Words(Len(sent) + 1, len)
    OBVIOUS
  <2>2. W \in Seq(Word) /\ Len(W) = h
    <3>1. W = [i \in 1..h |-> [pac |-> Len(sent) + 1, at |-> i]]
      BY <1>2, <2>1 DEF Words
    <3>2. \A i \in 1..h : [pac |-> Len(sent) + 1, at |-> i] \in Word
      BY <1>3 DEF Word
    <3> HIDE DEF Word
    <3> QED BY <1>2, <3>1, <3>2
  <2> HIDE DEF Word
  <2>3. wire' \in Seq(Word) /\ Len(wire') = Len(wire) + h
    BY <1>1, <1>3, <2>1, <2>2, Joined
  <2>4. Len(Line') = Len(stream) + Len(wire')
    BY <1>1, <1>3, <2>3, Joined DEF Line
  <2> QED BY <1>2, <1>3, <2>3, <2>4
<1>5. /\ \A k \in 1..l : Line'[k] = Line[k]
      /\ \A k \in (l + 1)..(l + h) : Line'[k].pac = Len(sent) + 1 /\ Line'[k].at = k - l
  BY <1>2, <1>4, SentLine
<1>6. Line' \in Seq(Word)
  BY SentLine
<1>7. \A k \in 1..l : Line[k].pac \in 1..Len(sent)
  BY <1>2, LineWords
<1>8. \A k \in 1..l : sent'[Line[k].pac] = sent[Line[k].pac]
  BY <1>1, <1>3, <1>7
<1>9. sent'[Len(sent) + 1] = len
  BY <1>1, <1>3
<1>10. \A k \in (l + 1)..(l + h) : Line'[k] = [pac |-> Len(sent) + 1, at |-> k - l]
  <2> SUFFICES ASSUME NEW k \in (l + 1)..(l + h)
               PROVE  Line'[k] = [pac |-> Len(sent) + 1, at |-> k - l]
    OBVIOUS
  <2>1. k \in 1..Len(Line')
    BY <1>2, <1>4
  <2>2. Line'[k] \in Word
    <3> HIDE DEF Word
    <3> QED BY <1>6, <2>1
  <2> QED BY <1>5, <2>2 DEF Word
<1>11. l + 1 \in (l + 1)..(l + h) /\ Line'[l + 1].at = 1
  <2>1. l + 1 \in (l + 1)..(l + h) /\ (l + 1) - l = 1
    BY <1>2
  <2> QED BY <1>5, <2>1
<1> DEFINE n(i) == Header + sent'[Line'[i].pac]
<1>12. ASSUME NEW i \in 1..Len(Line'), Line'[i].at = 1
       PROVE  /\ i + n(i) - 1 <= Len(Line')
              /\ \A k \in 1..n(i) : Line'[i + k - 1] = [pac |-> Line'[i].pac, at |-> k]
              /\ i + n(i) <= Len(Line') => Line'[i + n(i)].at = 1
  <2>1. CASE i \in 1..l
    <3> DEFINE m == Header + sent[Line[i].pac]
    <3>1. Line'[i] = Line[i] /\ n(i) = m
      BY <1>5, <1>8, <2>1
    <3>2. m \in Nat
      <4>1. sent[Line[i].pac] \in Nat
        BY <1>3, <1>7, <2>1
      <4> QED BY <4>1, Constants
    <3>3. /\ i + m - 1 <= l
          /\ \A k \in 1..m : Line[i + k - 1] = [pac |-> Line[i].pac, at |-> k]
          /\ i + m <= l => Line[i + m].at = 1
      BY <1>2, <1>12, <2>1, <3>1 DEF Whole
    <3> HIDE DEF m, n
    <3>4. \A k \in 1..m : i + k - 1 \in 1..l
      BY <1>2, <2>1, <3>2, <3>3
    <3>5. \A k \in 1..m : Line'[i + k - 1] = [pac |-> Line'[i].pac, at |-> k]
      BY <1>5, <3>1, <3>3, <3>4
    <3>6. i + m <= l \/ i + m = l + 1
      BY <1>2, <2>1, <3>2, <3>3
    <3>7. i + m <= l => i + m \in 1..l
      BY <1>2, <2>1, <3>2
    <3>8. Line'[i + m].at = 1
      BY <1>5, <1>11, <3>3, <3>6, <3>7
    <3>9. i + m - 1 <= Len(Line')
      BY <1>2, <1>4, <2>1, <3>2, <3>3
    <3> QED BY <3>1, <3>5, <3>8, <3>9
  <2>2. CASE i \notin 1..l
    <3>1. i \in (l + 1)..(l + h)
      BY <1>2, <1>4, <2>2
    <3>2. i = l + 1
      BY <1>2, <1>5, <1>12, <3>1
    <3>3. n(i) = h /\ Line'[i].pac = Len(sent) + 1
      BY <1>2, <1>5, <1>9, <3>1
    <3> HIDE DEF n
    <3>4. \A k \in 1..h : i + k - 1 \in (l + 1)..(l + h) /\ (i + k - 1) - l = k
      BY <1>2, <3>2
    <3>5. \A k \in 1..h : Line'[i + k - 1] = [pac |-> Len(sent) + 1, at |-> k]
      BY <1>10, <3>4
    <3>6. i + h - 1 <= Len(Line') /\ ~ (i + h <= Len(Line'))
      BY <1>2, <1>4, <3>2
    <3> QED BY <3>3, <3>5, <3>6
  <2> QED BY <2>1, <2>2
<1>13. Line'[1].at = 1
  <2>1. CASE l = 0
    BY <1>11, <2>1
  <2>2. CASE l # 0
    <3>1. 1 \in 1..l /\ l > 0
      BY <1>2, <2>2
    <3> QED BY <1>2, <1>5, <3>1 DEF Whole
  <2> QED BY <2>1, <2>2
<1>14. Whole'
  BY <1>12, <1>13 DEF Whole
<1> QED BY <1>2, <1>4, <1>5, <1>8, <1>11, <1>14

LEMMA StepWhole ==
    ASSUME Types, Whole, [Next]_vars, lost' = 0, lost = 0
    PROVE  Whole'
<1>1. CASE PiSends
  BY <1>1, SentWhole
<1>2. CASE \E n \in 1..BufferSize : Receive(n)
  <2>1. PICK n \in 1..BufferSize : ContinueRead(n) /\ UNCHANGED sent
    BY <1>2 DEF Receive
  <2>2. Line' = Line
    BY <2>1, SameLine
  <2> QED BY <2>1, <2>2 DEF Whole
<1>3. CASE UNCHANGED <<stream, wire, sent>>
  <2>1. Line' = Line
    BY <1>3 DEF Line
  <2> QED BY <1>3, <2>1 DEF Whole
<1>4. \/ PiSends \/ (\E n \in 1..BufferSize : Receive(n)) \/ UNCHANGED <<stream, wire, sent>>
      \/ lost' = lost + 1
  BY DEF Next, Server, vars, lineVars, readVars, BeginRead, NoReadBuffer, LoopEnds, AcceptPacket, BadData,
         HandlePacket, PassDone, ReadFails, ReleaseHeld, DestroyPacketReader, LoseWord
<1>5. lost' # lost + 1
  OBVIOUS
<1> QED BY <1>1, <1>2, <1>3, <1>4, <1>5

LEMMA ClearBefore ==
    ASSUME Types, [Next]_vars
    PROVE  /\ lost' = 0 => lost = 0
           /\ Clear' => Clear
<1>1. lost \in Nat /\ fails \in Nat
  BY DEF Types, MiscOK
<1>2. lost' \in {lost, lost + 1}
  BY DEF Next, Server, vars, lineVars, BeginRead, NoReadBuffer, Receive, LoopEnds, AcceptPacket, BadData,
         HandlePacket, PassDone, ReadFails, ReleaseHeld, DestroyPacketReader, PiSends, LoseWord
<1>3. fails' \in {fails, fails + 1}
  BY DEF Next, Server, vars, BeginRead, NoReadBuffer, Receive, LoopEnds, AcceptPacket, BadData,
         HandlePacket, AskForGap, PassDone, ReadFails, ReleaseHeld, DestroyPacketReader, PiSends, LoseWord
<1> QED BY <1>1, <1>2, <1>3 DEF Clear

\* What the next-state relation leaves of the actions when nothing goes wrong.
LEMMA ClearSteps ==
    ASSUME Types, [Next]_vars, Clear, Clear'
    PROVE  \/ PiSends
           \/ BeginRead /\ off' = Append(off, 0) /\ rbuf' = Len(off) + 1 /\ (rbuf = 0 \/ Full(rbuf))
           \/ \E n \in 1..BufferSize : Receive(n) /\ AppendBuffer /\ ib1' = cur' /\ pc' = "parse"
           \/ LoopEnds /\ ~ Decides
           \/ AcceptPacket
           \/ BadData
           \/ UNCHANGED <<stream, wire, sent, rbuf, chain, canRel, cur, ib1, off>> /\ (pc' # "destroyed" \/ UNCHANGED pc)
<1>1. lost = 0 /\ lost' = 0 /\ fails = 0 /\ fails' = 0
  BY DEF Clear
<1>2. CASE BeginRead
  BY <1>2 DEF BeginRead, lineVars, chainVars, bufVars
<1>3. CASE \E n \in 1..BufferSize : Receive(n)
  BY <1>1, <1>3 DEF Receive
<1>4. CASE LoopEnds
  BY <1>1, <1>4 DEF LoopEnds
<1>5. CASE NoReadBuffer \/ ReadFails \/ HandlePacket \/ PassDone \/ ReleaseHeld
  BY <1>1, <1>5 DEF NoReadBuffer, ReadFails, HandlePacket, PassDone, ReleaseHeld, lineVars, readVars, chainVars, bufVars
<1>6. CASE DestroyPacketReader \/ LoseWord
  BY <1>1, <1>6 DEF DestroyPacketReader, LoseWord
<1>7. CASE UNCHANGED vars
  BY <1>7 DEF vars, lineVars, readVars, chainVars, bufVars
<1> QED BY <1>2, <1>3, <1>4, <1>5, <1>6, <1>7 DEF Next, Server

LEMMA SameStands ==
    ASSUME Stands, UNCHANGED <<stream, wire, sent, rbuf, chain, cur, ib1, off>>, pc' # "destroyed"
    PROVE  Stands'
<1>1. Line' = Line /\ Top' = Top /\ Pos' = Pos
  BY DEF Line, Top, Pos, Base
<1>2. End' = End /\ \A b \in Int : Base(b)' = Base(b)
  BY <1>1 DEF End, Base
<1> QED BY <1>1, <1>2 DEF Stands

LEMMA BeginChained ==
    ASSUME Types, Chained, Stands, BeginRead, off' = Append(off, 0), rbuf' = Len(off) + 1,
           rbuf = 0 \/ Full(rbuf)
    PROVE  Chained' /\ Stands' /\ Top' = Top
<1>1. /\ UNCHANGED <<stream, wire, sent, chain, canRel, cur, ib1>> /\ pc' = "handle"
  BY DEF BeginRead, lineVars, chainVars
<1>2. /\ Top \in Nat /\ Len(off) \in Nat /\ rbuf \in Nat /\ DOMAIN off = 1..rbuf /\ rbuf = Len(off)
      /\ rbuf \in {Top, Top + 1} /\ chain = 1..Top /\ cur \in 0..Top /\ off \in Seq(Nat)
  BY Tops DEF Chained, Types, BufOK
<1>a. rbuf \in Nat /\ Top \in Nat /\ rbuf = Len(off) /\ cur \in 0..Top /\ chain = 1..Top
  BY <1>2, Zenon
<1>3. Len(stream) \in Nat /\ Base(rbuf) \in Int /\ Base(rbuf + 1) = Base(rbuf) + BufferSize /\ Base(1) = 0
  <2>1. rbuf \in Int
    BY <1>a
  <2> QED BY <2>1, NextBase, Streams
<1>4. Top = rbuf /\ Base(rbuf + 1) = Len(stream)
  <2>1. CASE rbuf = 0
    <3>1. Top = 0 /\ Len(stream) = 0
      BY <2>1 DEF Chained, Top
    <3> QED BY <1>3, <2>1, <3>1
  <2>2. CASE rbuf # 0
    <3>1. Bytes(rbuf) = BufferSize
      BY <2>2 DEF Full
    <3>2. Bytes(rbuf) = Len(stream) - Base(rbuf)
      <4>1. rbuf \in 1..rbuf
        BY <1>a, <2>2
      <4>2. rbuf >= Top
        <5>1. rbuf \in {Top, Top + 1}
          BY <1>2, Zenon
        <5> QED BY <1>a, <5>1
      <4> QED BY <4>1, <4>2, BytesIn
    <3>3. Base(rbuf) < Len(stream) /\ Base(rbuf + 1) = Len(stream)
      BY <1>3, <3>1, <3>2, Constants
    <3>4. rbuf \in chain
      BY <2>2, <3>3 DEF Chained
    <3> QED BY <3>3, <3>4 DEF Top
  <2> QED BY <2>1, <2>2
<1>5. rbuf' = rbuf + 1 /\ rbuf' \notin chain' /\ Top' = Top
  <2>1. rbuf' = rbuf + 1 /\ rbuf' \notin 1..Top
    BY <1>a, <1>4
  <2>2. rbuf' \notin chain' /\ rbuf' # 0 /\ rbuf' - 1 = rbuf
    BY <1>1, <1>a, <2>1
  <2>3. Top' = rbuf' - 1
    BY <2>2 DEF Top
  <2> QED BY <1>4, <2>1, <2>2, <2>3
<1>6. Len(off') = rbuf' /\ DOMAIN off' = 1..(rbuf + 1) /\ off'[rbuf + 1] = 0 /\ \A b \in 1..rbuf : off'[b] = off[b]
  <2>1. off \in Seq(Nat)
    BY <1>2, Zenon
  <2>2. PICK l \in Nat : l = rbuf
    BY <1>a
  <2> QED BY <1>a, <1>5, <2>1, <2>2
<1>7. Base(rbuf)' = Len(stream)
  BY <1>4, <1>5 DEF Base
<1>8. Chained'
  BY <1>1, <1>2, <1>3, <1>4, <1>5, <1>6, <1>7, Constants DEF Chained
<1>9. Line' = Line /\ Pos' = Pos
  <2>1. Line' = Line
    BY <1>1 DEF Line
  <2>2. cur # 0 => off'[cur] = off[cur]
    BY <1>2, <1>4, <1>6
  <2> QED BY <1>1, <2>1, <2>2 DEF Pos, Base
<1>10. End' = End /\ Base(cur + 1)' = Base(cur + 1) /\ Base(cur + 2)' = Base(cur + 2)
  BY <1>1, <1>9 DEF End, Base
<1>11. \A b \in DOMAIN off' : off'[b] <= BufferSize /\ (b > cur => off'[b] = 0)
  <2>1. \A b \in 1..rbuf : off[b] <= BufferSize /\ (b > cur => off[b] = 0)
    BY <1>2 DEF Stands
  <2>2. BufferSize \in Nat /\ 0 <= BufferSize
    BY Constants
  <2>3. \A b \in 1..(rbuf + 1) : b \in 1..rbuf \/ b = rbuf + 1
    BY <1>a
  <2>4. ASSUME NEW b \in 1..(rbuf + 1)
        PROVE  off'[b] <= BufferSize /\ (b > cur => off'[b] = 0)
    <3>1. CASE b \in 1..rbuf
      BY <1>6, <2>1, <3>1, Zenon
    <3>2. CASE b = rbuf + 1
      BY <1>6, <2>2, <3>2, Zenon
    <3> QED BY <2>3, <3>1, <3>2
  <2> QED BY <1>6, <2>4, Zenon
<1>12. /\ ib1 \in {0, cur}
       /\ Pos <= Len(stream) /\ (Pos < Len(Line) => Line[Pos + 1].at = 1)
       /\ ib1 # 0 /\ cur < Top => End > Base(cur + 1)
       /\ ib1 = 0 /\ Pos < Len(stream) => End > Len(stream) \/ End > Base(cur + 2)
       /\ cur # 0 /\ cur + 1 < Top => End > Base(cur + 2)
  BY DEF Stands
<1> QED BY <1>1, <1>5, <1>8, <1>9, <1>10, <1>11, <1>12, Zenon DEF Stands

LEMMA ReceiveChained ==
    ASSUME Types, Whole, Chained, Stands,
           NEW n \in 1..BufferSize, Receive(n), AppendBuffer, ib1' = cur', pc' = "parse"
    PROVE  Chained' /\ Stands'
<1>1. /\ UNCHANGED <<sent, rbuf, off>> /\ ContinueRead(n) /\ pc = "idle"
  BY DEF Receive, bufVars
<1>2. /\ stream' = stream \o SubSeq(wire, 1, n) /\ n \in Nat /\ 1 <= n /\ n <= Len(wire)
      /\ rbuf \in 1..Len(off) /\ n <= Least(BufferSize - Bytes(rbuf), Len(wire))
  BY <1>1, Reads DEF ContinueRead
<1>3. Line' = Line
  BY <1>1, SameLine
<1>4. /\ Len(stream) \in Nat /\ Len(wire) \in Nat /\ Len(Line) = Len(stream) + Len(wire)
      /\ Len(stream') = Len(stream) + n
  <2>1. stream \in Seq(Word) /\ wire \in Seq(Word) /\ Len(stream) \in Nat /\ Len(wire) \in Nat
    BY Streams
  <2> HIDE DEF Word
  <2>2. SubSeq(wire, 1, n) \in Seq(Word) /\ Len(SubSeq(wire, 1, n)) = IF 1 <= n THEN n - 1 + 1 ELSE 0
    BY <1>2, <2>1, Parts
  <2>a. n - 1 + 1 = n /\ 1 <= n
    BY <1>2
  <2>b. Len(SubSeq(wire, 1, n)) = n
    BY <2>2, <2>a, Zenon
  <2>3. PICK x \in Seq(Word) : x = SubSeq(wire, 1, n) /\ Len(x) = n
    BY <2>2, <2>b, Zenon
  <2>4. Len(stream \o x) = Len(stream) + Len(x)
    BY <2>1, Joined
  <2>5. Len(stream') = Len(stream) + n
    BY <1>2, <2>3, <2>4
  <2> QED BY <2>1, <2>5, Lines
<1>5. /\ Top \in Nat /\ rbuf \in Nat /\ rbuf = Len(off) /\ DOMAIN off = 1..rbuf /\ rbuf \in {Top, Top + 1}
      /\ chain = 1..Top /\ cur \in 0..Top /\ rbuf # 0 /\ (rbuf \in chain => rbuf = Top)
      /\ rbuf >= Top /\ rbuf >= 1
  <2>1. rbuf = Len(off) /\ chain = 1..Top
    BY DEF Chained
  <2>2. rbuf # 0
    BY <1>2, <2>1
  <2>3. /\ Top \in Nat /\ rbuf \in Nat /\ rbuf \in {Top, Top + 1} /\ DOMAIN off = 1..rbuf
        /\ cur \in 0..Top /\ (rbuf \in chain => rbuf = Top)
    BY Tops
  <2>4. rbuf >= Top /\ rbuf >= 1
    BY <2>2, <2>3
  <2> QED BY <2>1, <2>2, <2>3, <2>4
<1>6. ib1 = 0 /\ (cur = 0 => chain = {})
  BY <1>1 DEF Types, LoopOK
<1>7. /\ chain' = 1..rbuf /\ Top' = rbuf /\ cur' = (IF cur = 0 THEN rbuf ELSE cur)
      /\ canRel' = 1..(rbuf - 1) /\ (cur = 0 => rbuf = 1)
  <2>1. /\ chain' = chain \cup {rbuf} /\ cur' = (IF cur = 0 THEN rbuf ELSE cur)
        /\ canRel' = IF rbuf \in chain \/ cur = 0 THEN canRel ELSE canRel \cup {b \in chain : b >= cur}
    BY DEF AppendBuffer
  <2>2. chain' = 1..rbuf /\ Top' = rbuf
    <3>1. chain' = 1..rbuf
      BY <1>5, <2>1
    <3>2. rbuf' \in chain'
      BY <1>1, <1>5, <3>1
    <3> QED BY <1>1, <3>1, <3>2 DEF Top
  <2>3. canRel = 1..(Top - 1)
    BY DEF Chained
  <2>4. CASE rbuf \in chain
    <3>1. canRel' = 1..(rbuf - 1)
      BY <1>5, <2>1, <2>3, <2>4
    <3>2. cur # 0
      BY <1>6, <2>4
    <3> QED BY <2>1, <2>2, <3>1, <3>2
  <2>5. CASE rbuf \notin chain /\ cur = 0
    <3>1. 1..Top = {}
      BY <1>5, <1>6, <2>5
    <3>2. Top = 0
      BY <1>5, <3>1
    <3>3. rbuf = 1
      BY <1>5, <3>2
    <3>4. canRel' = 1..(rbuf - 1)
      BY <2>1, <2>3, <2>5, <3>2, <3>3
    <3> QED BY <2>1, <2>2, <3>3, <3>4
  <2>6. CASE rbuf \notin chain /\ cur # 0
    <3>1. rbuf = Top + 1 /\ rbuf - 1 = Top
      BY <1>5, <2>6
    <3>2. canRel' = 1..(Top - 1) \cup {b \in 1..Top : b >= cur}
      BY <1>5, <2>1, <2>3, <2>6
    <3>3. 1..(Top - 1) \cup {b \in 1..Top : b >= cur} = 1..Top
      BY <1>5
    <3> QED BY <2>1, <2>2, <2>6, <3>1, <3>2, <3>3
  <2> QED BY <2>4, <2>5, <2>6
<1>8. /\ Base(rbuf) \in Nat /\ Base(rbuf) <= Len(stream) /\ Len(stream) + n <= Base(rbuf) + BufferSize
      /\ \A b \in Int : Base(b) \in Int /\ Base(b + 1) = Base(b) + BufferSize /\ Base(b + 2) = Base(b) + 2 * BufferSize
  <2>1. Bytes(rbuf) = Len(stream) - Base(rbuf) /\ Base(rbuf) <= Len(stream)
    <3>1. rbuf \in 1..rbuf /\ rbuf >= Top
      BY <1>5
    <3> QED BY <1>5, <3>1, BytesIn DEF Chained
  <2>2. Base(rbuf) \in Nat
    BY <1>5, Bases
  <2>3. PICK m \in Int : m = BufferSize - Bytes(rbuf)
    BY <1>4, <2>1, <2>2, Constants
  <2>4. n <= m
    <3>1. n <= Least(m, Len(wire))
      BY <1>2, <2>3
    <3> QED BY <1>2, <1>4, <3>1 DEF Least
  <2>5. Len(stream) + n <= Base(rbuf) + BufferSize
    <3>1. /\ n \in Nat /\ n <= m /\ m = BufferSize - (Len(stream) - Base(rbuf)) /\ Len(stream) \in Nat
          /\ Base(rbuf) \in Nat /\ BufferSize \in Nat
      BY <1>2, <1>4, <2>1, <2>2, <2>3, <2>4, Constants
    <3> QED BY ONLY <3>1
  <2> QED BY <2>1, <2>2, <2>5, NextBase
<1>9. Base(rbuf)' = Base(rbuf) /\ rbuf' = rbuf
  BY <1>1 DEF Base
<1>10. Chained'
  <2>1. rbuf' = Len(off')
    BY <1>1, <1>5
  <2>2. chain' = 1..Top' /\ canRel' = 1..(Top' - 1)
    BY <1>7
  <2>3. Base(rbuf) <= Len(stream') /\ Len(stream') <= Base(rbuf) + BufferSize /\ Base(rbuf) < Len(stream')
    <3>1. /\ n \in Nat /\ n >= 1 /\ Base(rbuf) \in Nat /\ Len(stream) \in Nat /\ Base(rbuf) <= Len(stream)
          /\ Len(stream) + n <= Base(rbuf) + BufferSize /\ BufferSize \in Nat
      BY <1>2, <1>4, <1>8, Constants
    <3>2. /\ Base(rbuf) <= Len(stream) + n /\ Base(rbuf) < Len(stream) + n
      BY ONLY <3>1
    <3> QED BY <1>4, <3>1, <3>2
  <2>4. rbuf' # 0 /\ rbuf' \in chain'
    BY <1>5, <1>7, <1>9
  <2> QED BY <1>9, <2>1, <2>2, <2>3, <2>4 DEF Chained
<1>11. cur' \in 1..rbuf /\ cur \in Nat /\ cur' \in Nat /\ cur <= cur'
  BY <1>5, <1>7
<1>12. \A b \in 1..rbuf : off[b] \in Nat /\ off[b] <= BufferSize /\ (b > cur => off[b] = 0)
  <2>1. \A b \in 1..rbuf : off[b] <= BufferSize /\ (b > cur => off[b] = 0)
    BY <1>5 DEF Stands
  <2> QED BY <2>1, Tops
<1>13. Pos' = Pos /\ End' = End
  <2>1. Pos' = Base(cur') + off[cur']
    BY <1>1, <1>11 DEF Pos, Base
  <2>2. CASE cur = 0
    <3>a. cur' = 1 /\ rbuf = 1 /\ 1 \in 1..rbuf /\ 1 > cur
      BY <1>7, <2>2
    <3>b. off[1] = 0
      BY <1>12, <3>a
    <3>1. cur' = 1 /\ off[1] = 0 /\ Base(1) = 0 /\ Pos = 0
      BY <2>2, <3>a, <3>b, NextBase DEF Pos
    <3>2. Pos' = Pos
      BY <2>1, <3>1
    <3> QED BY <1>1, <1>3, <3>2 DEF End
  <2>3. CASE cur # 0
    <3>1. Pos' = Pos
      BY <1>7, <2>1, <2>3 DEF Pos
    <3> QED BY <1>1, <1>3, <3>1 DEF End
  <2> QED BY <2>2, <2>3
<1>14. Pos <= Len(stream) /\ (Pos < Len(Line) => Line[Pos + 1].at = 1) /\ Pos \in Nat
  <2>1. Pos <= Len(stream) /\ (Pos < Len(Line) => Line[Pos + 1].at = 1)
    BY DEF Stands
  <2>2. Pos \in Nat
    <3>1. CASE cur = 0
      BY <3>1 DEF Pos
    <3>2. CASE cur # 0
      <4>1. cur \in 1..rbuf /\ cur \in Nat \ {0}
        BY <1>5, <3>2
      <4>2. Base(cur) \in Nat /\ off[cur] \in Nat
        BY <1>12, <4>1, Bases
      <4> QED BY <3>2, <4>2 DEF Pos
    <3> QED BY <3>1, <3>2
  <2> QED BY <2>1, <2>2
<1>15. PICK k \in Nat : k >= Header /\ End = Pos + k
  <2>1. Pos < Len(Line)
    BY <1>2, <1>4, <1>14
  <2> QED BY <2>1, AtPos
<1>16. cur # 0 => Pos <= Base(cur + 1)
  <2>1. ASSUME cur # 0
        PROVE  Pos <= Base(cur + 1)
    <3>1. cur \in 1..rbuf /\ cur \in Int
      BY <1>5, <2>1
    <3>2. Pos = Base(cur) + off[cur] /\ off[cur] \in Nat /\ off[cur] <= BufferSize
      BY <1>12, <2>1, <3>1 DEF Pos
    <3>3. Base(cur) \in Int /\ Base(cur + 1) = Base(cur) + BufferSize /\ BufferSize \in Nat
      BY <1>8, <3>1, Constants
    <3> QED BY <3>2, <3>3
  <2> QED BY <2>1
<1>17. \A b \in Nat \ {0} : b <= rbuf => Base(b) <= Base(rbuf) /\ Base(b) <= Len(stream) /\ Base(b) \in Nat
  <2>1. ASSUME NEW b \in Nat \ {0}, b <= rbuf
        PROVE  Base(b) <= Base(rbuf) /\ Base(b) \in Nat
    <3>1. CASE b = rbuf
      <4>1. Base(rbuf) \in Nat
        BY <1>8
      <4>2. \A x \in Nat : x <= x
        OBVIOUS
      <4>3. Base(b) = Base(rbuf)
        BY <3>1
      <4>4. Base(rbuf) <= Base(rbuf)
        BY <4>1, <4>2
      <4> QED BY <4>1, <4>3, <4>4
    <3>2. CASE b # rbuf
      <4>1. rbuf > b
        BY <1>5, <2>1, <3>2
      <4>2. Base(b) \in Nat /\ Base(b) + BufferSize <= Base(rbuf)
        BY <1>5, <4>1, Bases
      <4>3. Base(rbuf) \in Nat /\ BufferSize \in Nat
        BY <1>8, Constants
      <4> QED BY ONLY <4>2, <4>3
    <3> QED BY <3>1, <3>2
  <2>2. Base(rbuf) \in Nat /\ Base(rbuf) <= Len(stream) /\ Len(stream) \in Nat
    BY <1>4, <1>8
  <2>3. \A x, y, z \in Nat : x <= y /\ y <= z => x <= z
    OBVIOUS
  <2> QED BY <2>1, <2>2, <2>3, Zenon
<1>18. ib1 = 0 /\ Pos < Len(stream) => End > Len(stream) \/ End > Base(cur + 2)
  BY DEF Stands
<1>19. cur' < rbuf => End > Base(cur' + 1)
  <2>1. ASSUME cur' < rbuf
        PROVE  End > Base(cur' + 1)
    <3>1. cur # 0 /\ cur' = cur /\ cur + 1 \in Nat \ {0} /\ cur + 1 <= rbuf /\ cur \in Int
      BY <1>5, <1>7, <1>11, <2>1
    <3>2. Base(cur + 1) <= Len(stream) /\ Base(cur + 1) \in Nat
      BY <1>17, <3>1
    <3>3. Base(cur + 2) = Base(cur + 1) + BufferSize
      <4>0. cur \in Int
        BY <3>1
      <4>1. /\ Base(cur) \in Int /\ Base(cur + 1) = Base(cur) + BufferSize
            /\ Base(cur + 2) = Base(cur) + 2 * BufferSize /\ BufferSize \in Nat
        BY <1>8, <4>0, Constants, Zenon
      <4> QED BY ONLY <4>1
    <3>4. CASE Pos < Len(stream)
      <4>1. End > Len(stream) \/ End > Base(cur + 2)
        BY <1>6, <1>18, <3>4
      <4>2. End \in Nat
        BY <1>14, <1>15
      <4>3. End > Base(cur + 1)
        BY <1>4, <3>2, <3>3, <4>1, <4>2, Constants
      <4> QED BY <3>1, <4>3
    <3>5. CASE ~ (Pos < Len(stream))
      <4>1. Pos = Len(stream) /\ Pos = Base(cur + 1)
        BY <1>4, <1>14, <1>16, <3>1, <3>2, <3>5
      <4> QED BY <1>14, <1>15, <3>1, <4>1, Constants
    <3> QED BY <3>4, <3>5
  <2> QED BY <2>1
<1>20. cur' + 1 < rbuf => End > Base(cur' + 2)
  <2>1. ASSUME cur' + 1 < rbuf
        PROVE  End > Base(cur' + 2)
    <3>1. cur # 0 /\ cur' = cur /\ cur + 2 \in Nat \ {0} /\ cur + 2 <= rbuf /\ cur \in Int
      BY <1>5, <1>7, <1>11, <2>1
    <3>2. Base(cur + 2) <= Len(stream) /\ Base(cur + 2) \in Nat
      BY <1>17, <3>1
    <3>3. Base(cur + 2) = Base(cur + 1) + BufferSize /\ Base(cur + 1) \in Int
      <4>0. cur \in Int
        BY <3>1
      <4>1. /\ Base(cur) \in Int /\ Base(cur + 1) = Base(cur) + BufferSize
            /\ Base(cur + 2) = Base(cur) + 2 * BufferSize /\ BufferSize \in Nat
        BY <1>8, <4>0, Constants, Zenon
      <4> QED BY ONLY <4>1
    <3>4. Pos < Len(stream)
      BY <1>4, <1>14, <1>16, <3>1, <3>2, <3>3, Constants
    <3>5. End > Len(stream) \/ End > Base(cur + 2)
      BY <1>6, <1>18, <3>4
    <3>6. End \in Nat
      BY <1>14, <1>15
    <3> QED BY <1>4, <3>1, <3>2, <3>5, <3>6
  <2> QED BY <2>1
<1>21. Base(cur + 1)' = Base(cur' + 1) /\ Base(cur + 2)' = Base(cur' + 2)
  BY DEF Base
<1>22. ib1' # 0 /\ pc' # "destroyed" /\ ib1' \in {0, cur'}
  BY <1>11
<1>23. Pos' <= Len(stream') /\ (Pos' < Len(Line') => Line'[Pos' + 1].at = 1)
  BY <1>2, <1>3, <1>4, <1>13, <1>14
<1>24. \A b \in DOMAIN off' : off'[b] <= BufferSize /\ (b > cur' => off'[b] = 0)
  <2>1. \A b \in 1..rbuf : b > cur' => b > cur
    BY <1>5, <1>11
  <2>2. off' = off /\ DOMAIN off = 1..rbuf
    BY <1>1, <1>5
  <2> QED BY <1>12, <2>1, <2>2
<1>25. Stands'
  <2>1. /\ cur' < Top' => End' > Base(cur' + 1)
        /\ cur' + 1 < Top' => End' > Base(cur' + 2)
    BY <1>7, <1>13, <1>19, <1>20
  <2> QED BY <1>21, <1>22, <1>23, <1>24, <2>1, Zenon DEF Stands
<1> QED BY <1>10, <1>25

LEMMA EndsStands ==
    ASSUME Types, Whole, Chained, Stands, LoopEnds, ~ Decides
    PROVE  Chained' /\ Stands'
<1>1. /\ UNCHANGED <<stream, wire, sent, rbuf, chain, canRel, cur, off>> /\ ib1' = 0 /\ pc' = "begin"
      /\ pc = "parse"
  BY DEF LoopEnds, lineVars, readVars, chainVars, bufVars
<1>2. Line' = Line /\ Top' = Top /\ Pos' = Pos /\ Base(rbuf)' = Base(rbuf)
  BY <1>1 DEF Line, Top, Pos, Base
<1>3. End' = End /\ Base(cur + 1)' = Base(cur + 1) /\ Base(cur + 2)' = Base(cur + 2)
  BY <1>1, <1>2 DEF End, Base
<1>4. Chained'
  BY <1>1, <1>2 DEF Chained
<1>5. Pos < Len(stream) => End > Len(stream) \/ End > Base(cur + 2)
  <2>1. CASE ib1 = 0
    BY <2>1 DEF Stands
  <2>2. CASE ib1 # 0
    BY <1>1, <2>2, Waiting
  <2> QED BY <2>1, <2>2
<1>6. /\ Pos <= Len(stream) /\ (Pos < Len(Line) => Line[Pos + 1].at = 1)
      /\ \A b \in DOMAIN off : off[b] <= BufferSize /\ (b > cur => off[b] = 0)
      /\ cur # 0 /\ cur + 1 < Top => End > Base(cur + 2)
  BY DEF Stands
<1>7. Stands'
  BY <1>1, <1>2, <1>3, <1>5, <1>6, Zenon DEF Stands
<1> QED BY <1>4, <1>7

LEMMA AcceptStands ==
    ASSUME Types, Whole, Chained, Stands, AcceptPacket
    PROVE  /\ Chained' /\ Stands' /\ cur' = Top /\ ib1 = cur /\ cur \in 1..Top
           /\ (IF Splits THEN ib2 ELSE ib1) = Top /\ Top \in {cur, cur + 1}
           /\ (cur < Top => off[Top] = 0)
           /\ off'[Top] > 0 /\ off'[Top] <= BufferSize
           /\ off'[Top] > off[Top]
<1> DEFINE to == IF Splits THEN ib2 ELSE ib1
           size == IF Splits THEN Size - bc ELSE Size
<1>1. /\ Decides /\ cur' = to /\ off' = [off EXCEPT ![to] = @ + size]
      /\ ib1' = IF off[to] + size = BufferSize THEN NextOf(to) ELSE to
      /\ UNCHANGED <<stream, wire, sent, rbuf, chain, canRel, pc>>
  BY DEF AcceptPacket, lineVars, readVars
<1>2. ib1 # 0 /\ pc = "parse"
  BY <1>1 DEF Decides
<1>3. ib1 = cur /\ cur \in 1..Top /\ off[ib1] \in Nat
  BY <1>2, AheadIs
<1>4. /\ Top \in Nat /\ rbuf \in Nat /\ DOMAIN off = 1..rbuf /\ rbuf \in {Top, Top + 1} /\ chain = 1..Top
      /\ Len(stream) <= Base(Top + 1) /\ off \in Seq(Nat) /\ Top >= 1 /\ Top \in 1..rbuf
  <2>1. /\ Top \in Nat /\ rbuf \in Nat /\ DOMAIN off = 1..rbuf /\ rbuf \in {Top, Top + 1}
        /\ Len(stream) <= Base(Top + 1)
    BY Tops
  <2>2. chain = 1..Top /\ off \in Seq(Nat)
    BY DEF Chained, Types, BufOK
  <2>3. Top >= 1 /\ Top \in 1..rbuf
    BY <1>3, <2>1
  <2> QED BY <2>1, <2>2, <2>3
<1>5. /\ Pos < Len(stream) /\ End = Pos + Size /\ End <= Len(stream)
      /\ Size \in Nat /\ Size >= Header
      /\ End < Len(Line) => Line[End + 1].at = 1
      /\ Splits <=> cur < Top
      /\ cur < Top => /\ Top = cur + 1 /\ ib2 = Top
                      /\ Size - bc \in 1..BufferSize
                      /\ Base(Top) + (Size - bc) = End
      /\ cur = Top => off[cur] + Size <= BufferSize /\ Base(Top) + (off[cur] + Size) = End
  BY <1>1, Deciding
<1>6. /\ to = Top /\ Top \in {cur, cur + 1} /\ size \in Nat /\ size > 0 /\ off[Top] \in Nat
      /\ cur < Top => off[Top] = 0
      /\ off[Top] + size <= BufferSize /\ Base(Top) + (off[Top] + size) = End
  <2>1. CASE cur < Top
    <3>1. off[Top] = 0
      BY <1>4, <2>1 DEF Stands
    <3>2. to = Top /\ size = Size - bc /\ Top = cur + 1 /\ Size - bc \in 1..BufferSize
      BY <1>5, <2>1
    <3>3. size \in Nat /\ size > 0 /\ size <= BufferSize /\ 0 + size = size
      BY <3>2, Constants
    <3> QED BY <1>5, <2>1, <3>1, <3>2, <3>3
  <2>2. CASE ~ (cur < Top)
    <3>1. cur = Top
      BY <1>3, <1>4, <2>2
    <3>2. to = Top /\ size = Size
      BY <1>3, <1>5, <2>2, <3>1
    <3>3. Size > 0
      BY <1>5, Constants
    <3> QED BY <1>3, <1>5, <2>2, <3>1, <3>2, <3>3
  <2> QED BY <2>1, <2>2
<1> HIDE DEF to, size
<1>7. /\ cur' = Top /\ Top' = Top /\ off'[Top] = off[Top] + size /\ \A b \in 1..rbuf : b # Top => off'[b] = off[b]
      /\ DOMAIN off' = 1..rbuf /\ Len(off') = Len(off)
  <2>1. Top' = Top
    BY <1>1 DEF Top
  <2> QED BY <1>1, <1>4, <1>6, <2>1
<1>8. NextOf(Top) = 0
  <2>1. Top \in 1..Top /\ ~ (Top < Top)
    BY <1>4
  <2> QED BY <2>1, NextInChain
<1>9. ib1' = IF off'[Top] = BufferSize THEN 0 ELSE Top
  BY <1>1, <1>6, <1>7, <1>8
<1>10. Line' = Line /\ Pos' = End
  <2>1. Line' = Line
    BY <1>1 DEF Line
  <2>2. Top # 0
    BY <1>4
  <2>3. Pos' = Base(Top) + off'[Top]
    BY <1>7, <2>2 DEF Pos, Base
  <2> QED BY <1>6, <1>7, <2>1, <2>3
<1>11. Chained'
  BY <1>1, <1>7 DEF Chained, Base
<1>12. \A b \in DOMAIN off' : off'[b] <= BufferSize /\ (b > cur' => off'[b] = 0)
  <2>1. \A b \in 1..rbuf : off[b] <= BufferSize /\ (b > cur => off[b] = 0)
    BY <1>4 DEF Stands
  <2>2. ASSUME NEW b \in 1..rbuf
        PROVE  off'[b] <= BufferSize /\ (b > Top => off'[b] = 0)
    <3>1. CASE b = Top
      BY <1>4, <1>6, <1>7, <3>1
    <3>2. CASE b # Top
      <4>1. b > Top => b > cur
        BY <1>3, <1>4
      <4> QED BY <1>7, <2>1, <3>2, <4>1
    <3> QED BY <3>1, <3>2
  <2> QED BY <1>7, <2>2
<1>13. Base(Top + 1) = Base(Top) + BufferSize /\ Base(Top) \in Int /\ Len(stream) \in Nat
  <2>1. Top \in Int
    BY <1>4
  <2> QED BY <2>1, NextBase, Streams
<1>14. ~ (ib1' = 0 /\ End < Len(stream))
  <2>1. ASSUME ib1' = 0
        PROVE  ~ (End < Len(stream))
    <3>1. off[Top] + size = BufferSize
      BY <1>4, <1>7, <1>9, <2>1
    <3>2. End = Base(Top + 1)
      BY <1>6, <1>13, <3>1
    <3>3. Base(Top + 1) \in Int /\ Len(stream) <= Base(Top + 1) /\ Len(stream) \in Nat
      BY <1>4, <1>13, Constants
    <3> QED BY <3>2, <3>3
  <2> QED BY <2>1
<1>15. Stands'
  <2>1. ib1' \in {0, cur'} /\ pc' # "destroyed"
    BY <1>1, <1>2, <1>7, <1>9
  <2>2. ~ (cur' < Top') /\ ~ (cur' + 1 < Top')
    BY <1>4, <1>7
  <2>3. Pos' <= Len(stream') /\ (Pos' < Len(Line') => Line'[Pos' + 1].at = 1)
    BY <1>1, <1>5, <1>10
  <2>4. ~ (ib1' = 0 /\ Pos' < Len(stream'))
    BY <1>1, <1>10, <1>14
  <2> QED BY <1>12, <2>1, <2>2, <2>3, <2>4, Zenon DEF Stands
<1>16. off'[Top] > 0 /\ off'[Top] <= BufferSize /\ off'[Top] > off[Top]
  BY <1>6, <1>7
<1> QED BY <1>3, <1>6, <1>7, <1>11, <1>15, <1>16 DEF to

LEMMA SendsStands ==
    ASSUME Types, Whole, Chained, Stands, PiSends
    PROVE  Chained' /\ Stands'
<1>1. UNCHANGED <<stream, rbuf, chain, canRel, cur, ib1, off, pc>>
  BY DEF PiSends, readVars, chainVars, bufVars
<1>2. Top' = Top /\ Pos' = Pos /\ Base(rbuf)' = Base(rbuf)
  BY <1>1 DEF Top, Pos, Base
<1>3. Chained'
  BY <1>1, <1>2 DEF Chained
<1>4. /\ Len(Line) <= Len(Line')
      /\ \A k \in 1..Len(Line) : Line'[k] = Line[k] /\ sent'[Line[k].pac] = sent[Line[k].pac]
      /\ Len(Line) < Len(Line') => Line'[Len(Line) + 1].at = 1
  BY SentWhole
<1>5. /\ Len(stream) \in Nat /\ Len(wire) \in Nat /\ Len(Line) = Len(stream) + Len(wire)
  BY Streams, Lines
<1>6. Pos \in Nat /\ Pos <= Len(stream) /\ (Pos < Len(Line) => Line[Pos + 1].at = 1)
  <2>1. Pos <= Len(stream) /\ (Pos < Len(Line) => Line[Pos + 1].at = 1)
    BY DEF Stands
  <2>2. Pos \in Nat
    <3>1. CASE cur = 0
      BY <3>1 DEF Pos
    <3>2. CASE cur # 0
      BY <3>2, ReachedType DEF Pos
    <3> QED BY <3>1, <3>2
  <2> QED BY <2>1, <2>2
<1>7. Pos < Len(Line) => End' = End
  <2>1. ASSUME Pos < Len(Line)
        PROVE  End' = End
    <3>1. Pos + 1 \in 1..Len(Line)
      BY <1>5, <1>6, <2>1
    <3>2. Line'[Pos + 1] = Line[Pos + 1] /\ sent'[Line[Pos + 1].pac] = sent[Line[Pos + 1].pac]
      BY <1>4, <3>1
    <3> QED BY <1>2, <3>2 DEF End
  <2> QED BY <2>1
<1>8. Pos' < Len(Line') => Line'[Pos' + 1].at = 1
  <2>1. CASE Pos < Len(Line)
    <3>1. Pos + 1 \in 1..Len(Line)
      BY <1>5, <1>6, <2>1
    <3> QED BY <1>2, <1>4, <1>6, <2>1, <3>1
  <2>2. CASE ~ (Pos < Len(Line))
    <3>1. Pos = Len(Line)
      BY <1>5, <1>6, <2>2
    <3> QED BY <1>2, <1>4, <3>1
  <2> QED BY <2>1, <2>2
<1>9. cur # 0 /\ cur < Top => Pos < Len(Line)
  <2>1. ASSUME cur # 0, cur < Top
        PROVE  Pos < Len(Line)
    <3>1. cur \in 1..Top /\ Top \in Nat /\ DOMAIN off = 1..rbuf /\ rbuf \in {Top, Top + 1} /\ rbuf \in Nat
      BY <2>1, Tops
    <3>2. Base(cur + 1) < Len(stream)
      BY <2>1, <3>1, Tops
    <3>3. cur \in 1..rbuf /\ cur \in Int
      BY <3>1
    <3>4. Pos = Base(cur) + off[cur] /\ off[cur] <= BufferSize /\ off[cur] \in Nat
      BY <2>1, <3>1, <3>3, ReachedType DEF Stands, Pos
    <3>5. Base(cur) \in Int /\ Base(cur + 1) = Base(cur) + BufferSize
      BY <3>3, NextBase
    <3> QED BY <1>5, <3>2, <3>4, <3>5, Constants
  <2> QED BY <2>1
<1>10. /\ ib1 \in {0, cur} /\ pc # "destroyed"
       /\ \A b \in DOMAIN off : off[b] <= BufferSize /\ (b > cur => off[b] = 0)
       /\ ib1 # 0 /\ cur < Top => End > Base(cur + 1)
       /\ ib1 = 0 /\ Pos < Len(stream) => End > Len(stream) \/ End > Base(cur + 2)
       /\ cur # 0 /\ cur + 1 < Top => End > Base(cur + 2)
  BY DEF Stands
<1>11. cur + 1 < Top /\ cur # 0 => cur < Top
  BY Tops
<1>12. Pos < Len(stream) => Pos < Len(Line)
  BY <1>5, <1>6
<1>13. ib1 # 0 => cur # 0
  BY <1>10
<1>14. Base(cur + 1)' = Base(cur + 1) /\ Base(cur + 2)' = Base(cur + 2)
  BY <1>1 DEF Base
<1>15. Stands'
  <2>1. /\ ib1 # 0 /\ cur < Top => End' > Base(cur + 1)
        /\ ib1 = 0 /\ Pos < Len(stream) => End' > Len(stream) \/ End' > Base(cur + 2)
        /\ cur # 0 /\ cur + 1 < Top => End' > Base(cur + 2)
    BY <1>7, <1>9, <1>10, <1>11, <1>12, <1>13, Zenon
  <2> QED BY <1>1, <1>2, <1>6, <1>8, <1>10, <1>14, <2>1, Zenon DEF Stands
<1> QED BY <1>3, <1>15

LEMMA StepTidy ==
    ASSUME Types, Tidy, [Next]_vars
    PROVE  Tidy'
<1>1. lost' = 0 => lost = 0 /\ Whole'
  BY ClearBefore, StepWhole DEF Tidy
<1>2. ASSUME Clear'
      PROVE  Chained' /\ Stands'
  <2>1. Clear /\ Whole /\ Chained /\ Stands
    BY <1>2, ClearBefore DEF Tidy, Clear
  <2>2. CASE PiSends
    BY <2>1, <2>2, SendsStands
  <2>3. CASE BeginRead /\ off' = Append(off, 0) /\ rbuf' = Len(off) + 1 /\ (rbuf = 0 \/ Full(rbuf))
    BY <2>1, <2>3, BeginChained
  <2>4. CASE \E n \in 1..BufferSize : Receive(n) /\ AppendBuffer /\ ib1' = cur' /\ pc' = "parse"
    BY <2>1, <2>4, ReceiveChained
  <2>5. CASE LoopEnds /\ ~ Decides
    BY <2>1, <2>5, EndsStands
  <2>6. CASE AcceptPacket
    BY <2>1, <2>6, AcceptStands
  <2>7. CASE BadData
    <3>1. Decides /\ (HeaderOk => ~ ChecksumOk)
      BY <2>7 DEF BadData
    <3> QED BY <2>1, <3>1, Deciding
  <2>8. CASE UNCHANGED <<stream, wire, sent, rbuf, chain, canRel, cur, ib1, off>> /\ (pc' # "destroyed" \/ UNCHANGED pc)
    <3>1. pc' # "destroyed"
      BY <2>1, <2>8 DEF Stands
    <3>2. Chained'
      BY <2>1, <2>8 DEF Chained, Top, Base
    <3> QED BY <2>1, <2>8, <3>1, <3>2, SameStands
  <2> QED BY <1>2, <2>1, <2>2, <2>3, <2>4, <2>5, <2>6, <2>7, <2>8, ClearSteps
<1> QED BY <1>1, <1>2 DEF Tidy

-----------------------------------------------------------------------------

\* The packets that point into buffer b.
In(b) == {p \in Outstanding : b \in {p.ib, p.to}}

\* Packets held have been handed on.
Seen == \A p \in held : \E i \in DOMAIN handled : handled[i] = p.sn

LEMMA Numbered ==
    ASSUME Types, Seen
    PROVE  /\ queue \in Seq(Pack) /\ held \subseteq Pack
           /\ \A p \in held : \E k \in 1..Len(handled) : k \in DOMAIN Sns /\ Sns[k] = p.sn
           /\ \A i \in 1..Len(queue) : Len(handled) + i \in DOMAIN Sns /\ Sns[Len(handled) + i] = queue[i].sn
           /\ Len(handled) \in Nat /\ Len(queue) \in Nat
<1>1. queue \in Seq(Pack) /\ held \subseteq Pack
  BY DEF Types, PackOK
<1>2. /\ handled \in Seq(Nat) /\ SnsOf(queue) \in Seq(Nat) /\ Len(SnsOf(queue)) = Len(queue)
  BY SnsOK
<1>3. \A i \in 1..Len(queue) : SnsOf(queue)[i] = queue[i].sn
  BY <1>1 DEF SnsOf
<1>4. PICK a \in Seq(Nat), b \in Seq(Nat) : a = handled /\ b = SnsOf(queue)
  BY <1>2
<1>5. /\ a \o b \in Seq(Nat) /\ Len(a \o b) = Len(a) + Len(b)
      /\ \A k \in 1..(Len(a) + Len(b)) : (a \o b)[k] = IF k <= Len(a) THEN a[k] ELSE b[k - Len(a)]
  BY Joined
<1>6. PICK s \in Seq(Nat) : s = Sns /\ s = a \o b
  BY <1>4, <1>5 DEF Sns
<1>7. PICK m \in Nat, n \in Nat : m = Len(a) /\ n = Len(b)
  OBVIOUS
<1>8. Len(s) = m + n /\ DOMAIN s = 1..(m + n) /\ \A k \in 1..(m + n) : s[k] = IF k <= m THEN a[k] ELSE b[k - m]
  <2>1. Len(s) = m + n /\ \A k \in 1..(m + n) : s[k] = IF k <= m THEN a[k] ELSE b[k - m]
    BY <1>5, <1>6, <1>7, Zenon
  <2>2. DOMAIN s = 1..Len(s)
    OBVIOUS
  <2> QED BY <2>1, <2>2
<1>9. ASSUME NEW p \in held
      PROVE  \E k \in 1..m : k \in DOMAIN s /\ s[k] = p.sn
  <2>1. PICK k \in 1..m : a[k] = p.sn
    BY <1>4, <1>7 DEF Seen
  <2>2. k \in 1..(m + n) /\ k <= m
    BY <1>7
  <2> QED BY <1>8, <2>1, <2>2
<1>10. ASSUME NEW i \in 1..n
       PROVE  m + i \in DOMAIN s /\ s[m + i] = queue[i].sn
  <2>1. m + i \in 1..(m + n) /\ ~ (m + i <= m) /\ (m + i) - m = i
    BY <1>7
  <2>2. b[i] = queue[i].sn
    BY <1>2, <1>3, <1>4, <1>7
  <2> QED BY <1>8, <2>1, <2>2
<1>11. Len(handled) = m /\ Len(queue) = n
  BY <1>2, <1>4, <1>7
<1> QED BY <1>1, <1>6, <1>9, <1>10, <1>11

LEMMA Newcomer ==
    ASSUME Types, Seen, NEW x, x.sn \in Nat, queue' = Append(queue, x), UNCHANGED <<handled, held>>,
           Ascending(Sns')
    PROVE  x \notin Outstanding /\ Outstanding' = Outstanding \cup {x}
<1>1. queue \in Seq(Pack) /\ Len(queue) \in Nat
  BY Numbered
<1> HIDE DEF Pack
<1>2. ToSet(queue') = ToSet(queue) \cup {x}
  BY <1>1 DEF ToSet
<1>3. Outstanding' = Outstanding \cup {x}
  BY <1>2 DEF Outstanding
<1>4. Sns' = Append(Sns, x.sn)
  BY AcceptedSns
<1>5. PICK s \in Seq(Nat) : s = Sns
  BY SnsOK
<1>6. PICK e \in Nat : e = x.sn
  OBVIOUS
<1>7. PICK n \in Nat : n = Len(s)
  OBVIOUS
<1>8. /\ DOMAIN s = 1..n /\ DOMAIN Append(s, e) = 1..(n + 1) /\ Append(s, e)[n + 1] = e
      /\ \A k \in 1..n : Append(s, e)[k] = s[k] /\ s[k] \in Nat
  BY <1>7
<1>9. \A k \in DOMAIN s : s[k] # e
  <2>1. Ascending(Append(s, e))
    BY <1>4, <1>5, <1>6, Zenon
  <2>2. \A k \in 1..n : k \in 1..(n + 1) /\ n + 1 \in 1..(n + 1) /\ k < n + 1
    BY <1>7
  <2>3. \A k \in 1..n : s[k] < e
    BY <1>8, <2>1, <2>2, Zenon DEF Ascending
  <2> QED BY <1>8, <2>3
<1>10. \A p \in Outstanding : \E k \in DOMAIN Sns : Sns[k] = p.sn
  <2>1. \A p \in ToSet(queue) : \E i \in 1..Len(queue) : p = queue[i]
    BY <1>1 DEF ToSet
  <2>2. \A p \in ToSet(queue) : \E k \in DOMAIN Sns : Sns[k] = p.sn
    BY <2>1, Numbered
  <2>3. \A p \in held : \E k \in DOMAIN Sns : Sns[k] = p.sn
    BY Numbered
  <2> QED BY <2>2, <2>3 DEF Outstanding
<1>11. x \notin Outstanding
  BY <1>5, <1>6, <1>9, <1>10
<1> QED BY <1>3, <1>11

LEMMA HeadAlone ==
    ASSUME Types, Seen, Ascending(Sns), queue # <<>>
    PROVE  /\ Head(queue) \in Pack /\ Head(queue) \notin held /\ Head(queue) \notin ToSet(Tail(queue))
           /\ ToSet(queue) = ToSet(Tail(queue)) \cup {Head(queue)}
<1>1. /\ queue \in Seq(Pack) /\ Len(queue) \in Nat /\ Len(handled) \in Nat
      /\ \A p \in held : \E k \in 1..Len(handled) : k \in DOMAIN Sns /\ Sns[k] = p.sn
      /\ \A i \in 1..Len(queue) : Len(handled) + i \in DOMAIN Sns /\ Sns[Len(handled) + i] = queue[i].sn
  BY Numbered
<1> HIDE DEF Pack
<1>2. PICK t \in Seq(Pack), x \in Pack :
          /\ t = Tail(queue) /\ x = Head(queue) /\ Len(queue) = Len(t) + 1 /\ queue[1] = x
          /\ \A i \in 1..Len(t) : t[i] = queue[i + 1]
          /\ Len(t) \in Nat
  <2>1. /\ Head(queue) \in Pack /\ Tail(queue) \in Seq(Pack) /\ Len(Tail(queue)) = Len(queue) - 1
        /\ \A i \in 1..Len(Tail(queue)) : Tail(queue)[i] = queue[i + 1]
    BY <1>1, HeadTailProperties
  <2>2. Len(queue) \in Nat /\ Head(queue) = queue[1]
    BY <1>1
  <2>3. Len(queue) = Len(Tail(queue)) + 1 /\ Len(Tail(queue)) \in Nat
    BY <2>1, <2>2
  <2> QED BY <2>1, <2>2, <2>3, Zenon
<1>3. PICK m \in Nat, n \in Nat : m = Len(handled) /\ n = Len(t) /\ Len(queue) = n + 1
  BY <1>1, <1>2
<1>4. ToSet(queue) = {queue[i] : i \in 1..(n + 1)} /\ ToSet(t) = {t[i] : i \in 1..n}
  <2>1. DOMAIN queue = 1..(n + 1)
    BY <1>1, <1>3
  <2>2. DOMAIN t = 1..n
    BY <1>3
  <2> QED BY <2>1, <2>2 DEF ToSet
<1>5. ToSet(queue) = ToSet(t) \cup {x}
  <2>1. ASSUME NEW i \in 1..(n + 1)
        PROVE  queue[i] \in ToSet(t) \cup {x}
    <3>1. CASE i = 1
      BY <1>2, <3>1
    <3>2. CASE i # 1
      <4>1. i - 1 \in 1..n /\ (i - 1) + 1 = i
        BY <1>3, <3>2
      <4>2. t[i - 1] = queue[i]
        BY <1>2, <1>3, <4>1
      <4> QED BY <1>4, <4>1, <4>2
    <3> QED BY <3>1, <3>2
  <2>2. ASSUME NEW i \in 1..n
        PROVE  t[i] \in ToSet(queue)
    <3>1. i + 1 \in 1..(n + 1)
      BY <1>3
    <3> QED BY <1>2, <1>3, <1>4, <3>1
  <2>3. x \in ToSet(queue)
    <3>1. 1 \in 1..(n + 1)
      BY <1>3
    <3> QED BY <1>2, <1>4, <3>1
  <2> QED BY <1>4, <2>1, <2>2, <2>3
<1>6. \A i, j \in DOMAIN Sns : i < j => Sns[i] # Sns[j]
  <2>1. \A i \in DOMAIN Sns : Sns[i] \in Int
    BY SnsOK, Streams
  <2>2. \A i, j \in DOMAIN Sns : i < j => Sns[i] < Sns[j]
    BY DEF Ascending
  <2> HIDE DEF Sns
  <2> QED BY <2>1, <2>2
<1>7. m + 1 \in DOMAIN Sns /\ Sns[m + 1] = x.sn
  <2>1. 1 \in 1..(n + 1)
    BY <1>3
  <2> QED BY <1>1, <1>2, <1>3, <2>1
<1>8. x \notin held
  <2>1. ASSUME x \in held
        PROVE  FALSE
    <3>1. PICK k \in 1..m : k \in DOMAIN Sns /\ Sns[k] = x.sn
      BY <1>1, <1>3, <2>1
    <3>2. k < m + 1
      BY <1>3
    <3> QED BY <1>6, <1>7, <3>1, <3>2
  <2> QED BY <2>1
<1>9. x \notin ToSet(t)
  <2>1. ASSUME NEW i \in 1..n, x = t[i]
        PROVE  FALSE
    <3>1. i + 1 \in 1..(n + 1) /\ m + 1 < m + (i + 1)
      BY <1>3
    <3>2. queue[i + 1] = x
      BY <1>2, <1>3, <2>1
    <3>3. m + (i + 1) \in DOMAIN Sns /\ Sns[m + (i + 1)] = x.sn
      BY <1>1, <1>3, <3>1, <3>2
    <3> QED BY <1>6, <1>7, <3>1, <3>3
  <2> QED BY <1>4, <2>1
<1> QED BY <1>2, <1>5, <1>8, <1>9

LEMMA StepSeen ==
    ASSUME Types, Seen, [Next]_vars
    PROVE  Seen'
<1>1. handled \in Seq(1..Len(sent)) /\ queue \in Seq(Pack)
  BY DEF Types, PackOK
<1> HIDE DEF Pack
<1>2. CASE HandlePacket
  <2>1. handled' = Append(handled, Head(queue).sn) /\ held' \subseteq held \cup {Head(queue)}
    BY <1>2 DEF HandlePacket
  <2>2. PICK e : e = Head(queue).sn
    OBVIOUS
  <2>3. PICK n \in Nat : n = Len(handled)
    BY <1>1
  <2>4. /\ DOMAIN handled = 1..n /\ DOMAIN handled' = 1..(n + 1) /\ handled'[n + 1] = e
        /\ \A i \in 1..n : handled'[i] = handled[i] /\ i \in 1..(n + 1)
        /\ n + 1 \in 1..(n + 1)
    BY <1>1, <2>1, <2>2, <2>3
  <2> QED BY <2>1, <2>2, <2>4, Zenon DEF Seen
<1>3. CASE held' \subseteq held /\ handled' = handled
  BY <1>3 DEF Seen
<1>4. HandlePacket \/ (held' \subseteq held /\ handled' = handled)
  BY DEF Next, Server, vars, packetVars, Receive, BeginRead, NoReadBuffer, LoopEnds, AcceptPacket, BadData,
         PassDone, ReadFails, ReleaseHeld, DestroyPacketReader, PiSends, LoseWord
<1> QED BY <1>2, <1>3, <1>4

\* Where the packets are that have been accepted, and what keeps buffers alive.
Kept ==
    /\ IsFiniteSet(Outstanding)
    /\ \A p \in Outstanding :
          p.to = Top /\ p.to = cur /\ p.ib \in {Top, Top - 1} \ {0} /\ p.ib \in live
    /\ cur # 0 => Cardinality(Outstanding) <= off[cur]
    /\ \A b \in live : count[b] = Cardinality(In(b))
    /\ \A b \in DOMAIN off : b >= cur => b \in live
    /\ \A b \in live : b < cur => \E p \in Outstanding : p.ib = b

Settled == pc = "idle" => queue = <<>>

LEMMA StepSettled == Settled /\ [Next]_vars => Settled'
BY DEF Settled, Next, Server, vars, Receive, BeginRead, NoReadBuffer, LoopEnds, AcceptPacket, BadData,
       Decides, HandlePacket, PassDone, ReadFails, ReleaseHeld, DestroyPacketReader, PiSends, LoseWord

LEMMA Within ==
    ASSUME NEW c \in 0..(CountMod - 1)
    PROVE  c % CountMod = c
BY Constants

LEMMA Members ==
    ASSUME Kept, NEW b
    PROVE  IsFiniteSet(In(b)) /\ Cardinality(In(b)) \in Nat /\ Cardinality(In(b)) <= Cardinality(Outstanding)
<1>1. IsFiniteSet(Outstanding) /\ In(b) \in SUBSET Outstanding
  BY DEF Kept, In
<1>2. IsFiniteSet(In(b)) /\ Cardinality(In(b)) <= Cardinality(Outstanding)
  BY <1>1, FS_Subset
<1> QED BY <1>2, FS_CardinalityType

\* Nothing of it is disturbed when buffers and packets stay.
LEMMA SameKept ==
    ASSUME Kept, Outstanding' = Outstanding, UNCHANGED <<rbuf, chain, cur, off, count, live>>
    PROVE  Kept'
<1>1. Top' = Top /\ \A b : In(b)' = In(b)
  BY DEF Top, In
<1> QED BY <1>1 DEF Kept

LEMMA ReleaseCounts ==
    ASSUME Types, Chained, Kept, NEW p \in Outstanding, ReleaseInPacket(p)
    PROVE  /\ p.to = Top /\ Top = cur /\ Top \in Nat /\ p.ib \in 1..Top /\ p.ib \in {Top, Top - 1}
           /\ p.ib \in live /\ Top \in live /\ live \subseteq DOMAIN count
           /\ \A b \in live : count[b] \in Nat
           /\ \A b \in live : count'[b] = IF b \in {p.ib, p.to} THEN count[b] - 1 ELSE count[b]
           /\ live' = live \ (IF p.ib < Top /\ count[p.ib] = 1 THEN {p.ib} ELSE {})
<1>1. p.to = Top /\ p.to = cur /\ p.ib \in {Top, Top - 1} \ {0} /\ p.ib \in live
  BY DEF Kept
<1>2. PICK t \in Nat, r \in Nat, i \in {p.ib} : /\ t = Top /\ r = rbuf /\ i = p.ib /\ r \in {t, t + 1}
  BY Tops
<1>3. cur \in 0..t /\ DOMAIN off = 1..r /\ canRel = 1..(t - 1)
  BY <1>2, Tops DEF Chained
<1>a. /\ count \in Seq(0..(CountMod - 1)) /\ Len(count) = Len(off) /\ live \subseteq DOMAIN off
      /\ off \in Seq(Nat) /\ r = Len(off)
  BY <1>2 DEF Types, BufOK, Chained
<1>4. DOMAIN count = 1..r /\ live \subseteq 1..r
  <2>1. live \subseteq 1..r
    BY <1>3, <1>a, Zenon
  <2>2. PICK c \in Seq(0..(CountMod - 1)) : c = count /\ Len(c) = r
    BY <1>a
  <2>3. DOMAIN c = 1..Len(c)
    OBVIOUS
  <2> QED BY <2>1, <2>2, <2>3, Zenon
<1>5. i \in 1..t /\ t \in 1..r /\ cur = t /\ t # 0 /\ i \in {t, t - 1} /\ i \in live /\ p.to = t
  <2>1. i \in 1..r /\ i \in {t, t - 1} /\ cur = t /\ i \in live /\ p.to = t
    BY <1>1, <1>2, <1>4, Zenon
  <2>2. i \in 1..t /\ t \in 1..r /\ t # 0
    BY <1>2, <2>1
  <2> QED BY <2>1, <2>2
<1>6. t \in live
  <2>1. t \in DOMAIN off /\ t >= cur
    <3>1. t >= t
      BY <1>2
    <3> QED BY <1>3, <1>5, <3>1, Zenon
  <2> QED BY <2>1 DEF Kept
<1>7. \A b \in live : count[b] \in 0..(CountMod - 1) /\ count[b] = Cardinality(In(b)) /\ count[b] \in Nat
  <2>0. \A S : \A c \in Seq(S) : \A b \in DOMAIN c : c[b] \in S
    OBVIOUS
  <2>1. \A b \in DOMAIN count : count[b] \in 0..(CountMod - 1)
    BY <1>a, <2>0, Zenon
  <2>2. \A x \in 0..(CountMod - 1) : x \in Nat
    BY Constants
  <2> QED BY <1>4, <2>1, <2>2, Zenon DEF Kept
<1>8. \A b \in {i, t} : count[b] >= 1 /\ count[b] \in 0..(CountMod - 1)
  <2>1. ASSUME NEW b \in {i, t}
        PROVE  count[b] >= 1 /\ count[b] \in 0..(CountMod - 1)
    <3>1. p \in In(b)
      BY <1>2, <1>5, <2>1 DEF In
    <3>2. Cardinality(In(b)) # 0 /\ Cardinality(In(b)) \in Nat
      BY <3>1, Members, FS_EmptySet
    <3>3. b \in live
      BY <1>5, <1>6, <2>1
    <3> QED BY <1>7, <3>2, <3>3
  <2> QED BY <2>1
<1>9. ASSUME NEW c, c \in 0..(CountMod - 1), c >= 1
      PROVE  (c - 1) % CountMod = c - 1
  <2>1. c - 1 \in 0..(CountMod - 1)
    BY <1>9, Constants
  <2> QED BY <2>1, Within
<1> DEFINE next == NextOf(i)
           c1 == CountDown(count, i)
           c2 == IF next = 0 THEN c1 ELSE CountDown(c1, next)
<1>10. next = IF i < t THEN t ELSE 0
  <2>1. next = IF i < t THEN i + 1 ELSE 0
    <3>1. i \in 1..Top
      BY <1>2, <1>5, Zenon
    <3> QED BY <1>2, <3>1, NextInChain
  <2>2. i < t => i + 1 = t
    BY <1>2, <1>5
  <2> QED BY <2>1, <2>2
<1>11. /\ count' = c2
       /\ live' = live \ (Gone(c1, i) \cup (IF next = 0 THEN {} ELSE Gone(c2, next)))
  BY <1>2 DEF ReleaseInPacket
<1> HIDE DEF next
<1>12. /\ DOMAIN c1 = 1..r
       /\ \A b \in 1..r : c1[b] = IF b = i THEN count[b] - 1 ELSE count[b]
  <2>1. count[i] \in 0..(CountMod - 1) /\ count[i] >= 1
    BY <1>8
  <2>2. (count[i] - 1) % CountMod = count[i] - 1
    BY <1>9, <2>1
  <2>3. c1 = [count EXCEPT ![i] = count[i] - 1]
    BY <2>2 DEF CountDown
  <2>4. i \in 1..r
    BY <1>4, <1>5
  <2> HIDE DEF c1
  <2> QED BY <1>4, <2>3, <2>4
<1> HIDE DEF c1
<1>13. \A b \in live : count'[b] = IF b \in {i, t} THEN count[b] - 1 ELSE count[b]
  <2>1. CASE i = t
    <3>1. next = 0
      BY <1>2, <1>10, <2>1
    <3> QED BY <1>4, <1>11, <1>12, <2>1, <3>1
  <2>2. CASE i # t
    <3>1. next = t /\ t # 0
      BY <1>2, <1>5, <1>10, <2>2
    <3>2. c2 = [c1 EXCEPT ![t] = count[t] - 1]
      <4>1. c1[t] = count[t]
        BY <1>5, <1>12, <2>2
      <4>2. (count[t] - 1) % CountMod = count[t] - 1
        BY <1>8, <1>9
      <4> QED BY <3>1, <4>1, <4>2 DEF CountDown
    <3> HIDE DEF c2
    <3>3. \A b \in 1..r : c2[b] = IF b = t THEN count[t] - 1 ELSE c1[b]
      BY <1>12, <3>2
    <3> QED BY <1>4, <1>11, <1>12, <2>2, <3>3
  <2> QED BY <2>1, <2>2
<1>14. live' = live \ (IF i < t /\ count[i] = 1 THEN {i} ELSE {})
  <2>1. t \notin canRel
    BY <1>2, <1>3
  <2>2. Gone(c2, t) = {} /\ Gone(c1, t) = {}
    BY <2>1 DEF Gone
  <2>3. CASE i = t
    <3>1. next = 0 /\ ~ (i < t)
      BY <1>2, <1>10, <2>3
    <3> QED BY <1>11, <2>2, <2>3, <3>1
  <2>4. CASE i # t
    <3>1. next = t /\ t # 0 /\ i < t /\ i \in canRel
      BY <1>2, <1>3, <1>5, <1>10, <2>4
    <3>2. c1[i] = 0 <=> count[i] = 1
      <4>1. c1[i] = count[i] - 1
        BY <1>4, <1>5, <1>12
      <4>2. \A x \in Nat : x - 1 = 0 <=> x = 1
        OBVIOUS
      <4> QED BY <1>5, <1>7, <4>1, <4>2
    <3>3. Gone(c1, i) = IF count[i] = 1 THEN {i} ELSE {}
      BY <3>1, <3>2 DEF Gone
    <3> QED BY <1>11, <2>2, <3>1, <3>3
  <2> QED BY <2>3, <2>4
<1> QED BY <1>2, <1>4, <1>5, <1>6, <1>7, <1>13, <1>14, Zenon

LEMMA ReleaseKept ==
    ASSUME Types, Chained, Kept, NEW p \in Outstanding, ReleaseInPacket(p),
           Outstanding' = Outstanding \ {p}, UNCHANGED <<rbuf, chain, canRel, cur, off>>
    PROVE  Kept'
<1>1. /\ p.to = Top /\ Top = cur /\ Top \in Nat /\ p.ib \in 1..Top /\ p.ib \in {Top, Top - 1}
      /\ p.ib \in live /\ Top \in live /\ live \subseteq DOMAIN count
      /\ \A b \in live : count[b] \in Nat
      /\ \A b \in live : count'[b] = IF b \in {p.ib, p.to} THEN count[b] - 1 ELSE count[b]
      /\ live' = live \ (IF p.ib < Top /\ count[p.ib] = 1 THEN {p.ib} ELSE {})
  BY ReleaseCounts
<1>2. /\ IsFiniteSet(Outstanding)
      /\ \A q \in Outstanding :
            q.to = Top /\ q.to = cur /\ q.ib \in {Top, Top - 1} \ {0} /\ q.ib \in live
      /\ cur # 0 => Cardinality(Outstanding) <= off[cur]
      /\ \A b \in live : count[b] = Cardinality(In(b))
      /\ \A b \in DOMAIN off : b >= cur => b \in live
      /\ \A b \in live : b < cur => \E q \in Outstanding : q.ib = b
  BY DEF Kept
<1>3. Top' = Top
  BY DEF Top
<1>4. \A b : In(b)' = IF b \in {p.ib, p.to} THEN In(b) \ {p} ELSE In(b)
  BY DEF In
<1>5. ASSUME NEW b \in live
      PROVE  count'[b] = Cardinality(In(b)')
  <2>1. IsFiniteSet(In(b)) /\ Cardinality(In(b)) \in Nat
    BY Members
  <2>2. Cardinality(In(b) \ {p}) = IF p \in In(b) THEN Cardinality(In(b)) - 1 ELSE Cardinality(In(b))
    BY <2>1, FS_RemoveElement
  <2>3. b \in {p.ib, p.to} => p \in In(b)
    BY DEF In
  <2> QED BY <1>1, <1>2, <1>4, <2>2, <2>3
<1>6. IsFiniteSet(Outstanding') /\ Cardinality(Outstanding') = Cardinality(Outstanding) - 1
      /\ Cardinality(Outstanding) \in Nat
  BY <1>2, FS_RemoveElement, FS_CardinalityType
<1>7. ASSUME NEW q \in Outstanding, q # p
      PROVE  q.ib \in live'
  <2>1. CASE q.ib = p.ib
    <3>1. p \in In(p.ib) /\ q \in In(p.ib) \ {p}
      BY <1>7, <2>1 DEF In
    <3>2. Cardinality(In(p.ib) \ {p}) # 0
      <4>1. IsFiniteSet(In(p.ib))
        BY Members
      <4>2. IsFiniteSet(In(p.ib) \ {p})
        BY <4>1, FS_RemoveElement
      <4> QED BY <3>1, <4>2, FS_EmptySet
    <3>3. Cardinality(In(p.ib) \ {p}) = Cardinality(In(p.ib)) - 1
      BY <3>1, Members, FS_RemoveElement
    <3>4. count[p.ib] # 1
      BY <1>1, <1>2, <3>2, <3>3
    <3> QED BY <1>1, <2>1, <3>4
  <2>2. CASE q.ib # p.ib
    BY <1>1, <1>2, <2>2
  <2> QED BY <2>1, <2>2
<1>8. ASSUME NEW b \in live', b < cur
      PROVE  \E q \in Outstanding \ {p} : q.ib = b
  <2>1. b \in live
    BY <1>1
  <2>2. PICK q \in Outstanding : q.ib = b
    BY <1>2, <1>8, <2>1
  <2>3. CASE q = p
    <3>1. b = p.ib /\ p.ib < Top /\ count[p.ib] # 1
      BY <1>1, <1>8, <2>2, <2>3
    <3>2. p \in In(b)
      BY <3>1 DEF In
    <3>3. Cardinality(In(b) \ {p}) = Cardinality(In(b)) - 1 /\ IsFiniteSet(In(b) \ {p})
      BY <3>2, Members, FS_RemoveElement
    <3>4. Cardinality(In(b) \ {p}) # 0
      BY <1>1, <1>2, <3>1, <3>3
    <3>5. PICK r \in In(b) \ {p} : TRUE
      BY <3>3, <3>4, FS_EmptySet
    <3>6. r \in Outstanding /\ r # p /\ r.ib = b
      BY <1>1, <1>2, <3>1, <3>5 DEF In
    <3> QED BY <3>6
  <2>4. CASE q # p
    BY <2>2, <2>4
  <2> QED BY <2>3, <2>4
<1>9. \A b \in DOMAIN off : b >= cur => b \in live'
  <2>1. p.ib < Top => ~ (p.ib >= cur)
    BY <1>1
  <2> QED BY <1>1, <1>2, <2>1
<1>10. cur # 0 => Cardinality(Outstanding') <= off[cur]
  <2>1. ASSUME cur # 0
        PROVE  Cardinality(Outstanding') <= off[cur]
    <3>1. off[cur] \in Nat
      BY <1>1, <2>1, Tops
    <3> QED BY <1>2, <1>6, <2>1, <3>1
  <2> QED BY <2>1
<1>11. live' \subseteq live
  BY <1>1
<1> QED BY <1>2, <1>3, <1>5, <1>6, <1>7, <1>8, <1>9, <1>10, <1>11 DEF Kept

LEMMA BeginKept ==
    ASSUME Types, Chained, Kept, BeginRead, off' = Append(off, 0), rbuf' = Len(off) + 1,
           rbuf = 0 \/ Full(rbuf), Top' = Top
    PROVE  Kept'
<1>1. /\ UNCHANGED <<chain, cur, queue, held>> /\ count' = Append(count, 0) /\ live' = live \cup {rbuf'}
  BY DEF BeginRead, chainVars, packetVars, bufVars, Types, BufOK
<1>2. PICK r \in Nat : r = rbuf /\ r = Len(off) /\ off \in Seq(Nat) /\ count \in Seq(Nat) /\ Len(count) = r
              /\ live \subseteq 1..r /\ cur \in 0..r /\ Top \in 0..r
  <2>1. /\ rbuf \in Nat /\ DOMAIN off = 1..rbuf /\ rbuf \in {Top, Top + 1} /\ cur \in 0..Top /\ Top \in Nat
    BY Tops
  <2>2. rbuf = Len(off) /\ off \in Seq(Nat) /\ Len(count) = Len(off) /\ live \subseteq DOMAIN off
    BY DEF Chained, Types, BufOK
  <2>3. count \in Seq(Nat)
    <3>1. 0..(CountMod - 1) \subseteq Nat
      BY Constants
    <3>2. count \in Seq(0..(CountMod - 1))
      BY DEF Types, BufOK
    <3> QED BY <3>1, <3>2, Wider
  <2>4. cur \in 0..rbuf /\ Top \in 0..rbuf
    BY <2>1
  <2> QED BY <2>1, <2>2, <2>3, <2>4, Zenon
<1>3. /\ DOMAIN off = 1..r /\ DOMAIN off' = 1..(r + 1) /\ off'[r + 1] = 0 /\ \A b \in 1..r : off'[b] = off[b]
      /\ count'[r + 1] = 0 /\ \A b \in 1..r : count'[b] = count[b]
  BY <1>1, <1>2
<1>4. live' = live \cup {r + 1} /\ r + 1 \notin live /\ \A b \in 1..(r + 1) : b \in 1..r \/ b = r + 1
  BY <1>1, <1>2
<1>5. Outstanding' = Outstanding /\ \A b : In(b)' = In(b)
  BY <1>1 DEF Outstanding, In
<1>6. /\ IsFiniteSet(Outstanding)
      /\ \A q \in Outstanding :
            q.to = Top /\ q.to = cur /\ q.ib \in {Top, Top - 1} \ {0} /\ q.ib \in live
      /\ cur # 0 => Cardinality(Outstanding) <= off[cur]
      /\ \A b \in live : count[b] = Cardinality(In(b))
      /\ \A b \in DOMAIN off : b >= cur => b \in live
      /\ \A b \in live : b < cur => \E q \in Outstanding : q.ib = b
  BY DEF Kept
<1>7. In(r + 1) = {}
  <2>1. \A q \in Outstanding : q.ib # r + 1 /\ q.to # r + 1
    <3>1. r + 1 # cur
      BY <1>2
    <3> QED BY <1>4, <1>6, <3>1
  <2> QED BY <2>1 DEF In
<1>8. \A b \in live' : count'[b] = Cardinality(In(b)')
  <2>1. Cardinality(In(r + 1)) = 0
    BY <1>7, FS_EmptySet
  <2>2. \A b \in live : count'[b] = Cardinality(In(b))
    BY <1>2, <1>3, <1>6
  <2> QED BY <1>3, <1>4, <1>5, <2>1, <2>2
<1>9. \A b \in DOMAIN off' : b >= cur => b \in live'
  BY <1>3, <1>4, <1>6
<1>10. \A b \in live' : b < cur => \E q \in Outstanding : q.ib = b
  <2>1. ~ (r + 1 < cur)
    BY <1>2
  <2> QED BY <1>4, <1>6, <2>1
<1>11. cur # 0 => off'[cur] = off[cur]
  BY <1>2, <1>3
<1> QED BY <1>1, <1>4, <1>5, <1>6, <1>8, <1>9, <1>10, <1>11 DEF Kept

LEMMA ReceiveKept ==
    ASSUME Types, Chained, Stands, Kept, Settled, NEW n \in 1..BufferSize, Receive(n), AppendBuffer, ib1' = cur',
           ~ crossed', Top' = rbuf
    PROVE  Kept'
<1>1. /\ UNCHANGED <<rbuf, off, count, live, queue, held>> /\ pc = "idle" /\ rbuf # 0
      /\ cur' = IF cur = 0 THEN rbuf ELSE cur
  <2>1. ContinueRead(n) /\ UNCHANGED <<rbuf, off, count, live, queue, held>> /\ pc = "idle"
    BY DEF Receive, bufVars, packetVars
  <2>2. rbuf \in 1..Len(off)
    BY <2>1, Reads
  <2>3. rbuf # 0
    BY <2>2
  <2> QED BY <2>1, <2>3 DEF AppendBuffer
<1>2. Outstanding' = Outstanding /\ (\A b : In(b)' = In(b)) /\ DOMAIN off' = DOMAIN off
  BY <1>1 DEF Outstanding, In
<1>3. /\ IsFiniteSet(Outstanding)
      /\ \A q \in Outstanding :
            q.to = Top /\ q.to = cur /\ q.ib \in {Top, Top - 1} \ {0} /\ q.ib \in live
      /\ cur # 0 => Cardinality(Outstanding) <= off[cur]
      /\ \A b \in live : count[b] = Cardinality(In(b))
      /\ \A b \in DOMAIN off : b >= cur => b \in live
      /\ \A b \in live : b < cur => \E q \in Outstanding : q.ib = b
  BY DEF Kept
<1>4. /\ Top \in Nat /\ rbuf \in Nat /\ rbuf \in {Top, Top + 1} /\ cur \in 0..Top /\ (rbuf \in chain => rbuf = Top)
      /\ DOMAIN off = 1..rbuf
  BY Tops
<1>5. CASE rbuf \in chain
  <2>1. Top = rbuf
    BY <1>4, <1>5
  <2>2. cur' = cur
    BY <1>1, <1>5 DEF Types, LoopOK
  <2> QED BY <1>1, <1>2, <1>3, <2>1, <2>2 DEF Kept
<1>6. CASE rbuf \notin chain
  <2>1. queue = <<>> /\ held = {}
    <3>1. crossed' = (crossed \/ (held # {} /\ rbuf \notin chain))
      BY <1>1 DEF Receive, AppendBuffer, chainVars
    <3> QED BY <1>1, <1>6, <3>1 DEF Settled
  <2>2. Outstanding = {}
    BY <2>1 DEF Outstanding, ToSet
  <2>3. cur' # 0 => Cardinality(Outstanding) <= off[cur']
    <3>1. cur' \in 1..rbuf
      BY <1>1, <1>4
    <3>2. off[cur'] \in Nat
      BY <3>1, Tops
    <3> QED BY <2>2, <3>2, FS_EmptySet
  <2>4. \A b \in DOMAIN off : b >= cur' => b \in live
    BY <1>1, <1>3, <1>4
  <2>5. \A b \in live : ~ (b < cur')
    <3>1. \A b \in live : ~ (b < cur)
      BY <1>3, <2>2
    <3>2. CASE cur = 0
      <4>1. Top = 0
        BY <1>1, <1>4, <3>2 DEF Types, LoopOK, Chained
      <4>2. cur' = 1
        BY <1>1, <1>4, <3>2, <4>1
      <4>3. live \subseteq 1..rbuf
        BY <1>4 DEF Types, BufOK
      <4> QED BY <1>4, <4>2, <4>3
    <3>3. CASE cur # 0
      BY <1>1, <3>1, <3>3
    <3> QED BY <3>2, <3>3
  <2> QED BY <1>1, <1>2, <1>3, <2>2, <2>3, <2>4, <2>5 DEF Kept
<1> QED BY <1>5, <1>6

LEMMA AcceptKept ==
    ASSUME Types, Whole, Chained, Stands, Kept, Seen, AcceptPacket, Ascending(Sns')
    PROVE  Kept'
<1>1. /\ cur' = Top /\ ib1 = cur /\ cur \in 1..Top
      /\ (IF Splits THEN ib2 ELSE ib1) = Top /\ Top \in {cur, cur + 1}
      /\ off'[Top] > 0 /\ off'[Top] <= BufferSize
      /\ off'[Top] > off[Top]
  BY AcceptStands
<1>2. PICK t \in Nat, r \in Nat, c \in Nat :
         /\ t = Top /\ r = rbuf /\ c = cur /\ r \in {t, t + 1} /\ DOMAIN off = 1..r
         /\ c \in 1..t /\ t \in {c, c + 1} /\ t \in 1..r /\ c \in 1..r
  <2>1. Top \in Nat /\ rbuf \in Nat /\ rbuf \in {Top, Top + 1} /\ DOMAIN off = 1..rbuf
    BY Tops
  <2>2. cur \in Nat /\ Top \in 1..rbuf /\ cur \in 1..rbuf
    BY <1>1, <2>1
  <2> QED BY <1>1, <2>1, <2>2, Zenon
<1>3. PICK x :
         /\ x.sn = Ahead[1].pac /\ x.ib = c /\ x.to = t
         /\ queue' = Append(queue, x)
         /\ count' = [b \in DOMAIN count |-> IF b \in {c, t} THEN (count[b] + 1) % CountMod ELSE count[b]]
         /\ UNCHANGED <<held, handled, live, rbuf, chain>>
         /\ DOMAIN off' = DOMAIN off
  BY <1>1, <1>2 DEF AcceptPacket, AddTail, packetVars, readVars
<1>4. x.sn \in Nat
  <2>1. Decides
    BY DEF AcceptPacket
  <2>2. Ahead[1] \in SentWord
    BY <2>1, Decided
  <2> QED BY <1>3, <2>2 DEF SentWord
<1>5. x \notin Outstanding /\ Outstanding' = Outstanding \cup {x}
  BY <1>3, <1>4, Newcomer
<1>6. /\ IsFiniteSet(Outstanding)
      /\ \A q \in Outstanding : q.to = t /\ q.to = c /\ q.ib \in {t, t - 1} \ {0} /\ q.ib \in live
      /\ Cardinality(Outstanding) <= off[c]
      /\ \A b \in live : count[b] = Cardinality(In(b))
      /\ \A b \in 1..r : b >= c => b \in live
      /\ \A b \in live : b < c => \E q \in Outstanding : q.ib = b
  <2>1. c # 0
    BY <1>2
  <2> QED BY <1>2, <2>1 DEF Kept
<1>7. c \in live /\ t \in live
  <2>1. c >= c /\ t >= c
    BY <1>2
  <2> QED BY <1>2, <1>6, <2>1
<1>8. Top' = t
  BY <1>2, <1>3 DEF Top
<1>9. c # t => Outstanding = {}
  BY <1>6
<1>10. IsFiniteSet(Outstanding') /\ Cardinality(Outstanding') = Cardinality(Outstanding) + 1
       /\ Cardinality(Outstanding) \in Nat
  BY <1>5, <1>6, FS_AddElement, FS_CardinalityType
<1>11. off'[t] \in Nat /\ off[t] \in Nat
  <2>1. \A b \in 1..rbuf : off[b] \in Nat
    BY Tops
  <2>2. off[t] \in Nat
    BY <1>2, <2>1
  <2>3. off' \in Seq(Nat)
    BY StepTypes DEF Types, BufOK, Next, Server
  <2> QED BY <1>2, <1>3, <2>2, <2>3
<1>12. Cardinality(Outstanding') <= off'[t]
  <2>1. CASE c = t
    BY <1>1, <1>2, <1>6, <1>10, <1>11, <2>1
  <2>2. CASE c # t
    <3>1. Cardinality(Outstanding) = 0
      BY <1>9, <2>2, FS_EmptySet
    <3> QED BY <1>1, <1>2, <1>10, <1>11, <3>1
  <2> QED BY <2>1, <2>2
<1>13. \A b : In(b)' = IF b \in {c, t} THEN In(b) \cup {x} ELSE In(b)
  BY <1>3, <1>5 DEF In
<1>14. live \subseteq DOMAIN count
  <2>1. Len(count) = Len(off) /\ live \subseteq DOMAIN off /\ count \in Seq(0..(CountMod - 1)) /\ off \in Seq(Nat)
    BY DEF Types, BufOK
  <2>2. \A S : \A s \in Seq(S) : DOMAIN s = 1..Len(s)
    OBVIOUS
  <2> QED BY <2>1, <2>2, Zenon
<1>15. ASSUME NEW b \in live
       PROVE  count'[b] = Cardinality(In(b)')
  <2>1. IsFiniteSet(In(b)) /\ Cardinality(In(b)) \in Nat /\ Cardinality(In(b)) <= Cardinality(Outstanding)
    BY Members
  <2>2. CASE b \in {c, t}
    <3>1. x \notin In(b)
      BY <1>5 DEF In
    <3>2. Cardinality(In(b) \cup {x}) = Cardinality(In(b)) + 1
      BY <2>1, <3>1, FS_AddElement
    <3>3. Cardinality(In(b)) + 1 \in 0..(CountMod - 1)
      <4>1. Cardinality(In(b)) + 1 <= BufferSize
        BY <1>1, <1>2, <1>10, <1>11, <1>12, <2>1, Constants
      <4> QED BY <2>1, <4>1, Constants
    <3>4. (Cardinality(In(b)) + 1) % CountMod = Cardinality(In(b)) + 1
      BY <3>3, Within
    <3>5. count'[b] = (count[b] + 1) % CountMod
      BY <1>3, <1>14, <2>2
    <3>6. count[b] = Cardinality(In(b))
      BY <1>6
    <3> QED BY <1>13, <2>2, <3>2, <3>4, <3>5, <3>6
  <2>3. CASE b \notin {c, t}
    <3>1. count'[b] = count[b]
      BY <1>3, <1>14, <2>3
    <3> QED BY <1>6, <1>13, <2>3, <3>1
  <2> QED BY <2>2, <2>3
<1>16. \A q \in Outstanding' : q.to = t /\ q.ib \in {t, t - 1} \ {0} /\ q.ib \in live
  <2>1. c \in {t, t - 1} \ {0}
    BY <1>2
  <2> QED BY <1>3, <1>5, <1>6, <1>7, <2>1
<1>17. \A b \in 1..r : b >= t => b \in live
  <2>1. \A b \in 1..r : b >= t => b >= c
    BY <1>2
  <2> QED BY <1>6, <2>1
<1>18. ASSUME NEW b \in live, b < t
       PROVE  \E q \in Outstanding' : q.ib = b
  <2>1. b \in 1..r
    BY <1>2 DEF Types, BufOK
  <2>2. CASE b = c
    BY <1>3, <1>5, <2>2
  <2>3. CASE b # c
    <3>1. b < c
      BY <1>2, <1>18, <2>1, <2>3
    <3> QED BY <1>5, <1>6, <3>1
  <2> QED BY <2>2, <2>3
<1>19. cur' = t /\ DOMAIN off' = 1..r
  BY <1>1, <1>2, <1>3
<1> QED BY <1>3, <1>8, <1>10, <1>12, <1>15, <1>16, <1>17, <1>18, <1>19 DEF Kept

-----------------------------------------------------------------------------

PromptInv == Tidy /\ Seen /\ Settled /\ (Clear /\ ~ crossed => Kept)

LEMMA StepKept ==
    ASSUME ReaderInv, PromptInv, [Next]_vars, Clear', ~ crossed'
    PROVE  Kept'
<1>1. /\ Types /\ Whole /\ Chained /\ Stands /\ Seen /\ Settled /\ Clear /\ Ascending(Sns)
  BY ClearBefore DEF ReaderInv, PromptInv, Tidy, Clear
<1>2. Types' /\ Tidy' /\ Ascending(Sns)'
  BY StepReader, StepTidy DEF ReaderInv, PromptInv
<1>3. ~ crossed
  <2>1. crossed => crossed'
    BY DEF Next, Server, vars, Receive, BeginRead, NoReadBuffer, LoopEnds, AcceptPacket, BadData,
           HandlePacket, PassDone, ReadFails, ReleaseHeld, DestroyPacketReader, PiSends, LoseWord
  <2> QED BY <2>1
<1>4. Kept
  BY <1>1, <1>3 DEF PromptInv
<1>5. CASE BeginRead /\ off' = Append(off, 0) /\ rbuf' = Len(off) + 1 /\ (rbuf = 0 \/ Full(rbuf))
  <2>1. Top' = Top
    BY <1>1, <1>5, BeginChained
  <2> QED BY <1>1, <1>4, <1>5, <2>1, BeginKept
<1>6. CASE \E n \in 1..BufferSize : Receive(n) /\ AppendBuffer /\ ib1' = cur' /\ pc' = "parse"
  <2>1. PICK n \in 1..BufferSize : Receive(n) /\ AppendBuffer /\ ib1' = cur' /\ pc' = "parse"
    BY <1>6
  <2>2. Top' = rbuf
    BY <2>1 DEF Receive, AppendBuffer, Top
  <2> QED BY <1>1, <1>4, <2>1, <2>2, ReceiveKept
<1>7. CASE AcceptPacket
  <2>1. Ascending(Sns')
    BY <1>2 DEF Ascending
  <2> QED BY <1>1, <1>4, <1>7, <2>1, AcceptKept
<1>8. CASE HandlePacket
  <2>1. /\ queue # <<>> /\ queue' = Tail(queue) /\ UNCHANGED <<rbuf, chain, canRel, cur, off>>
        /\ \/ ReleaseInPacket(Head(queue)) /\ held' = held
           \/ held' = held \cup {Head(queue)} /\ UNCHANGED <<count, live>>
    BY <1>8 DEF HandlePacket, readVars, chainVars
  <2>2. /\ Head(queue) \notin held /\ Head(queue) \notin ToSet(Tail(queue))
        /\ ToSet(queue) = ToSet(Tail(queue)) \cup {Head(queue)}
    BY <1>1, <2>1, HeadAlone
  <2>3. CASE ReleaseInPacket(Head(queue)) /\ held' = held
    <3>1. Outstanding' = Outstanding \ {Head(queue)} /\ Head(queue) \in Outstanding
      BY <2>1, <2>2, <2>3 DEF Outstanding
    <3> QED BY <1>1, <1>4, <2>1, <2>3, <3>1, ReleaseKept
  <2>4. CASE held' = held \cup {Head(queue)} /\ UNCHANGED <<count, live>>
    <3>1. Outstanding' = Outstanding
      BY <2>1, <2>2, <2>4 DEF Outstanding
    <3> QED BY <1>4, <2>1, <2>4, <3>1, SameKept
  <2> QED BY <2>1, <2>3, <2>4
<1>9. CASE ReleaseHeld
  <2>1. PICK p \in held : ReleaseInPacket(p) /\ held' = held \ {p}
    BY <1>9 DEF ReleaseHeld
  <2>2. UNCHANGED <<rbuf, chain, canRel, cur, off, queue>> /\ pc = "idle"
    BY <1>9 DEF ReleaseHeld, readVars, chainVars
  <2>3. Outstanding' = Outstanding \ {p} /\ p \in Outstanding
    BY <1>1, <2>1, <2>2 DEF Settled, Outstanding, ToSet
  <2> QED BY <1>1, <1>4, <2>1, <2>2, <2>3, ReleaseKept
<1>10. CASE BadData
  BY <1>1, <1>10, Deciding DEF BadData
<1>11. CASE UNCHANGED <<rbuf, chain, cur, off, count, live, queue, held>>
  <2>1. Outstanding' = Outstanding
    BY <1>11 DEF Outstanding
  <2> QED BY <1>4, <1>11, <2>1, SameKept
<1>12. CASE PiSends \/ LoopEnds \/ NoReadBuffer \/ ReadFails \/ PassDone \/ UNCHANGED vars
  BY <1>11, <1>12 DEF PiSends, LoopEnds, NoReadBuffer, ReadFails, PassDone, vars, readVars, chainVars, bufVars, packetVars
<1>13. CASE BeginRead /\ UNCHANGED <<rbuf, bufVars>>
  BY <1>11, <1>13 DEF BeginRead, chainVars, bufVars, packetVars
<1>14. CASE DestroyPacketReader \/ LoseWord
  <2>1. lost \in Nat /\ fails \in Nat /\ lost = 0 /\ lost' = 0 /\ fails = 0 /\ fails' = 0
    BY <1>1 DEF Clear, Types, MiscOK
  <2> QED BY <1>14, <2>1 DEF DestroyPacketReader, LoseWord
<1>15. BeginRead => \/ BeginRead /\ off' = Append(off, 0) /\ rbuf' = Len(off) + 1 /\ (rbuf = 0 \/ Full(rbuf))
                    \/ BeginRead /\ UNCHANGED <<rbuf, bufVars>>
  BY DEF BeginRead
<1>16. (\E n \in 1..BufferSize : Receive(n)) =>
          \E n \in 1..BufferSize : Receive(n) /\ AppendBuffer /\ ib1' = cur' /\ pc' = "parse"
  <2>1. fails = 0 /\ fails' = 0
    BY <1>1 DEF Clear
  <2> QED BY <2>1 DEF Receive
<1> QED BY <1>5, <1>6, <1>7, <1>8, <1>9, <1>10, <1>12, <1>13, <1>14, <1>15, <1>16 DEF Next, Server

LEMMA InitPrompt == Init => PromptInv
<1> SUFFICES ASSUME Init
             PROVE  PromptInv
  OBVIOUS
<1>1. /\ stream = <<>> /\ wire = <<>> /\ rbuf = 0 /\ chain = {} /\ cur = 0 /\ ib1 = 0 /\ off = <<>>
      /\ canRel = {} /\ live = {} /\ queue = <<>> /\ held = {} /\ pc = "begin"
  BY DEF Init
<1>2. Line = <<>> /\ Len(Line) = 0 /\ Top = 0 /\ Pos = 0 /\ Outstanding = {}
  BY <1>1 DEF Line, Top, Pos, Outstanding, ToSet
<1>3. Whole
  BY <1>2 DEF Whole
<1>4. Chained
  <2>1. Len(off) = 0 /\ 1..0 = {} /\ 1..(0 - 1) = {}
    BY <1>1
  <2> QED BY <1>1, <1>2, <2>1 DEF Chained
<1>5. Stands
  <2>1. DOMAIN off = {} /\ Len(stream) = 0
    BY <1>1
  <2> QED BY <1>1, <1>2, <2>1 DEF Stands
<1>6. Kept
  <2>1. DOMAIN off = {}
    BY <1>1
  <2> QED BY <1>1, <1>2, <2>1, FS_EmptySet DEF Kept
<1> QED BY <1>1, <1>3, <1>4, <1>5, <1>6 DEF PromptInv, Tidy, Seen, Settled

LEMMA StepPrompt == ReaderInv /\ PromptInv /\ [Next]_vars => PromptInv'
<1> SUFFICES ASSUME ReaderInv, PromptInv, [Next]_vars
             PROVE  PromptInv'
  OBVIOUS
<1>1. Tidy'
  BY StepTidy DEF ReaderInv, PromptInv
<1>2. Seen' /\ Settled'
  BY StepSeen, StepSettled DEF ReaderInv, PromptInv
<1>3. Clear' /\ ~ crossed' => Kept'
  BY StepKept
<1> QED BY <1>1, <1>2, <1>3 DEF PromptInv

\* A packet that is not too long reaches no third buffer.
LEMMA Reaches ==
    ASSUME Types, Whole, Chained, Stands, ~ TooLong
    PROVE  cur = 0 \/ ~ (cur + 1 < Top)
<1> SUFFICES ASSUME cur # 0, cur + 1 < Top
             PROVE  FALSE
  OBVIOUS
<1>1. PICK t \in Nat, c \in Nat, r \in Nat : t = Top /\ c = cur /\ r = rbuf /\ c \in 1..t /\ c \in 1..r /\ DOMAIN off = 1..r
  <2>1. Top \in Nat /\ cur \in 0..Top /\ rbuf \in {Top, Top + 1} /\ rbuf \in Nat /\ DOMAIN off = 1..rbuf
    BY Tops
  <2>2. cur \in 1..Top /\ cur \in 1..rbuf /\ cur \in Nat
    BY <2>1
  <2> QED BY <2>1, <2>2, Zenon
<1>2. /\ Base(c) \in Int /\ Base(c + 1) = Base(c) + BufferSize /\ Base(c + 2) = Base(c) + 2 * BufferSize
      /\ Len(stream) \in Nat /\ Len(wire) \in Nat /\ Len(Line) = Len(stream) + Len(wire)
  <2>1. c \in Int
    BY <1>1
  <2> QED BY <2>1, NextBase, Streams, Lines
<1>3. Base(c + 1) < Len(stream)
  BY <1>1, Tops
<1>4. Pos = Base(c) + off[c] /\ off[c] \in Nat /\ off[c] <= BufferSize
  <2>1. off[c] \in Nat
    BY <1>1, Tops
  <2> QED BY <1>1, <2>1 DEF Pos, Stands
<1>5. Pos < Len(Line)
  BY <1>2, <1>3, <1>4, Constants
<1>6. PICK x \in 1..Len(sent), n \in Nat : n = Header + sent[x] /\ End = Pos + n
  BY <1>5, AtPos
<1>7. sent[x] \in Nat /\ sent[x] <= BufferSize - Header
  <2>1. sent \in Seq(Nat)
    BY Streams
  <2>2. x \in DOMAIN sent /\ sent[x] \in Nat
    BY <2>1
  <2> QED BY <2>2, Constants DEF TooLong
<1>8. End > Base(c + 2)
  BY <1>1 DEF Stands
<1>9. /\ BufferSize \in Nat /\ Header \in Nat /\ Base(c) \in Int /\ off[c] \in Nat /\ off[c] <= BufferSize
      /\ sent[x] \in Nat /\ sent[x] <= BufferSize - Header
      /\ Base(c) + off[c] + (Header + sent[x]) > Base(c) + 2 * BufferSize
  BY <1>2, <1>4, <1>6, <1>7, <1>8, Constants
<1> QED BY ONLY <1>9

LEMMA Prompt ==
    ASSUME Types, PromptInv
    PROVE  PromptSafe
<1> SUFFICES ASSUME ~ crossed, lost = 0, fails = 0
             PROVE  /\ \A p \in Outstanding : {p.ib, p.to} \subseteq live
                    /\ cur \in live \cup {0}
                    /\ \A b \in live : count[b] = Cardinality({p \in Outstanding : b \in {p.ib, p.to}})
                    /\ \A b \in DOMAIN off : off[b] <= Bytes(b)
                    /\ TooLong \/ Cardinality(live) <= 3
  BY DEF PromptSafe, Types, MiscOK
<1>1. Whole /\ Chained /\ Stands /\ Kept
  BY DEF PromptInv, Tidy, Clear
<1>2. PICK t \in Nat, c \in Nat, r \in Nat :
         t = Top /\ c = cur /\ r = rbuf /\ c \in 0..t /\ r \in {t, t + 1} /\ DOMAIN off = 1..r
  <2>1. Top \in Nat /\ cur \in 0..Top /\ rbuf \in {Top, Top + 1} /\ rbuf \in Nat /\ DOMAIN off = 1..rbuf
    BY <1>1, Tops
  <2>2. cur \in Nat
    BY <2>1
  <2> QED BY <2>1, <2>2, Zenon
<1>3. /\ \A q \in Outstanding : q.to = t /\ q.to = c /\ q.ib \in {t, t - 1} \ {0} /\ q.ib \in live
      /\ \A b \in live : count[b] = Cardinality(In(b))
      /\ \A b \in 1..r : b >= c => b \in live
      /\ \A b \in live : b < c => \E q \in Outstanding : q.ib = b
  BY <1>1, <1>2 DEF Kept
<1>4. cur \in live \cup {0}
  <2>1. c # 0 => c \in 1..r /\ c >= c
    BY <1>2
  <2> QED BY <1>2, <1>3, <2>1
<1>5. \A p \in Outstanding : {p.ib, p.to} \subseteq live
  <2>1. ASSUME NEW p \in Outstanding
        PROVE  p.to \in live /\ p.ib \in live
    <3>1. p.to = c /\ c # 0
      <4>1. p.ib \in {t, t - 1} \ {0} /\ p.to = t /\ p.to = c /\ p.ib \in live
        BY <1>3
      <4>2. live \subseteq 1..r
        BY <1>2 DEF Types, BufOK
      <4> QED BY <1>2, <4>1, <4>2
    <3> QED BY <1>2, <1>3, <1>4, <3>1
  <2> QED BY <2>1
<1>6. \A b \in live : count[b] = Cardinality({p \in Outstanding : b \in {p.ib, p.to}})
  BY <1>3 DEF In
<1>7. ASSUME NEW b \in DOMAIN off
      PROVE  off[b] <= Bytes(b)
  <2>1. /\ b \in 1..rbuf /\ b \in Int /\ off[b] \in Nat /\ off[b] <= BufferSize /\ (b > c => off[b] = 0)
    <3>1. b \in 1..rbuf /\ off[b] <= BufferSize /\ (b > c => off[b] = 0)
      BY <1>1, <1>2 DEF Stands
    <3>2. off[b] \in Nat
      BY <1>1, <3>1, Tops
    <3> QED BY <1>2, <3>1, <3>2
  <2>2. /\ Bytes(b) \in 0..BufferSize /\ (b < t => Bytes(b) = BufferSize)
        /\ b >= t => Bytes(b) = Len(stream) - Base(b)
    BY <1>1, <1>2, <2>1, BytesIn
  <2>3. CASE b > c
    BY <2>1, <2>2, <2>3, Constants
  <2>4. CASE b < t
    BY <2>1, <2>2, <2>4
  <2>5. CASE ~ (b > c) /\ ~ (b < t)
    <3>1. b = c /\ b = t /\ b # 0
      BY <1>2, <2>1, <2>5
    <3>2. Base(b) + off[b] <= Len(stream)
      BY <1>1, <1>2, <3>1 DEF Stands, Pos
    <3>3. Base(b) \in Int /\ Len(stream) \in Nat
      BY <2>1, NextBase, Streams
    <3>4. Bytes(b) = Len(stream) - Base(b)
      BY <1>2, <2>2, <3>1
    <3> QED BY <2>1, <3>2, <3>3, <3>4
  <2> QED BY <2>3, <2>4, <2>5
<1>8. ASSUME ~ TooLong
      PROVE  Cardinality(live) <= 3
  <2>1. c = 0 \/ ~ (c + 1 < t)
    BY <1>1, <1>2, <1>8, Reaches
  <2>2. live \subseteq {t - 1, t, t + 1}
    <3>1. ASSUME NEW b \in live
          PROVE  b \in {t - 1, t, t + 1}
      <4>1. b \in 1..r
        BY <1>2 DEF Types, BufOK
      <4>2. CASE b < c
        <5>1. PICK q \in Outstanding : q.ib = b
          BY <1>3, <4>2
        <5> QED BY <1>3, <5>1
      <4>3. CASE ~ (b < c) /\ c # 0
        BY <1>2, <2>1, <4>1, <4>3
      <4>4. CASE c = 0
        <5>1. t = 0
          <6>1. pc # "destroyed" /\ chain = 1..t
            BY <1>1, <1>2 DEF Stands, Chained
          <6>2. chain = {}
            BY <1>2, <4>4, <6>1 DEF Types, LoopOK
          <6> QED BY <1>2, <6>1, <6>2
        <5> QED BY <1>2, <4>1, <5>1
      <4> QED BY <4>2, <4>3, <4>4
    <3> QED BY <3>1
  <2>3. IsFiniteSet({t - 1, t, t + 1}) /\ Cardinality({t - 1, t, t + 1}) <= 3
    <3>1. IsFiniteSet({t - 1}) /\ Cardinality({t - 1}) = 1
      BY FS_Singleton
    <3>2. IsFiniteSet({t - 1} \cup {t}) /\ Cardinality({t - 1} \cup {t}) = 2
      <4>1. t \notin {t - 1}
        BY <1>2
      <4> QED BY <3>1, <4>1, FS_AddElement
    <3>3. Cardinality(({t - 1} \cup {t}) \cup {t + 1}) = 3 /\ IsFiniteSet(({t - 1} \cup {t}) \cup {t + 1})
      <4>1. t + 1 \notin {t - 1} \cup {t}
        BY <1>2
      <4> QED BY <3>2, <4>1, FS_AddElement
    <3>4. {t - 1, t, t + 1} = ({t - 1} \cup {t}) \cup {t + 1}
      OBVIOUS
    <3> QED BY <3>3, <3>4
  <2>4. Cardinality(live) <= Cardinality({t - 1, t, t + 1}) /\ IsFiniteSet(live)
    BY <2>2, <2>3, FS_Subset
  <2> QED BY <2>3, <2>4, FS_CardinalityType
<1> QED BY <1>4, <1>5, <1>6, <1>7, <1>8

\* While nothing is lost, refused or failed, and no packet is held when another
\* buffer is appended, the buffers a packet points into and pr_InBuf are there,
\* ib_PacketCount is right, so that APB_ReleaseInPacket gives a buffer back with
\* its last packet and not before, and three buffers are enough
\* (server/packetreader.c).
THEOREM PromptReleasesSafe == Spec => []PromptSafe
<1>1. Init => ReaderInv /\ PromptInv
  BY InitReader, InitPrompt
<1>2. ReaderInv /\ PromptInv /\ [Next]_vars => (ReaderInv /\ PromptInv)'
  BY StepReader, StepPrompt
<1>3. ReaderInv /\ PromptInv => PromptSafe
  BY Prompt DEF ReaderInv
<1> QED BY <1>1, <1>2, <1>3, PTL DEF Spec

=============================================================================
