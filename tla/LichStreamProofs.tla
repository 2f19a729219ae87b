--------------------------- MODULE LichStreamProofs ----------------------------
(***************************************************************************)
(* What travels from the server to a client, proved for every value of the *)
(* constants: whole packets, all of the output and no other exit code than *)
(* the one that was decided.                                               *)
(***************************************************************************)
EXTENDS LichSessionProofs, LichSequenceLemmas, FiniteSetTheorems

(* The cells of some packets, one after the other. *)
Wire(ps) == FlattenSeq([i \in 1..Len(ps) |-> packet_bytes(ps[i])])

(* The bytes of MSG_CONTENT a packet carries, and those of some packets. *)
BytesOf(p) == IF p.typ = "CONTENT" THEN p.payload ELSE <<>>
Shown(ps) == FlattenSeq([i \in 1..Len(ps) |-> BytesOf(ps[i])])

-------------------------------------------------------------------------------
LEMMA WireMapType ==
    ASSUME NEW ps \in Seq(Packet)
    PROVE  /\ [i \in 1..Len(ps) |-> packet_bytes(ps[i])] \in Seq(Seq(Cell))
           /\ [i \in 1..Len(ps) |-> BytesOf(ps[i])] \in Seq(Seq(Nat))
<1>1. \A i \in 1..Len(ps) : ps[i] \in Packet
  OBVIOUS
<1>2. \A i \in 1..Len(ps) : packet_bytes(ps[i]) \in Seq(Cell)
  BY <1>1, PacketBytesType
<1>3. ASSUME NEW i \in 1..Len(ps) PROVE BytesOf(ps[i]) \in Seq(Nat)
  <2>1. ps[i].payload \in Seq(Nat)
    BY <1>1 DEF Packet
  <2>. QED
    BY <2>1, EmptySeq DEF BytesOf
<1>4. Len(ps) \in Nat
  BY LenProperties
<1>. QED
  BY <1>2, <1>3, <1>4

LEMMA WireType ==
    ASSUME NEW ps \in Seq(Packet)
    PROVE  Wire(ps) \in Seq(Cell) /\ Shown(ps) \in Seq(Nat)
BY WireMapType, FlattenType DEF Wire, Shown

LEMMA WireEmpty == Wire(<<>>) = <<>> /\ Shown(<<>>) = <<>>
<1>1. /\ [i \in 1..Len(<<>>) |-> packet_bytes(<<>>[i])] = <<>>
      /\ [i \in 1..Len(<<>>) |-> BytesOf(<<>>[i])] = <<>>
  OBVIOUS
<1>. QED
  BY <1>1, FlattenEmpty DEF Wire, Shown

(* The functions Wire, Shown and ContentOf map. *)
PacketCells == [p \in Packet |-> packet_bytes(p)]
PacketBytes == [p \in Packet |-> BytesOf(p)]
CellBytes == [x \in Cell |-> IF x.typ = "byte" THEN <<x.val>> ELSE <<>>]

LEMMA MapTypes ==
    /\ \A p \in Packet : PacketCells[p] \in Seq(Cell) /\ PacketBytes[p] \in Seq(Nat)
    /\ \A x \in Cell : CellBytes[x] \in Seq(Nat)
<1>1. ASSUME NEW p \in Packet PROVE PacketCells[p] \in Seq(Cell) /\ PacketBytes[p] \in Seq(Nat)
  <2>1. p.payload \in Seq(Nat) /\ <<>> \in Seq(Nat)
    BY DEF Packet
  <2>. QED
    BY <2>1, PacketBytesType DEF PacketCells, PacketBytes, BytesOf
<1>2. ASSUME NEW x \in Cell PROVE CellBytes[x] \in Seq(Nat)
  <2>1. x.val \in Nat
    BY DEF Cell
  <2>2. <<x.val>> \in Seq(Nat) /\ <<>> \in Seq(Nat)
    BY <2>1
  <2>. QED
    BY <2>2 DEF CellBytes
<1>. QED
  BY <1>1, <1>2

LEMMA WireMaps ==
    ASSUME NEW ps \in Seq(Packet)
    PROVE  Wire(ps) = FlatMap(PacketCells, ps) /\ Shown(ps) = FlatMap(PacketBytes, ps)
<1>1. \A i \in 1..Len(ps) : ps[i] \in Packet
  OBVIOUS
<1>2. /\ [i \in 1..Len(ps) |-> packet_bytes(ps[i])] = [i \in 1..Len(ps) |-> PacketCells[ps[i]]]
      /\ [i \in 1..Len(ps) |-> BytesOf(ps[i])] = [i \in 1..Len(ps) |-> PacketBytes[ps[i]]]
  BY <1>1 DEF PacketCells, PacketBytes
<1>. QED
  BY <1>2 DEF Wire, Shown, FlatMap

LEMMA ContentMaps ==
    ASSUME NEW s \in Seq(Cell)
    PROVE  ContentOf(s) = FlatMap(CellBytes, s)
<1>1. \A i \in 1..Len(s) : s[i] \in Cell
  OBVIOUS
<1>2. [i \in 1..Len(s) |-> IF s[i].typ = "byte" THEN <<s[i].val>> ELSE <<>>]
        = [i \in 1..Len(s) |-> CellBytes[s[i]]]
  BY <1>1 DEF CellBytes
<1>. QED
  BY <1>2 DEF ContentOf, FlatMap

LEMMA WireConcat ==
    ASSUME NEW ps \in Seq(Packet), NEW qs \in Seq(Packet)
    PROVE  /\ Wire(ps) \in Seq(Cell) /\ Shown(ps) \in Seq(Nat)
           /\ Joins(Wire(ps \o qs), Wire(ps), Wire(qs))
           /\ Joins(Shown(ps \o qs), Shown(ps), Shown(qs))
<1>1. ps \o qs \in Seq(Packet)
  OBVIOUS
<1>2. /\ FlatMap(PacketCells, ps) \in Seq(Cell)
      /\ Joins(FlatMap(PacketCells, ps \o qs), FlatMap(PacketCells, ps), FlatMap(PacketCells, qs))
  BY MapTypes, FlatMapConcat
<1>3. /\ FlatMap(PacketBytes, ps) \in Seq(Nat)
      /\ Joins(FlatMap(PacketBytes, ps \o qs), FlatMap(PacketBytes, ps), FlatMap(PacketBytes, qs))
  BY MapTypes, FlatMapConcat
<1>. QED
  BY <1>1, <1>2, <1>3, WireMaps

LEMMA WireOne ==
    ASSUME NEW p \in Packet
    PROVE  Wire(<<p>>) = packet_bytes(p) /\ Shown(<<p>>) = BytesOf(p)
<1>1. PacketCells[p] = packet_bytes(p) /\ PacketBytes[p] = BytesOf(p)
  BY DEF PacketCells, PacketBytes
<1>2. FlatMap(PacketCells, <<p>>) = PacketCells[p] /\ FlatMap(PacketBytes, <<p>>) = PacketBytes[p]
  BY MapTypes, FlatMapOne
<1>3. <<p>> \in Seq(Packet)
  OBVIOUS
<1>. QED
  BY <1>1, <1>2, <1>3, WireMaps

LEMMA ContentConcat ==
    ASSUME NEW s \in Seq(Cell), NEW t \in Seq(Cell)
    PROVE  /\ ContentOf(s) \in Seq(Nat)
           /\ Joins(ContentOf(s \o t), ContentOf(s), ContentOf(t))
<1>1. s \o t \in Seq(Cell)
  OBVIOUS
<1>2. /\ FlatMap(CellBytes, s) \in Seq(Nat)
      /\ Joins(FlatMap(CellBytes, s \o t), FlatMap(CellBytes, s), FlatMap(CellBytes, t))
  BY MapTypes, FlatMapConcat
<1>. QED
  BY <1>1, <1>2, ContentMaps

(* The content of one packet's cells is its payload, or nothing. *)
LEMMA ContentOfPacket ==
    ASSUME NEW p \in Packet
    PROVE  ContentOf(packet_bytes(p)) = BytesOf(p)
<1>. DEFINE h == [typ |-> p.typ, val |-> Len(p.payload)]
            b == [i \in 1..Len(p.payload) |->
                    [typ |-> IF p.typ = "CONTENT" THEN "byte" ELSE "word",
                     val |-> p.payload[i]]]
            n == Len(p.payload)
<1>1. p.typ \in MsgType /\ p.payload \in Seq(Nat) /\ n \in Nat
  BY DEF Packet
<1>2. h \in Cell /\ b \in Seq(Cell) /\ Len(b) = n
  <2>1. \A i \in 1..n : p.payload[i] \in Nat
    BY <1>1
  <2>2. \A i \in 1..n : b[i] \in Cell
    BY <2>1 DEF Cell
  <2>. QED
    BY <1>1, <2>2 DEF Cell
<1>3. h.typ # "byte"
  BY <1>1 DEF MsgType
<1>4. ContentOf(b) = BytesOf(p)
  <2>1. CASE p.typ = "CONTENT"
    <3>1. [i \in 1..Len(b) |-> IF b[i].typ = "byte" THEN <<b[i].val>> ELSE <<>>]
            = Singles(p.payload, n)
      BY <1>2, <2>1 DEF Singles
    <3>. QED
      BY <1>1, <2>1, <3>1, FlattenSingles DEF ContentOf, BytesOf
  <2>2. CASE p.typ # "CONTENT"
    <3>1. [i \in 1..Len(b) |-> IF b[i].typ = "byte" THEN <<b[i].val>> ELSE <<>>] = Blanks(n)
      BY <1>2, <2>2 DEF Blanks
    <3>. QED
      BY <1>1, <2>2, <3>1, FlattenBlanks DEF ContentOf, BytesOf
  <2>. QED
    BY <2>1, <2>2
<1>5. packet_bytes(p) = <<h>> \o b
  BY DEF packet_bytes
<1>. HIDE DEF h, b
<1>6. CellBytes[h] = <<>> /\ <<>> \in Seq(Nat)
  BY <1>2, <1>3 DEF CellBytes
<1>7. FlatMap(CellBytes, <<h>>) = CellBytes[h]
  BY <1>6, FlatMapOne
<1>8. <<h>> \in Seq(Cell)
  BY <1>2
<1>9. ContentOf(<<h>>) = <<>>
  BY <1>6, <1>7, <1>8, ContentMaps
<1>10. Joins(ContentOf(<<h>> \o b), ContentOf(<<h>>), ContentOf(b)) /\ ContentOf(b) \in Seq(Nat)
  BY <1>2, <1>8, ContentConcat
<1>. QED
  BY <1>4, <1>5, <1>9, <1>10, ConcatEmptySeq DEF Joins

-------------------------------------------------------------------------------
(* One packet more at the end, and one less at the front. *)
LEMMA WireAppend ==
    ASSUME NEW ps \in Seq(Packet), NEW p \in Packet
    PROVE  /\ Append(ps, p) \in Seq(Packet)
           /\ Joins(Wire(Append(ps, p)), Wire(ps), packet_bytes(p))
           /\ Joins(Shown(Append(ps, p)), Shown(ps), BytesOf(p))
<1>1. <<p>> \in Seq(Packet) /\ Append(ps, p) = ps \o <<p>> /\ ps \o <<p>> \in Seq(Packet)
  OBVIOUS
<1>2. Joins(Wire(ps \o <<p>>), Wire(ps), Wire(<<p>>)) /\ Joins(Shown(ps \o <<p>>), Shown(ps), Shown(<<p>>))
  BY <1>1, WireConcat
<1>. QED
  BY <1>1, <1>2, WireOne

LEMMA WireHead ==
    ASSUME NEW ps \in Seq(Packet), ps # <<>>
    PROVE  /\ Head(ps) \in Packet /\ Tail(ps) \in Seq(Packet)
           /\ Joins(Wire(ps), packet_bytes(Head(ps)), Wire(Tail(ps)))
           /\ Joins(Shown(ps), BytesOf(Head(ps)), Shown(Tail(ps)))
<1>1. Head(ps) \in Packet /\ Tail(ps) \in Seq(Packet) /\ <<Head(ps)>> \o Tail(ps) = ps
  BY HeadTailProperties
<1>2. <<Head(ps)>> \in Seq(Packet)
  BY <1>1
<1>3. /\ Joins(Wire(<<Head(ps)>> \o Tail(ps)), Wire(<<Head(ps)>>), Wire(Tail(ps)))
      /\ Joins(Shown(<<Head(ps)>> \o Tail(ps)), Shown(<<Head(ps)>>), Shown(Tail(ps)))
  BY <1>1, <1>2, WireConcat
<1>4. Wire(<<Head(ps)>>) = packet_bytes(Head(ps)) /\ Shown(<<Head(ps)>>) = BytesOf(Head(ps))
  BY <1>1, WireOne
<1>. QED
  BY <1>1, <1>3, <1>4

(* The cells of a packet, one by one. *)
LEMMA PacketCellsAt ==
    ASSUME NEW p \in Packet
    PROVE  /\ packet_bytes(p)[1].typ = p.typ
           /\ packet_bytes(p)[1].val = Len(p.payload)
           /\ \A i \in 2..(1 + Len(p.payload)) :
                /\ packet_bytes(p)[i].typ \in {"byte", "word"}
                /\ packet_bytes(p)[i].val = p.payload[i - 1]
<1>. DEFINE h == [typ |-> p.typ, val |-> Len(p.payload)]
            b == [i \in 1..Len(p.payload) |->
                    [typ |-> IF p.typ = "CONTENT" THEN "byte" ELSE "word",
                     val |-> p.payload[i]]]
            n == Len(p.payload)
<1>1. p.typ \in MsgType /\ p.payload \in Seq(Nat) /\ n \in Nat
  BY DEF Packet
<1>2. h \in Cell /\ b \in Seq(Cell) /\ Len(b) = n
  <2>1. \A i \in 1..n : p.payload[i] \in Nat
    BY <1>1
  <2>2. \A i \in 1..n : b[i] \in Cell
    BY <2>1 DEF Cell
  <2>. QED
    BY <1>1, <2>2 DEF Cell
<1>3. packet_bytes(p) = <<h>> \o b
  BY DEF packet_bytes
<1>4. ASSUME NEW i \in 2..(1 + n)
      PROVE  b[i - 1].typ \in {"byte", "word"} /\ b[i - 1].val = p.payload[i - 1]
  <2>1. i - 1 \in 1..n
    BY <1>1
  <2>. QED
    BY <2>1
<1>. HIDE DEF h, b
<1>. DEFINE w == <<h>> \o b
<1>5. \A i \in 1..(1 + n) : w[i] = IF i = 1 THEN h ELSE b[i - 1]
  BY <1>1, <1>2
<1>. HIDE DEF w
<1>6. w[1] = h /\ \A i \in 2..(1 + n) : w[i] = b[i - 1]
  BY <1>1, <1>5
<1>7. w = packet_bytes(p) /\ h.typ = p.typ /\ h.val = n
  BY <1>3 DEF w, h
<1>. QED
  BY <1>4, <1>6, <1>7

(* Reading back what packet_bytes wrote. *)
LEMMA CellsPacketInverse ==
    ASSUME NEW p \in Packet
    PROVE  CellsPacket(packet_bytes(p)) = p
<1>. DEFINE s == packet_bytes(p)
            n == Len(p.payload)
<1>1. p.payload \in Seq(Nat) /\ n \in Nat /\ p = [typ |-> p.typ, payload |-> p.payload]
  BY DEF Packet
<1>2. s \in Seq(Cell) /\ Len(s) = 1 + n
  BY PacketBytesType
<1>3. s[1].typ = p.typ /\ \A i \in 2..(1 + n) : s[i].val = p.payload[i - 1]
  BY PacketCellsAt
<1>. HIDE DEF s
<1>4. Head(s) = s[1]
  BY <1>1, <1>2
<1>5. ASSUME NEW i \in 1..n PROVE s[i + 1].val = p.payload[i]
  <2>1. i + 1 \in 2..(1 + n) /\ (i + 1) - 1 = i
    BY <1>1
  <2>. QED
    BY <1>3, <2>1
<1>6. [i \in 1..n |-> s[i + 1].val] = p.payload
  <2>1. [i \in 1..n |-> s[i + 1].val] = [i \in 1..n |-> p.payload[i]]
    BY <1>5
  <2>. QED
    BY <1>1, <2>1
<1>7. Len(s) - 1 = n
  BY <1>1, <1>2
<1>8. CellsPacket(s) = [typ |-> p.typ, payload |-> p.payload]
  BY <1>3, <1>4, <1>6, <1>7 DEF CellsPacket
<1>. QED
  BY <1>1, <1>8 DEF s

-------------------------------------------------------------------------------
(* Whole packets: one cell, seen as the header it may be. *)
FramedAt(s, i) ==
    /\ i + s[i].val <= Len(s)
    /\ \A j \in (i + 1)..(i + s[i].val) : s[j].typ \notin MsgType
    /\ i + s[i].val < Len(s) => s[i + s[i].val + 1].typ \in MsgType

LEMMA FramedPacket ==
    ASSUME NEW p \in Packet
    PROVE  Framed(packet_bytes(p))
<1>. DEFINE s == packet_bytes(p)
            n == Len(p.payload)
<1>1. p.typ \in MsgType /\ n \in Nat
  BY DEF Packet
<1>2. s \in Seq(Cell) /\ Len(s) = 1 + n
  BY PacketBytesType
<1>3. /\ s[1].typ = p.typ /\ s[1].val = n
      /\ \A i \in 2..(1 + n) : s[i].typ \in {"byte", "word"}
  BY PacketCellsAt
<1>. HIDE DEF s
<1>4. \A i \in 1..(1 + n) : s[i].typ \in MsgType => i = 1
  BY <1>1, <1>3 DEF MsgType
<1>5. \A j \in 2..(1 + n) : s[j].typ \notin MsgType
  BY <1>4, <1>1
<1>. QED
  BY <1>1, <1>2, <1>3, <1>4, <1>5 DEF Framed, s

LEMMA FramedConcat ==
    ASSUME NEW s \in Seq(Cell), NEW t \in Seq(Cell), Framed(s), Framed(t)
    PROVE  Framed(s \o t)
<1>. DEFINE w == s \o t
            m == Len(s)
            n == Len(t)
<1>1. m \in Nat /\ n \in Nat /\ w \in Seq(Cell) /\ Len(w) = m + n
  OBVIOUS
<1>2. /\ \A i \in 1..m : w[i] = s[i]
      /\ \A i \in 1..n : w[m + i] = t[i]
  OBVIOUS
<1>3. /\ \A i \in 1..m : s[i].val \in Nat
      /\ \A i \in 1..n : t[i].val \in Nat
  <2>1. /\ \A i \in 1..m : s[i] \in Cell
        /\ \A i \in 1..n : t[i] \in Cell
    OBVIOUS
  <2>2. \A x \in Cell : x.val \in Nat
    BY DEF Cell
  <2>. QED
    BY <2>1, <2>2
<1>4. \A i \in 1..m : s[i].typ \in MsgType => FramedAt(s, i)
  BY DEF Framed, FramedAt
<1>5. \A i \in 1..n : t[i].typ \in MsgType => FramedAt(t, i)
  BY DEF Framed, FramedAt
<1>6. (m # 0 => s[1].typ \in MsgType) /\ (n # 0 => t[1].typ \in MsgType)
  BY EmptySeq DEF Framed
<1>. HIDE DEF w, m, n
<1>7. m + n # 0 => w[1].typ \in MsgType
  <2>1. CASE m = 0
    BY <1>1, <1>2, <1>6, <2>1
  <2>2. CASE m # 0
    BY <1>1, <1>2, <1>6, <2>2
  <2>. QED
    BY <2>1, <2>2
<1>8. ASSUME NEW i \in 1..m, w[i].typ \in MsgType PROVE FramedAt(w, i)
  <2>. DEFINE v == s[i].val
  <2>1. v \in Nat /\ w[i].val = v /\ s[i].typ \in MsgType
    BY <1>2, <1>3, <1>8
  <2>2. /\ i + v <= m
        /\ \A j \in (i + 1)..(i + v) : s[j].typ \notin MsgType
        /\ i + v < m => s[i + v + 1].typ \in MsgType
    BY <1>4, <2>1 DEF FramedAt, m
  <2>. HIDE DEF v
  <2>3. ASSUME NEW j \in (i + 1)..(i + v) PROVE w[j].typ \notin MsgType
    <3>1. j \in 1..m
      BY <1>1, <2>1, <2>2
    <3>. QED
      BY <1>2, <2>2, <3>1
  <2>4. i + v < m + n => w[i + v + 1].typ \in MsgType
    <3>1. CASE i + v < m
      <4>1. i + v + 1 \in 1..m
        BY <1>1, <2>1, <3>1
      <4>. QED
        BY <1>2, <2>2, <3>1, <4>1
    <3>2. CASE i + v = m /\ n # 0
      <4>1. 1 \in 1..n /\ i + v + 1 = m + 1
        BY <1>1, <3>2
      <4>. QED
        BY <1>2, <1>6, <3>2, <4>1
    <3>. QED
      BY <1>1, <2>1, <2>2, <3>1, <3>2
  <2>. QED
    BY <1>1, <2>1, <2>2, <2>3, <2>4 DEF FramedAt
<1>9. ASSUME NEW k \in 1..n, w[m + k].typ \in MsgType PROVE FramedAt(w, m + k)
  <2>. DEFINE v == t[k].val
  <2>1. v \in Nat /\ w[m + k].val = v /\ t[k].typ \in MsgType
    BY <1>2, <1>3, <1>9
  <2>2. /\ k + v <= n
        /\ \A j \in (k + 1)..(k + v) : t[j].typ \notin MsgType
        /\ k + v < n => t[k + v + 1].typ \in MsgType
    BY <1>5, <2>1 DEF FramedAt, n
  <2>. HIDE DEF v
  <2>3. ASSUME NEW j \in (m + k + 1)..(m + k + v) PROVE w[j].typ \notin MsgType
    <3>1. j - m \in (k + 1)..(k + v) /\ j - m \in 1..n /\ m + (j - m) = j
      BY <1>1, <2>1, <2>2
    <3>. QED
      BY <1>2, <2>2, <3>1
  <2>4. m + k + v < m + n => w[m + k + v + 1].typ \in MsgType
    <3>. SUFFICES ASSUME m + k + v < m + n PROVE w[m + k + v + 1].typ \in MsgType
      OBVIOUS
    <3>1. k + v + 1 \in 1..n /\ m + (k + v + 1) = m + k + v + 1 /\ k + v < n
      BY <1>1, <2>1
    <3>. QED
      BY <1>2, <2>2, <3>1
  <2>. QED
    BY <1>1, <2>1, <2>2, <2>3, <2>4 DEF FramedAt
<1>10. ASSUME NEW i \in 1..(m + n), w[i].typ \in MsgType PROVE FramedAt(w, i)
  <2>1. CASE i <= m
    <3>1. i \in 1..m
      BY <1>1, <2>1
    <3>. QED
      BY <1>8, <1>10, <3>1
  <2>2. CASE ~(i <= m)
    <3>1. i - m \in 1..n /\ m + (i - m) = i
      BY <1>1, <2>2
    <3>. QED
      BY <1>9, <1>10, <3>1
  <2>. QED
    BY <2>1, <2>2
<1>11. w # <<>> => m + n # 0
  BY <1>1, EmptySeq
<1>. QED
  BY <1>1, <1>7, <1>10, <1>11 DEF Framed, FramedAt, w

(* What some packets put on the wire is framed, and its content is theirs. *)
WireGood(ps) == Framed(Wire(ps)) /\ ContentOf(Wire(ps)) = Shown(ps)

LEMMA WireGoodAppend ==
    ASSUME NEW ps \in Seq(Packet), NEW p \in Packet, WireGood(ps)
    PROVE  WireGood(Append(ps, p))
<1>. DEFINE a == Wire(ps)
            b == packet_bytes(p)
<1>1. a \in Seq(Cell) /\ b \in Seq(Cell)
  BY WireType, PacketBytesType
<1>2. Wire(Append(ps, p)) = a \o b /\ Shown(Append(ps, p)) = Shown(ps) \o BytesOf(p)
  BY WireAppend DEF Joins
<1>3. ContentOf(a) = Shown(ps) /\ ContentOf(b) = BytesOf(p) /\ Framed(a) /\ Framed(b)
  BY ContentOfPacket, FramedPacket DEF WireGood
<1>. HIDE DEF a, b
<1>4. Framed(a \o b)
  BY <1>1, <1>3, FramedConcat
<1>5. ContentOf(a \o b) = ContentOf(a) \o ContentOf(b)
  BY <1>1, ContentConcat DEF Joins
<1>. QED
  BY <1>2, <1>3, <1>4, <1>5 DEF WireGood

LEMMA WireIsGood ==
    ASSUME NEW ps \in Seq(Packet)
    PROVE  WireGood(ps)
<1>. DEFINE S == {n \in Nat : WireGood(SubSeq(ps, 1, n))}
<1>1. 0 \in S
  <2>1. SubSeq(ps, 1, 0) = <<>>
    OBVIOUS
  <2>2. ContentOf(<<>>) = <<>>
    <3>1. [i \in 1..Len(<<>>) |-> IF <<>>[i].typ = "byte" THEN <<<<>>[i].val>> ELSE <<>>] = <<>>
      OBVIOUS
    <3>. QED
      BY <3>1, FlattenEmpty DEF ContentOf
  <2>3. Framed(<<>>)
    BY DEF Framed
  <2>. QED
    BY <2>1, <2>2, <2>3, WireEmpty DEF WireGood
<1>2. ASSUME NEW n \in 0..(Len(ps) - 1), n \in S PROVE n + 1 \in S
  <2>. DEFINE V == SubSeq(ps, 1, n)
              W == SubSeq(ps, 1, n + 1)
              p == ps[n + 1]
  <2>1. V \in Seq(Packet) /\ p \in Packet /\ W = Append(V, p)
    BY <1>2
  <2>2. WireGood(V)
    BY <1>2
  <2>. SUFFICES WireGood(W)
    OBVIOUS
  <2>. HIDE DEF V, W, p
  <2>3. WireGood(Append(V, p))
    BY <2>1, <2>2, WireGoodAppend
  <2>. QED
    BY <2>1, <2>3
<1>3. Len(ps) \in Nat /\ Len(ps) \in 0..Len(ps) /\ SubSeq(ps, 1, Len(ps)) = ps
  OBVIOUS
<1>. HIDE DEF S
<1>4. Len(ps) \in S
  BY <1>1, <1>2, <1>3, InductionUpTo
<1>. QED
  BY <1>3, <1>4 DEF S

-------------------------------------------------------------------------------
(* Taking a packet off the front of what can be read. *)
CutsAt(X, x, n, y, a, b) ==
    Take(x, n) = a /\ Drop(x, n) \in Seq(X) /\ Joins(b, Drop(x, n), y)

LEMMA CutFront ==
    ASSUME NEW X, NEW x, NEW y, NEW a, NEW b,
           x \in Seq(X), y \in Seq(X), a \in Seq(X), b \in Seq(X),
           NEW r, Joins(r, x, y), Joins(r, a, b), Len(a) <= Len(x)
    PROVE  CutsAt(X, x, Len(a), y, a, b)
<1>1. CutsOff(X, x, Len(a), y, a, b)
  BY CutFirst
<1>. QED
  BY <1>1 DEF CutsOff, CutsAt, Take, Drop

-------------------------------------------------------------------------------
(* What is sent and what is kept of a queue are together the queue. *)
LEMMA TakeDropJoin ==
    ASSUME NEW X, NEW s \in Seq(X), NEW n \in 0..Len(s)
    PROVE  Take(s, n) \in Seq(X) /\ Drop(s, n) \in Seq(X) /\ Take(s, n) \o Drop(s, n) = s
<1>1. Len(s) \in Nat
  BY LenProperties
<1>2. /\ Take(s, n) \in Seq(X) /\ Len(Take(s, n)) = n
      /\ Drop(s, n) \in Seq(X) /\ Len(Drop(s, n)) = Len(s) - n
  BY TakeDropType
<1>3. /\ \A i \in 1..n : Take(s, n)[i] = s[i]
      /\ \A i \in 1..(Len(s) - n) : Drop(s, n)[i] = s[n + i]
  BY <1>1, SMTT(30) DEF Take, Drop
<1>. DEFINE a == Take(s, n)
            b == Drop(s, n)
            u == a \o b
<1>4. a \in Seq(X) /\ b \in Seq(X) /\ Len(a) = n /\ Len(b) = Len(s) - n
  BY <1>2
<1>. HIDE DEF a, b
<1>5. /\ u \in Seq(X) /\ Len(u) = Len(s)
      /\ \A i \in 1..n : u[i] = a[i]
      /\ \A i \in 1..(Len(s) - n) : u[n + i] = b[i]
  BY <1>1, <1>4
<1>. HIDE DEF u
<1>6. ASSUME NEW i \in 1..Len(s) PROVE u[i] = s[i]
  <2>1. CASE i <= n
    BY <1>1, <1>3, <1>5, <2>1 DEF a
  <2>2. CASE ~(i <= n)
    <3>. DEFINE j == i - n
    <3>1. j \in 1..(Len(s) - n) /\ i = n + j
      BY <1>1, <2>2
    <3>. HIDE DEF j
    <3>. QED
      BY <1>3, <1>5, <3>1 DEF b
  <2>. QED
    BY <2>1, <2>2
<1>7. u = s
  BY <1>5, <1>6, SameSeq
<1>. QED
  BY <1>2, <1>7 DEF u, a, b

(* The four parts of what is on its way, regrouped. *)
LEMMA Regroup ==
    ASSUME NEW X, NEW a, NEW b, NEW q, NEW p, NEW w, NEW r,
           a \in Seq(X), b \in Seq(X), q \in Seq(X), p \in Seq(X), w \in Seq(X), r \in Seq(X),
           w \o r = b \o (q \o p)
    PROVE  Joins((a \o w) \o r, (a \o b) \o q, p)
<1>1. a \o b \in Seq(X) /\ q \o p \in Seq(X)
  OBVIOUS
<1>2. Assoc(a, w, r) /\ Assoc(a \o b, q, p) /\ Assoc(a, b, q \o p)
  BY <1>1, ConcatAssoc
<1>. QED
  BY <1>2 DEF Joins, Assoc

(* Two cuts of the same sequence. *)
Recut(a, b, x, y) == a \o b = x \o y

(* try_flush_client loses nothing and repeats nothing. *)
LEMMA FlushWire ==
    ASSUME NEW c \in Conn, NEW q \in Seq(Cell), down[c] \in Seq(Cell), Len(down[c]) <= SNDBUF
    PROVE  /\ try_flush_client(c, q).wire \in Seq(Cell)
           /\ try_flush_client(c, q).queue \in Seq(Cell)
           /\ Recut(try_flush_client(c, q).wire, try_flush_client(c, q).queue, down[c], q)
           /\ cliSock[c] = "open" => try_flush_client(c, q).ok
           /\ cliSock[c] # "open" => try_flush_client(c, q).wire = down[c]
<1>. DEFINE n == IF cliSock[c] = "open" THEN MinOf(Len(q), SNDBUF - Len(down[c])) ELSE 0
            a == Take(q, n)
            b == Drop(q, n)
            d == down[c]
<1>1. n \in 0..Len(q)
  <2>1. Len(q) \in Nat /\ Len(down[c]) \in Nat /\ SNDBUF \in Nat
    BY LenProperties, BoundAssumption
  <2>. QED
    BY <2>1 DEF MinOf
<1>2. cliSock[c] # "open" => Take(q, n) = <<>>
  <2>. SUFFICES ASSUME cliSock[c] # "open" PROVE Take(q, 0) = <<>>
    OBVIOUS
  <2>. QED
    BY DEF Take
<1>3. try_flush_client(c, q).queue = b /\ try_flush_client(c, q).wire = d \o a
  BY DEF try_flush_client
<1>4. cliSock[c] = "open" => try_flush_client(c, q).ok
  BY DEF try_flush_client
<1>. HIDE DEF n
<1>5. a \in Seq(Cell) /\ b \in Seq(Cell) /\ a \o b = q /\ d \in Seq(Cell)
  BY <1>1, TakeDropJoin
<1>6. cliSock[c] # "open" => a = <<>>
  BY <1>2
<1>. HIDE DEF a, b, d
<1>7. d \o a \in Seq(Cell) /\ d \o <<>> = d /\ Assoc(d, a, b)
  BY <1>5, ConcatAssoc, ConcatEmptySeq
<1>8. Recut(d \o a, b, d, q)
  BY <1>5, <1>7 DEF Assoc, Recut
<1>9. cliSock[c] # "open" => d \o a = d
  BY <1>6, <1>7
<1>. QED
  BY <1>3, <1>4, <1>5, <1>7, <1>8, <1>9 DEF d

(* send_packet_nonblocking adds the whole packet to what is on its way, or  *)
(* fails and adds nothing.                                                  *)
LEMMA SendWire ==
    ASSUME NEW c \in Conn, NEW p \in Packet, client[c] \in Client, cliSock[c] = "open",
           rbuf[c] \in Seq(Cell), down[c] \in Seq(Cell), Len(down[c]) <= SNDBUF,
           NEW r, r = send_packet_nonblocking(c, p)
    PROVE  /\ r.ok => Joins(rbuf[c] \o r.wire \o r.queue, OnTheWay(c), packet_bytes(p))
           /\ ~r.ok => rbuf[c] \o r.wire \o r.queue = OnTheWay(c)
<1>. DEFINE q == client[c].send_queue
            b == packet_bytes(p)
<1>1. q \in Seq(Cell) /\ b \in Seq(Cell)
  BY PacketBytesType DEF Client
<1>2. CASE Overflow(q, p)
  <2>1. r = [queue |-> q, wire |-> down[c], ok |-> FALSE]
    BY <1>2 DEF send_packet_nonblocking
  <2>2. r.queue = q /\ r.wire = down[c] /\ ~r.ok
    BY <2>1
  <2>. QED
    BY <2>2 DEF OnTheWay
<1>3. CASE ~Overflow(q, p)
  <2>. DEFINE qb == q \o b
  <2>1. r = try_flush_client(c, qb)
    BY <1>3 DEF send_packet_nonblocking
  <2>2. qb \in Seq(Cell)
    BY <1>1
  <2>. HIDE DEF qb
  <2>3. /\ r.wire \in Seq(Cell) /\ r.queue \in Seq(Cell) /\ r.ok
        /\ Recut(r.wire, r.queue, down[c], qb)
    BY <2>1, <2>2, FlushWire
  <2>4. r.wire \o r.queue = down[c] \o (q \o b)
    BY <2>3 DEF qb, Recut
  <2>. HIDE DEF q, b
  <2>5. Joins((rbuf[c] \o r.wire) \o r.queue, (rbuf[c] \o down[c]) \o q, b)
    BY <1>1, <2>3, <2>4, Regroup
  <2>. QED
    BY <2>3, <2>5 DEF OnTheWay, q, b
<1>. QED
  BY <1>2, <1>3

-------------------------------------------------------------------------------
(***************************************************************************)
(* The invariant.  ps are the packets on their way to c and t the cells of *)
(* them that were lost when the server closed the connection.              *)
(***************************************************************************)
Carries(c, t, ps) ==
    /\ srvSock[c] # "closed" => t = <<>>
    /\ Joins(Wire(ps), OnTheWay(c), t)

(* The packets of c the server has not handled. *)
Unread(c) == client[c].buf \o up[c]

(* Those that make it send the history. *)
Opening(p) == p.typ \in {"ATTACH", "DUMP"}

Replaying(c) == pc = "replay" /\ cur = c

Ended(ps) == \E i \in 1..Len(ps) : ps[i].typ = "DUMP_END"

(* What c was and will be shown of what has been sent to it. *)
Total(c, ps) == seen[c] \o Shown(ps)

(* Nothing of the history was sent to c yet. *)
Fresh(c, ps) ==
    /\ ~client[c].attached
    /\ ~Replaying(c)
    /\ Total(c, ps) = <<>>
    /\ ~Ended(ps)

ExitTold(ps) ==
    \A i \in 1..Len(ps) :
      ps[i].typ = "EXIT" => child_exit # NoStatus /\ ps[i].payload = <<child_exit>>

Opened(c, ps) ==
    /\ cpc[c] \in {"pid", "attach", "dump"} => Unread(c) = <<>> /\ Fresh(c, ps)
    /\ \A i \in 1..Len(Unread(c)) : Opening(Unread(c)[i]) => i = 1 /\ Fresh(c, ps)

(* s is the output up to the last byte read, as far back as the history. *)
UpToDate(s) == s = OutputFrom(consumed - Len(s), consumed) /\ Len(s) >= Len(history)

Streamed(c, ps) ==
    srvSock[c] = "open" /\ client[c].attached /\ ~client[c].disconnected =>
      UpToDate(Total(c, ps) \o (IF Replaying(c) THEN snap ELSE <<>>))

EndLast(ps) ==
    \A i, j \in 1..Len(ps) : i < j /\ ps[i].typ = "DUMP_END" => ps[j].typ # "CONTENT"

DumpGoing(c, ps) ==
    /\ Ended(ps) => \E n \in 0..consumed : Total(c, ps) = Newest(n)
    /\ client[c].attached => ~Ended(ps)
    /\ Replaying(c) => (send_end <=> ~client[c].attached)
    /\ Replaying(c) /\ send_end => ~Ended(ps) /\ Total(c, ps) \o snap = Newest(consumed)

Good(c, ps) ==
    ExitTold(ps) /\ Opened(c, ps) /\ Streamed(c, ps) /\ EndLast(ps) /\ DumpGoing(c, ps)

(* Where the client is in its program, and what it has to show for it. *)
Placed(c) ==
    /\ cliSock[c] # "open" => rbuf[c] = <<>> /\ down[c] = <<>>
    /\ srvSock[c] # "open" => client[c] = NewClient
    /\ srvSock[c] \in {"none", "backlog"} => rbuf[c] = <<>>
    /\ cpc[c] = "start" => cliSock[c] = "none" /\ seen[c] = <<>> /\ up[c] = <<>>
    /\ cpc[c] = "done" => cliSock[c] # "open"
    /\ cpc[c] \notin {"start", "done"} => cliSock[c] = "open"
    /\ cpc[c] = "keys" => Kind[c] = "keys"

Outcome(c) ==
    /\ result[c] # "none" => cpc[c] = "done"
    /\ Kind[c] = "dump" /\ result[c] = "ok" => \E n \in 0..consumed : seen[c] = Newest(n)
    /\ result[c] = "exited" => child_exit # NoStatus /\ code[c] = child_exit

GoodWire(c) ==
    cliSock[c] = "open" =>
      \E t \in Seq(Cell), ps \in Seq(Packet) : Carries(c, t, ps) /\ Good(c, ps)

StreamInv == \A c \in Conn : Placed(c) /\ Outcome(c) /\ GoodWire(c)

-------------------------------------------------------------------------------
(* A step that changes nothing of what c was and will be shown. *)
SameSide(c) ==
    /\ client'[c].attached = client[c].attached
    /\ client[c].disconnected => client'[c].disconnected
    /\ srvSock'[c] = "open" => srvSock[c] = "open" \/ ~client[c].attached
    /\ Replaying(c)' <=> Replaying(c)
    /\ Replaying(c) => UNCHANGED <<snap, send_end, consumed>>
    /\ consumed \in Nat /\ consumed' \in Nat /\ consumed <= consumed'
    /\ client[c].attached /\ ~client'[c].disconnected /\ srvSock'[c] = "open" =>
         UNCHANGED <<consumed, history>>

SameUnread(c, ps) ==
    /\ cpc'[c] \in {"pid", "attach", "dump"} => Unread(c)' = <<>> /\ Fresh(c, ps)
    /\ \A i \in 1..Len(Unread(c)') : Opening(Unread(c)'[i]) => i = 1 /\ Fresh(c, ps)

LEMMA GoodKept ==
    ASSUME NEW c \in Conn, NEW ps \in Seq(Packet), NEW qs \in Seq(Packet), Good(c, ps),
           SameSide(c), SameUnread(c, ps),
           Total(c, qs)' = Total(c, ps),
           Ended(qs) => Ended(ps), EndLast(qs), ExitTold(qs)'
    PROVE  Good(c, qs)'
<1>1. Fresh(c, ps) => Fresh(c, qs)'
  BY DEF SameSide, Fresh, Ended
<1>2. Opened(c, qs)'
  BY <1>1 DEF SameUnread, Opened
<1>3. Streamed(c, qs)'
  <2>. SUFFICES ASSUME srvSock'[c] = "open", client'[c].attached, ~client'[c].disconnected
                PROVE  UpToDate(Total(c, qs) \o (IF Replaying(c) THEN snap ELSE <<>>))'
    BY DEF Streamed
  <2>1. UNCHANGED <<consumed, history>> /\ srvSock[c] = "open"
        /\ client[c].attached /\ ~client[c].disconnected
    BY DEF SameSide
  <2>2. (Total(c, qs) \o (IF Replaying(c) THEN snap ELSE <<>>))'
          = Total(c, ps) \o (IF Replaying(c) THEN snap ELSE <<>>)
    BY DEF SameSide
  <2>3. UpToDate(Total(c, ps) \o (IF Replaying(c) THEN snap ELSE <<>>))
    BY <2>1 DEF Good, Streamed
  <2>. QED
    BY <2>1, <2>2, <2>3 DEF UpToDate
<1>4. DumpGoing(c, qs)'
  <2>1. Ended(qs)' <=> Ended(qs)
    BY DEF Ended
  <2>2. Ended(qs) => \E n \in 0..consumed' : Total(c, qs)' = Newest(n)
    BY DEF Good, DumpGoing, SameSide
  <2>3. client'[c].attached => ~Ended(qs)
    BY DEF Good, DumpGoing, SameSide
  <2>4. Replaying(c)' => (send_end' <=> ~client'[c].attached)
    BY DEF Good, DumpGoing, SameSide
  <2>5. Replaying(c)' /\ send_end' => ~Ended(qs) /\ Total(c, qs)' \o snap' = Newest(consumed')
    BY DEF Good, DumpGoing, SameSide
  <2>. QED
    BY <2>1, <2>2, <2>3, <2>4, <2>5 DEF DumpGoing
<1>5. EndLast(qs)'
  BY DEF EndLast
<1>. QED
  BY <1>2, <1>3, <1>4, <1>5 DEF Good

ExitKept == child_exit # NoStatus => child_exit' = child_exit

(* The cells of c may move from the queue to the wire or into rbuf. *)
LEMMA WireKept ==
    ASSUME NEW c \in Conn, GoodWire(c), SameSide(c), ExitKept,
           cliSock'[c] = "open" => cliSock[c] = "open",
           srvSock'[c] # "closed" => srvSock[c] # "closed",
           OnTheWay(c)' = OnTheWay(c),
           seen'[c] = seen[c],
           Unread(c)' = Unread(c),
           cpc'[c] \in {"pid", "attach", "dump"} => cpc[c] \in {"pid", "attach", "dump"}
    PROVE  GoodWire(c)'
<1>. SUFFICES ASSUME cliSock'[c] = "open"
              PROVE  \E t \in Seq(Cell), ps \in Seq(Packet) : Carries(c, t, ps)' /\ Good(c, ps)'
  BY DEF GoodWire
<1>1. PICK t \in Seq(Cell), ps \in Seq(Packet) : Carries(c, t, ps) /\ Good(c, ps)
  BY DEF GoodWire
<1>2. Carries(c, t, ps)'
  <2>1. Wire(ps)' = Wire(ps)
    BY DEF Wire
  <2>. QED
    BY <1>1, <2>1 DEF Carries, Joins
<1>3. SameUnread(c, ps)
  BY <1>1 DEF Good, Opened, SameUnread
<1>4. Total(c, ps)' = Total(c, ps)
  BY DEF Total, Shown
<1>5. EndLast(ps) /\ ExitTold(ps)'
  BY <1>1 DEF Good, ExitTold, ExitKept
<1>6. Good(c, ps)'
  BY <1>1, <1>3, <1>4, <1>5, GoodKept
<1>. QED
  BY <1>2, <1>6

(* A step that is none of c's business. *)
Still(c) == UNCHANGED <<cliSock[c], srvSock[c], rbuf[c], down[c], up[c], client[c],
                        seen[c], cpc[c], result[c], code[c]>>

LEMMA StillInv ==
    ASSUME NEW c \in Conn, Placed(c), Outcome(c), GoodWire(c),
           Still(c), SameSide(c), ExitKept
    PROVE  Placed(c)' /\ Outcome(c)' /\ GoodWire(c)'
<1>1. OnTheWay(c)' = OnTheWay(c) /\ Unread(c)' = Unread(c)
  BY DEF Still, OnTheWay, Unread
<1>2. GoodWire(c)'
  BY <1>1, WireKept DEF Still
<1>3. Placed(c)'
  BY DEF Still, Placed
<1>4. Outcome(c)'
  BY DEF Still, Outcome, SameSide, ExitKept
<1>. QED
  BY <1>2, <1>3, <1>4

(* SameSide for a step that leaves the server's struct of c alone. *)
Quiet(c) ==
    /\ UNCHANGED <<client[c], consumed, history>>
    /\ srvSock'[c] = "open" => srvSock[c] = "open" \/ ~client[c].attached
    /\ Replaying(c)' <=> Replaying(c)
    /\ Replaying(c) => UNCHANGED <<snap, send_end>>

LEMMA QuietSame ==
    ASSUME IndInv, NEW c \in Conn, Quiet(c)
    PROVE  SameSide(c)
<1>1. consumed \in Nat
  BY DEF IndInv, TypeOK, KernelTypeOK
<1>. QED
  BY <1>1 DEF SameSide, Quiet

LEMMA StreamInit == Init => StreamInv
<1>. SUFFICES ASSUME Init, NEW c \in Conn PROVE Placed(c) /\ Outcome(c) /\ GoodWire(c)
  BY DEF StreamInv
<1>. QED
  BY DEF Init, KernelInit, ServerInit, ClientInit, Placed, Outcome, GoodWire

(* The steps of the server's loop that touch no client, and the child's. *)
LEMMA IdleStream ==
    ASSUME IndInv, StreamInv, UNCHANGED clientVars,
           \/ PollShutdown \/ AcceptDone \/ PtyDone \/ WaitPid \/ Shutdown
           \/ Child /\ UNCHANGED serverVars
    PROVE  StreamInv'
<1>. SUFFICES ASSUME NEW c \in Conn PROVE Placed(c)' /\ Outcome(c)' /\ GoodWire(c)'
  BY DEF StreamInv
<1>1. /\ UNCHANGED <<cliSock, srvSock, down, up, client, history, consumed, cur, snap, send_end>>
      /\ UNCHANGED <<rbuf, seen, cpc, result, code>>
  BY DEF PollShutdown, AcceptDone, PtyDone, WaitPid, Shutdown, Child, ChildWrite, ChildRead,
         ChildExit, kernelVars, sockVars, ptyVars, serverVars, clientVars
<1>2. ExitKept
  BY DEF PollShutdown, AcceptDone, PtyDone, WaitPid, Shutdown, serverVars, ExitKept
<1>3. pc' = "replay" <=> pc = "replay"
  BY DEF PollShutdown, AcceptDone, PtyDone, WaitPid, Shutdown, serverVars
<1>4. Still(c) /\ Quiet(c)
  BY <1>1, <1>3 DEF Still, Quiet, Replaying
<1>5. SameSide(c)
  BY <1>4, QuietSame
<1>. QED
  BY <1>2, <1>4, <1>5, StillInv DEF StreamInv

-------------------------------------------------------------------------------
(* What IndInv says of one connection. *)
LEMMA ConnTypes ==
    ASSUME IndInv, NEW c \in Conn
    PROVE  /\ rbuf[c] \in Seq(Cell) /\ down[c] \in Seq(Cell) /\ Len(down[c]) <= SNDBUF
           /\ client[c] \in Client /\ client[c].send_queue \in Seq(Cell)
           /\ client[c].buf \in Seq(Packet) /\ up[c] \in Seq(Packet)
           /\ seen[c] \in Seq(Nat)
           /\ consumed \in Nat
<1>1. client[c] \in Client
  BY DEF IndInv, TypeOK, ServerTypeOK
<1>. QED
  BY <1>1 DEF IndInv, TypeOK, KernelTypeOK, ClientTypeOK, SocketsInStep, ConnInStep, Client

(* Two sequences that are empty together are empty each. *)
LEMMA EmptyParts ==
    ASSUME NEW X, NEW a, NEW b, a \in Seq(X), b \in Seq(X), NEW r, Joins(r, a, b), r = <<>>
    PROVE  a = <<>> /\ b = <<>>
<1>1. Len(a \o b) = Len(a) + Len(b) /\ Len(a) \in Nat /\ Len(b) \in Nat
  BY ConcatProperties, LenProperties
<1>2. Len(a \o b) = 0
  BY EmptySeq DEF Joins
<1>3. Len(a) = 0 /\ Len(b) = 0
  BY <1>1, <1>2
<1>. QED
  BY <1>3, EmptySeq

(* The packet a client reads is the first of those on their way. *)
LEMMA RecvWire ==
    ASSUME IndInv, NEW c \in Conn, NEW t \in Seq(Cell), NEW ps \in Seq(Packet),
           Carries(c, t, ps), Whole(c)
    PROVE  /\ ps # <<>>
           /\ RecvPacket(c) = Head(ps)
           /\ RecvRest(c) \in Seq(Cell)
           /\ Joins(Wire(Tail(ps)), RecvRest(c) \o client[c].send_queue, t)
<1>. DEFINE x == Pending(c)
            q == client[c].send_queue
            y == q \o t
            r == Wire(ps)
            a == packet_bytes(Head(ps))
            b == Wire(Tail(ps))
<1>1. rbuf[c] \in Seq(Cell) /\ down[c] \in Seq(Cell) /\ q \in Seq(Cell)
  BY ConnTypes
<1>2. x \in Seq(Cell) /\ y \in Seq(Cell) /\ x # <<>> /\ Len(x) >= 1 + Head(x).val
  <2>1. x \in Seq(Cell) /\ y \in Seq(Cell) /\ Len(x) = Len(rbuf[c]) + Len(down[c])
    BY <1>1, ConcatProperties DEF Pending
  <2>2. Len(down[c]) \in Nat \ {0} /\ Len(rbuf[c]) \in Nat
    BY <1>1, EmptySeq, LenProperties DEF Whole
  <2>3. Len(x) # 0
    <3>. DEFINE m == Len(rbuf[c])
                n == Len(down[c])
                k == Len(x)
    <3>1. m \in Nat /\ n \in Nat /\ n # 0 /\ k = m + n
      BY <2>1, <2>2
    <3>. HIDE DEF m, n, k
    <3>2. k # 0
      BY <3>1
    <3>. QED
      BY <3>2 DEF k
  <2>. HIDE DEF x
  <2>4. x # <<>>
    BY <2>3, EmptySeq
  <2>5. Len(x) >= 1 + Head(x).val
    BY DEF Whole, Need, x
  <2>. QED
    BY <2>1, <2>4, <2>5
<1>3. Joins(r, x, y)
  <2>1. Joins(r, x \o q, t)
    BY DEF Carries, OnTheWay, Pending
  <2>. HIDE DEF x, q, r
  <2>2. Assoc(x, q, t)
    BY <1>1, <1>2, ConcatAssoc
  <2>. QED
    BY <2>1, <2>2 DEF Joins, Assoc
<1>4. ps # <<>>
  <2>. SUFFICES ASSUME ps = <<>> PROVE FALSE
    OBVIOUS
  <2>1. r = <<>>
    BY WireEmpty
  <2>. HIDE DEF x, y, r
  <2>. QED
    BY <1>2, <1>3, <2>1, EmptyParts
<1>5. Head(ps) \in Packet /\ Tail(ps) \in Seq(Packet) /\ Joins(r, a, b)
  BY <1>4, WireHead
<1>6. a \in Seq(Cell) /\ b \in Seq(Cell) /\ Len(a) = 1 + a[1].val /\ Len(a) \in Nat /\ Len(a) >= 1
  <2>1. a \in Seq(Cell) /\ Len(a) = 1 + Len(Head(ps).payload) /\ a[1].val = Len(Head(ps).payload)
    BY <1>5, PacketBytesType, PacketCellsAt
  <2>2. b \in Seq(Cell)
    BY <1>5, WireType
  <2>3. Head(ps).payload \in Seq(Nat)
    BY <1>5 DEF Packet
  <2>4. Len(Head(ps).payload) \in Nat
    BY <2>3, LenProperties
  <2>. HIDE DEF a, b
  <2>. QED
    BY <2>1, <2>2, <2>4
<1>7. CellsPacket(a) = Head(ps)
  BY <1>5, CellsPacketInverse
<1>8. RecvPacket(c) = CellsPacket(Take(x, 1 + Head(x).val)) /\ RecvRest(c) = Drop(x, 1 + Head(x).val)
  BY DEF RecvPacket, RecvRest, Need
<1>. HIDE DEF x, y, r, a, b
<1>9. Head(x) = a[1]
  <2>1. Len(a) >= 1 /\ Len(x) >= 1 /\ Head(x) = x[1]
    <3>1. Len(x) \in Nat \ {0}
      BY <1>2, EmptySeq
    <3>. QED
      BY <1>2, <1>6, <3>1
  <2>2. (x \o y)[1] = x[1] /\ (a \o b)[1] = a[1]
    BY <1>2, <1>6, <2>1
  <2>. QED
    BY <1>3, <1>5, <2>1, <2>2 DEF Joins
<1>10. Len(a) <= Len(x) /\ Len(a) = 1 + Head(x).val
  BY <1>2, <1>6, <1>9
<1>11. Take(x, Len(a)) = a /\ Drop(x, Len(a)) \in Seq(Cell) /\ Joins(b, Drop(x, Len(a)), y)
  <2>1. x \in Seq(Cell) /\ y \in Seq(Cell) /\ a \in Seq(Cell) /\ b \in Seq(Cell)
    BY <1>2, <1>6
  <2>2. Joins(r, x, y) /\ Joins(r, a, b) /\ Len(a) <= Len(x)
    BY <1>3, <1>5, <1>10
  <2>3. CutsAt(Cell, x, Len(a), y, a, b)
    BY <2>1, <2>2, CutFront
  <2>. QED
    BY <2>3 DEF CutsAt
<1>12. RecvPacket(c) = Head(ps) /\ RecvRest(c) \in Seq(Cell) /\ Joins(b, RecvRest(c), y)
  BY <1>7, <1>8, <1>10, <1>11
<1>13. Joins(b, RecvRest(c) \o q, t)
  <2>. HIDE DEF q
  <2>1. Assoc(RecvRest(c), q, t)
    BY <1>1, <1>12, ConcatAssoc
  <2>. QED
    BY <1>12, <2>1 DEF Joins, Assoc, y
<1>. QED
  BY <1>4, <1>12, <1>13 DEF b

(* What holds of some packets holds of all but the first of them. *)
LEMMA TailParts ==
    ASSUME NEW ps \in Seq(Packet), ps # <<>>
    PROVE  /\ Ended(Tail(ps)) => Ended(ps)
           /\ EndLast(ps) => EndLast(Tail(ps))
           /\ ExitTold(ps) => ExitTold(Tail(ps))
<1>. DEFINE qs == Tail(ps)
<1>1. /\ Len(qs) \in Nat /\ Len(ps) = Len(qs) + 1
      /\ \A i \in 1..Len(qs) : i + 1 \in 1..Len(ps) /\ qs[i] = ps[i + 1]
  OBVIOUS
<1>. HIDE DEF qs
<1>2. Ended(qs) => Ended(ps)
  BY <1>1 DEF Ended
<1>3. EndLast(ps) => EndLast(qs)
  <2>. SUFFICES ASSUME EndLast(ps), NEW i \in 1..Len(qs), NEW j \in 1..Len(qs),
                       i < j, qs[i].typ = "DUMP_END"
                PROVE  qs[j].typ # "CONTENT"
    BY DEF EndLast
  <2>1. i + 1 \in 1..Len(ps) /\ j + 1 \in 1..Len(ps) /\ i + 1 < j + 1 /\ ps[i + 1].typ = "DUMP_END"
    BY <1>1
  <2>2. ps[j + 1].typ # "CONTENT"
    BY <2>1 DEF EndLast
  <2>. QED
    BY <1>1, <2>2
<1>4. ExitTold(ps) => ExitTold(qs)
  BY <1>1 DEF ExitTold
<1>. QED
  BY <1>2, <1>3, <1>4 DEF qs

(* Receiving a packet and showing what it carries. *)
LEMMA ReceivedStream ==
    ASSUME IndInv, NEW c \in Conn, GoodWire(c), cliSock[c] = "open",
           UNCHANGED <<serverVars, ptyVars, cliSock, srvSock, up>>,
           Whole(c), NEW next, Received(c, next), rbuf' \in [Conn -> Seq(Cell)],
           next \in {"pid", "attach", "dump"} => cpc[c] \in {"pid", "attach", "dump"},
           \/ seen'[c] = seen[c] \o BytesOf(RecvPacket(c))
           \/ seen'[c] = seen[c] /\ cpc[c] = "pid",
           down \in [Conn -> Seq(Cell)], cpc \in [Conn -> CPCs], rbuf \in [Conn -> Seq(Cell)]
    PROVE  GoodWire(c)'
<1>1. PICK t \in Seq(Cell), ps \in Seq(Packet) : Carries(c, t, ps) /\ Good(c, ps)
  BY DEF GoodWire
<1>. DEFINE qs == Tail(ps)
            q == client[c].send_queue
            d == RecvRest(c)
<1>2. /\ ps # <<>> /\ RecvPacket(c) = Head(ps) /\ d \in Seq(Cell)
      /\ Joins(Wire(qs), d \o q, t)
  BY <1>1, RecvWire
<1>3. rbuf'[c] = <<>> /\ down'[c] = d /\ cpc'[c] = next /\ client' = client
  BY DEF Received, serverVars
<1>4. qs \in Seq(Packet) /\ Head(ps) \in Packet
  BY <1>2, WireHead
<1>5. OnTheWay(c)' = d \o q
  <2>1. <<>> \o d = d
    BY <1>2, ConcatEmptySeq
  <2>. QED
    BY <1>3, <2>1 DEF OnTheWay
<1>6. Carries(c, t, qs)'
  <2>1. Wire(qs)' = Wire(qs)
    BY DEF Wire
  <2>. QED
    BY <1>1, <1>2, <1>5, <2>1 DEF Carries
<1>7. Joins(Shown(ps), BytesOf(Head(ps)), Shown(qs)) /\ Shown(ps) \in Seq(Nat) /\ Shown(qs) \in Seq(Nat)
  BY <1>2, <1>4, WireHead, WireType
<1>8. seen[c] \in Seq(Nat) /\ BytesOf(Head(ps)) \in Seq(Nat)
  <2>1. Head(ps).payload \in Seq(Nat) /\ <<>> \in Seq(Nat)
    BY <1>4 DEF Packet
  <2>. QED
    BY <2>1, ConnTypes DEF BytesOf
<1>9. seen'[c] = seen[c] \o BytesOf(Head(ps))
  <2>1. CASE seen'[c] = seen[c] \o BytesOf(RecvPacket(c))
    BY <1>2, <2>1
  <2>2. CASE seen'[c] = seen[c] /\ cpc[c] = "pid"
    <3>1. Total(c, ps) = <<>>
      BY <1>1, <2>2 DEF Good, Opened, Fresh
    <3>2. Shown(ps) = <<>>
      BY <1>7, <1>8, <3>1, EmptyParts DEF Total, Joins
    <3>3. BytesOf(Head(ps)) = <<>>
      BY <1>7, <1>8, <3>2, EmptyParts
    <3>4. seen[c] \o <<>> = seen[c]
      BY <1>8, ConcatEmptySeq
    <3>. QED
      BY <2>2, <3>3, <3>4
  <2>. QED
    BY <2>1, <2>2
<1>10. Total(c, qs)' = Total(c, ps)
  <2>1. Assoc(seen[c], BytesOf(Head(ps)), Shown(qs))
    BY <1>7, <1>8, ConcatAssoc
  <2>2. Shown(qs)' = Shown(qs)
    BY DEF Shown
  <2>. HIDE DEF qs
  <2>. QED
    BY <1>7, <1>9, <2>1, <2>2 DEF Total, Joins, Assoc
<1>11. SameUnread(c, ps)
  <2>1. Unread(c)' = Unread(c)
    BY <1>3 DEF Unread
  <2>. QED
    BY <1>1, <1>3, <2>1 DEF Good, Opened, SameUnread
<1>12. SameSide(c)
  <2>1. Quiet(c)
    BY DEF Quiet, serverVars, ptyVars, Replaying
  <2>. QED
    BY <2>1, QuietSame
<1>13. EndLast(qs) /\ ExitTold(qs)' /\ (Ended(qs) => Ended(ps))
  <2>1. EndLast(qs) /\ ExitTold(qs) /\ (Ended(qs) => Ended(ps))
    BY <1>1, <1>2, TailParts DEF Good
  <2>. QED
    BY <2>1 DEF ExitTold, serverVars
<1>. HIDE DEF qs
<1>14. Good(c, qs)'
  BY <1>1, <1>4, <1>10, <1>11, <1>12, <1>13, GoodKept
<1>. QED
  BY <1>4, <1>6, <1>14 DEF GoodWire

(* The program of c ends. *)
LEMMA FinishStream ==
    ASSUME IndInv, NEW c \in Conn, Placed(c), NEW r, NEW left, Finish(c, r, left),
           UNCHANGED <<srvSock, serverVars, ptyVars>>, seen'[c] = seen[c],
           r = "exited" => child_exit # NoStatus /\ code'[c] = child_exit,
           Kind[c] = "dump" /\ r = "ok" => \E n \in 0..consumed : seen[c] = Newest(n)
    PROVE  Placed(c)' /\ Outcome(c)' /\ GoodWire(c)'
<1>1. /\ cpc'[c] = "done" /\ result'[c] = r /\ cliSock'[c] \in {"closed", "reset"}
      /\ down'[c] = <<>> /\ rbuf'[c] = <<>>
  BY TableTypes DEF Finish
<1>2. UNCHANGED <<client, child_exit, consumed, srvSock>>
  BY DEF serverVars, ptyVars
<1>3. Placed(c)'
  BY <1>1, <1>2 DEF Placed
<1>4. Outcome(c)'
  BY <1>1, <1>2 DEF Outcome
<1>5. GoodWire(c)'
  BY <1>1 DEF GoodWire
<1>. QED
  BY <1>3, <1>4, <1>5

LEMMA ClientQuiet ==
    ASSUME IndInv, NEW c \in Conn, UNCHANGED <<serverVars, ptyVars>>,
           srvSock'[c] = "open" => srvSock[c] = "open"
    PROVE  SameSide(c) /\ ExitKept
<1>1. Quiet(c) /\ ExitKept
  BY DEF Quiet, ExitKept, Replaying, serverVars, ptyVars
<1>. QED
  BY <1>1, QuietSame

(* c sends a packet: the first of all is MSG_ATTACH or MSG_DUMP. *)
LEMMA SendStream ==
    ASSUME IndInv, NEW c \in Conn, Placed(c), Outcome(c), GoodWire(c),
           NEW p \in Packet, NEW next \in CPCs \ {"start", "pid", "attach", "dump", "done"},
           up' = [up EXCEPT ![c] = Append(@, p)],
           cpc' = [cpc EXCEPT ![c] = next],
           UNCHANGED <<cliSock, down, rbuf, result, srvSock, serverVars, ptyVars, seen, code>>,
           cliSock[c] = "open", cpc[c] \notin {"start", "done"},
           Opening(p) => cpc[c] \in {"attach", "dump"},
           next = "keys" => cpc[c] = "keys"
    PROVE  Placed(c)' /\ Outcome(c)' /\ GoodWire(c)'
<1>1. up'[c] = Append(up[c], p) /\ cpc'[c] = next /\ client' = client /\ UNCHANGED <<child_exit, consumed>>
  BY TableTypes DEF serverVars, ptyVars
<1>2. Placed(c)'
  BY <1>1 DEF Placed
<1>3. Outcome(c)'
  BY <1>1 DEF Outcome
<1>4. PICK t \in Seq(Cell), ps \in Seq(Packet) : Carries(c, t, ps) /\ Good(c, ps)
  BY DEF GoodWire
<1>. DEFINE u == Unread(c)
            n == Len(u)
<1>5. client[c].buf \in Seq(Packet) /\ up[c] \in Seq(Packet)
  BY ConnTypes
<1>6. u \in Seq(Packet) /\ n \in Nat /\ Unread(c)' = Append(u, p)
  <2>1. AppendsAfter(client[c].buf, up[c], p)
    BY <1>5, ConcatAppend
  <2>2. u \in Seq(Packet)
    BY <1>5, ConcatProperties DEF Unread
  <2>3. Unread(c)' = Append(u, p)
    BY <1>1, <2>1 DEF Unread, AppendsAfter
  <2>. QED
    BY <2>2, <2>3, LenProperties
<1>7. SameUnread(c, ps)
  <2>1. cpc'[c] \notin {"pid", "attach", "dump"}
    BY <1>1
  <2>. HIDE DEF u
  <2>2. ASSUME NEW i \in 1..Len(Append(u, p)), Opening(Append(u, p)[i])
        PROVE  i = 1 /\ Fresh(c, ps)
    <3>1. CASE i = n + 1
      <4>1. Opening(p)
        BY <1>6, <2>2, <3>1
      <4>2. u = <<>> /\ Fresh(c, ps)
        BY <1>4, <4>1 DEF Good, Opened, u
      <4>. QED
        BY <3>1, <4>2
    <3>2. CASE i # n + 1
      <4>1. i \in 1..n /\ Opening(u[i])
        BY <1>6, <2>2, <3>2
      <4>. QED
        BY <1>4, <4>1 DEF Good, Opened, u
    <3>. QED
      BY <3>1, <3>2
  <2>. QED
    BY <1>6, <2>1, <2>2 DEF SameUnread
<1>8. SameSide(c)
  BY ClientQuiet
<1>9. Total(c, ps)' = Total(c, ps)
  BY DEF Total, Shown
<1>10. EndLast(ps) /\ ExitTold(ps)'
  BY <1>1, <1>4 DEF Good, ExitTold
<1>11. Good(c, ps)'
  BY <1>4, <1>7, <1>8, <1>9, <1>10, GoodKept
<1>12. Carries(c, t, ps)'
  <2>1. Wire(ps)' = Wire(ps) /\ OnTheWay(c)' = OnTheWay(c)
    BY <1>1 DEF Wire, OnTheWay
  <2>. QED
    BY <1>4, <2>1 DEF Carries
<1>. QED
  BY <1>2, <1>3, <1>11, <1>12 DEF GoodWire

(* SendOrFail in both its outcomes. *)
LEMMA SendOrFailStream ==
    ASSUME IndInv, NEW c \in Conn, Placed(c), Outcome(c), GoodWire(c),
           NEW p \in Packet, NEW next \in CPCs \ {"start", "pid", "attach", "dump", "done"},
           SendOrFail(c, p, next),
           UNCHANGED <<srvSock, serverVars, ptyVars, seen, code>>,
           cpc[c] \notin {"start", "done"},
           Opening(p) => cpc[c] \in {"attach", "dump"},
           next = "keys" => cpc[c] = "keys"
    PROVE  Placed(c)' /\ Outcome(c)' /\ GoodWire(c)'
<1>1. CASE srvSock[c] = "closed"
  <2>1. Finish(c, "error", down[c])
    BY <1>1 DEF SendOrFail
  <2>. QED
    BY <2>1, FinishStream
<1>2. CASE srvSock[c] # "closed"
  <2>1. /\ up' = [up EXCEPT ![c] = Append(@, p)]
        /\ cpc' = [cpc EXCEPT ![c] = next]
        /\ UNCHANGED <<cliSock, down, rbuf, result>>
    BY <1>2 DEF SendOrFail
  <2>2. cliSock[c] = "open"
    BY DEF Placed
  <2>. QED
    BY <2>1, <2>2, SendStream
<1>. QED
  BY <1>1, <1>2

(* A step of c that moves no cell and sends nothing. *)
LEMMA StepStream ==
    ASSUME IndInv, NEW c \in Conn, Placed(c), Outcome(c), GoodWire(c),
           UNCHANGED <<cliSock[c], srvSock[c], up[c], serverVars, ptyVars>>,
           UNCHANGED <<seen[c], result[c], code[c]>>,
           OnTheWay(c)' = OnTheWay(c),
           rbuf'[c] # rbuf[c] => srvSock[c] \notin {"none", "backlog"},
           cliSock[c] = "open",
           cpc'[c] \notin {"start", "pid", "attach", "dump", "keys", "done"} \/ cpc'[c] = cpc[c],
           cpc[c] # "done"
    PROVE  Placed(c)' /\ Outcome(c)' /\ GoodWire(c)'
<1>1. client' = client /\ UNCHANGED <<child_exit, consumed>>
  BY DEF serverVars, ptyVars
<1>2. Placed(c)'
  BY <1>1 DEF Placed
<1>3. Outcome(c)'
  BY <1>1 DEF Outcome
<1>4. SameSide(c) /\ ExitKept
  BY ClientQuiet
<1>5. Unread(c)' = Unread(c)
  BY <1>1 DEF Unread
<1>6. GoodWire(c)'
  BY <1>4, <1>5, WireKept
<1>. QED
  BY <1>2, <1>3, <1>6

LEMMA ConnectStream ==
    ASSUME IndInv, NEW c \in Conn, Placed(c), Outcome(c), Connect(c), UNCHANGED serverVars
    PROVE  Placed(c)' /\ Outcome(c)' /\ GoodWire(c)'
<1>1. /\ cpc[c] = "start" /\ cpc'[c] = "pid" /\ cliSock'[c] = "open" /\ srvSock'[c] = "backlog"
      /\ UNCHANGED <<up, down, ptyVars, rbuf, seen, sent, result, code>>
      /\ client' = client /\ UNCHANGED <<pc, cur, child_exit>> /\ consumed' = consumed
  BY TableTypes DEF Connect, serverVars, ptyVars
<1>2. srvSock[c] = "none" /\ down[c] = <<>> /\ (pc = "replay" => cur # c)
  BY <1>1 DEF IndInv, SocketsInStep, ConnInStep
<1>3. client[c] = NewClient /\ rbuf[c] = <<>> /\ seen[c] = <<>> /\ up[c] = <<>>
  BY <1>1, <1>2 DEF Placed
<1>4. client[c].buf = <<>> /\ client[c].send_queue = <<>> /\ ~client[c].attached
  BY <1>3 DEF NewClient
<1>5. Placed(c)'
  BY <1>1, <1>3 DEF Placed
<1>6. Outcome(c)'
  BY <1>1 DEF Outcome
<1>7. Carries(c, <<>>, <<>>)'
  BY <1>1, <1>2, <1>3, <1>4, WireEmpty DEF Carries, Joins, OnTheWay, Wire
<1>8. /\ Total(c, <<>>)' = <<>> /\ Unread(c)' = <<>> /\ ~Replaying(c)'
      /\ ~client'[c].attached /\ Len(<<>>) = 0
  BY <1>1, <1>2, <1>3, <1>4, WireEmpty DEF Total, Unread, Replaying, Shown
<1>9. Good(c, <<>>)'
  <2>1. Fresh(c, <<>>)'
    BY <1>8 DEF Fresh, Ended
  <2>. QED
    BY <1>8, <2>1 DEF Good, ExitTold, Opened, Streamed, EndLast, DumpGoing, Ended
<1>10. <<>> \in Seq(Cell) /\ <<>> \in Seq(Packet)
  OBVIOUS
<1>. QED
  BY <1>5, <1>6, <1>7, <1>9, <1>10 DEF GoodWire

(* MSG_EXIT, read by client_loop. *)
LEMMA RecvExitStream ==
    ASSUME IndInv, NEW c \in Conn, Placed(c), GoodWire(c), RecvExit(c), UNCHANGED serverVars
    PROVE  Placed(c)' /\ Outcome(c)' /\ GoodWire(c)'
<1>1. cliSock[c] = "open" /\ Whole(c)
  BY DEF RecvExit, Placed
<1>2. PICK t \in Seq(Cell), ps \in Seq(Packet) : Carries(c, t, ps) /\ Good(c, ps)
  BY <1>1 DEF GoodWire
<1>3. ps # <<>> /\ RecvPacket(c) = Head(ps)
  BY <1>1, <1>2, RecvWire
<1>4. 1 \in 1..Len(ps) /\ Head(ps) = ps[1]
  BY <1>3
<1>5. child_exit # NoStatus /\ RecvPacket(c).payload = <<child_exit>>
  BY <1>2, <1>3, <1>4 DEF RecvExit, Good, ExitTold
<1>6. read_u32(RecvPacket(c).payload) = child_exit
  BY <1>5 DEF read_u32
<1>7. code'[c] = child_exit
  BY <1>6, TableTypes DEF RecvExit
<1>. QED
  BY <1>5, <1>7, FinishStream DEF RecvExit

(* MSG_DUMP_END, read by dump_session: all content came before it. *)
LEMMA RecvDumpEnd ==
    ASSUME IndInv, NEW c \in Conn, GoodWire(c), cliSock[c] = "open", Whole(c),
           RecvPacket(c).typ = "DUMP_END"
    PROVE  \E n \in 0..consumed : seen[c] = Newest(n)
<1>1. PICK t \in Seq(Cell), ps \in Seq(Packet) : Carries(c, t, ps) /\ Good(c, ps)
  BY DEF GoodWire
<1>2. ps # <<>> /\ RecvPacket(c) = Head(ps)
  BY <1>1, RecvWire
<1>3. 1 \in 1..Len(ps) /\ ps[1].typ = "DUMP_END"
  BY <1>2
<1>4. PICK n \in 0..consumed : Total(c, ps) = Newest(n)
  BY <1>1, <1>3 DEF Good, DumpGoing, Ended
<1>5. Shown(ps) = <<>>
  <2>1. \A i \in 1..Len(ps) : ps[i].typ # "CONTENT"
    <3>. SUFFICES ASSUME NEW i \in 1..Len(ps), ps[i].typ = "CONTENT" PROVE FALSE
      OBVIOUS
    <3>1. i # 1 /\ 1 < i
      BY <1>3
    <3>. QED
      BY <1>1, <1>3, <3>1 DEF Good, EndLast
  <2>2. [i \in 1..Len(ps) |-> BytesOf(ps[i])] = Blanks(Len(ps))
    BY <2>1 DEF BytesOf, Blanks
  <2>. QED
    BY <2>2, FlattenBlanks, LenProperties DEF Shown
<1>6. seen[c] \o <<>> = seen[c]
  BY ConnTypes, ConcatEmptySeq
<1>. QED
  BY <1>4, <1>5, <1>6 DEF Total

(* Where a client that received a packet goes on. *)
LEMMA ReceivedPlaced ==
    ASSUME IndInv, NEW c \in Conn, Placed(c), Outcome(c),
           cpc[c] \notin {"start", "done"}, NEW next \in CPCs \ {"start", "done"},
           Received(c, next), UNCHANGED <<serverVars, ptyVars, cliSock, srvSock, result>>,
           next = "keys" => Kind[c] = "keys"
    PROVE  Placed(c)' /\ Outcome(c)'
<1>1. /\ cpc'[c] = next /\ rbuf'[c] = <<>> /\ client' = client
      /\ UNCHANGED <<child_exit, consumed>>
  BY TableTypes DEF Received, serverVars, ptyVars
<1>2. cliSock[c] = "open" /\ result[c] = "none"
  BY DEF Placed, Outcome
<1>. QED
  BY <1>1, <1>2 DEF Placed, Outcome

LEMMA RecvPidStream ==
    ASSUME IndInv, NEW c \in Conn, Placed(c), Outcome(c), GoodWire(c),
           RecvPid(c), UNCHANGED serverVars
    PROVE  Placed(c)' /\ Outcome(c)' /\ GoodWire(c)'
<1>1. cpc[c] = "pid" /\ Whole(c) /\ cliSock[c] = "open" /\ UNCHANGED <<ptyVars, seen>>
  BY DEF RecvPid, Placed
<1>2. CASE Kind[c] = "probe"
  <2>1. PICK r \in {"ok", "error"} : Finish(c, r, RecvRest(c))
    BY <1>2 DEF RecvPid
  <2>2. UNCHANGED <<srvSock, serverVars, ptyVars>> /\ seen'[c] = seen[c]
    BY <1>1, <1>2 DEF RecvPid
  <2>. QED
    BY <1>2, <2>1, <2>2, FinishStream
<1>3. CASE Kind[c] # "probe"
  <2>. DEFINE next == CASE Kind[c] = "dump" -> "dump"
                        [] Kind[c] = "keys" -> "keys"
                        [] OTHER -> "attach"
  <2>1. Received(c, next) /\ UNCHANGED <<cliSock, srvSock, up, result>>
    BY <1>3 DEF RecvPid
  <2>2. next \in {"dump", "keys", "attach"} /\ (next = "keys" => Kind[c] = "keys")
    OBVIOUS
  <2>. HIDE DEF next
  <2>3. next \in CPCs \ {"start", "done"}
    BY <2>2 DEF CPCs
  <2>4. Placed(c)' /\ Outcome(c)'
    BY <1>1, <2>1, <2>2, <2>3, ReceivedPlaced
  <2>5. rbuf' \in [Conn -> Seq(Cell)]
    BY <2>1, TableTypes DEF Received
  <2>6. UNCHANGED <<serverVars, ptyVars, cliSock, srvSock, up>> /\ seen'[c] = seen[c]
    BY <1>1, <2>1
  <2>7. GoodWire(c)'
    BY <1>1, <2>1, <2>5, <2>6, TableTypes, ReceivedStream
  <2>. QED
    BY <2>4, <2>7
<1>. QED
  BY <1>2, <1>3

(* MSG_CONTENT, and what is ignored, read by client_loop or dump_session. *)
LEMMA RecvShownStream ==
    ASSUME IndInv, NEW c \in Conn, Placed(c), Outcome(c), GoodWire(c),
           cpc[c] \in {"loop", "recv", "dumping"}, Whole(c),
           NEW next \in {"stdin", "dumping"}, Received(c, next),
           seen' = [seen EXCEPT ![c] = IF RecvPacket(c).typ = "CONTENT"
                                         THEN @ \o RecvPacket(c).payload ELSE @],
           UNCHANGED <<serverVars, ptyVars, cliSock, srvSock, up, result>>
    PROVE  Placed(c)' /\ Outcome(c)' /\ GoodWire(c)'
<1>1. cliSock[c] = "open" /\ cpc[c] \notin {"start", "done"}
  BY DEF Placed
<1>2. Placed(c)' /\ Outcome(c)'
  BY <1>1, ReceivedPlaced DEF CPCs
<1>3. rbuf' \in [Conn -> Seq(Cell)]
  BY TableTypes DEF Received
<1>4. seen[c] \o <<>> = seen[c]
  BY ConnTypes, ConcatEmptySeq
<1>5. seen'[c] = seen[c] \o BytesOf(RecvPacket(c))
  BY <1>4, TableTypes DEF BytesOf
<1>6. GoodWire(c)'
  BY <1>1, <1>3, <1>5, TableTypes, ReceivedStream
<1>. QED
  BY <1>2, <1>6

LEMMA RecvDumpStream ==
    ASSUME IndInv, NEW c \in Conn, Placed(c), Outcome(c), GoodWire(c),
           RecvDump(c), UNCHANGED serverVars
    PROVE  Placed(c)' /\ Outcome(c)' /\ GoodWire(c)'
<1>1. cpc[c] = "dumping" /\ Whole(c) /\ cliSock[c] = "open" /\ UNCHANGED ptyVars
  BY DEF RecvDump, Placed
<1>2. CASE RecvPacket(c).typ = "DUMP_END"
  <2>1. Finish(c, "ok", RecvRest(c)) /\ UNCHANGED <<srvSock, seen>>
    BY <1>2 DEF RecvDump
  <2>2. \E n \in 0..consumed : seen[c] = Newest(n)
    BY <1>1, <1>2, RecvDumpEnd
  <2>. QED
    BY <1>1, <2>1, <2>2, FinishStream
<1>3. CASE RecvPacket(c).typ # "DUMP_END"
  BY <1>1, <1>3, RecvShownStream DEF RecvDump
<1>. QED
  BY <1>2, <1>3

LEMMA RecvPartStream ==
    ASSUME IndInv, NEW c \in Conn, Placed(c), Outcome(c), GoodWire(c),
           RecvPart(c), UNCHANGED serverVars
    PROVE  Placed(c)' /\ Outcome(c)' /\ GoodWire(c)'
<1>1. /\ rbuf'[c] = rbuf[c] \o down[c] /\ down'[c] = <<>> /\ down[c] # <<>>
      /\ cpc'[c] = IF cpc[c] = "loop" THEN "recv" ELSE cpc[c]
      /\ UNCHANGED <<cliSock, srvSock, up, ptyVars, seen, result, code>> /\ Receiving(c)
  BY TableTypes DEF RecvPart, Pending
<1>2. (rbuf[c] \o down[c]) \o <<>> = rbuf[c] \o down[c]
  <2>1. rbuf[c] \o down[c] \in Seq(Cell)
    BY ConnTypes, ConcatProperties
  <2>. QED
    BY <2>1, ConcatEmptySeq
<1>3. client' = client
  BY DEF serverVars
<1>4. OnTheWay(c)' = OnTheWay(c)
  BY <1>1, <1>2, <1>3 DEF OnTheWay
<1>5. srvSock[c] \notin {"none", "backlog"}
  BY <1>1 DEF IndInv, SocketsInStep, ConnInStep
<1>6. cpc[c] \notin {"start", "done"} /\ cliSock[c] = "open"
  BY <1>1 DEF Receiving, Placed
<1>. QED
  BY <1>1, <1>4, <1>5, <1>6, StepStream

LEMMA ClientStep ==
    ASSUME IndInv, NEW c \in Conn, Placed(c), Outcome(c), GoodWire(c),
           ClientRuns(c) \/ ClientUser(c), UNCHANGED serverVars
    PROVE  Placed(c)' /\ Outcome(c)' /\ GoodWire(c)'
<1>1. CASE Connect(c)
  BY <1>1, ConnectStream
<1>2. CASE ConnectRefused(c)
  <2>1. /\ cpc[c] = "start" /\ cpc'[c] = "done" /\ result'[c] = "error"
        /\ UNCHANGED <<cliSock, srvSock, up, down, rbuf, seen, code, client>>
    BY <1>2, TableTypes DEF ConnectRefused, kernelVars, sockVars, serverVars
  <2>2. cliSock[c] = "none"
    BY <2>1 DEF Placed
  <2>. QED
    BY <2>1, <2>2 DEF Placed, Outcome, GoodWire
<1>3. CASE RecvPart(c)
  BY <1>3, RecvPartStream
<1>4. CASE RecvFail(c)
  <2>1. PICK r \in {"ioerror", "error"} : Finish(c, r, down[c])
    BY <1>4 DEF RecvFail
  <2>2. UNCHANGED <<srvSock, ptyVars, seen>>
    BY <1>4 DEF RecvFail
  <2>. QED
    BY <2>1, <2>2, FinishStream
<1>5. CASE RecvPid(c)
  BY <1>5, RecvPidStream
<1>6. CASE RecvLoop(c)
  BY <1>6, RecvShownStream DEF RecvLoop
<1>7. CASE RecvExit(c)
  BY <1>7, RecvExitStream
<1>8. CASE RecvDump(c)
  BY <1>8, RecvDumpStream
<1>9. CASE SendAttach(c)
  <2>. DEFINE p == [typ |-> "ATTACH", payload |-> <<flags(c)>>]
  <2>1. p \in Packet
    BY DEF Packet, MsgType, flags
  <2>2. SendOrFail(c, p, "resize") /\ UNCHANGED <<srvSock, ptyVars, seen, code>> /\ cpc[c] = "attach"
    BY <1>9 DEF SendAttach
  <2>. HIDE DEF p
  <2>. QED
    BY <2>1, <2>2, SendOrFailStream DEF CPCs
<1>10. CASE send_resize(c)
  <2>. DEFINE p == [typ |-> "RESIZE", payload |-> <<TermSize[c]>>]
  <2>1. p \in Packet /\ p.typ = "RESIZE"
    BY ConnAssumption DEF Packet, MsgType
  <2>2. SendOrFail(c, p, "loop") /\ UNCHANGED <<srvSock, ptyVars, seen, code>> /\ cpc[c] = "resize"
    BY <1>10 DEF send_resize
  <2>. HIDE DEF p
  <2>. QED
    BY <2>1, <2>2, SendOrFailStream DEF CPCs, Opening
<1>11. CASE SendDump(c)
  <2>. DEFINE p == [typ |-> "DUMP", payload |-> <<>>]
  <2>1. p \in Packet
    BY DEF Packet, MsgType
  <2>2. SendOrFail(c, p, "dumping") /\ UNCHANGED <<srvSock, ptyVars, seen, code>> /\ cpc[c] = "dump"
    BY <1>11 DEF SendDump
  <2>. HIDE DEF p
  <2>. QED
    BY <2>1, <2>2, SendOrFailStream DEF CPCs
<1>12. CASE SendKeys(c)
  <2>1. cpc[c] = "keys" /\ UNCHANGED <<srvSock, ptyVars, seen, code>> /\ Kind[c] = "keys"
    BY <1>12 DEF SendKeys, Placed
  <2>2. CASE sent[c] = KEYS
    <3>1. Finish(c, "ok", down[c])
      BY <1>12, <2>2 DEF SendKeys
    <3>. QED
      BY <2>1, <3>1, FinishStream
  <2>3. CASE sent[c] # KEYS
    <3>. DEFINE n == MinOf(MAX_PAYLOAD, KEYS - sent[c])
                p == [typ |-> "SEND_KEYS", payload |-> [i \in 1..n |-> sent[c] + i]]
    <3>1. SendOrFail(c, p, "keys")
      BY <1>12, <2>3 DEF SendKeys
    <3>2. sent[c] \in Nat /\ KEYS \in Nat /\ sent[c] <= KEYS /\ MAX_PAYLOAD \in Nat
      BY TableTypes, BoundAssumption DEF IndInv, SocketsInStep, ConnInStep
    <3>3. n \in Nat
      BY <3>2 DEF MinOf
    <3>. HIDE DEF n
    <3>4. [i \in 1..n |-> sent[c] + i] \in Seq(Nat)
      BY <3>2, <3>3
    <3>5. p \in Packet /\ p.typ = "SEND_KEYS"
      BY <3>4 DEF Packet, MsgType
    <3>. HIDE DEF p
    <3>. QED
      BY <2>1, <3>1, <3>5, SendOrFailStream DEF CPCs, Opening
  <2>. QED
    BY <2>2, <2>3
<1>13. CASE StdinEmpty(c) \/ SelectStdin(c)
  <2>1. /\ cpc[c] \in {"stdin", "loop"} /\ cpc'[c] \in {"stdin", "loop"}
        /\ UNCHANGED <<cliSock, srvSock, up, down, ptyVars, rbuf, seen, result, code>>
    BY <1>13, TableTypes DEF StdinEmpty, SelectStdin, kernelVars, sockVars
  <2>2. cliSock[c] = "open" /\ OnTheWay(c)' = OnTheWay(c)
    BY <2>1 DEF Placed, OnTheWay, serverVars
  <2>. QED
    BY <2>1, <2>2, StepStream
<1>14. CASE StdinKey(c)
  <2>1. cpc[c] = "stdin" /\ UNCHANGED <<srvSock, ptyVars, seen, code>> /\ cliSock[c] = "open"
    BY <1>14 DEF StdinKey, Placed
  <2>2. CASE Kind[c] = "readonly"
    <3>1. cpc'[c] = "loop" /\ UNCHANGED <<up, cliSock, down, rbuf, result>>
      BY <1>14, <2>2, TableTypes DEF StdinKey
    <3>2. OnTheWay(c)' = OnTheWay(c)
      BY <3>1 DEF OnTheWay, serverVars
    <3>. QED
      BY <2>1, <3>1, <3>2, StepStream
  <2>3. CASE Kind[c] # "readonly"
    <3>. DEFINE p == [typ |-> "CONTENT", payload |-> <<sent[c] + 1>>]
    <3>1. SendOrFail(c, p, "loop")
      BY <1>14, <2>3 DEF StdinKey
    <3>2. p \in Packet /\ p.typ = "CONTENT"
      <4>1. sent[c] + 1 \in Nat
        BY TableTypes
      <4>. QED
        BY <4>1 DEF Packet, MsgType
    <3>. HIDE DEF p
    <3>. QED
      BY <2>1, <3>1, <3>2, SendOrFailStream DEF CPCs, Opening
  <2>. QED
    BY <2>2, <2>3
<1>15. CASE StdinDetach(c)
  <2>1. PICK r \in {"error", "detached"} : Finish(c, r, down[c])
    BY <1>15 DEF StdinDetach
  <2>2. UNCHANGED <<srvSock, ptyVars, seen>>
    BY <1>15 DEF StdinDetach
  <2>. QED
    BY <2>1, <2>2, FinishStream
<1>16. CASE StdinEof(c)
  <2>1. Finish(c, "detached", down[c]) /\ UNCHANGED <<srvSock, ptyVars, seen>>
    BY <1>16 DEF StdinEof
  <2>. QED
    BY <2>1, FinishStream
<1>17. CASE Killed(c)
  <2>1. Finish(c, "killed", down[c]) /\ UNCHANGED <<srvSock, ptyVars, seen>>
    BY <1>17 DEF Killed
  <2>. QED
    BY <2>1, FinishStream
<1>. QED
  BY <1>1, <1>2, <1>3, <1>4, <1>5, <1>6, <1>7, <1>8, <1>9, <1>10, <1>11, <1>12, <1>13,
     <1>14, <1>15, <1>16, <1>17 DEF ClientRuns, ClientUser

(* A step of one client keeps the invariant for all of them. *)
LEMMA ClientStream ==
    ASSUME IndInv, StreamInv, NEW d \in Conn, ClientRuns(d) \/ ClientUser(d),
           UNCHANGED serverVars
    PROVE  StreamInv'
<1>. SUFFICES ASSUME NEW c \in Conn PROVE Placed(c)' /\ Outcome(c)' /\ GoodWire(c)'
  BY DEF StreamInv
<1>1. Placed(c) /\ Outcome(c) /\ GoodWire(c)
  BY DEF StreamInv
<1>2. CASE c = d
  BY <1>1, <1>2, ClientStep
<1>3. CASE c # d
  <2>1. /\ UNCHANGED ptyVars
        /\ UNCHANGED <<cliSock[c], srvSock[c], rbuf[c], down[c], up[c]>>
        /\ UNCHANGED <<seen[c], cpc[c], result[c], code[c]>>
    BY <1>3, OtherClient
  <2>2. SameSide(c) /\ ExitKept
    BY <2>1, ClientQuiet
  <2>3. Still(c)
    BY <2>1 DEF Still, serverVars
  <2>. QED
    BY <1>1, <2>2, <2>3, StillInv
<1>. QED
  BY <1>2, <1>3

-------------------------------------------------------------------------------
(* The server.  What it does to c leaves c's program where it is. *)
LEMMA PlacedServer ==
    ASSUME IndInv, NEW c \in Conn, Placed(c), Outcome(c), ExitKept,
           UNCHANGED <<clientVars, cliSock>>, consumed' \in Nat, consumed <= consumed',
           up'[c] = up[c] \/ up'[c] = <<>>,
           cliSock[c] # "open" => down'[c] = down[c],
           srvSock'[c] # "open" => client'[c] = NewClient,
           srvSock'[c] \in {"none", "backlog"} => srvSock[c] \in {"none", "backlog"}
    PROVE  Placed(c)' /\ Outcome(c)'
<1>1. consumed \in Nat /\ UNCHANGED <<rbuf, seen, cpc, result, code>>
  BY ConnTypes DEF clientVars
<1>2. Placed(c)'
  BY <1>1 DEF Placed
<1>3. \A n \in 0..consumed : n \in 0..consumed'
  BY <1>1
<1>4. Outcome(c)'
  BY <1>1, <1>3 DEF Outcome, ExitKept
<1>. QED
  BY <1>2, <1>4

LEMMA AppendParts ==
    ASSUME NEW ps \in Seq(Packet), NEW p \in Packet
    PROVE  /\ Append(ps, p) \in Seq(Packet)
           /\ Ended(Append(ps, p)) <=> Ended(ps) \/ p.typ = "DUMP_END"
           /\ EndLast(ps) /\ (p.typ = "CONTENT" => ~Ended(ps)) => EndLast(Append(ps, p))
           /\ ExitTold(ps) /\ (p.typ = "EXIT" => child_exit # NoStatus /\ p.payload = <<child_exit>>)
                => ExitTold(Append(ps, p))
<1>. DEFINE qs == Append(ps, p)
            n == Len(ps)
<1>1. /\ qs \in Seq(Packet) /\ n \in Nat /\ Len(qs) = n + 1 /\ qs[n + 1] = p
      /\ \A i \in 1..n : qs[i] = ps[i]
  OBVIOUS
<1>. HIDE DEF qs, n
<1>2. 1..(n + 1) = 1..n \cup {n + 1}
  BY <1>1
<1>3. Ended(qs) <=> Ended(ps) \/ p.typ = "DUMP_END"
  BY <1>1, <1>2 DEF Ended, n
<1>4. ASSUME EndLast(ps), p.typ = "CONTENT" => ~Ended(ps) PROVE EndLast(qs)
  <2>. SUFFICES ASSUME NEW i \in 1..(n + 1), NEW j \in 1..(n + 1), i < j, qs[i].typ = "DUMP_END"
                PROVE  qs[j].typ # "CONTENT"
    BY <1>1 DEF EndLast
  <2>1. i \in 1..n /\ ps[i].typ = "DUMP_END"
    BY <1>1
  <2>2. CASE j = n + 1
    BY <1>1, <1>4, <2>1, <2>2 DEF Ended, n
  <2>3. CASE j # n + 1
    <3>1. j \in 1..n /\ qs[j] = ps[j]
      BY <1>1, <2>3
    <3>. QED
      BY <1>4, <2>1, <3>1 DEF EndLast, n
  <2>. QED
    BY <2>2, <2>3
<1>5. ASSUME ExitTold(ps), p.typ = "EXIT" => child_exit # NoStatus /\ p.payload = <<child_exit>>
      PROVE  ExitTold(qs)
  BY <1>1, <1>2, <1>5 DEF ExitTold, n
<1>. QED
  BY <1>1, <1>3, <1>4, <1>5 DEF qs

(* One packet more on its way to c. *)
LEMMA CarriesAppend ==
    ASSUME IndInv, NEW c \in Conn, NEW t \in Seq(Cell), NEW ps \in Seq(Packet), NEW p \in Packet,
           Carries(c, t, ps), srvSock[c] # "closed", seen'[c] = seen[c],
           Joins(OnTheWay(c)', OnTheWay(c), packet_bytes(p))
    PROVE  /\ Carries(c, <<>>, Append(ps, p))'
           /\ Joins(Total(c, Append(ps, p))', Total(c, ps), BytesOf(p))
<1>. DEFINE w == OnTheWay(c)
            v == OnTheWay(c)'
            b == packet_bytes(p)
            s == Shown(ps)
            g == BytesOf(p)
<1>1. w \in Seq(Cell) /\ b \in Seq(Cell)
  <2>1. rbuf[c] \in Seq(Cell) /\ down[c] \in Seq(Cell) /\ client[c].send_queue \in Seq(Cell)
    BY ConnTypes
  <2>2. rbuf[c] \o down[c] \in Seq(Cell)
    BY <2>1, ConcatProperties
  <2>3. w \in Seq(Cell)
    BY <2>1, <2>2, ConcatProperties DEF OnTheWay
  <2>. QED
    BY <2>3, PacketBytesType
<1>2. Wire(ps) = w
  <2>1. Joins(Wire(ps), w, <<>>)
    BY DEF Carries
  <2>. HIDE DEF w
  <2>. QED
    BY <1>1, <2>1, ConcatEmptySeq DEF Joins
<1>3. Joins(Wire(Append(ps, p)), w, b) /\ Joins(Shown(Append(ps, p)), s, g)
  BY <1>2, WireAppend
<1>4. Joins(v, w, b)
  OBVIOUS
<1>5. s \in Seq(Nat) /\ g \in Seq(Nat) /\ seen[c] \in Seq(Nat)
  <2>1. p.payload \in Seq(Nat) /\ <<>> \in Seq(Nat)
    BY DEF Packet
  <2>. QED
    BY <2>1, ConnTypes, WireType DEF BytesOf
<1>6. Wire(Append(ps, p))' = Wire(Append(ps, p)) /\ Shown(Append(ps, p))' = Shown(Append(ps, p))
  BY DEF Wire, Shown
<1>7. v \o <<>> = v
  <2>1. v = w \o b
    BY <1>4 DEF Joins
  <2>. HIDE DEF v, w, b
  <2>2. v \in Seq(Cell)
    BY <1>1, <2>1, ConcatProperties
  <2>. QED
    BY <2>2, ConcatEmptySeq
<1>8. Carries(c, <<>>, Append(ps, p))'
  <2>1. Wire(Append(ps, p)) = v
    BY <1>3, <1>4 DEF Joins
  <2>. QED
    BY <1>6, <1>7, <2>1 DEF Carries, Joins
<1>9. Joins(Total(c, Append(ps, p))', Total(c, ps), g)
  <2>1. Total(c, Append(ps, p))' = seen[c] \o Shown(Append(ps, p))
    BY <1>6 DEF Total
  <2>2. Total(c, ps) = seen[c] \o s
    BY DEF Total
  <2>. HIDE DEF s, g
  <2>3. Assoc(seen[c], s, g)
    BY <1>5, ConcatAssoc
  <2>. QED
    BY <1>3, <2>1, <2>2, <2>3 DEF Joins, Assoc
<1>. QED
  BY <1>8, <1>9

(* A packet that shows nothing: MSG_PID or MSG_EXIT. *)
LEMMA SilentStream ==
    ASSUME IndInv, NEW c \in Conn, GoodWire(c), cliSock[c] = "open", srvSock[c] # "closed",
           SameSide(c), ExitKept, seen'[c] = seen[c], cpc'[c] = cpc[c], Unread(c)' = Unread(c),
           NEW p \in Packet, p.typ \notin {"CONTENT", "DUMP_END"},
           p.typ = "EXIT" => child_exit' # NoStatus /\ p.payload = <<child_exit'>>,
           Joins(OnTheWay(c)', OnTheWay(c), packet_bytes(p))
    PROVE  GoodWire(c)'
<1>1. PICK t \in Seq(Cell), ps \in Seq(Packet) : Carries(c, t, ps) /\ Good(c, ps)
  BY DEF GoodWire
<1>. DEFINE qs == Append(ps, p)
<1>2. Carries(c, <<>>, qs)' /\ Joins(Total(c, qs)', Total(c, ps), BytesOf(p))
  BY <1>1, CarriesAppend
<1>3. Total(c, qs)' = Total(c, ps)
  <2>1. BytesOf(p) = <<>>
    BY DEF BytesOf
  <2>2. Total(c, ps) \in Seq(Nat)
    <3>1. seen[c] \in Seq(Nat) /\ Shown(ps) \in Seq(Nat)
      BY ConnTypes, WireType
    <3>. QED
      BY <3>1, ConcatProperties DEF Total
  <2>3. Total(c, ps) \o <<>> = Total(c, ps)
    BY <2>2, ConcatEmptySeq
  <2>. QED
    BY <1>2, <2>1, <2>3 DEF Joins
<1>4. SameUnread(c, ps)
  BY <1>1 DEF Good, Opened, SameUnread
<1>5. EndLast(ps) /\ ExitTold(ps)
  BY <1>1 DEF Good
<1>6. qs \in Seq(Packet) /\ (Ended(qs) => Ended(ps)) /\ EndLast(qs)
  BY <1>5, AppendParts
<1>7. ExitTold(qs)'
  <2>1. \A i \in 1..Len(qs) : (i \in 1..Len(ps) /\ qs[i] = ps[i]) \/ qs[i] = p
    OBVIOUS
  <2>. HIDE DEF qs
  <2>. QED
    BY <1>5, <2>1 DEF ExitTold, ExitKept
<1>. HIDE DEF qs
<1>8. Good(c, qs)'
  BY <1>1, <1>3, <1>4, <1>6, <1>7, GoodKept
<1>9. <<>> \in Seq(Cell)
  OBVIOUS
<1>. QED
  BY <1>2, <1>6, <1>8, <1>9 DEF GoodWire

LEMMA AcceptStream ==
    ASSUME IndInv, StreamInv, UNCHANGED clientVars,
           NEW d \in Conn, Accept(d) \/ AcceptDropped(d)
    PROVE  StreamInv'
<1>. SUFFICES ASSUME NEW c \in Conn PROVE Placed(c)' /\ Outcome(c)' /\ GoodWire(c)'
  BY DEF StreamInv
<1>. DEFINE p == [typ |-> "PID", payload |-> <<1>>]
<1>1. Placed(c) /\ Outcome(c) /\ GoodWire(c) /\ Placed(d)
  BY DEF StreamInv
<1>2. /\ srvSock[d] = "backlog" /\ client[d] = NewClient /\ down[d] = <<>> /\ rbuf[d] = <<>>
  <2>1. srvSock[d] = "backlog"
    BY DEF Accept, AcceptDropped
  <2>. QED
    BY <1>1, <2>1 DEF Placed, IndInv, SocketsInStep, ConnInStep
<1>3. /\ UNCHANGED <<cliSock, up, consumed, history, child_exit, pc, cur, snap, send_end>>
      /\ UNCHANGED <<rbuf, seen, cpc, result, code>>
  BY DEF Accept, AcceptDropped, serverVars, ptyVars, clientVars
<1>4. client'[d] = client[d] /\ (c # d => client'[c] = client[c])
  BY <1>2, TableTypes DEF Accept, AcceptDropped, serverVars
<1>5. srvSock'[d] \in {"open", "closed"} /\ (c # d => srvSock'[c] = srvSock[c])
  BY TableTypes DEF Accept, AcceptDropped
<1>6. /\ c # d => down'[c] = down[c]
      /\ cliSock[d] = "open" => down'[d] = down[d] \o packet_bytes(p)
      /\ cliSock[d] # "open" => down'[d] = down[d]
  BY TableTypes DEF Accept, AcceptDropped, SendPid
<1>7. ExitKept /\ consumed \in Nat
  BY <1>3, ConnTypes DEF ExitKept
<1>8. Quiet(c)
  <2>1. ~client[d].attached
    BY <1>2 DEF NewClient
  <2>. QED
    BY <1>3, <1>4, <1>5, <2>1 DEF Quiet, Replaying
<1>9. SameSide(c)
  BY <1>8, QuietSame
<1>10. CASE c # d
  <2>1. Still(c)
    BY <1>3, <1>4, <1>5, <1>6, <1>10 DEF Still
  <2>. QED
    BY <1>1, <1>7, <1>9, <2>1, StillInv
<1>11. CASE c = d
  <2>1. Placed(c)' /\ Outcome(c)'
    BY <1>1, <1>2, <1>3, <1>4, <1>5, <1>6, <1>7, <1>11, PlacedServer
  <2>2. CASE cliSock[c] # "open"
    BY <1>3, <2>1, <2>2 DEF GoodWire
  <2>3. CASE cliSock[c] = "open"
    <3>1. p \in Packet /\ p.typ = "PID"
      BY DEF Packet, MsgType
    <3>2. packet_bytes(p) \in Seq(Cell)
      BY <3>1, PacketBytesType
    <3>3. client[c].send_queue = <<>>
      BY <1>2, <1>11 DEF NewClient
    <3>. DEFINE b == packet_bytes(p)
    <3>4. down'[c] = <<>> \o b /\ rbuf'[c] = <<>> /\ client'[c] = client[c]
      BY <1>2, <1>3, <1>4, <1>6, <1>11, <2>3
    <3>. HIDE DEF p, b
    <3>5. <<>> \o b = b /\ b \o <<>> = b /\ <<>> \o <<>> = <<>> /\ b \in Seq(Cell)
      <4>1. b \in Seq(Cell)
        BY <3>2 DEF b
      <4>. QED
        BY <4>1, ConcatEmptySeq
    <3>6. OnTheWay(c)' = b /\ OnTheWay(c) = <<>>
      BY <1>2, <1>11, <3>3, <3>4, <3>5 DEF OnTheWay
    <3>7. Joins(OnTheWay(c)', OnTheWay(c), packet_bytes(p))
      BY <3>5, <3>6 DEF Joins, b
    <3>8. Unread(c)' = Unread(c)
      BY <1>3, <3>4 DEF Unread
    <3>9. GoodWire(c)'
      BY <1>1, <1>2, <1>3, <1>7, <1>9, <1>11, <2>3, <3>1, <3>7, <3>8, SilentStream
    <3>. QED
      BY <2>1, <3>9
  <2>. QED
    BY <2>2, <2>3
<1>. QED
  BY <1>10, <1>11

(* Reading what has arrived moves c's packets and handles none. *)
LEMMA ReadClientStream ==
    ASSUME IndInv, StreamInv, UNCHANGED clientVars, NEW d \in Conn, ReadClient(d)
    PROVE  StreamInv'
<1>. SUFFICES ASSUME NEW c \in Conn PROVE Placed(c)' /\ Outcome(c)' /\ GoodWire(c)'
  BY DEF StreamInv
<1>1. Placed(c) /\ Outcome(c) /\ GoodWire(c)
  BY DEF StreamInv
<1>2. /\ UNCHANGED <<cliSock, srvSock, down, consumed, history, child_exit, snap, send_end>>
      /\ UNCHANGED <<rbuf, seen, cpc, result, code>>
      /\ pc # "replay" /\ pc' # "replay"
  BY DEF ReadClient, ptyVars, clientVars
<1>3. ExitKept /\ consumed \in Nat
  BY <1>2, ConnTypes DEF ExitKept
<1>4. CASE c # d
  <2>1. client'[c] = client[c] /\ up'[c] = up[c]
    BY <1>4, TableTypes DEF ReadClient
  <2>2. Still(c) /\ Quiet(c)
    BY <1>2, <2>1 DEF Still, Quiet, Replaying
  <2>. QED
    BY <1>1, <1>3, <2>2, QuietSame, StillInv
<1>5. CASE c = d
  <2>1. /\ client'[c].attached = client[c].attached
        /\ client[c].disconnected => client'[c].disconnected
        /\ client'[c].send_queue = client[c].send_queue
        /\ client'[c].buf = client[c].buf \o up[c]
        /\ up'[c] = <<>>
    <3>1. client \in [Conn -> Client] /\ client[c] \in Client /\ up'[c] = <<>>
      BY <1>5, TableTypes DEF ReadClient
    <3>2. CASE cliSock[c] = "reset"
      <4>1. client' = [client EXCEPT ![c].buf = @ \o up[c], ![c].disconnected = TRUE]
        BY <1>5, <3>2 DEF ReadClient
      <4>. QED
        BY <3>1, <4>1 DEF Client
    <3>3. CASE cliSock[c] # "reset"
      <4>1. client' = [client EXCEPT ![c].buf = @ \o up[c]]
        BY <1>5, <3>3 DEF ReadClient
      <4>. QED
        BY <3>1, <4>1 DEF Client
    <3>. QED
      BY <3>2, <3>3
  <2>2. srvSock[c] = "open"
    BY <1>5 DEF ReadClient, IndInv, SocketsInStep
  <2>3. SameSide(c)
    BY <1>2, <1>3, <2>1 DEF SameSide, Replaying
  <2>4. Unread(c)' = Unread(c)
    <3>1. client[c].buf \o up[c] \in Seq(Packet)
      BY ConnTypes, ConcatProperties
    <3>2. (client[c].buf \o up[c]) \o <<>> = client[c].buf \o up[c]
      BY <3>1, ConcatEmptySeq
    <3>. QED
      BY <2>1, <3>2 DEF Unread
  <2>5. OnTheWay(c)' = OnTheWay(c)
    BY <1>2, <2>1 DEF OnTheWay
  <2>6. GoodWire(c)'
    BY <1>1, <1>2, <1>3, <2>3, <2>4, <2>5, WireKept
  <2>. QED
    BY <1>1, <1>2, <1>3, <2>1, <2>2, <2>6, PlacedServer
<1>. QED
  BY <1>4, <1>5

(* The first packet of c is handled and gone. *)
LEMMA UnreadTail ==
    ASSUME IndInv, NEW c \in Conn, client[c].buf # <<>>,
           client'[c].buf = Tail(client[c].buf), up'[c] = up[c]
    PROVE  /\ Unread(c) \in Seq(Packet) /\ Unread(c) # <<>>
           /\ Unread(c)[1] = Head(client[c].buf)
           /\ Unread(c)' = Tail(Unread(c))
<1>. DEFINE b == client[c].buf
            u == up[c]
<1>1. b \in Seq(Packet) /\ u \in Seq(Packet) /\ b # <<>>
  BY ConnTypes
<1>2. Unread(c) = b \o u /\ Unread(c)' = Tail(b) \o u
  BY DEF Unread
<1>. HIDE DEF b, u
<1>3. /\ b \o u \in Seq(Packet) /\ b \o u # <<>> /\ (b \o u)[1] = Head(b)
      /\ Tail(b) \o u = Tail(b \o u)
  BY <1>1
<1>. QED
  BY <1>2, <1>3 DEF b

LEMMA NoOpening ==
    ASSUME NEW c \in Conn, NEW ps \in Seq(Packet), Opened(c, ps), UNCHANGED cpc,
           Unread(c) \in Seq(Packet), Unread(c) # <<>>, Unread(c)' = Tail(Unread(c))
    PROVE  SameUnread(c, ps)
<1>. DEFINE u == Unread(c)
<1>1. /\ Len(Tail(u)) \in Nat
      /\ \A i \in 1..Len(Tail(u)) : i + 1 \in 1..Len(u) /\ Tail(u)[i] = u[i + 1] /\ i + 1 # 1
  OBVIOUS
<1>2. cpc[c] \notin {"pid", "attach", "dump"}
  BY DEF Opened
<1>3. \A i \in 1..Len(u) : Opening(u[i]) => i = 1
  BY DEF Opened
<1>. HIDE DEF u
<1>4. \A i \in 1..Len(Tail(u)) : ~Opening(Tail(u)[i])
  BY <1>1, <1>3
<1>. QED
  BY <1>2, <1>4 DEF SameUnread, u

(* Handling a packet that sends nothing, and having handled the last. *)
LEMMA HandleStream ==
    ASSUME IndInv, StreamInv, UNCHANGED clientVars,
           HandleInput \/ HandleResize \/ HandleDetach \/ EndClient
    PROVE  StreamInv'
<1>. SUFFICES ASSUME NEW c \in Conn PROVE Placed(c)' /\ Outcome(c)' /\ GoodWire(c)'
  BY DEF StreamInv
<1>1. Placed(c) /\ Outcome(c) /\ GoodWire(c)
  BY DEF StreamInv
<1>2. /\ UNCHANGED <<cliSock, srvSock, up, down, consumed, history, child_exit, snap, send_end>>
      /\ UNCHANGED <<rbuf, seen, cpc, result, code>>
      /\ pc = "handle" /\ pc' # "replay"
  BY DEF HandleInput, HandleResize, HandleDetach, EndClient, Popping, sockVars, kernelVars,
         ptyVars, clientVars
<1>3. ExitKept /\ consumed \in Nat /\ cur \in Conn /\ srvSock[cur] = "open"
  BY <1>2, ConnTypes DEF ExitKept, IndInv, SocketsInStep
<1>4. CASE c # cur
  <2>1. client'[c] = client[c]
    BY <1>4, TableTypes DEF HandleInput, HandleResize, HandleDetach, EndClient
  <2>2. Still(c) /\ Quiet(c)
    BY <1>2, <2>1 DEF Still, Quiet, Replaying
  <2>. QED
    BY <1>1, <1>3, <2>2, QuietSame, StillInv
<1>5. CASE c = cur
  <2>1. /\ client'[c].attached = client[c].attached
        /\ client[c].disconnected => client'[c].disconnected
        /\ client'[c].send_queue = client[c].send_queue
        /\ ~EndClient => client'[c].buf = Tail(client[c].buf)
    <3>1. client \in [Conn -> Client] /\ client[c] \in Client
      BY TableTypes
    <3>2. CASE HandleInput \/ HandleResize
      <4>1. client'[c] = [client[c] EXCEPT !.buf = Tail(@)]
        BY <1>5, <3>1, <3>2 DEF HandleInput, HandleResize, Popped
      <4>. QED
        BY <3>1, <4>1 DEF Client
    <3>3. CASE HandleDetach
      <4>1. client'[c] = [Popped EXCEPT !.disconnected = TRUE]
        BY <1>5, <3>1, <3>3 DEF HandleDetach
      <4>. QED
        BY <1>5, <3>1, <4>1 DEF Client, Popped
    <3>4. CASE EndClient
      <4>1. client' = [client EXCEPT ![c].disconnected = @ \/ saw_eof]
        BY <1>5, <3>4 DEF EndClient
      <4>. QED
        BY <3>1, <3>4, <4>1 DEF Client
    <3>. QED
      BY <3>2, <3>3, <3>4
  <2>2. SameSide(c)
    BY <1>2, <1>3, <2>1 DEF SameSide, Replaying
  <2>3. OnTheWay(c)' = OnTheWay(c)
    BY <1>2, <2>1 DEF OnTheWay
  <2>4. Placed(c)' /\ Outcome(c)'
    BY <1>1, <1>2, <1>3, <1>5, PlacedServer
  <2>5. CASE EndClient
    <3>1. client'[c].buf = client[c].buf
      BY <1>5, <2>5, TableTypes DEF EndClient, Client
    <3>2. Unread(c)' = Unread(c)
      BY <1>2, <3>1 DEF Unread
    <3>3. GoodWire(c)'
      BY <1>1, <1>2, <1>3, <2>2, <2>3, <3>2, WireKept
    <3>. QED
      BY <2>4, <3>3
  <2>6. CASE HandleInput \/ HandleResize \/ HandleDetach
    <3>1. client[c].buf # <<>> /\ client'[c].buf = Tail(client[c].buf)
      BY <1>5, <2>1, <2>6 DEF HandleInput, HandleResize, HandleDetach, EndClient, Popping
    <3>. SUFFICES ASSUME cliSock[c] = "open" PROVE GoodWire(c)'
      BY <1>2, <2>4 DEF GoodWire
    <3>2. PICK t \in Seq(Cell), ps \in Seq(Packet) : Carries(c, t, ps) /\ Good(c, ps)
      BY <1>1 DEF GoodWire
    <3>3. Unread(c) \in Seq(Packet) /\ Unread(c) # <<>> /\ Unread(c)' = Tail(Unread(c))
      BY <1>2, <3>1, UnreadTail
    <3>4. SameUnread(c, ps)
      BY <1>2, <3>2, <3>3, NoOpening DEF Good
    <3>5. Total(c, ps)' = Total(c, ps) /\ Wire(ps)' = Wire(ps)
      BY <1>2 DEF Total, Shown, Wire
    <3>6. EndLast(ps) /\ ExitTold(ps)'
      BY <1>2, <3>2 DEF Good, ExitTold
    <3>7. Good(c, ps)'
      BY <2>2, <3>2, <3>4, <3>5, <3>6, GoodKept
    <3>8. Carries(c, t, ps)'
      BY <1>2, <2>3, <3>2, <3>5 DEF Carries
    <3>. QED
      BY <3>7, <3>8 DEF GoodWire
  <2>. QED
    BY <2>5, <2>6
<1>. QED
  BY <1>4, <1>5

LEMMA ElapseStream ==
    ASSUME IndInv, StreamInv, UNCHANGED clientVars, NEW d \in Conn, Elapse(d)
    PROVE  StreamInv'
<1>. SUFFICES ASSUME NEW c \in Conn PROVE Placed(c)' /\ Outcome(c)' /\ GoodWire(c)'
  BY DEF StreamInv
<1>1. Placed(c) /\ Outcome(c) /\ GoodWire(c)
  BY DEF StreamInv
<1>2. /\ UNCHANGED <<cliSock, srvSock, up, down, consumed, history, child_exit, snap, send_end>>
      /\ UNCHANGED <<rbuf, seen, cpc, result, code, pc, cur>>
  BY DEF Elapse, sockVars, kernelVars, ptyVars, clientVars
<1>3. ExitKept /\ consumed \in Nat
  BY <1>2, ConnTypes DEF ExitKept
<1>4. CASE c # d
  <2>1. client'[c] = client[c]
    BY <1>4, TableTypes DEF Elapse
  <2>2. Still(c) /\ Quiet(c)
    BY <1>2, <2>1 DEF Still, Quiet, Replaying
  <2>. QED
    BY <1>1, <1>3, <2>2, QuietSame, StillInv
<1>5. CASE c = d
  <2>1. /\ client'[c].attached = client[c].attached
        /\ client'[c].disconnected = client[c].disconnected
        /\ client'[c].send_queue = client[c].send_queue
        /\ client'[c].buf = client[c].buf
        /\ client[c].close_after_drain = "set"
    BY <1>5, TableTypes DEF Elapse, Client
  <2>2. srvSock[c] = "open"
    BY <1>1, <2>1 DEF Placed, NewClient
  <2>3. SameSide(c)
    BY <1>2, <1>3, <2>1 DEF SameSide, Replaying
  <2>4. Unread(c)' = Unread(c) /\ OnTheWay(c)' = OnTheWay(c)
    BY <1>2, <2>1 DEF Unread, OnTheWay
  <2>5. GoodWire(c)'
    BY <1>1, <1>2, <1>3, <2>3, <2>4, WireKept
  <2>. QED
    BY <1>1, <1>2, <1>3, <2>1, <2>2, <2>5, PlacedServer
<1>. QED
  BY <1>4, <1>5

(* The newest bytes are the end of the output. *)
LEMMA NewestUpToDate ==
    ASSUME NEW n \in Nat
    PROVE  /\ Newest(n) = OutputFrom(n - Len(Newest(n)), n)
           /\ Len(Newest(n)) = (IF n <= HISTORY_CAP THEN n ELSE HISTORY_CAP)
           /\ Newest(n) \in Seq(Nat)
<1>1. PICK k \in Nat : /\ k = (IF n <= HISTORY_CAP THEN n ELSE HISTORY_CAP)
                       /\ k <= n
                       /\ Newest(n) = [i \in 1..k |-> n - k + i]
                       /\ Len(Newest(n)) = k
  BY NewestType
<1>2. n - (n - k) = k /\ n - k \in Nat
  BY <1>1
<1>3. OutputFrom(n - k, n) = [i \in 1..k |-> (n - k) + i]
  BY <1>2 DEF OutputFrom
<1>4. [i \in 1..k |-> n - k + i] \in Seq(Nat)
  <2>. DEFINE f == [i \in 1..k |-> n - k + i]
  <2>1. f \in [1..k -> Nat]
    BY <1>2
  <2>. HIDE DEF f
  <2>2. f \in Seq(Nat)
    BY <2>1, FunctionIsSeq
  <2>. QED
    BY <2>2 DEF f
<1>. QED
  BY <1>1, <1>3, <1>4

(* MSG_ATTACH and MSG_DUMP take the history as it is. *)
LEMMA OpenStream ==
    ASSUME IndInv, StreamInv, HistoryExact, UNCHANGED clientVars, HandleAttach \/ HandleDump
    PROVE  StreamInv'
<1>. SUFFICES ASSUME NEW c \in Conn PROVE Placed(c)' /\ Outcome(c)' /\ GoodWire(c)'
  BY DEF StreamInv
<1>1. Placed(c) /\ Outcome(c) /\ GoodWire(c)
  BY DEF StreamInv
<1>2. /\ UNCHANGED <<cliSock, srvSock, up, down, consumed, history, child_exit, cur>>
      /\ UNCHANGED <<rbuf, seen, cpc, result, code>>
      /\ pc = "handle" /\ pc' = "replay" /\ snap' = history
  BY DEF HandleAttach, HandleDump, Popping, sockVars, kernelVars, ptyVars, clientVars
<1>3. ExitKept /\ consumed \in Nat /\ cur \in Conn /\ srvSock[cur] = "open"
  BY <1>2, ConnTypes DEF ExitKept, IndInv, SocketsInStep
<1>4. CASE c # cur
  <2>1. client'[c] = client[c]
    BY <1>4, TableTypes DEF HandleAttach, HandleDump
  <2>2. Still(c) /\ Quiet(c)
    BY <1>2, <1>4, <2>1 DEF Still, Quiet, Replaying
  <2>. QED
    BY <1>1, <1>3, <2>2, QuietSame, StillInv
<1>5. CASE c = cur
  <2>1. Placed(c)' /\ Outcome(c)'
    BY <1>1, <1>2, <1>3, <1>5, PlacedServer
  <2>. SUFFICES ASSUME cliSock[c] = "open" PROVE GoodWire(c)'
    BY <1>2, <2>1 DEF GoodWire
  <2>2. /\ client[c].buf # <<>> /\ Opening(Head(client[c].buf))
    BY <1>5 DEF HandleAttach, HandleDump, Popping, Opening
  <2>3. /\ client'[c].send_queue = client[c].send_queue
        /\ client'[c].buf = Tail(client[c].buf)
        /\ client'[c].disconnected = client[c].disconnected
        /\ \/ client'[c].attached /\ ~send_end'
           \/ client'[c].attached = client[c].attached /\ send_end'
    <3>1. client \in [Conn -> Client] /\ client[c] \in Client
      BY TableTypes
    <3>2. CASE HandleAttach
      <4>1. client'[c] = [Popped EXCEPT !.attached = TRUE, !.flags = read_u32(front.payload)]
        BY <1>5, <3>1, <3>2 DEF HandleAttach
      <4>. QED
        BY <1>5, <3>1, <3>2, <4>1 DEF Client, Popped, HandleAttach
    <3>3. CASE HandleDump
      <4>1. client'[c] = [client[c] EXCEPT !.buf = Tail(@)]
        BY <1>5, <3>1, <3>3 DEF HandleDump, Popped
      <4>. QED
        BY <3>1, <3>3, <4>1 DEF Client, HandleDump
    <3>. QED
      BY <3>2, <3>3
  <2>4. PICK t \in Seq(Cell), ps \in Seq(Packet) : Carries(c, t, ps) /\ Good(c, ps)
    BY <1>1 DEF GoodWire
  <2>5. /\ Unread(c) \in Seq(Packet) /\ Unread(c) # <<>> /\ Unread(c)' = Tail(Unread(c))
        /\ Unread(c)[1] = Head(client[c].buf)
    BY <1>2, <2>2, <2>3, UnreadTail
  <2>6. Fresh(c, ps)
    <3>1. 1 \in 1..Len(Unread(c))
      BY <2>5
    <3>. QED
      BY <2>2, <2>4, <2>5, <3>1 DEF Good, Opened
  <2>7. Opened(c, ps)'
    <3>1. /\ cpc[c] \notin {"pid", "attach", "dump"}
          /\ \A i \in 1..Len(Tail(Unread(c))) : ~Opening(Tail(Unread(c))[i])
      <4>. DEFINE u == Unread(c)
      <4>1. \A i \in 1..Len(Tail(u)) : i + 1 \in 1..Len(u) /\ Tail(u)[i] = u[i + 1] /\ i + 1 # 1
        BY <2>5
      <4>2. \A i \in 1..Len(u) : Opening(u[i]) => i = 1
        BY <2>4 DEF Good, Opened
      <4>3. cpc[c] \notin {"pid", "attach", "dump"}
        BY <2>4, <2>5 DEF Good, Opened
      <4>. HIDE DEF u
      <4>4. \A i \in 1..Len(Tail(u)) : ~Opening(Tail(u)[i])
        BY <4>1, <4>2
      <4>. QED
        BY <4>3, <4>4 DEF u
    <3>. QED
      BY <1>2, <2>5, <3>1 DEF Opened
  <2>8. Total(c, ps)' = <<>> /\ Wire(ps)' = Wire(ps) /\ OnTheWay(c)' = OnTheWay(c)
    BY <1>2, <2>3, <2>6 DEF Fresh, Total, Shown, Wire, OnTheWay
  <2>9. <<>> \o history = history /\ history = Newest(consumed)
        /\ history = OutputFrom(consumed - Len(history), consumed)
    <3>1. history \in Seq(Nat)
      BY DEF IndInv, TypeOK, ServerTypeOK
    <3>2. history = Newest(consumed)
      BY DEF HistoryExact
    <3>. QED
      BY <1>3, <3>1, <3>2, ConcatEmptySeq, NewestUpToDate
  <2>10. ~Ended(ps) /\ ~client[c].attached
    BY <2>6 DEF Fresh
  <2>11. Streamed(c, ps)'
    <3>1. (Total(c, ps) \o (IF Replaying(c) THEN snap ELSE <<>>))' = history
      BY <1>2, <1>5, <2>8, <2>9 DEF Replaying
    <3>2. Len(history) \in Nat
      BY LenProperties DEF IndInv, TypeOK, ServerTypeOK
    <3>3. UpToDate(Total(c, ps) \o (IF Replaying(c) THEN snap ELSE <<>>))'
      BY <1>2, <2>9, <3>1, <3>2 DEF UpToDate
    <3>. QED
      BY <3>3 DEF Streamed
  <2>12. DumpGoing(c, ps)'
    <3>1. ~Ended(ps)'
      BY <2>10 DEF Ended
    <3>2. send_end' <=> ~client'[c].attached
      BY <2>3, <2>10
    <3>3. Total(c, ps)' \o snap' = Newest(consumed')
      BY <1>2, <2>8, <2>9
    <3>. QED
      BY <3>1, <3>2, <3>3 DEF DumpGoing
  <2>13. ExitTold(ps)' /\ EndLast(ps)'
    BY <1>2, <2>4 DEF Good, ExitTold, EndLast
  <2>14. Good(c, ps)'
    BY <2>7, <2>11, <2>12, <2>13 DEF Good
  <2>15. Carries(c, t, ps)'
    BY <1>2, <2>4, <2>8 DEF Carries
  <2>. QED
    BY <2>14, <2>15 DEF GoodWire
<1>. QED
  BY <1>4, <1>5

-------------------------------------------------------------------------------
(* s is the output up to its byte m, as far back as its newest bytes. *)
Reaches(s, m) == s = OutputFrom(m - Len(s), m) /\ Len(s) >= Len(Newest(m))

(* The next bytes of the output keep a stream up to date. *)
LEMMA NextBytes ==
    ASSUME NEW m \in Nat, NEW n \in Nat, NEW s \in Seq(Nat), Reaches(s, m),
           NEW b, b = [i \in 1..n |-> m + i], NEW w, Joins(w, s, b)
    PROVE  Reaches(w, m + n) /\ w \in Seq(Nat)
<1>. DEFINE k == Len(s)
<1>1. k \in Nat /\ b \in Seq(Nat) /\ Len(b) = n /\ \A i \in 1..n : b[i] = m + i
  <2>1. b \in [1..n -> Nat]
    OBVIOUS
  <2>. QED
    BY <2>1, FunctionIsSeq, LenProperties
<1>2. \A i \in 1..k : s[i] = (m - k) + i
  <2>1. m - (m - k) = k
    BY <1>1
  <2>2. s = [i \in 1..k |-> (m - k) + i]
    BY <2>1 DEF OutputFrom, Reaches
  <2>. QED
    BY <2>2
<1>. HIDE DEF k
<1>3. /\ w \in Seq(Nat) /\ Len(w) = k + n
      /\ \A i \in 1..k : w[i] = s[i]
      /\ \A i \in 1..n : w[k + i] = b[i]
  BY <1>1 DEF k, Joins
<1>4. ASSUME NEW i \in 1..(k + n) PROVE w[i] = ((m + n) - (k + n)) + i
  <2>1. (m + n) - (k + n) = m - k
    BY <1>1
  <2>2. CASE i <= k
    <3>1. i \in 1..k
      BY <1>1, <2>2
    <3>. QED
      BY <1>2, <1>3, <2>1, <3>1
  <2>3. CASE ~(i <= k)
    <3>. DEFINE j == i - k
    <3>1. j \in 1..n /\ i = k + j
      BY <1>1, <2>3
    <3>2. m + j = (m - k) + i
      BY <1>1, <3>1
    <3>. HIDE DEF j
    <3>. QED
      BY <1>1, <1>3, <2>1, <3>1, <3>2
  <2>. QED
    BY <2>2, <2>3
<1>5. w = [i \in 1..(k + n) |-> ((m + n) - (k + n)) + i]
  <2>1. w = [i \in 1..(k + n) |-> w[i]]
    BY <1>3
  <2>. QED
    BY <1>4, <2>1
<1>6. (m + n) - ((m + n) - (k + n)) = k + n
  BY <1>1
<1>7. w = OutputFrom((m + n) - (k + n), m + n)
  BY <1>5, <1>6 DEF OutputFrom
<1>8. k + n >= Len(Newest(m + n))
  <2>1. /\ Len(Newest(m)) = (IF m <= HISTORY_CAP THEN m ELSE HISTORY_CAP)
        /\ Len(Newest(m + n)) = (IF m + n <= HISTORY_CAP THEN m + n ELSE HISTORY_CAP)
        /\ k >= Len(Newest(m))
    <3>1. m + n \in Nat
      OBVIOUS
    <3>. QED
      BY <3>1, NewestUpToDate DEF k, Reaches
  <2>. QED
    BY <1>1, <2>1, HistoryCapAssumption
<1>. QED
  BY <1>1, <1>3, <1>7, <1>8 DEF Reaches

(* What SendAll leaves of a client it sends to. *)
LEMMA SendFacts ==
    ASSUME IndInv, NEW c \in Conn, NEW p \in Packet, NEW r, r = send_packet_nonblocking(c, p)
    PROVE  /\ cliSock[c] # "open" => r.wire = down[c]
           /\ cliSock[c] = "open" /\ r.ok =>
                Joins(rbuf[c] \o r.wire \o r.queue, OnTheWay(c), packet_bytes(p))
           /\ cliSock[c] = "open" /\ ~r.ok =>
                rbuf[c] \o r.wire \o r.queue = OnTheWay(c)
<1>. DEFINE q == client[c].send_queue
<1>1. /\ rbuf[c] \in Seq(Cell) /\ down[c] \in Seq(Cell) /\ Len(down[c]) <= SNDBUF
      /\ client[c] \in Client /\ q \in Seq(Cell) /\ packet_bytes(p) \in Seq(Cell)
  BY ConnTypes, PacketBytesType
<1>2. cliSock[c] # "open" => r.wire = down[c]
  <2>. SUFFICES ASSUME cliSock[c] # "open" PROVE r.wire = down[c]
    OBVIOUS
  <2>1. CASE Overflow(q, p)
    BY <2>1 DEF send_packet_nonblocking
  <2>2. CASE ~Overflow(q, p)
    <3>. DEFINE qb == q \o packet_bytes(p)
    <3>1. r = try_flush_client(c, qb) /\ qb \in Seq(Cell)
      BY <1>1, <2>2, ConcatProperties DEF send_packet_nonblocking
    <3>. HIDE DEF qb
    <3>. QED
      BY <1>1, <3>1, FlushWire
  <2>. QED
    BY <2>1, <2>2
<1>3. cliSock[c] = "open" =>
        /\ r.ok => Joins(rbuf[c] \o r.wire \o r.queue, OnTheWay(c), packet_bytes(p))
        /\ ~r.ok => rbuf[c] \o r.wire \o r.queue = OnTheWay(c)
  BY <1>1, SendWire
<1>. QED
  BY <1>2, <1>3

(* Output for an attached client: it goes out whole, or the client goes. *)
LEMMA BroadcastStream ==
    ASSUME IndInv, HistoryExact, HistoryExact', NEW c \in Conn, GoodWire(c), cliSock[c] = "open",
           srvSock[c] = "open", client[c].attached, pc # "replay", pc' # "replay",
           NEW n \in Nat, consumed' = consumed + n, ExitKept,
           UNCHANGED <<cliSock, srvSock, up, rbuf, seen, cpc>>,
           client'[c].attached, client'[c].buf = client[c].buf,
           NEW r, r = send_packet_nonblocking(c, content([i \in 1..n |-> consumed + i])),
           client'[c].send_queue = r.queue, down'[c] = r.wire,
           client'[c].disconnected <=> client[c].disconnected \/ ~r.ok
    PROVE  GoodWire(c)'
<1>1. consumed \in Nat /\ consumed' \in Nat /\ consumed <= consumed'
  BY ConnTypes
<1>2. PICK b \in Seq(Nat) : b = [i \in 1..n |-> consumed + i]
  <2>. DEFINE f == [i \in 1..n |-> consumed + i]
  <2>1. f \in [1..n -> Nat]
    BY <1>1
  <2>. HIDE DEF f
  <2>2. f \in Seq(Nat)
    BY <2>1, FunctionIsSeq
  <2>. QED
    BY <2>2 DEF f
<1>3. PICK p \in Packet : p = content(b)
  BY DEF content, Packet, MsgType
<1>4. r = send_packet_nonblocking(c, p) /\ p.typ = "CONTENT" /\ BytesOf(p) = b
  BY <1>2, <1>3 DEF content, BytesOf
<1>5. /\ r.ok => Joins(OnTheWay(c)', OnTheWay(c), packet_bytes(p))
      /\ ~r.ok => OnTheWay(c)' = OnTheWay(c)
  <2>1. OnTheWay(c)' = rbuf[c] \o r.wire \o r.queue
    BY DEF OnTheWay
  <2>2. /\ r.ok => Joins(rbuf[c] \o r.wire \o r.queue, OnTheWay(c), packet_bytes(p))
        /\ ~r.ok => rbuf[c] \o r.wire \o r.queue = OnTheWay(c)
    BY <1>4, SendFacts
  <2>. QED
    BY <2>1, <2>2
<1>6. Unread(c)' = Unread(c) /\ ~Replaying(c) /\ ~Replaying(c)'
  BY DEF Unread, Replaying
<1>7. CASE ~r.ok
  <2>1. SameSide(c)
    BY <1>1, <1>6, <1>7 DEF SameSide
  <2>. QED
    BY <1>5, <1>6, <1>7, <2>1, WireKept
<1>8. CASE r.ok
  <2>1. PICK t \in Seq(Cell), ps \in Seq(Packet) : Carries(c, t, ps) /\ Good(c, ps)
    BY DEF GoodWire
  <2>. DEFINE qs == Append(ps, p)
  <2>2. Carries(c, <<>>, qs)' /\ Joins(Total(c, qs)', Total(c, ps), b)
    <3>1. srvSock[c] # "closed" /\ seen'[c] = seen[c]
      OBVIOUS
    <3>2. Carries(c, <<>>, qs)' /\ Joins(Total(c, qs)', Total(c, ps), BytesOf(p))
      BY <1>5, <1>8, <2>1, <3>1, CarriesAppend
    <3>. QED
      BY <1>4, <3>2
  <2>3. ~Ended(ps) /\ ~Fresh(c, ps)
    BY <2>1 DEF Good, DumpGoing, Fresh
  <2>4. qs \in Seq(Packet) /\ ~Ended(qs) /\ EndLast(qs) /\ ExitTold(qs)
    BY <1>4, <2>1, <2>3, AppendParts DEF Good
  <2>. HIDE DEF qs
  <2>5. Opened(c, qs)'
    BY <1>6, <2>1, <2>3 DEF Good, Opened
  <2>6. Total(c, ps) \in Seq(Nat)
    <3>1. seen[c] \in Seq(Nat) /\ Shown(ps) \in Seq(Nat)
      BY ConnTypes, WireType
    <3>. QED
      BY <3>1, ConcatProperties DEF Total
  <2>7. Streamed(c, qs)'
    <3>. SUFFICES ASSUME ~client'[c].disconnected
                  PROVE  UpToDate(Total(c, qs) \o (IF Replaying(c) THEN snap ELSE <<>>))'
      BY DEF Streamed
    <3>. DEFINE s == Total(c, ps)
                w == Total(c, qs)'
    <3>1. s \o <<>> = s
      BY <2>6, ConcatEmptySeq
    <3>2. UpToDate(s)
      BY <1>6, <1>8, <2>1, <3>1 DEF Good, Streamed
    <3>3. Reaches(s, consumed)
      BY <3>2 DEF UpToDate, HistoryExact, Reaches
    <3>4. Joins(w, s, b) /\ s \in Seq(Nat)
      BY <2>2, <2>6
    <3>. HIDE DEF s, w
    <3>5. Reaches(w, consumed + n) /\ w \in Seq(Nat)
      BY <1>1, <1>2, <3>3, <3>4, NextBytes
    <3>6. w = OutputFrom(consumed' - Len(w), consumed') /\ Len(w) >= Len(history')
      BY <3>5 DEF HistoryExact, Reaches
    <3>7. w \o <<>> = w
      BY <3>4, <3>5, ConcatEmptySeq
    <3>8. (Total(c, qs) \o (IF Replaying(c) THEN snap ELSE <<>>))' = w
      BY <1>6, <3>7 DEF w
    <3>. QED
      BY <3>6, <3>8 DEF UpToDate
  <2>8. DumpGoing(c, qs)'
    BY <1>6, <2>4 DEF DumpGoing, Ended
  <2>9. EndLast(qs)' /\ ExitTold(qs)'
    BY <2>4 DEF EndLast, ExitTold, ExitKept
  <2>10. Good(c, qs)'
    BY <2>5, <2>7, <2>8, <2>9 DEF Good
  <2>11. <<>> \in Seq(Cell)
    OBVIOUS
  <2>. QED
    BY <2>2, <2>4, <2>10, <2>11 DEF GoodWire
<1>. QED
  BY <1>7, <1>8

LEMMA ReadPtyStream ==
    ASSUME IndInv, StreamInv, HistoryExact, HistoryExact', UNCHANGED clientVars,
           NEW n \in Nat, ReadPty(n)
    PROVE  StreamInv'
<1>. SUFFICES ASSUME NEW c \in Conn PROVE Placed(c)' /\ Outcome(c)' /\ GoodWire(c)'
  BY DEF StreamInv
<1>1. Placed(c) /\ Outcome(c) /\ GoodWire(c)
  BY DEF StreamInv
<1>2. /\ UNCHANGED <<cliSock, srvSock, up, child_exit, cur, snap, send_end, pc>>
      /\ UNCHANGED <<rbuf, seen, cpc, result, code>>
      /\ pc = "pty" /\ consumed' = consumed + n
  BY DEF ReadPty, clientVars
<1>3. ExitKept /\ consumed \in Nat /\ consumed' \in Nat /\ consumed <= consumed'
  BY <1>2, ConnTypes DEF ExitKept
<1>. DEFINE b == [i \in 1..n |-> consumed + i]
            p == content(b)
            r == send_packet_nonblocking(c, p)
<1>4. client'[c] = (IF c \in clients /\ client[c].attached THEN SentOrDisconnect(c, r) ELSE client[c])
      /\ down'[c] = (IF c \in clients /\ client[c].attached THEN r.wire ELSE down[c])
  BY DEF ReadPty, broadcast_content, SendAll
<1>5. p \in Packet
  <2>1. b \in [1..n -> Nat]
    BY <1>3
  <2>. HIDE DEF b
  <2>2. b \in Seq(Nat)
    BY <2>1, FunctionIsSeq
  <2>. QED
    BY <2>2 DEF content, Packet, MsgType
<1>6. CASE ~(c \in clients /\ client[c].attached)
  <2>1. Still(c)
    BY <1>2, <1>4, <1>6 DEF Still
  <2>2. client'[c] = client[c] /\ ~client[c].attached
    <3>1. c \notin clients => srvSock[c] # "open"
      BY DEF IndInv, SocketsInStep
    <3>2. srvSock[c] # "open" => ~client[c].attached
      BY <1>1 DEF Placed, NewClient
    <3>. QED
      BY <1>4, <1>6, <3>1, <3>2
  <2>3. SameSide(c)
    BY <1>2, <1>3, <2>2 DEF SameSide, Replaying
  <2>. QED
    BY <1>1, <1>3, <2>1, <2>3, StillInv
<1>7. CASE c \in clients /\ client[c].attached
  <2>1. srvSock[c] = "open"
    BY <1>7 DEF IndInv, SocketsInStep
  <2>. HIDE DEF p, r
  <2>2. client'[c] = SentOrDisconnect(c, r) /\ down'[c] = r.wire /\ client[c] \in Client
    BY <1>4, <1>7, TableTypes
  <2>3. /\ client'[c].attached = client[c].attached
        /\ client'[c].buf = client[c].buf
        /\ client'[c].send_queue = r.queue
        /\ client'[c].disconnected <=> client[c].disconnected \/ ~r.ok
    BY <2>2 DEF SentOrDisconnect, Client
  <2>4. cliSock[c] # "open" => down'[c] = down[c]
    BY <1>5, <2>2, SendFacts DEF r
  <2>5. Placed(c)' /\ Outcome(c)'
    BY <1>1, <1>2, <1>3, <2>1, <2>4, PlacedServer
  <2>6. CASE cliSock[c] # "open"
    BY <1>2, <2>5, <2>6 DEF GoodWire
  <2>7. CASE cliSock[c] = "open"
    <3>1. r = send_packet_nonblocking(c, content([i \in 1..n |-> consumed + i]))
      BY DEF r, p
    <3>2. GoodWire(c)'
      BY <1>1, <1>2, <1>3, <1>7, <2>1, <2>2, <2>3, <2>7, <3>1, BroadcastStream
    <3>. QED
      BY <2>5, <3>2
  <2>. QED
    BY <2>6, <2>7
<1>. QED
  BY <1>6, <1>7

-------------------------------------------------------------------------------
(* A chunk of the replay and the rest are what there was to send. *)
LEMMA ChunkCuts ==
    ASSUME snap \in Seq(Nat)
    PROVE  /\ chunk \in Seq(Nat) /\ Drop(snap, Len(chunk)) \in Seq(Nat)
           /\ Joins(snap, chunk, Drop(snap, Len(chunk)))
<1>. DEFINE m == MinOf(MAX_PAYLOAD, Len(snap))
<1>1. m \in 0..Len(snap)
  <2>1. Len(snap) \in Nat /\ MAX_PAYLOAD \in Nat
    BY BoundAssumption, LenProperties
  <2>. QED
    BY <2>1 DEF MinOf
<1>2. chunk = Take(snap, m)
  BY DEF chunk
<1>. HIDE DEF m
<1>3. Len(chunk) = m
  BY <1>1, <1>2, TakeDropType
<1>4. Take(snap, m) \in Seq(Nat) /\ Drop(snap, m) \in Seq(Nat) /\ Take(snap, m) \o Drop(snap, m) = snap
  BY <1>1, TakeDropJoin
<1>. QED
  BY <1>2, <1>3, <1>4 DEF Joins

(* While its replay is going on, no client is asking for another one. *)
LEMMA ReplayOpened ==
    ASSUME NEW c \in Conn, NEW ps, NEW qs, Opened(c, ps), Replaying(c),
           UNCHANGED cpc, Unread(c)' = Unread(c)
    PROVE  Opened(c, qs)'
BY DEF Opened, Fresh

LEMMA ReplayChunkWire ==
    ASSUME IndInv, NEW c \in Conn, GoodWire(c), cliSock[c] = "open", srvSock[c] = "open",
           Replaying(c), Replaying(c)', ExitKept,
           UNCHANGED <<cliSock, srvSock, up, rbuf, seen, cpc, consumed, history, send_end>>,
           client'[c].attached = client[c].attached, client'[c].buf = client[c].buf,
           NEW r, r = send_packet_nonblocking(c, content(chunk)), r.ok,
           client'[c].send_queue = r.queue, down'[c] = r.wire,
           client'[c].disconnected = client[c].disconnected,
           snap' = Drop(snap, Len(chunk))
    PROVE  GoodWire(c)'
<1>1. snap \in Seq(Nat)
  BY DEF IndInv, TypeOK, ServerTypeOK
<1>2. PICK b \in Seq(Nat) : b = chunk /\ Joins(snap, b, snap') /\ snap' \in Seq(Nat)
  BY <1>1, ChunkCuts
<1>3. PICK p \in Packet : p = content(b)
  BY DEF content, Packet, MsgType
<1>4. r = send_packet_nonblocking(c, p) /\ p.typ = "CONTENT" /\ BytesOf(p) = b
  BY <1>2, <1>3 DEF content, BytesOf
<1>5. Joins(OnTheWay(c)', OnTheWay(c), packet_bytes(p))
  <2>1. OnTheWay(c)' = rbuf[c] \o r.wire \o r.queue
    BY DEF OnTheWay
  <2>2. Joins(rbuf[c] \o r.wire \o r.queue, OnTheWay(c), packet_bytes(p))
    BY <1>4, SendFacts
  <2>. QED
    BY <2>1, <2>2
<1>6. Unread(c)' = Unread(c)
  BY DEF Unread
<1>7. PICK t \in Seq(Cell), ps \in Seq(Packet) : Carries(c, t, ps) /\ Good(c, ps)
  BY DEF GoodWire
<1>. DEFINE qs == Append(ps, p)
            s == Total(c, ps)
            w == Total(c, qs)'
<1>8. Carries(c, <<>>, qs)' /\ Joins(w, s, b)
  <2>1. srvSock[c] # "closed" /\ seen'[c] = seen[c]
    OBVIOUS
  <2>2. Carries(c, <<>>, qs)' /\ Joins(Total(c, qs)', Total(c, ps), BytesOf(p))
    BY <1>5, <1>7, <2>1, CarriesAppend
  <2>. QED
    BY <1>4, <2>2
<1>9. ~Ended(ps)
  BY <1>7 DEF Good, DumpGoing
<1>10. qs \in Seq(Packet) /\ ~Ended(qs) /\ EndLast(qs) /\ ExitTold(qs)
  BY <1>4, <1>7, <1>9, AppendParts DEF Good
<1>. HIDE DEF qs
<1>11. Opened(c, qs)'
  BY <1>6, <1>7, ReplayOpened DEF Good
<1>12. w \o snap' = s \o snap
  <2>1. s \in Seq(Nat)
    <3>1. seen[c] \in Seq(Nat) /\ Shown(ps) \in Seq(Nat)
      BY ConnTypes, WireType
    <3>. QED
      BY <3>1, ConcatProperties DEF Total
  <2>. HIDE DEF s, w
  <2>2. Assoc(s, b, snap')
    BY <1>2, <2>1, ConcatAssoc
  <2>. QED
    BY <1>2, <1>8, <2>2 DEF Joins, Assoc
<1>13. Streamed(c, qs)'
  <2>. SUFFICES ASSUME client'[c].attached, ~client'[c].disconnected
                PROVE  UpToDate(Total(c, qs) \o (IF Replaying(c) THEN snap ELSE <<>>))'
    BY DEF Streamed
  <2>1. UpToDate(s \o snap)
    BY <1>7 DEF Good, Streamed
  <2>2. (Total(c, qs) \o (IF Replaying(c) THEN snap ELSE <<>>))' = s \o snap
    BY <1>12
  <2>. QED
    BY <2>1, <2>2 DEF UpToDate
<1>14. DumpGoing(c, qs)'
  <2>1. ~Ended(qs)'
    BY <1>10 DEF Ended
  <2>2. send_end' <=> ~client'[c].attached
    BY <1>7 DEF Good, DumpGoing
  <2>3. send_end => s \o snap = Newest(consumed)
    BY <1>7 DEF Good, DumpGoing
  <2>. QED
    BY <1>12, <2>1, <2>2, <2>3 DEF DumpGoing
<1>15. EndLast(qs)' /\ ExitTold(qs)'
  BY <1>10 DEF EndLast, ExitTold, ExitKept
<1>16. Good(c, qs)'
  BY <1>11, <1>13, <1>14, <1>15 DEF Good
<1>17. <<>> \in Seq(Cell)
  OBVIOUS
<1>. QED
  BY <1>8, <1>10, <1>16, <1>17 DEF GoodWire

(* The replay is over and nothing more was put on the wire: it failed, or   *)
(* it was not a dump and all of it is sent.                                 *)
LEMMA ReplayOverWire ==
    ASSUME IndInv, NEW c \in Conn, GoodWire(c), cliSock[c] = "open", srvSock[c] = "open",
           Replaying(c), ~Replaying(c)', ExitKept,
           UNCHANGED <<cliSock, srvSock, up, rbuf, seen, cpc, consumed, history>>,
           client'[c].attached = client[c].attached, client'[c].buf = client[c].buf,
           OnTheWay(c)' = OnTheWay(c),
           client[c].disconnected => client'[c].disconnected,
           client'[c].disconnected \/ snap = <<>>
    PROVE  GoodWire(c)'
<1>1. Unread(c)' = Unread(c)
  BY DEF Unread
<1>2. PICK t \in Seq(Cell), ps \in Seq(Packet) : Carries(c, t, ps) /\ Good(c, ps)
  BY DEF GoodWire
<1>3. Opened(c, ps)'
  BY <1>1, <1>2, ReplayOpened DEF Good
<1>4. Total(c, ps)' = Total(c, ps) /\ Wire(ps)' = Wire(ps)
  BY DEF Total, Shown, Wire
<1>5. Streamed(c, ps)'
  <2>. SUFFICES ASSUME client'[c].attached, ~client'[c].disconnected
                PROVE  UpToDate(Total(c, ps) \o (IF Replaying(c) THEN snap ELSE <<>>))'
    BY DEF Streamed
  <2>1. UpToDate(Total(c, ps) \o snap) /\ snap = <<>>
    BY <1>2 DEF Good, Streamed
  <2>2. (Total(c, ps) \o (IF Replaying(c) THEN snap ELSE <<>>))' = Total(c, ps) \o <<>>
    BY <1>4
  <2>. QED
    BY <2>1, <2>2 DEF UpToDate
<1>6. DumpGoing(c, ps)'
  <2>1. ~Ended(ps)
    BY <1>2 DEF Good, DumpGoing
  <2>2. ~Ended(ps)'
    BY <2>1 DEF Ended
  <2>. QED
    BY <2>2 DEF DumpGoing
<1>7. EndLast(ps)' /\ ExitTold(ps)'
  BY <1>2 DEF Good, EndLast, ExitTold, ExitKept
<1>8. Good(c, ps)'
  BY <1>3, <1>5, <1>6, <1>7 DEF Good
<1>9. Carries(c, t, ps)'
  BY <1>2, <1>4 DEF Carries
<1>. QED
  BY <1>8, <1>9 DEF GoodWire

(* MSG_DUMP_END ends a dump that is all sent. *)
LEMMA DumpEndWire ==
    ASSUME IndInv, NEW c \in Conn, GoodWire(c), cliSock[c] = "open", srvSock[c] = "open",
           Replaying(c), ~Replaying(c)', ExitKept, send_end, snap = <<>>,
           UNCHANGED <<cliSock, srvSock, up, rbuf, seen, cpc, consumed, history>>,
           client'[c].attached = client[c].attached, client'[c].buf = client[c].buf,
           NEW p, p = [typ |-> "DUMP_END", payload |-> <<>>],
           Joins(OnTheWay(c)', OnTheWay(c), packet_bytes(p))
    PROVE  GoodWire(c)'
<1>1. Unread(c)' = Unread(c)
  BY DEF Unread
<1>2. PICK t \in Seq(Cell), ps \in Seq(Packet) : Carries(c, t, ps) /\ Good(c, ps)
  BY DEF GoodWire
<1>3. p \in Packet /\ p.typ = "DUMP_END" /\ BytesOf(p) = <<>>
  BY DEF Packet, MsgType, BytesOf
<1>. DEFINE qs == Append(ps, p)
            s == Total(c, ps)
            w == Total(c, qs)'
<1>4. Carries(c, <<>>, qs)' /\ Joins(w, s, <<>>)
  <2>1. srvSock[c] # "closed" /\ seen'[c] = seen[c]
    OBVIOUS
  <2>2. Carries(c, <<>>, qs)' /\ Joins(Total(c, qs)', Total(c, ps), BytesOf(p))
    BY <1>2, <1>3, <2>1, CarriesAppend
  <2>. QED
    BY <1>3, <2>2
<1>5. ~Ended(ps) /\ ~client[c].attached /\ s \o <<>> = Newest(consumed)
  BY <1>2 DEF Good, DumpGoing
<1>6. qs \in Seq(Packet) /\ Ended(qs) /\ EndLast(qs) /\ ExitTold(qs)
  BY <1>2, <1>3, AppendParts DEF Good
<1>. HIDE DEF qs
<1>7. Opened(c, qs)'
  BY <1>1, <1>2, ReplayOpened DEF Good
<1>8. w = Newest(consumed')
  BY <1>4, <1>5 DEF Joins
<1>9. Streamed(c, qs)'
  BY <1>5 DEF Streamed
<1>10. DumpGoing(c, qs)'
  <2>1. consumed' \in 0..consumed'
    BY ConnTypes
  <2>. QED
    BY <1>5, <1>8, <2>1 DEF DumpGoing
<1>11. EndLast(qs)' /\ ExitTold(qs)'
  BY <1>6 DEF EndLast, ExitTold, ExitKept
<1>12. Good(c, qs)'
  BY <1>7, <1>9, <1>10, <1>11 DEF Good
<1>13. <<>> \in Seq(Cell)
  OBVIOUS
<1>. QED
  BY <1>4, <1>6, <1>12, <1>13 DEF GoodWire

LEMMA ReplayStream ==
    ASSUME IndInv, StreamInv, UNCHANGED clientVars, ReplayChunk \/ ReplayFail \/ ReplayEnd
    PROVE  StreamInv'
<1>. SUFFICES ASSUME NEW c \in Conn PROVE Placed(c)' /\ Outcome(c)' /\ GoodWire(c)'
  BY DEF StreamInv
<1>1. Placed(c) /\ Outcome(c) /\ GoodWire(c)
  BY DEF StreamInv
<1>2. /\ UNCHANGED <<cliSock, srvSock, up, consumed, history, child_exit, cur>>
      /\ UNCHANGED <<rbuf, seen, cpc, result, code>>
      /\ pc = "replay"
  BY DEF ReplayChunk, ReplayFail, ReplayEnd, ptyVars, clientVars
<1>3. ExitKept /\ consumed \in Nat /\ cur \in Conn /\ srvSock[cur] = "open"
  BY <1>2, ConnTypes DEF ExitKept, IndInv, SocketsInStep
<1>4. CASE c # cur
  <2>1. client'[c] = client[c] /\ down'[c] = down[c]
    BY <1>4 DEF ReplayChunk, ReplayFail, ReplayEnd, SendAll
  <2>2. Still(c) /\ Quiet(c)
    BY <1>2, <1>4, <2>1 DEF Still, Quiet, Replaying
  <2>. QED
    BY <1>1, <1>3, <2>2, QuietSame, StillInv
<1>5. CASE c = cur
  <2>1. snap \in Seq(Nat) /\ client[c] \in Client
    BY TableTypes DEF IndInv, TypeOK, ServerTypeOK
  <2>2. content(chunk) \in Packet
    BY <2>1, ChunkCuts DEF content, Packet, MsgType
  <2>. SUFFICES ASSUME TRUE
                PROVE  /\ cliSock[c] # "open" => down'[c] = down[c]
                       /\ cliSock[c] = "open" => GoodWire(c)'
    <3>1. cliSock[c] # "open" => GoodWire(c)'
      BY <1>2 DEF GoodWire
    <3>. QED
      BY <1>1, <1>2, <1>3, <1>5, <3>1, PlacedServer
  <2>3. CASE ReplayChunk
    <3>. DEFINE r == send_packet_nonblocking(c, content(chunk))
    <3>1. /\ client'[c] = SentOrDisconnect(c, r) /\ down'[c] = r.wire /\ r.ok
          /\ snap' = Drop(snap, Len(chunk)) /\ pc' = "replay" /\ send_end' = send_end
      BY <1>2, <1>5, <2>3 DEF ReplayChunk, SendAll
    <3>. HIDE DEF r
    <3>2. /\ client'[c].attached = client[c].attached
          /\ client'[c].buf = client[c].buf
          /\ client'[c].send_queue = r.queue
          /\ client'[c].disconnected = client[c].disconnected
      BY <2>1, <3>1 DEF SentOrDisconnect, Client
    <3>3. Replaying(c) /\ Replaying(c)' /\ srvSock[c] = "open" /\ r = send_packet_nonblocking(c, content(chunk))
      BY <1>2, <1>3, <1>5, <3>1 DEF Replaying, r
    <3>4. cliSock[c] # "open" => down'[c] = down[c]
      BY <2>2, <3>1, <3>3, SendFacts
    <3>5. cliSock[c] = "open" => GoodWire(c)'
      BY <1>1, <1>2, <1>3, <3>1, <3>2, <3>3, ReplayChunkWire
    <3>. QED
      BY <3>4, <3>5
  <2>4. CASE ReplayFail
    <3>. DEFINE r == send_packet_nonblocking(c, content(chunk))
    <3>1. /\ client'[c] = [Replayed(c, r) EXCEPT !.disconnected = TRUE]
          /\ down'[c] = r.wire /\ ~r.ok /\ pc' = "handle"
      BY <1>5, <2>4 DEF ReplayFail, SendAll
    <3>2. r = send_packet_nonblocking(c, content(chunk))
      OBVIOUS
    <3>. HIDE DEF r
    <3>3. /\ client'[c].attached = client[c].attached
          /\ client'[c].buf = client[c].buf
          /\ client'[c].send_queue = r.queue
          /\ client'[c].disconnected
      BY <2>1, <3>1 DEF Replayed, SentThenClose, Client
    <3>4. Replaying(c) /\ ~Replaying(c)' /\ srvSock[c] = "open"
      BY <1>2, <1>3, <1>5, <3>1 DEF Replaying
    <3>5. cliSock[c] # "open" => down'[c] = down[c]
      BY <2>2, <3>1, <3>2, SendFacts
    <3>6. cliSock[c] = "open" => OnTheWay(c)' = OnTheWay(c)
      <4>1. OnTheWay(c)' = rbuf[c] \o r.wire \o r.queue
        BY <1>2, <3>1, <3>3 DEF OnTheWay
      <4>2. cliSock[c] = "open" => rbuf[c] \o r.wire \o r.queue = OnTheWay(c)
        BY <2>2, <3>1, <3>2, SendFacts
      <4>. QED
        BY <4>1, <4>2
    <3>7. cliSock[c] = "open" => GoodWire(c)'
      BY <1>1, <1>2, <1>3, <3>3, <3>4, <3>6, ReplayOverWire
    <3>. QED
      BY <3>5, <3>7
  <2>5. CASE ReplayEnd /\ ~send_end
    <3>1. client'[c] = client[c] /\ down'[c] = down[c] /\ pc' = "handle" /\ snap = <<>>
      BY <2>5 DEF ReplayEnd
    <3>2. Replaying(c) /\ ~Replaying(c)' /\ srvSock[c] = "open" /\ OnTheWay(c)' = OnTheWay(c)
      BY <1>2, <1>3, <1>5, <3>1 DEF Replaying, OnTheWay
    <3>3. cliSock[c] = "open" => GoodWire(c)'
      BY <1>1, <1>2, <1>3, <3>1, <3>2, ReplayOverWire
    <3>. QED
      BY <3>1, <3>3
  <2>6. CASE ReplayEnd /\ send_end
    <3>1. PICK p \in Packet : p = [typ |-> "DUMP_END", payload |-> <<>>]
      <4>1. [typ |-> "DUMP_END", payload |-> <<>>] \in Packet
        BY DEF Packet, MsgType
      <4>. QED
        BY <4>1
    <3>. DEFINE r == send_packet_nonblocking(c, p)
    <3>2. /\ client'[c] = Replayed(c, r) /\ down'[c] = r.wire
          /\ pc' = "handle" /\ snap = <<>>
      BY <1>5, <2>6, <3>1 DEF ReplayEnd, SendAll
    <3>3. r = send_packet_nonblocking(c, p)
      OBVIOUS
    <3>. HIDE DEF r
    <3>4. /\ client'[c].attached = client[c].attached
          /\ client'[c].buf = client[c].buf
          /\ client'[c].send_queue = r.queue
          /\ client'[c].disconnected = client[c].disconnected
      BY <2>1, <3>2 DEF Replayed, SentThenClose, Client
    <3>5. Replaying(c) /\ ~Replaying(c)' /\ srvSock[c] = "open"
      BY <1>2, <1>3, <1>5, <3>2 DEF Replaying
    <3>6. cliSock[c] # "open" => down'[c] = down[c]
      BY <3>2, <3>3, SendFacts
    <3>7. OnTheWay(c)' = rbuf[c] \o r.wire \o r.queue
      BY <1>2, <3>2, <3>4 DEF OnTheWay
    <3>8. CASE cliSock[c] = "open" /\ r.ok
      <4>1. Joins(rbuf[c] \o r.wire \o r.queue, OnTheWay(c), packet_bytes(p))
        BY <3>3, <3>8, SendFacts
      <4>2. Joins(OnTheWay(c)', OnTheWay(c), packet_bytes(p))
        BY <3>7, <4>1
      <4>3. GoodWire(c)'
        BY <1>1, <1>2, <1>3, <2>6, <3>1, <3>2, <3>4, <3>5, <3>8, <4>2, DumpEndWire
      <4>. QED
        BY <3>8, <4>3
    <3>9. CASE cliSock[c] = "open" /\ ~r.ok
      <4>1. rbuf[c] \o r.wire \o r.queue = OnTheWay(c)
        BY <3>3, <3>9, SendFacts
      <4>2. OnTheWay(c)' = OnTheWay(c)
        BY <3>7, <4>1
      <4>3. GoodWire(c)'
        BY <1>1, <1>2, <1>3, <3>2, <3>4, <3>5, <3>9, <4>2, ReplayOverWire
      <4>. QED
        BY <3>9, <4>3
    <3>. QED
      BY <3>6, <3>8, <3>9
  <2>. QED
    BY <2>3, <2>4, <2>5, <2>6
<1>. QED
  BY <1>4, <1>5

(* MSG_EXIT to everybody who is not yet to be closed. *)
LEMMA QueueExitStream ==
    ASSUME IndInv, StreamInv, UNCHANGED clientVars, QueueExit
    PROVE  StreamInv'
<1>. SUFFICES ASSUME NEW c \in Conn PROVE Placed(c)' /\ Outcome(c)' /\ GoodWire(c)'
  BY DEF StreamInv
<1>1. Placed(c) /\ Outcome(c) /\ GoodWire(c)
  BY DEF StreamInv
<1>2. /\ UNCHANGED <<cliSock, srvSock, up, consumed, history, child_exit, cur, snap, send_end>>
      /\ UNCHANGED <<rbuf, seen, cpc, result, code>>
      /\ pc = "read" /\ pc' = "flush"
  BY DEF QueueExit, ptyVars, clientVars
<1>3. ExitKept /\ consumed \in Nat
  BY <1>2, ConnTypes DEF ExitKept
<1>. DEFINE To == {e \in clients : ~client[e].disconnected /\ client[e].close_after_drain = "unset"}
<1>4. CASE child_exit = NoStatus \/ c \notin To
  <2>1. client'[c] = client[c] /\ down'[c] = down[c]
    BY <1>4 DEF QueueExit, SendAll
  <2>2. Still(c) /\ Quiet(c)
    BY <1>2, <2>1 DEF Still, Quiet, Replaying
  <2>. QED
    BY <1>1, <1>3, <2>2, QuietSame, StillInv
<1>5. CASE child_exit # NoStatus /\ c \in To
  <2>0. child_exit \in Nat /\ srvSock[c] = "open" /\ client[c] \in Client
    BY <1>5, TableTypes DEF IndInv, TypeOK, ServerTypeOK, SocketsInStep
  <2>1. PICK p \in Packet : p = [typ |-> "EXIT", payload |-> <<child_exit>>]
    <3>1. [typ |-> "EXIT", payload |-> <<child_exit>>] \in Packet
      BY <2>0 DEF Packet, MsgType
    <3>. QED
      BY <3>1
  <2>. DEFINE r == send_packet_nonblocking(c, p)
  <2>2. client'[c] = SentThenClose(c, r) /\ down'[c] = r.wire
    BY <1>5, <2>1 DEF QueueExit, SendAll
  <2>3. r = send_packet_nonblocking(c, p)
    OBVIOUS
  <2>. HIDE DEF r
  <2>4. /\ client'[c].attached = client[c].attached
        /\ client'[c].buf = client[c].buf
        /\ client'[c].send_queue = r.queue
        /\ client'[c].disconnected = client[c].disconnected
    BY <2>0, <2>2 DEF SentThenClose, Client
  <2>5. cliSock[c] # "open" => down'[c] = down[c]
    BY <2>2, <2>3, SendFacts
  <2>6. Placed(c)' /\ Outcome(c)'
    BY <1>1, <1>2, <1>3, <2>0, <2>5, PlacedServer
  <2>7. SameSide(c)
    BY <1>2, <1>3, <2>4 DEF SameSide, Replaying
  <2>8. OnTheWay(c)' = rbuf[c] \o r.wire \o r.queue /\ Unread(c)' = Unread(c)
    BY <1>2, <2>2, <2>4 DEF OnTheWay, Unread
  <2>9. CASE cliSock[c] # "open"
    BY <1>2, <2>6, <2>9 DEF GoodWire
  <2>10. CASE cliSock[c] = "open" /\ r.ok
    <3>1. Joins(rbuf[c] \o r.wire \o r.queue, OnTheWay(c), packet_bytes(p))
      BY <2>3, <2>10, SendFacts
    <3>2. Joins(OnTheWay(c)', OnTheWay(c), packet_bytes(p))
      BY <2>8, <3>1
    <3>3. p.typ = "EXIT" /\ p.payload = <<child_exit'>> /\ child_exit' # NoStatus
      BY <1>2, <1>5, <2>1
    <3>4. GoodWire(c)'
      BY <1>1, <1>2, <1>3, <2>0, <2>7, <2>8, <2>10, <3>2, <3>3, SilentStream
    <3>. QED
      BY <2>6, <3>4
  <2>11. CASE cliSock[c] = "open" /\ ~r.ok
    <3>1. rbuf[c] \o r.wire \o r.queue = OnTheWay(c)
      BY <2>3, <2>11, SendFacts
    <3>2. OnTheWay(c)' = OnTheWay(c)
      BY <2>8, <3>1
    <3>3. GoodWire(c)'
      BY <1>1, <1>2, <1>3, <2>7, <2>8, <3>2, WireKept
    <3>. QED
      BY <2>6, <3>3
  <2>. QED
    BY <2>9, <2>10, <2>11
<1>. QED
  BY <1>4, <1>5

(* The bottom of the loop.  The cells of a client that is dropped with some *)
(* still in its queue are lost; they are the end of what was on its way.    *)
LEMMA DroppedWire ==
    ASSUME IndInv, NEW c \in Conn, GoodWire(c), cliSock[c] = "open", srvSock[c] = "open",
           ExitKept, pc' # "replay", srvSock'[c] = "closed", client'[c] = NewClient,
           UNCHANGED <<cliSock, up, rbuf, seen, cpc, consumed, history>>,
           NEW q \in Seq(Cell), down'[c] \in Seq(Cell),
           Recut(down'[c], q, down[c], client[c].send_queue)
    PROVE  GoodWire(c)'
<1>1. PICK t \in Seq(Cell), ps \in Seq(Packet) : Carries(c, t, ps) /\ Good(c, ps)
  BY DEF GoodWire
<1>2. client'[c].buf = <<>> /\ client'[c].send_queue = <<>> /\ ~client'[c].attached
  BY DEF NewClient
<1>3. ~Replaying(c)'
  BY DEF Replaying
<1>4. /\ rbuf[c] \in Seq(Cell) /\ down[c] \in Seq(Cell) /\ client[c].send_queue \in Seq(Cell)
      /\ client[c].buf \in Seq(Packet) /\ up[c] \in Seq(Packet)
  BY ConnTypes
<1>. DEFINE a == rbuf[c]
            x == down[c]
            y == client[c].send_queue
            d == down'[c]
<1>5. Carries(c, q, ps)'
  <2>1. Wire(ps)' = Wire(ps)
    BY DEF Wire
  <2>2. OnTheWay(c)' = (a \o d) \o <<>> /\ OnTheWay(c) = (a \o x) \o y
    BY <1>2 DEF OnTheWay
  <2>3. Joins(Wire(ps), OnTheWay(c), <<>>)
    BY <1>1 DEF Carries
  <2>4. a \in Seq(Cell) /\ x \in Seq(Cell) /\ y \in Seq(Cell) /\ d \in Seq(Cell) /\ d \o q = x \o y
    BY <1>4 DEF Recut
  <2>. HIDE DEF a, x, y, d
  <2>5. a \o d \in Seq(Cell) /\ a \o x \in Seq(Cell)
    BY <2>4, ConcatProperties
  <2>6. (a \o d) \o <<>> = a \o d /\ (a \o x) \o y \in Seq(Cell)
    BY <2>4, <2>5, ConcatEmptySeq, ConcatProperties
  <2>7. ((a \o x) \o y) \o <<>> = (a \o x) \o y
    BY <2>6, ConcatEmptySeq
  <2>8. Assoc(a, d, q) /\ Assoc(a, x, y)
    BY <2>4, ConcatAssoc
  <2>9. Wire(ps) = (a \o d) \o q
    BY <2>2, <2>3, <2>4, <2>7, <2>8 DEF Joins, Assoc
  <2>10. Joins(Wire(ps), OnTheWay(c)', q)
    BY <2>2, <2>6, <2>9 DEF Joins
  <2>. QED
    BY <2>1, <2>10 DEF Carries
<1>6. Fresh(c, ps) => Fresh(c, ps)'
  <2>1. Total(c, ps)' = Total(c, ps)
    BY DEF Total, Shown
  <2>. QED
    BY <1>2, <1>3, <2>1 DEF Fresh, Ended
<1>7. Unread(c)' = up[c]
  <2>1. <<>> \o up[c] = up[c]
    BY <1>4, ConcatEmptySeq
  <2>. QED
    BY <1>2, <2>1 DEF Unread
<1>8. Opened(c, ps)'
  <2>. DEFINE b == client[c].buf
              u == up[c]
              v == Unread(c)
  <2>1. b \in Seq(Packet) /\ u \in Seq(Packet) /\ v = b \o u
    BY <1>4 DEF Unread
  <2>2. /\ cpc[c] \in {"pid", "attach", "dump"} => v = <<>> /\ Fresh(c, ps)
        /\ \A i \in 1..Len(v) : Opening(v[i]) => i = 1 /\ Fresh(c, ps)
    BY <1>1 DEF Good, Opened
  <2>. HIDE DEF b, u, v
  <2>3. v = <<>> => u = <<>>
    <3>1. Joins(v, b, u)
      BY <2>1 DEF Joins
    <3>. QED
      BY <2>1, <3>1, EmptyParts
  <2>4. ASSUME NEW i \in 1..Len(u), Opening(u[i]) PROVE i = 1 /\ Fresh(c, ps)
    <3>. DEFINE k == Len(b)
    <3>1. k \in Nat /\ Len(u) \in Nat /\ k + i \in 1..Len(v) /\ v[k + i] = u[i]
      BY <2>1
    <3>2. k + i = 1 /\ Fresh(c, ps)
      BY <2>2, <2>4, <3>1
    <3>. HIDE DEF k
    <3>. QED
      BY <3>1, <3>2
  <2>. QED
    BY <1>6, <1>7, <2>2, <2>3, <2>4 DEF Opened, u
<1>9. Streamed(c, ps)'
  BY DEF Streamed
<1>10. DumpGoing(c, ps)'
  <2>1. Total(c, ps)' = Total(c, ps) /\ (Ended(ps)' <=> Ended(ps))
    BY DEF Total, Shown, Ended
  <2>. QED
    BY <1>1, <1>2, <1>3, <2>1 DEF Good, DumpGoing
<1>11. EndLast(ps)' /\ ExitTold(ps)'
  BY <1>1 DEF Good, EndLast, ExitTold, ExitKept
<1>12. Good(c, ps)'
  BY <1>8, <1>9, <1>10, <1>11 DEF Good
<1>. QED
  BY <1>5, <1>12 DEF GoodWire

LEMMA FlushStream ==
    ASSUME IndInv, StreamInv, UNCHANGED clientVars, FlushAndReap
    PROVE  StreamInv'
<1>. SUFFICES ASSUME NEW c \in Conn PROVE Placed(c)' /\ Outcome(c)' /\ GoodWire(c)'
  BY DEF StreamInv
<1>1. Placed(c) /\ Outcome(c) /\ GoodWire(c)
  BY DEF StreamInv
<1>2. /\ UNCHANGED <<cliSock, up, consumed, history, child_exit, cur, snap, send_end>>
      /\ UNCHANGED <<rbuf, seen, cpc, result, code>>
      /\ pc = "flush" /\ pc' # "replay"
  BY DEF FlushAndReap, ptyVars, clientVars
<1>3. ExitKept /\ consumed \in Nat
  BY <1>2, ConnTypes DEF ExitKept
<1>. DEFINE gone == {e \in clients : Gone(Flushed(e))}
            q == client[c].send_queue
            r == try_flush_client(c, q)
<1>4. c \in clients <=> srvSock[c] = "open"
  BY DEF IndInv, SocketsInStep
<1>5. /\ client'[c] = (IF c \in gone THEN NewClient
                       ELSE IF c \in clients THEN Flushed(c) ELSE client[c])
      /\ srvSock'[c] = srvSock[c] \/ srvSock'[c] = "closed"
      /\ c \in gone => srvSock'[c] = "closed"
      /\ c \in clients /\ c \notin gone => srvSock'[c] = "open"
      /\ down'[c] = (IF c \in clients /\ ~client[c].disconnected THEN r.wire ELSE down[c])
  BY <1>4 DEF FlushAndReap
<1>6. CASE c \notin clients
  <2>1. client'[c] = client[c] /\ down'[c] = down[c] /\ client[c] = NewClient /\ srvSock'[c] # "open"
    BY <1>1, <1>4, <1>5, <1>6 DEF Placed
  <2>2. SameSide(c)
    BY <1>2, <1>3, <2>1 DEF SameSide, Replaying
  <2>3. OnTheWay(c)' = OnTheWay(c) /\ Unread(c)' = Unread(c)
    BY <1>2, <2>1 DEF OnTheWay, Unread
  <2>4. GoodWire(c)'
    BY <1>1, <1>2, <1>3, <1>5, <2>2, <2>3, WireKept
  <2>5. Placed(c)' /\ Outcome(c)'
    BY <1>1, <1>2, <1>3, <1>5, <2>1, PlacedServer
  <2>. QED
    BY <2>4, <2>5
<1>7. CASE c \in clients
  <2>1. /\ down[c] \in Seq(Cell) /\ Len(down[c]) <= SNDBUF /\ q \in Seq(Cell)
        /\ client[c] \in Client /\ rbuf[c] \in Seq(Cell) /\ srvSock[c] = "open"
    BY <1>4, <1>7, ConnTypes
  <2>2. /\ r.wire \in Seq(Cell) /\ r.queue \in Seq(Cell)
        /\ Recut(r.wire, r.queue, down[c], q)
        /\ cliSock[c] # "open" => r.wire = down[c]
    <3>. HIDE DEF q
    <3>. QED
      BY <2>1, FlushWire
  <2>3. client[c].disconnected => c \in gone
    BY <1>7 DEF Flushed, Gone
  <2>4. Flushed(c) = IF client[c].disconnected THEN client[c] ELSE SentOrDisconnect(c, r)
    BY DEF Flushed
  <2>. HIDE DEF r, gone
  <2>5. cliSock[c] # "open" => down'[c] = down[c]
    BY <1>5, <2>2
  <2>6. Placed(c)' /\ Outcome(c)'
    BY <1>1, <1>2, <1>3, <1>5, <1>7, <2>1, <2>5, PlacedServer
  <2>7. CASE cliSock[c] # "open"
    BY <1>2, <2>6, <2>7 DEF GoodWire
  <2>8. CASE cliSock[c] = "open" /\ c \in gone
    <3>1. client'[c] = NewClient /\ srvSock'[c] = "closed"
      BY <1>5, <2>8
    <3>2. PICK rest \in Seq(Cell) : down'[c] \in Seq(Cell) /\ Recut(down'[c], rest, down[c], q)
      <4>1. CASE client[c].disconnected
        BY <1>5, <2>1, <4>1 DEF Recut
      <4>2. CASE ~client[c].disconnected
        BY <1>5, <1>7, <2>2, <4>2
      <4>. QED
        BY <4>1, <4>2
    <3>3. GoodWire(c)'
      BY <1>1, <1>2, <1>3, <2>1, <2>8, <3>1, <3>2, DroppedWire
    <3>. QED
      BY <2>6, <3>3
  <2>9. CASE cliSock[c] = "open" /\ c \notin gone
    <3>1. client'[c] = SentOrDisconnect(c, r) /\ down'[c] = r.wire /\ srvSock'[c] = "open"
      BY <1>5, <1>7, <2>3, <2>4, <2>9
    <3>2. /\ client'[c].attached = client[c].attached
          /\ client'[c].buf = client[c].buf
          /\ client'[c].send_queue = r.queue
          /\ client[c].disconnected => client'[c].disconnected
      BY <2>1, <3>1 DEF SentOrDisconnect, Client
    <3>3. SameSide(c)
      BY <1>2, <1>3, <2>1, <3>2 DEF SameSide, Replaying
    <3>4. OnTheWay(c)' = OnTheWay(c)
      <4>. DEFINE a == rbuf[c]
                  x == down[c]
                  w == r.wire
                  v == r.queue
      <4>1. OnTheWay(c)' = (a \o w) \o v /\ OnTheWay(c) = (a \o x) \o q
        BY <1>2, <3>1, <3>2 DEF OnTheWay
      <4>2. /\ a \in Seq(Cell) /\ x \in Seq(Cell) /\ w \in Seq(Cell) /\ v \in Seq(Cell)
            /\ q \in Seq(Cell) /\ w \o v = x \o q
        BY <2>1, <2>2 DEF Recut
      <4>. HIDE DEF a, x, w, v, q
      <4>3. Assoc(a, w, v) /\ Assoc(a, x, q)
        BY <4>2, ConcatAssoc
      <4>. QED
        BY <4>1, <4>2, <4>3 DEF Assoc
    <3>5. Unread(c)' = Unread(c)
      BY <1>2, <3>2 DEF Unread
    <3>6. GoodWire(c)'
      BY <1>1, <1>2, <1>3, <2>1, <3>3, <3>4, <3>5, WireKept
    <3>. QED
      BY <2>6, <3>6
  <2>. QED
    BY <2>7, <2>8, <2>9
<1>. QED
  BY <1>6, <1>7

(* While the server has the connection open, nothing is lost. *)
LEMMA WholeWire ==
    ASSUME IndInv, NEW c \in Conn, NEW t \in Seq(Cell), NEW ps \in Seq(Packet),
           Carries(c, t, ps), srvSock[c] # "closed"
    PROVE  Wire(ps) = OnTheWay(c)
<1>1. rbuf[c] \in Seq(Cell) /\ down[c] \in Seq(Cell) /\ client[c].send_queue \in Seq(Cell)
  BY ConnTypes
<1>2. rbuf[c] \o down[c] \in Seq(Cell)
  BY <1>1, ConcatProperties
<1>3. OnTheWay(c) \in Seq(Cell)
  BY <1>1, <1>2, ConcatProperties DEF OnTheWay
<1>4. OnTheWay(c) \o <<>> = OnTheWay(c)
  BY <1>3, ConcatEmptySeq
<1>. QED
  BY <1>4 DEF Carries, Joins

-------------------------------------------------------------------------------
(* Every step of the session keeps the invariant. *)
LEMMA StreamStep ==
    ASSUME IndInv, HistoryExact, HistoryExact', StreamInv, [Next]_vars
    PROVE  StreamInv'
<1>1. CASE Server /\ UNCHANGED clientVars
  <2>1. CASE PollShutdown \/ AcceptDone \/ PtyDone \/ WaitPid
    BY <1>1, <2>1, IdleStream
  <2>2. ASSUME NEW d \in Conn, Accept(d) \/ AcceptDropped(d) PROVE StreamInv'
    BY <1>1, <2>2, AcceptStream
  <2>3. ASSUME NEW d \in Conn, ReadClient(d) PROVE StreamInv'
    BY <1>1, <2>3, ReadClientStream
  <2>4. ASSUME NEW n \in 1..MAX_PAYLOAD, ReadPty(n) PROVE StreamInv'
    <3>1. n \in Nat
      BY BoundAssumption
    <3>. QED
      BY <1>1, <2>4, <3>1, ReadPtyStream
  <2>5. CASE HandleInput \/ HandleResize \/ HandleDetach \/ EndClient
    BY <1>1, <2>5, HandleStream
  <2>6. CASE HandleAttach \/ HandleDump
    BY <1>1, <2>6, OpenStream
  <2>7. CASE ReplayChunk \/ ReplayFail \/ ReplayEnd
    BY <1>1, <2>7, ReplayStream
  <2>8. CASE QueueExit
    BY <1>1, <2>8, QueueExitStream
  <2>9. CASE FlushAndReap
    BY <1>1, <2>9, FlushStream
  <2>. QED
    BY <1>1, <2>1, <2>2, <2>3, <2>4, <2>5, <2>6, <2>7, <2>8, <2>9 DEF Server
<1>2. CASE Child /\ UNCHANGED <<serverVars, clientVars>>
  <2>1. UNCHANGED serverVars /\ UNCHANGED clientVars
    BY <1>2
  <2>. QED
    BY <1>2, <2>1, IdleStream
<1>3. ASSUME NEW d \in Conn, ClientRuns(d) \/ ClientUser(d), UNCHANGED serverVars
      PROVE  StreamInv'
  BY <1>3, ClientStream
<1>4. CASE Shutdown /\ UNCHANGED clientVars
  BY <1>4, IdleStream
<1>5. ASSUME NEW d \in Conn, Elapse(d), UNCHANGED clientVars PROVE StreamInv'
  BY <1>5, ElapseStream
<1>6. CASE UNCHANGED vars
  <2>. SUFFICES ASSUME NEW c \in Conn PROVE Placed(c)' /\ Outcome(c)' /\ GoodWire(c)'
    BY DEF StreamInv
  <2>1. Still(c) /\ Quiet(c) /\ ExitKept
    BY <1>6 DEF Still, Quiet, ExitKept, Replaying, vars, kernelVars, sockVars, ptyVars,
                serverVars, clientVars
  <2>. QED
    BY <2>1, QuietSame, StillInv DEF StreamInv
<1>. QED
  BY <1>1, <1>2, <1>3, <1>4, <1>5, <1>6 DEF Next, Terminated

LEMMA StreamInvariance == Spec => []StreamInv
<1>1. IndInv /\ HistoryExact /\ HistoryExact' /\ StreamInv /\ [Next]_vars => StreamInv'
  BY StreamStep
<1>. QED
  BY <1>1, StreamInit, Invariance, HistoryCorrect, PTL DEF Spec

(* The cells a client has yet to read are whole packets, however the kernel *)
(* cut the server's writes and whatever overflowed: send_packet_nonblocking *)
(* queues a packet whole or not at all.                                     *)
THEOREM WiresFramed == Spec => []WireFramed
<1>1. IndInv /\ StreamInv => WireFramed
  <2>. SUFFICES ASSUME IndInv, StreamInv, NEW c \in clients, cliSock[c] = "open"
                PROVE  Framed(OnTheWay(c))
    BY DEF WireFramed
  <2>1. c \in Conn /\ srvSock[c] = "open"
    BY DEF IndInv, SocketsInStep
  <2>2. PICK t \in Seq(Cell), ps \in Seq(Packet) : Carries(c, t, ps) /\ Good(c, ps)
    BY <2>1 DEF StreamInv, GoodWire
  <2>3. Wire(ps) = OnTheWay(c)
    BY <2>1, <2>2, WholeWire
  <2>4. Framed(Wire(ps))
    BY WireIsGood DEF WireGood
  <2>. QED
    BY <2>3, <2>4
<1>. QED
  BY <1>1, Invariance, StreamInvariance, PTL

(* Replay and live broadcast join without a hole or a repetition: what an   *)
(* attached client has been shown, is about to be shown and is still to be  *)
(* replayed is the output up to the last byte read from the pty, at least   *)
(* as far back as the history.                                              *)
THEOREM StreamsComplete == Spec => []StreamComplete
<1>1. IndInv /\ StreamInv => StreamComplete
  <2>. SUFFICES ASSUME IndInv, StreamInv, NEW c \in clients,
                       client[c].attached, ~client[c].disconnected, cliSock[c] = "open"
                PROVE  UpToDate((seen[c] \o ContentOf(OnTheWay(c)))
                                  \o (IF pc = "replay" /\ cur = c THEN snap ELSE <<>>))
    BY DEF StreamComplete, UpToDate
  <2>1. c \in Conn /\ srvSock[c] = "open"
    BY DEF IndInv, SocketsInStep
  <2>2. PICK t \in Seq(Cell), ps \in Seq(Packet) : Carries(c, t, ps) /\ Good(c, ps)
    BY <2>1 DEF StreamInv, GoodWire
  <2>3. Wire(ps) = OnTheWay(c)
    BY <2>1, <2>2, WholeWire
  <2>4. ContentOf(Wire(ps)) = Shown(ps)
    BY WireIsGood DEF WireGood
  <2>. QED
    BY <2>1, <2>2, <2>3, <2>4 DEF Good, Streamed, Total, Replaying
<1>. QED
  BY <1>1, Invariance, StreamInvariance, PTL

(* A dump that succeeds has collected exactly the history of one moment: no *)
(* broadcast slips in, and MSG_DUMP_END comes after the last of it.         *)
THEOREM DumpsExact == Spec => []DumpExact
<1>1. StreamInv => DumpExact
  BY DEF StreamInv, Outcome, DumpExact
<1>. QED
  BY <1>1, StreamInvariance, PTL

-------------------------------------------------------------------------------
(* The code a shell reports for a death. *)
ShellCode(d) == IF d.how = "exit" THEN d.n ELSE 128 + d.n

(* What exit_status makes of the status waitpid stores is that code. *)
LEMMA StatusDecoded ==
    ASSUME NEW d \in Deaths
    PROVE  exit_status(WaitStatus(d)) = ShellCode(d)
<1>1. CASE d.how = "exit"
  <2>. DEFINE n == d.n
  <2>1. n \in 0..255
    BY <1>1, DeathAssumption
  <2>2. WaitStatus(d) = 256 * n /\ ShellCode(d) = n
    BY <1>1 DEF WaitStatus, ShellCode
  <2>. HIDE DEF n
  <2>3. (256 * n) % 128 = 0 /\ (256 * n) \div 256 = n /\ n % 256 = n
    BY <2>1
  <2>. QED
    BY <2>2, <2>3 DEF exit_status
<1>2. CASE d.how = "signal"
  <2>. DEFINE n == d.n
  <2>1. n \in 1..126
    BY <1>2, DeathAssumption
  <2>2. WaitStatus(d) = n /\ ShellCode(d) = 128 + n
    BY <1>2 DEF WaitStatus, ShellCode
  <2>. HIDE DEF n
  <2>3. n % 128 = n /\ n # 0 /\ n # 127
    BY <2>1
  <2>. QED
    BY <2>2, <2>3 DEF exit_status
<1>. QED
  BY <1>1, <1>2, DeathAssumption

(* The exit code and the status of the child it comes from. *)
Told(d, e) == wstatus = WaitStatus(d) /\ e = ShellCode(d)

ExitSource ==
    /\ child # "running" => \E d \in Deaths : wstatus = WaitStatus(d)
    /\ child_exit # NoStatus =>
         \/ child_exit = 128 + SIGTERM /\ termed
         \/ child # "running" /\ \E d \in Deaths : Told(d, child_exit)

LEMMA StatusStep ==
    ASSUME [Next]_vars
    PROVE  UNCHANGED wstatus \/ \E d \in Deaths : ChildExit(d)
<1>1. CASE Server
  BY <1>1 DEF Server, PollShutdown, Accept, AcceptDropped, ReadClient, AcceptDone, ReadPty,
              PtyDone, WaitPid, HandleInput, HandleAttach, HandleDump, HandleResize,
              HandleDetach, EndClient, ReplayChunk, ReplayFail, ReplayEnd, QueueExit,
              FlushAndReap, kernelVars, sockVars, ptyVars
<1>2. CASE Child
  BY <1>2 DEF Child, ChildWrite, ChildRead
<1>3. ASSUME NEW c \in Conn, ClientRuns(c) \/ ClientUser(c) PROVE UNCHANGED wstatus
  <2>1. UNCHANGED ptyVars
    BY <1>3 DEF ClientRuns, ClientUser, Connect, ConnectRefused, RecvPart, RecvFail, RecvPid,
                RecvLoop, RecvExit, RecvDump, SendAttach, send_resize, SendDump, SendKeys,
                StdinEmpty, SelectStdin, StdinKey, StdinDetach, StdinEof, Killed, kernelVars
  <2>. QED
    BY <2>1 DEF ptyVars
<1>4. CASE Shutdown \/ \E c \in Conn : Elapse(c)
  BY <1>4 DEF Shutdown, Elapse, kernelVars, ptyVars
<1>5. CASE Terminated \/ UNCHANGED vars
  BY <1>5 DEF Terminated, vars, kernelVars, ptyVars
<1>. QED
  BY <1>1, <1>2, <1>3, <1>4, <1>5 DEF Next

LEMMA ExitSourced == Spec => []ExitSource
<1>1. Init => ExitSource
  BY DEF Init, KernelInit, ServerInit, ExitSource, NoStatus
<1>2. EndInStep /\ ExitSource /\ [Next]_vars => ExitSource'
  <2>. SUFFICES ASSUME EndInStep, ExitSource, [Next]_vars PROVE ExitSource'
    OBVIOUS
  <2>1. CASE PollShutdown
    BY <2>1 DEF PollShutdown, ExitSource, Told
  <2>2. CASE WaitPid
    <3>1. CASE child_exit = NoStatus /\ child = "zombie"
      <4>1. PICK d \in Deaths : wstatus = WaitStatus(d)
        BY <3>1 DEF ExitSource
      <4>2. wstatus' = wstatus /\ child' = "reaped" /\ child_exit' = exit_status(wstatus)
        BY <2>2, <3>1 DEF WaitPid
      <4>3. Told(d, child_exit)'
        BY <4>1, <4>2, StatusDecoded DEF Told
      <4>. QED
        BY <4>1, <4>2, <4>3 DEF ExitSource
    <3>2. CASE ~(child_exit = NoStatus /\ child = "zombie")
      <4>1. UNCHANGED <<child, child_exit, wstatus, termed>>
        BY <2>2, <3>2 DEF WaitPid
      <4>. QED
        BY <4>1 DEF ExitSource, Told
    <3>. QED
      BY <3>1, <3>2
  <2>3. ASSUME NEW d \in Deaths, ChildExit(d), UNCHANGED <<child_exit, pc>>
        PROVE  ExitSource'
    BY <2>3 DEF ChildExit, ExitSource, Told
  <2>4. CASE UNCHANGED <<child, child_exit, termed>> /\ ~PollShutdown /\ ~WaitPid
    <3>1. CASE UNCHANGED wstatus
      BY <2>4, <3>1 DEF ExitSource, Told
    <3>2. ASSUME NEW d \in Deaths, ChildExit(d) PROVE FALSE
      BY <2>4, <3>2 DEF ChildExit
    <3>. QED
      BY <3>1, <3>2, StatusStep
  <2>. QED
    BY <2>1, <2>2, <2>3, <2>4, EndStep
<1>. QED
  BY <1>1, <1>2, EndInvariance, PTL DEF Spec

(* A client that ends on MSG_EXIT ends with the code of the child's own end *)
(* as a shell would report it, or with 143 after the server was told to     *)
(* shut down: exit_status, the packet, its way through the queue and        *)
(* read_u32 lose nothing of it.                                             *)
THEOREM ExitsTruthful == Spec => []ExitTruthful
<1>1. StreamInv /\ ExitSource => ExitTruthful
  <2>. SUFFICES ASSUME StreamInv, ExitSource, NEW c \in Conn, result[c] = "exited"
                PROVE  \/ code[c] = 128 + SIGTERM /\ termed
                       \/ \E d \in Deaths :
                            /\ wstatus = WaitStatus(d)
                            /\ code[c] = IF d.how = "exit" THEN d.n ELSE 128 + d.n
    BY DEF ExitTruthful
  <2>1. child_exit # NoStatus /\ code[c] = child_exit
    BY DEF StreamInv, Outcome
  <2>. QED
    BY <2>1 DEF ExitSource, Told, ShellCode
<1>. QED
  BY <1>1, StreamInvariance, ExitSourced, PTL

-------------------------------------------------------------------------------
(* The end of a dump.  The provers know of a recursive function only what   *)
(* its equation says once a function is known to satisfy it.                *)

(* What the search passes on from one position to the one before it. *)
ScanStep(buf, lines, from, g, pos) ==
    [found \in 0..(from - pos) |->
       IF pos = 0 THEN 0
       ELSE IF buf[pos] \notin Newlines THEN g[pos - 1][found]
       ELSE IF found + 1 = lines THEN pos
       ELSE g[pos - 1][found + 1]]

(* f is the search of the first n positions. *)
Scans(buf, lines, from, f, n) ==
    f = [pos \in 0..n |-> ScanStep(buf, lines, from, f, pos)]

LEMMA ScansFurther ==
    ASSUME NEW buf, NEW lines, NEW from, NEW n \in Nat, NEW g, Scans(buf, lines, from, g, n)
    PROVE  \E f : Scans(buf, lines, from, f, n + 1)
<1> DEFINE f == [pos \in 0..(n + 1) |-> IF pos = n + 1 THEN ScanStep(buf, lines, from, g, n + 1)
                                                      ELSE g[pos]]
<1>1. ASSUME NEW pos \in 0..(n + 1) PROVE f[pos] = ScanStep(buf, lines, from, f, pos)
  <2>1. CASE pos = n + 1
    <3>1. f[pos - 1] = g[pos - 1]
      BY <2>1
    <3>2. f[pos] = ScanStep(buf, lines, from, g, pos)
      BY <2>1
    <3> HIDE DEF f
    <3> QED
      BY <3>1, <3>2 DEF ScanStep
  <2>2. CASE pos # n + 1
    <3>1. pos \in 0..n /\ f[pos] = g[pos]
      BY <2>2
    <3>2. g[pos] = ScanStep(buf, lines, from, g, pos)
      BY <3>1 DEF Scans
    <3>3. pos # 0 => f[pos - 1] = g[pos - 1]
      BY <3>1
    <3> HIDE DEF f
    <3>4. ScanStep(buf, lines, from, g, pos) = ScanStep(buf, lines, from, f, pos)
      BY <3>3 DEF ScanStep
    <3> QED
      BY <3>1, <3>2, <3>4
  <2> QED
    BY <2>1, <2>2
<1>2. f = [pos \in 0..(n + 1) |-> f[pos]]
  OBVIOUS
<1> HIDE DEF f
<1>3. Scans(buf, lines, from, f, n + 1)
  BY <1>1, <1>2 DEF Scans
<1> QED
  BY <1>3

LEMMA ScanExists ==
    ASSUME NEW buf, NEW lines, NEW from \in Nat
    PROVE  \E f : Scans(buf, lines, from, f, from)
<1> DEFINE S == {n \in Nat : \E f : Scans(buf, lines, from, f, n)}
<1>1. 0 \in S
  <2> DEFINE z == [found \in 0..(from - 0) |-> 0]
             f == [pos \in 0..0 |-> z]
  <2>1. Scans(buf, lines, from, f, 0)
    <3>1. ScanStep(buf, lines, from, f, 0) = z
      BY DEF ScanStep
    <3>2. \A pos \in 0..0 : ScanStep(buf, lines, from, f, pos) = z
      BY <3>1
    <3> HIDE DEF z
    <3> QED
      BY <3>2 DEF Scans
  <2> QED
    BY <2>1
<1>2. ASSUME NEW n \in 0..(from - 1), n \in S PROVE n + 1 \in S
  BY <1>2, ScansFurther
<1> HIDE DEF S
<1>3. \A n \in 0..from : n \in S
  BY <1>1, <1>2, InductionUpTo
<1> QED
  BY <1>3 DEF S

LEMMA ScanIs ==
    ASSUME NEW buf, NEW lines, NEW from \in Nat
    PROVE  \E f : Scans(buf, lines, from, f, from) /\ ScanBack(buf, lines, from) = f[from][0]
<1> DEFINE f == CHOOSE f : Scans(buf, lines, from, f, from)
<1>1. Scans(buf, lines, from, f, from)
  BY ScanExists
<1>2. ScanBack(buf, lines, from) = f[from][0]
  BY DEF ScanBack, Scans, ScanStep
<1> QED
  BY <1>1, <1>2

(* The newlines from one position to another. *)
NewlinesIn(buf, a, b) == {i \in a..b : buf[i] \in Newlines}
CountIn(buf, a, b) == Cardinality(NewlinesIn(buf, a, b))

LEMMA CountType ==
    ASSUME NEW buf, NEW a \in Int, NEW b \in Int
    PROVE  IsFiniteSet(NewlinesIn(buf, a, b)) /\ CountIn(buf, a, b) \in Nat
<1>1. IsFiniteSet(a..b)
  BY FS_Interval
<1>2. IsFiniteSet(NewlinesIn(buf, a, b))
  BY <1>1, FS_Subset DEF NewlinesIn
<1> QED
  BY <1>2, FS_CardinalityType DEF CountIn

LEMMA CountNone ==
    ASSUME NEW buf, NEW a \in Int, NEW b \in Int, b < a
    PROVE  CountIn(buf, a, b) = 0
<1>1. NewlinesIn(buf, a, b) = {}
  BY DEF NewlinesIn
<1> QED
  BY <1>1, FS_EmptySet DEF CountIn

(* One position more at the end. *)
LEMMA CountMore ==
    ASSUME NEW buf, NEW a \in Int, NEW b \in Int, a <= b
    PROVE  CountIn(buf, a, b) = CountIn(buf, a, b - 1) + (IF buf[b] \in Newlines THEN 1 ELSE 0)
<1>1. IsFiniteSet(NewlinesIn(buf, a, b - 1)) /\ CountIn(buf, a, b - 1) \in Nat
  BY CountType
<1>2. CASE buf[b] \in Newlines
  <2>1. /\ NewlinesIn(buf, a, b) = NewlinesIn(buf, a, b - 1) \cup {b}
        /\ b \notin NewlinesIn(buf, a, b - 1)
    BY <1>2 DEF NewlinesIn
  <2>2. Cardinality(NewlinesIn(buf, a, b - 1) \cup {b}) = Cardinality(NewlinesIn(buf, a, b - 1)) + 1
    BY <1>1, <2>1, FS_AddElement
  <2> QED
    BY <1>2, <2>1, <2>2 DEF CountIn
<1>3. CASE buf[b] \notin Newlines
  <2>1. NewlinesIn(buf, a, b) = NewlinesIn(buf, a, b - 1)
    BY <1>3 DEF NewlinesIn
  <2> QED
    BY <1>1, <1>3, <2>1 DEF CountIn
<1> QED
  BY <1>2, <1>3

(* r bytes come before the tail when found newlines have been passed on the *)
(* way down to pos.                                                         *)
TailAt(buf, lines, pos, found, r) ==
    /\ r \in 0..pos
    /\ r = 0 => found + CountIn(buf, 1, pos) < lines
    /\ r > 0 => buf[r] \in Newlines /\ found + CountIn(buf, r + 1, pos) = lines - 1

LEMMA TailAtNext ==
    ASSUME NEW buf, NEW lines \in Nat, NEW pos \in Nat, pos > 0, NEW found \in Nat, found < lines,
           NEW r,
           \/ buf[pos] \notin Newlines /\ TailAt(buf, lines, pos - 1, found, r)
           \/ buf[pos] \in Newlines /\ found + 1 = lines /\ r = pos
           \/ buf[pos] \in Newlines /\ TailAt(buf, lines, pos - 1, found + 1, r)
    PROVE  TailAt(buf, lines, pos, found, r)
<1>1. CASE buf[pos] \in Newlines /\ found + 1 = lines /\ r = pos
  <2>1. CountIn(buf, r + 1, pos) = 0
    BY <1>1, CountNone
  <2> QED
    BY <1>1, <2>1 DEF TailAt
<1>2. CASE r # pos \/ ~(buf[pos] \in Newlines /\ found + 1 = lines)
  <2>1. r \in 0..(pos - 1)
    BY <1>2 DEF TailAt
  <2>2. /\ CountIn(buf, 1, pos) = CountIn(buf, 1, pos - 1) + (IF buf[pos] \in Newlines THEN 1 ELSE 0)
        /\ CountIn(buf, r + 1, pos) = CountIn(buf, r + 1, pos - 1)
                                        + (IF buf[pos] \in Newlines THEN 1 ELSE 0)
    BY <2>1, CountMore
  <2>3. CountIn(buf, 1, pos - 1) \in Nat /\ CountIn(buf, r + 1, pos - 1) \in Nat
    BY <2>1, CountType
  <2>4. CASE buf[pos] \notin Newlines
    BY <2>1, <2>2, <2>3, <2>4 DEF TailAt
  <2>5. CASE buf[pos] \in Newlines
    <3>1. TailAt(buf, lines, pos - 1, found + 1, r)
      BY <1>2, <2>5
    <3> QED
      BY <2>1, <2>2, <2>3, <2>5, <3>1 DEF TailAt
  <2> QED
    BY <2>4, <2>5
<1> QED
  BY <1>1, <1>2

LEMMA ScanCuts ==
    ASSUME NEW buf, NEW lines \in Nat, lines > 0, NEW from \in Nat
    PROVE  TailAt(buf, lines, from, 0, ScanBack(buf, lines, from))
<1>1. PICK f : Scans(buf, lines, from, f, from) /\ ScanBack(buf, lines, from) = f[from][0]
  BY ScanIs
<1> DEFINE S == {pos \in Nat : \A found \in 0..(from - pos) :
                                 found < lines => TailAt(buf, lines, pos, found, f[pos][found])}
<1>2. ASSUME NEW pos \in 0..from, NEW found \in 0..(from - pos)
      PROVE  f[pos][found] = IF pos = 0 THEN 0
                             ELSE IF buf[pos] \notin Newlines THEN f[pos - 1][found]
                             ELSE IF found + 1 = lines THEN pos
                             ELSE f[pos - 1][found + 1]
  <2>1. f[pos] = ScanStep(buf, lines, from, f, pos)
    BY <1>1 DEF Scans
  <2> QED
    BY <2>1 DEF ScanStep
<1>3. 0 \in S
  <2>1. CountIn(buf, 1, 0) = 0
    BY CountNone
  <2>2. ASSUME NEW found \in 0..(from - 0), found < lines
        PROVE  TailAt(buf, lines, 0, found, f[0][found])
    <3>1. f[0][found] = 0
      BY <1>2
    <3> QED
      BY <2>1, <2>2, <3>1 DEF TailAt
  <2> QED
    BY <2>2
<1>4. ASSUME NEW n \in 0..(from - 1), n \in S PROVE n + 1 \in S
  <2> SUFFICES ASSUME NEW found \in 0..(from - (n + 1)), found < lines
               PROVE  TailAt(buf, lines, n + 1, found, f[n + 1][found])
    OBVIOUS
  <2>1. n + 1 \in 0..from /\ (n + 1) - 1 = n /\ n + 1 \in Nat /\ n + 1 > 0
    OBVIOUS
  <2>2. found \in 0..(from - n) /\ found + 1 \in 0..(from - n) /\ found \in Nat
    OBVIOUS
  <2>3. f[n + 1][found] = IF buf[n + 1] \notin Newlines THEN f[n][found]
                          ELSE IF found + 1 = lines THEN n + 1
                          ELSE f[n][found + 1]
    BY <1>2, <2>1
  <2>4. TailAt(buf, lines, n, found, f[n][found])
    BY <1>4, <2>2
  <2>5. found + 1 < lines => TailAt(buf, lines, n, found + 1, f[n][found + 1])
    BY <1>4, <2>2
  <2>6. PICK r : r = f[n + 1][found]
    OBVIOUS
  <2>7. \/ buf[n + 1] \notin Newlines /\ TailAt(buf, lines, n, found, r)
        \/ buf[n + 1] \in Newlines /\ found + 1 = lines /\ r = n + 1
        \/ buf[n + 1] \in Newlines /\ TailAt(buf, lines, n, found + 1, r)
    BY <2>2, <2>3, <2>4, <2>5, <2>6
  <2>8. PICK m : m = n + 1 /\ m - 1 = n
    BY <2>1
  <2>9. TailAt(buf, lines, m, found, r)
    BY <2>1, <2>2, <2>7, <2>8, TailAtNext
  <2> QED
    BY <2>6, <2>8, <2>9
<1> HIDE DEF S
<1>5. from \in S
  BY <1>3, <1>4, InductionUpTo
<1>6. TailAt(buf, lines, from, 0, f[from][0])
  BY <1>5 DEF S
<1> QED
  BY <1>1, <1>6

(* Counting from another end. *)
LEMMA CountShifted ==
    ASSUME NEW buf, NEW s, NEW r \in Nat, NEW m \in Int,
           \A i \in 1..m : s[i] = buf[r + i]
    PROVE  CountIn(s, 1, m) = CountIn(buf, r + 1, r + m)
<1> DEFINE S == NewlinesIn(s, 1, m)
           T == NewlinesIn(buf, r + 1, r + m)
           f == [i \in S |-> r + i]
<1>1. ASSUME NEW i \in S PROVE r + i \in T
  BY DEF NewlinesIn
<1>2. ASSUME NEW t \in T PROVE t - r \in S /\ f[t - r] = t
  <2>1. t \in (r + 1)..(r + m) /\ buf[t] \in Newlines
    BY DEF NewlinesIn
  <2>2. t - r \in 1..m /\ r + (t - r) = t
    BY <2>1
  <2>3. t - r \in S
    BY <2>1, <2>2 DEF NewlinesIn
  <2> QED
    BY <2>2, <2>3
<1>3. \A i, j \in S : f[i] = f[j] => i = j
  BY DEF NewlinesIn
<1> HIDE DEF S, T
<1>4. f \in [S -> T]
  BY <1>1
<1>5. f \in Bijection(S, T)
  BY <1>2, <1>3, <1>4 DEF Bijection, Injection, Surjection, IsInjective
<1>6. ExistsBijection(S, T)
  BY <1>5 DEF ExistsBijection
<1>7. IsFiniteSet(S)
  BY CountType DEF S
<1>8. Cardinality(T) = Cardinality(S)
  BY <1>6, <1>7, FS_Bijection
<1> QED
  BY <1>8 DEF CountIn, S, T

(* More positions hold no fewer newlines. *)
LEMMA CountLess ==
    ASSUME NEW buf, NEW a \in Int, NEW b \in Int, NEW d \in Int, a <= b
    PROVE  CountIn(buf, b, d) <= CountIn(buf, a, d)
<1>1. NewlinesIn(buf, b, d) \in SUBSET NewlinesIn(buf, a, d)
  BY DEF NewlinesIn
<1>2. IsFiniteSet(NewlinesIn(buf, a, d))
  BY CountType
<1> QED
  BY <1>1, <1>2, FS_Subset DEF CountIn

(* One position more at the beginning, a newline. *)
LEMMA CountFirst ==
    ASSUME NEW buf, NEW a \in Int, NEW b \in Int, a <= b, buf[a] \in Newlines
    PROVE  CountIn(buf, a, b) = CountIn(buf, a + 1, b) + 1
<1>1. NewlinesIn(buf, a, b) = NewlinesIn(buf, a + 1, b) \cup {a} /\ a \notin NewlinesIn(buf, a + 1, b)
  BY DEF NewlinesIn
<1>2. IsFiniteSet(NewlinesIn(buf, a + 1, b))
  BY CountType
<1>3. Cardinality(NewlinesIn(buf, a + 1, b) \cup {a}) = Cardinality(NewlinesIn(buf, a + 1, b)) + 1
  BY <1>1, <1>2, FS_AddElement
<1> QED
  BY <1>1, <1>3 DEF CountIn

LEMMA SuffixIs ==
    ASSUME NEW X, NEW t \in Seq(X), NEW r \in 0..(Len(t) - 1)
    PROVE  LET s == SubSeq(t, r + 1, Len(t))
           IN  /\ s \in Seq(X) /\ Len(s) = Len(t) - r /\ s # <<>>
               /\ \A i \in 1..(Len(t) - r) : s[i] = t[r + i]
<1> DEFINE s == SubSeq(t, r + 1, Len(t))
<1>1. Len(t) \in Nat /\ r + 1 \in 1..(Len(t) + 1) /\ r \in Nat
  OBVIOUS
<1>2. s \in Seq(X) /\ Len(s) = Len(t) - r
  BY <1>1
<1>3. \A i \in 1..(Len(t) - r) : s[i] = t[(r + 1) + i - 1]
  BY <1>1
<1>4. \A i \in 1..(Len(t) - r) : (r + 1) + i - 1 = r + i
  BY <1>1
<1> HIDE DEF s
<1>5. s # <<>>
  BY <1>1, <1>2
<1> QED
  BY <1>2, <1>3, <1>4, <1>5 DEF s

(* However many bytes the tail is cut from, and whatever they are, it is the *)
(* last lines of them.                                                      *)
LEMMA TailIs ==
    ASSUME NEW X, NEW buf \in Seq(X), NEW lines \in Nat
    PROVE  IsTail(SubSeq(buf, tail_line_start(buf, lines) + 1, Len(buf)), buf, lines)
<1> DEFINE n == Len(buf)
           r == tail_line_start(buf, lines)
           s == SubSeq(buf, r + 1, n)
<1>1. n \in Nat
  OBVIOUS
<1>2. CASE lines = 0 \/ buf = <<>>
  <2>1. r = 0
    BY <1>2 DEF tail_line_start
  <2>2. SubSeq(buf, 1, n) = buf
    OBVIOUS
  <2>3. s = buf
    BY <2>1, <2>2
  <2>4. lines = 0 \/ (lines \in Nat /\ lines > 0 /\ LineCount(buf) = 0)
    BY <1>2 DEF LineCount
  <2>5. LineCount(s) = IF lines = 0 \/ LineCount(buf) < lines THEN LineCount(buf) ELSE lines
    BY <2>3, <2>4
  <2>6. s = SubSeq(buf, 0 + 1, n)
    BY <2>1
  <2> HIDE DEF s
  <2>7. n - Len(s) = 0
    BY <1>1, <2>3
  <2>8. s = SubSeq(buf, (n - Len(s)) + 1, n)
    BY <2>6, <2>7
  <2>9. n - Len(s) >= 0 /\ ~(n - Len(s) > 0)
    BY <2>7
  <2>10. IsTail(s, buf, lines)
    BY <2>5, <2>8, <2>9 DEF IsTail
  <2> QED
    BY <2>10 DEF s
<1>3. CASE lines # 0 /\ buf # <<>>
  <2> DEFINE from == IF buf[n] \in Newlines THEN n - 1 ELSE n
  <2>1. n > 0 /\ lines > 0
    BY <1>3
  <2>2. from \in Nat /\ r = ScanBack(buf, lines, from)
    BY <1>1, <1>3, <2>1 DEF tail_line_start
  <2>3. TailAt(buf, lines, from, 0, r)
    <3> HIDE DEF from, r
    <3> QED
      BY <2>1, <2>2, ScanCuts
  <2>4. r \in 0..(n - 1)
    BY <2>1, <2>3 DEF TailAt
  <2> HIDE DEF r
  <2>5. /\ s \in Seq(X) /\ Len(s) = n - r /\ s # <<>>
        /\ \A i \in 1..(n - r) : s[i] = buf[r + i]
    BY <2>4, SuffixIs
  <2>6. \A a \in 1..n : CountIn(buf, a, from) = CountIn(buf, a, n - 1)
    <3>1. CASE buf[n] \in Newlines
      BY <3>1
    <3>2. CASE buf[n] \notin Newlines
      <4>1. ASSUME NEW a \in 1..n PROVE CountIn(buf, a, n) = CountIn(buf, a, n - 1) + 0
        BY <3>2, CountMore
      <4>2. \A a \in 1..n : CountIn(buf, a, n - 1) \in Nat
        BY CountType
      <4> QED
        BY <3>2, <4>1, <4>2
    <3> QED
      BY <3>1, <3>2
  <2>7. LineCount(buf) = 1 + CountIn(buf, 1, n - 1)
    BY <1>3 DEF LineCount, CountIn, NewlinesIn
  <2>8. LineCount(s) = 1 + CountIn(buf, r + 1, n - 1)
    <3>1. LineCount(s) = 1 + CountIn(s, 1, (n - r) - 1)
      <4> HIDE DEF s
      <4> QED
        BY <2>5 DEF LineCount, CountIn, NewlinesIn
    <3>2. \A i \in 1..((n - r) - 1) : s[i] = buf[r + i]
      BY <2>4, <2>5
    <3>3. CountIn(s, 1, (n - r) - 1) = CountIn(buf, r + 1, r + ((n - r) - 1))
      <4>1. r \in Nat /\ (n - r) - 1 \in Int
        BY <1>1, <2>4
      <4> HIDE DEF s
      <4> QED
        BY <3>2, <4>1, CountShifted
    <3>4. r + ((n - r) - 1) = n - 1
      BY <1>1, <2>4
    <3> QED
      BY <3>1, <3>3, <3>4
  <2>9. /\ CountIn(buf, 1, n - 1) \in Nat /\ CountIn(buf, r + 1, n - 1) \in Nat
    BY <1>1, <2>4, CountType
  <2>10. r > 0 => buf[r] \in Newlines
    BY <2>3 DEF TailAt
  <2>11. LineCount(s) = IF LineCount(buf) < lines THEN LineCount(buf) ELSE lines
    <3>1. CASE r = 0
      <4>1. CountIn(buf, 1, n - 1) < lines
        BY <2>1, <2>3, <2>6, <2>9, <3>1 DEF TailAt
      <4>2. LineCount(s) = LineCount(buf)
        BY <2>7, <2>8, <3>1
      <4> QED
        BY <2>7, <2>9, <4>1, <4>2
    <3>2. CASE r > 0
      <4>1. CountIn(buf, r + 1, n - 1) = lines - 1
        <5>1. 0 + CountIn(buf, r + 1, from) = lines - 1
          BY <2>3, <3>2 DEF TailAt
        <5>2. r + 1 \in 1..n
          BY <2>4, <3>2
        <5> HIDE DEF from
        <5> QED
          BY <2>6, <2>9, <5>1, <5>2
      <4>2. CountIn(buf, r, n - 1) = CountIn(buf, r + 1, n - 1) + 1
        BY <1>1, <2>4, <2>10, <3>2, CountFirst
      <4>3. CountIn(buf, r, n - 1) <= CountIn(buf, 1, n - 1)
        BY <1>1, <2>4, <3>2, CountLess
      <4> QED
        BY <2>7, <2>8, <2>9, <4>1, <4>2, <4>3
    <3> QED
      BY <2>4, <3>1, <3>2
  <2>12. /\ n - Len(s) = r /\ r >= 0
    BY <1>1, <2>4, <2>5
  <2>13. s = SubSeq(buf, r + 1, n)
    OBVIOUS
  <2> HIDE DEF s
  <2> QED
    BY <1>3, <2>10, <2>11, <2>12, <2>13 DEF IsTail, s, r
<1> QED
  BY <1>2, <1>3

(* What the last bytes are taken from is the output's end. *)
LEMMA LastBytesType ==
    ASSUME NEW X, NEW out \in Seq(X), NEW bytes \in Nat
    PROVE  LastBytes(out, bytes) \in Seq(X)
BY DEF LastBytes

LEMMA PrintedIsTail ==
    ASSUME NEW X, NEW out \in Seq(X), NEW bytes \in Nat, NEW lines \in Nat
    PROVE  IsTail(Printed(out, bytes, lines), LastBytes(out, bytes), lines)
BY LastBytesType, TailIs DEF Printed

LEMMA TailIsCorrect == TailCorrect
<1>1. ASSUME NEW k \in 0..TailBound, NEW out \in [1..k -> {1, 2}] PROVE out \in Seq({1, 2})
  BY DEF TailBound
<1> QED
  BY <1>1, PrintedIsTail, SMTT(30) DEF TailCorrect, TailBound

(* Whatever a dump has collected, -N and -L print its last bytes and lines: *)
(* tail_line_start is right for outputs of every length.                    *)
THEOREM DumpsTail == Spec => []DumpTail
<1>1. TypeOK => DumpTail
  <2>. SUFFICES ASSUME TypeOK, NEW c \in Conn, NEW bytes \in 0..(HISTORY_CAP + 1),
                       NEW lines \in 0..(HISTORY_CAP + 1)
                PROVE  IsTail(Printed(seen[c], bytes, lines), LastBytes(seen[c], bytes), lines)
    BY TailIsCorrect DEF DumpTail
  <2>1. seen[c] \in Seq(Nat)
    BY DEF TypeOK, ClientTypeOK
  <2>2. bytes \in Nat /\ lines \in Nat
    OBVIOUS
  <2>. QED
    BY <2>1, <2>2, PrintedIsTail
<1>. QED
  BY <1>1, TypeCorrect, PTL
===============================================================================
