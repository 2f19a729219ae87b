--------------------------- MODULE LichServiceProofs ---------------------------
(***************************************************************************)
(* Proofs about LichSession and LichRefinement, for sessions whose queues  *)
(* can hold what is ever sent to one client: nobody who watches is left    *)
(* without MSG_EXIT if the drain deadline does not pass, and the session   *)
(* implements LichService.                                                 *)
(***************************************************************************)
EXTENDS LichStreamProofs, LichInputProofs, LichRefinement

(* A queue holds MSG_PID, MSG_EXIT, a header for every byte of output, and  *)
(* the output.                                                              *)
Queueable == SEND_QUEUE_CAP >= 2 * MaxOutput + 4

(* EXIT_DRAIN_DEADLINE does not pass. *)
Prompt == "slow" \notin Faults

(* c runs client_loop. *)
Watches(c) == Kind[c] \in {"attach", "readonly"}
Looping(c) == cpc[c] \in {"resize", "loop", "recv", "stdin"}
Leaving(c) == client[c].close_after_drain # "unset"
HasExit(ps) == \E i \in 1..Len(ps) : ps[i].typ = "EXIT"
Sized(ps) == \A i \in 1..Len(ps) : Len(ps[i].payload) <= MAX_PAYLOAD

(* What the replay has still to send to c. *)
Replayable(c) == IF Replaying(c) THEN Len(snap) ELSE 0

(* What is on its way to c is no longer than MSG_PID, MSG_EXIT when it was   *)
(* sent, and a header for every byte of output; and of output there is no   *)
(* more than was read from the pty.                                         *)
Light(c, ps) ==
    /\ Len(Wire(ps)) <= 2 * Len(Total(c, ps)) + (IF Leaving(c) THEN 4 ELSE 2)
    /\ Len(Total(c, ps)) + Replayable(c) <= consumed

Promised(c, ps) ==
    /\ Sized(ps)
    /\ cpc[c] = "pid" /\ srvSock[c] = "open" => ps # <<>> /\ Head(ps).typ = "PID"
    /\ srvSock[c] = "open" /\ Leaving(c) => HasExit(ps)
    /\ srvSock[c] = "closed" /\ Looping(c) => HasExit(ps)
    /\ srvSock[c] = "open" => Light(c, ps)

(* The server has left nothing unsent when it closed c. *)
Owed(c) == srvSock[c] = "closed" => Prompt

Wired(c) ==
    cliSock[c] = "open" /\ Watches(c) /\ Owed(c) =>
      \E ps \in Seq(Packet) : Carries(c, <<>>, ps) /\ Promised(c, ps)

(* read_client_packets is at work on c. *)
Reading(c) == pc \in {"handle", "replay"} /\ cur = c

(* What the server does to a client that watches, and where the client is. *)
Served(c) ==
    /\ (Prompt => client[c].close_after_drain # "late")
    /\ Watches(c) /\ cliSock[c] = "open" =>
         /\ ~client[c].disconnected
         /\ \A i \in 1..Len(Unread(c)) :
              Unread(c)[i].typ \in {"ATTACH", "RESIZE", "CONTENT"}
         /\ Replaying(c) => ~send_end
    /\ srvSock[c] \in {"none", "backlog"} /\ cliSock[c] = "open" => cpc[c] = "pid"
    /\ cpc[c] \in {"attach", "resize", "loop", "recv", "stdin"} => Watches(c)
    /\ cpc[c] \in {"dump", "dumping", "keys"} => ~Watches(c)
    /\ (Prompt => result[c] # "ioerror")
    /\ Reading(c) /\ saw_eof => cliSock[c] # "open"

(* The child writes at most MaxOutput bytes, and the server reads no more. *)
OutputBounded == consumed <= produced /\ produced <= MaxOutput

Fine(c) == Served(c) /\ Wired(c)

ExitInv == OutputBounded /\ (Queueable => \A c \in Conn : Fine(c))

-------------------------------------------------------------------------------
LEMMA TotalType ==
    ASSUME IndInv, NEW c \in Conn, NEW ps \in Seq(Packet)
    PROVE  /\ seen[c] \in Seq(Nat) /\ Shown(ps) \in Seq(Nat)
           /\ Total(c, ps) \in Seq(Nat) /\ Len(Total(c, ps)) \in Nat
           /\ Wire(ps) \in Seq(Cell) /\ Len(Wire(ps)) \in Nat
<1>1. seen[c] \in Seq(Nat) /\ Shown(ps) \in Seq(Nat) /\ Wire(ps) \in Seq(Cell)
  BY ConnTypes, WireType
<1>2. Total(c, ps) \in Seq(Nat)
  BY <1>1, ConcatProperties DEF Total
<1>. QED
  BY <1>1, <1>2, LenProperties

LEMMA ReplayableType ==
    ASSUME IndInv, NEW c \in Conn
    PROVE  Replayable(c) \in Nat
<1>1. snap \in Seq(Nat)
  BY DEF IndInv, TypeOK, ServerTypeOK
<1>. QED
  BY <1>1, LenProperties DEF Replayable

(* What is queued for c is on its way to it. *)
LEMMA QueueShort ==
    ASSUME IndInv, NEW c \in Conn, NEW ps \in Seq(Packet), Carries(c, <<>>, ps)
    PROVE  /\ Wire(ps) = OnTheWay(c)
           /\ Len(client[c].send_queue) \in Nat
           /\ Len(client[c].send_queue) <= Len(Wire(ps))
<1>. DEFINE a == rbuf[c]
            d == down[c]
            q == client[c].send_queue
<1>1. a \in Seq(Cell) /\ d \in Seq(Cell) /\ q \in Seq(Cell)
  BY ConnTypes
<1>2. OnTheWay(c) = (a \o d) \o q /\ Joins(Wire(ps), OnTheWay(c), <<>>)
  BY DEF OnTheWay, Carries
<1>. HIDE DEF a, d, q
<1>3. a \o d \in Seq(Cell) /\ (a \o d) \o q \in Seq(Cell)
      /\ Len((a \o d) \o q) = Len(a) + Len(d) + Len(q)
  <2>1. a \o d \in Seq(Cell) /\ Len(a \o d) = Len(a) + Len(d)
    BY <1>1, ConcatProperties
  <2>. QED
    BY <1>1, <2>1, ConcatProperties
<1>4. Wire(ps) = (a \o d) \o q
  BY <1>2, <1>3, ConcatEmptySeq DEF Joins
<1>5. Len(a) \in Nat /\ Len(d) \in Nat /\ Len(q) \in Nat
  BY <1>1, LenProperties
<1>6. Len(q) <= Len(a) + Len(d) + Len(q)
  BY <1>5
<1>7. Wire(ps) = OnTheWay(c) /\ Len(q) <= Len(Wire(ps))
  BY <1>2, <1>3, <1>4, <1>6
<1>. QED
  BY <1>5, <1>7 DEF q

(* Two ways to see packets in the same cells show the same bytes. *)
LEMMA SameTotal ==
    ASSUME IndInv, NEW c \in Conn, NEW ps \in Seq(Packet), NEW qs \in Seq(Packet),
           Wire(ps) = Wire(qs)
    PROVE  Total(c, ps) = Total(c, qs)
<1>1. ContentOf(Wire(ps)) = Shown(ps) /\ ContentOf(Wire(qs)) = Shown(qs)
  BY WireIsGood DEF WireGood
<1>. QED
  BY <1>1 DEF Total

(* A packet that fits beside what is on its way is queued. *)
LEMMA PacketFits ==
    ASSUME IndInv, NEW c \in Conn, NEW ps \in Seq(Packet), Carries(c, <<>>, ps),
           NEW p \in Packet, cliSock[c] = "open",
           Len(Wire(ps)) + 1 + Len(p.payload) <= SEND_QUEUE_CAP
    PROVE  send_packet_nonblocking(c, p).ok
<1>. DEFINE q == client[c].send_queue
            b == packet_bytes(p)
<1>1. q \in Seq(Cell) /\ b \in Seq(Cell) /\ Len(b) = 1 + Len(p.payload)
      /\ down[c] \in Seq(Cell) /\ Len(down[c]) <= SNDBUF
  BY ConnTypes, PacketBytesType
<1>2. Len(q) \in Nat /\ Len(q) <= Len(Wire(ps)) /\ Len(Wire(ps)) \in Nat
  BY QueueShort, TotalType
<1>3. Len(p.payload) \in Nat
  BY LenProperties DEF Packet
<1>4. ~Overflow(q, p)
  <2>. DEFINE w == Len(Wire(ps))
              k == Len(p.payload)
              n == Len(q)
  <2>1. n \in Nat /\ n <= w /\ w \in Nat /\ k \in Nat /\ w + 1 + k <= SEND_QUEUE_CAP
    BY <1>2, <1>3
  <2>2. Len(b) = 1 + k
    BY <1>1
  <2>. HIDE DEF w, k, n
  <2>3. ~(n + (1 + k) > SEND_QUEUE_CAP)
    BY <2>1, QueueCapAssumption
  <2>. QED
    BY <2>2, <2>3 DEF Overflow, n
<1>5. q \o b \in Seq(Cell)
  BY <1>1, ConcatProperties
<1>. DEFINE qb == q \o b
<1>6. send_packet_nonblocking(c, p) = try_flush_client(c, qb)
  BY <1>4 DEF send_packet_nonblocking
<1>7. qb \in Seq(Cell)
  BY <1>5
<1>. HIDE DEF qb
<1>8. try_flush_client(c, qb).ok
  BY <1>1, <1>7, FlushWire
<1>. QED
  BY <1>6, <1>8

(* What holds of some packets and of one more holds of all of them. *)
LEMMA SizedAppend ==
    ASSUME NEW ps \in Seq(Packet), NEW p \in Packet
    PROVE  /\ Sized(ps) /\ Len(p.payload) <= MAX_PAYLOAD => Sized(Append(ps, p))
           /\ HasExit(ps) \/ p.typ = "EXIT" => HasExit(Append(ps, p))
           /\ ps # <<>> => Append(ps, p) # <<>> /\ Head(Append(ps, p)) = Head(ps)
<1>. DEFINE qs == Append(ps, p)
            n == Len(ps)
<1>1. /\ qs \in Seq(Packet) /\ n \in Nat /\ Len(qs) = n + 1 /\ qs[n + 1] = p
      /\ \A i \in 1..n : qs[i] = ps[i]
      /\ ps # <<>> => qs # <<>> /\ Head(qs) = Head(ps)
  OBVIOUS
<1>. HIDE DEF qs, n
<1>2. 1..(n + 1) = 1..n \cup {n + 1}
  BY <1>1
<1>3. ASSUME Sized(ps), Len(p.payload) <= MAX_PAYLOAD PROVE Sized(qs)
  BY <1>1, <1>2, <1>3 DEF Sized, n
<1>4. ASSUME HasExit(ps) \/ p.typ = "EXIT" PROVE HasExit(qs)
  <2>1. CASE p.typ = "EXIT"
    <3>1. n + 1 \in 1..Len(qs) /\ qs[n + 1].typ = "EXIT"
      BY <1>1, <2>1
    <3>. QED
      BY <3>1 DEF HasExit
  <2>2. CASE HasExit(ps)
    BY <1>1, <1>2, <2>2 DEF HasExit, n
  <2>. QED
    BY <1>4, <2>1, <2>2
<1>. QED
  BY <1>1, <1>3, <1>4 DEF qs

LEMMA SizedTail ==
    ASSUME NEW ps \in Seq(Packet), ps # <<>>
    PROVE  /\ Sized(ps) => Sized(Tail(ps)) /\ Len(Head(ps).payload) <= MAX_PAYLOAD
           /\ HasExit(ps) => HasExit(Tail(ps)) \/ Head(ps).typ = "EXIT"
<1>. DEFINE qs == Tail(ps)
            n == Len(qs)
<1>1. /\ n \in Nat /\ Len(ps) = n + 1 /\ Head(ps) = ps[1] /\ 1 \in 1..Len(ps)
      /\ \A i \in 1..n : i + 1 \in 1..Len(ps) /\ qs[i] = ps[i + 1]
      /\ \A j \in 1..Len(ps) : j = 1 \/ (j - 1 \in 1..n /\ qs[j - 1] = ps[j])
  OBVIOUS
<1>. HIDE DEF qs
<1>2. Sized(ps) => Sized(qs) /\ Len(Head(ps).payload) <= MAX_PAYLOAD
  BY <1>1 DEF Sized
<1>3. ASSUME HasExit(ps) PROVE HasExit(qs) \/ Head(ps).typ = "EXIT"
  <2>1. PICK j \in 1..Len(ps) : ps[j].typ = "EXIT"
    BY <1>3 DEF HasExit
  <2>2. CASE j = 1
    BY <1>1, <2>1, <2>2
  <2>3. CASE j # 1
    <3>1. j - 1 \in 1..n /\ qs[j - 1].typ = "EXIT"
      BY <1>1, <2>1, <2>3
    <3>. QED
      BY <3>1 DEF HasExit
  <2>. QED
    BY <2>2, <2>3
<1>. QED
  BY <1>2, <1>3 DEF qs

-------------------------------------------------------------------------------
(* The cells of c stay, and the server does not begin to close c. *)
LEMMA WiredKept ==
    ASSUME IndInv, NEW c \in Conn, Wired(c),
           cliSock'[c] = "open" => cliSock[c] = "open",
           OnTheWay(c)' = OnTheWay(c), seen'[c] = seen[c],
           cpc'[c] = "pid" => cpc[c] = "pid",
           consumed' \in Nat, consumed <= consumed',
           srvSock'[c] = "open" =>
             /\ srvSock[c] = "open"
             /\ Leaving(c)' <=> Leaving(c)
             /\ Replayable(c)' <= Replayable(c) /\ Replayable(c)' \in Nat,
           srvSock[c] = "closed" => srvSock'[c] = "closed",
           srvSock'[c] = "closed" /\ Looping(c)' =>
             \/ srvSock[c] = "closed" /\ Looping(c)
             \/ srvSock[c] = "open" /\ Leaving(c)
             \/ cliSock[c] # "open"
    PROVE  Wired(c)'
<1>. SUFFICES ASSUME cliSock'[c] = "open", Watches(c), Owed(c)'
              PROVE  \E ps \in Seq(Packet) : Carries(c, <<>>, ps)' /\ Promised(c, ps)'
  BY DEF Wired, Watches
<1>1. PICK ps \in Seq(Packet) : Carries(c, <<>>, ps) /\ Promised(c, ps)
  <2>1. Owed(c)
    BY DEF Owed, Prompt
  <2>. QED
    BY <2>1 DEF Wired
<1>2. Wire(ps)' = Wire(ps) /\ Total(c, ps)' = Total(c, ps)
  BY DEF Wire, Total, Shown
<1>3. Carries(c, <<>>, ps)'
  BY <1>1, <1>2 DEF Carries, Joins
<1>4. ASSUME srvSock'[c] = "open" PROVE Light(c, ps)'
  <2>1. Light(c, ps)
    BY <1>1, <1>4 DEF Promised
  <2>2. Len(Total(c, ps)) \in Nat /\ consumed \in Nat /\ Replayable(c) \in Nat
    BY TotalType, ReplayableType, ConnTypes
  <2>3. Leaving(c)' <=> Leaving(c)
    BY <1>4
  <2>4. Len(Total(c, ps)') + Replayable(c)' <= consumed'
    BY <1>2, <1>4, <2>1, <2>2 DEF Light
  <2>5. Len(Wire(ps)') <= 2 * Len(Total(c, ps)') + (IF Leaving(c)' THEN 4 ELSE 2)
    BY <1>2, <2>1, <2>3 DEF Light
  <2>. QED
    BY <2>4, <2>5 DEF Light
<1>5. Promised(c, ps)'
  BY <1>1, <1>4 DEF Promised, Sized, HasExit
<1>. QED
  BY <1>3, <1>5

(* c reads the first packet on its way, which is not MSG_EXIT. *)
LEMMA WiredReceived ==
    ASSUME IndInv, NEW c \in Conn, Wired(c), Watches(c) /\ cliSock[c] = "open",
           UNCHANGED <<serverVars, ptyVars, cliSock, srvSock>>, Whole(c),
           NEW next, Received(c, next), next # "pid",
           \/ cpc[c] = "pid" /\ seen'[c] = seen[c]
           \/ cpc[c] # "pid" /\ seen'[c] = seen[c] \o BytesOf(RecvPacket(c))
                  /\ RecvPacket(c).typ # "EXIT",
           srvSock[c] = "closed" /\ next \in {"resize", "loop", "recv", "stdin"} => Looping(c)
    PROVE  Wired(c)'
<1>. SUFFICES ASSUME Owed(c) PROVE Wired(c)'
  BY DEF Wired, Owed, Prompt
<1>1. PICK ps \in Seq(Packet) : Carries(c, <<>>, ps) /\ Promised(c, ps)
  BY DEF Wired
<1>. DEFINE qs == Tail(ps)
            q == client[c].send_queue
            d == RecvRest(c)
<1>2. /\ ps # <<>> /\ RecvPacket(c) = Head(ps) /\ d \in Seq(Cell)
      /\ Joins(Wire(qs), d \o q, <<>>)
  <2>1. <<>> \in Seq(Cell)
    OBVIOUS
  <2>. QED
    BY <1>1, <2>1, RecvWire
<1>3. rbuf'[c] = <<>> /\ down'[c] = d /\ cpc'[c] = next /\ client' = client
  BY TableTypes DEF Received, serverVars
<1>4. qs \in Seq(Packet) /\ Head(ps) \in Packet
  BY <1>2, WireHead
<1>5. OnTheWay(c)' = d \o q
  <2>1. <<>> \o d = d
    BY <1>2, ConcatEmptySeq
  <2>. QED
    BY <1>3, <2>1 DEF OnTheWay
<1>6. Carries(c, <<>>, qs)'
  <2>1. Wire(qs)' = Wire(qs)
    BY DEF Wire
  <2>. QED
    BY <1>2, <1>5, <2>1 DEF Carries
<1>. DEFINE g == BytesOf(Head(ps))
            b == packet_bytes(Head(ps))
<1>7. /\ Joins(Shown(ps), g, Shown(qs)) /\ Shown(qs) \in Seq(Nat)
      /\ Joins(Wire(ps), b, Wire(qs)) /\ Wire(qs) \in Seq(Cell)
      /\ g \in Seq(Nat) /\ b \in Seq(Cell) /\ Len(b) = 1 + Len(Head(ps).payload)
  <2>1. Head(ps).payload \in Seq(Nat) /\ <<>> \in Seq(Nat)
    BY <1>4 DEF Packet
  <2>. QED
    BY <1>2, <1>4, <2>1, WireHead, WireType, PacketBytesType DEF BytesOf
<1>8. Sized(qs) /\ (HasExit(ps) => HasExit(qs) \/ Head(ps).typ = "EXIT")
  BY <1>1, <1>2, SizedTail DEF Promised
<1>9. cpc[c] = "pid" /\ srvSock[c] = "open" => Head(ps).typ = "PID"
  BY <1>1 DEF Promised
<1>10. ASSUME srvSock[c] = "open" PROVE Light(c, qs)'
  <2>1. Light(c, ps)
    BY <1>1, <1>10 DEF Promised
  <2>2. Total(c, qs)' = Total(c, ps)
    <3>1. seen'[c] = seen[c] \o g
      <4>1. CASE cpc[c] = "pid"
        <5>1. g = <<>> /\ seen[c] \o <<>> = seen[c]
          BY <1>9, <1>10, <4>1, ConnTypes, ConcatEmptySeq DEF BytesOf
        <5>. QED
          BY <4>1, <5>1
      <4>2. CASE cpc[c] # "pid"
        BY <1>2, <4>2
      <4>. QED
        BY <4>1, <4>2
    <3>2. Assoc(seen[c], g, Shown(qs))
      BY <1>7, ConnTypes, ConcatAssoc
    <3>3. Shown(qs)' = Shown(qs)
      BY DEF Shown
    <3>. HIDE DEF qs, g
    <3>. QED
      BY <1>7, <3>1, <3>2, <3>3 DEF Total, Joins, Assoc
  <2>3. Len(Wire(qs)) <= Len(Wire(ps)) /\ Len(Wire(qs)) \in Nat /\ Len(Wire(ps)) \in Nat
    <3>. HIDE DEF qs, b
    <3>1. Wire(ps) = b \o Wire(qs) /\ Len(b \o Wire(qs)) = Len(b) + Len(Wire(qs))
      BY <1>7, ConcatProperties DEF Joins
    <3>2. Len(b) \in Nat /\ Len(Wire(qs)) \in Nat
      BY <1>7, LenProperties
    <3>. DEFINE x == Len(b)
                y == Len(Wire(qs))
                z == Len(Wire(ps))
    <3>3. x \in Nat /\ y \in Nat /\ z = x + y
      BY <3>1, <3>2
    <3>. HIDE DEF x, y, z
    <3>4. y <= z /\ y \in Nat /\ z \in Nat
      BY <3>3
    <3>. QED
      BY <3>4 DEF y, z
  <2>4. UNCHANGED <<consumed, snap, pc, cur>>
    BY DEF serverVars, ptyVars
  <2>5. (Leaving(c)' <=> Leaving(c)) /\ Replayable(c)' = Replayable(c) /\ Wire(qs)' = Wire(qs)
    BY <1>3, <2>4 DEF Leaving, Replayable, Replaying, Wire
  <2>6. Len(Total(c, ps)) \in Nat
    BY TotalType
  <2>. HIDE DEF qs
  <2>7. Len(Wire(qs)') <= 2 * Len(Total(c, qs)') + (IF Leaving(c)' THEN 4 ELSE 2)
    BY <2>1, <2>2, <2>3, <2>5, <2>6 DEF Light
  <2>8. Len(Total(c, qs)') + Replayable(c)' <= consumed'
    BY <2>1, <2>2, <2>4, <2>5 DEF Light
  <2>. QED
    BY <2>7, <2>8 DEF Light
<1>11. srvSock[c] = "open" /\ Leaving(c) => HasExit(qs)
  BY <1>1, <1>2, <1>8, <1>9 DEF Promised
<1>12. srvSock[c] = "closed" /\ next \in {"resize", "loop", "recv", "stdin"} => HasExit(qs)
  BY <1>1, <1>2, <1>8 DEF Promised, Looping
<1>. HIDE DEF qs
<1>13. Promised(c, qs)'
  <2>1. Sized(qs)' /\ (HasExit(qs) => HasExit(qs)')
    BY <1>8 DEF Sized, HasExit
  <2>2. cpc'[c] # "pid"
    BY <1>3
  <2>3. srvSock' = srvSock /\ (Leaving(c)' <=> Leaving(c)) /\ (Looping(c)' <=> next \in {"resize", "loop", "recv", "stdin"})
    BY <1>3 DEF Leaving, Looping
  <2>. QED
    BY <1>10, <1>11, <1>12, <2>1, <2>2, <2>3 DEF Promised
<1>. QED
  BY <1>4, <1>6, <1>13 DEF Wired

(* The server has added a packet to what is on its way to c. *)
LEMMA WiredSent ==
    ASSUME IndInv, NEW c \in Conn, Wired(c), cliSock[c] = "open", Watches(c),
           srvSock[c] = "open", srvSock'[c] = "open",
           UNCHANGED <<seen, cpc>>, consumed' \in Nat,
           NEW p \in Packet, Len(p.payload) <= MAX_PAYLOAD,
           Joins(OnTheWay(c)', OnTheWay(c), packet_bytes(p)),
           \/ /\ p.typ = "CONTENT" /\ p.payload # <<>>
              /\ Leaving(c)' <=> Leaving(c)
              /\ Replayable(c)' \in Nat
              /\ Len(p.payload) + Replayable(c)' - Replayable(c) <= consumed' - consumed
           \/ /\ p.typ = "EXIT" /\ Len(p.payload) = 1
              /\ ~Leaving(c) /\ Leaving(c)'
              /\ Replayable(c)' = Replayable(c) /\ consumed' = consumed
    PROVE  Wired(c)'
<1>1. PICK ps \in Seq(Packet) : Carries(c, <<>>, ps) /\ Promised(c, ps)
  BY DEF Wired, Owed
<1>. DEFINE qs == Append(ps, p)
            b == packet_bytes(p)
            g == BytesOf(p)
<1>2. Carries(c, <<>>, qs)' /\ Joins(Total(c, qs)', Total(c, ps), g)
  <2>1. <<>> \in Seq(Cell)
    OBVIOUS
  <2>. QED
    BY <1>1, <2>1, CarriesAppend
<1>3. /\ qs \in Seq(Packet) /\ Joins(Wire(qs), Wire(ps), b)
      /\ b \in Seq(Cell) /\ Len(b) = 1 + Len(p.payload)
      /\ p.payload \in Seq(Nat) /\ Len(p.payload) \in Nat
  <2>1. p.payload \in Seq(Nat)
    BY DEF Packet
  <2>. QED
    BY <2>1, WireAppend, PacketBytesType, LenProperties
<1>4. Sized(qs) /\ (HasExit(ps) \/ p.typ = "EXIT" => HasExit(qs))
      /\ (ps # <<>> => qs # <<>> /\ Head(qs) = Head(ps))
  BY <1>1, SizedAppend DEF Promised
<1>. DEFINE w == Len(Wire(ps))
            s == Len(Total(c, ps))
            k == Len(p.payload)
<1>5. w \in Nat /\ s \in Nat /\ k \in Nat /\ consumed \in Nat /\ Replayable(c) \in Nat
  BY <1>3, TotalType, ReplayableType, ConnTypes
<1>6. Len(Wire(qs)) = w + 1 + k
  <2>1. Wire(qs) = Wire(ps) \o b /\ Len(Wire(ps) \o b) = Len(Wire(ps)) + Len(b)
    <3>1. Wire(ps) \in Seq(Cell)
      BY TotalType
    <3>. HIDE DEF qs, b
    <3>. QED
      BY <1>3, <3>1, ConcatProperties DEF Joins
  <2>2. Len(b) = 1 + k
    BY <1>3
  <2>. HIDE DEF b, k, qs
  <2>3. Len(Wire(qs)) = Len(Wire(ps)) + (1 + k)
    BY <2>1, <2>2
  <2>. QED
    BY <1>5, <2>3
<1>7. Len(Total(c, qs)') = s + Len(g) /\ g \in Seq(Nat) /\ Len(g) \in Nat
  <2>1. g \in Seq(Nat)
    <3>1. <<>> \in Seq(Nat)
      OBVIOUS
    <3>. QED
      BY <1>3, <3>1 DEF BytesOf
  <2>. HIDE DEF g, qs
  <2>2. Len(Total(c, ps) \o g) = Len(Total(c, ps)) + Len(g) /\ Len(g) \in Nat
    BY <2>1, TotalType, ConcatProperties
  <2>. QED
    BY <1>2, <2>1, <2>2 DEF Joins
<1>8. Light(c, ps)
  BY <1>1 DEF Promised
<1>9. Wire(qs)' = Wire(qs)
  BY DEF Wire
<1>. DEFINE v == Len(Wire(qs)')
            u == Len(Total(c, qs)')
            r == Replayable(c)
            rr == Replayable(c)'
<1>10. v = w + 1 + k
  BY <1>6, <1>9
<1>11. w <= 2 * s + (IF Leaving(c) THEN 4 ELSE 2) /\ s + r <= consumed
  BY <1>8 DEF Light
<1>12. Light(c, qs)'
  <2>. SUFFICES v <= 2 * u + (IF Leaving(c)' THEN 4 ELSE 2) /\ u + rr <= consumed'
    BY DEF Light
  <2>1. CASE p.typ = "CONTENT"
    <3>1. g = p.payload /\ p.payload # <<>>
      BY <2>1 DEF BytesOf
    <3>2. rr \in Nat /\ k + rr - r <= consumed' - consumed
      BY <2>1
    <3>3. k # 0 /\ u = s + k
      <4>1. k # 0
        BY <1>3, <3>1, EmptySeq
      <4>2. Len(g) = k
        BY <3>1
      <4>. HIDE DEF g, k, s, u
      <4>. QED
        BY <1>7, <4>1, <4>2 DEF s, u
    <3>4. Leaving(c)' <=> Leaving(c)
      BY <2>1
    <3>. HIDE DEF v, u, r, rr, w, s, k, g, qs, b
    <3>5. v <= 2 * u + (IF Leaving(c) THEN 4 ELSE 2)
      BY <1>5, <1>10, <1>11, <3>3
    <3>6. u + rr <= consumed'
      BY <1>5, <1>11, <3>2, <3>3 DEF r
    <3>. QED
      BY <3>4, <3>5, <3>6
  <2>2. CASE p.typ # "CONTENT"
    <3>1. g = <<>> /\ k = 1 /\ ~Leaving(c) /\ Leaving(c)' /\ rr = r /\ consumed' = consumed
      BY <2>2 DEF BytesOf
    <3>2. Len(g) = 0
      BY <3>1
    <3>3. u = s
      BY <1>5, <1>7, <3>2
    <3>. HIDE DEF v, u, r, rr, w, s, k, g, qs, b
    <3>4. v <= 2 * u + 4 /\ u + rr <= consumed'
      BY <1>5, <1>10, <1>11, <3>1, <3>3 DEF r
    <3>. QED
      BY <3>1, <3>4
  <2>. QED
    BY <2>1, <2>2
<1>. HIDE DEF qs
<1>13. Promised(c, qs)'
  <2>1. Sized(qs)' /\ (HasExit(qs) => HasExit(qs)')
    BY <1>4 DEF Sized, HasExit
  <2>2. Leaving(c)' => HasExit(qs)
    BY <1>1, <1>4 DEF Promised
  <2>3. cpc'[c] = "pid" => qs # <<>> /\ Head(qs).typ = "PID"
    BY <1>1, <1>4 DEF Promised
  <2>. QED
    BY <1>12, <2>1, <2>2, <2>3 DEF Promised
<1>. QED
  BY <1>2, <1>3, <1>13 DEF Wired

-------------------------------------------------------------------------------
(* A step that is none of c's business. *)
LEMMA FineStill ==
    ASSUME IndInv, NEW c \in Conn, Fine(c), Still(c), consumed' \in Nat, consumed <= consumed',
           Replaying(c)' <=> Replaying(c), Replaying(c) => UNCHANGED <<snap, send_end>>,
           Reading(c)' /\ saw_eof' => Reading(c) /\ saw_eof
    PROVE  Fine(c)'
<1>1. /\ UNCHANGED <<cliSock[c], srvSock[c], seen[c], cpc[c], result[c]>> /\ client'[c] = client[c]
      /\ OnTheWay(c)' = OnTheWay(c) /\ Unread(c)' = Unread(c)
  BY DEF Still, OnTheWay, Unread
<1>2. Replayable(c)' = Replayable(c) /\ Replayable(c) \in Nat
  BY ReplayableType DEF Replayable
<1>3. (Leaving(c)' <=> Leaving(c)) /\ (Looping(c)' <=> Looping(c))
  BY <1>1 DEF Leaving, Looping
<1>4. Wired(c)'
  BY <1>1, <1>2, <1>3, WiredKept DEF Fine
<1>5. Served(c)'
  BY <1>1 DEF Fine, Served, Watches
<1>. QED
  BY <1>4, <1>5 DEF Fine

LEMMA FineIdle ==
    ASSUME IndInv, NEW c \in Conn, Fine(c), UNCHANGED clientVars,
           \/ PollShutdown \/ AcceptDone \/ PtyDone \/ WaitPid \/ Shutdown
           \/ Child /\ UNCHANGED serverVars
    PROVE  Fine(c)'
<1>1. /\ UNCHANGED <<cliSock, srvSock, down, up, client, consumed, cur, snap, send_end, saw_eof>>
      /\ UNCHANGED <<rbuf, seen, cpc, result, code>>
  BY DEF PollShutdown, AcceptDone, PtyDone, WaitPid, Shutdown, Child, ChildWrite, ChildRead,
         ChildExit, kernelVars, sockVars, ptyVars, serverVars, clientVars
<1>2. pc' = pc \/ (pc' \notin {"replay", "handle"} /\ pc \notin {"replay", "handle"})
  <2>1. CASE PollShutdown \/ AcceptDone \/ PtyDone \/ WaitPid
    BY <2>1 DEF PollShutdown, AcceptDone, PtyDone, WaitPid
  <2>2. CASE Shutdown \/ UNCHANGED serverVars
    BY <2>2 DEF Shutdown, serverVars
  <2>. QED
    BY <2>1, <2>2
<1>3. Still(c) /\ consumed' \in Nat /\ consumed <= consumed'
  BY <1>1, ConnTypes DEF Still
<1>4. (Replaying(c)' <=> Replaying(c)) /\ (Reading(c)' /\ saw_eof' => Reading(c) /\ saw_eof)
  BY <1>1, <1>2 DEF Replaying, Reading
<1>. QED
  BY <1>1, <1>3, <1>4, FineStill

-------------------------------------------------------------------------------
(* The client's own steps. *)
LEMMA FineFinish ==
    ASSUME IndInv, NEW c \in Conn, Fine(c), NEW r, NEW left, Finish(c, r, left),
           UNCHANGED <<srvSock, serverVars>>, Prompt => r # "ioerror"
    PROVE  Fine(c)'
<1>1. cpc'[c] = "done" /\ result'[c] = r /\ cliSock'[c] \in {"closed", "reset"} /\ client' = client
  BY TableTypes DEF Finish, serverVars
<1>2. Served(c)'
  BY <1>1 DEF Fine, Served
<1>3. Wired(c)'
  BY <1>1 DEF Wired
<1>. QED
  BY <1>2, <1>3 DEF Fine

(* The first packet on its way to c, if the wire holds anything of it. *)
LEMMA FirstCell ==
    ASSUME IndInv, NEW c \in Conn, NEW ps \in Seq(Packet), Carries(c, <<>>, ps), ps # <<>>
    PROVE  /\ OnTheWay(c) # <<>>
           /\ Head(OnTheWay(c)).val = Len(Head(ps).payload)
           /\ Len(OnTheWay(c)) >= 1 + Head(OnTheWay(c)).val
           /\ OnTheWay(c) \in Seq(Cell)
<1>. DEFINE w == Wire(ps)
            b == packet_bytes(Head(ps))
            v == Wire(Tail(ps))
<1>1. OnTheWay(c) = w /\ w \in Seq(Cell)
  BY QueueShort, TotalType
<1>2. /\ Head(ps) \in Packet /\ Tail(ps) \in Seq(Packet) /\ Joins(w, b, v)
      /\ b \in Seq(Cell) /\ Len(b) = 1 + Len(Head(ps).payload) /\ b[1].val = Len(Head(ps).payload)
      /\ v \in Seq(Cell) /\ Len(Head(ps).payload) \in Nat
  <2>1. Head(ps) \in Packet /\ Tail(ps) \in Seq(Packet) /\ Joins(w, b, v)
    BY WireHead
  <2>2. Head(ps).payload \in Seq(Nat)
    BY <2>1 DEF Packet
  <2>. QED
    BY <2>1, <2>2, PacketBytesType, PacketCellsAt, WireType, LenProperties
<1>. DEFINE k == Len(Head(ps).payload)
<1>. HIDE DEF w, b, v, k
<1>3. Len(b) = 1 + k /\ k \in Nat /\ b[1].val = k
  BY <1>2 DEF k
<1>4. w = b \o v /\ Len(w) >= Len(b) /\ w[1] = b[1] /\ w # <<>>
  BY <1>2, <1>3 DEF Joins
<1>5. Head(w) = w[1]
  BY <1>1, <1>4
<1>. QED
  BY <1>1, <1>3, <1>4, <1>5 DEF k

(* client_loop never loses its connection. *)
LEMMA LoopNeverFails ==
    ASSUME Prompt, IndInv, NEW c \in Conn, Placed(c), Fine(c), RecvFail(c),
           cpc[c] \in {"loop", "recv"}
    PROVE  FALSE
<1>1. cliSock[c] = "open" /\ Watches(c) /\ Looping(c)
  BY DEF Placed, Fine, Served, Looping
<1>2. PICK ps \in Seq(Packet) : Carries(c, <<>>, ps) /\ Promised(c, ps)
  BY <1>1 DEF Fine, Wired, Owed
<1>. DEFINE a == rbuf[c]
            d == down[c]
            q == client[c].send_queue
            w == OnTheWay(c)
<1>3. a \in Seq(Cell) /\ d \in Seq(Cell) /\ q \in Seq(Cell) /\ w = (a \o d) \o q
  BY ConnTypes DEF OnTheWay
<1>4. CASE d = <<>>
  <2>1. srvSock[c] = "closed"
    BY <1>4 DEF RecvFail
  <2>2. HasExit(ps) /\ q = <<>>
    BY <1>1, <1>2, <2>1 DEF Promised, Placed, NewClient
  <2>3. ps # <<>>
    BY <2>2 DEF HasExit
  <2>4. w # <<>> /\ Len(w) >= 1 + Head(w).val /\ w \in Seq(Cell)
    BY <1>2, <2>3, FirstCell
  <2>5. a # <<>> => Len(a) <= Head(a).val
    BY DEF IndInv, SocketsInStep, ConnInStep
  <2>6. w = a
    <3>. HIDE DEF a, d, q, w
    <3>1. a \o <<>> = a
      BY <1>3, ConcatEmptySeq
    <3>. QED
      BY <1>3, <1>4, <2>2, <3>1
  <2>. HIDE DEF a, w
  <2>7. Len(a) <= Head(a).val /\ Len(a) >= 1 + Head(a).val /\ a \in Seq(Cell) /\ a # <<>>
    BY <2>4, <2>5, <2>6
  <2>8. Len(a) \in Nat /\ Head(a).val \in Nat
    <3>1. Head(a) \in Cell
      BY <2>7
    <3>. QED
      BY <2>7, <3>1 DEF Cell
  <2>. QED
    BY <2>7, <2>8
<1>5. CASE d # <<>>
  <2>1. Head(Pending(c)).val > MAX_PAYLOAD
    BY <1>5 DEF RecvFail, TooLarge
  <2>2. Pending(c) = a \o d
    BY DEF Pending
  <2>. HIDE DEF a, d, q
  <2>3. a \o d \in Seq(Cell) /\ a \o d # <<>> /\ w # <<>> /\ Head(w) = Head(a \o d)
    BY <1>3, <1>5
  <2>4. ps # <<>>
    <3>1. Wire(ps) = w
      BY <1>2, QueueShort
    <3>. QED
      BY <2>3, <3>1, WireEmpty
  <2>5. Head(w).val = Len(Head(ps).payload)
    BY <1>2, <2>4, FirstCell
  <2>6. Len(Head(ps).payload) <= MAX_PAYLOAD
    BY <1>2, <2>4, SizedTail DEF Promised
  <2>7. Len(Head(ps).payload) \in Nat /\ MAX_PAYLOAD \in Nat
    <3>1. Head(ps).payload \in Seq(Nat)
      BY <2>4, WireHead DEF Packet
    <3>. QED
      BY <3>1, LenProperties, BoundAssumption
  <2>. HIDE DEF w
  <2>8. Head(Pending(c)).val = Len(Head(ps).payload)
    BY <2>2, <2>3, <2>5
  <2>. QED
    BY <2>1, <2>6, <2>7, <2>8
<1>. QED
  BY <1>4, <1>5

(* c sends a packet, or finds its connection closed. *)
LEMMA FineSend ==
    ASSUME IndInv, NEW c \in Conn, Placed(c), Fine(c), NEW p \in Packet,
           NEW next \in {"resize", "loop", "dumping", "keys"}, SendOrFail(c, p, next),
           UNCHANGED <<srvSock, serverVars, ptyVars, seen, code>>,
           cpc[c] \notin {"start", "done"},
           \/ Watches(c) /\ p.typ \in {"ATTACH", "RESIZE", "CONTENT"} /\ next \in {"resize", "loop"}
           \/ ~Watches(c) /\ next \in {"dumping", "keys"},
           cpc[c] # "pid"
    PROVE  Fine(c)'
<1>1. CASE srvSock[c] = "closed"
  <2>1. Finish(c, "error", down[c])
    BY <1>1 DEF SendOrFail
  <2>. QED
    BY <2>1, FineFinish
<1>2. CASE srvSock[c] # "closed"
  <2>1. /\ up' = [up EXCEPT ![c] = Append(@, p)]
        /\ cpc' = [cpc EXCEPT ![c] = next]
        /\ UNCHANGED <<cliSock, down, rbuf, result>>
    BY <1>2 DEF SendOrFail
  <2>2. /\ up'[c] = Append(up[c], p) /\ cpc'[c] = next /\ client' = client /\ cliSock[c] = "open"
        /\ UNCHANGED <<consumed, pc, cur, snap, send_end, saw_eof>>
    BY <2>1, TableTypes DEF serverVars, ptyVars, Placed
  <2>3. OnTheWay(c)' = OnTheWay(c) /\ (Leaving(c)' <=> Leaving(c)) /\ Replayable(c)' = Replayable(c)
        /\ Replayable(c) \in Nat /\ consumed \in Nat
    BY <2>1, <2>2, ReplayableType, ConnTypes DEF OnTheWay, Leaving, Replayable, Replaying
  <2>4. Wired(c)'
    BY <1>2, <2>1, <2>2, <2>3, WiredKept DEF Fine
  <2>5. ASSUME Watches(c), NEW i \in 1..Len(Unread(c)') PROVE Unread(c)'[i].typ \in {"ATTACH", "RESIZE", "CONTENT"}
    <3>. DEFINE u == Unread(c)
    <3>1. client[c].buf \in Seq(Packet) /\ up[c] \in Seq(Packet)
      BY ConnTypes
    <3>2. u \in Seq(Packet) /\ Unread(c)' = Append(u, p)
      <4>1. AppendsAfter(client[c].buf, up[c], p)
        BY <3>1, ConcatAppend
      <4>2. u \in Seq(Packet)
        BY <3>1, ConcatProperties DEF Unread
      <4>3. Unread(c)' = Append(u, p)
        BY <2>2, <4>1 DEF Unread, AppendsAfter
      <4>. QED
        BY <4>2, <4>3
    <3>3. \A j \in 1..Len(u) : u[j].typ \in {"ATTACH", "RESIZE", "CONTENT"}
      BY <2>2, <2>5 DEF Fine, Served
    <3>. HIDE DEF u
    <3>4. (i \in 1..Len(u) /\ Append(u, p)[i] = u[i]) \/ Append(u, p)[i] = p
      BY <3>2, <2>5
    <3>. QED
      BY <2>5, <3>2, <3>3, <3>4
  <2>6. Served(c)'
    <3>1. srvSock[c] \notin {"none", "backlog"}
      BY <2>2 DEF Fine, Served
    <3>2. (Replaying(c)' <=> Replaying(c)) /\ (Reading(c)' <=> Reading(c)) /\ (Watches(c)' <=> Watches(c))
      BY <2>2 DEF Replaying, Reading, Watches
    <3>3. Watches(c) /\ cliSock'[c] = "open" =>
             /\ ~client'[c].disconnected
             /\ \A i \in 1..Len(Unread(c)') : Unread(c)'[i].typ \in {"ATTACH", "RESIZE", "CONTENT"}
             /\ Replaying(c)' => ~send_end'
      BY <2>2, <2>5, <3>2 DEF Fine, Served
    <3>4. /\ cpc'[c] \in {"attach", "resize", "loop", "recv", "stdin"} => Watches(c)
          /\ cpc'[c] \in {"dump", "dumping", "keys"} => ~Watches(c)
      BY <2>2
    <3>5. /\ (Prompt => client'[c].close_after_drain # "late") /\ (Prompt => result'[c] # "ioerror")
          /\ Reading(c)' /\ saw_eof' => cliSock'[c] # "open"
      BY <2>1, <2>2, <3>2 DEF Fine, Served
    <3>. QED
      BY <3>1, <3>2, <3>3, <3>4, <3>5 DEF Served
  <2>. QED
    BY <2>4, <2>6 DEF Fine
<1>. QED
  BY <1>1, <1>2

(* c reads a packet that does not end its program. *)
LEMMA FineReceived ==
    ASSUME IndInv, NEW c \in Conn, Placed(c), Fine(c), cpc[c] \notin {"start", "done"},
           UNCHANGED <<serverVars, ptyVars, cliSock, srvSock, up, result>>, Whole(c),
           NEW next \in {"attach", "dump", "keys", "stdin", "dumping"}, Received(c, next),
           \/ cpc[c] = "pid" /\ seen'[c] = seen[c] /\ next \in {"attach", "dump", "keys"}
           \/ cpc[c] # "pid" /\ seen'[c] = seen[c] \o BytesOf(RecvPacket(c))
                /\ (Watches(c) => RecvPacket(c).typ # "EXIT" /\ Looping(c)),
           next \in {"attach", "stdin"} <=> Watches(c)
    PROVE  Fine(c)'
<1>1. /\ cpc'[c] = next /\ client' = client /\ cliSock[c] = "open"
      /\ UNCHANGED <<pc, cur, snap, send_end, saw_eof>>
  BY TableTypes DEF Received, serverVars, Placed
<1>2. Wired(c)'
  <2>1. CASE ~Watches(c)
    BY <2>1 DEF Wired, Watches
  <2>2. CASE Watches(c)
    BY <1>1, <2>2, WiredReceived DEF Fine, Looping
  <2>. QED
    BY <2>1, <2>2
<1>3. Served(c)'
  <2>1. srvSock[c] \notin {"none", "backlog"}
    BY DEF Whole, IndInv, SocketsInStep, ConnInStep
  <2>2. /\ (Replaying(c)' <=> Replaying(c)) /\ (Reading(c)' <=> Reading(c))
        /\ (Watches(c)' <=> Watches(c)) /\ Unread(c)' = Unread(c)
    BY <1>1 DEF Replaying, Reading, Watches, Unread
  <2>. QED
    BY <1>1, <2>1, <2>2 DEF Fine, Served
<1>. QED
  BY <1>2, <1>3 DEF Fine

(* c moves on, and no cell and no packet with it. *)
LEMMA FineMove ==
    ASSUME IndInv, NEW c \in Conn, Placed(c), Fine(c),
           UNCHANGED <<cliSock[c], srvSock[c], up[c], serverVars, ptyVars>>,
           UNCHANGED <<seen[c], result[c]>>, OnTheWay(c)' = OnTheWay(c),
           \/ cpc'[c] = cpc[c]
           \/ cpc[c] \in {"loop", "recv", "stdin"} /\ cpc'[c] \in {"loop", "recv", "stdin"}
    PROVE  Fine(c)'
<1>1. /\ client' = client /\ UNCHANGED <<consumed, pc, cur, snap, send_end, saw_eof>>
      /\ consumed \in Nat /\ Replayable(c) \in Nat
  BY ConnTypes, ReplayableType DEF serverVars, ptyVars
<1>2. (Leaving(c)' <=> Leaving(c)) /\ Replayable(c)' = Replayable(c) /\ (Looping(c)' <=> Looping(c))
      /\ (Replaying(c)' <=> Replaying(c)) /\ (Reading(c)' <=> Reading(c))
      /\ (Watches(c)' <=> Watches(c)) /\ Unread(c)' = Unread(c)
  BY <1>1 DEF Leaving, Replayable, Replaying, Looping, Reading, Watches, Unread
<1>3. Wired(c)'
  BY <1>1, <1>2, WiredKept DEF Fine
<1>4. Served(c)'
  BY <1>1, <1>2 DEF Fine, Served
<1>. QED
  BY <1>3, <1>4 DEF Fine

LEMMA FineConnect ==
    ASSUME IndInv, NEW c \in Conn, Placed(c), Fine(c), Connect(c), UNCHANGED serverVars
    PROVE  Fine(c)'
<1>1. /\ cpc[c] = "start" /\ cpc'[c] = "pid" /\ cliSock'[c] = "open" /\ srvSock'[c] = "backlog"
      /\ UNCHANGED <<up, down, rbuf, seen, result>> /\ client' = client /\ UNCHANGED <<pc, cur>>
  BY TableTypes DEF Connect, serverVars
<1>2. srvSock[c] = "none" /\ down[c] = <<>> /\ ~Reading(c)
  BY <1>1 DEF IndInv, SocketsInStep, ConnInStep, Reading
<1>3. client[c] = NewClient /\ rbuf[c] = <<>> /\ up[c] = <<>>
  BY <1>1, <1>2 DEF Placed
<1>4. client[c].buf = <<>> /\ client[c].send_queue = <<>> /\ ~client[c].disconnected
      /\ client[c].close_after_drain = "unset"
  BY <1>3 DEF NewClient
<1>5. Carries(c, <<>>, <<>>)' /\ Unread(c)' = <<>> /\ Len(<<>>) = 0
  BY <1>1, <1>2, <1>3, <1>4, WireEmpty DEF Carries, Joins, OnTheWay, Wire, Unread
<1>6. Promised(c, <<>>)' /\ <<>> \in Seq(Packet)
  BY <1>1 DEF Promised, Sized
<1>7. Wired(c)'
  BY <1>5, <1>6 DEF Wired
<1>8. Served(c)'
  <2>1. ~Reading(c)' /\ ~Replaying(c)'
    BY <1>1, <1>2 DEF Reading, Replaying
  <2>. QED
    BY <1>1, <1>4, <1>5, <2>1 DEF Fine, Served
<1>. QED
  BY <1>7, <1>8 DEF Fine

LEMMA FineRecvPid ==
    ASSUME IndInv, NEW c \in Conn, Placed(c), Fine(c), RecvPid(c), UNCHANGED serverVars
    PROVE  Fine(c)'
<1>1. Kind[c] \in Kinds /\ cpc[c] = "pid" /\ Whole(c) /\ UNCHANGED <<ptyVars, seen>>
  BY ConnAssumption DEF RecvPid
<1>2. CASE Kind[c] = "probe"
  <2>1. PICK r \in {"ok", "error"} : Finish(c, r, RecvRest(c))
    BY <1>2 DEF RecvPid
  <2>2. UNCHANGED srvSock
    BY <1>2 DEF RecvPid
  <2>. QED
    BY <2>1, <2>2, FineFinish
<1>3. CASE Kind[c] # "probe"
  <2>1. PICK next \in {"attach", "dump", "keys"} :
           Received(c, next) /\ (next = "attach" <=> Watches(c))
    <3>1. CASE Kind[c] = "dump"
      BY <1>3, <3>1 DEF RecvPid, Watches
    <3>2. CASE Kind[c] = "keys"
      BY <1>3, <3>2 DEF RecvPid, Watches
    <3>3. CASE Watches(c)
      BY <1>3, <3>3 DEF RecvPid, Watches
    <3>. QED
      BY <1>1, <1>3, <3>1, <3>2, <3>3 DEF Kinds, Watches
  <2>2. UNCHANGED <<cliSock, srvSock, up, result>>
    BY <1>3 DEF RecvPid
  <2>3. next \in {"attach", "stdin"} <=> Watches(c)
    BY <2>1
  <2>. QED
    BY <1>1, <2>1, <2>2, <2>3, FineReceived
<1>. QED
  BY <1>2, <1>3

(* What c shows of a packet is its bytes of output. *)
LEMMA ShownBytes ==
    ASSUME IndInv, NEW c \in Conn,
           seen' = [seen EXCEPT ![c] = IF RecvPacket(c).typ = "CONTENT"
                                         THEN @ \o RecvPacket(c).payload ELSE @]
    PROVE  seen'[c] = seen[c] \o BytesOf(RecvPacket(c))
<1>1. seen[c] \o <<>> = seen[c]
  BY ConnTypes, ConcatEmptySeq
<1>. QED
  BY <1>1, TableTypes DEF BytesOf

LEMMA FineRecvShown ==
    ASSUME IndInv, NEW c \in Conn, Placed(c), Fine(c), RecvLoop(c) \/ RecvDump(c),
           UNCHANGED serverVars
    PROVE  Fine(c)'
<1>1. CASE RecvLoop(c)
  <2>1. /\ cpc[c] \in {"loop", "recv"} /\ Whole(c) /\ RecvPacket(c).typ # "EXIT"
        /\ Received(c, "stdin") /\ UNCHANGED <<cliSock, srvSock, up, ptyVars, result>>
    BY <1>1 DEF RecvLoop
  <2>2. seen'[c] = seen[c] \o BytesOf(RecvPacket(c))
    BY <1>1, ShownBytes DEF RecvLoop
  <2>3. Watches(c) /\ Looping(c)
    BY <2>1 DEF Fine, Served, Looping
  <2>. QED
    BY <2>1, <2>2, <2>3, FineReceived
<1>2. CASE RecvDump(c)
  <2>1. cpc[c] = "dumping" /\ Whole(c) /\ UNCHANGED <<srvSock, ptyVars>>
    BY <1>2 DEF RecvDump
  <2>2. ~Watches(c)
    BY <2>1 DEF Fine, Served
  <2>3. CASE RecvPacket(c).typ = "DUMP_END"
    <3>1. Finish(c, "ok", RecvRest(c))
      BY <1>2, <2>3 DEF RecvDump
    <3>. QED
      BY <2>1, <3>1, FineFinish
  <2>4. CASE RecvPacket(c).typ # "DUMP_END"
    <3>1. Received(c, "dumping") /\ UNCHANGED <<cliSock, srvSock, up, result>>
      BY <1>2, <2>4 DEF RecvDump
    <3>2. seen'[c] = seen[c] \o BytesOf(RecvPacket(c))
      BY <1>2, <2>4, ShownBytes DEF RecvDump
    <3>. QED
      BY <2>1, <2>2, <3>1, <3>2, FineReceived
  <2>. QED
    BY <2>3, <2>4
<1>. QED
  BY <1>1, <1>2

(* A step of c's own program or of its user. *)
LEMMA FineClient ==
    ASSUME IndInv, NEW c \in Conn, Placed(c), Fine(c),
           ClientRuns(c) \/ ClientUser(c), UNCHANGED serverVars
    PROVE  Fine(c)'
<1>1. CASE Connect(c)
  BY <1>1, FineConnect
<1>2. CASE ConnectRefused(c)
  <2>1. /\ cpc[c] = "start" /\ cpc'[c] = "done" /\ result'[c] = "error"
        /\ UNCHANGED <<cliSock, srvSock, up, client, pc, cur, saw_eof>> /\ cliSock[c] = "none"
    BY <1>2, TableTypes DEF ConnectRefused, kernelVars, sockVars, serverVars, Placed
  <2>. QED
    BY <2>1 DEF Fine, Served, Wired, Reading
<1>3. CASE RecvPart(c)
  <2>1. /\ rbuf'[c] = rbuf[c] \o down[c] /\ down'[c] = <<>>
        /\ cpc'[c] = IF cpc[c] = "loop" THEN "recv" ELSE cpc[c]
        /\ UNCHANGED <<cliSock, srvSock, up, ptyVars, seen, result, client>>
    BY <1>3, TableTypes DEF RecvPart, Pending, serverVars
  <2>2. OnTheWay(c)' = OnTheWay(c)
    <3>1. rbuf[c] \o down[c] \in Seq(Cell)
      BY ConnTypes, ConcatProperties
    <3>2. (rbuf[c] \o down[c]) \o <<>> = rbuf[c] \o down[c]
      BY <3>1, ConcatEmptySeq
    <3>. QED
      BY <2>1, <3>2 DEF OnTheWay
  <2>3. cpc'[c] = cpc[c] \/ (cpc[c] \in {"loop", "recv", "stdin"} /\ cpc'[c] \in {"loop", "recv", "stdin"})
    BY <2>1
  <2>. QED
    BY <2>1, <2>2, <2>3, FineMove
<1>4. CASE RecvFail(c)
  <2>1. Prompt => cpc[c] \notin {"loop", "recv"}
    BY <1>4, LoopNeverFails
  <2>2. PICK e \in {"error", "ioerror"} :
           Finish(c, e, down[c]) /\ (e = "ioerror" => cpc[c] \in {"loop", "recv"})
    BY <1>4 DEF RecvFail
  <2>3. UNCHANGED srvSock
    BY <1>4 DEF RecvFail
  <2>. QED
    BY <2>1, <2>2, <2>3, FineFinish
<1>5. CASE RecvPid(c)
  BY <1>5, FineRecvPid
<1>6. CASE RecvLoop(c) \/ RecvDump(c)
  BY <1>6, FineRecvShown
<1>7. CASE RecvExit(c)
  <2>1. Finish(c, "exited", RecvRest(c)) /\ UNCHANGED srvSock
    BY <1>7 DEF RecvExit
  <2>. QED
    BY <2>1, FineFinish
<1>8. CASE SendAttach(c)
  <2>. DEFINE p == [typ |-> "ATTACH", payload |-> <<flags(c)>>]
  <2>1. p \in Packet /\ p.typ = "ATTACH"
    BY DEF Packet, MsgType, flags
  <2>2. SendOrFail(c, p, "resize") /\ UNCHANGED <<srvSock, ptyVars, seen, code>> /\ cpc[c] = "attach"
    BY <1>8 DEF SendAttach
  <2>3. Watches(c)
    BY <2>2 DEF Fine, Served
  <2>. HIDE DEF p
  <2>. QED
    BY <2>1, <2>2, <2>3, FineSend
<1>9. CASE send_resize(c)
  <2>. DEFINE p == [typ |-> "RESIZE", payload |-> <<TermSize[c]>>]
  <2>1. p \in Packet /\ p.typ = "RESIZE"
    BY ConnAssumption DEF Packet, MsgType
  <2>2. SendOrFail(c, p, "loop") /\ UNCHANGED <<srvSock, ptyVars, seen, code>> /\ cpc[c] = "resize"
    BY <1>9 DEF send_resize
  <2>3. Watches(c)
    BY <2>2 DEF Fine, Served
  <2>. HIDE DEF p
  <2>. QED
    BY <2>1, <2>2, <2>3, FineSend
<1>10. CASE SendDump(c)
  <2>. DEFINE p == [typ |-> "DUMP", payload |-> <<>>]
  <2>1. p \in Packet
    BY DEF Packet, MsgType
  <2>2. SendOrFail(c, p, "dumping") /\ UNCHANGED <<srvSock, ptyVars, seen, code>> /\ cpc[c] = "dump"
    BY <1>10 DEF SendDump
  <2>3. ~Watches(c)
    BY <2>2 DEF Fine, Served
  <2>. HIDE DEF p
  <2>. QED
    BY <2>1, <2>2, <2>3, FineSend
<1>11. CASE SendKeys(c)
  <2>1. cpc[c] = "keys" /\ UNCHANGED <<srvSock, ptyVars, seen, code>>
    BY <1>11 DEF SendKeys
  <2>2. ~Watches(c)
    BY <2>1 DEF Fine, Served
  <2>3. CASE sent[c] = KEYS
    <3>1. Finish(c, "ok", down[c])
      BY <1>11, <2>3 DEF SendKeys
    <3>. QED
      BY <2>1, <3>1, FineFinish
  <2>4. CASE sent[c] # KEYS
    <3>. DEFINE n == MinOf(MAX_PAYLOAD, KEYS - sent[c])
                p == [typ |-> "SEND_KEYS", payload |-> [i \in 1..n |-> sent[c] + i]]
    <3>1. SendOrFail(c, p, "keys")
      BY <1>11, <2>4 DEF SendKeys
    <3>2. sent[c] \in Nat /\ KEYS \in Nat /\ sent[c] <= KEYS /\ MAX_PAYLOAD \in Nat
      BY TableTypes, BoundAssumption DEF IndInv, SocketsInStep, ConnInStep
    <3>3. n \in Nat
      BY <3>2 DEF MinOf
    <3>. HIDE DEF n
    <3>4. [i \in 1..n |-> sent[c] + i] \in Seq(Nat)
      BY <3>2, <3>3
    <3>5. p \in Packet
      BY <3>4 DEF Packet, MsgType
    <3>. HIDE DEF p
    <3>. QED
      BY <2>1, <2>2, <3>1, <3>5, FineSend
  <2>. QED
    BY <2>3, <2>4
<1>12. CASE StdinEmpty(c) \/ SelectStdin(c)
  <2>1. /\ cpc[c] \in {"stdin", "loop"} /\ cpc'[c] \in {"stdin", "loop"}
        /\ UNCHANGED <<cliSock, srvSock, up, down, ptyVars, rbuf, seen, result, client>>
    BY <1>12, TableTypes DEF StdinEmpty, SelectStdin, kernelVars, sockVars, serverVars
  <2>2. OnTheWay(c)' = OnTheWay(c)
    BY <2>1 DEF OnTheWay
  <2>. QED
    BY <2>1, <2>2, FineMove
<1>13. CASE StdinKey(c)
  <2>1. cpc[c] = "stdin" /\ UNCHANGED <<srvSock, ptyVars, seen, code>>
    BY <1>13 DEF StdinKey
  <2>2. CASE Kind[c] = "readonly"
    <3>1. cpc'[c] = "loop" /\ UNCHANGED <<up, cliSock, down, rbuf, result, client>>
      BY <1>13, <2>2, TableTypes DEF StdinKey, serverVars
    <3>2. OnTheWay(c)' = OnTheWay(c)
      BY <3>1 DEF OnTheWay
    <3>. QED
      BY <2>1, <3>1, <3>2, FineMove
  <2>3. CASE Kind[c] # "readonly"
    <3>. DEFINE p == [typ |-> "CONTENT", payload |-> <<sent[c] + 1>>]
    <3>1. SendOrFail(c, p, "loop")
      BY <1>13, <2>3 DEF StdinKey
    <3>2. p \in Packet /\ p.typ = "CONTENT"
      <4>1. sent[c] + 1 \in Nat
        BY TableTypes
      <4>. QED
        BY <4>1 DEF Packet, MsgType
    <3>3. Watches(c)
      BY <2>1 DEF Fine, Served
    <3>. HIDE DEF p
    <3>. QED
      BY <2>1, <3>1, <3>2, <3>3, FineSend
  <2>. QED
    BY <2>2, <2>3
<1>14. CASE StdinDetach(c) \/ StdinEof(c) \/ Killed(c)
  <2>1. PICK r \in {"error", "detached", "killed"} : Finish(c, r, down[c])
    BY <1>14 DEF StdinDetach, StdinEof, Killed
  <2>2. UNCHANGED srvSock
    BY <1>14 DEF StdinDetach, StdinEof, Killed
  <2>. QED
    BY <2>1, <2>2, FineFinish
<1>. QED
  BY <1>1, <1>2, <1>3, <1>4, <1>5, <1>6, <1>7, <1>8, <1>9, <1>10, <1>11, <1>12, <1>13, <1>14
  DEF ClientRuns, ClientUser

(* A step of another client. *)
LEMMA FineOther ==
    ASSUME IndInv, NEW d \in Conn, ClientRuns(d) \/ ClientUser(d), UNCHANGED serverVars,
           NEW c \in Conn, c # d, Fine(c)
    PROVE  Fine(c)'
<1>1. /\ UNCHANGED ptyVars
      /\ UNCHANGED <<cliSock[c], srvSock[c], rbuf[c], down[c], up[c]>>
      /\ UNCHANGED <<seen[c], cpc[c], result[c], code[c]>>
  BY OtherClient
<1>2. UNCHANGED <<client, consumed, pc, cur, snap, send_end, saw_eof>> /\ consumed \in Nat
  BY <1>1, ConnTypes DEF serverVars, ptyVars
<1>3. Still(c) /\ (Replaying(c)' <=> Replaying(c)) /\ (Reading(c)' <=> Reading(c))
  BY <1>1, <1>2 DEF Still, Replaying, Reading
<1>. QED
  BY <1>2, <1>3, FineStill

-------------------------------------------------------------------------------
(* The server's steps. *)
LEMMA ServedKept ==
    ASSUME NEW c \in Conn, Fine(c), UNCHANGED <<clientVars, cliSock>>,
           (Prompt => client'[c].close_after_drain # "late"),
           Watches(c) /\ cliSock[c] = "open" =>
             /\ ~client'[c].disconnected
             /\ \A i \in 1..Len(Unread(c)') :
                  Unread(c)'[i].typ \in {"ATTACH", "RESIZE", "CONTENT"}
             /\ Replaying(c)' => ~send_end',
           srvSock'[c] \in {"none", "backlog"} => srvSock[c] \in {"none", "backlog"},
           Reading(c)' /\ saw_eof' => cliSock[c] # "open"
    PROVE  Served(c)'
<1>1. UNCHANGED <<cpc, result>>
  BY DEF clientVars
<1>. QED
  BY <1>1 DEF Fine, Served, Watches

LEMMA FineAccept ==
    ASSUME IndInv, NEW c \in Conn, Placed(c), GoodWire(c), Fine(c), UNCHANGED clientVars,
           NEW d \in Conn, Placed(d), Accept(d) \/ AcceptDropped(d)
    PROVE  Fine(c)'
<1>. DEFINE p == [typ |-> "PID", payload |-> <<1>>]
<1>1. srvSock[d] = "backlog" /\ client[d] = NewClient /\ down[d] = <<>> /\ rbuf[d] = <<>>
  <2>1. srvSock[d] = "backlog"
    BY DEF Accept, AcceptDropped
  <2>. QED
    BY <2>1 DEF Placed, IndInv, SocketsInStep, ConnInStep
<1>2. /\ UNCHANGED <<cliSock, up, consumed, pc, cur, snap, send_end, saw_eof>>
      /\ UNCHANGED <<rbuf, seen, cpc, result, code>>
      /\ pc = "accept"
  BY DEF Accept, AcceptDropped, serverVars, ptyVars, clientVars
<1>3. client'[d] = client[d] /\ (c # d => client'[c] = client[c])
  BY <1>1, TableTypes DEF Accept, AcceptDropped, serverVars
<1>4. srvSock'[d] \in {"open", "closed"} /\ (c # d => srvSock'[c] = srvSock[c])
  BY TableTypes DEF Accept, AcceptDropped
<1>5. /\ c # d => down'[c] = down[c]
      /\ cliSock[d] = "open" => down'[d] = down[d] \o packet_bytes(p)
  BY TableTypes DEF Accept, AcceptDropped, SendPid
<1>6. consumed \in Nat /\ ~Replaying(c) /\ ~Replaying(c)' /\ ~Reading(c) /\ ~Reading(c)'
  BY <1>2, ConnTypes DEF Replaying, Reading
<1>7. CASE c # d
  <2>1. Still(c)
    BY <1>2, <1>3, <1>4, <1>5, <1>7 DEF Still
  <2>. QED
    BY <1>2, <1>6, <2>1, FineStill
<1>8. CASE c = d
  <2>1. client'[c] = NewClient /\ Unread(c)' = Unread(c)
    BY <1>1, <1>2, <1>3, <1>8 DEF Unread
  <2>2. ~client'[c].disconnected /\ client'[c].close_after_drain = "unset" /\ client'[c].send_queue = <<>>
    BY <2>1 DEF NewClient
  <2>3. Served(c)'
    <3>1. Watches(c) /\ cliSock[c] = "open" =>
             /\ ~client'[c].disconnected
             /\ \A i \in 1..Len(Unread(c)') :
                  Unread(c)'[i].typ \in {"ATTACH", "RESIZE", "CONTENT"}
             /\ Replaying(c)' => ~send_end'
      BY <1>6, <2>1, <2>2 DEF Fine, Served
    <3>. QED
      BY <1>1, <1>2, <1>6, <1>8, <2>2, <3>1, ServedKept
  <2>4. ASSUME cliSock[c] = "open" PROVE Wired(c)'
    <3>1. cpc[c] = "pid"
      BY <1>1, <1>8, <2>4 DEF Fine, Served
    <3>2. seen[c] = <<>>
      <4>1. PICK t \in Seq(Cell), ps \in Seq(Packet) : Carries(c, t, ps) /\ Good(c, ps)
        BY <2>4 DEF GoodWire
      <4>2. seen[c] \o Shown(ps) = <<>>
        BY <3>1, <4>1 DEF Good, Opened, Fresh, Total
      <4>3. seen[c] \in Seq(Nat) /\ Shown(ps) \in Seq(Nat)
        BY ConnTypes, WireType
      <4>4. Joins(<<>>, seen[c], Shown(ps))
        BY <4>2 DEF Joins
      <4>. QED
        BY <4>3, <4>4, EmptyParts
    <3>3. /\ p \in Packet /\ p.typ = "PID" /\ Len(p.payload) = 1
          /\ packet_bytes(p) \in Seq(Cell) /\ Len(packet_bytes(p)) = 2 /\ BytesOf(p) = <<>>
      <4>1. p \in Packet /\ p.typ = "PID" /\ p.payload = <<1>> /\ Len(p.payload) = 1
        BY DEF Packet, MsgType
      <4>2. BytesOf(p) = <<>>
        BY DEF BytesOf
      <4>. HIDE DEF p
      <4>3. packet_bytes(p) \in Seq(Cell) /\ Len(packet_bytes(p)) = 1 + Len(p.payload)
        BY <4>1, PacketBytesType
      <4>. QED
        BY <4>1, <4>2, <4>3
    <3>. DEFINE b == packet_bytes(p)
                qs == <<p>>
    <3>4. down'[c] = <<>> \o b /\ rbuf'[c] = <<>>
      BY <1>1, <1>2, <1>5, <1>8, <2>4
    <3>. HIDE DEF p
    <3>5. /\ qs \in Seq(Packet) /\ Head(qs) = p /\ qs # <<>> /\ Len(qs) = 1 /\ qs[1] = p
          /\ Wire(qs) = b /\ Shown(qs) = <<>>
      BY <3>3, WireOne
    <3>. HIDE DEF b, qs
    <3>6. b \in Seq(Cell) /\ Len(b) = 2
      BY <3>3 DEF b
    <3>7. <<>> \o b = b /\ b \o <<>> = b
      BY <3>6, ConcatEmptySeq
    <3>8. OnTheWay(c)' = b
      BY <2>2, <3>4, <3>7 DEF OnTheWay
    <3>9. Wire(qs)' = b /\ Total(c, qs)' = <<>> /\ Len(<<>>) = 0
      <4>1. Shown(qs)' = <<>> /\ Wire(qs)' = b
        BY <3>5 DEF Shown, Wire
      <4>2. seen'[c] = <<>> /\ <<>> \o <<>> = <<>>
        BY <1>2, <3>2
      <4>. QED
        BY <4>1, <4>2 DEF Total
    <3>10. Carries(c, <<>>, qs)'
      BY <3>7, <3>8, <3>9 DEF Carries, Joins
    <3>11. Promised(c, qs)'
      <4>1. Sized(qs)'
        <5>1. \A i \in 1..Len(qs) : qs[i] = p
          BY <3>5
        <5>2. Len(p.payload) <= MAX_PAYLOAD
          BY <3>3, BoundAssumption
        <5>. QED
          BY <5>1, <5>2 DEF Sized
      <4>2. ~Leaving(c)' /\ ~Looping(c)' /\ Replayable(c)' = 0
        BY <1>2, <1>6, <2>2, <3>1 DEF Leaving, Looping, Replayable
      <4>3. Light(c, qs)'
        <5>1. Len(Wire(qs)') = 2 /\ Len(Total(c, qs)') = 0
          BY <3>6, <3>9
        <5>. QED
          BY <1>2, <1>6, <4>2, <5>1 DEF Light
      <4>4. qs # <<>> /\ Head(qs).typ = "PID"
        BY <3>3, <3>5
      <4>. QED
        BY <4>1, <4>2, <4>3, <4>4 DEF Promised
    <3>. QED
      BY <3>5, <3>10, <3>11 DEF Wired
  <2>5. Wired(c)'
    BY <1>2, <2>4 DEF Wired
  <2>. QED
    BY <2>3, <2>5 DEF Fine
<1>. QED
  BY <1>7, <1>8

LEMMA FineReadClient ==
    ASSUME IndInv, NEW c \in Conn, Fine(c), UNCHANGED clientVars, NEW d \in Conn, ReadClient(d)
    PROVE  Fine(c)'
<1>1. /\ UNCHANGED <<cliSock, srvSock, down, consumed, snap, send_end>>
      /\ UNCHANGED <<rbuf, seen, cpc, result, code>>
      /\ pc = "read" /\ pc' # "replay"
  BY DEF ReadClient, ptyVars, clientVars
<1>2. consumed \in Nat /\ ~Replaying(c) /\ ~Replaying(c)' /\ ~Reading(c)
  BY <1>1, ConnTypes DEF Replaying, Reading
<1>3. CASE c # d
  <2>1. client'[c] = client[c] /\ up'[c] = up[c]
    BY <1>3, TableTypes DEF ReadClient
  <2>2. Still(c)
    BY <1>1, <2>1 DEF Still
  <2>3. ~Reading(c)'
    BY <1>1, <1>3 DEF ReadClient, Reading
  <2>. QED
    BY <1>1, <1>2, <2>2, <2>3, FineStill
<1>4. CASE c = d
  <2>1. client \in [Conn -> Client] /\ client[c] \in Client /\ up'[c] = <<>>
    BY <1>4, TableTypes DEF ReadClient
  <2>2. /\ client'[c].buf = client[c].buf \o up[c]
        /\ client'[c].send_queue = client[c].send_queue
        /\ client'[c].close_after_drain = client[c].close_after_drain
        /\ cliSock[c] = "open" => client'[c].disconnected = client[c].disconnected /\ ~saw_eof'
    <3>1. CASE cliSock[c] = "reset"
      <4>1. client' = [client EXCEPT ![c].buf = @ \o up[c], ![c].disconnected = TRUE]
        BY <1>4, <3>1 DEF ReadClient
      <4>. QED
        BY <2>1, <3>1, <4>1 DEF Client
    <3>2. CASE cliSock[c] # "reset"
      <4>1. /\ client' = [client EXCEPT ![c].buf = @ \o up[c]]
            /\ saw_eof' = (cliSock[c] = "closed")
        BY <1>4, <3>2 DEF ReadClient
      <4>. QED
        BY <2>1, <4>1 DEF Client
    <3>. QED
      BY <3>1, <3>2
  <2>3. Unread(c)' = Unread(c)
    <3>1. client[c].buf \o up[c] \in Seq(Packet)
      BY ConnTypes, ConcatProperties
    <3>2. (client[c].buf \o up[c]) \o <<>> = client[c].buf \o up[c]
      BY <3>1, ConcatEmptySeq
    <3>. QED
      BY <2>1, <2>2, <3>2 DEF Unread
  <2>4. Served(c)'
    <3>1. Watches(c) /\ cliSock[c] = "open" =>
             /\ ~client'[c].disconnected
             /\ \A i \in 1..Len(Unread(c)') :
                  Unread(c)'[i].typ \in {"ATTACH", "RESIZE", "CONTENT"}
             /\ Replaying(c)' => ~send_end'
      BY <1>2, <2>2, <2>3 DEF Fine, Served
    <3>2. (Prompt => client'[c].close_after_drain # "late")
      BY <2>2 DEF Fine, Served
    <3>. QED
      BY <1>1, <2>2, <3>1, <3>2, ServedKept
  <2>5. OnTheWay(c)' = OnTheWay(c)
    BY <1>1, <2>2 DEF OnTheWay
  <2>6. (Leaving(c)' <=> Leaving(c)) /\ (Looping(c)' <=> Looping(c))
        /\ Replayable(c)' = Replayable(c) /\ Replayable(c) \in Nat
    BY <1>1, <1>2, <2>2, ReplayableType DEF Leaving, Looping, Replayable
  <2>7. Wired(c)'
    BY <1>1, <1>2, <2>5, <2>6, WiredKept DEF Fine
  <2>. QED
    BY <2>4, <2>7 DEF Fine
<1>. QED
  BY <1>3, <1>4

(* The server takes the first packet of a client that watches. *)
LEMMA WatchedTail ==
    ASSUME IndInv, NEW c \in Conn, client[c].buf # <<>>,
           client'[c].buf = Tail(client[c].buf), up'[c] = up[c],
           \A i \in 1..Len(Unread(c)) : Unread(c)[i].typ \in {"ATTACH", "RESIZE", "CONTENT"}
    PROVE  /\ Head(client[c].buf).typ \in {"ATTACH", "RESIZE", "CONTENT"}
           /\ \A i \in 1..Len(Unread(c)') :
                Unread(c)'[i].typ \in {"ATTACH", "RESIZE", "CONTENT"}
<1>. DEFINE v == Unread(c)
<1>1. v \in Seq(Packet) /\ v # <<>> /\ v[1] = Head(client[c].buf) /\ Unread(c)' = Tail(v)
  BY UnreadTail
<1>2. 1 \in 1..Len(v) /\ \A i \in 1..Len(Tail(v)) : i + 1 \in 1..Len(v) /\ Tail(v)[i] = v[i + 1]
  BY <1>1
<1>3. \A i \in 1..Len(v) : v[i].typ \in {"ATTACH", "RESIZE", "CONTENT"}
  OBVIOUS
<1>. HIDE DEF v
<1>. QED
  BY <1>1, <1>2, <1>3

LEMMA FineHandle ==
    ASSUME IndInv, NEW c \in Conn, Fine(c), UNCHANGED clientVars,
           HandleInput \/ HandleResize \/ HandleDetach \/ EndClient
    PROVE  Fine(c)'
<1>1. /\ UNCHANGED <<cliSock, srvSock, up, down, consumed, snap, send_end>>
      /\ UNCHANGED <<rbuf, seen, cpc, result, code>>
      /\ pc = "handle" /\ pc' # "replay"
      /\ (~EndClient => UNCHANGED <<cur, saw_eof, pc>>) /\ (EndClient => ~saw_eof')
  BY DEF HandleInput, HandleResize, HandleDetach, EndClient, Popping, sockVars, kernelVars,
         ptyVars, clientVars
<1>2. /\ consumed \in Nat /\ cur \in Conn /\ srvSock[cur] = "open"
      /\ ~Replaying(c) /\ ~Replaying(c)'
  BY <1>1, ConnTypes DEF IndInv, SocketsInStep, Replaying
<1>3. Reading(c)' /\ saw_eof' => Reading(c) /\ saw_eof
  BY <1>1 DEF Reading
<1>4. CASE c # cur
  <2>1. client'[c] = client[c]
    BY <1>4, TableTypes DEF HandleInput, HandleResize, HandleDetach, EndClient
  <2>2. Still(c)
    BY <1>1, <2>1 DEF Still
  <2>. QED
    BY <1>1, <1>2, <1>3, <2>2, FineStill
<1>5. CASE c = cur
  <2>1. client \in [Conn -> Client] /\ client[c] \in Client
    BY TableTypes
  <2>2. /\ client'[c].send_queue = client[c].send_queue
        /\ client'[c].close_after_drain = client[c].close_after_drain
    <3>1. CASE HandleInput \/ HandleResize
      <4>1. client'[c] = [client[c] EXCEPT !.buf = Tail(@)]
        BY <1>5, <2>1, <3>1 DEF HandleInput, HandleResize, Popped
      <4>. QED
        BY <2>1, <4>1 DEF Client
    <3>2. CASE HandleDetach
      <4>1. client'[c] = [Popped EXCEPT !.disconnected = TRUE]
        BY <1>5, <2>1, <3>2 DEF HandleDetach
      <4>. QED
        BY <1>5, <2>1, <4>1 DEF Client, Popped
    <3>3. CASE EndClient
      <4>1. client' = [client EXCEPT ![c].disconnected = @ \/ saw_eof]
        BY <1>5, <3>3 DEF EndClient
      <4>. QED
        BY <2>1, <4>1 DEF Client
    <3>. QED
      BY <3>1, <3>2, <3>3
  <2>3. OnTheWay(c)' = OnTheWay(c)
    BY <1>1, <2>2 DEF OnTheWay
  <2>4. (Leaving(c)' <=> Leaving(c)) /\ (Looping(c)' <=> Looping(c))
        /\ Replayable(c)' = Replayable(c) /\ Replayable(c) \in Nat
    BY <1>1, <1>2, <2>2, ReplayableType DEF Leaving, Looping, Replayable
  <2>5. Wired(c)'
    BY <1>1, <1>2, <2>3, <2>4, WiredKept DEF Fine
  <2>6. ASSUME Watches(c), cliSock[c] = "open"
        PROVE  /\ ~client'[c].disconnected
               /\ \A i \in 1..Len(Unread(c)') :
                    Unread(c)'[i].typ \in {"ATTACH", "RESIZE", "CONTENT"}
    <3>1. /\ ~client[c].disconnected
          /\ \A i \in 1..Len(Unread(c)) : Unread(c)[i].typ \in {"ATTACH", "RESIZE", "CONTENT"}
      BY <2>6 DEF Fine, Served
    <3>2. CASE EndClient
      <4>1. client' = [client EXCEPT ![c].disconnected = @ \/ saw_eof]
        BY <1>5, <3>2 DEF EndClient
      <4>2. ~saw_eof
        BY <1>1, <1>5, <2>6 DEF Fine, Served, Reading
      <4>3. client'[c].disconnected = client[c].disconnected /\ client'[c].buf = client[c].buf
        BY <2>1, <4>1, <4>2 DEF Client
      <4>4. Unread(c)' = Unread(c)
        BY <1>1, <4>3 DEF Unread
      <4>. QED
        BY <3>1, <4>3, <4>4
    <3>3. CASE ~EndClient
      <4>1. client[c].buf # <<>>
        BY <1>5, <3>3 DEF HandleInput, HandleResize, HandleDetach, Popping
      <4>2. ~HandleDetach
        <5>1. ASSUME HandleDetach PROVE FALSE
          <6>1. client'[c] = [Popped EXCEPT !.disconnected = TRUE]
            BY <1>5, <2>1, <5>1 DEF HandleDetach
          <6>2. client'[c].buf = Tail(client[c].buf)
            BY <1>5, <2>1, <6>1 DEF Client, Popped
          <6>3. Head(client[c].buf).typ \in {"ATTACH", "RESIZE", "CONTENT"}
            BY <1>1, <3>1, <4>1, <6>2, WatchedTail
          <6>. QED
            BY <1>5, <5>1, <6>3 DEF HandleDetach, Popping
        <5>. QED
          BY <5>1
      <4>3. client'[c] = [client[c] EXCEPT !.buf = Tail(@)]
        BY <1>5, <2>1, <3>3, <4>2 DEF HandleInput, HandleResize, Popped
      <4>4. client'[c].buf = Tail(client[c].buf) /\ client'[c].disconnected = client[c].disconnected
        BY <2>1, <4>3 DEF Client
      <4>. QED
        BY <1>1, <3>1, <4>1, <4>4, WatchedTail
    <3>. QED
      BY <3>2, <3>3
  <2>7. Served(c)'
    <3>1. (Prompt => client'[c].close_after_drain # "late")
      BY <2>2 DEF Fine, Served
    <3>2. Reading(c)' /\ saw_eof' => cliSock[c] # "open"
      BY <1>3 DEF Fine, Served
    <3>. QED
      BY <1>1, <1>2, <2>6, <3>1, <3>2, ServedKept
  <2>. QED
    BY <2>5, <2>7 DEF Fine
<1>. QED
  BY <1>4, <1>5

(* MSG_ATTACH starts the replay; nothing of the history was sent before. *)
LEMMA FineOpen ==
    ASSUME IndInv, HistoryExact, NEW c \in Conn, GoodWire(c), Fine(c), UNCHANGED clientVars,
           HandleAttach \/ HandleDump
    PROVE  Fine(c)'
<1>1. /\ UNCHANGED <<cliSock, srvSock, up, down, consumed, cur, saw_eof>>
      /\ UNCHANGED <<rbuf, seen, cpc, result, code>>
      /\ pc = "handle" /\ pc' = "replay" /\ snap' = history
  BY DEF HandleAttach, HandleDump, Popping, sockVars, kernelVars, ptyVars, clientVars
<1>2. /\ consumed \in Nat /\ cur \in Conn /\ srvSock[cur] = "open"
      /\ (Reading(c)' <=> Reading(c))
  BY <1>1, ConnTypes DEF IndInv, SocketsInStep, Reading
<1>3. CASE c # cur
  <2>1. client'[c] = client[c]
    BY <1>3, TableTypes DEF HandleAttach, HandleDump
  <2>2. Still(c) /\ ~Replaying(c) /\ ~Replaying(c)'
    BY <1>1, <1>3, <2>1 DEF Still, Replaying
  <2>. QED
    BY <1>1, <1>2, <2>2, FineStill
<1>4. CASE c = cur
  <2>1. client \in [Conn -> Client] /\ client[c] \in Client
    BY TableTypes
  <2>2. /\ client'[c].send_queue = client[c].send_queue
        /\ client'[c].close_after_drain = client[c].close_after_drain
        /\ client'[c].disconnected = client[c].disconnected
        /\ client'[c].buf = Tail(client[c].buf) /\ client[c].buf # <<>>
        /\ HandleAttach => ~send_end'
    <3>1. CASE HandleAttach
      <4>1. client'[c] = [Popped EXCEPT !.attached = TRUE, !.flags = read_u32(front.payload)]
        BY <1>4, <2>1, <3>1 DEF HandleAttach
      <4>. QED
        BY <1>4, <2>1, <3>1, <4>1 DEF Client, Popped, HandleAttach, Popping
    <3>2. CASE HandleDump /\ ~HandleAttach
      <4>1. client'[c] = [client[c] EXCEPT !.buf = Tail(@)]
        BY <1>4, <2>1, <3>2 DEF HandleDump, Popped
      <4>. QED
        BY <1>4, <2>1, <3>2, <4>1 DEF Client, HandleDump, Popping
    <3>. QED
      BY <3>1, <3>2
  <2>3. ASSUME Watches(c), cliSock[c] = "open"
        PROVE  /\ HandleAttach
               /\ \A i \in 1..Len(Unread(c)') :
                    Unread(c)'[i].typ \in {"ATTACH", "RESIZE", "CONTENT"}
    <3>1. \A i \in 1..Len(Unread(c)) : Unread(c)[i].typ \in {"ATTACH", "RESIZE", "CONTENT"}
      BY <2>3 DEF Fine, Served
    <3>2. /\ Head(client[c].buf).typ \in {"ATTACH", "RESIZE", "CONTENT"}
          /\ \A i \in 1..Len(Unread(c)') :
               Unread(c)'[i].typ \in {"ATTACH", "RESIZE", "CONTENT"}
      BY <1>1, <2>2, <3>1, WatchedTail
    <3>. QED
      BY <1>4, <3>2 DEF HandleDump, Popping
  <2>4. Served(c)'
    <3>1. (Prompt => client'[c].close_after_drain # "late") /\ (Reading(c)' /\ saw_eof' => cliSock[c] # "open")
      BY <1>1, <1>2, <2>2 DEF Fine, Served
    <3>2. Watches(c) /\ cliSock[c] = "open" =>
             /\ ~client'[c].disconnected
             /\ \A i \in 1..Len(Unread(c)') :
                  Unread(c)'[i].typ \in {"ATTACH", "RESIZE", "CONTENT"}
             /\ Replaying(c)' => ~send_end'
      BY <2>2, <2>3 DEF Fine, Served
    <3>. QED
      BY <1>1, <3>1, <3>2, ServedKept
  <2>5. ASSUME Watches(c), cliSock[c] = "open" PROVE Wired(c)'
    <3>1. PICK ps \in Seq(Packet) : Carries(c, <<>>, ps) /\ Promised(c, ps)
      BY <1>2, <1>4, <2>5 DEF Fine, Wired, Owed
    <3>2. PICK t \in Seq(Cell), qs \in Seq(Packet) : Carries(c, t, qs) /\ Good(c, qs)
      BY <2>5 DEF GoodWire
    <3>3. Total(c, ps) = <<>>
      <4>1. srvSock[c] # "closed" /\ <<>> \in Seq(Cell)
        BY <1>2, <1>4
      <4>2. Wire(ps) = OnTheWay(c) /\ Wire(qs) = OnTheWay(c)
        BY <3>1, <3>2, <4>1, WholeWire
      <4>3. Total(c, ps) = Total(c, qs)
        BY <4>2, SameTotal
      <4>4. Unread(c)[1] = Head(client[c].buf) /\ 1 \in 1..Len(Unread(c))
        <5>1. Unread(c)[1] = Head(client[c].buf) /\ Unread(c) \in Seq(Packet) /\ Unread(c) # <<>>
          BY <1>1, <2>2, UnreadTail
        <5>. QED
          BY <5>1
      <4>5. Opening(Unread(c)[1])
        BY <1>4, <2>3, <2>5, <4>4 DEF HandleAttach, Popping, Opening
      <4>6. Fresh(c, qs)
        BY <3>2, <4>4, <4>5 DEF Good, Opened
      <4>. QED
        BY <4>3, <4>6 DEF Fresh
    <3>4. Len(history) \in Nat /\ Len(history) <= consumed
      <4>1. PICK k \in Nat : k <= consumed /\ Len(Newest(consumed)) = k
        BY <1>2, NewestType
      <4>. QED
        BY <4>1 DEF HistoryExact
    <3>5. /\ Wire(ps)' = Wire(ps) /\ Total(c, ps)' = <<>> /\ OnTheWay(c)' = OnTheWay(c)
          /\ (Leaving(c)' <=> Leaving(c)) /\ (Looping(c)' <=> Looping(c))
      BY <1>1, <2>2, <3>3 DEF Wire, Total, Shown, OnTheWay, Leaving, Looping
    <3>6. Carries(c, <<>>, ps)'
      BY <1>1, <3>1, <3>5 DEF Carries
    <3>7. Light(c, ps)'
      <4>1. Light(c, ps) /\ Replayable(c)' = Len(history) /\ Len(<<>>) = 0
        BY <1>1, <1>2, <1>4, <3>1 DEF Promised, Replayable, Replaying
      <4>. QED
        BY <1>1, <3>3, <3>4, <3>5, <4>1 DEF Light
    <3>8. Promised(c, ps)'
      BY <1>1, <3>1, <3>5, <3>7 DEF Promised, Sized, HasExit
    <3>. QED
      BY <3>6, <3>8 DEF Wired
  <2>6. Wired(c)'
    BY <1>1, <2>5 DEF Wired, Watches
  <2>. QED
    BY <2>4, <2>6 DEF Fine
<1>. QED
  BY <1>3, <1>4

(* There is room in c's queue for a packet the bound allows for. *)
LEMMA RoomFor ==
    ASSUME IndInv, NEW c \in Conn, Wired(c), cliSock[c] = "open", Watches(c),
           srvSock[c] = "open", NEW p \in Packet,
           2 * (consumed - Replayable(c)) + (IF Leaving(c) THEN 4 ELSE 2)
             + 1 + Len(p.payload) <= SEND_QUEUE_CAP
    PROVE  send_packet_nonblocking(c, p).ok
<1>1. PICK ps \in Seq(Packet) : Carries(c, <<>>, ps) /\ Promised(c, ps)
  BY DEF Wired, Owed
<1>2. Light(c, ps)
  BY <1>1 DEF Promised
<1>3. /\ Len(Wire(ps)) \in Nat /\ Len(Total(c, ps)) \in Nat /\ Replayable(c) \in Nat
      /\ consumed \in Nat /\ Len(p.payload) \in Nat
  BY TotalType, ReplayableType, ConnTypes, LenProperties DEF Packet
<1>. DEFINE w == Len(Wire(ps))
            s == Len(Total(c, ps))
            r == Replayable(c)
            k == Len(p.payload)
<1>4. w \in Nat /\ s \in Nat /\ r \in Nat /\ k \in Nat
  BY <1>3
<1>5. /\ w <= 2 * s + (IF Leaving(c) THEN 4 ELSE 2) /\ s + r <= consumed
      /\ 2 * (consumed - r) + (IF Leaving(c) THEN 4 ELSE 2) + 1 + k <= SEND_QUEUE_CAP
  BY <1>2 DEF Light
<1>6. w + 1 + k <= SEND_QUEUE_CAP
  <2>. HIDE DEF w, s, r, k
  <2>. QED
    BY <1>3, <1>4, <1>5, QueueCapAssumption
<1>. QED
  BY <1>1, <1>6, PacketFits

LEMMA FineReadPty ==
    ASSUME IndInv, OutputBounded, Queueable, NEW c \in Conn, Placed(c), Fine(c),
           UNCHANGED clientVars, NEW n \in 1..MAX_PAYLOAD, ReadPty(n)
    PROVE  Fine(c)'
<1>1. /\ UNCHANGED <<cliSock, srvSock, up, cur, snap, send_end, saw_eof, pc>>
      /\ UNCHANGED <<rbuf, seen, cpc, result, code>>
      /\ pc = "pty" /\ consumed' = consumed + n /\ n <= produced - consumed
  BY DEF ReadPty, clientVars
<1>2. /\ n \in Nat /\ n >= 1 /\ n <= MAX_PAYLOAD /\ MAX_PAYLOAD \in Nat /\ MaxOutput \in Nat
      /\ consumed \in Nat /\ consumed' \in Nat /\ consumed <= consumed' /\ produced \in Nat
      /\ ~Replaying(c) /\ ~Replaying(c)' /\ ~Reading(c) /\ ~Reading(c)'
  <2>1. produced \in Nat
    BY DEF IndInv, TypeOK, KernelTypeOK
  <2>. QED
    BY <1>1, <2>1, ConnTypes, BoundAssumption DEF Replaying, Reading
<1>. DEFINE b == [i \in 1..n |-> consumed + i]
            p == content(b)
            r == send_packet_nonblocking(c, p)
<1>3. client'[c] = (IF c \in clients /\ client[c].attached THEN SentOrDisconnect(c, r) ELSE client[c])
      /\ down'[c] = (IF c \in clients /\ client[c].attached THEN r.wire ELSE down[c])
  BY DEF ReadPty, broadcast_content, SendAll
<1>4. p \in Packet /\ p.typ = "CONTENT" /\ Len(p.payload) = n
  <2>1. b \in [1..n -> Nat] /\ Len(b) = n
    BY <1>2
  <2>. HIDE DEF b
  <2>2. b \in Seq(Nat)
    BY <1>2, <2>1, FunctionIsSeq
  <2>. QED
    BY <2>1, <2>2 DEF content, Packet, MsgType
<1>5. CASE ~(c \in clients /\ client[c].attached)
  <2>1. Still(c)
    BY <1>1, <1>3, <1>5 DEF Still
  <2>. QED
    BY <1>1, <1>2, <2>1, FineStill
<1>6. CASE c \in clients /\ client[c].attached
  <2>1. srvSock[c] = "open"
    BY <1>6 DEF IndInv, SocketsInStep
  <2>. HIDE DEF p, r
  <2>2. client'[c] = SentOrDisconnect(c, r) /\ down'[c] = r.wire /\ client[c] \in Client
    BY <1>3, <1>6, TableTypes
  <2>3. /\ client'[c].close_after_drain = client[c].close_after_drain
        /\ client'[c].buf = client[c].buf
        /\ client'[c].send_queue = r.queue
        /\ client'[c].disconnected <=> client[c].disconnected \/ ~r.ok
    BY <2>2 DEF SentOrDisconnect, Client
  <2>4. Unread(c)' = Unread(c) /\ Replayable(c) = 0 /\ Replayable(c)' = 0 /\ (Leaving(c)' <=> Leaving(c))
    BY <1>1, <1>2, <2>3 DEF Unread, Replayable, Leaving
  <2>5. ASSUME cliSock[c] = "open", Watches(c) PROVE r.ok
    <3>1. 2 * (consumed - Replayable(c)) + (IF Leaving(c) THEN 4 ELSE 2) + 1 + Len(p.payload)
            <= SEND_QUEUE_CAP
      BY <1>1, <1>2, <1>4, <2>4, QueueCapAssumption DEF OutputBounded, Queueable
    <3>. QED
      BY <1>4, <2>1, <2>5, <3>1, RoomFor DEF Fine, r
  <2>6. Served(c)'
    <3>1. (Prompt => client'[c].close_after_drain # "late")
      BY <2>3 DEF Fine, Served
    <3>2. Watches(c) /\ cliSock[c] = "open" =>
             /\ ~client'[c].disconnected
             /\ \A i \in 1..Len(Unread(c)') :
                  Unread(c)'[i].typ \in {"ATTACH", "RESIZE", "CONTENT"}
             /\ Replaying(c)' => ~send_end'
      BY <1>2, <2>3, <2>4, <2>5 DEF Fine, Served
    <3>. QED
      BY <1>1, <1>2, <3>1, <3>2, ServedKept
  <2>7. ASSUME cliSock[c] = "open", Watches(c) PROVE Wired(c)'
    <3>1. Joins(OnTheWay(c)', OnTheWay(c), packet_bytes(p))
      <4>1. OnTheWay(c)' = rbuf[c] \o r.wire \o r.queue
        BY <1>1, <2>2, <2>3 DEF OnTheWay
      <4>2. Joins(rbuf[c] \o r.wire \o r.queue, OnTheWay(c), packet_bytes(p))
        BY <1>4, <2>5, <2>7, SendFacts DEF r
      <4>. QED
        BY <4>1, <4>2
    <3>2. p.payload # <<>>
      BY <1>2, <1>4
    <3>3. Len(p.payload) + Replayable(c)' - Replayable(c) <= consumed' - consumed
      BY <1>1, <1>2, <1>4, <2>4
    <3>. QED
      BY <1>1, <1>2, <1>4, <2>1, <2>4, <2>7, <3>1, <3>2, <3>3, WiredSent DEF Fine
  <2>8. Wired(c)'
    BY <1>1, <2>7 DEF Wired, Watches
  <2>. QED
    BY <2>6, <2>8 DEF Fine
<1>. QED
  BY <1>5, <1>6

(* A chunk of the replay is sent; for a client that watches none fails.     *)
LEMMA FineChunk ==
    ASSUME IndInv, OutputBounded, Queueable, NEW c \in Conn, Fine(c), UNCHANGED clientVars,
           ReplayChunk \/ ReplayFail, c = cur
    PROVE  Fine(c)'
<1>1. /\ UNCHANGED <<cliSock, srvSock, up, consumed, cur, saw_eof>>
      /\ UNCHANGED <<rbuf, seen, cpc, result, code>>
      /\ pc = "replay" /\ snap # <<>>
  BY DEF ReplayChunk, ReplayFail, ptyVars, clientVars
<1>2. /\ consumed \in Nat /\ consumed <= MaxOutput /\ MaxOutput \in Nat
      /\ srvSock[c] = "open" /\ client[c] \in Client /\ snap \in Seq(Nat)
      /\ MAX_PAYLOAD \in Nat \ {0} /\ Len(snap) \in Nat
  <2>1. produced \in Nat /\ snap \in Seq(Nat)
    BY DEF IndInv, TypeOK, KernelTypeOK, ServerTypeOK
  <2>2. consumed <= MaxOutput
    BY <2>1, ConnTypes, BoundAssumption DEF OutputBounded
  <2>3. srvSock[c] = "open"
    BY <1>1 DEF IndInv, SocketsInStep
  <2>. QED
    BY <2>1, <2>2, <2>3, TableTypes, ConnTypes, BoundAssumption, LenProperties
<1>. DEFINE p == content(chunk)
            r == send_packet_nonblocking(c, p)
            k == Len(chunk)
<1>3. /\ p \in Packet /\ p.typ = "CONTENT" /\ p.payload = chunk
      /\ k \in Nat /\ 1 <= k /\ k <= MAX_PAYLOAD /\ k <= Len(snap)
      /\ Drop(snap, k) \in Seq(Nat) /\ Len(Drop(snap, k)) = Len(snap) - k
  <2>1. chunk \in Seq(Nat) /\ Drop(snap, k) \in Seq(Nat) /\ Joins(snap, chunk, Drop(snap, k))
    BY <1>2, ChunkCuts
  <2>2. p \in Packet /\ p.typ = "CONTENT" /\ p.payload = chunk
    BY <2>1 DEF content, Packet, MsgType
  <2>3. Len(snap) # 0
    BY <1>1, <1>2, EmptySeq
  <2>4. k = MinOf(MAX_PAYLOAD, Len(snap))
    <3>1. MinOf(MAX_PAYLOAD, Len(snap)) \in 0..Len(snap)
      BY <1>2 DEF MinOf
    <3>. DEFINE m == MinOf(MAX_PAYLOAD, Len(snap))
    <3>. HIDE DEF m
    <3>2. m \in 0..Len(snap) /\ chunk = Take(snap, m)
      BY <3>1 DEF m, chunk
    <3>3. Len(chunk) = m
      BY <1>2, <3>2, TakeDropType
    <3>. QED
      BY <3>3 DEF m
  <2>5. k \in Nat /\ 1 <= k /\ k <= MAX_PAYLOAD /\ k <= Len(snap)
    BY <1>2, <2>3, <2>4 DEF MinOf
  <2>6. Len(Drop(snap, k)) = Len(snap) - k
    <3>. HIDE DEF k
    <3>1. k \in 0..Len(snap)
      BY <1>2, <2>5
    <3>. QED
      BY <1>2, <3>1, TakeDropType
  <2>. QED
    BY <2>1, <2>2, <2>5, <2>6
<1>4. Replaying(c) /\ Replayable(c) = Len(snap)
  BY <1>1 DEF Replaying, Replayable
<1>. HIDE DEF p, k
<1>5. ASSUME cliSock[c] = "open", Watches(c) PROVE r.ok
  <2>1. 2 * (consumed - Replayable(c)) + (IF Leaving(c) THEN 4 ELSE 2) + 1 + Len(p.payload)
          <= SEND_QUEUE_CAP
    <3>1. Len(p.payload) = k
      BY <1>3 DEF k
    <3>. DEFINE z == Len(snap)
    <3>2. z \in Nat /\ k \in Nat /\ 1 <= k /\ k <= z /\ Replayable(c) = z
      BY <1>2, <1>3, <1>4
    <3>. HIDE DEF z
    <3>. QED
      BY <1>2, <3>1, <3>2, QueueCapAssumption DEF Queueable
  <2>. QED
    BY <1>2, <1>3, <1>5, <2>1, RoomFor DEF Fine
<1>6. /\ (Prompt => client'[c].close_after_drain # "late")
      /\ client'[c].buf = client[c].buf
  <2>1. (Prompt => client[c].close_after_drain # "late")
    BY DEF Fine, Served
  <2>2. CASE ReplayChunk
    <3>1. client'[c] = SentOrDisconnect(c, r)
      BY <2>2 DEF ReplayChunk, SendAll, p
    <3>. HIDE DEF r
    <3>. QED
      BY <1>2, <2>1, <3>1 DEF SentOrDisconnect, Client
  <2>3. CASE ReplayFail
    <3>1. client'[c] = [Replayed(c, r) EXCEPT !.disconnected = TRUE]
      BY <2>3 DEF ReplayFail, SendAll, p
    <3>. HIDE DEF r
    <3>2. CASE send_end
      BY <1>2, <2>1, <3>1, <3>2 DEF Replayed, SentThenClose, Client, Deadline
    <3>3. CASE ~send_end
      BY <1>2, <2>1, <3>1, <3>3 DEF Replayed, Client
    <3>. QED
      BY <3>2, <3>3
  <2>. QED
    BY <2>2, <2>3
<1>7. Unread(c)' = Unread(c)
  BY <1>1, <1>6 DEF Unread
<1>8. pc' \in {"replay", "handle"} /\ (Replaying(c)' => send_end' = send_end) /\ Reading(c)
  BY <1>1 DEF ReplayChunk, ReplayFail, Replaying, Reading
<1>9. ASSUME cliSock[c] = "open", Watches(c)
      PROVE  /\ ReplayChunk
             /\ client'[c] = SentOrDisconnect(c, r) /\ down'[c] = r.wire
             /\ client'[c].send_queue = r.queue
             /\ client'[c].disconnected = client[c].disconnected
             /\ client'[c].close_after_drain = client[c].close_after_drain
             /\ snap' = Drop(snap, k)
  <2>1. r.ok
    BY <1>5, <1>9
  <2>2. ReplayChunk
    BY <2>1 DEF ReplayFail, p
  <2>3. client'[c] = SentOrDisconnect(c, r) /\ down'[c] = r.wire /\ snap' = Drop(snap, k)
    BY <2>2 DEF ReplayChunk, SendAll, p, k
  <2>. HIDE DEF r
  <2>4. /\ client'[c].send_queue = r.queue
        /\ client'[c].disconnected = client[c].disconnected
        /\ client'[c].close_after_drain = client[c].close_after_drain
    BY <1>2, <2>1, <2>3 DEF SentOrDisconnect, Client
  <2>. QED
    BY <2>2, <2>3, <2>4
<1>10. Served(c)'
  <2>1. Watches(c) /\ cliSock[c] = "open" =>
             /\ ~client'[c].disconnected
             /\ \A i \in 1..Len(Unread(c)') :
                  Unread(c)'[i].typ \in {"ATTACH", "RESIZE", "CONTENT"}
             /\ Replaying(c)' => ~send_end'
    BY <1>4, <1>7, <1>8, <1>9 DEF Fine, Served
  <2>2. Reading(c)' /\ saw_eof' => cliSock[c] # "open"
    BY <1>1, <1>8 DEF Fine, Served
  <2>. QED
    BY <1>1, <1>6, <2>1, <2>2, ServedKept
<1>11. ASSUME cliSock[c] = "open", Watches(c) PROVE Wired(c)'
  <2>1. Joins(OnTheWay(c)', OnTheWay(c), packet_bytes(p))
    <3>1. OnTheWay(c)' = rbuf[c] \o r.wire \o r.queue
      BY <1>1, <1>9, <1>11 DEF OnTheWay
    <3>2. Joins(rbuf[c] \o r.wire \o r.queue, OnTheWay(c), packet_bytes(p))
      BY <1>3, <1>5, <1>11, SendFacts
    <3>. QED
      BY <3>1, <3>2
  <2>2. p.payload # <<>> /\ Len(p.payload) = k
    BY <1>3 DEF k
  <2>3. Leaving(c)' <=> Leaving(c)
    BY <1>9, <1>11 DEF Leaving
  <2>4. Replayable(c)' = Len(snap) - k
    <3>1. Replaying(c)' /\ Len(snap') = Len(snap) - k
      BY <1>1, <1>3, <1>9, <1>11 DEF Replaying, ReplayChunk
    <3>. QED
      BY <3>1 DEF Replayable
  <2>5. /\ Replayable(c)' \in Nat
        /\ Len(p.payload) + Replayable(c)' - Replayable(c) <= consumed' - consumed
    BY <1>1, <1>2, <1>3, <1>4, <2>2, <2>4
  <2>. QED
    BY <1>1, <1>2, <1>3, <1>11, <2>1, <2>2, <2>3, <2>5, WiredSent DEF Fine
<1>12. Wired(c)'
  BY <1>1, <1>11 DEF Wired, Watches
<1>. QED
  BY <1>10, <1>12 DEF Fine

LEMMA FineReplayEnd ==
    ASSUME IndInv, NEW c \in Conn, Fine(c), UNCHANGED clientVars, ReplayEnd, c = cur
    PROVE  Fine(c)'
<1>1. /\ UNCHANGED <<cliSock, srvSock, up, consumed, cur, saw_eof, snap>>
      /\ UNCHANGED <<rbuf, seen, cpc, result, code>>
      /\ pc = "replay" /\ pc' = "handle"
  BY DEF ReplayEnd, ptyVars, clientVars
<1>2. /\ consumed \in Nat /\ client[c] \in Client /\ Reading(c)
      /\ Replaying(c) /\ ~Replaying(c)' /\ Replayable(c) \in Nat /\ Replayable(c)' = 0
  BY <1>1, TableTypes, ConnTypes, ReplayableType DEF Replaying, Replayable, Reading
<1>3. /\ (Prompt => client'[c].close_after_drain # "late")
      /\ client'[c].buf = client[c].buf
      /\ client'[c].disconnected = client[c].disconnected
  <2>1. (Prompt => client[c].close_after_drain # "late")
    BY DEF Fine, Served
  <2>2. CASE ~send_end
    BY <2>1, <2>2 DEF ReplayEnd
  <2>3. CASE send_end
    <3>. DEFINE r == send_packet_nonblocking(c, [typ |-> "DUMP_END", payload |-> <<>>])
    <3>1. client'[c] = Replayed(c, r)
      BY <2>3 DEF ReplayEnd, SendAll
    <3>. HIDE DEF r
    <3>. QED
      BY <1>2, <2>1, <2>3, <3>1 DEF Replayed, SentThenClose, Client
  <2>. QED
    BY <2>2, <2>3
<1>4. Unread(c)' = Unread(c)
  BY <1>1, <1>3 DEF Unread
<1>5. Served(c)'
  <2>1. Watches(c) /\ cliSock[c] = "open" =>
             /\ ~client'[c].disconnected
             /\ \A i \in 1..Len(Unread(c)') :
                  Unread(c)'[i].typ \in {"ATTACH", "RESIZE", "CONTENT"}
             /\ Replaying(c)' => ~send_end'
    BY <1>2, <1>3, <1>4 DEF Fine, Served
  <2>2. Reading(c)' /\ saw_eof' => cliSock[c] # "open"
    BY <1>1, <1>2 DEF Fine, Served
  <2>. QED
    BY <1>1, <1>3, <2>1, <2>2, ServedKept
<1>6. ASSUME cliSock[c] = "open", Watches(c) PROVE Wired(c)'
  <2>1. ~send_end
    BY <1>2, <1>6 DEF Fine, Served
  <2>2. client' = client /\ down' = down
    BY <2>1 DEF ReplayEnd
  <2>3. OnTheWay(c)' = OnTheWay(c) /\ (Leaving(c)' <=> Leaving(c)) /\ (Looping(c)' <=> Looping(c))
    BY <1>1, <2>2 DEF OnTheWay, Leaving, Looping
  <2>. QED
    BY <1>1, <1>2, <2>3, WiredKept DEF Fine
<1>7. Wired(c)'
  BY <1>1, <1>6 DEF Wired, Watches
<1>. QED
  BY <1>5, <1>7 DEF Fine

LEMMA FineReplay ==
    ASSUME IndInv, OutputBounded, Queueable, NEW c \in Conn, Fine(c), UNCHANGED clientVars,
           ReplayChunk \/ ReplayFail \/ ReplayEnd
    PROVE  Fine(c)'
<1>1. CASE c = cur
  BY <1>1, FineChunk, FineReplayEnd
<1>2. CASE c # cur
  <2>1. /\ UNCHANGED <<cliSock, srvSock, up, consumed, cur, saw_eof>>
        /\ UNCHANGED <<rbuf, seen, cpc, result, code>>
        /\ client'[c] = client[c] /\ down'[c] = down[c]
    BY <1>2 DEF ReplayChunk, ReplayFail, ReplayEnd, SendAll, ptyVars, clientVars
  <2>2. /\ Still(c) /\ consumed \in Nat
        /\ ~Replaying(c) /\ ~Replaying(c)' /\ ~Reading(c)'
    BY <1>2, <2>1, ConnTypes DEF Still, Replaying, Reading
  <2>. QED
    BY <2>1, <2>2, FineStill
<1>. QED
  BY <1>1, <1>2

(* MSG_EXIT finds room, and from then on is on its way. *)
LEMMA FineQueueExit ==
    ASSUME IndInv, OutputBounded, Queueable, NEW c \in Conn, Fine(c), UNCHANGED clientVars,
           QueueExit
    PROVE  Fine(c)'
<1>1. /\ UNCHANGED <<cliSock, srvSock, up, consumed, cur, snap, send_end, saw_eof>>
      /\ UNCHANGED <<rbuf, seen, cpc, result, code>>
      /\ pc = "read" /\ pc' = "flush"
  BY DEF QueueExit, ptyVars, clientVars
<1>2. /\ consumed \in Nat /\ consumed <= MaxOutput /\ MaxOutput \in Nat
      /\ ~Replaying(c) /\ ~Replaying(c)' /\ ~Reading(c) /\ ~Reading(c)'
      /\ Replayable(c) = 0 /\ Replayable(c)' = 0
  <2>1. produced \in Nat
    BY DEF IndInv, TypeOK, KernelTypeOK
  <2>2. consumed <= MaxOutput
    BY <2>1, ConnTypes, BoundAssumption DEF OutputBounded
  <2>. QED
    BY <1>1, <2>2, ConnTypes, BoundAssumption DEF Replaying, Reading, Replayable
<1>. DEFINE To == {e \in clients : ~client[e].disconnected /\ client[e].close_after_drain = "unset"}
<1>3. CASE child_exit = NoStatus \/ c \notin To
  <2>1. client'[c] = client[c] /\ down'[c] = down[c]
    BY <1>3 DEF QueueExit, SendAll
  <2>2. Still(c)
    BY <1>1, <2>1 DEF Still
  <2>. QED
    BY <1>1, <1>2, <2>2, FineStill
<1>4. CASE child_exit # NoStatus /\ c \in To
  <2>1. child_exit \in Nat /\ srvSock[c] = "open" /\ client[c] \in Client /\ ~Leaving(c)
    BY <1>4, TableTypes DEF IndInv, TypeOK, ServerTypeOK, SocketsInStep, Leaving
  <2>2. PICK p \in Packet : p = [typ |-> "EXIT", payload |-> <<child_exit>>]
    <3>1. [typ |-> "EXIT", payload |-> <<child_exit>>] \in Packet
      BY <2>1 DEF Packet, MsgType
    <3>. QED
      BY <3>1
  <2>3. p.typ = "EXIT" /\ Len(p.payload) = 1
    BY <2>2
  <2>. DEFINE r == send_packet_nonblocking(c, p)
  <2>4. client'[c] = SentThenClose(c, r) /\ down'[c] = r.wire
    BY <1>4, <2>2 DEF QueueExit, SendAll
  <2>5. r = send_packet_nonblocking(c, p)
    OBVIOUS
  <2>. HIDE DEF r
  <2>6. /\ client'[c].buf = client[c].buf
        /\ client'[c].send_queue = r.queue
        /\ client'[c].disconnected = client[c].disconnected
        /\ client'[c].close_after_drain = "set"
    BY <1>4, <2>1, <2>4 DEF SentThenClose, Client
  <2>7. Unread(c)' = Unread(c)
    BY <1>1, <2>6 DEF Unread
  <2>8. Served(c)'
    <3>1. Watches(c) /\ cliSock[c] = "open" =>
             /\ ~client'[c].disconnected
             /\ \A i \in 1..Len(Unread(c)') :
                  Unread(c)'[i].typ \in {"ATTACH", "RESIZE", "CONTENT"}
             /\ Replaying(c)' => ~send_end'
      BY <1>2, <2>6, <2>7 DEF Fine, Served
    <3>. QED
      BY <1>1, <1>2, <2>6, <3>1, ServedKept
  <2>9. ASSUME cliSock[c] = "open", Watches(c) PROVE Wired(c)'
    <3>1. r.ok
      <4>1. 2 * (consumed - Replayable(c)) + (IF Leaving(c) THEN 4 ELSE 2) + 1 + Len(p.payload)
              <= SEND_QUEUE_CAP
        BY <1>2, <2>1, <2>3, QueueCapAssumption DEF Queueable
      <4>. QED
        BY <2>1, <2>5, <2>9, <4>1, RoomFor DEF Fine
    <3>2. OnTheWay(c)' = rbuf[c] \o r.wire \o r.queue
      BY <1>1, <2>4, <2>6 DEF OnTheWay
    <3>3. Joins(rbuf[c] \o r.wire \o r.queue, OnTheWay(c), packet_bytes(p))
      BY <2>5, <2>9, <3>1, SendFacts
    <3>4. Joins(OnTheWay(c)', OnTheWay(c), packet_bytes(p))
      BY <3>2, <3>3
    <3>5. Leaving(c)' /\ Len(p.payload) <= MAX_PAYLOAD
      BY <2>3, <2>6, BoundAssumption DEF Leaving
    <3>. QED
      BY <1>1, <1>2, <2>1, <2>3, <2>9, <3>4, <3>5, WiredSent DEF Fine
  <2>10. Wired(c)'
    BY <1>1, <2>9 DEF Wired, Watches
  <2>. QED
    BY <2>8, <2>10 DEF Fine
<1>. QED
  BY <1>3, <1>4

(* A client that watches is dropped when MSG_EXIT has left its queue.       *)
LEMMA FineFlush ==
    ASSUME IndInv, NEW c \in Conn, Fine(c), UNCHANGED clientVars, FlushAndReap
    PROVE  Fine(c)'
<1>1. /\ UNCHANGED <<cliSock, up, consumed, cur, snap, send_end, saw_eof>>
      /\ UNCHANGED <<rbuf, seen, cpc, result, code>>
      /\ pc = "flush" /\ pc' \in {"exited", "poll"}
  BY DEF FlushAndReap, ptyVars, clientVars
<1>2. /\ consumed \in Nat /\ client[c] \in Client
      /\ ~Replaying(c) /\ ~Replaying(c)' /\ ~Reading(c) /\ ~Reading(c)'
      /\ Replayable(c) = 0 /\ Replayable(c)' = 0
  BY <1>1, TableTypes, ConnTypes DEF Replaying, Reading, Replayable
<1>. DEFINE gone == {e \in clients : Gone(Flushed(e))}
            q == client[c].send_queue
            r == try_flush_client(c, q)
<1>3. c \in clients <=> srvSock[c] = "open"
  BY DEF IndInv, SocketsInStep
<1>4. /\ client'[c] = (IF c \in gone THEN NewClient
                       ELSE IF c \in clients THEN Flushed(c) ELSE client[c])
      /\ srvSock'[c] = srvSock[c] \/ srvSock'[c] = "closed"
      /\ c \in gone => srvSock'[c] = "closed"
      /\ c \in clients /\ c \notin gone => srvSock'[c] = "open"
      /\ down'[c] = (IF c \in clients /\ ~client[c].disconnected THEN r.wire ELSE down[c])
      /\ c \in gone <=> c \in clients /\ Gone(Flushed(c))
  BY <1>3 DEF FlushAndReap
<1>5. /\ down[c] \in Seq(Cell) /\ Len(down[c]) <= SNDBUF /\ q \in Seq(Cell)
      /\ rbuf[c] \in Seq(Cell)
  BY ConnTypes
<1>6. /\ r.wire \in Seq(Cell) /\ r.queue \in Seq(Cell)
      /\ Recut(r.wire, r.queue, down[c], q)
      /\ cliSock[c] = "open" => r.ok
  <2>. HIDE DEF q
  <2>. QED
    BY <1>5, FlushWire
<1>. HIDE DEF gone, q, r
<1>7. c \in clients /\ ~client[c].disconnected => Flushed(c) = SentOrDisconnect(c, r)
  BY DEF Flushed, r, q
<1>8. /\ (Prompt => client'[c].close_after_drain # "late")
      /\ client'[c].buf = client[c].buf \/ client'[c].buf = <<>>
  <2>1. (Prompt => client[c].close_after_drain # "late")
    BY DEF Fine, Served
  <2>2. CASE c \in gone
    BY <1>4, <2>2 DEF NewClient
  <2>3. CASE c \notin gone /\ c \in clients
    <3>1. ~client[c].disconnected
      BY <1>4, <2>3 DEF Gone, Flushed
    <3>2. client'[c] = SentOrDisconnect(c, r)
      BY <1>4, <1>7, <2>3, <3>1
    <3>. QED
      BY <1>2, <2>1, <3>2 DEF SentOrDisconnect, Client
  <2>4. CASE c \notin clients
    BY <1>4, <2>1, <2>4
  <2>. QED
    BY <2>2, <2>3, <2>4
<1>9. ASSUME cliSock[c] = "open", Watches(c), c \in clients
      PROVE  /\ Owed(c)' => OnTheWay(c)' = OnTheWay(c)
             /\ ~client'[c].disconnected
             /\ c \in gone => Leaving(c)
             /\ c \notin gone => (Leaving(c)' <=> Leaving(c))
  <2>1. ~client[c].disconnected /\ (Prompt => client[c].close_after_drain # "late")
    BY <1>9 DEF Fine, Served
  <2>2. Flushed(c) = SentOrDisconnect(c, r) /\ r.ok /\ down'[c] = r.wire
    BY <1>4, <1>6, <1>7, <1>9, <2>1
  <2>3. /\ Flushed(c).send_queue = r.queue /\ ~Flushed(c).disconnected
        /\ Flushed(c).close_after_drain = client[c].close_after_drain
    BY <1>2, <2>1, <2>2 DEF SentOrDisconnect, Client
  <2>4. c \in gone => Leaving(c) /\ (Owed(c)' => r.queue = <<>>)
    <3>1. c \in gone => Leaving(c) /\ (Prompt => r.queue = <<>>)
      BY <1>4, <2>1, <2>3 DEF Gone, Leaving
    <3>. QED
      BY <1>4, <3>1 DEF Owed, Prompt
  <2>5. (Owed(c)' => client'[c].send_queue = r.queue) /\ ~client'[c].disconnected
    <3>1. CASE c \in gone
      BY <1>4, <2>4, <3>1 DEF NewClient
    <3>2. CASE c \notin gone
      BY <1>4, <1>9, <2>3, <3>2
    <3>. QED
      BY <3>1, <3>2
  <2>6. c \notin gone => (Leaving(c)' <=> Leaving(c))
    BY <1>4, <1>9, <2>3 DEF Leaving
  <2>7. ASSUME Owed(c)' PROVE OnTheWay(c)' = OnTheWay(c)
    <3>. DEFINE a == rbuf[c]
                x == down[c]
                w == r.wire
                v == r.queue
    <3>1. OnTheWay(c)' = (a \o w) \o v /\ OnTheWay(c) = (a \o x) \o q
      BY <1>1, <2>2, <2>5, <2>7 DEF OnTheWay, q
    <3>2. /\ a \in Seq(Cell) /\ x \in Seq(Cell) /\ w \in Seq(Cell) /\ v \in Seq(Cell)
          /\ q \in Seq(Cell) /\ w \o v = x \o q
      BY <1>5, <1>6 DEF Recut
    <3>. HIDE DEF a, x, w, v
    <3>3. Assoc(a, w, v) /\ Assoc(a, x, q)
      BY <3>2, ConcatAssoc
    <3>. QED
      BY <3>1, <3>2, <3>3 DEF Assoc
  <2>. QED
    BY <2>4, <2>5, <2>6, <2>7
<1>10. ASSUME cliSock[c] = "open", Watches(c)
       PROVE  /\ ~client'[c].disconnected
              /\ \A i \in 1..Len(Unread(c)') :
                   Unread(c)'[i].typ \in {"ATTACH", "RESIZE", "CONTENT"}
  <2>1. /\ ~client[c].disconnected
        /\ \A i \in 1..Len(Unread(c)) : Unread(c)[i].typ \in {"ATTACH", "RESIZE", "CONTENT"}
    BY <1>10 DEF Fine, Served
  <2>2. ~client'[c].disconnected
    BY <1>4, <1>9, <1>10, <2>1
  <2>3. CASE client'[c].buf = client[c].buf
    BY <1>1, <2>1, <2>2, <2>3 DEF Unread
  <2>4. CASE client'[c].buf = <<>>
    <3>. DEFINE b == client[c].buf
                u == up[c]
                v == Unread(c)
    <3>1. b \in Seq(Packet) /\ u \in Seq(Packet) /\ v = b \o u
      BY ConnTypes DEF Unread
    <3>2. Unread(c)' = u
      <4>1. <<>> \o u = u
        BY <3>1, ConcatEmptySeq
      <4>. QED
        BY <1>1, <2>4, <4>1 DEF Unread
    <3>3. \A i \in 1..Len(v) : v[i].typ \in {"ATTACH", "RESIZE", "CONTENT"}
      BY <2>1
    <3>. HIDE DEF b, u, v
    <3>4. \A i \in 1..Len(u) : Len(b) + i \in 1..Len(v) /\ v[Len(b) + i] = u[i]
      BY <3>1
    <3>. QED
      BY <2>2, <3>2, <3>3, <3>4
  <2>. QED
    BY <1>8, <2>3, <2>4
<1>11. Served(c)'
  BY <1>1, <1>2, <1>4, <1>8, <1>10, ServedKept
<1>12. ASSUME cliSock[c] = "open", Watches(c) PROVE Wired(c)'
  <2>0. Owed(c)' \/ Wired(c)'
    BY DEF Wired, Owed, Prompt
  <2>1. CASE c \in clients
    <3>1. srvSock[c] = "open"
      BY <1>3, <2>1
    <3>2. srvSock'[c] = "open" => c \notin gone
      BY <1>4
    <3>3. srvSock'[c] = "closed" => Leaving(c)
      BY <1>4, <1>9, <1>12, <2>1
    <3>. QED
      BY <1>1, <1>2, <1>9, <1>12, <2>0, <2>1, <3>1, <3>2, <3>3, WiredKept DEF Fine
  <2>2. CASE c \notin clients
    <3>1. client'[c] = client[c] /\ down'[c] = down[c] /\ srvSock[c] # "open" /\ c \notin gone
      BY <1>3, <1>4, <2>2
    <3>2. OnTheWay(c)' = OnTheWay(c) /\ (Looping(c)' <=> Looping(c)) /\ srvSock'[c] # "open"
      <4>1. OnTheWay(c)' = OnTheWay(c)
        BY <1>1, <3>1 DEF OnTheWay
      <4>2. Looping(c)' <=> Looping(c)
        BY <1>1 DEF Looping
      <4>3. srvSock'[c] # "open"
        BY <1>4, <3>1
      <4>. QED
        BY <4>1, <4>2, <4>3
    <3>3. srvSock'[c] = "closed" /\ Looping(c)' => srvSock[c] = "closed" /\ Looping(c)
      <4>1. srvSock[c] \in {"none", "backlog"} => ~Looping(c)
        BY <1>12 DEF Fine, Served, Looping
      <4>2. srvSock[c] \in {"none", "backlog", "open", "closed"}
        BY TableTypes
      <4>. QED
        BY <3>1, <3>2, <4>1, <4>2
    <3>4. srvSock[c] = "closed" => srvSock'[c] = "closed"
      BY <1>4
    <3>. QED
      BY <1>1, <1>2, <3>2, <3>3, <3>4, WiredKept DEF Fine
  <2>. QED
    BY <2>1, <2>2
<1>13. Wired(c)'
  BY <1>1, <1>12 DEF Wired, Watches
<1>. QED
  BY <1>11, <1>13 DEF Fine

-------------------------------------------------------------------------------
(* The deadline of a client passes. *)
LEMMA FineElapse ==
    ASSUME IndInv, NEW c \in Conn, Fine(c), UNCHANGED clientVars, NEW d \in Conn, Elapse(d)
    PROVE  Fine(c)'
<1>1. ~Prompt /\ UNCHANGED <<sockVars, consumed, pc, cur, snap, send_end, saw_eof>>
  BY DEF Elapse, Prompt, kernelVars, ptyVars
<1>2. /\ UNCHANGED <<cliSock, srvSock, up, down>>
      /\ UNCHANGED <<rbuf, seen, cpc, result, code>>
      /\ consumed \in Nat /\ Replayable(c) \in Nat
  BY <1>1, ConnTypes, ReplayableType DEF sockVars, clientVars
<1>3. /\ client'[c].buf = client[c].buf /\ client'[c].send_queue = client[c].send_queue
      /\ client'[c].disconnected = client[c].disconnected
      /\ client'[c].close_after_drain = "unset" <=> client[c].close_after_drain = "unset"
  BY ConnTypes, TableTypes DEF Elapse, Client
<1>4. /\ OnTheWay(c)' = OnTheWay(c) /\ Unread(c)' = Unread(c) /\ (Leaving(c)' <=> Leaving(c))
      /\ (Replaying(c)' <=> Replaying(c)) /\ (Reading(c)' <=> Reading(c))
      /\ Replayable(c)' = Replayable(c) /\ (Looping(c)' <=> Looping(c))
  BY <1>1, <1>2, <1>3 DEF OnTheWay, Unread, Leaving, Replaying, Reading, Replayable, Looping
<1>5. Wired(c)'
  BY <1>1, <1>2, <1>4, WiredKept DEF Fine
<1>6. Served(c)'
  BY <1>1, <1>2, <1>3, <1>4 DEF Fine, Served, Watches, Prompt
<1>. QED
  BY <1>5, <1>6 DEF Fine

-------------------------------------------------------------------------------
(* Every step keeps the invariant. *)
LEMMA OutputStep ==
    ASSUME IndInv, OutputBounded, [Next]_vars
    PROVE  OutputBounded'
<1>1. produced \in Nat /\ consumed \in Nat /\ MaxOutput \in Nat
  BY BoundAssumption DEF IndInv, TypeOK, KernelTypeOK
<1>2. CASE Server
  <2>1. produced' = produced
    BY <1>2 DEF Server, PollShutdown, Accept, AcceptDropped, ReadClient, AcceptDone, ReadPty,
                PtyDone, WaitPid, HandleInput, HandleAttach, HandleDump, HandleResize,
                HandleDetach, EndClient, ReplayChunk, ReplayFail, ReplayEnd, QueueExit,
                FlushAndReap, kernelVars, sockVars, ptyVars, serverVars
  <2>2. consumed' = consumed \/ \E n \in 1..MAX_PAYLOAD : ReadPty(n)
    BY <1>2 DEF Server, PollShutdown, Accept, AcceptDropped, ReadClient, AcceptDone,
                PtyDone, WaitPid, HandleInput, HandleAttach, HandleDump, HandleResize,
                HandleDetach, EndClient, ReplayChunk, ReplayFail, ReplayEnd, QueueExit,
                FlushAndReap, kernelVars, sockVars, ptyVars, serverVars
  <2>3. ASSUME NEW n \in 1..MAX_PAYLOAD, ReadPty(n) PROVE OutputBounded'
    <3>1. n \in Nat /\ n <= produced - consumed /\ consumed' = consumed + n
      BY <2>3, BoundAssumption DEF ReadPty
    <3>. QED
      BY <1>1, <2>1, <3>1 DEF OutputBounded
  <2>. QED
    BY <2>1, <2>2, <2>3 DEF OutputBounded
<1>3. CASE Child
  <2>1. consumed' = consumed /\ (produced' = produced \/ (produced < MaxOutput /\ produced' = produced + 1))
    BY <1>3 DEF Child, ChildWrite, ChildRead, ChildExit
  <2>. QED
    BY <1>1, <2>1 DEF OutputBounded
<1>4. ASSUME NEW d \in Conn, ClientRuns(d) \/ ClientUser(d) PROVE OutputBounded'
  <2>1. UNCHANGED ptyVars
    BY <1>4 DEF ClientRuns, ClientUser, Connect, ConnectRefused, RecvPart, RecvFail, RecvPid,
                RecvLoop, RecvExit, RecvDump, SendAttach, send_resize, SendDump, SendKeys,
                StdinEmpty, SelectStdin, StdinKey, StdinDetach, StdinEof, Killed, kernelVars
  <2>. QED
    BY <2>1 DEF OutputBounded, ptyVars
<1>5. CASE Shutdown \/ (\E d \in Conn : Elapse(d)) \/ UNCHANGED vars
  BY <1>5 DEF OutputBounded, Shutdown, Elapse, vars, kernelVars, ptyVars
<1>. QED
  BY <1>2, <1>3, <1>4, <1>5 DEF Next, Terminated

LEMMA ExitInit == Init => ExitInv
<1>. SUFFICES ASSUME Init PROVE OutputBounded /\ \A c \in Conn : Fine(c)
  BY DEF ExitInv
<1>1. OutputBounded
  BY BoundAssumption DEF Init, KernelInit, OutputBounded
<1>2. ASSUME NEW c \in Conn PROVE Fine(c)
  <2>1. /\ cliSock[c] = "none" /\ cpc[c] = "start" /\ result[c] = "none" /\ pc = "poll"
        /\ client[c] = NewClient
    BY <1>2 DEF Init, KernelInit, ServerInit, ClientInit
  <2>2. client[c].close_after_drain = "unset"
    BY <2>1 DEF NewClient
  <2>. QED
    BY <2>1, <2>2 DEF Fine, Served, Wired, Reading
<1>. QED
  BY <1>1, <1>2

LEMMA ExitStep ==
    ASSUME IndInv, HistoryExact, StreamInv, ExitInv, [Next]_vars
    PROVE  ExitInv'
<1>1. OutputBounded'
  BY OutputStep DEF ExitInv
<1>. SUFFICES ASSUME Queueable, NEW c \in Conn PROVE Fine(c)'
  BY <1>1 DEF ExitInv, Queueable
<1>2. /\ OutputBounded /\ Fine(c) /\ Placed(c) /\ GoodWire(c)
      /\ \A d \in Conn : Placed(d)
  BY DEF ExitInv, StreamInv
<1>3. CASE Server /\ UNCHANGED clientVars
  <2>1. CASE PollShutdown \/ AcceptDone \/ PtyDone \/ WaitPid
    BY <1>2, <1>3, <2>1, FineIdle
  <2>2. ASSUME NEW d \in Conn, Accept(d) \/ AcceptDropped(d) PROVE Fine(c)'
    BY <1>2, <1>3, <2>2, FineAccept
  <2>3. ASSUME NEW d \in Conn, ReadClient(d) PROVE Fine(c)'
    BY <1>2, <1>3, <2>3, FineReadClient
  <2>4. ASSUME NEW n \in 1..MAX_PAYLOAD, ReadPty(n) PROVE Fine(c)'
    BY <1>2, <1>3, <2>4, FineReadPty
  <2>5. CASE HandleInput \/ HandleResize \/ HandleDetach \/ EndClient
    BY <1>2, <1>3, <2>5, FineHandle
  <2>6. CASE HandleAttach \/ HandleDump
    BY <1>2, <1>3, <2>6, FineOpen
  <2>7. CASE ReplayChunk \/ ReplayFail \/ ReplayEnd
    BY <1>2, <1>3, <2>7, FineReplay
  <2>8. CASE QueueExit
    BY <1>2, <1>3, <2>8, FineQueueExit
  <2>9. CASE FlushAndReap
    BY <1>2, <1>3, <2>9, FineFlush
  <2>. QED
    BY <1>3, <2>1, <2>2, <2>3, <2>4, <2>5, <2>6, <2>7, <2>8, <2>9 DEF Server
<1>4. CASE Child /\ UNCHANGED <<serverVars, clientVars>>
  <2>1. UNCHANGED serverVars /\ UNCHANGED clientVars
    BY <1>4
  <2>. QED
    BY <1>2, <1>4, <2>1, FineIdle
<1>5. ASSUME NEW d \in Conn, ClientRuns(d) \/ ClientUser(d), UNCHANGED serverVars
      PROVE  Fine(c)'
  <2>1. CASE c = d
    BY <1>2, <1>5, <2>1, FineClient
  <2>2. CASE c # d
    BY <1>2, <1>5, <2>2, FineOther
  <2>. QED
    BY <2>1, <2>2
<1>6. CASE Shutdown /\ UNCHANGED clientVars
  BY <1>2, <1>6, FineIdle
<1>7. ASSUME NEW d \in Conn, Elapse(d), UNCHANGED clientVars PROVE Fine(c)'
  BY <1>2, <1>7, FineElapse
<1>8. CASE UNCHANGED vars
  <2>1. Still(c) /\ (Replaying(c)' <=> Replaying(c)) /\ (Reading(c)' <=> Reading(c))
        /\ UNCHANGED <<snap, send_end, saw_eof, consumed>> /\ consumed \in Nat
    BY <1>8, ConnTypes DEF Still, Replaying, Reading, vars, kernelVars, sockVars, ptyVars,
                           serverVars, clientVars
  <2>. QED
    BY <1>2, <2>1, FineStill
<1>. QED
  BY <1>3, <1>4, <1>5, <1>6, <1>7, <1>8 DEF Next, Terminated

(* A packet's header is among the packet's cells, wherever they are cut. *)
LEMMA WireHolds ==
    ASSUME NEW ps \in Seq(Packet), NEW i \in 1..Len(ps)
    PROVE  \E j \in 1..Len(Wire(ps)) : Wire(ps)[j].typ = ps[i].typ
<1>. DEFINE a == SubSeq(ps, 1, i - 1)
            b == SubSeq(ps, i, Len(ps))
<1>1. /\ a \in Seq(Packet) /\ b \in Seq(Packet) /\ b # <<>> /\ Head(b) = ps[i]
      /\ ps = a \o b
  <2>1. i - 1 \in 0..Len(ps) /\ (i - 1) + 1 = i /\ Len(ps) \in Nat
    BY LenProperties
  <2>2. a \in Seq(Packet) /\ b \in Seq(Packet) /\ Len(b) = Len(ps) - (i - 1) /\ Joins(ps, a, b)
    BY <2>1, SplitSeq
  <2>3. b[1] = ps[i] /\ Len(b) >= 1
    BY <2>1, <2>2
  <2>. HIDE DEF b
  <2>. QED
    BY <2>2, <2>3 DEF Joins
<1>. HIDE DEF a, b
<1>. DEFINE u == Wire(a)
            v == Wire(b)
            x == packet_bytes(ps[i])
            y == Wire(Tail(b))
<1>2. /\ u \in Seq(Cell) /\ v \in Seq(Cell) /\ Wire(ps) = u \o v /\ v = x \o y
      /\ ps[i] \in Packet /\ y \in Seq(Cell)
  <2>1. Tail(b) \in Seq(Packet) /\ Head(b) \in Packet /\ Joins(v, packet_bytes(Head(b)), y)
    BY <1>1, WireHead
  <2>2. Joins(Wire(a \o b), u, v)
    BY <1>1, WireConcat
  <2>. QED
    BY <1>1, <2>1, <2>2, WireType DEF Joins
<1>3. x \in Seq(Cell) /\ Len(x) >= 1 /\ x[1].typ = ps[i].typ
  <2>1. x \in Seq(Cell) /\ Len(x) = 1 + Len(ps[i].payload) /\ x[1].typ = ps[i].typ
    BY <1>2, PacketBytesType, PacketCellsAt
  <2>2. Len(ps[i].payload) \in Nat
    BY <1>2, LenProperties DEF Packet
  <2>. QED
    BY <2>1, <2>2
<1>. HIDE DEF u, v, x, y
<1>4. Len(u) + 1 \in 1..Len(u \o (x \o y)) /\ (u \o (x \o y))[Len(u) + 1] = x[1]
  <2>1. x \o y \in Seq(Cell) /\ Len(x \o y) >= 1 /\ (x \o y)[1] = x[1]
    BY <1>2, <1>3
  <2>. DEFINE z == x \o y
  <2>. HIDE DEF z
  <2>2. z \in Seq(Cell) /\ Len(z) >= 1 /\ z[1] = x[1]
    BY <2>1 DEF z
  <2>3. Len(u) + 1 \in 1..Len(u \o z) /\ (u \o z)[Len(u) + 1] = z[1]
    BY <1>2, <2>2
  <2>. QED
    BY <2>2, <2>3 DEF z
<1>. QED
  BY <1>2, <1>3, <1>4

(* A client that watches and whose connection the server has closed has     *)
(* MSG_EXIT still to read.                                                  *)
LEMMA ExitWaits ==
    ASSUME Prompt, IndInv, NEW c \in Conn, Placed(c), Fine(c), Looping(c),
           srvSock[c] = "closed"
    PROVE  ExitPending(c)
<1>1. cliSock[c] = "open" /\ Watches(c)
  BY DEF Placed, Fine, Served, Looping
<1>2. PICK ps \in Seq(Packet) : Carries(c, <<>>, ps) /\ Promised(c, ps)
  BY <1>1 DEF Fine, Wired, Owed
<1>3. Wire(ps) = Pending(c)
  <2>1. Wire(ps) = OnTheWay(c)
    BY <1>2, QueueShort
  <2>2. client[c].send_queue = <<>>
    BY DEF Placed, NewClient
  <2>3. rbuf[c] \o down[c] \in Seq(Cell)
    BY ConnTypes, ConcatProperties
  <2>. DEFINE w == rbuf[c] \o down[c]
  <2>. HIDE DEF w
  <2>4. w \o <<>> = w
    BY <2>3, ConcatEmptySeq DEF w
  <2>. QED
    BY <2>1, <2>2, <2>4 DEF OnTheWay, Pending, w
<1>4. PICK i \in 1..Len(ps) : ps[i].typ = "EXIT"
  BY <1>2 DEF Promised, HasExit
<1>5. \E j \in 1..Len(Wire(ps)) : Wire(ps)[j].typ = ps[i].typ
  BY WireHolds
<1>. QED
  BY <1>3, <1>4, <1>5 DEF ExitPending

(* client_loop is left with an error only where it writes. *)
LEMMA ErrorWrites ==
    ASSUME Prompt, IndInv, NEW c \in Conn, Placed(c), Outcome(c), Fine(c), Looping(c),
           ClientRuns(c) \/ ClientUser(c), result'[c] \in {"ioerror", "error"}
    PROVE  cpc[c] \in {"resize", "stdin"} /\ srvSock[c] = "closed"
<1>. USE TableTypes
<1>1. result[c] = "none"
  BY DEF Outcome, Looping
<1>2. CASE RecvFail(c)
  <2>1. cpc[c] \in {"loop", "recv"}
    BY <1>2 DEF RecvFail, Receiving, Looping
  <2>. QED
    BY <1>2, <2>1, LoopNeverFails
<1>3. CASE send_resize(c)
  BY <1>1, <1>3 DEF send_resize, SendOrFail
<1>4. CASE StdinKey(c)
  BY <1>1, <1>4 DEF StdinKey, SendOrFail
<1>5. CASE StdinDetach(c)
  BY <1>1, <1>5 DEF StdinDetach, Finish
<1>6. CASE RecvExit(c) \/ StdinEof(c) \/ Killed(c)
  BY <1>1, <1>6 DEF RecvExit, StdinEof, Killed, Finish
<1>7. CASE RecvPart(c) \/ RecvLoop(c) \/ SelectStdin(c) \/ StdinEmpty(c)
  BY <1>1, <1>7 DEF RecvPart, RecvLoop, SelectStdin, StdinEmpty
<1>8. CASE \/ Connect(c) \/ ConnectRefused(c) \/ RecvPid(c) \/ RecvDump(c)
           \/ SendAttach(c) \/ SendDump(c) \/ SendKeys(c)
  BY <1>8 DEF Connect, ConnectRefused, RecvPid, RecvDump, SendAttach, SendDump, SendKeys, Looping
<1>. QED
  BY <1>2, <1>3, <1>4, <1>5, <1>6, <1>7, <1>8 DEF ClientRuns, ClientUser

(* Nobody in client_loop is cut off without MSG_EXIT: it is queued for every *)
(* client that watches before the server closes it, its queue is flushed to *)
(* the end first, and client_loop reads what was flushed before it can find *)
(* the socket closed; a client whose write of a size, a key or the detach   *)
(* key fails has MSG_EXIT still to read.  A queue of SEND_QUEUE_CAP that     *)
(* holds a header for every byte of the output, MSG_PID and MSG_EXIT never  *)
(* overflows, so no client is dropped for that either, and while the drain  *)
(* deadline has not passed none is dropped half told.                       *)
THEOREM ExitsReported == Spec => ExitReported
<1>. DEFINE Warned(c) == /\ cpc[c] \in {"resize", "loop", "recv", "stdin"}
                         /\ result'[c] \in {"ioerror", "error"}
                         => cpc[c] \in {"resize", "stdin"} /\ ExitPending(c)
            Step == "slow" \notin Faults /\ SEND_QUEUE_CAP >= 2 * MaxOutput + 4
                      => \A c \in Conn : Warned(c)
<1>1. IndInv /\ StreamInv /\ ExitInv /\ [Next]_vars => [Step]_clientVars
  <2>. SUFFICES ASSUME IndInv, StreamInv, ExitInv, [Next]_vars, Prompt, Queueable,
                       NEW c \in Conn, Looping(c), result'[c] \in {"ioerror", "error"}
                PROVE  cpc[c] \in {"resize", "stdin"} /\ ExitPending(c)
    BY DEF Prompt, Queueable, Looping
  <2>1. Placed(c) /\ Outcome(c) /\ Fine(c)
    BY DEF StreamInv, ExitInv
  <2>2. result[c] = "none"
    BY <2>1 DEF Outcome, Looping
  <2>3. PICK d \in Conn : ClientRuns(d) \/ ClientUser(d)
    BY <2>2 DEF Next, Terminated, Shutdown, Elapse, vars, clientVars
  <2>4. d = c
    <3>1. CASE d # c
      BY <2>2, <2>3, <3>1, OtherClient
    <3>. QED
      BY <3>1
  <2>5. cpc[c] \in {"resize", "stdin"} /\ srvSock[c] = "closed"
    BY <2>1, <2>3, <2>4, ErrorWrites
  <2>. QED
    BY <2>1, <2>5, ExitWaits
<1>2. IndInv /\ HistoryExact /\ StreamInv /\ ExitInv /\ [Next]_vars => ExitInv'
  BY ExitStep
<1>. QED
  BY <1>1, <1>2, ExitInit, Invariance, HistoryCorrect, StreamInvariance, PTL DEF Spec, ExitReported

-------------------------------------------------------------------------------
(***************************************************************************)
(* The output a client is shown, is about to be shown or is promised is a  *)
(* run of what was read from the pty, and MSG_EXIT comes behind the output *)
(* there was when the end was decided.                                     *)
(***************************************************************************)

(* s is the beginning of t. *)
Starts(s, t) == Len(s) <= Len(t) /\ \A i \in 1..Len(s) : s[i] = t[i]

(* A run of an output of n bytes that begins where the history once began. *)
IsRun(s, n) ==
    s = <<>> \/ \E from, to \in 0..n :
                  /\ from = 0 \/ from + HISTORY_CAP <= n
                  /\ s = [i \in 1..(to - from) |-> from + i]

(* What Starts means for concatenations. *)
LEMMA StartsSelf ==
    ASSUME NEW s \in Seq(Nat)
    PROVE  Starts(s, s) /\ Starts(<<>>, s)
<1>1. Len(s) \in Nat /\ Len(<<>>) = 0
  OBVIOUS
<1>. QED
  BY <1>1 DEF Starts

LEMMA StartsJoin ==
    ASSUME NEW s \in Seq(Nat), NEW x \in Seq(Nat), NEW t, Joins(t, s, x)
    PROVE  Starts(s, t) /\ t \in Seq(Nat)
<1>1. Len(s) \in Nat /\ Len(x) \in Nat /\ Len(s \o x) = Len(s) + Len(x)
      /\ s \o x \in Seq(Nat) /\ \A i \in 1..Len(s) : (s \o x)[i] = s[i]
  BY ConcatProperties
<1>. QED
  BY <1>1 DEF Starts, Joins

LEMMA StartsJoins ==
    ASSUME NEW s \in Seq(Nat), NEW t \in Seq(Nat), NEW x \in Seq(Nat),
           NEW u, NEW v, Joins(u, x, s), Joins(v, x, t), Starts(s, t)
    PROVE  Starts(u, v)
<1>1. /\ Len(s) \in Nat /\ Len(t) \in Nat /\ Len(x) \in Nat
      /\ Len(u) = Len(x) + Len(s) /\ Len(v) = Len(x) + Len(t)
      /\ \A i \in 1..Len(u) : u[i] = IF i <= Len(x) THEN x[i] ELSE s[i - Len(x)]
      /\ \A i \in 1..Len(v) : v[i] = IF i <= Len(x) THEN x[i] ELSE t[i - Len(x)]
  BY ConcatProperties DEF Joins
<1>2. Len(s) <= Len(t) /\ \A i \in 1..Len(s) : s[i] = t[i]
  BY DEF Starts
<1>3. ASSUME NEW i \in 1..Len(u) PROVE u[i] = v[i]
  <2>1. CASE i <= Len(x)
    <3>1. i \in 1..Len(v)
      BY <1>1, <1>2
    <3>. QED
      BY <1>1, <2>1, <3>1
  <2>2. CASE i > Len(x)
    <3>1. i - Len(x) \in 1..Len(s) /\ i \in 1..Len(v)
      BY <1>1, <1>2, <2>2
    <3>. QED
      BY <1>1, <1>2, <2>2, <3>1
  <2>. QED
    BY <1>1, <2>1, <2>2
<1>. QED
  BY <1>1, <1>2, <1>3 DEF Starts

(* What begins a run is a run ... *)
LEMMA RunPart ==
    ASSUME NEW s \in Seq(Nat), NEW t \in Seq(Nat), NEW n \in Nat, IsRun(t, n), Starts(s, t)
    PROVE  IsRun(s, n)
<1>1. CASE t = <<>>
  <2>1. Len(s) \in Nat /\ Len(s) <= 0
    BY <1>1 DEF Starts
  <2>2. s = <<>>
    BY <2>1
  <2>. QED
    BY <2>2 DEF IsRun
<1>2. CASE t # <<>>
  <2>1. PICK from \in 0..n, to \in 0..n :
               /\ from = 0 \/ from + HISTORY_CAP <= n
               /\ t = [i \in 1..(to - from) |-> from + i]
    BY <1>2 DEF IsRun
  <2>. DEFINE k == Len(s)
              b == from + k
  <2>2. k \in Nat /\ k <= Len(t) /\ \A i \in 1..k : s[i] = t[i]
    <3>1. Len(s) \in Nat
      OBVIOUS
    <3>. QED
      BY <3>1 DEF Starts
  <2>3. from <= to
    <3>1. Len(t) \in Nat /\ t \in [1..Len(t) -> Nat]
      BY LenProperties
    <3>2. Len(t) # 0
      BY <1>2
    <3>3. 1 \in 1..Len(t)
      BY <3>1, <3>2
    <3>4. DOMAIN t = 1..Len(t) /\ DOMAIN t = 1..(to - from)
      BY <2>1, <3>1, Zenon
    <3>5. 1 \in 1..(to - from)
      BY <3>3, <3>4, Zenon
    <3>. QED
      BY <2>1, <3>5
  <2>4. Len(t) = to - from /\ \A i \in 1..(to - from) : t[i] = from + i
    <3>1. OutputFrom(from, to) = t /\ from \in Nat /\ to \in Nat
      BY <2>1 DEF OutputFrom
    <3>. QED
      BY <2>3, <3>1, OutputJoins
  <2>5. b \in 0..n
    BY <2>1, <2>2, <2>3, <2>4
  <2>6. \A i \in 1..k : s[i] = from + i
    <3>1. \A i \in 1..k : i \in 1..(to - from)
      BY <2>2, <2>4
    <3>. HIDE DEF k
    <3>. QED
      BY <2>2, <2>4, <3>1, Zenon
  <2>7. b - from = k
    BY <2>1, <2>2
  <2>8. s = [i \in 1..(b - from) |-> from + i]
    <3>1. s = [i \in 1..k |-> s[i]]
      BY <2>2
    <3>. HIDE DEF b
    <3>. QED
      BY <2>6, <2>7, <3>1
  <2>. HIDE DEF b, k
  <2>. QED
    BY <2>1, <2>5, <2>8 DEF IsRun
<1>. QED
  BY <1>1, <1>2

(* ... and a run stays one when there is more output. *)
LEMMA RunLater ==
    ASSUME NEW s, NEW n \in Nat, NEW m \in Nat, n <= m, IsRun(s, n)
    PROVE  IsRun(s, m)
<1>1. CASE s = <<>>
  BY <1>1 DEF IsRun
<1>2. CASE s # <<>>
  <2>1. PICK from \in 0..n, to \in 0..n :
               /\ from = 0 \/ from + HISTORY_CAP <= n
               /\ s = [i \in 1..(to - from) |-> from + i]
    BY <1>2 DEF IsRun
  <2>2. from \in 0..m /\ to \in 0..m /\ (from = 0 \/ from + HISTORY_CAP <= m)
    BY <2>1, HistoryCapAssumption
  <2>. QED
    BY <2>1, <2>2 DEF IsRun
<1>. QED
  BY <1>1, <1>2

(* The newest bytes are a run. *)
LEMMA NewestRun ==
    ASSUME NEW n \in Nat, NEW s \in Seq(Nat), s = OutputFrom(n - Len(s), n), Len(s) <= n,
           Len(s) >= Len(Newest(n))
    PROVE  IsRun(s, n) /\ (s # <<>> => s[Len(s)] = n)
<1>. DEFINE k == Len(s)
            from == n - k
<1>1. k \in Nat /\ from \in 0..n /\ n \in 0..n
  OBVIOUS
<1>2. Len(Newest(n)) = (IF n <= HISTORY_CAP THEN n ELSE HISTORY_CAP)
  BY NewestUpToDate
<1>3. from = 0 \/ from + HISTORY_CAP <= n
  BY <1>1, <1>2, HistoryCapAssumption
<1>4. s = [i \in 1..(n - from) |-> from + i]
  BY DEF OutputFrom
<1>5. s # <<>> => s[Len(s)] = n
  <2>. SUFFICES ASSUME s # <<>> PROVE s[k] = n
    OBVIOUS
  <2>1. k \in 1..k /\ n - from = k
    BY <1>1
  <2>. HIDE DEF k
  <2>2. s[k] = from + k
    BY <1>4, <2>1
  <2>. QED
    BY <1>1, <2>2
<1>. HIDE DEF from
<1>. QED
  BY <1>1, <1>3, <1>4, <1>5 DEF IsRun

-------------------------------------------------------------------------------
(* What c has been shown and is going to be: the content on its way to it, *)
(* and what is left of a replay.                                           *)
Content(c) == seen[c] \o ContentOf(OnTheWay(c))
Rest(c) == IF Replaying(c) THEN snap ELSE <<>>
Stream(c) == Content(c) \o Rest(c)

LEMMA StreamTypes ==
    ASSUME IndInv, NEW c \in Conn
    PROVE  /\ OnTheWay(c) \in Seq(Cell) /\ ContentOf(OnTheWay(c)) \in Seq(Nat)
           /\ seen[c] \in Seq(Nat) /\ Content(c) \in Seq(Nat)
           /\ Rest(c) \in Seq(Nat) /\ Stream(c) \in Seq(Nat)
           /\ consumed \in Nat
<1>1. /\ rbuf[c] \in Seq(Cell) /\ down[c] \in Seq(Cell) /\ client[c].send_queue \in Seq(Cell)
      /\ seen[c] \in Seq(Nat) /\ consumed \in Nat
  BY ConnTypes
<1>2. OnTheWay(c) \in Seq(Cell)
  <2>1. rbuf[c] \o down[c] \in Seq(Cell)
    BY <1>1, ConcatProperties
  <2>. QED
    BY <1>1, <2>1, ConcatProperties DEF OnTheWay
<1>3. ContentOf(OnTheWay(c)) \in Seq(Nat)
  BY <1>2, ContentConcat
<1>4. Rest(c) \in Seq(Nat)
  BY DEF Rest, IndInv, TypeOK, ServerTypeOK
<1>5. Content(c) \in Seq(Nat)
  BY <1>1, <1>3, ConcatProperties DEF Content
<1>6. Stream(c) \in Seq(Nat)
  BY <1>4, <1>5, ConcatProperties DEF Stream
<1>. QED
  BY <1>1, <1>2, <1>3, <1>4, <1>5, <1>6

(* The same after a step. *)
LEMMA StreamTypesNext ==
    ASSUME IndInv', NEW c \in Conn
    PROVE  /\ OnTheWay(c)' \in Seq(Cell) /\ ContentOf(OnTheWay(c)') \in Seq(Nat)
           /\ seen'[c] \in Seq(Nat) /\ Content(c)' \in Seq(Nat)
           /\ Rest(c)' \in Seq(Nat) /\ Stream(c)' \in Seq(Nat)
           /\ consumed' \in Nat
<1>1. /\ rbuf'[c] \in Seq(Cell) /\ down'[c] \in Seq(Cell) /\ client'[c].send_queue \in Seq(Cell)
      /\ seen'[c] \in Seq(Nat) /\ consumed' \in Nat
  BY DEF IndInv, TypeOK, KernelTypeOK, ServerTypeOK, ClientTypeOK, Client
<1>2. OnTheWay(c)' \in Seq(Cell)
  <2>1. rbuf'[c] \o down'[c] \in Seq(Cell)
    BY <1>1, ConcatProperties
  <2>. QED
    BY <1>1, <2>1, ConcatProperties DEF OnTheWay
<1>3. ContentOf(OnTheWay(c)') \in Seq(Nat)
  BY <1>2, ContentConcat
<1>4. Rest(c)' \in Seq(Nat)
  BY DEF Rest, IndInv, TypeOK, ServerTypeOK
<1>5. Content(c)' \in Seq(Nat)
  BY <1>1, <1>3, ConcatProperties DEF Content
<1>6. Stream(c)' \in Seq(Nat)
  BY <1>4, <1>5, ConcatProperties DEF Stream
<1>. QED
  BY <1>1, <1>2, <1>3, <1>4, <1>5, <1>6

(* c is attached to the session and watches it. *)
Live(c) ==
    Watches(c) /\ cliSock[c] = "open" /\ srvSock[c] = "open" /\ client[c].attached

(* Its stream is then the output up to the last byte read from the pty. *)
LEMMA LiveStream ==
    ASSUME IndInv, HistoryExact, NEW c \in Conn, GoodWire(c), Fine(c), Live(c)
    PROVE  /\ IsRun(Stream(c), consumed)
           /\ Stream(c) # <<>> => Stream(c)[Len(Stream(c))] = consumed
<1>1. /\ cliSock[c] = "open" /\ srvSock[c] = "open" /\ client[c].attached /\ Watches(c)
      /\ ~client[c].disconnected
  BY DEF Live, Fine, Served
<1>2. PICK t \in Seq(Cell), ps \in Seq(Packet) : Carries(c, t, ps) /\ Good(c, ps)
  BY <1>1 DEF GoodWire
<1>3. PICK qs \in Seq(Packet) : Carries(c, <<>>, qs) /\ Promised(c, qs)
  BY <1>1 DEF Fine, Wired, Owed
<1>4. Wire(ps) = OnTheWay(c) /\ Wire(qs) = OnTheWay(c)
  BY <1>1, <1>2, <1>3, WholeWire, EmptySeq
<1>5. Content(c) = Total(c, ps)
  <2>1. ContentOf(Wire(ps)) = Shown(ps)
    BY WireIsGood DEF WireGood
  <2>. QED
    BY <1>4, <2>1 DEF Content, Total
<1>6. UpToDate(Stream(c))
  BY <1>1, <1>2, <1>5 DEF Good, Streamed, Stream, Rest
<1>7. Len(Stream(c)) <= consumed
  <2>1. Total(c, ps) = Total(c, qs)
    BY <1>4, SameTotal
  <2>2. Len(Content(c)) + Replayable(c) <= consumed
    BY <1>1, <1>3, <1>5, <2>1 DEF Promised, Light
  <2>3. Content(c) \in Seq(Nat) /\ Rest(c) \in Seq(Nat)
    BY StreamTypes
  <2>4. Len(Rest(c)) = Replayable(c)
    BY DEF Rest, Replayable
  <2>5. Len(Stream(c)) = Len(Content(c)) + Len(Rest(c))
    BY <2>3, ConcatProperties DEF Stream
  <2>. QED
    BY <2>2, <2>4, <2>5
<1>8. Stream(c) \in Seq(Nat) /\ consumed \in Nat
  BY StreamTypes
<1>. QED
  BY <1>6, <1>7, <1>8, NewestRun DEF UpToDate, HistoryExact

-------------------------------------------------------------------------------
(* What c has been shown once all before the i-th cell on its way is.      *)
Before(c, i) == seen[c] \o ContentOf(Take(OnTheWay(c), i - 1))

(* s is all that was recorded before the end was decided, or nothing. *)
Reaching(s) == s # <<>> => s[Len(s)] >= final

(* The stream of a client is a run of the output; a watching client that is *)
(* not attached yet has none; and when it comes to MSG_EXIT, everything     *)
(* recorded before the end is behind it.                                    *)
Held(c) ==
    cliSock[c] = "open" =>
      /\ ~Live(c) => IsRun(Stream(c), consumed)
      /\ Watches(c) =>
           /\ srvSock[c] # "closed" /\ ~client[c].attached => Stream(c) = <<>>
           /\ \A i \in 1..Len(OnTheWay(c)) :
                OnTheWay(c)[i].typ = "EXIT" => child_exit # NoStatus /\ Reaching(Before(c, i))

(* Only a client that watches ever asks to be attached. *)
NoAttach(s) == \A i \in 1..Len(s) : s[i].typ # "ATTACH"

Asking(c) ==
    ~Watches(c) => ~client[c].attached /\ NoAttach(client[c].buf) /\ NoAttach(up[c])

(* The exit code is the last thing a program learns. *)
CodeLast(c) == cpc[c] # "done" => code[c] = NoCode

(* A step that leaves c's place on the wire, takes nothing back from what   *)
(* it was shown and brings no MSG_EXIT too early.                           *)
Warned(c) ==
    \A i \in 1..Len(OnTheWay(c)') :
      OnTheWay(c)'[i].typ = "EXIT" =>
        \/ \E j \in 1..Len(OnTheWay(c)) :
             OnTheWay(c)[j].typ = "EXIT" /\ Before(c, i)' = Before(c, j)
        \/ child_exit # NoStatus /\ Reaching(Before(c, i)')

Streams(c) ==
    \/ Starts(Stream(c)', Stream(c))
    \/ Live(c)'
    \/ ~Watches(c) /\ Stream(c)' = Newest(consumed')

Moves(c) ==
    /\ cliSock[c] = "open"
    /\ srvSock'[c] # "closed" /\ ~client'[c].attached => srvSock[c] # "closed" /\ ~client[c].attached
    /\ Streams(c)
    /\ Watches(c) => Warned(c)

(* The end is decided once. *)
EndKept == child_exit # NoStatus => UNCHANGED <<child_exit, final>>

(* What a step must do to c's stream for the promise about it to last. *)
LEMMA HeldStep ==
    ASSUME IndInv, IndInv', HistoryExact, NEW c \in Conn, GoodWire(c), Fine(c), Held(c),
           consumed <= consumed', EndKept, Moves(c)
    PROVE  Held(c)'
<1>1. /\ Stream(c) \in Seq(Nat) /\ Stream(c)' \in Seq(Nat)
      /\ consumed \in Nat /\ consumed' \in Nat
  BY StreamTypes, StreamTypesNext
<1>2. cliSock[c] = "open"
  BY DEF Moves
<1>3. IsRun(Stream(c), consumed')
  <2>1. IsRun(Stream(c), consumed)
    BY <1>2, LiveStream DEF Held
  <2>. QED
    BY <1>1, <2>1, RunLater
<1>4. ASSUME ~Live(c)' PROVE IsRun(Stream(c)', consumed')
  <2>1. CASE Starts(Stream(c)', Stream(c))
    BY <1>1, <1>3, <2>1, RunPart
  <2>2. CASE Stream(c)' = Newest(consumed')
    <3>1. /\ Newest(consumed') \in Seq(Nat)
          /\ Newest(consumed') = OutputFrom(consumed' - Len(Newest(consumed')), consumed')
          /\ Len(Newest(consumed')) = (IF consumed' <= HISTORY_CAP THEN consumed' ELSE HISTORY_CAP)
      BY <1>1, NewestUpToDate
    <3>2. Len(Newest(consumed')) <= consumed' /\ Len(Newest(consumed')) >= Len(Newest(consumed'))
      BY <1>1, <3>1, HistoryCapAssumption
    <3>3. IsRun(Newest(consumed'), consumed')
      BY <1>1, <3>1, <3>2, NewestRun
    <3>. QED
      BY <2>2, <3>3
  <2>. QED
    BY <1>4, <2>1, <2>2 DEF Moves, Streams
<1>5. ASSUME Watches(c), srvSock'[c] # "closed", ~client'[c].attached
      PROVE  Stream(c)' = <<>>
  <2>1. Stream(c) = <<>>
    BY <1>2, <1>5 DEF Held, Moves
  <2>2. Starts(Stream(c)', Stream(c))
    BY <1>5 DEF Moves, Streams, Live
  <2>3. Len(Stream(c)') <= 0
    BY <2>1, <2>2 DEF Starts
  <2>. QED
    BY <1>1, <2>3
<1>6. ASSUME Watches(c), NEW i \in 1..Len(OnTheWay(c)'), OnTheWay(c)'[i].typ = "EXIT"
      PROVE  child_exit' # NoStatus /\ Reaching(Before(c, i))'
  <2>1. child_exit # NoStatus /\ Reaching(Before(c, i)')
    BY <1>2, <1>6 DEF Held, Moves, Warned
  <2>. QED
    BY <2>1 DEF EndKept, Reaching
<1>. QED
  BY <1>4, <1>5, <1>6 DEF Held

-------------------------------------------------------------------------------
(* Where a cell of a concatenation is, and what is before it.              *)
Found(r, i, s, k, b) == r[i] = s[k] /\ Take(r, i - 1) = b

LEMMA FoundFirst ==
    ASSUME NEW X, NEW s \in Seq(X), NEW t \in Seq(X), NEW r, Joins(r, s, t), NEW i \in 1..Len(s)
    PROVE  Found(r, i, s, i, Take(s, i - 1)) /\ i \in 1..Len(r)
<1>1. /\ Len(s) \in Nat /\ Len(t) \in Nat /\ r \in Seq(X) /\ Len(r) = Len(s) + Len(t)
      /\ \A k \in 1..Len(s) : r[k] = s[k]
  BY ConcatProperties DEF Joins
<1>2. i - 1 \in Nat /\ i - 1 <= Len(s) /\ i - 1 <= Len(r) /\ \A k \in 1..(i - 1) : k \in 1..Len(s)
  BY <1>1
<1>3. SubSeq(r, 1, i - 1) = SubSeq(s, 1, i - 1)
  <2>. DEFINE n == i - 1
              u == SubSeq(r, 1, n)
              v == SubSeq(s, 1, n)
  <2>1. n \in 0..Len(r) /\ n \in 0..Len(s)
    BY <1>1, <1>2
  <2>. HIDE DEF n
  <2>2. /\ u \in Seq(X) /\ Len(u) = n /\ v \in Seq(X) /\ Len(v) = n
    BY <1>1, <2>1, SplitSeq
  <2>3. \A k \in 1..n : u[k] = r[k] /\ v[k] = s[k]
    BY <1>1, <2>1
  <2>4. \A k \in 1..n : u[k] = v[k]
    BY <1>1, <2>1, <2>3
  <2>. HIDE DEF u, v
  <2>5. u = v
    BY <2>2, <2>4, SameSeq
  <2>. QED
    BY <2>5 DEF u, v, n
<1>4. r[i] = s[i] /\ i \in 1..Len(r)
  BY <1>1
<1>. QED
  BY <1>3, <1>4 DEF Found, Take

LEMMA FoundSecond ==
    ASSUME NEW X, NEW s \in Seq(X), NEW t \in Seq(X), NEW r, Joins(r, s, t), NEW k \in 1..Len(t)
    PROVE  Found(r, Len(s) + k, t, k, s \o Take(t, k - 1)) /\ Len(s) + k \in 1..Len(r)
<1>1. /\ Len(s) \in Nat /\ Len(t) \in Nat /\ r \in Seq(X) /\ Len(r) = Len(s) + Len(t)
      /\ \A j \in 1..Len(r) : r[j] = IF j <= Len(s) THEN s[j] ELSE t[j - Len(s)]
  BY ConcatProperties DEF Joins
<1>. DEFINE n == k - 1
            i == Len(s) + n
            b == SubSeq(t, 1, n)
            u == SubSeq(r, 1, i)
            v == s \o b
<1>2. n \in 0..Len(t) /\ i \in 0..Len(r) /\ Len(s) + k - 1 = i /\ Len(s) + k \in 1..Len(r)
  BY <1>1
<1>3. r[Len(s) + k] = t[k]
  BY <1>1, <1>2
<1>4. b \in Seq(X) /\ Len(b) = n /\ u \in Seq(X) /\ Len(u) = i
  <2>. HIDE DEF n, i
  <2>. QED
    BY <1>1, <1>2, SplitSeq
<1>5. v \in Seq(X) /\ Len(v) = i
      /\ \A j \in 1..i : v[j] = IF j <= Len(s) THEN s[j] ELSE b[j - Len(s)]
  <2>. HIDE DEF b, n
  <2>1. /\ v \in Seq(X) /\ Len(v) = Len(s) + Len(b)
        /\ \A j \in 1..Len(v) : v[j] = IF j <= Len(s) THEN s[j] ELSE b[j - Len(s)]
    BY <1>1, <1>4, ConcatProperties
  <2>. QED
    BY <1>4, <2>1
<1>6. ASSUME NEW j \in 1..i PROVE u[j] = v[j]
  <2>1. u[j] = r[j]
    BY <1>1, <1>2
  <2>2. j > Len(s) => b[j - Len(s)] = t[j - Len(s)]
    BY <1>1, <1>2
  <2>3. j \in 1..Len(r)
    BY <1>1, <1>2
  <2>. HIDE DEF u, v, b, i
  <2>4. CASE j <= Len(s)
    BY <1>1, <1>5, <2>1, <2>3, <2>4
  <2>5. CASE j > Len(s)
    BY <1>1, <1>5, <2>1, <2>2, <2>3, <2>5
  <2>. QED
    BY <1>1, <2>4, <2>5
<1>7. u = v
  <2>. HIDE DEF u, v, i
  <2>. QED
    BY <1>4, <1>5, <1>6, SameSeq
<1>8. Take(r, Len(s) + k - 1) = s \o Take(t, k - 1)
  BY <1>2, <1>7 DEF Take
<1>. QED
  BY <1>2, <1>3, <1>8 DEF Found

(* Some of the newest cells lost. *)
LEMMA BackWarned ==
    ASSUME IndInv', NEW c \in Conn, seen'[c] = seen[c],
           NEW x \in Seq(Cell), Joins(OnTheWay(c), OnTheWay(c)', x)
    PROVE  Warned(c)
<1>. SUFFICES ASSUME NEW i \in 1..Len(OnTheWay(c)'), OnTheWay(c)'[i].typ = "EXIT"
              PROVE  \E j \in 1..Len(OnTheWay(c)) :
                       OnTheWay(c)[j].typ = "EXIT" /\ Before(c, i)' = Before(c, j)
  BY DEF Warned
<1>1. OnTheWay(c)' \in Seq(Cell)
  BY StreamTypesNext
<1>2. /\ Found(OnTheWay(c), i, OnTheWay(c)', i, Take(OnTheWay(c)', i - 1))
      /\ i \in 1..Len(OnTheWay(c))
  BY <1>1, FoundFirst
<1>3. Before(c, i)' = Before(c, i) /\ OnTheWay(c)[i].typ = "EXIT"
  BY <1>2 DEF Before, Found
<1>. QED
  BY <1>2, <1>3

LEMMA SameWarned ==
    ASSUME IndInv, NEW c \in Conn, seen'[c] = seen[c], OnTheWay(c)' = OnTheWay(c)
    PROVE  Warned(c)
BY DEF Warned, Before

(* A packet more. *)
LEMMA GainWarned ==
    ASSUME IndInv, NEW c \in Conn, seen'[c] = seen[c],
           NEW p \in Packet, Joins(OnTheWay(c)', OnTheWay(c), packet_bytes(p)),
           p.typ = "EXIT" => child_exit # NoStatus /\ Reaching(Content(c))
    PROVE  Warned(c)
<1>. DEFINE w == OnTheWay(c)
            v == OnTheWay(c)'
            b == packet_bytes(p)
<1>1. w \in Seq(Cell) /\ b \in Seq(Cell) /\ Len(w) \in Nat /\ Len(b) = 1 + Len(p.payload)
      /\ Len(p.payload) \in Nat
  BY StreamTypes, PacketBytesType
<1>2. Len(v) = Len(w) + Len(b)
  BY <1>1, ConcatProperties DEF Joins
<1>. SUFFICES ASSUME NEW i \in 1..Len(v), v[i].typ = "EXIT"
              PROVE  \/ \E j \in 1..Len(w) : w[j].typ = "EXIT" /\ Before(c, i)' = Before(c, j)
                     \/ child_exit # NoStatus /\ Reaching(Before(c, i)')
  BY DEF Warned
<1>3. CASE i <= Len(w)
  <2>1. i \in 1..Len(w)
    BY <1>1, <1>3
  <2>2. Found(v, i, w, i, Take(w, i - 1))
    BY <1>1, <2>1, FoundFirst
  <2>3. Before(c, i)' = Before(c, i) /\ w[i].typ = "EXIT"
    BY <2>2 DEF Before, Found
  <2>. QED
    BY <2>1, <2>3
<1>4. CASE i > Len(w)
  <2>. DEFINE k == i - Len(w)
  <2>1. k \in 1..Len(b) /\ Len(w) + k = i
    BY <1>1, <1>2, <1>4
  <2>. HIDE DEF k
  <2>2. Found(v, i, b, k, w \o Take(b, k - 1))
    <3>. HIDE DEF w, v, b
    <3>1. Found(v, Len(w) + k, b, k, w \o Take(b, k - 1))
      BY <1>1, <2>1, FoundSecond DEF w, v, b
    <3>. QED
      BY <2>1, <3>1
  <2>3. b[k].typ = "EXIT"
    BY <2>2 DEF Found
  <2>4. k = 1 /\ p.typ = "EXIT"
    <3>1. /\ b[1].typ = p.typ
          /\ \A j \in 2..(1 + Len(p.payload)) : b[j].typ \in {"byte", "word"}
      BY PacketCellsAt
    <3>2. k # 1 => k \in 2..(1 + Len(p.payload))
      BY <1>1, <2>1
    <3>. QED
      BY <2>3, <3>1, <3>2
  <2>5. Take(v, i - 1) = w
    <3>1. Take(b, 0) = <<>>
      BY <1>1, SplitSeq, EmptySeq DEF Take
    <3>2. k - 1 = 0
      BY <2>4
    <3>3. w \o <<>> = w
      BY <1>1, ConcatEmptySeq
    <3>. QED
      BY <2>2, <3>1, <3>2, <3>3 DEF Found
  <2>6. Before(c, i)' = Content(c)
    BY <2>5 DEF Before, Content
  <2>. QED
    BY <2>4, <2>6
<1>. QED
  BY <1>1, <1>2, <1>3, <1>4

(* A packet read. *)
LEMMA ReadWarned ==
    ASSUME IndInv, IndInv', NEW c \in Conn, NEW p \in Packet,
           Joins(OnTheWay(c), packet_bytes(p), OnTheWay(c)'),
           Joins(seen'[c], seen[c], BytesOf(p))
    PROVE  Warned(c)
<1>. DEFINE w == OnTheWay(c)
            v == OnTheWay(c)'
            b == packet_bytes(p)
<1>1. v \in Seq(Cell) /\ b \in Seq(Cell) /\ seen[c] \in Seq(Nat)
  BY StreamTypes, StreamTypesNext, PacketBytesType
<1>. SUFFICES ASSUME NEW i \in 1..Len(v), v[i].typ = "EXIT"
              PROVE  \E j \in 1..Len(w) : w[j].typ = "EXIT" /\ Before(c, i)' = Before(c, j)
  BY DEF Warned
<1>. DEFINE j == Len(b) + i
            u == Take(v, i - 1)
<1>2. Found(w, j, v, i, b \o u) /\ j \in 1..Len(w)
  <2>. HIDE DEF w, v, b
  <2>. QED
    BY <1>1, FoundSecond DEF w, v, b
<1>3. u \in Seq(Cell)
  <2>1. i - 1 \in 0..Len(v)
    BY <1>1
  <2>. QED
    BY <1>1, <2>1, SplitSeq DEF Take
<1>4. ContentOf(u) \in Seq(Nat) /\ BytesOf(p) \in Seq(Nat)
      /\ Joins(ContentOf(b \o u), BytesOf(p), ContentOf(u))
  <2>1. Joins(ContentOf(b \o u), ContentOf(b), ContentOf(u)) /\ ContentOf(b) \in Seq(Nat)
        /\ ContentOf(u) \in Seq(Nat)
    BY <1>1, <1>3, ContentConcat
  <2>2. ContentOf(b) = BytesOf(p)
    BY ContentOfPacket
  <2>. QED
    BY <2>1, <2>2
<1>5. Before(c, i)' = seen'[c] \o ContentOf(u)
  BY DEF Before
<1>6. Before(c, j) = seen[c] \o ContentOf(b \o u) /\ w[j].typ = "EXIT"
  <2>. HIDE DEF u, j, w
  <2>1. Take(w, j - 1) = b \o u /\ w[j] = v[i]
    BY <1>2 DEF Found
  <2>. QED
    BY <2>1 DEF Before, w
<1>7. Before(c, i)' = Before(c, j)
  <2>. DEFINE a == seen[c]
              g == BytesOf(p)
              d == ContentOf(u)
              f == ContentOf(b \o u)
              h == seen'[c]
  <2>1. a \in Seq(Nat) /\ g \in Seq(Nat) /\ d \in Seq(Nat) /\ f = g \o d /\ h = a \o g
    BY <1>1, <1>4 DEF Joins
  <2>2. Before(c, i)' = h \o d /\ Before(c, j) = a \o f
    BY <1>5, <1>6
  <2>. HIDE DEF a, g, d, f, h
  <2>3. Assoc(a, g, d)
    BY <2>1, ConcatAssoc
  <2>. QED
    BY <2>1, <2>2, <2>3 DEF Assoc
<1>. QED
  BY <1>2, <1>6, <1>7

-------------------------------------------------------------------------------
(* Streams after such steps. *)
LEMMA BackStreams ==
    ASSUME IndInv, IndInv', NEW c \in Conn, seen'[c] = seen[c],
           NEW x \in Seq(Cell), Joins(OnTheWay(c), OnTheWay(c)', x),
           Rest(c)' = <<>>
    PROVE  Streams(c)
<1>. DEFINE w == OnTheWay(c)
            v == OnTheWay(c)'
            a == seen[c]
            f == ContentOf(v)
            g == ContentOf(x)
            d == Rest(c)
<1>1. /\ v \in Seq(Cell) /\ a \in Seq(Nat) /\ d \in Seq(Nat) /\ Content(c) \in Seq(Nat)
      /\ Content(c)' \in Seq(Nat) /\ Stream(c) \in Seq(Nat) /\ Stream(c)' \in Seq(Nat)
  BY StreamTypes, StreamTypesNext
<1>2. f \in Seq(Nat) /\ g \in Seq(Nat) /\ ContentOf(w) = f \o g
  BY <1>1, ContentConcat DEF Joins
<1>3. Content(c) = a \o (f \o g) /\ Content(c)' = a \o f
  BY <1>2 DEF Content
<1>4. Stream(c)' = Content(c)'
  BY <1>1, ConcatEmptySeq DEF Stream
<1>5. Stream(c) = Content(c) \o d
  BY DEF Stream
<1>. HIDE DEF a, f, g, d
<1>6. Assoc(a, f, g)
  BY <1>1, <1>2, ConcatAssoc DEF a
<1>7. Joins(Content(c), Content(c)', g)
  BY <1>3, <1>6 DEF Assoc, Joins
<1>8. Starts(Content(c)', Content(c)) /\ Starts(Content(c), Stream(c))
  BY <1>1, <1>2, <1>5, <1>7, StartsJoin DEF Joins, d
<1>9. Starts(Content(c)', Stream(c))
  <2>1. Len(Content(c)') \in Nat /\ Len(Content(c)) \in Nat /\ Len(Stream(c)) \in Nat
    BY <1>1
  <2>. QED
    BY <1>8, <2>1 DEF Starts
<1>. QED
  BY <1>4, <1>9 DEF Streams

LEMMA SameStreams ==
    ASSUME IndInv, NEW c \in Conn, Stream(c)' = Stream(c)
    PROVE  Streams(c)
BY StreamTypes, StartsSelf DEF Streams

(* A packet more, with the next of what is left of the replay. *)
LEMMA GainStreams ==
    ASSUME IndInv, IndInv', NEW c \in Conn, seen'[c] = seen[c], NEW p \in Packet,
           Joins(OnTheWay(c)', OnTheWay(c), packet_bytes(p)),
           Joins(Rest(c), BytesOf(p), Rest(c)')
    PROVE  Streams(c)
<1>. DEFINE w == OnTheWay(c)
            b == packet_bytes(p)
            a == seen[c]
            f == ContentOf(w)
            g == BytesOf(p)
            d == Rest(c)'
            h == a \o f
<1>1. /\ w \in Seq(Cell) /\ b \in Seq(Cell) /\ a \in Seq(Nat) /\ f \in Seq(Nat)
      /\ d \in Seq(Nat) /\ h \in Seq(Nat)
  BY StreamTypes, StreamTypesNext, PacketBytesType DEF Content
<1>2. g \in Seq(Nat) /\ ContentOf(OnTheWay(c)') = f \o g
  BY <1>1, ContentConcat, ContentOfPacket DEF Joins
<1>3. Stream(c)' = (a \o (f \o g)) \o d /\ Stream(c) = h \o (g \o d)
  BY <1>2 DEF Stream, Content, Joins
<1>4. h = a \o f
  OBVIOUS
<1>. HIDE DEF a, f, g, d, h
<1>5. Assoc(a, f, g) /\ Assoc(h, g, d)
  BY <1>1, <1>2, ConcatAssoc
<1>6. Stream(c)' = Stream(c)
  BY <1>3, <1>4, <1>5 DEF Assoc
<1>. QED
  BY <1>6, SameStreams

(* A packet read. *)
LEMMA ReadStreams ==
    ASSUME IndInv, IndInv', NEW c \in Conn, NEW p \in Packet,
           Joins(OnTheWay(c), packet_bytes(p), OnTheWay(c)'),
           Joins(seen'[c], seen[c], BytesOf(p)), Rest(c)' = Rest(c)
    PROVE  Streams(c) /\ Joins(Content(c), seen'[c], ContentOf(OnTheWay(c)'))
<1>. DEFINE v == OnTheWay(c)'
            b == packet_bytes(p)
            a == seen[c]
            f == ContentOf(v)
            g == BytesOf(p)
            h == seen'[c]
<1>1. v \in Seq(Cell) /\ b \in Seq(Cell) /\ a \in Seq(Nat) /\ f \in Seq(Nat)
  BY StreamTypes, StreamTypesNext, PacketBytesType
<1>2. g \in Seq(Nat) /\ ContentOf(OnTheWay(c)) = g \o f
  BY <1>1, ContentConcat, ContentOfPacket DEF Joins
<1>3. Content(c)' = h \o f /\ Content(c) = a \o (g \o f) /\ h = a \o g
  BY <1>2 DEF Content, Joins
<1>4. Stream(c)' = Content(c)' \o Rest(c) /\ Stream(c) = Content(c) \o Rest(c)
  BY DEF Stream
<1>. HIDE DEF a, f, g, h
<1>5. Assoc(a, g, f)
  BY <1>1, <1>2, ConcatAssoc
<1>6. Content(c)' = Content(c)
  BY <1>3, <1>5 DEF Assoc
<1>7. Streams(c)
  BY <1>4, <1>6, SameStreams
<1>. QED
  BY <1>3, <1>6, <1>7 DEF Joins, h, f

-------------------------------------------------------------------------------
(* The clients.                                                            *)
LEMMA SameEnd ==
    ASSUME NEW X, NEW a, NEW b, NEW t, a \in Seq(X), b \in Seq(X), t \in Seq(X),
           NEW r, Joins(r, a, t), Joins(r, b, t)
    PROVE  a = b
<1>1. /\ Len(a) \in Nat /\ Len(b) \in Nat /\ Len(t) \in Nat
      /\ Len(r) = Len(a) + Len(t) /\ Len(r) = Len(b) + Len(t)
      /\ \A i \in 1..Len(a) : r[i] = a[i]
      /\ \A i \in 1..Len(b) : r[i] = b[i]
  <2>1. ASSUME NEW d \in Seq(X), r = d \o t
        PROVE  Len(r) = Len(d) + Len(t) /\ \A i \in 1..Len(d) : r[i] = d[i]
    BY <2>1, ConcatProperties
  <2>. QED
    BY <2>1, LenProperties DEF Joins
<1>2. Len(a) = Len(b)
  BY <1>1
<1>. QED
  BY <1>1, <1>2, SameSeq

(* The packet a client reads is the front of what is on its way. *)
LEMMA RecvCells ==
    ASSUME IndInv, NEW c \in Conn, GoodWire(c), cliSock[c] = "open", Whole(c)
    PROVE  /\ RecvPacket(c) \in Packet /\ BytesOf(RecvPacket(c)) \in Seq(Nat)
           /\ RecvRest(c) \in Seq(Cell)
           /\ Joins(OnTheWay(c), packet_bytes(RecvPacket(c)), RecvRest(c) \o client[c].send_queue)
           /\ cpc[c] = "pid" => BytesOf(RecvPacket(c)) = <<>>
<1>1. PICK t \in Seq(Cell), ps \in Seq(Packet) : Carries(c, t, ps) /\ Good(c, ps)
  BY DEF GoodWire
<1>. DEFINE p == RecvPacket(c)
            d == RecvRest(c)
            q == client[c].send_queue
            w == OnTheWay(c)
            b == packet_bytes(p)
            y == d \o q
<1>2. /\ ps # <<>> /\ p = Head(ps) /\ d \in Seq(Cell) /\ Joins(Wire(Tail(ps)), y, t)
  BY <1>1, RecvWire
<1>3. /\ p \in Packet /\ Tail(ps) \in Seq(Packet) /\ Joins(Wire(ps), b, Wire(Tail(ps)))
      /\ Joins(Shown(ps), BytesOf(p), Shown(Tail(ps)))
  BY <1>2, WireHead
<1>4. /\ w \in Seq(Cell) /\ q \in Seq(Cell) /\ b \in Seq(Cell) /\ seen[c] \in Seq(Nat)
      /\ Shown(ps) \in Seq(Nat) /\ Shown(Tail(ps)) \in Seq(Nat) /\ BytesOf(p) \in Seq(Nat)
  <2>1. p.payload \in Seq(Nat) /\ <<>> \in Seq(Nat)
    BY <1>3 DEF Packet
  <2>2. BytesOf(p) \in Seq(Nat)
    BY <2>1 DEF BytesOf
  <2>. QED
    BY <1>3, <2>2, StreamTypes, ConnTypes, PacketBytesType, WireType
<1>5. y \in Seq(Cell)
  BY <1>2, <1>4, ConcatProperties
<1>6. Joins(Wire(ps), w, t)
  BY <1>1 DEF Carries
<1>7. cpc[c] = "pid" => BytesOf(p) = <<>>
  <2>. SUFFICES ASSUME cpc[c] = "pid" PROVE BytesOf(p) = <<>>
    OBVIOUS
  <2>1. Total(c, ps) = <<>>
    BY <1>1 DEF Good, Opened, Fresh
  <2>2. Shown(ps) = <<>>
    BY <1>4, <2>1, EmptyParts DEF Total, Joins
  <2>. HIDE DEF p
  <2>. QED
    BY <1>3, <1>4, <2>2, EmptyParts
<1>. HIDE DEF y, b, w, q, d, p
<1>8. Assoc(b, y, t)
  BY <1>4, <1>5, ConcatAssoc
<1>9. Joins(Wire(ps), b \o y, t) /\ b \o y \in Seq(Cell)
  BY <1>2, <1>3, <1>4, <1>5, <1>8, ConcatProperties DEF Joins, Assoc
<1>10. w = b \o y
  BY <1>4, <1>6, <1>9, SameEnd
<1>. QED
  BY <1>2, <1>3, <1>4, <1>7, <1>10 DEF Joins, y, b, w, q, d, p

LEMMA ClientRest ==
    ASSUME NEW c \in Conn, UNCHANGED serverVars
    PROVE  Rest(c)' = Rest(c) /\ client' = client
BY DEF Rest, Replaying, serverVars

(* A client whose connection and program a step leaves where they were. *)
LEMMA SameMoves ==
    ASSUME IndInv, NEW c \in Conn, cliSock[c] = "open",
           srvSock'[c] # "closed" /\ ~client'[c].attached => srvSock[c] # "closed" /\ ~client[c].attached,
           OnTheWay(c)' = OnTheWay(c), seen'[c] = seen[c], Rest(c)' = Rest(c)
    PROVE  Moves(c)
<1>1. Stream(c)' = Stream(c)
  BY DEF Stream, Content
<1>. QED
  BY <1>1, SameStreams, SameWarned DEF Moves

(* A client that reads a packet which does not end its program. *)
LEMMA ReadMoves ==
    ASSUME IndInv, IndInv', NEW c \in Conn, GoodWire(c), cliSock[c] = "open", Whole(c),
           UNCHANGED <<serverVars, srvSock>>, NEW next, Received(c, next),
           Joins(seen'[c], seen[c], BytesOf(RecvPacket(c)))
    PROVE  Moves(c) /\ Joins(Content(c), seen'[c], ContentOf(OnTheWay(c)'))
<1>1. rbuf'[c] = <<>> /\ down'[c] = RecvRest(c) /\ client' = client /\ Rest(c)' = Rest(c)
  BY TableTypes, ClientRest DEF Received
<1>2. /\ RecvPacket(c) \in Packet /\ RecvRest(c) \in Seq(Cell)
      /\ Joins(OnTheWay(c), packet_bytes(RecvPacket(c)), RecvRest(c) \o client[c].send_queue)
  BY RecvCells
<1>3. OnTheWay(c)' = RecvRest(c) \o client[c].send_queue
  <2>1. <<>> \o RecvRest(c) = RecvRest(c)
    BY <1>2, ConcatEmptySeq
  <2>. QED
    BY <1>1, <2>1 DEF OnTheWay
<1>4. Streams(c) /\ Joins(Content(c), seen'[c], ContentOf(OnTheWay(c)'))
  BY <1>1, <1>2, <1>3, ReadStreams
<1>5. Warned(c)
  BY <1>2, <1>3, ReadWarned
<1>. QED
  BY <1>1, <1>4, <1>5 DEF Moves

(* c ends, or keeps its place on the wire, or reads a packet. *)
Stays(c) ==
    /\ cliSock[c] = "open" /\ UNCHANGED <<cliSock[c], srvSock, seen[c]>>
    /\ OnTheWay(c)' = OnTheWay(c)

Reads(c) ==
    /\ cliSock[c] = "open" /\ Whole(c) /\ UNCHANGED srvSock
    /\ \E next \in CPCs : Received(c, next)
    /\ Joins(seen'[c], seen[c], BytesOf(RecvPacket(c)))

LEMMA SendOrFailStays ==
    ASSUME IndInv, NEW c \in Conn, cliSock[c] = "open", UNCHANGED <<serverVars, srvSock, seen>>,
           NEW p, NEW next, SendOrFail(c, p, next)
    PROVE  cliSock'[c] # "open" \/ Stays(c)
<1>1. CASE srvSock[c] = "closed"
  BY <1>1, TableTypes DEF SendOrFail, Finish
<1>2. CASE srvSock[c] # "closed"
  <2>1. UNCHANGED <<cliSock, down, rbuf>> /\ client' = client
    BY <1>2, ClientRest DEF SendOrFail
  <2>. QED
    BY <2>1 DEF Stays, OnTheWay
<1>. QED
  BY <1>1, <1>2

LEMMA ClientKinds ==
    ASSUME IndInv, NEW c \in Conn, Placed(c), GoodWire(c), ClientRuns(c) \/ ClientUser(c),
           UNCHANGED serverVars
    PROVE  cliSock'[c] # "open" \/ Connect(c) \/ Stays(c) \/ Reads(c)
<1>1. CASE ConnectRefused(c)
  <2>1. cliSock' = cliSock /\ cpc[c] = "start"
    BY <1>1 DEF ConnectRefused, kernelVars, sockVars
  <2>. QED
    BY <2>1 DEF Placed
<1>2. CASE RecvPart(c)
  <2>1. /\ rbuf'[c] = rbuf[c] \o down[c] /\ down'[c] = <<>>
        /\ UNCHANGED <<cliSock, srvSock, seen, client>> /\ cliSock[c] = "open"
    BY <1>2, TableTypes, ClientRest DEF RecvPart, Pending, Placed, Receiving
  <2>2. rbuf[c] \o down[c] \in Seq(Cell)
    BY ConnTypes, ConcatProperties
  <2>3. (rbuf[c] \o down[c]) \o <<>> = rbuf[c] \o down[c]
    BY <2>2, ConcatEmptySeq
  <2>. QED
    BY <2>1, <2>3 DEF Stays, OnTheWay
<1>3. CASE RecvFail(c) \/ RecvExit(c) \/ StdinDetach(c) \/ StdinEof(c) \/ Killed(c)
  BY <1>3, TableTypes DEF RecvFail, RecvExit, StdinDetach, StdinEof, Killed, Finish
<1>4. CASE RecvPid(c)
  <2>1. CASE Kind[c] = "probe"
    BY <1>4, <2>1, TableTypes DEF RecvPid, Finish
  <2>2. CASE Kind[c] # "probe"
    <3>1. /\ cpc[c] = "pid" /\ Whole(c) /\ UNCHANGED <<srvSock, seen>> /\ cliSock[c] = "open"
          /\ \E next \in CPCs : Received(c, next)
      <4>. DEFINE next == CASE Kind[c] = "dump" -> "dump"
                            [] Kind[c] = "keys" -> "keys"
                            [] OTHER -> "attach"
      <4>1. Received(c, next)
        BY <1>4, <2>2 DEF RecvPid
      <4>2. next \in CPCs
        BY DEF CPCs
      <4>. HIDE DEF next
      <4>3. \E n \in CPCs : Received(c, n)
        BY <4>1, <4>2
      <4>. QED
        BY <1>4, <2>2, <4>3 DEF RecvPid, Placed
    <3>2. BytesOf(RecvPacket(c)) = <<>> /\ seen[c] \in Seq(Nat)
      BY <3>1, RecvCells, ConnTypes
    <3>3. seen[c] \o <<>> = seen[c]
      BY <3>2, ConcatEmptySeq
    <3>. QED
      BY <3>1, <3>2, <3>3 DEF Reads, Joins
  <2>. QED
    BY <2>1, <2>2
<1>5. CASE RecvLoop(c)
  <2>1. /\ Whole(c) /\ UNCHANGED srvSock /\ Received(c, "stdin") /\ cliSock[c] = "open"
        /\ seen' = [seen EXCEPT ![c] = IF RecvPacket(c).typ = "CONTENT"
                                         THEN @ \o RecvPacket(c).payload ELSE @]
    BY <1>5 DEF RecvLoop, Placed
  <2>2. Joins(seen'[c], seen[c], BytesOf(RecvPacket(c)))
    BY <2>1, ShownBytes DEF Joins
  <2>. QED
    BY <2>1, <2>2 DEF Reads, CPCs
<1>6. CASE RecvDump(c)
  <2>1. CASE RecvPacket(c).typ = "DUMP_END"
    BY <1>6, <2>1, TableTypes DEF RecvDump, Finish
  <2>2. CASE RecvPacket(c).typ # "DUMP_END"
    <3>1. /\ Whole(c) /\ UNCHANGED srvSock /\ Received(c, "dumping") /\ cliSock[c] = "open"
          /\ seen' = [seen EXCEPT ![c] = IF RecvPacket(c).typ = "CONTENT"
                                           THEN @ \o RecvPacket(c).payload ELSE @]
      BY <1>6, <2>2 DEF RecvDump, Placed
    <3>2. Joins(seen'[c], seen[c], BytesOf(RecvPacket(c)))
      BY <3>1, ShownBytes DEF Joins
    <3>. QED
      BY <3>1, <3>2 DEF Reads, CPCs
  <2>. QED
    BY <2>1, <2>2
<1>7. CASE SendAttach(c) \/ send_resize(c) \/ SendDump(c)
  <2>1. cliSock[c] = "open" /\ UNCHANGED <<srvSock, seen>>
    BY <1>7 DEF SendAttach, send_resize, SendDump, Placed
  <2>2. \E p, next : SendOrFail(c, p, next)
    BY <1>7 DEF SendAttach, send_resize, SendDump
  <2>. QED
    BY <2>1, <2>2, SendOrFailStays
<1>8. CASE SendKeys(c)
  <2>1. cliSock[c] = "open" /\ UNCHANGED <<srvSock, seen>>
    BY <1>8 DEF SendKeys, Placed
  <2>2. CASE sent[c] = KEYS
    BY <1>8, <2>2, TableTypes DEF SendKeys, Finish
  <2>3. CASE sent[c] # KEYS
    <3>1. \E p, next : SendOrFail(c, p, next)
      BY <1>8, <2>3 DEF SendKeys
    <3>. QED
      BY <2>1, <3>1, SendOrFailStays
  <2>. QED
    BY <2>2, <2>3
<1>9. CASE StdinEmpty(c) \/ SelectStdin(c)
  <2>1. UNCHANGED <<cliSock, srvSock, down, rbuf, seen>> /\ client' = client /\ cliSock[c] = "open"
    BY <1>9, ClientRest DEF StdinEmpty, SelectStdin, kernelVars, sockVars, Placed
  <2>. QED
    BY <2>1 DEF Stays, OnTheWay
<1>10. CASE StdinKey(c)
  <2>1. cliSock[c] = "open" /\ UNCHANGED <<srvSock, seen>>
    BY <1>10 DEF StdinKey, Placed
  <2>2. CASE Kind[c] = "readonly"
    <3>1. UNCHANGED <<cliSock, down, rbuf>> /\ client' = client
      BY <1>10, <2>2, ClientRest DEF StdinKey
    <3>. QED
      BY <2>1, <3>1 DEF Stays, OnTheWay
  <2>3. CASE Kind[c] # "readonly"
    <3>1. \E p, next : SendOrFail(c, p, next)
      BY <1>10, <2>3 DEF StdinKey
    <3>. QED
      BY <2>1, <3>1, SendOrFailStays
  <2>. QED
    BY <2>2, <2>3
<1>. QED
  BY <1>1, <1>2, <1>3, <1>4, <1>5, <1>6, <1>7, <1>8, <1>9, <1>10 DEF ClientRuns, ClientUser

LEMMA ClientPty ==
    ASSUME NEW c \in Conn, ClientRuns(c) \/ ClientUser(c)
    PROVE  UNCHANGED ptyVars
BY DEF ClientRuns, ClientUser, Connect, ConnectRefused, RecvPart, RecvFail, RecvPid,
       RecvLoop, RecvExit, RecvDump, SendAttach, send_resize, SendDump, SendKeys,
       StdinEmpty, SelectStdin, StdinKey, StdinDetach, StdinEof, Killed, kernelVars

(* A connection that has just been made carries nothing. *)
LEMMA HeldConnect ==
    ASSUME IndInv, NEW c \in Conn, Placed(c), Connect(c), UNCHANGED serverVars
    PROVE  Held(c)'
<1>1. /\ cpc[c] = "start" /\ srvSock'[c] = "backlog"
      /\ UNCHANGED <<down, rbuf, seen>> /\ client' = client /\ Rest(c)' = Rest(c)
  BY TableTypes, ClientRest DEF Connect
<1>2. /\ srvSock[c] = "none" /\ down[c] = <<>> /\ seen[c] = <<>> /\ client[c] = NewClient
      /\ cliSock[c] = "none"
  BY <1>1 DEF IndInv, SocketsInStep, ConnInStep, Placed
<1>3. rbuf[c] = <<>> /\ client[c].send_queue = <<>>
  BY <1>2 DEF Placed, NewClient
<1>4. Rest(c) = <<>>
  BY <1>2 DEF Rest, Replaying, IndInv, SocketsInStep
<1>5. <<>> \in Seq(Cell) /\ <<>> \in Seq(Nat)
  OBVIOUS
<1>6. OnTheWay(c)' = <<>>
  <2>1. <<>> \o <<>> \o <<>> = <<>>
    BY <1>5, ConcatEmptySeq
  <2>. QED
    BY <1>1, <1>2, <1>3, <2>1 DEF OnTheWay
<1>7. ContentOf(<<>>) = <<>>
  <2>1. [i \in 1..Len(<<>>) |-> IF <<>>[i].typ = "byte" THEN <<(<<>>[i]).val>> ELSE <<>>] = <<>>
    OBVIOUS
  <2>. QED
    BY <2>1, FlattenEmpty DEF ContentOf
<1>8. Stream(c)' = <<>>
  <2>1. <<>> \o <<>> = <<>>
    BY <1>5, ConcatEmptySeq
  <2>. QED
    BY <1>1, <1>2, <1>4, <1>6, <1>7, <2>1 DEF Stream, Content
<1>9. Len(<<>>) = 0 /\ 1..0 = {}
  OBVIOUS
<1>. QED
  BY <1>6, <1>8, <1>9 DEF Held, IsRun

(* c's own steps. *)
LEMMA HeldClient ==
    ASSUME IndInv, IndInv', HistoryExact, NEW c \in Conn, Placed(c), GoodWire(c), Fine(c), Held(c),
           ClientRuns(c) \/ ClientUser(c), UNCHANGED <<serverVars, final>>
    PROVE  Held(c)'
<1>1. EndKept /\ client' = client /\ Rest(c)' = Rest(c)
  BY ClientRest DEF EndKept, serverVars
<1>2. consumed' = consumed /\ consumed \in Nat
  BY ClientPty, StreamTypes DEF ptyVars
<1>3. CASE cliSock'[c] # "open"
  BY <1>3 DEF Held
<1>4. CASE Connect(c)
  BY <1>4, HeldConnect
<1>5. CASE Stays(c)
  <2>1. Moves(c)
    BY <1>1, <1>5, SameMoves DEF Stays
  <2>. QED
    BY <1>1, <1>2, <2>1, HeldStep
<1>6. CASE Reads(c)
  <2>1. PICK next \in CPCs : Received(c, next)
    BY <1>6 DEF Reads
  <2>2. Moves(c)
    BY <1>6, <2>1, ReadMoves DEF Reads
  <2>. QED
    BY <1>1, <1>2, <2>2, HeldStep
<1>. QED
  BY <1>3, <1>4, <1>5, <1>6, ClientKinds

(* Whatever happens elsewhere. *)
LEMMA HeldElsewhere ==
    ASSUME IndInv, IndInv', HistoryExact, NEW c \in Conn, GoodWire(c), Fine(c), Held(c),
           UNCHANGED <<cliSock[c], rbuf[c], down[c], seen[c], client[c]>>,
           srvSock'[c] # "closed" => srvSock[c] # "closed",
           Rest(c)' = Rest(c), consumed <= consumed', EndKept
    PROVE  Held(c)'
<1>1. CASE cliSock[c] # "open"
  BY <1>1 DEF Held
<1>2. CASE cliSock[c] = "open"
  <2>1. OnTheWay(c)' = OnTheWay(c)
    BY DEF OnTheWay
  <2>2. Moves(c)
    BY <1>2, <2>1, SameMoves
  <2>. QED
    BY <2>2, HeldStep
<1>. QED
  BY <1>1, <1>2

(* The steps of other clients. *)
LEMMA HeldOther ==
    ASSUME IndInv, IndInv', HistoryExact, NEW d \in Conn, ClientRuns(d) \/ ClientUser(d),
           UNCHANGED <<serverVars, final>>, NEW c \in Conn, c # d, GoodWire(c), Fine(c), Held(c)
    PROVE  Held(c)'
<1>1. EndKept /\ client' = client /\ Rest(c)' = Rest(c)
  BY ClientRest DEF EndKept, serverVars
<1>2. consumed' = consumed /\ consumed \in Nat
  BY ClientPty, StreamTypes DEF ptyVars
<1>3. UNCHANGED <<cliSock[c], srvSock[c], rbuf[c], down[c], seen[c]>>
  BY OtherClient
<1>. QED
  BY <1>1, <1>2, <1>3, HeldElsewhere

-------------------------------------------------------------------------------
(* The server.  It reads and handles packets and lets time pass without     *)
(* sending anything.                                                        *)
LEMMA HeldUnsent ==
    ASSUME IndInv, IndInv', HistoryExact, NEW c \in Conn, GoodWire(c), Fine(c), Held(c),
           UNCHANGED <<clientVars, cliSock>>, down'[c] = down[c],
           srvSock'[c] # "closed" => srvSock[c] # "closed",
           client'[c].send_queue = client[c].send_queue,
           client'[c].attached = client[c].attached,
           Rest(c)' = Rest(c), consumed <= consumed', EndKept
    PROVE  Held(c)'
<1>1. CASE cliSock[c] # "open"
  BY <1>1 DEF Held
<1>2. CASE cliSock[c] = "open"
  <2>1. OnTheWay(c)' = OnTheWay(c) /\ seen'[c] = seen[c]
    BY DEF OnTheWay, clientVars
  <2>2. Moves(c)
    BY <1>2, <2>1, SameMoves
  <2>. QED
    BY <2>2, HeldStep
<1>. QED
  BY <1>1, <1>2

Unsending ==
    \/ PollShutdown \/ AcceptDone \/ PtyDone \/ WaitPid \/ Shutdown
    \/ Child /\ UNCHANGED serverVars
    \/ \E d \in Conn : ReadClient(d) \/ Elapse(d)
    \/ HandleInput \/ HandleResize \/ HandleDetach \/ EndClient

(* The steps of the server that send nothing. *)
LEMMA HeldUnsending ==
    ASSUME IndInv, IndInv', HistoryExact, NEW c \in Conn, GoodWire(c), Fine(c), Held(c),
           UNCHANGED clientVars, EndKept, Unsending
    PROVE  Held(c)'
<1>. USE TableTypes
<1>1. consumed \in Nat
  BY StreamTypes
<1>2. CASE PollShutdown \/ AcceptDone \/ PtyDone \/ WaitPid \/ Shutdown
           \/ (Child /\ UNCHANGED serverVars)
  <2>1. UNCHANGED <<cliSock, srvSock, down, client, consumed>> /\ Rest(c)' = Rest(c)
    BY <1>2 DEF PollShutdown, AcceptDone, PtyDone, WaitPid, Shutdown, Child, ChildWrite, ChildRead,
                ChildExit, kernelVars, sockVars, ptyVars, serverVars, Rest, Replaying
  <2>. QED
    BY <1>1, <2>1, HeldUnsent
<1>3. ASSUME NEW d \in Conn, ReadClient(d) PROVE Held(c)'
  <2>1. UNCHANGED <<cliSock, srvSock, down, consumed>> /\ Rest(c)' = Rest(c)
    BY <1>3 DEF ReadClient, ptyVars, Rest, Replaying
  <2>2. /\ client'[c].send_queue = client[c].send_queue
        /\ client'[c].attached = client[c].attached
    <3>1. client[d] \in Client /\ client[c] \in Client
      OBVIOUS
    <3>2. \/ client'[c] = client[c]
          \/ \E b : \/ client'[c] = [client[c] EXCEPT !.buf = b]
                   \/ client'[c] = [[client[c] EXCEPT !.buf = b] EXCEPT !.disconnected = TRUE]
      <4>1. CASE c = d
        <5>1. CASE cliSock[d] = "reset"
          <6>1. client' = [client EXCEPT ![d].buf = @ \o up[d], ![d].disconnected = TRUE]
            BY <1>3, <5>1 DEF ReadClient
          <6>2. client'[c] = [[client[c] EXCEPT !.buf = client[c].buf \o up[d]] EXCEPT !.disconnected = TRUE]
            BY <4>1, <6>1
          <6>. QED
            BY <6>2
        <5>2. CASE cliSock[d] # "reset"
          <6>1. client' = [client EXCEPT ![d].buf = @ \o up[d]]
            BY <1>3, <5>2 DEF ReadClient
          <6>2. client'[c] = [client[c] EXCEPT !.buf = client[c].buf \o up[d]]
            BY <4>1, <6>1
          <6>. QED
            BY <6>2
        <5>. QED
          BY <5>1, <5>2
      <4>2. CASE c # d
        BY <1>3, <4>2 DEF ReadClient
      <4>. QED
        BY <4>1, <4>2
    <3>. QED
      BY <3>1, <3>2 DEF Client
  <2>. QED
    BY <1>1, <2>1, <2>2, HeldUnsent
<1>4. ASSUME NEW d \in Conn, Elapse(d) PROVE Held(c)'
  <2>1. UNCHANGED <<cliSock, srvSock, down, consumed>> /\ Rest(c)' = Rest(c)
    BY <1>4 DEF Elapse, kernelVars, sockVars, ptyVars, Rest, Replaying
  <2>2. /\ client'[c].send_queue = client[c].send_queue
        /\ client'[c].attached = client[c].attached
    BY <1>4 DEF Elapse, Client
  <2>. QED
    BY <1>1, <2>1, <2>2, HeldUnsent
<1>5. CASE HandleInput \/ HandleResize \/ HandleDetach \/ EndClient
  <2>1. UNCHANGED <<cliSock, srvSock, down, consumed>> /\ Rest(c)' = Rest(c)
    BY <1>5 DEF HandleInput, HandleResize, HandleDetach, EndClient, Popping, kernelVars, sockVars,
                ptyVars, Rest, Replaying
  <2>2. /\ client'[c].send_queue = client[c].send_queue
        /\ client'[c].attached = client[c].attached
    <3>2. \/ client'[c] = client[c]
          \/ \E b, e : \/ client'[c] = [client[c] EXCEPT !.buf = b]
                      \/ client'[c] = [client[c] EXCEPT !.disconnected = e]
                      \/ client'[c] = [[client[c] EXCEPT !.buf = b] EXCEPT !.disconnected = e]
      <4>1. CASE c = cur
        <5>1. CASE HandleInput \/ HandleResize
          BY <4>1, <5>1 DEF HandleInput, HandleResize, Popped
        <5>2. CASE HandleDetach
          BY <4>1, <5>2 DEF HandleDetach, Popped
        <5>3. CASE EndClient
          BY <4>1, <5>3 DEF EndClient
        <5>. QED
          BY <1>5, <5>1, <5>2, <5>3
      <4>2. CASE c # cur
        BY <1>5, <4>2 DEF HandleInput, HandleResize, HandleDetach, EndClient
      <4>. QED
        BY <4>1, <4>2
    <3>. QED
      BY <3>2 DEF Client
  <2>. QED
    BY <1>1, <2>1, <2>2, HeldUnsent
<1>. QED
  BY <1>2, <1>3, <1>4, <1>5 DEF Unsending

(* One more packet for c, or none. *)
LEMMA HeldSent ==
    ASSUME IndInv, IndInv', HistoryExact, NEW c \in Conn, GoodWire(c), Fine(c), Held(c),
           UNCHANGED <<clientVars, cliSock>>, EndKept, consumed <= consumed',
           cliSock[c] = "open",
           srvSock'[c] # "closed" /\ ~client'[c].attached => srvSock[c] # "closed" /\ ~client[c].attached,
           NEW p \in Packet,
           p.typ = "EXIT" => child_exit # NoStatus /\ (Watches(c) => Reaching(Content(c))),
           \/ /\ OnTheWay(c)' = OnTheWay(c)
              /\ Rest(c)' \in {Rest(c), <<>>} \/ Live(c)'
           \/ /\ Joins(OnTheWay(c)', OnTheWay(c), packet_bytes(p))
              /\ Joins(Rest(c), BytesOf(p), Rest(c)') \/ Live(c)'
    PROVE  Held(c)'
<1>1. seen'[c] = seen[c]
  BY DEF clientVars
<1>2. CASE OnTheWay(c)' = OnTheWay(c) /\ (Rest(c)' \in {Rest(c), <<>>} \/ Live(c)')
  <2>1. Warned(c)
    BY <1>1, <1>2, SameWarned
  <2>2. Streams(c)
    <3>1. CASE Live(c)'
      BY <3>1 DEF Streams
    <3>2. CASE Rest(c)' = Rest(c)
      <4>1. Stream(c)' = Stream(c)
        BY <1>1, <1>2, <3>2 DEF Stream, Content
      <4>. QED
        BY <4>1, SameStreams
    <3>3. CASE Rest(c)' = <<>>
      <4>1. OnTheWay(c)' \in Seq(Cell) /\ <<>> \in Seq(Cell)
        BY StreamTypesNext
      <4>2. Joins(OnTheWay(c), OnTheWay(c)', <<>>)
        BY <1>2, <4>1, ConcatEmptySeq DEF Joins
      <4>. QED
        BY <1>1, <3>3, <4>1, <4>2, BackStreams
    <3>. QED
      BY <1>2, <3>1, <3>2, <3>3
  <2>3. Moves(c)
    BY <2>1, <2>2 DEF Moves
  <2>. QED
    BY <2>3, HeldStep
<1>3. CASE /\ Joins(OnTheWay(c)', OnTheWay(c), packet_bytes(p))
           /\ Joins(Rest(c), BytesOf(p), Rest(c)') \/ Live(c)'
  <2>1. Watches(c) => Warned(c)
    BY <1>1, <1>3, GainWarned
  <2>2. Streams(c)
    <3>1. CASE Live(c)'
      BY <3>1 DEF Streams
    <3>2. CASE Joins(Rest(c), BytesOf(p), Rest(c)')
      BY <1>1, <1>3, <3>2, GainStreams
    <3>. QED
      BY <1>3, <3>1, <3>2
  <2>3. Moves(c)
    BY <2>1, <2>2 DEF Moves
  <2>. QED
    BY <2>3, HeldStep
<1>. QED
  BY <1>2, <1>3
LEMMA HeldPosted ==
    ASSUME IndInv, IndInv', HistoryExact, NEW c \in Conn, GoodWire(c), Fine(c), Held(c),
           UNCHANGED <<clientVars, cliSock, srvSock>>, EndKept, consumed <= consumed',
           client'[c].attached = client[c].attached,
           NEW p \in Packet, NEW r, r = send_packet_nonblocking(c, p),
           client'[c].send_queue = r.queue, down'[c] = r.wire,
           cliSock[c] = "open" =>
             /\ p.typ = "EXIT" => child_exit # NoStatus /\ (Watches(c) => Reaching(Content(c)))
             /\ ~r.ok => Rest(c)' \in {Rest(c), <<>>} \/ Live(c)'
             /\ r.ok => Joins(Rest(c), BytesOf(p), Rest(c)') \/ Live(c)'
    PROVE  Held(c)'
<1>1. CASE cliSock[c] # "open"
  BY <1>1 DEF Held
<1>2. CASE cliSock[c] = "open"
  <2>1. OnTheWay(c)' = rbuf[c] \o r.wire \o r.queue
    BY DEF OnTheWay, clientVars
  <2>2. /\ r.ok => Joins(OnTheWay(c)', OnTheWay(c), packet_bytes(p))
        /\ ~r.ok => OnTheWay(c)' = OnTheWay(c)
    <3>1. /\ r.ok => Joins(rbuf[c] \o r.wire \o r.queue, OnTheWay(c), packet_bytes(p))
          /\ ~r.ok => rbuf[c] \o r.wire \o r.queue = OnTheWay(c)
      BY <1>2, SendFacts
    <3>. QED
      BY <2>1, <3>1
  <2>. QED
    BY <1>2, <2>2, HeldSent
<1>. QED
  BY <1>1, <1>2

LEMMA HeldAccept ==
    ASSUME IndInv, IndInv', HistoryExact, NEW c \in Conn, Placed(c), GoodWire(c), Fine(c), Held(c),
           UNCHANGED clientVars, EndKept,
           NEW d \in Conn, Placed(d), Accept(d) \/ AcceptDropped(d)
    PROVE  Held(c)'
<1>. DEFINE p == [typ |-> "PID", payload |-> <<1>>]
<1>1. srvSock[d] = "backlog" /\ client[d] = NewClient /\ down[d] = <<>> /\ rbuf[d] = <<>>
  <2>1. srvSock[d] = "backlog"
    BY DEF Accept, AcceptDropped
  <2>. QED
    BY <2>1 DEF Placed, IndInv, SocketsInStep, ConnInStep
<1>2. /\ UNCHANGED <<cliSock, consumed, pc, cur, snap>> /\ UNCHANGED <<rbuf, seen>>
      /\ pc = "accept" /\ consumed \in Nat
  BY StreamTypes DEF Accept, AcceptDropped, serverVars, ptyVars, clientVars
<1>3. client'[d] = client[d] /\ (c # d => client'[c] = client[c])
  BY <1>1, TableTypes DEF Accept, AcceptDropped, serverVars
<1>4. c # d => srvSock'[c] = srvSock[c]
  BY TableTypes DEF Accept, AcceptDropped
<1>5. /\ c # d => down'[c] = down[c]
      /\ cliSock[d] = "open" => down'[d] = down[d] \o packet_bytes(p)
  BY TableTypes DEF Accept, AcceptDropped, SendPid
<1>6. Rest(c) = <<>> /\ Rest(c)' = <<>>
  BY <1>2 DEF Rest, Replaying
<1>7. CASE c # d
  BY <1>2, <1>3, <1>4, <1>5, <1>6, <1>7, HeldElsewhere
<1>8. CASE c = d /\ cliSock[c] = "open"
  <2>1. client[c].send_queue = <<>> /\ client'[c].send_queue = <<>>
        /\ ~client[c].attached /\ ~client'[c].attached
    BY <1>1, <1>3, <1>8 DEF NewClient
  <2>2. p \in Packet /\ p.typ = "PID" /\ BytesOf(p) = <<>>
    <3>1. p \in Packet /\ p.typ = "PID"
      BY DEF Packet, MsgType
    <3>. QED
      BY <3>1 DEF BytesOf
  <2>3. down'[c] = <<>> \o packet_bytes(p) /\ rbuf'[c] = <<>>
    BY <1>1, <1>2, <1>5, <1>8
  <2>. HIDE DEF p
  <2>. DEFINE b == packet_bytes(p)
  <2>4. b \in Seq(Cell)
    BY <2>2, PacketBytesType
  <2>5. down'[c] = <<>> \o b
    BY <2>3
  <2>. HIDE DEF b
  <2>6. OnTheWay(c)' = b /\ OnTheWay(c) = <<>>
    <3>1. <<>> \o b = b /\ b \o <<>> = b
      BY <2>4, ConcatEmptySeq
    <3>2. OnTheWay(c)' = (<<>> \o b) \o <<>>
      BY <2>1, <2>3, <2>5, <3>1 DEF OnTheWay
    <3>3. OnTheWay(c) = (<<>> \o <<>>) \o <<>>
      BY <1>1, <1>8, <2>1 DEF OnTheWay
    <3>. QED
      BY <3>1, <3>2, <3>3
  <2>7. Joins(OnTheWay(c)', OnTheWay(c), packet_bytes(p))
    <3>1. <<>> \o b = b
      BY <2>4, ConcatEmptySeq
    <3>. QED
      BY <2>6, <3>1 DEF Joins, b
  <2>8. Joins(Rest(c), BytesOf(p), Rest(c)')
    BY <1>6, <2>2 DEF Joins
  <2>. QED
    BY <1>1, <1>2, <1>8, <2>1, <2>2, <2>7, <2>8, HeldSent
<1>9. CASE cliSock[c] # "open"
  BY <1>2, <1>9 DEF Held
<1>. QED
  BY <1>7, <1>8, <1>9

(* Output goes to those who are attached, and they are live. *)
LEMMA HeldReadPty ==
    ASSUME IndInv, IndInv', HistoryExact, NEW c \in Conn, GoodWire(c), Fine(c), Held(c), Asking(c),
           UNCHANGED clientVars, EndKept, NEW n \in 1..MAX_PAYLOAD, ReadPty(n)
    PROVE  Held(c)'
<1>1. /\ UNCHANGED <<cliSock, srvSock, cur, snap, pc>>
      /\ pc = "pty" /\ consumed' = consumed + n
  BY DEF ReadPty
<1>2. /\ n \in Nat /\ consumed \in Nat /\ consumed <= consumed'
      /\ Rest(c) = <<>> /\ Rest(c)' = <<>>
  BY <1>1, StreamTypes, BoundAssumption DEF Rest, Replaying
<1>. DEFINE b == [i \in 1..n |-> consumed + i]
            p == content(b)
            r == send_packet_nonblocking(c, p)
<1>3. client'[c] = (IF c \in clients /\ client[c].attached THEN SentOrDisconnect(c, r) ELSE client[c])
      /\ down'[c] = (IF c \in clients /\ client[c].attached THEN r.wire ELSE down[c])
  BY DEF ReadPty, broadcast_content, SendAll
<1>4. p \in Packet /\ p.typ = "CONTENT"
  <2>1. b \in [1..n -> Nat]
    BY <1>2
  <2>. HIDE DEF b
  <2>2. b \in Seq(Nat)
    BY <1>2, <2>1, FunctionIsSeq
  <2>. QED
    BY <2>2 DEF content, Packet, MsgType
<1>. HIDE DEF p
<1>5. r = send_packet_nonblocking(c, p)
  OBVIOUS
<1>. HIDE DEF r
<1>6. CASE ~(c \in clients /\ client[c].attached)
  <2>1. client'[c] = client[c] /\ down'[c] = down[c]
    BY <1>3, <1>6
  <2>. QED
    BY <1>1, <1>2, <2>1, HeldUnsent
<1>7. CASE c \in clients /\ client[c].attached
  <2>1. client[c] \in Client /\ srvSock[c] = "open"
    BY <1>7, TableTypes DEF IndInv, SocketsInStep
  <2>2. client'[c].send_queue = r.queue /\ client'[c].attached /\ down'[c] = r.wire
    BY <1>3, <1>7, <2>1 DEF SentOrDisconnect, Client
  <2>3. cliSock[c] = "open" => Live(c)'
    BY <1>1, <1>7, <2>1, <2>2 DEF Live, Watches, Asking
  <2>. QED
    BY <1>1, <1>2, <1>4, <1>5, <1>7, <2>2, <2>3, HeldPosted
<1>. QED
  BY <1>6, <1>7
(* The history is snapped for the client that asks: an attached one is live, *)
(* and a dump has been sent nothing before.                                  *)
LEMMA HeldOpen ==
    ASSUME IndInv, IndInv', HistoryExact, NEW c \in Conn, GoodWire(c), Fine(c), Held(c), Asking(c),
           UNCHANGED clientVars, EndKept, HandleAttach \/ HandleDump
    PROVE  Held(c)'
<1>1. /\ UNCHANGED <<cliSock, srvSock, up, down, consumed, cur>> /\ UNCHANGED <<rbuf, seen>>
      /\ pc = "handle" /\ pc' = "replay" /\ snap' = history /\ consumed \in Nat
  BY StreamTypes DEF HandleAttach, HandleDump, Popping, sockVars, kernelVars, ptyVars, clientVars
<1>2. cur \in Conn /\ srvSock[cur] = "open"
  BY <1>1 DEF IndInv, SocketsInStep
<1>3. CASE c # cur
  <2>1. client'[c] = client[c] /\ Rest(c)' = Rest(c)
    BY <1>1, <1>3, TableTypes DEF HandleAttach, HandleDump, Rest, Replaying
  <2>. QED
    BY <1>1, <2>1, HeldElsewhere
<1>4. CASE cliSock[c] # "open"
  BY <1>1, <1>4 DEF Held
<1>5. ASSUME c = cur, cliSock[c] = "open" PROVE Held(c)'
  <2>1. client \in [Conn -> Client] /\ client[c] \in Client
    BY TableTypes
  <2>2. /\ client'[c].send_queue = client[c].send_queue
        /\ HandleAttach => client'[c].attached
        /\ HandleDump => client'[c].attached = client[c].attached
        /\ client'[c].buf = Tail(client[c].buf) /\ client[c].buf # <<>>
    <3>1. CASE HandleAttach
      <4>1. client'[c] = [Popped EXCEPT !.attached = TRUE, !.flags = read_u32(front.payload)]
        BY <1>5, <2>1, <3>1 DEF HandleAttach
      <4>2. ~HandleDump
        BY <3>1 DEF HandleAttach, HandleDump, Popping
      <4>. QED
        BY <1>5, <2>1, <3>1, <4>1, <4>2 DEF Client, Popped, HandleAttach, Popping
    <3>2. CASE HandleDump
      <4>1. client'[c] = [client[c] EXCEPT !.buf = Tail(@)]
        BY <1>5, <2>1, <3>2 DEF HandleDump, Popped
      <4>2. ~HandleAttach
        BY <3>2 DEF HandleAttach, HandleDump, Popping
      <4>. QED
        BY <1>5, <2>1, <3>2, <4>1, <4>2 DEF Client, HandleDump, Popping
    <3>. QED
      BY <3>1, <3>2
  <2>3. OnTheWay(c)' = OnTheWay(c)
    BY <1>1, <2>2 DEF OnTheWay
  <2>4. /\ Unread(c) \in Seq(Packet) /\ Unread(c)[1] = Head(client[c].buf)
        /\ 1 \in 1..Len(Unread(c))
    <3>1. Unread(c)[1] = Head(client[c].buf) /\ Unread(c) \in Seq(Packet) /\ Unread(c) # <<>>
      BY <1>1, <2>2, UnreadTail
    <3>. QED
      BY <3>1
  <2>5. CASE HandleAttach
    <3>1. Watches(c)
      <4>1. client[c].buf \in Seq(Packet) /\ client[c].buf # <<>>
        BY <2>2, ConnTypes
      <4>2. 1 \in 1..Len(client[c].buf) /\ client[c].buf[1] = Head(client[c].buf)
        BY <4>1
      <4>. QED
        BY <1>5, <2>5, <4>2 DEF Asking, NoAttach, HandleAttach, Popping
    <3>2. Live(c)'
      BY <1>1, <1>2, <1>5, <2>2, <2>5, <3>1 DEF Live, Watches
    <3>3. PICK p \in Packet : p.typ = "PID"
      <4>1. [typ |-> "PID", payload |-> <<>>] \in Packet
        BY DEF Packet, MsgType
      <4>. QED
        BY <4>1
    <3>. QED
      BY <1>1, <1>5, <2>2, <2>3, <2>5, <3>2, <3>3, HeldSent
  <2>6. CASE HandleDump
    <3>1. ~Watches(c)
      BY <1>5, <2>4, <2>6 DEF Fine, Served, HandleDump, Popping
    <3>2. Content(c) = <<>>
      <4>1. PICK t \in Seq(Cell), qs \in Seq(Packet) : Carries(c, t, qs) /\ Good(c, qs)
        BY <1>5 DEF GoodWire
      <4>2. Wire(qs) = OnTheWay(c)
        BY <1>2, <1>5, <4>1, WholeWire
      <4>3. ContentOf(OnTheWay(c)) = Shown(qs)
        <5>1. WireGood(qs)
          BY WireIsGood
        <5>. QED
          BY <4>2, <5>1 DEF WireGood
      <4>4. Opening(Unread(c)[1])
        BY <1>5, <2>4, <2>6 DEF HandleDump, Popping, Opening
      <4>5. Total(c, qs) = <<>>
        BY <2>4, <4>1, <4>4 DEF Good, Opened, Fresh
      <4>. QED
        BY <4>3, <4>5 DEF Content, Total
    <3>3. Rest(c)' = Newest(consumed')
      BY <1>1, <1>5 DEF Rest, Replaying, HistoryExact
    <3>4. Stream(c)' = Newest(consumed')
      <4>1. Content(c)' = <<>>
        BY <1>1, <2>3, <3>2 DEF Content
      <4>2. Rest(c)' \in Seq(Nat)
        BY StreamTypesNext
      <4>3. <<>> \o Rest(c)' = Rest(c)'
        BY <4>2, ConcatEmptySeq
      <4>. QED
        BY <3>3, <4>1, <4>3 DEF Stream
    <3>5. Moves(c)
      BY <1>1, <1>5, <2>2, <2>6, <3>1, <3>4 DEF Moves, Streams
    <3>. QED
      BY <1>1, <3>5, HeldStep
  <2>. QED
    BY <2>5, <2>6
<1>. QED
  BY <1>3, <1>4, <1>5

(* The replay takes from what is left of it what it sends. *)
LEMMA HeldChunk ==
    ASSUME IndInv, IndInv', HistoryExact, NEW c \in Conn, GoodWire(c), Fine(c), Held(c),
           UNCHANGED clientVars, EndKept, ReplayChunk \/ ReplayFail, c = cur
    PROVE  Held(c)'
<1>1. /\ UNCHANGED <<cliSock, srvSock, consumed, cur>>
      /\ pc = "replay" /\ consumed \in Nat /\ snap \in Seq(Nat)
  BY StreamTypes DEF ReplayChunk, ReplayFail, ptyVars, IndInv, TypeOK, ServerTypeOK
<1>. DEFINE p == content(chunk)
            r == send_packet_nonblocking(c, p)
<1>2. p \in Packet /\ p.typ = "CONTENT" /\ BytesOf(p) = chunk
      /\ Joins(snap, chunk, Drop(snap, Len(chunk)))
  <2>1. chunk \in Seq(Nat) /\ Joins(snap, chunk, Drop(snap, Len(chunk)))
    BY <1>1, ChunkCuts
  <2>. QED
    BY <2>1 DEF content, Packet, MsgType, BytesOf
<1>3. client[c] \in Client
  BY TableTypes
<1>4. CASE ReplayChunk
  <2>1. client'[c] = SentOrDisconnect(c, r) /\ down'[c] = r.wire /\ r.ok
    BY <1>4 DEF ReplayChunk, SendAll
  <2>2. Rest(c) = snap /\ Rest(c)' = Drop(snap, Len(chunk))
    BY <1>1, <1>4 DEF Rest, Replaying, ReplayChunk
  <2>. HIDE DEF p
  <2>3. r = send_packet_nonblocking(c, p)
    OBVIOUS
  <2>. HIDE DEF r
  <2>4. client'[c].send_queue = r.queue /\ client'[c].attached = client[c].attached
    BY <1>3, <2>1 DEF SentOrDisconnect, Client
  <2>5. Joins(Rest(c), BytesOf(p), Rest(c)')
    BY <1>2, <2>2
  <2>. QED
    BY <1>1, <1>2, <2>1, <2>3, <2>4, <2>5, HeldPosted
<1>5. CASE ReplayFail
  <2>1. client'[c] = [Replayed(c, r) EXCEPT !.disconnected = TRUE] /\ down'[c] = r.wire /\ ~r.ok
    BY <1>5 DEF ReplayFail, SendAll
  <2>2. Rest(c)' = <<>>
    BY <1>5 DEF Rest, Replaying, ReplayFail
  <2>. HIDE DEF p
  <2>3. r = send_packet_nonblocking(c, p)
    OBVIOUS
  <2>. HIDE DEF r
  <2>4. client'[c].send_queue = r.queue /\ client'[c].attached = client[c].attached
    <3>1. CASE send_end
      BY <1>3, <2>1, <3>1 DEF Replayed, SentThenClose, Client, Deadline
    <3>2. CASE ~send_end
      BY <1>3, <2>1, <3>2 DEF Replayed, Client
    <3>. QED
      BY <3>1, <3>2
  <2>5. /\ p.typ = "EXIT" => child_exit # NoStatus /\ (Watches(c) => Reaching(Content(c)))
        /\ ~r.ok => Rest(c)' \in {Rest(c), <<>>} \/ Live(c)'
        /\ r.ok => Joins(Rest(c), BytesOf(p), Rest(c)') \/ Live(c)'
    BY <1>2, <2>1, <2>2
  <2>6. down'[c] = r.wire /\ p \in Packet /\ consumed <= consumed'
    BY <1>1, <1>2, <2>1
  <2>. QED
    BY <1>1, <2>3, <2>4, <2>5, <2>6, HeldPosted
<1>. QED
  BY <1>4, <1>5

LEMMA HeldReplay ==
    ASSUME IndInv, IndInv', HistoryExact, NEW c \in Conn, GoodWire(c), Fine(c), Held(c),
           UNCHANGED clientVars, EndKept, ReplayChunk \/ ReplayFail \/ ReplayEnd
    PROVE  Held(c)'
<1>1. /\ UNCHANGED <<cliSock, srvSock, consumed, cur>> /\ UNCHANGED <<rbuf, seen>>
      /\ pc = "replay" /\ consumed \in Nat
  BY StreamTypes DEF ReplayChunk, ReplayFail, ReplayEnd, ptyVars, clientVars
<1>2. CASE c # cur
  <2>1. client'[c] = client[c] /\ down'[c] = down[c] /\ Rest(c)' = Rest(c)
    BY <1>1, <1>2 DEF ReplayChunk, ReplayFail, ReplayEnd, SendAll, Rest, Replaying
  <2>. QED
    BY <1>1, <2>1, HeldElsewhere
<1>3. CASE c = cur /\ ReplayEnd
  <2>1. Rest(c) = <<>> /\ Rest(c)' = <<>>
    BY <1>1, <1>3 DEF ReplayEnd, Rest, Replaying
  <2>2. CASE ~send_end
    <3>1. client' = client /\ down' = down
      BY <1>3, <2>2 DEF ReplayEnd
    <3>. QED
      BY <1>1, <2>1, <3>1, HeldElsewhere
  <2>3. CASE send_end
    <3>. DEFINE p == [typ |-> "DUMP_END", payload |-> <<>>]
                r == send_packet_nonblocking(c, p)
    <3>1. client'[c] = Replayed(c, r) /\ down'[c] = r.wire
      BY <1>3, <2>3 DEF ReplayEnd, SendAll
    <3>2. p \in Packet /\ p.typ = "DUMP_END" /\ BytesOf(p) = <<>>
      <4>1. p \in Packet /\ p.typ = "DUMP_END"
        BY DEF Packet, MsgType
      <4>. QED
        BY <4>1 DEF BytesOf
    <3>. HIDE DEF p
    <3>3. r = send_packet_nonblocking(c, p) /\ client[c] \in Client
      BY TableTypes
    <3>. HIDE DEF r
    <3>4. client'[c].send_queue = r.queue /\ client'[c].attached = client[c].attached
      BY <2>3, <3>1, <3>3 DEF Replayed, SentThenClose, Client
    <3>5. Joins(Rest(c), BytesOf(p), Rest(c)')
      BY <2>1, <3>2 DEF Joins
    <3>. QED
      BY <1>1, <2>1, <3>1, <3>2, <3>3, <3>4, <3>5, HeldPosted
  <2>. QED
    BY <2>2, <2>3
<1>. QED
  BY <1>2, <1>3, HeldChunk
(* MSG_EXIT is queued behind all the output there was when the end was      *)
(* decided, for an attached client, and behind none for another.            *)
LEMMA HeldQueueExit ==
    ASSUME IndInv, IndInv', HistoryExact, NEW c \in Conn, GoodWire(c), Fine(c), Held(c),
           final \in Nat, final <= consumed, UNCHANGED clientVars, EndKept, QueueExit
    PROVE  Held(c)'
<1>1. /\ UNCHANGED <<cliSock, srvSock, consumed, cur, snap>> /\ UNCHANGED <<rbuf, seen>>
      /\ pc = "read" /\ pc' = "flush" /\ consumed \in Nat
  BY StreamTypes DEF QueueExit, ptyVars, clientVars
<1>2. Rest(c) = <<>> /\ Rest(c)' = <<>>
  BY <1>1 DEF Rest, Replaying
<1>. DEFINE To == {e \in clients : ~client[e].disconnected /\ client[e].close_after_drain = "unset"}
<1>3. CASE child_exit = NoStatus \/ c \notin To
  <2>1. client'[c] = client[c] /\ down'[c] = down[c]
    BY <1>3 DEF QueueExit, SendAll
  <2>. QED
    BY <1>1, <1>2, <2>1, HeldElsewhere
<1>4. CASE child_exit # NoStatus /\ c \in To
  <2>1. child_exit \in Nat /\ srvSock[c] = "open" /\ client[c] \in Client
    BY <1>4, TableTypes DEF IndInv, TypeOK, ServerTypeOK, SocketsInStep
  <2>. DEFINE p == [typ |-> "EXIT", payload |-> <<child_exit>>]
              r == send_packet_nonblocking(c, p)
  <2>2. client'[c] = SentThenClose(c, r) /\ down'[c] = r.wire
    BY <1>4 DEF QueueExit, SendAll
  <2>3. p \in Packet /\ p.typ = "EXIT" /\ BytesOf(p) = <<>>
    <3>1. p \in Packet /\ p.typ = "EXIT"
      BY <2>1 DEF Packet, MsgType
    <3>. QED
      BY <3>1 DEF BytesOf
  <2>. HIDE DEF p
  <2>4. r = send_packet_nonblocking(c, p)
    OBVIOUS
  <2>. HIDE DEF r
  <2>5. client'[c].send_queue = r.queue /\ client'[c].attached = client[c].attached
    BY <2>1, <2>2 DEF SentThenClose, Client
  <2>6. ASSUME cliSock[c] = "open", Watches(c) PROVE Reaching(Content(c))
    <3>1. Stream(c) = Content(c)
      <4>1. Content(c) \in Seq(Nat)
        BY StreamTypes
      <4>2. Content(c) \o <<>> = Content(c)
        BY <4>1, ConcatEmptySeq
      <4>. QED
        BY <1>2, <4>2 DEF Stream
    <3>2. CASE client[c].attached
      <4>1. Live(c)
        BY <2>1, <2>6, <3>2 DEF Live
      <4>2. Stream(c) # <<>> => Stream(c)[Len(Stream(c))] = consumed
        BY <4>1, LiveStream
      <4>. QED
        BY <3>1, <4>2 DEF Reaching
    <3>3. CASE ~client[c].attached
      <4>1. Stream(c) = <<>>
        BY <2>1, <2>6, <3>3 DEF Held
      <4>. QED
        BY <3>1, <4>1 DEF Reaching
    <3>. QED
      BY <3>2, <3>3
  <2>7. Joins(Rest(c), BytesOf(p), Rest(c)') /\ Rest(c)' = Rest(c)
    BY <1>2, <2>3 DEF Joins
  <2>8. cliSock[c] = "open" =>
          /\ p.typ = "EXIT" => child_exit # NoStatus /\ (Watches(c) => Reaching(Content(c)))
          /\ ~r.ok => Rest(c)' \in {Rest(c), <<>>} \/ Live(c)'
          /\ r.ok => Joins(Rest(c), BytesOf(p), Rest(c)') \/ Live(c)'
    BY <1>4, <2>6, <2>7
  <2>9. down'[c] = r.wire /\ p \in Packet /\ consumed <= consumed'
    BY <1>1, <2>2, <2>3
  <2>. QED
    BY <1>1, <2>4, <2>5, <2>8, <2>9, HeldPosted
<1>. QED
  BY <1>3, <1>4

(* A client that is kept has the same on its way to it; one that is dropped *)
(* loses the end of it.                                                     *)
LEMMA HeldFlush ==
    ASSUME IndInv, IndInv', HistoryExact, NEW c \in Conn, GoodWire(c), Fine(c), Held(c),
           UNCHANGED clientVars, EndKept, FlushAndReap
    PROVE  Held(c)'
<1>1. /\ UNCHANGED <<cliSock, consumed, cur, snap>> /\ UNCHANGED <<rbuf, seen>>
      /\ pc = "flush" /\ pc' \in {"exited", "poll"} /\ consumed \in Nat
  BY StreamTypes DEF FlushAndReap, ptyVars, clientVars
<1>2. Rest(c) = <<>> /\ Rest(c)' = <<>> /\ client[c] \in Client
  BY <1>1, TableTypes DEF Rest, Replaying
<1>. DEFINE gone == {e \in clients : Gone(Flushed(e))}
            q == client[c].send_queue
            r == try_flush_client(c, q)
<1>3. c \in clients <=> srvSock[c] = "open"
  BY DEF IndInv, SocketsInStep
<1>4. /\ client'[c] = (IF c \in gone THEN NewClient
                       ELSE IF c \in clients THEN Flushed(c) ELSE client[c])
      /\ srvSock'[c] = srvSock[c] \/ srvSock'[c] = "closed"
      /\ c \in gone => srvSock'[c] = "closed"
      /\ down'[c] = (IF c \in clients /\ ~client[c].disconnected THEN r.wire ELSE down[c])
      /\ c \in gone <=> c \in clients /\ Gone(Flushed(c))
  BY <1>3 DEF FlushAndReap
<1>5. /\ down[c] \in Seq(Cell) /\ Len(down[c]) <= SNDBUF /\ q \in Seq(Cell)
      /\ rbuf[c] \in Seq(Cell)
  BY ConnTypes
<1>6. /\ r.wire \in Seq(Cell) /\ r.queue \in Seq(Cell)
      /\ Recut(r.wire, r.queue, down[c], q)
  <2>. HIDE DEF q
  <2>. QED
    BY <1>5, FlushWire
<1>7. c \in clients /\ ~client[c].disconnected => Flushed(c) = SentOrDisconnect(c, r)
  BY DEF Flushed
<1>. HIDE DEF gone, q, r
<1>8. CASE cliSock[c] # "open"
  BY <1>1, <1>8 DEF Held
<1>9. CASE c \notin clients
  <2>1. client'[c] = client[c] /\ down'[c] = down[c]
    BY <1>4, <1>9
  <2>. QED
    BY <1>1, <1>2, <1>4, <2>1, HeldElsewhere
<1>. DEFINE a == rbuf[c]
            x == down[c]
            y == down'[c]
            k == IF client[c].disconnected THEN q ELSE r.queue
<1>10. /\ y \in Seq(Cell) /\ k \in Seq(Cell) /\ a \in Seq(Cell) /\ x \in Seq(Cell)
       /\ c \in clients => Recut(y, k, x, q)
  BY <1>4, <1>5, <1>6 DEF Recut
<1>11. c \in clients /\ c \notin gone =>
         client'[c].send_queue = k /\ client'[c].attached = client[c].attached
  <2>. SUFFICES ASSUME c \in clients, c \notin gone
                PROVE  client'[c].send_queue = k /\ client'[c].attached = client[c].attached
    OBVIOUS
  <2>1. CASE client[c].disconnected
    BY <1>4, <2>1 DEF Flushed, q
  <2>2. CASE ~client[c].disconnected
    <3>1. client'[c] = SentOrDisconnect(c, r) /\ k = r.queue
      BY <1>4, <1>7, <2>2
    <3>. HIDE DEF k
    <3>. QED
      BY <1>2, <3>1 DEF SentOrDisconnect, Client
  <2>. QED
    BY <2>1, <2>2
<1>. HIDE DEF k
<1>12. c \in clients => (a \o y) \o k = OnTheWay(c)
  <2>1. OnTheWay(c) = (a \o x) \o q
    BY DEF OnTheWay, q
  <2>. HIDE DEF a, x, y
  <2>2. Assoc(a, y, k) /\ Assoc(a, x, q)
    BY <1>5, <1>10, ConcatAssoc
  <2>. QED
    BY <1>10, <2>1, <2>2 DEF Assoc, Recut
<1>13. CASE cliSock[c] = "open" /\ c \in clients /\ c \notin gone
  <2>1. OnTheWay(c)' = OnTheWay(c)
    BY <1>1, <1>11, <1>12, <1>13 DEF OnTheWay
  <2>2. srvSock'[c] # "closed" /\ ~client'[c].attached => srvSock[c] # "closed" /\ ~client[c].attached
    BY <1>3, <1>11, <1>13
  <2>3. Moves(c)
    BY <1>1, <1>2, <1>13, <2>1, <2>2, SameMoves
  <2>. QED
    BY <1>1, <2>3, HeldStep
<1>14. CASE cliSock[c] = "open" /\ c \in gone
  <2>1. client'[c].send_queue = <<>> /\ srvSock'[c] = "closed" /\ c \in clients
    BY <1>4, <1>14 DEF NewClient
  <2>2. OnTheWay(c)' = a \o y
    <3>1. OnTheWay(c)' = (a \o y) \o <<>>
      BY <1>1, <2>1 DEF OnTheWay
    <3>2. a \o y \in Seq(Cell)
      <4>. HIDE DEF a, y
      <4>. QED
        BY <1>10
    <3>3. (a \o y) \o <<>> = a \o y
      BY <3>2, ConcatEmptySeq
    <3>. QED
      BY <3>1, <3>3
  <2>3. Joins(OnTheWay(c), OnTheWay(c)', k)
    BY <1>12, <2>1, <2>2 DEF Joins
  <2>4. Warned(c)
    BY <1>1, <1>10, <2>3, BackWarned
  <2>5. Streams(c)
    BY <1>1, <1>2, <1>10, <2>3, BackStreams
  <2>6. Moves(c)
    BY <1>14, <2>1, <2>4, <2>5 DEF Moves
  <2>. QED
    BY <1>1, <2>6, HeldStep
<1>. QED
  BY <1>8, <1>9, <1>13, <1>14
-------------------------------------------------------------------------------
(* Nobody else asks to be attached.  What the server does to a client's     *)
(* struct and to what has arrived for it, ... *)
LEMMA ServerSide ==
    ASSUME IndInv, NEW c \in Conn,
           Server \/ Shutdown \/ (Child /\ UNCHANGED serverVars) \/ \E d \in Conn : Elapse(d)
    PROVE  /\ client'[c].attached => client[c].attached \/ (HandleAttach /\ c = cur)
           /\ \/ client'[c].buf \in {client[c].buf, <<>>, client[c].buf \o up[c]}
              \/ client[c].buf # <<>> /\ client'[c].buf = Tail(client[c].buf)
           /\ up'[c] \in {up[c], <<>>}
<1>. USE TableTypes
<1>. DEFINE Same == client'[c].attached = client[c].attached /\ client'[c].buf = client[c].buf
<1>1. CASE \/ PollShutdown \/ AcceptDone \/ PtyDone \/ WaitPid \/ Shutdown
           \/ (Child /\ UNCHANGED serverVars)
  BY <1>1 DEF PollShutdown, AcceptDone, PtyDone, WaitPid, Shutdown, Child, ChildWrite, ChildRead,
              ChildExit, kernelVars, sockVars, serverVars
<1>2. ASSUME NEW d \in Conn, Accept(d) \/ AcceptDropped(d)
      PROVE  up' = up /\ (client'[c] = client[c] \/ client'[c] = NewClient)
  BY <1>2 DEF Accept, AcceptDropped, serverVars
<1>3. CASE \E d \in Conn : Accept(d) \/ AcceptDropped(d)
  <2>1. up' = up /\ (client'[c] = client[c] \/ client'[c] = NewClient)
    BY <1>2, <1>3
  <2>2. ~NewClient.attached /\ NewClient.buf = <<>>
    BY DEF NewClient
  <2>. QED
    BY <2>1, <2>2
<1>4. ASSUME NEW n, ReadPty(n) PROVE Same /\ up' = up
  <2>. DEFINE p == content([i \in 1..n |-> consumed + i])
              r == send_packet_nonblocking(c, p)
  <2>1. client'[c] \in {client[c], SentOrDisconnect(c, r)} /\ up' = up
    BY <1>4 DEF ReadPty, broadcast_content, SendAll
  <2>. HIDE DEF r
  <2>. QED
    BY <2>1 DEF SentOrDisconnect, Client
<1>5. ASSUME NEW d \in Conn, ReadClient(d)
      PROVE  /\ client'[c].attached = client[c].attached
             /\ client'[c].buf \in {client[c].buf, client[c].buf \o up[c]}
             /\ up'[c] \in {up[c], <<>>}
  <2>1. CASE c # d
    BY <1>5, <2>1 DEF ReadClient
  <2>2. CASE c = d /\ cliSock[c] = "reset"
    <3>1. client' = [client EXCEPT ![c].buf = @ \o up[c], ![c].disconnected = TRUE] /\ up'[c] = <<>>
      BY <1>5, <2>2 DEF ReadClient
    <3>. QED
      BY <2>2, <3>1 DEF Client
  <2>3. CASE c = d /\ cliSock[c] # "reset"
    <3>1. client' = [client EXCEPT ![c].buf = @ \o up[c]] /\ up'[c] = <<>>
      BY <1>5, <2>3 DEF ReadClient
    <3>. QED
      BY <2>3, <3>1 DEF Client
  <2>. QED
    BY <2>1, <2>2, <2>3
<1>6. CASE HandleInput \/ HandleResize \/ HandleDetach \/ HandleDump \/ HandleAttach
  <2>1. up' = up /\ client[cur].buf # <<>>
    BY <1>6 DEF HandleInput, HandleResize, HandleDetach, HandleDump, HandleAttach, Popping, kernelVars, sockVars
  <2>2. CASE c # cur
    <3>1. client'[c] = client[c]
      BY <1>6, <2>2 DEF HandleInput, HandleResize, HandleDetach, HandleDump, HandleAttach
    <3>. QED
      BY <2>1, <3>1
  <2>3. CASE c = cur
    <3>1. CASE HandleInput \/ HandleResize \/ HandleDump
      <4>1. client'[c] = [client[c] EXCEPT !.buf = Tail(@)]
        BY <2>3, <3>1 DEF HandleInput, HandleResize, HandleDump, Popped
      <4>. QED
        BY <2>1, <2>3, <4>1 DEF Client
    <3>2. CASE HandleDetach
      <4>1. client'[c] = [Popped EXCEPT !.disconnected = TRUE]
        BY <2>3, <3>2 DEF HandleDetach
      <4>. QED
        BY <2>1, <2>3, <4>1 DEF Client, Popped
    <3>3. CASE HandleAttach
      <4>1. client'[c] = [Popped EXCEPT !.attached = TRUE, !.flags = read_u32(front.payload)]
        BY <2>3, <3>3 DEF HandleAttach
      <4>. QED
        BY <2>1, <2>3, <3>3, <4>1 DEF Client, Popped
    <3>. QED
      BY <1>6, <3>1, <3>2, <3>3
  <2>. QED
    BY <2>2, <2>3
<1>7. CASE EndClient
  <2>1. up' = up /\ client' = [client EXCEPT ![cur].disconnected = @ \/ saw_eof]
    BY <1>7 DEF EndClient, kernelVars, sockVars
  <2>2. client'[c] = client[c] \/ client'[c] = [client[c] EXCEPT !.disconnected = @ \/ saw_eof]
    BY <2>1
  <2>3. client[c] \in Client
    OBVIOUS
  <2>4. Same
    BY ONLY <2>2, <2>3 DEF Client
  <2>. QED
    BY <2>1, <2>4
<1>8. ASSUME ReplayChunk \/ ReplayFail \/ ReplayEnd PROVE Same /\ up' = up
  <2>1. up' = up
    BY <1>8 DEF ReplayChunk, ReplayFail, ReplayEnd
  <2>2. CASE c # cur
    BY <1>8, <2>1, <2>2 DEF ReplayChunk, ReplayFail, ReplayEnd, SendAll
  <2>. DEFINE p == content(chunk)
              e == [typ |-> "DUMP_END", payload |-> <<>>]
              r == send_packet_nonblocking(c, p)
              t == send_packet_nonblocking(c, e)
  <2>3. CASE c = cur /\ ReplayChunk
    <3>1. client'[c] = SentOrDisconnect(c, r)
      BY <2>3 DEF ReplayChunk, SendAll
    <3>. HIDE DEF r
    <3>. QED
      BY <2>1, <3>1 DEF SentOrDisconnect, Client
  <2>4. CASE c = cur /\ ReplayFail
    <3>1. client'[c] = [Replayed(c, r) EXCEPT !.disconnected = TRUE]
      BY <2>4 DEF ReplayFail, SendAll
    <3>. HIDE DEF r
    <3>2. CASE send_end
      BY <2>1, <3>1, <3>2 DEF Replayed, SentThenClose, Client, Deadline
    <3>3. CASE ~send_end
      BY <2>1, <3>1, <3>3 DEF Replayed, Client
    <3>. QED
      BY <3>2, <3>3
  <2>5. CASE c = cur /\ ReplayEnd
    <3>1. client'[c] = client[c] \/ client'[c] = Replayed(c, t)
      BY <2>5 DEF ReplayEnd, SendAll
    <3>. HIDE DEF t
    <3>. QED
      BY <2>1, <3>1 DEF Replayed, SentThenClose, Client, Deadline
  <2>. QED
    BY <1>8, <2>2, <2>3, <2>4, <2>5
<1>9. CASE QueueExit
  <2>1. up' = up /\ (client'[c] = client[c] \/ \E r : client'[c] = SentThenClose(c, r))
    BY <1>9 DEF QueueExit, SendAll
  <2>2. ASSUME NEW r, client'[c] = SentThenClose(c, r) PROVE Same
    BY <2>2 DEF SentThenClose, Client, Deadline
  <2>. QED
    BY <2>1, <2>2
<1>10. CASE FlushAndReap
  <2>1. up' = up /\ client'[c] \in {NewClient, Flushed(c), client[c]}
    BY <1>10 DEF FlushAndReap
  <2>2. /\ Flushed(c).attached = client[c].attached /\ Flushed(c).buf = client[c].buf
        /\ ~NewClient.attached /\ NewClient.buf = <<>>
    <3>. DEFINE r == try_flush_client(c, client[c].send_queue)
    <3>1. Flushed(c) \in {client[c], SentOrDisconnect(c, r)}
      BY DEF Flushed
    <3>. HIDE DEF r
    <3>. QED
      BY <3>1 DEF SentOrDisconnect, Client, NewClient
  <2>. QED
    BY <2>1, <2>2
<1>11. ASSUME NEW d \in Conn, Elapse(d) PROVE Same /\ up' = up
  <2>1. up' = up /\ client' = [client EXCEPT ![d].close_after_drain = "late"]
    BY <1>11 DEF Elapse, kernelVars, sockVars
  <2>2. client'[c] = client[c] \/ client'[c] = [client[c] EXCEPT !.close_after_drain = "late"]
    BY <2>1
  <2>3. client[c] \in Client
    OBVIOUS
  <2>4. Same
    BY ONLY <2>2, <2>3 DEF Client
  <2>. QED
    BY <2>1, <2>4
<1>. HIDE DEF Same
<1>12. CASE (\E n \in 1..MAX_PAYLOAD : ReadPty(n)) \/ \E d \in Conn : Elapse(d)
  BY <1>4, <1>11, <1>12 DEF Same
<1>13. CASE ReplayChunk \/ ReplayFail \/ ReplayEnd
  BY <1>8, <1>13 DEF Same
<1>. QED
  BY <1>1, <1>3, <1>5, <1>6, <1>7, <1>9, <1>10, <1>12, <1>13 DEF Server

(* ... and what a client does to what it has sent and to its exit code. *)
LEMMA ClientSide ==
    ASSUME IndInv, NEW c \in Conn, ClientRuns(c) \/ ClientUser(c)
    PROVE  /\ up'[c] = up[c] \/ \E p \in Packet : /\ up'[c] = Append(up[c], p)
                                                  /\ p.typ = "ATTACH" => cpc[c] = "attach"
           /\ cpc[c] # "done"
           /\ cpc'[c] # "done" => code'[c] = code[c]
<1>. USE TableTypes
<1>1. CASE Connect(c) \/ ConnectRefused(c) \/ RecvPart(c) \/ RecvFail(c)
  BY <1>1 DEF Connect, ConnectRefused, RecvPart, RecvFail, Receiving, Finish, kernelVars, sockVars
<1>2. CASE RecvPid(c) \/ RecvLoop(c) \/ RecvDump(c)
  BY <1>2 DEF RecvPid, RecvLoop, RecvDump, Received, Finish
<1>3. CASE RecvExit(c)
  <2>1. /\ cpc[c] # "done" /\ cpc'[c] = "done" /\ RecvPacket(c).typ = "EXIT"
        /\ up'[c] = up[c] \/ up'[c] = Append(up[c], RecvPacket(c))
    BY <1>3 DEF RecvExit, Finish
  <2>2. RecvPacket(c) \in Packet
    <3>1. RecvPacket(c).payload \in Seq(Nat)
      BY <1>3, RecvType DEF RecvExit
    <3>. QED
      BY <2>1, <3>1 DEF RecvPacket, CellsPacket, Packet, MsgType
  <2>. QED
    BY <2>1, <2>2
<1>4. ASSUME NEW p \in Packet, NEW next, SendOrFail(c, p, next), p.typ = "ATTACH" => cpc[c] = "attach"
      PROVE  up'[c] = up[c] \/ \E q \in Packet : /\ up'[c] = Append(up[c], q)
                                                 /\ q.typ = "ATTACH" => cpc[c] = "attach"
  <2>1. up'[c] = up[c] \/ up'[c] = Append(up[c], p)
    BY <1>4 DEF SendOrFail
  <2>. QED
    BY <1>4, <2>1
<1>5. CASE SendAttach(c) \/ send_resize(c) \/ SendDump(c)
  <2>1. code' = code /\ cpc[c] # "done" /\ \E next : \E p \in Packet :
          SendOrFail(c, p, next) /\ (p.typ = "ATTACH" => cpc[c] = "attach")
    <3>1. /\ [typ |-> "ATTACH", payload |-> <<flags(c)>>] \in Packet
          /\ [typ |-> "RESIZE", payload |-> <<TermSize[c]>>] \in Packet
          /\ [typ |-> "DUMP", payload |-> <<>>] \in Packet
      BY ConnAssumption DEF Packet, MsgType, flags
    <3>2. CASE SendAttach(c)
      BY <3>1, <3>2 DEF SendAttach
    <3>3. CASE send_resize(c)
      BY <3>1, <3>3 DEF send_resize
    <3>4. CASE SendDump(c)
      BY <3>1, <3>4 DEF SendDump
    <3>. QED
      BY <1>5, <3>2, <3>3, <3>4
  <2>. QED
    BY <1>4, <2>1
<1>6. CASE SendKeys(c)
  <2>1. code' = code /\ cpc[c] # "done"
    BY <1>6 DEF SendKeys
  <2>2. CASE sent[c] = KEYS
    BY <1>6, <2>1, <2>2 DEF SendKeys
  <2>3. CASE sent[c] # KEYS
    <3>. DEFINE n == MinOf(MAX_PAYLOAD, KEYS - sent[c])
                p == [typ |-> "SEND_KEYS", payload |-> [i \in 1..n |-> sent[c] + i]]
    <3>1. SendOrFail(c, p, "keys")
      BY <1>6, <2>3 DEF SendKeys
    <3>2. p \in Packet /\ p.typ # "ATTACH"
      <4>1. sent[c] <= KEYS
        BY DEF IndInv, SocketsInStep, ConnInStep
      <4>2. n \in Nat /\ sent[c] \in Nat
        BY <4>1, BoundAssumption DEF MinOf
      <4>. HIDE DEF n
      <4>3. [i \in 1..n |-> sent[c] + i] \in [1..n -> Nat]
        BY <4>2
      <4>4. [i \in 1..n |-> sent[c] + i] \in Seq(Nat)
        BY <4>2, <4>3, FunctionIsSeq
      <4>. QED
        BY <4>4 DEF Packet, MsgType
    <3>. HIDE DEF p
    <3>. QED
      BY <1>4, <2>1, <3>1, <3>2
  <2>. QED
    BY <2>2, <2>3
<1>7. CASE StdinEmpty(c) \/ SelectStdin(c) \/ StdinEof(c) \/ Killed(c)
  BY <1>7 DEF StdinEmpty, SelectStdin, StdinEof, Killed, Finish, kernelVars, sockVars
<1>8. CASE StdinKey(c)
  <2>1. code' = code /\ cpc[c] # "done"
    BY <1>8 DEF StdinKey
  <2>2. CASE Kind[c] = "readonly"
    BY <1>8, <2>1, <2>2 DEF StdinKey
  <2>3. CASE Kind[c] # "readonly"
    <3>1. SendOrFail(c, [typ |-> "CONTENT", payload |-> <<sent[c] + 1>>], "loop")
      BY <1>8, <2>3 DEF StdinKey
    <3>2. [typ |-> "CONTENT", payload |-> <<sent[c] + 1>>] \in Packet
      BY DEF Packet, MsgType
    <3>. QED
      BY <1>4, <2>1, <3>1, <3>2
  <2>. QED
    BY <2>2, <2>3
<1>9. CASE StdinDetach(c)
  <2>1. /\ cpc[c] # "done" /\ cpc'[c] = "done"
        /\ up'[c] = up[c] \/ up'[c] = Append(up[c], [typ |-> "DETACH", payload |-> <<>>])
    BY <1>9 DEF StdinDetach, Finish
  <2>2. [typ |-> "DETACH", payload |-> <<>>] \in Packet
    BY DEF Packet, MsgType
  <2>. QED
    BY <2>1, <2>2
<1>. QED
  BY <1>1, <1>2, <1>3, <1>5, <1>6, <1>7, <1>8, <1>9 DEF ClientRuns, ClientUser
LEMMA NoAttachParts ==
    ASSUME NEW s \in Seq(Packet), NEW t \in Seq(Packet), NoAttach(s), NoAttach(t)
    PROVE  /\ NoAttach(<<>>) /\ NoAttach(s \o t)
           /\ s # <<>> => NoAttach(Tail(s))
           /\ \A p : p.typ # "ATTACH" => NoAttach(Append(s, p))
<1>1. NoAttach(<<>>)
  BY DEF NoAttach
<1>2. NoAttach(s \o t)
  <2>1. \A i \in 1..Len(s \o t) :
          \/ i \in 1..Len(s) /\ (s \o t)[i] = s[i]
          \/ i - Len(s) \in 1..Len(t) /\ (s \o t)[i] = t[i - Len(s)]
    BY ConcatProperties, LenProperties
  <2>. QED
    BY <2>1 DEF NoAttach
<1>3. s # <<>> => NoAttach(Tail(s))
  <2>1. s # <<>> => \A i \in 1..Len(Tail(s)) : i + 1 \in 1..Len(s) /\ Tail(s)[i] = s[i + 1]
    OBVIOUS
  <2>. QED
    BY <2>1 DEF NoAttach
<1>4. ASSUME NEW p, p.typ # "ATTACH" PROVE NoAttach(Append(s, p))
  <2>1. \A i \in 1..Len(Append(s, p)) :
          (i \in 1..Len(s) /\ Append(s, p)[i] = s[i]) \/ Append(s, p)[i] = p
    OBVIOUS
  <2>. QED
    BY <1>4, <2>1 DEF NoAttach
<1>. QED
  BY <1>1, <1>2, <1>3, <1>4

(* No step makes a client that does not watch attach, and a client keeps     *)
(* its code to its end.                                                     *)
LEMMA AskingStep ==
    ASSUME IndInv, NEW c \in Conn, Fine(c), Asking(c), CodeLast(c), [Next]_vars
    PROVE  Asking(c)' /\ CodeLast(c)'
<1>1. Watches(c)' <=> Watches(c)
  BY DEF Watches
<1>2. client[c].buf \in Seq(Packet) /\ up[c] \in Seq(Packet) /\ <<>> \in Seq(Packet)
  BY ConnTypes
<1>3. CASE UNCHANGED vars
  <2>1. UNCHANGED <<client, up, cpc, code>>
    BY <1>3 DEF vars, kernelVars, sockVars, serverVars, clientVars
  <2>. QED
    BY <1>1, <2>1 DEF Asking, NoAttach, CodeLast
<1>4. ASSUME Server \/ Shutdown \/ (Child /\ UNCHANGED serverVars) \/ \E d \in Conn : Elapse(d),
             UNCHANGED clientVars
      PROVE  Asking(c)' /\ CodeLast(c)'
  <2>1. CodeLast(c)'
    BY <1>4 DEF CodeLast, clientVars
  <2>2. ASSUME ~Watches(c)
        PROVE  ~client'[c].attached /\ NoAttach(client'[c].buf) /\ NoAttach(up'[c])
    <3>1. ~client[c].attached /\ NoAttach(client[c].buf) /\ NoAttach(up[c])
      BY <2>2 DEF Asking
    <3>2. /\ client'[c].attached => client[c].attached \/ (HandleAttach /\ c = cur)
          /\ \/ client'[c].buf \in {client[c].buf, <<>>, client[c].buf \o up[c]}
             \/ client[c].buf # <<>> /\ client'[c].buf = Tail(client[c].buf)
          /\ up'[c] \in {up[c], <<>>}
      BY <1>4, ServerSide
    <3>3. ~(HandleAttach /\ c = cur)
      <4>1. client[c].buf # <<>> => 1 \in 1..Len(client[c].buf) /\ client[c].buf[1] = Head(client[c].buf)
        BY <1>2
      <4>. QED
        BY <3>1, <4>1 DEF NoAttach, HandleAttach, Popping
    <3>. QED
      BY <1>2, <3>1, <3>2, <3>3, NoAttachParts
  <2>. QED
    BY <1>1, <2>1, <2>2 DEF Asking, NoAttach
<1>5. ASSUME NEW d \in Conn, ClientRuns(d) \/ ClientUser(d), UNCHANGED serverVars
      PROVE  Asking(c)' /\ CodeLast(c)'
  <2>1. client' = client
    BY <1>5 DEF serverVars
  <2>2. CASE c # d
    <3>1. UNCHANGED <<up[c], cpc[c], code[c]>>
      BY <1>5, <2>2, OtherClient
    <3>. QED
      BY <1>1, <2>1, <3>1 DEF Asking, NoAttach, CodeLast
  <2>3. CASE c = d
    <3>1. /\ up'[c] = up[c] \/ \E p \in Packet : /\ up'[c] = Append(up[c], p)
                                                 /\ p.typ = "ATTACH" => cpc[c] = "attach"
          /\ cpc[c] # "done"
          /\ cpc'[c] # "done" => code'[c] = code[c]
      BY <1>5, <2>3, ClientSide
    <3>2. CodeLast(c)'
      BY <3>1 DEF CodeLast
    <3>3. ASSUME ~Watches(c) PROVE NoAttach(up'[c])
      <4>1. NoAttach(up[c]) /\ cpc[c] # "attach"
        BY <3>3 DEF Asking, Fine, Served
      <4>2. up'[c] = up[c] \/ \E p \in Packet : up'[c] = Append(up[c], p) /\ p.typ # "ATTACH"
        BY <3>1, <4>1
      <4>. QED
        BY <1>2, <4>1, <4>2, NoAttachParts
    <3>. QED
      BY <1>1, <2>1, <3>2, <3>3 DEF Asking, NoAttach
  <2>. QED
    BY <2>2, <2>3
<1>. QED
  BY <1>3, <1>4, <1>5 DEF Next, Terminated
-------------------------------------------------------------------------------
(* What is remembered of the output was there when the end was decided. *)
ServiceInv ==
    /\ final \in Nat /\ final <= consumed
    /\ Queueable => \A c \in Conn : Held(c) /\ Asking(c) /\ CodeLast(c)

LEMMA ServiceInit == HistoryInit => ServiceInv
<1>. SUFFICES ASSUME HistoryInit PROVE ServiceInv
  OBVIOUS
<1>1. final = 0 /\ consumed = 0 /\ client = [c \in Conn |-> NewClient]
  BY DEF HistoryInit, Init, KernelInit, ServerInit
<1>2. ASSUME NEW c \in Conn PROVE Held(c) /\ Asking(c) /\ CodeLast(c)
  <2>1. /\ cliSock[c] = "none" /\ cpc[c] = "start" /\ code[c] = NoCode /\ up[c] = <<>>
        /\ client[c] = NewClient
    BY <1>1 DEF HistoryInit, Init, KernelInit, ClientInit
  <2>2. ~client[c].attached /\ client[c].buf = <<>> /\ NoAttach(<<>>)
    BY <2>1 DEF NewClient, NoAttach
  <2>. QED
    BY <2>1, <2>2 DEF Held, Asking, CodeLast
<1>. QED
  BY <1>1, <1>2 DEF ServiceInv

LEMMA FinalStep ==
    ASSUME IndInv, final \in Nat, final <= consumed, [HistoryNext]_historyVars
    PROVE  /\ [Next]_vars /\ consumed \in Nat /\ consumed <= consumed' /\ EndKept
           /\ final' \in Nat /\ final' <= consumed'
           /\ child_exit' = child_exit => final' = final
<1>1. [Next]_vars /\ (child_exit' = child_exit => final' = final) /\ final' \in {final, consumed}
  BY DEF HistoryNext, historyVars, vars, serverVars
<1>2. consumed \in Nat
  BY DEF IndInv, TypeOK, KernelTypeOK
<1>3. consumed <= consumed'
  <2>1. CASE UNCHANGED <<history, consumed>>
    BY <1>2, <2>1
  <2>2. ASSUME NEW n \in 1..MAX_PAYLOAD, consumed' = consumed + n PROVE consumed <= consumed'
    BY <1>2, <2>2, BoundAssumption
  <2>. QED
    BY <1>1, <2>1, <2>2, HistoryStep
<1>4. child_exit # NoStatus => child_exit' = child_exit
  <2>1. CASE Server
    BY <2>1 DEF Server, PollShutdown, Accept, AcceptDropped, ReadClient, AcceptDone, ReadPty,
                PtyDone, WaitPid, HandleInput, HandleAttach, HandleDump, HandleResize,
                HandleDetach, EndClient, ReplayChunk, ReplayFail, ReplayEnd, QueueExit,
                FlushAndReap, serverVars
  <2>2. CASE UNCHANGED serverVars \/ Shutdown \/ \E c \in Conn : Elapse(c)
    BY <2>2 DEF serverVars, Shutdown, Elapse
  <2>. QED
    BY <1>1, <2>1, <2>2 DEF Next, Terminated, vars
<1>5. EndKept
  BY <1>1, <1>4 DEF EndKept
<1>6. final' \in Nat /\ final' <= consumed'
  <2>1. consumed' \in Nat
    <3>1. CASE UNCHANGED <<history, consumed>>
      BY <1>2, <3>1
    <3>2. ASSUME NEW n \in 1..MAX_PAYLOAD, consumed' = consumed + n PROVE consumed' \in Nat
      BY <1>2, <3>2, BoundAssumption
    <3>. QED
      BY <1>1, <3>1, <3>2, HistoryStep
  <2>. QED
    BY <1>1, <1>2, <1>3, <2>1
<1>. QED
  BY <1>1, <1>2, <1>3, <1>5, <1>6

(* ServiceInv is inductive, given what is proved of the session already. *)
LEMMA ServiceStep ==
    ASSUME IndInv, IndInv', HistoryExact, StreamInv, ExitInv, ServiceInv,
           [HistoryNext]_historyVars
    PROVE  ServiceInv'
<1>1. /\ [Next]_vars /\ consumed \in Nat /\ consumed <= consumed' /\ EndKept
      /\ final' \in Nat /\ final' <= consumed'
      /\ child_exit' = child_exit => final' = final
  BY FinalStep DEF ServiceInv
<1>. SUFFICES ASSUME Queueable, NEW c \in Conn PROVE Held(c)' /\ Asking(c)' /\ CodeLast(c)'
  BY <1>1 DEF ServiceInv, Queueable
<1>2. /\ Fine(c) /\ Placed(c) /\ GoodWire(c) /\ Held(c) /\ Asking(c) /\ CodeLast(c)
      /\ \A d \in Conn : Placed(d)
      /\ final \in Nat /\ final <= consumed
  BY DEF ExitInv, StreamInv, ServiceInv
<1>3. Asking(c)' /\ CodeLast(c)'
  BY <1>1, <1>2, AskingStep
<1>. SUFFICES Held(c)'
  BY <1>3
<1>4. CASE Server /\ UNCHANGED clientVars
  <2>1. CASE \/ PollShutdown \/ AcceptDone \/ PtyDone \/ WaitPid \/ (\E d \in Conn : ReadClient(d))
             \/ HandleInput \/ HandleResize \/ HandleDetach \/ EndClient
    BY <1>1, <1>2, <1>4, <2>1, HeldUnsending DEF Unsending
  <2>2. ASSUME NEW d \in Conn, Accept(d) \/ AcceptDropped(d) PROVE Held(c)'
    BY <1>1, <1>2, <1>4, <2>2, HeldAccept
  <2>3. ASSUME NEW n \in 1..MAX_PAYLOAD, ReadPty(n) PROVE Held(c)'
    BY <1>1, <1>2, <1>4, <2>3, HeldReadPty
  <2>4. CASE HandleAttach \/ HandleDump
    BY <1>1, <1>2, <1>4, <2>4, HeldOpen
  <2>5. CASE ReplayChunk \/ ReplayFail \/ ReplayEnd
    BY <1>1, <1>2, <1>4, <2>5, HeldReplay
  <2>6. CASE QueueExit
    BY <1>1, <1>2, <1>4, <2>6, HeldQueueExit
  <2>7. CASE FlushAndReap
    BY <1>1, <1>2, <1>4, <2>7, HeldFlush
  <2>. QED
    BY <1>4, <2>1, <2>2, <2>3, <2>4, <2>5, <2>6, <2>7 DEF Server
<1>5. CASE Child /\ UNCHANGED <<serverVars, clientVars>>
  <2>1. Unsending /\ UNCHANGED clientVars
    BY <1>5 DEF Unsending
  <2>. QED
    BY <1>1, <1>2, <2>1, HeldUnsending
<1>6. ASSUME NEW d \in Conn, ClientRuns(d) \/ ClientUser(d), UNCHANGED serverVars
      PROVE  Held(c)'
  <2>1. UNCHANGED <<serverVars, final>>
    BY <1>1, <1>6 DEF serverVars
  <2>2. CASE c = d
    BY <1>2, <1>6, <2>1, <2>2, HeldClient
  <2>3. CASE c # d
    BY <1>2, <1>6, <2>1, <2>3, HeldOther
  <2>. QED
    BY <2>2, <2>3
<1>7. CASE (Shutdown \/ \E d \in Conn : Elapse(d)) /\ UNCHANGED clientVars
  <2>1. Unsending
    BY <1>7 DEF Unsending
  <2>. QED
    BY <1>1, <1>2, <1>7, <2>1, HeldUnsending
<1>8. CASE UNCHANGED vars
  <2>1. /\ UNCHANGED <<cliSock, srvSock, rbuf, down, seen, client>>
        /\ Rest(c)' = Rest(c)
    BY <1>8 DEF vars, kernelVars, sockVars, serverVars, clientVars, Rest, Replaying
  <2>. QED
    BY <1>1, <1>2, <2>1, HeldElsewhere
<1>. QED
  BY <1>1, <1>4, <1>5, <1>6, <1>7, <1>8 DEF Next, Terminated

(***************************************************************************)
(* The steps of the session are steps of the service.                      *)
(***************************************************************************)

(* The dumps that ended well. *)
DumpsOk == {c \in Conn : Kind[c] = "dump" /\ result[c] = "ok"}

LEMMA StartsPrefix ==
    ASSUME NEW X, NEW s \in Seq(X), NEW t \in Seq(X), Starts(s, t)
    PROVE  Service!IsPrefixOf(s, t)
<1>1. Len(s) \in Nat /\ Len(t) \in Nat /\ Len(s) <= Len(t) /\ \A i \in 1..Len(s) : s[i] = t[i]
  BY DEF Starts
<1>2. /\ SubSeq(t, 1, Len(s)) \in Seq(X) /\ Len(SubSeq(t, 1, Len(s))) = Len(s)
      /\ \A i \in 1..Len(s) : SubSeq(t, 1, Len(s))[i] = t[i]
  BY <1>1
<1>3. s = SubSeq(t, 1, Len(s))
  BY <1>1, <1>2, SeqEqual
<1>. QED
  BY <1>1, <1>3 DEF Service!IsPrefixOf

(* A step that changes nothing the service knows of. *)
LEMMA ServiceIdle ==
    ASSUME UNCHANGED <<consumed, child_exit, final, input, seen, code>>, DumpsOk' = DumpsOk
    PROVE  UNCHANGED Service!vars
BY DEF Service!vars, DumpsOk

(* More of the output is shown. *)
LEMMA ServiceShow ==
    ASSUME NEW c \in Conn, UNCHANGED <<consumed, child_exit, final, input, code>>,
           DumpsOk' = DumpsOk, c \notin DumpsOk, code[c] = NoCode,
           seen[c] \in Seq(Nat), seen'[c] \in Seq(Nat), Starts(seen[c], seen'[c]),
           seen' = [seen EXCEPT ![c] = seen'[c]], IsRun(seen'[c], consumed)
    PROVE  Service!Show(c)
<1>1. Service!IsPrefixOf(seen[c], seen'[c])
  BY StartsPrefix
<1>2. Service!IsWindow(seen'[c])
  BY DEF IsRun, Service!IsWindow
<1>3. code[c] = Service!Undecided
  BY DEF Service!Undecided, NoCode
<1>. QED
  BY <1>1, <1>2, <1>3 DEF Service!Show, DumpsOk

(* What a client has shown when it has read one more packet is a run of the *)
(* output.                                                                  *)
LEMMA ReadRun ==
    ASSUME IndInv, IndInv', HistoryExact, NEW c \in Conn, GoodWire(c), Fine(c), Held(c),
           cliSock[c] = "open", Joins(Content(c), seen'[c], ContentOf(OnTheWay(c)'))
    PROVE  IsRun(seen'[c], consumed)
<1>1. /\ Content(c) \in Seq(Nat) /\ Rest(c) \in Seq(Nat) /\ Stream(c) \in Seq(Nat)
      /\ consumed \in Nat
  BY StreamTypes
<1>2. seen'[c] \in Seq(Nat) /\ ContentOf(OnTheWay(c)') \in Seq(Nat)
  BY StreamTypesNext
<1>3. IsRun(Stream(c), consumed)
  BY LiveStream DEF Held
<1>4. Starts(Content(c), Stream(c))
  BY <1>1, StartsJoin DEF Joins, Stream
<1>5. IsRun(Content(c), consumed)
  BY <1>1, <1>3, <1>4, RunPart
<1>6. Starts(seen'[c], Content(c))
  BY <1>2, StartsJoin
<1>. QED
  BY <1>1, <1>2, <1>5, <1>6, RunPart

(* client_loop or dump_session takes a packet that is no end: what it holds *)
(* is shown.                                                                *)
LEMMA RecvShows ==
    ASSUME IndInv, IndInv', HistoryExact, StreamInv, NEW c \in Conn, Fine(c), Held(c), CodeLast(c),
           UNCHANGED <<serverVars, final>>,
           cpc[c] # "done", Whole(c), UNCHANGED <<cliSock, srvSock, ptyVars, result, code>>,
           NEW next, Received(c, next),
           seen' = [seen EXCEPT ![c] = IF RecvPacket(c).typ = "CONTENT"
                                         THEN @ \o RecvPacket(c).payload ELSE @]
    PROVE  Service!Show(c) \/ UNCHANGED Service!vars
<1>1. Placed(c) /\ Outcome(c) /\ GoodWire(c)
  BY DEF StreamInv
<1>2. UNCHANGED <<consumed, child_exit, final, input, code>> /\ DumpsOk' = DumpsOk
  BY DEF serverVars, ptyVars, DumpsOk
<1>3. CASE cliSock[c] = "open"
  <2>1. Joins(seen'[c], seen[c], BytesOf(RecvPacket(c)))
    BY ShownBytes DEF Joins
  <2>2. Joins(Content(c), seen'[c], ContentOf(OnTheWay(c)'))
    BY <1>1, <1>3, <2>1, ReadMoves
  <2>3. IsRun(seen'[c], consumed)
    BY <1>1, <1>3, <2>2, ReadRun
  <2>4. seen[c] \in Seq(Nat) /\ BytesOf(RecvPacket(c)) \in Seq(Nat) /\ seen'[c] \in Seq(Nat)
    BY <1>1, <1>3, RecvCells, StreamTypes, StreamTypesNext
  <2>5. Starts(seen[c], seen'[c])
    BY <2>1, <2>4, StartsJoin
  <2>6. c \notin DumpsOk /\ code[c] = NoCode
    BY <1>1 DEF Outcome, DumpsOk, CodeLast
  <2>7. seen' = [seen EXCEPT ![c] = seen'[c]]
    BY TableTypes
  <2>. QED
    BY <1>2, <2>3, <2>4, <2>5, <2>6, <2>7, ServiceShow
<1>4. CASE cliSock[c] # "open"
  BY <1>1, <1>4 DEF Placed, Whole
<1>. QED
  BY <1>3, <1>4

(* client_loop reads MSG_EXIT: everything before it has been shown, and it   *)
(* reaches the end.                                                         *)
LEMMA RecvExitTells ==
    ASSUME IndInv, StreamInv, StreamInv', NEW c \in Conn, Fine(c), Held(c), CodeLast(c),
           UNCHANGED <<serverVars, final>>, RecvExit(c)
    PROVE  Service!Tell(c)
<1>1. /\ Placed(c) /\ Outcome(c) /\ GoodWire(c) /\ Outcome(c)'
      /\ cpc[c] \in {"loop", "recv"} /\ Whole(c) /\ RecvPacket(c).typ = "EXIT"
  BY DEF StreamInv, RecvExit
<1>2. cliSock[c] = "open" /\ Watches(c)
  BY <1>1 DEF Placed, Fine, Served
<1>3. /\ RecvPacket(c) \in Packet /\ RecvRest(c) \in Seq(Cell) /\ client[c].send_queue \in Seq(Cell)
      /\ Joins(OnTheWay(c), packet_bytes(RecvPacket(c)), RecvRest(c) \o client[c].send_queue)
  BY <1>1, <1>2, RecvCells, ConnTypes
<1>4. 1 \in 1..Len(OnTheWay(c)) /\ OnTheWay(c)[1].typ = "EXIT"
  <2>1. /\ packet_bytes(RecvPacket(c)) \in Seq(Cell) /\ 1 \in 1..Len(packet_bytes(RecvPacket(c)))
        /\ packet_bytes(RecvPacket(c))[1].typ = "EXIT"
    BY <1>1, <1>3, PacketBytesType, PacketCellsAt DEF Packet
  <2>2. RecvRest(c) \o client[c].send_queue \in Seq(Cell)
    BY <1>3, ConcatProperties
  <2>. DEFINE p == packet_bytes(RecvPacket(c))
              t == RecvRest(c) \o client[c].send_queue
              w == OnTheWay(c)
  <2>. HIDE DEF p, t, w
  <2>3. Found(w, 1, p, 1, Take(p, 1 - 1)) /\ 1 \in 1..Len(w)
    <3>1. p \in Seq(Cell) /\ t \in Seq(Cell) /\ Joins(w, p, t) /\ 1 \in 1..Len(p)
      BY <1>3, <2>1, <2>2 DEF p, t, w
    <3>. QED
      BY <3>1, FoundFirst
  <2>. QED
    BY <2>1, <2>3 DEF Found, p, w
<1>5. child_exit # NoStatus /\ Reaching(Before(c, 1))
  BY <1>2, <1>4 DEF Held
<1>6. Before(c, 1) = seen[c]
  <2>1. OnTheWay(c) \in Seq(Cell) /\ seen[c] \in Seq(Nat)
    BY StreamTypes
  <2>2. Take(OnTheWay(c), 1 - 1) = <<>>
    BY <2>1, SplitSeq, EmptySeq DEF Take
  <2>3. ContentOf(<<>>) = <<>>
    BY WireEmpty, WireIsGood, EmptySeq DEF WireGood
  <2>. QED
    BY <2>1, <2>2, <2>3, ConcatEmptySeq DEF Before
<1>7. code[c] = NoCode
  BY <1>1 DEF CodeLast
<1>8. code' = [code EXCEPT ![c] = child_exit]
  <2>1. result'[c] = "exited"
    BY TableTypes DEF RecvExit, Finish
  <2>2. code'[c] = child_exit
    BY <1>1, <2>1 DEF Outcome, serverVars
  <2>. QED
    BY <2>2, TableTypes DEF RecvExit
<1>9. DumpsOk' = DumpsOk
  <2>1. Kind[c] # "dump"
    BY <1>2 DEF Watches
  <2>. QED
    BY <2>1, TableTypes DEF RecvExit, Finish, DumpsOk
<1>10. UNCHANGED <<consumed, child_exit, final, input, seen>>
  BY DEF RecvExit, ptyVars, serverVars
<1>. QED
  BY <1>5, <1>6, <1>7, <1>8, <1>9, <1>10
     DEF Service!Tell, Service!Undecided, NoCode, NoStatus, Reaching, DumpsOk

(* dump_session reads MSG_DUMP_END. *)
LEMMA RecvDumpEnds ==
    ASSUME IndInv, StreamInv, NEW c \in Conn, UNCHANGED <<serverVars, final>>, RecvDump(c),
           RecvPacket(c).typ = "DUMP_END"
    PROVE  Service!Dumped(c) \/ UNCHANGED Service!vars
<1>1. /\ Placed(c) /\ Outcome(c) /\ GoodWire(c) /\ cpc[c] = "dumping" /\ Whole(c)
      /\ Finish(c, "ok", RecvRest(c))
  BY DEF StreamInv, RecvDump
<1>2. UNCHANGED <<consumed, child_exit, final, input, seen, code>>
  BY DEF RecvDump, ptyVars, serverVars
<1>3. result' = [result EXCEPT ![c] = "ok"] /\ result \in [Conn -> Results]
  BY <1>1, TableTypes DEF Finish
<1>4. CASE Kind[c] = "dump"
  <2>1. \E n \in 0..consumed : seen[c] = Newest(n)
    BY <1>1, RecvDumpEnd DEF Placed
  <2>2. c \notin DumpsOk
    BY <1>1 DEF Outcome, DumpsOk
  <2>3. DumpsOk' = DumpsOk \cup {c}
    BY <1>3, <1>4 DEF DumpsOk
  <2>. QED
    BY <1>2, <2>1, <2>2, <2>3 DEF Service!Dumped, Service!Newest, Newest, DumpsOk
<1>5. CASE Kind[c] # "dump"
  <2>1. DumpsOk' = DumpsOk
    BY <1>3, <1>5 DEF DumpsOk
  <2>. QED
    BY <1>2, <2>1, ServiceIdle
<1>. QED
  BY <1>4, <1>5

(* The program goes on without output, or ends without success of a dump. *)
LEMMA QuietClient ==
    ASSUME IndInv, NEW c \in Conn, Outcome(c), cpc[c] # "done",
           UNCHANGED <<serverVars, ptyVars, final, seen, code>>,
           \/ UNCHANGED result
           \/ \E r \in Results : /\ result' = [result EXCEPT ![c] = r]
                                 /\ r = "ok" => Kind[c] # "dump"
    PROVE  UNCHANGED Service!vars
<1>1. UNCHANGED <<consumed, child_exit, final, input, seen, code>>
  BY DEF serverVars, ptyVars
<1>2. result \in [Conn -> Results] /\ result[c] = "none"
  BY TableTypes DEF Outcome
<1>3. DumpsOk' = DumpsOk
  BY <1>2 DEF DumpsOk
<1>. QED
  BY <1>1, <1>3, ServiceIdle

(* A program that ends. *)
LEMMA QuietFinish ==
    ASSUME IndInv, NEW c \in Conn, Outcome(c), cpc[c] # "done",
           UNCHANGED <<serverVars, ptyVars, final, seen, code>>,
           NEW r \in Results, NEW left, Finish(c, r, left), r = "ok" => Kind[c] # "dump"
    PROVE  UNCHANGED Service!vars
BY QuietClient DEF Finish

(* A program that sends. *)
LEMMA QuietSend ==
    ASSUME IndInv, NEW c \in Conn, Outcome(c), cpc[c] # "done",
           UNCHANGED <<serverVars, ptyVars, final, seen, code>>,
           NEW p, NEW next, SendOrFail(c, p, next)
    PROVE  UNCHANGED Service!vars
<1>1. CASE srvSock[c] = "closed"
  BY <1>1, QuietFinish DEF SendOrFail, Results
<1>2. CASE srvSock[c] # "closed"
  BY <1>2, QuietClient DEF SendOrFail
<1>. QED
  BY <1>1, <1>2

(* Whatever a client does shows it what the service promises, or nothing. *)
LEMMA ClientServes ==
    ASSUME IndInv, IndInv', HistoryExact, StreamInv, StreamInv', ProgramRight, NEW c \in Conn,
           Fine(c), Held(c), CodeLast(c), ClientRuns(c) \/ ClientUser(c),
           UNCHANGED <<serverVars, final>>
    PROVE  Service!Show(c) \/ Service!Tell(c) \/ Service!Dumped(c) \/ UNCHANGED Service!vars
<1>1. Placed(c) /\ Outcome(c) /\ UNCHANGED ptyVars
  BY ClientPty DEF StreamInv
<1>2. cpc[c] # "done"
  BY ClientSide
<1>3. CASE \/ Connect(c) \/ ConnectRefused(c) \/ RecvPart(c) \/ StdinEmpty(c) \/ SelectStdin(c)
  <2>1. UNCHANGED <<seen, code>> /\ (UNCHANGED result \/ result' = [result EXCEPT ![c] = "error"])
    BY <1>3 DEF Connect, ConnectRefused, RecvPart, StdinEmpty, SelectStdin
  <2>. QED
    BY <1>1, <1>2, <2>1, QuietClient DEF Results
<1>4. CASE RecvFail(c) \/ StdinEof(c) \/ Killed(c)
  <2>1. UNCHANGED <<seen, code>>
        /\ \E r \in Results \ {"ok"}, left \in {down[c]} : Finish(c, r, left)
    BY <1>4 DEF RecvFail, StdinEof, Killed, Results
  <2>. QED
    BY <1>1, <1>2, <2>1, QuietFinish
<1>5. CASE RecvPid(c)
  <2>1. UNCHANGED <<seen, code>>
    BY <1>5 DEF RecvPid
  <2>2. CASE Kind[c] = "probe"
    <3>1. \E r \in {"ok", "error"}, left \in {RecvRest(c)} : Finish(c, r, left)
      BY <1>5, <2>2 DEF RecvPid
    <3>. QED
      BY <1>1, <1>2, <2>1, <2>2, <3>1, QuietFinish DEF Results
  <2>3. CASE Kind[c] # "probe"
    BY <1>1, <1>2, <1>5, <2>1, <2>3, QuietClient DEF RecvPid
  <2>. QED
    BY <2>2, <2>3
<1>6. CASE RecvLoop(c)
  BY <1>1, <1>2, <1>6, RecvShows DEF RecvLoop
<1>7. CASE RecvExit(c)
  BY <1>7, RecvExitTells
<1>8. CASE RecvDump(c)
  <2>1. CASE RecvPacket(c).typ = "DUMP_END"
    BY <1>8, <2>1, RecvDumpEnds
  <2>2. CASE RecvPacket(c).typ # "DUMP_END"
    BY <1>1, <1>2, <1>8, <2>2, RecvShows DEF RecvDump
  <2>. QED
    BY <2>1, <2>2
<1>9. CASE SendAttach(c) \/ send_resize(c) \/ SendDump(c)
  <2>1. UNCHANGED <<seen, code>> /\ \E p \in {[typ |-> "ATTACH", payload |-> <<flags(c)>>],
                                              [typ |-> "RESIZE", payload |-> <<TermSize[c]>>],
                                              [typ |-> "DUMP", payload |-> <<>>]},
                                       next \in CPCs : SendOrFail(c, p, next)
    BY <1>9 DEF SendAttach, send_resize, SendDump, CPCs
  <2>. QED
    BY <1>1, <1>2, <2>1, QuietSend
<1>10. CASE SendKeys(c)
  <2>1. UNCHANGED <<seen, code>> /\ Kind[c] = "keys"
    BY <1>10 DEF SendKeys, ProgramRight
  <2>2. CASE sent[c] = KEYS
    BY <1>1, <1>2, <1>10, <2>1, <2>2, QuietFinish DEF SendKeys, Results
  <2>3. CASE sent[c] # KEYS
    BY <1>1, <1>2, <1>10, <2>1, <2>3, QuietSend DEF SendKeys
  <2>. QED
    BY <2>2, <2>3
<1>11. CASE StdinKey(c)
  <2>1. UNCHANGED <<seen, code>>
    BY <1>11 DEF StdinKey
  <2>2. CASE Kind[c] = "readonly"
    BY <1>1, <1>2, <1>11, <2>1, <2>2, QuietClient DEF StdinKey
  <2>3. CASE Kind[c] # "readonly"
    BY <1>1, <1>2, <1>11, <2>1, <2>3, QuietSend DEF StdinKey
  <2>. QED
    BY <2>2, <2>3
<1>12. CASE StdinDetach(c)
  <2>1. UNCHANGED <<seen, code>>
        /\ \E r \in {"error", "detached"}, left \in {down[c]} : Finish(c, r, left)
    BY <1>12 DEF StdinDetach
  <2>. QED
    BY <1>1, <1>2, <2>1, QuietFinish DEF Results
<1>. QED
  BY <1>3, <1>4, <1>5, <1>6, <1>7, <1>8, <1>9, <1>10, <1>11, <1>12 DEF ClientRuns, ClientUser

(* Keys that reach the session come after those that did before, from one   *)
(* client, and in order.                                                    *)
LEMMA InputServes ==
    ASSUME IndInv, Ascends(input'), HandleInput, UNCHANGED <<clientVars, final>>
    PROVE  Service!Take(cur) \/ UNCHANGED Service!vars
<1>1. UNCHANGED <<consumed, child_exit, final, seen, code>> /\ DumpsOk' = DumpsOk
  BY DEF HandleInput, clientVars, DumpsOk
<1>2. CASE client[cur].flags % 2 = CLIENT_READONLY
  BY <1>1, <1>2, ServiceIdle DEF HandleInput
<1>3. CASE client[cur].flags % 2 # CLIENT_READONLY
  <2>1. fd_write_all(cur, front.payload) /\ cur \in Conn /\ front.payload \in Seq(Nat)
    BY <1>3, FrontType DEF HandleInput, Packet
  <2>2. input \in Seq(Units) /\ Len(input) \in Nat /\ inq \in Nat /\ inq <= PTYIN /\ PTYIN \in Nat
    BY InputTypes, BoundAssumption DEF IndInv, SocketsInStep, TypeOK, KernelTypeOK
  <2>3. PICK n \in Nat : n = MinOf(Len(front.payload), PTYIN - inq) /\ n <= Len(front.payload)
    <3>1. Len(front.payload) \in Nat /\ PTYIN - inq \in Nat
      BY <2>1, <2>2
    <3>. QED
      BY <3>1, MinOfType
  <2>. DEFINE w == [i \in 1..n |-> [conn |-> cur, key |-> front.payload[i]]]
  <2>4. w \in Seq(Units) /\ Len(w) = n /\ \A i \in 1..n : w[i].conn = cur
    <3>1. \A i \in 1..n : front.payload[i] \in Nat
      BY <2>1, <2>3
    <3>2. w \in [1..n -> Units]
      BY <2>1, <3>1 DEF Units
    <3>3. \A i \in 1..n : w[i].conn = cur
      OBVIOUS
    <3>. HIDE DEF w
    <3>4. w \in Seq(Units) /\ Len(w) = n
      BY <2>3, <3>2, FunctionIsSeq
    <3>. QED
      BY <3>3, <3>4
  <2>5. input' = input \o w
    BY <2>1, <2>3 DEF fd_write_all
  <2>. HIDE DEF w
  <2>6. /\ input' \in Seq(Units) /\ Len(input') = Len(input) + n
        /\ \A i \in 1..Len(input) : input'[i] = input[i]
        /\ \A i \in (Len(input) + 1)..Len(input') : input'[i].conn = cur
    <3>1. /\ input \o w \in Seq(Units) /\ Len(input \o w) = Len(input) + n
          /\ \A i \in 1..Len(input \o w) :
               (input \o w)[i] = IF i <= Len(input) THEN input[i] ELSE w[i - Len(input)]
      BY <2>2, <2>4, ConcatProperties
    <3>2. \A i \in (Len(input) + 1)..Len(input') : input'[i] = w[i - Len(input)] /\ i - Len(input) \in 1..n
      BY <2>2, <2>3, <2>5, <3>1
    <3>. QED
      BY <2>2, <2>3, <2>4, <2>5, <3>1, <3>2
  <2>7. CASE n = 0
    <3>1. w = <<>>
      BY <2>4, <2>7, EmptySeq
    <3>2. input' = input
      BY <2>2, <2>5, <3>1, ConcatEmptySeq
    <3>. QED
      BY <1>1, <3>2, ServiceIdle
  <2>8. CASE n > 0
    <3>1. Service!IsPrefixOf(input, input')
      BY <2>2, <2>3, <2>6, StartsPrefix DEF Starts
    <3>2. Len(input') > Len(input)
      BY <2>2, <2>3, <2>6, <2>8
    <3>3. \A i, j \in 1..Len(input') :
            i < j /\ input'[i].conn = cur /\ input'[j].conn = cur => input'[i].key < input'[j].key
      BY DEF Ascends
    <3>. QED
      BY <1>1, <2>6, <3>1, <3>2, <3>3 DEF Service!Take, DumpsOk
  <2>. QED
    BY <2>3, <2>7, <2>8
<1>. QED
  BY <1>2, <1>3

(* What the server does for the service: it reads output, decides the end   *)
(* and passes keys on.                                                      *)
LEMMA ServerServes ==
    ASSUME IndInv, IndInv', Ascends(input'), UNCHANGED clientVars, final \in Nat,
           final' = (IF child_exit' # child_exit THEN consumed ELSE final),
           \/ Server \/ Shutdown \/ (Child /\ UNCHANGED serverVars) \/ \E c \in Conn : Elapse(c)
    PROVE  \/ Service!Record \/ Service!Decide \/ (\E c \in Conn : Service!Take(c))
           \/ UNCHANGED Service!vars
<1>1. UNCHANGED <<seen, code>> /\ DumpsOk' = DumpsOk
  BY DEF clientVars, DumpsOk
<1>2. CASE PollShutdown \/ WaitPid
  <2>1. UNCHANGED <<consumed, input>>
    BY <1>2 DEF PollShutdown, WaitPid
  <2>2. CASE child_exit' = child_exit
    BY <1>1, <2>1, <2>2, ServiceIdle
  <2>3. CASE child_exit' # child_exit
    <3>1. child_exit = NoStatus
      BY <1>2, <2>3 DEF PollShutdown, WaitPid
    <3>2. child_exit' \in Nat
      BY <2>3, <3>1 DEF IndInv, TypeOK, ServerTypeOK, NoStatus
    <3>. QED
      BY <1>1, <2>1, <2>3, <3>1, <3>2
         DEF Service!Decide, Service!Undecided, NoStatus, DumpsOk
  <2>. QED
    BY <2>2, <2>3
<1>3. ASSUME NEW n \in 1..MAX_PAYLOAD, ReadPty(n) PROVE Service!Record
  <2>1. UNCHANGED <<child_exit, final, input>> /\ consumed' = consumed + n
    BY <1>3 DEF ReadPty
  <2>2. consumed' > consumed
    BY <2>1, BoundAssumption DEF IndInv, TypeOK, KernelTypeOK
  <2>. QED
    BY <1>1, <2>1, <2>2 DEF Service!Record, DumpsOk
<1>4. CASE HandleInput
  <2>1. UNCHANGED final
    BY <1>4 DEF HandleInput
  <2>2. cur \in Conn
    BY <1>4, FrontType DEF HandleInput
  <2>. QED
    BY <1>4, <2>1, <2>2, InputServes
<1>5. CASE \/ (\E c \in Conn : Accept(c) \/ AcceptDropped(c) \/ ReadClient(c) \/ Elapse(c))
           \/ AcceptDone \/ PtyDone \/ HandleAttach \/ HandleDump \/ HandleResize
           \/ HandleDetach \/ EndClient \/ ReplayChunk \/ ReplayFail \/ ReplayEnd
           \/ QueueExit \/ FlushAndReap \/ Shutdown \/ (Child /\ UNCHANGED serverVars)
  <2>1. UNCHANGED <<consumed, child_exit, input>>
    BY <1>5 DEF Accept, AcceptDropped, ReadClient, Elapse, AcceptDone, PtyDone, HandleAttach,
                HandleDump, HandleResize, HandleDetach, EndClient, ReplayChunk, ReplayFail,
                ReplayEnd, QueueExit, FlushAndReap, Shutdown, Child, ChildWrite, ChildRead,
                ChildExit, kernelVars, ptyVars, serverVars
  <2>. QED
    BY <1>1, <2>1, ServiceIdle
<1>. QED
  BY <1>2, <1>3, <1>4, <1>5 DEF Server

(* All that is needed to be true of the session. *)
SessionInv ==
    /\ HistoryExact
    /\ StreamInv
    /\ ExitInv
    /\ InputInv
    /\ ServiceInv

LEMMA SessionInit == HistoryInit => SessionInv /\ Service!Init
<1>. SUFFICES ASSUME HistoryInit PROVE SessionInv /\ Service!Init
  OBVIOUS
<1>1. Init /\ InputInv
  BY InputInit DEF HistoryInit
<1>2. HistoryExact /\ StreamInv
  BY <1>1, HistoryStarts, StreamInit
<1>3. ExitInv /\ ServiceInv
  BY <1>1, ExitInit, ServiceInit
<1>4. Service!Init
  BY <1>1 DEF HistoryInit, Init, KernelInit, ServerInit, ClientInit, Service!Init,
              Service!Undecided, NoStatus, NoCode
<1>. QED
  BY <1>1, <1>2, <1>3, <1>4 DEF SessionInv

(* It is kept by every step ... *)
LEMMA SessionStep ==
    ASSUME SessionInv, [HistoryNext]_historyVars
    PROVE  SessionInv'
<1>1. [Next]_vars /\ IndInv
  BY DEF HistoryNext, historyVars, vars, SessionInv, InputInv
<1>2. IndInv' /\ InputInv'
  BY <1>1, InputStep DEF SessionInv, InputInv
<1>3. HistoryExact'
  BY <1>1, HistoryKept DEF SessionInv
<1>4. StreamInv'
  BY <1>1, <1>3, StreamStep DEF SessionInv
<1>5. ExitInv'
  BY <1>1, ExitStep DEF SessionInv
<1>6. ServiceInv'
  BY <1>1, <1>2, ServiceStep DEF SessionInv
<1>. QED
  BY <1>2, <1>3, <1>4, <1>5, <1>6 DEF SessionInv

(* ... and while it holds every step is one the service may take. *)
LEMMA SessionServes ==
    ASSUME Queueable, SessionInv, SessionInv', [HistoryNext]_historyVars
    PROVE  [Service!Next]_Service!vars
<1>1. /\ IndInv /\ IndInv' /\ Ascends(input') /\ HistoryExact /\ StreamInv /\ StreamInv'
      /\ ProgramRight /\ final \in Nat
      /\ \A c \in Conn : Fine(c) /\ Held(c) /\ CodeLast(c)
  BY DEF SessionInv, InputInv, ExitInv, ServiceInv
<1>2. CASE HistoryNext
  <2>1. Next /\ final' = IF child_exit' # child_exit THEN consumed ELSE final
    BY <1>2 DEF HistoryNext
  <2>2. ASSUME UNCHANGED clientVars,
               \/ Server \/ Shutdown \/ (Child /\ UNCHANGED serverVars) \/ \E c \in Conn : Elapse(c)
        PROVE  [Service!Next]_Service!vars
    BY <1>1, <2>1, <2>2, ServerServes DEF Service!Next
  <2>3. ASSUME NEW c \in Conn, ClientRuns(c) \/ ClientUser(c), UNCHANGED serverVars
        PROVE  [Service!Next]_Service!vars
    <3>1. UNCHANGED <<serverVars, final>>
      BY <2>1, <2>3 DEF serverVars
    <3>2. Service!Show(c) \/ Service!Tell(c) \/ Service!Dumped(c) \/ UNCHANGED Service!vars
      BY <1>1, <2>3, <3>1, ClientServes
    <3>. QED
      BY <3>2 DEF Service!Next
  <2>4. CASE Terminated
    <3>1. UNCHANGED <<consumed, child_exit, final, input, seen, code>> /\ DumpsOk' = DumpsOk
      BY <2>1, <2>4 DEF Terminated, vars, kernelVars, ptyVars, serverVars, clientVars, DumpsOk
    <3>. QED
      BY <3>1, ServiceIdle
  <2>. QED
    BY <2>1, <2>2, <2>3, <2>4 DEF Next
<1>3. CASE UNCHANGED historyVars
  <2>1. UNCHANGED <<consumed, child_exit, final, input, seen, code>> /\ DumpsOk' = DumpsOk
    BY <1>3 DEF historyVars, vars, kernelVars, ptyVars, serverVars, clientVars, DumpsOk
  <2>. QED
    BY <2>1, ServiceIdle
<1>. QED
  BY <1>2, <1>3

(* A session whose queues can hold all that is ever sent to a client keeps   *)
(* the promises of LichService: server, sockets, queues, clients and their   *)
(* users together do nothing but record output, decide the end once, show a  *)
(* client the next part of a gapless run of the output, tell it the end when *)
(* it has seen everything up to it, finish a dump that is the history at one *)
(* moment, and take keys in the order they were typed.                       *)
THEOREM SessionImplementsService ==
    ASSUME Queueable
    PROVE  HistorySpec => ServiceKept
<1>1. HistoryInit => SessionInv /\ Service!Init
  BY SessionInit
<1>2. SessionInv /\ [HistoryNext]_historyVars => SessionInv'
  BY SessionStep
<1>3. SessionInv /\ SessionInv' /\ [HistoryNext]_historyVars => [Service!Next]_Service!vars
  BY SessionServes
<1>. QED
  BY <1>1, <1>2, <1>3, PTL DEF HistorySpec, ServiceKept, Service!Spec
===============================================================================
