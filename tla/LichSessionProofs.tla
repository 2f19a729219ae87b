--------------------------- MODULE LichSessionProofs ---------------------------
(***************************************************************************)
(* Proofs about LichSession, for every set of connections, every cast of   *)
(* clients and every size of the buffers.                                  *)
(***************************************************************************)
EXTENDS LichSession, SequenceTheorems, TLAPS

-------------------------------------------------------------------------------
(* Sequences. *)

(* The smaller of two numbers is one of them and no larger than either. *)
LEMMA MinOfType ==
    ASSUME NEW a \in Nat, NEW b \in Nat
    PROVE  MinOf(a, b) \in Nat /\ MinOf(a, b) <= a /\ MinOf(a, b) <= b
BY DEF MinOf

(* A function on 1..n is a sequence of length n. *)
LEMMA FunctionIsSeq ==
    ASSUME NEW S, NEW n \in Nat, NEW f \in [1..n -> S]
    PROVE  f \in Seq(S) /\ Len(f) = n
OBVIOUS

(* Cutting a sequence in two keeps its elements and splits its length. *)
LEMMA TakeDropType ==
    ASSUME NEW S, NEW s \in Seq(S), NEW n \in 0..Len(s)
    PROVE  /\ Take(s, n) \in Seq(S) /\ Len(Take(s, n)) = n
           /\ Drop(s, n) \in Seq(S) /\ Len(Drop(s, n)) = Len(s) - n
<1>1. Len(s) \in Nat
  BY LenProperties
<1>2. \A i \in 1..Len(s) : s[i] \in S
  BY ElementOfSeq
<1>3. Take(s, n) = [i \in 1..n |-> s[i]]
  BY <1>1, SubSeqProperties DEF Take
<1>. QED
  BY <1>1, <1>2, SubSeqProperties DEF Take, Drop

(* A packet on the wire is a run of cells, one longer than its payload. *)
LEMMA PacketBytesType ==
    ASSUME NEW p \in Packet
    PROVE  packet_bytes(p) \in Seq(Cell) /\ Len(packet_bytes(p)) = 1 + Len(p.payload)
<1>. DEFINE h == [typ |-> p.typ, val |-> Len(p.payload)]
            b == [i \in 1..Len(p.payload) |->
                    [typ |-> IF p.typ = "CONTENT" THEN "byte" ELSE "word",
                     val |-> p.payload[i]]]
<1>1. p.typ \in MsgType /\ p.payload \in Seq(Nat) /\ Len(p.payload) \in Nat
  BY LenProperties DEF Packet
<1>2. h \in Cell
  BY <1>1 DEF Cell
<1>3. <<h>> \in Seq(Cell) /\ Len(<<h>>) = 1
  BY <1>2
<1>4. \A i \in 1..Len(p.payload) : p.payload[i] \in Nat
  BY <1>1, ElementOfSeq
<1>5. b \in Seq(Cell) /\ Len(b) = Len(p.payload)
  <2>1. \A i \in 1..Len(p.payload) : b[i] \in Cell
    BY <1>4 DEF Cell
  <2>2. b \in [1..Len(p.payload) -> Cell]
    BY <2>1
  <2>. HIDE DEF b
  <2>. QED
    BY <2>2, <1>1, FunctionIsSeq
<1>6. packet_bytes(p) = <<h>> \o b
  BY DEF packet_bytes
<1>. QED
  BY <1>3, <1>5, <1>6, ConcatProperties

-------------------------------------------------------------------------------
(* Sending. *)

(* What a call that sends to c leaves behind: a queue within its cap, a     *)
(* wire within the kernel's buffer.                                         *)
SendResult(r) ==
    /\ r.queue \in Seq(Cell) /\ Len(r.queue) <= SEND_QUEUE_CAP
    /\ r.wire \in Seq(Cell) /\ Len(r.wire) <= SNDBUF
    /\ r.ok \in BOOLEAN

(* try_flush_client moves a prefix of the queue to the wire, as long as the *)
(* kernel has room.                                                         *)
LEMMA FlushType ==
    ASSUME NEW c \in Conn, NEW q \in Seq(Cell), Len(q) <= SEND_QUEUE_CAP,
           down[c] \in Seq(Cell), Len(down[c]) <= SNDBUF
    PROVE  SendResult(try_flush_client(c, q))
<1>. DEFINE n == IF cliSock[c] = "open" THEN MinOf(Len(q), SNDBUF - Len(down[c])) ELSE 0
<1>1. /\ Len(q) \in Nat
      /\ Len(down[c]) \in Nat
      /\ SNDBUF \in Nat
      /\ SEND_QUEUE_CAP \in Nat
  <2>1. Len(q) \in Nat /\ Len(down[c]) \in Nat
    BY LenProperties
  <2>. QED
    BY <2>1, BoundAssumption, QueueCapAssumption
<1>2. n \in 0..Len(q) /\ Len(down[c]) + n <= SNDBUF
  <2>1. SNDBUF - Len(down[c]) \in Nat
    BY <1>1
  <2>2. CASE cliSock[c] = "open"
    <3>1. n = MinOf(Len(q), SNDBUF - Len(down[c]))
      BY <2>2
    <3>. HIDE DEF n
    <3>2. n \in Nat /\ n <= Len(q) /\ n <= SNDBUF - Len(down[c])
      BY <3>1, <1>1, <2>1, MinOfType
    <3>. QED
      BY <3>2, <1>1
  <2>3. CASE cliSock[c] # "open"
    BY <1>1, <2>3
  <2>. QED
    BY <2>2, <2>3
<1>3. try_flush_client(c, q) = [queue |-> Drop(q, n), wire |-> down[c] \o Take(q, n),
                                ok |-> cliSock[c] = "open" \/ q = <<>>]
  BY DEF try_flush_client
<1>. HIDE DEF n
<1>4. /\ Take(q, n) \in Seq(Cell) /\ Len(Take(q, n)) = n
      /\ Drop(q, n) \in Seq(Cell) /\ Len(Drop(q, n)) = Len(q) - n
  BY <1>2, TakeDropType
<1>5. /\ down[c] \o Take(q, n) \in Seq(Cell)
      /\ Len(down[c] \o Take(q, n)) = Len(down[c]) + n
  BY <1>4, ConcatProperties, ZenonT(30)
<1>6. Len(q) - n <= SEND_QUEUE_CAP
  BY <1>1, <1>2
<1>. QED
  BY <1>2, <1>3, <1>4, <1>5, <1>6 DEF SendResult

(* send_packet_nonblocking keeps to the cap whatever it is given to send. *)
LEMMA SendType ==
    ASSUME NEW c \in Conn, NEW p \in Packet,
           client[c] \in Client, Len(client[c].send_queue) <= SEND_QUEUE_CAP,
           down[c] \in Seq(Cell), Len(down[c]) <= SNDBUF
    PROVE  SendResult(send_packet_nonblocking(c, p))
<1>. DEFINE q == client[c].send_queue
            full == q \o packet_bytes(p)
<1>1. q \in Seq(Cell)
  BY DEF Client
<1>2. packet_bytes(p) \in Seq(Cell)
  BY PacketBytesType
<1>3. full \in Seq(Cell) /\ Len(full) = Len(q) + Len(packet_bytes(p))
  BY <1>1, <1>2, ConcatProperties
<1>4. Len(q) \in Nat /\ Len(packet_bytes(p)) \in Nat /\ SEND_QUEUE_CAP \in Nat
  BY <1>1, <1>2, LenProperties, QueueCapAssumption
<1>5. CASE Overflow(q, p)
  BY <1>1, <1>5 DEF send_packet_nonblocking, SendResult
<1>6. CASE ~Overflow(q, p)
  <2>1. Len(full) <= SEND_QUEUE_CAP
    BY <1>3, <1>4, <1>6 DEF Overflow
  <2>2. send_packet_nonblocking(c, p) = try_flush_client(c, full)
    BY <1>6 DEF send_packet_nonblocking
  <2>. HIDE DEF full
  <2>. QED
    BY <1>3, <2>1, <2>2, FlushType
<1>. QED
  BY <1>5, <1>6

-------------------------------------------------------------------------------
(* One connection's sockets and buffers are in step: a client that has not  *)
(* started has no socket, a socket the server has not accepted carries      *)
(* nothing to its client, the kernel's buffer holds no more than it can,    *)
(* and what the client has set aside is less than a packet.                 *)
ConnInStep(c) ==
    /\ cpc[c] = "start" => srvSock[c] = "none"
    /\ srvSock[c] \in {"none", "backlog"} => down[c] = <<>>
    /\ Len(down[c]) <= SNDBUF
    /\ rbuf[c] # <<>> => Len(rbuf[c]) <= Head(rbuf[c]).val
    /\ sent[c] <= KEYS

(* The server's vector of clients holds exactly the connections open at its *)
(* end; the clients it has still to read are among them, and there are none *)
(* left when it goes on to flush; the pty's input buffer is within its size. *)
SocketsInStep ==
    /\ clients = {c \in Conn : srvSock[c] = "open"}
    /\ todo \subseteq clients
    /\ todo # {} => pc \in {"read", "handle", "replay"}
    /\ pc \in {"handle", "replay"} => cur \in clients
    /\ \A c \in Conn : ConnInStep(c)
    /\ inq <= PTYIN

(* The inductive invariant.  Types alone are not inductive: that a write    *)
(* moves a prefix of the queue needs a wire no longer than the kernel's     *)
(* buffer, and that MSG_PID fits needs a fresh socket to be empty.          *)
IndInv == TypeOK /\ SocketsInStep /\ QueueBounded

(* The sessions's first state satisfies it. *)
LEMMA InitInv == Init => IndInv
<1>. SUFFICES ASSUME Init PROVE IndInv
  OBVIOUS
<1>. USE DEF Init, KernelInit, ServerInit, ClientInit
<1>0. \A S : <<>> \in Seq(S) /\ Len(<<>>) = 0
  BY EmptySeq
<1>1. KernelTypeOK
  <2>1. up \in [Conn -> Seq(Packet)] /\ down \in [Conn -> Seq(Cell)]
    BY <1>0
  <2>2. input \in Seq([conn : Conn, key : Nat])
    BY <1>0
  <2>. QED
    BY <2>1, <2>2 DEF KernelTypeOK
<1>2. ServerTypeOK
  <2>1. NewClient \in Client
    BY <1>0 DEF NewClient, Client, Deadline
  <2>2. client \in [Conn -> Client]
    BY <2>1
  <2>3. history \in Seq(Nat) /\ snap \in Seq(Nat)
    BY <1>0
  <2>. QED
    BY <2>2, <2>3 DEF ServerTypeOK, PCs, NoConn
<1>3. ClientTypeOK
  BY DEF ClientTypeOK, CPCs, Results
<1>4. SocketsInStep
  BY BoundAssumption DEF SocketsInStep, ConnInStep
<1>5. QueueBounded
  BY QueueCapAssumption DEF QueueBounded, NewClient
<1>. QED
  BY <1>1, <1>2, <1>3, <1>4, <1>5 DEF IndInv, TypeOK

(* Nothing happens. *)
LEMMA StutterInv == IndInv /\ UNCHANGED vars => IndInv'
<1>. SUFFICES ASSUME IndInv, UNCHANGED vars
              PROVE  IndInv'
  OBVIOUS
<1>. USE DEF vars, kernelVars, sockVars, ptyVars, serverVars, clientVars
<1>1. KernelTypeOK'
  BY DEF IndInv, TypeOK, KernelTypeOK
<1>2. ServerTypeOK'
  BY DEF IndInv, TypeOK, ServerTypeOK
<1>3. ClientTypeOK'
  BY DEF IndInv, TypeOK, ClientTypeOK
<1>4. SocketsInStep'
  BY DEF IndInv, SocketsInStep, ConnInStep
<1>5. QueueBounded'
  BY DEF IndInv, QueueBounded
<1>. QED
  BY <1>1, <1>2, <1>3, <1>4, <1>5 DEF IndInv, TypeOK

-------------------------------------------------------------------------------
(* The child. *)

(* Wait statuses and exit codes are natural numbers. *)
LEMMA StatusType ==
    /\ \A d \in Deaths : WaitStatus(d) \in Nat
    /\ \A s \in Nat : exit_status(s) \in Nat
BY DeathAssumption DEF WaitStatus, exit_status

LEMMA ChildInv == IndInv /\ Child /\ UNCHANGED <<serverVars, clientVars>> => IndInv'
<1>. SUFFICES ASSUME IndInv, Child, UNCHANGED <<serverVars, clientVars>>
              PROVE  IndInv'
  OBVIOUS
<1>. DEFINE Step ==
      /\ UNCHANGED <<sockVars, consumed, input, winsize, termed>>
      /\ child' \in {"running", "zombie", "reaped"}
      /\ wstatus' \in Nat
      /\ produced' \in Nat
      /\ inq' \in Nat /\ inq' <= inq
<1>1. Step
  <2>1. CASE ChildWrite
    <3>1. UNCHANGED <<sockVars, child, wstatus, consumed, inq, input, winsize, termed>>
      BY <2>1 DEF ChildWrite
    <3>2. produced' = produced + 1
      BY <2>1 DEF ChildWrite
    <3>. QED
      BY <3>1, <3>2 DEF IndInv, TypeOK, KernelTypeOK
  <2>2. CASE ChildRead
    BY <2>2 DEF IndInv, TypeOK, KernelTypeOK, ChildRead
  <2>3. ASSUME NEW d \in Deaths, ChildExit(d)
        PROVE  Step
    BY <2>3, StatusType DEF IndInv, TypeOK, KernelTypeOK, ChildExit
  <2>. QED
    BY <2>1, <2>2, <2>3 DEF Child
<1>2. KernelTypeOK'
  BY <1>1 DEF IndInv, TypeOK, KernelTypeOK, sockVars
<1>3. ServerTypeOK' /\ ClientTypeOK' /\ QueueBounded'
  BY DEF IndInv, TypeOK, ServerTypeOK, ClientTypeOK, QueueBounded, serverVars, clientVars
<1>4. SocketsInStep'
  <2>1. inq' <= PTYIN
    BY <1>1, BoundAssumption DEF IndInv, TypeOK, KernelTypeOK, SocketsInStep
  <2>. QED
    BY <2>1, <1>1 DEF IndInv, SocketsInStep, ConnInStep, sockVars, serverVars, clientVars
<1>. QED
  BY <1>2, <1>3, <1>4 DEF IndInv, TypeOK

-------------------------------------------------------------------------------
(* The clients.  Every action of a client is one of a few shapes: it ends,  *)
(* it takes a packet off the wire, or it puts one on.                       *)

(* What there is to show of a client's step. *)
LEMMA ClientStepInv ==
    ASSUME IndInv,
           UNCHANGED <<listening, mode, ptyVars, serverVars>>,
           cliSock' \in [Conn -> {"none", "open", "closed", "reset"}],
           srvSock' \in [Conn -> {"none", "backlog", "open", "closed"}],
           up' \in [Conn -> Seq(Packet)],
           down' \in [Conn -> Seq(Cell)],
           ClientTypeOK',
           \A c \in Conn : srvSock'[c] = "open" <=> srvSock[c] = "open",
           \A c \in Conn : ConnInStep(c)'
    PROVE  IndInv'
<1>1. KernelTypeOK'
  BY DEF IndInv, TypeOK, KernelTypeOK, ptyVars
<1>2. ServerTypeOK' /\ QueueBounded'
  BY DEF IndInv, TypeOK, ServerTypeOK, QueueBounded, serverVars
<1>3. SocketsInStep'
  <2>1. UNCHANGED <<clients, todo, pc, cur, inq>>
    BY DEF serverVars, ptyVars
  <2>2. clients = {c \in Conn : srvSock'[c] = "open"}
    BY DEF IndInv, SocketsInStep
  <2>. QED
    BY <2>1, <2>2 DEF IndInv, SocketsInStep
<1>. QED
  BY <1>1, <1>2, <1>3 DEF IndInv, TypeOK

(* The client ends. *)
LEMMA FinishInv ==
    ASSUME IndInv, NEW c \in Conn, NEW r \in Results, NEW left,
           Finish(c, r, left),
           UNCHANGED <<listening, mode, srvSock, ptyVars, serverVars>>,
           up' \in [Conn -> Seq(Packet)],
           seen' \in [Conn -> Seq(Nat)],
           sent' \in [Conn -> Nat], \A e \in Conn : sent'[e] <= KEYS,
           code' \in [Conn -> Nat \cup {NoCode}]
    PROVE  IndInv'
<1>. USE EmptySeq DEF Finish
<1>1. cliSock' \in [Conn -> {"none", "open", "closed", "reset"}]
  BY DEF IndInv, TypeOK, KernelTypeOK
<1>2. srvSock' = srvSock /\ srvSock \in [Conn -> {"none", "backlog", "open", "closed"}]
  BY DEF IndInv, TypeOK, KernelTypeOK
<1>3. down' \in [Conn -> Seq(Cell)] /\ rbuf' \in [Conn -> Seq(Cell)]
  BY DEF IndInv, TypeOK, KernelTypeOK, ClientTypeOK
<1>4. ClientTypeOK'
  BY <1>3 DEF IndInv, TypeOK, ClientTypeOK, CPCs
<1>5. ASSUME NEW e \in Conn PROVE ConnInStep(e)'
  BY <1>2, BoundAssumption, SMTT(30)
  DEF IndInv, TypeOK, KernelTypeOK, ClientTypeOK, SocketsInStep, ConnInStep
<1>. QED
  BY <1>1, <1>2, <1>3, <1>4, <1>5, ClientStepInv

(* It sends a packet and goes on to next, or fails. *)
LEMMA SendOrFailInv ==
    ASSUME IndInv, NEW c \in Conn, NEW p \in Packet, NEW next \in CPCs \ {"start"},
           SendOrFail(c, p, next),
           UNCHANGED <<listening, mode, srvSock, ptyVars, seen, code, serverVars>>,
           sent' \in [Conn -> Nat], \A e \in Conn : sent'[e] <= KEYS
    PROVE  IndInv'
<1>1. /\ seen \in [Conn -> Seq(Nat)] /\ code \in [Conn -> Nat \cup {NoCode}]
      /\ up \in [Conn -> Seq(Packet)]
  BY DEF IndInv, TypeOK, KernelTypeOK, ClientTypeOK
<1>2. CASE srvSock[c] = "closed"
  <2>1. Finish(c, "error", down[c]) /\ up' = up
    BY <1>2 DEF SendOrFail
  <2>. QED
    BY <1>1, <2>1, FinishInv DEF Results
<1>3. CASE srvSock[c] # "closed"
  <2>1. /\ up' = [up EXCEPT ![c] = Append(@, p)]
        /\ cpc' = [cpc EXCEPT ![c] = next]
        /\ UNCHANGED <<cliSock, down, rbuf, result>>
    BY <1>3 DEF SendOrFail
  <2>2. Append(up[c], p) \in Seq(Packet)
    BY <1>1, AppendProperties
  <2>3. up' \in [Conn -> Seq(Packet)]
    BY <1>1, <2>1, <2>2
  <2>4. ClientTypeOK'
    BY <2>1 DEF IndInv, TypeOK, ClientTypeOK
  <2>5. ASSUME NEW e \in Conn PROVE ConnInStep(e)'
    BY <2>1 DEF IndInv, TypeOK, ClientTypeOK, SocketsInStep, ConnInStep
  <2>6. /\ cliSock' \in [Conn -> {"none", "open", "closed", "reset"}]
        /\ srvSock' \in [Conn -> {"none", "backlog", "open", "closed"}]
        /\ down' \in [Conn -> Seq(Cell)]
        /\ \A e \in Conn : srvSock'[e] = "open" <=> srvSock[e] = "open"
    BY <2>1 DEF IndInv, TypeOK, KernelTypeOK
  <2>. QED
    BY <2>1, <2>3, <2>4, <2>5, <2>6, ClientStepInv
<1>. QED
  BY <1>2, <1>3

(* Of x set aside and y on the wire, with less than a packet in x: the      *)
(* packet ends in y, and its payload is made of numbers.                    *)
LEMMA PacketSplit ==
    ASSUME NEW x \in Seq(Cell), NEW y \in Seq(Cell), y # <<>>,
           x # <<>> => Len(x) <= Head(x).val,
           Len(y) <= SNDBUF,
           NEW n, n = 1 + Head(x \o y).val,
           Len(x \o y) >= n
    PROVE  /\ Drop(x \o y, n) \in Seq(Cell)
           /\ Len(Drop(x \o y, n)) <= SNDBUF
           /\ CellsPacket(Take(x \o y, n)).payload \in Seq(Nat)
<1>. DEFINE s == x \o y
            t == Take(s, n)
<1>1. Len(x) \in Nat /\ Len(y) \in Nat /\ SNDBUF \in Nat
  BY LenProperties, BoundAssumption
<1>2. /\ s \in Seq(Cell) /\ Len(s) = Len(x) + Len(y)
      /\ \A i \in 1..(Len(x) + Len(y)) : s[i] = IF i <= Len(x) THEN x[i] ELSE y[i - Len(x)]
  BY ConcatProperties
<1>3. Len(y) > 0
  BY <1>1, EmptySeq
<1>. HIDE DEF s
<1>4. s # <<>> /\ Head(s) \in Cell /\ Head(s) = s[1]
  <2>1. Len(s) # 0
    BY <1>1, <1>2, <1>3
  <2>2. s # <<>>
    BY <2>1, EmptySeq
  <2>. QED
    BY <1>2, <2>2, HeadTailProperties
<1>5. n \in Nat /\ n >= 1 /\ Head(s).val = n - 1
  BY <1>4 DEF Cell, s
<1>6. n > Len(x)
  <2>1. CASE x = <<>>
    BY <2>1, <1>5, EmptySeq
  <2>2. CASE x # <<>>
    <3>1. Len(x) > 0 /\ Head(x) = x[1]
      BY <1>1, <2>2, EmptySeq, HeadTailProperties
    <3>2. s[1] = x[1]
      BY <1>1, <1>2, <3>1
    <3>3. Len(x) <= n - 1
      BY <1>4, <1>5, <2>2, <3>1, <3>2
    <3>. QED
      BY <1>1, <1>5, <3>3
  <2>. QED
    BY <2>1, <2>2
<1>7. n \in 0..Len(s) /\ Len(s) - n <= SNDBUF
  BY <1>1, <1>2, <1>5, <1>6, SMTT(30) DEF s
<1>8. /\ t \in Seq(Cell) /\ Len(t) = n
      /\ Drop(s, n) \in Seq(Cell) /\ Len(Drop(s, n)) = Len(s) - n
  BY <1>2, <1>7, TakeDropType
<1>9. CellsPacket(t).payload \in Seq(Nat)
  <2>. HIDE DEF t
  <2>1. \A j \in 1..n : t[j] \in Cell
    BY <1>8, ElementOfSeq
  <2>2. \A i \in 1..(n - 1) : t[i + 1].val \in Nat
    <3>1. \A i \in 1..(n - 1) : i + 1 \in 1..n
      BY <1>5
    <3>2. \A i \in 1..(n - 1) : t[i + 1] \in Cell
      BY <2>1, <3>1
    <3>. QED
      BY <3>2 DEF Cell
  <2>. DEFINE f == [i \in 1..(n - 1) |-> t[i + 1].val]
  <2>3. f \in [1..(n - 1) -> Nat] /\ n - 1 \in Nat
    BY <2>2, <1>5
  <2>4. CellsPacket(t).payload = f
    BY <1>8 DEF CellsPacket
  <2>. HIDE DEF f
  <2>. QED
    BY <2>3, <2>4, FunctionIsSeq
<1>. QED
  BY <1>7, <1>8, <1>9 DEF s

(* Reading a whole packet leaves a shorter wire, and the packet's payload   *)
(* is made of numbers.                                                      *)
LEMMA RecvType ==
    ASSUME IndInv, NEW c \in Conn, Whole(c)
    PROVE  /\ RecvRest(c) \in Seq(Cell) /\ Len(RecvRest(c)) <= SNDBUF
           /\ RecvPacket(c).payload \in Seq(Nat)
           /\ srvSock[c] \notin {"none", "backlog"}
<1>1. rbuf[c] \in Seq(Cell) /\ down[c] \in Seq(Cell)
  BY DEF IndInv, TypeOK, KernelTypeOK, ClientTypeOK
<1>2. /\ Len(down[c]) <= SNDBUF
      /\ rbuf[c] # <<>> => Len(rbuf[c]) <= Head(rbuf[c]).val
      /\ srvSock[c] \in {"none", "backlog"} => down[c] = <<>>
  BY DEF IndInv, SocketsInStep, ConnInStep
<1>3. /\ down[c] # <<>>
      /\ Need(c) = 1 + Head(rbuf[c] \o down[c]).val
      /\ Len(rbuf[c] \o down[c]) >= Need(c)
  BY DEF Whole, Need, Pending
<1>4. /\ Drop(rbuf[c] \o down[c], Need(c)) \in Seq(Cell)
      /\ Len(Drop(rbuf[c] \o down[c], Need(c))) <= SNDBUF
      /\ CellsPacket(Take(rbuf[c] \o down[c], Need(c))).payload \in Seq(Nat)
  BY <1>1, <1>2, <1>3, PacketSplit
<1>. QED
  BY <1>2, <1>3, <1>4 DEF RecvRest, RecvPacket, Pending

(* It takes a packet off the wire and goes on to next. *)
LEMMA ReceivedInv ==
    ASSUME IndInv, NEW c \in Conn, NEW next \in CPCs \ {"start"},
           Whole(c), Received(c, next),
           UNCHANGED <<listening, mode, cliSock, srvSock, up, ptyVars, serverVars>>,
           UNCHANGED <<sent, result, code>>,
           seen' \in [Conn -> Seq(Nat)]
    PROVE  IndInv'
<1>1. /\ rbuf' = [rbuf EXCEPT ![c] = <<>>]
      /\ down' = [down EXCEPT ![c] = RecvRest(c)]
      /\ cpc' = [cpc EXCEPT ![c] = next]
  BY DEF Received
<1>2. /\ RecvRest(c) \in Seq(Cell) /\ Len(RecvRest(c)) <= SNDBUF
      /\ srvSock[c] \notin {"none", "backlog"}
  BY RecvType
<1>3. down' \in [Conn -> Seq(Cell)]
  BY <1>1, <1>2 DEF IndInv, TypeOK, KernelTypeOK
<1>4. ClientTypeOK'
  BY <1>1, EmptySeq DEF IndInv, TypeOK, ClientTypeOK
<1>5. ASSUME NEW e \in Conn PROVE ConnInStep(e)'
  BY <1>1, <1>2 DEF IndInv, TypeOK, KernelTypeOK, ClientTypeOK, SocketsInStep, ConnInStep
<1>6. /\ cliSock' \in [Conn -> {"none", "open", "closed", "reset"}]
      /\ srvSock' \in [Conn -> {"none", "backlog", "open", "closed"}]
      /\ up' \in [Conn -> Seq(Packet)]
      /\ \A e \in Conn : srvSock'[e] = "open" <=> srvSock[e] = "open"
  BY DEF IndInv, TypeOK, KernelTypeOK
<1>. QED
  BY <1>3, <1>4, <1>5, <1>6, ClientStepInv

(* The types of the variables a client's step may leave alone. *)
LEMMA ClientFacts ==
    ASSUME IndInv
    PROVE  /\ up \in [Conn -> Seq(Packet)]
           /\ cpc \in [Conn -> CPCs]
           /\ seen \in [Conn -> Seq(Nat)]
           /\ sent \in [Conn -> Nat] /\ \A c \in Conn : sent[c] <= KEYS
           /\ code \in [Conn -> Nat \cup {NoCode}]
BY DEF IndInv, TypeOK, KernelTypeOK, ClientTypeOK, SocketsInStep, ConnInStep

(* One step of a client, its user and its death included. *)
LEMMA ClientInv ==
    ASSUME IndInv, NEW c \in Conn, ClientRuns(c) \/ ClientUser(c), UNCHANGED serverVars
    PROVE  IndInv'
<1>. USE ClientFacts
<1>1. CASE Connect(c)
  <2>1. /\ cliSock' = [cliSock EXCEPT ![c] = "open"]
        /\ srvSock' = [srvSock EXCEPT ![c] = "backlog"]
        /\ cpc' = [cpc EXCEPT ![c] = "pid"]
        /\ cpc[c] = "start"
        /\ UNCHANGED <<listening, mode, up, down, ptyVars, rbuf, seen, sent, result, code>>
    BY <1>1 DEF Connect
  <2>2. /\ cliSock' \in [Conn -> {"none", "open", "closed", "reset"}]
        /\ srvSock' \in [Conn -> {"none", "backlog", "open", "closed"}]
        /\ up' \in [Conn -> Seq(Packet)] /\ down' \in [Conn -> Seq(Cell)]
    BY <2>1 DEF IndInv, TypeOK, KernelTypeOK
  <2>3. ClientTypeOK'
    BY <2>1 DEF IndInv, TypeOK, ClientTypeOK, CPCs
  <2>4. srvSock[c] = "none" /\ down[c] = <<>>
    BY <2>1 DEF IndInv, SocketsInStep, ConnInStep
  <2>5. \A e \in Conn : srvSock'[e] = "open" <=> srvSock[e] = "open"
    BY <2>1, <2>4 DEF IndInv, TypeOK, KernelTypeOK
  <2>6. ASSUME NEW e \in Conn PROVE ConnInStep(e)'
    BY <2>1, <2>4 DEF IndInv, TypeOK, KernelTypeOK, ClientTypeOK, SocketsInStep, ConnInStep
  <2>. QED
    BY <2>1, <2>2, <2>3, <2>5, <2>6, ClientStepInv
<1>2. CASE ConnectRefused(c) \/ SelectStdin(c) \/ StdinEmpty(c)
  <2>1. /\ UNCHANGED <<kernelVars, rbuf, seen, sent, code>>
        /\ cpc' \in [Conn -> CPCs] /\ result' \in [Conn -> Results]
        /\ \A e \in Conn : cpc'[e] = "start" => cpc[e] = "start"
    BY <1>2 DEF ConnectRefused, SelectStdin, StdinEmpty, IndInv, TypeOK, ClientTypeOK,
                CPCs, Results
  <2>2. /\ UNCHANGED <<listening, mode, ptyVars>>
        /\ cliSock' \in [Conn -> {"none", "open", "closed", "reset"}]
        /\ srvSock' \in [Conn -> {"none", "backlog", "open", "closed"}]
        /\ up' \in [Conn -> Seq(Packet)] /\ down' \in [Conn -> Seq(Cell)]
        /\ \A e \in Conn : srvSock'[e] = "open" <=> srvSock[e] = "open"
    BY <2>1 DEF IndInv, TypeOK, KernelTypeOK, kernelVars, sockVars
  <2>3. ClientTypeOK'
    BY <2>1 DEF IndInv, TypeOK, ClientTypeOK
  <2>4. ASSUME NEW e \in Conn PROVE ConnInStep(e)'
    BY <2>1 DEF IndInv, SocketsInStep, ConnInStep, kernelVars, sockVars
  <2>. QED
    BY <2>2, <2>3, <2>4, ClientStepInv
<1>3. CASE RecvPart(c)
  <2>1. /\ rbuf' = [rbuf EXCEPT ![c] = Pending(c)]
        /\ down' = [down EXCEPT ![c] = <<>>]
        /\ cpc' = [cpc EXCEPT ![c] = IF cpc[c] = "loop" THEN "recv" ELSE cpc[c]]
        /\ Len(Pending(c)) < Need(c)
        /\ UNCHANGED <<listening, mode, cliSock, srvSock, up, ptyVars,
                       seen, sent, result, code>>
    BY <1>3 DEF RecvPart
  <2>2. Pending(c) \in Seq(Cell) /\ Len(Pending(c)) <= Head(Pending(c)).val
    <3>1. Pending(c) \in Seq(Cell)
      BY ConcatProperties DEF Pending, IndInv, TypeOK, KernelTypeOK, ClientTypeOK
    <3>2. Pending(c) # <<>>
      BY <1>3, ConcatProperties, EmptySeq
      DEF RecvPart, Pending, IndInv, TypeOK, KernelTypeOK, ClientTypeOK
    <3>3. Head(Pending(c)) \in Cell
      BY <3>1, <3>2, HeadTailProperties
    <3>4. Len(Pending(c)) \in Nat /\ Head(Pending(c)).val \in Nat
      BY <3>1, <3>3, LenProperties DEF Cell
    <3>. QED
      BY <2>1, <3>1, <3>4 DEF Need
  <2>3. down' \in [Conn -> Seq(Cell)] /\ rbuf' \in [Conn -> Seq(Cell)]
    BY <2>1, <2>2, EmptySeq DEF IndInv, TypeOK, KernelTypeOK, ClientTypeOK
  <2>4. ClientTypeOK'
    BY <2>1, <2>3 DEF IndInv, TypeOK, ClientTypeOK, CPCs
  <2>5. ASSUME NEW e \in Conn PROVE ConnInStep(e)'
    <3>1. ConnInStep(e) /\ srvSock'[e] = srvSock[e] /\ sent'[e] = sent[e]
      BY <2>1 DEF IndInv, SocketsInStep
    <3>2. CASE e = c
      <4>1. /\ down'[e] = <<>> /\ Len(down'[e]) <= SNDBUF
            /\ rbuf'[e] = Pending(c)
            /\ cpc'[e] = "start" => cpc[e] = "start"
        BY <2>1, <3>2, EmptySeq, BoundAssumption
        DEF IndInv, TypeOK, KernelTypeOK, ClientTypeOK
      <4>. QED
        BY <2>2, <3>1, <4>1 DEF ConnInStep
    <3>3. CASE e # c
      <4>1. UNCHANGED <<down[e], rbuf[e], cpc[e]>>
        BY <2>1, <3>3 DEF IndInv, TypeOK, KernelTypeOK, ClientTypeOK
      <4>. QED
        BY <3>1, <4>1 DEF ConnInStep
    <3>. QED
      BY <3>2, <3>3
  <2>6. /\ cliSock' \in [Conn -> {"none", "open", "closed", "reset"}]
        /\ srvSock' \in [Conn -> {"none", "backlog", "open", "closed"}]
        /\ up' \in [Conn -> Seq(Packet)]
        /\ \A e \in Conn : srvSock'[e] = "open" <=> srvSock[e] = "open"
    BY <2>1 DEF IndInv, TypeOK, KernelTypeOK
  <2>. QED
    BY <2>1, <2>3, <2>4, <2>5, <2>6, ClientStepInv
<1>4. CASE RecvFail(c) \/ StdinEof(c) \/ Killed(c)
  <2>1. PICK r \in Results : Finish(c, r, down[c])
    BY <1>4 DEF RecvFail, StdinEof, Killed, Results
  <2>2. UNCHANGED <<listening, mode, srvSock, up, ptyVars, seen, sent, code>>
    BY <1>4 DEF RecvFail, StdinEof, Killed
  <2>. QED
    BY <2>1, <2>2, FinishInv
<1>5. CASE RecvPid(c)
  <2>1. CASE Kind[c] = "probe"
    <3>1. PICK r \in Results : Finish(c, r, RecvRest(c))
      BY <1>5, <2>1 DEF RecvPid, Results
    <3>2. UNCHANGED <<listening, mode, srvSock, up, ptyVars, seen, sent, code>>
      BY <1>5, <2>1 DEF RecvPid
    <3>. QED
      BY <3>1, <3>2, FinishInv
  <2>2. CASE Kind[c] # "probe"
    <3>1. PICK next \in {"dump", "keys", "attach"} : Received(c, next)
      BY <1>5, <2>2 DEF RecvPid
    <3>2. /\ UNCHANGED <<listening, mode, cliSock, srvSock, up, ptyVars>>
          /\ UNCHANGED <<seen, sent, result, code>>
          /\ Whole(c)
      BY <1>5, <2>2 DEF RecvPid
    <3>3. next \in CPCs \ {"start"}
      BY DEF CPCs
    <3>. QED
      BY <3>1, <3>2, <3>3, ReceivedInv
  <2>. QED
    BY <2>1, <2>2
<1>6. CASE RecvLoop(c)
  <2>1. /\ Whole(c) /\ Received(c, "stdin")
        /\ UNCHANGED <<listening, mode, cliSock, srvSock, up, ptyVars, sent, result, code>>
        /\ seen' = [seen EXCEPT ![c] = IF RecvPacket(c).typ = "CONTENT"
                                         THEN seen[c] \o RecvPacket(c).payload ELSE seen[c]]
    BY <1>6 DEF RecvLoop
  <2>2. seen[c] \o RecvPacket(c).payload \in Seq(Nat)
    BY <2>1, RecvType, ConcatProperties
  <2>3. seen' \in [Conn -> Seq(Nat)]
    BY <2>1, <2>2
  <2>4. "stdin" \in CPCs \ {"start"}
    BY DEF CPCs
  <2>. QED
    BY <2>1, <2>3, <2>4, ReceivedInv
<1>7. CASE RecvExit(c)
  <2>1. /\ Whole(c) /\ Finish(c, "exited", RecvRest(c))
        /\ UNCHANGED <<listening, mode, srvSock, ptyVars, seen, sent>>
        /\ RecvPacket(c).typ = "EXIT"
        /\ code' = [code EXCEPT ![c] = read_u32(RecvPacket(c).payload)]
        /\ up' = IF srvSock[c] = "closed" THEN up
                 ELSE [up EXCEPT ![c] = Append(@, RecvPacket(c))]
    BY <1>7 DEF RecvExit
  <2>2. RecvPacket(c).payload \in Seq(Nat)
    BY <2>1, RecvType
  <2>3. read_u32(RecvPacket(c).payload) \in Nat
    BY <2>2, HeadTailProperties DEF read_u32
  <2>4. RecvPacket(c) \in Packet
    BY <2>1, <2>2 DEF RecvPacket, CellsPacket, Packet, MsgType
  <2>5. Append(up[c], RecvPacket(c)) \in Seq(Packet)
    BY <2>4, AppendProperties
  <2>6. up' \in [Conn -> Seq(Packet)] /\ code' \in [Conn -> Nat \cup {NoCode}]
    BY <2>1, <2>3, <2>5
  <2>. QED
    BY <2>1, <2>6, FinishInv DEF Results
<1>8. CASE RecvDump(c)
  <2>1. CASE RecvPacket(c).typ = "DUMP_END"
    <3>1. /\ Finish(c, "ok", RecvRest(c))
          /\ UNCHANGED <<listening, mode, srvSock, up, ptyVars, seen, sent, code>>
      BY <1>8, <2>1 DEF RecvDump
    <3>. QED
      BY <3>1, FinishInv DEF Results
  <2>2. CASE RecvPacket(c).typ # "DUMP_END"
    <3>1. /\ Whole(c) /\ Received(c, "dumping")
          /\ UNCHANGED <<listening, mode, cliSock, srvSock, up, ptyVars, sent, result, code>>
          /\ seen' = [seen EXCEPT ![c] = IF RecvPacket(c).typ = "CONTENT"
                                           THEN seen[c] \o RecvPacket(c).payload ELSE seen[c]]
      BY <1>8, <2>2 DEF RecvDump
    <3>2. seen[c] \o RecvPacket(c).payload \in Seq(Nat)
      BY <3>1, RecvType, ConcatProperties
    <3>3. seen' \in [Conn -> Seq(Nat)]
      BY <3>1, <3>2
    <3>4. "dumping" \in CPCs \ {"start"}
      BY DEF CPCs
    <3>. QED
      BY <3>1, <3>3, <3>4, ReceivedInv
  <2>. QED
    BY <2>1, <2>2
<1>9. CASE SendAttach(c) \/ send_resize(c) \/ SendDump(c)
  <2>1. UNCHANGED <<listening, mode, srvSock, ptyVars, seen, sent, code>>
    BY <1>9 DEF SendAttach, send_resize, SendDump
  <2>2. PICK p \in Packet, next \in CPCs \ {"start"} : SendOrFail(c, p, next)
    <3>1. CASE SendAttach(c)
      <4>1. [typ |-> "ATTACH", payload |-> <<flags(c)>>] \in Packet
        BY DEF Packet, MsgType, flags
      <4>. QED
        BY <3>1, <4>1 DEF SendAttach, CPCs
    <3>2. CASE send_resize(c)
      <4>1. [typ |-> "RESIZE", payload |-> <<TermSize[c]>>] \in Packet
        BY ConnAssumption DEF Packet, MsgType
      <4>. QED
        BY <3>2, <4>1 DEF send_resize, CPCs
    <3>3. CASE SendDump(c)
      <4>1. [typ |-> "DUMP", payload |-> <<>>] \in Packet
        BY EmptySeq DEF Packet, MsgType
      <4>. QED
        BY <3>3, <4>1 DEF SendDump, CPCs
    <3>. QED
      BY <1>9, <3>1, <3>2, <3>3
  <2>. QED
    BY <2>1, <2>2, SendOrFailInv
<1>10. CASE SendKeys(c)
  <2>1. UNCHANGED <<listening, mode, srvSock, ptyVars, seen, code>>
    BY <1>10 DEF SendKeys
  <2>2. CASE sent[c] = KEYS
    <3>1. Finish(c, "ok", down[c]) /\ UNCHANGED <<up, sent>>
      BY <1>10, <2>2 DEF SendKeys
    <3>. QED
      BY <2>1, <3>1, FinishInv DEF Results
  <2>3. CASE sent[c] # KEYS
    <3>. DEFINE n == MinOf(MAX_PAYLOAD, KEYS - sent[c])
                keys == [i \in 1..n |-> sent[c] + i]
    <3>1. /\ SendOrFail(c, [typ |-> "SEND_KEYS", payload |-> keys], "keys")
          /\ sent' = [sent EXCEPT ![c] = @ + n]
      BY <1>10, <2>3 DEF SendKeys
    <3>2. sent[c] \in Nat /\ KEYS - sent[c] \in Nat /\ MAX_PAYLOAD \in Nat
      BY BoundAssumption
    <3>3. n \in Nat /\ n <= KEYS - sent[c]
      BY <3>2, MinOfType
    <3>. HIDE DEF n
    <3>4. keys \in [1..n -> Nat]
      BY <3>2
    <3>5. keys \in Seq(Nat)
      <4>. HIDE DEF keys
      <4>. QED
        BY <3>3, <3>4, FunctionIsSeq
    <3>6. [typ |-> "SEND_KEYS", payload |-> keys] \in Packet
      BY <3>5 DEF Packet, MsgType
    <3>7. sent[c] + n \in Nat /\ sent[c] + n <= KEYS
      BY <3>2, <3>3, BoundAssumption
    <3>8. sent' \in [Conn -> Nat] /\ \A e \in Conn : sent'[e] <= KEYS
      BY <3>1, <3>7
    <3>. HIDE DEF keys
    <3>. QED
      BY <2>1, <3>1, <3>6, <3>8, SendOrFailInv DEF CPCs
  <2>. QED
    BY <2>2, <2>3
<1>11. CASE StdinKey(c)
  <2>1. /\ UNCHANGED <<listening, mode, srvSock, ptyVars, seen, code>>
        /\ cpc[c] = "stdin"
        /\ sent' = [sent EXCEPT ![c] = @ + 1] /\ sent[c] < KEYS
    BY <1>11 DEF StdinKey
  <2>2. sent' \in [Conn -> Nat] /\ \A e \in Conn : sent'[e] <= KEYS
    BY <2>1, BoundAssumption
  <2>3. CASE Kind[c] = "readonly"
    <3>1. cpc' = [cpc EXCEPT ![c] = "loop"] /\ UNCHANGED <<up, cliSock, down, rbuf, result>>
      BY <1>11, <2>3 DEF StdinKey
    <3>2. /\ cliSock' \in [Conn -> {"none", "open", "closed", "reset"}]
          /\ srvSock' \in [Conn -> {"none", "backlog", "open", "closed"}]
          /\ up' \in [Conn -> Seq(Packet)] /\ down' \in [Conn -> Seq(Cell)]
          /\ \A e \in Conn : srvSock'[e] = "open" <=> srvSock[e] = "open"
      BY <2>1, <3>1 DEF IndInv, TypeOK, KernelTypeOK
    <3>3. ClientTypeOK'
      BY <2>1, <2>2, <3>1 DEF IndInv, TypeOK, ClientTypeOK, CPCs
    <3>4. ASSUME NEW e \in Conn PROVE ConnInStep(e)'
      BY <2>1, <2>2, <3>1 DEF IndInv, SocketsInStep, ConnInStep
    <3>. QED
      BY <2>1, <3>2, <3>3, <3>4, ClientStepInv
  <2>4. CASE Kind[c] # "readonly"
    <3>1. SendOrFail(c, [typ |-> "CONTENT", payload |-> <<sent[c] + 1>>], "loop")
      BY <1>11, <2>4 DEF StdinKey
    <3>2. [typ |-> "CONTENT", payload |-> <<sent[c] + 1>>] \in Packet
      BY DEF Packet, MsgType
    <3>. QED
      BY <2>1, <2>2, <3>1, <3>2, SendOrFailInv DEF CPCs
  <2>. QED
    BY <2>3, <2>4
<1>12. CASE StdinDetach(c)
  <2>1. UNCHANGED <<listening, mode, srvSock, ptyVars, seen, sent, code>>
    BY <1>12 DEF StdinDetach
  <2>2. PICK r \in Results : Finish(c, r, down[c])
    BY <1>12 DEF StdinDetach, Results
  <2>3. up' \in [Conn -> Seq(Packet)]
    <3>1. [typ |-> "DETACH", payload |-> <<>>] \in Packet
      BY EmptySeq DEF Packet, MsgType
    <3>2. Append(up[c], [typ |-> "DETACH", payload |-> <<>>]) \in Seq(Packet)
      BY <3>1, AppendProperties
    <3>. QED
      BY <1>12, <3>2 DEF StdinDetach
  <2>. QED
    BY <2>1, <2>2, <2>3, FinishInv
<1>. QED
  BY <1>1, <1>2, <1>3, <1>4, <1>5, <1>6, <1>7, <1>8, <1>9, <1>10, <1>11, <1>12
  DEF ClientRuns, ClientUser

-------------------------------------------------------------------------------
(* The server.  Its invariant splits into the part about single values and  *)
(* the part about the tables indexed by connections; most of its actions    *)
(* disturb little of either.                                                *)
ValuesInv ==
    /\ listening \in BOOLEAN
    /\ mode \in {"0600", "0610"}
    /\ child \in {"running", "zombie", "reaped"}
    /\ wstatus \in Nat
    /\ produced \in Nat
    /\ consumed \in Nat
    /\ inq \in Nat /\ inq <= PTYIN
    /\ input \in Seq([conn : Conn, key : Nat])
    /\ winsize \in Nat
    /\ termed \in BOOLEAN
    /\ history \in Seq(Nat)
    /\ read_pty \in BOOLEAN
    /\ child_exit \in Nat \cup {NoStatus}
    /\ shutdown \in BOOLEAN
    /\ saw_eof \in BOOLEAN
    /\ snap \in Seq(Nat)
    /\ send_end \in BOOLEAN

LoopInv ==
    /\ pc \in PCs
    /\ todo \subseteq clients
    /\ todo # {} => pc \in {"read", "handle", "replay"}
    /\ cur \in Conn \cup {NoConn}
    /\ pc \in {"handle", "replay"} => cur \in clients

TablesInv ==
    /\ clients = {c \in Conn : srvSock[c] = "open"}
    /\ client \in [Conn -> Client]
    /\ \A c \in Conn : Len(client[c].send_queue) <= SEND_QUEUE_CAP
    /\ cliSock \in [Conn -> {"none", "open", "closed", "reset"}]
    /\ srvSock \in [Conn -> {"none", "backlog", "open", "closed"}]
    /\ up \in [Conn -> Seq(Packet)]
    /\ down \in [Conn -> Seq(Cell)]
    /\ ClientTypeOK
    /\ \A c \in Conn : ConnInStep(c)

(* The split, now and after a step. *)
LEMMA InvSplit == IndInv => ValuesInv /\ LoopInv /\ TablesInv
BY DEF IndInv, TypeOK, KernelTypeOK, ServerTypeOK, SocketsInStep, QueueBounded,
       ValuesInv, LoopInv, TablesInv

LEMMA InvJoin == ValuesInv' /\ LoopInv' /\ TablesInv' => IndInv'
<1>. SUFFICES ASSUME ValuesInv', LoopInv', TablesInv' PROVE IndInv'
  OBVIOUS
<1>1. clients' \subseteq Conn
  BY DEF TablesInv
<1>2. KernelTypeOK'
  BY DEF ValuesInv, TablesInv, KernelTypeOK
<1>3. ServerTypeOK'
  BY <1>1 DEF ValuesInv, LoopInv, TablesInv, ServerTypeOK
<1>4. SocketsInStep' /\ QueueBounded' /\ ClientTypeOK'
  BY DEF ValuesInv, LoopInv, TablesInv, SocketsInStep, QueueBounded
<1>. QED
  BY <1>2, <1>3, <1>4 DEF IndInv, TypeOK

(* A step that leaves the tables alone. *)
LEMMA TablesStutter ==
    ASSUME TablesInv, UNCHANGED <<clients, client, cliSock, srvSock, up, down, clientVars>>
    PROVE  TablesInv'
BY DEF TablesInv, ClientTypeOK, ConnInStep, clientVars

(* A step that changes one client's struct and not its queue. *)
LEMMA TablesClient ==
    ASSUME TablesInv, NEW c \in Conn, NEW cl \in Client,
           cl.send_queue = client[c].send_queue,
           client' = [client EXCEPT ![c] = cl],
           UNCHANGED <<clients, cliSock, srvSock, down, clientVars>>,
           up' \in [Conn -> Seq(Packet)]
    PROVE  TablesInv'
<1>1. client' \in [Conn -> Client]
  BY DEF TablesInv
<1>2. \A e \in Conn : client'[e].send_queue = client[e].send_queue
  BY DEF TablesInv
<1>3. \A e \in Conn : Len(client'[e].send_queue) <= SEND_QUEUE_CAP
  BY <1>2 DEF TablesInv
<1>4. ClientTypeOK' /\ \A e \in Conn : ConnInStep(e)'
  BY DEF TablesInv, ClientTypeOK, ConnInStep, clientVars
<1>. QED
  BY <1>1, <1>3, <1>4 DEF TablesInv

(* A step that sends a packet to some of the clients. *)
LEMMA TablesSend ==
    ASSUME TablesInv, NEW S, S \subseteq clients, NEW p \in Packet,
           client' \in [Conn -> Client],
           \A c \in Conn : c \in S => Len(client'[c].send_queue) <= SEND_QUEUE_CAP,
           \A c \in Conn : c \notin S => client'[c] = client[c],
           down' = [c \in Conn |-> IF c \in S THEN send_packet_nonblocking(c, p).wire
                                              ELSE down[c]],
           UNCHANGED <<clients, cliSock, srvSock, up, clientVars>>
    PROVE  TablesInv'
<1>1. ASSUME NEW c \in Conn PROVE SendResult(send_packet_nonblocking(c, p))
  <2>1. /\ client[c] \in Client /\ Len(client[c].send_queue) <= SEND_QUEUE_CAP
        /\ down[c] \in Seq(Cell) /\ Len(down[c]) <= SNDBUF
    BY DEF TablesInv, ConnInStep
  <2>. QED
    BY <2>1, SendType
<1>2. \A c \in Conn : /\ send_packet_nonblocking(c, p).wire \in Seq(Cell)
                      /\ Len(send_packet_nonblocking(c, p).wire) <= SNDBUF
  BY <1>1 DEF SendResult
<1>3. down' \in [Conn -> Seq(Cell)]
  BY <1>2 DEF TablesInv
<1>4. \A c \in Conn : c \in S => srvSock[c] = "open"
  BY DEF TablesInv
<1>5. ASSUME NEW c \in Conn PROVE ConnInStep(c)'
  <2>1. ConnInStep(c)
    BY DEF TablesInv
  <2>2. CASE c \in S
    <3>1. down'[c] = send_packet_nonblocking(c, p).wire
      BY <2>2
    <3>2. Len(down'[c]) <= SNDBUF /\ srvSock'[c] = "open"
      BY <1>2, <1>4, <2>2, <3>1
    <3>. QED
      BY <2>1, <3>2 DEF ConnInStep, clientVars
  <2>3. CASE c \notin S
    <3>1. down'[c] = down[c]
      BY <2>3
    <3>. QED
      BY <2>1, <3>1 DEF ConnInStep, clientVars
  <2>. QED
    BY <2>2, <2>3
<1>6. ClientTypeOK'
  BY DEF TablesInv, ClientTypeOK, clientVars
<1>7. \A c \in Conn : Len(client'[c].send_queue) <= SEND_QUEUE_CAP
  BY DEF TablesInv
<1>. QED
  BY <1>3, <1>5, <1>6, <1>7 DEF TablesInv

(* What the callers of send_packet_nonblocking make of a client's struct. *)
LEMMA SentType ==
    ASSUME NEW c \in Conn, client[c] \in Client, NEW r, SendResult(r),
           send_end \in BOOLEAN
    PROVE  /\ SentOrDisconnect(c, r) \in Client
           /\ SentOrDisconnect(c, r).send_queue = r.queue
           /\ SentThenClose(c, r) \in Client
           /\ SentThenClose(c, r).send_queue = r.queue
           /\ Replayed(c, r) \in Client
           /\ Replayed(c, r).send_queue = r.queue
           /\ [Replayed(c, r) EXCEPT !.disconnected = TRUE] \in Client
           /\ [Replayed(c, r) EXCEPT !.disconnected = TRUE].send_queue = r.queue
<1>1. (client[c].disconnected \/ ~r.ok) \in BOOLEAN
  OBVIOUS
<1>2. r.queue \in Seq(Cell)
  BY DEF SendResult
<1>3. SentOrDisconnect(c, r) \in Client /\ SentOrDisconnect(c, r).send_queue = r.queue
  BY <1>1, <1>2 DEF SentOrDisconnect, Client
<1>4. SentThenClose(c, r) \in Client /\ SentThenClose(c, r).send_queue = r.queue
  BY <1>2 DEF SentThenClose, Client, Deadline
<1>5. Replayed(c, r) \in Client /\ Replayed(c, r).send_queue = r.queue
  BY <1>2, <1>4 DEF Replayed, Client
<1>6. /\ [Replayed(c, r) EXCEPT !.disconnected = TRUE] \in Client
      /\ [Replayed(c, r) EXCEPT !.disconnected = TRUE].send_queue = r.queue
  BY <1>5 DEF Client
<1>. QED
  BY <1>3, <1>4, <1>5, <1>6

(* The steps that touch no client. *)
LEMMA QuietInv ==
    ASSUME IndInv, UNCHANGED clientVars,
           PollShutdown \/ AcceptDone \/ PtyDone \/ WaitPid \/ Shutdown
    PROVE  IndInv'
<1>. USE InvSplit
<1>1. UNCHANGED <<clients, client, cliSock, srvSock, up, down>>
  BY DEF PollShutdown, AcceptDone, PtyDone, WaitPid, Shutdown, kernelVars, sockVars
<1>2. TablesInv'
  BY <1>1, TablesStutter
<1>3. LoopInv'
  BY <1>1 DEF PollShutdown, AcceptDone, PtyDone, WaitPid, Shutdown, LoopInv, PCs
<1>4. ValuesInv'
  <2>1. CASE PollShutdown
    <3>1. \/ termed' = TRUE /\ child_exit' = 128 + SIGTERM /\ mode' = "0610"
          \/ UNCHANGED <<termed, child_exit, mode>>
      BY <2>1, Zenon DEF PollShutdown
    <3>2. /\ shutdown' = FALSE
          /\ UNCHANGED <<listening, child, wstatus, produced, consumed, inq, input, winsize>>
          /\ UNCHANGED <<history, read_pty, saw_eof, snap, send_end>>
      BY <2>1, Zenon DEF PollShutdown
    <3>3. /\ termed' \in BOOLEAN /\ mode' \in {"0600", "0610"}
          /\ child_exit' \in Nat \cup {NoStatus}
      <4>1. 128 + SIGTERM \in Nat
        BY DEF SIGTERM
      <4>2. CASE termed' = TRUE /\ child_exit' = 128 + SIGTERM /\ mode' = "0610"
        BY <4>1, <4>2
      <4>3. CASE UNCHANGED <<termed, child_exit, mode>>
        BY <4>3 DEF ValuesInv
      <4>. QED
        BY <3>1, <4>2, <4>3
    <3>. QED
      BY <3>2, <3>3 DEF ValuesInv
  <2>2. CASE AcceptDone \/ Shutdown
    BY <2>2, ZenonT(30) DEF AcceptDone, Shutdown, ValuesInv, kernelVars, sockVars, ptyVars
  <2>3. CASE PtyDone
    <3>1. read_pty' \in BOOLEAN
      <4>1. CASE ~read_pty /\ read_pty' = FALSE
        BY <4>1
      <4>2. CASE read_pty' = (child = "running") \/ read_pty' = TRUE
        BY <4>2
      <4>. QED
        BY <2>3, <4>1, <4>2 DEF PtyDone
    <3>. QED
      BY <2>3, <3>1 DEF PtyDone, ValuesInv, kernelVars, sockVars, ptyVars
  <2>4. CASE WaitPid
    BY <2>4, StatusType DEF WaitPid, ValuesInv
  <2>. QED
    BY <2>1, <2>2, <2>3, <2>4
<1>. QED
  BY <1>2, <1>3, <1>4, InvJoin

(* The packet at the front of a client's buffer, and the struct without it. *)
LEMMA FrontType ==
    ASSUME IndInv, NEW types, Popping(types)
    PROVE  /\ cur \in Conn /\ cur \in clients /\ client[cur] \in Client
           /\ front \in Packet
           /\ Popped \in Client
           /\ Popped.send_queue = client[cur].send_queue
<1>1. cur \in clients /\ cur \in Conn /\ client[cur] \in Client
  BY InvSplit DEF Popping, LoopInv, TablesInv
<1>2. client[cur].buf \in Seq(Packet) /\ client[cur].buf # <<>>
  BY <1>1 DEF Popping, Client
<1>3. front \in Packet /\ Tail(client[cur].buf) \in Seq(Packet)
  BY <1>2, HeadTailProperties DEF front
<1>4. Popped \in Client /\ Popped.send_queue = client[cur].send_queue
  BY <1>1, <1>3 DEF Popped, Client
<1>. QED
  BY <1>1, <1>3, <1>4

(* A write to the pty keeps its buffer within bounds and its log typed. *)
LEMMA PtyWriteType ==
    ASSUME ValuesInv, NEW c \in Conn, NEW keys \in Seq(Nat), fd_write_all(c, keys)
    PROVE  inq' \in Nat /\ inq' <= PTYIN /\ input' \in Seq([conn : Conn, key : Nat])
<1>. DEFINE n == MinOf(Len(keys), PTYIN - inq)
            new == [i \in 1..n |-> [conn |-> c, key |-> keys[i]]]
<1>1. Len(keys) \in Nat /\ PTYIN - inq \in Nat /\ inq \in Nat /\ PTYIN \in Nat
  BY LenProperties, BoundAssumption DEF ValuesInv
<1>2. n \in Nat /\ n <= Len(keys) /\ n <= PTYIN - inq
  BY <1>1, MinOfType
<1>3. inq' = inq + n /\ input' = input \o new
  BY DEF fd_write_all
<1>. HIDE DEF n
<1>4. \A i \in 1..n : keys[i] \in Nat
  BY <1>1, <1>2, ElementOfSeq
<1>5. new \in [1..n -> [conn : Conn, key : Nat]]
  BY <1>4
<1>. HIDE DEF new
<1>6. new \in Seq([conn : Conn, key : Nat])
  BY <1>2, <1>5, FunctionIsSeq
<1>7. input' \in Seq([conn : Conn, key : Nat])
  BY <1>3, <1>6, ConcatProperties DEF ValuesInv
<1>. QED
  BY <1>1, <1>2, <1>3, <1>7

(* read_client_packets, up to send_history, and the clock. *)
LEMMA HandleInv ==
    ASSUME IndInv, UNCHANGED clientVars,
           \/ \E c \in Conn : ReadClient(c) \/ Elapse(c)
           \/ HandleInput \/ HandleAttach \/ HandleDump \/ HandleResize \/ HandleDetach
           \/ EndClient
    PROVE  IndInv'
<1>. USE InvSplit
<1>1. ASSUME NEW c \in Conn, ReadClient(c) PROVE IndInv'
  <2>1. client[c] \in Client /\ client[c].buf \in Seq(Packet) /\ up[c] \in Seq(Packet)
    BY DEF TablesInv, Client
  <2>2. client[c].buf \o up[c] \in Seq(Packet)
    BY <2>1, ConcatProperties
  <2>3. up' \in [Conn -> Seq(Packet)]
    BY <1>1, EmptySeq DEF ReadClient, TablesInv
  <2>4. /\ UNCHANGED <<clients, cliSock, srvSock, down>>
        /\ UNCHANGED <<listening, mode, ptyVars, history, read_pty, child_exit, shutdown>>
        /\ UNCHANGED <<snap, send_end>>
        /\ c \in todo /\ todo' = todo \ {c} /\ pc = "read"
    BY <1>1 DEF ReadClient
  <2>5. c \in clients
    BY <2>4 DEF LoopInv
  <2>6. CASE cliSock[c] = "reset"
    <3>. DEFINE cl == [client[c] EXCEPT !.buf = client[c].buf \o up[c], !.disconnected = TRUE]
    <3>1. client' = [client EXCEPT ![c] = cl] /\ UNCHANGED <<pc, cur, saw_eof>>
      BY <1>1, <2>6 DEF ReadClient, TablesInv
    <3>2. cl \in Client /\ cl.send_queue = client[c].send_queue
      BY <2>1, <2>2 DEF Client
    <3>. HIDE DEF cl
    <3>3. TablesInv'
      BY <2>3, <2>4, <3>1, <3>2, TablesClient
    <3>4. LoopInv'
      BY <2>4, <3>1 DEF LoopInv
    <3>5. ValuesInv'
      BY <2>4, <3>1 DEF ValuesInv, ptyVars
    <3>. QED
      BY <3>3, <3>4, <3>5, InvJoin
  <2>7. CASE cliSock[c] # "reset"
    <3>. DEFINE cl == [client[c] EXCEPT !.buf = client[c].buf \o up[c]]
    <3>1. /\ client' = [client EXCEPT ![c] = cl]
          /\ cur' = c /\ pc' = "handle"
      BY <1>1, <2>7 DEF ReadClient, TablesInv
    <3>2. cl \in Client /\ cl.send_queue = client[c].send_queue
      BY <2>1, <2>2 DEF Client
    <3>. HIDE DEF cl
    <3>3. TablesInv'
      BY <2>3, <2>4, <3>1, <3>2, TablesClient
    <3>4. LoopInv'
      BY <2>4, <2>5, <3>1 DEF LoopInv, PCs
    <3>5. saw_eof' \in BOOLEAN
      <4>1. saw_eof' = (cliSock[c] = "closed")
        BY <1>1, <2>7 DEF ReadClient
      <4>. QED
        BY <4>1
    <3>6. ValuesInv'
      BY <2>4, <3>5 DEF ValuesInv, ptyVars
    <3>. QED
      BY <3>3, <3>4, <3>6, InvJoin
  <2>. QED
    BY <2>6, <2>7
<1>2. ASSUME NEW c \in Conn, Elapse(c) PROVE IndInv'
  <2>. DEFINE cl == [client[c] EXCEPT !.close_after_drain = "late"]
  <2>1. client' = [client EXCEPT ![c] = cl]
    BY <1>2 DEF Elapse, TablesInv
  <2>2. cl \in Client /\ cl.send_queue = client[c].send_queue
    BY ZenonT(30) DEF TablesInv, Client, Deadline
  <2>3. UNCHANGED <<kernelVars, pc, clients, history, read_pty, child_exit,
                    shutdown, todo, cur, saw_eof, snap, send_end>>
    BY <1>2 DEF Elapse
  <2>. HIDE DEF cl
  <2>4. up' \in [Conn -> Seq(Packet)] /\ UNCHANGED <<cliSock, srvSock, down>>
    BY <2>3 DEF TablesInv, kernelVars, sockVars
  <2>5. TablesInv'
    BY <2>1, <2>2, <2>3, <2>4, TablesClient
  <2>6. LoopInv' /\ ValuesInv'
    BY <2>3 DEF LoopInv, ValuesInv, kernelVars, sockVars, ptyVars
  <2>. QED
    BY <2>5, <2>6, InvJoin
<1>3. CASE HandleInput
  <2>1. /\ Popping({"CONTENT", "SEND_KEYS"})
        /\ client' = [client EXCEPT ![cur] = Popped]
        /\ UNCHANGED <<sockVars, child, wstatus, produced, consumed, winsize, termed,
                       pc, clients, history, read_pty, child_exit, shutdown, todo,
                       cur, saw_eof, snap, send_end>>
    BY <1>3 DEF HandleInput
  <2>2. /\ cur \in Conn /\ front \in Packet /\ Popped \in Client
        /\ Popped.send_queue = client[cur].send_queue
    BY <2>1, FrontType
  <2>3. up' \in [Conn -> Seq(Packet)] /\ UNCHANGED <<cliSock, srvSock, down, listening, mode>>
    BY <2>1 DEF TablesInv, sockVars
  <2>4. TablesInv'
    BY <2>1, <2>2, <2>3, TablesClient
  <2>5. inq' \in Nat /\ inq' <= PTYIN /\ input' \in Seq([conn : Conn, key : Nat])
    <3>1. CASE UNCHANGED <<inq, input>>
      BY <3>1 DEF ValuesInv
    <3>2. CASE fd_write_all(cur, front.payload)
      <4>1. front.payload \in Seq(Nat)
        BY <2>2 DEF Packet
      <4>. QED
        BY <2>2, <3>2, <4>1, PtyWriteType
    <3>. QED
      BY <1>3, <3>1, <3>2 DEF HandleInput
  <2>6. LoopInv' /\ ValuesInv'
    BY <2>1, <2>3, <2>5 DEF LoopInv, ValuesInv
  <2>. QED
    BY <2>4, <2>6, InvJoin
<1>4. CASE HandleAttach \/ HandleDump \/ HandleResize \/ HandleDetach
  <2>1. PICK types : Popping(types)
    BY <1>4 DEF HandleAttach, HandleDump, HandleResize, HandleDetach
  <2>2. /\ cur \in Conn /\ cur \in clients /\ front \in Packet /\ Popped \in Client
        /\ Popped.send_queue = client[cur].send_queue
    BY <2>1, FrontType
  <2>3. front.payload \in Seq(Nat) /\ read_u32(front.payload) \in Nat
    BY <2>2, HeadTailProperties DEF Packet, read_u32
  <2>4. PICK cl \in Client : /\ client' = [client EXCEPT ![cur] = cl]
                             /\ cl.send_queue = client[cur].send_queue
    <3>. DEFINE at == [Popped EXCEPT !.attached = TRUE, !.flags = read_u32(front.payload)]
                de == [Popped EXCEPT !.disconnected = TRUE]
    <3>1. at \in Client /\ at.send_queue = Popped.send_queue
      BY <2>2, <2>3 DEF Client
    <3>2. de \in Client /\ de.send_queue = Popped.send_queue
      BY <2>2 DEF Client
    <3>3. \/ client' = [client EXCEPT ![cur] = at]
          \/ client' = [client EXCEPT ![cur] = de]
          \/ client' = [client EXCEPT ![cur] = Popped]
      BY <1>4 DEF HandleAttach, HandleDump, HandleResize, HandleDetach
    <3>. HIDE DEF at, de
    <3>. QED
      BY <2>2, <3>1, <3>2, <3>3
  <2>5. /\ UNCHANGED <<sockVars, clients, history, read_pty, child_exit, shutdown,
                       todo, cur, saw_eof>>
        /\ UNCHANGED <<child, wstatus, produced, consumed, inq, input, termed>>
    BY <1>4 DEF HandleAttach, HandleDump, HandleResize, HandleDetach, kernelVars, ptyVars
  <2>6. up' \in [Conn -> Seq(Packet)] /\ UNCHANGED <<cliSock, srvSock, down, listening, mode>>
    BY <2>5 DEF TablesInv, sockVars
  <2>7. TablesInv'
    BY <2>2, <2>4, <2>5, <2>6, TablesClient
  <2>8. LoopInv'
    BY <1>4, <2>2, <2>5 DEF LoopInv, HandleAttach, HandleDump, HandleResize, HandleDetach, PCs
  <2>9. snap' \in Seq(Nat) /\ send_end' \in BOOLEAN
    BY <1>4 DEF ValuesInv, HandleAttach, HandleDump, HandleResize, HandleDetach
  <2>10. winsize' \in Nat
    <3>1. CASE HandleResize
      <4>1. front.payload # <<>> => Head(front.payload) \in Nat
        BY <2>3, HeadTailProperties
      <4>. QED
        BY <3>1, <4>1 DEF HandleResize, ValuesInv
    <3>2. CASE HandleAttach \/ HandleDump \/ HandleDetach
      BY <3>2 DEF HandleAttach, HandleDump, HandleDetach, ValuesInv, kernelVars, ptyVars
    <3>. QED
      BY <1>4, <3>1, <3>2
  <2>11. ValuesInv'
    BY <2>5, <2>6, <2>9, <2>10 DEF ValuesInv
  <2>. QED
    BY <2>7, <2>8, <2>11, InvJoin
<1>5. CASE EndClient
  <2>. DEFINE cl == [client[cur] EXCEPT !.disconnected = client[cur].disconnected \/ saw_eof]
  <2>1. cur \in clients /\ cur \in Conn /\ client[cur] \in Client
    BY <1>5 DEF EndClient, LoopInv, TablesInv
  <2>2. client' = [client EXCEPT ![cur] = cl]
    BY <1>5, <2>1 DEF EndClient, TablesInv
  <2>3. cl \in Client /\ cl.send_queue = client[cur].send_queue
    <3>1. (client[cur].disconnected \/ saw_eof) \in BOOLEAN
      OBVIOUS
    <3>. QED
      BY <2>1, <3>1 DEF Client
  <2>4. /\ UNCHANGED <<kernelVars, clients, history, read_pty, child_exit, shutdown,
                       todo, snap, send_end>>
        /\ cur' = NoConn /\ saw_eof' = FALSE /\ pc' = "read"
    BY <1>5 DEF EndClient
  <2>. HIDE DEF cl
  <2>5. up' \in [Conn -> Seq(Packet)] /\ UNCHANGED <<cliSock, srvSock, down>>
    BY <2>4 DEF TablesInv, kernelVars, sockVars
  <2>6. TablesInv'
    BY <2>1, <2>2, <2>3, <2>4, <2>5, TablesClient
  <2>7. LoopInv' /\ ValuesInv'
    BY <2>4 DEF LoopInv, ValuesInv, PCs, kernelVars, sockVars, ptyVars
  <2>. QED
    BY <2>6, <2>7, InvJoin
<1>. QED
  BY <1>1, <1>2, <1>3, <1>4, <1>5

(* Output bytes and the history stay numbers. *)
LEMMA AppendType ==
    ASSUME NEW s \in Seq(Nat), NEW d \in Seq(Nat)
    PROVE  append(s, d) \in Seq(Nat)
<1>1. Len(s) \in Nat /\ Len(d) \in Nat /\ HISTORY_CAP \in Nat
  BY LenProperties, HistoryCapAssumption
<1>2. CASE Len(d) >= HISTORY_CAP
  <2>1. append(s, d) = Drop(d, Len(d) - HISTORY_CAP)
    BY <1>2 DEF append, Drop
  <2>2. Len(d) - HISTORY_CAP \in 0..Len(d)
    BY <1>1, <1>2
  <2>. QED
    BY <2>1, <2>2, TakeDropType
<1>3. CASE ~(Len(d) >= HISTORY_CAP)
  <2>. DEFINE excess == Len(s) + Len(d) - HISTORY_CAP
              n == IF excess > 0 THEN excess ELSE 0
  <2>1. append(s, d) = Drop(s, n) \o d
    BY <1>3 DEF append, PopFrontFor, Drop
  <2>2. n \in 0..Len(s)
    BY <1>1, <1>3
  <2>. HIDE DEF n
  <2>3. Drop(s, n) \in Seq(Nat)
    BY <2>2, TakeDropType
  <2>. QED
    BY <2>1, <2>3, ConcatProperties
<1>. QED
  BY <1>2, <1>3

(* The same packet to every client in S, whatever its callers do about an   *)
(* Err.                                                                     *)
LEMMA SendAllInv ==
    ASSUME ValuesInv, TablesInv, NEW S, S \subseteq clients, NEW p \in Packet, NEW f,
           \A c \in Conn :
             LET r == send_packet_nonblocking(c, p)
             IN  f[c] \in {SentOrDisconnect(c, r), SentThenClose(c, r), Replayed(c, r),
                           [Replayed(c, r) EXCEPT !.disconnected = TRUE]},
           client' = [c \in Conn |-> IF c \in S THEN f[c] ELSE client[c]],
           down' = [c \in Conn |-> IF c \in S THEN send_packet_nonblocking(c, p).wire
                                              ELSE down[c]],
           UNCHANGED <<clients, cliSock, srvSock, up, clientVars>>
    PROVE  TablesInv'
<1>1. ASSUME NEW c \in Conn
      PROVE  f[c] \in Client /\ Len(f[c].send_queue) <= SEND_QUEUE_CAP
  <2>. DEFINE r == send_packet_nonblocking(c, p)
  <2>1. /\ client[c] \in Client /\ Len(client[c].send_queue) <= SEND_QUEUE_CAP
        /\ down[c] \in Seq(Cell) /\ Len(down[c]) <= SNDBUF
    BY DEF TablesInv, ConnInStep
  <2>2. SendResult(r)
    BY <2>1, SendType
  <2>3. f[c] \in {SentOrDisconnect(c, r), SentThenClose(c, r), Replayed(c, r),
                  [Replayed(c, r) EXCEPT !.disconnected = TRUE]}
    OBVIOUS
  <2>. HIDE DEF r
  <2>4. f[c] \in Client /\ f[c].send_queue = r.queue
    <3>1. /\ SentOrDisconnect(c, r) \in Client
          /\ SentOrDisconnect(c, r).send_queue = r.queue
          /\ SentThenClose(c, r) \in Client
          /\ SentThenClose(c, r).send_queue = r.queue
          /\ Replayed(c, r) \in Client
          /\ Replayed(c, r).send_queue = r.queue
          /\ [Replayed(c, r) EXCEPT !.disconnected = TRUE] \in Client
          /\ [Replayed(c, r) EXCEPT !.disconnected = TRUE].send_queue = r.queue
      <4>1. send_end \in BOOLEAN
        BY DEF ValuesInv
      <4>. QED
        BY <2>1, <2>2, <4>1, SentType
    <3>2. \/ f[c] = SentOrDisconnect(c, r)
          \/ f[c] = SentThenClose(c, r)
          \/ f[c] = Replayed(c, r)
          \/ f[c] = [Replayed(c, r) EXCEPT !.disconnected = TRUE]
      BY <2>3
    <3>. QED
      BY <3>1, <3>2, Zenon
  <2>. QED
    BY <2>2, <2>4 DEF SendResult
<1>2. /\ client' \in [Conn -> Client]
      /\ \A c \in Conn : c \in S => Len(client'[c].send_queue) <= SEND_QUEUE_CAP
      /\ \A c \in Conn : c \notin S => client'[c] = client[c]
  BY <1>1 DEF TablesInv
<1>. QED
  BY <1>2, TablesSend

(* ReadPty: the broadcast. *)
LEMMA ReadPtyInv ==
    ASSUME IndInv, UNCHANGED clientVars, NEW n \in 1..MAX_PAYLOAD, ReadPty(n)
    PROVE  IndInv'
<1>. USE InvSplit
<1>. DEFINE buf == [i \in 1..n |-> consumed + i]
            S == {c \in clients : client[c].attached}
            p == content(buf)
            f == [c \in Conn |-> SentOrDisconnect(c, send_packet_nonblocking(c, p))]
<1>1. /\ history' = append(history, buf) /\ consumed' = consumed + n
      /\ SendAll(S, p, SentOrDisconnect)
      /\ UNCHANGED <<listening, mode, cliSock, srvSock, up, child, wstatus,
                     produced, inq, input, winsize, termed, pc, clients, read_pty,
                     child_exit, shutdown, todo, cur, saw_eof, snap, send_end>>
  BY DEF ReadPty, broadcast_content
<1>2. buf \in Seq(Nat)
  <2>1. n \in Nat /\ consumed \in Nat
    BY BoundAssumption DEF ValuesInv
  <2>2. buf \in [1..n -> Nat]
    BY <2>1
  <2>. HIDE DEF buf
  <2>. QED
    BY <2>1, <2>2, FunctionIsSeq
<1>. HIDE DEF buf
<1>3. p \in Packet
  BY <1>2 DEF content, Packet, MsgType
<1>4. history' \in Seq(Nat) /\ consumed' \in Nat
  BY <1>1, <1>2, AppendType, BoundAssumption DEF ValuesInv
<1>5. ValuesInv' /\ LoopInv'
  BY <1>1, <1>4 DEF ValuesInv, LoopInv
<1>6. TablesInv'
  <2>1. /\ client' = [c \in Conn |-> IF c \in S THEN f[c] ELSE client[c]]
        /\ down' = [c \in Conn |-> IF c \in S THEN send_packet_nonblocking(c, p).wire
                                              ELSE down[c]]
    BY <1>1 DEF SendAll
  <2>2. S \subseteq clients
    OBVIOUS
  <2>3. \A c \in Conn : f[c] = SentOrDisconnect(c, send_packet_nonblocking(c, p))
    OBVIOUS
  <2>. HIDE DEF S, p, f
  <2>. QED
    BY <1>1, <1>3, <2>1, <2>2, <2>3, SendAllInv
<1>. QED
  BY <1>5, <1>6, InvJoin

(* The chunks of send_history and MSG_DUMP_END, and MSG_EXIT. *)
LEMMA ReplayInv ==
    ASSUME IndInv, UNCHANGED clientVars, ReplayChunk \/ ReplayFail \/ ReplayEnd \/ QueueExit
    PROVE  IndInv'
<1>. USE InvSplit
<1>. DEFINE k == MinOf(MAX_PAYLOAD, Len(snap))
<1>1. k \in 0..Len(snap)
  <2>1. Len(snap) \in Nat /\ MAX_PAYLOAD \in Nat
    BY LenProperties, BoundAssumption DEF ValuesInv
  <2>. HIDE DEF k
  <2>2. k \in Nat /\ k <= Len(snap)
    BY <2>1, MinOfType DEF k
  <2>. QED
    BY <2>1, <2>2
<1>2. chunk \in Seq(Nat) /\ Drop(snap, Len(chunk)) \in Seq(Nat)
  <2>1. chunk = Take(snap, k) /\ snap \in Seq(Nat)
    BY DEF chunk, ValuesInv
  <2>. HIDE DEF k
  <2>. QED
    BY <1>1, <2>1, TakeDropType
<1>3. content(chunk) \in Packet
  BY <1>2 DEF content, Packet, MsgType
<1>4. UNCHANGED <<cliSock, srvSock, up, clients>>
  BY DEF ReplayChunk, ReplayFail, ReplayEnd, QueueExit
<1>5. LoopInv'
  BY <1>4 DEF ReplayChunk, ReplayFail, ReplayEnd, QueueExit, LoopInv, PCs
<1>6. ValuesInv'
  <2>1. snap' \in Seq(Nat) /\ send_end' \in BOOLEAN
    BY <1>2, EmptySeq DEF ReplayChunk, ReplayFail, ReplayEnd, QueueExit, ValuesInv
  <2>. QED
    BY <2>1 DEF ReplayChunk, ReplayFail, ReplayEnd, QueueExit, ValuesInv, ptyVars
<1>7. ASSUME pc = "replay" PROVE {cur} \subseteq clients
  BY <1>7 DEF LoopInv
<1>8. CASE UNCHANGED <<client, down>>
  BY <1>4, <1>5, <1>6, <1>8, TablesStutter, InvJoin
<1>9. CASE ReplayChunk
  <2>. DEFINE f == [c \in Conn |-> SentOrDisconnect(c, send_packet_nonblocking(c, content(chunk)))]
              S == {cur}
  <2>1. /\ client' = [c \in Conn |-> IF c \in S THEN f[c] ELSE client[c]]
        /\ down' = [c \in Conn |-> IF c \in S THEN send_packet_nonblocking(c, content(chunk)).wire
                                              ELSE down[c]]
    BY <1>9 DEF ReplayChunk, SendAll
  <2>2. S \subseteq clients
    BY <1>7, <1>9 DEF ReplayChunk
  <2>3. \A c \in Conn : f[c] = SentOrDisconnect(c, send_packet_nonblocking(c, content(chunk)))
    OBVIOUS
  <2>. HIDE DEF S, f
  <2>4. TablesInv'
    BY <1>3, <1>4, <2>1, <2>2, <2>3, SendAllInv
  <2>. QED
    BY <1>5, <1>6, <2>4, InvJoin
<1>10. CASE ReplayFail
  <2>. DEFINE f == [c \in Conn |-> [Replayed(c, send_packet_nonblocking(c, content(chunk)))
                                      EXCEPT !.disconnected = TRUE]]
              S == {cur}
  <2>1. /\ client' = [c \in Conn |-> IF c \in S THEN f[c] ELSE client[c]]
        /\ down' = [c \in Conn |-> IF c \in S THEN send_packet_nonblocking(c, content(chunk)).wire
                                              ELSE down[c]]
    BY <1>10 DEF ReplayFail, SendAll
  <2>2. S \subseteq clients
    BY <1>7, <1>10 DEF ReplayFail
  <2>3. \A c \in Conn : f[c] = [Replayed(c, send_packet_nonblocking(c, content(chunk)))
                                  EXCEPT !.disconnected = TRUE]
    OBVIOUS
  <2>. HIDE DEF S, f
  <2>4. TablesInv'
    BY <1>3, <1>4, <2>1, <2>2, <2>3, SendAllInv
  <2>. QED
    BY <1>5, <1>6, <2>4, InvJoin
<1>11. CASE ReplayEnd /\ send_end
  <2>. DEFINE p == [typ |-> "DUMP_END", payload |-> <<>>]
              f == [c \in Conn |-> Replayed(c, send_packet_nonblocking(c, p))]
              S == {cur}
  <2>1. /\ client' = [c \in Conn |-> IF c \in S THEN f[c] ELSE client[c]]
        /\ down' = [c \in Conn |-> IF c \in S THEN send_packet_nonblocking(c, p).wire
                                              ELSE down[c]]
    BY <1>11 DEF ReplayEnd, SendAll
  <2>2. S \subseteq clients
    BY <1>7, <1>11 DEF ReplayEnd
  <2>3. \A c \in Conn : f[c] = Replayed(c, send_packet_nonblocking(c, p))
    OBVIOUS
  <2>4. p \in Packet
    BY EmptySeq DEF Packet, MsgType
  <2>. HIDE DEF S, f, p
  <2>5. TablesInv'
    BY <1>4, <2>1, <2>2, <2>3, <2>4, SendAllInv
  <2>. QED
    BY <1>5, <1>6, <2>5, InvJoin
<1>12. CASE QueueExit /\ child_exit # NoStatus
  <2>. DEFINE p == [typ |-> "EXIT", payload |-> <<child_exit>>]
              f == [c \in Conn |-> SentThenClose(c, send_packet_nonblocking(c, p))]
              S == {c \in clients : /\ ~client[c].disconnected
                                    /\ client[c].close_after_drain = "unset"}
  <2>1. /\ client' = [c \in Conn |-> IF c \in S THEN f[c] ELSE client[c]]
        /\ down' = [c \in Conn |-> IF c \in S THEN send_packet_nonblocking(c, p).wire
                                              ELSE down[c]]
    BY <1>12 DEF QueueExit, SendAll
  <2>2. S \subseteq clients
    OBVIOUS
  <2>3. \A c \in Conn : f[c] = SentThenClose(c, send_packet_nonblocking(c, p))
    OBVIOUS
  <2>4. p \in Packet
    BY <1>12 DEF Packet, MsgType, ValuesInv
  <2>. HIDE DEF S, f, p
  <2>5. TablesInv'
    BY <1>4, <2>1, <2>2, <2>3, <2>4, SendAllInv
  <2>. QED
    BY <1>5, <1>6, <2>5, InvJoin
<1>. QED
  BY <1>8, <1>9, <1>10, <1>11, <1>12 DEF ReplayEnd, QueueExit

(* accept: MSG_PID fits the socket's buffer, which is empty. *)
LEMMA AcceptInv ==
    ASSUME IndInv, UNCHANGED clientVars, NEW c \in Conn, Accept(c) \/ AcceptDropped(c)
    PROVE  IndInv'
<1>. USE InvSplit
<1>. DEFINE p == [typ |-> "PID", payload |-> <<1>>]
<1>1. /\ srvSock[c] = "backlog" /\ SendPid(c) /\ pc = "accept"
      /\ UNCHANGED <<listening, mode, cliSock, up, ptyVars, pc, history,
                     child_exit, shutdown, todo, cur, saw_eof, snap, send_end>>
      /\ read_pty' \in BOOLEAN
  BY DEF Accept, AcceptDropped, serverVars, ValuesInv
<1>2. p \in Packet /\ Len(p.payload) = 1
  BY DEF Packet, MsgType
<1>. HIDE DEF p
<1>3. packet_bytes(p) \in Seq(Cell) /\ Len(packet_bytes(p)) = 2
  <2>1. packet_bytes(p) \in Seq(Cell) /\ Len(packet_bytes(p)) = 1 + Len(p.payload)
    BY <1>2, PacketBytesType
  <2>2. 1 + Len(p.payload) = 2
    BY <1>2
  <2>. QED
    BY <2>1, <2>2
<1>4. down[c] = <<>>
  BY <1>1 DEF TablesInv, ConnInStep
<1>5. <<>> \o packet_bytes(p) \in Seq(Cell) /\ Len(<<>> \o packet_bytes(p)) = 2
  BY <1>3, EmptySeq, ConcatProperties
<1>6. \/ down' = [down EXCEPT ![c] = <<>> \o packet_bytes(p)]
      \/ down' = down
  BY <1>1, <1>4 DEF SendPid, p
<1>7. /\ down' \in [Conn -> Seq(Cell)]
      /\ \A e \in Conn : Len(down'[e]) <= SNDBUF
      /\ \A e \in Conn : e # c => down'[e] = down[e]
  <2>1. \A e \in Conn : Len(down[e]) <= SNDBUF
    BY DEF TablesInv, ConnInStep
  <2>2. SNDBUF \in Nat /\ SNDBUF >= 2
    BY BoundAssumption
  <2>. QED
    BY <1>5, <1>6, <2>1, <2>2, ZenonT(30) DEF TablesInv
<1>8. srvSock'[c] \in {"open", "closed"} /\ \A e \in Conn : e # c => srvSock'[e] = srvSock[e]
  BY DEF Accept, AcceptDropped, TablesInv
<1>9. srvSock' \in [Conn -> {"none", "backlog", "open", "closed"}]
  BY DEF Accept, AcceptDropped, TablesInv
<1>10. ASSUME NEW e \in Conn PROVE ConnInStep(e)'
  <2>1. ConnInStep(e) /\ UNCHANGED <<cpc, rbuf, sent>>
    BY DEF TablesInv, clientVars
  <2>2. CASE e = c
    <3>1. cpc[e] # "start"
      BY <1>1, <2>1, <2>2 DEF ConnInStep
    <3>. QED
      BY <1>7, <1>8, <2>1, <2>2, <3>1 DEF ConnInStep
  <2>3. CASE e # c
    BY <1>7, <1>8, <2>1, <2>3 DEF ConnInStep
  <2>. QED
    BY <2>2, <2>3
<1>11. ClientTypeOK'
  BY DEF TablesInv, ClientTypeOK, clientVars
<1>12. /\ clients' = {e \in Conn : srvSock'[e] = "open"}
       /\ clients \subseteq clients'
  BY <1>1 DEF Accept, AcceptDropped, TablesInv, serverVars
<1>13. /\ client' \in [Conn -> Client]
       /\ \A e \in Conn : Len(client'[e].send_queue) <= SEND_QUEUE_CAP
  <2>1. NewClient \in Client /\ Len(NewClient.send_queue) <= SEND_QUEUE_CAP
    BY EmptySeq, QueueCapAssumption DEF NewClient, Client, Deadline
  <2>2. client' = client \/ client' = [client EXCEPT ![c] = NewClient]
    BY DEF Accept, AcceptDropped, serverVars
  <2>. QED
    BY <2>1, <2>2 DEF TablesInv
<1>14. TablesInv'
  BY <1>1, <1>7, <1>9, <1>10, <1>11, <1>12, <1>13 DEF TablesInv
<1>15. LoopInv' /\ ValuesInv'
  BY <1>1, <1>12 DEF LoopInv, ValuesInv, ptyVars
<1>. QED
  BY <1>14, <1>15, InvJoin

(* The bottom of the loop. *)
LEMMA FlushInv ==
    ASSUME IndInv, UNCHANGED clientVars, FlushAndReap
    PROVE  IndInv'
<1>. USE InvSplit
<1>. DEFINE gone == {c \in clients : Gone(Flushed(c))}
            over == child_exit # NoStatus /\ clients \subseteq gone
            r(c) == try_flush_client(c, client[c].send_queue)
<1>1. ASSUME NEW c \in Conn PROVE SendResult(r(c))
  <2>1. /\ client[c].send_queue \in Seq(Cell) /\ Len(client[c].send_queue) <= SEND_QUEUE_CAP
        /\ down[c] \in Seq(Cell) /\ Len(down[c]) <= SNDBUF
    BY DEF TablesInv, ConnInStep, Client
  <2>. QED
    BY <2>1, FlushType
<1>2. ASSUME NEW c \in Conn
      PROVE  Flushed(c) \in Client /\ Len(Flushed(c).send_queue) <= SEND_QUEUE_CAP
  <2>1. client[c] \in Client /\ Len(client[c].send_queue) <= SEND_QUEUE_CAP
    BY DEF TablesInv
  <2>2. CASE client[c].disconnected
    BY <2>1, <2>2 DEF Flushed
  <2>3. CASE ~client[c].disconnected
    <3>1. Flushed(c) = SentOrDisconnect(c, r(c))
      BY <2>3 DEF Flushed
    <3>2. SendResult(r(c))
      BY <1>1
    <3>. HIDE DEF r
    <3>3. send_end \in BOOLEAN
      BY DEF ValuesInv
    <3>4. SentOrDisconnect(c, r(c)) \in Client /\ SentOrDisconnect(c, r(c)).send_queue = r(c).queue
      BY <2>1, <3>2, <3>3, SentType
    <3>. QED
      BY <3>1, <3>2, <3>4 DEF SendResult
  <2>. QED
    BY <2>2, <2>3
<1>3. NewClient \in Client /\ Len(NewClient.send_queue) <= SEND_QUEUE_CAP
  BY EmptySeq, QueueCapAssumption DEF NewClient, Client, Deadline
<1>4. /\ pc = "flush"
      /\ clients' = clients \ gone
      /\ client' = [c \in Conn |-> IF c \in gone THEN NewClient
                                  ELSE IF c \in clients THEN Flushed(c)
                                  ELSE client[c]]
      /\ srvSock' = [c \in Conn |-> IF c \in gone \/ (over /\ srvSock[c] = "backlog")
                                      THEN "closed" ELSE srvSock[c]]
      /\ listening' = ~over
      /\ pc' = IF over THEN "exited" ELSE "poll"
      /\ down' = [c \in Conn |-> IF c \in clients /\ ~client[c].disconnected
                                   THEN r(c).wire ELSE down[c]]
      /\ UNCHANGED <<mode, cliSock, up, ptyVars, history, read_pty,
                     child_exit, shutdown, todo, cur, saw_eof, snap, send_end>>
  BY DEF FlushAndReap
<1>5. gone \subseteq clients
  OBVIOUS
<1>6. \A c \in Conn : r(c).wire \in Seq(Cell) /\ Len(r(c).wire) <= SNDBUF
  BY <1>1 DEF SendResult
<1>7. listening' \in BOOLEAN /\ pc' \in {"exited", "poll"}
  <2>. HIDE DEF over
  <2>. QED
    BY <1>4, Zenon
<1>. HIDE DEF gone, over, r
<1>8. /\ client' \in [Conn -> Client]
      /\ \A c \in Conn : Len(client'[c].send_queue) <= SEND_QUEUE_CAP
  <2>1. \A c \in Conn : client[c] \in Client /\ Len(client[c].send_queue) <= SEND_QUEUE_CAP
    BY DEF TablesInv
  <2>2. ASSUME NEW c \in Conn
        PROVE  client'[c] \in Client /\ Len(client'[c].send_queue) <= SEND_QUEUE_CAP
    <3>1. \/ client'[c] = NewClient
          \/ client'[c] = Flushed(c)
          \/ client'[c] = client[c]
      BY <1>4
    <3>. QED
      BY <1>2, <1>3, <2>1, <3>1
  <2>3. client' = [c \in Conn |-> client'[c]]
    BY <1>4
  <2>. QED
    BY <2>2, <2>3
<1>9. srvSock' \in [Conn -> {"none", "backlog", "open", "closed"}]
  BY <1>4 DEF TablesInv
<1>10. clients' = {c \in Conn : srvSock'[c] = "open"}
  BY <1>4, <1>5 DEF TablesInv
<1>11. down' \in [Conn -> Seq(Cell)]
  BY <1>4, <1>6 DEF TablesInv
<1>12. ASSUME NEW c \in Conn PROVE ConnInStep(c)'
  <2>1. ConnInStep(c) /\ UNCHANGED <<cpc, rbuf, sent>>
    BY DEF TablesInv, clientVars
  <2>2. c \in clients <=> srvSock[c] = "open"
    BY DEF TablesInv
  <2>3. /\ srvSock'[c] = srvSock[c] \/ (srvSock'[c] = "closed" /\ srvSock[c] \in {"open", "backlog"})
        /\ down'[c] = down[c] \/ (srvSock[c] = "open" /\ down'[c] = r(c).wire)
    BY <1>4, <1>5, <2>2
  <2>4. Len(down'[c]) <= SNDBUF
    BY <1>6, <2>1, <2>3 DEF ConnInStep
  <2>. QED
    BY <2>1, <2>3, <2>4 DEF ConnInStep
<1>13. ClientTypeOK'
  BY DEF TablesInv, ClientTypeOK, clientVars
<1>14. TablesInv'
  BY <1>4, <1>8, <1>9, <1>10, <1>11, <1>12, <1>13 DEF TablesInv
<1>15. ValuesInv'
  BY <1>4, <1>7 DEF ValuesInv, ptyVars
<1>16. LoopInv'
  <2>1. pc' \in PCs /\ pc' \notin {"handle", "replay"}
    BY <1>7 DEF PCs
  <2>2. todo' = {}
    BY <1>4 DEF LoopInv
  <2>. QED
    BY <1>4, <2>1, <2>2 DEF LoopInv
<1>. QED
  BY <1>14, <1>15, <1>16, InvJoin

LEMMA TableTypes ==
    ASSUME IndInv
    PROVE  /\ cliSock \in [Conn -> {"none", "open", "closed", "reset"}]
           /\ srvSock \in [Conn -> {"none", "backlog", "open", "closed"}]
           /\ up \in [Conn -> Seq(Packet)] /\ down \in [Conn -> Seq(Cell)]
           /\ cpc \in [Conn -> CPCs] /\ rbuf \in [Conn -> Seq(Cell)]
           /\ seen \in [Conn -> Seq(Nat)] /\ result \in [Conn -> Results]
           /\ sent \in [Conn -> Nat] /\ code \in [Conn -> Nat \cup {NoCode}]
           /\ client \in [Conn -> Client]
BY DEF IndInv, TypeOK, KernelTypeOK, ServerTypeOK, ClientTypeOK

(* Another client's step. *)
LEMMA OtherClient ==
    ASSUME IndInv, NEW d \in Conn, ClientRuns(d) \/ ClientUser(d), NEW c \in Conn, c # d
    PROVE  /\ UNCHANGED ptyVars
           /\ UNCHANGED <<cliSock[c], srvSock[c], rbuf[c], down[c], up[c]>>
           /\ UNCHANGED <<seen[c], sent[c], cpc[c], result[c], code[c]>>
<1>. USE TableTypes
<1>1. CASE Connect(d) \/ ConnectRefused(d) \/ RecvPart(d) \/ RecvFail(d)
  BY <1>1 DEF Connect, ConnectRefused, RecvPart, RecvFail, Finish, kernelVars, sockVars
<1>2. CASE RecvPid(d) \/ RecvLoop(d) \/ RecvExit(d) \/ RecvDump(d)
  BY <1>2 DEF RecvPid, RecvLoop, RecvExit, RecvDump, Received, Finish
<1>3. CASE SendAttach(d) \/ send_resize(d) \/ SendDump(d)
  BY <1>3 DEF SendAttach, send_resize, SendDump, SendOrFail, Finish
<1>4. CASE SendKeys(d)
  BY <1>4 DEF SendKeys, SendOrFail, Finish
<1>5. CASE StdinEmpty(d) \/ SelectStdin(d) \/ StdinEof(d) \/ Killed(d)
  BY <1>5 DEF StdinEmpty, SelectStdin, StdinEof, Killed, Finish, kernelVars, sockVars
<1>6. CASE StdinKey(d)
  BY <1>6 DEF StdinKey, SendOrFail, Finish
<1>7. CASE StdinDetach(d)
  BY <1>7 DEF StdinDetach, Finish
<1>. QED
  BY <1>1, <1>2, <1>3, <1>4, <1>5, <1>6, <1>7 DEF ClientRuns, ClientUser

-------------------------------------------------------------------------------
(* Every step keeps the invariant. *)
LEMMA NextInv == IndInv /\ [Next]_vars => IndInv'
<1>. SUFFICES ASSUME IndInv, [Next]_vars PROVE IndInv'
  OBVIOUS
<1>1. CASE Server /\ UNCHANGED clientVars
  <2>1. CASE PollShutdown \/ AcceptDone \/ PtyDone \/ WaitPid
    BY <1>1, <2>1, QuietInv
  <2>2. CASE \E c \in Conn : Accept(c) \/ AcceptDropped(c)
    BY <1>1, <2>2, AcceptInv
  <2>3. CASE \/ \E c \in Conn : ReadClient(c)
             \/ HandleInput \/ HandleAttach \/ HandleDump \/ HandleResize \/ HandleDetach
             \/ EndClient
    BY <1>1, <2>3, HandleInv
  <2>4. CASE \E n \in 1..MAX_PAYLOAD : ReadPty(n)
    BY <1>1, <2>4, ReadPtyInv
  <2>5. CASE ReplayChunk \/ ReplayFail \/ ReplayEnd \/ QueueExit
    BY <1>1, <2>5, ReplayInv
  <2>6. CASE FlushAndReap
    BY <1>1, <2>6, FlushInv
  <2>. QED
    BY <1>1, <2>1, <2>2, <2>3, <2>4, <2>5, <2>6 DEF Server
<1>2. CASE Child /\ UNCHANGED <<serverVars, clientVars>>
  BY <1>2, ChildInv
<1>3. ASSUME NEW c \in Conn, ClientRuns(c) \/ ClientUser(c), UNCHANGED serverVars
      PROVE  IndInv'
  BY <1>3, ClientInv
<1>4. CASE (Shutdown \/ \E c \in Conn : Elapse(c)) /\ UNCHANGED clientVars
  <2>1. CASE Shutdown
    BY <1>4, <2>1, QuietInv
  <2>2. CASE \E c \in Conn : Elapse(c)
    BY <1>4, <2>2, HandleInv
  <2>. QED
    BY <1>4, <2>1, <2>2
<1>5. CASE Terminated \/ UNCHANGED vars
  BY <1>5, StutterInv DEF Terminated
<1>. QED
  BY <1>1, <1>2, <1>3, <1>4, <1>5 DEF Next

(* The inductive invariant holds in every session. *)
LEMMA Invariance == Spec => []IndInv
BY InitInv, NextInv, PTL DEF Spec

(* The variables of the server, its clients and the kernel keep their       *)
(* types, whatever the sizes of buffers, packets and history.               *)
THEOREM TypeCorrect == Spec => []TypeOK
<1>1. IndInv => TypeOK
  BY DEF IndInv
<1>. QED
  BY <1>1, Invariance, PTL

(* send_packet_nonblocking keeps every send_queue within SEND_QUEUE_CAP.    *)
THEOREM QueueCapHolds == Spec => []QueueBounded
<1>1. IndInv => QueueBounded
  BY DEF IndInv
<1>. QED
  BY <1>1, Invariance, PTL

-------------------------------------------------------------------------------
(* The history. *)

(* The numbers from 1 to k and what they are in Newest. *)
LEMMA NewestType ==
    ASSUME NEW n \in Nat
    PROVE  \E k \in Nat : /\ k = IF n <= HISTORY_CAP THEN n ELSE HISTORY_CAP
                          /\ k <= n
                          /\ Newest(n) = [i \in 1..k |-> n - k + i]
                          /\ Newest(n) \in Seq(Int)
                          /\ Len(Newest(n)) = k
<1>. DEFINE k == IF n <= HISTORY_CAP THEN n ELSE HISTORY_CAP
            f == [i \in 1..k |-> n - k + i]
<1>1. k \in Nat /\ k <= n
  BY HistoryCapAssumption
<1>2. Newest(n) = f
  BY DEF Newest
<1>. HIDE DEF k
<1>3. f \in [1..k -> Int]
  BY <1>1
<1>. HIDE DEF f
<1>4. f \in Seq(Int) /\ Len(f) = k
  BY <1>1, <1>3, FunctionIsSeq
<1>. QED
  BY <1>1, <1>2, <1>4 DEF k, f

(* Appending the next n bytes of the output to its newest bytes gives the   *)
(* newest bytes of the longer output: nothing is lost at the wrap.          *)
LEMMA AppendNewest ==
    ASSUME NEW m \in Nat, NEW n \in Nat
    PROVE  append(Newest(m), [i \in 1..n |-> m + i]) = Newest(m + n)
<1>. DEFINE C == HISTORY_CAP
            d == [i \in 1..n |-> m + i]
            L == IF m + n <= C THEN m + n ELSE C
<1>1. C \in Nat \ {0}
  BY HistoryCapAssumption
<1>2. d \in Seq(Int) /\ Len(d) = n /\ \A i \in 1..n : d[i] = m + i
  <2>1. d \in [1..n -> Int] /\ \A i \in 1..n : d[i] = m + i
    OBVIOUS
  <2>. HIDE DEF d
  <2>. QED
    BY <2>1, FunctionIsSeq
<1>3. Newest(m + n) = [i \in 1..L |-> m + n - L + i]
  <2>1. m + n \in Nat
    OBVIOUS
  <2>2. PICK l \in Nat : /\ l = IF m + n <= C THEN m + n ELSE C
                         /\ Newest(m + n) = [i \in 1..l |-> (m + n) - l + i]
    BY <2>1, NewestType
  <2>. QED
    BY <2>2
<1>4. PICK k \in Nat : /\ k = IF m <= C THEN m ELSE C
                       /\ Newest(m) = [i \in 1..k |-> m - k + i]
                       /\ Newest(m) \in Seq(Int) /\ Len(Newest(m)) = k
  BY NewestType
<1>. DEFINE h == Newest(m)
<1>5. \A i \in 1..k : h[i] = m - k + i
  BY <1>4
<1>. HIDE DEF d, h
<1>6. CASE n >= C
  <2>1. append(h, d) = SubSeq(d, n - C + 1, n)
    BY <1>2, <1>6 DEF append
  <2>2. SubSeq(d, n - C + 1, n) = [i \in 1..C |-> d[n - C + i]]
    <3>1. n - C + 1 \in 1..(n + 1) /\ n \in 0..n /\ n - C + 1 \in Int
      BY <1>1, <1>6
    <3>. QED
      BY <1>1, <1>2, <1>6, <3>1
  <2>3. L = C
    BY <1>1, <1>6
  <2>4. \A i \in 1..C : d[n - C + i] = m + n - C + i
    BY <1>1, <1>2, <1>6
  <2>. QED
    BY <1>3, <2>1, <2>2, <2>3, <2>4, ZenonT(30) DEF h, d
<1>7. CASE ~(n >= C)
  <2>. DEFINE excess == k + n - C
              e == IF excess > 0 THEN excess ELSE 0
              t == Drop(h, e)
  <2>1. append(h, d) = t \o d
    BY <1>2, <1>4, <1>7 DEF append, PopFrontFor, Drop, h
  <2>2. e \in Nat /\ e <= k /\ L = k - e + n /\ m + n - L = m - k + e
    BY <1>1, <1>4, <1>7
  <2>3. Len(h) = k /\ h \in Seq(Int)
    BY <1>4 DEF h
  <2>. HIDE DEF e, L
  <2>4. t \in Seq(Int) /\ Len(t) = k - e
    <3>1. e \in 0..Len(h)
      BY <2>2, <2>3
    <3>. QED
      BY <2>3, <3>1, TakeDropType
  <2>5. \A i \in 1..(k - e) : t[i] = m - k + e + i
    <3>1. t = [i \in 1..(k - e) |-> h[e + i]]
      BY <2>2, <2>3, <1>1 DEF Drop
    <3>. QED
      BY <1>5, <2>2, <3>1
  <2>. HIDE DEF t
  <2>6. /\ t \o d \in Seq(Int) /\ Len(t \o d) = (k - e) + n
        /\ \A i \in 1..((k - e) + n) :
             (t \o d)[i] = IF i <= k - e THEN t[i] ELSE d[i - (k - e)]
    <3>1. /\ t \o d \in Seq(Int) /\ Len(t \o d) = Len(t) + Len(d)
          /\ \A i \in 1..(Len(t) + Len(d)) :
               (t \o d)[i] = IF i <= Len(t) THEN t[i] ELSE d[i - Len(t)]
      BY <1>2, <2>4, ConcatProperties
    <3>2. Len(t) = k - e /\ Len(d) = n
      BY <1>2, <2>4
    <3>. QED
      BY <3>1, <3>2, Zenon
  <2>7. L \in Nat /\ L = (k - e) + n
    BY <2>2
  <2>8. \A i \in 1..L : (t \o d)[i] = m + n - L + i
    <3>. SUFFICES ASSUME NEW i \in 1..L PROVE (t \o d)[i] = m + n - L + i
      OBVIOUS
    <3>1. m + n - L + i = m - k + e + i
      BY <2>2
    <3>2. CASE i <= k - e
      <4>1. (t \o d)[i] = t[i] /\ i \in 1..(k - e)
        <5>1. i \in 1..((k - e) + n) /\ i \in 1..(k - e)
          BY <2>2, <2>7, <3>2
        <5>. QED
          BY <2>6, <3>2, <5>1
      <4>. QED
        BY <2>5, <3>1, <4>1
    <3>3. CASE ~(i <= k - e)
      <4>1. (t \o d)[i] = d[i - (k - e)] /\ i - (k - e) \in 1..n
        BY <2>2, <2>6, <2>7, <3>3
      <4>2. d[i - (k - e)] = m + (i - (k - e))
        BY <1>2, <4>1
      <4>. QED
        BY <2>2, <3>1, <4>1, <4>2
    <3>. QED
      BY <3>2, <3>3
  <2>9. t \o d = [i \in 1..L |-> (t \o d)[i]]
    <3>. DEFINE u == t \o d
    <3>1. u \in Seq(Int) /\ Len(u) = L
      BY <2>6, <2>7
    <3>. HIDE DEF u
    <3>2. u \in [1..L -> Int]
      BY <3>1, LenProperties
    <3>3. u = [i \in 1..L |-> u[i]]
      BY <3>2
    <3>. QED
      BY <3>3 DEF u
  <2>10. t \o d = [i \in 1..L |-> m + n - L + i]
    BY <2>8, <2>9
  <2>. QED
    BY <1>3, <2>1, <2>10 DEF h, d
<1>. QED
  BY <1>6, <1>7

(* Only a read of the pty changes the history or the count of bytes read. *)
LEMMA HistoryStep ==
    ASSUME [Next]_vars
    PROVE  \/ \E n \in 1..MAX_PAYLOAD :
                /\ history' = append(history, [i \in 1..n |-> consumed + i])
                /\ consumed' = consumed + n
           \/ UNCHANGED <<history, consumed>>
<1>1. CASE Server
  BY <1>1 DEF Server, PollShutdown, Accept, AcceptDropped, ReadClient, AcceptDone, ReadPty,
              PtyDone, WaitPid, HandleInput, HandleAttach, HandleDump, HandleResize,
              HandleDetach, EndClient, ReplayChunk, ReplayFail, ReplayEnd, QueueExit,
              FlushAndReap, kernelVars, sockVars, ptyVars, serverVars
<1>2. CASE Child /\ UNCHANGED serverVars
  BY <1>2 DEF Child, ChildWrite, ChildRead, ChildExit, serverVars
<1>3. ASSUME NEW c \in Conn, ClientRuns(c) \/ ClientUser(c), UNCHANGED serverVars
      PROVE  UNCHANGED <<history, consumed>>
  <2>1. UNCHANGED ptyVars
    BY <1>3 DEF ClientRuns, ClientUser, Connect, ConnectRefused, RecvPart, RecvFail, RecvPid,
                RecvLoop, RecvExit, RecvDump, SendAttach, send_resize, SendDump, SendKeys,
                StdinEmpty, SelectStdin, StdinKey, StdinDetach, StdinEof, Killed, kernelVars
  <2>. QED
    BY <1>3, <2>1 DEF serverVars, ptyVars
<1>4. CASE Shutdown \/ \E c \in Conn : Elapse(c)
  BY <1>4 DEF Shutdown, Elapse, kernelVars, ptyVars
<1>5. CASE Terminated \/ UNCHANGED vars
  BY <1>5 DEF Terminated, vars, kernelVars, ptyVars, serverVars
<1>. QED
  BY <1>1, <1>2, <1>3, <1>4, <1>5 DEF Next

LEMMA HistoryStarts == Init => HistoryExact
<1>. SUFFICES ASSUME Init PROVE <<>> = Newest(0)
  BY DEF Init, KernelInit, ServerInit, HistoryExact
<1>1. Newest(0) \in Seq(Int) /\ Len(Newest(0)) = 0
  BY NewestType
<1>. QED
  BY <1>1, EmptySeq

LEMMA HistoryKept ==
    ASSUME IndInv, HistoryExact, [Next]_vars
    PROVE  HistoryExact'
<1>1. CASE UNCHANGED <<history, consumed>>
  BY <1>1 DEF HistoryExact
<1>2. ASSUME NEW n \in 1..MAX_PAYLOAD,
             history' = append(history, [i \in 1..n |-> consumed + i]),
             consumed' = consumed + n
      PROVE  HistoryExact'
  <2>1. consumed \in Nat /\ n \in Nat
    BY BoundAssumption DEF IndInv, TypeOK, KernelTypeOK
  <2>2. history' = Newest(consumed + n)
    BY <1>2, <2>1, AppendNewest DEF HistoryExact
  <2>. QED
    BY <1>2, <2>2 DEF HistoryExact
<1>. QED
  BY <1>1, <1>2, HistoryStep

(* History::append keeps exactly the newest HISTORY_CAP bytes of all the    *)
(* server ever read from the pty, however the reads cut them up.            *)
THEOREM HistoryCorrect == Spec => []HistoryExact
<1>1. IndInv /\ HistoryExact /\ [Next]_vars => HistoryExact'
  BY HistoryKept
<1>. QED
  BY <1>1, HistoryStarts, Invariance, PTL DEF Spec

-------------------------------------------------------------------------------
(* The exit code the clients are told is fixed by whichever comes first,    *)
(* the reaping of the child or a shutdown signal, and never changes again.  *)
THEOREM ExitCodeStable == Spec => ExitDecidedOnce
<1>1. [Next]_vars => [child_exit # NoStatus => child_exit' = child_exit]_child_exit
  <2>. SUFFICES ASSUME [Next]_vars, child_exit # NoStatus PROVE child_exit' = child_exit
    OBVIOUS
  <2>1. CASE Server
    BY <2>1 DEF Server, PollShutdown, Accept, AcceptDropped, ReadClient, AcceptDone, ReadPty,
                PtyDone, WaitPid, HandleInput, HandleAttach, HandleDump, HandleResize,
                HandleDetach, EndClient, ReplayChunk, ReplayFail, ReplayEnd, QueueExit,
                FlushAndReap, serverVars
  <2>2. CASE UNCHANGED serverVars \/ Shutdown \/ \E c \in Conn : Elapse(c)
    BY <2>2 DEF serverVars, Shutdown, Elapse
  <2>. QED
    BY <2>1, <2>2 DEF Next, Terminated, vars
<1>. QED
  BY <1>1, PTL DEF Spec, ExitDecidedOnce

-------------------------------------------------------------------------------
(* How the end of the child and the end of the session hang together.  The  *)
(* first two conjuncts bear SignalOwnChild, the last two NoOrphan.          *)
EndInStep ==
    /\ child \in {"running", "zombie", "reaped"}
    /\ child = "reaped" => child_exit # NoStatus
    /\ child_exit # NoStatus => child = "reaped" \/ termed
    /\ pc = "exited" => child_exit # NoStatus

(* Who touches the variables EndInStep speaks of: the poll of the shutdown  *)
(* flag, waitpid, the child's own end, and the bottom of the loop.          *)
LEMMA EndStep ==
    ASSUME [Next]_vars
    PROVE  \/ PollShutdown
           \/ WaitPid
           \/ /\ \E d \in Deaths : ChildExit(d)
              /\ UNCHANGED <<child_exit, pc>>
           \/ /\ pc' = "exited" => pc = "exited" \/ child_exit # NoStatus
              /\ UNCHANGED <<child, child_exit, termed>>
<1>1. CASE FlushAndReap
  BY <1>1 DEF FlushAndReap, ptyVars
<1>2. CASE \/ \E c \in Conn : Accept(c) \/ AcceptDropped(c) \/ ReadClient(c)
           \/ AcceptDone \/ \E n \in 1..MAX_PAYLOAD : ReadPty(n)
           \/ PtyDone \/ EndClient \/ QueueExit
           \/ HandleInput \/ HandleAttach \/ HandleDump \/ HandleResize \/ HandleDetach
           \/ ReplayChunk \/ ReplayFail \/ ReplayEnd
  <2>1. UNCHANGED <<child, child_exit, termed>>
    BY <1>2 DEF Accept, AcceptDropped, ReadClient, AcceptDone, ReadPty, PtyDone,
                HandleInput, HandleAttach, HandleDump, HandleResize, HandleDetach,
                EndClient, ReplayChunk, ReplayFail, ReplayEnd, QueueExit,
                kernelVars, sockVars, ptyVars, serverVars
  <2>2. pc' = "exited" => pc = "exited"
    BY <1>2 DEF Accept, AcceptDropped, ReadClient, AcceptDone, ReadPty, PtyDone,
                HandleInput, HandleAttach, HandleDump, HandleResize, HandleDetach,
                EndClient, ReplayChunk, ReplayFail, ReplayEnd, QueueExit, serverVars
  <2>. QED
    BY <2>1, <2>2
<1>3. CASE Child /\ UNCHANGED serverVars
  BY <1>3 DEF Child, ChildWrite, ChildRead, serverVars
<1>4. ASSUME NEW c \in Conn, ClientRuns(c) \/ ClientUser(c), UNCHANGED serverVars
      PROVE  UNCHANGED <<child, child_exit, termed, pc>>
  <2>1. UNCHANGED ptyVars
    BY <1>4 DEF ClientRuns, ClientUser, Connect, ConnectRefused, RecvPart, RecvFail, RecvPid,
                RecvLoop, RecvExit, RecvDump, SendAttach, send_resize, SendDump, SendKeys,
                StdinEmpty, SelectStdin, StdinKey, StdinDetach, StdinEof, Killed, kernelVars
  <2>. QED
    BY <1>4, <2>1 DEF serverVars, ptyVars
<1>5. CASE Shutdown \/ \E c \in Conn : Elapse(c)
  BY <1>5 DEF Shutdown, Elapse, kernelVars, ptyVars
<1>6. CASE Terminated \/ UNCHANGED vars
  BY <1>6 DEF Terminated, vars, kernelVars, ptyVars, serverVars
<1>. QED
  BY <1>1, <1>2, <1>3, <1>4, <1>5, <1>6 DEF Next, Server

LEMMA EndInvariance == Spec => []EndInStep
<1>1. Init => EndInStep
  BY DEF Init, KernelInit, ServerInit, EndInStep, NoStatus
<1>2. IndInv /\ EndInStep /\ [Next]_vars => EndInStep'
  <2>. SUFFICES ASSUME IndInv, EndInStep, [Next]_vars PROVE EndInStep'
    OBVIOUS
  <2>1. CASE PollShutdown
    BY <2>1 DEF EndInStep, PollShutdown, NoStatus, SIGTERM
  <2>2. CASE WaitPid
    <3>1. exit_status(wstatus) # NoStatus
      BY StatusType DEF IndInv, TypeOK, KernelTypeOK, NoStatus
    <3>. QED
      BY <2>2, <3>1 DEF EndInStep, WaitPid
  <2>3. CASE (\E d \in Deaths : ChildExit(d)) /\ UNCHANGED <<child_exit, pc>>
    BY <2>3 DEF EndInStep, ChildExit
  <2>4. CASE /\ pc' = "exited" => pc = "exited" \/ child_exit # NoStatus
             /\ UNCHANGED <<child, child_exit, termed>>
    BY <2>4 DEF EndInStep
  <2>. QED
    BY <2>1, <2>2, <2>3, <2>4, EndStep
<1>. QED
  BY <1>1, <1>2, Invariance, PTL DEF Spec

(* The server never leaves its child running unsignalled: it returns only   *)
(* after waitpid or after SIGTERM to the child's process group.             *)
THEOREM NoChildForgotten == Spec => []NoOrphan
<1>1. EndInStep => NoOrphan
  BY DEF EndInStep, NoOrphan
<1>. QED
  BY <1>1, EndInvariance, PTL

(* kill(-child_pid, SIGTERM) never follows the waitpid that frees the       *)
(* number, however the signal, the child's end and the ticks interleave.    *)
THEOREM SignalsOwnChild == Spec => SignalOwnChild
<1>1. EndInStep /\ [Next]_vars =>
        [termed' # termed => child # "reaped"]_<<termed, child>>
  <2>. SUFFICES ASSUME EndInStep, [Next]_vars, termed' # termed PROVE child # "reaped"
    OBVIOUS
  <2>1. CASE PollShutdown
    BY <2>1 DEF EndInStep, PollShutdown
  <2>2. CASE WaitPid \/ \E d \in Deaths : ChildExit(d)
    BY <2>2 DEF WaitPid, ChildExit
  <2>. QED
    BY <2>1, <2>2, EndStep
<1>. QED
  BY <1>1, EndInvariance, PTL DEF Spec, SignalOwnChild
===============================================================================
