---------------------------- MODULE LichTypingProofs ----------------------------
(***************************************************************************)
(* Proofs about LichTerminal, for any number of resizes, and about          *)
(* LichTyping, for any number of keys and any sizes of packets and buffers: *)
(* adding the data takes nothing away from LichTerminal.                    *)
(***************************************************************************)
EXTENDS LichTyping, LichSequenceLemmas

-------------------------------------------------------------------------------
(***************************************************************************)
(* The terminal and the handler, in LichTerminal.                          *)
(***************************************************************************)
(* Where in attach_session the handler is already installed. *)
InLoop == {"enter", "select", "eintr", "recv", "stdin"}

(* What the properties rest on: the handler is there exactly in the loop,   *)
(* and around the resize it asks for; the terminal is raw only while the    *)
(* loop runs; a client that has ended of itself has let go of the guard.    *)
ControlInStep ==
    /\ pc \in {"attach", "signal"} => ~handler
    /\ pc \in InLoop => handler
    /\ ~handler /\ pc \in {"winsize", "send"} => ~saved
    /\ pc \in {"attach", "signal", "enter"} => ~saved
    /\ pc = "default" => ~saved
    /\ pc = "done" /\ status # "killed" => ~saved
    /\ status = "killed" => pc = "done"

(* While no handler is installed and nobody resizes early, the size is      *)
(* still the first one; a size that is out of date when it is sent has left *)
(* the flag set.                                                            *)
SizeInStep ==
    ~Early =>
      /\ pc \in {"attach", "winsize", "send", "signal"} /\ ~handler =>
           size = 0 /\ ws = 0 /\ told = 0
      /\ opts.tty /\ pc = "send" => ws = size \/ pending

TermInv == TypeOK /\ ControlInStep /\ SizeInStep /\ ResizeRemembered

LEMMA TermInit == Init => TermInv
<1>. SUFFICES ASSUME Init PROVE TermInv
  OBVIOUS
<1>1. opts \in [tty : BOOLEAN, passthrough : BOOLEAN]
  BY TerminalAssumption DEF Init
<1>2. TypeOK
  BY <1>1 DEF Init, TypeOK, PCs
<1>3. ControlInStep /\ SizeInStep /\ ResizeRemembered
  BY DEF Init, ControlInStep, InLoop, SizeInStep, ResizeRemembered
<1>. QED
  BY <1>2, <1>3 DEF TermInv

LEMMA TermStep == TermInv /\ [Next]_vars => TermInv'
<1>. SUFFICES ASSUME TermInv, [Next]_vars PROVE TermInv'
  OBVIOUS
<1>. USE TerminalAssumption DEF TermInv, TypeOK, PCs, ControlInStep, InLoop, SizeInStep,
         ResizeRemembered, GoTo, LeaveWith
<1>1. CASE Attach
  BY <1>1 DEF Attach
<1>2. CASE current_winsize
  BY <1>2 DEF current_winsize
<1>3. CASE SendResize
  <2>1. CASE told' = ws /\ GoTo(AfterSize)
    <3>1. CASE handler
      <4>0. AfterSize \in {"stdin", "select"}
        BY <3>1 DEF AfterSize
      <4>1. pc = "send" /\ pc' \in {"stdin", "select"} /\ told' = ws
            /\ UNCHANGED <<opts, size, mode, handler, pending, intr, fds, saved, status>>
            /\ ws' = 0
        BY <1>3, <2>1, <4>0 DEF SendResize
      <4>2. TypeOK' /\ ControlInStep'
        BY <3>1, <4>1
      <4>3. SizeInStep' /\ ResizeRemembered'
        BY <3>1, <4>1
      <4>. QED
        BY <4>2, <4>3
    <3>2. CASE ~handler
      <4>0. AfterSize = "signal"
        BY <3>2 DEF AfterSize
      <4>1. pc = "send" /\ pc' = "signal" /\ told' = ws
            /\ UNCHANGED <<opts, size, mode, handler, pending, intr, fds, saved, status>>
            /\ ws' = 0
        BY <1>3, <2>1, <4>0 DEF SendResize
      <4>2. TypeOK' /\ ControlInStep'
        BY <3>2, <4>1
      <4>3. SizeInStep' /\ ResizeRemembered'
        BY <3>2, <4>1
      <4>. QED
        BY <4>2, <4>3
    <3>. QED
      BY <3>1, <3>2
  <2>2. CASE LeaveWith("error") /\ UNCHANGED told
    BY <1>3, <2>2 DEF SendResize
  <2>. QED
    BY <1>3, <2>1, <2>2 DEF SendResize
<1>4. CASE InstallHandler
  BY <1>4 DEF InstallHandler
<1>5. CASE EnterRawMode
  <2>1. CASE mode' = "raw" /\ saved' = TRUE
    BY <1>5, <2>1 DEF EnterRawMode
  <2>2. CASE UNCHANGED <<mode, saved>>
    BY <1>5, <2>2 DEF EnterRawMode
  <2>. QED
    BY <1>5, <2>1, <2>2 DEF EnterRawMode
<1>6. ASSUME NEW ready \in SUBSET {"sock", "stdin"}, SelectReady(ready) PROVE TermInv'
  BY <1>6 DEF SelectReady
<1>7. CASE SelectInterrupted
  BY <1>7 DEF SelectInterrupted
<1>8. CASE SwapPending
  BY <1>8 DEF SwapPending
<1>9. CASE Recv
  BY <1>9 DEF Recv
<1>10. CASE Stdin
  BY <1>10 DEF Stdin
<1>11. CASE DropRawMode
  BY <1>11 DEF DropRawMode
<1>12. CASE DefaultHandler
  BY <1>12 DEF DefaultHandler
<1>13. CASE Resize
  BY <1>13 DEF Resize
<1>14. CASE Killed
  BY <1>14 DEF Killed
<1>15. CASE Over \/ UNCHANGED vars
  <2>1. UNCHANGED <<pc, opts, size, mode, handler, pending>>
        /\ UNCHANGED <<intr, fds, ws, told, saved, status>>
    BY <1>15, Zenon DEF Over, vars
  <2>2. TypeOK'
    <3>1. opts' \in [tty : BOOLEAN, passthrough : BOOLEAN]
      BY <2>1, Zenon
    <3>. QED
      BY <2>1, <3>1
  <2>3. ControlInStep' /\ SizeInStep'
    BY <2>1
  <2>4. ResizeRemembered'
    BY <2>1
  <2>. QED
    BY <2>2, <2>3, <2>4
<1>16. CASE SelectFails
  BY <1>16 DEF SelectFails
<1>. QED
  BY <1>1, <1>2, <1>3, <1>4, <1>5, <1>6, <1>7, <1>8, <1>9, <1>10, <1>11, <1>12, <1>13,
     <1>14, <1>15, <1>16 DEF Next, Runs

(* Every variable keeps its type, and the guard and the modes agree. *)
THEOREM TerminalTypes == Spec => []TypeOK
<1>1. TermInv => TypeOK
  BY DEF TermInv
<1>. QED
  BY <1>1, TermInit, TermStep, PTL DEF Spec

(* attach_session gives the terminal back in the modes it had, whichever    *)
(* way client_loop ends: it returns, or an error of select, of stdin, of    *)
(* stdout, of a key's packet or of the size that a signal or MSG_RESIZE     *)
(* asks for is propagated.                                                  *)
THEOREM ModesRestored == Spec => []TerminalRestored
<1>1. TermInv => TerminalRestored
  BY DEF TermInv, TypeOK, ControlInStep, TerminalRestored
<1>. QED
  BY <1>1, TermInit, TermStep, PTL DEF Spec

(* The client never forgets a change of size that came after its handler    *)
(* was installed, for any number of them and wherever they come.            *)
THEOREM ResizeKept == Spec => []ResizeRemembered
<1>1. TermInv => ResizeRemembered
  BY DEF TermInv
<1>. QED
  BY <1>1, TermInit, TermStep, PTL DEF Spec

-------------------------------------------------------------------------------
(***************************************************************************)
(* The data, in LichTyping.                                                *)
(***************************************************************************)
(* A packet that is written in several pieces leaves the control where it   *)
(* is, until the last piece is out.                                         *)
LEMMA SendingStep ==
    ASSUME SendAttach \/ send_resize \/ RecvExit \/ SendKeys
    PROVE  Attach \/ SendResize \/ Recv \/ Stdin \/ UNCHANGED vars
<1>1. CASE SendAttach
  BY <1>1 DEF SendAttach, SendPacket
<1>2. CASE send_resize
  BY <1>2 DEF send_resize, SendPacket
<1>3. CASE RecvExit
  BY <1>3 DEF RecvExit, SendPacket
<1>4. CASE SendKeys
  BY <1>4 DEF SendKeys, SendPacket
<1>. QED
  BY <1>1, <1>2, <1>3, <1>4

LEMMA TypingStep == [TypingNext]_<<vars, typingVars>> => [Next]_vars
<1>. SUFFICES ASSUME [TypingNext]_<<vars, typingVars>> PROVE Next \/ UNCHANGED vars
  OBVIOUS
<1>1. CASE ClientSteps
  <2>1. CASE SendAttach \/ send_resize \/ RecvExit \/ SendKeys
    BY <2>1, SendingStep DEF Next, Runs
  <2>2. CASE SendFails
    BY <2>2 DEF SendFails, Next, Runs
  <2>3. CASE RecvOther
    BY <2>3 DEF RecvOther, Next, Runs
  <2>4. CASE ReadStdin \/ ReadEof
    BY <2>4 DEF ReadStdin, ReadEof, Next, Runs
  <2>5. CASE \/ current_winsize \/ InstallHandler \/ EnterRawMode
             \/ SelectInterrupted \/ SwapPending
             \/ DropRawMode \/ DefaultHandler
    BY <2>5 DEF Next, Runs
  <2>. QED
    BY <1>1, <2>1, <2>2, <2>3, <2>4, <2>5 DEF ClientSteps
<1>2. CASE ServerSteps
  BY <1>2 DEF ServerSteps, ServerRead, ServerPop
<1>3. ASSUME NEW ready \in SUBSET {"sock", "stdin"}, Select(ready)
      PROVE  Next
  BY <1>3 DEF Select, Next
<1>4. CASE Type(Len(typed) + 1) \/ Type(-(Len(typed) + 1)) \/ CloseStdin
  BY <1>4 DEF Type, CloseStdin
<1>5. CASE SelectFails \/ Resize \/ Killed \/ Over
  BY <1>5 DEF Next
<1>6. CASE UNCHANGED <<vars, typingVars>>
  BY <1>6
<1>. QED
  BY <1>1, <1>2, <1>3, <1>4, <1>5, <1>6 DEF TypingNext

(* A client that reads its keys through io::stdin() and writes its packets  *)
(* in pieces is a client of LichTerminal: every step is one of attach_session *)
(* and client_loop there, or moves only data.                               *)
THEOREM TypingImplementsTerminal == TypingSpec => Spec
<1>1. TypingInit => Init
  BY DEF TypingInit
<1>. QED
  BY <1>1, TypingStep, PTL DEF TypingSpec, Spec

(* So the terminal is restored whatever is typed, held or half sent when    *)
(* the client ends of itself.                                               *)
THEOREM TypingRestores == TypingSpec => []TerminalRestored
BY TypingImplementsTerminal, ModesRestored, PTL

(* And no change of size is forgotten while keys are read and sent.         *)
THEOREM TypingRemembers == TypingSpec => []ResizeRemembered
BY TypingImplementsTerminal, ResizeKept, PTL

-------------------------------------------------------------------------------
(* The packets of a client, their cells and their keys. *)
Pkt == [typ : 0..4, payload : Seq(Int)]
KeysOf(pkt) == IF pkt.typ = MSG_CONTENT THEN pkt.payload ELSE <<>>

(* The functions CellsOf and KeysIn map. *)
PktCells == [p \in Pkt |-> packet_bytes(p)]
PktKeys == [p \in Pkt |-> KeysOf(p)]

LEMMA PacketCut ==
    ASSUME NEW p \in Pkt
    PROVE  /\ packet_bytes(p) \in Seq(Int) /\ Len(packet_bytes(p)) = Len(p.payload) + 2
           /\ packet_bytes(p)[1] = p.typ /\ packet_bytes(p)[2] = Len(p.payload)
           /\ \A i \in 1..Len(p.payload) : packet_bytes(p)[2 + i] = p.payload[i]
<1>1. p.typ \in Int /\ p.payload \in Seq(Int) /\ Len(p.payload) \in Int
  BY DEF Pkt
<1>. DEFINE h == <<p.typ, Len(p.payload)>>
            y == p.payload
<1>2. h \in Seq(Int) /\ Len(h) = 2 /\ h[1] = p.typ /\ h[2] = Len(p.payload) /\ y \in Seq(Int)
  BY <1>1
<1>3. packet_bytes(p) = h \o y
  BY DEF packet_bytes
<1>. HIDE DEF h, y
<1>4. /\ h \o y \in Seq(Int) /\ Len(h \o y) = Len(y) + 2
      /\ (h \o y)[1] = h[1] /\ (h \o y)[2] = h[2]
      /\ \A i \in 1..Len(y) : (h \o y)[2 + i] = y[i]
  <2>0. h \o y \in Seq(Int) /\ Len(h \o y) = Len(h) + Len(y)
    BY <1>2, ConcatProperties
  <2>1. ASSUME NEW i \in 1..(Len(h) + Len(y))
        PROVE  (h \o y)[i] = IF i <= Len(h) THEN h[i] ELSE y[i - Len(h)]
    <3>1. \A S : \A s, t \in Seq(S) : \A k \in 1..(Len(s) + Len(t)) :
            (s \o t)[k] = IF k <= Len(s) THEN s[k] ELSE t[k - Len(s)]
      BY ConcatProperties, Zenon
    <3>. QED
      BY <1>2, <3>1
  <2>2. ASSUME NEW i \in 1..Len(y) PROVE (h \o y)[2 + i] = y[i]
    <3>1. 2 + i \in 1..(Len(h) + Len(y)) /\ ~(2 + i <= Len(h)) /\ (2 + i) - Len(h) = i
      BY <1>2
    <3>. QED
      BY <2>1, <3>1
  <2>. QED
    BY <1>2, <2>0, <2>1, <2>2
<1>. QED
  BY <1>2, <1>3, <1>4 DEF y

LEMMA PktMapTypes == \A p \in Pkt : PktCells[p] \in Seq(Int) /\ PktKeys[p] \in Seq(Int)
<1>. SUFFICES ASSUME NEW p \in Pkt PROVE PktCells[p] \in Seq(Int) /\ PktKeys[p] \in Seq(Int)
  OBVIOUS
<1>1. p.payload \in Seq(Int) /\ <<>> \in Seq(Int)
  BY DEF Pkt
<1>. QED
  BY <1>1, PacketCut DEF PktCells, PktKeys, KeysOf

LEMMA PktMaps ==
    ASSUME NEW ps \in Seq(Pkt)
    PROVE  CellsOf(ps) = FlatMap(PktCells, ps) /\ KeysIn(ps) = FlatMap(PktKeys, ps)
<1>1. \A i \in 1..Len(ps) : ps[i] \in Pkt
  OBVIOUS
<1>2. /\ [i \in 1..Len(ps) |-> packet_bytes(ps[i])] = [i \in 1..Len(ps) |-> PktCells[ps[i]]]
      /\ [i \in 1..Len(ps) |-> IF ps[i].typ = MSG_CONTENT THEN ps[i].payload ELSE <<>>]
           = [i \in 1..Len(ps) |-> PktKeys[ps[i]]]
  BY <1>1 DEF PktCells, PktKeys, KeysOf
<1>. QED
  BY <1>2 DEF CellsOf, KeysIn, FlatMap

LEMMA PktsConcat ==
    ASSUME NEW ps, NEW qs, ps \in Seq(Pkt), qs \in Seq(Pkt)
    PROVE  /\ CellsOf(ps) \in Seq(Int) /\ KeysIn(ps) \in Seq(Int)
           /\ Joins(CellsOf(ps \o qs), CellsOf(ps), CellsOf(qs))
           /\ Joins(KeysIn(ps \o qs), KeysIn(ps), KeysIn(qs))
<1>1. ps \o qs \in Seq(Pkt)
  OBVIOUS
<1>2. /\ FlatMap(PktCells, ps) \in Seq(Int)
      /\ Joins(FlatMap(PktCells, ps \o qs), FlatMap(PktCells, ps), FlatMap(PktCells, qs))
  BY PktMapTypes, FlatMapConcat
<1>3. /\ FlatMap(PktKeys, ps) \in Seq(Int)
      /\ Joins(FlatMap(PktKeys, ps \o qs), FlatMap(PktKeys, ps), FlatMap(PktKeys, qs))
  BY PktMapTypes, FlatMapConcat
<1>. QED
  BY <1>1, <1>2, <1>3, PktMaps

LEMMA PktsOne ==
    ASSUME NEW p \in Pkt
    PROVE  CellsOf(<<p>>) = packet_bytes(p) /\ KeysIn(<<p>>) = KeysOf(p)
<1>1. PktCells[p] = packet_bytes(p) /\ PktKeys[p] = KeysOf(p)
  BY DEF PktCells, PktKeys
<1>2. FlatMap(PktCells, <<p>>) = PktCells[p] /\ FlatMap(PktKeys, <<p>>) = PktKeys[p]
  BY PktMapTypes, FlatMapOne
<1>3. <<p>> \in Seq(Pkt)
  OBVIOUS
<1>. QED
  BY <1>1, <1>2, <1>3, PktMaps

(* One packet more. *)
LEMMA PktsAppend ==
    ASSUME NEW ps, ps \in Seq(Pkt), NEW p \in Pkt
    PROVE  /\ Joins(CellsOf(Append(ps, p)), CellsOf(ps), packet_bytes(p))
           /\ Joins(KeysIn(Append(ps, p)), KeysIn(ps), KeysOf(p))
<1>1. <<p>> \in Seq(Pkt) /\ Append(ps, p) = ps \o <<p>>
  OBVIOUS
<1>2. /\ Joins(CellsOf(ps \o <<p>>), CellsOf(ps), CellsOf(<<p>>))
      /\ Joins(KeysIn(ps \o <<p>>), KeysIn(ps), KeysIn(<<p>>))
  BY <1>1, PktsConcat
<1>. QED
  BY <1>1, <1>2, PktsOne

LEMMA PktsNone == CellsOf(<<>>) = <<>> /\ KeysIn(<<>>) = <<>>
<1>1. /\ [i \in 1..Len(<<>>) |-> packet_bytes(<<>>[i])] = <<>>
      /\ [i \in 1..Len(<<>>) |->
            IF <<>>[i].typ = MSG_CONTENT THEN <<>>[i].payload ELSE <<>>] = <<>>
  OBVIOUS
<1>. QED
  BY <1>1, FlattenEmpty DEF CellsOf, KeysIn

Fit(ps) == \A i \in 1..Len(ps) : Len(ps[i].payload) <= MAX_PAYLOAD

(* What pop_packet may do to a buffer that begins the cells of ps. *)
PopsNothing(b) == pop_packet(b) = [pkts |-> <<>>, rest |-> b]
PopsFirst(b, r, ps) ==
    /\ ps # <<>>
    /\ pop_packet(b).pkts = <<Head(ps)>>
    /\ pop_packet(b).rest \in Seq(Int)
    /\ Joins(CellsOf(Tail(ps)), pop_packet(b).rest, r)

(* pop_packet takes the first packet when it is all there, and otherwise    *)
(* leaves the buffer alone: it never loses its place.                       *)
LEMMA PopPacket ==
    ASSUME NEW ps, ps \in Seq(Pkt), Fit(ps), NEW b, NEW r, b \in Seq(Int), r \in Seq(Int),
           Joins(CellsOf(ps), b, r)
    PROVE  PopsNothing(b) \/ PopsFirst(b, r, ps)
<1>0. MAX_PAYLOAD \in Nat /\ Len(b) \in Nat
  BY TypingAssumption
<1>1. CASE Len(b) < 2
  BY <1>0, <1>1 DEF PopsNothing, pop_packet
<1>2. CASE Len(b) >= 2
  <2>1. ps # <<>>
    <3>. SUFFICES ASSUME ps = <<>> PROVE FALSE
      OBVIOUS
    <3>1. Joins(<<>>, b, r)
      BY PktsNone
    <3>2. Len(b \o r) = Len(b) + Len(r) /\ Len(r) \in Nat
      OBVIOUS
    <3>. QED
      BY <1>0, <1>2, <3>1, <3>2, SMTT(30) DEF Joins
  <2>. DEFINE p == Head(ps)
              qs == Tail(ps)
              x == packet_bytes(p)
              y == CellsOf(qs)
              n == Len(p.payload)
  <2>2. p \in Pkt /\ qs \in Seq(Pkt) /\ ps = <<p>> \o qs /\ p = ps[1]
    BY <2>1
  <2>3. n \in Nat /\ n <= MAX_PAYLOAD /\ p.payload \in Seq(Int)
    <3>1. 1 \in 1..Len(ps)
      BY <2>1
    <3>2. p.payload \in Seq(Int)
      BY <2>2 DEF Pkt
    <3>. QED
      BY <2>2, <3>1, <3>2 DEF Fit
  <2>. HIDE DEF p, qs
  <2>4. /\ x \in Seq(Int) /\ Len(x) = n + 2 /\ x[1] = p.typ /\ x[2] = n
        /\ \A i \in 1..n : x[2 + i] = p.payload[i]
    BY <2>2, PacketCut
  <2>5. y \in Seq(Int) /\ Joins(CellsOf(ps), x, y)
    <3>1. <<p>> \in Seq(Pkt)
      BY <2>2
    <3>2. CellsOf(qs) \in Seq(Int) /\ Joins(CellsOf(<<p>> \o qs), CellsOf(<<p>>), CellsOf(qs))
      BY <2>2, <3>1, PktsConcat
    <3>. QED
      BY <2>2, <3>2, PktsOne
  <2>. HIDE DEF x, y
  <2>6. b[1] = p.typ /\ b[2] = n
    <3>1. b \o r = x \o y
      BY <2>5 DEF Joins
    <3>2. (b \o r)[1] = b[1] /\ (b \o r)[2] = b[2]
      BY <1>0, <1>2
    <3>3. (x \o y)[1] = x[1] /\ (x \o y)[2] = x[2]
      BY <2>3, <2>4, <2>5
    <3>. QED
      BY <2>4, <3>1, <3>2, <3>3
  <2>. HIDE DEF n
  <2>7. CASE Len(b) < 2 + n
    <3>1. ~(b[2] > MAX_PAYLOAD) /\ ~(Len(b) >= 2 + b[2])
      BY <1>0, <2>3, <2>6, <2>7
    <3>. QED
      BY <3>1 DEF PopsNothing, pop_packet
  <2>8. CASE Len(b) >= 2 + n
    <3>1. pop_packet(b) = [pkts |-> <<[typ |-> p.typ, payload |-> SubSeq(b, 3, 2 + n)]>>,
                           rest |-> After(b, 2 + n)]
      BY <1>0, <1>2, <2>3, <2>6, <2>8 DEF pop_packet
    <3>2. CutsOff(Int, b, Len(x), r, x, y)
      <4>1. Len(x) <= Len(b)
        BY <1>0, <2>3, <2>4, <2>8
      <4>. QED
        BY <2>4, <2>5, <4>1, CutFirst
    <3>3. /\ SubSeq(b, 1, 2 + n) = x
          /\ After(b, 2 + n) \in Seq(Int) /\ Joins(y, After(b, 2 + n), r)
      <4>1. Len(x) = 2 + n
        BY <2>3, <2>4
      <4>. QED
        BY <3>2, <4>1 DEF CutsOff, After
    <3>4. SubSeq(b, 3, 2 + n) = p.payload
      <4>. DEFINE u == SubSeq(b, 3, 2 + n)
      <4>1. u \in Seq(Int) /\ Len(u) = n /\ \A i \in 1..n : u[i] = b[2 + i]
        BY <1>0, <2>3, <2>8
      <4>. DEFINE v == SubSeq(b, 1, 2 + n)
      <4>2. \A i \in 1..n : v[2 + i] = b[2 + i]
        BY <1>0, <2>3, <2>8
      <4>3. v = x
        BY <3>3
      <4>. HIDE DEF u, v
      <4>4. ASSUME NEW i \in 1..n PROVE u[i] = p.payload[i]
        BY <2>4, <4>1, <4>2, <4>3
      <4>5. Len(p.payload) = n
        BY DEF n
      <4>6. u = p.payload
        BY <2>3, <4>1, <4>4, <4>5, SameSeq
      <4>. QED
        BY <4>6 DEF u
    <3>5. p = [typ |-> p.typ, payload |-> p.payload]
      BY <2>2 DEF Pkt
    <3>6. pop_packet(b) = [pkts |-> <<p>>, rest |-> After(b, 2 + n)]
      BY <3>1, <3>4, <3>5
    <3>. QED
      BY <2>1, <3>3, <3>6 DEF PopsFirst, p, qs, y
  <2>. QED
    BY <1>0, <2>3, <2>7, <2>8
<1>. QED
  BY <1>0, <1>1, <1>2

-------------------------------------------------------------------------------
(* The way from write_all to pop_packet: the packets sent are those the     *)
(* server has and some more, ps, and the cells on the way are the cells of  *)
(* ps.                                                                      *)
OutTyped ==
    /\ outbox \in Seq(Int) /\ buf \in Seq(Int)
    /\ wire \in Seq(Int) /\ Len(wire) <= SNDBUF
    /\ sent \in Seq(Pkt) /\ got \in Seq(Pkt)

OnTheWay(ps) ==
    /\ ps \in Seq(Pkt)
    /\ sent = got \o ps
    /\ Joins(CellsOf(ps), buf \o wire, outbox)

WireInv == OutTyped /\ Fit(sent) /\ \E ps \in Seq(Pkt) : OnTheWay(ps)

(* What a send does to the data. *)
Sends(pkt) ==
    /\ IF outbox = <<>>
         THEN Write(packet_bytes(pkt)) /\ sent' = Append(sent, pkt)
         ELSE Write(outbox) /\ UNCHANGED sent
    /\ UNCHANGED <<readonly, inVars, buf, got>>

(* write(2) moves cells and keeps their order. *)
LEMMA WriteCut ==
    ASSUME NEW cells \in Seq(Int), wire \in Seq(Int), Len(wire) <= SNDBUF, Write(cells)
    PROVE  /\ wire' \in Seq(Int) /\ Len(wire') <= SNDBUF /\ outbox' \in Seq(Int)
           /\ Joins(wire' \o outbox', wire, cells)
<1>0. Len(cells) \in Nat /\ Len(wire) \in Nat /\ SNDBUF \in Nat
  BY TypingAssumption
<1>1. PICK n \in 1..Len(cells) :
        /\ Len(wire) + n <= SNDBUF
        /\ wire' = wire \o First(cells, n)
        /\ outbox' = After(cells, n)
  BY DEF Write
<1>. DEFINE a == SubSeq(cells, 1, n)
            b == SubSeq(cells, n + 1, Len(cells))
<1>2. First(cells, n) = a /\ After(cells, n) = b
  BY <1>0 DEF First, After, Smaller
<1>3. a \in Seq(Int) /\ Len(a) = n /\ b \in Seq(Int) /\ Joins(cells, a, b)
  <2>1. n \in 0..Len(cells)
    BY <1>0
  <2>. QED
    BY <2>1, SplitSeq
<1>. HIDE DEF a, b
<1>4. wire \o a \in Seq(Int) /\ Len(wire \o a) = Len(wire) + n
  BY <1>3, ConcatProperties
<1>5. Assoc(wire, a, b)
  BY <1>3, ConcatAssoc
<1>6. Joins(wire' \o outbox', wire, cells)
  BY <1>1, <1>2, <1>3, <1>5 DEF Joins, Assoc
<1>. QED
  BY <1>1, <1>2, <1>3, <1>4, <1>6

(* Packets with one more, and what is on the way with it. *)
LEMMA OneMoreSent ==
    ASSUME OutTyped, Fit(sent), NEW ps, OnTheWay(ps), NEW pkt \in Pkt,
           Len(pkt.payload) <= MAX_PAYLOAD, NEW s, s = Append(sent, pkt)
    PROVE  /\ s \in Seq(Pkt) /\ Fit(s)
           /\ Append(ps, pkt) \in Seq(Pkt) /\ s = got \o Append(ps, pkt)
<1>1. /\ s \in Seq(Pkt) /\ Len(s) = Len(sent) + 1 /\ Len(sent) \in Nat
      /\ \A i \in 1..Len(sent) : s[i] = sent[i]
      /\ s[Len(sent) + 1] = pkt
  BY DEF OutTyped
<1>2. Fit(s)
  <2>. SUFFICES ASSUME NEW i \in 1..Len(s) PROVE Len(s[i].payload) <= MAX_PAYLOAD
    BY DEF Fit
  <2>1. CASE i = Len(sent) + 1
    BY <1>1, <2>1
  <2>2. CASE i # Len(sent) + 1
    <3>1. i \in 1..Len(sent)
      BY <1>1, <2>2
    <3>. QED
      BY <1>1, <3>1 DEF Fit
  <2>. QED
    BY <2>1, <2>2
<1>3. AppendsAfter(got, ps, pkt)
  BY ConcatAppend DEF OutTyped, OnTheWay
<1>4. Append(ps, pkt) \in Seq(Pkt)
  BY DEF OnTheWay
<1>. QED
  BY <1>1, <1>2, <1>3, <1>4 DEF AppendsAfter, OnTheWay

(* A write of a packet's first cells ... *)
LEMMA WireFirst ==
    ASSUME WireInv, NEW pkt \in Pkt, Len(pkt.payload) <= MAX_PAYLOAD, outbox = <<>>,
           Write(packet_bytes(pkt)) \/ (outbox' = packet_bytes(pkt) /\ UNCHANGED wire),
           sent' = Append(sent, pkt), UNCHANGED <<buf, got>>
    PROVE  WireInv'
<1>1. PICK ps : OnTheWay(ps)
  BY DEF WireInv
<1>2. /\ sent' \in Seq(Pkt) /\ Fit(sent') /\ Append(ps, pkt) \in Seq(Pkt)
      /\ sent' = got \o Append(ps, pkt)
  <2>1. PICK s : s = Append(sent, pkt)
    OBVIOUS
  <2>. QED
    BY <1>1, <2>1, OneMoreSent DEF WireInv
<1>. DEFINE x == packet_bytes(pkt)
<1>3. x \in Seq(Int)
  BY PacketCut
<1>. HIDE DEF x
<1>4. /\ wire' \in Seq(Int) /\ Len(wire') <= SNDBUF /\ outbox' \in Seq(Int)
      /\ Joins(wire' \o outbox', wire, x)
  <2>1. CASE Write(packet_bytes(pkt))
    BY <1>3, <2>1, WriteCut DEF WireInv, OutTyped, x
  <2>2. CASE outbox' = packet_bytes(pkt) /\ UNCHANGED wire
    BY <1>3, <2>2 DEF WireInv, OutTyped, Joins, x
  <2>. QED
    BY <2>1, <2>2
<1>5. Joins(CellsOf(Append(ps, pkt)), buf \o wire', outbox')
  <2>0. buf \in Seq(Int) /\ wire \in Seq(Int)
    BY DEF WireInv, OutTyped
  <2>1. Joins(CellsOf(Append(ps, pkt)), CellsOf(ps), x)
    BY <1>1, PktsAppend DEF OnTheWay, x
  <2>2. CellsOf(ps) = buf \o wire
    <3>1. Joins(CellsOf(ps), buf \o wire, <<>>) /\ buf \o wire \in Seq(Int)
      BY <1>1, <2>0 DEF OnTheWay
    <3>. QED
      BY <3>1, ConcatEmptySeq DEF Joins
  <2>3. Assoc(buf, wire, x) /\ Assoc(buf, wire', outbox')
    BY <1>3, <1>4, <2>0, ConcatAssoc
  <2>. QED
    BY <1>4, <2>1, <2>2, <2>3 DEF Joins, Assoc
<1>6. OnTheWay(Append(ps, pkt))'
  BY <1>2, <1>5 DEF OnTheWay, CellsOf, packet_bytes
<1>7. OutTyped' /\ Fit(sent)'
  BY <1>2, <1>4 DEF WireInv, OutTyped, Fit
<1>. QED
  BY <1>2, <1>6, <1>7 DEF WireInv

(* ... and of the rest of it. *)
LEMMA WireRest ==
    ASSUME WireInv, Write(outbox), UNCHANGED <<sent, buf, got>>
    PROVE  WireInv'
<1>1. PICK ps : OnTheWay(ps)
  BY DEF WireInv
<1>2. PICK x \in Seq(Int) : x = outbox
  BY DEF WireInv, OutTyped
<1>3. /\ wire' \in Seq(Int) /\ Len(wire') <= SNDBUF /\ outbox' \in Seq(Int)
      /\ Joins(wire' \o outbox', wire, x)
  <2>1. Write(x)
    BY <1>2 DEF Write
  <2>. QED
    BY <2>1, WriteCut DEF WireInv, OutTyped
<1>4. Joins(CellsOf(ps), buf \o wire', outbox')
  <2>0. buf \in Seq(Int) /\ wire \in Seq(Int)
    BY DEF WireInv, OutTyped
  <2>1. Joins(CellsOf(ps), buf \o wire, x)
    BY <1>1, <1>2 DEF OnTheWay
  <2>3. Assoc(buf, wire, x) /\ Assoc(buf, wire', outbox')
    BY <1>2, <1>3, <2>0, ConcatAssoc
  <2>. QED
    BY <1>3, <2>1, <2>3 DEF Joins, Assoc
<1>5. OnTheWay(ps)'
  BY <1>1, <1>4 DEF OnTheWay, CellsOf, packet_bytes
<1>6. OutTyped' /\ Fit(sent)'
  BY <1>3 DEF WireInv, OutTyped, Fit
<1>. QED
  BY <1>5, <1>6 DEF WireInv, OnTheWay

LEMMA WireSends ==
    ASSUME WireInv, NEW pkt \in Pkt, Len(pkt.payload) <= MAX_PAYLOAD, Sends(pkt)
    PROVE  WireInv'
<1>1. CASE outbox = <<>>
  BY <1>1, WireFirst DEF Sends
<1>2. CASE outbox # <<>>
  BY <1>2, WireRest DEF Sends
<1>. QED
  BY <1>1, <1>2

(* The server reads cells, and pops packets. *)
LEMMA WireServer ==
    ASSUME WireInv, ServerRead \/ ServerPop
    PROVE  WireInv'
<1>1. PICK ps : OnTheWay(ps)
  BY DEF WireInv
<1>2. CASE ServerRead
  <2>1. /\ buf' = buf \o wire /\ wire' = <<>> /\ UNCHANGED <<outbox, sent, got>>
    BY <1>2 DEF ServerRead
  <2>2. buf \o wire \in Seq(Int) /\ <<>> \in Seq(Int) /\ Len(<<>>) = 0
    BY DEF WireInv, OutTyped
  <2>3. buf' \o wire' = buf \o wire
    BY <2>1, <2>2, ConcatEmptySeq
  <2>4. OnTheWay(ps)'
    BY <1>1, <2>1, <2>3 DEF OnTheWay, CellsOf, packet_bytes
  <2>5. OutTyped' /\ Fit(sent)'
    BY <2>1, <2>2, TypingAssumption DEF WireInv, OutTyped, Fit
  <2>. QED
    BY <2>4, <2>5 DEF WireInv, OnTheWay
<1>3. CASE ServerPop
  <2>1. /\ buf' = pop_packet(buf).rest /\ got' = got \o pop_packet(buf).pkts
        /\ UNCHANGED <<outbox, wire, sent>> /\ ~PopsNothing(buf)
    BY <1>3 DEF ServerPop, PopsNothing
  <2>2. Fit(ps) /\ ps \in Seq(Pkt)
    <3>1. /\ ps \in Seq(Pkt) /\ got \in Seq(Pkt) /\ sent = got \o ps
          /\ Len(got) \in Nat /\ Len(ps) \in Nat
      BY <1>1 DEF OnTheWay, WireInv, OutTyped
    <3>2. ASSUME NEW i \in 1..Len(ps) PROVE Len(ps[i].payload) <= MAX_PAYLOAD
      <4>1. Len(got) + i \in 1..Len(sent) /\ sent[Len(got) + i] = ps[i]
        BY <3>1
      <4>. QED
        BY <4>1 DEF WireInv, Fit
    <3>. QED
      BY <3>1, <3>2 DEF Fit
  <2>3. PICK b \in Seq(Int), r \in Seq(Int) : b = buf /\ r = wire \o outbox
    <3>1. buf \in Seq(Int) /\ wire \o outbox \in Seq(Int)
      BY DEF WireInv, OutTyped
    <3>. QED
      BY <3>1, Zenon
  <2>4. Joins(CellsOf(ps), b, r)
    <3>1. Assoc(buf, wire, outbox)
      BY ConcatAssoc DEF WireInv, OutTyped
    <3>. QED
      BY <1>1, <2>3, <3>1 DEF OnTheWay, Joins, Assoc
  <2>5. PopsFirst(b, r, ps)
    BY <2>1, <2>2, <2>3, <2>4, PopPacket
  <2>. DEFINE p == Head(ps)
              qs == Tail(ps)
  <2>6. p \in Pkt /\ qs \in Seq(Pkt) /\ ps = <<p>> \o qs
    BY <2>2, <2>5 DEF PopsFirst
  <2>7. got' = got \o <<p>> /\ buf' \in Seq(Int) /\ Joins(CellsOf(qs), buf', r)
    BY <2>1, <2>3, <2>5 DEF PopsFirst
  <2>. HIDE DEF p, qs
  <2>8. got' \in Seq(Pkt) /\ sent = got' \o qs
    <3>0. got \in Seq(Pkt) /\ <<p>> \in Seq(Pkt)
      BY <2>6 DEF WireInv, OutTyped
    <3>1. Assoc(got, <<p>>, qs)
      BY <2>6, <3>0, ConcatAssoc
    <3>. QED
      BY <1>1, <2>6, <2>7, <3>0, <3>1, SMTT(30) DEF Assoc, OnTheWay
  <2>9. Joins(CellsOf(qs), buf' \o wire', outbox')
    <3>1. Assoc(buf', wire, outbox)
      BY <2>7, ConcatAssoc DEF WireInv, OutTyped
    <3>. QED
      BY <2>1, <2>3, <2>7, <3>1 DEF Joins, Assoc
  <2>10. OnTheWay(qs)'
    BY <2>1, <2>6, <2>8, <2>9 DEF OnTheWay, CellsOf, packet_bytes
  <2>11. OutTyped' /\ Fit(sent)'
    BY <2>1, <2>7, <2>8 DEF WireInv, OutTyped, Fit
  <2>. QED
    BY <2>6, <2>10, <2>11 DEF WireInv
<1>. QED
  BY <1>2, <1>3

-------------------------------------------------------------------------------
(* The way from the terminal to write_all, by position: what is typed falls *)
(* into the keys sent, the keys io::stdin() holds and those the kernel      *)
(* holds.  Of the keys not yet sent only the first in the kernel can have   *)
(* been typed alone: io::stdin() asks for more when it is empty, and what   *)
(* it then gets is looked at from its first key on.                         *)
Known == Len(KeysIn(sent))
Taken == Known + Len(held)

InTyped ==
    /\ readonly \in BOOLEAN /\ eof \in BOOLEAN
    /\ typed \in Seq(Int) /\ Len(typed) <= MaxKeys
    /\ alone \subseteq 1..Len(typed)
    /\ tty \in Seq(Int)
    /\ held \in Seq(Int) /\ Len(held) <= STDIN_BUF

Numbered == \A i \in 1..Len(typed) : typed[i] \in {i, -i}

SentCut ==
    /\ Known <= Len(typed)
    /\ KeysIn(sent) = SubSeq(typed, 1, Known)
    /\ \A i \in 1..Known : typed[i] < 0 => i \notin alone

WaitingCut ==
    /\ Taken <= Len(typed)
    /\ held = SubSeq(typed, Known + 1, Taken)
    /\ tty = SubSeq(typed, Taken + 1, Len(typed))
    /\ \A i \in (Known + 1)..Len(typed) : i \in alone => i = Taken + 1

InputInv ==
    /\ InTyped
    /\ Numbered
    /\ readonly => KeysIn(sent) = <<>>
    /\ ~readonly => SentCut
    /\ ~readonly /\ ~Detaching => WaitingCut

LEMMA KnownType ==
    ASSUME sent \in Seq(Pkt)
    PROVE  KeysIn(sent) \in Seq(Int) /\ Known \in Nat
<1>1. KeysIn(sent) \in Seq(Int)
  BY PktsConcat
<1>. QED
  BY <1>1 DEF Known

(* A packet that is neither keys nor the detach packet. *)
LEMMA InputOther ==
    ASSUME OutTyped, InputInv, NEW pkt \in Pkt, pkt.typ \notin {MSG_CONTENT, MSG_DETACH},
           sent' = Append(sent, pkt) \/ UNCHANGED sent, UNCHANGED <<readonly, inVars>>
    PROVE  InputInv' /\ Detaching' = Detaching
<1>1. KeysIn(sent') = KeysIn(sent)
  <2>1. CASE UNCHANGED sent
    BY <2>1
  <2>2. CASE sent' = Append(sent, pkt)
    <3>1. Joins(KeysIn(Append(sent, pkt)), KeysIn(sent), KeysOf(pkt))
      BY PktsAppend DEF OutTyped
    <3>0. KeysOf(pkt) = <<>>
      BY DEF KeysOf
    <3>2. KeysIn(sent) \in Seq(Int)
      BY KnownType DEF OutTyped
    <3>. QED
      BY <2>2, <3>0, <3>1, <3>2, ConcatEmptySeq DEF Joins
  <2>. QED
    BY <2>1, <2>2
<1>2. KeysIn(sent)' = KeysIn(sent) /\ Known' = Known
  BY <1>1 DEF KeysIn, MSG_CONTENT, Known
<1>3. Detaching' = Detaching
  <2>1. CASE UNCHANGED sent
    BY <2>1 DEF Detaching, MSG_DETACH
  <2>2. CASE sent' = Append(sent, pkt)
    <3>1. /\ Len(sent') = Len(sent) + 1 /\ Len(sent) \in Nat
          /\ \A i \in 1..Len(sent) : sent'[i] = sent[i]
          /\ sent'[Len(sent) + 1] = pkt
      BY <2>2 DEF OutTyped
    <3>. QED
      BY <3>1 DEF Detaching, MSG_DETACH
  <2>. QED
    BY <2>1, <2>2
<1>4. UNCHANGED <<readonly, typed, alone, tty, eof, held>>
  BY DEF inVars
<1>5. Taken' = Taken
  BY <1>2, <1>4 DEF Taken
<1>6. (InTyped /\ Numbered)'
  BY <1>4 DEF InputInv, InTyped, Numbered
<1>7. (readonly => KeysIn(sent) = <<>>)'
  BY <1>2, <1>4 DEF InputInv
<1>8. SentCut => SentCut'
  BY <1>2, <1>4 DEF SentCut
<1>9. WaitingCut => WaitingCut'
  BY <1>2, <1>4, <1>5 DEF WaitingCut
<1>. QED
  BY <1>3, <1>4, <1>6, <1>7, <1>8, <1>9 DEF InputInv

(* A key typed. *)
LEMMA InputTyped ==
    ASSUME OutTyped, InputInv, NEW key \in {Len(typed) + 1, -(Len(typed) + 1)}, Type(key)
    PROVE  InputInv'
<1>0. /\ Len(typed) \in Nat /\ Len(held) \in Nat /\ Known \in Nat /\ Taken \in Nat
      /\ MaxKeys \in Nat /\ typed \in Seq(Int)
  <2>1. typed \in Seq(Int) /\ held \in Seq(Int)
    BY DEF InputInv, InTyped
  <2>. QED
    BY <2>1, KnownType, TypingAssumption DEF OutTyped, Taken
<1>1. /\ Len(typed) < MaxKeys /\ typed' = Append(typed, key) /\ tty' = Append(tty, key)
      /\ alone' = (IF tty = <<>> THEN alone \cup {Len(typed) + 1} ELSE alone)
      /\ UNCHANGED <<readonly, eof, held, sent>>
  BY DEF Type, outVars
<1>2. /\ key \in Int /\ typed' \in Seq(Int) /\ Len(typed') = Len(typed) + 1
      /\ \A i \in 1..Len(typed) : typed'[i] = typed[i]
      /\ typed'[Len(typed) + 1] = key
  BY <1>0, <1>1
<1>3. Known' = Known /\ KeysIn(sent)' = KeysIn(sent) /\ Detaching' = Detaching /\ Taken' = Taken
  BY <1>1 DEF Known, Taken, KeysIn, MSG_CONTENT, Detaching, MSG_DETACH
<1>4. InTyped'
  <2>1. alone' \subseteq 1..Len(typed')
    <3>1. alone \subseteq 1..Len(typed)
      BY DEF InputInv, InTyped
    <3>2. 1..Len(typed) \subseteq 1..Len(typed') /\ Len(typed) + 1 \in 1..Len(typed')
      BY <1>0, <1>2
    <3>. QED
      BY <1>1, <3>1, <3>2
  <2>2. tty' \in Seq(Int)
    BY <1>1, <1>2 DEF InputInv, InTyped
  <2>. QED
    BY <1>0, <1>1, <1>2, <2>1, <2>2 DEF InputInv, InTyped
<1>5. Numbered'
  <2>. SUFFICES ASSUME NEW i \in 1..Len(typed') PROVE typed'[i] \in {i, -i}
    BY DEF Numbered
  <2>1. CASE i = Len(typed) + 1
    BY <1>2, <2>1
  <2>2. CASE i # Len(typed) + 1
    <3>1. i \in 1..Len(typed)
      BY <1>0, <1>2, <2>2
    <3>. QED
      BY <1>2, <3>1 DEF InputInv, Numbered
  <2>. QED
    BY <2>1, <2>2
<1>6. ASSUME SentCut PROVE SentCut'
  <2>1. CutKept(typed, key, 0, Known)
    BY <1>0, <1>2, <1>6, SubSeqOfAppend DEF SentCut
  <2>2. SubSeq(typed', 1, Known) = SubSeq(typed, 1, Known)
    <3>1. 0 + 1 = 1
      OBVIOUS
    <3>. QED
      BY <1>1, <2>1, <3>1, Zenon DEF CutKept
  <2>3. ASSUME NEW i \in 1..Known, typed'[i] < 0 PROVE i \notin alone'
    <3>1. i \in 1..Len(typed) /\ i # Len(typed) + 1
      BY <1>0, <1>6 DEF SentCut
    <3>. QED
      BY <1>1, <1>2, <1>6, <2>3, <3>1 DEF SentCut
  <2>. QED
    BY <1>0, <1>2, <1>3, <1>6, <2>2, <2>3 DEF SentCut
<1>7. ASSUME WaitingCut PROVE WaitingCut'
  <2>1. Known <= Taken /\ Taken <= Len(typed)
    BY <1>0, <1>7 DEF WaitingCut, Taken
  <2>2. CutKept(typed, key, Known, Taken) /\ CutGrown(typed, key, Taken)
    BY <1>0, <1>2, <2>1, SubSeqOfAppend
  <2>3. held' = SubSeq(typed', Known + 1, Taken) /\ tty' = SubSeq(typed', Taken + 1, Len(typed'))
    BY <1>1, <1>2, <1>7, <2>2 DEF CutKept, CutGrown, WaitingCut
  <2>4. ASSUME NEW i \in (Known + 1)..Len(typed'), i \in alone' PROVE i = Taken + 1
    <3>1. CASE i = Len(typed) + 1
      <4>1. tty = <<>>
        BY <1>0, <1>1, <2>4, <3>1 DEF InputInv, InTyped
      <4>2. Len(SubSeq(typed, Taken + 1, Len(typed))) = Len(typed) - Taken
        BY <1>0, <2>1
      <4>3. Len(typed) - Taken = 0
        <5>1. SubSeq(typed, Taken + 1, Len(typed)) = <<>>
          BY <1>7, <4>1, Zenon DEF WaitingCut
        <5>. QED
          BY <4>2, <5>1
      <4>. QED
        BY <1>0, <3>1, <4>3
    <3>2. CASE i # Len(typed) + 1
      BY <1>0, <1>1, <1>2, <1>7, <2>4, <3>2 DEF WaitingCut
    <3>. QED
      BY <3>1, <3>2
  <2>. QED
    BY <1>0, <1>2, <1>3, <2>1, <2>3, <2>4 DEF WaitingCut
<1>. QED
  BY <1>1, <1>3, <1>4, <1>5, <1>6, <1>7 DEF InputInv

(* What a read of stdin finds in the buffer. *)
LEMMA FilledTypes ==
    ASSUME InTyped
    PROVE  /\ Filled.held \in Seq(Int) /\ Len(Filled.held) <= STDIN_BUF
           /\ Filled.tty \in Seq(Int)
           /\ chunk \in Seq(Int) /\ Len(chunk) <= MAX_PAYLOAD
           /\ chunk = SubSeq(Filled.held, 1, Len(chunk))
           /\ Len(chunk) <= Len(Filled.held)
           /\ Filled.held # <<>> => Len(chunk) >= 1
           /\ Filled.held = <<>> => held = <<>> /\ tty = <<>>
<1>. DEFINE n == Smaller(STDIN_BUF, Len(tty))
            f == Filled.held
            m == Smaller(MAX_PAYLOAD, Len(f))
<1>0. /\ STDIN_BUF \in Nat /\ STDIN_BUF >= 1 /\ MAX_PAYLOAD \in Nat /\ MAX_PAYLOAD >= 1
      /\ tty \in Seq(Int) /\ held \in Seq(Int) /\ Len(tty) \in Nat /\ Len(held) <= STDIN_BUF
  BY TypingAssumption DEF InTyped
<1>1. n \in 0..Len(tty) /\ n <= STDIN_BUF /\ (n = 0 => Len(tty) = 0)
  BY <1>0 DEF Smaller
<1>2. /\ f \in Seq(Int) /\ Len(f) <= STDIN_BUF /\ Filled.tty \in Seq(Int)
      /\ f = <<>> => held = <<>> /\ tty = <<>>
  <2>1. CASE held # <<>>
    BY <1>0, <2>1 DEF Filled
  <2>2. CASE held = <<>>
    <3>1. f = SubSeq(tty, 1, n) /\ Filled.tty = SubSeq(tty, n + 1, Len(tty))
      BY <2>2 DEF Filled, First, After
    <3>2. Len(f) = n /\ f \in Seq(Int) /\ Filled.tty \in Seq(Int)
      BY <1>0, <1>1, <3>1, SMTT(30)
    <3>3. f = <<>> => n = 0
      BY <3>2
    <3>4. Len(tty) = 0 => tty = <<>>
      BY <1>0
    <3>. QED
      BY <1>1, <2>2, <3>2, <3>3, <3>4
  <2>. QED
    BY <2>1, <2>2
<1>. HIDE DEF f
<1>3. Len(f) \in Nat /\ (f # <<>> => Len(f) >= 1)
  BY <1>2
<1>4. m \in 0..Len(f) /\ m <= MAX_PAYLOAD /\ (f # <<>> => m >= 1)
  BY <1>0, <1>3 DEF Smaller
<1>5. chunk = SubSeq(f, 1, m)
  BY DEF chunk, First, f
<1>6. chunk \in Seq(Int) /\ Len(chunk) = m
  BY <1>2, <1>4, <1>5
<1>. QED
  BY <1>2, <1>3, <1>4, <1>5, <1>6 DEF f

(* A buffer that is filled is filled with what was typed next. *)
NextHeld == Known + Len(Filled.held)

LEMMA FilledCut ==
    ASSUME OutTyped, InTyped, WaitingCut
    PROVE  /\ NextHeld \in Nat /\ NextHeld <= Len(typed)
           /\ Filled.held = SubSeq(typed, Known + 1, NextHeld)
           /\ Filled.tty = SubSeq(typed, NextHeld + 1, Len(typed))
           /\ held # <<>> => NextHeld = Taken
           /\ held = <<>> => Taken = Known
<1>0. /\ typed \in Seq(Int) /\ held \in Seq(Int) /\ tty \in Seq(Int)
      /\ Len(typed) \in Nat /\ Len(held) \in Nat /\ Known \in Nat /\ STDIN_BUF \in Nat
  BY KnownType, TypingAssumption DEF OutTyped, InTyped
<1>1. CASE held # <<>>
  <2>1. Filled.held = held /\ Filled.tty = tty
    BY <1>1 DEF Filled
  <2>2. NextHeld = Taken
    BY <2>1 DEF NextHeld, Taken
  <2>. QED
    BY <1>0, <1>1, <2>1, <2>2 DEF WaitingCut, Taken
<1>2. CASE held = <<>>
  <2>1. Taken = Known
    BY <1>0, <1>2 DEF Taken
  <2>. DEFINE n == Smaller(STDIN_BUF, Len(tty))
              f == Filled.held
  <2>2. f = SubSeq(tty, 1, n) /\ Filled.tty = SubSeq(tty, n + 1, Len(tty))
    BY <1>2 DEF Filled, First, After
  <2>3. Known <= Len(typed) /\ tty = SubSeq(typed, Known + 1, Len(typed))
    BY <2>1 DEF WaitingCut
  <2>4. Len(tty) = Len(typed) - Known /\ Len(tty) \in Nat
    BY <1>0, <2>3
  <2>5. n \in Nat /\ n <= Len(tty)
    BY <1>0, <2>4 DEF Smaller
  <2>. HIDE DEF n, f
  <2>6. Len(f) = n
    BY <1>0, <2>2, <2>5
  <2>7. PICK u, L : u = tty /\ L = Len(tty)
    OBVIOUS
  <2>8. CutOfCut(u, typed, Known, 0, n) /\ CutOfCut(u, typed, Known, n, L)
    <3>1. u = SubSeq(typed, Known + 1, Len(typed)) /\ L \in Nat /\ L <= Len(typed) - Known
      BY <1>0, <2>3, <2>4, <2>7
    <3>2. n <= Len(typed) - Known /\ n <= L /\ 0 <= n /\ Len(typed) <= Len(typed)
      BY <1>0, <2>4, <2>5, <2>7
    <3>. QED
      BY <1>0, <2>3, <2>5, <3>1, <3>2, CutPiece
  <2>9. SubSeq(tty, 1, n) = SubSeq(typed, Known + 1, Known + n)
    <3>1. 0 + 1 = 1 /\ Known + 0 + 1 = Known + 1
      BY <1>0
    <3>. QED
      BY <2>7, <2>8, <3>1, Zenon DEF CutOfCut
  <2>10. SubSeq(tty, n + 1, Len(tty)) = SubSeq(typed, Known + n + 1, Len(typed))
    <3>1. Known + L = Len(typed)
      BY <1>0, <2>4, <2>7
    <3>. QED
      BY <2>7, <2>8, <3>1, Zenon DEF CutOfCut
  <2>11. NextHeld = Known + n
    BY <2>6 DEF NextHeld, f
  <2>12. NextHeld \in Nat /\ NextHeld <= Len(typed)
    BY <1>0, <2>4, <2>5, <2>11
  <2>. QED
    BY <1>2, <2>1, <2>2, <2>9, <2>10, <2>11, <2>12 DEF f
<1>. QED
  BY <1>1, <1>2

(* The keys of one read follow those sent, and those left follow them. *)
LEMMA ChunkCut ==
    ASSUME OutTyped, InTyped, WaitingCut, SentCut, Filled.held # <<>>
    PROVE  /\ Len(chunk) \in Nat /\ Len(chunk) >= 1 /\ Known + Len(chunk) <= NextHeld
           /\ Joins(SubSeq(typed, 1, Known + Len(chunk)), KeysIn(sent), chunk)
           /\ chunk[1] = typed[Known + 1]
           /\ After(Filled.held, Len(chunk)) = SubSeq(typed, Known + Len(chunk) + 1, NextHeld)
           /\ Len(After(Filled.held, Len(chunk))) = Len(Filled.held) - Len(chunk)
<1>. DEFINE m == Len(chunk)
            f == Filled.held
<1>0. typed \in Seq(Int) /\ Len(typed) \in Nat /\ Known \in Nat
  BY KnownType DEF OutTyped, InTyped
<1>1. /\ f \in Seq(Int) /\ m \in Nat /\ m >= 1 /\ m <= Len(f) /\ chunk = SubSeq(f, 1, m)
      /\ Len(f) \in Nat
  BY FilledTypes
<1>2. f = SubSeq(typed, Known + 1, NextHeld) /\ NextHeld \in Nat /\ NextHeld <= Len(typed)
      /\ NextHeld = Known + Len(f)
  BY FilledCut DEF NextHeld
<1>3. PICK u, n, L : u = f /\ n = m /\ L = Len(f)
  OBVIOUS
<1>. HIDE DEF m, f
<1>4. CutOfCut(u, typed, Known, 0, n) /\ CutOfCut(u, typed, Known, n, L)
  <2>1. /\ u = SubSeq(typed, Known + 1, NextHeld) /\ L \in Nat /\ n \in Nat
        /\ L <= NextHeld - Known /\ n <= L /\ n <= NextHeld - Known /\ Known <= NextHeld
        /\ 0 <= n
    BY <1>0, <1>1, <1>2, <1>3
  <2>. QED
    BY <1>0, <1>2, <2>1, CutPiece
<1>5. chunk = SubSeq(typed, Known + 1, Known + m)
  <2>1. 0 + 1 = 1 /\ Known + 0 + 1 = Known + 1
    BY <1>0
  <2>. QED
    BY <1>1, <1>3, <1>4, <2>1, Zenon DEF CutOfCut
<1>6. SubSeq(f, m + 1, Len(f)) = SubSeq(typed, Known + m + 1, NextHeld)
  BY <1>2, <1>3, <1>4, Zenon DEF CutOfCut
<1>7. Known + m <= NextHeld /\ Known + m \in Nat /\ Known <= Known + m /\ Known + m <= Len(typed)
  <2>1. m \in Nat /\ m <= Len(f) /\ Len(f) \in Nat
    BY <1>1
  <2>2. NextHeld = Known + Len(f) /\ NextHeld <= Len(typed)
    BY <1>2
  <2>. QED
    BY <1>0, <2>1, <2>2
<1>8. CutsMeet(typed, Known, Known + m)
  BY <1>0, <1>7, SubSeqsMeet
<1>9. Joins(SubSeq(typed, 1, Known + m), KeysIn(sent), chunk)
  BY <1>5, <1>8 DEF CutsMeet, SentCut, Joins
<1>10. chunk[1] = typed[Known + 1]
  BY <1>0, <1>1, <1>5, <1>7
<1>11. Len(SubSeq(f, m + 1, Len(f))) = Len(f) - m
  BY <1>1
<1>. QED
  BY <1>1, <1>6, <1>7, <1>9, <1>10, <1>11 DEF After, m, f

LEMMA PacketForFits ==
    ASSUME InTyped, Filled.held # <<>>
    PROVE  /\ PacketFor \in Pkt /\ Len(PacketFor.payload) <= MAX_PAYLOAD
           /\ PacketFor.typ \in {MSG_CONTENT, MSG_DETACH}
           /\ PacketFor.typ = MSG_CONTENT => PacketFor.payload = chunk /\ ~IsDetach(chunk[1])
<1>1. chunk \in Seq(Int) /\ Len(chunk) <= MAX_PAYLOAD
  BY FilledTypes
<1>2. <<>> \in Seq(Int) /\ Len(<<>>) = 0 /\ 0 <= MAX_PAYLOAD
  BY TypingAssumption
<1>3. CASE IsDetach(chunk[1])
  BY <1>2, <1>3 DEF PacketFor, Pkt, MSG_DETACH, MSG_CONTENT
<1>4. CASE ~IsDetach(chunk[1])
  BY <1>1, <1>4 DEF PacketFor, Pkt, MSG_DETACH, MSG_CONTENT
<1>. QED
  BY <1>3, <1>4

(* A packet more, of what type it may be. *)
LEMMA DetachingAppend ==
    ASSUME OutTyped, NEW pkt \in Pkt, sent' = Append(sent, pkt)
    PROVE  Detaching' <=> (Detaching \/ pkt.typ = MSG_DETACH)
<1>1. /\ Len(sent') = Len(sent) + 1 /\ Len(sent) \in Nat
      /\ \A i \in 1..Len(sent) : sent'[i] = sent[i]
      /\ sent'[Len(sent) + 1] = pkt
  BY DEF OutTyped
<1>2. ASSUME Detaching PROVE Detaching'
  BY <1>1, <1>2 DEF Detaching, MSG_DETACH
<1>3. ASSUME pkt.typ = MSG_DETACH PROVE Detaching'
  <2>1. Len(sent) + 1 \in 1..Len(sent')
    BY <1>1
  <2>. QED
    BY <1>1, <1>3, <2>1 DEF Detaching, MSG_DETACH
<1>4. ASSUME Detaching' PROVE Detaching \/ pkt.typ = MSG_DETACH
  <2>1. PICK i \in 1..Len(sent') : sent'[i].typ = MSG_DETACH
    BY <1>4 DEF Detaching, MSG_DETACH
  <2>2. i \in 1..Len(sent) \/ i = Len(sent) + 1
    BY <1>1
  <2>. QED
    BY <1>1, <2>1, <2>2 DEF Detaching
<1>. QED
  BY <1>2, <1>3, <1>4

(* A read of stdin. *)
LEMMA InputRead ==
    ASSUME OutTyped, InputInv, ~Detaching, ReadStdin
    PROVE  InputInv'
<1>. DEFINE m == Len(chunk)
<1>1. /\ Filled.held # <<>> /\ held' = After(Filled.held, m) /\ tty' = Filled.tty
      /\ UNCHANGED <<readonly, typed, alone, eof>>
      /\ \/ readonly /\ UNCHANGED sent
         \/ ~(readonly /\ PacketFor.typ = MSG_CONTENT) /\ sent' = Append(sent, PacketFor)
  BY DEF ReadStdin
<1>2. InTyped
  BY DEF InputInv
<1>3. PICK pkt \in Pkt : pkt = PacketFor
  BY <1>1, <1>2, PacketForFits
<1>4. /\ pkt.typ \in {MSG_CONTENT, MSG_DETACH}
      /\ pkt.typ = MSG_CONTENT => pkt.payload = chunk /\ ~IsDetach(chunk[1])
  BY <1>1, <1>2, <1>3, PacketForFits
<1>5. /\ Filled.held \in Seq(Int) /\ Len(Filled.held) <= STDIN_BUF /\ Filled.tty \in Seq(Int)
      /\ m \in Nat /\ m >= 1 /\ m <= Len(Filled.held) /\ chunk \in Seq(Int)
  BY <1>1, <1>2, FilledTypes
<1>6. InTyped' /\ Numbered'
  <2>1. /\ After(Filled.held, m) \in Seq(Int)
        /\ Len(After(Filled.held, m)) = Len(Filled.held) - m
    <3>1. PICK f : f = Filled.held
      OBVIOUS
    <3>2. f \in Seq(Int) /\ m \in 0..Len(f)
      BY <1>5, <3>1
    <3>3. After(f, m) \in Seq(Int) /\ Len(After(f, m)) = Len(f) - m
      BY <3>2 DEF After
    <3>. QED
      BY <3>1, <3>3
  <2>2. Len(Filled.held) - m <= STDIN_BUF
    BY <1>5, TypingAssumption
  <2>. QED
    BY <1>1, <1>2, <1>5, <2>1, <2>2 DEF InTyped, Numbered, InputInv
<1>7. KeysIn(sent) \in Seq(Int) /\ Known \in Nat
  BY KnownType DEF OutTyped
<1>8. CASE readonly /\ UNCHANGED sent
  <2>1. KeysIn(sent)' = KeysIn(sent)
    BY <1>8 DEF KeysIn, MSG_CONTENT
  <2>. QED
    BY <1>1, <1>6, <1>8, <2>1 DEF InputInv
<1>9. CASE pkt.typ = MSG_DETACH /\ sent' = Append(sent, pkt)
  <2>1. KeysIn(sent)' = KeysIn(sent)
    <3>1. Joins(KeysIn(Append(sent, pkt)), KeysIn(sent), KeysOf(pkt))
      BY PktsAppend DEF OutTyped
    <3>0. KeysOf(pkt) = <<>>
      BY <1>9 DEF KeysOf, MSG_CONTENT, MSG_DETACH
    <3>2. KeysIn(Append(sent, pkt)) = KeysIn(sent)
      BY <1>7, <3>0, <3>1, ConcatEmptySeq DEF Joins
    <3>. QED
      BY <1>9, <3>2 DEF KeysIn, MSG_CONTENT
  <2>2. Detaching'
    BY <1>9, DetachingAppend
  <2>3. Known' = Known
    BY <2>1 DEF Known
  <2>4. SentCut => SentCut'
    BY <1>1, <2>1, <2>3 DEF SentCut
  <2>. QED
    BY <1>1, <1>6, <2>1, <2>2, <2>4 DEF InputInv
<1>10. CASE ~readonly /\ pkt.typ = MSG_CONTENT /\ sent' = Append(sent, pkt)
  <2>1. SentCut /\ WaitingCut
    BY <1>10 DEF InputInv
  <2>2. ~Detaching'
    BY <1>10, DetachingAppend DEF MSG_CONTENT, MSG_DETACH
  <2>3. /\ Known + m <= NextHeld
        /\ Joins(SubSeq(typed, 1, Known + m), KeysIn(sent), chunk)
        /\ chunk[1] = typed[Known + 1]
        /\ After(Filled.held, m) = SubSeq(typed, Known + m + 1, NextHeld)
        /\ Len(After(Filled.held, m)) = Len(Filled.held) - m
    BY <1>1, <1>2, <2>1, ChunkCut
  <2>4. /\ NextHeld \in Nat /\ NextHeld <= Len(typed) /\ NextHeld = Known + Len(Filled.held)
        /\ Filled.tty = SubSeq(typed, NextHeld + 1, Len(typed))
        /\ held # <<>> => NextHeld = Taken
        /\ held = <<>> => Taken = Known
    BY <1>2, <2>1, FilledCut DEF NextHeld
  <2>5. KeysIn(sent)' = SubSeq(typed, 1, Known + m)
    <3>1. Joins(KeysIn(Append(sent, pkt)), KeysIn(sent), KeysOf(pkt)) /\ KeysOf(pkt) = chunk
      BY <1>4, <1>10, PktsAppend DEF OutTyped, KeysOf
    <3>2. KeysIn(Append(sent, pkt)) = SubSeq(typed, 1, Known + m)
      BY <2>3, <3>1 DEF Joins
    <3>. QED
      BY <1>10, <3>2 DEF KeysIn, MSG_CONTENT
  <2>. HIDE DEF m
  <2>6. Known' = Known + m /\ Len(typed) \in Nat /\ Known + m <= Len(typed)
    <3>1. typed \in Seq(Int) /\ Len(typed) \in Nat
      BY <1>2 DEF InTyped
    <3>2. Known + m \in Nat /\ Known + m <= Len(typed)
      BY <1>5, <1>7, <2>3, <2>4, <3>1
    <3>3. Len(SubSeq(typed, 1, Known + m)) = Known + m
      BY <3>1, <3>2
    <3>4. Known' = Len(KeysIn(sent)')
      BY DEF Known
    <3>. QED
      BY <2>5, <3>1, <3>2, <3>3, <3>4
  <2>7. ASSUME NEW i \in (Known + 1)..Len(typed), i \in alone
        PROVE  i = Taken + 1
    BY <2>1, <2>7 DEF WaitingCut
  <2>8. ASSUME NEW i \in 1..(Known + m), typed[i] < 0 PROVE i \notin alone
    <3>1. CASE i <= Known
      BY <1>7, <2>1, <2>8, <3>1 DEF SentCut
    <3>2. CASE ~(i <= Known)
      <4>. SUFFICES ASSUME i \in alone PROVE FALSE
        OBVIOUS
      <4>1. i \in (Known + 1)..Len(typed)
        BY <1>5, <1>7, <2>6, <3>2
      <4>2. i = Taken + 1
        BY <2>7, <4>1
      <4>3. held = <<>>
        BY <1>5, <1>7, <2>3, <2>4, <4>2, SMTT(30)
      <4>4. chunk[1] < 0
        BY <2>3, <2>4, <2>8, <4>2, <4>3
      <4>. QED
        BY <1>4, <1>10, <4>4 DEF IsDetach
    <3>. QED
      BY <3>1, <3>2
  <2>9. SentCut'
    BY <1>1, <2>5, <2>6, <2>8 DEF SentCut
  <2>10. Taken' = NextHeld
    <3>1. Len(held') = Len(Filled.held) - m
      BY <1>1, <2>3 DEF m
    <3>2. Len(Filled.held) \in Nat
      BY <1>5
    <3>. QED
      <4>1. Taken' = (Known + m) + (Len(Filled.held) - m)
        BY <2>6, <3>1 DEF Taken
      <4>2. m \in Nat /\ NextHeld = Known + Len(Filled.held)
        BY <1>5, <2>4
      <4>3. \A a, b, c \in Nat : (a + c) + (b - c) = a + b
        OBVIOUS
      <4>4. (Known + m) + (Len(Filled.held) - m) = Known + Len(Filled.held)
        BY <1>7, <3>2, <4>2, <4>3, Zenon
      <4>. QED
        BY <4>1, <4>2, <4>4, Zenon
  <2>11. ASSUME NEW i \in (Known + m + 1)..Len(typed), i \in alone PROVE i = NextHeld + 1
    <3>1. i \in (Known + 1)..Len(typed)
      BY <1>5, <1>7, <2>6
    <3>2. i = Taken + 1
      BY <2>7, <2>11, <3>1
    <3>3. held # <<>>
      BY <1>5, <1>7, <2>4, <3>2
    <3>. QED
      BY <2>4, <3>2, <3>3
  <2>12. WaitingCut'
    <3>1. held' = SubSeq(typed, Known' + 1, NextHeld)
      BY <1>1, <2>3, <2>6 DEF m
    <3>2. tty' = SubSeq(typed, NextHeld + 1, Len(typed))
      BY <1>1, <2>4
    <3>. QED
      BY <1>1, <2>4, <2>6, <2>10, <2>11, <3>1, <3>2 DEF WaitingCut
  <2>. QED
    BY <1>1, <1>6, <1>10, <2>9, <2>12 DEF InputInv
<1>. QED
  BY <1>1, <1>3, <1>4, <1>8, <1>9, <1>10

-------------------------------------------------------------------------------
(* How client_loop ends.  A client that has sent MSG_DETACH is writing it   *)
(* or has left.                                                             *)
WritingDetach == pc = "stdin" /\ outbox # <<>> /\ sent[Len(sent)].typ = MSG_DETACH

LeaveInv ==
    /\ ~Leaving => status = "none"
    /\ Detaching => Leaving \/ WritingDetach
    /\ EofAfterAll

TypingInv == TermInv /\ WireInv /\ InputInv /\ LeaveInv

(* A packet other than keys and MSG_DETACH, and what its sender does to the *)
(* data.                                                                    *)
LEMMA SendingData ==
    ASSUME TermInv, SendAttach \/ send_resize \/ RecvExit
    PROVE  \E pkt \in Pkt : /\ Len(pkt.payload) <= MAX_PAYLOAD
                            /\ pkt.typ \notin {MSG_CONTENT, MSG_DETACH}
                            /\ Sends(pkt)
<1>. USE DEF MSG_CONTENT, MSG_DETACH, MSG_ATTACH, MSG_RESIZE, MSG_EXIT
<1>0. MAX_PAYLOAD \in Nat /\ MAX_PAYLOAD >= 1 /\ ws \in Int
  BY TypingAssumption DEF TermInv, TypeOK
<1>1. ASSUME NEW x \in Int, NEW t \in {1, 3, 4}
      PROVE  \E pkt \in Pkt : /\ pkt = [typ |-> t, payload |-> <<x>>]
                              /\ Len(pkt.payload) <= MAX_PAYLOAD
                              /\ pkt.typ \notin {MSG_CONTENT, MSG_DETACH}
  <2>1. <<x>> \in Seq(Int) /\ Len(<<x>>) = 1
    OBVIOUS
  <2>. DEFINE q == [typ |-> t, payload |-> <<x>>]
  <2>2. q \in Pkt /\ Len(q.payload) <= MAX_PAYLOAD /\ q.typ \notin {MSG_CONTENT, MSG_DETACH}
    BY <1>0, <2>1 DEF Pkt
  <2>. QED
    BY <2>2, Zenon
<1>2. CASE SendAttach
  <2>1. PICK x \in Int : x = IF readonly THEN 1 ELSE 0
    OBVIOUS
  <2>2. Sends([typ |-> 1, payload |-> <<x>>])
    BY <1>2, <2>1 DEF SendAttach, SendPacket, Sends
  <2>. QED
    BY <1>1, <2>2
<1>3. CASE send_resize
  <2>1. PICK x \in Int : x = ws
    BY <1>0
  <2>2. Sends([typ |-> 3, payload |-> <<x>>])
    BY <1>3, <2>1 DEF send_resize, SendPacket, Sends
  <2>. QED
    BY <1>1, <2>2
<1>4. CASE RecvExit
  <2>1. PICK x \in Int : x = 0
    OBVIOUS
  <2>2. Sends([typ |-> 4, payload |-> <<x>>])
    BY <1>4, <2>1 DEF RecvExit, SendPacket, Sends
  <2>. QED
    BY <1>1, <2>2
<1>. QED
  BY <1>2, <1>3, <1>4

(* What the data does in each step: a packet is sent, keys are read or      *)
(* written, the server reads, the user types, or nothing moves.             *)
StepKinds ==
    \/ SendAttach \/ send_resize \/ RecvExit
    \/ ReadStdin
    \/ SendKeys
    \/ ServerRead \/ ServerPop
    \/ Type(Len(typed) + 1) \/ Type(-(Len(typed) + 1)) \/ CloseStdin
    \/ UNCHANGED typingVars

LEMMA EveryStep == [TypingNext]_<<vars, typingVars>> => StepKinds
BY DEF TypingNext, ClientSteps, ServerSteps, StepKinds, SendFails, RecvOther, ReadEof, Select

LEMMA SendKeysData ==
    ASSUME SendKeys
    PROVE  Write(outbox) /\ UNCHANGED <<sent, readonly, inVars, buf, got>>
BY DEF SendKeys, SendPacket

LEMMA InputSame ==
    ASSUME InputInv, UNCHANGED <<sent, readonly, typed, alone, tty, held>>, eof' \in BOOLEAN
    PROVE  InputInv' /\ Detaching' = Detaching
<1>1. Known' = Known /\ KeysIn(sent)' = KeysIn(sent) /\ Detaching' = Detaching /\ Taken' = Taken
  BY DEF Known, Taken, KeysIn, MSG_CONTENT, Detaching, MSG_DETACH
<1>2. InTyped' /\ Numbered'
  BY DEF InputInv, InTyped, Numbered
<1>3. (SentCut => SentCut') /\ (WaitingCut => WaitingCut')
  BY <1>1 DEF SentCut, WaitingCut
<1>. QED
  BY <1>1, <1>2, <1>3 DEF InputInv

LEMMA WireSame ==
    ASSUME WireInv, UNCHANGED outVars
    PROVE  WireInv'
<1>1. UNCHANGED <<outbox, wire, buf, sent, got>>
  BY DEF outVars
<1>2. PICK ps \in Seq(Pkt) : OnTheWay(ps)
  BY DEF WireInv
<1>3. OnTheWay(ps)'
  BY <1>1, <1>2 DEF OnTheWay, CellsOf, packet_bytes
<1>4. OutTyped' /\ Fit(sent)'
  BY <1>1 DEF WireInv, OutTyped, Fit
<1>. QED
  BY <1>3, <1>4 DEF WireInv

LEMMA WireStep ==
    ASSUME TypingInv, StepKinds
    PROVE  WireInv'
<1>. USE DEF TypingInv
<1>1. CASE SendAttach \/ send_resize \/ RecvExit
  BY <1>1, SendingData, WireSends
<1>2. CASE ReadStdin
  <2>1. InTyped /\ Filled.held # <<>>
    BY <1>2 DEF ReadStdin, InputInv
  <2>2. CASE UNCHANGED <<outbox, sent>>
    BY <1>2, <2>2, WireSame DEF ReadStdin, outVars
  <2>3. CASE outbox' = packet_bytes(PacketFor) /\ sent' = Append(sent, PacketFor)
    <3>1. PICK pkt \in Pkt : pkt = PacketFor
      BY <2>1, PacketForFits
    <3>2. /\ Len(pkt.payload) <= MAX_PAYLOAD
          /\ outbox' = packet_bytes(pkt) /\ sent' = Append(sent, pkt)
      BY <2>1, <2>3, <3>1, PacketForFits
    <3>. QED
      BY <1>2, <3>2, WireFirst DEF ReadStdin
  <2>. QED
    BY <1>2, <2>2, <2>3 DEF ReadStdin
<1>3. CASE SendKeys
  BY <1>3, SendKeysData, WireRest
<1>4. CASE ServerRead \/ ServerPop
  BY <1>4, WireServer
<1>5. CASE Type(Len(typed) + 1) \/ Type(-(Len(typed) + 1)) \/ CloseStdin
  BY <1>5, WireSame DEF Type, CloseStdin
<1>6. CASE UNCHANGED typingVars
  BY <1>6, WireSame DEF typingVars
<1>. QED
  BY <1>1, <1>2, <1>3, <1>4, <1>5, <1>6 DEF StepKinds

LEMMA InputStep ==
    ASSUME TypingInv, StepKinds
    PROVE  InputInv'
<1>. USE DEF TypingInv
<1>0. OutTyped
  BY DEF WireInv
<1>1. CASE SendAttach \/ send_resize \/ RecvExit
  BY <1>0, <1>1, SendingData, InputOther DEF Sends
<1>2. CASE ReadStdin
  <2>1. ~Detaching
    BY <1>2 DEF ReadStdin, LeaveInv, Leaving, WritingDetach
  <2>. QED
    BY <1>0, <1>2, <2>1, InputRead
<1>3. CASE SendKeys
  <2>1. UNCHANGED <<sent, readonly, typed, alone, tty, held, eof>>
    BY <1>3, SendKeysData DEF inVars
  <2>. QED
    BY <2>1, InputSame DEF InputInv, InTyped
<1>4. CASE ServerRead \/ ServerPop
  <2>1. UNCHANGED <<sent, readonly, typed, alone, tty, held, eof>>
    BY <1>4 DEF inVars, ServerRead, ServerPop
  <2>. QED
    BY <2>1, InputSame DEF InputInv, InTyped
<1>5. CASE Type(Len(typed) + 1)
  BY <1>0, <1>5, InputTyped
<1>6. CASE Type(-(Len(typed) + 1))
  BY <1>0, <1>6, InputTyped
<1>7. CASE CloseStdin
  BY <1>7, InputSame DEF CloseStdin, outVars
<1>8. CASE UNCHANGED typingVars
  <2>1. UNCHANGED <<sent, readonly, typed, alone, tty, held, eof>>
    BY <1>8 DEF typingVars, inVars, outVars
  <2>. QED
    BY <2>1, InputSame DEF InputInv, InTyped
<1>. QED
  BY <1>1, <1>2, <1>3, <1>4, <1>5, <1>6, <1>7, <1>8 DEF StepKinds

(* Only a client with a packet in its outbox has sent one. *)
LEMMA OutboxSent ==
    ASSUME WireInv, outbox # <<>>
    PROVE  Len(sent) \in 1..Len(sent)
<1>1. PICK ps \in Seq(Pkt) : OnTheWay(ps)
  BY DEF WireInv
<1>2. buf \o wire \in Seq(Int) /\ outbox \in Seq(Int) /\ got \in Seq(Pkt)
  BY DEF WireInv, OutTyped
<1>3. ps # <<>>
  <2>. SUFFICES ASSUME ps = <<>> PROVE FALSE
    OBVIOUS
  <2>1. Joins(<<>>, buf \o wire, outbox)
    BY <1>1, PktsNone DEF OnTheWay
  <2>. DEFINE a == buf \o wire
  <2>2. a \in Seq(Int) /\ Joins(<<>>, a, outbox)
    BY <1>2, <2>1
  <2>. HIDE DEF a
  <2>3. Len(a \o outbox) = Len(a) + Len(outbox) /\ Len(a) \in Nat /\ Len(outbox) >= 1
    BY <1>2, <2>2
  <2>. QED
    BY <2>2, <2>3 DEF Joins
<1>4. sent = got \o ps
  BY <1>1 DEF OnTheWay
<1>5. Len(got \o ps) = Len(got) + Len(ps) /\ Len(got) \in Nat /\ Len(ps) \in Nat /\ Len(ps) >= 1
  BY <1>2, <1>3
<1>. QED
  BY <1>4, <1>5

(* The control, where the data stays as it is or the loop goes on. *)
LEMMA LeaveSends ==
    ASSUME TypingInv, SendAttach \/ send_resize \/ RecvExit
    PROVE  LeaveInv'
<1>1. pc \in {"attach", "send", "recv"} /\ status = "none" /\ ~Detaching
  BY DEF SendAttach, send_resize, RecvExit, TypingInv, LeaveInv, Leaving, WritingDetach
<1>2. ~Detaching'
  BY <1>1, SendingData, InputOther DEF TypingInv, WireInv, Sends
<1>3. (~Leaving => status = "none")' /\ status' # "detached"
  <2>1. CASE UNCHANGED vars
    BY <1>1, <2>1 DEF vars, Leaving
  <2>2. CASE Attach /\ status' = "none"
    BY <1>1, <2>2 DEF Leaving
  <2>3. CASE SendResize /\ status' = "none"
    BY <1>1, <2>3 DEF Leaving
  <2>4. CASE Recv /\ status' = "exited"
    BY <1>1, <2>4 DEF Leaving, Recv, GoTo, LeaveWith
  <2>. QED
    BY <2>1, <2>2, <2>3, <2>4 DEF SendAttach, send_resize, RecvExit, SendPacket
<1>. QED
  BY <1>2, <1>3 DEF LeaveInv, EofAfterAll

LEMMA LeaveRead ==
    ASSUME TypingInv, ReadStdin
    PROVE  LeaveInv'
<1>1. pc = "stdin" /\ status = "none" /\ ~Detaching
  BY DEF ReadStdin, TypingInv, LeaveInv, Leaving, WritingDetach
<1>2. CASE Stdin /\ pc' = "select" /\ UNCHANGED <<outbox, sent>>
  <2>1. status' = "none"
    BY <1>1, <1>2 DEF Stdin, GoTo, LeaveWith
  <2>2. Detaching' = Detaching
    BY <1>2 DEF Detaching, MSG_DETACH
  <2>. QED
    BY <1>1, <2>1, <2>2 DEF LeaveInv, EofAfterAll
<1>3. CASE outbox' = packet_bytes(PacketFor) /\ sent' = Append(sent, PacketFor) /\ UNCHANGED vars
  <2>1. pc' = "stdin" /\ status' = "none"
    BY <1>1, <1>3 DEF vars
  <2>2. PICK pkt \in Pkt : pkt = PacketFor
    BY PacketForFits DEF ReadStdin, TypingInv, InputInv
  <2>3. outbox' # <<>>
    <3>1. Len(packet_bytes(pkt)) = Len(pkt.payload) + 2 /\ Len(pkt.payload) \in Nat
      BY PacketCut DEF Pkt
    <3>. QED
      BY <1>3, <2>2, <3>1
  <2>4. Detaching' => pkt.typ = MSG_DETACH
    BY <1>1, <1>3, <2>2, DetachingAppend DEF TypingInv, WireInv
  <2>5. sent'[Len(sent')] = pkt
    BY <1>3, <2>2 DEF TypingInv, WireInv, OutTyped
  <2>. QED
    BY <2>1, <2>3, <2>4, <2>5 DEF LeaveInv, WritingDetach, EofAfterAll, MSG_DETACH
<1>. QED
  BY <1>2, <1>3 DEF ReadStdin

LEMMA LeaveKeys ==
    ASSUME TypingInv, SendKeys
    PROVE  LeaveInv'
<1>1. pc = "stdin" /\ status = "none" /\ outbox # <<>> /\ UNCHANGED sent
  BY SendKeysData DEF SendKeys, TypingInv, LeaveInv, Leaving
<1>2. Len(sent) \in 1..Len(sent)
  BY <1>1, OutboxSent DEF TypingInv
<1>3. Detaching' = Detaching /\ (Detaching <=> sent[Len(sent)].typ = MSG_DETACH)
  <2>1. Detaching => sent[Len(sent)].typ = MSG_DETACH
    BY <1>1 DEF TypingInv, LeaveInv, Leaving, WritingDetach
  <2>2. sent[Len(sent)].typ = MSG_DETACH => Detaching
    BY <1>2 DEF Detaching
  <2>. QED
    BY <1>1, <2>1, <2>2 DEF Detaching, MSG_DETACH
<1>4. CASE outbox' # <<>> /\ UNCHANGED vars
  <2>1. pc' = "stdin" /\ status' = "none"
    BY <1>1, <1>4 DEF vars
  <2>. QED
    BY <1>1, <1>3, <1>4, <2>1 DEF LeaveInv, WritingDetach, EofAfterAll, MSG_DETACH
<1>5. CASE Stdin /\ IF sent[Len(sent)].typ = MSG_DETACH THEN status' = "detached" ELSE pc' = "select"
  <2>1. CASE sent[Len(sent)].typ = MSG_DETACH
    <3>1. pc' = "leave"
      BY <1>1, <1>5, <2>1 DEF Stdin, GoTo, LeaveWith
    <3>. QED
      BY <1>3, <2>1, <3>1 DEF LeaveInv, Leaving, EofAfterAll
  <2>2. CASE sent[Len(sent)].typ # MSG_DETACH
    <3>1. pc' = "select" /\ status' = "none"
      BY <1>1, <1>5, <2>2 DEF Stdin, GoTo, LeaveWith
    <3>. QED
      BY <1>3, <2>2, <3>1 DEF LeaveInv, Leaving, EofAfterAll
  <2>. QED
    BY <2>1, <2>2
<1>. QED
  BY <1>4, <1>5 DEF SendKeys, SendPacket

(* The end of file: nothing is held, nothing waits. *)
LEMMA LeaveEof ==
    ASSUME TypingInv, ReadEof
    PROVE  LeaveInv'
<1>1. /\ pc = "stdin" /\ status = "none" /\ outbox = <<>> /\ ~Detaching
      /\ Filled.held = <<>> /\ UNCHANGED <<readonly, typed, sent, outbox>>
      /\ Stdin /\ status' = "detached"
  BY DEF ReadEof, TypingInv, LeaveInv, Leaving, WritingDetach, typingVars, inVars, outVars
<1>2. pc' = "leave"
  BY <1>1 DEF Stdin, GoTo, LeaveWith
<1>3. Detaching' = Detaching /\ KeysIn(sent)' = KeysIn(sent)
  BY <1>1 DEF Detaching, MSG_DETACH, KeysIn, MSG_CONTENT
<1>4. ASSUME ~readonly PROVE KeysIn(sent) = typed
  <2>1. SentCut /\ WaitingCut /\ InTyped
    BY <1>1, <1>4 DEF TypingInv, InputInv
  <2>2. held = <<>> /\ tty = <<>>
    BY <1>1, <2>1, FilledTypes
  <2>3. Known \in Nat /\ typed \in Seq(Int) /\ Len(typed) \in Nat
    BY <2>1, KnownType DEF InTyped, TypingInv, WireInv, OutTyped
  <2>4. Taken = Known
    BY <2>2, <2>3 DEF Taken
  <2>5. SubSeq(typed, Known + 1, Len(typed)) = <<>> /\ Known <= Len(typed)
    BY <2>1, <2>2, <2>4 DEF WaitingCut
  <2>6. Len(SubSeq(typed, Known + 1, Len(typed))) = Len(typed) - Known
    BY <2>3, <2>5
  <2>7. Known = Len(typed)
    <3>1. Len(typed) - Known = 0
      BY <2>5, <2>6
    <3>. QED
      BY <2>3, <3>1
  <2>8. KeysIn(sent) = SubSeq(typed, 1, Len(typed))
    BY <2>1, <2>7 DEF SentCut
  <2>. QED
    BY <2>3, <2>8, SubSeqFull
<1>. QED
  BY <1>1, <1>2, <1>3, <1>4 DEF LeaveInv, Leaving, EofAfterAll

(* The server and the user do not move the client. *)
LEMMA LeaveOthers ==
    ASSUME TypingInv, \/ ServerRead \/ ServerPop
                      \/ Type(Len(typed) + 1) \/ Type(-(Len(typed) + 1)) \/ CloseStdin
    PROVE  LeaveInv'
<1>1. UNCHANGED <<pc, status, sent, outbox, readonly>>
  BY DEF vars, ServerRead, ServerPop, Type, CloseStdin, outVars
<1>2. Detaching' = Detaching /\ KeysIn(sent)' = KeysIn(sent) /\ Leaving' = Leaving
  BY <1>1 DEF Detaching, MSG_DETACH, KeysIn, MSG_CONTENT, Leaving
<1>3. Leaving => UNCHANGED typed
  BY DEF ServerRead, ServerPop, Type, CloseStdin, inVars
<1>. QED
  BY <1>1, <1>2, <1>3 DEF TypingInv, LeaveInv, EofAfterAll, WritingDetach, MSG_DETACH

(* A step of the control alone leaves for another reason than the end of    *)
(* file, or stays.                                                          *)
LEMMA LeaveAlone ==
    ASSUME TypingInv, UNCHANGED typingVars,
           \/ pc' = pc /\ status' = status
           \/ ~Leaving /\ pc \notin {"stdin"} /\ pc' \notin {"leave", "default", "done"}
              /\ status' = status
           \/ pc' \in {"leave", "default", "done"} /\ status' = status /\ Leaving
           \/ pc' \in {"leave", "default", "done"} /\ status' \notin {"none", "detached"}
    PROVE  LeaveInv'
<1>0. UNCHANGED <<readonly, typed, sent, outbox>>
  BY DEF typingVars, inVars, outVars
<1>1. Detaching' = Detaching /\ KeysIn(sent)' = KeysIn(sent)
  BY <1>0 DEF Detaching, MSG_DETACH, KeysIn, MSG_CONTENT
<1>2. (~Leaving => status = "none")'
  BY DEF TypingInv, LeaveInv, Leaving
<1>3. (Detaching => Leaving \/ WritingDetach)'
  BY <1>0, <1>1 DEF TypingInv, LeaveInv, Leaving, WritingDetach, MSG_DETACH
<1>4. EofAfterAll'
  BY <1>0, <1>1 DEF TypingInv, LeaveInv, Leaving, EofAfterAll
<1>. QED
  BY <1>2, <1>3, <1>4 DEF LeaveInv

LEMMA LeaveStep ==
    ASSUME TypingInv, [TypingNext]_<<vars, typingVars>>
    PROVE  LeaveInv'
<1>0. ~Leaving => status = "none"
  BY DEF TypingInv, LeaveInv
<1>1. CASE SendAttach \/ send_resize \/ RecvExit
  BY <1>1, LeaveSends
<1>2. CASE ReadStdin
  BY <1>2, LeaveRead
<1>3. CASE SendKeys
  BY <1>3, LeaveKeys
<1>4. CASE ReadEof
  BY <1>4, LeaveEof
<1>5. CASE ServerRead \/ ServerPop
           \/ Type(Len(typed) + 1) \/ Type(-(Len(typed) + 1)) \/ CloseStdin
  BY <1>5, LeaveOthers
<1>6. CASE SendFails
  <2>1. pc' = "leave" /\ status' = "error" /\ UNCHANGED typingVars
    BY <1>0, <1>6 DEF SendFails, Attach, SendResize, Stdin, GoTo, LeaveWith, Leaving
  <2>. QED
    BY <2>1, LeaveAlone
<1>7. CASE RecvOther
  <2>1. UNCHANGED typingVars /\ pc = "recv" /\ ~Leaving
    BY <1>7 DEF RecvOther, Recv, Leaving
  <2>2. \/ pc' \in {"stdin", "select", "winsize"} /\ status' = status
        \/ pc' = "leave" /\ status' \in {"exited", "ioerror", "error"}
    BY <1>7 DEF RecvOther, Recv, GoTo, LeaveWith
  <2>. QED
    BY <2>1, <2>2, LeaveAlone
<1>8. ASSUME UNCHANGED typingVars,
             \/ current_winsize \/ InstallHandler \/ EnterRawMode
             \/ SelectInterrupted \/ SwapPending
             \/ DropRawMode \/ DefaultHandler
      PROVE  LeaveInv'
  <2>1. \/ ~Leaving /\ pc # "stdin" /\ pc' \notin {"leave", "default", "done"} /\ status' = status
        \/ pc' \in {"leave", "default", "done"} /\ status' = status /\ Leaving
    BY <1>8 DEF current_winsize, InstallHandler, EnterRawMode, SelectInterrupted, SwapPending,
                DropRawMode, DefaultHandler, GoTo, Leaving
  <2>. QED
    BY <1>8, <2>1, LeaveAlone
<1>9. ASSUME NEW ready \in SUBSET {"sock", "stdin"}, Select(ready)
      PROVE  LeaveInv'
  <2>1. /\ ~Leaving /\ pc # "stdin" /\ pc' \notin {"leave", "default", "done"}
        /\ status' = status /\ UNCHANGED typingVars
    BY <1>9 DEF Select, SelectReady, GoTo, Leaving
  <2>. QED
    BY <2>1, LeaveAlone
<1>10. ASSUME UNCHANGED typingVars, Resize \/ Over \/ UNCHANGED vars
       PROVE  LeaveInv'
  <2>1. pc' = pc /\ status' = status
    BY <1>10 DEF Resize, Over, vars
  <2>. QED
    BY <1>10, <2>1, LeaveAlone
<1>11. ASSUME UNCHANGED typingVars, Killed
       PROVE  LeaveInv'
  <2>1. pc' = "done" /\ status' = "killed"
    BY <1>11 DEF Killed
  <2>. QED
    BY <1>11, <2>1, LeaveAlone
<1>12. ASSUME UNCHANGED typingVars, SelectFails
       PROVE  LeaveInv'
  <2>1. pc' = "leave" /\ status' = "error"
    BY <1>12 DEF SelectFails, LeaveWith
  <2>. QED
    BY <1>12, <2>1, LeaveAlone
<1>. QED
  BY <1>1, <1>2, <1>3, <1>4, <1>5, <1>6, <1>7, <1>8, <1>9, <1>10, <1>11, <1>12
  DEF TypingNext, ClientSteps, ServerSteps

-------------------------------------------------------------------------------
LEMMA TypingInvInit == TypingInit => TypingInv
<1>. SUFFICES ASSUME TypingInit PROVE TypingInv
  OBVIOUS
<1>0. /\ typed = <<>> /\ alone = {} /\ tty = <<>> /\ eof = FALSE /\ held = <<>> /\ outbox = <<>>
      /\ wire = <<>> /\ buf = <<>> /\ sent = <<>> /\ got = <<>> /\ readonly \in BOOLEAN
      /\ pc = "attach" /\ status = "none"
  BY DEF TypingInit, Init
<1>1. TermInv
  BY TermInit DEF TypingInit
<1>2. Len(<<>>) = 0 /\ <<>> \in Seq(Int) /\ <<>> \in Seq(Pkt) /\ <<>> \o <<>> = <<>>
  OBVIOUS
<1>3. KeysIn(sent) = <<>> /\ CellsOf(<<>>) = <<>>
  BY <1>0, PktsNone
<1>4. WireInv
  <2>1. OutTyped /\ Fit(sent)
    BY <1>0, <1>2, TypingAssumption DEF OutTyped, Fit
  <2>2. OnTheWay(<<>>)
    BY <1>0, <1>2, <1>3 DEF OnTheWay, Joins
  <2>. QED
    BY <1>2, <2>1, <2>2 DEF WireInv
<1>5. ~Detaching
  BY <1>0, <1>2 DEF Detaching
<1>6. InputInv
  <2>1. Known = 0 /\ Taken = 0 /\ Len(typed) = 0
    BY <1>0, <1>2, <1>3 DEF Known, Taken
  <2>2. InTyped
    <3>1. 0 <= MaxKeys /\ 0 <= STDIN_BUF
      BY TypingAssumption
    <3>. QED
      BY <1>0, <1>2, <3>1 DEF InTyped
  <2>3. Numbered
    BY <1>0, <1>2 DEF Numbered
  <2>4. SubSeq(typed, 1, 0) = <<>> /\ 0 + 1 = 1 /\ 0 <= 0
    BY <1>0
  <2>5. SentCut
    BY <1>0, <1>3, <2>1, <2>4 DEF SentCut
  <2>6. WaitingCut
    BY <1>0, <2>1, <2>4 DEF WaitingCut
  <2>. QED
    BY <1>3, <2>2, <2>3, <2>5, <2>6 DEF InputInv
<1>7. LeaveInv
  BY <1>0, <1>5 DEF LeaveInv, EofAfterAll
<1>. QED
  BY <1>1, <1>4, <1>6, <1>7 DEF TypingInv

LEMMA TypingInvStep == TypingInv /\ [TypingNext]_<<vars, typingVars>> => TypingInv'
<1>. SUFFICES ASSUME TypingInv, [TypingNext]_<<vars, typingVars>> PROVE TypingInv'
  OBVIOUS
<1>1. TermInv'
  BY TermStep, TypingStep DEF TypingInv
<1>2. WireInv' /\ InputInv'
  BY EveryStep, WireStep, InputStep
<1>3. LeaveInv'
  BY LeaveStep
<1>. QED
  BY <1>1, <1>2, <1>3 DEF TypingInv

LEMMA TypingInvariance == TypingSpec => []TypingInv
BY TypingInvInit, TypingInvStep, PTL DEF TypingSpec

(* The buffers of client, kernel and server keep their types and their      *)
(* bounds, for any number of keys and any sizes.                            *)
THEOREM TypingTyped == TypingSpec => []TypingTypeOK
<1>1. TypingInv => TypingTypeOK
  BY DEF TypingInv, TermInv, WireInv, OutTyped, Fit, InputInv, InTyped, TypingTypeOK, Packets, Pkt
<1>. QED
  BY <1>1, TypingInvariance, PTL

(* read_client_packets and pop_packet give back the packets attach_session  *)
(* and client_loop have written, in order, however write_all and the socket *)
(* cut them, for packets and socket buffers of any size.                    *)
THEOREM PacketsDecoded == TypingSpec => []WireDecoded
<1>1. ASSUME TypingInv PROVE WireDecoded
  <2>1. PICK ps \in Seq(Pkt) : OnTheWay(ps)
    BY <1>1 DEF TypingInv, WireInv
  <2>2. got \in Seq(Pkt) /\ sent = got \o ps /\ sent \in Seq(Pkt)
    BY <1>1, <2>1 DEF TypingInv, WireInv, OutTyped, OnTheWay
  <2>. DEFINE n == Len(got)
  <2>3. /\ n \in Nat /\ Len(ps) \in Nat /\ Len(sent) = n + Len(ps)
        /\ \A i \in 1..n : sent[i] = got[i]
        /\ \A i \in 1..Len(ps) : sent[n + i] = ps[i]
    BY <2>2
  <2>. HIDE DEF n
  <2>4. First(sent, n) = got
    <3>. DEFINE u == SubSeq(sent, 1, n)
    <3>1. u \in Seq(Pkt) /\ Len(u) = n /\ \A i \in 1..n : u[i] = sent[i]
      BY <2>2, <2>3
    <3>2. First(sent, n) = u
      BY <2>3 DEF First, Smaller
    <3>. HIDE DEF u
    <3>3. \A i \in 1..n : u[i] = got[i]
      BY <2>3, <3>1
    <3>4. Len(got) = n
      BY DEF n
    <3>5. u = got
      BY <2>2, <3>1, <3>3, <3>4, SameSeq
    <3>. QED
      BY <3>2, <3>5
  <2>5. After(sent, n) = ps
    <3>. DEFINE u == SubSeq(sent, n + 1, Len(sent))
                l == Len(ps)
    <3>1. u \in Seq(Pkt) /\ Len(u) = l /\ \A i \in 1..l : u[i] = sent[n + i]
      BY <2>2, <2>3, SMTT(30)
    <3>2. After(sent, n) = u
      BY DEF After
    <3>. HIDE DEF u
    <3>3. \A i \in 1..l : u[i] = ps[i]
      BY <2>3, <3>1
    <3>4. u = ps
      BY <3>1, <3>3, SameSeq
    <3>. QED
      BY <3>2, <3>4
  <2>6. CellsOf(ps) = buf \o wire \o outbox
    BY <2>1 DEF OnTheWay, Joins
  <2>. QED
    BY <2>3, <2>4, <2>5, <2>6 DEF WireDecoded, n
<1>. QED
  BY <1>1, TypingInvariance, PTL

(* client_loop loses no key, repeats none and keeps their order, for any    *)
(* number of keys typed at any time, and with -r sends none.                *)
THEOREM KeysConserved == TypingSpec => []InputConserved
<1>1. ASSUME TypingInv PROVE InputConserved
  <2>1. CASE readonly
    BY <1>1, <2>1 DEF TypingInv, InputInv, InputConserved
  <2>2. CASE ~readonly
    <3>0. /\ typed \in Seq(Int) /\ Len(typed) \in Nat /\ Known \in Nat /\ Len(held) \in Nat
          /\ SentCut
      BY <1>1, <2>2, KnownType DEF TypingInv, WireInv, OutTyped, InputInv, InTyped
    <3>1. KeysIn(sent) = First(typed, Known)
      BY <3>0 DEF SentCut, First, Smaller
    <3>2. ASSUME ~Detaching PROVE KeysIn(sent) \o held \o tty = typed
      <4>1. WaitingCut
        BY <1>1, <2>2, <3>2 DEF TypingInv, InputInv
      <4>2. Taken \in Nat /\ Known <= Taken /\ Taken <= Len(typed) /\ Len(typed) <= Len(typed)
        BY <3>0, <4>1 DEF Taken, WaitingCut
      <4>3. CutsMeet(typed, Known, Taken) /\ CutsMeet(typed, Taken, Len(typed))
        BY <3>0, <4>2, SubSeqsMeet
      <4>4. KeysIn(sent) \o held = SubSeq(typed, 1, Taken)
        BY <3>0, <4>1, <4>3 DEF CutsMeet, SentCut, WaitingCut
      <4>5. SubSeq(typed, 1, Taken) \o tty = SubSeq(typed, 1, Len(typed))
        BY <4>1, <4>3 DEF CutsMeet, WaitingCut
      <4>. QED
        BY <3>0, <4>4, <4>5, SubSeqFull
    <3>. QED
      BY <2>2, <3>1, <3>2 DEF InputConserved, Known
  <2>. QED
    BY <2>1, <2>2
<1>. QED
  BY <1>1, TypingInvariance, PTL

(* client_loop returns at the end of stdin only when every key read from it *)
(* has been sent, whatever the sizes of the buffers.                        *)
THEOREM EofLast == TypingSpec => []EofAfterAll
<1>1. TypingInv => EofAfterAll
  BY DEF TypingInv, LeaveInv
<1>. QED
  BY <1>1, TypingInvariance, PTL

(* A detach key typed alone is never sent to the session, for any sizes of  *)
(* the buffer of io::stdin() and of a packet.                               *)
THEOREM DetachSeen == TypingSpec => []DetachAlone
<1>1. ASSUME TypingInv PROVE DetachAlone
  <2>. SUFFICES ASSUME NEW i \in 1..Len(KeysIn(sent)), IsDetach(KeysIn(sent)[i])
                PROVE  -KeysIn(sent)[i] \notin alone
    BY DEF DetachAlone
  <2>1. CASE readonly
    <3>1. KeysIn(sent) = <<>>
      BY <1>1, <2>1 DEF TypingInv, InputInv
    <3>. QED
      BY <3>1
  <2>2. CASE ~readonly
    <3>0. /\ typed \in Seq(Int) /\ Len(typed) \in Nat /\ Known \in Nat /\ SentCut /\ Numbered
      BY <1>1, <2>2, KnownType DEF TypingInv, WireInv, OutTyped, InputInv, InTyped
    <3>1. i \in 1..Known /\ Known <= Len(typed)
      BY <3>0 DEF Known, SentCut
    <3>2. KeysIn(sent)[i] = typed[i]
      <4>1. KeysIn(sent) = SubSeq(typed, 1, Known)
        BY <3>0 DEF SentCut
      <4>2. SubSeq(typed, 1, Known)[i] = typed[i]
        BY <3>0, <3>1
      <4>. QED
        BY <4>1, <4>2
    <3>3. typed[i] < 0
      BY <3>2 DEF IsDetach
    <3>4. -typed[i] = i
      BY <3>0, <3>1, <3>3 DEF Numbered
    <3>5. i \notin alone
      BY <3>0, <3>1, <3>3 DEF SentCut
    <3>. QED
      BY <3>2, <3>4, <3>5
  <2>. QED
    BY <2>1, <2>2
<1>. QED
  BY <1>1, TypingInvariance, PTL
===============================================================================
