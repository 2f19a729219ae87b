------------------------------- MODULE LichTyping -------------------------------
(***************************************************************************)
(* What an attached client sends: the keys typed at its terminal, or piped *)
(* into it, on their way through the kernel, the buffer of io::stdin(),    *)
(* client_loop, the socket and pop_packet.  The control is LichTerminal's: *)
(* every step here is one of its steps, or moves data and leaves it alone. *)
(*                                                                         *)
(* The i-th key typed is the number i, or -i when it is the detach key.  A *)
(* header is two cells, its type and its length, and a payload unit is one *)
(* cell, all of them numbers, so that a reader that loses its place takes  *)
(* one for another.                                                        *)
(***************************************************************************)
EXTENDS LichTerminal, Integers, Sequences, SequencesExt

CONSTANTS
    MaxKeys,       \* keys typed
    MAX_PAYLOAD,   \* payload units in one packet, and in one read of stdin
    STDIN_BUF,     \* keys io::stdin() takes from the kernel at once
    SNDBUF,        \* cells the kernel holds for the connection
    Settled        \* packets sent after which nobody wants another size

ASSUME TypingAssumption ==
    /\ MaxKeys \in Nat
    /\ MAX_PAYLOAD \in Nat \ {0}
    /\ STDIN_BUF \in Nat /\ STDIN_BUF >= MAX_PAYLOAD
    /\ SNDBUF \in Nat \ {0}
    /\ Settled \in Nat

VARIABLES
    readonly,      \* -r
    typed,         \* every key typed, in order
    alone,         \* the numbers of those typed when no other waited in the kernel
    tty,           \* keys the kernel holds
    eof,           \* stdin is at its end
    held,          \* keys in the buffer of io::stdin()
    outbox,        \* cells write_all has still to write
    wire,          \* cells in the socket
    buf,           \* Client.buf of the server
    sent,          \* packets handed to write_all
    got            \* packets pop_packet returned

inVars == <<typed, alone, tty, eof, held>>
outVars == <<outbox, wire, buf, sent, got>>
typingVars == <<readonly, inVars, outVars>>

MSG_CONTENT == 0
MSG_ATTACH == 1
MSG_DETACH == 2
MSG_RESIZE == 3
MSG_EXIT == 4

TypingInit ==
    /\ Init
    /\ readonly \in BOOLEAN
    /\ typed = <<>>
    /\ alone = {}
    /\ tty = <<>>
    /\ eof = FALSE
    /\ held = <<>>
    /\ outbox = <<>>
    /\ wire = <<>>
    /\ buf = <<>>
    /\ sent = <<>>
    /\ got = <<>>

Smaller(a, b) == IF a <= b THEN a ELSE b
First(s, n) == SubSeq(s, 1, Smaller(n, Len(s)))
After(s, n) == SubSeq(s, n + 1, Len(s))

-------------------------------------------------------------------------------
(* The packets. *)
packet_bytes(pkt) == <<pkt.typ, Len(pkt.payload)>> \o pkt.payload

(* Draining the payload's length only. *)
PopPacketShort(b) ==
    CASE Len(b) >= 2 /\ b[2] > MAX_PAYLOAD ->
           [pkts |-> <<>>, rest |-> <<>>]
      [] Len(b) >= 2 /\ b[2] <= MAX_PAYLOAD /\ Len(b) >= 2 + b[2] ->
           [pkts |-> <<[typ |-> b[1], payload |-> SubSeq(b, 3, 2 + b[2])]>>,
            rest |-> After(b, b[2])]
      [] OTHER -> [pkts |-> <<>>, rest |-> b]

(* The packet at the front of a buffer, if it is all there, and what is     *)
(* left: nothing at all when the header announces too much.                 *)
pop_packet(b) ==
    CASE Len(b) >= 2 /\ b[2] > MAX_PAYLOAD ->
           [pkts |-> <<>>, rest |-> <<>>]
      [] Len(b) >= 2 /\ b[2] <= MAX_PAYLOAD /\ Len(b) >= 2 + b[2] ->
           [pkts |-> <<[typ |-> b[1], payload |-> SubSeq(b, 3, 2 + b[2])]>>,
            rest |-> After(b, 2 + b[2])]
      [] OTHER -> [pkts |-> <<>>, rest |-> b]

(* write(2) takes some of the cells, if there is room for any. *)
Write(cells) ==
    \E n \in 1..Len(cells) :
      /\ Len(wire) + n <= SNDBUF
      /\ wire' = wire \o First(cells, n)
      /\ outbox' = After(cells, n)

(* send_packet_blocking, one write at a time; after the last one the client *)
(* goes on with Done.                                                       *)
SendPacket(pkt, Done) ==
    /\ IF outbox = <<>>
         THEN Write(packet_bytes(pkt)) /\ sent' = Append(sent, pkt)
         ELSE Write(outbox) /\ UNCHANGED sent
    /\ IF outbox' = <<>> THEN Done ELSE UNCHANGED vars
    /\ UNCHANGED <<readonly, inVars, buf, got>>

-------------------------------------------------------------------------------
(* attach_session and send_resize. *)
SendAttach ==
    /\ pc = "attach"
    /\ SendPacket([typ |-> MSG_ATTACH, payload |-> <<IF readonly THEN 1 ELSE 0>>],
                  Attach /\ status' = "none")

send_resize ==
    /\ pc = "send"
    /\ SendPacket([typ |-> MSG_RESIZE, payload |-> <<ws>>],
                  SendResize /\ status' = "none")

(* The server is gone, or was never there: an error, propagated with ?. *)
SendFails ==
    /\ Attach \/ SendResize \/ Stdin
    /\ status' = "error"
    /\ UNCHANGED typingVars

(* client_loop: select reports stdin when the kernel has something for it,  *)
(* and does not know what io::stdin() holds.                                *)
Select(ready) ==
    /\ SelectReady(ready)
    /\ "stdin" \in ready <=> tty # <<>> \/ eof
    /\ UNCHANGED typingVars

(* MSG_EXIT is sent back, if it can be, before client_loop returns.         *)
RecvExit ==
    /\ pc = "recv"
    /\ SendPacket([typ |-> MSG_EXIT, payload |-> <<0>>], Recv /\ status' = "exited")

(* Any other packet: MSG_RESIZE has the size sent between the keys.         *)
RecvOther ==
    /\ Recv
    /\ outbox # <<>> => status' = "exited"
    /\ pc' = "winsize" => Len(sent) < Settled
    /\ UNCHANGED typingVars

(* Topping up the buffer whenever there is room in it. *)
FilledUp == [held |-> First(held \o tty, STDIN_BUF),
             tty  |-> After(held \o tty, Smaller(STDIN_BUF, Len(held \o tty)))]

(* io::stdin() asks the kernel only when it holds nothing. *)
Filled ==
    IF held # <<>> THEN [held |-> held, tty |-> tty]
    ELSE [held |-> First(tty, STDIN_BUF),
          tty  |-> After(tty, Smaller(STDIN_BUF, Len(tty)))]

(* Taking all there is, whatever a packet holds. *)
ChunkUnbounded == Filled.held

(* buf of client_loop, which is as long as a packet may be. *)
chunk == First(Filled.held, MAX_PAYLOAD)
IsDetach(key) == key < 0

(* What client_loop makes of a read: only its first byte is compared with   *)
(* the detach key.                                                          *)
PacketFor ==
    IF IsDetach(chunk[1]) THEN [typ |-> MSG_DETACH, payload |-> <<>>]
                          ELSE [typ |-> MSG_CONTENT, payload |-> chunk]

(* A buffer that does not outlive the read it was filled for. *)
ReadStdinForgetful ==
    /\ pc = "stdin"
    /\ outbox = <<>>
    /\ Filled.held # <<>>
    /\ held' = <<>>
    /\ tty' = Filled.tty
    /\ IF readonly /\ PacketFor.typ = MSG_CONTENT
         THEN /\ Stdin /\ pc' = "select"
              /\ UNCHANGED <<outbox, sent>>
         ELSE /\ outbox' = packet_bytes(PacketFor)
              /\ sent' = Append(sent, PacketFor)
              /\ UNCHANGED vars
    /\ UNCHANGED <<readonly, typed, alone, eof, wire, buf, got>>

(* A read of stdin: a read-only client drops what is not the detach key. *)
ReadStdin ==
    /\ pc = "stdin"
    /\ outbox = <<>>
    /\ Filled.held # <<>>
    /\ held' = After(Filled.held, Len(chunk))
    /\ tty' = Filled.tty
    /\ IF readonly /\ PacketFor.typ = MSG_CONTENT
         THEN /\ Stdin /\ pc' = "select"
              /\ UNCHANGED <<outbox, sent>>
         ELSE /\ outbox' = packet_bytes(PacketFor)
              /\ sent' = Append(sent, PacketFor)
              /\ UNCHANGED vars
    /\ UNCHANGED <<readonly, typed, alone, eof, wire, buf, got>>

SendKeys ==
    /\ pc = "stdin"
    /\ outbox # <<>>
    /\ SendPacket(sent[Len(sent)],
                  Stdin /\ IF sent[Len(sent)].typ = MSG_DETACH
                             THEN status' = "detached" ELSE pc' = "select")

(* Taking the end of the kernel's input for the end of stdin. *)
ReadEofEarly ==
    /\ pc = "stdin"
    /\ outbox = <<>>
    /\ tty = <<>>
    /\ eof
    /\ Stdin /\ status' = "detached"
    /\ UNCHANGED typingVars

(* A read of nothing: the end of file. *)
ReadEof ==
    /\ pc = "stdin"
    /\ outbox = <<>>
    /\ Filled.held = <<>>
    /\ eof
    /\ Stdin /\ status' = "detached"
    /\ UNCHANGED typingVars

-------------------------------------------------------------------------------
(* The user, and the server's end.  What is typed once client_loop has      *)
(* returned is for the shell.  One detach key is enough.                    *)
Leaving == pc \in {"leave", "default", "done"}

Type(key) ==
    /\ ~Leaving
    /\ ~eof
    /\ Len(typed) < MaxKeys
    /\ IsDetach(key) => \A i \in 1..Len(typed) : ~IsDetach(typed[i])
    /\ typed' = Append(typed, key)
    /\ tty' = Append(tty, key)
    /\ alone' = IF tty = <<>> THEN alone \cup {Len(typed) + 1} ELSE alone
    /\ UNCHANGED <<vars, readonly, eof, held, outVars>>

CloseStdin ==
    /\ ~Leaving
    /\ ~eof
    /\ eof' = TRUE
    /\ UNCHANGED <<vars, readonly, typed, alone, tty, held, outVars>>

(* read_client_packets reads whatever is there ... *)
ServerRead ==
    /\ wire # <<>>
    /\ pop_packet(buf) = [pkts |-> <<>>, rest |-> buf]
    /\ buf' = buf \o wire
    /\ wire' = <<>>
    /\ UNCHANGED <<vars, readonly, inVars, outbox, sent, got>>

(* ... and pops packets until there is no whole one. *)
ServerPop ==
    /\ pop_packet(buf) # [pkts |-> <<>>, rest |-> buf]
    /\ buf' = pop_packet(buf).rest
    /\ got' = got \o pop_packet(buf).pkts
    /\ UNCHANGED <<vars, readonly, inVars, outbox, wire, sent>>

ClientSteps ==
    \/ SendAttach \/ send_resize \/ SendFails
    \/ RecvExit \/ RecvOther
    \/ ReadStdin \/ SendKeys \/ ReadEof
    \/ /\ \/ current_winsize \/ InstallHandler \/ EnterRawMode
          \/ SelectInterrupted \/ SwapPending
          \/ DropRawMode \/ DefaultHandler
       /\ UNCHANGED typingVars

ServerSteps == ServerRead \/ ServerPop

TypingNext ==
    \/ ClientSteps
    \/ ServerSteps
    \/ \E ready \in SUBSET {"sock", "stdin"} : Select(ready)
    \/ Type(Len(typed) + 1) \/ Type(-(Len(typed) + 1)) \/ CloseStdin
    \/ Resize /\ Len(sent) < Settled /\ UNCHANGED typingVars
    \/ (SelectFails \/ Killed \/ Over) /\ UNCHANGED typingVars

TypingSpec == TypingInit /\ [][TypingNext]_<<vars, typingVars>>

(* Client and server are scheduled, and select returns when stdin is        *)
(* readable.                                                                *)
TypingFairness ==
    /\ WF_<<vars, typingVars>>(ClientSteps)
    /\ WF_<<vars, typingVars>>(ServerSteps)
    /\ WF_<<vars, typingVars>>(\E ready \in SUBSET {"sock", "stdin"} :
                                 Select(ready) /\ "stdin" \in ready)

TypingFairSpec == TypingSpec /\ TypingFairness

-------------------------------------------------------------------------------
Packets == Seq([typ : 0..4, payload : Seq(Int)])

(* The types, the sizes of the buffers, and a payload for every packet that *)
(* the server will accept: pop_packet throws everything away at a longer one. *)
TypingTypeOK ==
    /\ TypeOK
    /\ readonly \in BOOLEAN
    /\ typed \in Seq(Int) /\ Len(typed) <= MaxKeys
    /\ alone \subseteq 1..Len(typed)
    /\ tty \in Seq(Int)
    /\ eof \in BOOLEAN
    /\ held \in Seq(Int) /\ Len(held) <= STDIN_BUF
    /\ outbox \in Seq(Int)
    /\ wire \in Seq(Int) /\ Len(wire) <= SNDBUF
    /\ buf \in Seq(Int)
    /\ sent \in Packets
    /\ \A i \in 1..Len(sent) : Len(sent[i].payload) <= MAX_PAYLOAD
    /\ got \in Packets

(* All keys in some packets, and all cells of them. *)
KeysIn(pkts) ==
    FlattenSeq([i \in 1..Len(pkts) |->
                  IF pkts[i].typ = MSG_CONTENT THEN pkts[i].payload ELSE <<>>])

CellsOf(pkts) == FlattenSeq([i \in 1..Len(pkts) |-> packet_bytes(pkts[i])])

Detaching == \E i \in 1..Len(sent) : sent[i].typ = MSG_DETACH

(* No key is lost, repeated or moved between terminal and write_all: what a *)
(* client has sent, what io::stdin() holds and what the kernel holds are    *)
(* what was typed, but for a read that began with the detach key; and a     *)
(* read-only client sends none of it.                                       *)
InputConserved ==
    IF readonly THEN KeysIn(sent) = <<>>
    ELSE LET known == KeysIn(sent)
         IN  /\ known = First(typed, Len(known))
             /\ ~Detaching => known \o held \o tty = typed

(* However the socket cuts what the client writes, also in the middle of a  *)
(* header, and wherever the client dies, the packets pop_packet returns are *)
(* the first ones sent and what is left is the rest, in order.              *)
WireDecoded ==
    /\ Len(got) <= Len(sent)
    /\ got = First(sent, Len(got))
    /\ buf \o wire \o outbox = CellsOf(After(sent, Len(got)))

(* A client that leaves at the end of its input, like a shell's pipe into   *)
(* lich, has sent all of it first.                                          *)
EofAfterAll ==
    status = "detached" /\ ~Detaching /\ ~readonly =>
      KeysIn(sent) = typed /\ outbox = <<>>

(* The detach key detaches when it is typed with no other key waiting: it   *)
(* is never sent to the session as input, whatever io::stdin() holds then   *)
(* and whatever is typed before it is read.                                 *)
DetachAlone ==
    LET keys == KeysIn(sent)
    IN  \A i \in 1..Len(keys) : IsDetach(keys[i]) => -keys[i] \notin alone

(* Keys do not wait in the kernel for ever while the session's output keeps *)
(* coming.                                                                  *)
TypingServed ==
    tty # <<>> ~> tty = <<>> \/ Leaving
===============================================================================
