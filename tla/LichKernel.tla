------------------------------ MODULE LichKernel ------------------------------
(***************************************************************************)
(* What the session server and its clients share, and what the kernel      *)
(* keeps for them: one stream socket per connection, the pty, and the      *)
(* process that runs on it.  The code of src/src/main.rs reaches all of    *)
(* this only through system calls, so the state here is modelled from how  *)
(* that code uses it.                                                      *)
(*                                                                         *)
(* The data is abstract.  The i-th byte the child ever writes to its pty   *)
(* is the number i; the k-th key unit a client sends is the number k; a    *)
(* terminal's size is a number (0: the size at creation).  Conn is a set   *)
(* of positive numbers.  A packet on its way to a client is a run of       *)
(* cells, one for the 8-byte header and one for every payload unit, so     *)
(* that a write can stop in the middle of it.                              *)
(***************************************************************************)
EXTENDS Integers, Sequences, FiniteSets

CONSTANTS
    Conn,          \* the connections the session will ever get
    Kind,          \* which client program is behind each connection
    TermSize,      \* the size of each client's terminal, as a number
    SNDBUF,        \* cells the kernel holds for one connection
    PTYIN,         \* input units the pty holds before a write stops
    MAX_PAYLOAD,   \* payload units in one packet
    KEYS,          \* key units a typing or send-keys client sends
    MaxOutput,     \* bytes the child writes in its life
    Deaths,        \* the ways the child may end
    Faults         \* which of FaultKinds may happen

NoConn == 0
Kinds == {"attach", "readonly", "dump", "keys", "probe"}

(* A SIGTERM or SIGINT for the server, a failing fcntl, a killed client, a  *)
(* drain deadline that passes, and processes the child has left behind with *)
(* the terminal open.                                                       *)
FaultKinds == {"sigterm", "fcntl", "kill", "slow", "background"}

ASSUME ConnAssumption ==
    /\ NoConn \notin Conn
    /\ Kind \in [Conn -> Kinds]
    /\ TermSize \in [Conn -> Nat]
ASSUME FiniteAssumption == IsFiniteSet(Conn)
ASSUME BoundAssumption ==
    /\ SNDBUF \in Nat /\ SNDBUF >= 2      \* MSG_PID always fits a fresh socket
    /\ PTYIN \in Nat
    /\ MAX_PAYLOAD \in Nat \ {0}
    /\ KEYS \in Nat
    /\ MaxOutput \in Nat
ASSUME DeathAssumption ==
    \A d \in Deaths : \/ d.how = "exit" /\ d.n \in 0..255
                      \/ d.how = "signal" /\ d.n \in 1..126
ASSUME FaultAssumption == Faults \subseteq FaultKinds

VARIABLES
    listening,     \* the listening socket exists
    mode,          \* permissions of the socket file
    cliSock,       \* per connection: the client's end
    srvSock,       \* per connection: the server's end
    up,            \* per connection: packets sent and not yet read by the server
    down,          \* per connection: cells sent and not yet read by the client
    child,         \* the process on the pty
    wstatus,       \* its wait status, once it has ended
    produced,      \* bytes it has written
    consumed,      \* bytes of those the server has read
    inq,           \* input units it has not read yet
    input,         \* every input unit the pty ever took, in order
    winsize,       \* size of the pty
    termed         \* its process group was sent SIGTERM

sockVars == <<listening, mode, cliSock, srvSock, up, down>>
ptyVars == <<child, wstatus, produced, consumed, inq, input, winsize, termed>>
kernelVars == <<sockVars, ptyVars>>

MsgType == {"CONTENT", "ATTACH", "DETACH", "RESIZE", "EXIT", "PID",
            "DUMP", "DUMP_END", "SEND_KEYS"}
Packet == [typ : MsgType, payload : Seq(Nat)]
Cell == [typ : MsgType \cup {"byte", "word"}, val : Nat]

MinOf(a, b) == IF a <= b THEN a ELSE b

(* The first n and all but the first n elements of s, for n \in 0..Len(s). *)
Take(s, n) == SubSeq(s, 1, n)
Drop(s, n) == SubSeq(s, n + 1, Len(s))

(* A packet on the wire: header, then payload. *)
packet_bytes(pkt) ==
    <<[typ |-> pkt.typ, val |-> Len(pkt.payload)]>>
      \o [i \in 1..Len(pkt.payload) |->
            [typ |-> IF pkt.typ = "CONTENT" THEN "byte" ELSE "word",
             val |-> pkt.payload[i]]]

(* The inverse: the packet a complete run of cells stands for. *)
CellsPacket(s) ==
    [typ |-> Head(s).typ, payload |-> [i \in 1..(Len(s) - 1) |-> s[i + 1].val]]

(* The integer in a payload; 0 when it is too short to hold one. *)
read_u32(payload) == IF payload = <<>> THEN 0 ELSE Head(payload)

KernelInit ==
    /\ listening = TRUE
    /\ mode = "0600"
    /\ cliSock = [c \in Conn |-> "none"]
    /\ srvSock = [c \in Conn |-> "none"]
    /\ up = [c \in Conn |-> <<>>]
    /\ down = [c \in Conn |-> <<>>]
    /\ child = "running"
    /\ wstatus = 0
    /\ produced = 0
    /\ consumed = 0
    /\ inq = 0
    /\ input = <<>>
    /\ winsize = 0
    /\ termed = FALSE

KernelTypeOK ==
    /\ listening \in BOOLEAN
    /\ mode \in {"0600", "0610"}
    /\ cliSock \in [Conn -> {"none", "open", "closed", "reset"}]
    /\ srvSock \in [Conn -> {"none", "backlog", "open", "closed"}]
    /\ up \in [Conn -> Seq(Packet)]
    /\ down \in [Conn -> Seq(Cell)]
    /\ child \in {"running", "zombie", "reaped"}
    /\ wstatus \in Nat
    /\ produced \in Nat
    /\ consumed \in Nat
    /\ inq \in Nat
    /\ input \in Seq([conn : Conn, key : Nat])
    /\ winsize \in Nat
    /\ termed \in BOOLEAN

-------------------------------------------------------------------------------
(* The session's process.  It writes and reads its terminal and ends as it *)
(* likes; nothing in lich makes it do any of this.                         *)

(* The integer waitpid(2) stores for a death. *)
WaitStatus(d) == IF d.how = "exit" THEN 256 * d.n ELSE d.n

ChildWrite ==
    /\ child = "running"
    /\ produced < MaxOutput
    /\ produced' = produced + 1
    /\ UNCHANGED <<sockVars, child, wstatus, consumed, inq, input, winsize, termed>>

ChildRead ==
    /\ child = "running"
    /\ inq > 0
    /\ inq' = inq - 1
    /\ UNCHANGED <<sockVars, child, wstatus, produced, consumed, input, winsize, termed>>

ChildExit(d) ==
    /\ child = "running"
    /\ child' = "zombie"
    /\ wstatus' = WaitStatus(d)
    /\ UNCHANGED <<sockVars, produced, consumed, inq, input, winsize, termed>>

Child == ChildWrite \/ ChildRead \/ \E d \in Deaths : ChildExit(d)
===============================================================================
