------------------------------ MODULE LichSession ------------------------------
(***************************************************************************)
(* A session: the server, its child and its clients, composed, and what    *)
(* the session promises to the people on the other side of the sockets.    *)
(***************************************************************************)
EXTENDS LichServer, LichClient, SequencesExt

vars == <<kernelVars, serverVars, clientVars>>

Init == KernelInit /\ ServerInit /\ ClientInit

(* Everybody is done; only then may the session stop for good. *)
Terminated ==
    /\ pc = "exited"
    /\ child # "running"
    /\ \A c \in Conn : cpc[c] = "done"
    /\ UNCHANGED vars

Next ==
    \/ Server /\ UNCHANGED clientVars
    \/ Child /\ UNCHANGED <<serverVars, clientVars>>
    \/ \E c \in Conn : (ClientRuns(c) \/ ClientUser(c)) /\ UNCHANGED serverVars
    \/ (Shutdown \/ \E c \in Conn : Elapse(c)) /\ UNCHANGED clientVars
    \/ Terminated

Spec == Init /\ [][Next]_vars

(* The server is one thread that never blocks for good, and the clock of    *)
(* EXIT_DRAIN_DEADLINE does not stop.                                       *)
ServerFairness ==
    /\ WF_vars(Server /\ UNCHANGED clientVars)
    /\ \A c \in Conn : WF_vars(Elapse(c) /\ UNCHANGED clientVars)

(* Every client program is scheduled; its user does as they please. *)
ClientFairness ==
    \A c \in Conn : WF_vars(ClientRuns(c) /\ UNCHANGED serverVars)

ServerFairSpec == Spec /\ ServerFairness

FairSpec == Spec /\ ServerFairness /\ ClientFairness

-------------------------------------------------------------------------------
TypeOK == KernelTypeOK /\ ServerTypeOK /\ ClientTypeOK

(* All that is on its way to c, from the oldest cell c has not made into a  *)
(* packet to the newest one the server has queued.                          *)
OnTheWay(c) == rbuf[c] \o down[c] \o client[c].send_queue

(* A run of cells is made of whole packets: every header is followed by as  *)
(* many payload cells as it announces and then by a header or by nothing.   *)
Framed(s) ==
    /\ s # <<>> => s[1].typ \in MsgType
    /\ \A i \in 1..Len(s) :
         s[i].typ \in MsgType =>
           /\ i + s[i].val <= Len(s)
           /\ \A j \in (i + 1)..(i + s[i].val) : s[j].typ \notin MsgType
           /\ i + s[i].val < Len(s) => s[i + s[i].val + 1].typ \in MsgType

(* However the kernel cuts the server's writes, and whatever MSG_EXIT, dump *)
(* and broadcast packets meet in the queue of send_packet_nonblocking, what *)
(* a client is still to read is a sequence of whole packets.                *)
WireFramed ==
    \A c \in clients : cliSock[c] = "open" => Framed(OnTheWay(c))

(* The bytes of MSG_CONTENT among some cells. *)
ContentOf(s) ==
    FlattenSeq([i \in 1..Len(s) |-> IF s[i].typ = "byte" THEN <<s[i].val>> ELSE <<>>])

(* The output bytes numbered from k + 1 to n. *)
OutputFrom(k, n) == [i \in 1..(n - k) |-> k + i]

(* What an attached client has shown, what is on its way to it and what is  *)
(* left of a replay in progress are together the output up to the last byte *)
(* read from the pty, without a hole or a repetition where replay and live  *)
(* broadcast meet, and reach back at least as far as the history.           *)
StreamComplete ==
    \A c \in clients :
      client[c].attached /\ ~client[c].disconnected /\ cliSock[c] = "open" =>
        LET s == seen[c] \o ContentOf(OnTheWay(c))
                   \o (IF pc = "replay" /\ cur = c THEN snap ELSE <<>>)
        IN  /\ s = OutputFrom(consumed - Len(s), consumed)
            /\ Len(s) >= Len(history)

(* The history is exactly the newest HISTORY_CAP bytes read from the pty. *)
HistoryExact == history = Newest(consumed)

(* A dump that ends with success shows the history as it was at one moment, *)
(* whole and in order, whatever was broadcast meanwhile.                    *)
DumpExact ==
    \A c \in Conn :
      Kind[c] = "dump" /\ result[c] = "ok" =>
        \E n \in 0..consumed : seen[c] = Newest(n)

(* What it prints of that are the last bytes (-N) and lines (-L) it was      *)
(* asked for, from the start of a line, also when the last one is not       *)
(* finished yet; and the same cut is right for longer outputs.              *)
DumpTail ==
    \A c \in Conn :
      Kind[c] = "dump" /\ result[c] = "ok" =>
        /\ \A bytes, lines \in 0..(HISTORY_CAP + 1) :
             IsTail(Printed(seen[c], bytes, lines), LastBytes(seen[c], bytes), lines)
        /\ TailCorrect

(* SEND_QUEUE_CAP really bounds what the server holds for one client. *)
QueueBounded == \A c \in Conn : Len(client[c].send_queue) <= SEND_QUEUE_CAP

(* MSG_EXIT is among what c can still read. *)
ExitPending(c) == \E i \in 1..Len(Pending(c)) : Pending(c)[i].typ = "EXIT"

(* A client that has asked to attach is never cut off without MSG_EXIT, if  *)
(* the drain deadline does not pass and a queue can hold all that is ever    *)
(* sent to it: MSG_PID, the output a byte to a packet, and MSG_EXIT.         *)
(* Reading, it comes to MSG_EXIT before it finds the connection broken.      *)
(* Only a client that is just writing its size, a key or the detach key when *)
(* the server closes can end with an error (the ? of send_packet_blocking),  *)
(* and then MSG_EXIT is waiting for it unread.                               *)
ExitReported ==
    [][ "slow" \notin Faults /\ SEND_QUEUE_CAP >= 2 * MaxOutput + 4 =>
          \A c \in Conn :
            /\ cpc[c] \in {"resize", "loop", "recv", "stdin"}
            /\ result'[c] \in {"ioerror", "error"}
            => cpc[c] \in {"resize", "stdin"} /\ ExitPending(c) ]_clientVars

(* The code MSG_EXIT gives a client is the one a shell would report for the *)
(* way the child ended, unless the server was told to shut down.            *)
ExitTruthful ==
    \A c \in Conn :
      result[c] = "exited" =>
        \/ code[c] = 128 + SIGTERM /\ termed
        \/ \E d \in Deaths :
             /\ wstatus = WaitStatus(d)
             /\ code[c] = IF d.how = "exit" THEN d.n ELSE 128 + d.n

(* The exit code is decided once; every client is told the same. *)
ExitDecidedOnce ==
    [][child_exit # NoStatus => child_exit' = child_exit]_child_exit

(* The server is never gone while its child runs on unsignalled: the child  *)
(* was waited for, or its process group was sent SIGTERM.                   *)
NoOrphan == pc = "exited" => child = "reaped" \/ termed

(* The SIGTERM passed on goes to a process group whose leader is not waited *)
(* for yet: its number cannot have been given to somebody else.             *)
SignalOwnChild ==
    [][termed' # termed => child # "reaped"]_<<termed, child>>

(* The units of a client's input that reached the pty. *)
InputOf(c) ==
    FlattenSeq([i \in 1..Len(input) |->
                  IF input[i].conn = c THEN <<input[i].key>> ELSE <<>>])

(* Keys sent by a send-keys client that has gone long since reach the pty   *)
(* all the same, complete and in order, while the session lives and its     *)
(* terminal has room.                                                       *)
KeysDelivered ==
    \A c \in Conn :
      /\ Kind[c] = "keys"
      /\ result[c] = "ok"
      /\ srvSock[c] = "closed"
      /\ child_exit = NoStatus
      /\ "fcntl" \notin Faults
      /\ PTYIN >= KEYS * Cardinality(Conn)
      => InputOf(c) = OutputFrom(0, KEYS)

(* What the pty has of any client's input, one that was killed, reset or    *)
(* closed by the server included, is the beginning of what it typed or sent: *)
(* with room in the terminal nothing is lost from the middle or repeated.   *)
InputPrefix ==
    PTYIN >= KEYS * Cardinality(Conn) =>
      \A c \in Conn :
        /\ Len(InputOf(c)) <= sent[c]
        /\ InputOf(c) = OutputFrom(0, Len(InputOf(c)))

-------------------------------------------------------------------------------
(* No client, not even one that never reads, keeps the server from ending   *)
(* once it has an exit to report.                                           *)
ServerEnds == child_exit # NoStatus ~> pc = "exited"

(* SIGTERM and SIGINT end the server. *)
ShutdownHonoured == shutdown ~> pc = "exited"

(* A dump ends, with all of the history or with an error. *)
DumpEnds ==
    \A c \in {d \in Conn : Kind[d] = "dump"} :
      cpc[c] = "dumping" ~> cpc[c] = "done"

(* When the child has ended, every client program that was started ends too. *)
ClientsEnd ==
    child # "running" ~> \A c \in Conn : cpc[c] \in {"start", "done"}

-------------------------------------------------------------------------------
(* RUST_SPEC.md: "Server appends all pty output": when a session whose      *)
(* child ended by itself is over, no output is left unread.  Violated: the  *)
(* pty is read before waitpid, and there may be no next tick.               *)
OutputComplete == pc = "exited" /\ ~termed => consumed = produced
===============================================================================
