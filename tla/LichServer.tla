------------------------------ MODULE LichServer ------------------------------
(***************************************************************************)
(* The session server: server_loop of src/src/main.rs and everything it    *)
(* calls.  One trip round the loop is                                      *)
(*                                                                         *)
(*   poll -> accept -> pty -> wait -> read [-> handle [-> replay]] ->      *)
(*   flush -> poll (or exited)                                             *)
(*                                                                         *)
(* and the server's pc says where in it the server is.  A step is what the *)
(* server does between two points where the clients, the child or a signal *)
(* can matter to it.  The loops over all clients after the packets are read *)
(* touch one client at a time and nothing shared, so each is one step; the *)
(* loop of read_client_packets writes the pty and is one step per packet,  *)
(* and send_history one step per chunk, because the client may drain its   *)
(* socket between two chunks.                                              *)
(***************************************************************************)
EXTENDS LichKernel, LichHistory

CONSTANT SEND_QUEUE_CAP
ASSUME QueueCapAssumption == SEND_QUEUE_CAP \in Nat

VARIABLES
    pc,
    clients,       \* the connections in the vector of clients
    client,        \* their Client structs
    history,       \* the History's bytes
    read_pty,
    child_exit,    \* exit code to report; NoStatus while there is none
    shutdown,      \* SHUTDOWN_REQUESTED
    todo,          \* clients still to be read in this tick
    cur,           \* the client read_client_packets is working on
    saw_eof,
    snap,          \* what send_history has still to send
    send_end       \* its argument

serverVars == <<pc, clients, client, history, read_pty, child_exit, shutdown,
                todo, cur, saw_eof, snap, send_end>>

NoStatus == -1
SIGTERM == 15
CLIENT_READONLY == 1

(* "set" and "late" are an Instant less, and at least, EXIT_DRAIN_DEADLINE  *)
(* ago.                                                                     *)
Deadline == {"unset", "set", "late"}

Client == [buf : Seq(Packet), attached : BOOLEAN, flags : Nat,
           disconnected : BOOLEAN, send_queue : Seq(Cell),
           close_after_drain : Deadline]

NewClient == [buf |-> <<>>, attached |-> FALSE, flags |-> 0,
              disconnected |-> FALSE, send_queue |-> <<>>,
              close_after_drain |-> "unset"]

ServerInit ==
    /\ pc = "poll"
    /\ clients = {}
    /\ client = [c \in Conn |-> NewClient]
    /\ history = <<>>
    /\ read_pty = TRUE
    /\ child_exit = NoStatus
    /\ shutdown = FALSE
    /\ todo = {}
    /\ cur = NoConn
    /\ saw_eof = FALSE
    /\ snap = <<>>
    /\ send_end = FALSE

PCs == {"poll", "accept", "pty", "wait", "read", "handle", "replay",
        "flush", "exited"}

ServerTypeOK ==
    /\ pc \in PCs
    /\ clients \subseteq Conn
    /\ client \in [Conn -> Client]
    /\ history \in Seq(Nat)
    /\ read_pty \in BOOLEAN
    /\ child_exit \in Nat \cup {NoStatus}
    /\ shutdown \in BOOLEAN
    /\ todo \subseteq Conn
    /\ cur \in Conn \cup {NoConn}
    /\ pc \in {"handle", "replay"} => cur \in Conn
    /\ saw_eof \in BOOLEAN
    /\ snap \in Seq(Nat)
    /\ send_end \in BOOLEAN

-------------------------------------------------------------------------------
(* Sending to a client.  Each operator gives the queue and the wire after   *)
(* the call and whether it returned Ok.                                     *)

(* Writes as much of queue q as the kernel takes; what is left waits for    *)
(* the next tick.  Only a peer that is gone makes a write fail.             *)
try_flush_client(c, q) ==
    LET open == cliSock[c] = "open"
        n    == IF open THEN MinOf(Len(q), SNDBUF - Len(down[c])) ELSE 0
    IN  [queue |-> Drop(q, n),
         wire  |-> down[c] \o Take(q, n),
         ok    |-> open \/ q = <<>>]

(* The overflow test as it would be if it forgot the packet's own length. *)
OverflowIgnoringPacket(q, pkt) == Len(q) > SEND_QUEUE_CAP

Overflow(q, pkt) == Len(q) + Len(packet_bytes(pkt)) > SEND_QUEUE_CAP

(* What the function's comment calls the previous implementation: write    *)
(* directly, and give up on WouldBlock with half a packet on the wire.     *)
SendWithoutQueue(c, pkt) ==
    LET sent == try_flush_client(c, packet_bytes(pkt))
    IN  [queue |-> <<>>, wire |-> sent.wire, ok |-> sent.ok]

send_packet_nonblocking(c, pkt) ==
    LET q == client[c].send_queue
    IN  IF Overflow(q, pkt)
          THEN [queue |-> q, wire |-> down[c], ok |-> FALSE]
          ELSE try_flush_client(c, q \o packet_bytes(pkt))

(* The same packet to every client in S.  The struct of c becomes Sent(c,   *)
(* the result of the call), which says what the caller does about an Err.   *)
SendAll(S, pkt, Sent(_, _)) ==
    /\ client' = [c \in Conn |->
                    IF c \in S THEN Sent(c, send_packet_nonblocking(c, pkt))
                               ELSE client[c]]
    /\ down' = [c \in Conn |->
                    IF c \in S THEN send_packet_nonblocking(c, pkt).wire
                               ELSE down[c]]

(* An Err disconnects the client ... *)
SentOrDisconnect(c, r) ==
    [client[c] EXCEPT !.send_queue = r.queue, !.disconnected = @ \/ ~r.ok]

(* ... or is ignored, and in either case the client is to be closed once    *)
(* its queue has drained.                                                   *)
SentThenClose(c, r) ==
    [client[c] EXCEPT !.send_queue = r.queue,
                      !.close_after_drain = IF @ = "unset" THEN "set" ELSE @]

content(bytes) == [typ |-> "CONTENT", payload |-> bytes]

-------------------------------------------------------------------------------
(* Ending with status 143 and leaving the child alone. *)
PollShutdownWithoutKill ==
    /\ pc = "poll"
    /\ IF shutdown /\ child_exit = NoStatus
         THEN /\ child_exit' = 128 + SIGTERM
              /\ mode' = "0610"
         ELSE UNCHANGED <<child_exit, mode>>
    /\ shutdown' = FALSE
    /\ pc' = "accept"
    /\ UNCHANGED <<termed, listening, cliSock, srvSock, up, down, child, wstatus,
                   produced, consumed, inq, input, winsize, clients, client,
                   history, read_pty, todo, cur, saw_eof, snap, send_end>>

(* Forwarding the signal whether or not the child has been waited for. *)
PollShutdownAlwaysKills ==
    /\ pc = "poll"
    /\ IF shutdown
         THEN /\ termed' = TRUE
              /\ child_exit' = IF child_exit = NoStatus THEN 128 + SIGTERM ELSE child_exit
              /\ mode' = "0610"
         ELSE UNCHANGED <<termed, child_exit, mode>>
    /\ shutdown' = FALSE
    /\ pc' = "accept"
    /\ UNCHANGED <<listening, cliSock, srvSock, up, down, child, wstatus,
                   produced, consumed, inq, input, winsize, clients, client,
                   history, read_pty, todo, cur, saw_eof, snap, send_end>>

(* The top of the loop: a pending SIGTERM or SIGINT becomes an exit with    *)
(* status 143, and the child's process group is sent SIGTERM.               *)
PollShutdown ==
    /\ pc = "poll"
    /\ IF shutdown /\ child_exit = NoStatus
         THEN /\ termed' = TRUE
              /\ child_exit' = 128 + SIGTERM
              /\ mode' = "0610"
         ELSE UNCHANGED <<termed, child_exit, mode>>
    /\ shutdown' = FALSE
    /\ pc' = "accept"
    /\ UNCHANGED <<listening, cliSock, srvSock, up, down, child, wstatus,
                   produced, consumed, inq, input, winsize, clients, client,
                   history, read_pty, todo, cur, saw_eof, snap, send_end>>

(* MSG_PID, sent with the socket still blocking; the result is ignored. *)
SendPid(c) ==
    down' = IF cliSock[c] = "open"
              THEN [down EXCEPT ![c] = @ \o packet_bytes([typ |-> "PID", payload |-> <<1>>])]
              ELSE down

Accept(c) ==
    /\ pc = "accept"
    /\ srvSock[c] = "backlog"
    /\ SendPid(c)
    /\ srvSock' = [srvSock EXCEPT ![c] = "open"]
    /\ clients' = clients \cup {c}
    /\ client' = [client EXCEPT ![c] = NewClient]
    /\ read_pty' = TRUE
    /\ UNCHANGED <<listening, mode, cliSock, up, ptyVars, pc, history,
                   child_exit, shutdown, todo, cur, saw_eof, snap, send_end>>

(* The error of set_nonblocking handed up to run_server with ?, which ends  *)
(* the server and closes all its sockets.                                   *)
AcceptDroppedEndsServer(c) ==
    /\ "fcntl" \in Faults
    /\ pc = "accept"
    /\ srvSock[c] = "backlog"
    /\ SendPid(c)
    /\ srvSock' = [d \in Conn |-> IF srvSock[d] = "none" THEN "none" ELSE "closed"]
    /\ clients' = {}
    /\ client' = [d \in Conn |-> NewClient]
    /\ listening' = FALSE
    /\ pc' = "exited"
    /\ UNCHANGED <<mode, cliSock, up, ptyVars, history, read_pty, child_exit,
                   shutdown, todo, cur, saw_eof, snap, send_end>>

(* set_nonblocking failed: the stream is dropped and the server goes on. *)
AcceptDropped(c) ==
    /\ "fcntl" \in Faults
    /\ pc = "accept"
    /\ srvSock[c] = "backlog"
    /\ SendPid(c)
    /\ srvSock' = [srvSock EXCEPT ![c] = "closed"]
    /\ UNCHANGED <<listening, mode, cliSock, up, ptyVars, serverVars>>

AcceptDone ==
    /\ pc = "accept"
    /\ \A c \in Conn : srvSock[c] # "backlog"
    /\ pc' = "pty"
    /\ UNCHANGED <<kernelVars, clients, client, history, read_pty, child_exit,
                   shutdown, todo, cur, saw_eof, snap, send_end>>

-------------------------------------------------------------------------------
(* The pty: output is read, kept, and sent to every attached client, until  *)
(* a read would block or fails.  When the last process has closed the       *)
(* terminal a read past the output fails, and the pty is not read again     *)
(* before the next accept.  Background processes may keep the terminal open *)
(* after the child has ended.                                               *)

(* Sending to every client, whether it has attached or not. *)
BroadcastToAll(bytes) == SendAll(clients, content(bytes), SentOrDisconnect)

broadcast_content(bytes) ==
    SendAll({c \in clients : client[c].attached}, content(bytes), SentOrDisconnect)

ReadPty(n) ==
    /\ pc = "pty"
    /\ read_pty
    /\ n <= produced - consumed
    /\ LET buf == [i \in 1..n |-> consumed + i]
       IN  /\ history' = append(history, buf)
           /\ broadcast_content(buf)
    /\ consumed' = consumed + n
    /\ UNCHANGED <<listening, mode, cliSock, srvSock, up, child, wstatus,
                   produced, inq, input, winsize, termed, pc, clients, read_pty,
                   child_exit, shutdown, todo, cur, saw_eof, snap, send_end>>

PtyDone ==
    /\ pc = "pty"
    /\ \/ ~read_pty /\ read_pty' = FALSE
       \/ /\ read_pty
          /\ consumed = produced
          /\ \/ read_pty' = (child = "running")
             \/ "background" \in Faults /\ read_pty' = TRUE
    /\ pc' = "wait"
    /\ UNCHANGED <<kernelVars, clients, client, history, child_exit, shutdown,
                   todo, cur, saw_eof, snap, send_end>>

-------------------------------------------------------------------------------
(* WIFEXITED: the low seven bits are 0; WIFSIGNALED: they are neither 0 nor *)
(* 127.                                                                     *)

(* Reporting the signal's number without the 128. *)
ExitStatusBareSignal(status) ==
    IF status % 128 = 0 THEN (status \div 256) % 256 ELSE status % 128

exit_status(status) ==
    IF status % 128 = 0 THEN (status \div 256) % 256
    ELSE IF status % 128 # 127 THEN 128 + (status % 128)
    ELSE status

(* Collecting the child only when no client is left to be told. *)
WaitPidWhenIdle ==
    /\ pc = "wait"
    /\ IF child_exit = NoStatus /\ child = "zombie" /\ clients = {}
         THEN /\ child' = "reaped"
              /\ child_exit' = exit_status(wstatus)
              /\ mode' = "0610"
         ELSE UNCHANGED <<child, child_exit, mode>>
    /\ pc' = "read"
    /\ todo' = clients
    /\ UNCHANGED <<listening, cliSock, srvSock, up, down, wstatus, produced,
                   consumed, inq, input, winsize, termed, clients, client,
                   history, read_pty, shutdown, cur, saw_eof, snap, send_end>>

(* Collecting the child whether or not an exit is already being reported. *)
WaitPidAlways ==
    /\ pc = "wait"
    /\ IF child = "zombie"
         THEN /\ child' = "reaped"
              /\ child_exit' = exit_status(wstatus)
              /\ mode' = "0610"
         ELSE UNCHANGED <<child, child_exit, mode>>
    /\ pc' = "read"
    /\ todo' = clients
    /\ UNCHANGED <<listening, cliSock, srvSock, up, down, wstatus, produced,
                   consumed, inq, input, winsize, termed, clients, client,
                   history, read_pty, shutdown, cur, saw_eof, snap, send_end>>

WaitPid ==
    /\ pc = "wait"
    /\ IF child_exit = NoStatus /\ child = "zombie"
         THEN /\ child' = "reaped"
              /\ child_exit' = exit_status(wstatus)
              /\ mode' = "0610"
         ELSE UNCHANGED <<child, child_exit, mode>>
    /\ pc' = "read"
    /\ todo' = clients
    /\ UNCHANGED <<listening, cliSock, srvSock, up, down, wstatus, produced,
                   consumed, inq, input, winsize, termed, clients, client,
                   history, read_pty, shutdown, cur, saw_eof, snap, send_end>>

-------------------------------------------------------------------------------
(* read_client_packets.  Everything that has arrived is read first.  A      *)
(* client that closed its end with data for it unread leaves ECONNRESET     *)
(* after its last byte: the client is dropped and what was read with it.    *)
ReadClient(c) ==
    /\ pc = "read"
    /\ c \in todo
    /\ todo' = todo \ {c}
    /\ up' = [up EXCEPT ![c] = <<>>]
    /\ IF cliSock[c] = "reset"
         THEN /\ client' = [client EXCEPT ![c].buf = @ \o up[c],
                                          ![c].disconnected = TRUE]
              /\ UNCHANGED <<pc, cur, saw_eof>>
         ELSE /\ client' = [client EXCEPT ![c].buf = @ \o up[c]]
              /\ saw_eof' = (cliSock[c] = "closed")
              /\ cur' = c
              /\ pc' = "handle"
    /\ UNCHANGED <<listening, mode, cliSock, srvSock, down, ptyVars, clients,
                   history, read_pty, child_exit, shutdown, snap, send_end>>

(* The next packet of the current client is of one of these types. *)
Popping(types) ==
    /\ pc = "handle"
    /\ client[cur].buf # <<>>
    /\ Head(client[cur].buf).typ \in types

front == Head(client[cur].buf)
(* A packet that stays in the buffer after it was handled. *)
PoppedNothing == client[cur]

Popped == [client[cur] EXCEPT !.buf = Tail(@)]

(* fd_write_all on the non-blocking master: what does not fit is lost. *)
fd_write_all(c, keys) ==
    LET n == MinOf(Len(keys), PTYIN - inq)
    IN  /\ inq' = inq + n
        /\ input' = input \o [i \in 1..n |-> [conn |-> c, key |-> keys[i]]]

HandleInput ==
    /\ Popping({"CONTENT", "SEND_KEYS"})
    /\ client' = [client EXCEPT ![cur] = Popped]
    /\ IF client[cur].flags % 2 = CLIENT_READONLY     \* its lowest bit
         THEN UNCHANGED <<inq, input>>
         ELSE fd_write_all(cur, front.payload)
    /\ UNCHANGED <<sockVars, child, wstatus, produced, consumed, winsize, termed,
                   pc, clients, history, read_pty, child_exit, shutdown, todo,
                   cur, saw_eof, snap, send_end>>

(* Attaching without the replay. *)
HandleAttachLiveOnly ==
    /\ Popping({"ATTACH"})
    /\ client' = [client EXCEPT ![cur] =
                    [Popped EXCEPT !.attached = TRUE, !.flags = read_u32(front.payload)]]
    /\ snap' = <<>>
    /\ send_end' = FALSE
    /\ pc' = "replay"
    /\ UNCHANGED <<kernelVars, clients, history, read_pty, child_exit, shutdown,
                   todo, cur, saw_eof>>

(* MSG_ATTACH and MSG_DUMP start a send_history. *)
HandleAttach ==
    /\ Popping({"ATTACH"})
    /\ client' = [client EXCEPT ![cur] =
                    [Popped EXCEPT !.attached = TRUE, !.flags = read_u32(front.payload)]]
    /\ snap' = history
    /\ send_end' = FALSE
    /\ pc' = "replay"
    /\ UNCHANGED <<kernelVars, clients, history, read_pty, child_exit, shutdown,
                   todo, cur, saw_eof>>

HandleDump ==
    /\ Popping({"DUMP"})
    /\ client' = [client EXCEPT ![cur] = Popped]
    /\ snap' = history
    /\ send_end' = TRUE
    /\ pc' = "replay"
    /\ UNCHANGED <<kernelVars, clients, history, read_pty, child_exit, shutdown,
                   todo, cur, saw_eof>>

(* A resize of the pty, whoever asks for it, and SIGWINCH for the child. *)
HandleResize ==
    /\ Popping({"RESIZE"})
    /\ client' = [client EXCEPT ![cur] = Popped]
    /\ winsize' = IF front.payload = <<>> THEN winsize ELSE Head(front.payload)
    /\ UNCHANGED <<sockVars, child, wstatus, produced, consumed, inq, input,
                   termed, pc, clients, history, read_pty, child_exit, shutdown,
                   todo, cur, saw_eof, snap, send_end>>

HandleDetach ==
    /\ Popping({"DETACH", "EXIT"})
    /\ client' = [client EXCEPT ![cur] = [Popped EXCEPT !.disconnected = TRUE]]
    /\ UNCHANGED <<kernelVars, pc, clients, history, read_pty, child_exit,
                   shutdown, todo, cur, saw_eof, snap, send_end>>

(* Not leaving the loop when there is no packet left. *)
EndClientKeepsLooping ==
    /\ pc = "handle"
    /\ client[cur].buf = <<>>
    /\ client' = [client EXCEPT ![cur].disconnected = @ \/ saw_eof]
    /\ cur' = NoConn
    /\ saw_eof' = FALSE
    /\ UNCHANGED <<kernelVars, pc, clients, history, read_pty, child_exit, shutdown,
                   todo, snap, send_end>>

(* Dropping the packets of a client that has closed its end. *)
EndClientAtEof ==
    /\ pc = "handle"
    /\ saw_eof \/ client[cur].buf = <<>>
    /\ client' = [client EXCEPT ![cur] = [@ EXCEPT !.buf = <<>>,
                                                   !.disconnected = @ \/ saw_eof]]
    /\ cur' = NoConn
    /\ saw_eof' = FALSE
    /\ pc' = "read"
    /\ UNCHANGED <<kernelVars, clients, history, read_pty, child_exit, shutdown,
                   todo, snap, send_end>>

EndClient ==
    /\ pc = "handle"
    /\ client[cur].buf = <<>>
    /\ client' = [client EXCEPT ![cur].disconnected = @ \/ saw_eof]
    /\ cur' = NoConn
    /\ saw_eof' = FALSE
    /\ pc' = "read"
    /\ UNCHANGED <<kernelVars, clients, history, read_pty, child_exit, shutdown,
                   todo, snap, send_end>>

-------------------------------------------------------------------------------
(* send_history: MSG_CONTENT packets of at most MAX_PAYLOAD, up to the      *)
(* first one that fails, then MSG_DUMP_END if asked for.  After a dump the  *)
(* client is to be closed, whatever became of the packets.                  *)
chunk == Take(snap, MinOf(MAX_PAYLOAD, Len(snap)))

(* send_history has returned: a dump's client is scheduled to be closed. *)
Replayed(c, r) == IF send_end THEN SentThenClose(c, r)
                              ELSE [client[c] EXCEPT !.send_queue = r.queue]

ReplayChunk ==
    /\ pc = "replay"
    /\ snap # <<>>
    /\ send_packet_nonblocking(cur, content(chunk)).ok
    /\ SendAll({cur}, content(chunk), SentOrDisconnect)
    /\ snap' = Drop(snap, Len(chunk))
    /\ UNCHANGED <<listening, mode, cliSock, srvSock, up, ptyVars, pc, clients,
                   history, read_pty, child_exit, shutdown, todo, cur, saw_eof,
                   send_end>>

ReplayFail ==
    /\ pc = "replay"
    /\ snap # <<>>
    /\ ~send_packet_nonblocking(cur, content(chunk)).ok
    /\ SendAll({cur}, content(chunk),
               LAMBDA c, r : [Replayed(c, r) EXCEPT !.disconnected = TRUE])
    /\ snap' = <<>>
    /\ send_end' = FALSE
    /\ pc' = "handle"
    /\ UNCHANGED <<listening, mode, cliSock, srvSock, up, ptyVars, clients,
                   history, read_pty, child_exit, shutdown, todo, cur, saw_eof>>

(* A dump without its end: the client is neither told nor closed. *)
ReplayEndSilent ==
    /\ pc = "replay"
    /\ snap = <<>>
    /\ send_end' = FALSE
    /\ pc' = "handle"
    /\ UNCHANGED <<kernelVars, client, clients, history, read_pty, child_exit, shutdown,
                   todo, cur, saw_eof, snap>>

ReplayEnd ==
    /\ pc = "replay"
    /\ snap = <<>>
    /\ IF send_end
         THEN SendAll({cur}, [typ |-> "DUMP_END", payload |-> <<>>], Replayed)
         ELSE UNCHANGED <<client, down>>
    /\ send_end' = FALSE
    /\ pc' = "handle"
    /\ UNCHANGED <<listening, mode, cliSock, srvSock, up, ptyVars, clients,
                   history, read_pty, child_exit, shutdown, todo, cur, saw_eof,
                   snap>>

-------------------------------------------------------------------------------
(* The bottom of the loop. *)

(* Disconnecting a client as soon as MSG_EXIT is queued, the way the        *)
(* comment on the code warns against.                                       *)
QueueExitAndDrop ==
    /\ pc = "read"
    /\ todo = {}
    /\ IF child_exit = NoStatus
         THEN UNCHANGED <<client, down>>
         ELSE SendAll({c \in clients : /\ ~client[c].disconnected
                                       /\ client[c].close_after_drain = "unset"},
                      [typ |-> "EXIT", payload |-> <<child_exit>>],
                      LAMBDA c, r : [SentThenClose(c, r) EXCEPT !.disconnected = TRUE])
    /\ pc' = "flush"
    /\ UNCHANGED <<listening, mode, cliSock, srvSock, up, ptyVars, clients,
                   history, read_pty, child_exit, shutdown, todo, cur, saw_eof,
                   snap, send_end>>

(* MSG_EXIT for every client not yet scheduled to be closed. *)
QueueExit ==
    /\ pc = "read"
    /\ todo = {}
    /\ IF child_exit = NoStatus
         THEN UNCHANGED <<client, down>>
         ELSE SendAll({c \in clients : /\ ~client[c].disconnected
                                       /\ client[c].close_after_drain = "unset"},
                      [typ |-> "EXIT", payload |-> <<child_exit>>],
                      SentThenClose)
    /\ pc' = "flush"
    /\ UNCHANGED <<listening, mode, cliSock, srvSock, up, ptyVars, clients,
                   history, read_pty, child_exit, shutdown, todo, cur, saw_eof,
                   snap, send_end>>

(* The last try_flush_client of the tick; an Err disconnects. *)
Flushed(c) ==
    IF client[c].disconnected THEN client[c]
    ELSE SentOrDisconnect(c, try_flush_client(c, client[c].send_queue))

(* Waiting for a closing client's queue to drain, for ever. *)
GoneWithoutDeadline(cl) ==
    \/ cl.disconnected
    \/ cl.close_after_drain # "unset" /\ cl.send_queue = <<>>

(* The client is not kept for another tick. *)
Gone(cl) ==
    \/ cl.disconnected
    \/ /\ cl.close_after_drain # "unset"
       /\ cl.send_queue = <<>> \/ cl.close_after_drain = "late"

(* Clients are flushed, and dropped when they are gone, which closes their  *)
(* sockets.  Returning from server_loop closes the listening one, with      *)
(* every connection nobody accepted.                                        *)
FlushAndReap ==
    /\ pc = "flush"
    /\ LET gone == {c \in clients : Gone(Flushed(c))}
           over == child_exit # NoStatus /\ clients \subseteq gone
       IN  /\ clients' = clients \ gone
           /\ client' = [c \in Conn |-> IF c \in gone THEN NewClient
                                       ELSE IF c \in clients THEN Flushed(c)
                                       ELSE client[c]]
           /\ srvSock' = [c \in Conn |->
                            IF c \in gone \/ (over /\ srvSock[c] = "backlog")
                              THEN "closed" ELSE srvSock[c]]
           /\ listening' = ~over
           /\ pc' = IF over THEN "exited" ELSE "poll"
    /\ down' = [c \in Conn |->
                  IF c \in clients /\ ~client[c].disconnected
                    THEN try_flush_client(c, client[c].send_queue).wire
                    ELSE down[c]]
    /\ UNCHANGED <<mode, cliSock, up, ptyVars, history, read_pty,
                   child_exit, shutdown, todo, cur, saw_eof, snap, send_end>>

-------------------------------------------------------------------------------
(* What happens to the server: time and signals. *)

(* EXIT_DRAIN_DEADLINE has passed for a client that is to be closed. *)
Elapse(c) ==
    /\ "slow" \in Faults
    /\ client[c].close_after_drain = "set"
    /\ client' = [client EXCEPT ![c].close_after_drain = "late"]
    /\ UNCHANGED <<kernelVars, pc, clients, history, read_pty, child_exit,
                   shutdown, todo, cur, saw_eof, snap, send_end>>

(* handle_shutdown_signal *)
Shutdown ==
    /\ "sigterm" \in Faults
    /\ pc # "exited"
    /\ ~shutdown
    /\ shutdown' = TRUE
    /\ UNCHANGED <<kernelVars, pc, clients, client, history, read_pty,
                   child_exit, todo, cur, saw_eof, snap, send_end>>

Server ==
    \/ PollShutdown
    \/ \E c \in Conn : Accept(c) \/ AcceptDropped(c) \/ ReadClient(c)
    \/ AcceptDone
    \/ \E n \in 1..MAX_PAYLOAD : ReadPty(n)
    \/ PtyDone
    \/ WaitPid
    \/ HandleInput \/ HandleAttach \/ HandleDump \/ HandleResize \/ HandleDetach
    \/ EndClient
    \/ ReplayChunk \/ ReplayFail \/ ReplayEnd
    \/ QueueExit \/ FlushAndReap
===============================================================================
