------------------------------ MODULE LichClient ------------------------------
(***************************************************************************)
(* The programs at the other end: attach_session with client_loop,         *)
(* dump_session, send_keys_session and the liveness probe of session_alive *)
(* and list_sessions, all of src/src/main.rs.  Kind[c] says which program  *)
(* is behind connection c.                                                 *)
(***************************************************************************)
EXTENDS LichKernel, LichTail

VARIABLES
    cpc,       \* where in its program the client is
    rbuf,      \* cells recv_packet_blocking has read of an incomplete packet
    seen,      \* bytes of MSG_CONTENT written to stdout or to a dump
    sent,      \* key units taken from the user or the command line
    result,    \* how the program ended
    code       \* the exit code MSG_EXIT gave it

clientVars == <<cpc, rbuf, seen, sent, result, code>>

NoCode == -1

ClientInit ==
    /\ cpc = [c \in Conn |-> "start"]
    /\ rbuf = [c \in Conn |-> <<>>]
    /\ seen = [c \in Conn |-> <<>>]
    /\ sent = [c \in Conn |-> 0]
    /\ result = [c \in Conn |-> "none"]
    /\ code = [c \in Conn |-> NoCode]

CPCs == {"start", "pid", "attach", "resize", "loop", "recv", "stdin",
         "dump", "dumping", "keys", "done"}
Results == {"none", "detached", "exited", "ioerror", "error", "ok", "killed"}

ClientTypeOK ==
    /\ cpc \in [Conn -> CPCs]
    /\ rbuf \in [Conn -> Seq(Cell)]
    /\ seen \in [Conn -> Seq(Nat)]
    /\ sent \in [Conn -> Nat]
    /\ result \in [Conn -> Results]
    /\ code \in [Conn -> Nat \cup {NoCode}]

-------------------------------------------------------------------------------
(* The program of c ends with result r: its socket is closed, which the     *)
(* server sees as a reset if what is left for c on the wire is not empty.   *)
Finish(c, r, left) ==
    /\ cpc' = [cpc EXCEPT ![c] = "done"]
    /\ result' = [result EXCEPT ![c] = r]
    /\ cliSock' = [cliSock EXCEPT ![c] = IF left = <<>> THEN "closed" ELSE "reset"]
    /\ down' = [down EXCEPT ![c] = <<>>]
    /\ rbuf' = [rbuf EXCEPT ![c] = <<>>]

(* connect_session, which the listen backlog answers. *)
Connect(c) ==
    /\ cpc[c] = "start"
    /\ listening
    /\ cliSock' = [cliSock EXCEPT ![c] = "open"]
    /\ srvSock' = [srvSock EXCEPT ![c] = "backlog"]
    /\ cpc' = [cpc EXCEPT ![c] = "pid"]
    /\ UNCHANGED <<listening, mode, up, down, ptyVars, rbuf, seen, sent, result, code>>

ConnectRefused(c) ==
    /\ cpc[c] = "start"
    /\ ~listening
    /\ cpc' = [cpc EXCEPT ![c] = "done"]
    /\ result' = [result EXCEPT ![c] = "error"]
    /\ UNCHANGED <<kernelVars, rbuf, seen, sent, code>>

-------------------------------------------------------------------------------
(* recv_packet_blocking.  Reading goes on to the end of one packet and no   *)
(* further, and waits when the wire is empty.                               *)
Receiving(c) == cpc[c] \in {"pid", "loop", "recv", "dumping"}

(* What has been read and what can be read now. *)
Pending(c) == rbuf[c] \o down[c]
Need(c) == 1 + Head(Pending(c)).val
TooLarge(c) == Head(Pending(c)).val > MAX_PAYLOAD
Whole(c) == down[c] # <<>> /\ ~TooLarge(c) /\ Len(Pending(c)) >= Need(c)

(* The packet is not all there yet. *)
RecvPart(c) ==
    /\ Receiving(c)
    /\ down[c] # <<>>
    /\ ~TooLarge(c)
    /\ Len(Pending(c)) < Need(c)
    /\ rbuf' = [rbuf EXCEPT ![c] = Pending(c)]
    /\ down' = [down EXCEPT ![c] = <<>>]
    /\ cpc' = [cpc EXCEPT ![c] = IF @ = "loop" THEN "recv" ELSE @]
    /\ UNCHANGED <<listening, mode, cliSock, srvSock, up, ptyVars,
                   seen, sent, result, code>>

RecvPacket(c) == CellsPacket(Take(Pending(c), Need(c)))
RecvRest(c) == Drop(Pending(c), Need(c))

(* It is: c reads it and goes on to next. *)
Received(c, next) ==
    /\ rbuf' = [rbuf EXCEPT ![c] = <<>>]
    /\ down' = [down EXCEPT ![c] = RecvRest(c)]
    /\ cpc' = [cpc EXCEPT ![c] = next]

(* It fails: the server has closed its end and all that it sent is read, or *)
(* the header announces more than MAX_PAYLOAD.  client_loop turns the error *)
(* into IoError, the others return it.                                      *)
RecvFail(c) ==
    /\ Receiving(c)
    /\ IF down[c] = <<>> THEN srvSock[c] = "closed" ELSE TooLarge(c)
    /\ Finish(c, IF cpc[c] \in {"loop", "recv"} THEN "ioerror" ELSE "error", down[c])
    /\ UNCHANGED <<listening, mode, srvSock, up, ptyVars, seen, sent, code>>

(* The first packet is taken for MSG_PID.  A probe is done with it. *)
RecvPid(c) ==
    /\ cpc[c] = "pid"
    /\ Whole(c)
    /\ IF Kind[c] = "probe"
         THEN /\ Finish(c, IF RecvPacket(c).typ = "PID" THEN "ok" ELSE "error",
                        RecvRest(c))
              /\ UNCHANGED <<listening, mode, srvSock, up>>
         ELSE /\ Received(c, CASE Kind[c] = "dump" -> "dump"
                               [] Kind[c] = "keys" -> "keys"
                               [] OTHER -> "attach")
              /\ UNCHANGED <<listening, mode, cliSock, srvSock, up, result>>
    /\ UNCHANGED <<ptyVars, seen, sent, code>>

(* client_loop on MSG_CONTENT, and on a type it does not know. *)
RecvLoop(c) ==
    /\ cpc[c] \in {"loop", "recv"}
    /\ Whole(c)
    /\ RecvPacket(c).typ # "EXIT"
    /\ Received(c, "stdin")
    /\ seen' = [seen EXCEPT ![c] = IF RecvPacket(c).typ = "CONTENT"
                                     THEN @ \o RecvPacket(c).payload ELSE @]
    /\ UNCHANGED <<listening, mode, cliSock, srvSock, up, ptyVars, sent, result, code>>

(* client_loop on MSG_EXIT: the packet is sent back, best effort. *)
RecvExit(c) ==
    /\ cpc[c] \in {"loop", "recv"}
    /\ Whole(c)
    /\ RecvPacket(c).typ = "EXIT"
    /\ code' = [code EXCEPT ![c] = read_u32(RecvPacket(c).payload)]
    /\ up' = IF srvSock[c] = "closed" THEN up
             ELSE [up EXCEPT ![c] = Append(@, RecvPacket(c))]
    /\ Finish(c, "exited", RecvRest(c))
    /\ UNCHANGED <<listening, mode, srvSock, ptyVars, seen, sent>>

(* dump_session: content is collected, MSG_DUMP_END ends the dump and any   *)
(* other packet is skipped.  What the dump then prints is the end of        *)
(* seen[c] that Printed of LichTail gives.                                  *)
RecvDump(c) ==
    /\ cpc[c] = "dumping"
    /\ Whole(c)
    /\ IF RecvPacket(c).typ = "DUMP_END"
         THEN /\ Finish(c, "ok", RecvRest(c))
              /\ UNCHANGED <<listening, mode, srvSock, up, seen>>
         ELSE /\ Received(c, "dumping")
              /\ seen' = [seen EXCEPT ![c] = IF RecvPacket(c).typ = "CONTENT"
                                               THEN @ \o RecvPacket(c).payload ELSE @]
              /\ UNCHANGED <<listening, mode, cliSock, srvSock, up, result>>
    /\ UNCHANGED <<ptyVars, sent, code>>

-------------------------------------------------------------------------------
(* send_packet_blocking, propagated with ?: on a connection the server has  *)
(* closed the program ends with an error; otherwise c goes on to next.      *)
SendOrFail(c, pkt, next) ==
    IF srvSock[c] = "closed"
      THEN /\ Finish(c, "error", down[c])
           /\ UNCHANGED up
      ELSE /\ up' = [up EXCEPT ![c] = Append(@, pkt)]
           /\ cpc' = [cpc EXCEPT ![c] = next]
           /\ UNCHANGED <<cliSock, down, rbuf, result>>

flags(c) == IF Kind[c] = "readonly" THEN 1 ELSE 0

SendAttach(c) ==
    /\ cpc[c] = "attach"
    /\ SendOrFail(c, [typ |-> "ATTACH", payload |-> <<flags(c)>>], "resize")
    /\ UNCHANGED <<listening, mode, srvSock, ptyVars, seen, sent, code>>

send_resize(c) ==
    /\ cpc[c] = "resize"
    /\ SendOrFail(c, [typ |-> "RESIZE", payload |-> <<TermSize[c]>>], "loop")
    /\ UNCHANGED <<listening, mode, srvSock, ptyVars, seen, sent, code>>

SendDump(c) ==
    /\ cpc[c] = "dump"
    /\ SendOrFail(c, [typ |-> "DUMP", payload |-> <<>>], "dumping")
    /\ UNCHANGED <<listening, mode, srvSock, ptyVars, seen, sent, code>>

(* send_keys_session: chunks of at most MAX_PAYLOAD, then the socket is     *)
(* closed.                                                                  *)
SendKeys(c) ==
    /\ cpc[c] = "keys"
    /\ IF sent[c] = KEYS
         THEN /\ Finish(c, "ok", down[c])
              /\ UNCHANGED <<up, sent>>
         ELSE LET n == MinOf(MAX_PAYLOAD, KEYS - sent[c])
              IN  /\ SendOrFail(c, [typ |-> "SEND_KEYS",
                                    payload |-> [i \in 1..n |-> sent[c] + i]], "keys")
                  /\ sent' = [sent EXCEPT ![c] = @ + n]
    /\ UNCHANGED <<listening, mode, srvSock, ptyVars, seen, code>>

-------------------------------------------------------------------------------
(* client_loop: select.  A readable socket is served first, then stdin; so  *)
(* stdin is looked at after a packet or when there is nothing to receive.   *)
SelectStdin(c) ==
    /\ cpc[c] = "loop"
    /\ down[c] = <<>>
    /\ srvSock[c] # "closed"
    /\ cpc' = [cpc EXCEPT ![c] = "stdin"]
    /\ UNCHANGED <<kernelVars, rbuf, seen, sent, result, code>>

(* Nothing was typed, or the read was interrupted. *)
StdinEmpty(c) ==
    /\ cpc[c] = "stdin"
    /\ cpc' = [cpc EXCEPT ![c] = "loop"]
    /\ UNCHANGED <<kernelVars, rbuf, seen, sent, result, code>>

(* A key; a read-only client reads it and sends nothing. *)
StdinKey(c) ==
    /\ cpc[c] = "stdin"
    /\ sent[c] < KEYS
    /\ sent' = [sent EXCEPT ![c] = @ + 1]
    /\ IF Kind[c] = "readonly"
         THEN /\ cpc' = [cpc EXCEPT ![c] = "loop"]
              /\ UNCHANGED <<up, cliSock, down, rbuf, result>>
         ELSE SendOrFail(c, [typ |-> "CONTENT", payload |-> <<sent[c] + 1>>], "loop")
    /\ UNCHANGED <<listening, mode, srvSock, ptyVars, seen, code>>

(* The detach key. *)
StdinDetach(c) ==
    /\ cpc[c] = "stdin"
    /\ IF srvSock[c] = "closed"
         THEN Finish(c, "error", down[c]) /\ UNCHANGED up
         ELSE /\ up' = [up EXCEPT ![c] = Append(@, [typ |-> "DETACH", payload |-> <<>>])]
              /\ Finish(c, "detached", down[c])
    /\ UNCHANGED <<listening, mode, srvSock, ptyVars, seen, sent, code>>

(* End of file on stdin. *)
StdinEof(c) ==
    /\ cpc[c] = "stdin"
    /\ Finish(c, "detached", down[c])
    /\ UNCHANGED <<listening, mode, srvSock, up, ptyVars, seen, sent, code>>

(* The client is killed.  Its own stdin or stdout may fail too; all that    *)
(* this module could tell of it is the same, a socket closed at any place.  *)
(* LichTerminal has these exits one by one.                                 *)
Killed(c) ==
    /\ "kill" \in Faults
    /\ cpc[c] \notin {"start", "done"}
    /\ Finish(c, "killed", down[c])
    /\ UNCHANGED <<listening, mode, srvSock, up, ptyVars, seen, sent, code>>

(* What the program does of itself; the rest is up to its user. *)
ClientRuns(c) ==
    \/ Connect(c) \/ ConnectRefused(c)
    \/ RecvPart(c) \/ RecvFail(c) \/ RecvPid(c)
    \/ RecvLoop(c) \/ RecvExit(c) \/ RecvDump(c)
    \/ SendAttach(c) \/ send_resize(c) \/ SendDump(c) \/ SendKeys(c)
    \/ StdinEmpty(c)

ClientUser(c) ==
    \/ SelectStdin(c) \/ StdinKey(c) \/ StdinDetach(c) \/ StdinEof(c)
    \/ Killed(c)
===============================================================================
