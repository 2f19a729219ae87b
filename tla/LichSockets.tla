------------------------------ MODULE LichSockets ------------------------------
(***************************************************************************)
(* The name of a session: the socket file, and the invocations of lich     *)
(* that connect to it, remove it and put a new one in its place.           *)
(* connect_session, session_alive, create_session, run_server up to        *)
(* server_loop, SocketGuard and read_startup_status of src/src/main.rs.    *)
(*                                                                         *)
(* All invocations use the same name.  A socket is known by the invocation *)
(* that bound it.  What a server does once it runs is LichSession; here it *)
(* answers connections with MSG_PID until it ends.                         *)
(***************************************************************************)
EXTENDS Naturals, FiniteSets

CONSTANTS
    Inv,           \* the invocations of lich
    Program,       \* which command line each one is
    NoFile,        \* the path names nothing
    Trouble        \* which of TroubleKinds may happen

(* -n, -c, -A, the others, which only connect (-a, -d, -K), and no flag at   *)
(* all: list_sessions, which connects without connect_session.              *)
Programs == {"create", "create_attach", "ensure", "attach", "list"}

(* "overlap": an invocation starts while another is at work.  "exit": a     *)
(* running server ends, its child having ended or a signal having come.     *)
(* "kill": a server is killed.  The others are system calls that fail.      *)
TroubleKinds == {"overlap", "exit", "kill", "fork", "forkpty", "exec"}

ASSUME InvAssumption ==
    /\ NoFile \notin Inv
    /\ Program \in [Inv -> Programs]
    /\ Trouble \subseteq TroubleKinds

VARIABLES
    file,          \* the socket the path names
    listener,      \* per invocation: the socket it created
    step,          \* where the invocation is
    stage,         \* what it is connecting for
    peer,          \* the socket it is connected to
    created,       \* its create_session returned Ok
    result,        \* how it ended
    srv,           \* the server process it forked
    cmd,           \* the command that server forked
    writers,       \* who holds the write end of its startup pipe
    message        \* an error was written to that pipe

vars == <<file, listener, step, stage, peer, created, result, srv, cmd, writers, message>>

FirstStage(p) == IF Program[p] \in {"attach", "ensure", "list"} THEN Program[p]
                                                              ELSE "create"

Init ==
    /\ file = NoFile
    /\ listener = [p \in Inv |-> "none"]
    /\ step = [p \in Inv |-> "start"]
    /\ stage = [p \in Inv |-> FirstStage(p)]
    /\ peer = [p \in Inv |-> NoFile]
    /\ created = [p \in Inv |-> FALSE]
    /\ result = [p \in Inv |-> "none"]
    /\ srv = [p \in Inv |-> "none"]
    /\ cmd = [p \in Inv |-> "none"]
    /\ writers = [p \in Inv |-> {}]
    /\ message = [p \in Inv |-> FALSE]

TypeOK ==
    /\ file \in Inv \cup {NoFile}
    /\ listener \in [Inv -> {"none", "bound", "listening", "closed"}]
    /\ step \in [Inv -> {"start", "connect", "unlink", "pid", "remove", "bind", "listen",
                         "fork", "status", "failed", "done"}]
    /\ stage \in [Inv -> {"ensure", "create", "attach", "list"}]
    /\ peer \in [Inv -> Inv \cup {NoFile}]
    /\ \A p \in Inv : peer[p] = NoFile <=> step[p] # "pid"
    /\ created \in [Inv -> BOOLEAN]
    /\ result \in [Inv -> {"none", "ok", "exists", "listed", "error"}]
    /\ srv \in [Inv -> {"none", "starting", "running", "exiting", "done", "killed"}]
    /\ cmd \in [Inv -> {"none", "forked", "execed", "failed"}]
    /\ writers \in [Inv -> SUBSET {"server", "cmd"}]
    /\ message \in [Inv -> BOOLEAN]

serverVars == <<srv, cmd, writers, message>>

-------------------------------------------------------------------------------
(* The control of an invocation. *)

GoTo(p, s) ==
    /\ step' = [step EXCEPT ![p] = s]
    /\ UNCHANGED <<stage, result>>

End(p, r) ==
    /\ step' = [step EXCEPT ![p] = "done"]
    /\ result' = [result EXCEPT ![p] = r]
    /\ UNCHANGED stage

(* The next function to call connect_session. *)
ConnectFor(p, s) ==
    /\ step' = [step EXCEPT ![p] = "connect"]
    /\ stage' = [stage EXCEPT ![p] = s]
    /\ UNCHANGED result

(* session_alive is false, or attach_session has failed.  create_session    *)
(* asks session_alive again, and the second no makes it go ahead.           *)
NoSession(p) ==
    \/ stage[p] = "attach" /\ End(p, "error")
    \/ stage[p] = "list" /\ End(p, "ok")
    \/ stage[p] = "ensure" /\ ConnectFor(p, "create")
    \/ stage[p] = "create" /\ GoTo(p, "remove")

(* A session that answered taken for a dead one by create_session. *)
HasSessionIgnored(p) ==
    \/ stage[p] = "attach" /\ End(p, "ok")
    \/ stage[p] = "list" /\ End(p, "listed")
    \/ stage[p] = "ensure" /\ ConnectFor(p, "attach")
    \/ stage[p] = "create" /\ GoTo(p, "remove")

HasSession(p) ==
    \/ stage[p] = "attach" /\ End(p, "ok")
    \/ stage[p] = "list" /\ End(p, "listed")
    \/ stage[p] = "ensure" /\ ConnectFor(p, "attach")
    \/ stage[p] = "create" /\ End(p, "exists")

Start(p) ==
    /\ step[p] = "start"
    /\ "overlap" \in Trouble \/ \A q \in Inv : step[q] \in {"start", "done"}
    /\ GoTo(p, "connect")
    /\ UNCHANGED <<file, listener, peer, created, serverVars>>

-------------------------------------------------------------------------------
(* connect_session.  A socket that is not listening refuses: then the path  *)
(* is removed, whatever it names by now, but not by list_sessions.          *)
Connect(p) ==
    /\ step[p] = "connect"
    /\ file # NoFile
    /\ listener[file] = "listening"
    /\ peer' = [peer EXCEPT ![p] = file]
    /\ GoTo(p, "pid")
    /\ UNCHANGED <<file, listener, created, serverVars>>

ConnectMissing(p) ==
    /\ step[p] = "connect"
    /\ file = NoFile
    /\ NoSession(p)
    /\ UNCHANGED <<file, listener, peer, created, serverVars>>

ConnectRefused(p) ==
    /\ step[p] = "connect"
    /\ file # NoFile
    /\ listener[file] # "listening"
    /\ IF stage[p] = "list" THEN NoSession(p) ELSE GoTo(p, "unlink")
    /\ UNCHANGED <<file, listener, peer, created, serverVars>>

Unlink(p) ==
    /\ step[p] = "unlink"
    /\ file' = NoFile
    /\ NoSession(p)
    /\ UNCHANGED <<listener, peer, created, serverVars>>

(* MSG_PID, which a server sends once it runs ... *)
RecvPid(p) ==
    /\ step[p] = "pid"
    /\ srv[peer[p]] = "running"
    /\ HasSession(p)
    /\ peer' = [peer EXCEPT ![p] = NoFile]
    /\ UNCHANGED <<file, listener, created, serverVars>>

(* A failed probe that keeps its stream. *)
RecvEofKeepsStream(p) ==
    /\ step[p] = "pid"
    /\ listener[peer[p]] = "closed"
    /\ NoSession(p)
    /\ UNCHANGED <<file, listener, peer, created, serverVars>>

(* ... or the end of a connection nobody accepted. *)
RecvEof(p) ==
    /\ step[p] = "pid"
    /\ listener[peer[p]] = "closed"
    /\ NoSession(p)
    /\ peer' = [peer EXCEPT ![p] = NoFile]
    /\ UNCHANGED <<file, listener, created, serverVars>>

-------------------------------------------------------------------------------
(* create_session, once there is no session. *)
Remove(p) ==
    /\ step[p] = "remove"
    /\ file' = NoFile
    /\ GoTo(p, "bind")
    /\ UNCHANGED <<listener, peer, created, serverVars>>

(* UnixListener::bind is bind(2), which fails on an existing file ... *)
Bind(p) ==
    /\ step[p] = "bind"
    /\ IF file = NoFile
         THEN /\ file' = p
              /\ listener' = [listener EXCEPT ![p] = "bound"]
              /\ GoTo(p, "listen")
         ELSE /\ End(p, "error")
              /\ UNCHANGED <<file, listener>>
    /\ UNCHANGED <<peer, created, serverVars>>

(* ... and then listen(2). *)
Listen(p) ==
    /\ step[p] = "listen"
    /\ listener' = [listener EXCEPT ![p] = "listening"]
    /\ GoTo(p, "fork")
    /\ UNCHANGED <<file, peer, created, serverVars>>

(* The server has the write end of the pipe, and the listening socket: the  *)
(* parent drops its own.                                                    *)
Fork(p) ==
    /\ step[p] = "fork"
    /\ srv' = [srv EXCEPT ![p] = "starting"]
    /\ writers' = [writers EXCEPT ![p] = {"server"}]
    /\ GoTo(p, "status")
    /\ UNCHANGED <<file, listener, peer, created, cmd, message>>

(* pipe or fork failed; the file stays behind. *)
ForkFails(p) ==
    /\ "fork" \in Trouble
    /\ step[p] = "fork"
    /\ listener' = [listener EXCEPT ![p] = "closed"]
    /\ End(p, "error")
    /\ UNCHANGED <<file, peer, created, serverVars>>

(* read_startup_status has read to the end of the pipe: nothing ... *)
StatusOk(p) ==
    /\ step[p] = "status"
    /\ writers[p] = {}
    /\ ~message[p]
    /\ created' = [created EXCEPT ![p] = TRUE]
    /\ IF Program[p] = "create" THEN End(p, "ok") ELSE ConnectFor(p, "attach")
    /\ UNCHANGED <<file, listener, peer, serverVars>>

(* ... or a message, and the path is removed. *)
StatusErr(p) ==
    /\ step[p] = "status"
    /\ writers[p] = {}
    /\ message[p]
    /\ GoTo(p, "failed")
    /\ UNCHANGED <<file, listener, peer, created, serverVars>>

RemoveFailed(p) ==
    /\ step[p] = "failed"
    /\ file' = NoFile
    /\ End(p, "error")
    /\ UNCHANGED <<listener, peer, created, serverVars>>

-------------------------------------------------------------------------------
(* run_server and the command. *)
invVars == <<step, stage, peer, created, result>>

(* Server and forked command both have the listening socket, the command    *)
(* until it executes: it is closed when nobody holds it any more.           *)
LetGo(p, held) ==
    listener' = IF held THEN listener ELSE [listener EXCEPT ![p] = "closed"]

(* The command not holding the pipe: nothing tells the parent of its exec. *)
ForkptyWithoutPipe(p) ==
    /\ srv[p] = "starting"
    /\ srv' = [srv EXCEPT ![p] = "running"]
    /\ cmd' = [cmd EXCEPT ![p] = "forked"]
    /\ writers' = [writers EXCEPT ![p] = {}]
    /\ UNCHANGED <<file, listener, message, invVars>>

(* The write end stays with the command; the server closes its own. *)
Forkpty(p) ==
    /\ srv[p] = "starting"
    /\ srv' = [srv EXCEPT ![p] = "running"]
    /\ cmd' = [cmd EXCEPT ![p] = "forked"]
    /\ writers' = [writers EXCEPT ![p] = {"cmd"}]
    /\ UNCHANGED <<file, listener, message, invVars>>

(* run_server returns the error, which closes its listener. *)
ForkptyFails(p) ==
    /\ "forkpty" \in Trouble
    /\ srv[p] = "starting"
    /\ srv' = [srv EXCEPT ![p] = "exiting"]
    /\ writers' = [writers EXCEPT ![p] = {}]
    /\ message' = [message EXCEPT ![p] = TRUE]
    /\ listener' = [listener EXCEPT ![p] = "closed"]
    /\ UNCHANGED <<file, cmd, invVars>>

(* A pipe without FD_CLOEXEC stays open in the command. *)
ExecKeepsPipe(p) ==
    /\ cmd[p] = "forked"
    /\ cmd' = [cmd EXCEPT ![p] = "execed"]
    /\ LetGo(p, srv[p] = "running")
    /\ UNCHANGED <<file, srv, writers, message, invVars>>

(* FD_CLOEXEC closes the pipe, and the listening socket. *)
Exec(p) ==
    /\ cmd[p] = "forked"
    /\ cmd' = [cmd EXCEPT ![p] = "execed"]
    /\ writers' = [writers EXCEPT ![p] = @ \ {"cmd"}]
    /\ LetGo(p, srv[p] = "running")
    /\ UNCHANGED <<file, srv, message, invVars>>

ExecFails(p) ==
    /\ "exec" \in Trouble
    /\ cmd[p] = "forked"
    /\ cmd' = [cmd EXCEPT ![p] = "failed"]
    /\ writers' = [writers EXCEPT ![p] = @ \ {"cmd"}]
    /\ message' = [message EXCEPT ![p] = TRUE]
    /\ LetGo(p, srv[p] = "running")
    /\ UNCHANGED <<file, srv, invVars>>

(* server_loop returns, and lets go of the listener ... *)
ServerEnds(p) ==
    /\ srv[p] = "running"
    /\ cmd[p] = "failed" \/ "exit" \in Trouble
    /\ srv' = [srv EXCEPT ![p] = "exiting"]
    /\ LetGo(p, cmd[p] = "forked")
    /\ UNCHANGED <<file, cmd, writers, message, invVars>>

(* ... and then the SocketGuard removes the path. *)
GuardDrop(p) ==
    /\ srv[p] = "exiting"
    /\ file' = NoFile
    /\ srv' = [srv EXCEPT ![p] = "done"]
    /\ UNCHANGED <<listener, cmd, writers, message, invVars>>

(* No guard runs when the server is killed. *)
Killed(p) ==
    /\ "kill" \in Trouble
    /\ srv[p] \in {"starting", "running", "exiting"}
    /\ srv' = [srv EXCEPT ![p] = "killed"]
    /\ LetGo(p, cmd[p] = "forked")
    /\ writers' = [writers EXCEPT ![p] = @ \ {"server"}]
    /\ UNCHANGED <<file, cmd, message, invVars>>

Runs(p) ==
    \/ Connect(p) \/ ConnectMissing(p) \/ ConnectRefused(p) \/ Unlink(p)
    \/ RecvPid(p) \/ RecvEof(p)
    \/ Remove(p) \/ Bind(p) \/ Listen(p) \/ Fork(p) \/ ForkFails(p)
    \/ StatusOk(p) \/ StatusErr(p) \/ RemoveFailed(p)

ServerRuns(p) == Forkpty(p) \/ ForkptyFails(p) \/ GuardDrop(p)

CommandRuns(p) == Exec(p) \/ ExecFails(p)

(* All invocations are over and no server has anything left to do. *)
Quiet ==
    /\ \A p \in Inv : step[p] = "done" /\ srv[p] \notin {"starting", "exiting"}
    /\ UNCHANGED vars

Next ==
    \/ \E p \in Inv : \/ Start(p) \/ Runs(p) \/ ServerRuns(p) \/ CommandRuns(p)
                      \/ ServerEnds(p) \/ Killed(p)
    \/ Quiet

Spec == Init /\ [][Next]_vars

(* Programs, servers and commands are scheduled; a session lasts as long as *)
(* it likes.                                                                *)
Fairness ==
    \A p \in Inv : /\ WF_vars(Runs(p))
                   /\ WF_vars(ServerRuns(p))
                   /\ WF_vars(CommandRuns(p))

-------------------------------------------------------------------------------
(* create_session returns Ok only when the command was really executed,     *)
(* unless its server was killed, and an error from its command or its       *)
(* server never becomes an Ok, however the three processes interleave.      *)
StartupTruthful ==
    \A p \in Inv : created[p] => \/ cmd[p] = "execed" /\ ~message[p]
                                 \/ srv[p] = "killed"

(* No invocation hangs: not on the startup pipe, not on a socket whose      *)
(* server dies or never gets to accept it.                                  *)
InvocationsEnd == \A p \in Inv : step[p] = "connect" ~> step[p] = "done"

-------------------------------------------------------------------------------
(* What comments say and the code does not do; both are violated.           *)

(* The comment on SocketGuard: what connect_session removes on ECONNREFUSED *)
(* is "the orphan" of a server that is gone.                                *)
OrphanRemoved ==
    [][\A p \in Inv : step[p] = "unlink" /\ step'[p] # "unlink" /\ file # NoFile
                        => listener[file] = "closed"]_vars

(* The comment in server_loop: the file's "cleanup site stays single-owner": *)
(* a guard removes the file of its own server.                              *)
GuardOwnFile ==
    [][\A p \in Inv : srv[p] = "exiting" /\ srv'[p] = "done" => file \in {p, NoFile}]_vars
===============================================================================
