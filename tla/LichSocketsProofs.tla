--------------------------- MODULE LichSocketsProofs ---------------------------
(***************************************************************************)
(* Proofs about LichSockets, and about the names LichNames adds to it, for *)
(* every set of invocations and whatever may go wrong.                     *)
(***************************************************************************)
EXTENDS LichNames, TLAPS

(* What an invocation, its server and its command know of one another: the  *)
(* invocation is at most once at its fork; the pipe is held by a server     *)
(* that has not forked, or by a command that has not executed; a command    *)
(* that is not there left a message or a killed server.                     *)
StartupInStep(p) ==
    /\ srv[p] # "none" => \/ step[p] \in {"status", "failed", "done"}
                          \/ stage[p] = "attach" /\ step[p] \in {"connect", "unlink", "pid"}
    /\ step[p] \in {"status", "failed"} => srv[p] # "none"
    /\ srv[p] = "none" => ~created[p] /\ cmd[p] = "none" /\ ~message[p]
    /\ srv[p] = "starting" => writers[p] = {"server"} /\ cmd[p] = "none" /\ ~message[p]
    /\ cmd[p] = "none" => srv[p] \in {"none", "starting", "killed"} \/ message[p]
    /\ cmd[p] = "forked" => "cmd" \in writers[p] /\ ~message[p]
    /\ cmd[p] = "failed" => message[p]
    /\ cmd[p] = "execed" => ~message[p]
    /\ created[p] => cmd[p] = "execed" \/ srv[p] = "killed"

StartupInv == TypeOK /\ \A p \in Inv : StartupInStep(p)

LEMMA StartupInit == Init => StartupInv
<1>. SUFFICES ASSUME Init PROVE StartupInv
  OBVIOUS
<1>1. TypeOK
  BY InvAssumption DEF Init, TypeOK, FirstStage
<1>2. ASSUME NEW p \in Inv PROVE StartupInStep(p)
  BY DEF Init, StartupInStep
<1>. QED
  BY <1>1, <1>2 DEF StartupInv

(* Every step keeps the types. *)
LEMMA TypeStep == TypeOK /\ [Next]_vars => TypeOK'
<1>. SUFFICES ASSUME TypeOK, [Next]_vars PROVE TypeOK'
  OBVIOUS
<1>. USE DEF TypeOK, serverVars, invVars, GoTo, End, ConnectFor, LetGo
<1>1. ASSUME NEW p \in Inv, Start(p) PROVE TypeOK'
  BY <1>1 DEF Start
<1>2. ASSUME NEW p \in Inv, Connect(p) PROVE TypeOK'
  BY <1>2 DEF Connect
<1>3. ASSUME NEW p \in Inv, ConnectMissing(p) \/ Unlink(p) \/ RecvEof(p) PROVE TypeOK'
  <2>1. /\ step' \in [Inv -> {"start", "connect", "unlink", "pid", "remove", "bind", "listen",
                              "fork", "status", "failed", "done"}]
        /\ stage' \in [Inv -> {"ensure", "create", "attach", "list"}]
        /\ result' \in [Inv -> {"none", "ok", "exists", "listed", "error"}]
    BY <1>3 DEF ConnectMissing, Unlink, RecvEof, NoSession
  <2>2. step'[p] # "pid" /\ \A q \in Inv : q # p => step'[q] = step[q]
    BY <1>3 DEF ConnectMissing, Unlink, RecvEof, NoSession
  <2>. QED
    BY <1>3, <2>1, <2>2 DEF ConnectMissing, Unlink, RecvEof
<1>4. ASSUME NEW p \in Inv, ConnectRefused(p) PROVE TypeOK'
  <2>1. /\ step' \in [Inv -> {"start", "connect", "unlink", "pid", "remove", "bind", "listen",
                              "fork", "status", "failed", "done"}]
        /\ stage' \in [Inv -> {"ensure", "create", "attach", "list"}]
        /\ result' \in [Inv -> {"none", "ok", "exists", "listed", "error"}]
    BY <1>4 DEF ConnectRefused, NoSession
  <2>2. step[p] # "pid" /\ step'[p] # "pid" /\ \A q \in Inv : q # p => step'[q] = step[q]
    BY <1>4 DEF ConnectRefused, NoSession
  <2>. QED
    BY <1>4, <2>1, <2>2 DEF ConnectRefused
<1>5. ASSUME NEW p \in Inv, RecvPid(p) PROVE TypeOK'
  <2>1. /\ step' \in [Inv -> {"start", "connect", "unlink", "pid", "remove", "bind", "listen",
                              "fork", "status", "failed", "done"}]
        /\ stage' \in [Inv -> {"ensure", "create", "attach", "list"}]
        /\ result' \in [Inv -> {"none", "ok", "exists", "listed", "error"}]
    BY <1>5 DEF RecvPid, HasSession
  <2>2. step'[p] # "pid" /\ \A q \in Inv : q # p => step'[q] = step[q]
    BY <1>5 DEF RecvPid, HasSession
  <2>. QED
    BY <1>5, <2>1, <2>2, ZenonT(30) DEF RecvPid
<1>6. ASSUME NEW p \in Inv, Remove(p) \/ Bind(p) \/ Listen(p) PROVE TypeOK'
  BY <1>6 DEF Remove, Bind, Listen
<1>7. ASSUME NEW p \in Inv, Fork(p) \/ ForkFails(p) PROVE TypeOK'
  BY <1>7 DEF Fork, ForkFails
<1>8. ASSUME NEW p \in Inv, StatusOk(p) PROVE TypeOK'
  BY <1>8 DEF StatusOk
<1>9. ASSUME NEW p \in Inv, StatusErr(p) \/ RemoveFailed(p) PROVE TypeOK'
  BY <1>9 DEF StatusErr, RemoveFailed
<1>10. ASSUME NEW p \in Inv, ServerRuns(p) \/ CommandRuns(p) PROVE TypeOK'
  <2>0. /\ {"cmd"} \in SUBSET {"server", "cmd"} /\ {} \in SUBSET {"server", "cmd"}
        /\ writers[p] \ {"cmd"} \in SUBSET {"server", "cmd"}
    OBVIOUS
  <2>1. CASE Forkpty(p) \/ ForkptyFails(p)
    <3>1. writers' \in [Inv -> SUBSET {"server", "cmd"}]
      BY <2>0, <2>1 DEF Forkpty, ForkptyFails
    <3>2. CASE Forkpty(p)
      BY <3>1, <3>2 DEF Forkpty
    <3>3. CASE ForkptyFails(p)
      <4>1. message' \in [Inv -> BOOLEAN]
        BY <3>3, Zenon DEF ForkptyFails
      <4>. QED
        BY <3>1, <3>3, <4>1 DEF ForkptyFails
    <3>. QED
      BY <2>1, <3>2, <3>3
  <2>2. CASE GuardDrop(p)
    BY <2>2 DEF GuardDrop
  <2>3. CASE Exec(p) \/ ExecFails(p)
    <3>1. writers' \in [Inv -> SUBSET {"server", "cmd"}]
      BY <2>0, <2>3 DEF Exec, ExecFails
    <3>2. CASE Exec(p)
      BY <3>1, <3>2 DEF Exec
    <3>3. CASE ExecFails(p)
      <4>1. message' \in [Inv -> BOOLEAN]
        BY <3>3, Zenon DEF ExecFails
      <4>. QED
        BY <3>1, <3>3, <4>1 DEF ExecFails
    <3>. QED
      BY <2>3, <3>2, <3>3
  <2>. QED
    BY <1>10, <2>1, <2>2, <2>3 DEF ServerRuns, CommandRuns
<1>11. ASSUME NEW p \in Inv, ServerEnds(p) \/ Killed(p) PROVE TypeOK'
  BY <1>11 DEF ServerEnds, Killed
<1>12. CASE Quiet \/ UNCHANGED vars
  BY <1>12 DEF Quiet, vars
<1>. QED
  BY <1>1, <1>2, <1>3, <1>4, <1>5, <1>6, <1>7, <1>8, <1>9, <1>10, <1>11, <1>12
  DEF Next, Runs

(* A step of one invocation, its server or its command leaves the others    *)
(* as they are.                                                             *)
LEMMA OthersStep ==
    ASSUME TypeOK, NEW p \in Inv,
           \/ Start(p) \/ Runs(p) \/ ServerRuns(p) \/ CommandRuns(p)
           \/ ServerEnds(p) \/ Killed(p),
           NEW q \in Inv, q # p, StartupInStep(q)
    PROVE  StartupInStep(q)'
<1>1. CASE Start(p) \/ Runs(p)
  <2>1. /\ step'[q] = step[q] /\ stage'[q] = stage[q] /\ created'[q] = created[q]
        /\ srv'[q] = srv[q] /\ cmd'[q] = cmd[q]
        /\ writers'[q] = writers[q] /\ message'[q] = message[q]
    BY <1>1 DEF TypeOK, Start, Runs, Connect, ConnectMissing, ConnectRefused, Unlink, RecvPid,
                RecvEof, Remove, Bind, Listen, Fork, ForkFails, StatusOk, StatusErr,
                RemoveFailed, NoSession, HasSession, GoTo, End, ConnectFor, serverVars
  <2>. QED
    BY <2>1 DEF StartupInStep
<1>2. CASE ServerRuns(p) \/ CommandRuns(p) \/ ServerEnds(p) \/ Killed(p)
  <2>1. /\ step'[q] = step[q] /\ stage'[q] = stage[q] /\ created'[q] = created[q]
        /\ srv'[q] = srv[q] /\ cmd'[q] = cmd[q]
        /\ writers'[q] = writers[q] /\ message'[q] = message[q]
    BY <1>2 DEF TypeOK, ServerRuns, CommandRuns, Forkpty, ForkptyFails, GuardDrop, Exec,
                ExecFails, ServerEnds, Killed, invVars
  <2>. QED
    BY <2>1 DEF StartupInStep
<1>. QED
  BY <1>1, <1>2

(* Its own step keeps an invocation, its server and its command in step. *)
LEMMA OwnStep ==
    ASSUME TypeOK, NEW p \in Inv, StartupInStep(p),
           \/ Start(p) \/ Runs(p) \/ ServerRuns(p) \/ CommandRuns(p)
           \/ ServerEnds(p) \/ Killed(p)
    PROVE  StartupInStep(p)'
<1>. USE DEF TypeOK, StartupInStep, GoTo, End, ConnectFor
<1>1. CASE Start(p) \/ Connect(p) \/ ConnectRefused(p)
  BY <1>1 DEF Start, Connect, ConnectRefused, NoSession, serverVars
<1>2. CASE ConnectMissing(p) \/ Unlink(p) \/ RecvEof(p)
  <2>1. NoSession(p) /\ UNCHANGED <<created, serverVars>>
        /\ step[p] \in {"connect", "unlink", "pid"}
    BY <1>2 DEF ConnectMissing, Unlink, RecvEof
  <2>. QED
    BY <2>1 DEF NoSession, serverVars
<1>3. CASE RecvPid(p)
  BY <1>3 DEF RecvPid, HasSession, serverVars
<1>4. CASE Remove(p) \/ Bind(p) \/ Listen(p) \/ ForkFails(p)
  BY <1>4 DEF Remove, Bind, Listen, ForkFails, serverVars
<1>5. CASE Fork(p)
  BY <1>5 DEF Fork
<1>6. CASE StatusOk(p)
  <2>1. cmd[p] = "execed" \/ srv[p] = "killed"
    BY <1>6 DEF StatusOk
  <2>. QED
    BY <1>6, <2>1 DEF StatusOk, serverVars
<1>7. CASE StatusErr(p) \/ RemoveFailed(p)
  BY <1>7 DEF StatusErr, RemoveFailed, serverVars
<1>8. CASE Forkpty(p) \/ ForkptyFails(p)
  BY <1>8 DEF Forkpty, ForkptyFails, invVars
<1>9. CASE Exec(p) \/ ExecFails(p)
  BY <1>9 DEF Exec, ExecFails, invVars
<1>10. CASE GuardDrop(p) \/ ServerEnds(p) \/ Killed(p)
  BY <1>10 DEF GuardDrop, ServerEnds, Killed, invVars
<1>. QED
  BY <1>1, <1>2, <1>3, <1>4, <1>5, <1>6, <1>7, <1>8, <1>9, <1>10
  DEF Runs, ServerRuns, CommandRuns

LEMMA StartupStep == StartupInv /\ [Next]_vars => StartupInv'
<1>. SUFFICES ASSUME StartupInv, [Next]_vars PROVE StartupInv'
  OBVIOUS
<1>1. TypeOK'
  BY TypeStep DEF StartupInv
<1>2. CASE Quiet \/ UNCHANGED vars
  BY <1>1, <1>2 DEF StartupInv, StartupInStep, Quiet, vars
<1>3. ASSUME NEW p \in Inv,
             \/ Start(p) \/ Runs(p) \/ ServerRuns(p) \/ CommandRuns(p)
             \/ ServerEnds(p) \/ Killed(p)
      PROVE  StartupInv'
  <2>1. ASSUME NEW q \in Inv PROVE StartupInStep(q)'
    BY <1>3, OwnStep, OthersStep DEF StartupInv
  <2>. QED
    BY <1>1, <2>1 DEF StartupInv
<1>. QED
  BY <1>2, <1>3 DEF Next

LEMMA StartupInvariance == Spec => []StartupInv
BY StartupInit, StartupStep, PTL DEF Spec

(* An invocation waits for a session's pid only where it is connected, and  *)
(* every variable keeps its type.                                           *)
THEOREM SocketsTyped == Spec => []TypeOK
<1>1. StartupInv => TypeOK
  BY DEF StartupInv
<1>. QED
  BY <1>1, StartupInvariance, PTL

(* create_session tells its caller the truth about the command, whatever    *)
(* the number of invocations, their overlaps and the failures of fork,      *)
(* forkpty and exec.                                                        *)
THEOREM StartupCorrect == Spec => []StartupTruthful
<1>1. StartupInv => StartupTruthful
  BY DEF StartupInv, StartupInStep, StartupTruthful
<1>. QED
  BY <1>1, StartupInvariance, PTL

-------------------------------------------------------------------------------
(* Names.  A session keeps its name as long as no two invocations are at    *)
(* work on it together.                                                     *)


(* A server that has its session to offer, and an invocation that is        *)
(* clearing the path or has put its own socket there, or whose server is on *)
(* its way out.                                                             *)
Live(p) == srv[p] \in {"starting", "running"} /\ cmd[p] # "failed"

Clearing(p) == step[p] \in {"unlink", "remove", "bind"}

Busy(p) ==
    \/ Clearing(p)
    \/ step[p] \in {"listen", "fork", "status", "failed"}
    \/ srv[p] = "exiting"
    \/ srv[p] = "running" /\ cmd[p] = "failed"

(* What holds of every invocation, calm or not. *)
ProgramInStep(p) ==
    /\ stage[p] = "list" <=> Program[p] = "list"
    /\ Program[p] = "list" => step[p] \in {"start", "connect", "pid", "done"} /\ srv[p] = "none"
    /\ srv[p] = "running" => cmd[p] # "none"
    /\ step[p] = "failed" => message[p]

(* The path names the socket of a live server, and that socket listens; it  *)
(* names the socket that is being set up, and the one a probe waits for.    *)
NameInStep(p) ==
    /\ Live(p) => file = p /\ listener[p] = "listening"
    /\ step[p] \in {"listen", "fork"} => file = p
    /\ step[p] = "fork" => listener[p] = "listening"
    /\ step[p] = "pid" /\ stage[p] = "create" => file = peer[p]
    /\ Clearing(p) => ~Live(p)

(* Nobody's server is live while another invocation may remove the path. *)
Apart(p, q) == Busy(p) /\ p # q => ~Live(q)

NameInv ==
    /\ Alone
    /\ \A p \in Inv : NameInStep(p)
    /\ \A p, q \in Inv : Apart(p, q)

NamesInv ==
    /\ StartupInv
    /\ \A p \in Inv : ProgramInStep(p)
    /\ calm => NameInv

(* A step of one invocation, its server or its command. *)
StepOf(p) ==
    \/ Start(p) \/ Runs(p) \/ ServerRuns(p) \/ CommandRuns(p)
    \/ ServerEnds(p) \/ Killed(p)

Same(q) ==
    /\ step'[q] = step[q] /\ stage'[q] = stage[q] /\ peer'[q] = peer[q]
    /\ srv'[q] = srv[q] /\ cmd'[q] = cmd[q] /\ message'[q] = message[q]
    /\ listener'[q] = listener[q]

(* It leaves the others as they are. *)
LEMMA OthersSame ==
    ASSUME TypeOK, NEW p \in Inv, StepOf(p), NEW q \in Inv, q # p
    PROVE  Same(q)
<1>. USE DEF Same, TypeOK
<1>1. CASE Start(p) \/ Runs(p)
  BY <1>1 DEF Start, Runs, Connect, ConnectMissing, ConnectRefused, Unlink, RecvPid,
              RecvEof, Remove, Bind, Listen, Fork, ForkFails, StatusOk, StatusErr,
              RemoveFailed, NoSession, HasSession, GoTo, End, ConnectFor, serverVars
<1>2. CASE ServerRuns(p) \/ CommandRuns(p) \/ ServerEnds(p) \/ Killed(p)
  BY <1>2 DEF ServerRuns, CommandRuns, Forkpty, ForkptyFails, GuardDrop, Exec,
              ExecFails, ServerEnds, Killed, LetGo, invVars
<1>. QED
  BY <1>1, <1>2 DEF StepOf

(* Its own control stays within its program. *)
LEMMA OwnProgram ==
    ASSUME TypeOK, NEW p \in Inv, StartupInStep(p), ProgramInStep(p), StepOf(p)
    PROVE  ProgramInStep(p)'
<1>. USE DEF TypeOK, ProgramInStep, GoTo, End, ConnectFor
<1>1. CASE Start(p) \/ Connect(p) \/ ConnectRefused(p)
  BY <1>1 DEF Start, Connect, ConnectRefused, NoSession, serverVars
<1>2. CASE ConnectMissing(p) \/ Unlink(p) \/ RecvEof(p)
  <2>1. NoSession(p) /\ UNCHANGED serverVars
    BY <1>2 DEF ConnectMissing, Unlink, RecvEof
  <2>. QED
    BY <2>1 DEF NoSession, serverVars
<1>3. CASE RecvPid(p)
  BY <1>3 DEF RecvPid, HasSession, serverVars
<1>4. CASE Remove(p) \/ Bind(p) \/ Listen(p) \/ ForkFails(p)
  BY <1>4 DEF Remove, Bind, Listen, ForkFails, serverVars
<1>5. CASE Fork(p)
  BY <1>5 DEF Fork
<1>6. CASE StatusOk(p) \/ StatusErr(p) \/ RemoveFailed(p)
  BY <1>6 DEF StatusOk, StatusErr, RemoveFailed, serverVars
<1>7. CASE Forkpty(p) \/ ForkptyFails(p)
  BY <1>7 DEF Forkpty, ForkptyFails, invVars
<1>8. CASE Exec(p) \/ ExecFails(p)
  BY <1>8 DEF Exec, ExecFails, invVars
<1>9. CASE GuardDrop(p) \/ ServerEnds(p) \/ Killed(p)
  BY <1>9 DEF GuardDrop, ServerEnds, Killed, invVars
<1>. QED
  BY <1>1, <1>2, <1>3, <1>4, <1>5, <1>6, <1>7, <1>8, <1>9
  DEF StepOf, Runs, ServerRuns, CommandRuns

LEMMA BusyAtWork ==
    ASSUME NEW p \in Inv, ProgramInStep(p), Busy(p)
    PROVE  AtWork(p)
BY DEF ProgramInStep, Busy, Clearing, AtWork

(* What a step of p may do to the name. *)
OwnStepOK(p) ==
    /\ NameInStep(p)'
    /\ Busy(p)' => Busy(p) \/ \A q \in Inv : q # p => ~Live(q)
    /\ Live(p)' => Live(p) \/ step[p] = "fork"
    /\ file' # file => Busy(p)

LEMMA OwnName ==
    ASSUME StartupInv, NEW p \in Inv, ProgramInStep(p), NameInv, StepOf(p)
    PROVE  OwnStepOK(p)
<1>. USE DEF TypeOK, Live, Clearing, Busy, NameInStep, GoTo, End, ConnectFor
<1>0. TypeOK /\ StartupInStep(p) /\ NameInStep(p)
  BY DEF StartupInv, NameInv
<1>1. ASSUME NEW q \in Inv, Live(q) PROVE file = q /\ listener[q] = "listening"
  BY <1>1 DEF NameInv
<1>2. CASE Start(p)
  BY <1>0, <1>2 DEF OwnStepOK, Start, serverVars
<1>3. CASE Connect(p)
  BY <1>0, <1>3 DEF OwnStepOK, Connect, serverVars
<1>4. CASE ConnectRefused(p)
  <2>1. \A q \in Inv : ~Live(q)
    BY <1>1, <1>4 DEF ConnectRefused
  <2>. QED
    BY <1>0, <1>4, <2>1 DEF OwnStepOK, ConnectRefused, NoSession, serverVars
<1>5. CASE ConnectMissing(p)
  <2>1. \A q \in Inv : ~Live(q)
    BY <1>1, <1>5, InvAssumption DEF ConnectMissing
  <2>. QED
    BY <1>0, <1>5, <2>1 DEF OwnStepOK, ConnectMissing, NoSession, serverVars
<1>6. CASE Unlink(p)
  BY <1>0, <1>6 DEF OwnStepOK, Unlink, NoSession, serverVars
<1>7. CASE RecvEof(p)
  <2>1. stage[p] = "create" => \A q \in Inv : ~Live(q)
    BY <1>0, <1>1, <1>7 DEF RecvEof
  <2>. QED
    BY <1>0, <1>7, <2>1 DEF OwnStepOK, RecvEof, NoSession, serverVars
<1>8. CASE RecvPid(p)
  BY <1>0, <1>8 DEF OwnStepOK, RecvPid, HasSession, serverVars
<1>9. CASE Remove(p)
  BY <1>0, <1>9 DEF OwnStepOK, Remove, serverVars
<1>10. CASE Bind(p)
  BY <1>0, <1>10 DEF OwnStepOK, Bind, serverVars
<1>11. CASE Listen(p)
  BY <1>0, <1>11 DEF OwnStepOK, Listen, serverVars
<1>12. CASE Fork(p)
  BY <1>0, <1>12 DEF OwnStepOK, Fork
<1>13. CASE ForkFails(p)
  BY <1>0, <1>13 DEF OwnStepOK, ForkFails, serverVars, StartupInStep
<1>14. CASE StatusOk(p)
  BY <1>0, <1>14 DEF OwnStepOK, StatusOk, serverVars
<1>15. CASE StatusErr(p)
  BY <1>0, <1>15 DEF OwnStepOK, StatusErr, serverVars
<1>16. CASE RemoveFailed(p)
  <2>1. ~Live(p)
    BY <1>0, <1>16 DEF RemoveFailed, StartupInStep, ProgramInStep
  <2>. QED
    BY <1>0, <1>16, <2>1 DEF OwnStepOK, RemoveFailed, serverVars
<1>17. CASE Forkpty(p)
  BY <1>0, <1>17 DEF OwnStepOK, Forkpty, invVars, StartupInStep
<1>18. ASSUME Live(p) PROVE \A q \in Inv : q # p => ~Live(q)
  BY <1>1, <1>18
<1>19. CASE ForkptyFails(p)
  <2>1. Live(p)
    BY <1>0, <1>19 DEF ForkptyFails, StartupInStep
  <2>. QED
    BY <1>0, <1>18, <1>19, <2>1 DEF OwnStepOK, ForkptyFails, invVars, StartupInStep
<1>20. CASE Exec(p)
  BY <1>0, <1>20 DEF OwnStepOK, Exec, LetGo, invVars, StartupInStep
<1>21. CASE ExecFails(p)
  <2>1. srv[p] = "running" => Live(p)
    BY <1>21 DEF ExecFails
  <2>. QED
    BY <1>0, <1>18, <1>21, <2>1 DEF OwnStepOK, ExecFails, LetGo, invVars, StartupInStep
<1>22. CASE ServerEnds(p)
  <2>1. Busy(p) \/ Live(p)
    BY <1>22 DEF ServerEnds
  <2>. QED
    BY <1>0, <1>18, <1>22, <2>1 DEF OwnStepOK, ServerEnds, LetGo, invVars, StartupInStep
<1>23. CASE GuardDrop(p)
  BY <1>0, <1>23 DEF OwnStepOK, GuardDrop, invVars, StartupInStep
<1>24. CASE Killed(p)
  BY <1>0, <1>24 DEF OwnStepOK, Killed, LetGo, invVars, StartupInStep
<1>. QED
  BY <1>2, <1>3, <1>4, <1>5, <1>6, <1>7, <1>8, <1>9, <1>10, <1>11, <1>12, <1>13, <1>14, <1>15,
     <1>16, <1>17, <1>19, <1>20, <1>21, <1>22, <1>23, <1>24
  DEF StepOf, Runs, ServerRuns, CommandRuns

(* The others keep their name: where the path changes nobody else has one   *)
(* to lose.                                                                 *)
LEMMA OthersName ==
    ASSUME StartupInv, \A p \in Inv : ProgramInStep(p), NameInv, Alone',
           NEW p \in Inv, StepOf(p)
    PROVE  NameInv'
<1>0. OwnStepOK(p)
  BY OwnName
<1>1. ASSUME NEW q \in Inv, q # p PROVE Same(q) /\ (Live(q)' <=> Live(q)) /\ (Busy(q)' <=> Busy(q))
  <2>1. Same(q)
    BY <1>1, OthersSame DEF StartupInv
  <2>. QED
    BY <2>1 DEF Same, Live, Busy, Clearing
<1>2. ASSUME NEW q \in Inv, q # p, Busy(p), AtWork(q) PROVE FALSE
  BY <1>2, BusyAtWork DEF NameInv, Alone
<1>3. ASSUME NEW q \in Inv PROVE NameInStep(q)'
  <2>1. CASE q = p
    BY <1>0, <2>1 DEF OwnStepOK
  <2>2. CASE q # p
    <3>1. NameInStep(q) /\ Apart(p, q) /\ ProgramInStep(q)
      BY DEF NameInv
    <3>2. Same(q) /\ (Live(q)' <=> Live(q)) /\ (Busy(q)' <=> Busy(q))
      BY <1>1, <2>2
    <3>3. CASE file' = file
      BY <3>1, <3>2, <3>3 DEF NameInStep, Same, Clearing
    <3>4. CASE file' # file
      <4>1. Busy(p)
        BY <1>0, <3>4 DEF OwnStepOK
      <4>2. ~Live(q)
        BY <2>2, <3>1, <4>1 DEF Apart
      <4>3. ~AtWork(q)
        BY <1>2, <2>2, <4>1
      <4>4. step[q] \notin {"listen", "fork"} /\ ~(step[q] = "pid" /\ stage[q] = "create")
        BY <3>1, <4>3 DEF AtWork, ProgramInStep
      <4>. QED
        BY <3>2, <4>2, <4>4 DEF NameInStep, Same
    <3>. QED
      BY <3>3, <3>4
  <2>. QED
    BY <2>1, <2>2
<1>4. ASSUME NEW q \in Inv, NEW r \in Inv, q # r, Busy(q)', Live(r)' PROVE FALSE
  <2>0. Apart(q, r)
    BY DEF NameInv
  <2>1. CASE q = p
    <3>1. Live(r)
      BY <1>1, <1>4, <2>1
    <3>2. Busy(p)
      BY <1>0, <1>4, <2>1, <3>1 DEF OwnStepOK
    <3>. QED
      BY <1>4, <2>0, <2>1, <3>1, <3>2 DEF Apart
  <2>2. CASE r = p
    <3>1. Busy(q)
      BY <1>1, <1>4, <2>2
    <3>2. ~Live(p)
      BY <1>4, <2>0, <2>2, <3>1 DEF Apart
    <3>3. step[p] = "fork"
      BY <1>0, <1>4, <2>2, <3>2 DEF OwnStepOK
    <3>4. Busy(p) /\ AtWork(q)
      BY <3>1, <3>3, BusyAtWork DEF Busy
    <3>. QED
      BY <1>2, <1>4, <2>2, <3>4
  <2>3. CASE q # p /\ r # p
    BY <1>1, <1>4, <2>0, <2>3 DEF Apart
  <2>. QED
    BY <2>1, <2>2, <2>3
<1>. QED
  BY <1>3, <1>4 DEF NameInv, Apart

LEMMA NamesInvInit == NamesInit => NamesInv
<1>. SUFFICES ASSUME NamesInit PROVE NamesInv
  OBVIOUS
<1>1. StartupInv
  BY StartupInit DEF NamesInit
<1>2. ASSUME NEW p \in Inv
      PROVE  step[p] = "start" /\ srv[p] = "none" /\ cmd[p] = "none" /\ stage[p] = FirstStage(p)
  BY DEF NamesInit, Init
<1>3. \A p \in Inv : ProgramInStep(p)
  BY <1>2, InvAssumption DEF ProgramInStep, FirstStage
<1>4. NameInv
  BY <1>2 DEF NameInv, NameInStep, Apart, Busy, Clearing, Live, Alone, AtWork
<1>. QED
  BY <1>1, <1>3, <1>4 DEF NamesInv

LEMMA NamesInvStep == NamesInv /\ [NamesNext]_namesVars => NamesInv'
<1>. SUFFICES ASSUME NamesInv, [NamesNext]_namesVars PROVE NamesInv'
  OBVIOUS
<1>1. [Next]_vars /\ (calm' => calm)
  <2>1. CASE NamesNext
    BY <2>1, Zenon DEF NamesNext
  <2>2. CASE UNCHANGED namesVars
    BY <2>2, Zenon DEF namesVars
  <2>. QED
    BY <2>1, <2>2
<1>2. StartupInv'
  BY <1>1, StartupStep DEF NamesInv
<1>3. CASE UNCHANGED vars
  <2>1. \A p \in Inv : ProgramInStep(p)'
    BY <1>3 DEF NamesInv, ProgramInStep, vars
  <2>2. NameInv => NameInv'
    BY <1>3 DEF NameInv, NameInStep, Apart, Busy, Clearing, Live, Alone, AtWork, vars
  <2>. QED
    BY <1>1, <1>2, <2>1, <2>2 DEF NamesInv
<1>4. ASSUME NEW p \in Inv, StepOf(p), calm' => Alone' PROVE NamesInv'
  <2>1. ASSUME NEW q \in Inv PROVE ProgramInStep(q)'
    <3>1. CASE q = p
      BY <1>4, <3>1, OwnProgram DEF NamesInv, StartupInv
    <3>2. CASE q # p
      <4>1. Same(q)
        BY <1>4, <3>2, OthersSame DEF NamesInv, StartupInv
      <4>. QED
        BY <4>1 DEF Same, NamesInv, ProgramInStep
    <3>. QED
      BY <3>1, <3>2
  <2>2. calm' => NameInv'
    BY <1>1, <1>4, OthersName DEF NamesInv
  <2>. QED
    BY <1>2, <2>1, <2>2 DEF NamesInv
<1>5. NamesNext => UNCHANGED vars \/ \E p \in Inv : StepOf(p)
  BY DEF NamesNext, Next, Quiet, StepOf
<1>6. NamesNext => (calm' => Alone')
  BY DEF NamesNext
<1>. QED
  BY <1>3, <1>4, <1>5, <1>6 DEF namesVars

(* No create takes a live session's name and nobody removes the file of     *)
(* another session, for any number of invocations, whatever ends, is killed *)
(* or fails between connect_session, create_session and the SocketGuard, as *)
(* long as no two of them are at work together.                             *)
THEOREM SessionsReachable == NamesSpec => []Reachable
<1>1. ASSUME NamesInv PROVE Reachable
  <2>. SUFFICES ASSUME calm, NEW p \in Inv, created[p], srv[p] = "running" PROVE file = p
    BY DEF Reachable
  <2>1. StartupInStep(p) /\ NameInStep(p)
    BY <1>1 DEF NamesInv, StartupInv, NameInv
  <2>. QED
    BY <2>1 DEF StartupInStep, NameInStep, Live
<1>. QED
  BY <1>1, NamesInvInit, NamesInvStep, PTL DEF NamesSpec
===============================================================================
