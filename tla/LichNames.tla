------------------------------- MODULE LichNames -------------------------------
(***************************************************************************)
(* When a session keeps its name.  LichSockets shows names being lost when *)
(* invocations meet; this module says how little it takes that they are    *)
(* not.  The history variable calm remembers whether two invocations, with *)
(* the servers they start, have ever been at work on the name together; it *)
(* influences nothing.                                                     *)
(***************************************************************************)
EXTENDS LichSockets

VARIABLE calm

namesVars == <<vars, calm>>

(* An invocation is at work from its start to its end, and while its server *)
(* is starting or ending or has a command that failed, of which create_session *)
(* may have told the user already.  list_sessions does not count.           *)
AtWork(p) ==
    /\ Program[p] # "list"
    /\ \/ step[p] \notin {"start", "done"}
       \/ srv[p] \in {"starting", "exiting"}
       \/ srv[p] = "running" /\ cmd[p] = "failed"

Alone == \A p, q \in Inv : AtWork(p) /\ AtWork(q) => p = q

NamesInit == Init /\ calm = TRUE
NamesNext == Next /\ calm' = (calm /\ Alone')
NamesSpec == NamesInit /\ [][NamesNext]_namesVars /\ Fairness

(* Unless two of them were once at work together, a session that was        *)
(* created and whose server runs can be reached: the path names its socket. *)
(* Servers may end or be killed at any moment, start-up may fail at every   *)
(* system call and lists may be taken meanwhile: no create takes a live     *)
(* session's name, and nobody removes the file of another session.          *)
Reachable ==
    calm => \A p \in Inv : created[p] /\ srv[p] = "running" => file = p
===============================================================================
