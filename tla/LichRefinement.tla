---------------------------- MODULE LichRefinement ----------------------------
(***************************************************************************)
(* The session of LichSession keeps the promises of LichService.           *)
(*                                                                         *)
(* One thing LichService speaks of is not part of the code's state: how    *)
(* much output had been recorded when the end was decided.  The history    *)
(* variable final remembers it and influences nothing.                     *)
(***************************************************************************)
EXTENDS LichSession

VARIABLE final

historyVars == <<vars, final>>

HistoryInit == Init /\ final = 0

HistoryNext ==
    /\ Next
    /\ final' = IF child_exit' # child_exit THEN consumed ELSE final

HistorySpec == HistoryInit /\ [][HistoryNext]_historyVars

Service == INSTANCE LichService WITH
    output <- consumed,
    exit   <- child_exit,
    shown  <- seen,
    told   <- code,
    dumped <- {c \in Conn : Kind[c] = "dump" /\ result[c] = "ok"}

(* Sockets, queues, ticks, the shutdown flag, the drain deadline and the    *)
(* clients' programs together implement the service: a client is shown a    *)
(* gapless run of the output that starts with the history at the moment it  *)
(* attached; when MSG_EXIT tells it the end, it has been shown everything   *)
(* recorded before the end was decided; a dump that succeeds is the history *)
(* at one moment; and input is neither reordered nor repeated.  This takes  *)
(* a queue that can hold what is sent to a client: one that is marked for an*)
(* overflow is still sent the reads that fit (main.rs:989).                 *)
ServiceKept == Service!Spec
===============================================================================
