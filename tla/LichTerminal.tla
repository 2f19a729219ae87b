------------------------------ MODULE LichTerminal ------------------------------
(***************************************************************************)
(* An attached client and its user's terminal: attach_session around       *)
(* client_loop, RawMode and SIGWINCH, of src/src/main.rs.  What the client *)
(* receives and sends otherwise is in LichClient; here a packet or a key   *)
(* comes when it likes.                                                    *)
(*                                                                         *)
(* The terminal's size is the number of times it has changed.  A signal    *)
(* can come between any two steps.                                         *)
(***************************************************************************)
EXTENDS Naturals

CONSTANTS
    Kinds,         \* how it is started: stdin is a terminal or not, with -p or not
    MaxResizes,    \* changes of the terminal's size
    Early          \* whether it may change before the handler is installed

(* Without a terminal real_main sets -p itself. *)
ASSUME TerminalAssumption ==
    /\ Kinds \subseteq [tty : BOOLEAN, passthrough : BOOLEAN]
    /\ \A k \in Kinds : k.tty \/ k.passthrough
    /\ MaxResizes \in Nat
    /\ Early \in BOOLEAN

VARIABLES
    pc,            \* where in attach_session the client is
    opts,          \* the kind it is of
    size,          \* the terminal's size
    mode,          \* and its modes
    handler,       \* SIGWINCH is caught
    pending,       \* WINCH_PENDING
    intr,          \* a signal has come while select waits
    fds,           \* what select found readable
    ws,            \* what current_winsize found
    told,          \* the size last sent to the server
    saved,         \* the RawMode guard holds the old modes
    status         \* how client_loop, or attach_session, ended

vars == <<pc, opts, size, mode, handler, pending, intr, fds, ws, told, saved, status>>

Init ==
    /\ pc = "attach"
    /\ opts \in Kinds
    /\ size = 0
    /\ mode = "cooked"
    /\ handler = FALSE
    /\ pending = FALSE
    /\ intr = FALSE
    /\ fds = {}
    /\ ws = 0
    /\ told = 0
    /\ saved = FALSE
    /\ status = "none"

PCs == {"attach", "winsize", "send", "signal", "enter", "select", "eintr", "recv",
        "stdin", "leave", "default", "done"}

(* The types, and what the control keeps in step: only a waiting select can *)
(* be interrupted, and the guard holds modes exactly while the terminal is  *)
(* raw, but for a client that was killed.                                   *)
TypeOK ==
    /\ pc \in PCs
    /\ opts \in [tty : BOOLEAN, passthrough : BOOLEAN]
    /\ size \in Nat
    /\ mode \in {"cooked", "raw"}
    /\ handler \in BOOLEAN
    /\ pending \in BOOLEAN
    /\ intr \in BOOLEAN
    /\ fds \subseteq {"sock", "stdin"}
    /\ ws \in Nat
    /\ told \in Nat
    /\ saved \in BOOLEAN
    /\ status \in {"none", "detached", "exited", "ioerror", "error", "killed"}
    /\ intr => pc = "select"
    /\ status # "killed" => (saved <=> mode = "raw")

-------------------------------------------------------------------------------
GoTo(l) == pc' = l /\ UNCHANGED status

(* client_loop returns, or an error is propagated from it or before it. *)
LeaveWith(s) == pc' = "leave" /\ status' = s

(* Connecting, MSG_PID and MSG_ATTACH, any of which may fail. *)
Attach ==
    /\ pc = "attach"
    /\ GoTo("winsize") \/ LeaveWith("error")
    /\ UNCHANGED <<opts, size, mode, handler, pending, intr, fds, ws, told, saved>>

(* send_resize: the size is asked for ... *)
current_winsize ==
    /\ pc = "winsize"
    /\ ws' = IF opts.tty THEN size ELSE 0
    /\ GoTo("send")
    /\ UNCHANGED <<opts, size, mode, handler, pending, intr, fds, told, saved>>

(* The first size is sent before the handler is installed.  In the loop     *)
(* stdin still has its turn, or select comes next.                          *)
AfterSize ==
    IF handler THEN (IF "stdin" \in fds THEN "stdin" ELSE "select") ELSE "signal"

(* Forgetting the flag once the size is sent, and not before it is asked for. *)
SendResizeThenForget ==
    /\ pc = "send"
    /\ \/ /\ told' = ws
          /\ GoTo(AfterSize)
       \/ /\ LeaveWith("error")
          /\ UNCHANGED told
    /\ pending' = FALSE
    /\ UNCHANGED <<opts, size, mode, handler, intr, fds, ws, saved>>

(* ... and sent, which may fail. *)
SendResize ==
    /\ pc = "send"
    /\ \/ /\ told' = ws
          /\ GoTo(AfterSize)
       \/ /\ LeaveWith("error")
          /\ UNCHANGED told
    /\ ws' = 0
    /\ UNCHANGED <<opts, size, mode, handler, pending, intr, fds, saved>>

InstallHandler ==
    /\ pc = "signal"
    /\ handler' = TRUE
    /\ GoTo("enter")
    /\ UNCHANGED <<opts, size, mode, pending, intr, fds, ws, told, saved>>

(* Handing out a guard that holds nothing for a terminal made raw. *)
EnterRawModeUnsaved ==
    /\ pc = "enter"
    /\ \/ /\ opts.tty /\ ~opts.passthrough
          /\ mode' = "raw"
       \/ UNCHANGED mode
    /\ GoTo("select")
    /\ UNCHANGED <<opts, size, handler, pending, intr, fds, ws, told, saved>>

(* RawMode::enter.  tcgetattr may fail even on a terminal, and then the     *)
(* modes are left alone.                                                    *)
EnterRawMode ==
    /\ pc = "enter"
    /\ \/ /\ opts.tty /\ ~opts.passthrough
          /\ mode' = "raw"
          /\ saved' = TRUE
       \/ UNCHANGED <<mode, saved>>
    /\ GoTo("select")
    /\ UNCHANGED <<opts, size, handler, pending, intr, fds, ws, told>>

-------------------------------------------------------------------------------
(* client_loop.  select returns what is readable, a signal or not ... *)
SelectReady(ready) ==
    /\ pc = "select"
    /\ ready # {}
    /\ fds' = ready
    /\ intr' = FALSE
    /\ GoTo(IF "sock" \in ready THEN "recv" ELSE "stdin")
    /\ UNCHANGED <<opts, size, mode, handler, pending, ws, told, saved>>

(* ... or EINTR when there is nothing ... *)
SelectInterrupted ==
    /\ pc = "select"
    /\ intr
    /\ intr' = FALSE
    /\ GoTo("eintr")
    /\ UNCHANGED <<opts, size, mode, handler, pending, fds, ws, told, saved>>

(* ... or fails otherwise, and client_loop with it. *)
SelectFails ==
    /\ pc = "select"
    /\ intr' = FALSE
    /\ LeaveWith("error")
    /\ UNCHANGED <<opts, size, mode, handler, pending, fds, ws, told, saved>>

(* The only place that looks at WINCH_PENDING. *)
SwapPending ==
    /\ pc = "eintr"
    /\ pending' = FALSE
    /\ GoTo(IF pending THEN "winsize" ELSE "select")
    /\ UNCHANGED <<opts, size, mode, handler, intr, fds, ws, told, saved>>

(* Going back to select after every packet. *)
RecvThenSelect ==
    /\ pc = "recv"
    /\ \/ GoTo("select")
       \/ GoTo("winsize")
       \/ LeaveWith("exited")
       \/ LeaveWith("ioerror")
       \/ ~opts.passthrough /\ LeaveWith("error")
    /\ fds' = {}
    /\ UNCHANGED <<opts, size, mode, handler, pending, intr, ws, told, saved>>

(* A packet: content, shown or not, after which stdin has its turn;         *)
(* MSG_RESIZE, which asks for the size; the end of the session; or an error *)
(* of the socket or of stdout.                                              *)
Recv ==
    /\ pc = "recv"
    /\ \/ GoTo(IF "stdin" \in fds THEN "stdin" ELSE "select")
       \/ GoTo("winsize")
       \/ LeaveWith("exited")
       \/ LeaveWith("ioerror")
       \/ ~opts.passthrough /\ LeaveWith("error")
    /\ fds' = fds \ {"sock"}
    /\ UNCHANGED <<opts, size, mode, handler, pending, intr, ws, told, saved>>

(* stdin: keys sent on, or dropped by a read-only client; the detach key or *)
(* the end of file; or an error of stdin or of the socket.                  *)
Stdin ==
    /\ pc = "stdin"
    /\ GoTo("select") \/ LeaveWith("detached") \/ LeaveWith("error")
    /\ fds' = {}
    /\ UNCHANGED <<opts, size, mode, handler, pending, intr, ws, told, saved>>

-------------------------------------------------------------------------------
(* Ending the process on MSG_EXIT without dropping the guard. *)
DropRawModeUnlessExited ==
    /\ pc = "leave"
    /\ mode' = IF saved /\ status # "exited" THEN "cooked" ELSE mode
    /\ saved' = (saved /\ status = "exited")
    /\ GoTo(IF status = "error" THEN "done" ELSE "default")
    /\ UNCHANGED <<opts, size, handler, pending, intr, fds, ws, told>>

(* The guard is dropped, by name or with the scope an error leaves, and     *)
(* puts back what it saved.  An error skips the rest.                       *)
DropRawMode ==
    /\ pc = "leave"
    /\ mode' = IF saved THEN "cooked" ELSE mode
    /\ saved' = FALSE
    /\ GoTo(IF status = "error" THEN "done" ELSE "default")
    /\ UNCHANGED <<opts, size, handler, pending, intr, fds, ws, told>>

(* SIG_DFL, the message, and process::exit with the session's code. *)
DefaultHandler ==
    /\ pc = "default"
    /\ handler' = FALSE
    /\ GoTo("done")
    /\ UNCHANGED <<opts, size, mode, pending, intr, fds, ws, told, saved>>

-------------------------------------------------------------------------------
(* The user's window changes: SIGWINCH, which is ignored until the handler  *)
(* is installed; handle_sigwinch sets the flag.                             *)
Resize ==
    /\ pc # "done"
    /\ opts.tty
    /\ size < MaxResizes
    /\ Early \/ handler
    /\ size' = size + 1
    /\ pending' = (pending \/ handler)
    /\ intr' = (intr \/ (handler /\ pc = "select"))
    /\ UNCHANGED <<pc, opts, mode, handler, fds, ws, told, saved, status>>

(* No guard runs when the client is killed. *)
Killed ==
    /\ pc # "done"
    /\ pc' = "done"
    /\ status' = "killed"
    /\ intr' = FALSE
    /\ UNCHANGED <<opts, size, mode, handler, pending, fds, ws, told, saved>>

(* What the client does of itself. *)
Runs ==
    \/ Attach \/ current_winsize \/ SendResize \/ InstallHandler \/ EnterRawMode
    \/ SelectInterrupted \/ SwapPending \/ Recv \/ Stdin
    \/ DropRawMode \/ DefaultHandler

Over == pc = "done" /\ UNCHANGED vars

Next ==
    \/ Runs
    \/ \E ready \in SUBSET {"sock", "stdin"} : SelectReady(ready)
    \/ SelectFails
    \/ Resize
    \/ Killed
    \/ Over

Spec == Init /\ [][Next]_vars

(* The client is scheduled; nothing has to become readable, and nothing has *)
(* to fail.                                                                 *)
FairSpec == Spec /\ WF_vars(Runs)

-------------------------------------------------------------------------------
(* However an attach ends, with an exit, a detach, a broken connection or   *)
(* an error anywhere in client_loop, of select, of stdin or stdout or of a  *)
(* send, the user gets back a terminal in the modes it had; only killing    *)
(* the client prevents it.                                                  *)
TerminalRestored == pc = "done" /\ status # "killed" => mode = "cooked"

(* The loop and the handler race for WINCH_PENDING and no change is         *)
(* forgotten: while the server has been told another size than the          *)
(* terminal's, the flag is still set or the right size is about to be sent. *)
ResizeRemembered ==
    ~Early /\ opts.tty /\ pc \notin {"attach", "leave", "default", "done"} =>
      \/ told = size
      \/ pending
      \/ pc = "winsize"
      \/ pc = "send" /\ ws = size

(* README.md: pty forwarding "is unchanged from upstream", whose client     *)
(* blocks SIGWINCH but in pselect and looks at the flag on every turn: a    *)
(* change of size reaches the server, or the attach ends.  Violated: here   *)
(* the flag is only looked at when a signal interrupts select.              *)
ResizeForwarded ==
    told # size /\ pc # "attach" ~> told = size \/ pc \in {"leave", "default", "done"}
===============================================================================
