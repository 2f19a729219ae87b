# A TLA+ verification of lich

`lich` (repository `andylizf/abduco-inline`) is a terminal session manager. A
server process owns a pty and runs a command on it; clients connect through a
Unix socket to attach, to dump the output kept so far, or to send keys. The
program is one file, `src/src/main.rs`. The C program it was rewritten from is
in `src/c/` and is the reference for what the documents call unchanged.

This directory holds TLA+ modules translated from that source, TLC
configurations that check them on small instances, and proofs that TLAPS checks
for every value of the constants.

    cd tla
    tlc -config exit.cfg MCSession       # one run; PROJECT.json lists them all
    tlapm LichSequenceLemmas.tla
    tlapm LichSessionProofs.tla          # this one and the next four
    tlapm LichStreamProofs.tla           # take some minutes each
    tlapm LichInputProofs.tla
    tlapm LichServiceProofs.tla
    tlapm LichTypingProofs.tla
    tlapm LichSocketsProofs.tla
    tlapm LichCommandProofs.tla

## Inventory

| Component | State | Operations | Module |
|---|---|---|---|
| session server loop (`server_loop`, `read_client_packets`, `send_history`, `broadcast_content`) | vector of `Client`s, history, `read_pty`, `child_exit` | accept, read the pty, wait for the child, read packets, queue `MSG_EXIT`, flush, drop clients, return | `LichServer` |
| outgoing queues (`send_packet_nonblocking`, `try_flush_client`) | `send_queue`, `close_after_drain` | queue, flush, overflow, drain deadline | `LichServer` |
| output history (`History`) | `bytes` | `append`, `snapshot` | `LichHistory` |
| wire protocol (`Packet`, `packet_bytes`, `recv_packet_blocking`, `pop_packet`) | partly read packets | encode, decode | `LichKernel`, `LichClient`, `LichTyping` |
| attach client (`attach_session`, `client_loop`) | where in the loop, the packet being read | receive, select, stdin, detach, end of file, exit | `LichClient`, `LichTyping` |
| dump and send-keys clients, session probe | collected output; keys left | request, collect, end; send in chunks; ask for the pid | `LichClient` |
| signals (`handle_shutdown_signal`) | `SHUTDOWN_REQUESTED` | set, poll | `LichServer` |
| pty and child (external) | output written and read, input queue, size, wait status | write, read, end | `LichKernel` |
| session names and start-up (`connect_session`, `session_alive`, `create_session`, `run_server`, `read_startup_status`, `SocketGuard`) | the socket file, listeners, the startup pipe, processes | connect, remove, bind, listen, fork, forkpty, exec, guard | `LichSockets` |
| cut of a dump (`tail_line_start`) | - | last bytes, last lines | `LichTail` |
| the user's terminal (`RawMode`, `handle_sigwinch`, `send_resize`) | modes, size, `WINCH_PENDING` | enter and leave raw mode, resize, forward the size | `LichTerminal` |
| a client's input (`client_loop`, `send_packet_blocking`, `pop_packet`) | keys in the kernel, in `io::stdin()`, in a half-written packet, in `Client.buf` | type, read, send, cut, decode | `LichTyping` |
| command line (`parse_args`, `real_main`) | words left, `Opts` | take a word, dispatch | `LichCommand` |
| session list and paths (`list_sessions`, `socket_path`, `socket_base_dir`) | entries left, lines printed | open, connect, print | `LichCommand` |
| key names, log, process title | - | - | not modelled, see the end |

How they meet. Every invocation of lich is a process of its own. An invocation
that creates a session forks the server, which forks the command; the three
share a startup pipe. From then on processes share only the socket file, one
stream socket per connection, and the pty. The server is one thread that polls
every five milliseconds; everything else happens between any two of its steps.

What is hard about it, and what makes it correct:

- *Queues behind sockets that fill up.* A write stops in the middle of a packet
  while broadcasts, replays, dumps and the exit packet compete for one queue.
  What a client reads must stay framed, and an attached client must see a gapless
  stream where replay and live output meet (`WireFramed`, `StreamComplete`,
  `DumpExact`, `DumpTail`, `QueueBounded`, `HistoryExact`).
- *The end of a session.* The child's death, SIGTERM, slow or dead clients,
  clients that connect too late and the drain deadline race one another. Clients
  must be told one true status, nobody may be cut off without `MSG_EXIT` on its
  way to them, and nobody may wait for ever (`ExitReported`,
  `ExitTruthful`, `ExitDecidedOnce`, `ServerEnds`, `ShutdownHonoured`,
  `ClientsEnd`, `DumpEnds`).
- *Clients that vanish.* Input of a client that has closed its socket must still
  reach the pty, and of one that was killed or reset nothing may be missing from
  the middle (`KeysDelivered`, `InputPrefix`).
- *A child that outlives its server.* It must at least have been signalled, and
  nobody else in its place (`NoOrphan`, `SignalOwnChild`).
- *Keys on their way through five buffers.* `select` looks at the kernel,
  `io::stdin()` reads ahead of it, `write_all` stops anywhere, and the server
  decodes what has come so far (`InputConserved`, `WireDecoded`, `EofAfterAll`,
  `DetachAlone`, `TypingServed`).
- *A directory that changes while it is listed*, and names that look like
  others (`ListComplete`, `ListResolves`); *words whose meaning depends on their
  place* (`ParseMeans`).
- *A signal between two system calls.* The client must neither forget a change of
  its terminal's size nor leave the terminal raw (`ResizeRemembered`,
  `TerminalRestored`).
- *A name shared by processes without a lock.* The file is probed, removed,
  bound and removed again in separate system calls (`Reachable`,
  `StartupTruthful`, `InvocationsEnd`, and the findings below).

PROJECT.json lists the hazards line by line with the properties that cover them.

## Modules

`LichKernel` - constants, packets, and what the kernel holds: per connection the
two ends of the socket and what is in flight each way (`up` in packets, `down`
in cells), the pty and the child. A cell is a packet's header or one payload
unit, so a write can stop between any two. The *i*-th byte the child ever writes
is the number *i*, which lets properties say exactly which bytes somebody has. A
client that closes with unread data leaves a reset, as Linux does for stream
sockets.

`LichHistory` - `History::append` on sequences, and `Newest(n)`, the reference.

`LichServer` - `server_loop` and all it calls. `pc` follows the loop:
`poll -> accept -> pty -> wait -> read [-> handle [-> replay]] -> flush`. One
action is what the server does between two points where anybody else can matter
to it: one accept, one read of the pty with its broadcast, `waitpid`, reading
all of a client's pending bytes, handling one packet, sending one chunk of
history, queueing the exits, and flushing and dropping. The loops over all
clients at the bottom touch one client's own queue and socket each, so they are
one step: a client that drains in between would only make room that the
next tick sees as well. The server's drop of a stream closes its end; returning
from the loop closes the listener and with it the unaccepted connections.
`EXIT_DRAIN_DEADLINE` is two abstract instants (`set`, `late`); `Elapse` moves
from one to the other at any time. Whether a read past the output fails or
would block depends on who has the terminal open: with `background` among the
faults processes of the child's may keep it open after the child's end.

`LichClient` - the client programs, one per connection, chosen by `Kind`.
`recv_packet_blocking` reads part by part; `client_loop` serves the socket first
and then stdin. Typing, detaching, closing stdin and being killed are the
user's choice. A client whose own stdin or stdout fails is to the others a client
that was killed; what it does for its user is in `LichTerminal`.

`LichTail` - what a finished dump prints: the backward search for newlines as a
recursive function, and `IsTail`, the reference in terms of lines. `DumpTail`
compares the two on what a dump collected under all small options, and
(`TailCorrect`) on every output of up to five bytes, since a run's history is
too short for several lines; `DumpsTail` proves it for outputs of any length.

`LichSession` - the composition, its fairness and its properties.

`LichService` - what a session promises, without sockets, packets, queues or
ticks: a growing output of which the newest part is kept; people who are shown a
run of it, dump what is kept, or type; one end. Its steps are `Record`,
`Decide`, `Show`, `Tell`, `Dumped` and `Take`.

`LichRefinement` - `LichSession` implements `LichService`. The refinement
mapping reads the service's state off the session's: the output is what the
server has read of the pty, `shown` is what the client programs have written to
their users, `told` the codes they exit with, `dumped` the dumps that ended
well, and input and exit are the session's own. One thing has no counterpart in
the program: how much output there was when the end was decided. The history
variable `final` records it and influences nothing. Most steps of the
implementation are stuttering steps of the service: all of the framing,
queueing and flushing is invisible in it.

`LichSockets` - one session name and several invocations of lich. `step` follows
an invocation through `connect_session`, `session_alive`, `create_session` and
`read_startup_status`, one system call on shared state per action; `srv`, `cmd`
and `writers` follow the server and the command it forks. Merged into a
neighbour because nobody can tell: the parent's close of its listener (in
`Fork`: the server holds the same socket), and the server's close of the startup
pipe (in `Forkpty`: the command holds it too until it executes). Failures of
`set_nonblocking` in `run_server` make it return, as `ServerEnds` does. The
forked command has the listening socket too until it executes, so the death of
its server closes it only then. A
`SIGTERM` that comes before `execvp` only sets the inherited flag, so the
command still gets executed. `list` is `list_sessions` meeting this name: it
connects by itself and never removes a file.

`LichNames` - when a session keeps its name. The findings show names lost when
invocations meet; the history variable `calm` remembers whether two of them, or
the servers they started, were ever at work together, and `Reachable` is about
the behaviours in which they were not.

`LichTerminal` - an attached client and its terminal: `attach_session` and
`client_loop` once more, with the data left out and the signals put in. A
SIGWINCH can come between any two steps; it interrupts only a `select` that
waits, since the C library restarts the other calls. Every `?` in the code is a
way to `leave`, where the `RawMode` guard is dropped, and so is the error of
`select`. The size is sent on three occasions: once before the handler is
installed, when a signal interrupts `select`, and when `MSG_RESIZE` asks for it;
after the last, stdin still has its turn (`AfterSize`). `Kinds` says which
invocations a run has: with or without a terminal, passed through or not.

`LichTyping` - `LichTerminal` with the data of one direction put back: what the
user types, or pipes in, on its way to the server. Every step is a step of
`LichTerminal` or leaves its variables alone. Keys are numbers (negative for
the detach key); a header is two cells, type and length, and the cells are
numbers like the keys, so a reader that loses its place would take one for the
other. `io::stdin()` asks the kernel only when its own buffer is empty;
`write_all` writes what fits; `ServerRead` appends what has arrived to
`Client.buf` and `ServerPop` is `pop_packet`. The client may die anywhere, which
leaves a packet that never becomes whole. A size asked for by `MSG_RESIZE` goes
on the wire between the keys like any other packet.

`LichCommand` - an invocation from its command line on: `parse_args` one word or
two at a time, `real_main`'s adjustments without a terminal and its dispatch, and
`list_sessions` on a directory in which sessions begin, end and crash meanwhile.
An invocation that attaches goes on as `LichTerminal`. `Meaning` is the
reference for `parse_args`: it reads the line as a whole, by places, where the
code consumes it word by word. A file name is the sequence of its parts between
`@` signs, which is all that `ends_with` (`OfHost`) and `trim_end_matches`
(`Trimmed`) can tell apart. The order in which
`read_dir` yields entries is free, and an entry that appears or vanishes during
the walk may be given or not.

`MCSession`, `MCRefinement`, `MCSockets`, `MCNames`, `MCTerminal`, `MCTyping`,
`MCCommand` - the casts and values for TLC.

`LichSessionProofs`, `LichStreamProofs`, `LichInputProofs`, `LichServiceProofs`,
`LichTypingProofs`, `LichSocketsProofs`, `LichCommandProofs` - theorems, and
`LichSequenceLemmas`, the lemmas on sequences they share.

Operators whose comment describes a mistake (`SendWithoutQueue`,
`GoneWithoutDeadline`, `ExecKeepsPipe`, ...) are not used by any specification.
They are the mutations of PROJECT.json, kept to show that each property notices
the mistake it is there for.

## Runs

Runs that pass:

| Run | Cast and bounds | Shows |
|---|---|---|
| `stream` | an attached client and a dump; socket of 2 cells, packets of 2 bytes, history of 2, queue of 4, 3 bytes of output, failing `fcntl`, background processes | types, framing, gapless stream, history, dumps and their last line, queue cap; with three bytes of output, the output side implements `LichService` although queues overflow |
| `exit` | two attached clients, two ways to die, SIGTERM at any time, failing `fcntl`, background processes | the end is reported by `MSG_EXIT` with the right code, decided once; a connection dropped on accept ends nothing else; the child is waited for or signalled, and never signalled after it was waited for |
| `input` | a send-keys client of two packets and an attached one that types, leaves or is killed | keys reach the pty after their sender has gone, those of a killed client as far as they came; a client that types as the server leaves has `MSG_EXIT` still to read; the input side implements `LichService` |
| `hung` | an attached client and a probe, neither ever scheduled if it does not want to be; SIGTERM, background processes | the server ends all the same |
| `ending` | a read-only client and a dump, two bytes of output, a history of 2, a queue of 2 cells, a drain deadline that passes | dumps and clients end, also when `MSG_DUMP_END` or `MSG_EXIT` meets a full queue; no dump is taken for complete that is not |
| `names` | three invocations in any overlap (create and attach, attach or create, list), servers that end or are killed, every failure | start-up tells the truth and nobody hangs; invocations that never met keep their names |
| `terminal` | all command lines of up to 4 out of 14 words; three resizes, every way out of an attach; four socket files of two hosts that come and go | modes are restored, no change of size is forgotten; lines mean what they say; lists are complete and lead back to the files |
| `typing` | 4 keys, one of them the detach key, end of file, a resize; with and without a terminal; packets of 2 keys, a stdin buffer of 3, a socket of 2 cells; sizes sent, for a signal or for `MSG_RESIZE`, up to the third packet | no key lost, moved or repeated, packets decoded in any pieces, all input sent before leaving, keys served while output keeps coming |

Bounds and why they are enough. Every buffer is smaller than what is sent
through it, so each of full socket, full queue, full history and cut packet
happens: `SNDBUF = 2` with packets of up to three cells cuts every longer packet,
`SEND_QUEUE_CAP = 2` or `4` overflows on the second packet, `HISTORY_CAP = 2`
with three bytes of output (`stream`) drops bytes, and a read as long as the cap takes the
other branch of `append`. Where a property presumes that nothing overflows
(`exit`, `input`) the cap is set out of reach: `ExitReported` asks for two cells
of `MSG_PID`, two of `MSG_EXIT` and two for every byte of output, which is at
worst a packet by itself, and `exit` and `input` have 20 for one byte. In
`ending` a packet of one byte fills the socket and a second one the queue, so
`MSG_DUMP_END` and `MSG_EXIT` find no room. Two connections are what a race
between clients takes: the server handles them one after another and they share
nothing but the history and the pty. Three invocations are one more than any
property on names needs: one that ends, one in its place, one that watches.
In `typing` the read of stdin (2) is smaller than its buffer (3), which is
smaller than what is typed (4), and the socket (2) is smaller than any packet
with a payload, so keys are held back, headers are cut, and the socket is full.
`Settled = 3` is a bound on the sizes only: from the third packet on nobody wants
another one, while keys, output and the end go on. Sizes between later packets
are left to the proofs, which hold for every bound.
Four words are enough for an option, its value, a name and a word after it, with
every other word in each place; the words have one member of each kind that
`parse_args` tells apart. The four files are a plain name, one with an `@` in
it, one of another host, and one whose name ends with this host's.
TLC finds the schedules of all findings with one or two.

Fairness. `ServerFairness`: the server is one thread whose calls never block for
good - the listener, the client sockets and the pty are non-blocking, `waitpid`
has `WNOHANG`, and `MSG_PID` on a fresh socket always fits - and time passes.
`ClientFairness`: client programs are scheduled; nothing is assumed of their
users, of the child or of signals. `hung` assumes only the first. In
`LichSockets` every invocation, server and command is scheduled, but a session
lasts as long as it likes, and is never assumed to be killed. In `LichTyping`
client and server are scheduled, and a `select` whose stdin is readable returns:
that is what `select` does. Nothing is assumed of the user, or of the output
that comes meanwhile and may never stop.

## Findings

Runs that TLC must find violated, because a comment or a document says more
than the code does:

- `lost_output` (`OutputComplete`): the pty is read before `waitpid` in the same
  tick. A child that writes and ends in between leaves output the server never
  reads, if the server returns in that tick: with nobody attached, and just as
  well with clients attached whose queues take `MSG_EXIT` and are flushed at once
  (main.rs:847-890), which then never show that output. RUST_SPEC.md:101,
  "Server appends all pty output".
- `lost_resize` (`ResizeForwarded`): `WINCH_PENDING` is looked at only after
  `select` returned EINTR. A SIGWINCH that comes while a packet is received,
  shown or sent interrupts nothing; the server keeps the old size until another
  signal comes at a better time. README.md:139 calls this unchanged from
  upstream, which blocks the signal outside `pselect` and looks at its flag on
  every turn. `ResizeRemembered` says that the flag itself is never lost, so
  testing it on every turn would be enough.
- `lost_name` (`OrphanRemoved`): between `bind` and `listen` a socket refuses
  connections. A client that connects then removes the file of a session that is
  being created; the session runs and cannot be reached.
- `stolen_name` (`GuardOwnFile`): an ending server closes its listener and then
  removes the path. An invocation in between replaces the file, and the old
  server's guard removes the new session's.

Behaviour the models show and no document settles: a client that writes a key or
its size just as the server leaves ends with the error of its write, a broken
connection, although `MSG_EXIT` lies in its socket unread (main.rs:1119-1125 and
1013, where `?` comes before the next read; `ExitReported` says that with room in
the queue and before the drain deadline this is the only way to miss it); a client whose queue has no
room for `MSG_EXIT` is closed without it (main.rs:836 ignores the error), against
the comment at main.rs:105; after SIGTERM the server signals the child and leaves
without waiting, so a child that is slow or ignores the signal outlives it; a
resize between the first `send_resize` and the installation of the handler is
lost; with nobody attached the
server ends at once and the exit status is told to no one (upstream waits,
src/c/server.c:243); a connection that ends with a reset takes along packets the
server has read and not handled (main.rs:913 returns before `pop_packet`); a
send longer than the pty's input buffer loses what does not fit
(main.rs:923); a read-only client resizes the pty (upstream ignores it,
src/c/server.c:290); two simultaneous creations of one name both succeed
and the first session can no longer be reached, because `create_session` removes
the file before it binds (upstream binds without removing).

Found with the newer models:

- A create whose `execvp` fails tells its user so before its server has noticed
  that the command is gone. If the user tries again at once, the second
  invocation binds the name and the first server's guard then removes its file
  (main.rs:304): the schedule of `stolen_name` without any two invocations
  running at the same time. `LichNames` therefore counts a server with a failed
  command as being at work.
- After a paste longer than one read, the rest stays in the buffer of
  `io::stdin()`, where `select` does not see it, until the next key is typed
  (main.rs:1102). `InputConserved` shows that it is neither lost nor reordered,
  `EofAfterAll` that the end of file comes after it; that it is sent
  without another key does not hold.
- A detach key that shares a read with keys before it is sent as input, and
  keys behind it in its read are dropped (main.rs:1108). `DetachAlone` is what
  remains: typed when nothing waits in the kernel, it is never taken for input.
- `trim_end_matches` removes `@host` as often as it can (main.rs:1243): the
  session `x@host` is listed as `x`, a name under which it cannot be attached.
  `ListResolves` excepts such names.

## Proofs

`LichSessionProofs` proves, for every set of connections, every cast and every
size of buffers, packets, history and queue:

- `TypeCorrect`: `Spec => []TypeOK`
- `QueueCapHolds`: `Spec => []QueueBounded`
- `HistoryCorrect`: `Spec => []HistoryExact`
- `ExitCodeStable`: `Spec => ExitDecidedOnce`
- `NoChildForgotten`: `Spec => []NoOrphan`
- `SignalsOwnChild`: `Spec => SignalOwnChild`

The inductive invariant is `IndInv == TypeOK /\ SocketsInStep /\ QueueBounded`.
Types alone are not inductive: `try_flush_client` takes `SNDBUF - Len(down[c])`
cells, which is a natural number only while the socket's buffer is within its
bound; a read of a packet is typed only while what is set aside is shorter than
the packet its header announces; and accepting resets a `Client` that must not
be in use. `SocketsInStep`, which is a part of the proof and not of the promises of
`LichSession`, says those things: the connections open at the server's end are
those in its vector, and every buffer is within its bound. The proof is split along the
variables (`ValuesInv` for the kernel's and the clients' values, `LoopInv` for
the server's loop, `TablesInv` for sockets and buffers), with a lemma per
action, and the three parts are put together for one `Next` step.
`HistoryExact` needs only one more lemma, `AppendNewest`: `append` takes
`Newest(n)` and the bytes after `n` to `Newest` of the sum, on both branches of
`append`. `ExitDecidedOnce` follows because the two actions that write
`child_exit` are guarded by `NoStatus`. The last two rest on `EndInStep`: a child
that was waited for has left an exit code, an exit code means a child waited for
or signalled, and a server that has returned has one. Only four kinds of step
touch those variables (`EndStep`).

`LichStreamProofs` extends it with what travels from the server to a client:

- `WiresFramed`: `Spec => []WireFramed`
- `StreamsComplete`: `Spec => []StreamComplete`
- `DumpsExact`: `Spec => []DumpExact`
- `ExitsTruthful`: `Spec => []ExitTruthful`
- `DumpsTail`: `Spec => []DumpTail`

The first three speak of cells, which a socket may cut anywhere, and no step
preserves them as they stand. `StreamInv` says instead that for every connection
there is a sequence of *packets* whose cells are what the client has set aside,
what is in its socket and what is in its queue, in this order; once the server
has closed its end a rest may be missing (`Carries`). Flushing and receiving do
not change that sequence, queueing appends one packet to it, and a packet that
the client has read whole leaves it at the front. About it the invariant says:
nothing was shown or replayed before the first request (`Fresh`, `Opened`),
because a client that could ask twice would be shown the history twice; what an
attached client has and will be shown reaches up to `consumed`, and a replay
that is going on is its last part (`Streamed`); no content follows `MSG_DUMP_END`
(`EndLast`), and what comes before it is the history of one moment (`DumpGoing`):
`send_history` takes its snapshot in one step, and only attached clients get the
broadcasts. `WireGood` turns the packets back into framing and bytes.
`ExitsTruthful` needs `ExitSource`, where `child_exit` comes from, and that the
`MSG_EXIT` on its way carries `child_exit` (`ExitTold`), which stays the same by
`ExitCodeStable`. `DumpsTail` is about `tail_line_start`: the scan is a recursive
function of the position and the lines still wanted, and by descent on the
position it stops behind the newline that `IsTail`, the reference in terms of
lines, asks for (`TailIs`), for outputs of any length with line feeds anywhere.

`LichInputProofs` proves the other direction, `InputsPrefix`
(`Spec => []InputPrefix`) and `KeysArrive` (`Spec => []KeysDelivered`). Of the
*n* units a client has sent the pty has the first *k*, and the packets the server
has not handled carry the others in order (`Tally`, `CarriesUnits`). Two things had
to be found to make this inductive. The server drops input of clients it takes
for read-only, so `FlagsRight` says that it never takes another client for one.
And a write to the pty is short when its queue is full, so the number of
units in it must be bounded: the units of one client in the pty rise
(`Rises`), hence are distinct, hence there are at most `KEYS` times the number
of connections of them, and every write fits (`WriteFits`). That they rise
(`Ascends`) is proved for every size, also when the pty is full and a part of a
write is lost: the keys of a client are never reordered or repeated. For `KeysDelivered`,
`KeysInv` adds that a send-keys client is sent nothing but `MSG_PID`, which it
reads first: its close therefore leaves no reset, and while the session lives
the server lets go of it only at an end of file with nothing unread.

`LichServiceProofs` puts the two directions together. It first proves
`ExitsReported` (`Spec => ExitReported`): a client in `client_loop` does
not find its connection broken before it has read `MSG_EXIT`, and if a write of
its own fails because the server has left, `MSG_EXIT` is what it has still to
read (`ExitWaits`, `ErrorWrites`). `ExitInv` strengthens it in two directions. What the server owes a
client that watches (`Served`, `Wired`): the first packet on its way is `MSG_PID`
as long as it waits for that; `MSG_EXIT` is among the packets from the moment
the server starts to let it go, and still is when the server has closed its end
(`HasExit`), so `client_loop` reads it before it can find the socket closed. And
that there is always room (`Light`, `RoomFor`): the cells on their way are at
most two for each byte of output in them, and two each for `MSG_PID` and
`MSG_EXIT`; the bytes on their way and those still to be replayed are at most
what was read of the pty. A queue of `2 * MaxOutput + 4` cells therefore never
overflows, and no client is dropped for that (`Queueable`). The theorem has no
premise; `ExitReported` itself is about sessions whose queue is that long and
whose drain deadline does not pass. What does not depend on the deadline is
kept apart (`Owed`), because the refinement needs it for slow clients too.

`SessionImplementsService` is the refinement: under `Queueable`,
`HistorySpec => ServiceKept`, for every cast, number of clients, size of socket,
packet, history and input, SIGTERM and all faults included. The invariant is
`SessionInv == HistoryExact /\ StreamInv /\ ExitInv /\ InputInv /\ ServiceInv`, of
which only the last is new. `StreamInv` says that what a client is shown reaches
up to the last byte read *while it is attached*; the service promises more: what
it is shown is a run of the output from where the history once began, and
whoever is told the end has been shown everything recorded before it. `Held` says
this of a client's whole stream, which is what it was shown, what is on its
way and what is left of a replay: it is such a run (`IsRun`) whether the
client is still attached or has been let go, a client that watches and is
not attached yet has none, and what comes before a `MSG_EXIT` on its way reaches
`final` or is nothing at all (`Reaching`). For attached clients `IsRun` follows
from `StreamInv` together with the room of `ExitInv` (`LiveStream`): the stream
ends with the last byte read and is not longer than what was read. `Asking` says
that only clients that watch ever ask to be attached, and `CodeLast` that a
program that was told the end does nothing more. All steps that leave a client's
place in the stream are handled by one lemma, `HeldStep`, from three facts about
the step (`Moves`): the stream only loses its end, or is attached now, or is a
dump's snapshot; and a `MSG_EXIT` was on its way before, or is sent now behind
everything. With `SessionInv` known, `ServerServes` and `ClientServes` map each
step: `ReadPty` is `Record`, `WaitPid` and `PollShutdown` are `Decide` when they set
`child_exit`, handling input is `Take` when something reaches the pty, a client's
receipt of content, `MSG_EXIT` and `MSG_DUMP_END` is `Show`, `Tell` and `Dumped`, and
everything else stutters.

Without `Queueable` the refinement is false, so the premise is needed. A client
whose queue overflows is marked and dropped at the end of the tick, but
`broadcast_content` asks only whether it is attached (main.rs:989): a shorter
read in the same tick may still fit, and be flushed and shown, after the one
that did not. TLC finds it with one attached client, a queue of 4 cells and six
bytes of output: the client is shown bytes 1, 2 and 5. `StreamComplete` leaves
out clients marked so. `stream` checks `ServiceKept` with a queue that overflows
and three bytes of output, too few for a gap of this kind.

`LichTypingProofs` proves `TypingImplementsTerminal`: `TypingSpec => Spec`, where
`Spec` is `LichTerminal`'s. A packet written in pieces leaves the control alone
until its last piece is out (`SendingStep`), and everything else is a step of
`LichTerminal` or moves data. `TypingRestores` and `TypingRemembers` carry
`TerminalRestored` and `ResizeRemembered` over to the client with its data.
About the data themselves it proves `TypingTyped`, `PacketsDecoded`
(`WireDecoded`), `KeysConserved` (`InputConserved`), `EofLast` (`EofAfterAll`)
and `DetachSeen` (`DetachAlone`), for every size of packets, socket and stdin
buffer. The invariant `TypingInv` has four parts: the control of
`LichTerminal`; the packets that are sent and not yet decoded, whose cells are
the contents of `outbox`, `wire` and `buf` (`OnTheWay`); what was typed, cut by
position into what is sent, held and in the kernel (`SentCut`, `WaitingCut`), with
the fact that of the keys in the kernel only the first can have been typed
alone; and what has been sent when the client leaves (`LeaveInv`). That decoding
undoes encoding for a buffer of any length is `pop_packet` taken one packet at a
time (`PopsFirst`, `PopsNothing`).

About `LichTerminal` itself the module proves `TerminalTypes`, `ModesRestored`
(`Spec => []TerminalRestored`) and `ResizeKept` (`Spec => []ResizeRemembered`)
for any number of resizes. `ResizeRemembered` is not inductive alone: a size that
is read, and then sent while it is out of date, must have left the flag set
(`SizeInStep`), and where the handler and the guard are follows from the control
(`ControlInStep`).

`LichSocketsProofs` proves `SocketsTyped`, `StartupCorrect`
(`Spec => []StartupTruthful`) and `SessionsReachable`
(`NamesSpec => []Reachable`) for every number of invocations and every
combination of failures. `StartupInv` adds to the types, per invocation, how the
pipe's holders follow from where server and command are (`StartupInStep`): the
parent sees the end of the pipe only when both are past `execvp`, or the server
was killed before it forked. `NamesInv` adds what holds while `calm` does: an
invocation that is clearing the path or setting up its socket, or whose server is
on its way out (`Busy`), and a server that has its session to offer (`Live`)
never belong to different invocations (`Apart`), so the path names a live
server's own socket and nobody is on the way to remove it.

`LichCommandProofs` proves `ListsComplete` (`CommandSpec => []ListComplete`),
`ListsResolve` (`CommandSpec => []ListResolves`) and `ParsesMeaning`
(`CommandSpec => []ParseMeans`) for every set of names, words and directories.
`ListInv`: a session that has lived since the directory was opened is printed,
is the entry in hand, or is among those left to read (`Accounted`), and what is
printed is in the directory and of this host (`Shown`). `ParseInv`: the options
read so far are the meaning of the words up to the next one (`ReadTo`).
`Meaning` calls a word a value if an odd number of words that take a value stand
in a row before it; the lemmas on `RunBefore` show that the fold over words and
this reading by places agree from one word to the next.

`LichSequenceLemmas` holds what the provers do not know about concatenation, cuts
and `FlattenSeq`. Where a fact takes an induction over the length of a sequence
it is proved by descent on a set of numbers: the least length without the fact
exists (`LeastNat`) and cannot be (`InductionUpTo`). This needs no theorem with an operator as a
parameter, and works for recursive functions such as the one in `FlattenSeq`.

TLC checked every inductive invariant on the runs' instances before it was
proved.

Assumptions are those the modules name: `ConnAssumption`, `FiniteAssumption`
(finitely many connections, so that their input can be counted),
`BoundAssumption` (a socket takes `MSG_PID`; a packet carries at least one unit),
`DeathAssumption` (codes of 0..255, signals of 1..126), `FaultAssumption`,
`HistoryCapAssumption`, `QueueCapAssumption`, `InvAssumption`,
`TerminalAssumption`, `TypingAssumption`, `CommandAssumption` (names and files
are non-empty sequences of strings).

Only model-checked:

- All liveness (`ServerEnds`, `ShutdownHonoured`, `DumpEnds`, `ClientsEnd`,
  `InvocationsEnd`, `TypingServed`): fairness and `ENABLED` are out of the
  prover's reach.
- `ServiceKept` for queues shorter than `Queueable`, on the instance of `stream`
  (see above for larger ones).

## Not modelled

- In `LichSession` packets towards the server arrive whole; how they are cut and
  put together again is `LichTyping`'s subject, for one client. Byte order of
  the integers is left out. `MSG_RESIZE` to a client, and types the receiver
  ignores, are never sent by lich's server; `LichTerminal` and `LichTyping` have
  what `client_loop` does when they come.
- The low-priority flag, which the server never reads.
- `SIGWINCH` to the child, whose process number may have been reused (the model
  has no process numbers; for SIGTERM `SignalOwnChild` settles it).
- A child that writes without pause keeps the server in its read loop; output is
  bounded here, so that starvation is outside the model. Background processes
  may hold the terminal open after the child's end, but write nothing more.
- `key_token_bytes` (a table of constants), the command `command_args` falls
  back to, absolute and relative paths for sockets (they name a file directly),
  the permissions of the socket directory, the date and layout of the session
  list, the log and the process title: string handling and output.
- The C program.

## What could come next

The ring buffer of `src/c/server.c` as a refinement of `LichHistory`, and what
`SessionImplementsService` says of clients whose queues never overflow in
sessions where others' do.
