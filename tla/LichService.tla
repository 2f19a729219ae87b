------------------------------ MODULE LichService ------------------------------
(***************************************************************************)
(* What a session promises, with nothing of how it keeps the promise: no   *)
(* sockets, packets, queues or ticks.  There is a growing output, of which *)
(* the newest HISTORY_CAP bytes are kept; people who are shown a part of   *)
(* it, who ask for all that is kept, and who type; and one end.            *)
(*                                                                         *)
(* The bytes of the output are numbered from 1, and so are the keys of     *)
(* each person.                                                            *)
(***************************************************************************)
EXTENDS Integers, Sequences, LichHistory

CONSTANT Conn

VARIABLES
    output,        \* bytes of output recorded
    exit,          \* how the session ended
    final,         \* bytes recorded when that was decided
    shown,         \* per person: the output they were shown
    told,          \* per person: the end they were told
    dumped,        \* who asked for the kept output and got it
    input          \* the keys that reached the session, and whose they are

vars == <<output, exit, final, shown, told, dumped, input>>

Undecided == -1

Init ==
    /\ output = 0
    /\ exit = Undecided
    /\ final = 0
    /\ shown = [c \in Conn |-> <<>>]
    /\ told = [c \in Conn |-> Undecided]
    /\ dumped = {}
    /\ input = <<>>

(* More output. *)
Record ==
    /\ output' > output
    /\ UNCHANGED <<exit, final, shown, told, dumped, input>>

(* The end is decided, once. *)
Decide ==
    /\ exit = Undecided
    /\ exit' \in Nat
    /\ final' = output
    /\ UNCHANGED <<output, shown, told, dumped, input>>

(* A run of output that begins where the kept part once began. *)
IsWindow(s) ==
    s = <<>> \/ \E from, to \in 0..output :
                  /\ from = 0 \/ from + HISTORY_CAP <= output
                  /\ s = [i \in 1..(to - from) |-> from + i]

IsPrefixOf(s, t) == Len(s) <= Len(t) /\ s = SubSeq(t, 1, Len(s))

(* c is shown what follows on what it was shown before. *)
Show(c) ==
    /\ told[c] = Undecided
    /\ c \notin dumped
    /\ shown' = [shown EXCEPT ![c] = shown'[c]]
    /\ IsPrefixOf(shown[c], shown'[c])
    /\ IsWindow(shown'[c])
    /\ UNCHANGED <<output, exit, final, told, dumped, input>>

(* c is told the end, and has then been shown the output up to it, or none  *)
(* when it came too late to be shown any.                                   *)
Tell(c) ==
    /\ exit # Undecided
    /\ told[c] = Undecided
    /\ shown[c] # <<>> => shown[c][Len(shown[c])] >= final
    /\ told' = [told EXCEPT ![c] = exit]
    /\ UNCHANGED <<output, exit, final, shown, dumped, input>>

(* c has been shown all that was kept at one moment and is told so. *)
Dumped(c) ==
    /\ c \notin dumped
    /\ \E n \in 0..output : shown[c] = Newest(n)
    /\ dumped' = dumped \cup {c}
    /\ UNCHANGED <<output, exit, final, shown, told, input>>

(* Keys of c reach the session.  Some may have been lost before, but they   *)
(* come in the order they were typed in and none comes twice.               *)
Take(c) ==
    /\ Len(input') > Len(input)
    /\ IsPrefixOf(input, input')
    /\ \A i \in (Len(input) + 1)..Len(input') : input'[i].conn = c
    /\ \A i, j \in 1..Len(input') :
         i < j /\ input'[i].conn = c /\ input'[j].conn = c
           => input'[i].key < input'[j].key
    /\ UNCHANGED <<output, exit, final, shown, told, dumped>>

Next ==
    \/ Record
    \/ Decide
    \/ \E c \in Conn : Show(c) \/ Tell(c) \/ Dumped(c) \/ Take(c)

Spec == Init /\ [][Next]_vars
===============================================================================
