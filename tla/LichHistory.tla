------------------------------ MODULE LichHistory ------------------------------
(***************************************************************************)
(* struct History of src/src/main.rs: the last HISTORY_CAP bytes of the    *)
(* session's output, kept in a VecDeque.                                   *)
(***************************************************************************)
EXTENDS Integers, Sequences

CONSTANT HISTORY_CAP
ASSUME HistoryCapAssumption == HISTORY_CAP \in Nat \ {0}

(* A boundary mistake: popping while the sum is >= HISTORY_CAP. *)
PopFrontForOneMore(bytes, k) ==
    LET excess == Len(bytes) + k - HISTORY_CAP + 1
    IN  SubSeq(bytes, (IF excess > 0 THEN excess ELSE 0) + 1, Len(bytes))

(* The deque after the loop that pops its front until room for k more is    *)
(* left: exactly the excess is popped.                                      *)
PopFrontFor(bytes, k) ==
    LET excess == Len(bytes) + k - HISTORY_CAP
    IN  SubSeq(bytes, (IF excess > 0 THEN excess ELSE 0) + 1, Len(bytes))

append(bytes, data) ==
    IF Len(data) >= HISTORY_CAP
      THEN SubSeq(data, Len(data) - HISTORY_CAP + 1, Len(data))
      ELSE PopFrontFor(bytes, Len(data)) \o data

(* The reference: the newest bytes of an output of n bytes in all, of which *)
(* at most HISTORY_CAP are kept.                                            *)
Newest(n) ==
    LET k == IF n <= HISTORY_CAP THEN n ELSE HISTORY_CAP
    IN  [i \in 1..k |-> n - k + i]
===============================================================================
