------------------------------- MODULE LichTail -------------------------------
(***************************************************************************)
(* The end of a dump: what dump_session of src/src/main.rs prints of the   *)
(* output it has collected when -N asks for the last bytes and -L for the  *)
(* last lines.  0 asks for all of them.                                    *)
(***************************************************************************)
EXTENDS Integers, Sequences, FiniteSets

CONSTANT Newlines      \* the bytes that are a newline

(* The search backwards from position from, at pos when found of the lines  *)
(* newlines have been passed: how many bytes come before the tail.          *)
ScanBack(buf, lines, from) ==
    LET scan[pos \in 0..from] ==
          [found \in 0..(from - pos) |->
             IF pos = 0 THEN 0
             ELSE IF buf[pos] \notin Newlines THEN scan[pos - 1][found]
             ELSE IF found + 1 = lines THEN pos
             ELSE scan[pos - 1][found + 1]]
    IN  scan[from][0]

(* Counting the newline that ends the last line. *)
TailCountingLastNewline(buf, lines) ==
    IF lines = 0 \/ buf = <<>> THEN 0 ELSE ScanBack(buf, lines, Len(buf))

tail_line_start(buf, lines) ==
    IF lines = 0 \/ buf = <<>> THEN 0
    ELSE ScanBack(buf, lines, IF buf[Len(buf)] \in Newlines THEN Len(buf) - 1 ELSE Len(buf))

LastBytes(out, max_bytes) ==
    IF max_bytes # 0 /\ max_bytes < Len(out)
      THEN SubSeq(out, Len(out) - max_bytes + 1, Len(out)) ELSE out

(* What is written to stdout. *)
Printed(out, max_bytes, max_lines) ==
    LET buf == LastBytes(out, max_bytes)
    IN  SubSeq(buf, tail_line_start(buf, max_lines) + 1, Len(buf))

-------------------------------------------------------------------------------
(* The reference.  A newline ends its line; the last line may lack one. *)
LineCount(s) ==
    IF s = <<>> THEN 0
    ELSE 1 + Cardinality({i \in 1..(Len(s) - 1) : s[i] \in Newlines})

(* s is made of the last n lines of buf, or of all its lines if it has      *)
(* fewer or n is 0.                                                         *)
IsTail(s, buf, n) ==
    LET before == Len(buf) - Len(s)
    IN  /\ before >= 0
        /\ s = SubSeq(buf, before + 1, Len(buf))
        /\ before > 0 => buf[before] \in Newlines
        /\ LineCount(s) = IF n = 0 \/ LineCount(buf) < n THEN LineCount(buf) ELSE n

(* The cut agrees with its reference for every output of up to TailBound    *)
(* bytes, some of them newlines, and every pair of options up to one more.  *)
TailBound == 5
TailCorrect ==
    \A k \in 0..TailBound : \A out \in [1..k -> {1, 2}] :
      \A bytes, lines \in 0..(TailBound + 1) :
        IsTail(Printed(out, bytes, lines), LastBytes(out, bytes), lines)
===============================================================================
