------------------------------- MODULE MCSession -------------------------------
(* Instances of LichSession for TLC.  Each .cfg picks one of the casts below. *)
EXTENDS LichSession

AllAttach == [c \in Conn |-> "attach"]
ReadonlyDump == [c \in Conn |-> IF c = 1 THEN "readonly" ELSE "dump"]
AttachProbe == [c \in Conn |-> IF c = 1 THEN "attach" ELSE "probe"]
AttachDump == [c \in Conn |-> IF c = 1 THEN "attach" ELSE "dump"]
KeysAttach == [c \in Conn |-> IF c = 1 THEN "keys" ELSE "attach"]

SameSize == [c \in Conn |-> 0]

ExitSeven == [how |-> "exit", n |-> 7]
KilledByNine == [how |-> "signal", n |-> 9]
OneDeath == {ExitSeven}
TwoDeaths == {ExitSeven, KilledByNine}
===============================================================================
