------------------------------- MODULE MCSockets -------------------------------
(* Instances of LichSockets for TLC. *)
EXTENDS LichSockets

CONSTANTS i1, i2, i3

TwoCreates == [p \in Inv |-> "create"]
CreateAttach == [p \in Inv |-> IF p = i1 THEN "create" ELSE "attach"]
OneOfEach == [p \in Inv |-> CASE p = i1 -> "create_attach"
                              [] p = i2 -> "ensure"
                              [] OTHER -> "list"]
===============================================================================
