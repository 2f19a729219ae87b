-------------------------------- MODULE MCTyping --------------------------------
(* Instances of LichTyping for TLC. *)
EXTENDS LichTyping

(* -p on a terminal changes nothing of what is typed. *)
SomeKinds == {[tty |-> TRUE, passthrough |-> FALSE], [tty |-> FALSE, passthrough |-> TRUE]}
===============================================================================
