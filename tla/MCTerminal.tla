------------------------------- MODULE MCTerminal -------------------------------
(* Instances of LichTerminal for TLC: the .cfg files give its other constants. *)
EXTENDS LichTerminal

AllKinds == {k \in [tty : BOOLEAN, passthrough : BOOLEAN] : k.tty \/ k.passthrough}
===============================================================================
