-------------------------------- MODULE MCNames --------------------------------
(* The same programs, for the runs that remember whether invocations met. *)
EXTENDS LichNames, MCSockets
===============================================================================
