----------------------------- MODULE MCRefinement -----------------------------
(* The same casts, for the runs that also check the refinement. *)
EXTENDS LichRefinement, MCSession
===============================================================================
