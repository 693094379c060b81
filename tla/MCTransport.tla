----------------------------- MODULE MCTransport -----------------------------
(* The transport and its refinement of the single line, for TLC.           *)
EXTENDS LineRefinement, TLC
=============================================================================
