----------------------------- MODULE MCTraceFs -----------------------------
(* Instance of TraceFs for TLC.                                             *)
EXTENDS TraceFs, TLC

CONSTANTS t1, t2

Symmetry == Permutations({t1, t2})
=============================================================================
