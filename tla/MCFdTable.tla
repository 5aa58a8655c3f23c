----------------------------- MODULE MCFdTable -----------------------------
(* Instances of FdTable for TLC.                                            *)
EXTENDS FdTable, TLC

CONSTANTS t1, t2, p1

OneProcess == [t \in Thr |-> p1]

Symmetry == Permutations({t1, t2})
=============================================================================
