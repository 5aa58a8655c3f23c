---------------------------- MODULE MCPtraceLoop ----------------------------
(* Instances of PtraceLoop for TLC.                                         *)
EXTENDS PtraceLoop, TLC

CONSTANTS main, t2, t3

\* t2 and t3 are threads of the target process.
Threads == [t \in {main, t2, t3} |-> main]

TwoThreads == [t \in {main, t2} |-> main]

\* t2 is a process of its own, forked by the target.
TwoProcesses == [t \in {main, t2} |-> t]

Symmetry == Permutations({t2, t3})
=============================================================================
