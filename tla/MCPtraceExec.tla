---------------------------- MODULE MCPtraceExec ----------------------------
(* Instances of PtraceExec for TLC.                                         *)
EXTENDS PtraceExec

CONSTANTS main, t2

\* t2 is a thread of the target process.
TwoThreads == [t \in {main, t2} |-> main]
=============================================================================
