---------------------------- MODULE CaptureLock ----------------------------
(***************************************************************************)
(* What the tracer promises about captures, without threads, stops, pipes  *)
(* or windows: the recorder of tracefs is a lock with a line in front of   *)
(* it.  One thread holds it; the others come in the order in which they    *)
(* joined.  The lock passes on in one step, over threads whose turn comes  *)
(* to nothing (their window has closed, begin_capture fails, or they are   *)
(* no longer waiting) to the first that takes it, and is free only when    *)
(* nobody is left in the line.  PtraceLoop implements it, with holder as   *)
(* active_fgraph_capture and line as waiting_fgraph_tids.                  *)
(***************************************************************************)
EXTENDS Naturals, Sequences

CONSTANTS
    Tid,    \* threads
    NoTid   \* nobody, not a thread

VARIABLES
    holder,   \* the thread that has the recorder
    line      \* the threads waiting for it, first come first

lockVars == <<holder, line>>

InLine == {line[i] : i \in DOMAIN line}

Init == holder = NoTid /\ line = <<>>

\* Nobody has the recorder, so nobody waits.
Take(t) ==
    /\ holder = NoTid /\ line = <<>>
    /\ holder' = t
    /\ UNCHANGED line

\* The recorder is taken: t waits for it.
Join(t) ==
    /\ holder \notin {NoTid, t} /\ t \notin InLine
    /\ line' = Append(line, t)
    /\ UNCHANGED holder

\* A waiting thread ends.
Leave(t) ==
    /\ t \in InLine
    /\ \E i \in DOMAIN line :
         /\ line[i] = t
         /\ line' = [j \in 1..Len(line) - 1 |->
                       IF j < i THEN line[j] ELSE line[j + 1]]
    /\ UNCHANGED holder

\* The holder is done.
Pass ==
    /\ holder # NoTid
    /\ \E k \in 0..Len(line) :
         /\ line' = SubSeq(line, k + 1, Len(line))
         /\ \/ k > 0 /\ holder' = line[k]
            \/ k = Len(line) /\ holder' = NoTid

Next ==
    \/ \E t \in Tid : Take(t) \/ Join(t) \/ Leave(t)
    \/ Pass

Spec == Init /\ [][Next]_lockVars
=============================================================================
