----------------------------- MODULE PtraceExec -----------------------------
(***************************************************************************)
(* PtraceLoop with execve, in the traced program and in the loop.          *)
(*                                                                         *)
(* execve by one thread ends the other threads of its process, and the     *)
(* thread goes on under the id of the leader: its own id vanishes without  *)
(* a report, and so does the old leader, whose id is reported as having    *)
(* executed (PTRACE_EVENT_EXEC) and then returns from the call.  The       *)
(* thread-locals of the library are gone with the old program; the new one *)
(* does not have the pipes of this tracer.  The handler of the event loads *)
(* the address ranges of the library and resumes; every map of the loop    *)
(* stays as it is.                                                         *)
(***************************************************************************)
EXTENDS PtraceLoop

VARIABLE replaced   \* processes that have executed another program

execVars == <<vars, replaced>>

ExecInit == Init /\ replaced = {}

\* The other threads of the caller's process are killed; the call goes on when
\* all of them but the leader have been reaped.
RunExec(t) ==
    /\ phase[t] = "kernel" /\ kind[t] = "exec"
    /\ LET rest == Killed(ProcOf[t]) \ {t}
       IN /\ rest # {}
          /\ \E last \in {"dying", "zombie"} :
               phase' = [u \in Tid |-> IF u \in rest THEN last ELSE phase[u]]
          /\ seen' = seen \ rest
    /\ UNCHANGED <<kind, child, depth, cached, pipe, tracerVars, skipped, replaced>>

\* The caller has taken the place of the leader and stops in the event.
RunExecDone(t) ==
    LET leader == ProcOf[t]
    IN /\ phase[t] = "kernel" /\ kind[t] = "exec"
       /\ \A u \in Group(leader) \ {t, leader} : phase[u] = "none"
       /\ t # leader => phase[leader] = "zombie"
       /\ phase' = [phase EXCEPT ![t] = "none", ![leader] = "exec"]
       /\ kind' = [kind EXCEPT ![t] = "work", ![leader] = "work"]
       /\ child' = [child EXCEPT ![t] = t, ![leader] = leader]
       /\ depth' = [depth EXCEPT ![t] = 0, ![leader] = 0]
       /\ cached' = [cached EXCEPT ![t] = NoTid, ![leader] = NoTid]
       /\ replaced' = replaced \cup {leader}
       /\ UNCHANGED <<seen, pipe, tracerVars, skipped>>

\* Mutant: the event is taken for the end of the thread: its state is dropped
\* in the middle of the call, and its capture is not.
HandleExecForgets(t) ==
    /\ WaitPid(t, "exec")
    /\ window' = Drained
    /\ states' = [states EXCEPT ![t] = DefaultState]
    /\ Resume(phase, {t})
    /\ UNCHANGED <<kind, child, depth, cached, capture, queue, running, skipped>>

\* PTRACE_EVENT_EXEC
HandleExec(t) ==
    /\ WaitPid(t, "exec")
    /\ window' = Drained
    /\ Resume(phase, {t})
    /\ UNCHANGED <<kind, child, depth, cached, states, capture, queue,
                   running, skipped>>

\* A new process runs the program of the one it was forked from.
Inherit(t) ==
    LET born == {u \in Tid : /\ phase[u] = "none" /\ phase'[u] = "newborn"
                             /\ ProcOf[u] = u}
    IN replaced' = IF ProcOf[t] \in replaced THEN replaced \cup born
                   ELSE replaced \ born

ExecNext ==
    \/ \E t \in Tid : \/ RunExec(t)
                      \/ RunExecDone(t)
                      \/ Run(t) /\ Inherit(t)
    \/ /\ \/ \E t \in Tid :
               \/ \E k \in Calls : EnterSyscall(t, k)
               \/ ProcOf[t] \notin replaced /\ EnterWindow(t)
               \/ ExitWindow(t)
               \/ Signal(t) \/ Kill(t)
               \/ Handle(t) \/ HandleExec(t)
          \/ HandleNoChild \/ Terminated
       /\ UNCHANGED replaced

ExecSpec == ExecInit /\ [][ExecNext]_execVars

-----------------------------------------------------------------------------
\* Even with ids that change hands and vanish, the loop never believes in two
\* captures, nor in one its states do not know of.
OneCaptureAcrossExec == running => CaptureMatchesState
=============================================================================
