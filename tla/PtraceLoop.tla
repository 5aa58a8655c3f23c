----------------------------- MODULE PtraceLoop -----------------------------
(***************************************************************************)
(* The tracer process of src/hook/ptrace.rs: run_ptrace_loop, the          *)
(* scheduling of function-graph captures among the traced threads, and     *)
(* the kernel side it depends on (ptrace stops, waitpid, the window pipe). *)
(*                                                                         *)
(* tracefs can record one thread at a time, so the loop keeps at most one  *)
(* active capture.  A thread that enters a system call inside a watched    *)
(* API window while another capture is active is left in its               *)
(* syscall-entry-stop and queued; it is resumed when the capture ends.     *)
(*                                                                         *)
(* One Handle* action is one iteration of the loop: waitpid returns the    *)
(* stop of one thread, both pipes are drained, the stop is handled.  The   *)
(* threads run between iterations.  This is no coarser than the code: a    *)
(* stopped thread stays as it is until it is resumed, the one exception    *)
(* (SIGKILL after waitpid returned) being HandleVanished.                  *)
(***************************************************************************)
EXTENDS Naturals, Sequences, FiniteSets

CONSTANTS
    Tid,               \* kernel thread ids
    NoTid,             \* None of Option<ActiveFgraphCapture>
    Target,            \* the thread that ptrace_attach attached to
    ProcOf,            \* thread -> leader of its thread group
    Calls,             \* system calls the program makes, see CallKinds
    MaxDepth,          \* bound: nesting of watched API windows
    PipeCap,           \* messages the window pipe holds before EAGAIN
    FgraphEnabled,     \* LIB_CUDATRACE_FGRAPH_FUNCS names a function
    PromptCloneEvents  \* a clone event is handled before the new thread's
                       \* first system call stops it

\* What an "exec" does is in PtraceExec.
CallKinds == {"work", "wait", "clone", "quit", "exec"}

ASSUME TidAssumption == NoTid \notin Tid /\ Target \in Tid
ASSUME ProcAssumption == ProcOf \in [Tid -> Tid]
ASSUME CallsAssumption == Calls \subseteq CallKinds
ASSUME BoundAssumption == MaxDepth \in Nat /\ PipeCap \in Nat
ASSUME ModeAssumption ==
    FgraphEnabled \in BOOLEAN /\ PromptCloneEvents \in BOOLEAN

VARIABLES
    \* the kernel and the traced program
    phase,     \* where each thread is
    kind,      \* the system call it is in, or made last
    child,     \* PTRACE_GETEVENTMSG of its clone event, itself if none
    seen,      \* stopped threads whose stop waitpid has returned
    depth,     \* thread-local FGRAPH_WINDOW_DEPTH
    cached,    \* thread-local CACHED_TID, NoTid before the first use
    pipe,      \* FgraphWindowUpdate messages not yet drained
    \* the locals of run_ptrace_loop
    states,    \* HashMap<pid_t, SyscallState>; a missing entry is the default
    window,    \* fgraph_window_by_tid: depth, 0 for a missing entry
    capture,   \* active_fgraph_capture: its tid
    queue,     \* waiting_fgraph_tids
    running,   \* FALSE once the loop has ended
    \* history
    skipped    \* threads whose begin_capture failed for the current call

kernelVars == <<phase, kind, child, seen, depth, cached>>
tracerVars == <<states, window, capture, queue, running>>
vars == <<kernelVars, pipe, tracerVars, skipped>>

\* Places a stopped thread can be in; the first two are syscall-stops.
SyscallStops == {"entry", "exit"}
Stops == SyscallStops \cup {"newborn", "cloned", "exec", "signal", "dying"}
Phases == Stops \cup {"none", "user", "kernel", "zombie"}
Alive == Phases \ {"none", "zombie"}

\* Fields of SyscallState that control the loop.
SyscallState ==
    [active : BOOLEAN, internal : BOOLEAN,
     fgraph_waiting : BOOLEAN, fgraph_capturing : BOOLEAN]

DefaultState ==
    [active |-> FALSE, internal |-> FALSE,
     fgraph_waiting |-> FALSE, fgraph_capturing |-> FALSE]

\* FgraphWindowUpdate, with its sender as history.
Update == [tid : Tid, depth : Nat, from : Tid]

Elems(s) == {s[i] : i \in DOMAIN s}

Group(p) == {t \in Tid : ProcOf[t] = p}

SingleProcess == \A t, u \in Tid : ProcOf[t] = ProcOf[u]

-----------------------------------------------------------------------------
\* At ready: the attached thread runs, every map of the loop is empty.
Init ==
    /\ phase = [t \in Tid |-> IF t = Target THEN "user" ELSE "none"]
    /\ kind = [t \in Tid |-> "work"]
    /\ child = [t \in Tid |-> t]
    /\ seen = {}
    /\ depth = [t \in Tid |-> 0]
    /\ cached = [t \in Tid |-> NoTid]
    /\ pipe = <<>>
    /\ states = [t \in Tid |-> DefaultState]
    /\ window = [t \in Tid |-> 0]
    /\ capture = NoTid
    /\ queue = <<>>
    /\ running = TRUE
    /\ skipped = {}

-----------------------------------------------------------------------------
(* The traced threads.  A thread under PTRACE_SYSCALL stops at the entry    *)
(* and at the exit of each system call.                                     *)

\* Handling clone events promptly means: no parent still sits in the event
\* that announces t.
Announced(t) == \A p \in Tid : ~(phase[p] = "cloned" /\ child[p] = t)

MayEnter(t) == phase[t] = "user" /\ (PromptCloneEvents => Announced(t))

EnterSyscall(t, k) ==
    /\ MayEnter(t)
    /\ k = "quit" => depth[t] = 0
    /\ phase' = [phase EXCEPT ![t] = "entry"]
    /\ kind' = [kind EXCEPT ![t] = k]
    /\ UNCHANGED <<child, seen, depth, cached, pipe, tracerVars, skipped>>

\* line_meta::current_tid: the id cached at the first use.  fork copies the
\* cache of the calling thread into the new process.
current_tid(t) == IF cached[t] = NoTid THEN t ELSE cached[t]

\* enter_fgraph_window_if_matched: the thread-local depth grows, then the
\* update is written to the pipe, a system call like any other.
EnterWindow(t) ==
    /\ MayEnter(t)
    /\ FgraphEnabled /\ depth[t] < MaxDepth
    /\ depth' = [depth EXCEPT ![t] = @ + 1]
    /\ cached' = [cached EXCEPT ![t] = current_tid(t)]
    /\ phase' = [phase EXCEPT ![t] = "entry"]
    /\ kind' = [kind EXCEPT ![t] = "publish"]
    /\ UNCHANGED <<child, seen, pipe, tracerVars, skipped>>

\* Mutant: a scope that opened no window closes one as well.
ExitWindowUnmatched(t) ==
    /\ MayEnter(t)
    /\ depth' = [depth EXCEPT ![t] = @ - 1]
    /\ cached' = [cached EXCEPT ![t] = current_tid(t)]
    /\ phase' = [phase EXCEPT ![t] = "entry"]
    /\ kind' = [kind EXCEPT ![t] = "publish"]
    /\ UNCHANGED <<child, seen, pipe, tracerVars, skipped>>

\* exit_fgraph_window_if_needed
ExitWindow(t) ==
    /\ MayEnter(t)
    /\ depth[t] > 0
    /\ depth' = [depth EXCEPT ![t] = @ - 1]
    /\ cached' = [cached EXCEPT ![t] = current_tid(t)]
    /\ phase' = [phase EXCEPT ![t] = "entry"]
    /\ kind' = [kind EXCEPT ![t] = "publish"]
    /\ UNCHANGED <<child, seen, pipe, tracerVars, skipped>>

\* The call of publish_fgraph_window_update reaches the pipe: the message is
\* queued whole, or lost when the non-blocking pipe is full.
RunPublish(t) ==
    /\ phase[t] = "kernel" /\ kind[t] = "publish"
    /\ \/ /\ Len(pipe) < PipeCap
          /\ pipe' = Append(pipe, [tid |-> current_tid(t),
                                    depth |-> depth[t], from |-> t])
       \/ /\ Len(pipe) >= PipeCap
          /\ pipe' = pipe
    /\ phase' = [phase EXCEPT ![t] = "exit"]
    /\ UNCHANGED <<kind, child, seen, depth, cached, tracerVars, skipped>>

\* An ordinary call completes, and wakes the threads that wait for it.
RunWork(t) ==
    /\ phase[t] = "kernel" /\ kind[t] = "work"
    /\ phase' = [phase EXCEPT ![t] = "exit"]
    /\ kind' = [u \in Tid |-> IF phase[u] = "kernel" /\ kind[u] = "wait"
                              THEN "work" ELSE kind[u]]
    /\ UNCHANGED <<child, seen, depth, cached, pipe, tracerVars, skipped>>

\* clone, fork or vfork: the new thread starts with a pending SIGSTOP, and
\* the caller stops in the event; it finishes the call when resumed.  A new
\* process starts with a copy of the caller's thread-locals, a new thread of
\* the same process with fresh ones.
RunClone(t) ==
    /\ phase[t] = "kernel" /\ kind[t] = "clone"
    /\ \E u \in Tid :
         /\ phase[u] = "none"
         /\ ProcOf[u] \in {u, ProcOf[t]}
         /\ phase' = [phase EXCEPT ![t] = "cloned", ![u] = "newborn"]
         /\ child' = [child EXCEPT ![t] = u]
         /\ LET origin == IF ProcOf[u] = ProcOf[t] THEN u ELSE t
            IN /\ depth' = [depth EXCEPT ![u] = depth[origin]]
               /\ cached' = [cached EXCEPT ![u] = cached[origin]]
    /\ kind' = [kind EXCEPT ![t] = "work"]
    /\ UNCHANGED <<seen, pipe, tracerVars, skipped>>

\* No thread id is free: the call fails and returns.
RunCloneFails(t) ==
    /\ phase[t] = "kernel" /\ kind[t] = "clone"
    /\ \A u \in Tid : phase[u] # "none"
    /\ phase' = [phase EXCEPT ![t] = "exit"]
    /\ UNCHANGED <<kind, child, seen, depth, cached, pipe, tracerVars, skipped>>

RunQuit(t) ==
    /\ phase[t] = "kernel" /\ kind[t] = "quit"
    /\ phase' = [phase EXCEPT ![t] = "dying"]
    /\ UNCHANGED <<kind, child, seen, depth, cached, pipe, tracerVars, skipped>>

\* A signal for a thread in user mode: signal-delivery-stop.
Signal(t) ==
    /\ phase[t] = "user"
    /\ phase' = [phase EXCEPT ![t] = "signal"]
    /\ UNCHANGED <<kind, child, seen, depth, cached, pipe, tracerVars, skipped>>

\* SIGKILL or exit_group ends every thread of a process, even one that is
\* held in a ptrace-stop.
Killed(p) == {t \in Group(p) : phase[t] \in Alive}

KillGroup(p) ==
    /\ \E last \in {"dying", "zombie"} :
         phase' = [t \in Tid |-> IF t \in Killed(p) THEN last ELSE phase[t]]
    /\ seen' = seen \ Killed(p)

Kill(p) ==
    /\ Killed(p) # {}
    /\ KillGroup(p)
    /\ UNCHANGED <<kind, child, depth, cached, pipe, tracerVars, skipped>>

-----------------------------------------------------------------------------
(* The tracer.                                                              *)

\* ptrace_syscall on the threads of S: a stopped thread runs on; for any
\* other the call fails with ESRCH, which the loop ignores.
Resumed(ph) ==
    CASE ph \in {"entry", "cloned", "exec"} -> "kernel"
      [] ph \in {"exit", "newborn", "signal"} -> "user"
      [] ph = "dying" -> "zombie"
      [] OTHER -> ph

Resume(ph, S) ==
    /\ phase' = [t \in Tid |-> IF t \in S THEN Resumed(ph[t]) ELSE ph[t]]
    /\ seen' = seen \ S

\* Mutant: an update to depth 0 does not remove the entry.
DrainedKeepsClosed == [t \in Tid |->
    IF \E i \in DOMAIN pipe : pipe[i].tid = t /\ pipe[i].depth > 0
    THEN pipe[CHOOSE i \in DOMAIN pipe :
                pipe[i].tid = t /\ pipe[i].depth > 0].depth
    ELSE window[t]]

\* drain_fgraph_window_updates: the last update of a thread wins.
Drained == [t \in Tid |->
    IF \E i \in DOMAIN pipe : pipe[i].tid = t
    THEN pipe[CHOOSE i \in DOMAIN pipe :
                /\ pipe[i].tid = t
                /\ \A j \in DOMAIN pipe : pipe[j].tid = t => j <= i].depth
    ELSE window[t]]

\* Mutant: the window pipe is not drained.
WaitPidNoDrain(t, p) ==
    /\ running
    /\ phase[t] = p /\ p \in Stops
    /\ t \notin seen
    /\ pipe' = pipe

\* waitpid returned t, whose phase is p.
WaitPid(t, p) ==
    /\ running
    /\ phase[t] = p /\ p \in Stops
    /\ t \notin seen
    /\ pipe' = <<>>

\* Mutant: the window depth is not looked at.
ShouldCaptureAnywhere(t, internal, win) == FgraphEnabled /\ ~internal

\* should_capture_fgraph, for a call that is internal or not
ShouldCapture(t, internal, win) == FgraphEnabled /\ ~internal /\ win[t] > 0

\* A syscall-stop of a thread whose state is not active is taken for the
\* entry.  is_internal_syscall looks for return addresses on the stack, so a
\* call of either kind may be classified either way.
EntryState(i, w, c) ==
    [active |-> TRUE, internal |-> i,
     fgraph_waiting |-> w, fgraph_capturing |-> c]

\* Not to be captured: run on.
HandleEntryPlain(t) ==
    /\ ~states[t].active
    /\ \E p \in SyscallStops : WaitPid(t, p)
    /\ \E i \in BOOLEAN :
         /\ ~ShouldCapture(t, i, Drained)
         /\ states' = [states EXCEPT ![t] = EntryState(i, FALSE, FALSE)]
    /\ window' = Drained
    /\ skipped' = skipped \ {t}
    /\ Resume(phase, {t})
    /\ UNCHANGED <<kind, child, depth, cached, capture, queue, running>>

\* begin_fgraph_capture_for_state: begin_capture succeeds and the capture is
\* recorded, or it fails and there is none.
BeginCapture(t, started) == capture' = IF started THEN t ELSE NoTid

\* No capture is active: t starts one, or runs uncaptured.
HandleEntryBegin(t) ==
    /\ ~states[t].active
    /\ \E p \in SyscallStops : WaitPid(t, p)
    /\ ShouldCapture(t, FALSE, Drained)
    /\ capture = NoTid
    /\ \E started \in BOOLEAN :
         /\ BeginCapture(t, started)
         /\ states' = [states EXCEPT ![t] = EntryState(FALSE, FALSE, started)]
         /\ skipped' = IF started THEN skipped \ {t} ELSE skipped \cup {t}
    /\ window' = Drained
    /\ Resume(phase, {t})
    /\ UNCHANGED <<kind, child, depth, cached, queue, running>>

\* Mutant: the waiting thread is held but not queued.
HandleEntryHoldUnqueued(t) ==
    /\ ~states[t].active
    /\ \E p \in SyscallStops : WaitPid(t, p)
    /\ ShouldCapture(t, FALSE, Drained)
    /\ capture # NoTid
    /\ states' = [states EXCEPT ![t] = EntryState(FALSE, TRUE, FALSE)]
    /\ window' = Drained
    /\ seen' = seen \cup {t}
    /\ skipped' = skipped \ {t}
    /\ UNCHANGED <<phase, kind, child, depth, cached, capture, queue, running>>

\* Mutant: the queue is not searched for the thread before the push.
HandleEntryHoldTwice(t) ==
    /\ ~states[t].active
    /\ \E p \in SyscallStops : WaitPid(t, p)
    /\ ShouldCapture(t, FALSE, Drained)
    /\ capture # NoTid
    /\ Len(queue) < 3
    /\ states' = [states EXCEPT ![t] = EntryState(FALSE, TRUE, FALSE)]
    /\ queue' = Append(queue, t)
    /\ window' = Drained
    /\ seen' = seen \cup {t}
    /\ skipped' = skipped \ {t}
    /\ UNCHANGED <<phase, kind, child, depth, cached, capture, running>>

\* Another capture is active: t stays in its stop and queues for its turn.
HandleEntryHold(t) ==
    /\ ~states[t].active
    /\ \E p \in SyscallStops : WaitPid(t, p)
    /\ ShouldCapture(t, FALSE, Drained)
    /\ capture # NoTid
    /\ states' = [states EXCEPT ![t] = EntryState(FALSE, TRUE, FALSE)]
    /\ queue' = IF t \in Elems(queue) THEN queue ELSE Append(queue, t)
    /\ window' = Drained
    /\ seen' = seen \cup {t}
    /\ skipped' = skipped \ {t}
    /\ UNCHANGED <<phase, kind, child, depth, cached, capture, running>>

\* Mutant: one thread is popped, although it may start no capture.
ReleaseWaitingOnce(q, st, ph, win, others) ==
    LET Waits(u) == st[u].active /\ st[u].fgraph_waiting
        popped == {u \in {q[i] : i \in 1..Len(q) \cap {1}} : Waits(u)}
    IN \E next \in {u \in popped : ShouldCapture(u, st[u].internal, win)} \cup {NoTid} :
         /\ capture' = next
         /\ queue' = SubSeq(q, 2, Len(q))
         /\ states' = [u \in Tid |->
              IF u \in popped
              THEN [st[u] EXCEPT !.fgraph_waiting = FALSE,
                                 !.fgraph_capturing = (u = next)]
              ELSE st[u]]
         /\ skipped' = (skipped \cup popped) \ {next}
         /\ Resume(ph, popped \cup others)

\* Mutant: a waiting thread is resumed without a capture of its own.
ReleaseWaitingUncaptured(q, st, ph, win, others) ==
    LET popped == {u \in Elems(q) : st[u].active /\ st[u].fgraph_waiting}
    IN /\ capture' = NoTid
       /\ queue' = <<>>
       /\ states' = [u \in Tid |->
            IF u \in popped THEN [st[u] EXCEPT !.fgraph_waiting = FALSE] ELSE st[u]]
       /\ skipped' = skipped
       /\ Resume(ph, popped \cup others)

\* Mutant: the waiting threads are popped but not resumed.
ReleaseWaitingStopped(q, st, ph, win, others) ==
    LET popped == {u \in Elems(q) : st[u].active /\ st[u].fgraph_waiting}
    IN /\ capture' = NoTid
       /\ queue' = <<>>
       /\ states' = [u \in Tid |->
            IF u \in popped THEN [st[u] EXCEPT !.fgraph_waiting = FALSE] ELSE st[u]]
       /\ skipped' = skipped \cup popped
       /\ Resume(ph, others)

\* maybe_resume_waiting_fgraph_tid on queue q and states st, no capture
\* active.  The first k threads are popped.  Those still waiting are resumed
\* uncaptured (their window closed or begin_capture failed), except that the
\* k-th starts a capture if the loop stops there.  The caller resumes others.
ReleaseWaiting(q, st, ph, win, others) ==
    LET Waits(u) == st[u].active /\ st[u].fgraph_waiting
        Wants(u) == ShouldCapture(u, st[u].internal, win)
    IN \E k \in 0..Len(q) :
         LET popped == {u \in {q[i] : i \in 1..k} : Waits(u)}
         IN \E next \in popped \cup {NoTid} :
              /\ IF next = NoTid
                 THEN k = Len(q)
                 ELSE next = q[k] /\ Wants(next)
              /\ capture' = next
              /\ queue' = SubSeq(q, k + 1, Len(q))
              /\ states' = [u \in Tid |->
                   IF u \in popped
                   THEN [st[u] EXCEPT !.fgraph_waiting = FALSE,
                                      !.fgraph_capturing = (u = next)]
                   ELSE st[u]]
              /\ skipped' = (skipped \cup {u \in popped : Wants(u)}) \ {next}
              /\ Resume(ph, popped \cup others)

\* Mutant: fgraph_capturing survives the exit.
ExitStateStillCapturing(s) ==
    [s EXCEPT !.active = FALSE, !.internal = FALSE, !.fgraph_waiting = FALSE]

\* Mutant: the state stays active after the exit.
ExitStateStillActive(s) ==
    [s EXCEPT !.internal = FALSE, !.fgraph_waiting = FALSE,
              !.fgraph_capturing = FALSE]

\* A syscall-stop of an active thread is taken for the exit: its line is
\* written and the state reset.
ExitState(s) ==
    [s EXCEPT !.active = FALSE, !.internal = FALSE,
              !.fgraph_waiting = FALSE, !.fgraph_capturing = FALSE]

HandleExitPlain(t) ==
    /\ states[t].active /\ ~states[t].fgraph_capturing
    /\ \E p \in SyscallStops : WaitPid(t, p)
    /\ states' = [states EXCEPT ![t] = ExitState(@)]
    /\ window' = Drained
    /\ skipped' = skipped \ {t}
    /\ Resume(phase, {t})
    /\ UNCHANGED <<kind, child, depth, cached, capture, queue, running>>

\* The captured call returns: finish_active_fgraph_capture, then the next
\* waiting thread has its turn.
HandleExitCaptured(t) ==
    /\ states[t].active /\ states[t].fgraph_capturing
    /\ \E p \in SyscallStops : WaitPid(t, p)
    /\ window' = Drained
    /\ ReleaseWaiting(queue, [states EXCEPT ![t] = ExitState(@)],
                      phase, Drained, {t})
    /\ UNCHANGED <<kind, child, depth, cached, running>>

\* t was killed after waitpid returned: ptrace_getregs fails and the loop
\* goes on; the end of t is reported later.
HandleVanished(t) ==
    /\ \E p \in SyscallStops : WaitPid(t, p)
    /\ KillGroup(ProcOf[t])
    /\ window' = Drained
    /\ UNCHANGED <<kind, child, depth, cached, states, capture, queue,
                   running, skipped>>

\* PTRACE_EVENT_CLONE, FORK or VFORK: the new thread and t are resumed.
HandleClone(t) ==
    /\ WaitPid(t, "cloned")
    /\ window' = Drained
    /\ Resume(phase, {child[t], t})
    /\ child' = [child EXCEPT ![t] = t]
    /\ UNCHANGED <<kind, depth, cached, states, capture, queue,
                   running, skipped>>

\* Mutant: PTRACE_EVENT_EXIT finishes the capture of its thread already.
HandleOtherFinishes(t) ==
    /\ \E p \in {"newborn", "signal", "dying"} : WaitPid(t, p)
    /\ window' = Drained
    /\ \/ /\ capture = t
          /\ ReleaseWaiting(queue, [states EXCEPT ![t].fgraph_capturing = FALSE],
                            phase, Drained, {t})
       \/ /\ capture # t
          /\ Resume(phase, {t})
          /\ UNCHANGED <<states, capture, queue, skipped>>
    /\ UNCHANGED <<kind, child, depth, cached, running>>

\* Every other stop: a new thread's SIGSTOP, a signal (delivered by the
\* resume), PTRACE_EVENT_EXIT.
HandleOther(t) ==
    /\ \E p \in {"newborn", "signal", "dying"} : WaitPid(t, p)
    /\ window' = Drained
    /\ Resume(phase, {t})
    /\ UNCHANGED <<kind, child, depth, cached, states, capture, queue,
                   running, skipped>>

\* Mutant: a dead thread stays queued.
ForgetNothing(t, q) == q

\* Mutant: the queue is cleared.
ForgetEverybody(t, q) == <<>>

\* waiting_fgraph_tids.retain; a queue holds t at most once.
Forget(t, q) ==
    IF t \notin Elems(q) THEN q
    ELSE LET at == CHOOSE i \in DOMAIN q : q[i] = t
         IN [i \in 1..Len(q) - 1 |-> IF i < at THEN q[i] ELSE q[i + 1]]

\* t exited or was killed: whatever the loop keeps under its id goes, and its
\* capture ends.  waitpid reports a group's leader last, and releases the
\* thread id with its thread-local depth.
HandleGone(t) ==
    /\ running
    /\ phase[t] = "zombie"
    /\ ProcOf[t] = t => \A u \in Group(t) \ {t} : phase[u] = "none"
    /\ pipe' = <<>>
    /\ window' = [Drained EXCEPT ![t] = 0]
    /\ LET q == Forget(t, queue)
           st == [states EXCEPT ![t] = DefaultState]
           ph == [phase EXCEPT ![t] = "none"]
       IN \/ /\ capture \in {t, NoTid}
             /\ ReleaseWaiting(q, st, ph, window', {})
          \/ /\ capture \notin {t, NoTid}
             /\ queue' = q
             /\ states' = st
             /\ phase' = ph
             /\ skipped' = skipped \ {t}
             /\ UNCHANGED <<capture, seen>>
    /\ kind' = [kind EXCEPT ![t] = "work"]
    /\ child' = [child EXCEPT ![t] = t]
    /\ depth' = [depth EXCEPT ![t] = 0]
    /\ cached' = [cached EXCEPT ![t] = NoTid]
    /\ UNCHANGED running

\* waitpid fails with ECHILD: the loop ends and closes what is open.
HandleNoChild ==
    /\ running
    /\ \A t \in Tid : phase[t] = "none"
    /\ running' = FALSE
    /\ capture' = NoTid
    /\ UNCHANGED <<kernelVars, pipe, states, window, queue, skipped>>

Terminated == ~running /\ UNCHANGED vars

-----------------------------------------------------------------------------
Run(t) ==
    \/ RunPublish(t) \/ RunWork(t) \/ RunClone(t) \/ RunCloneFails(t)
    \/ RunQuit(t)

Handle(t) ==
    \/ HandleEntryPlain(t) \/ HandleEntryBegin(t) \/ HandleEntryHold(t)
    \/ HandleExitPlain(t) \/ HandleExitCaptured(t) \/ HandleVanished(t)
    \/ HandleClone(t) \/ HandleOther(t) \/ HandleGone(t)

Next ==
    \/ \E t \in Tid : \/ \E k \in Calls : EnterSyscall(t, k)
                      \/ EnterWindow(t) \/ ExitWindow(t)
                      \/ Run(t)
                      \/ Signal(t)
                      \/ Kill(t)
                      \/ Handle(t)
    \/ HandleNoChild
    \/ Terminated

Spec == Init /\ [][Next]_vars

\* Every stop is eventually returned by waitpid and handled (the scan of
\* waitpid(-1) is not starved by other threads), and a call that does not
\* wait for another thread returns.  Nothing is assumed of the program.
Serve(t) ==
    \/ HandleEntryPlain(t) \/ HandleEntryBegin(t) \/ HandleEntryHold(t)
    \/ HandleExitPlain(t) \/ HandleExitCaptured(t)
    \/ HandleClone(t) \/ HandleOther(t) \/ HandleGone(t)

Fairness == \A t \in Tid : WF_vars(Run(t)) /\ WF_vars(Serve(t))

FairSpec == Spec /\ Fairness

-----------------------------------------------------------------------------
(* Properties.                                                              *)

\* Every variable of the loop and of the kernel side holds a value of its type.
TypeOK ==
    /\ phase \in [Tid -> Phases]
    /\ kind \in [Tid -> CallKinds \cup {"publish"}]
    /\ child \in [Tid -> Tid]
    /\ seen \in SUBSET Tid
    /\ depth \in [Tid -> 0..MaxDepth]
    /\ cached \in [Tid -> Tid \cup {NoTid}]
    /\ pipe \in Seq(Update)
    /\ states \in [Tid -> SyscallState]
    /\ window \in [Tid -> Nat]
    /\ capture \in Tid \cup {NoTid}
    /\ queue \in Seq(Tid)
    /\ running \in BOOLEAN
    /\ skipped \in SUBSET Tid

\* active_fgraph_capture and the fgraph_capturing flags never disagree: the
\* thread of the capture is the one and only thread whose exit will finish it,
\* and that thread is not waiting as well.
CaptureMatchesState ==
    \A t \in Tid : /\ states[t].fgraph_capturing <=> (capture = t)
                   /\ states[t].fgraph_capturing =>
                        states[t].active /\ ~states[t].fgraph_waiting

\* A thread the loop keeps stopped can be found again: it is in
\* waiting_fgraph_tids in the state that maybe_resume_waiting_fgraph_tid
\* accepts, so the queue is its way out.
HeldIsQueued ==
    \A t \in seen : /\ phase[t] \in SyscallStops
                    /\ t \in Elems(queue)
                    /\ states[t].active /\ states[t].fgraph_waiting

\* Threads wait only while some capture is active: when the last capture
\* ended, normally, by an error of begin_capture or by the death of its
\* thread, nobody was left in the queue.
NoStrandedWaiter == queue # <<>> => capture # NoTid

\* waiting_fgraph_tids holds a thread once, whatever the loop goes through.
QueueHasNoDuplicates ==
    \A i, j \in DOMAIN queue : queue[i] = queue[j] => i = j

\* A thread id carries nothing over to a later thread with the same id: once
\* its end is handled no state, queue, capture or stop is kept under it, and,
\* as long as nobody forks, no window either.
NothingLeftOfTheDead ==
    \A t \in Tid : phase[t] = "none" =>
        /\ states[t] = DefaultState
        /\ capture # t
        /\ t \notin Elems(queue) \cup seen
        /\ SingleProcess => window[t] = 0

\* At most one update of a thread is in the pipe, because the stop at the exit
\* of its own write, which it is still in unless it died there, drains it: a
\* pipe with room for one message per traced thread never drops one.
OneUpdatePending ==
    /\ \A i, j \in DOMAIN pipe : pipe[i].from = pipe[j].from => i = j
    /\ \A i \in DOMAIN pipe : phase[pipe[i].from] \in {"exit", "dying", "zombie"}

\* The toggling of SyscallState.active keeps in step with the kernel: a thread
\* is active exactly from the handling of its entry-stop to that of its
\* exit-stop.
EntryExitInStep ==
    \A t \in Tid :
        /\ phase[t] \in {"newborn", "user", "signal"} => ~states[t].active
        /\ phase[t] = "entry" => (states[t].active <=> t \in seen)
        /\ phase[t] \in {"kernel", "cloned", "exit"} => states[t].active

\* The window depths the loop decides with are those of the threads: after
\* the drain, a thread that is not just publishing has its own depth there.
WindowUpToDate ==
    \A t \in Tid :
        /\ phase[t] \in {"user", "signal", "exit"} => Drained[t] = depth[t]
        /\ phase[t] \in {"entry", "kernel", "cloned"} /\ kind[t] # "publish"
             => Drained[t] = depth[t]

\* A call that runs inside a window, not classified as internal, runs under
\* its own capture unless begin_capture failed for it.
WindowCallsCaptured ==
    \A t \in Tid :
        /\ FgraphEnabled /\ depth[t] > 0 /\ kind[t] # "publish"
        /\ phase[t] \in {"kernel", "cloned", "exit"}
        /\ ~states[t].internal
        => capture = t \/ t \in skipped

\* README: "function-graph capture is enabled inside the matched function
\* enter/return window".  The call being captured is one its thread makes
\* inside a window, or the write that publishes the end of the window.
CapturesOnlyInWindow ==
    capture # NoTid => depth[capture] > 0 \/ kind[capture] = "publish"

\* A capture starts at the entry-stop of its thread (or for a thread that was
\* killed while it waited) and ends only at that call's exit-stop or at the
\* thread's end: it covers one call and never a piece of another.
CaptureSpansOneCall ==
    [][capture' # capture =>
         /\ capture # NoTid => phase[capture] \in {"exit", "zombie"}
         /\ capture' # NoTid => phase[capture'] \in {"entry", "dying", "zombie"}
      ]_vars

\* The scheduling of captures is a lock with a first-come line: see CaptureLock
\* for what that promises.
Lock == INSTANCE CaptureLock WITH holder <- capture, line <- queue

\* Every step of the loop and of the threads, whatever is killed, forked or
\* reported late, is a step of the lock or leaves it alone.
ImplementsLock == Lock!Spec

\* A thread held at its syscall entry is not held for ever.
HeldIsReleased == \A t \in Tid : (t \in seen) ~> (t \notin seen)

\* README: "each syscall in the window writes one file".  A call made in a
\* window is eventually captured, unless begin_capture fails for it, it is
\* classified as internal or its thread ends.
EachWindowCallIsCaptured ==
    \A t \in Tid :
        (phase[t] = "entry" /\ depth[t] > 0 /\ kind[t] # "publish")
          ~> (\/ capture = t \/ t \in skipped \/ states[t].internal
              \/ phase[t] \notin Alive)
=============================================================================
