----------------------------- MODULE Bootstrap -----------------------------
(***************************************************************************)
(* How a process that loads the library gets its tracer (ensure_started,   *)
(* spawn_ptrace_tracer and the start of run_ptrace_loop in                 *)
(* src/hook/ptrace.rs).                                                    *)
(*                                                                         *)
(* The target makes three pipes, forks the tracer and reads one byte from  *)
(* the first.  The tracer attaches to its parent, waits for it to stop,    *)
(* sets the options, resumes it, takes tracefs if functions are watched,   *)
(* and writes "1", or "0" as soon as one of this fails, and exits.  Either *)
(* of the two may be killed at any point.  A target under PTRACE_SYSCALL   *)
(* stops at its next system call, so it goes on when the tracer is in its  *)
(* loop or has let go of it.                                               *)
(***************************************************************************)
EXTENDS Naturals, FiniteSets

VARIABLES
    syscall,   \* LIB_CUDATRACE_TRACE includes syscall
    fgraph,    \* LIB_CUDATRACE_FGRAPH_FUNCS names a function
    sigpipe,   \* SIGPIPE kills; FALSE if the program ignores it
    target,    \* where the loading thread is
    pub,       \* ends in DEPTH_PIPE_WR_FD and FGRAPH_WINDOW_PIPE_WR_FD
    fds,       \* process -> the pipe ends it has open
    byte,      \* what is in the bootstrap pipe
    tracer,    \* where the tracer is
    tracee,    \* what getppid returned: the target, or who inherits orphans
    stop,      \* the target under ptrace
    starved    \* history: a pipe or the fork failed, or the read

bootVars == <<syscall, fgraph, sigpipe, target, pub, fds, byte, tracer, tracee,
              stop, starved>>

config == <<syscall, fgraph, sigpipe>>

Ready  == {"readyR", "readyW"}
Depth  == {"depthR", "depthW"}
Window == {"windowR", "windowW"}

\* "run": ensure_started has returned; "exited": fatal_exit.
Dead == {"exited", "killed"}
Over == Dead \cup {"run"}

\* The SIGSTOP of PTRACE_ATTACH on its way, the attach-stop, PTRACE_SYSCALL;
\* "jobstop": the SIGSTOP has outlived the tracer and stops the process.
Stops == {"free", "pending", "attached", "traced", "jobstop"}

BootInit ==
    /\ syscall \in BOOLEAN /\ fgraph \in BOOLEAN /\ sigpipe \in BOOLEAN
    /\ target = "start" /\ pub = {}
    /\ fds = [p \in {"target", "tracer"} |-> {}]
    /\ byte = "none"
    /\ tracer = "none" /\ tracee = "none"
    /\ stop = "free" /\ starved = FALSE

-----------------------------------------------------------------------------
(* The target. *)

Runs == stop \in {"free", "pending"} \/ (stop = "traced" /\ tracer = "loop")

\* ensure_started up to spawn_ptrace_tracer: functions are watched in vain
\* without syscall tracing or without tracefs.
EnsureStarted ==
    /\ target = "start"
    /\ \/ fgraph /\ target' = "exited"
       \/ ~fgraph /\ ~syscall /\ target' = "run"
       \/ syscall /\ target' = "pipe1"
    /\ UNCHANGED <<config, pub, fds, byte, tracer, tracee, stop, starved>>

\* The three pipes; one that fails closes those that were made.
MakePipe(pc, ends, next) ==
    /\ target = pc
    /\ \/ /\ target' = next
          /\ fds' = [fds EXCEPT !["target"] = @ \cup ends]
          /\ UNCHANGED starved
       \/ /\ target' = "run"
          /\ fds' = [fds EXCEPT !["target"] = {}]
          /\ starved' = TRUE
    /\ UNCHANGED <<config, pub, byte, tracer, tracee, stop>>

Fork ==
    /\ target = "fork"
    /\ \/ /\ target' = "close"
          /\ tracer' = "start"
          /\ fds' = [fds EXCEPT !["tracer"] = fds["target"]]
          /\ UNCHANGED starved
       \/ /\ target' = "run"
          /\ fds' = [fds EXCEPT !["target"] = {}]
          /\ UNCHANGED tracer
          /\ starved' = TRUE
    /\ UNCHANGED <<config, pub, byte, tracee, stop>>

ParentCloses ==
    /\ target = "close" /\ Runs
    /\ target' = "read"
    /\ fds' = [fds EXCEPT !["target"] = @ \ {"readyW", "depthR", "windowR"}]
    /\ pub' = {"depthW", "windowW"}
    /\ UNCHANGED <<config, byte, tracer, tracee, stop, starved>>

\* "1" was read.
ReadReady ==
    /\ target = "read" /\ Runs
    /\ byte = "1"
    /\ byte' = "none"
    /\ target' = "run"
    /\ fds' = [fds EXCEPT !["target"] = @ \ {"readyR"}]
    /\ UNCHANGED <<config, pub, tracer, tracee, stop, starved>>

\* The published ends are taken back and closed, and so is the read end; with
\* watched functions the process ends instead.
GiveUp ==
    /\ pub' = {}
    /\ target' = IF fgraph THEN "exited" ELSE "run"
    /\ fds' = [fds EXCEPT !["target"] =
                 IF fgraph THEN {} ELSE @ \ (pub \cup {"readyR"})]

\* Mutant: the target reads on at the end of file.
ReadNotReadyInsists ==
    /\ target = "read" /\ Runs
    /\ byte = "0"
    /\ byte' = "none"
    /\ GiveUp
    /\ UNCHANGED <<config, tracer, tracee, stop, starved>>

\* "0", or the end of file that a dead tracer leaves.
ReadNotReady ==
    /\ target = "read" /\ Runs
    /\ \/ byte = "0"
       \/ byte = "none" /\ "readyW" \notin fds["target"] \cup fds["tracer"]
    /\ byte' = "none"
    /\ GiveUp
    /\ UNCHANGED <<config, tracer, tracee, stop, starved>>

\* A signal handler of the program interrupts the read: EINTR is taken for a
\* tracer that failed.
ReadInterrupted ==
    /\ target = "read" /\ Runs
    /\ GiveUp
    /\ starved' = TRUE
    /\ UNCHANGED <<config, byte, tracer, tracee, stop>>

\* PTRACE_ATTACH has sent a SIGSTOP, which is taken as the attach-stop.
TakeStop ==
    /\ stop = "pending" /\ target \notin Dead
    /\ stop' = "attached"
    /\ UNCHANGED <<config, target, pub, fds, byte, tracer, tracee, starved>>

KillTarget ==
    /\ target \notin Dead
    /\ target' = "killed"
    /\ fds' = [fds EXCEPT !["target"] = {}]
    /\ stop' = "free"
    /\ UNCHANGED <<config, pub, byte, tracer, tracee, starved>>

-----------------------------------------------------------------------------
(* The tracer. *)

\* The tracer is gone: its descriptors are closed and its tracee goes on, with
\* the SIGSTOP of the attach if that was not yet dismissed.
Leave ==
    /\ tracer' = "gone"
    /\ fds' = [fds EXCEPT !["tracer"] = {}]
    /\ stop' = IF stop \in {"pending", "attached", "jobstop"} THEN "jobstop"
               ELSE "free"

ChildCloses ==
    /\ tracer = "start"
    /\ tracer' = "attach"
    /\ fds' = [fds EXCEPT !["tracer"] = @ \ {"readyR", "depthW", "windowW"}]
    /\ tracee' = IF target \in Dead THEN "stranger" ELSE "target"
    /\ UNCHANGED <<config, target, pub, byte, stop, starved>>

\* The tracee can be traced: it is a stranger, or it is alive.
Traceable == tracee = "stranger" \/ target \notin Dead

\* A step of the bootstrap that succeeded, or did not.
Step(pc, next, ok) ==
    /\ tracer = pc
    /\ tracer' = IF ok THEN next ELSE "refuse"
    /\ UNCHANGED <<config, target, pub, fds, byte, tracee, starved>>

\* Mutant: the tracer reports ready before it has resumed its target.
AttachReportsEarly ==
    \E ok \in BOOLEAN :
       /\ ok => Traceable
       /\ Step("attach", "signal", ok)
       /\ stop' = IF ok /\ tracee = "target" THEN "pending" ELSE stop

Attach ==
    \E ok \in BOOLEAN :
       /\ ok => Traceable
       /\ Step("attach", "wait", ok)
       /\ stop' = IF ok /\ tracee = "target" THEN "pending" ELSE stop

\* Mutant: the loop of wait_for_stop does not look for an exit.
WaitForStopForever ==
    /\ Step("wait", "options", TRUE)
    /\ tracee = "target" => stop = "attached"
    /\ UNCHANGED stop

WaitForStop ==
    /\ \/ Step("wait", "options", TRUE) /\ (tracee = "target" => stop = "attached")
       \/ Step("wait", "options", FALSE) /\ ~Traceable
    /\ UNCHANGED stop

SetOptions ==
    \E ok \in BOOLEAN :
       /\ ok => Traceable
       /\ Step("options", "resume", ok)
       /\ UNCHANGED stop

ResumeTarget ==
    \E ok \in BOOLEAN :
       /\ ok => Traceable
       /\ Step("resume", IF fgraph THEN "init" ELSE "signal", ok)
       /\ stop' = IF ok /\ tracee = "target" THEN "traced" ELSE stop

\* TraceFsController::init_or_fail
InitController ==
    \E ok \in BOOLEAN : Step("init", "signal", ok) /\ UNCHANGED stop

\* signal_ready, which ignores a failed write; without a reader the write
\* raises SIGPIPE.
Reader == "readyR" \in fds["target"]

\* A failure is reported, and _exit.
SignalFailure ==
    /\ tracer = "refuse"
    /\ byte' = IF Reader THEN "0" ELSE byte
    /\ Leave
    /\ UNCHANGED <<config, target, pub, tracee, starved>>

SignalReady ==
    /\ tracer = "signal"
    /\ \/ /\ Reader \/ ~sigpipe
          /\ byte' = IF Reader THEN "1" ELSE byte
          /\ tracer' = "loop"
          /\ fds' = [fds EXCEPT !["tracer"] = @ \ {"readyW"}]
          /\ UNCHANGED stop
       \/ /\ ~Reader /\ sigpipe
          /\ UNCHANGED byte
          /\ Leave
    /\ UNCHANGED <<config, target, pub, tracee, starved>>

\* waitpid: ECHILD, when the target is gone: its forked children, which keep the
\* loop going, are left out here.  The loop itself is PtraceLoop.
LoopEnds ==
    /\ tracer = "loop" /\ ~Traceable
    /\ Leave
    /\ UNCHANGED <<config, target, pub, byte, tracee, starved>>

KillTracer ==
    /\ tracer \notin {"none", "gone"}
    /\ Leave
    /\ UNCHANGED <<config, target, pub, byte, tracee, starved>>

-----------------------------------------------------------------------------
TargetStep ==
    \/ EnsureStarted
    \/ MakePipe("pipe1", Ready, "pipe2")
    \/ MakePipe("pipe2", Depth, "pipe3")
    \/ MakePipe("pipe3", Window, "fork")
    \/ Fork \/ ParentCloses \/ ReadReady \/ ReadNotReady
    \/ TakeStop

TracerStep ==
    \/ ChildCloses \/ Attach \/ WaitForStop \/ SetOptions \/ ResumeTarget
    \/ InitController \/ SignalFailure \/ SignalReady \/ LoopEnds

BootNext ==
    TargetStep \/ TracerStep \/ ReadInterrupted \/ KillTarget \/ KillTracer

-----------------------------------------------------------------------------
(* Properties. *)

\* A program that runs publishes only to a tracer that has finished its
\* bootstrap: it has attached to this process, resumed it, and reads what is
\* published, until it dies.  With watched functions the program runs only then
\* (README: "if this variable is set but tracefs/function_graph is unavailable,
\* the process exits with error"); a pipe or a fork that fails is let pass.
ReadyIsTraced ==
    target = "run" =>
       /\ pub # {} => tracer \in {"loop", "gone"}
       /\ pub # {} /\ tracer = "loop" => tracee = "target" /\ stop = "traced"
       /\ fgraph => pub # {} \/ starved

\* Whoever fails or is killed, ensure_started returns or the process ends,
\* except that a tracer which goes between its attach and PTRACE_SYSCALL leaves
\* its SIGSTOP behind.
StartsOrExits == <>(target \in Over \/ stop = "jobstop")

\* No tracer is left behind by a process that is gone.  The exception is a
\* tracer whose parent died before it asked for it, so that it has attached to
\* the process that inherits orphans, and that does not die of SIGPIPE.
TracerLeaves ==
    (target \in Dead) ~>
       (tracer \in {"none", "gone"} \/ (tracee = "stranger" /\ ~sigpipe))
=============================================================================
