------------------------------ MODULE Publish ------------------------------
(***************************************************************************)
(* The threads of a started process publish their depth through the pipe   *)
(* of the bootstrap (publish_graph_depth and publish_fgraph_window_update  *)
(* in src/hook/ptrace.rs, one code for two pipes; the depth pipe stands    *)
(* for both).  The descriptor is a number the whole process shares: the    *)
(* program may close it, or be given it again once it is closed.           *)
(***************************************************************************)
EXTENDS Bootstrap

CONSTANTS Threads

VARIABLES
    pc,        \* thread -> where its publish_graph_depth is
    file,      \* the number of the pipe's end is a file of the program
    meddled,   \* history: the program closed the library's end
    lost,      \* history: the library closed a file of the program
    spoiled    \* history: the library wrote into a file of the program

pubVars == <<pc, file, meddled, lost, spoiled>>
vars == <<bootVars, pubVars>>

\* What the process has under the number.
Open == "depthW" \in fds["target"]

Init ==
    /\ BootInit
    /\ pc = [t \in Threads |-> "idle"]
    /\ file = FALSE /\ meddled = FALSE /\ lost = FALSE /\ spoiled = FALSE

-----------------------------------------------------------------------------
(* A thread publishes.  It has come through ensure_started. *)

Publishing == target = "run" /\ Runs

\* DEPTH_PIPE_WR_FD.load
LoadEnd(t) ==
    /\ Publishing /\ pc[t] = "idle"
    /\ "depthW" \in pub
    /\ pc' = [pc EXCEPT ![t] = "loaded"]
    /\ UNCHANGED <<bootVars, file, meddled, lost, spoiled>>

\* The write succeeds, finds the pipe full (EAGAIN) or writes into whatever has
\* the number now: in each case the thread is done.
WriteDone(t) ==
    /\ Publishing /\ pc[t] = "loaded"
    /\ Open => "depthR" \in fds["tracer"]
    /\ Open \/ file
    /\ spoiled' = (spoiled \/ file)
    /\ pc' = [pc EXCEPT ![t] = "idle"]
    /\ UNCHANGED <<bootVars, file, meddled, lost>>

\* EBADF, or EPIPE if SIGPIPE is ignored.
WriteFails(t) ==
    /\ Publishing /\ pc[t] = "loaded"
    /\ \/ Open /\ ~sigpipe /\ "depthR" \notin fds["tracer"]
       \/ ~Open /\ ~file
    /\ pc' = [pc EXCEPT ![t] = "failed"]
    /\ UNCHANGED <<bootVars, file, meddled, lost, spoiled>>

\* The tracer is dead and nobody ignores SIGPIPE: the process dies of it.
WriteKills(t) ==
    /\ Publishing /\ pc[t] = "loaded"
    /\ Open /\ sigpipe /\ "depthR" \notin fds["tracer"]
    /\ target' = "killed"
    /\ fds' = [fds EXCEPT !["target"] = {}]
    /\ stop' = "free"
    /\ file' = FALSE
    /\ UNCHANGED <<config, pub, byte, tracer, tracee, starved,
                   pc, meddled, lost, spoiled>>

\* Mutant: the store without the comparison.
TakeBackAlways(t) ==
    /\ Publishing /\ pc[t] = "failed"
    /\ pub' = pub \ {"depthW"}
    /\ pc' = [pc EXCEPT ![t] = "close"]
    /\ UNCHANGED <<config, target, fds, byte, tracer, tracee, stop, starved,
                   file, meddled, lost, spoiled>>

\* compare_exchange: one thread takes the descriptor back, to close it.
TakeBack(t) ==
    /\ Publishing /\ pc[t] = "failed"
    /\ pub' = pub \ {"depthW"}
    /\ pc' = [pc EXCEPT ![t] = IF "depthW" \in pub THEN "close" ELSE "idle"]
    /\ UNCHANGED <<config, target, fds, byte, tracer, tracee, stop, starved,
                   file, meddled, lost, spoiled>>

\* Mutant: the thread that has taken the descriptor back does not close it.
CloseEndForgets(t) ==
    /\ Publishing /\ pc[t] = "close"
    /\ pc' = [pc EXCEPT ![t] = "idle"]
    /\ UNCHANGED <<bootVars, file, meddled, lost, spoiled>>

CloseEnd(t) ==
    /\ Publishing /\ pc[t] = "close"
    /\ fds' = [fds EXCEPT !["target"] = @ \ {"depthW"}]
    /\ file' = FALSE
    /\ lost' = (lost \/ file)
    /\ pc' = [pc EXCEPT ![t] = "idle"]
    /\ UNCHANGED <<config, target, pub, byte, tracer, tracee, stop, starved,
                   meddled, spoiled>>

-----------------------------------------------------------------------------
(* The program. *)

\* A program that closes every descriptor it does not know.
ProgramCloses ==
    /\ Publishing /\ Open
    /\ fds' = [fds EXCEPT !["target"] = @ \ {"depthW"}]
    /\ meddled' = TRUE
    /\ UNCHANGED <<config, target, pub, byte, tracer, tracee, stop, starved,
                   pc, file, lost, spoiled>>

\* A number that is free may be given to any file the program opens.
ProgramOpens ==
    /\ Publishing /\ ~Open /\ ~file
    /\ file' = TRUE
    /\ UNCHANGED <<bootVars, pc, meddled, lost, spoiled>>

-----------------------------------------------------------------------------
Publish(t) ==
    LoadEnd(t) \/ WriteDone(t) \/ WriteFails(t) \/ WriteKills(t)
    \/ TakeBack(t) \/ CloseEnd(t)

Next ==
    \/ BootNext /\ UNCHANGED pubVars
    \/ \E t \in Threads : Publish(t)
    \/ ProgramCloses \/ ProgramOpens

\* Both processes are scheduled; a wait that can end, ends.  Nothing is assumed
\* of the program, of signals or of kills.
Fairness ==
    /\ WF_vars(TargetStep /\ UNCHANGED pubVars)
    /\ WF_vars(TracerStep /\ UNCHANGED pubVars)

Spec == Init /\ [][Next]_vars /\ Fairness

-----------------------------------------------------------------------------
(* Properties. *)

Closing == \E t \in Threads : pc[t] = "close"

\* No end of a pipe is leaked on any path of spawn_ptrace_tracer or of a
\* publisher that fails: a started process has open only what its two cells
\* hold, or what a thread that took it back is about to close; the tracer in
\* its loop has open the two ends it reads.
PipesAccounted ==
    /\ target = "run" =>
         /\ pub \subseteq {"depthW", "windowW"}
         /\ fds["target"] \subseteq
               pub \cup (IF Closing THEN {"depthW"} ELSE {})
    /\ tracer = "loop" => fds["tracer"] = {"depthR", "windowR"}

\* The library closes or writes into a file of the program only if the program
\* has closed the library's descriptor first, with one exception: a thread that
\* has loaded the number writes after another one has closed it, because the
\* tracer is dead and SIGPIPE ignored.  Two threads that see the same failure
\* do not close the number twice.
OthersFilesIntact ==
    /\ lost => meddled
    /\ spoiled => meddled \/ (tracer = "gone" /\ ~sigpipe)
=============================================================================
