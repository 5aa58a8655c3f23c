------------------------------ MODULE TraceFs ------------------------------
(***************************************************************************)
(* TraceFsController (src/hook/fgraph.rs) and the tracefs files it drives. *)
(*                                                                         *)
(* An operation of the controller is a script of control-file writes made  *)
(* one by one while the kernel goes on recording.  A write may fail at any *)
(* point: at the open, with no effect, or after it, when O_TRUNC has       *)
(* already emptied the file.  A failed write ends the script, except the   *)
(* best-effort writes of set_graph_function.                               *)
(*                                                                         *)
(* The operations are issued as the code issues them: preflight in the     *)
(* traced process, init_or_fail in the tracer, then begin and end of       *)
(* captures (begin_fgraph_capture_for_state, finish_active_fgraph_capture, *)
(* which resets after a failed end) and the reset when the loop is over.   *)
(* A controller that goes out of scope resets once more (Drop).            *)
(*                                                                         *)
(* tracefs is one for the machine.  Every process that loads the library   *)
(* runs preflight, the programs that a traced process executes included,   *)
(* and nothing keeps its writes apart from those of a tracer at work.      *)
(***************************************************************************)
EXTENDS Naturals, Sequences

CONSTANTS
    Tid,     \* threads
    Loads,   \* processes that load the library while the tracer is at work
    Nobody   \* no thread; as a filter: set_ftrace_pid is empty, which
             \* selects every thread

ASSUME TidAssumption == Nobody \notin Tid
ASSUME LoadsAssumption == Loads \in Nat

VARIABLES
    tracing_on,       \* the recorder runs
    set_ftrace_pid,   \* the only thread recorded, Nobody for all threads
    current_tracer,   \* "nop" or "function_graph"
    trace,            \* threads with records in the ring buffer
    op,               \* operation in progress
    pos,              \* next write of its script
    target,           \* thread of the operation or of the active capture
    active,           \* a capture is active
    file,             \* the last function-graph file: its thread and content
    loads,            \* loads still to come
    other,            \* writes left of the preflight of another process
    disturbed         \* another process has written since the last Begin

vars == <<tracing_on, set_ftrace_pid, current_tracer, trace,
          op, pos, target, active, file, loads, other, disturbed>>

others == <<loads, other, disturbed>>

tracefs == <<tracing_on, set_ftrace_pid, current_tracer, trace>>

NoFile == [tid |-> Nobody, records |-> {}, disturbed |-> FALSE]

\* Operations: preflight (init_or_fail, reset_state, Drop), init_or_fail of
\* the tracer, and those of the loop.
Startup == {"preflight", "settle", "settled", "init"}
Loop == {"idle", "begin", "end", "reset", "close"}
Ops == Startup \cup Loop \cup {"drop", "closed"}

\* The scripts, in the order of the code.
InitScript == <<"off", "nopid", "nop", "clear", "buffer">>

\* Mutant: begin_capture does not stop the recorder first.
BeginScriptNoStop ==
    <<"nopid", "pid", "graph", "function_graph", "clear", "on">>

\* Mutant: begin_capture does not select the tracer.
BeginScriptNoTracer == <<"off", "nopid", "pid", "graph", "clear", "on">>

\* Mutant: begin_capture starts the recorder before it clears the buffer.
BeginScriptClearLast ==
    <<"off", "nopid", "pid", "graph", "function_graph", "on", "clear">>

BeginScript ==
    <<"off", "nopid", "pid", "graph", "function_graph", "clear", "on">>
EndScript   == <<"off", "read", "clear", "graph", "nopid">>
ResetScript == <<"off", "graph", "nopid", "nop", "clear">>

Script(o) == CASE o \in {"preflight", "init"} -> InitScript
               [] o = "begin" -> BeginScript
               [] o = "end" -> EndScript
               [] OTHER -> ResetScript

\* What runs after o, which succeeded or failed.
NextOp(o, ok) ==
    CASE o = "preflight" -> IF ok THEN "settle" ELSE "drop"
      [] o = "settle"    -> IF ok THEN "settled" ELSE "drop"
      [] o = "settled"   -> "init"
      [] o = "init"      -> IF ok THEN "idle" ELSE "drop"
      [] o = "end"       -> IF ok THEN "idle" ELSE "reset"
      [] o = "close"     -> "drop"
      [] o = "drop"      -> "closed"
      [] OTHER           -> "idle"

\* Somebody else may have used tracefs before.
Init ==
    /\ tracing_on \in BOOLEAN
    /\ set_ftrace_pid \in Tid \cup {Nobody}
    /\ current_tracer \in {"nop", "function_graph"}
    /\ trace \in SUBSET Tid
    /\ op = "preflight" /\ pos = 1
    /\ target = Nobody
    /\ active = FALSE
    /\ file = NoFile
    /\ loads = Loads /\ other = <<>> /\ disturbed = FALSE

-----------------------------------------------------------------------------
\* The kernel records a thread that runs kernel code.  The thread of a capture
\* is stopped at its syscall entry until begin_capture returns.
Record(t) ==
    /\ tracing_on /\ current_tracer = "function_graph"
    /\ set_ftrace_pid \in {t, Nobody}
    /\ trace' = trace \cup {t}
    /\ UNCHANGED <<tracing_on, set_ftrace_pid, current_tracer,
                   op, pos, target, active, file, others>>

\* The effect of a control write on the files; a change of tracer empties the
\* buffer as well.
Effect(w) ==
    /\ tracing_on' = CASE w = "off" -> FALSE [] w = "on" -> TRUE
                       [] OTHER -> tracing_on
    /\ set_ftrace_pid' = CASE w = "nopid" -> Nobody [] w = "pid" -> target
                           [] OTHER -> set_ftrace_pid
    /\ current_tracer' = IF w \in {"nop", "function_graph"} THEN w
                         ELSE current_tracer
    /\ trace' = IF w = "clear" \/ current_tracer' # current_tracer THEN {}
                ELSE trace

\* A failed write: no effect, or the truncation by the open alone.
FailedEffect(w) ==
    \/ UNCHANGED tracefs
    \/ /\ w \in {"pid", "nopid"}
       /\ set_ftrace_pid' = Nobody
       /\ UNCHANGED <<tracing_on, current_tracer, trace>>
    \/ /\ w = "clear"
       /\ trace' = {}
       /\ UNCHANGED <<tracing_on, set_ftrace_pid, current_tracer>>

\* The script of o is over, successfully or not.
Finish(o, ok) ==
    /\ pos' = 1
    /\ op' = NextOp(o, ok)
    /\ active' = (o = "begin" /\ ok)
    /\ target' = IF o = "begin" /\ ok THEN target ELSE Nobody

\* write_control succeeds, and the script goes on or ends.
Write ==
    LET w == Script(op)[pos]
    IN /\ op \notin {"idle", "closed"}
       /\ w # "read"
       /\ Effect(w)
       /\ \/ /\ pos < Len(Script(op))
             /\ pos' = pos + 1
             /\ UNCHANGED <<op, target, active>>
          \/ /\ pos = Len(Script(op))
             /\ Finish(op, TRUE)
       /\ UNCHANGED <<file, others>>

\* end_capture_and_read reads the buffer; the file is written from what was
\* read once the rest of the script has succeeded, so it is kept as content.
Read ==
    /\ op = "end" /\ Script(op)[pos] = "read"
    /\ file' = [tid |-> target, records |-> trace, disturbed |-> disturbed]
    /\ pos' = pos + 1
    /\ UNCHANGED <<tracefs, op, target, active, others>>

\* write_control or the read fails: the rest of the script is skipped.
Fail ==
    LET w == Script(op)[pos]
    IN /\ op \notin {"idle", "closed"}
       /\ w # "graph"
       /\ FailedEffect(w)
       /\ Finish(op, FALSE)
       /\ file' = IF op = "end" THEN NoFile ELSE file
       /\ UNCHANGED others

-----------------------------------------------------------------------------
Begin(t) ==
    /\ op = "idle" /\ ~active
    /\ op' = "begin" /\ target' = t
    /\ disturbed' = (other # <<>>)
    /\ UNCHANGED <<tracefs, pos, active, file, loads, other>>

\* Mutant: what is read is attributed to whichever thread has stopped.
EndOfAnyThread ==
    /\ op = "idle" /\ active
    /\ op' = "end" /\ target' \in Tid
    /\ UNCHANGED <<tracefs, pos, active, file, others>>

End ==
    /\ op = "idle" /\ active
    /\ op' = "end"
    /\ UNCHANGED <<tracefs, pos, target, active, file, others>>

\* The loop has ended: reset_state.
Close ==
    /\ op = "idle" /\ ~active
    /\ op' = "close"
    /\ UNCHANGED <<tracefs, pos, target, active, file, others>>

Closed == op = "closed" /\ UNCHANGED vars

\* Another process loads the library: preflight, that is init_or_fail and
\* reset_state, and then the Drop of its controller.
Load ==
    /\ op \in Loop /\ loads > 0 /\ other = <<>>
    /\ loads' = loads - 1
    /\ other' = InitScript \o ResetScript \o ResetScript
    /\ disturbed' = TRUE
    /\ UNCHANGED <<tracefs, op, pos, target, active, file>>

OtherWrite ==
    /\ other # <<>>
    /\ Effect(Head(other))
    /\ other' = Tail(other)
    /\ UNCHANGED <<op, pos, target, active, file, loads, disturbed>>

\* A failed write leaves the reset of Drop to do; one that fails there ends it.
OtherFail ==
    /\ other # <<>> /\ Head(other) # "graph"
    /\ FailedEffect(Head(other))
    /\ other' = IF Len(other) > Len(ResetScript) THEN ResetScript ELSE <<>>
    /\ UNCHANGED <<op, pos, target, active, file, loads, disturbed>>

Next ==
    \/ \E t \in Tid : Record(t) \/ Begin(t)
    \/ Write \/ Read \/ Fail
    \/ End \/ Close \/ Closed
    \/ Load \/ OtherWrite \/ OtherFail

Spec == Init /\ [][Next]_vars

-----------------------------------------------------------------------------
\* Whatever write fails and wherever, from the first capture on the recorder
\* never runs with an empty set_ftrace_pid, which would record every thread of
\* the machine: the scripts stop at a failed "tracing_on 0" before they touch
\* the filter.  Another process that resets the filter can break this.
NeverRecordsEveryone ==
    op \in Loop /\ loads = Loads /\ tracing_on => set_ftrace_pid # Nobody

\* A function-graph file holds records of its own thread only, even after
\* captures that ended half way and whatever was in the buffer at the start.
\* Another process may spoil the capture it writes into, and no later one.
FileIsOfOneThread == ~file.disturbed => file.records \subseteq {file.tid}

\* While a capture is active the recorder runs, for that thread, unless
\* another process has written since it began.
ActiveCaptureRecords ==
    active /\ op = "idle" /\ ~disturbed =>
        /\ tracing_on /\ current_tracer = "function_graph"
        /\ set_ftrace_pid = target

\* The recorder is switched on by the last write of begin_capture only, and
\* a capture begins with an empty buffer.
StartsClean ==
    [][~tracing_on /\ tracing_on'
         => op = "begin" /\ active' /\ trace' = {}]_vars
=============================================================================
