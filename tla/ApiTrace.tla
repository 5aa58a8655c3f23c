------------------------------ MODULE ApiTrace ------------------------------
(***************************************************************************)
(* The API half of the trace, on one thread: TraceScope (src/hook/mod.rs), *)
(* the span stack and its lines (src/graph.rs), the re-entry guard         *)
(* (src/reentry.rs), the depth and window updates sent to the tracer       *)
(* (src/hook/ptrace.rs), and the syscall lines the tracer adds to the      *)
(* thread's output.                                                        *)
(*                                                                         *)
(* All of this state is thread-local, except WINDOW_SEQ.  The thread stops *)
(* at the exit of each write to the tracer, whose pipes are drained before *)
(* it goes on, so an update is applied in the step that sends it, or lost  *)
(* when the pipe is full.                                                  *)
(***************************************************************************)
EXTENDS Naturals, Sequences, SequencesExt, FiniteSets

CONSTANTS
    Func,         \* hooked API functions
    Traced,       \* those whose domain LIB_CUDATRACE_TRACE enables
    Watched,      \* those LIB_CUDATRACE_FGRAPH_FUNCS may name
    MaxSeq,       \* u32::MAX of the window counter, made small
    MaxNest,      \* bound: API calls in progress
    MaxCalls,     \* bound: API calls that get a span
    MaxSyscalls,  \* bound: system calls that get a line
    MaxLost       \* bound: updates that find the pipe full

ASSUME FuncAssumption == Traced \subseteq Func /\ Watched \subseteq Func
ASSUME BoundAssumption ==
    /\ MaxSeq \in Nat \ {0}
    /\ MaxNest \in Nat /\ MaxCalls \in Nat /\ MaxSyscalls \in Nat
    /\ MaxLost \in Nat

VARIABLES
    syscall,   \* global().trace.syscall: LIB_CUDATRACE_TRACE includes syscall
    tls,       \* FALSE once the thread's destructors have run
    scopes,    \* the TraceScope of each API call in progress, outermost first
    stack,     \* STACK: one Frame per open span; its depth is its position
    bypass,    \* BYPASS_DEPTH
    windows,   \* FGRAPH_WINDOW_DEPTH
    seqs,      \* WINDOW_SEQ
    depthSeen, \* the thread's entry of depth_by_tid in the tracer, 0 if none
    winSeen,   \* its FgraphWindowState in the tracer
    out,       \* lines of the thread's output
    history,   \* spans begun and ended, and system calls, in order
    lost       \* history: updates lost so far

vars == <<syscall, tls, scopes, stack, bypass, windows, seqs, depthSeen,
          winSeen, out, history, lost>>

\* Where a call is.  TraceScope::enter holds the lock of WINDOW_SEQ in
\* "numbering", has moved the window depth in "opening", has told the tracer in
\* "opened" and writes under the guard in "entering"; the real function runs in
\* "body"; finish does the same backwards.  A call from inside (of an interposed
\* allocator or write) may come in any of them.
Stage == {"numbering", "opening", "opened", "entering", "body",
          "closing", "closed", "leaving"}

\* seq and depth are the locals of the window update: its number and depth.
Scope == [func : Func, span : BOOLEAN, fgraph_window_matched : BOOLEAN,
          seq : 0..MaxSeq, depth : Nat, stage : Stage]

Frame == [func : Func, has_child : BOOLEAN, enter_printed : BOOLEAN]

Line == [kind : {"open", "close", "leaf", "syscall"},
         func : Func \cup {"-"}, depth : Nat]

OpenLine(d, f) == [kind |-> "open", func |-> f, depth |-> d]
CloseLine(d)   == [kind |-> "close", func |-> "-", depth |-> d]
LeafLine(d, f) == [kind |-> "leaf", func |-> f, depth |-> d]
SyscallLine(d) == [kind |-> "syscall", func |-> "-", depth |-> d]

Event == [event : {"call", "return", "syscall"}, func : Func \cup {"-"}]

NoWindow == [depth |-> 0, labels |-> <<>>]

Init ==
    /\ syscall \in BOOLEAN
    /\ tls = TRUE
    /\ scopes = <<>> /\ stack = <<>>
    /\ bypass = 0 /\ windows = 0
    /\ seqs = [f \in Func |-> 0]
    /\ depthSeen = 0 /\ winSeen = NoWindow
    /\ out = <<>> /\ history = <<>> /\ lost = 0

Count(e) == Cardinality({i \in DOMAIN history : history[i].event = e})

-----------------------------------------------------------------------------
(* Updates to the tracer.                                                   *)

\* publish_graph_depth, and drain_depth_updates in the tracer
PublishDepth(d) ==
    \/ syscall /\ depthSeen' = d /\ lost' = lost
    \/ syscall /\ lost < MaxLost /\ depthSeen' = depthSeen /\ lost' = lost + 1
    \/ ~syscall /\ UNCHANGED <<depthSeen, lost>>

\* apply_fgraph_window_update: the event of an enter carries its label.
Truncated(s, n) == SubSeq(s, 1, IF Len(s) < n THEN Len(s) ELSE n)

\* Mutant: one label too many survives an enter.
AfterWindowEnterOffByOne(w, d, label) ==
    [depth |-> d, labels |-> Append(Truncated(w.labels, d), label)]

AfterWindowEnter(w, d, label) ==
    [depth |-> d, labels |-> Append(Truncated(w.labels, d - 1), label)]

\* Mutants: an exit drops the labels of the outer windows too; the tracer
\* counts exits instead of taking the depth they carry.
AfterWindowExitDropsLabels(w, d) ==
    IF d = 0 THEN NoWindow ELSE [depth |-> d, labels |-> <<>>]

AfterWindowExitCounts(w, d) ==
    IF w.depth <= 1 THEN NoWindow
    ELSE [depth |-> w.depth - 1, labels |-> Truncated(w.labels, w.depth - 1)]

AfterWindowExit(w, d) ==
    IF d = 0 THEN NoWindow
    ELSE [depth |-> d, labels |-> Truncated(w.labels, d)]

\* publish_fgraph_window_update
PublishWindow(w) ==
    \/ winSeen' = w /\ lost' = lost
    \/ lost < MaxLost /\ winSeen' = winSeen /\ lost' = lost + 1

-----------------------------------------------------------------------------
(* An API call: TraceScope::enter, the real function, TraceScope::finish.   *)

hooks_blocked == bypass > 0

\* next_fgraph_window_seq
NextSeq(f) == IF seqs[f] < MaxSeq THEN seqs[f] + 1 ELSE MaxSeq

InStage(s) == scopes # <<>> /\ Last(scopes).stage = s

MoveTo(s) == scopes' = [scopes EXCEPT ![Len(scopes)].stage = s]

\* TraceScope::enter_lazy up to the first thing it calls: the window update, or
\* without a window the guard.  Functions are watched with syscall tracing only:
\* without it ensure_started has ended the process.  A watched call from inside
\* next_fgraph_window_seq would wait for its own thread's lock for ever.
Call(f) ==
    LET matched == ~hooks_blocked /\ syscall /\ f \in Watched
        span == ~hooks_blocked /\ f \in Traced
    IN /\ Len(scopes) < MaxNest
       /\ span => Count("call") < MaxCalls
       /\ matched => \A i \in DOMAIN scopes : scopes[i].stage # "numbering"
       /\ scopes' = Append(scopes,
            [func |-> f, span |-> span, fgraph_window_matched |-> matched,
             seq |-> 0, depth |-> 0,
             stage |-> IF matched THEN "numbering"
                       ELSE IF span THEN "entering" ELSE "body"])
       /\ bypass' = bypass + (IF span /\ ~matched THEN 1 ELSE 0)
       /\ UNCHANGED <<syscall, tls, stack, windows, seqs, depthSeen, winSeen,
                      out, history, lost>>

\* enter_fgraph_window_if_matched: the window has its number and the thread its
\* new depth.  The hooks are open.
EnterWindow ==
    LET f == Last(scopes).func
    IN /\ InStage("numbering")
       /\ seqs' = [seqs EXCEPT ![f] = NextSeq(f)]
       /\ windows' = windows + 1
       /\ scopes' = [scopes EXCEPT ![Len(scopes)] =
            [@ EXCEPT !.seq = NextSeq(f), !.depth = windows + 1,
                      !.stage = "opening"]]
       /\ UNCHANGED <<syscall, tls, stack, bypass, depthSeen, winSeen, out,
                      history, lost>>

\* publish_fgraph_window_enter; the hooks are still open.
PublishEnter ==
    LET c == Last(scopes)
    IN /\ InStage("opening")
       /\ PublishWindow(AfterWindowEnter(winSeen, c.depth,
                                         [func |-> c.func, seq |-> c.seq]))
       /\ MoveTo(IF c.span THEN "opened" ELSE "body")
       /\ UNCHANGED <<syscall, tls, stack, bypass, windows, seqs, depthSeen,
                      out, history>>

\* HookBypassGuard::enter after a window update, in enter_lazy and in finish.
TakeGuard ==
    /\ \/ InStage("opened") /\ MoveTo("entering")
       \/ InStage("closed") /\ MoveTo("leaving")
    /\ bypass' = bypass + 1
    /\ UNCHANGED <<syscall, tls, stack, windows, seqs, depthSeen, winSeen, out,
                   history, lost>>

\* graph::enter prints the parent's open line if it is still owed, then its
\* own if lines are in brace mode.
EnterLines(f) ==
    (IF stack # <<>> /\ ~Last(stack).has_child /\ ~Last(stack).enter_printed
     THEN <<OpenLine(Len(stack) - 1, Last(stack).func)>> ELSE <<>>)
    \o (IF syscall THEN <<OpenLine(Len(stack), f)>> ELSE <<>>)

\* Mutant: a parent is not told that it has a child.
WithChildForgotten(s) == s

\* The parent of a new span has a child, and its open line is printed.
WithChild(s) ==
    IF s = <<>> THEN s
    ELSE [s EXCEPT ![Len(s)].has_child = TRUE, ![Len(s)].enter_printed = TRUE]

\* graph::enter; without thread-locals it pushes and prints nothing.
PushSpan(f) ==
    \/ /\ tls
       /\ stack' = Append(WithChild(stack),
            [func |-> f, has_child |-> FALSE, enter_printed |-> syscall])
       /\ PublishDepth(Len(stack) + 1)
       /\ out' = out \o EnterLines(f)
       /\ history' = Append(history, [event |-> "call", func |-> f])
    \/ /\ ~tls
       /\ UNCHANGED <<stack, depthSeen, out, history, lost>>

\* Mutant: the guard of TraceScope::enter is leaked.
EnterKeepsBypass ==
    /\ InStage("entering")
    /\ PushSpan(Last(scopes).func)
    /\ MoveTo("body")
    /\ UNCHANGED <<syscall, tls, bypass, windows, seqs, winSeen>>

\* The end of TraceScope::enter: the span begins and the guard is dropped.
Enter ==
    /\ InStage("entering")
    /\ PushSpan(Last(scopes).func)
    /\ bypass' = bypass - 1
    /\ MoveTo("body")
    /\ UNCHANGED <<syscall, tls, windows, seqs, winSeen>>

\* The real function returns: TraceScope::finish up to the first thing it
\* calls.  A matched call takes its window off the depth with the hooks open; one
\* without a window takes the guard if it has a span.
Finish ==
    /\ InStage("body")
    /\ \/ /\ Last(scopes).fgraph_window_matched
          /\ windows' = windows - 1
          /\ scopes' = [scopes EXCEPT ![Len(scopes)] =
               [@ EXCEPT !.depth = windows - 1, !.stage = "closing"]]
          /\ bypass' = bypass
       \/ /\ ~Last(scopes).fgraph_window_matched
          /\ Last(scopes).span
          /\ bypass' = bypass + 1
          /\ MoveTo("leaving")
          /\ windows' = windows
       \/ /\ ~Last(scopes).fgraph_window_matched
          /\ ~Last(scopes).span
          /\ scopes' = Front(scopes)
          /\ UNCHANGED <<bypass, windows>>
    /\ UNCHANGED <<syscall, tls, stack, seqs, depthSeen, winSeen, out, history,
                   lost>>

\* publish_fgraph_window_exit
PublishExit ==
    /\ InStage("closing")
    /\ PublishWindow(AfterWindowExit(winSeen, Last(scopes).depth))
    /\ \/ Last(scopes).span /\ MoveTo("closed")
       \/ ~Last(scopes).span /\ scopes' = Front(scopes)
    /\ UNCHANGED <<syscall, tls, stack, bypass, windows, seqs, depthSeen, out,
                   history>>

\* The lines graph::exit prints for the span it pops.
ExitLines ==
    LET frame == Last(stack)
        d == Len(stack) - 1
    IN IF syscall \/ frame.has_child
       THEN (IF frame.enter_printed THEN <<>> ELSE <<OpenLine(d, frame.func)>>)
            \o <<CloseLine(d)>>
       ELSE <<LeafLine(d, frame.func)>>

\* graph::exit pops a span, whichever the token stands for, if there is one.
PopSpan ==
    \/ /\ stack # <<>>
       /\ stack' = Front(stack)
       /\ PublishDepth(Len(stack) - 1)
       /\ out' = out \o ExitLines
       /\ history' = Append(history, [event |-> "return", func |-> "-"])
    \/ /\ stack = <<>>
       /\ UNCHANGED <<stack, depthSeen, out, history, lost>>

\* The end of TraceScope::finish.
Exit ==
    /\ InStage("leaving")
    /\ PopSpan
    /\ bypass' = bypass - 1
    /\ scopes' = Front(scopes)
    /\ UNCHANGED <<syscall, tls, windows, seqs, winSeen>>

\* The thread ends and its STACK is destroyed; destructors that run later may
\* still call the API.
TearDown ==
    /\ tls /\ scopes = <<>>
    /\ tls' = FALSE
    /\ UNCHANGED <<syscall, scopes, stack, bypass, windows, seqs, depthSeen,
                   winSeen, out, history, lost>>

\* A system call of the program or of the real function.  The tracer writes
\* its line at the depth it last heard of.
Syscall ==
    /\ syscall
    /\ scopes = <<>> \/ InStage("body")
    /\ bypass = 0
    /\ Count("syscall") < MaxSyscalls
    /\ out' = Append(out, SyscallLine(depthSeen))
    /\ history' = Append(history, [event |-> "syscall", func |-> "-"])
    /\ UNCHANGED <<syscall, tls, scopes, stack, bypass, windows, seqs,
                   depthSeen, winSeen, lost>>

\* The thread makes no more calls.
Idle == scopes = <<>> /\ UNCHANGED vars

Next ==
    \/ \E f \in Func : Call(f)
    \/ EnterWindow \/ PublishEnter \/ TakeGuard \/ Enter
    \/ Finish \/ PublishExit \/ Exit
    \/ Syscall \/ TearDown \/ Idle

Spec == Init /\ [][Next]_vars

-----------------------------------------------------------------------------
(* Properties.                                                              *)

\* The calls whose span is begun and not ended, and the place of one.
Begun ==
    {i \in DOMAIN scopes :
       /\ scopes[i].span
       /\ scopes[i].stage \in {"body", "closing", "closed", "leaving"}}

Rank(i) == Cardinality({j \in Begun : j <= i})

\* The guard hides from the trace what graph::enter and graph::exit call, and
\* nothing else: a call made from there has neither span nor window, and every
\* other call has what its function asks for, the ones made from a window
\* update, which runs with the hooks open, included.  The frames on STACK are
\* those of the spans in progress in their order, so that the frame an exit
\* pops is the one its own call pushed, although it does not look.
TracedUnlessGuarded ==
    /\ \A j \in DOMAIN scopes :
         LET hidden == \E i \in 1..j - 1 : scopes[i].stage \in {"entering", "leaving"}
         IN /\ scopes[j].span <=> ~hidden /\ scopes[j].func \in Traced
            /\ scopes[j].fgraph_window_matched <=>
                 ~hidden /\ syscall /\ scopes[j].func \in Watched
    /\ tls => /\ Len(stack) = Cardinality(Begun)
              /\ \A i \in Begun : stack[Rank(i)].func = scopes[i].func

\* Reference: what the output should be, event by event.  Depth is how many
\* spans are open before the event.
DepthBefore(i) ==
    Cardinality({j \in 1..i - 1 : history[j].event = "call"})
      - Cardinality({j \in 1..i - 1 : history[j].event = "return"})

\* In brace mode every span has an open and a close line around what it does.
\* Otherwise a span that made no traced call is one line, written when it
\* returns, and any other is opened when its first child begins.
Rendered(i) ==
    LET e == history[i]
        afterCall == i > 1 /\ history[i - 1].event = "call"
        d == DepthBefore(i)
    IN CASE e.event = "syscall" -> <<SyscallLine(d)>>
         [] e.event = "call" /\ syscall -> <<OpenLine(d, e.func)>>
         [] e.event = "call" /\ ~syscall ->
              IF afterCall THEN <<OpenLine(d - 1, history[i - 1].func)>>
              ELSE <<>>
         [] e.event = "return" /\ ~syscall /\ afterCall ->
              <<LeafLine(d - 1, history[i - 1].func)>>
         [] OTHER -> <<CloseLine(d - 1)>>

\* The thread's output is the rendering of what it did: lines open and close
\* in pairs, a parent opens before its first child although its line was held
\* back, and a system call is indented under the API call that made it.  Lost
\* updates can spoil nothing but the indentation of system calls.
OutputRendersHistory ==
    LET lines == FlattenSeq([i \in DOMAIN history |-> Rendered(i)])
    IN /\ Len(out) = Len(lines)
       /\ \A i \in DOMAIN out : \/ out[i] = lines[i]
                              \/ /\ lost > 0
                                 /\ {out[i].kind, lines[i].kind} = {"syscall"}

\* The calls whose window counts in the thread's depth, and the place of one.
OpenWindows ==
    {i \in DOMAIN scopes :
       /\ scopes[i].fgraph_window_matched
       /\ scopes[i].stage \in {"opening", "opened", "entering", "body"}}

Place(i) == Cardinality({j \in OpenWindows : j <= i})

\* The calls between a change of the depth and its publication, and the windows
\* opened outside all of them.
Unpublished == {i \in DOMAIN scopes : scopes[i].stage \in {"opening", "closing"}}

Settled == {i \in OpenWindows : \A j \in Unpublished : i < j}

\* The windows the tracer knows of are the watched calls in progress, with
\* their own names and numbers, innermost last: the label in the name of a
\* function-graph file is that of the window the call was made in, as long as
\* no update was lost.  Windows opened and closed from inside another's update
\* do not spoil the labels of the ones around it, and leave nothing behind once
\* it is published.
LabelsMatchWindows ==
    /\ windows = Cardinality(OpenWindows)
    /\ lost = 0 =>
         /\ \A i \in Settled :
              /\ Place(i) <= Len(winSeen.labels)
              /\ winSeen.labels[Place(i)] =
                   [func |-> scopes[i].func, seq |-> scopes[i].seq]
         /\ Unpublished = {} =>
              winSeen.depth = windows /\ Len(winSeen.labels) = windows

\* Whatever updates were lost, the tracer keeps no more labels than windows,
\* and each label is one of a window that was entered.
LossyLabelsBounded ==
    /\ Len(winSeen.labels) <= winSeen.depth
    /\ \A i \in DOMAIN winSeen.labels :
         winSeen.labels[i].seq <= seqs[winSeen.labels[i].func]

\* When the tracer hears from a thread that has no window open, it forgets all
\* the windows, those whose exit it missed included.
OutermostExitForgets ==
    [][windows = 0 /\ winSeen' # winSeen => winSeen' = NoWindow]_vars
=============================================================================
