------------------------------ MODULE FdTable ------------------------------
(***************************************************************************)
(* What the tracer believes about file descriptors: fd_paths and           *)
(* hidden_fds of run_ptrace_loop (src/hook/ptrace.rs), one table of each    *)
(* for the whole process tree, against the descriptor tables of the kernel. *)
(*                                                                         *)
(* A call of a thread is three steps: its entry-stop is handled (Enter,    *)
(* which guesses from the stack whose call it is and takes the path hint), *)
(* the kernel carries it out (Run), its exit-stop is handled (Exit: the    *)
(* line is written unless the call was taken for the library's, then both  *)
(* tables are updated).  The exit-stops of two threads may be handled in another      *)
(* order than the kernel carried out their calls.                          *)
(*                                                                         *)
(* The program is well behaved: no thread uses or closes a descriptor that *)
(* another thread is using, closing or just being given, and it leaves the *)
(* descriptors of the library alone.                                       *)
(***************************************************************************)
EXTENDS Naturals, FiniteSets, FiniteSetsExt

CONSTANTS
    Thr,      \* traced threads
    ProcOf,   \* thread -> its process
    Fds,      \* bound: descriptor numbers
    Files,    \* files the program opens by name, GPU devices among them
    None      \* no path, no file

Proc == {ProcOf[t] : t \in Thr}

ASSUME FdsAssumption == Fds \subseteq Nat /\ None \notin Fds
ASSUME FilesAssumption ==
    /\ {"log", "socket"} \cap Files = {}
    /\ None \notin Files \cup {"log", "socket"}

VARIABLES
    files,      \* process -> descriptor -> what it is open on, None if closed
    stage,      \* "user", "kernel" (entry handled) or "exit" (call done)
    call,       \* SyscallState of a thread in a call, and what the kernel did
    fd_paths,   \* HashMap<i32, String>
    hidden,     \* hidden_fds
    line,       \* what the exit-stop just handled is about and shows
    raced       \* history: two calls have been in progress at once

vars == <<files, stage, call, fd_paths, hidden, line, raced>>

\* "log" is an output file of the library, "socket" stands for everything that
\* is opened by a call the tracer does not follow (socket, pipe, eventfd).
Open == Files \cup {"log"}
Anything == Open \cup {"socket"}

Calls == {"open", "socket", "close", "dup", "dup2", "use"}

\* lib says whose call it is, internal whose the tracer takes it for.
NoCall == [nr |-> "use", lib |-> FALSE, internal |-> FALSE, fd |-> None,
           to |-> None, path |-> None, hint |-> None, on |-> None,
           ret |-> None]

NoLine == [lib |-> FALSE, internal |-> FALSE, failed |-> FALSE,
           dropped |-> FALSE, shown |-> None, on |-> None]

\* seed_fd_state_from_proc: the lowest descriptor is an output file, found in
\* /proc and hidden.
Seeded == [f \in Fds |-> IF f = Min(Fds) THEN "log" ELSE None]

Init ==
    /\ files = [p \in Proc |-> Seeded]
    /\ stage = [t \in Thr |-> "user"]
    /\ call = [t \in Thr |-> NoCall]
    /\ fd_paths = Seeded
    /\ hidden = {f \in Fds : Seeded[f] = "log"}
    /\ line = NoLine
    /\ raced = FALSE

-----------------------------------------------------------------------------
\* Descriptors a call in progress uses, or has just been given.
InFlight(p) ==
    UNION {{call[t].fd, call[t].to, call[t].ret} :
             t \in {u \in Thr : ProcOf[u] = p /\ stage[u] # "user"}}

\* is_internal_syscall: an address of the library in the instruction pointer or
\* in the 16 words above the stack pointer.  The frames of libc may hide the
\* library's from it, a stale word or the wrapper below the real function may
\* show it in a call of the program, and the stack may be unreadable: the guess
\* may be wrong either way.
IsInternal(lib) == BOOLEAN

\* capture_path_hint
CapturePathHint(p, nr, f, path) ==
    CASE nr = "open" -> path
      [] nr = "close" -> files[p][f]
      [] OTHER -> None

\* The descriptors that the library, or the program, may name in a call now.
Usable(p, lib) ==
    {f \in Fds \ InFlight(p) : /\ files[p][f] # None
                               /\ lib <=> files[p][f] = "log"}

\* dup2 may also name a closed descriptor, if nobody else can be given it.
Busy(p) == {u \in Thr : ProcOf[u] = p /\ stage[u] # "user"}

Targets(p, lib) ==
    Usable(p, lib) \cup
    IF Busy(p) = {} THEN {f \in Fds : files[p][f] = None} ELSE {}

MayAllocate(p) == \A u \in Busy(p) : call[u].nr # "dup2"

Enter(t, lib, nr) ==
    LET p == ProcOf[t]
    IN /\ stage[t] = "user"
       /\ lib => nr # "socket"
       /\ nr \in {"open", "socket", "dup"} => MayAllocate(p)
       /\ \E path \in IF nr # "open" THEN {None}
                      ELSE IF lib THEN {"log"} ELSE Files,
             f \in IF nr \in {"open", "socket"} THEN {None} ELSE Usable(p, lib),
             internal \in IsInternal(lib),
             to \in IF nr = "dup2" THEN Targets(p, lib) ELSE {None} :
            call' = [call EXCEPT ![t] =
                      [nr |-> nr, lib |-> lib, internal |-> internal,
                       fd |-> f, to |-> to, path |-> path,
                       hint |-> CapturePathHint(p, nr, f, path),
                       on |-> IF f = None THEN None ELSE files[p][f],
                       ret |-> None]]
       /\ stage' = [stage EXCEPT ![t] = "kernel"]
       /\ raced' = (raced \/ \E u \in Thr : stage[u] # "user")
       /\ line' = NoLine
       /\ UNCHANGED <<files, fd_paths, hidden>>

\* The kernel carries the call out.  A new descriptor is the lowest free one;
\* without one, and for a path that does not exist, the call fails.
Run(t) ==
    LET p == ProcOf[t]
        c == call[t]
        free == {f \in Fds : files[p][f] = None}
        new == CASE c.nr = "open" -> c.path [] c.nr = "socket" -> "socket"
                 [] OTHER -> c.on
    IN /\ stage[t] = "kernel"
       /\ \/ /\ c.nr \in {"open", "socket", "dup"} /\ free # {}
             /\ files' = [files EXCEPT ![p][Min(free)] = new]
             /\ call' = [call EXCEPT ![t].ret = Min(free)]
          \/ /\ c.nr \in {"open", "socket"} \/ (c.nr = "dup" /\ free = {})
             /\ UNCHANGED <<files, call>>
          \/ /\ c.nr = "dup2"
             /\ files' = [files EXCEPT ![p][c.to] = new]
             /\ call' = [call EXCEPT ![t].ret = c.to]
          \/ /\ c.nr = "close"
             /\ files' = [files EXCEPT ![p][c.fd] = None]
             /\ UNCHANGED call
          \/ c.nr = "use" /\ UNCHANGED <<files, call>>
       /\ stage' = [stage EXCEPT ![t] = "exit"]
       /\ line' = NoLine
       /\ UNCHANGED <<fd_paths, hidden, raced>>

-----------------------------------------------------------------------------
\* is_cudatrace_output_path
IsOutput(path) == path = "log"

\* is_hidden_fd_syscall
IsHidden(c) == c.fd \in hidden

\* format_syscall_line writes nothing for a hidden descriptor, nor for a
\* successful open of an output file.
Dropped(c) ==
    \/ IsHidden(c)
    \/ c.nr = "open" /\ c.ret # None /\ IsOutput(c.hint)

\* The path a line shows; for a close the hint comes first, and the live one
\* is read if the table knows nothing.
Shown(p, c) ==
    CASE c.nr = "open" -> c.hint
      [] c.nr = "socket" -> None
      [] c.nr = "close" -> IF c.hint # None THEN c.hint
                           ELSE IF fd_paths[c.fd] # None THEN fd_paths[c.fd]
                           ELSE files[p][c.fd]
      [] OTHER -> fd_paths[c.fd]

\* update_fd_paths, duplicate_fd
UpdateFdPaths(c) ==
    CASE c.nr = "open" /\ c.ret # None -> [fd_paths EXCEPT ![c.ret] = c.hint]
      [] c.nr = "close" -> [fd_paths EXCEPT ![c.fd] = None]
      [] c.nr \in {"dup", "dup2"} /\ c.ret # None ->
           [fd_paths EXCEPT ![c.ret] = fd_paths[c.fd]]
      [] OTHER -> fd_paths

\* Mutant: a close does not make the descriptor visible again.
UpdateHiddenKeeps(c) ==
    CASE c.nr = "open" /\ c.ret # None /\ IsOutput(c.hint) -> hidden \cup {c.ret}
      [] c.nr \in {"dup", "dup2"} /\ c.ret # None /\ c.fd \in hidden ->
           hidden \cup {c.ret}
      [] c.nr = "dup2" /\ c.ret # None /\ c.fd \notin hidden ->
           hidden \ {c.ret}
      [] OTHER -> hidden

\* Mutant: a duplicate of an output file is not hidden.
UpdateHiddenNoDup(c) ==
    CASE c.nr = "open" /\ c.ret # None /\ IsOutput(c.hint) -> hidden \cup {c.ret}
      [] c.nr = "close" -> hidden \ {c.fd}
      [] c.nr = "dup2" /\ c.ret # None -> hidden \ {c.ret}
      [] OTHER -> hidden

\* update_hidden_fds
UpdateHidden(c) ==
    CASE c.nr = "open" /\ c.ret # None /\ IsOutput(c.hint) -> hidden \cup {c.ret}
      [] c.nr = "close" -> hidden \ {c.fd}
      [] c.nr \in {"dup", "dup2"} /\ c.ret # None /\ c.fd \in hidden ->
           hidden \cup {c.ret}
      [] c.nr = "dup2" /\ c.ret # None /\ c.fd \notin hidden ->
           hidden \ {c.ret}
      [] OTHER -> hidden

\* A call taken for the library's gets no line, and its effects on the tables
\* are the same.
Exit(t) ==
    LET c == call[t]
        dropped == c.internal \/ Dropped(c)
    IN /\ stage[t] = "exit"
       /\ line' = [lib |-> c.lib,
                   internal |-> c.internal,
                   failed |-> c.nr = "open" /\ c.ret = None,
                   dropped |-> dropped,
                   shown |-> IF dropped THEN None ELSE Shown(ProcOf[t], c),
                   on |-> IF c.nr = "open" THEN c.path ELSE c.on]
       /\ hidden' = UpdateHidden(c)
       /\ fd_paths' = UpdateFdPaths(c)
       /\ stage' = [stage EXCEPT ![t] = "user"]
       /\ call' = [call EXCEPT ![t] = NoCall]
       /\ UNCHANGED <<files, raced>>

Next == \E t \in Thr : \/ \E lib \in BOOLEAN, nr \in Calls : Enter(t, lib, nr)
                       \/ Run(t)
                       \/ Exit(t)

Spec == Init /\ [][Next]_vars

-----------------------------------------------------------------------------
AtRest == \A t \in Thr : stage[t] = "user"

\* Whatever the order in which the exit-stops of a process are handled, what
\* the tracer ends up with is right: when no call is in progress, a descriptor
\* it names is open on that file, and one it hides is open on an output file
\* of the library.  Names may be missing.
TablesRightAtRest ==
    AtRest => \A p \in Proc :
                /\ \A f \in Fds : fd_paths[f] # None => files[p][f] = fd_paths[f]
                /\ \A f \in hidden : files[p][f] = "log"

\* As long as no two calls overlap, whatever thread makes them, the tables make
\* up for what the look at the stack misses: a call that is not taken for the
\* library's gets a line exactly if it is the program's or a failed open of the
\* library, so no call on an output file shows; and a line shows a descriptor
\* opened by name with that name.  A call of the program that is taken for the
\* library's has no line, but spoils none of the later ones.
LinesRight ==
    ~raced => /\ ~line.internal => (line.dropped <=> line.lib /\ ~line.failed)
              /\ line.internal => line.dropped
              /\ ~line.dropped =>
                   /\ line.on # "socket" => line.shown = line.on
                   /\ line.on = "socket" => line.shown \in {"socket", None}
=============================================================================
