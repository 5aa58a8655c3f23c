# cudatrace: a TLA+ verification project

cudatrace is a library loaded into a CUDA program (LD_PRELOAD). It wraps the
CUDA driver and runtime API and prints a call tree; it forks a tracer process
that follows the program with ptrace and adds the system calls to the tree; and
for the API functions named in `LIB_CUDATRACE_FGRAPH_FUNCS` the tracer drives
the kernel's function_graph tracer (tracefs), one file per system call made
inside such a function. This directory holds TLA+ models of the parts where
order, failure and concurrency decide whether that works, TLC runs over small
instances, and TLAPS proofs for all instances. Paths `src/...` are those of the
repository; `PROJECT.json` maps every definition to its source lines.

## Inventory

| Part | State | Operations | Hard behaviour | Module |
|---|---|---|---|---|
| tracer loop, `src/hook/ptrace.rs` `run_ptrace_loop` | `states`, `fgraph_window_by_tid`, `active_fgraph_capture`, `waiting_fgraph_tids` | handle one `waitpid` report: syscall entry, syscall exit, clone/fork/vfork, exec, other stop, end of a thread | stops of many threads in any order, threads that die at any moment, threads held stopped, ids reused or changed by exec | PtraceLoop, PtraceExec, CaptureLock |
| bootstrap, `ensure_started`, `spawn_ptrace_tracer` | three pipes, `START`, the tracee's ptrace state | preflight, pipes, fork, attach, handshake | each step may fail, either process may die; the two wait for each other | Bootstrap |
| publishers, `publish_*`; `drain_*` | two non-blocking pipes, the cells with their descriptors, thread-local `FGRAPH_WINDOW_DEPTH`, `CACHED_TID` | publish in the program, drain in the tracer | lost updates, stale depth, a descriptor number that changes hands | Publish, PtraceLoop, ApiTrace |
| tracefs controller, `src/hook/fgraph.rs` | the files of tracefs | preflight, init, begin, end and read, reset, Drop | a write fails between two others; another process does the same | TraceFs |
| API scope, `src/hook/mod.rs`, `src/graph.rs`, `src/reentry.rs` | thread-local `STACK`, `BYPASS_DEPTH`, `WINDOW_SEQ`; `depth_by_tid` | enter and finish an API call | re-entry, lines held back, thread-locals already destroyed | ApiTrace |
| descriptor tables of the tracer | `fd_paths`, `hidden_fds` | open, close, dup at syscall exit; which lines are dropped or named | order of exits against order of calls | FdTable |
| ioctl decoders, `src/decode/` | none; one decoding | copy structures, lists, strings and parameters out of the program | a copy fails half way, counts and sizes are the program's | Layout, DecodeSteps, RmControls, RmEscapes, UvmIoctls, IoctlDecode |
| symbol resolution, `src/hook/driver.rs`, `src/hook/cudart.rs`, `src/dlsym.rs` | `CUDA_DRIVER_HANDLE`, `OnceLock` caches | dlsym, cuGetProcAddress, first call of each wrapper | failures cached, handle overwritten, scopes | SymbolResolution |
| logger and `FusedWriter` | one descriptor per thread on each side | append a line | two writers of one file | order of lines in ApiTrace |
| configuration, `src/config.rs` | `Config`, once | parse the environment | | constants |
| line formatting, build scripts, embedded prototypes | none | | | |

How they interact: when the library is loaded, it forks the tracer and waits for
it to attach. A wrapper opens a `TraceScope`, which sends the depth of the call
tree and, for a watched function, the window to the tracer through a pipe. The
write is itself a system call, so the thread stops at its exit and the tracer
drains the pipes before it lets the thread go on. At a syscall entry the tracer
asks whether the thread is in a window; if so it starts a capture through the
tracefs controller, or, if another capture is active, leaves the thread stopped
and queues it. At the exit, or when the thread dies, the capture ends and the
queue is served; the line of the call is written, with names from the descriptor
tables and the decoded ioctl argument.

The hazards, with the lines where they bite and the properties that cover them,
are in `PROJECT.json`.

## Modules

### PtraceLoop, PtraceExec

The tracer loop with the kernel and the traced threads as its environment. One
`Handle*` action is one iteration of the loop, the trailing
`finish_active_fgraph_capture`, `maybe_resume_waiting_fgraph_tid` and resume
included. Iterations are atomic because every thread they look at is stopped;
the exception, a thread killed after `waitpid` returned, is `HandleVanished`
(`ptrace_getregs` fails).

| Model | Code |
|---|---|
| `HandleEntryPlain`, `HandleEntryBegin`, `HandleEntryHold` | the three ways through a syscall-stop of an inactive thread |
| `HandleExitPlain`, `HandleExitCaptured` | a syscall-stop of an active thread |
| `HandleClone`, `HandleExec`, `HandleOther`, `HandleGone`, `HandleNoChild` | clone and exec events, signals and PTRACE_EVENT_EXIT, exited or signaled, ECHILD |
| `ReleaseWaiting` | `maybe_resume_waiting_fgraph_tid`: pops, resumes and stops at the first capture that begins |
| `Drained` | `drain_fgraph_window_updates`: the last update of a thread id wins |
| `EnterWindow`, `ExitWindow`, `RunPublish` | the window functions of `src/hook/mod.rs` and the pipe write |
| `current_tid`, `cached` | `src/line_meta.rs`; `RunClone` copies the cache to a forked process |

PtraceExec adds execve: the other threads die, the caller goes on under the
leader's id, its own id vanishes without a report, and the new program has
neither the pipes nor the thread-locals.

Abstractions. A missing map entry is the default entry. A window is its depth
(labels are in ApiTrace). `is_internal_syscall` looks for return addresses in 16
words of the stack, so an entry may be classified either way. `skipped` and the
`from` field of a message are history. `begin_capture` succeeds or fails (TraceFs
looks inside). `PromptCloneEvents` says whether a clone event is handled before
the new thread's first call stops it: the code does not guarantee it, so both
are checked, and the properties that need it are stated for the case that holds
on an idle machine. Only threads cloned after the attach are traced; the target
has one thread at that time (the library's constructor).

### CaptureLock

What the loop promises about captures, as an abstract specification: a lock with
a line in front of it. `Take`, `Join`, `Leave` and `Pass` are its only steps;
`Pass` hands the lock over in one step to the first in the line that can take it,
and leaves it free only if the line is empty. `PtraceLoop!ImplementsLock` is
`CaptureLock!Spec` with `holder` as `active_fgraph_capture` and `line` as
`waiting_fgraph_tids`: a thread that finds a capture active is served in the
order of arrival, no capture is stolen, no waiter is dropped but by its death or
its turn.

### Bootstrap, Publish

Bootstrap has the two processes of `spawn_ptrace_tracer`. The target makes the
pipes, forks, closes its copies and reads one byte; the tracer closes its own,
asks for its parent, attaches, waits for the stop, sets the options, resumes,
takes tracefs, and writes "1", or "0" at the first failure. `fds` holds the pipe
ends each process has open, so the end of file of a dead tracer, and the missing
reader of a dead target, come out of the descriptors. A target under
PTRACE_SYSCALL stops at its next system call, so it goes on when the tracer is in
its loop or has let go. A tracer that goes before it has dismissed the SIGSTOP of
the attach leaves it to the target (`jobstop`). `config` is chosen initially:
syscall tracing, watched functions, and whether SIGPIPE is ignored. Preflight and
`init_or_fail` succeed or fail (TraceFs). The target has no forked children, whose
tracing would keep the loop going after its death.

Publish adds the threads of the started process: load the descriptor, write,
compare_exchange, close. The two pipes have the same code; the depth pipe stands
for both. The program may close the number and be given it again for a file of
its own. A thread publishes only after `START.call_once` has returned.

### TraceFs

`TraceFsController` and the files it writes. An operation is a script of control
writes; the kernel records between any two of them, and each write may fail,
without effect or after the O_TRUNC of the open has emptied the file. Operations
come in the order of the code: preflight in the program (init, reset, Drop), init
in the tracer, then begin and end, a reset after a failed end, the final reset and
Drop. The initial content of tracefs is arbitrary, and another process may load
the library, and so run preflight, at any time. `set_graph_function` narrows what
is recorded and is best effort: its write always "succeeds".

### ApiTrace

One thread of the program: `TraceScope::enter_lazy` and `finish`, `graph::enter`
and `exit` with the lines they print, the re-entry guard, the windows with their
labels, and what the tracer knows of the thread (its depth and windows). A call
is where its scope's `stage` says: `enter_lazy` numbers a window, moves the depth
and publishes it with the hooks open (`EnterWindow`, `PublishEnter`), and only then
takes the guard and writes (`TakeGuard`, `Enter`); `finish` closes the window with
the hooks open (`Finish`, `PublishExit`) and then takes the guard and writes
(`TakeGuard`, `Exit`). A call may come from inside the library (an interposed
allocator or write) in any of these stages, and after the thread's `STACK` has
been destroyed; what it gets depends on the guard alone (`TracedUnlessGuarded`).
One is left out: a watched call from inside `next_fgraph_window_seq`, which
deadlocks on the lock its own thread holds (Observations). `history` keeps
what happened and `Rendered` says, event by event, what the output should be.
Arguments, results and times are left out. An update is applied in the step that
sends it, because the stop at the exit of the write drains the pipe before the
thread goes on (PtraceLoop: `WindowUpToDate`), or lost, `MaxLost` times.

### FdTable

`fd_paths` and `hidden_fds` against the kernel's descriptor table. A call is its
entry-stop (which takes the path hint), the kernel's step and its exit-stop, where
the line is written and both tables are updated. Exit-stops of two threads may be
handled in another order than the calls were carried out. The program is well
behaved: no thread uses or closes what another is using. `log` is an output file
of the library, `socket` anything opened by a call the tracer does not follow.
A line is dropped for one of two reasons. `is_internal_syscall` finds an address of
the library in the instruction pointer or among 16 words of the stack at the
entry-stop: the model lets it answer either way for any call (`IsInternal`), since
libc's frames may hide the library and a stale word may show it. Or the call is on
a hidden descriptor or a successful open of an output file. The tables are updated
in both cases.

### Layout, DecodeSteps, RmControls, RmEscapes, UvmIoctls, IoctlDecode

Layout gives sizes and array lengths of the structures by the rules of repr(C).
DecodeSteps has the steps a decoder is made of: copy a structure or bytes, show a
list under its count, follow a pointer to an array, a text or a blob, put a
status. The three tables give every decoder as its sequence of steps; IoctlDecode
carries out one ioctl after another, with the outcome of every copy, every
declared size and every count found in memory chosen around the limits.
The values that are printed are left out; what is shown of a copy is counted in the
unit it is shown in, bytes or whole words. `ReadsInside` names the copies that the
code makes without a look at the stated size (`Unchecked`): the transfer structure,
the control it points to, and the data after the prefix of a heap control, of which
only the prefix has been checked. Every other copy stays inside.

### SymbolResolution

The interposed dlsym and cuGetProcAddress, `CUDA_DRIVER_HANDLE`, the caches and
the fallback chains. Names stand for the kinds of wrapper: one symbol, two names
of which only the newer is tried (driver.rs:515, 561), two symbols in either order,
generated (looks again after a failure), of the runtime (RTLD_NEXT only). The driver installed is chosen from three that export different
sets of names. The dynamic linker is modelled as it is used: a handle sees its
library, RTLD_DEFAULT finds libcudatrace first, RTLD_NEXT sees what is linked or
loaded with RTLD_GLOBAL. dlclose is left out.

## Runs

| Run | Instance | Shows |
|---|---|---|
| `ptrace_loop` | 3 threads of one process, a pipe of 3, prompt clone events | captures are exclusive and agree with the flags; nobody waits without a capture to wait for; `active` toggles in step with the kernel; the window depths decided on are current; every call in a window is captured, no other is; a capture spans one call; nothing is left of a dead thread; the loop implements CaptureLock |
| `ptrace_races` | 2 threads that may exec, late clone events, a pipe of 1 | captures stay exclusive across exec; a held thread is queued; the queue has no duplicates |
| `ptrace_fair` | 2 threads, calls that return | a held thread is released, each call in a window is captured in the end |
| `bootstrap` | 2 publishing threads, every setting, any failure, both processes killed | no pipe end leaks; the program publishes only to a tracer that is ready, and with watched functions runs only with one; it never waits for a dead tracer; no tracer outlives its target; no file of the program is closed or written to unless the program closed the library's descriptor |
| `tracefs` | 2 threads, any write fails, 2 loads of the library elsewhere | the recorder never runs unfiltered, a file holds records of its thread only, a capture starts clean |
| `api_trace` | 3 functions, nesting 3, 2 spans, 1 system call, 1 lost update | the guard hides what the library calls under it and nothing else, the output is the call tree, the tracer's labels are the open windows, what a lost update spoils is bounded and the outermost exit cleans up |
| `fd_table` | 2 threads, 3 descriptors, 2 files | without overlap lines are dropped rightly where the look at the stack did not, and show the right file; at rest no name is wrong and nothing of the program is hidden |
| `ioctl_decode` | every decoder, sizes around every limit | one status and a true one, copies inside what is declared but for three that are named, bounded work, slices inside their arrays, lists that are honest up to a part of a word, sizes refused as the driver's headers say |
| `symbols` | linked or RTLD_GLOBAL libraries, 3 drivers, any handle | a call reaches the library, unless its absence was cached before the load |
| `ptrace_wait`, `ptrace_fork`, `symbols_local` | | violations: see Findings |

Bounds. Two threads suffice for a capture with one waiter; three for a queue of
two, where the first waiter may fail to begin and the second must be tried.
`MaxDepth` is 1: the loop only asks whether the depth is positive, and nesting is
ApiTrace's subject. Thread ids are few, so they are reused. `PipeCap` is one per
thread, which `OneUpdatePending` shows is all that can be used, or 1 to make it
overflow. In ApiTrace nesting 3 gives a parent, a child and a call from inside the
library, or windows that open inside the update of another; the counter of windows saturates at 2, so saturation happens; history is
finite because calls and system calls are counted. In TraceFs two threads give a
capture and a later one of somebody else, and two loads one that overlaps each.
In FdTable three descriptors are an output file, one to duplicate and one to
duplicate to. Bootstrap has no bound; two publishers are what the race for the
descriptor needs. IoctlDecode takes `MaxBlob` = 149 so that it is not a multiple
of any structure, and counts and sizes zero, at, just below and just above every
limit, and `Huge`. Symmetry is used where no liveness is checked and the permuted
threads are interchangeable.

Fairness. `PtraceLoop!Fairness`: for each thread, a system call that does not wait
for another thread returns, and a stop is eventually reported and handled. The
loop has no other blocking operation; that `waitpid(-1)` starves no child is an
assumption about the kernel, whose scan order the code does not control.
`Publish!Fairness`: the loading thread and the tracer are scheduled and their
system calls return once they can. The program is assumed to do nothing: it may
stop making calls; nothing is assumed of signals and kills.

## Findings

* `ptrace_wait` (src/hook/ptrace.rs:835). A held thread waits for the capture,
  and the captured call may wait for the held thread (futex, pipe, poll): both
  stay stopped. The README says each syscall in the window writes one file.
* `ptrace_fork` (src/line_meta.rs:13). The cached thread id survives fork: a
  forked process publishes its windows under its parent's id. The parent is
  captured outside any window, the child never is.
* `symbols_local` (src/hook/cudart.rs:28). dlsym under the handle of a library
  loaded with RTLD_LOCAL hands out the wrapper of a runtime function, which looks
  with RTLD_NEXT only and returns CUDA_ERROR_UNKNOWN ever after. The same happens
  to driver functions once the lookup of a runtime function has replaced
  `CUDA_DRIVER_HANDLE`, and to libraries loaded with RTLD_LOCAL that are linked
  against the runtime.

## Observations

Behaviour met while modelling, which no run isolates.

* Loop. A clone event handled late resumes the new thread out of its first
  entry-stop, and exits are then taken for entries (ptrace.rs:903;
  `EntryExitInStep` needs prompt clone events). An exec leaves the window of the
  old program open under the leader's id, and the state of a caller that is not
  the leader under an id that is gone.
* Bootstrap. A pipe or fork that fails lets a program with watched functions run
  untraced, where a tracer that fails ends it. EINTR in the handshake is taken for
  a failed tracer, which goes on tracing. A tracer that dies, or gives up, between
  PTRACE_ATTACH and PTRACE_SYSCALL leaves its target stopped. If the target dies
  before getppid, the tracer attaches to whoever inherits orphans, and stays if
  SIGPIPE is ignored. Only the thread of getppid is attached, so threads that
  exist when the library is loaded by dlopen are not traced. The pipes are not
  close-on-exec.
* API scope. The window update of a call runs before the guard is taken
  (mod.rs:77, 99): a hooked function called from it is traced, and a watched one
  opens a window inside the update. From inside `next_fgraph_window_seq`, under
  the lock of `WINDOW_SEQ`, that would deadlock.
* Publishers. When the tracer is killed, the next publish raises SIGPIPE in the
  program. A thread that has loaded the descriptor may write its update into a
  file that was given the number meanwhile.
* tracefs. The preflight of another process turns off the recorder under an
  active capture, whose file is then cut.
* Descriptors. The tables are shared by all traced processes: an output file
  open as descriptor n in one hides the calls on n in another. A close that fails
  with EINTR or EIO has closed the descriptor, which keeps its name.
* Decoders. The transfer structure, the control behind it and the union of vid-heap
  are copied whatever size is stated (ioctl_rm.rs:1000, 1027, 1404-1443); a list
  behind a pointer that cannot be read is shown empty with `truncated` false; a
  preview and the legacy decoder drop the bytes that do not fill a word and still
  say `truncated` false (1108-1114, 2098-2111), which `ListsHonest` allows up to
  three bytes; the two lists of the P2P matrix share one flag; UVM numbers carry no
  size.
* Symbols. With the handle of the main program (`dlopen(NULL)`) a wrapper finds
  itself and calls itself. Some wrappers stand for two names and try only the newer
  (cuCtxCreate, cuMemAlloc): in a driver without it they would fail; every driver
  modelled has both. A lookup under RTLD_DEFAULT finds the wrapper of a function that
  no loaded library has. RTLD_NEXT passed by the program is resolved
  relative to libcudatrace. The per-thread-stream names (`_ptsz`) get the wrapper
  of the legacy stream.

## Proofs

`PtraceLoopProofs` proves, for every set of threads, grouping into processes, pipe
size, nesting bound and either value of `PromptCloneEvents`, from the assumptions
named in PtraceLoop (types of the constants, `NoTid` is no thread):

* `TypeCorrect`: `TypeOK`;
* `CapturesExclusive`: `CaptureMatchesState`;
* `NoThreadLost`: `HeldIsQueued`; `NobodyStranded`: `NoStrandedWaiter`;
  `QueuedOnce`: `QueueHasNoDuplicates`;
* `DeadThreadsForgotten`: `NothingLeftOfTheDead`;
* `PipeBounded`: `OneUpdatePending`.

None is inductive alone. The invariant `IInv` is their conjunction with
`HonestIds` (without a fork a cached id, and so the id in a message, is the
sender's own). Ending a capture empties the queue, so "waiters imply a capture"
needs that nobody else is capturing; that resuming the popped threads leaves none
stopped needs that held threads are queued once and in the waiting state; and that
a drain does not bring a dead thread's window back needs that the sender of a
message in the pipe still exists and that the message names it. The lemmas on
queues (`AppendFacts`, `PopFacts`, `ForgetFacts`), on the drain (`LastIndex`,
`DrainFacts`, `DrainedDead`) and on `ReleaseFacts` carry the data; `ThreadActions`
and `TracerActions` have one step per action.

The same module proves the refinement, `LoopImplementsLock`: `Init` maps to
`CaptureLock!Init`, and under `IInv` every action is a step of the lock or leaves
it alone. `ReleaseIsPass` shows that the loop of
`maybe_resume_waiting_fgraph_tid` is one `Pass`; forgetting a dead thread is
`Leave`, which needs that the queue has no duplicates.

`PtraceCallProofs` proves what the loop knows of the calls of the threads. These
results have hypotheses: `PromptCloneEvents`, a clone event is handled before the
new thread's first stop; `SingleProcess`, no fork, so that a cached thread id is
the thread's own (`ptrace_fork` shows `CapturesOnlyInWindow` false without it);
`PipeHasRoom`, a pipe that holds one update per thread. A Linux pipe holds
thousands; the other two the code does not guarantee (see Observations).

* `TogglingInStep` (`EntryExitInStep`) and `SpansOneCall` (`CaptureSpansOneCall`,
  an action property), under prompt clone events. `CallInv` adds that a clone event
  still to be handled names a thread that has made no system call, and that a
  thread that waits is in its entry-stop or dying.
* `WindowsKnown` (`WindowUpToDate`), under the other two. `DepthInv` says of each
  thread that what the loop will know of it after the next drain is its depth,
  but while it is publishing. That the write finds room is a count: there is at
  most one update per thread in the pipe and the writer has none.
* `NoWindowCallMissed` (`WindowCallsCaptured`) and `NoCaptureOutside`
  (`CapturesOnlyInWindow`), under all three, from `ServeInv`: a decision taken at
  an entry-stop, at once or when the thread's turn comes, uses the depth of that
  moment.

The same module proves of the loop with execve (PtraceExec)
`OneCaptureDespiteExec` (`OneCaptureAcrossExec`), `NoThreadLostInExec`
(`HeldIsQueued`) and `QueuedOnceDespiteExec` (`QueueHasNoDuplicates`). `NothingLeftOfTheDead` is false there, so `IInv` is of no
use; `ExecInv` is the part that survives.

`TraceFsProofs` proves `NeverEveryone` (`NeverRecordsEveryone`),
`FilesOfOneThread` (`FileIsOfOneThread`), `CapturesRecord`
(`ActiveCaptureRecords`) and `RecorderStartsClean`, for any set of threads and any
number of loads of the library elsewhere. The properties speak of the moments
between operations; the invariant says what the control files hold at each write
of a script. Nobody but `begin_capture` switches the recorder on, so after the
first write of any script it is off, whatever another process does.

`ApiTraceProofs` proves, for every set of functions, every choice of traced and
watched ones and every bound: `GuardIsExact` (`TracedUnlessGuarded`),
`LabelsStayBounded` (`LossyLabelsBounded`), `LabelsAreOfWindows`
(`LabelsMatchWindows`), `OutputIsRendering` (`OutputRendersHistory`) and
`OutermostExitClears`. `ScopeInv` says that `BYPASS_DEPTH` counts the calls that
hold the guard, that `FGRAPH_WINDOW_DEPTH` counts the open windows, and that the
depth a call has yet to publish is that of its place, because the windows opened
from inside its update are closed again; `LabelInv` is about the labels, of which
those outside an unpublished update are settled; `StackInv` matches the frames of
`STACK` with the spans in progress; `PrintInv` ties the stack of spans to the history:
which spans are unfinished, which line is held back, and that the depth of an entry
is the number of calls begun and not ended. The output is a concatenation over
the history, so the proof needs an induction over its length. The library's
induction theorems take an operator, which the provers cannot instantiate; the
induction is done over a set of numbers instead (`LeastNumber`, `SetInduction`,
from the well-foundedness of <), for functions that join a sequence of sequences
one element at a time (`Joins`), and gives `FlattenAppend`.

`FdTableProofs` proves `TablesSettleRight` (`TablesRightAtRest`) and
`SerialLinesRight` (`LinesRight`) for any number of threads of one process
(`OneProcess`: the tables are one for the whole tree, and wrong across processes),
any descriptor numbers and any files. The tables are wrong while calls are in
progress, so `TableInv` follows each call: two calls have a descriptor in common
only if one has closed it and the other was given it since (`Exclusive`); what a
call uses is open on what it was at the entry-stop, and the tables are right about
it; what it was given is open, and the tables say nothing of it unless the last
close is still to be handled (`Kept`); a descriptor no call has to do with is right
(`RightAtRest`). `SerialInv` adds that while calls have not overlapped nothing is
missing either, so a call that the look at the stack did not drop is dropped
exactly if it is on an output file. What that look drops depends on the stack, and
nothing is claimed of it but that it leaves the tables right.

`SymbolProofs` proves `GlobalCallsReach` (`CallsReachTheLibrary`) for libraries
that are linked or loaded with RTLD_GLOBAL (`AllGlobal`; the run `symbols_local`
shows it false otherwise). Its `SymInv` says that the remembered handle is of a
loaded library and that a failure cached for a name its library has is from before
the load.

`PublishProofs` proves `EndsAreAccounted` (`PipesAccounted`), `RunsOnlyTraced`
(`ReadyIsTraced`) and `FilesIntact` (`OthersFilesIntact`) for any set of threads,
without an assumption. Its `IInv` adds `OpenEnds` (the ends each process has open at
each place), `Attachment` (how far the attach has got at each place of the tracer:
a "1" must come from one that has resumed this process), `Handshake`, and `Number`:
as long as the program keeps its hands off, a thread whose write failed has seen a
dead tracer and an ignored SIGPIPE, at most one thread is about to close, and what
it closes is still the pipe.

`IoctlDecodeProofs` proves the seven invariants of IoctlDecode: `OneStatusHolds`,
`StatusIsTrueHolds`, `ReadsInsideHolds`, `WorkBoundedHolds`, `SlicesInArraysHold`,
`ListsHonestHolds` and `RefusesShortArgumentsHolds`, for every `MaxBlob` and `Huge`
and every set of declared sizes (`MaxBlob` in 1..65536 as config.rs clamps it, a
size in 14 bits). They are about what is over or has been copied; the invariant,
`DecodeInv`, is about what is still to do: the steps left are a good script
(`Good`). A body (`Body`) is side steps, at most one status of the inner object and
one status, which is true of the blocks copied so far; its lists are of the
structure last copied and come before any other copy; and it has no more copies to
make than are left of the bound. A good script is a body, or a copy that must
succeed, followed by what is good when it did, and with a body, or such a script
again, for when it did not; the two scripts that wait for the command of a control
are named. TLC agreed with `DecodeInv` on the instance of `ioctl_decode` before it
was proved.

The proof has two halves. Every action leaves a good script (`BodyTail`,
`BodyBranch`, `BodyArrays`, `CopyGood`, `NoCopyGood`, `ChooseGood`): these lemmas
know nothing of the tables. And what each decoder starts with is good
(`ScriptGood`): one lemma for each shape of decoder, instantiated for every entry
of the tables (`UvmGood`, `EscapesGood`, `ControlsOk`). That needs of every
structure that its size is a number and which arrays it has (`EscapeTypes`,
`ControlTypes`, `UvmTypes`), and of those with an asserted size the size itself
(`Sizes1`), which is a fold over the fields; folds are unrolled by an induction
over a set of numbers, as in ApiTraceProofs. The actions take counts and parameter
sizes around each limit; `SliceOk`, `RawOk`, `JointOk`, `ShownOk`, `ArrayOk`,
`LimitedCopy` and `PayloadGood` hold for every natural number. A copy is good inside its stated
length or when `Unchecked` names it, which needs the command of the call, so the
scripts are good for a call and not by themselves; `VidHeapDecoder` shows that the
prefix fits before the data after it is copied. A list is good by `FlagOk`: its
flag, or the one it shares (`JointOk`), is right up to a part of the unit shown.

Only model-checked: what holds under fairness, which TLAPS cannot prove:
`HeldIsReleased`, `EachWindowCallIsCaptured`, `StartsOrExits` and `TracerLeaves`.
Every other property of a passing run is proved, some under the hypotheses
named above.

## Not modelled

The text of lines: names of calls, flags, errors and commands, numbers, the
prefix and the times (pure functions and tables). The writers: each appends whole
lines, and what remains is opening files and falling back to stdout. Configuration
parsing (its results are constants and initial choices here). The build scripts,
but for what a generated wrapper does. Group-stops; time, and with it the names of
capture files.
