--------------------------- MODULE TraceFsProofs ---------------------------
(***************************************************************************)
(* The safety of TraceFs for every set of threads and any number of other  *)
(* processes that load the library.                                        *)
(*                                                                         *)
(* The properties speak of the moments between operations; the invariant   *)
(* says what the control files hold at each write of a script.  Two facts  *)
(* carry it.  Nobody but begin_capture switches the recorder on, so after  *)
(* the first write of any script it is off, whatever another process does. *)
(* And another process that has written since the last Begin is known to   *)
(* have (disturbed), so without one the filter and the tracer are those    *)
(* begin_capture wrote.                                                    *)
(***************************************************************************)
EXTENDS TraceFs, TLAPS

\* What a preflight writes.
OtherWrites == {"off", "nopid", "nop", "clear", "buffer", "graph"}

\* The values of the variables.
Flags == tracing_on \in BOOLEAN /\ active \in BOOLEAN /\ disturbed \in BOOLEAN

FileOK == file \in [tid : Tid \cup {Nobody}, records : SUBSET Tid,
                    disturbed : BOOLEAN]

OpOK == op \in Ops /\ pos \in 1..Len(Script(op))

ValuesOK ==
    /\ set_ftrace_pid \in Tid \cup {Nobody}
    /\ current_tracer \in {"nop", "function_graph"}
    /\ trace \in SUBSET Tid
    /\ target \in Tid \cup {Nobody}
    /\ loads \in Nat /\ loads <= Loads
    /\ other \in Seq(OtherWrites)

Typed == Flags /\ FileOK /\ OpOK /\ ValuesOK

\* The place of the operation: between operations no script is under way, a
\* capture is active until its end is over, and it has a thread.
Place ==
    /\ op \in {"idle", "closed"} => pos = 1
    /\ active => op \in {"idle", "end"}
    /\ op = "end" => active
    /\ op = "begin" \/ active => target \in Tid

\* A script that has made its first write has stopped the recorder.
Stopped == pos > 1 => ~tracing_on

\* The writes of begin_capture that nobody has undone.
Prepared ==
    /\ op = "begin" /\ pos > 3 /\ (~disturbed \/ loads = Loads) =>
         set_ftrace_pid = target
    /\ op = "begin" /\ pos > 5 /\ ~disturbed => current_tracer = "function_graph"
    /\ op = "begin" /\ pos = 7 => trace = {}

\* What a capture is recording.
Recording ==
    active /\ ~disturbed =>
        /\ trace \subseteq {target}
        /\ pos = 1 => /\ tracing_on /\ current_tracer = "function_graph"
                      /\ set_ftrace_pid = target

\* As long as nobody else has loaded the library nobody else writes, and the
\* same holds of a capture that is not disturbed.
Alone == loads = Loads \/ ~disturbed => other = <<>>

\* The inductive invariant.
IInv ==
    /\ Typed /\ Place /\ Stopped /\ Prepared /\ Recording /\ Alone
    /\ NeverRecordsEveryone /\ FileIsOfOneThread

-----------------------------------------------------------------------------
(* The scripts. *)

\* Every script begins by stopping the recorder, begin_capture alone starts it,
\* with its last write, and selects a thread and the tracer on the way.
LEMMA Scripts ==
  ASSUME NEW o \in Ops
  PROVE  /\ Len(Script(o)) = IF o = "begin" THEN 7 ELSE 5
         /\ Script(o)[1] = "off"
         /\ \A i \in 1..Len(Script(o)) :
              /\ Script(o)[i] \in OtherWrites \cup {"pid", "function_graph", "on", "read"}
              /\ Script(o)[i] = "on" <=> o = "begin" /\ i = 7
              /\ Script(o)[i] = "pid" <=> o = "begin" /\ i = 3
              /\ Script(o)[i] = "function_graph" <=> o = "begin" /\ i = 5
              /\ Script(o)[i] = "read" <=> o = "end" /\ i = 2
              /\ o = "begin" => /\ Script(o)[i] = "nopid" <=> i = 2
                                /\ Script(o)[i] = "clear" <=> i = 6
                                /\ Script(o)[i] # "nop"
              /\ o = "end" => Script(o)[i] # "nop"
<1>1. CASE o = "begin"
  BY <1>1 DEF Script, BeginScript, OtherWrites
<1>2. CASE o = "end"
  BY <1>2 DEF Script, EndScript, OtherWrites
<1>3. CASE o \in {"preflight", "init"}
  BY <1>3 DEF Script, InitScript, OtherWrites
<1>4. CASE o \notin {"preflight", "init", "begin", "end"}
  BY <1>4 DEF Script, ResetScript, OtherWrites
<1> QED
  BY <1>1, <1>2, <1>3, <1>4

\* What follows an operation is never a capture's begin or end, and the loop is
\* entered from a successful init_or_fail or from within.
LEMMA NextOps ==
  ASSUME NEW o \in Ops, NEW ok \in BOOLEAN, o \notin {"idle", "closed"}
  PROVE  /\ NextOp(o, ok) \in Ops
         /\ NextOp(o, ok) \notin {"begin", "end"}
         /\ NextOp(o, ok) \in Loop =>
              o \in {"begin", "end", "reset"} \/ (o = "init" /\ ok)
  BY DEF NextOp, Ops, Startup, Loop

-----------------------------------------------------------------------------
\* IInv holds when the controller is set up: nothing has been written yet.
LEMMA InitIInv == Init => IInv
<1> SUFFICES ASSUME Init PROVE IInv
  OBVIOUS
<1> USE DEF Init
<1>1. "preflight" \in Ops /\ Len(Script("preflight")) = 5
  BY Scripts DEF Ops, Startup
<1>2. Typed
  <2>1. Flags
    BY <1>1, LoadsAssumption DEF Flags, Typed
  <2>2. FileOK
    BY <1>1, LoadsAssumption DEF FileOK, NoFile, Typed
  <2>3. OpOK
    BY <1>1, LoadsAssumption DEF OpOK, Typed
  <2>4. ValuesOK
    BY <1>1, LoadsAssumption DEF ValuesOK, Typed
  <2> QED
    BY <2>1, <2>2, <2>3, <2>4 DEF Typed
<1>3. Place /\ Stopped /\ Prepared /\ Recording /\ Alone
  BY DEF Place, Stopped, Prepared, Recording, Alone
<1>4. NeverRecordsEveryone /\ FileIsOfOneThread
  BY DEF NeverRecordsEveryone, FileIsOfOneThread, Loop, NoFile
<1> QED
  BY <1>2, <1>3, <1>4 DEF IInv

\* The kernel records a thread.
LEMMA RecordStep == ASSUME IInv, NEW t \in Tid, Record(t) PROVE IInv'
<1> USE DEF IInv, Record, others
<1>1. Typed'
  <2>1. Flags'
    BY DEF Flags, Typed
  <2>2. FileOK'
    BY DEF FileOK, Typed
  <2>3. OpOK'
    BY DEF OpOK, Typed
  <2>4. ValuesOK'
    BY DEF ValuesOK, Typed
  <2> QED
    BY <2>1, <2>2, <2>3, <2>4 DEF Typed
<1>2. Place' /\ Stopped' /\ Alone'
  BY DEF Place, Stopped, Alone
<1>3. Prepared'
  BY DEF Prepared, Stopped
<1>4. Recording'
  BY TidAssumption DEF Recording, Place, Stopped, Typed, Flags, OpOK, ValuesOK
<1>5. NeverRecordsEveryone' /\ FileIsOfOneThread'
  BY DEF NeverRecordsEveryone, FileIsOfOneThread
<1> QED
  BY <1>1, <1>2, <1>3, <1>4, <1>5

\* A write within a script.
LEMMA WriteStep == ASSUME IInv, Write, pos < Len(Script(op)) PROVE IInv'
<1> DEFINE w == Script(op)[pos]
<1> USE DEF IInv
<1>1. /\ op \in Ops /\ pos \in 1..Len(Script(op))
      /\ Len(Script(op)) \in Nat
  BY Scripts DEF Typed, OpOK
<1>1a. pos # Len(Script(op))
  BY <1>1
<1>1b. /\ Effect(w) /\ w # "read" /\ op \notin {"idle", "closed"}
      /\ pos' = pos + 1 /\ UNCHANGED <<op, target, active, file, loads, other, disturbed>>
  BY <1>1a, Zenon DEF Write, others
<1>2. /\ op \in Ops /\ pos \in Nat /\ pos >= 1
      /\ Len(Script(op)) = IF op = "begin" THEN 7 ELSE 5
      /\ pos = 1 => w = "off"
      /\ w # "on"
      /\ w = "pid" <=> op = "begin" /\ pos = 3
      /\ w = "function_graph" <=> op = "begin" /\ pos = 5
      /\ op = "begin" => /\ w = "nopid" <=> pos = 2
                         /\ w = "clear" <=> pos = 6
                         /\ w # "nop"
      /\ op = "end" => w # "nop"
  BY Scripts DEF Typed, OpOK
<1> HIDE DEF w
<1>3. /\ tracing_on' = IF w = "off" THEN FALSE ELSE tracing_on
      /\ set_ftrace_pid' = IF w = "nopid" THEN Nobody
                           ELSE IF w = "pid" THEN target ELSE set_ftrace_pid
      /\ current_tracer' = IF w \in {"nop", "function_graph"} THEN w ELSE current_tracer
      /\ trace' \in {{}, trace}
      /\ w = "clear" => trace' = {}
  BY <1>1b, <1>2 DEF Effect
<1> USE <1>1b, <1>2, <1>3
<1>4. Typed'
  <2>1. Flags'
    BY DEF Flags, Typed
  <2>2. FileOK'
    BY DEF FileOK, Typed
  <2>3. OpOK'
    BY DEF OpOK, Typed
  <2>4. ValuesOK'
    BY DEF ValuesOK, Typed
  <2> QED
    BY <2>1, <2>2, <2>3, <2>4 DEF Typed
<1>5. Place' /\ Alone'
  BY DEF Place, Alone
<1>6. Stopped'
  BY DEF Stopped
<1>7. Prepared'
  BY DEF Prepared
<1>8. Recording'
  BY DEF Recording
<1>9. NeverRecordsEveryone' /\ FileIsOfOneThread'
  BY <1>6 DEF NeverRecordsEveryone, FileIsOfOneThread, Stopped
<1> QED
  BY <1>4, <1>5, <1>6, <1>7, <1>8, <1>9

\* The last write of a script.
LEMMA LastWriteStep == ASSUME IInv, Write, pos = Len(Script(op)) PROVE IInv'
<1> DEFINE w == Script(op)[pos]
<1> USE DEF IInv
<1>1. /\ op \in Ops /\ pos \in 1..Len(Script(op))
      /\ Len(Script(op)) = IF op = "begin" THEN 7 ELSE 5
  BY Scripts DEF Typed, OpOK
<1>1a. ~(pos < Len(Script(op)))
  BY <1>1
<1>1b. /\ Effect(w) /\ op \notin {"idle", "closed"}
       /\ Finish(op, TRUE)
  BY <1>1a, Zenon DEF Write
<1>1c. UNCHANGED <<file, loads, other, disturbed>>
  BY Zenon DEF Write, others
<1>2. /\ op \in Ops /\ pos = IF op = "begin" THEN 7 ELSE 5
      /\ w # "pid" /\ w # "function_graph"
      /\ w = "on" <=> op = "begin"
      /\ op = "begin" => w # "nopid" /\ w # "clear" /\ w # "nop"
  BY <1>1, Scripts
<1> HIDE DEF w
<1>3. /\ tracing_on' = IF w = "off" THEN FALSE ELSE IF w = "on" THEN TRUE ELSE tracing_on
      /\ set_ftrace_pid' = IF w = "nopid" THEN Nobody ELSE set_ftrace_pid
      /\ current_tracer' = IF w = "nop" THEN w ELSE current_tracer
      /\ trace' \in {{}, trace}
  BY <1>1b, <1>2 DEF Effect
<1>4. /\ pos' = 1 /\ active' \in BOOLEAN /\ (active' <=> op = "begin")
      /\ target' = IF op = "begin" THEN target ELSE Nobody
      /\ op' \in Ops /\ op' \notin {"begin", "end"}
      /\ op' \in Loop => op \in {"begin", "end", "reset", "init"}
      /\ op = "begin" => op' = "idle"
      /\ Len(Script(op')) = 5
  BY <1>1b, <1>2, NextOps, Scripts DEF Finish, NextOp
<1> USE <1>1c, <1>2, <1>3, <1>4
<1>5. Typed'
  <2>1. Flags'
    BY DEF Flags, Typed
  <2>2. FileOK'
    BY DEF FileOK, Typed
  <2>3. OpOK'
    BY DEF OpOK, Typed
  <2>4. ValuesOK'
    BY DEF ValuesOK, Typed
  <2> QED
    BY <2>1, <2>2, <2>3, <2>4 DEF Typed
<1>6. Place' /\ Alone' /\ Stopped' /\ Prepared'
  BY DEF Place, Alone, Stopped, Prepared
<1>7. Recording'
  BY DEF Recording, Prepared, Place
<1>8. NeverRecordsEveryone'
  <2>1. CASE op = "begin"
    BY <2>1, TidAssumption DEF NeverRecordsEveryone, Prepared, Place
  <2>2. CASE op # "begin"
    <3>1. pos > 1
      BY <2>2
    <3>2. ~tracing_on'
      BY <2>2, <3>1 DEF Stopped
    <3> QED
      BY <3>2 DEF NeverRecordsEveryone
  <2> QED
    BY <2>1, <2>2
<1>9. FileIsOfOneThread'
  BY DEF FileIsOfOneThread
<1> QED
  BY <1>5, <1>6, <1>7, <1>8, <1>9

\* A write or the read fails.
LEMMA FailStep == ASSUME IInv, Fail PROVE IInv'
<1> DEFINE w == Script(op)[pos]
<1> USE DEF IInv
<1>1. /\ FailedEffect(w) /\ op \notin {"idle", "closed"}
      /\ Finish(op, FALSE) /\ UNCHANGED <<loads, other, disturbed>>
      /\ file' \in {file, NoFile}
  BY DEF Fail, others
<1>2. op \in Ops /\ pos \in Nat /\ pos >= 1 /\ (pos = 1 => w = "off")
  BY Scripts DEF Typed, OpOK
<1> HIDE DEF w
<1>3. /\ tracing_on' = tracing_on /\ current_tracer' = current_tracer
      /\ set_ftrace_pid' \in {set_ftrace_pid, Nobody}
      /\ w = "off" => set_ftrace_pid' = set_ftrace_pid
      /\ trace' \in {{}, trace}
  BY <1>1 DEF FailedEffect, tracefs
<1>4. /\ pos' = 1 /\ active' = FALSE /\ target' = Nobody
      /\ op' \in Ops /\ op' \notin {"begin", "end"}
      /\ op' \in Loop => op \in Loop
      /\ Len(Script(op')) = 5
  BY <1>1, <1>2, NextOps, Scripts DEF Finish, Loop
<1> USE <1>1, <1>2, <1>3, <1>4
<1>5. Typed'
  <2>1. Flags'
    BY DEF Flags, Typed
  <2>2. FileOK'
    <3>1. NoFile \in [tid : Tid \cup {Nobody}, records : SUBSET Tid,
                      disturbed : BOOLEAN]
      BY DEF NoFile
    <3> QED
      BY <3>1 DEF FileOK, Typed
  <2>3. OpOK'
    BY DEF OpOK, Typed
  <2>4. ValuesOK'
    BY DEF ValuesOK, Typed
  <2> QED
    BY <2>1, <2>2, <2>3, <2>4 DEF Typed
<1>6. Place' /\ Alone' /\ Stopped' /\ Prepared' /\ Recording'
  BY DEF Place, Alone, Stopped, Prepared, Recording
<1>7. NeverRecordsEveryone'
  BY DEF NeverRecordsEveryone, Stopped
<1>8. FileIsOfOneThread'
  BY DEF FileIsOfOneThread, NoFile
<1> QED
  BY <1>5, <1>6, <1>7, <1>8

\* end_capture_and_read reads the buffer.
LEMMA ReadStep == ASSUME IInv, Read PROVE IInv'
<1> USE DEF IInv
<1>1. /\ op = "end" /\ pos = 2 /\ Len(Script(op)) = 5 /\ pos' = 3
      /\ file' = [tid |-> target, records |-> trace, disturbed |-> disturbed]
      /\ UNCHANGED <<tracing_on, set_ftrace_pid, current_tracer, trace, op, target,
                     active, loads, other, disturbed>>
  BY Scripts DEF Read, Typed, Flags, OpOK, ValuesOK, tracefs, others
<1> USE <1>1
<1>2. Typed'
  <2>1. Flags'
    BY DEF Flags, Typed
  <2>2. FileOK'
    BY DEF FileOK, ValuesOK, Flags, Typed
  <2>3. OpOK'
    BY DEF OpOK, Typed
  <2>4. ValuesOK'
    BY DEF ValuesOK, Typed
  <2> QED
    BY <2>1, <2>2, <2>3, <2>4 DEF Typed
<1>3. Place' /\ Alone' /\ Stopped' /\ Prepared' /\ Recording' /\ NeverRecordsEveryone'
  BY DEF Place, Alone, Stopped, Prepared, Recording, NeverRecordsEveryone
<1>4. FileIsOfOneThread'
  BY DEF FileIsOfOneThread, Recording, Place
<1> QED
  BY <1>2, <1>3, <1>4

\* The loop starts an operation.
LEMMA LoopStep ==
  ASSUME IInv, (\E t \in Tid : Begin(t)) \/ End \/ Close PROVE IInv'
<1> USE DEF IInv
<1>1. /\ op = "idle" /\ op' \in {"begin", "end", "close"} /\ pos = 1
      /\ op' \in Ops /\ 1 \in 1..Len(Script(op'))
      /\ active <=> op' = "end"
      /\ op' = "begin" => target' \in Tid
      /\ op' # "begin" => UNCHANGED <<target, disturbed>>
      /\ target' \in Tid \cup {Nobody}
      /\ disturbed' \in BOOLEAN /\ (~disturbed' => other = <<>>)
      /\ UNCHANGED <<tracing_on, set_ftrace_pid, current_tracer, trace, pos, active,
                     file, loads, other>>
  BY Scripts DEF Begin, End, Close, tracefs, others, Typed, Flags, OpOK, ValuesOK, Place, Alone, Ops, Loop
<1> USE <1>1
<1>2. Typed'
  <2>1. Flags'
    BY DEF Flags, Typed
  <2>2. FileOK'
    BY DEF FileOK, Typed
  <2>3. OpOK'
    BY <1>1 DEF OpOK
  <2>4. ValuesOK'
    BY DEF ValuesOK, Typed
  <2> QED
    BY <2>1, <2>2, <2>3, <2>4 DEF Typed
<1>3. Place' /\ Alone' /\ Stopped' /\ Prepared'
  BY DEF Place, Alone, Stopped, Prepared
<1>4. Recording'
  BY DEF Recording
<1>5. NeverRecordsEveryone' /\ FileIsOfOneThread'
  BY DEF NeverRecordsEveryone, FileIsOfOneThread, Loop
<1> QED
  BY <1>2, <1>3, <1>4, <1>5

\* Another process: while it has something to write, somebody has loaded the
\* library and the capture is disturbed.
LEMMA OtherStep == ASSUME IInv, Load \/ OtherWrite \/ OtherFail PROVE IInv'
<1> USE DEF IInv
<1>1. CASE Load
  <2>1. other' \in Seq(OtherWrites)
    BY <1>1 DEF Load, InitScript, ResetScript, OtherWrites
  <2>2. /\ loads' \in Nat /\ loads' < Loads /\ disturbed' = TRUE
        /\ UNCHANGED <<tracing_on, set_ftrace_pid, current_tracer, trace, op, pos,
                       target, active, file>>
    BY <1>1, LoadsAssumption DEF Load, Typed, Flags, OpOK, ValuesOK, tracefs
  <2>3. Typed'
    <3>1. Flags'
      BY <2>1, <2>2 DEF Flags, Typed
    <3>2. FileOK'
      BY <2>1, <2>2 DEF FileOK, Typed
    <3>3. OpOK'
      BY <2>1, <2>2 DEF OpOK, Typed
    <3>4. ValuesOK'
      BY <2>1, <2>2, LoadsAssumption DEF ValuesOK, Typed
    <3> QED
      BY <3>1, <3>2, <3>3, <3>4 DEF Typed
  <2> QED
    BY <2>2, <2>3, LoadsAssumption
       DEF Place, Stopped, Prepared, Recording, Alone, NeverRecordsEveryone, FileIsOfOneThread
<1>2. CASE OtherWrite \/ OtherFail
  <2>1. /\ other # <<>> /\ Head(other) \in OtherWrites /\ Tail(other) \in Seq(OtherWrites)
        /\ loads # Loads /\ disturbed
    BY <1>2 DEF OtherWrite, OtherFail, Typed, Flags, OpOK, ValuesOK, Alone
  <2>2. /\ tracing_on' \in {tracing_on, FALSE}
        /\ set_ftrace_pid' \in {set_ftrace_pid, Nobody}
        /\ current_tracer' \in {current_tracer, "nop"}
        /\ trace' \in {trace, {}}
    BY <1>2, <2>1 DEF OtherWrite, OtherFail, Effect, FailedEffect, OtherWrites, tracefs
  <2>3. other' \in Seq(OtherWrites)
    <3>1. ResetScript \in Seq(OtherWrites) /\ <<>> \in Seq(OtherWrites)
      BY DEF ResetScript, OtherWrites
    <3> QED
      BY <1>2, <2>1, <3>1 DEF OtherWrite, OtherFail
  <2>4. UNCHANGED <<op, pos, target, active, file, loads, disturbed>>
    BY <1>2 DEF OtherWrite, OtherFail
  <2>5. Typed'
    <3>1. Flags'
      BY <2>2, <2>3, <2>4 DEF Flags, Typed
    <3>2. FileOK'
      BY <2>2, <2>3, <2>4 DEF FileOK, Typed
    <3>3. OpOK'
      BY <2>2, <2>3, <2>4 DEF OpOK, Typed
    <3>4. ValuesOK'
      BY <2>2, <2>3, <2>4 DEF ValuesOK, Typed
    <3> QED
      BY <3>1, <3>2, <3>3, <3>4 DEF Typed
  <2>6. Place' /\ Alone' /\ FileIsOfOneThread'
    BY <2>1, <2>4 DEF Place, Alone, FileIsOfOneThread
  <2>6a. Stopped'
    BY <2>2, <2>4 DEF Stopped
  <2>7. Prepared'
    BY <2>1, <2>2, <2>4 DEF Prepared
  <2>8. Recording' /\ NeverRecordsEveryone'
    BY <2>1, <2>2, <2>4 DEF Recording, NeverRecordsEveryone
  <2> QED
    BY <2>5, <2>6, <2>6a, <2>7, <2>8
<1> QED
  BY <1>1, <1>2

\* The invariant holds in every state.
LEMMA Invariance == Spec => []IInv
<1>1. IInv /\ UNCHANGED vars => IInv'
  BY DEF IInv, Typed, Flags, OpOK, FileOK, ValuesOK, Place, Stopped, Prepared, Recording, Alone,
         NeverRecordsEveryone, FileIsOfOneThread, vars
<1>2. IInv /\ Write => IInv'
  <2>1. IInv /\ Write => pos < Len(Script(op)) \/ pos = Len(Script(op))
    BY DEF Write
  <2> QED
    BY <2>1, WriteStep, LastWriteStep
<1>3. IInv /\ [Next]_vars => IInv'
  BY <1>1, <1>2, RecordStep, FailStep, ReadStep, LoopStep, OtherStep DEF Next, Closed
<1> QED
  BY <1>3, InitIInv, PTL DEF Spec

-----------------------------------------------------------------------------
(* The theorems. *)

\* Whatever control write of begin_capture, end_capture_and_read or reset_state
\* fails, and however often, the loop never leaves the recorder on with an empty
\* set_ftrace_pid, for any threads, as long as no other process loads the library.
THEOREM NeverEveryone == Spec => []NeverRecordsEveryone
  BY Invariance, PTL DEF IInv

\* For any threads and any number of other processes, what end_capture_and_read
\* returns is of the thread captured, unless another process wrote meanwhile.
THEOREM FilesOfOneThread == Spec => []FileIsOfOneThread
  BY Invariance, PTL DEF IInv

\* A capture that begin_capture reported as started is recording.
THEOREM CapturesRecord == Spec => []ActiveCaptureRecords
<1>1. IInv => ActiveCaptureRecords
  BY DEF IInv, Recording, Place, ActiveCaptureRecords
<1> QED
  BY <1>1, Invariance, PTL

\* The recorder is never switched on but by the last write of begin_capture, over
\* an empty buffer, whatever other processes write.
THEOREM RecorderStartsClean == Spec => StartsClean
<1>1. ASSUME IInv, [Next]_vars, ~tracing_on, tracing_on'
      PROVE  op = "begin" /\ active' /\ trace' = {}
  <2>1. CASE Write
    <3>1. /\ op \in Ops /\ pos \in 1..Len(Script(op)) /\ Script(op)[pos] = "on"
      BY <1>1, <2>1 DEF Write, Effect, IInv, Typed, Flags, OpOK, ValuesOK
    <3>2. op = "begin" /\ pos = 7
      BY <3>1, Scripts
    <3>2a. ~(pos < Len(Script(op)))
      BY <3>1, <3>2, Scripts
    <3>3. trace = {}
      BY <1>1, <3>2 DEF IInv, Prepared
    <3>4. Effect("on") /\ Finish("begin", TRUE)
      BY <2>1, <3>1, <3>2, <3>2a, Zenon DEF Write
    <3>5. active' /\ trace' = {}
      BY <3>3, <3>4 DEF Effect, Finish
    <3> QED
      BY <3>2, <3>5
  <2>2. CASE OtherWrite
    <3>1. Head(other) \in OtherWrites
      BY <1>1, <2>2 DEF OtherWrite, IInv, Typed, Flags, OpOK, ValuesOK
    <3> QED
      BY <1>1, <2>2, <3>1 DEF OtherWrite, OtherWrites, Effect
  <2>3. CASE ~Write /\ ~OtherWrite
    BY <1>1, <2>3 DEF Next, Record, Begin, Read, Fail, FailedEffect, End, Close, Closed,
                     Load, OtherFail, tracefs, vars
  <2> QED
    BY <2>1, <2>2, <2>3
<1>2. IInv /\ [Next]_vars =>
        [~tracing_on /\ tracing_on' => op = "begin" /\ active' /\ trace' = {}]_vars
  BY <1>1
<1> QED
  BY <1>2, Invariance, PTL DEF Spec, StartsClean
=============================================================================
