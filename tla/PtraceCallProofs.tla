-------------------------- MODULE PtraceCallProofs --------------------------
(***************************************************************************)
(* What the loop knows about the calls of the traced threads: that it      *)
(* takes entries for entries and exits for exits, that its window depths   *)
(* are those of the threads, and that it captures the right calls; and     *)
(* what it keeps right when execve makes thread ids vanish (PtraceExec).   *)
(***************************************************************************)
EXTENDS PtraceLoopProofs, PtraceExec, FiniteSetTheorems

\* Phases of a thread that is in no system call.
Outside == {"none", "newborn", "user", "signal", "dying", "zombie"}

\* A clone event that is still to be handled names a thread that has made no
\* system call yet.
AnnouncedLater ==
    \A p \in Tid : phase[p] = "cloned" => phase[child[p]] \in Outside

\* EntryExitInStep for one thread, and a thread that waits for its turn is in
\* its entry-stop, unless it was killed there.
InStep(p, s, held) ==
    /\ p \in {"newborn", "user", "signal"} => ~s.active
    /\ p = "entry" => (s.active <=> held)
    /\ p \in {"kernel", "cloned", "exit"} => s.active
    /\ s.fgraph_waiting => p \in {"entry", "dying", "zombie"}

CallInv ==
    /\ \A t \in Tid : InStep(phase[t], states[t], t \in seen)
    /\ AnnouncedLater

-----------------------------------------------------------------------------
\* maybe_resume_waiting_fgraph_tid, thread by thread: the threads of popped are
\* resumed, next of them under a capture.
Released(popped, next, st, ph, win, others) ==
    /\ capture' = next
    /\ next \in popped \cup {NoTid}
    /\ next # NoTid => ShouldCapture(next, st[next].internal, win)
    /\ \A u \in popped :
         /\ st[u].active /\ st[u].fgraph_waiting
         /\ states'[u] = [st[u] EXCEPT !.fgraph_waiting = FALSE,
                                       !.fgraph_capturing = (u = next)]
    /\ \A u \in Tid \ popped : states'[u] = st[u]
    /\ skipped' = (skipped \cup {u \in popped :
                     ShouldCapture(u, st[u].internal, win)}) \ {next}
    /\ Resume(ph, popped \cup others)

\* Whatever number of threads it pops, it does that to some of them.
LEMMA ReleaseEffect ==
    ASSUME NEW q \in Seq(Tid), NEW st \in [Tid -> SyscallState], NEW ph, NEW win,
           NEW others \in SUBSET Tid,
           ReleaseWaiting(q, st, ph, win, others)
    PROVE  \E popped \in SUBSET Tid, next \in Tid \cup {NoTid} :
             Released(popped, next, st, ph, win, others)
<1>1. PICK k \in 0..Len(q) :
        \E next \in {u \in {q[i] : i \in 1..k} : st[u].active /\ st[u].fgraph_waiting}
                       \cup {NoTid} :
              /\ IF next = NoTid
                 THEN k = Len(q)
                 ELSE next = q[k] /\ ShouldCapture(next, st[next].internal, win)
              /\ capture' = next
              /\ states' = [u \in Tid |->
                   IF u \in {u1 \in {q[i] : i \in 1..k} :
                               st[u1].active /\ st[u1].fgraph_waiting}
                   THEN [st[u] EXCEPT !.fgraph_waiting = FALSE,
                                      !.fgraph_capturing = (u = next)]
                   ELSE st[u]]
              /\ skipped' = (skipped \cup
                   {u \in {u1 \in {q[i] : i \in 1..k} :
                               st[u1].active /\ st[u1].fgraph_waiting} :
                               ShouldCapture(u, st[u].internal, win)}) \ {next}
              /\ Resume(ph, {u \in {q[i] : i \in 1..k} :
                                st[u].active /\ st[u].fgraph_waiting} \cup others)
  BY Zenon DEF ReleaseWaiting
<1> DEFINE popped == {u \in {q[i] : i \in 1..k} : st[u].active /\ st[u].fgraph_waiting}
<1>2. popped \in SUBSET Tid
  <2>1. \A i \in 1..k : q[i] \in Tid
    OBVIOUS
  <2> QED
    BY <2>1
<1>3. PICK next \in popped \cup {NoTid} :
              /\ IF next = NoTid
                 THEN k = Len(q)
                 ELSE next = q[k] /\ ShouldCapture(next, st[next].internal, win)
              /\ capture' = next
              /\ states' = [u \in Tid |->
                   IF u \in popped
                   THEN [st[u] EXCEPT !.fgraph_waiting = FALSE,
                                      !.fgraph_capturing = (u = next)]
                   ELSE st[u]]
              /\ skipped' = (skipped \cup
                   {u \in popped : ShouldCapture(u, st[u].internal, win)}) \ {next}
              /\ Resume(ph, popped \cup others)
  BY <1>1, Zenon
<1>4. \A u \in popped : st[u].active /\ st[u].fgraph_waiting
  OBVIOUS
<1> HIDE DEF popped
<1>5. /\ \A u \in popped :
           states'[u] = [st[u] EXCEPT !.fgraph_waiting = FALSE,
                                      !.fgraph_capturing = (u = next)]
      /\ \A u \in Tid \ popped : states'[u] = st[u]
  BY <1>2, <1>3, Zenon
<1>6. next \in Tid \cup {NoTid}
  BY <1>2, <1>3
<1> WITNESS popped \in SUBSET Tid, next \in Tid \cup {NoTid}
<1> QED
  BY <1>3, <1>4, <1>5, Zenon DEF Released

-----------------------------------------------------------------------------
(* Entries and exits.                                                       *)

\* No clone event comes to announce a thread that is in a system call already.
LEMMA LaterStep ==
    ASSUME CallInv, phase \in [Tid -> Phases], child \in [Tid -> Tid],
           \A p \in Tid : phase'[p] = "cloned" =>
              phase[p] = "cloned" /\ child'[p] = child[p],
           \A u \in Tid : phase[u] \in Outside => phase'[u] \in Outside \/ Announced(u)
    PROVE  AnnouncedLater'
BY DEF CallInv, AnnouncedLater, Announced

\* A step that moves one thread.
LEMMA MoveOne ==
    ASSUME CallInv, phase \in [Tid -> Phases], child' = child, child \in [Tid -> Tid],
           NEW t \in Tid,
           \A u \in Tid \ {t} : /\ phase'[u] = phase[u] /\ states'[u] = states[u]
                                /\ (u \in seen' <=> u \in seen),
           phase'[t] # "cloned",
           InStep(phase'[t], states'[t], t \in seen'),
           phase[t] \in Outside => phase'[t] \in Outside \/ Announced(t)
    PROVE  CallInv'
<1>1. AnnouncedLater'
  <2>1. \A p \in Tid : phase'[p] = "cloned" =>
              phase[p] = "cloned" /\ child'[p] = child[p]
    OBVIOUS
  <2>2. \A u \in Tid : phase[u] \in Outside => phase'[u] \in Outside \/ Announced(u)
    OBVIOUS
  <2> QED
    BY <2>1, <2>2, LaterStep
<1>2. ASSUME NEW u \in Tid PROVE InStep(phase'[u], states'[u], u \in seen')
  <2>1. CASE u = t
    BY <2>1
  <2>2. CASE u # t
    <3>1. InStep(phase[u], states[u], u \in seen)
      BY DEF CallInv
    <3> QED
      BY <2>2, <3>1 DEF InStep
  <2> QED
    BY <2>1, <2>2
<1> QED
  BY <1>1, <1>2 DEF CallInv

\* SIGKILL and exit_group.
LEMMA KillCall ==
    ASSUME IInv, CallInv, child' = child, states' = states, NEW p, KillGroup(p)
    PROVE  CallInv'
<1>0. TypeOK
  BY DEF IInv
<1>1. PICK last \in {"dying", "zombie"} :
        phase' = [t \in Tid |-> IF t \in Killed(p) THEN last ELSE phase[t]]
  BY DEF KillGroup
<1>2. seen' = seen \ Killed(p)
  BY DEF KillGroup
<1>3. AnnouncedLater'
  <2>1. \A u \in Tid : phase'[u] = "cloned" =>
              phase[u] = "cloned" /\ child'[u] = child[u]
    BY <1>1
  <2>2. \A u \in Tid : phase[u] \in Outside => phase'[u] \in Outside \/ Announced(u)
    BY <1>1 DEF Outside
  <2> QED
    BY <1>0, <2>1, <2>2, LaterStep DEF TypeOK
<1>4. ASSUME NEW u \in Tid PROVE InStep(phase'[u], states'[u], u \in seen')
  <2>1. InStep(phase[u], states[u], u \in seen)
    BY DEF CallInv
  <2>2. CASE u \in Killed(p)
    BY <1>1, <2>2 DEF InStep
  <2>3. CASE u \notin Killed(p)
    BY <1>1, <1>2, <2>1, <2>3 DEF InStep
  <2> QED
    BY <2>2, <2>3
<1> QED
  BY <1>3, <1>4 DEF CallInv

\* maybe_resume_waiting_fgraph_tid takes the threads it resumes into the call
\* they had entered.
LEMMA ReleaseCall ==
    ASSUME NEW q \in Seq(Tid), NEW st \in [Tid -> SyscallState],
           NEW ph \in [Tid -> Phases], NEW win, NEW others \in SUBSET Tid,
           ReleaseWaiting(q, st, ph, win, others),
           \A u \in Tid \ others : InStep(ph[u], st[u], u \in seen),
           \A u \in others : InStep(Resumed(ph[u]), st[u], FALSE) /\ ~st[u].fgraph_waiting
    PROVE  /\ \A u \in Tid : InStep(phase'[u], states'[u], u \in seen')
           /\ \A u \in Tid : phase'[u] = ph[u] \/ phase'[u] = Resumed(ph[u])
           /\ \A u \in Tid \ others :
                phase'[u] = ph[u] \/ ph[u] \in {"entry", "dying", "zombie"}
<1>0. PICK popped \in SUBSET Tid, next \in Tid \cup {NoTid} :
        Released(popped, next, st, ph, win, others)
  BY ReleaseEffect
<1>1. /\ \A u \in popped :
           /\ st[u].active /\ st[u].fgraph_waiting
           /\ states'[u] = [st[u] EXCEPT !.fgraph_waiting = FALSE,
                                         !.fgraph_capturing = (u = next)]
      /\ \A u \in Tid \ popped : states'[u] = st[u]
      /\ Resume(ph, popped \cup others)
  BY <1>0 DEF Released
<1>2. \A u \in Tid : phase'[u] = IF u \in popped \cup others THEN Resumed(ph[u]) ELSE ph[u]
  BY <1>1 DEF Resume
<1>3. seen' = seen \ (popped \cup others)
  BY <1>1 DEF Resume
<1>4. \A u \in popped : u \in Tid \ others
  BY <1>1
<1>5. \A u \in popped : ph[u] \in {"entry", "dying", "zombie"}
  BY <1>1, <1>4 DEF InStep
<1>6. ASSUME NEW u \in Tid PROVE InStep(phase'[u], states'[u], u \in seen')
  <2>1. CASE u \in popped
    <3>1. phase'[u] \in {"kernel", "zombie"} /\ u \notin seen'
      BY <1>2, <1>3, <1>5, <2>1 DEF Resumed
    <3>2. states'[u].active /\ ~states'[u].fgraph_waiting
      <4>1. st[u] \in SyscallState
        BY <2>1
      <4>2. /\ states'[u] = [st[u] EXCEPT !.fgraph_waiting = FALSE,
                                          !.fgraph_capturing = (u = next)]
            /\ st[u].active
        BY <1>1, <2>1
      <4> QED
        BY <4>1, <4>2 DEF SyscallState
    <3> QED
      BY <3>1, <3>2 DEF InStep
  <2>2. CASE u \in others
    <3>1. u \notin popped
      BY <1>4, <2>2
    <3>2. phase'[u] = Resumed(ph[u]) /\ u \notin seen' /\ states'[u] = st[u]
      BY <1>1, <1>2, <1>3, <2>2, <3>1
    <3> QED
      BY <2>2, <3>2 DEF InStep
  <2>3. CASE u \notin popped \cup others
    <3>1. phase'[u] = ph[u] /\ (u \in seen' <=> u \in seen) /\ states'[u] = st[u]
      BY <1>1, <1>2, <1>3, <2>3
    <3>2. InStep(ph[u], st[u], u \in seen)
      BY <2>3
    <3> QED
      BY <3>1, <3>2 DEF InStep
  <2> QED
    BY <2>1, <2>2, <2>3
<1>7. ASSUME NEW u \in Tid
      PROVE  /\ phase'[u] = ph[u] \/ phase'[u] = Resumed(ph[u])
             /\ u \notin others =>
                  phase'[u] = ph[u] \/ ph[u] \in {"entry", "dying", "zombie"}
  BY <1>2, <1>5
<1> QED
  BY <1>6, <1>7

\* It starts a capture for a thread that waits.
LEMMA ReleaseNext ==
    ASSUME NEW q \in Seq(Tid), NEW st \in [Tid -> SyscallState], NEW ph, NEW win,
           NEW others \in SUBSET Tid, ReleaseWaiting(q, st, ph, win, others),
           capture' # NoTid
    PROVE  capture' \in Tid /\ st[capture'].active /\ st[capture'].fgraph_waiting
<1>1. PICK popped \in SUBSET Tid, next \in Tid \cup {NoTid} :
        Released(popped, next, st, ph, win, others)
  BY ReleaseEffect
<1> QED
  BY <1>1 DEF Released

\* A syscall-stop that waitpid returns is an entry if the thread is not active
\* and an exit if it is.
LEMMA StopIsTold ==
    ASSUME CallInv, NEW t \in Tid, NEW p \in SyscallStops, WaitPid(t, p)
    PROVE  phase[t] = (IF states[t].active THEN "exit" ELSE "entry")
<1>1. InStep(phase[t], states[t], t \in seen)
  BY DEF CallInv
<1> QED
  BY <1>1 DEF InStep, WaitPid, SyscallStops

\* Steps of the traced threads.
LEMMA ThreadCall ==
    ASSUME IInv, CallInv, PromptCloneEvents, NEW t \in Tid,
           \/ \E k \in Calls : EnterSyscall(t, k)
           \/ EnterWindow(t) \/ ExitWindow(t)
           \/ Run(t) \/ Signal(t) \/ Kill(t)
    PROVE  CallInv'
<1>0. /\ phase \in [Tid -> Phases] /\ child \in [Tid -> Tid]
      /\ InStep(phase[t], states[t], t \in seen)
  BY DEF IInv, TypeOK, CallInv
<1>1. phase[t] \in {"user", "kernel"} => t \notin seen
  BY RunningThread
<1>2. CASE \/ \E k \in Calls : EnterSyscall(t, k)
           \/ EnterWindow(t) \/ ExitWindow(t)
  <2>1. /\ MayEnter(t) /\ phase' = [phase EXCEPT ![t] = "entry"]
        /\ UNCHANGED <<child, seen, states>>
    BY <1>2 DEF EnterSyscall, EnterWindow, ExitWindow, tracerVars
  <2>2. phase[t] = "user" /\ Announced(t)
    BY <2>1 DEF MayEnter
  <2>3. InStep(phase'[t], states'[t], t \in seen')
    BY <1>0, <1>1, <2>1, <2>2 DEF InStep
  <2>4. \A u \in Tid \ {t} : /\ phase'[u] = phase[u] /\ states'[u] = states[u]
                             /\ (u \in seen' <=> u \in seen)
    BY <1>0, <2>1
  <2>5. phase'[t] = "entry" /\ child' = child
    BY <1>0, <2>1
  <2> QED
    BY <1>0, <2>2, <2>3, <2>4, <2>5, MoveOne
<1>3. CASE RunPublish(t) \/ RunWork(t) \/ RunCloneFails(t) \/ RunQuit(t)
  <2>1. /\ phase[t] = "kernel"
        /\ \E p \in {"exit", "dying"} : phase' = [phase EXCEPT ![t] = p]
        /\ UNCHANGED <<child, seen, states>>
    BY <1>3 DEF RunPublish, RunWork, RunCloneFails, RunQuit, tracerVars
  <2>2. phase'[t] \in {"exit", "dying"} /\ child' = child
    BY <1>0, <2>1
  <2>3. InStep(phase'[t], states'[t], t \in seen')
    BY <1>0, <2>1, <2>2 DEF InStep
  <2>4. \A u \in Tid \ {t} : /\ phase'[u] = phase[u] /\ states'[u] = states[u]
                             /\ (u \in seen' <=> u \in seen)
    BY <1>0, <2>1
  <2>5. phase[t] \notin Outside
    BY <2>1 DEF Outside
  <2> QED
    BY <1>0, <2>2, <2>3, <2>4, <2>5, MoveOne
<1>4. CASE RunClone(t)
  <2>1. PICK u \in Tid :
          /\ phase[u] = "none"
          /\ phase' = [phase EXCEPT ![t] = "cloned", ![u] = "newborn"]
          /\ child' = [child EXCEPT ![t] = u]
    BY <1>4 DEF RunClone
  <2>2. phase[t] = "kernel" /\ UNCHANGED <<seen, states>>
    BY <1>4 DEF RunClone, tracerVars
  <2>3. /\ phase'[t] = "cloned" /\ phase'[u] = "newborn" /\ child'[t] = u /\ u # t
        /\ \A v \in Tid \ {t, u} : phase'[v] = phase[v]
        /\ \A v \in Tid \ {t} : child'[v] = child[v]
    BY <1>0, <2>1, <2>2
  <2>4. AnnouncedLater'
    <3> SUFFICES ASSUME NEW p \in Tid, phase'[p] = "cloned"
                 PROVE  phase'[child'[p]] \in Outside
      BY DEF AnnouncedLater
    <3>1. CASE p = t
      BY <2>3, <3>1 DEF Outside
    <3>2. CASE p # t
      <4>1. phase[p] = "cloned" /\ child'[p] = child[p] /\ child[p] \in Tid
        BY <1>0, <2>3, <3>2
      <4>2. phase[child[p]] \in Outside
        BY <4>1 DEF CallInv, AnnouncedLater
      <4>3. child[p] # t
        BY <2>2, <4>2 DEF Outside
      <4> QED
        BY <2>3, <4>1, <4>2, <4>3 DEF Outside
    <3> QED
      BY <3>1, <3>2
  <2>5. ASSUME NEW v \in Tid PROVE InStep(phase'[v], states'[v], v \in seen')
    <3>1. InStep(phase[v], states[v], v \in seen)
      BY DEF CallInv
    <3>2. CASE v = t
      BY <1>0, <2>2, <2>3, <3>2 DEF InStep
    <3>3. CASE v = u
      <4>1. states[u] = DefaultState
        BY <2>1 DEF IInv, NothingLeftOfTheDead
      <4> QED
        BY <2>2, <2>3, <3>3, <4>1 DEF InStep, DefaultState
    <3>4. CASE v \notin {t, u}
      BY <2>2, <2>3, <3>1, <3>4 DEF InStep
    <3> QED
      BY <3>2, <3>3, <3>4
  <2> QED
    BY <2>4, <2>5 DEF CallInv
<1>5. CASE Signal(t)
  <2>1. /\ phase[t] = "user" /\ phase' = [phase EXCEPT ![t] = "signal"]
        /\ UNCHANGED <<child, seen, states>>
    BY <1>5 DEF Signal, tracerVars
  <2>2. phase'[t] = "signal" /\ child' = child /\ phase'[t] \in Outside
    BY <1>0, <2>1 DEF Outside
  <2>3. InStep(phase'[t], states'[t], t \in seen')
    BY <1>0, <2>1, <2>2 DEF InStep
  <2>4. \A u \in Tid \ {t} : /\ phase'[u] = phase[u] /\ states'[u] = states[u]
                             /\ (u \in seen' <=> u \in seen)
    BY <1>0, <2>1
  <2> QED
    BY <1>0, <2>2, <2>3, <2>4, MoveOne
<1>6. CASE Kill(t)
  BY <1>6, KillCall DEF Kill, tracerVars
<1> QED
  BY <1>2, <1>3, <1>4, <1>5, <1>6 DEF Run

\* Iterations of the loop.
LEMMA TracerCall ==
    ASSUME IInv, CallInv, NEW t \in Tid, Handle(t)
    PROVE  CallInv'
<1>0. /\ phase \in [Tid -> Phases] /\ child \in [Tid -> Tid]
      /\ states \in [Tid -> SyscallState] /\ states[t] \in SyscallState
      /\ InStep(phase[t], states[t], t \in seen)
      /\ queue \in Seq(Tid)
  BY DEF IInv, TypeOK, CallInv
<1>0a. ASSUME CallInv, Resume(phase, {t})
       PROVE  /\ phase'[t] = Resumed(phase[t]) /\ t \notin seen'
              /\ \A u \in Tid \ {t} : phase'[u] = phase[u] /\ (u \in seen' <=> u \in seen)
  BY <1>0a DEF Resume
<1>1. CASE HandleEntryPlain(t) \/ HandleEntryBegin(t)
  <2>1. phase[t] = "entry"
    BY <1>1, StopIsTold DEF HandleEntryPlain, HandleEntryBegin
  <2>2. PICK i, c \in BOOLEAN : states' = [states EXCEPT ![t] = EntryState(i, FALSE, c)]
    BY <1>1 DEF HandleEntryPlain, HandleEntryBegin
  <2>3. Resume(phase, {t}) /\ child' = child
    BY <1>1 DEF HandleEntryPlain, HandleEntryBegin
  <2>4. states'[t] = EntryState(i, FALSE, c) /\ \A u \in Tid \ {t} : states'[u] = states[u]
    BY <1>0, <2>2
  <2>5. phase'[t] = "kernel"
    BY <1>0a, <2>1, <2>3 DEF Resumed
  <2>6. InStep(phase'[t], states'[t], t \in seen')
    BY <2>4, <2>5 DEF InStep, EntryState
  <2>7. phase[t] \notin Outside
    BY <2>1 DEF Outside
  <2> QED
    BY <1>0, <1>0a, <2>3, <2>4, <2>5, <2>6, <2>7, MoveOne
<1>2. CASE HandleEntryHold(t)
  <2>1. phase[t] = "entry"
    BY <1>2, StopIsTold DEF HandleEntryHold
  <2>2. /\ states' = [states EXCEPT ![t] = EntryState(FALSE, TRUE, FALSE)]
        /\ seen' = seen \cup {t} /\ phase' = phase /\ child' = child
    BY <1>2 DEF HandleEntryHold
  <2>3. /\ states'[t] = EntryState(FALSE, TRUE, FALSE)
        /\ \A u \in Tid \ {t} : states'[u] = states[u]
    BY <1>0, <2>2
  <2>4. InStep(phase'[t], states'[t], t \in seen')
    BY <2>1, <2>2, <2>3 DEF InStep, EntryState
  <2>5. phase[t] \notin Outside /\ phase'[t] # "cloned"
    BY <2>1, <2>2 DEF Outside
  <2>6. \A u \in Tid \ {t} : /\ phase'[u] = phase[u] /\ states'[u] = states[u]
                             /\ (u \in seen' <=> u \in seen)
    BY <2>2, <2>3
  <2> QED
    BY <1>0, <2>2, <2>4, <2>5, <2>6, MoveOne
<1>3. CASE HandleExitPlain(t)
  <2>1. phase[t] = "exit"
    BY <1>3, StopIsTold DEF HandleExitPlain
  <2>2. /\ states' = [states EXCEPT ![t] = ExitState(states[t])]
        /\ Resume(phase, {t}) /\ child' = child
    BY <1>0, <1>3 DEF HandleExitPlain
  <2>3. /\ states'[t] = ExitState(states[t])
        /\ \A u \in Tid \ {t} : states'[u] = states[u]
    BY <1>0, <2>2
  <2>4. phase'[t] = "user"
    BY <1>0a, <2>1, <2>2 DEF Resumed
  <2>5. InStep(phase'[t], states'[t], t \in seen')
    BY <1>0, <2>3, <2>4 DEF InStep, ExitState, SyscallState
  <2>6. phase[t] \notin Outside
    BY <2>1 DEF Outside
  <2> QED
    BY <1>0, <1>0a, <2>2, <2>3, <2>4, <2>5, <2>6, MoveOne
<1>4. CASE HandleExitCaptured(t)
  <2> DEFINE st == [states EXCEPT ![t] = ExitState(states[t])]
  <2>1. phase[t] = "exit"
    BY <1>4, StopIsTold DEF HandleExitCaptured
  <2>2. ReleaseWaiting(queue, st, phase, Drained, {t}) /\ child' = child
    BY <1>0, <1>4 DEF HandleExitCaptured
  <2>3. /\ st \in [Tid -> SyscallState]
        /\ st[t] = ExitState(states[t]) /\ \A u \in Tid \ {t} : st[u] = states[u]
    BY <1>0 DEF ExitState, SyscallState
  <2> HIDE DEF st
  <2>4. \A u \in Tid \ {t} : InStep(phase[u], st[u], u \in seen)
    BY <2>3 DEF CallInv
  <2>5. Resumed(phase[t]) = "user"
    BY <2>1 DEF Resumed
  <2>6. \A u \in {t} : InStep(Resumed(phase[u]), st[u], FALSE) /\ ~st[u].fgraph_waiting
    BY <1>0, <2>3, <2>5 DEF InStep, ExitState, SyscallState
  <2>7. {t} \in SUBSET Tid
    OBVIOUS
  <2>8. /\ \A u \in Tid : InStep(phase'[u], states'[u], u \in seen')
        /\ \A u \in Tid : phase'[u] = phase[u] \/ phase'[u] = Resumed(phase[u])
        /\ \A u \in Tid \ {t} :
             phase'[u] = phase[u] \/ phase[u] \in {"entry", "dying", "zombie"}
    BY <1>0, <2>2, <2>3, <2>4, <2>6, <2>7, ReleaseCall, Zenon
  <2>9. AnnouncedLater'
    <3>1. \A u \in Tid : phase'[u] = "cloned" =>
            phase[u] = "cloned" /\ child'[u] = child[u]
      BY <1>0, <2>2, <2>8 DEF Resumed, Phases, Stops, SyscallStops
    <3>2. \A u \in Tid : phase[u] \in Outside => phase'[u] \in Outside \/ Announced(u)
      BY <2>1, <2>8 DEF Outside, Resumed
    <3> QED
      BY <1>0, <3>1, <3>2, LaterStep
  <2> QED
    BY <2>8, <2>9 DEF CallInv
<1>5. CASE HandleVanished(t)
  BY <1>5, KillCall DEF HandleVanished
<1>6. CASE HandleClone(t)
  <2>1. /\ phase[t] = "cloned" /\ Resume(phase, {child[t], t})
        /\ child' = [child EXCEPT ![t] = t] /\ states' = states
    BY <1>6 DEF HandleClone, WaitPid
  <2>2. phase[child[t]] \in Outside /\ child[t] # t /\ child[t] \in Tid
    BY <1>0, <2>1 DEF CallInv, AnnouncedLater, Outside
  <2>3. /\ phase'[t] = "kernel"
        /\ phase'[child[t]] = Resumed(phase[child[t]])
        /\ \A u \in Tid \ {t, child[t]} : phase'[u] = phase[u]
        /\ seen' = seen \ {child[t], t}
    BY <1>0, <2>1, <2>2 DEF Resume, Resumed
  <2>4. /\ phase[child[t]] \in {"newborn", "user", "signal"} => phase'[child[t]] = "user"
        /\ phase[child[t]] \in {"dying", "zombie"} => phase'[child[t]] = "zombie"
        /\ phase[child[t]] = "none" => phase'[child[t]] = "none"
    BY <2>3 DEF Resumed
  <2>5. AnnouncedLater'
    <3>1. \A u \in Tid : phase'[u] = "cloned" =>
            phase[u] = "cloned" /\ child'[u] = child[u]
      BY <1>0, <2>1, <2>2, <2>3, <2>4 DEF Outside
    <3>2. \A u \in Tid : phase[u] \in Outside => phase'[u] \in Outside \/ Announced(u)
      BY <2>1, <2>2, <2>3, <2>4 DEF Outside
    <3> QED
      BY <1>0, <3>1, <3>2, LaterStep
  <2>6. ASSUME NEW u \in Tid PROVE InStep(phase'[u], states'[u], u \in seen')
    <3>1. InStep(phase[u], states[u], u \in seen)
      BY DEF CallInv
    <3>2. CASE u = t
      BY <2>1, <2>3, <3>1, <3>2 DEF InStep
    <3>3. CASE u = child[t]
      BY <2>1, <2>2, <2>3, <2>4, <3>1, <3>3 DEF InStep, Outside
    <3>4. CASE u \notin {t, child[t]}
      BY <2>1, <2>3, <3>1, <3>4 DEF InStep
    <3> QED
      BY <3>2, <3>3, <3>4
  <2> QED
    BY <2>5, <2>6 DEF CallInv
<1>7. CASE HandleOther(t)
  <2>1. /\ phase[t] \in {"newborn", "signal", "dying"}
        /\ Resume(phase, {t}) /\ child' = child /\ states' = states
    BY <1>7 DEF HandleOther, WaitPid
  <2>2. phase'[t] = IF phase[t] = "dying" THEN "zombie" ELSE "user"
    BY <1>0a, <2>1 DEF Resumed
  <2>3. InStep(phase'[t], states'[t], t \in seen')
    BY <1>0, <2>1, <2>2 DEF InStep
  <2>4. phase'[t] \in Outside /\ phase'[t] # "cloned"
    BY <2>2 DEF Outside
  <2>5. \A u \in Tid \ {t} : /\ phase'[u] = phase[u] /\ states'[u] = states[u]
                             /\ (u \in seen' <=> u \in seen)
    BY <1>0a, <2>1
  <2> QED
    BY <1>0, <2>1, <2>3, <2>4, <2>5, MoveOne
<1>8. CASE HandleGone(t)
  <2> DEFINE q == Forget(t, queue)
             st == [states EXCEPT ![t] = DefaultState]
             ph == [phase EXCEPT ![t] = "none"]
  <2>1. phase[t] = "zombie" /\ child' = [child EXCEPT ![t] = t]
    BY <1>8 DEF HandleGone
  <2>2. q \in Seq(Tid)
    BY <1>0, ForgetFacts DEF IInv, QueueHasNoDuplicates, NoDuplicates
  <2>3. /\ st \in [Tid -> SyscallState] /\ ph \in [Tid -> Phases]
        /\ st[t] = DefaultState /\ \A u \in Tid \ {t} : st[u] = states[u]
        /\ ph[t] = "none" /\ \A u \in Tid \ {t} : ph[u] = phase[u]
    BY <1>0 DEF DefaultState, SyscallState, Phases
  <2>4. \/ ReleaseWaiting(q, st, ph, window', {})
        \/ states' = st /\ phase' = ph /\ seen' = seen
    BY <1>8 DEF HandleGone
  <2> HIDE DEF q, st, ph
  <2>5. ASSUME NEW u \in Tid PROVE InStep(ph[u], st[u], u \in seen)
    <3>1. InStep(phase[u], states[u], u \in seen)
      BY DEF CallInv
    <3> QED
      BY <2>3, <3>1 DEF InStep, DefaultState
  <2>6. /\ \A u \in Tid : InStep(phase'[u], states'[u], u \in seen')
        /\ \A u \in Tid : phase'[u] = ph[u] \/ ph[u] \in {"entry", "dying", "zombie"}
        /\ \A u \in Tid : phase'[u] = ph[u] \/ phase'[u] = Resumed(ph[u])
    <3>1. CASE ReleaseWaiting(q, st, ph, window', {})
      <4>1. {} \in SUBSET Tid /\ \A u \in Tid \ {} : InStep(ph[u], st[u], u \in seen)
        BY <2>5
      <4>2. \A u \in {} : InStep(Resumed(ph[u]), st[u], FALSE) /\ ~st[u].fgraph_waiting
        OBVIOUS
      <4>3. /\ \A u \in Tid : InStep(phase'[u], states'[u], u \in seen')
            /\ \A u \in Tid : phase'[u] = ph[u] \/ phase'[u] = Resumed(ph[u])
            /\ \A u \in Tid \ {} :
                 phase'[u] = ph[u] \/ ph[u] \in {"entry", "dying", "zombie"}
        BY <2>2, <2>3, <3>1, <4>1, <4>2, ReleaseCall, Zenon
      <4> QED
        BY <4>3
    <3>2. CASE states' = st /\ phase' = ph /\ seen' = seen
      BY <2>5, <3>2 DEF InStep
    <3> QED
      BY <2>4, <3>1, <3>2
  <2>7. AnnouncedLater'
    <3>1. \A u \in Tid : phase'[u] = "cloned" =>
            phase[u] = "cloned" /\ child'[u] = child[u]
      BY <1>0, <2>1, <2>3, <2>6 DEF Resumed
    <3>2. \A u \in Tid : phase[u] \in Outside => phase'[u] \in Outside \/ Announced(u)
      BY <2>3, <2>6 DEF Outside, Resumed
    <3> QED
      BY <1>0, <3>1, <3>2, LaterStep
  <2> QED
    BY <2>6, <2>7 DEF CallInv
<1> QED
  BY <1>1, <1>2, <1>3, <1>4, <1>5, <1>6, <1>7, <1>8 DEF Handle

\* A capture begins at an entry and ends at an exit or with its thread.
LEMMA SpanStep ==
    ASSUME IInv, CallInv, [Next]_vars, capture' # capture
    PROVE  /\ capture # NoTid => phase[capture] \in {"exit", "zombie"}
           /\ capture' # NoTid => phase[capture'] \in {"entry", "dying", "zombie"}
<1>0. /\ phase \in [Tid -> Phases] /\ queue \in Seq(Tid)
      /\ states \in [Tid -> SyscallState] /\ capture \in Tid \cup {NoTid}
  BY DEF IInv, TypeOK
<1>1. PICK t \in Tid : HandleEntryBegin(t) \/ HandleExitCaptured(t) \/ HandleGone(t)
  <2>1. ~UNCHANGED capture
    OBVIOUS
  <2>2. ~HandleNoChild
    <3>1. ASSUME HandleNoChild PROVE capture = NoTid
      BY <1>0, <3>1 DEF HandleNoChild, IInv, NothingLeftOfTheDead
    <3> QED
      BY <2>1, <3>1 DEF HandleNoChild
  <2>3. Next /\ ~Terminated
    BY <2>1 DEF vars, tracerVars, Terminated
  <2>4. PICK t \in Tid : \/ \E k \in Calls : EnterSyscall(t, k)
                         \/ EnterWindow(t) \/ ExitWindow(t) \/ Run(t) \/ Signal(t)
                         \/ Kill(t) \/ Handle(t)
    BY <2>2, <2>3 DEF Next
  <2>5. Handle(t)
    BY <2>1, <2>4 DEF EnterSyscall, EnterWindow, ExitWindow, Run, RunPublish, RunWork,
       RunClone, RunCloneFails, RunQuit, Signal, Kill, tracerVars
  <2> QED
    BY <2>1, <2>5 DEF Handle, HandleEntryPlain, HandleEntryHold, HandleExitPlain,
       HandleVanished, HandleClone, HandleOther
<1>2. CASE HandleEntryBegin(t)
  <2>1. phase[t] = "entry" /\ capture = NoTid /\ capture' \in {t, NoTid}
    BY <1>2, StopIsTold DEF HandleEntryBegin, BeginCapture
  <2> QED
    BY <2>1
<1>3. CASE HandleExitCaptured(t)
  <2> DEFINE st == [states EXCEPT ![t] = ExitState(states[t])]
  <2>1. phase[t] = "exit" /\ capture = t
    BY <1>3, StopIsTold DEF HandleExitCaptured, IInv, CaptureMatchesState
  <2>2. ReleaseWaiting(queue, st, phase, Drained, {t})
    BY <1>0, <1>3 DEF HandleExitCaptured
  <2>3. /\ st \in [Tid -> SyscallState]
        /\ st[t] = ExitState(states[t]) /\ \A u \in Tid \ {t} : st[u] = states[u]
    BY <1>0 DEF ExitState, SyscallState
  <2> HIDE DEF st
  <2>4. capture' # NoTid => capture' \in Tid /\ st[capture'].active
                            /\ st[capture'].fgraph_waiting
    <3>1. {t} \in SUBSET Tid
      OBVIOUS
    <3> QED
      BY <1>0, <2>2, <2>3, <3>1, ReleaseNext
  <2>5. capture' # NoTid => capture' \in Tid \ {t} /\ states[capture'].fgraph_waiting
    BY <1>0, <2>3, <2>4 DEF ExitState, SyscallState
  <2> QED
    BY <2>1, <2>5 DEF CallInv, InStep
<1>4. CASE HandleGone(t)
  <2> DEFINE q == Forget(t, queue)
             st == [states EXCEPT ![t] = DefaultState]
             ph == [phase EXCEPT ![t] = "none"]
  <2>1. /\ phase[t] = "zombie" /\ capture \in {t, NoTid}
        /\ ReleaseWaiting(q, st, ph, window', {})
    BY <1>4 DEF HandleGone
  <2>2. q \in Seq(Tid)
    BY <1>0, ForgetFacts DEF IInv, QueueHasNoDuplicates, NoDuplicates
  <2>3. /\ st \in [Tid -> SyscallState] /\ ph \in [Tid -> Phases]
        /\ st[t] = DefaultState /\ \A u \in Tid \ {t} : st[u] = states[u]
        /\ ph[t] = "none" /\ \A u \in Tid \ {t} : ph[u] = phase[u]
    BY <1>0 DEF DefaultState, SyscallState, Phases
  <2> HIDE DEF q, st, ph
  <2>4. capture' # NoTid => capture' \in Tid /\ st[capture'].active
                            /\ st[capture'].fgraph_waiting
    <3>1. {} \in SUBSET Tid
      OBVIOUS
    <3> QED
      BY <2>1, <2>2, <2>3, <3>1, ReleaseNext
  <2>5. capture' # NoTid => capture' \in Tid \ {t} /\ states[capture'].fgraph_waiting
    BY <2>3, <2>4 DEF DefaultState
  <2> QED
    BY <2>1, <2>5 DEF CallInv, InStep
<1> QED
  BY <1>1, <1>2, <1>3, <1>4

\* At ready the attached thread runs outside any call.
LEMMA InitCall == Init => CallInv
BY DEF Init, CallInv, InStep, AnnouncedLater, DefaultState, Outside

\* Every step keeps the loop in step with the threads.
LEMMA StepCall ==
    ASSUME PromptCloneEvents
    PROVE  IInv /\ CallInv /\ [Next]_vars => CallInv'
<1> SUFFICES ASSUME IInv, CallInv, [Next]_vars PROVE CallInv'
  OBVIOUS
<1>1. ASSUME UNCHANGED <<phase, states, seen, child>> PROVE CallInv'
  BY <1>1 DEF CallInv, AnnouncedLater
<1>2. ASSUME NEW t \in Tid, Handle(t) PROVE CallInv'
  BY <1>2, TracerCall
<1>3. ASSUME NEW t \in Tid,
             \/ \E k \in Calls : EnterSyscall(t, k)
             \/ EnterWindow(t) \/ ExitWindow(t)
             \/ Run(t) \/ Signal(t) \/ Kill(t)
      PROVE CallInv'
  BY <1>3, ThreadCall
<1>4. HandleNoChild \/ UNCHANGED vars => UNCHANGED <<phase, states, seen, child>>
  BY DEF HandleNoChild, vars, kernelVars, tracerVars
<1> QED
  BY <1>1, <1>2, <1>3, <1>4 DEF Next, Terminated

\* The toggling of SyscallState.active never gets out of step with the kernel,
\* for any number of threads and processes, if a clone event is handled before
\* the new thread's first call.
THEOREM TogglingInStep ==
    ASSUME PromptCloneEvents
    PROVE  Spec => []EntryExitInStep
<1>1. CallInv => EntryExitInStep
  BY DEF CallInv, EntryExitInStep, InStep
<1>2. IInv /\ CallInv /\ [Next]_vars => CallInv'
  BY StepCall
<1> QED
  BY <1>1, <1>2, InitCall, Invariance, PTL DEF Spec

\* Under the same condition a capture covers one call: it starts at the entry
\* its thread was stopped in and ends at that call's exit or with the thread.
THEOREM SpansOneCall ==
    ASSUME PromptCloneEvents
    PROVE  Spec => CaptureSpansOneCall
<1>1. IInv /\ CallInv /\ [Next]_vars =>
        [capture' # capture =>
           /\ capture # NoTid => phase[capture] \in {"exit", "zombie"}
           /\ capture' # NoTid => phase[capture'] \in {"entry", "dying", "zombie"}
        ]_vars
  BY SpanStep
<1>2. IInv /\ CallInv /\ [Next]_vars => CallInv'
  BY StepCall
<1> QED
  BY <1>1, <1>2, InitCall, Invariance, PTL DEF Spec, CaptureSpansOneCall

-----------------------------------------------------------------------------
(* The window depths.  The messages of the threads are not lost if the pipe *)
(* holds one for each thread, and name their sender if nobody forks.        *)

PipeHasRoom == IsFiniteSet(Tid) /\ Cardinality(Tid) <= PipeCap

\* WindowUpToDate for a thread at p in call k with depth d, if w is what the
\* loop will have drained; a thread starts with depth 0.
Knows(p, k, d, w) ==
    /\ p = "none" => d = 0
    /\ p \in {"newborn", "user", "signal", "exit"} => w = d
    /\ p \in {"entry", "kernel", "cloned", "exec"} /\ k # "publish" => w = d

DepthInv == \A t \in Tid : Knows(phase[t], kind[t], depth[t], Drained[t])

\* A thread that writes its message finds room for it.
LEMMA RoomToPublish ==
    ASSUME IInv, PipeHasRoom, NEW t \in Tid, phase[t] = "kernel"
    PROVE  Len(pipe) < PipeCap
<1> SUFFICES ASSUME ~(Len(pipe) < PipeCap) PROVE FALSE
  OBVIOUS
<1>1. /\ pipe \in Seq(Update) /\ Len(pipe) \in Nat /\ DOMAIN pipe = 1..Len(pipe)
      /\ PipeCap \in Nat
  BY BoundAssumption DEF IInv, TypeOK
<1> DEFINE S == 1..Len(pipe)
           T == Tid \ {t}
           f == [i \in S |-> pipe[i].from]
<1>2. f \in [S -> T]
  <2>1. \A i \in S : pipe[i].from \in Tid /\ pipe[i].from # t
    BY <1>1, RunningThread, PipeFacts DEF IInv
  <2> QED
    BY <2>1
<1>3. IsFiniteSet(S) /\ Cardinality(S) = Len(pipe)
  <2> DEFINE n == Len(pipe)
  <2>1. n \in Nat /\ n \in Int /\ 1 \in Int
    BY <1>1
  <2> HIDE DEF n
  <2>2. IsFiniteSet(1..n) /\ Cardinality(1..n) = IF 1 > n THEN 0 ELSE n - 1 + 1
    BY <2>1, FS_Interval
  <2>3. IsFiniteSet(1..n) /\ Cardinality(1..n) = n
    BY <2>1, <2>2
  <2> QED
    BY <2>3 DEF n
<1>4. /\ IsFiniteSet(T) /\ Cardinality(T) = Cardinality(Tid) - 1
      /\ Cardinality(Tid) \in Nat /\ Cardinality(Tid) <= PipeCap
  BY FS_RemoveElement, FS_CardinalityType DEF PipeHasRoom
<1>5. Cardinality(T) < Cardinality(S)
  BY <1>1, <1>3, <1>4
<1> HIDE DEF S, T, f
<1>6. \E i, j \in S : i # j /\ f[i] = f[j]
  BY <1>2, <1>3, <1>4, <1>5, FS_PigeonHole
<1> QED
  BY <1>1, <1>6 DEF S, f, IInv, OneUpdatePending

\* The only message of a thread is its last one.
LEMMA OnlyMessage ==
    ASSUME NEW p \in Seq(Update), NEW i \in DOMAIN p,
           \A j \in DOMAIN p : p[j].tid = p[i].tid => j = i
    PROVE  (CHOOSE c \in DOMAIN p :
              /\ p[c].tid = p[i].tid
              /\ \A j \in DOMAIN p : p[j].tid = p[i].tid => j <= c) = i
<1> DEFINE Last(c) == /\ p[c].tid = p[i].tid
                      /\ \A j \in DOMAIN p : p[j].tid = p[i].tid => j <= c
<1>1. i \in Nat
  OBVIOUS
<1>2. Last(i)
  BY <1>1
<1>3. \A c \in DOMAIN p : Last(c) => c = i
  OBVIOUS
<1> HIDE DEF Last
<1>4. (CHOOSE c \in DOMAIN p : Last(c)) = i
  BY <1>2, <1>3
<1> QED
  BY <1>4 DEF Last

\* A message that arrives changes the depth of its sender and of no other
\* thread.
LEMMA DrainAppend ==
    ASSUME IInv, IInv', SingleProcess, NEW t \in Tid, NEW msg \in Update,
           window' = window, pipe' = Append(pipe, msg), msg.tid = t
    PROVE  /\ Drained'[t] = msg.depth
           /\ \A u \in Tid \ {t} : Drained'[u] = Drained[u]
<1>1. /\ pipe \in Seq(Update) /\ pipe' \in Seq(Update) /\ Len(pipe) \in Nat
      /\ DOMAIN pipe = 1..Len(pipe) /\ DOMAIN pipe' = 1..Len(pipe) + 1
      /\ Len(pipe) + 1 \in DOMAIN pipe'
      /\ pipe'[Len(pipe) + 1] = msg
      /\ \A i \in DOMAIN pipe : i \in DOMAIN pipe' /\ pipe'[i] = pipe[i]
  BY DEF IInv, TypeOK
<1>1a. \A i \in DOMAIN pipe' : i \in DOMAIN pipe \/ i = Len(pipe) + 1
  BY <1>1
<1>2. \A i, j \in DOMAIN pipe : pipe[i].tid = pipe[j].tid => i = j
  BY DEF IInv, HonestIds, OneUpdatePending
<1>3. \A i, j \in DOMAIN pipe' : pipe'[i].tid = pipe'[j].tid => i = j
  BY DEF IInv, HonestIds, OneUpdatePending
<1>4. Drained'[t] = msg.depth
  <2>1. (CHOOSE c \in DOMAIN pipe' :
              /\ pipe'[c].tid = t
              /\ \A j \in DOMAIN pipe' : pipe'[j].tid = t => j <= c) = Len(pipe) + 1
    BY <1>1, <1>3, OnlyMessage
  <2>2. \E i \in DOMAIN pipe' : pipe'[i].tid = t
    BY <1>1
  <2> QED
    BY <1>1, <2>1, <2>2 DEF Drained
<1>5. ASSUME NEW u \in Tid \ {t} PROVE Drained'[u] = Drained[u]
  <2>1. CASE \E i \in DOMAIN pipe : pipe[i].tid = u
    <3>1. PICK i \in DOMAIN pipe : pipe[i].tid = u
      BY <2>1
    <3>2. i \in DOMAIN pipe' /\ pipe'[i] = pipe[i]
      BY <1>1
    <3>3. (CHOOSE c \in DOMAIN pipe :
              /\ pipe[c].tid = u
              /\ \A j \in DOMAIN pipe : pipe[j].tid = u => j <= c) = i
      BY <1>1, <1>2, <3>1, OnlyMessage
    <3>4. (CHOOSE c \in DOMAIN pipe' :
              /\ pipe'[c].tid = u
              /\ \A j \in DOMAIN pipe' : pipe'[j].tid = u => j <= c) = i
      BY <1>1, <1>3, <3>1, <3>2, OnlyMessage
    <3>5. Drained[u] = pipe[i].depth
      BY <2>1, <3>3 DEF Drained
    <3>6. Drained'[u] = pipe'[i].depth
      BY <3>1, <3>2, <3>4 DEF Drained
    <3> QED
      BY <3>2, <3>5, <3>6
  <2>2. CASE ~ \E i \in DOMAIN pipe : pipe[i].tid = u
    <3>1. ~ \E i \in DOMAIN pipe' : pipe'[i].tid = u
      BY <1>1, <1>1a, <2>2
    <3> QED
      BY <2>2, <3>1 DEF Drained
  <2> QED
    BY <2>1, <2>2
<1> QED
  BY <1>4, <1>5

\* An iteration of the loop leaves nothing to drain.
LEMMA DrainStep ==
    ASSUME pipe' = <<>>
    PROVE  \A u \in Tid : Drained'[u] = window'[u]
BY DEF Drained

\* A thread that is resumed or killed is no worse known.
LEMMA KnownWhenResumed ==
    ASSUME NEW p \in Phases, NEW k, NEW d, NEW w, Knows(p, k, d, w)
    PROVE  /\ Knows(Resumed(p), k, d, w)
           /\ Knows("dying", k, d, w) /\ Knows("zombie", k, d, w)
BY DEF Knows, Resumed, Phases, Stops, SyscallStops

\* Every step of a thread keeps its depth known.
LEMMA ThreadDepth ==
    ASSUME IInv, IInv', DepthInv, SingleProcess, PipeHasRoom, NEW t \in Tid,
           \/ \E k \in Calls : EnterSyscall(t, k)
           \/ EnterWindow(t) \/ ExitWindow(t)
           \/ Run(t) \/ Signal(t) \/ Kill(t)
    PROVE  DepthInv'
<1> USE DEF tracerVars
<1>0. /\ phase \in [Tid -> Phases] /\ kind \in [Tid -> CallKinds \cup {"publish"}]
      /\ depth \in [Tid -> 0..MaxDepth]
      /\ \A u \in Tid : Knows(phase[u], kind[u], depth[u], Drained[u])
  BY DEF IInv, TypeOK, DepthInv
<1>0a. ASSUME UNCHANGED <<pipe, window>> PROVE Drained' = Drained
  BY <1>0a DEF Drained
<1>1. ASSUME NEW k \in Calls, EnterSyscall(t, k) PROVE DepthInv'
  <2>1. /\ phase[t] = "user" /\ phase' = [phase EXCEPT ![t] = "entry"]
        /\ kind' = [kind EXCEPT ![t] = k] /\ depth' = depth /\ Drained' = Drained
    BY <1>0a, <1>1 DEF EnterSyscall, MayEnter
  <2> QED
    BY <1>0, <2>1 DEF DepthInv, Knows
<1>2. CASE EnterWindow(t) \/ ExitWindow(t)
  <2>1. /\ phase' = [phase EXCEPT ![t] = "entry"]
        /\ kind' = [kind EXCEPT ![t] = "publish"] /\ Drained' = Drained
        /\ \E d : depth' = [depth EXCEPT ![t] = d]
    BY <1>0a, <1>2 DEF EnterWindow, ExitWindow
  <2>2. /\ phase'[t] = "entry" /\ kind'[t] = "publish"
        /\ \A u \in Tid \ {t} : phase'[u] = phase[u] /\ kind'[u] = kind[u]
                                 /\ depth'[u] = depth[u]
    BY <1>0, <2>1
  <2>3. Knows(phase'[t], kind'[t], depth'[t], Drained'[t])
    BY <2>2 DEF Knows
  <2> QED
    BY <1>0, <2>1, <2>2, <2>3 DEF DepthInv
<1>3. CASE RunPublish(t)
  <2> DEFINE msg == [tid |-> current_tid(t), depth |-> depth[t], from |-> t]
  <2>1. /\ phase[t] = "kernel" /\ phase' = [phase EXCEPT ![t] = "exit"]
        /\ UNCHANGED <<kind, depth, window>>
    BY <1>3 DEF RunPublish
  <2>2. pipe' = Append(pipe, msg)
    <3>1. Len(pipe) < PipeCap /\ Len(pipe) \in Nat /\ PipeCap \in Nat
      BY <2>1, RoomToPublish, BoundAssumption DEF IInv, TypeOK
    <3> QED
      BY <1>3, <3>1 DEF RunPublish
  <2>3. msg.tid = t /\ msg.depth = depth[t] /\ msg \in Update
    BY <1>0, BoundAssumption DEF IInv, HonestIds, current_tid, Update
  <2> HIDE DEF msg
  <2>4. Drained'[t] = depth[t] /\ \A u \in Tid \ {t} : Drained'[u] = Drained[u]
    BY <2>1, <2>2, <2>3, DrainAppend
  <2>5. phase'[t] = "exit" /\ \A u \in Tid \ {t} : phase'[u] = phase[u]
    BY <1>0, <2>1
  <2>6. Knows(phase'[t], kind'[t], depth'[t], Drained'[t])
    BY <2>1, <2>4, <2>5 DEF Knows
  <2> QED
    BY <1>0, <2>1, <2>4, <2>5, <2>6 DEF DepthInv
<1>4. CASE RunWork(t)
  <2>1. /\ phase[t] = "kernel" /\ kind[t] = "work"
        /\ phase' = [phase EXCEPT ![t] = "exit"] /\ depth' = depth /\ Drained' = Drained
        /\ \A u \in Tid : kind'[u] = "publish" <=> kind[u] = "publish"
    BY <1>0a, <1>4 DEF RunWork
  <2> QED
    BY <1>0, <2>1 DEF DepthInv, Knows
<1>5. CASE RunClone(t)
  <2>1. PICK u \in Tid :
          /\ phase[u] = "none"
          /\ phase' = [phase EXCEPT ![t] = "cloned", ![u] = "newborn"]
          /\ depth' = [depth EXCEPT ![u] = depth[IF ProcOf[u] = ProcOf[t] THEN u ELSE t]]
    BY <1>5 DEF RunClone
  <2>2. depth' = depth
    BY <1>0, <2>1 DEF SingleProcess
  <2>3. /\ phase[t] = "kernel" /\ kind[t] = "clone"
        /\ kind' = [kind EXCEPT ![t] = "work"] /\ Drained' = Drained
    BY <1>0a, <1>5 DEF RunClone
  <2>4. Drained[u] = 0 /\ depth[u] = 0
    BY <1>0, <2>1, DrainedDead DEF Knows
  <2>5. ASSUME NEW v \in Tid PROVE Knows(phase'[v], kind'[v], depth'[v], Drained'[v])
    <3>1. Knows(phase[v], kind[v], depth[v], Drained[v])
      BY <1>0
    <3>2. CASE v = u
      BY <1>0, <2>1, <2>2, <2>3, <2>4, <3>2 DEF Knows
    <3>3. CASE v = t /\ t # u
      BY <1>0, <2>1, <2>2, <2>3, <3>1, <3>3 DEF Knows
    <3>4. CASE v \notin {t, u}
      BY <1>0, <2>1, <2>2, <2>3, <3>1, <3>4
    <3> QED
      BY <3>2, <3>3, <3>4
  <2> QED
    BY <2>5 DEF DepthInv
<1>6. CASE RunCloneFails(t) \/ RunQuit(t) \/ Signal(t)
  <2>1. /\ phase[t] \in {"kernel", "user"}
        /\ phase[t] = "kernel" => kind[t] # "publish"
        /\ \E p \in {"exit", "dying", "signal"} : phase' = [phase EXCEPT ![t] = p]
        /\ kind' = kind /\ depth' = depth /\ Drained' = Drained
    BY <1>0a, <1>6 DEF RunCloneFails, RunQuit, Signal
  <2> QED
    BY <1>0, <2>1 DEF DepthInv, Knows
<1>7. CASE Kill(t)
  <2>1. /\ \A u \in Tid : phase'[u] \in {phase[u], "dying", "zombie"}
        /\ kind' = kind /\ depth' = depth /\ Drained' = Drained
    BY <1>0a, <1>7 DEF Kill, KillGroup
  <2> QED
    BY <1>0, <2>1, KnownWhenResumed DEF DepthInv
<1> QED
  BY <1>1, <1>2, <1>3, <1>4, <1>5, <1>6, <1>7 DEF Run

\* Every iteration of the loop keeps the depths known.
LEMMA TracerDepth ==
    ASSUME IInv, DepthInv, NEW t \in Tid, Handle(t)
    PROVE  DepthInv'
<1>0. /\ phase \in [Tid -> Phases] /\ kind \in [Tid -> CallKinds \cup {"publish"}]
      /\ depth \in [Tid -> 0..MaxDepth] /\ queue \in Seq(Tid)
      /\ states \in [Tid -> SyscallState] /\ states[t] \in SyscallState
      /\ Drained \in [Tid -> Nat]
      /\ \A u \in Tid : Knows(phase[u], kind[u], depth[u], Drained[u])
  BY DrainFacts DEF IInv, TypeOK, DepthInv
<1>1. ASSUME pipe' = <<>>, window' = Drained, kind' = kind, depth' = depth,
             \A u \in Tid : phase'[u] \in {phase[u], Resumed(phase[u]), "dying", "zombie"}
      PROVE  DepthInv'
  <2>1. \A u \in Tid : Drained'[u] = Drained[u]
    BY <1>1, DrainStep
  <2>2. ASSUME NEW u \in Tid PROVE Knows(phase'[u], kind'[u], depth'[u], Drained'[u])
    <3>1. phase[u] \in Phases /\ Knows(phase[u], kind[u], depth[u], Drained[u])
      BY <1>0
    <3>2. /\ Knows(Resumed(phase[u]), kind[u], depth[u], Drained[u])
          /\ Knows("dying", kind[u], depth[u], Drained[u])
          /\ Knows("zombie", kind[u], depth[u], Drained[u])
      BY <3>1, KnownWhenResumed
    <3> QED
      BY <1>1, <2>1, <3>1, <3>2
  <2> QED
    BY <2>2 DEF DepthInv
<1>2. CASE HandleEntryPlain(t) \/ HandleEntryBegin(t) \/ HandleExitPlain(t)
           \/ HandleClone(t) \/ HandleOther(t)
  <2>1. \E S : Resume(phase, S)
    BY <1>2 DEF HandleEntryPlain, HandleEntryBegin, HandleExitPlain, HandleClone, HandleOther
  <2>2. \A u \in Tid : phase'[u] \in {phase[u], Resumed(phase[u])}
    BY <2>1 DEF Resume
  <2>3. pipe' = <<>> /\ window' = Drained /\ kind' = kind /\ depth' = depth
    BY <1>2 DEF HandleEntryPlain, HandleEntryBegin, HandleExitPlain, HandleClone,
       HandleOther, WaitPid
  <2> QED
    BY <1>1, <2>2, <2>3
<1>3. CASE HandleEntryHold(t)
  BY <1>1, <1>3 DEF HandleEntryHold, WaitPid
<1>4. CASE HandleVanished(t)
  <2>1. \A u \in Tid : phase'[u] \in {phase[u], "dying", "zombie"}
    BY <1>4 DEF HandleVanished, KillGroup
  <2> QED
    BY <1>1, <1>4, <2>1 DEF HandleVanished, WaitPid
<1>5. CASE HandleExitCaptured(t)
  <2> DEFINE st == [states EXCEPT ![t] = ExitState(states[t])]
  <2>1. ReleaseWaiting(queue, st, phase, Drained, {t})
    BY <1>0, <1>5 DEF HandleExitCaptured
  <2>2. st \in [Tid -> SyscallState] /\ {t} \in SUBSET Tid
    BY <1>0 DEF ExitState, SyscallState
  <2> HIDE DEF st
  <2>3. \E S : Resume(phase, S)
    <3>1. PICK popped \in SUBSET Tid, next \in Tid \cup {NoTid} :
            Released(popped, next, st, phase, Drained, {t})
      BY <1>0, <2>1, <2>2, ReleaseEffect
    <3> QED
      BY <3>1 DEF Released
  <2>4. \A u \in Tid : phase'[u] \in {phase[u], Resumed(phase[u])}
    BY <2>3 DEF Resume
  <2> QED
    BY <1>1, <1>5, <2>4 DEF HandleExitCaptured, WaitPid
<1>6. CASE HandleGone(t)
  <2> DEFINE q == Forget(t, queue)
             st == [states EXCEPT ![t] = DefaultState]
             ph == [phase EXCEPT ![t] = "none"]
  <2>1. /\ pipe' = <<>> /\ window' = [Drained EXCEPT ![t] = 0]
        /\ kind' = [kind EXCEPT ![t] = "work"] /\ depth' = [depth EXCEPT ![t] = 0]
    BY <1>6 DEF HandleGone
  <2>2. q \in Seq(Tid)
    BY <1>0, ForgetFacts DEF IInv, QueueHasNoDuplicates, NoDuplicates
  <2>3. st \in [Tid -> SyscallState] /\ {} \in SUBSET Tid
    BY <1>0 DEF DefaultState, SyscallState
  <2>4. ph[t] = "none" /\ \A u \in Tid \ {t} : ph[u] = phase[u]
    BY <1>0
  <2>5. ReleaseWaiting(q, st, ph, window', {}) \/ phase' = ph
    BY <1>6 DEF HandleGone
  <2> HIDE DEF q, st, ph
  <2>6. (\E S : Resume(ph, S)) \/ phase' = ph
    <3> SUFFICES ASSUME ReleaseWaiting(q, st, ph, window', {}) PROVE \E S : Resume(ph, S)
      BY <2>5
    <3>1. PICK popped \in SUBSET Tid, next \in Tid \cup {NoTid} :
            Released(popped, next, st, ph, window', {})
      BY <2>2, <2>3, ReleaseEffect
    <3> QED
      BY <3>1 DEF Released
  <2>7. \A u \in Tid : phase'[u] \in {ph[u], Resumed(ph[u])}
    BY <2>6 DEF Resume
  <2>8. phase'[t] = "none" /\ \A u \in Tid \ {t} : phase'[u] \in {phase[u], Resumed(phase[u])}
    BY <2>4, <2>7 DEF Resumed
  <2>9. /\ depth'[t] = 0
        /\ \A u \in Tid \ {t} : kind'[u] = kind[u] /\ depth'[u] = depth[u]
                                 /\ Drained'[u] = Drained[u]
    BY <1>0, <2>1, DrainStep
  <2>10. Knows(phase'[t], kind'[t], depth'[t], Drained'[t])
    BY <2>8, <2>9 DEF Knows
  <2>11. ASSUME NEW u \in Tid \ {t}
         PROVE  Knows(phase'[u], kind'[u], depth'[u], Drained'[u])
    <3>1. phase[u] \in Phases /\ Knows(phase[u], kind[u], depth[u], Drained[u])
      BY <1>0
    <3>2. Knows(Resumed(phase[u]), kind[u], depth[u], Drained[u])
      BY <3>1, KnownWhenResumed
    <3> QED
      BY <2>8, <2>9, <3>1, <3>2
  <2> QED
    BY <2>10, <2>11 DEF DepthInv
<1> QED
  BY <1>2, <1>3, <1>4, <1>5, <1>6 DEF Handle

-----------------------------------------------------------------------------
(* The calls that are captured.                                             *)

InWindow(t) == depth[t] > 0 \/ kind[t] = "publish"

\* A call that runs and should be captured.
Due(p, k, d, s) ==
    /\ p \in {"kernel", "cloned", "exit"}
    /\ FgraphEnabled /\ d > 0 /\ k # "publish" /\ ~s.internal

\* WindowCallsCaptured and CapturesOnlyInWindow for one thread; a thread waits
\* for a capture only in a window.
Served(t) ==
    /\ states[t].fgraph_waiting \/ capture = t => InWindow(t)
    /\ Due(phase[t], kind[t], depth[t], states[t]) => capture = t \/ t \in skipped

ServeInv == \A t \in Tid : Served(t)

\* A step that starts no call of u and changes nothing the loop knows of it.
LEMMA KeptServed ==
    ASSUME NEW u \in Tid, Served(u),
           states'[u] = states[u], depth'[u] = depth[u],
           kind'[u] = "publish" <=> kind[u] = "publish",
           capture' = u <=> capture = u,
           u \in skipped => u \in skipped',
           phase'[u] \in {"kernel", "cloned", "exit"} => phase[u] \in {"kernel", "cloned", "exit"}
    PROVE  Served(u)'
BY DEF Served, InWindow, Due

\* A thread outside any call, which the loop has nothing of.
LEMMA IdleServed ==
    ASSUME NEW u \in Tid, ~states'[u].fgraph_waiting, capture' # u,
           phase'[u] \notin {"kernel", "cloned", "exit"}
    PROVE  Served(u)'
BY DEF Served, Due

\* A thread that is not active is neither waiting nor capturing.
LEMMA InactiveIdle ==
    ASSUME IInv, CallInv, NEW t \in Tid, ~states[t].active, phase[t] \in {"user", "entry"}
    PROVE  capture # t
BY DEF IInv, CaptureMatchesState

\* Every step of a thread keeps the calls in windows served.
LEMMA ThreadServed ==
    ASSUME IInv, CallInv, ServeInv, NEW t \in Tid,
           \/ \E k \in Calls : EnterSyscall(t, k)
           \/ EnterWindow(t) \/ ExitWindow(t)
           \/ Run(t) \/ Signal(t) \/ Kill(t)
    PROVE  ServeInv'
<1> USE DEF tracerVars
<1>0. /\ phase \in [Tid -> Phases] /\ kind \in [Tid -> CallKinds \cup {"publish"}]
      /\ depth \in [Tid -> 0..MaxDepth]
      /\ InStep(phase[t], states[t], t \in seen)
      /\ \A u \in Tid : Served(u)
  BY DEF IInv, TypeOK, CallInv, ServeInv
<1>0a. UNCHANGED <<states, capture, skipped>>
  BY DEF EnterSyscall, EnterWindow, ExitWindow, Run, RunPublish, RunWork, RunClone,
     RunCloneFails, RunQuit, Signal, Kill
<1>1. CASE \/ \E k \in Calls : EnterSyscall(t, k)
           \/ EnterWindow(t) \/ ExitWindow(t)
  <2>1. /\ phase[t] = "user" /\ phase' = [phase EXCEPT ![t] = "entry"]
        /\ \E k : kind' = [kind EXCEPT ![t] = k]
        /\ depth' = depth \/ \E d : depth' = [depth EXCEPT ![t] = d]
    BY <1>1 DEF EnterSyscall, EnterWindow, ExitWindow, MayEnter
  <2>2. /\ phase'[t] = "entry"
        /\ \A u \in Tid \ {t} : phase'[u] = phase[u] /\ kind'[u] = kind[u]
                                 /\ depth'[u] = depth[u]
    BY <1>0, <2>1
  <2>3. ~states[t].active /\ ~states[t].fgraph_waiting /\ capture # t
    BY <1>0, <2>1, InactiveIdle DEF InStep
  <2>4. Served(t)'
    BY <1>0a, <2>2, <2>3, IdleServed
  <2>5. \A u \in Tid \ {t} : Served(u)'
    BY <1>0, <1>0a, <2>2, KeptServed
  <2> QED
    BY <2>4, <2>5 DEF ServeInv
<1>2. CASE RunPublish(t) \/ RunWork(t) \/ RunCloneFails(t) \/ RunQuit(t)
  <2>1. /\ phase[t] = "kernel"
        /\ \E p \in {"exit", "dying"} : phase' = [phase EXCEPT ![t] = p]
        /\ depth' = depth
        /\ \A u \in Tid : kind'[u] = "publish" <=> kind[u] = "publish"
    BY <1>2 DEF RunPublish, RunWork, RunCloneFails, RunQuit
  <2>2. \A u \in Tid : phase'[u] \in {"kernel", "cloned", "exit"} =>
                        phase[u] \in {"kernel", "cloned", "exit"}
    BY <1>0, <2>1
  <2> QED
    BY <1>0, <1>0a, <2>1, <2>2, KeptServed DEF ServeInv
<1>3. CASE RunClone(t)
  <2>1. PICK u \in Tid :
          /\ phase[u] = "none"
          /\ phase' = [phase EXCEPT ![t] = "cloned", ![u] = "newborn"]
          /\ \E d : depth' = [depth EXCEPT ![u] = d]
    BY <1>3 DEF RunClone
  <2>2. phase[t] = "kernel" /\ kind[t] = "clone" /\ kind' = [kind EXCEPT ![t] = "work"]
    BY <1>3 DEF RunClone
  <2>3. /\ phase'[u] = "newborn"
        /\ \A v \in Tid \ {u} : depth'[v] = depth[v]
        /\ \A v \in Tid \ {u} : kind'[v] = "publish" <=> kind[v] = "publish"
        /\ \A v \in Tid \ {u} : phase'[v] \in {"kernel", "cloned", "exit"} =>
                                   phase[v] \in {"kernel", "cloned", "exit"}
    BY <1>0, <2>1, <2>2
  <2>4. states[u] = DefaultState /\ capture # u
    BY <2>1 DEF IInv, NothingLeftOfTheDead
  <2>5. Served(u)'
    <3>1. ~states'[u].fgraph_waiting
      BY <1>0a, <2>4 DEF DefaultState
    <3> QED
      BY <1>0a, <2>3, <2>4, <3>1, IdleServed
  <2>6. ASSUME NEW v \in Tid \ {u} PROVE Served(v)'
    <3>1. /\ Served(v) /\ states'[v] = states[v] /\ depth'[v] = depth[v]
          /\ (capture' = v <=> capture = v) /\ (v \in skipped => v \in skipped')
      BY <1>0, <1>0a, <2>3
    <3>2. /\ kind'[v] = "publish" <=> kind[v] = "publish"
          /\ phase'[v] \in {"kernel", "cloned", "exit"} =>
               phase[v] \in {"kernel", "cloned", "exit"}
      BY <2>3
    <3> QED
      BY <3>1, <3>2, KeptServed
  <2> QED
    BY <2>5, <2>6 DEF ServeInv
<1>4. CASE Signal(t) \/ Kill(t)
  <2>1. /\ \A u \in Tid : phase'[u] \in {phase[u], "signal", "dying", "zombie"}
        /\ kind' = kind /\ depth' = depth
    BY <1>0, <1>4 DEF Signal, Kill, KillGroup
  <2> QED
    BY <1>0, <1>0a, <2>1, KeptServed DEF ServeInv
<1> QED
  BY <1>1, <1>2, <1>3, <1>4 DEF Run

\* maybe_resume_waiting_fgraph_tid: a thread it resumes without a capture was
\* not in a window any more, or begin_capture failed for it.
LEMMA ReleaseServed ==
    ASSUME NEW q \in Seq(Tid), NEW st \in [Tid -> SyscallState],
           NEW ph \in [Tid -> Phases], NEW win \in [Tid -> Nat],
           NEW others \in SUBSET Tid,
           ReleaseWaiting(q, st, ph, win, others),
           NEW u \in Tid \ others,
           depth'[u] = depth[u], kind'[u] = kind[u],
           st[u].fgraph_waiting => InWindow(u) /\ ph[u] \in {"entry", "dying", "zombie"},
           Due(ph[u], kind[u], depth[u], st[u]) => u \in skipped,
           ph[u] = "entry" /\ kind[u] # "publish" => win[u] = depth[u]
    PROVE  Served(u)'
<1>0. PICK popped \in SUBSET Tid, next \in Tid \cup {NoTid} :
        Released(popped, next, st, ph, win, others)
  BY ReleaseEffect
<1>0a. st[u] \in SyscallState
  OBVIOUS
<1>0b. InWindow(u)' <=> InWindow(u)
  BY DEF InWindow
<1>1. CASE u \in popped
  <2>1. /\ st[u].active /\ st[u].fgraph_waiting
        /\ states'[u] = [st[u] EXCEPT !.fgraph_waiting = FALSE,
                                      !.fgraph_capturing = (u = next)]
        /\ phase'[u] = Resumed(ph[u])
        /\ capture' = next
        /\ ShouldCapture(u, st[u].internal, win) => u = next \/ u \in skipped'
    BY <1>0, <1>1 DEF Released, Resume
  <2>2. states'[u].internal = st[u].internal /\ ~states'[u].fgraph_waiting
    BY <1>0a, <2>1 DEF SyscallState
  <2>3. InWindow(u)'
    BY <1>0b, <2>1
  <2>4. ASSUME Due(phase'[u], kind'[u], depth'[u], states'[u])
        PROVE  capture' = u \/ u \in skipped'
    <3>1. ph[u] = "entry"
      BY <2>1, <2>4 DEF Resumed, Due
    <3>2. ShouldCapture(u, st[u].internal, win)
      BY <2>2, <2>4, <3>1 DEF ShouldCapture, Due
    <3> QED
      BY <2>1, <3>2
  <2> QED
    BY <2>2, <2>3, <2>4 DEF Served
<1>2. CASE u \notin popped
  <2>1. /\ states'[u] = st[u]
        /\ phase'[u] = ph[u]
        /\ capture' # u
        /\ u \in skipped => u \in skipped'
    <3>1. states'[u] = st[u] /\ Resume(ph, popped \cup others)
      BY <1>0, <1>2 DEF Released
    <3>2. phase'[u] = ph[u]
      BY <1>2, <3>1 DEF Resume
    <3>3. u # next /\ capture' = next
      <4>1. capture' = next /\ next \in popped \cup {NoTid}
        BY <1>0 DEF Released
      <4> QED
        BY <1>2, <4>1, TidAssumption
    <3>4. u \in skipped => u \in skipped'
      BY <1>0, <3>3 DEF Released
    <3> QED
      BY <3>1, <3>2, <3>3, <3>4
  <2>2. ASSUME Due(phase'[u], kind'[u], depth'[u], states'[u]) PROVE u \in skipped'
    BY <2>1, <2>2
  <2> QED
    BY <1>0b, <2>1, <2>2 DEF Served
<1> QED
  BY <1>1, <1>2

\* Every iteration of the loop keeps the calls in windows served.
LEMMA TracerServed ==
    ASSUME IInv, CallInv, DepthInv, ServeInv, NEW t \in Tid, Handle(t)
    PROVE  ServeInv'
<1>0. /\ phase \in [Tid -> Phases] /\ kind \in [Tid -> CallKinds \cup {"publish"}]
      /\ depth \in [Tid -> 0..MaxDepth] /\ queue \in Seq(Tid)
      /\ child \in [Tid -> Tid]
      /\ states \in [Tid -> SyscallState] /\ states[t] \in SyscallState
      /\ Drained \in [Tid -> Nat]
  BY DrainFacts DEF IInv, TypeOK
<1>0a. \A u \in Tid : /\ Served(u)
                      /\ Knows(phase[u], kind[u], depth[u], Drained[u])
                      /\ InStep(phase[u], states[u], u \in seen)
  BY DEF ServeInv, DepthInv, CallInv
<1>0b. \A u \in Tid : ~states[u].active => capture # u
  BY DEF IInv, CaptureMatchesState
<1>0c. ASSUME Resume(phase, {t})
       PROVE  phase'[t] = Resumed(phase[t]) /\ \A u \in Tid \ {t} : phase'[u] = phase[u]
  BY <1>0c DEF Resume
<1>1. CASE HandleEntryPlain(t)
  <2>1. PICK i \in BOOLEAN : /\ ~ShouldCapture(t, i, Drained)
                             /\ states' = [states EXCEPT ![t] = EntryState(i, FALSE, FALSE)]
    BY <1>1 DEF HandleEntryPlain
  <2>2. /\ phase[t] = "entry" /\ ~states[t].active /\ Resume(phase, {t})
        /\ kind' = kind /\ depth' = depth /\ capture' = capture /\ skipped' = skipped \ {t}
    BY <1>1, StopIsTold DEF HandleEntryPlain
  <2>3. /\ states'[t] = EntryState(i, FALSE, FALSE)
        /\ \A u \in Tid \ {t} : states'[u] = states[u]
    BY <1>0, <2>1
  <2>4. Served(t)'
    <3>1. capture' # t /\ ~states'[t].fgraph_waiting
      BY <1>0b, <2>2, <2>3 DEF EntryState
    <3>2. ~Due(phase'[t], kind'[t], depth'[t], states'[t])
      BY <1>0, <1>0a, <2>1, <2>2, <2>3 DEF Due, Knows, ShouldCapture, EntryState
    <3> QED
      BY <3>1, <3>2 DEF Served
  <2>5. \A u \in Tid \ {t} : Served(u)'
    BY <1>0a, <1>0c, <2>2, <2>3, KeptServed
  <2> QED
    BY <2>4, <2>5 DEF ServeInv
<1>2. CASE HandleEntryBegin(t)
  <2>1. PICK started \in BOOLEAN :
          /\ BeginCapture(t, started)
          /\ states' = [states EXCEPT ![t] = EntryState(FALSE, FALSE, started)]
          /\ skipped' = IF started THEN skipped \ {t} ELSE skipped \cup {t}
    BY <1>2 DEF HandleEntryBegin
  <2>2. /\ phase[t] = "entry" /\ Resume(phase, {t}) /\ capture = NoTid
        /\ kind' = kind /\ depth' = depth /\ ShouldCapture(t, FALSE, Drained)
    BY <1>2, StopIsTold DEF HandleEntryBegin
  <2>3. /\ states'[t] = EntryState(FALSE, FALSE, started)
        /\ \A u \in Tid \ {t} : states'[u] = states[u]
    BY <1>0, <2>1
  <2>4. capture' = t \/ t \in skipped'
    BY <2>1 DEF BeginCapture
  <2>5. InWindow(t)'
    BY <1>0, <1>0a, <2>2 DEF InWindow, Knows, ShouldCapture
  <2>6. Served(t)'
    BY <2>3, <2>4, <2>5 DEF Served, EntryState
  <2>7. \A u \in Tid \ {t} : /\ (capture' = u <=> capture = u)
                             /\ (u \in skipped => u \in skipped')
    BY <2>1, <2>2, TidAssumption DEF BeginCapture
  <2>8. \A u \in Tid \ {t} : Served(u)'
    BY <1>0a, <1>0c, <2>2, <2>3, <2>7, KeptServed
  <2> QED
    BY <2>6, <2>8 DEF ServeInv
<1>3. CASE HandleEntryHold(t)
  <2>1. /\ phase[t] = "entry" /\ phase' = phase /\ capture' = capture
        /\ kind' = kind /\ depth' = depth /\ ShouldCapture(t, FALSE, Drained)
        /\ states' = [states EXCEPT ![t] = EntryState(FALSE, TRUE, FALSE)]
        /\ skipped' = skipped \ {t}
    BY <1>3, StopIsTold DEF HandleEntryHold
  <2>2. \A u \in Tid \ {t} : states'[u] = states[u]
    BY <1>0, <2>1
  <2>3. InWindow(t)'
    BY <1>0, <1>0a, <2>1 DEF InWindow, Knows, ShouldCapture
  <2>4. Served(t)'
    BY <2>1, <2>3 DEF Served, Due
  <2>5. \A u \in Tid \ {t} : Served(u)'
    BY <1>0a, <2>1, <2>2, KeptServed
  <2> QED
    BY <2>4, <2>5 DEF ServeInv
<1>4. CASE HandleExitPlain(t)
  <2>1. /\ phase[t] = "exit" /\ Resume(phase, {t}) /\ ~states[t].fgraph_capturing
        /\ kind' = kind /\ depth' = depth /\ capture' = capture /\ skipped' = skipped \ {t}
        /\ states' = [states EXCEPT ![t] = ExitState(states[t])]
    BY <1>0, <1>4, StopIsTold DEF HandleExitPlain
  <2>2. /\ states'[t] = ExitState(states[t])
        /\ \A u \in Tid \ {t} : states'[u] = states[u]
    BY <1>0, <2>1
  <2>3. Served(t)'
    <3>1. phase'[t] = "user"
      BY <1>0c, <2>1 DEF Resumed
    <3>2. ~states'[t].fgraph_waiting
      BY <1>0, <2>2 DEF ExitState, SyscallState
    <3>3. capture' # t
      BY <2>1 DEF IInv, CaptureMatchesState
    <3> QED
      BY <3>1, <3>2, <3>3, IdleServed
  <2>4. \A u \in Tid \ {t} : Served(u)'
    BY <1>0a, <1>0c, <2>1, <2>2, KeptServed
  <2> QED
    BY <2>3, <2>4 DEF ServeInv
<1>5. CASE HandleExitCaptured(t)
  <2> DEFINE st == [states EXCEPT ![t] = ExitState(states[t])]
  <2>1. /\ phase[t] = "exit" /\ states[t].fgraph_capturing
        /\ ReleaseWaiting(queue, st, phase, Drained, {t})
        /\ kind' = kind /\ depth' = depth
    BY <1>0, <1>5, StopIsTold DEF HandleExitCaptured
  <2>2. /\ st \in [Tid -> SyscallState] /\ {t} \in SUBSET Tid
        /\ st[t] = ExitState(states[t]) /\ \A u \in Tid \ {t} : st[u] = states[u]
    BY <1>0 DEF ExitState, SyscallState
  <2>3. ~st[t].fgraph_waiting
    BY <1>0, <2>2 DEF ExitState, SyscallState
  <2> HIDE DEF st
  <2>4. capture = t
    BY <2>1 DEF IInv, CaptureMatchesState
  <2>5. Served(t)'
    <3>1. PICK popped \in SUBSET Tid, next \in Tid \cup {NoTid} :
            Released(popped, next, st, phase, Drained, {t})
      BY <1>0, <2>1, <2>2, ReleaseEffect
    <3>2. t \notin popped
      BY <2>3, <3>1 DEF Released
    <3>3. states'[t] = st[t] /\ capture' # t /\ phase'[t] = Resumed(phase[t])
      BY <3>1, <3>2, TidAssumption DEF Released, Resume
    <3>4. phase'[t] = "user"
      BY <2>1, <3>3 DEF Resumed
    <3> QED
      BY <2>3, <3>3, <3>4, IdleServed
  <2>6. ASSUME NEW u \in Tid \ {t} PROVE Served(u)'
    <3>1. Served(u) /\ Knows(phase[u], kind[u], depth[u], Drained[u])
          /\ InStep(phase[u], states[u], u \in seen) /\ st[u] = states[u]
      BY <1>0a, <2>2
    <3>2. st[u].fgraph_waiting => InWindow(u) /\ phase[u] \in {"entry", "dying", "zombie"}
      BY <3>1 DEF Served, InStep
    <3>3. Due(phase[u], kind[u], depth[u], st[u]) => u \in skipped
      BY <2>4, <3>1 DEF Served
    <3>4. phase[u] = "entry" /\ kind[u] # "publish" => Drained[u] = depth[u]
      BY <3>1 DEF Knows
    <3> QED
      BY <1>0, <2>1, <2>2, <3>2, <3>3, <3>4, ReleaseServed
  <2> QED
    BY <2>5, <2>6 DEF ServeInv
<1>6. CASE HandleVanished(t)
  <2>1. /\ \A u \in Tid : phase'[u] \in {phase[u], "dying", "zombie"}
        /\ UNCHANGED <<kind, depth, states, capture, skipped>>
    BY <1>6 DEF HandleVanished, KillGroup
  <2> QED
    BY <1>0a, <2>1, KeptServed DEF ServeInv
<1>7. CASE HandleClone(t) \/ HandleOther(t)
  <2>1. UNCHANGED <<kind, depth, states, capture, skipped>>
    BY <1>7 DEF HandleClone, HandleOther
  <2>2. \A u \in Tid : phase'[u] \in {"kernel", "cloned", "exit"} =>
                        phase[u] \in {"kernel", "cloned", "exit"}
    <3>1. CASE HandleClone(t)
      <4>1. phase[t] = "cloned" /\ Resume(phase, {child[t], t})
        BY <3>1 DEF HandleClone, WaitPid
      <4>2. phase[child[t]] \in Outside
        BY <4>1 DEF CallInv, AnnouncedLater
      <4>3. /\ \A u \in Tid \ {child[t], t} : phase'[u] = phase[u]
            /\ phase'[child[t]] = Resumed(phase[child[t]])
        BY <1>0, <4>1 DEF Resume
      <4>4. phase'[child[t]] \notin {"kernel", "cloned", "exit"}
        BY <4>2, <4>3 DEF Outside, Resumed
      <4> QED
        BY <4>1, <4>3, <4>4
    <3>2. CASE HandleOther(t)
      <4>1. phase[t] \in {"newborn", "signal", "dying"} /\ Resume(phase, {t})
        BY <3>2 DEF HandleOther, WaitPid
      <4> QED
        BY <1>0c, <4>1 DEF Resumed
    <3> QED
      BY <1>7, <3>1, <3>2
  <2> QED
    BY <1>0a, <2>1, <2>2, KeptServed DEF ServeInv
<1>8. CASE HandleGone(t)
  <2> DEFINE q == Forget(t, queue)
             st == [states EXCEPT ![t] = DefaultState]
             ph == [phase EXCEPT ![t] = "none"]
             win == [Drained EXCEPT ![t] = 0]
  <2>1. /\ kind' = [kind EXCEPT ![t] = "work"] /\ depth' = [depth EXCEPT ![t] = 0]
        /\ \/ /\ capture \in {t, NoTid}
              /\ ReleaseWaiting(q, st, ph, win, {})
           \/ /\ capture \notin {t, NoTid}
              /\ states' = st /\ phase' = ph
              /\ skipped' = skipped \ {t} /\ capture' = capture
    BY <1>8 DEF HandleGone
  <2>2. q \in Seq(Tid)
    BY <1>0, ForgetFacts DEF IInv, QueueHasNoDuplicates, NoDuplicates
  <2>3. /\ st \in [Tid -> SyscallState] /\ ph \in [Tid -> Phases] /\ win \in [Tid -> Nat]
        /\ st[t] = DefaultState /\ \A u \in Tid \ {t} : st[u] = states[u]
        /\ ph[t] = "none" /\ \A u \in Tid \ {t} : ph[u] = phase[u]
        /\ \A u \in Tid \ {t} : win[u] = Drained[u]
        /\ {} \in SUBSET Tid
    BY <1>0 DEF DefaultState, SyscallState, Phases
  <2>4. \A u \in Tid \ {t} : kind'[u] = kind[u] /\ depth'[u] = depth[u]
    BY <1>0, <2>1
  <2> HIDE DEF q, st, ph, win
  <2>5. ~st[t].fgraph_waiting
    BY <2>3 DEF DefaultState
  <2>6. CASE capture \in {t, NoTid}
    <3>0. ReleaseWaiting(q, st, ph, win, {})
      BY <2>1, <2>6
    <3>1. Served(t)'
      <4>1. PICK popped \in SUBSET Tid, next \in Tid \cup {NoTid} :
              Released(popped, next, st, ph, win, {})
        BY <2>2, <2>3, <3>0, ReleaseEffect
      <4>2. t \notin popped
        BY <2>5, <4>1 DEF Released
      <4>3. states'[t] = st[t] /\ capture' # t /\ phase'[t] = ph[t]
        BY <4>1, <4>2, TidAssumption DEF Released, Resume
      <4> QED
        BY <2>3, <2>5, <4>3, IdleServed
    <3>2. ASSUME NEW u \in Tid \ {t} PROVE Served(u)'
      <4>1. /\ Served(u) /\ Knows(phase[u], kind[u], depth[u], Drained[u])
            /\ InStep(phase[u], states[u], u \in seen) /\ st[u] = states[u]
            /\ ph[u] = phase[u] /\ win[u] = Drained[u]
        BY <1>0a, <2>3
      <4>2. st[u].fgraph_waiting => InWindow(u) /\ ph[u] \in {"entry", "dying", "zombie"}
        BY <4>1 DEF Served, InStep
      <4>3. Due(ph[u], kind[u], depth[u], st[u]) => u \in skipped
        BY <2>6, <4>1, TidAssumption DEF Served
      <4>4. ph[u] = "entry" /\ kind[u] # "publish" => win[u] = depth[u]
        BY <4>1 DEF Knows
      <4>5. u \in Tid \ {}
        OBVIOUS
      <4> QED
        BY <2>2, <2>3, <2>4, <3>0, <4>2, <4>3, <4>4, <4>5, ReleaseServed
    <3> QED
      BY <3>1, <3>2 DEF ServeInv
  <2>7. CASE capture \notin {t, NoTid}
    <3>0. states' = st /\ phase' = ph /\ skipped' = skipped \ {t} /\ capture' = capture
      BY <2>1, <2>7
    <3>1. Served(t)'
      BY <2>3, <2>5, <2>7, <3>0, IdleServed
    <3>2. \A u \in Tid \ {t} : Served(u)'
      BY <1>0a, <2>3, <2>4, <3>0, KeptServed
    <3> QED
      BY <3>1, <3>2 DEF ServeInv
  <2> QED
    BY <2>6, <2>7
<1> QED
  BY <1>1, <1>2, <1>3, <1>4, <1>5, <1>6, <1>7, <1>8 DEF Handle

-----------------------------------------------------------------------------
(* The theorems about windows.                                              *)

\* At ready nobody has opened a window.
LEMMA InitDepth == Init => DepthInv /\ ServeInv
<1> SUFFICES ASSUME Init PROVE DepthInv /\ ServeInv
  OBVIOUS
<1>1. \A t \in Tid : Drained[t] = 0
  BY DEF Init, Drained
<1>2. DepthInv
  BY <1>1 DEF Init, DepthInv, Knows
<1>3. ServeInv
  BY TidAssumption DEF Init, ServeInv, Served, Due, DefaultState
<1> QED
  BY <1>2, <1>3

\* Every step keeps the depths known.
LEMMA StepDepth ==
    ASSUME SingleProcess, PipeHasRoom
    PROVE  IInv /\ IInv' /\ DepthInv /\ [Next]_vars => DepthInv'
<1> SUFFICES ASSUME IInv, IInv', DepthInv, [Next]_vars PROVE DepthInv'
  OBVIOUS
<1>1. ASSUME UNCHANGED <<phase, kind, depth, pipe, window>> PROVE DepthInv'
  BY <1>1 DEF DepthInv, Drained
<1>2. ASSUME NEW t \in Tid, Handle(t) PROVE DepthInv'
  BY <1>2, TracerDepth
<1>3. ASSUME NEW t \in Tid,
             \/ \E k \in Calls : EnterSyscall(t, k)
             \/ EnterWindow(t) \/ ExitWindow(t)
             \/ Run(t) \/ Signal(t) \/ Kill(t)
      PROVE DepthInv'
  BY <1>3, ThreadDepth
<1>4. HandleNoChild \/ UNCHANGED vars => UNCHANGED <<phase, kind, depth, pipe, window>>
  BY DEF HandleNoChild, vars, kernelVars, tracerVars
<1> QED
  BY <1>1, <1>2, <1>3, <1>4 DEF Next, Terminated

\* Every step keeps the calls in windows served.
LEMMA StepServed ==
    IInv /\ CallInv /\ DepthInv /\ ServeInv /\ [Next]_vars => ServeInv'
<1> SUFFICES ASSUME IInv, CallInv, DepthInv, ServeInv, [Next]_vars PROVE ServeInv'
  OBVIOUS
<1>1. ASSUME UNCHANGED vars PROVE ServeInv'
  BY <1>1 DEF vars, kernelVars, tracerVars, ServeInv, Served, InWindow
<1>2. ASSUME HandleNoChild PROVE ServeInv'
  <2>1. /\ \A t \in Tid : phase'[t] = "none" /\ phase[t] = "none"
        /\ capture' = NoTid /\ states' = states
    BY <1>2 DEF HandleNoChild, kernelVars
  <2>2. \A t \in Tid : ~states'[t].fgraph_waiting /\ capture' # t
    BY <2>1, TidAssumption DEF IInv, NothingLeftOfTheDead, DefaultState
  <2> QED
    BY <2>1, <2>2, IdleServed DEF ServeInv
<1>3. ASSUME NEW t \in Tid, Handle(t) PROVE ServeInv'
  BY <1>3, TracerServed
<1>4. ASSUME NEW t \in Tid,
             \/ \E k \in Calls : EnterSyscall(t, k)
             \/ EnterWindow(t) \/ ExitWindow(t)
             \/ Run(t) \/ Signal(t) \/ Kill(t)
      PROVE ServeInv'
  BY <1>4, ThreadServed
<1> QED
  BY <1>1, <1>2, <1>3, <1>4 DEF Next, Terminated

\* The depths the loop decides with are the threads' own, however many threads
\* there are and in whatever order their stops are reported, if the pipe has
\* room for a message of each and none of them forks.
THEOREM WindowsKnown ==
    ASSUME SingleProcess, PipeHasRoom
    PROVE  Spec => []WindowUpToDate
<1>1. DepthInv => WindowUpToDate
  BY DEF DepthInv, WindowUpToDate, Knows
<1>2. IInv /\ IInv' /\ DepthInv /\ [Next]_vars => DepthInv'
  BY StepDepth
<1>3. Init => DepthInv
  BY InitDepth
<1> QED
  BY <1>1, <1>2, <1>3, Invariance, PTL DEF Spec

\* The four invariants together.
LEMMA ServedAlways ==
    ASSUME SingleProcess, PipeHasRoom, PromptCloneEvents
    PROVE  Spec => []ServeInv
<1>1. IInv /\ IInv' /\ DepthInv /\ [Next]_vars => DepthInv'
  BY StepDepth
<1>2. IInv /\ CallInv /\ [Next]_vars => CallInv'
  BY StepCall
<1>3. IInv /\ CallInv /\ DepthInv /\ ServeInv /\ [Next]_vars => ServeInv'
  BY StepServed
<1>4. Init => DepthInv /\ ServeInv
  BY InitDepth
<1> QED
  BY <1>1, <1>2, <1>3, <1>4, InitCall, Invariance, PTL DEF Spec

\* No call of a window is missed: it runs under its own capture unless
\* begin_capture failed for it or it was classified as internal.
THEOREM NoWindowCallMissed ==
    ASSUME SingleProcess, PipeHasRoom, PromptCloneEvents
    PROVE  Spec => []WindowCallsCaptured
<1>1. ServeInv => WindowCallsCaptured
  BY DEF ServeInv, Served, Due, WindowCallsCaptured
<1> QED
  BY <1>1, ServedAlways, PTL

\* No call outside a window is captured, save the write that publishes its end.
THEOREM NoCaptureOutside ==
    ASSUME SingleProcess, PipeHasRoom, PromptCloneEvents
    PROVE  Spec => []CapturesOnlyInWindow
<1>1. IInv /\ ServeInv => CapturesOnlyInWindow
  BY DEF IInv, TypeOK, ServeInv, Served, InWindow, CapturesOnlyInWindow
<1> QED
  BY <1>1, ServedAlways, Invariance, PTL

-----------------------------------------------------------------------------
(* PtraceExec: what the loop keeps right even when execve makes thread ids   *)
(* vanish without a report and change hands.                                *)
(*                                                                          *)
(* NothingLeftOfTheDead is false here (the id of a thread that executes     *)
(* vanishes with its state), so the inductive invariant of                  *)
(* PtraceLoopProofs is of no use.  ExecInv is what survives: a stale id     *)
(* keeps its state and its capture together.                                *)


ExecInv ==
    /\ TypeOK
    /\ OneCaptureAcrossExec
    /\ HeldIsQueued
    /\ QueueHasNoDuplicates

-----------------------------------------------------------------------------
(* Steps of the traced threads.                                             *)

\* A thread in user mode, in the kernel or dead is not held.
LEMMA NotHeld ==
    ASSUME ExecInv, NEW t, phase[t] \notin SyscallStops
    PROVE  t \notin seen
BY DEF ExecInv, HeldIsQueued

\* A step that leaves the loop's locals alone and moves no thread that is held.
LEMMA ThreadExecStep ==
    ASSUME ExecInv, TypeOK', UNCHANGED <<states, capture, queue, running>>,
           seen' \subseteq seen,
           \A u \in seen' : phase'[u] = phase[u]
    PROVE  ExecInv'
<1>1. OneCaptureAcrossExec'
  BY DEF ExecInv, OneCaptureAcrossExec, CaptureMatchesState
<1>2. HeldIsQueued' /\ QueueHasNoDuplicates'
  BY DEF ExecInv, HeldIsQueued, QueueHasNoDuplicates, Elems
<1> QED
  BY <1>1, <1>2 DEF ExecInv

\* The steps of PtraceLoop that a thread takes keep every variable in its type.
LEMMA ThreadTypes ==
    ASSUME TypeOK, NEW t \in Tid,
           \/ \E k \in Calls : EnterSyscall(t, k)
           \/ EnterWindow(t) \/ ExitWindow(t)
           \/ Run(t) \/ Signal(t) \/ Kill(t)
    PROVE  TypeOK'
<1> USE DEF tracerVars
<1>0. current_tid(t) \in Tid
  BY DEF current_tid, TypeOK
<1>1. ASSUME NEW k \in Calls, EnterSyscall(t, k) PROVE TypeOK'
  BY <1>1, CallsAssumption DEF EnterSyscall, TypeOK, Phases, Stops, SyscallStops
<1>2. CASE EnterWindow(t)
  <2>1. depth[t] + 1 \in 0..MaxDepth
    BY <1>2, BoundAssumption DEF EnterWindow, TypeOK
  <2> QED
    BY <1>0, <1>2, <2>1 DEF EnterWindow, TypeOK, Phases, Stops, SyscallStops
<1>3. CASE ExitWindow(t)
  <2>1. depth[t] - 1 \in 0..MaxDepth
    BY <1>3, BoundAssumption DEF ExitWindow, TypeOK
  <2> QED
    BY <1>0, <1>3, <2>1 DEF ExitWindow, TypeOK, Phases, Stops, SyscallStops
<1>4. CASE RunPublish(t)
  <2> DEFINE msg == [tid |-> current_tid(t), depth |-> depth[t], from |-> t]
  <2>1. msg \in Update
    BY <1>0, BoundAssumption DEF TypeOK, Update
  <2>2. pipe' = pipe \/ pipe' = Append(pipe, msg)
    BY <1>4 DEF RunPublish
  <2> HIDE DEF msg
  <2>3. pipe' \in Seq(Update)
    <3>1. pipe \in Seq(Update)
      BY DEF TypeOK
    <3>2. Append(pipe, msg) \in Seq(Update)
      BY <2>1, <3>1, AppendProperties
    <3> QED
      BY <2>2, <3>1, <3>2
  <2> QED
    BY <1>4, <2>3 DEF RunPublish, TypeOK, Phases, Stops, SyscallStops
<1>5. CASE RunWork(t) \/ RunCloneFails(t) \/ RunQuit(t) \/ Signal(t)
  BY <1>5 DEF RunWork, RunCloneFails, RunQuit, Signal, TypeOK, Phases, Stops,
     SyscallStops, CallKinds
<1>6. CASE RunClone(t)
  <2>1. PICK u \in Tid, o \in Tid :
          /\ phase' = [phase EXCEPT ![t] = "cloned", ![u] = "newborn"]
          /\ child' = [child EXCEPT ![t] = u]
          /\ depth' = [depth EXCEPT ![u] = depth[o]]
          /\ cached' = [cached EXCEPT ![u] = cached[o]]
    BY <1>6 DEF RunClone
  <2>2. /\ depth' \in [Tid -> 0..MaxDepth]
        /\ cached' \in [Tid -> Tid \cup {NoTid}]
    <3>1. depth[o] \in 0..MaxDepth /\ cached[o] \in Tid \cup {NoTid}
      BY DEF TypeOK
    <3> QED
      BY <2>1, <3>1 DEF TypeOK
  <2> QED
    BY <1>6, <2>1, <2>2 DEF RunClone, TypeOK, Phases, Stops, SyscallStops, CallKinds
<1>7. CASE Kill(t)
  <2>1. PICK last \in {"dying", "zombie"} :
          phase' = [u \in Tid |-> IF u \in Killed(t) THEN last ELSE phase[u]]
    BY <1>7 DEF Kill, KillGroup
  <2>2. seen' = seen \ Killed(t)
    BY <1>7 DEF Kill, KillGroup
  <2> QED
    BY <1>7, <2>1, <2>2 DEF Kill, TypeOK, Phases, Stops
<1> QED
  BY <1>1, <1>2, <1>3, <1>4, <1>5, <1>6, <1>7 DEF Run

\* They preserve the invariant.
LEMMA ThreadExec ==
    ASSUME ExecInv, NEW t \in Tid,
           \/ \E k \in Calls : EnterSyscall(t, k)
           \/ EnterWindow(t) \/ ExitWindow(t)
           \/ Run(t) \/ Signal(t) \/ Kill(t)
    PROVE  ExecInv'
<1> USE DEF tracerVars
<1>0. TypeOK /\ TypeOK'
  BY ThreadTypes DEF ExecInv
<1>1. UNCHANGED <<states, capture, queue, running>>
  BY DEF EnterSyscall, EnterWindow, ExitWindow, Run, RunPublish, RunWork, RunClone,
     RunCloneFails, RunQuit, Signal, Kill
<1>2. seen' \subseteq seen /\ \A u \in seen' : phase'[u] = phase[u]
  <2>1. CASE Kill(t)
    BY <1>0, <2>1 DEF Kill, KillGroup, TypeOK
  <2>2. CASE RunClone(t)
    <3>1. PICK u \in Tid : /\ phase[u] = "none"
                           /\ phase' = [phase EXCEPT ![t] = "cloned", ![u] = "newborn"]
      BY <2>2 DEF RunClone
    <3>2. t \notin seen /\ u \notin seen
      BY <2>2, <3>1, NotHeld DEF RunClone, SyscallStops
    <3>3. seen' = seen
      BY <2>2 DEF RunClone
    <3> QED
      BY <1>0, <3>1, <3>2, <3>3 DEF TypeOK
  <2>3. CASE ~Kill(t) /\ ~RunClone(t)
    <3>1. /\ phase[t] \in {"user", "kernel"} /\ seen' = seen
          /\ \E p : phase' = [phase EXCEPT ![t] = p]
      BY <2>3 DEF EnterSyscall, EnterWindow, ExitWindow, MayEnter, Run, RunPublish,
         RunWork, RunCloneFails, RunQuit, Signal
    <3>2. t \notin seen
      BY <3>1, NotHeld DEF SyscallStops
    <3> QED
      BY <1>0, <3>1, <3>2 DEF TypeOK
  <2> QED
    BY <2>1, <2>2, <2>3
<1> QED
  BY <1>0, <1>1, <1>2, ThreadExecStep

\* execve kills the other threads of the process, and then puts the caller in
\* the place of the leader; neither was held.
LEMMA ExecCalls ==
    ASSUME ExecInv, NEW t \in Tid, RunExec(t) \/ RunExecDone(t)
    PROVE  ExecInv'
<1> USE DEF tracerVars
<1>0. TypeOK /\ ProcOf[t] \in Tid
  BY ProcAssumption DEF ExecInv
<1>1. CASE RunExec(t)
  <2> DEFINE rest == Killed(ProcOf[t]) \ {t}
  <2>1. /\ \E last \in {"dying", "zombie"} :
             phase' = [u \in Tid |-> IF u \in rest THEN last ELSE phase[u]]
        /\ seen' = seen \ rest
        /\ UNCHANGED <<kind, child, depth, cached, pipe, tracerVars, skipped>>
    BY <1>1 DEF RunExec
  <2> HIDE DEF rest
  <2>2. TypeOK'
    BY <1>0, <2>1 DEF TypeOK, Phases, Stops
  <2>3. \A u \in seen' : phase'[u] = phase[u]
    BY <1>0, <2>1 DEF TypeOK
  <2> QED
    BY <2>1, <2>2, <2>3, ThreadExecStep
<1>2. CASE RunExecDone(t)
  <2> DEFINE leader == ProcOf[t]
  <2>1. /\ phase[t] = "kernel"
        /\ t # leader => phase[leader] = "zombie"
        /\ phase' = [phase EXCEPT ![t] = "none", ![leader] = "exec"]
        /\ kind' = [kind EXCEPT ![t] = "work", ![leader] = "work"]
        /\ child' = [child EXCEPT ![t] = t, ![leader] = leader]
        /\ depth' = [depth EXCEPT ![t] = 0, ![leader] = 0]
        /\ cached' = [cached EXCEPT ![t] = NoTid, ![leader] = NoTid]
        /\ UNCHANGED <<seen, pipe, tracerVars, skipped>>
    BY <1>2 DEF RunExecDone
  <2>2. leader \in Tid
    BY <1>0
  <2> HIDE DEF leader
  <2>3. TypeOK'
    <3>1. /\ phase' \in [Tid -> Phases]
          /\ kind' \in [Tid -> CallKinds \cup {"publish"}]
          /\ child' \in [Tid -> Tid]
      BY <1>0, <2>1, <2>2 DEF TypeOK, Phases, Stops, CallKinds
    <3>2. depth' \in [Tid -> 0..MaxDepth] /\ cached' \in [Tid -> Tid \cup {NoTid}]
      <4>1. 0 \in 0..MaxDepth
        BY BoundAssumption
      <4> QED
        BY <1>0, <2>1, <2>2, <4>1 DEF TypeOK
    <3> QED
      BY <1>0, <2>1, <3>1, <3>2 DEF TypeOK
  <2>4. t \notin seen /\ leader \notin seen
    BY <2>1, NotHeld DEF SyscallStops
  <2>5. \A u \in seen' : phase'[u] = phase[u]
    BY <1>0, <2>1, <2>4 DEF TypeOK
  <2> QED
    BY <2>1, <2>3, <2>5, ThreadExecStep
<1> QED
  BY <1>1, <1>2

-----------------------------------------------------------------------------
(* Steps of the tracer.                                                     *)

\* An iteration resumes some threads, changes the state of at most one thread t
\* that is not held, and may queue it.
LEMMA HandlerExecStep ==
    ASSUME ExecInv, running, TypeOK', NEW t \in Tid, t \notin seen,
           \A u \in Tid \ {t} : states'[u] = states[u],
           seen' \subseteq seen \cup {t},
           \A u \in seen' : phase'[u] = phase[u],
           Elems(queue) \subseteq Elems(queue'),
           t \in seen' => /\ phase[t] \in SyscallStops
                          /\ t \in Elems(queue')
                          /\ states'[t].active /\ states'[t].fgraph_waiting,
           CaptureMatchesState', QueueHasNoDuplicates'
    PROVE  ExecInv'
<1>0. seen \in SUBSET Tid
  BY DEF ExecInv, TypeOK
<1>1. ASSUME NEW u \in seen'
      PROVE  /\ phase'[u] \in SyscallStops
             /\ u \in Elems(queue')
             /\ states'[u].active /\ states'[u].fgraph_waiting
  <2>1. CASE u = t
    BY <2>1
  <2>2. CASE u # t
    <3>1. u \in seen /\ u \in Tid
      BY <1>0, <2>2
    <3>2. /\ phase[u] \in SyscallStops /\ u \in Elems(queue)
          /\ states[u].active /\ states[u].fgraph_waiting
      BY <3>1 DEF ExecInv, HeldIsQueued
    <3> QED
      BY <2>2, <3>1, <3>2
  <2> QED
    BY <2>1, <2>2
<1> QED
  BY <1>1 DEF ExecInv, HeldIsQueued, OneCaptureAcrossExec

\* An iteration that changes no state, capture or queue.
LEMMA QuietExecStep ==
    ASSUME ExecInv, running, TypeOK', UNCHANGED <<states, capture, queue>>,
           NEW t \in Tid, t \notin seen, seen' \subseteq seen,
           \A u \in seen' : phase'[u] = phase[u]
    PROVE  ExecInv'
<1>1. CaptureMatchesState' /\ QueueHasNoDuplicates'
  BY DEF ExecInv, OneCaptureAcrossExec, CaptureMatchesState, QueueHasNoDuplicates
<1>2. Elems(queue') = Elems(queue)
  OBVIOUS
<1> QED
  BY <1>1, <1>2, HandlerExecStep

\* Every iteration of the loop preserves the invariant.
LEMMA TracerExec ==
    ASSUME ExecInv, NEW t \in Tid, Handle(t) \/ HandleExec(t)
    PROVE  ExecInv'
<1>0. /\ TypeOK /\ HeldIsQueued
      /\ phase \in [Tid -> Phases] /\ states \in [Tid -> SyscallState]
      /\ states[t] \in SyscallState /\ queue \in Seq(Tid)
      /\ seen \in SUBSET Tid /\ skipped \in SUBSET Tid
      /\ Drained \in [Tid -> Nat] /\ <<>> \in Seq(Update)
      /\ NoDuplicates(queue)
  BY DrainFacts DEF ExecInv, TypeOK, QueueHasNoDuplicates, NoDuplicates
<1>0a. running /\ CaptureMatchesState
  <2>1. running
    BY DEF Handle, HandleEntryPlain, HandleEntryBegin, HandleEntryHold, HandleExitPlain,
       HandleExitCaptured, HandleVanished, HandleClone, HandleOther, HandleGone,
       HandleExec, WaitPid
  <2> QED
    BY <2>1 DEF ExecInv, OneCaptureAcrossExec
<1>1. CASE HandleEntryPlain(t) \/ HandleEntryBegin(t) \/ HandleExitPlain(t)
  <2>1. PICK s \in SyscallState :
          /\ states' = [states EXCEPT ![t] = s]
          /\ ~s.fgraph_waiting /\ (s.fgraph_capturing => s.active)
          /\ s.fgraph_capturing => capture = NoTid /\ capture' = t
          /\ ~s.fgraph_capturing => capture' = capture /\ capture # t
    <3>1. CASE HandleEntryPlain(t)
      <4>1. PICK i \in BOOLEAN : states' = [states EXCEPT ![t] = EntryState(i, FALSE, FALSE)]
        BY <3>1 DEF HandleEntryPlain
      <4>2. capture' = capture /\ capture # t
        BY <1>0a, <3>1 DEF HandleEntryPlain, CaptureMatchesState
      <4>3. EntryState(i, FALSE, FALSE) \in SyscallState
        BY DEF EntryState, SyscallState
      <4> QED
        BY <4>1, <4>2, <4>3 DEF EntryState
    <3>2. CASE HandleEntryBegin(t)
      <4>1. PICK c \in BOOLEAN :
              /\ states' = [states EXCEPT ![t] = EntryState(FALSE, FALSE, c)]
              /\ BeginCapture(t, c)
        BY <3>2 DEF HandleEntryBegin
      <4>2. capture = NoTid
        BY <3>2 DEF HandleEntryBegin
      <4>3. EntryState(FALSE, FALSE, c) \in SyscallState
        BY DEF EntryState, SyscallState
      <4> QED
        BY <4>1, <4>2, <4>3, TidAssumption DEF EntryState, BeginCapture
    <3>3. CASE HandleExitPlain(t)
      <4>1. /\ states' = [states EXCEPT ![t] = ExitState(states[t])]
            /\ capture' = capture
        BY <1>0, <3>3 DEF HandleExitPlain
      <4>2. capture # t
        BY <1>0a, <3>3 DEF HandleExitPlain, CaptureMatchesState
      <4>3. /\ ExitState(states[t]) \in SyscallState
            /\ ~ExitState(states[t]).fgraph_waiting
            /\ ~ExitState(states[t]).fgraph_capturing
        BY <1>0 DEF ExitState, SyscallState
      <4> QED
        BY <4>1, <4>2, <4>3
    <3> QED
      BY <1>1, <3>1, <3>2, <3>3
  <2>2. /\ t \notin seen /\ pipe' = <<>> /\ window' = Drained /\ Resume(phase, {t})
        /\ skipped' \in SUBSET (skipped \cup {t})
        /\ UNCHANGED <<kind, child, depth, cached, queue, running>>
    BY <1>1 DEF HandleEntryPlain, HandleEntryBegin, HandleExitPlain, WaitPid
  <2>3. /\ phase' \in [Tid -> Phases] /\ seen' = seen \ {t}
        /\ \A u \in Tid \ {t} : phase'[u] = phase[u]
    BY <1>0, <2>2, ResumeStep
  <2>4. /\ states' \in [Tid -> SyscallState] /\ states'[t] = s
        /\ \A u \in Tid \ {t} : states'[u] = states[u]
    BY <1>0, <2>1
  <2>5. capture' \in Tid \cup {NoTid} /\ skipped' \in SUBSET Tid
    BY <1>0, <2>1, <2>2 DEF TypeOK
  <2>6. TypeOK'
    BY <1>0, <2>2, <2>3, <2>4, <2>5 DEF TypeOK
  <2>7. CaptureMatchesState'
    BY <1>0a, <2>1, <2>4, TidAssumption DEF CaptureMatchesState
  <2>8. QueueHasNoDuplicates' /\ Elems(queue') = Elems(queue)
    BY <2>2 DEF ExecInv, QueueHasNoDuplicates
  <2>9. t \notin seen' /\ seen' \subseteq seen /\ \A u \in seen' : phase'[u] = phase[u]
    BY <1>0, <2>3
  <2> QED
    BY <1>0a, <2>2, <2>4, <2>6, <2>7, <2>8, <2>9, HandlerExecStep
<1>2. CASE HandleEntryHold(t)
  <2>1. /\ t \notin seen /\ phase[t] \in SyscallStops /\ pipe' = <<>> /\ window' = Drained
        /\ states' = [states EXCEPT ![t] = EntryState(FALSE, TRUE, FALSE)]
        /\ queue' = IF t \in Elems(queue) THEN queue ELSE Append(queue, t)
        /\ seen' = seen \cup {t} /\ skipped' = skipped \ {t}
        /\ UNCHANGED <<phase, kind, child, depth, cached, capture, running>>
    BY <1>2 DEF HandleEntryHold, WaitPid
  <2>2. EntryState(FALSE, TRUE, FALSE) \in SyscallState
    BY DEF EntryState, SyscallState
  <2>3. /\ states' \in [Tid -> SyscallState]
        /\ states'[t] = EntryState(FALSE, TRUE, FALSE)
        /\ \A u \in Tid \ {t} : states'[u] = states[u]
    BY <1>0, <2>1, <2>2
  <2>4. /\ queue' \in Seq(Tid) /\ NoDuplicates(queue')
        /\ Elems(queue) \subseteq Elems(queue') /\ t \in Elems(queue')
    BY <1>0, <2>1, AppendFacts
  <2>5. TypeOK'
    BY <1>0, <2>1, <2>3, <2>4 DEF TypeOK
  <2>6. CaptureMatchesState'
    <3>1. capture # t
      BY <1>0a, <1>2 DEF HandleEntryHold, CaptureMatchesState
    <3> QED
      BY <1>0a, <2>1, <2>3, <3>1 DEF CaptureMatchesState, EntryState
  <2>7. QueueHasNoDuplicates'
    BY <2>4 DEF QueueHasNoDuplicates, NoDuplicates
  <2>8. states'[t].active /\ states'[t].fgraph_waiting
    BY <2>3 DEF EntryState
  <2>9. seen' \subseteq seen \cup {t} /\ \A u \in seen' : phase'[u] = phase[u]
    BY <2>1
  <2> QED
    BY <1>0a, <2>1, <2>3, <2>4, <2>5, <2>6, <2>7, <2>8, <2>9, HandlerExecStep
<1>3. CASE HandleExitCaptured(t)
  <2> DEFINE st == [states EXCEPT ![t] = ExitState(states[t])]
  <2>1. /\ t \notin seen /\ pipe' = <<>> /\ window' = Drained
        /\ ReleaseWaiting(queue, st, phase, Drained, {t})
        /\ states[t].fgraph_capturing
        /\ UNCHANGED <<kind, child, depth, cached, running>>
    BY <1>0, <1>3 DEF HandleExitCaptured, WaitPid
  <2>2. /\ st \in [Tid -> SyscallState] /\ {t} \in SUBSET Tid
        /\ \A u \in Tid \ {t} : st[u] = states[u]
    BY <1>0 DEF ExitState, SyscallState
  <2>3. \A u \in Tid : ~st[u].fgraph_capturing
    BY <1>0, <1>0a, <2>1 DEF CaptureMatchesState, ExitState, SyscallState
  <2> HIDE DEF st
  <2>4. \A u \in seen \ {t} : /\ phase[u] \in SyscallStops
                              /\ u \in Elems(queue)
                              /\ st[u].active /\ st[u].fgraph_waiting
    BY <1>0, <2>2 DEF HeldIsQueued
  <2>5. /\ phase' \in [Tid -> Phases]
        /\ seen' \in SUBSET Tid
        /\ states' \in [Tid -> SyscallState]
        /\ capture' \in Tid \cup {NoTid}
        /\ queue' \in Seq(Tid)
        /\ skipped' \in SUBSET Tid
        /\ CaptureMatchesState' /\ HeldIsQueued' /\ QueueHasNoDuplicates'
    BY <1>0, <2>1, <2>2, <2>3, <2>4, ReleaseFacts, Zenon
  <2>6. TypeOK'
    BY <1>0, <2>1, <2>5 DEF TypeOK
  <2> QED
    BY <2>5, <2>6 DEF ExecInv, OneCaptureAcrossExec
<1>4. CASE HandleVanished(t)
  <2> DEFINE K == Killed(ProcOf[t])
  <2>1. /\ t \notin seen /\ pipe' = <<>> /\ window' = Drained /\ seen' = seen \ K
        /\ UNCHANGED <<kind, child, depth, cached, states, capture, queue, running, skipped>>
    BY <1>4 DEF HandleVanished, KillGroup, WaitPid
  <2>2. PICK last \in {"dying", "zombie"} :
          phase' = [u \in Tid |-> IF u \in K THEN last ELSE phase[u]]
    BY <1>4 DEF HandleVanished, KillGroup
  <2> HIDE DEF K
  <2>3. phase' \in [Tid -> Phases]
    BY <1>0, <2>2 DEF Phases, Stops
  <2>4. TypeOK'
    BY <1>0, <2>1, <2>3 DEF TypeOK
  <2>5. seen' \subseteq seen /\ \A u \in seen' : phase'[u] = phase[u]
    BY <1>0, <2>1, <2>2
  <2> QED
    BY <1>0a, <2>1, <2>4, <2>5, QuietExecStep
<1>5. CASE HandleClone(t) \/ HandleOther(t) \/ HandleExec(t)
  <2>1. /\ t \notin seen /\ pipe' = <<>> /\ window' = Drained
        /\ UNCHANGED <<kind, depth, cached, states, capture, queue, running, skipped>>
    BY <1>5 DEF HandleClone, HandleOther, HandleExec, WaitPid
  <2>2. \E S : Resume(phase, S)
    BY <1>5 DEF HandleClone, HandleOther, HandleExec
  <2>3. /\ phase' \in [Tid -> Phases] /\ seen' \subseteq seen
        /\ \A u \in seen' : phase'[u] = phase[u]
    BY <1>0, <2>2, ResumeStep
  <2>4. child' \in [Tid -> Tid]
    BY <1>0, <1>5 DEF HandleClone, HandleOther, HandleExec, TypeOK
  <2>5. TypeOK'
    BY <1>0, <2>1, <2>3, <2>4 DEF TypeOK
  <2> QED
    BY <1>0a, <2>1, <2>3, <2>5, QuietExecStep
<1>6. CASE HandleGone(t)
  <2> DEFINE q == Forget(t, queue)
             st == [states EXCEPT ![t] = DefaultState]
             ph == [phase EXCEPT ![t] = "none"]
  <2>1. /\ phase[t] = "zombie" /\ pipe' = <<>>
        /\ window' = [Drained EXCEPT ![t] = 0]
        /\ kind' = [kind EXCEPT ![t] = "work"]
        /\ child' = [child EXCEPT ![t] = t]
        /\ depth' = [depth EXCEPT ![t] = 0]
        /\ cached' = [cached EXCEPT ![t] = NoTid]
        /\ running' = running
    BY <1>6 DEF HandleGone
  <2>2. q \in Seq(Tid) /\ NoDuplicates(q) /\ Elems(q) = Elems(queue) \ {t}
    BY <1>0, ForgetFacts
  <2>3. st \in [Tid -> SyscallState] /\ ph \in [Tid -> Phases]
        /\ window' \in [Tid -> Nat]
    BY <1>0, <2>1 DEF DefaultState, SyscallState, Phases
  <2>4. /\ st[t] = DefaultState /\ \A u \in Tid \ {t} : st[u] = states[u]
        /\ \A u \in Tid \ {t} : ph[u] = phase[u]
    BY <1>0
  <2>5. \/ /\ capture \in {t, NoTid}
           /\ ReleaseWaiting(q, st, ph, window', {})
        \/ /\ capture \notin {t, NoTid}
           /\ queue' = q /\ states' = st /\ phase' = ph
           /\ skipped' = skipped \ {t}
           /\ UNCHANGED <<capture, seen>>
    BY <1>6 DEF HandleGone
  <2> HIDE DEF q, st, ph
  <2>6. t \notin seen
    BY <2>1, NotHeld DEF SyscallStops
  <2>7. \A u \in seen : /\ ph[u] \in SyscallStops
                        /\ u \in Elems(q)
                        /\ st[u].active /\ st[u].fgraph_waiting
    BY <1>0, <2>2, <2>4, <2>6 DEF HeldIsQueued
  <2>8. /\ kind' \in [Tid -> CallKinds \cup {"publish"}]
        /\ child' \in [Tid -> Tid]
        /\ depth' \in [Tid -> 0..MaxDepth]
        /\ cached' \in [Tid -> Tid \cup {NoTid}]
        /\ running' \in BOOLEAN
    BY <1>0, <2>1, BoundAssumption DEF TypeOK, CallKinds
  <2>9. CASE capture \in {t, NoTid}
    <3>1. ReleaseWaiting(q, st, ph, window', {})
      BY <2>5, <2>9
    <3>2. \A u \in Tid : ~st[u].fgraph_capturing
      BY <1>0a, <2>4, <2>9, TidAssumption DEF CaptureMatchesState, DefaultState
    <3>3. {} \in SUBSET Tid /\ \A u \in seen \ {} : /\ ph[u] \in SyscallStops
                                                    /\ u \in Elems(q)
                                                    /\ st[u].active /\ st[u].fgraph_waiting
      BY <2>7
    <3>4. /\ phase' \in [Tid -> Phases]
          /\ seen' \in SUBSET Tid
          /\ states' \in [Tid -> SyscallState]
          /\ capture' \in Tid \cup {NoTid}
          /\ queue' \in Seq(Tid)
          /\ skipped' \in SUBSET Tid
          /\ CaptureMatchesState' /\ HeldIsQueued' /\ QueueHasNoDuplicates'
      BY <1>0, <2>2, <2>3, <3>1, <3>2, <3>3, ReleaseFacts, Zenon
    <3>5. TypeOK'
      BY <1>0, <2>1, <2>3, <2>8, <3>4 DEF TypeOK
    <3> QED
      BY <3>4, <3>5 DEF ExecInv, OneCaptureAcrossExec
  <2>10. CASE capture \notin {t, NoTid}
    <3>1. /\ queue' = q /\ states' = st /\ phase' = ph
          /\ skipped' = skipped \ {t} /\ capture' = capture /\ seen' = seen
      BY <2>5, <2>10
    <3>2. TypeOK'
      BY <1>0, <2>1, <2>2, <2>3, <2>8, <3>1 DEF TypeOK
    <3>3. CaptureMatchesState'
      BY <1>0a, <2>4, <2>10, <3>1 DEF CaptureMatchesState, DefaultState
    <3>4. HeldIsQueued' /\ QueueHasNoDuplicates'
      BY <2>2, <2>7, <3>1 DEF HeldIsQueued, QueueHasNoDuplicates, NoDuplicates
    <3> QED
      BY <3>2, <3>3, <3>4 DEF ExecInv, OneCaptureAcrossExec
  <2> QED
    BY <2>9, <2>10
<1> QED
  BY <1>1, <1>2, <1>3, <1>4, <1>5, <1>6 DEF Handle

-----------------------------------------------------------------------------
(* The theorems.                                                            *)

\* The invariant holds when the loop starts.
LEMMA InitExec == ExecInit => ExecInv
<1>1. Init => TypeOK /\ CaptureMatchesState /\ HeldIsQueued /\ QueueHasNoDuplicates
  BY InitIInv DEF IInv
<1> QED
  BY <1>1 DEF ExecInit, ExecInv, OneCaptureAcrossExec

\* Every step preserves it.
LEMMA StepExec == ExecInv /\ [ExecNext]_execVars => ExecInv'
<1> SUFFICES ASSUME ExecInv, [ExecNext]_execVars PROVE ExecInv'
  OBVIOUS
<1>1. ASSUME UNCHANGED vars PROVE ExecInv'
  BY <1>1 DEF vars, kernelVars, tracerVars, ExecInv, TypeOK, OneCaptureAcrossExec,
     CaptureMatchesState, HeldIsQueued, QueueHasNoDuplicates
<1>2. ASSUME HandleNoChild PROVE ExecInv'
  <2>1. /\ UNCHANGED <<phase, kind, child, seen, depth, cached, pipe,
                       states, window, queue, skipped>>
        /\ running' = FALSE /\ capture' = NoTid
    BY <1>2 DEF HandleNoChild, kernelVars
  <2>2. TypeOK'
    BY <2>1 DEF ExecInv, TypeOK
  <2> QED
    BY <2>1, <2>2 DEF ExecInv, OneCaptureAcrossExec, HeldIsQueued, QueueHasNoDuplicates
<1>3. ASSUME NEW t \in Tid, Handle(t) \/ HandleExec(t) PROVE ExecInv'
  BY <1>3, TracerExec
<1>4. ASSUME NEW t \in Tid, RunExec(t) \/ RunExecDone(t) PROVE ExecInv'
  BY <1>4, ExecCalls
<1>5. ASSUME NEW t \in Tid,
             \/ \E k \in Calls : EnterSyscall(t, k)
             \/ EnterWindow(t) \/ ExitWindow(t)
             \/ Run(t) \/ Signal(t) \/ Kill(t)
      PROVE ExecInv'
  BY <1>5, ThreadExec
<1> QED
  BY <1>1, <1>2, <1>3, <1>4, <1>5 DEF ExecNext, Terminated, execVars

\* The invariant holds in every reachable state.
LEMMA ExecInvariance == ExecSpec => []ExecInv
BY InitExec, StepExec, PTL DEF ExecSpec

\* Whatever programs the threads execute, and however ids change hands, the loop
\* believes in one capture at most and in the one its states know of.
THEOREM OneCaptureDespiteExec == ExecSpec => []OneCaptureAcrossExec
<1>1. ExecInv => OneCaptureAcrossExec
  BY DEF ExecInv
<1> QED
  BY <1>1, ExecInvariance, PTL

\* A thread the loop keeps stopped can still be found in the queue.
THEOREM NoThreadLostInExec == ExecSpec => []HeldIsQueued
<1>1. ExecInv => HeldIsQueued
  BY DEF ExecInv
<1> QED
  BY <1>1, ExecInvariance, PTL

\* And no thread is queued twice.
THEOREM QueuedOnceDespiteExec == ExecSpec => []QueueHasNoDuplicates
<1>1. ExecInv => QueueHasNoDuplicates
  BY DEF ExecInv
<1> QED
  BY <1>1, ExecInvariance, PTL
=============================================================================
