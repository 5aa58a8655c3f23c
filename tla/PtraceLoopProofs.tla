-------------------------- MODULE PtraceLoopProofs --------------------------
(***************************************************************************)
(* Proofs about PtraceLoop for every set of threads, every grouping into   *)
(* processes, every pipe size and both orders of clone events.             *)
(*                                                                         *)
(* The argument is one inductive invariant, IInv: its conjuncts need each  *)
(* other.  A capture ends only when nobody else's flag says capturing      *)
(* (CaptureMatchesState), so that emptying the queue (NoStrandedWaiter)    *)
(* resumes exactly the threads that are stopped (HeldIsQueued).  The sender *)
(* of an undrained message still exists (OneUpdatePending), and without a  *)
(* fork a message names its sender (HonestIds), so that the drain brings    *)
(* no dead thread back (NothingLeftOfTheDead).                             *)
(***************************************************************************)
EXTENDS PtraceLoop, SequenceTheorems, WellFoundedInduction, TLAPS

\* Without a fork CACHED_TID is the thread's own id, and so is the id in its
\* messages.
HonestIds ==
    SingleProcess => /\ \A t \in Tid : cached[t] \in {t, NoTid}
                     /\ \A i \in DOMAIN pipe : pipe[i].tid = pipe[i].from

IInv ==
    /\ TypeOK
    /\ CaptureMatchesState
    /\ HeldIsQueued
    /\ NoStrandedWaiter
    /\ QueueHasNoDuplicates
    /\ NothingLeftOfTheDead
    /\ OneUpdatePending
    /\ HonestIds

NoDuplicates(q) == \A i, j \in DOMAIN q : q[i] = q[j] => i = j

-----------------------------------------------------------------------------
(* Queues.                                                                  *)

\* Pushing a thread that is not queued adds it and keeps the queue without
\* duplicates (the push_back of the entry handler).
LEMMA AppendFacts ==
    ASSUME NEW q \in Seq(Tid), NEW t \in Tid, NoDuplicates(q), t \notin Elems(q)
    PROVE  /\ Append(q, t) \in Seq(Tid)
           /\ NoDuplicates(Append(q, t))
           /\ Elems(Append(q, t)) = Elems(q) \cup {t}
<1> DEFINE r == Append(q, t)
<1>1. r \in Seq(Tid) /\ Len(r) = Len(q) + 1 /\ DOMAIN r = 1..Len(q) + 1
      /\ DOMAIN q = 1..Len(q)
  OBVIOUS
<1>2. \A i \in 1..Len(q) : r[i] = q[i]
  OBVIOUS
<1>3. r[Len(q) + 1] = t
  OBVIOUS
<1> HIDE DEF r
<1>4. NoDuplicates(r)
  BY <1>1, <1>2, <1>3 DEF NoDuplicates, Elems
<1>5. Elems(r) = Elems(q) \cup {t}
  BY <1>1, <1>2, <1>3 DEF Elems
<1> QED
  BY <1>1, <1>4, <1>5 DEF r

\* Popping the first k threads leaves the others (pop_front of
\* maybe_resume_waiting_fgraph_tid).
LEMMA PopFacts ==
    ASSUME NEW q \in Seq(Tid), NEW k \in 0..Len(q), NoDuplicates(q)
    PROVE  LET r == SubSeq(q, k + 1, Len(q))
           IN /\ r \in Seq(Tid)
              /\ NoDuplicates(r)
              /\ Elems(r) \subseteq Elems(q)
              /\ \A i \in DOMAIN q : i > k => q[i] \in Elems(r)
              /\ k = Len(q) => r = <<>>
<1> DEFINE r == SubSeq(q, k + 1, Len(q))
<1>1. Len(q) \in Nat /\ DOMAIN q = 1..Len(q) /\ k \in Nat /\ k <= Len(q)
  OBVIOUS
<1>2. /\ r \in Seq(Tid)
      /\ Len(r) = Len(q) - k
      /\ \A i \in 1..Len(q) - (k + 1) + 1 : r[i] = q[(k + 1) + i - 1]
  <2>1. \A i \in (k + 1)..Len(q) : q[i] \in Tid
    BY <1>1
  <2>2. /\ r \in Seq(Tid)
        /\ Len(r) = IF k + 1 <= Len(q) THEN Len(q) - (k + 1) + 1 ELSE 0
        /\ \A i \in 1..Len(q) - (k + 1) + 1 : r[i] = q[(k + 1) + i - 1]
    BY <1>1, <2>1, SubSeqProperties
  <2> DEFINE n == Len(q)
             m == Len(r)
  <2>3. m = IF k + 1 <= n THEN n - (k + 1) + 1 ELSE 0
    BY <2>2
  <2>4. n \in Nat /\ k \in Nat /\ k <= n
    BY <1>1
  <2> HIDE DEF n, m
  <2>5. m = n - k
    BY <2>3, <2>4
  <2> QED
    BY <2>2, <2>5 DEF n, m
<1> HIDE DEF r
<1>3. DOMAIN r = 1..Len(r)
  BY <1>2
<1>4. \A i \in DOMAIN r : r[i] = q[k + i] /\ k + i \in DOMAIN q
  BY <1>1, <1>2, <1>3
<1>5. NoDuplicates(r)
  BY <1>1, <1>3, <1>4 DEF NoDuplicates
<1>6. Elems(r) \subseteq Elems(q)
  BY <1>4 DEF Elems
<1>7. ASSUME NEW i \in DOMAIN q, i > k PROVE q[i] \in Elems(r)
  <2>1. i - k \in DOMAIN r /\ k + (i - k) = i
    BY <1>1, <1>2, <1>3, <1>7
  <2> QED
    BY <2>1, <1>4 DEF Elems
<1>8. k = Len(q) => r = <<>>
  BY <1>1, <1>2, <1>3
<1> QED
  BY <1>2, <1>5, <1>6, <1>7, <1>8 DEF r

\* Forgetting a dead thread removes it and nobody else (the retain of the
\* exit handler).
LEMMA ForgetFacts ==
    ASSUME NEW q \in Seq(Tid), NEW t \in Tid, NoDuplicates(q)
    PROVE  /\ Forget(t, q) \in Seq(Tid)
           /\ NoDuplicates(Forget(t, q))
           /\ Elems(Forget(t, q)) = Elems(q) \ {t}
<1>1. CASE t \notin Elems(q)
  BY <1>1 DEF Forget
<1>2. CASE t \in Elems(q)
  <2> DEFINE at == CHOOSE i \in DOMAIN q : q[i] = t
             r == [i \in 1..Len(q) - 1 |-> IF i < at THEN q[i] ELSE q[i + 1]]
  <2>1. at \in DOMAIN q /\ q[at] = t
    BY <1>2 DEF Elems
  <2>2. Len(q) \in Nat /\ DOMAIN q = 1..Len(q) /\ Len(q) >= 1
    BY <2>1
  <2>3. Forget(t, q) = r
    BY <1>2 DEF Forget
  <2> HIDE DEF at
  <2>4. \A i \in DOMAIN r : /\ i < at => r[i] = q[i] /\ i \in DOMAIN q
                            /\ i >= at => r[i] = q[i + 1] /\ i + 1 \in DOMAIN q
    BY <2>1, <2>2
  <2>5. DOMAIN r = 1..Len(q) - 1 /\ Len(q) - 1 \in Nat
    BY <2>2
  <2>6. \A i \in DOMAIN r : r[i] \in Tid
    BY <2>1, <2>2, <2>4, <2>5
  <2>7. r \in Seq(Tid)
    BY <2>5, <2>6, IsASeq
  <2>8. NoDuplicates(r)
    BY <2>1, <2>2, <2>4, <2>5 DEF NoDuplicates
  <2>9. ASSUME NEW u \in Elems(r) PROVE u \in Elems(q) \ {t}
    BY <2>1, <2>2, <2>4, <2>5 DEF Elems, NoDuplicates
  <2>10. ASSUME NEW u \in Elems(q), u # t PROVE u \in Elems(r)
    <3>1. PICK i \in DOMAIN q : q[i] = u
      BY DEF Elems
    <3>2. CASE i < at
      <4>1. i \in DOMAIN r /\ r[i] = u
        BY <3>1, <3>2, <2>1, <2>2, <2>4, <2>5
      <4> QED
        BY <4>1 DEF Elems
    <3>3. CASE i > at
      <4>1. i - 1 \in DOMAIN r /\ r[i - 1] = u
        BY <3>1, <3>3, <2>1, <2>2, <2>4, <2>5
      <4> QED
        BY <4>1 DEF Elems
    <3> QED
      BY <3>1, <3>2, <3>3, <2>1, <2>2, <2>10
  <2> QED
    BY <2>3, <2>7, <2>8, <2>9, <2>10
<1> QED
  BY <1>1, <1>2

-----------------------------------------------------------------------------
(* The pipe and the stops.                                                  *)

\* A nonempty set of numbers has a least one.
LEMMA LeastElement ==
    ASSUME NEW T \in SUBSET Nat, T # {}
    PROVE  \E x \in T : \A y \in T : x <= y
<1> DEFINE R == {ss \in Nat \X Nat : ss[1] < ss[2]}
<1>1. OpToRel(<, Nat) = R
  BY DEF OpToRel
<1>2. IsWellFoundedOn(R, Nat)
  BY <1>1, NatLessThanWellFounded
<1>3. PICK x \in T : \A y \in T : ~(<<y, x>> \in R)
  <2> HIDE DEF R
  <2> QED
    BY <1>2, WFMin
<1>4. \A y \in T : x <= y
  <2> TAKE y \in T
  <2>1. x \in Nat /\ y \in Nat /\ ~(y < x)
    BY <1>3
  <2> QED
    BY <2>1
<1> QED
  BY <1>4

\* A nonempty set of indices has a last one.
LEMMA LastIndex ==
    ASSUME NEW n \in Nat, NEW S \in SUBSET (1..n), S # {}
    PROVE  \E i \in S : \A j \in S : j <= i
<1> DEFINE T == {n - i : i \in S}
<1>1. T \in SUBSET Nat /\ T # {}
  <2>1. \A i \in S : i \in Int /\ 1 <= i /\ i <= n
    OBVIOUS
  <2>2. \A i \in S : n - i \in Nat
    BY <2>1
  <2>3. PICK i \in S : TRUE
    OBVIOUS
  <2>4. n - i \in T
    OBVIOUS
  <2> QED
    BY <2>2, <2>4
<1>2. PICK x \in T : \A y \in T : x <= y
  <2> HIDE DEF T
  <2> QED
    BY <1>1, LeastElement
<1>3. PICK i \in S : x = n - i
  OBVIOUS
<1>4. ASSUME NEW j \in S PROVE j <= i
  <2>1. n - j \in T
    OBVIOUS
  <2>2. n - i <= n - j
    BY <1>2, <1>3, <2>1
  <2>3. i \in 1..n /\ j \in 1..n
    OBVIOUS
  <2> QED
    BY <2>2, <2>3
<1> QED
  BY <1>4

\* Every message in the pipe names a thread and was sent by one.
LEMMA PipeFacts ==
    ASSUME TypeOK
    PROVE  \A i \in DOMAIN pipe :
             pipe[i].tid \in Tid /\ pipe[i].from \in Tid /\ pipe[i].depth \in Nat
<1>1. \A i \in DOMAIN pipe : pipe[i] \in Update
  BY DEF TypeOK
<1> QED
  BY <1>1 DEF Update

\* Draining gives every thread a depth, and leaves a thread without a message
\* as it was.
LEMMA DrainFacts ==
    ASSUME TypeOK
    PROVE  /\ Drained \in [Tid -> Nat]
           /\ \A t \in Tid : (\A i \in DOMAIN pipe : pipe[i].tid # t)
                               => Drained[t] = window[t]
<1>1. \A i \in DOMAIN pipe : i \in Nat /\ pipe[i] \in Update
  BY DEF TypeOK
<1>2. ASSUME NEW t \in Tid PROVE Drained[t] \in Nat
  <2>1. CASE \E i \in DOMAIN pipe : pipe[i].tid = t
    <3> DEFINE Last(i) == /\ pipe[i].tid = t
                          /\ \A j \in DOMAIN pipe : pipe[j].tid = t => j <= i
    <3>1. \E i \in DOMAIN pipe : Last(i)
      <4> DEFINE S == {i \in DOMAIN pipe : pipe[i].tid = t}
      <4>1. Len(pipe) \in Nat /\ S \in SUBSET (1..Len(pipe)) /\ S # {}
        BY <2>1 DEF TypeOK
      <4>2. PICK i \in S : \A j \in S : j <= i
        <5> HIDE DEF S
        <5> QED
          BY <4>1, LastIndex
      <4> QED
        BY <4>2
    <3>2. (CHOOSE i \in DOMAIN pipe : Last(i)) \in DOMAIN pipe
      BY <3>1
    <3>3. Drained[t] = pipe[CHOOSE i \in DOMAIN pipe : Last(i)].depth
      BY <2>1 DEF Drained
    <3> QED
      BY <3>2, <3>3, <1>1 DEF Update
  <2>2. CASE ~ \E i \in DOMAIN pipe : pipe[i].tid = t
    BY <2>2 DEF Drained, TypeOK
  <2> QED
    BY <2>1, <2>2
<1>3. Drained = [t \in Tid |-> Drained[t]]
  BY DEF Drained
<1>4. Drained \in [Tid -> Nat]
  BY <1>2, <1>3
<1> QED
  BY <1>4 DEF Drained

\* Without a fork, draining opens no window for a thread that does not exist.
LEMMA DrainedDead ==
    ASSUME IInv, SingleProcess, NEW t \in Tid, phase[t] = "none"
    PROVE  Drained[t] = 0
<1>1. \A i \in DOMAIN pipe : pipe[i].tid # t
  BY DEF IInv, HonestIds, OneUpdatePending
<1>2. window[t] = 0
  BY DEF IInv, NothingLeftOfTheDead
<1> QED
  BY <1>1, <1>2, DrainFacts DEF IInv

\* Resuming moves a thread to a phase, and neither creates nor reaps one.
LEMMA ResumeFacts ==
    ASSUME NEW p \in Phases
    PROVE  /\ Resumed(p) \in Phases
           /\ Resumed(p) = "none" <=> p = "none"
BY DEF Resumed, Phases, Stops, SyscallStops

\* A thread that the loop has nothing of stays like that.
LeavesAlone(q, st) ==
    \A u \in Tid : st[u] = DefaultState /\ u \notin Elems(q) \cup seen =>
        /\ states'[u] = DefaultState
        /\ capture' # u
        /\ u \notin Elems(queue') \cup seen'

\* maybe_resume_waiting_fgraph_tid: if nobody is capturing, and the threads
\* held are queued and waiting, then the same holds of what it leaves, and
\* nobody stays queued without a capture.
LEMMA ReleaseFacts ==
    ASSUME NEW q \in Seq(Tid), NEW st \in [Tid -> SyscallState],
           NEW ph \in [Tid -> Phases], NEW win \in [Tid -> Nat],
           NEW others \in SUBSET Tid,
           seen \in SUBSET Tid, skipped \in SUBSET Tid,
           NoDuplicates(q),
           \A u \in Tid : ~st[u].fgraph_capturing,
           \A u \in seen \ others :
              /\ ph[u] \in SyscallStops
              /\ u \in Elems(q)
              /\ st[u].active /\ st[u].fgraph_waiting,
           ReleaseWaiting(q, st, ph, win, others)
    PROVE  /\ phase' \in [Tid -> Phases]
           /\ seen' \in SUBSET Tid
           /\ states' \in [Tid -> SyscallState]
           /\ capture' \in Tid \cup {NoTid}
           /\ queue' \in Seq(Tid)
           /\ skipped' \in SUBSET Tid
           /\ CaptureMatchesState'
           /\ HeldIsQueued'
           /\ NoStrandedWaiter'
           /\ QueueHasNoDuplicates'
           /\ \A u \in Tid : phase'[u] = "none" => ph[u] = "none"
           /\ LeavesAlone(q, st)
<1> DEFINE Waits(u) == st[u].active /\ st[u].fgraph_waiting
           Wants(u) == ShouldCapture(u, st[u].internal, win)
           Popped(k) == {u \in {q[i] : i \in 1..k} : Waits(u)}
<1>1. PICK k \in 0..Len(q) : \E next \in Popped(k) \cup {NoTid} :
         /\ IF next = NoTid THEN k = Len(q) ELSE next = q[k] /\ Wants(next)
         /\ capture' = next
         /\ queue' = SubSeq(q, k + 1, Len(q))
         /\ states' = [u \in Tid |->
              IF u \in Popped(k)
              THEN [st[u] EXCEPT !.fgraph_waiting = FALSE,
                                 !.fgraph_capturing = (u = next)]
              ELSE st[u]]
         /\ skipped' = (skipped \cup {u \in Popped(k) : Wants(u)}) \ {next}
         /\ Resume(ph, Popped(k) \cup others)
  BY DEF ReleaseWaiting
<1>1a. PICK next \in Popped(k) \cup {NoTid} :
         /\ IF next = NoTid THEN k = Len(q) ELSE next = q[k] /\ Wants(next)
         /\ capture' = next
         /\ queue' = SubSeq(q, k + 1, Len(q))
         /\ states' = [u \in Tid |->
              IF u \in Popped(k)
              THEN [st[u] EXCEPT !.fgraph_waiting = FALSE,
                                 !.fgraph_capturing = (u = next)]
              ELSE st[u]]
         /\ skipped' = (skipped \cup {u \in Popped(k) : Wants(u)}) \ {next}
         /\ Resume(ph, Popped(k) \cup others)
  BY <1>1
<1>2. Len(q) \in Nat /\ DOMAIN q = 1..Len(q) /\ k \in Nat /\ k <= Len(q)
  OBVIOUS
<1>3. Popped(k) \subseteq Elems(q) /\ Elems(q) \subseteq Tid
  <2>1. ASSUME NEW u \in Popped(k) PROVE u \in Elems(q)
    <3>1. PICK i \in 1..k : u = q[i]
      BY <2>1
    <3>2. i \in DOMAIN q
      BY <1>2
    <3> QED
      BY <3>1, <3>2 DEF Elems
  <2>2. Elems(q) \subseteq Tid
    BY DEF Elems
  <2> QED
    BY <2>1, <2>2
<1>4. /\ queue' \in Seq(Tid)
      /\ NoDuplicates(queue')
      /\ Elems(queue') \subseteq Elems(q)
      /\ \A i \in DOMAIN q : i > k => q[i] \in Elems(queue')
      /\ k = Len(q) => queue' = <<>>
  BY <1>1a, PopFacts
<1>5. ASSUME NEW u \in Elems(q), Waits(u), u \notin Popped(k)
      PROVE  u \in Elems(queue')
  <2>1. PICK i \in DOMAIN q : q[i] = u
    BY DEF Elems
  <2>2. i > k
    BY <1>2, <1>5, <2>1
  <2> QED
    BY <1>4, <2>1, <2>2
<1>6. /\ phase' = [t \in Tid |-> IF t \in Popped(k) \cup others
                                 THEN Resumed(ph[t]) ELSE ph[t]]
      /\ seen' = seen \ (Popped(k) \cup others)
  BY <1>1a DEF Resume
<1>7. next \in Popped(k) \/ next = NoTid
  OBVIOUS
<1>8. \A u \in Popped(k) : Waits(u)
  OBVIOUS
<1>9. states' = [u \in Tid |->
         IF u \in Popped(k)
         THEN [st[u] EXCEPT !.fgraph_waiting = FALSE,
                            !.fgraph_capturing = (u = next)]
         ELSE st[u]]
  BY <1>1a
<1>10. capture' = next
  BY <1>1a
<1>11. next = NoTid => k = Len(q)
  BY <1>1a
<1>12. skipped' \subseteq skipped \cup Popped(k)
  BY <1>1a
<1> HIDE DEF Popped, Wants
<1>20. phase' \in [Tid -> Phases]
  BY <1>6, ResumeFacts
<1>21. states' \in [Tid -> SyscallState]
  BY <1>9 DEF SyscallState
<1>22. capture' \in Tid \cup {NoTid}
  BY <1>3, <1>7, <1>10
<1>23. CaptureMatchesState'
  <2> SUFFICES ASSUME NEW u \in Tid
               PROVE  /\ states'[u].fgraph_capturing <=> (capture' = u)
                      /\ states'[u].fgraph_capturing =>
                           states'[u].active /\ ~states'[u].fgraph_waiting
    BY DEF CaptureMatchesState
  <2>1. st[u] \in SyscallState
    OBVIOUS
  <2>2. CASE u \in Popped(k)
    <3>1. /\ states'[u].fgraph_capturing = (u = next)
          /\ states'[u].active = st[u].active
          /\ states'[u].fgraph_waiting = FALSE
      BY <1>9, <2>1, <2>2 DEF SyscallState
    <3> QED
      BY <3>1, <2>2, <1>8, <1>10
  <2>3. CASE u \notin Popped(k)
    BY <2>3, <1>7, <1>9, <1>10, TidAssumption
  <2> QED
    BY <2>2, <2>3
<1>24. HeldIsQueued'
  <2> SUFFICES ASSUME NEW u \in seen'
               PROVE  /\ phase'[u] \in SyscallStops
                      /\ u \in Elems(queue')
                      /\ states'[u].active /\ states'[u].fgraph_waiting
    BY DEF HeldIsQueued
  <2>1. u \in seen \ others /\ u \notin Popped(k) /\ u \in Tid
    BY <1>6
  <2>2. ph[u] \in SyscallStops /\ u \in Elems(q) /\ Waits(u)
    BY <2>1
  <2>3. phase'[u] = ph[u]
    BY <2>1, <1>6
  <2>4. states'[u] = st[u]
    BY <2>1, <1>9
  <2> QED
    BY <2>1, <2>2, <2>3, <2>4, <1>5
<1>25. NoStrandedWaiter'
  BY <1>4, <1>10, <1>11 DEF NoStrandedWaiter
<1>26. QueueHasNoDuplicates'
  BY <1>4 DEF QueueHasNoDuplicates, NoDuplicates
<1>27. \A u \in Tid : phase'[u] = "none" => ph[u] = "none"
  BY <1>6, ResumeFacts
<1>27a. ASSUME NEW u \in Tid, st[u] = DefaultState, u \notin Elems(q) \cup seen
        PROVE  /\ states'[u] = DefaultState
               /\ capture' # u
               /\ u \notin Elems(queue') \cup seen'
  <2>1. u \notin Popped(k)
    BY <1>3, <1>27a
  <2>2. states'[u] = st[u]
    BY <2>1, <1>9
  <2>3. capture' # u
    BY <2>1, <1>7, <1>10, TidAssumption
  <2> QED
    BY <2>2, <2>3, <1>4, <1>6, <1>27a
<1>27b. LeavesAlone(q, st)
  BY <1>27a DEF LeavesAlone
<1>28. skipped' \in SUBSET Tid
  BY <1>3, <1>12
<1>29. seen' \in SUBSET Tid
  BY <1>6
<1> QED
  BY <1>4, <1>20, <1>21, <1>22, <1>23, <1>24, <1>25, <1>26, <1>27, <1>27b, <1>28,
     <1>29

-----------------------------------------------------------------------------
(* Steps of the traced threads.                                             *)

\* A step that leaves the tracer's locals alone, moves no thread that is held
\* and reaps none preserves the invariant.
LEMMA ThreadStep ==
    ASSUME IInv, TypeOK', UNCHANGED tracerVars,
           seen' \subseteq seen,
           \A u \in seen' : phase'[u] = phase[u],
           \A u \in Tid : phase'[u] = "none" => phase[u] = "none",
           OneUpdatePending', HonestIds'
    PROVE  IInv'
<1>1. UNCHANGED <<states, window, capture, queue, running>>
  BY DEF tracerVars
<1>2. CaptureMatchesState'
  BY <1>1 DEF IInv, CaptureMatchesState
<1>3. HeldIsQueued'
  BY <1>1 DEF IInv, HeldIsQueued, Elems
<1>4. NoStrandedWaiter' /\ QueueHasNoDuplicates'
  BY <1>1 DEF IInv, NoStrandedWaiter, QueueHasNoDuplicates
<1>5. NothingLeftOfTheDead'
  <2> SUFFICES ASSUME NEW t \in Tid, phase'[t] = "none"
               PROVE  /\ states'[t] = DefaultState
                      /\ capture' # t
                      /\ t \notin Elems(queue') \cup seen'
                      /\ SingleProcess => window'[t] = 0
    BY DEF NothingLeftOfTheDead
  <2>1. phase[t] = "none"
    OBVIOUS
  <2> QED
    BY <1>1, <2>1 DEF IInv, NothingLeftOfTheDead
<1> QED
  BY <1>2, <1>3, <1>4, <1>5 DEF IInv

\* A thread in user mode or in the kernel is neither held nor the sender of an
\* undrained message.
LEMMA RunningThread ==
    ASSUME IInv, NEW t \in Tid, phase[t] \in {"user", "kernel"}
    PROVE  /\ t \notin seen
           /\ \A i \in DOMAIN pipe : pipe[i].from # t
BY DEF IInv, HeldIsQueued, OneUpdatePending, SyscallStops

\* A step of one running thread that leaves the pipe alone.
LEMMA PlainThreadStep ==
    ASSUME IInv, TypeOK', UNCHANGED <<tracerVars, pipe, seen>>,
           NEW t \in Tid, phase[t] \in {"user", "kernel"},
           phase'[t] # "none",
           \A u \in Tid \ {t} : phase'[u] = phase[u] \/ phase[u] = "none",
           SingleProcess => \A u \in Tid : cached'[u] \in {u, NoTid}
    PROVE  IInv'
<1>1. UNCHANGED tracerVars /\ pipe' = pipe /\ seen' = seen
  OBVIOUS
<1>2. t \notin seen /\ \A i \in DOMAIN pipe : pipe[i].from # t
  BY RunningThread
<1>3. \A u \in seen' : phase'[u] = phase[u]
  BY <1>1, <1>2 DEF IInv, HeldIsQueued, SyscallStops, TypeOK
<1>4. \A i \in DOMAIN pipe : pipe[i].from \in Tid /\ phase[pipe[i].from] # "none"
  BY PipeFacts DEF IInv, OneUpdatePending
<1>5. \A i \in DOMAIN pipe : phase'[pipe[i].from] = phase[pipe[i].from]
  BY <1>2, <1>4
<1>6. OneUpdatePending'
  BY <1>1, <1>5 DEF IInv, OneUpdatePending
<1>7. HonestIds'
  BY <1>1 DEF IInv, HonestIds
<1> QED
  BY <1>1, <1>3, <1>6, <1>7, ThreadStep

\* Every action of a traced thread preserves the invariant.
LEMMA ThreadActions ==
    ASSUME IInv, NEW t \in Tid,
           \/ \E k \in Calls : EnterSyscall(t, k)
           \/ EnterWindow(t) \/ ExitWindow(t)
           \/ Run(t) \/ Signal(t) \/ Kill(t)
    PROVE  IInv'
<1> USE DEF kernelVars, tracerVars
<1>0. TypeOK /\ (SingleProcess => \A u \in Tid : cached[u] \in {u, NoTid})
  BY DEF IInv, HonestIds
<1>0a. current_tid(t) \in Tid /\ (SingleProcess => current_tid(t) = t)
  BY <1>0 DEF current_tid, TypeOK
<1>1. ASSUME NEW k \in Calls, EnterSyscall(t, k) PROVE IInv'
  <2>1. TypeOK'
    BY <1>0, <1>1, CallsAssumption
       DEF EnterSyscall, MayEnter, TypeOK, Phases, Stops, SyscallStops
  <2> QED
    BY <1>0, <1>1, <2>1, PlainThreadStep DEF EnterSyscall, MayEnter, TypeOK
<1>2. CASE EnterWindow(t)
  <2>0. depth[t] + 1 \in 0..MaxDepth
    BY <1>0, <1>2, BoundAssumption DEF EnterWindow, TypeOK
  <2>1. TypeOK'
    BY <1>0, <1>0a, <1>2, <2>0
       DEF EnterWindow, MayEnter, TypeOK, Phases, Stops, SyscallStops
  <2> QED
    BY <1>0, <1>0a, <1>2, <2>1, PlainThreadStep DEF EnterWindow, MayEnter, TypeOK
<1>3. CASE ExitWindow(t)
  <2>0. depth[t] - 1 \in 0..MaxDepth
    BY <1>0, <1>3, BoundAssumption DEF ExitWindow, TypeOK
  <2>1. TypeOK'
    BY <1>0, <1>0a, <1>3, <2>0
       DEF ExitWindow, MayEnter, TypeOK, Phases, Stops, SyscallStops
  <2> QED
    BY <1>0, <1>0a, <1>3, <2>1, PlainThreadStep DEF ExitWindow, MayEnter, TypeOK
<1>4. CASE RunPublish(t)
  <2> DEFINE msg == [tid |-> current_tid(t), depth |-> depth[t], from |-> t]
  <2>0. msg \in Update /\ msg.from = t /\ msg.tid = current_tid(t)
    BY <1>0, <1>0a, BoundAssumption DEF TypeOK, Update
  <2>0a. pipe' = pipe \/ pipe' = Append(pipe, msg)
    BY <1>4 DEF RunPublish
  <2> HIDE DEF msg
  <2>1. pipe' \in Seq(Update)
    <3>1. pipe \in Seq(Update)
      BY <1>0 DEF TypeOK
    <3>2. Append(pipe, msg) \in Seq(Update)
      BY <3>1, <2>0, AppendProperties
    <3> QED
      BY <2>0a, <3>1, <3>2
  <2>2. TypeOK'
    BY <1>0, <1>4, <2>1 DEF RunPublish, TypeOK, Phases, Stops, SyscallStops
  <2>3. t \notin seen /\ \A i \in DOMAIN pipe : pipe[i].from # t
    BY <1>4, RunningThread DEF RunPublish
  <2>4. phase'[t] = "exit" /\ \A u \in Tid \ {t} : phase'[u] = phase[u]
    BY <1>0, <1>4 DEF RunPublish, TypeOK
  <2>5. \A i \in DOMAIN pipe : pipe[i].from \in Tid
    BY <1>0, PipeFacts
  <2>6. OneUpdatePending'
    <3>1. CASE pipe' = pipe
      BY <2>3, <2>4, <2>5, <3>1 DEF IInv, OneUpdatePending
    <3>2. CASE pipe' = Append(pipe, msg)
      <4>1. Len(pipe) \in Nat /\ DOMAIN pipe = 1..Len(pipe)
        BY <1>0 DEF TypeOK
      <4>2. DOMAIN pipe' = 1..Len(pipe) + 1
        BY <1>0, <3>2 DEF TypeOK
      <4>3. \A i \in 1..Len(pipe) : pipe'[i] = pipe[i]
        BY <1>0, <3>2 DEF TypeOK
      <4>4. pipe'[Len(pipe) + 1] = msg
        BY <1>0, <3>2 DEF TypeOK
      <4>5. \A i \in DOMAIN pipe' : i \in 1..Len(pipe) \/ i = Len(pipe) + 1
        BY <4>1, <4>2
      <4> QED
        BY <2>0, <2>3, <2>4, <2>5, <4>1, <4>3, <4>4, <4>5 DEF IInv, OneUpdatePending
    <3> QED
      BY <3>1, <3>2, <2>0a
  <2>7. HonestIds'
    <3> SUFFICES ASSUME SingleProcess
                 PROVE  /\ \A u \in Tid : cached'[u] \in {u, NoTid}
                        /\ \A i \in DOMAIN pipe' : pipe'[i].tid = pipe'[i].from
      BY DEF HonestIds
    <3>1. \A i \in DOMAIN pipe : pipe[i].tid = pipe[i].from
      BY DEF IInv, HonestIds
    <3>2. msg.tid = msg.from
      BY <1>0a, <2>0
    <3>3. cached' = cached
      BY <1>4 DEF RunPublish
    <3>4. \A i \in DOMAIN pipe' : pipe'[i].tid = pipe'[i].from
      <4>1. CASE pipe' = pipe
        BY <3>1, <4>1
      <4>2. CASE pipe' = Append(pipe, msg)
        BY <1>0, <3>1, <3>2, <4>2 DEF TypeOK
      <4> QED
        BY <2>0a, <4>1, <4>2
    <3> QED
      BY <1>0, <3>3, <3>4
  <2> QED
    BY <1>0, <1>4, <2>2, <2>3, <2>4, <2>6, <2>7, ThreadStep DEF RunPublish, TypeOK
<1>5. CASE RunWork(t)
  <2>1. TypeOK'
    BY <1>0, <1>5 DEF RunWork, TypeOK, Phases, Stops, SyscallStops, CallKinds
  <2> QED
    BY <1>0, <1>5, <2>1, PlainThreadStep DEF RunWork, TypeOK
<1>6. CASE RunClone(t)
  <2>1. PICK u \in Tid :
          /\ phase[u] = "none"
          /\ phase' = [phase EXCEPT ![t] = "cloned", ![u] = "newborn"]
          /\ child' = [child EXCEPT ![t] = u]
          /\ LET origin == IF ProcOf[u] = ProcOf[t] THEN u ELSE t
             IN /\ depth' = [depth EXCEPT ![u] = depth[origin]]
                /\ cached' = [cached EXCEPT ![u] = cached[origin]]
    BY <1>6 DEF RunClone
  <2> DEFINE o == IF ProcOf[u] = ProcOf[t] THEN u ELSE t
  <2>1a. /\ o \in Tid
         /\ SingleProcess => o = u
         /\ depth' = [depth EXCEPT ![u] = depth[o]]
         /\ cached' = [cached EXCEPT ![u] = cached[o]]
    BY <2>1 DEF SingleProcess
  <2> HIDE DEF o
  <2>1b. /\ depth' \in [Tid -> 0..MaxDepth]
         /\ cached' \in [Tid -> Tid \cup {NoTid}]
    <3>1. depth[o] \in 0..MaxDepth /\ cached[o] \in Tid \cup {NoTid}
      BY <1>0, <2>1a DEF TypeOK
    <3> QED
      BY <1>0, <2>1a, <3>1 DEF TypeOK
  <2>2. TypeOK'
    BY <1>0, <1>6, <2>1, <2>1b
       DEF RunClone, TypeOK, Phases, Stops, SyscallStops, CallKinds
  <2>3. phase[t] = "kernel" /\ phase'[t] = "cloned"
    BY <1>0, <1>6, <2>1 DEF RunClone, TypeOK
  <2>4. \A v \in Tid \ {t} : phase'[v] = phase[v] \/ phase[v] = "none"
    BY <1>0, <2>1 DEF TypeOK
  <2>5. SingleProcess => \A v \in Tid : cached'[v] \in {v, NoTid}
    BY <1>0, <2>1a DEF TypeOK
  <2> QED
    BY <1>6, <2>2, <2>3, <2>4, <2>5, PlainThreadStep DEF RunClone
<1>7. CASE RunCloneFails(t)
  <2>1. TypeOK'
    BY <1>0, <1>7 DEF RunCloneFails, TypeOK, Phases, Stops, SyscallStops
  <2> QED
    BY <1>0, <1>7, <2>1, PlainThreadStep DEF RunCloneFails, TypeOK
<1>8. CASE RunQuit(t)
  <2>1. TypeOK'
    BY <1>0, <1>8 DEF RunQuit, TypeOK, Phases, Stops, SyscallStops
  <2> QED
    BY <1>0, <1>8, <2>1, PlainThreadStep DEF RunQuit, TypeOK
<1>9. CASE Signal(t)
  <2>1. TypeOK'
    BY <1>0, <1>9 DEF Signal, TypeOK, Phases, Stops, SyscallStops
  <2> QED
    BY <1>0, <1>9, <2>1, PlainThreadStep DEF Signal, TypeOK
<1>10. CASE Kill(t)
  <2>1. PICK last \in {"dying", "zombie"} :
          phase' = [u \in Tid |-> IF u \in Killed(t) THEN last ELSE phase[u]]
    BY <1>10 DEF Kill, KillGroup
  <2>2. seen' = seen \ Killed(t)
    BY <1>10 DEF Kill, KillGroup
  <2>3. Killed(t) \subseteq Tid
    BY DEF Killed, Group
  <2>4. TypeOK'
    BY <1>0, <1>10, <2>1, <2>2 DEF Kill, TypeOK, Phases, Stops
  <2>5. \A u \in seen' : phase'[u] = phase[u]
    BY <1>0, <2>1, <2>2 DEF TypeOK
  <2>6. \A u \in Tid : phase'[u] = "none" => phase[u] = "none"
    BY <2>1
  <2>7. \A i \in DOMAIN pipe : pipe[i].from \in Tid
    BY <1>0, PipeFacts
  <2>8. pipe' = pipe /\ cached' = cached
    BY <1>10 DEF Kill
  <2>9. OneUpdatePending' /\ HonestIds'
    BY <2>1, <2>7, <2>8 DEF IInv, OneUpdatePending, HonestIds
  <2> QED
    BY <1>10, <2>2, <2>4, <2>5, <2>6, <2>9, ThreadStep DEF Kill
<1> QED
  BY <1>1, <1>2, <1>3, <1>4, <1>5, <1>6, <1>7, <1>8, <1>9, <1>10 DEF Run

-----------------------------------------------------------------------------
(* Steps of the tracer.                                                     *)

\* ptrace_syscall on the threads of S leaves the others where they are.
LEMMA ResumeStep ==
    ASSUME NEW ph \in [Tid -> Phases], NEW S, Resume(ph, S)
    PROVE  /\ phase' \in [Tid -> Phases]
           /\ seen' = seen \ S
           /\ \A u \in Tid \ S : phase'[u] = ph[u]
           /\ \A u \in Tid : phase'[u] = "none" => ph[u] = "none"
BY ResumeFacts DEF Resume

\* A thread with a stop to report exists and is not held.
LEMMA WaitPidFacts ==
    ASSUME NEW t, NEW p, WaitPid(t, p)
    PROVE  phase[t] # "none" /\ t \notin seen /\ pipe' = <<>>
BY DEF WaitPid, Stops, SyscallStops

\* An iteration that drains the pipe, resumes some threads and changes the
\* state of one thread t that is not held preserves the invariant, if state,
\* capture and queue agree afterwards.
LEMMA HandlerStep ==
    ASSUME IInv, TypeOK', pipe' = <<>>, window' = Drained,
           cached' = cached,
           NEW t \in Tid, phase[t] # "none",
           seen' \subseteq seen \cup {t},
           \A u \in seen' : phase'[u] = phase[u],
           \A u \in Tid : phase'[u] = "none" => phase[u] = "none",
           \A u \in Tid \ {t} : states'[u] = states[u],
           Elems(queue) \subseteq Elems(queue'),
           Elems(queue') \subseteq Elems(queue) \cup {t},
           capture' \in {capture, t},
           t \in seen' => /\ phase[t] \in SyscallStops
                          /\ t \in Elems(queue')
                          /\ states'[t].active /\ states'[t].fgraph_waiting,
           CaptureMatchesState', NoStrandedWaiter', QueueHasNoDuplicates'
    PROVE  IInv'
<1>0. TypeOK /\ OneUpdatePending
  BY DEF IInv
<1>1. HeldIsQueued'
  <2> SUFFICES ASSUME NEW u \in seen'
               PROVE  /\ phase'[u] \in SyscallStops
                      /\ u \in Elems(queue')
                      /\ states'[u].active /\ states'[u].fgraph_waiting
    BY DEF HeldIsQueued
  <2>1. CASE u = t
    BY <2>1
  <2>2. CASE u # t
    <3>1. u \in seen /\ u \in Tid
      BY <1>0, <2>2 DEF TypeOK
    <3>2. phase'[u] = phase[u] /\ states'[u] = states[u]
      BY <2>2, <3>1
    <3>3. phase[u] \in SyscallStops /\ u \in Elems(queue)
          /\ states[u].active /\ states[u].fgraph_waiting
      BY <3>1 DEF IInv, HeldIsQueued
    <3> QED
      BY <3>2, <3>3
  <2> QED
    BY <2>1, <2>2
<1>2. OneUpdatePending' /\ HonestIds'
  BY DEF IInv, OneUpdatePending, HonestIds
<1>3. NothingLeftOfTheDead'
  <2> SUFFICES ASSUME NEW u \in Tid, phase'[u] = "none"
               PROVE  /\ states'[u] = DefaultState
                      /\ capture' # u
                      /\ u \notin Elems(queue') \cup seen'
                      /\ SingleProcess => window'[u] = 0
    BY DEF NothingLeftOfTheDead
  <2>1. phase[u] = "none" /\ u # t
    OBVIOUS
  <2>2. /\ states[u] = DefaultState
        /\ capture # u
        /\ u \notin Elems(queue) \cup seen
    BY <2>1 DEF IInv, NothingLeftOfTheDead
  <2>3. SingleProcess => window'[u] = 0
    BY <2>1, DrainedDead
  <2> QED
    BY <2>1, <2>2, <2>3
<1> QED
  BY <1>1, <1>2, <1>3 DEF IInv

\* An iteration that changes no state, capture or queue.
LEMMA QuietHandlerStep ==
    ASSUME IInv, TypeOK', pipe' = <<>>, window' = Drained,
           UNCHANGED <<states, capture, queue, cached>>,
           NEW t \in Tid, phase[t] # "none",
           seen' \subseteq seen,
           \A u \in seen' : phase'[u] = phase[u],
           \A u \in Tid : phase'[u] = "none" => phase[u] = "none"
    PROVE  IInv'
<1>1. CaptureMatchesState' /\ NoStrandedWaiter' /\ QueueHasNoDuplicates'
  BY DEF IInv, CaptureMatchesState, NoStrandedWaiter, QueueHasNoDuplicates
<1>2. Elems(queue') = Elems(queue)
  OBVIOUS
<1>3. t \in seen' => /\ phase[t] \in SyscallStops
                     /\ t \in Elems(queue')
                     /\ states'[t].active /\ states'[t].fgraph_waiting
  BY <1>2 DEF IInv, HeldIsQueued
<1> QED
  BY <1>1, <1>2, <1>3, HandlerStep

\* Every iteration of the loop preserves the invariant.
LEMMA TracerActions ==
    ASSUME IInv, NEW t \in Tid, Handle(t)
    PROVE  IInv'
<1>0. /\ TypeOK /\ OneUpdatePending /\ phase \in [Tid -> Phases]
      /\ states[t] \in SyscallState
      /\ states \in [Tid -> SyscallState]
      /\ queue \in Seq(Tid)
      /\ seen \in SUBSET Tid
      /\ Drained \in [Tid -> Nat]
      /\ <<>> \in Seq(Update)
  BY DrainFacts DEF IInv, TypeOK
<1>1. CASE HandleEntryPlain(t)
  <2>1. phase[t] # "none" /\ t \notin seen /\ pipe' = <<>>
    BY <1>1, WaitPidFacts DEF HandleEntryPlain
  <2>2. PICK i \in BOOLEAN :
          states' = [states EXCEPT ![t] = EntryState(i, FALSE, FALSE)]
    BY <1>1 DEF HandleEntryPlain
  <2>3. EntryState(i, FALSE, FALSE) \in SyscallState
    BY DEF EntryState, SyscallState
  <2>4. /\ window' = Drained /\ Resume(phase, {t}) /\ skipped' = skipped \ {t}
        /\ UNCHANGED <<kind, child, depth, cached, capture, queue, running>>
    BY <1>1 DEF HandleEntryPlain
  <2>5. /\ phase' \in [Tid -> Phases]
        /\ seen' = seen \ {t}
        /\ \A u \in Tid \ {t} : phase'[u] = phase[u]
        /\ \A u \in Tid : phase'[u] = "none" => phase[u] = "none"
    BY <1>0, <2>4, ResumeStep
  <2>6. TypeOK'
    <3>1. states' \in [Tid -> SyscallState]
      BY <1>0, <2>2, <2>3
    <3> QED
      BY <1>0, <2>1, <2>2, <2>4, <2>5, <3>1 DEF TypeOK
  <2>7. CaptureMatchesState'
    BY <1>0, <1>1, <2>2, <2>4
       DEF IInv, CaptureMatchesState, EntryState, SyscallState, HandleEntryPlain
  <2>8. NoStrandedWaiter' /\ QueueHasNoDuplicates'
    BY <2>4 DEF IInv, NoStrandedWaiter, QueueHasNoDuplicates
  <2>9. Elems(queue') = Elems(queue) /\ capture' = capture
    BY <2>4
  <2>10. \A u \in Tid \ {t} : states'[u] = states[u]
    BY <1>0, <2>2
  <2>11. t \notin seen' /\ seen' \subseteq seen
         /\ \A u \in seen' : phase'[u] = phase[u]
    BY <1>0, <2>5
  <2> QED
    BY <2>1, <2>4, <2>5, <2>6, <2>7, <2>8, <2>9, <2>10, <2>11, HandlerStep
<1>2. CASE HandleEntryBegin(t)
  <2>1. phase[t] # "none" /\ t \notin seen /\ pipe' = <<>>
    BY <1>2, WaitPidFacts DEF HandleEntryBegin
  <2>2. PICK c \in BOOLEAN :
          /\ states' = [states EXCEPT ![t] = EntryState(FALSE, FALSE, c)]
          /\ capture' = IF c THEN t ELSE NoTid
          /\ skipped' \in {skipped \ {t}, skipped \cup {t}}
    BY <1>2 DEF HandleEntryBegin, BeginCapture
  <2>3. EntryState(FALSE, FALSE, c) \in SyscallState
    BY DEF EntryState, SyscallState
  <2>4. /\ window' = Drained /\ Resume(phase, {t}) /\ capture = NoTid
        /\ UNCHANGED <<kind, child, depth, cached, queue, running>>
    BY <1>2 DEF HandleEntryBegin
  <2>5. /\ phase' \in [Tid -> Phases]
        /\ seen' = seen \ {t}
        /\ \A u \in Tid \ {t} : phase'[u] = phase[u]
        /\ \A u \in Tid : phase'[u] = "none" => phase[u] = "none"
    BY <1>0, <2>4, ResumeStep
  <2>6. TypeOK'
    <3>1. states' \in [Tid -> SyscallState]
      BY <1>0, <2>2, <2>3
    <3> QED
      BY <1>0, <2>1, <2>2, <2>4, <2>5, <3>1 DEF TypeOK
  <2>7. CaptureMatchesState'
    BY <1>0, <2>2, <2>4, TidAssumption
       DEF IInv, CaptureMatchesState, EntryState, SyscallState
  <2>8. NoStrandedWaiter' /\ QueueHasNoDuplicates'
    BY <2>4 DEF IInv, NoStrandedWaiter, QueueHasNoDuplicates
  <2>9. Elems(queue') = Elems(queue) /\ capture' \in {capture, t}
    BY <2>2, <2>4
  <2>10. \A u \in Tid \ {t} : states'[u] = states[u]
    BY <1>0, <2>2
  <2>11. t \notin seen' /\ seen' \subseteq seen
         /\ \A u \in seen' : phase'[u] = phase[u]
    BY <1>0, <2>5
  <2> QED
    BY <2>1, <2>4, <2>5, <2>6, <2>7, <2>8, <2>9, <2>10, <2>11, HandlerStep
<1>3. CASE HandleEntryHold(t)
  <2>1. phase[t] # "none" /\ t \notin seen /\ pipe' = <<>>
    BY <1>3, WaitPidFacts DEF HandleEntryHold
  <2>2. /\ states' = [states EXCEPT ![t] = EntryState(FALSE, TRUE, FALSE)]
        /\ queue' = IF t \in Elems(queue) THEN queue ELSE Append(queue, t)
        /\ window' = Drained /\ capture # NoTid
        /\ seen' = seen \cup {t} /\ skipped' = skipped \ {t}
        /\ UNCHANGED <<phase, kind, child, depth, cached, capture, running>>
        /\ ~states[t].active
    BY <1>3 DEF HandleEntryHold
  <2>3. EntryState(FALSE, TRUE, FALSE) \in SyscallState
    BY DEF EntryState, SyscallState
  <2>4. phase[t] \in SyscallStops
    BY <1>3 DEF HandleEntryHold, WaitPid
  <2>5. /\ queue' \in Seq(Tid) /\ QueueHasNoDuplicates'
        /\ Elems(queue') = Elems(queue) \cup {t}
    <3>1. NoDuplicates(queue)
      BY DEF IInv, QueueHasNoDuplicates, NoDuplicates
    <3>2. CASE t \in Elems(queue)
      BY <1>0, <2>2, <3>1, <3>2 DEF QueueHasNoDuplicates, NoDuplicates
    <3>3. CASE t \notin Elems(queue)
      BY <1>0, <2>2, <3>1, <3>3, AppendFacts DEF QueueHasNoDuplicates, NoDuplicates
    <3> QED
      BY <3>2, <3>3
  <2>6. TypeOK'
    <3>1. states' \in [Tid -> SyscallState]
      BY <1>0, <2>2, <2>3
    <3> QED
      BY <1>0, <2>1, <2>2, <2>5, <3>1 DEF TypeOK
  <2>7. CaptureMatchesState'
    BY <1>0, <2>2 DEF IInv, CaptureMatchesState, EntryState, SyscallState
  <2>8. NoStrandedWaiter'
    BY <2>2 DEF NoStrandedWaiter
  <2>9. states'[t].active /\ states'[t].fgraph_waiting
    BY <1>0, <2>2 DEF EntryState
  <2>10. \A u \in Tid \ {t} : states'[u] = states[u]
    BY <1>0, <2>2
  <2> QED
    BY <2>1, <2>2, <2>4, <2>5, <2>6, <2>7, <2>8, <2>9, <2>10, HandlerStep
<1>4. CASE HandleExitPlain(t)
  <2>1. phase[t] # "none" /\ t \notin seen /\ pipe' = <<>>
    BY <1>4, WaitPidFacts DEF HandleExitPlain
  <2>2. /\ states' = [states EXCEPT ![t] = ExitState(states[t])]
        /\ ~states[t].fgraph_capturing
    BY <1>0, <1>4 DEF HandleExitPlain
  <2>3. ExitState(states[t]) \in SyscallState
    BY <1>0 DEF ExitState, SyscallState
  <2>4. /\ window' = Drained /\ Resume(phase, {t}) /\ skipped' = skipped \ {t}
        /\ UNCHANGED <<kind, child, depth, cached, capture, queue, running>>
    BY <1>4 DEF HandleExitPlain
  <2>5. /\ phase' \in [Tid -> Phases]
        /\ seen' = seen \ {t}
        /\ \A u \in Tid \ {t} : phase'[u] = phase[u]
        /\ \A u \in Tid : phase'[u] = "none" => phase[u] = "none"
    BY <1>0, <2>4, ResumeStep
  <2>6. TypeOK'
    <3>1. states' \in [Tid -> SyscallState]
      BY <1>0, <2>2, <2>3
    <3> QED
      BY <1>0, <2>1, <2>2, <2>4, <2>5, <3>1 DEF TypeOK
  <2>7. CaptureMatchesState'
    BY <1>0, <2>2, <2>4 DEF IInv, CaptureMatchesState, ExitState, SyscallState
  <2>8. NoStrandedWaiter' /\ QueueHasNoDuplicates'
    BY <2>4 DEF IInv, NoStrandedWaiter, QueueHasNoDuplicates
  <2>9. Elems(queue') = Elems(queue) /\ capture' = capture
    BY <2>4
  <2>10. \A u \in Tid \ {t} : states'[u] = states[u]
    BY <1>0, <2>2
  <2>11. t \notin seen' /\ seen' \subseteq seen
         /\ \A u \in seen' : phase'[u] = phase[u]
    BY <1>0, <2>5
  <2> QED
    BY <2>1, <2>4, <2>5, <2>6, <2>7, <2>8, <2>9, <2>10, <2>11, HandlerStep
<1>5. CASE HandleExitCaptured(t)
  <2> DEFINE st == [states EXCEPT ![t] = ExitState(states[t])]
  <2>1. phase[t] # "none" /\ t \notin seen /\ pipe' = <<>>
    BY <1>5, WaitPidFacts DEF HandleExitCaptured
  <2>2. /\ ReleaseWaiting(queue, st, phase, Drained, {t})
        /\ states[t].fgraph_capturing
        /\ window' = Drained
        /\ UNCHANGED <<kind, child, depth, cached, running>>
    BY <1>0, <1>5 DEF HandleExitCaptured
  <2>3. st \in [Tid -> SyscallState]
    BY <1>0 DEF ExitState, SyscallState
  <2>4. \A u \in Tid \ {t} : st[u] = states[u]
    BY <1>0
  <2>5. \A u \in Tid : ~st[u].fgraph_capturing
    BY <1>0, <2>2 DEF IInv, CaptureMatchesState, ExitState, SyscallState
  <2> HIDE DEF st
  <2>6. NoDuplicates(queue)
    BY DEF IInv, QueueHasNoDuplicates, NoDuplicates
  <2>7. \A u \in seen \ {t} : /\ phase[u] \in SyscallStops
                              /\ u \in Elems(queue)
                              /\ st[u].active /\ st[u].fgraph_waiting
    BY <1>0, <2>4 DEF IInv, HeldIsQueued
  <2>8. \A u \in Tid : phase[u] = "none" =>
          st[u] = DefaultState /\ u \notin Elems(queue) \cup seen
    BY <2>1, <2>4 DEF IInv, NothingLeftOfTheDead
  <2>9. skipped \in SUBSET Tid
    BY <1>0 DEF TypeOK
  <2>10. /\ phase' \in [Tid -> Phases]
         /\ seen' \in SUBSET Tid
         /\ states' \in [Tid -> SyscallState]
         /\ capture' \in Tid \cup {NoTid}
         /\ queue' \in Seq(Tid)
         /\ skipped' \in SUBSET Tid
         /\ CaptureMatchesState' /\ HeldIsQueued'
         /\ NoStrandedWaiter' /\ QueueHasNoDuplicates'
         /\ \A u \in Tid : phase'[u] = "none" =>
              /\ phase[u] = "none"
              /\ states'[u] = DefaultState
              /\ capture' # u
              /\ u \notin Elems(queue') \cup seen'
    <3>1. {t} \in SUBSET Tid
      OBVIOUS
    <3>2. /\ phase' \in [Tid -> Phases]
          /\ seen' \in SUBSET Tid
          /\ states' \in [Tid -> SyscallState]
          /\ capture' \in Tid \cup {NoTid}
          /\ queue' \in Seq(Tid)
          /\ skipped' \in SUBSET Tid
          /\ CaptureMatchesState' /\ HeldIsQueued'
          /\ NoStrandedWaiter' /\ QueueHasNoDuplicates'
          /\ \A u \in Tid : phase'[u] = "none" => phase[u] = "none"
          /\ LeavesAlone(queue, st)
      BY <1>0, <2>2, <2>3, <2>5, <2>6, <2>7, <2>9, <3>1, ReleaseFacts, Zenon
    <3> QED
      BY <2>8, <3>2 DEF LeavesAlone
  <2>11. TypeOK'
    BY <1>0, <2>1, <2>2, <2>10 DEF TypeOK
  <2>12. OneUpdatePending' /\ HonestIds'
    BY <2>1, <2>2 DEF IInv, OneUpdatePending, HonestIds
  <2>13. NothingLeftOfTheDead'
    <3>1. SingleProcess => \A u \in Tid : phase[u] = "none" => Drained[u] = 0
      BY DrainedDead
    <3> QED
      BY <2>1, <2>2, <2>10, <3>1 DEF NothingLeftOfTheDead
  <2> QED
    BY <2>10, <2>11, <2>12, <2>13 DEF IInv
<1>6. CASE HandleVanished(t)
  <2> DEFINE K == Killed(ProcOf[t])
  <2>1. phase[t] # "none" /\ t \notin seen /\ pipe' = <<>>
    BY <1>6, WaitPidFacts DEF HandleVanished
  <2>2. /\ window' = Drained /\ seen' = seen \ K
        /\ UNCHANGED <<kind, child, depth, cached, states, capture, queue, running, skipped>>
    BY <1>6 DEF HandleVanished, KillGroup
  <2>3. PICK last \in {"dying", "zombie"} :
          phase' = [u \in Tid |-> IF u \in K THEN last ELSE phase[u]]
    BY <1>6 DEF HandleVanished, KillGroup
  <2> HIDE DEF K
  <2>4. phase' \in [Tid -> Phases]
    BY <1>0, <2>3 DEF Phases, Stops
  <2>5. TypeOK'
    BY <1>0, <2>1, <2>2, <2>4 DEF TypeOK
  <2>6. \A u \in seen' : phase'[u] = phase[u]
    BY <1>0, <2>2, <2>3
  <2>7. \A u \in Tid : phase'[u] = "none" => phase[u] = "none"
    BY <2>3
  <2> QED
    BY <2>1, <2>2, <2>5, <2>6, <2>7, QuietHandlerStep
<1>7. CASE HandleClone(t)
  <2>1. phase[t] # "none" /\ t \notin seen /\ pipe' = <<>>
    BY <1>7, WaitPidFacts DEF HandleClone
  <2>2. /\ window' = Drained /\ Resume(phase, {child[t], t})
        /\ child' = [child EXCEPT ![t] = t]
        /\ UNCHANGED <<kind, depth, cached, states, capture, queue, running, skipped>>
    BY <1>7 DEF HandleClone
  <2>3. /\ phase' \in [Tid -> Phases]
        /\ seen' = seen \ {child[t], t}
        /\ \A u \in Tid \ {child[t], t} : phase'[u] = phase[u]
        /\ \A u \in Tid : phase'[u] = "none" => phase[u] = "none"
    BY <1>0, <2>2, ResumeStep
  <2>4. TypeOK'
    BY <1>0, <2>1, <2>2, <2>3 DEF TypeOK
  <2>5. seen' \subseteq seen /\ \A u \in seen' : phase'[u] = phase[u]
    BY <1>0, <2>3
  <2> QED
    BY <2>1, <2>2, <2>3, <2>4, <2>5, QuietHandlerStep
<1>8. CASE HandleOther(t)
  <2>1. phase[t] # "none" /\ t \notin seen /\ pipe' = <<>>
    BY <1>8, WaitPidFacts DEF HandleOther
  <2>2. /\ window' = Drained /\ Resume(phase, {t})
        /\ UNCHANGED <<kind, child, depth, cached, states, capture, queue, running, skipped>>
    BY <1>8 DEF HandleOther
  <2>3. /\ phase' \in [Tid -> Phases]
        /\ seen' = seen \ {t}
        /\ \A u \in Tid \ {t} : phase'[u] = phase[u]
        /\ \A u \in Tid : phase'[u] = "none" => phase[u] = "none"
    BY <1>0, <2>2, ResumeStep
  <2>4. TypeOK'
    BY <1>0, <2>1, <2>2, <2>3 DEF TypeOK
  <2>5. seen' \subseteq seen /\ \A u \in seen' : phase'[u] = phase[u]
    BY <1>0, <2>3
  <2> QED
    BY <2>1, <2>2, <2>3, <2>4, <2>5, QuietHandlerStep
<1>9. CASE HandleGone(t)
  <2> DEFINE q == Forget(t, queue)
             st == [states EXCEPT ![t] = DefaultState]
             ph == [phase EXCEPT ![t] = "none"]
  <2>1. /\ phase[t] = "zombie" /\ pipe' = <<>>
        /\ window' = [Drained EXCEPT ![t] = 0]
        /\ kind' = [kind EXCEPT ![t] = "work"]
        /\ child' = [child EXCEPT ![t] = t]
        /\ depth' = [depth EXCEPT ![t] = 0]
        /\ cached' = [cached EXCEPT ![t] = NoTid]
        /\ running' = running
    BY <1>9 DEF HandleGone
  <2>2. NoDuplicates(queue)
    BY DEF IInv, QueueHasNoDuplicates, NoDuplicates
  <2>3. q \in Seq(Tid) /\ NoDuplicates(q) /\ Elems(q) = Elems(queue) \ {t}
    BY <1>0, <2>2, ForgetFacts
  <2>4. st \in [Tid -> SyscallState] /\ ph \in [Tid -> Phases]
        /\ window' \in [Tid -> Nat]
    BY <1>0, <2>1 DEF DefaultState, SyscallState, Phases
  <2>5. /\ st[t] = DefaultState /\ \A u \in Tid \ {t} : st[u] = states[u]
        /\ ph[t] = "none" /\ \A u \in Tid \ {t} : ph[u] = phase[u]
    BY <1>0
  <2>6. \/ /\ capture \in {t, NoTid}
           /\ ReleaseWaiting(q, st, ph, window', {})
        \/ /\ capture \notin {t, NoTid}
           /\ queue' = q
           /\ states' = st
           /\ phase' = ph
           /\ skipped' = skipped \ {t}
           /\ UNCHANGED <<capture, seen>>
    BY <1>9 DEF HandleGone
  <2> HIDE DEF q, st, ph
  <2>7. t \notin seen
    BY <2>1 DEF IInv, HeldIsQueued, SyscallStops
  <2>8. \A u \in seen : /\ ph[u] \in SyscallStops
                        /\ u \in Elems(q)
                        /\ st[u].active /\ st[u].fgraph_waiting
    BY <1>0, <2>3, <2>5, <2>7 DEF IInv, HeldIsQueued
  <2>9. \A u \in Tid : ph[u] = "none" =>
          st[u] = DefaultState /\ u \notin Elems(q) \cup seen
    BY <2>3, <2>5, <2>7 DEF IInv, NothingLeftOfTheDead
  <2>10. SingleProcess => \A u \in Tid : ph[u] = "none" => window'[u] = 0
    BY <1>0, <2>1, <2>5, DrainedDead
  <2>11. OneUpdatePending' /\ HonestIds'
    BY <1>0, <2>1 DEF IInv, OneUpdatePending, HonestIds, TypeOK
  <2>12. /\ skipped \in SUBSET Tid
         /\ kind' \in [Tid -> CallKinds \cup {"publish"}]
         /\ child' \in [Tid -> Tid]
         /\ depth' \in [Tid -> 0..MaxDepth]
         /\ cached' \in [Tid -> Tid \cup {NoTid}]
         /\ running' \in BOOLEAN
    BY <1>0, <2>1, BoundAssumption DEF TypeOK, CallKinds
  <2>13. CASE capture \in {t, NoTid}
    <3>1. ReleaseWaiting(q, st, ph, window', {})
      BY <2>6, <2>13
    <3>2. \A u \in Tid : ~st[u].fgraph_capturing
      BY <2>5, <2>13, TidAssumption DEF IInv, CaptureMatchesState, DefaultState
    <3>3. \A u \in seen \ {} : /\ ph[u] \in SyscallStops
                               /\ u \in Elems(q)
                               /\ st[u].active /\ st[u].fgraph_waiting
      BY <2>8
    <3>4. /\ phase' \in [Tid -> Phases]
          /\ seen' \in SUBSET Tid
          /\ states' \in [Tid -> SyscallState]
          /\ capture' \in Tid \cup {NoTid}
          /\ queue' \in Seq(Tid)
          /\ skipped' \in SUBSET Tid
          /\ CaptureMatchesState' /\ HeldIsQueued'
          /\ NoStrandedWaiter' /\ QueueHasNoDuplicates'
          /\ \A u \in Tid : phase'[u] = "none" =>
               /\ ph[u] = "none"
               /\ states'[u] = DefaultState
               /\ capture' # u
               /\ u \notin Elems(queue') \cup seen'
      <4>1. {} \in SUBSET Tid
        OBVIOUS
      <4>2. /\ phase' \in [Tid -> Phases]
            /\ seen' \in SUBSET Tid
            /\ states' \in [Tid -> SyscallState]
            /\ capture' \in Tid \cup {NoTid}
            /\ queue' \in Seq(Tid)
            /\ skipped' \in SUBSET Tid
            /\ CaptureMatchesState' /\ HeldIsQueued'
            /\ NoStrandedWaiter' /\ QueueHasNoDuplicates'
            /\ \A u \in Tid : phase'[u] = "none" => ph[u] = "none"
            /\ LeavesAlone(q, st)
        BY <1>0, <2>3, <2>4, <2>12, <3>1, <3>2, <3>3, <4>1, ReleaseFacts, Zenon
      <4> QED
        BY <2>9, <4>2 DEF LeavesAlone
    <3>5. TypeOK'
      BY <1>0, <2>1, <2>4, <2>12, <3>4 DEF TypeOK
    <3>6. NothingLeftOfTheDead'
      BY <2>1, <2>10, <3>4 DEF NothingLeftOfTheDead
    <3> QED
      BY <2>11, <3>4, <3>5, <3>6 DEF IInv
  <2>14. CASE capture \notin {t, NoTid}
    <3>1. /\ queue' = q /\ states' = st /\ phase' = ph
          /\ skipped' = skipped \ {t} /\ capture' = capture /\ seen' = seen
      BY <2>6, <2>14
    <3>2. TypeOK'
      BY <1>0, <2>1, <2>3, <2>4, <2>12, <3>1 DEF TypeOK
    <3>3. CaptureMatchesState'
      BY <2>5, <2>14, <3>1 DEF IInv, CaptureMatchesState, DefaultState
    <3>4. HeldIsQueued'
      BY <2>8, <3>1 DEF HeldIsQueued
    <3>5. NoStrandedWaiter' /\ QueueHasNoDuplicates'
      BY <2>3, <2>14, <3>1 DEF NoStrandedWaiter, QueueHasNoDuplicates, NoDuplicates
    <3>6. \A u \in Tid : ph[u] = "none" => capture # u
      BY <2>5, <2>14 DEF IInv, NothingLeftOfTheDead
    <3>7. NothingLeftOfTheDead'
      BY <2>1, <2>9, <2>10, <3>1, <3>6 DEF NothingLeftOfTheDead
    <3> QED
      BY <2>11, <3>2, <3>3, <3>4, <3>5, <3>7 DEF IInv
  <2> QED
    BY <2>13, <2>14
<1> QED
  BY <1>1, <1>2, <1>3, <1>4, <1>5, <1>6, <1>7, <1>8, <1>9 DEF Handle

-----------------------------------------------------------------------------
(* The theorems.                                                            *)

\* The invariant holds when the loop starts with empty maps.
LEMMA InitIInv == Init => IInv
<1> SUFFICES ASSUME Init PROVE IInv
  OBVIOUS
<1>1. TypeOK
  BY TidAssumption, BoundAssumption
     DEF Init, TypeOK, Phases, Stops, SyscallStops, CallKinds, SyscallState, DefaultState
<1>2. CaptureMatchesState
  BY TidAssumption DEF Init, CaptureMatchesState, DefaultState
<1>3. HeldIsQueued /\ NoStrandedWaiter /\ QueueHasNoDuplicates
  BY DEF Init, HeldIsQueued, NoStrandedWaiter, QueueHasNoDuplicates
<1>4. NothingLeftOfTheDead /\ OneUpdatePending /\ HonestIds
  BY TidAssumption DEF Init, NothingLeftOfTheDead, OneUpdatePending, HonestIds, Elems
<1> QED
  BY <1>1, <1>2, <1>3, <1>4 DEF IInv

\* Every step of a thread or of the loop preserves the invariant.
LEMMA StepIInv == IInv /\ [Next]_vars => IInv'
<1> SUFFICES ASSUME IInv, [Next]_vars PROVE IInv'
  OBVIOUS
<1>1. ASSUME UNCHANGED vars PROVE IInv'
  BY <1>1 DEF vars, kernelVars, tracerVars, IInv, TypeOK, CaptureMatchesState,
     HeldIsQueued, NoStrandedWaiter, QueueHasNoDuplicates,
     NothingLeftOfTheDead, OneUpdatePending, HonestIds
<1>2. ASSUME HandleNoChild PROVE IInv'
  <2>1. /\ UNCHANGED <<phase, kind, child, seen, depth, cached, pipe,
                       states, window, queue, skipped>>
        /\ running' = FALSE /\ capture' = NoTid
        /\ \A t \in Tid : phase[t] = "none"
    BY <1>2 DEF HandleNoChild, kernelVars
  <2>2. \A t \in Tid : capture # t /\ t \notin Elems(queue)
    BY <2>1 DEF IInv, NothingLeftOfTheDead
  <2>3. capture = NoTid
    BY <2>2 DEF IInv, TypeOK
  <2>4. UNCHANGED <<states, capture, queue, phase, seen, window, pipe, cached>>
    BY <2>1, <2>3
  <2>5. TypeOK'
    BY <2>1, <2>4 DEF IInv, TypeOK
  <2> QED
    BY <2>4, <2>5 DEF IInv, CaptureMatchesState, HeldIsQueued, NoStrandedWaiter,
       QueueHasNoDuplicates, NothingLeftOfTheDead, OneUpdatePending, HonestIds
<1>3. ASSUME NEW t \in Tid, Handle(t) PROVE IInv'
  BY <1>3, TracerActions
<1>4. ASSUME NEW t \in Tid,
             \/ \E k \in Calls : EnterSyscall(t, k)
             \/ EnterWindow(t) \/ ExitWindow(t)
             \/ Run(t) \/ Signal(t) \/ Kill(t)
      PROVE IInv'
  BY <1>4, ThreadActions
<1> QED
  BY <1>1, <1>2, <1>3, <1>4 DEF Next, Terminated

\* The invariant holds in every reachable state.
LEMMA Invariance == Spec => []IInv
BY InitIInv, StepIInv, PTL DEF Spec

\* The loop's locals and the kernel side keep their types.
THEOREM TypeCorrect == Spec => []TypeOK
<1>1. IInv => TypeOK
  BY DEF IInv
<1> QED
  BY <1>1, Invariance, PTL

\* Captures are exclusive and their bookkeeping never disagrees: the thread of
\* active_fgraph_capture is the one whose state says fgraph_capturing.
THEOREM CapturesExclusive == Spec => []CaptureMatchesState
<1>1. IInv => CaptureMatchesState
  BY DEF IInv
<1> QED
  BY <1>1, Invariance, PTL

\* No thread is lost in its stop: every thread the loop left stopped is queued
\* and waiting.
THEOREM NoThreadLost == Spec => []HeldIsQueued
<1>1. IInv => HeldIsQueued
  BY DEF IInv
<1> QED
  BY <1>1, Invariance, PTL

\* Threads are queued only while another thread's capture is active.
THEOREM NobodyStranded == Spec => []NoStrandedWaiter
<1>1. IInv => NoStrandedWaiter
  BY DEF IInv
<1> QED
  BY <1>1, Invariance, PTL

\* A thread is queued once, even if a late clone event resumes it while it is
\* held and it comes back to be held again.
THEOREM QueuedOnce == Spec => []QueueHasNoDuplicates
<1>1. IInv => QueueHasNoDuplicates
  BY DEF IInv
<1> QED
  BY <1>1, Invariance, PTL

\* Nothing the loop keeps outlives the thread it is about (windows included, if
\* nobody forks), so a reused thread id starts from the default state.
THEOREM DeadThreadsForgotten == Spec => []NothingLeftOfTheDead
<1>1. IInv => NothingLeftOfTheDead
  BY DEF IInv
<1> QED
  BY <1>1, Invariance, PTL

\* A thread has at most one update in the pipe, whatever the order of stops.
THEOREM PipeBounded == Spec => []OneUpdatePending
<1>1. IInv => OneUpdatePending
  BY DEF IInv
<1> QED
  BY <1>1, Invariance, PTL

-----------------------------------------------------------------------------
(***************************************************************************)
(* PtraceLoop implements CaptureLock.  The invariant is needed twice: a    *)
(* capture begins only when none is active, and then nobody is queued      *)
(* (NoStrandedWaiter); a thread that is held is not the one captured       *)
(* (CaptureMatchesState).  One conjunct is added, that the captured thread *)
(* is not queued, so that the end of its thread takes nobody out of line.  *)
(***************************************************************************)

CapturedNotQueued == capture \notin Elems(queue)

LInv == IInv /\ CapturedNotQueued

\* maybe_resume_waiting_fgraph_tid is the Pass of the lock: it pops a prefix
\* of the queue and the capture it starts is of the last thread popped.
LEMMA ReleaseIsPass ==
    ASSUME NEW st, NEW ph, NEW win, NEW others,
           queue \in Seq(Tid), NoDuplicates(queue), capture # NoTid,
           ReleaseWaiting(queue, st, ph, win, others)
    PROVE  Lock!Pass /\ CapturedNotQueued'
<1> DEFINE Popped(k) == {u \in {queue[i] : i \in 1..k} :
                            st[u].active /\ st[u].fgraph_waiting}
<1>a. PICK k \in 0..Len(queue) : \E next \in Popped(k) \cup {NoTid} :
         /\ IF next = NoTid
            THEN k = Len(queue)
            ELSE next = queue[k] /\ ShouldCapture(next, st[next].internal, win)
         /\ capture' = next
         /\ queue' = SubSeq(queue, k + 1, Len(queue))
  BY Zenon DEF ReleaseWaiting
<1>1. PICK next \in Popped(k) \cup {NoTid} :
         /\ IF next = NoTid
            THEN k = Len(queue)
            ELSE next = queue[k] /\ ShouldCapture(next, st[next].internal, win)
         /\ capture' = next
         /\ queue' = SubSeq(queue, k + 1, Len(queue))
  BY <1>a
<1>2. Len(queue) \in Nat /\ DOMAIN queue = 1..Len(queue)
  OBVIOUS
<1>3. CASE next = NoTid
  <2>1. k = Len(queue) /\ capture' = NoTid
    BY <1>1, <1>3
  <2>2. queue' = <<>>
    BY <1>1, <2>1, PopFacts
  <2>3. Lock!Pass
    BY <1>1, <2>1 DEF Lock!Pass
  <2> QED
    BY <2>2, <2>3 DEF CapturedNotQueued, Elems
<1>4. CASE next # NoTid
  <2>1. next = queue[k] /\ next \in Popped(k) /\ capture' = queue[k]
    BY <1>1, <1>4
  <2>2. k > 0
    <3>1. \E i \in 1..k : TRUE
      BY <2>1
    <3> QED
      BY <1>2, <3>1
  <2>3. Lock!Pass
    BY <1>1, <2>1, <2>2 DEF Lock!Pass
  <2>4. \A i \in DOMAIN queue' :
          /\ queue'[i] = queue[k + i] /\ k + i \in DOMAIN queue
          /\ i \in Nat /\ i > 0
    <3>1. \A i \in (k + 1)..Len(queue) : queue[i] \in Tid
      BY <1>2
    <3> DEFINE n == Len(queue)
               r == SubSeq(queue, k + 1, Len(queue))
    <3>a. /\ r \in Seq(Tid)
          /\ Len(r) = IF k + 1 <= n THEN n - (k + 1) + 1 ELSE 0
          /\ \A i \in 1..n - (k + 1) + 1 : r[i] = queue[(k + 1) + i - 1]
      BY <1>2, <3>1, SubSeqProperties
    <3>b. queue' = r
      BY <1>1
    <3> HIDE DEF r
    <3>2. DOMAIN r = 1..Len(r)
      BY <3>a
    <3>3. n \in Nat /\ k \in Nat /\ DOMAIN queue = 1..n
      BY <1>2
    <3> HIDE DEF n
    <3>4. \A i \in DOMAIN r : /\ r[i] = queue[k + i] /\ k + i \in DOMAIN queue
                             /\ i \in Nat /\ i > 0
      BY <3>a, <3>2, <3>3
    <3> QED
      BY <3>b, <3>4
  <2>5. k \in DOMAIN queue /\ k \in Nat
    BY <1>2, <2>2
  <2>6. ASSUME NEW i \in DOMAIN queue' PROVE queue'[i] # queue[k]
    <3>1. queue'[i] = queue[k + i] /\ k + i \in DOMAIN queue /\ k + i # k
      BY <1>2, <2>4, <2>5
    <3> QED
      BY <2>5, <3>1 DEF NoDuplicates
  <2> QED
    BY <2>1, <2>3, <2>6 DEF CapturedNotQueued, Elems
<1> QED
  BY <1>3, <1>4

\* A step that changes neither the capture nor the queue leaves the lock alone.
LEMMA LockUntouched ==
    ASSUME CapturedNotQueued, UNCHANGED <<capture, queue>>
    PROVE  CapturedNotQueued' /\ UNCHANGED Lock!lockVars
BY DEF CapturedNotQueued, Lock!lockVars

\* The steps of the traced threads.
LEMMA ThreadsLeaveLock ==
    ASSUME CapturedNotQueued, NEW t \in Tid,
           \/ \E k \in Calls : EnterSyscall(t, k)
           \/ EnterWindow(t) \/ ExitWindow(t)
           \/ Run(t) \/ Signal(t) \/ Kill(t)
    PROVE  CapturedNotQueued' /\ [Lock!Next]_(Lock!lockVars)
<1>1. UNCHANGED <<capture, queue>>
  BY DEF EnterSyscall, EnterWindow, ExitWindow, Run, RunPublish, RunWork,
     RunClone, RunCloneFails, RunQuit, Signal, Kill, tracerVars
<1> QED
  BY <1>1, LockUntouched

\* The iterations of the loop.
LEMMA LoopMovesLock ==
    ASSUME LInv, NEW t \in Tid, Handle(t)
    PROVE  CapturedNotQueued' /\ [Lock!Next]_(Lock!lockVars)
<1>0. /\ IInv /\ CapturedNotQueued
      /\ queue \in Seq(Tid) /\ NoDuplicates(queue)
      /\ capture \in Tid \cup {NoTid} /\ NoTid \notin Tid
  BY TidAssumption DEF LInv, IInv, TypeOK, QueueHasNoDuplicates, NoDuplicates
<1>1. CASE HandleEntryPlain(t) \/ HandleExitPlain(t) \/ HandleVanished(t)
           \/ HandleClone(t) \/ HandleOther(t)
  <2>1. UNCHANGED <<capture, queue>>
    BY <1>1 DEF HandleEntryPlain, HandleExitPlain, HandleVanished, HandleClone,
       HandleOther
  <2> QED
    BY <1>0, <2>1, LockUntouched
<1>2. CASE HandleEntryBegin(t)
  <2>1. capture = NoTid /\ queue' = queue /\ capture' \in {t, NoTid}
    BY <1>2 DEF HandleEntryBegin, BeginCapture
  <2>2. queue = <<>>
    BY <1>0, <2>1 DEF IInv, NoStrandedWaiter
  <2>3. CapturedNotQueued'
    BY <2>1, <2>2 DEF CapturedNotQueued, Elems
  <2>4. CASE capture' = t
    BY <2>1, <2>2, <2>3, <2>4 DEF Lock!Next, Lock!Take
  <2>5. CASE capture' = NoTid
    BY <1>0, <2>1, <2>5, LockUntouched
  <2> QED
    BY <2>1, <2>4, <2>5
<1>3. CASE HandleEntryHold(t)
  <2>1. /\ ~states[t].active /\ capture # NoTid /\ capture' = capture
        /\ queue' = IF t \in Elems(queue) THEN queue ELSE Append(queue, t)
    BY <1>3 DEF HandleEntryHold
  <2>2. capture # t
    BY <1>0, <2>1 DEF IInv, CaptureMatchesState
  <2>3. CASE t \in Elems(queue)
    BY <1>0, <2>1, <2>3, LockUntouched
  <2>4. CASE t \notin Elems(queue)
    <3>1. Elems(queue') = Elems(queue) \cup {t}
      BY <1>0, <2>1, <2>4, AppendFacts
    <3>2. CapturedNotQueued'
      BY <1>0, <2>1, <2>2, <3>1 DEF CapturedNotQueued
    <3>3. Lock!Join(t)
      BY <2>1, <2>2, <2>4 DEF Lock!Join, Lock!InLine, Elems
    <3> QED
      BY <3>2, <3>3 DEF Lock!Next
  <2> QED
    BY <2>3, <2>4
<1>4. CASE HandleExitCaptured(t)
  <2>1. capture = t
    BY <1>0, <1>4 DEF HandleExitCaptured, IInv, CaptureMatchesState
  <2>2. ReleaseWaiting(queue, [states EXCEPT ![t] = ExitState(@)], phase, Drained, {t})
    BY <1>4 DEF HandleExitCaptured
  <2>3. Lock!Pass /\ CapturedNotQueued'
    BY <1>0, <2>1, <2>2, ReleaseIsPass
  <2> QED
    BY <2>3 DEF Lock!Next
<1>5. CASE HandleGone(t)
  <2> DEFINE q == Forget(t, queue)
             st == [states EXCEPT ![t] = DefaultState]
             ph == [phase EXCEPT ![t] = "none"]
  <2>1. \/ /\ capture \in {t, NoTid}
           /\ ReleaseWaiting(q, st, ph, window', {})
        \/ /\ capture \notin {t, NoTid}
           /\ queue' = q /\ capture' = capture
    BY <1>5 DEF HandleGone
  <2>2. t \notin Elems(queue) => q = queue
    BY DEF Forget
  <2>3. CASE capture = t
    <3>1. q = queue
      BY <1>0, <2>2, <2>3 DEF CapturedNotQueued
    <3>2. ReleaseWaiting(queue, st, ph, window', {})
      BY <2>1, <2>3, <3>1
    <3>3. Lock!Pass /\ CapturedNotQueued'
      BY <1>0, <2>3, <3>2, ReleaseIsPass
    <3> QED
      BY <3>3 DEF Lock!Next
  <2>4. CASE capture = NoTid
    <3>1. queue = <<>>
      BY <1>0, <2>4 DEF IInv, NoStrandedWaiter
    <3>2. q = <<>>
      BY <2>2, <3>1 DEF Elems
    <3>3. ReleaseWaiting(<<>>, st, ph, window', {})
      BY <1>0, <2>1, <2>4, <3>2
    <3>4. capture' = NoTid /\ queue' = <<>>
      <4>1. \E k \in 0..Len(<<>>) :
              \E next \in {u \in {<<>>[i] : i \in 1..k} :
                             st[u].active /\ st[u].fgraph_waiting} \cup {NoTid} :
                /\ capture' = next
                /\ queue' = SubSeq(<<>>, k + 1, Len(<<>>))
        BY <3>3, Zenon DEF ReleaseWaiting
      <4>2. Len(<<>>) = 0
        OBVIOUS
      <4> QED
        BY <4>1, <4>2
    <3> QED
      BY <1>0, <2>4, <3>1, <3>4, LockUntouched
  <2>5. CASE capture \notin {t, NoTid}
    <3>1. queue' = q /\ capture' = capture
      BY <2>1, <2>5
    <3>2. Elems(q) = Elems(queue) \ {t}
      BY <1>0, ForgetFacts
    <3>3. CapturedNotQueued'
      BY <1>0, <3>1, <3>2 DEF CapturedNotQueued
    <3>4. CASE t \notin Elems(queue)
      BY <1>0, <2>2, <3>1, <3>4, LockUntouched
    <3>5. CASE t \in Elems(queue)
      <4> DEFINE at == CHOOSE i \in DOMAIN queue : queue[i] = t
      <4>1. at \in DOMAIN queue /\ queue[at] = t
        BY <3>5 DEF Elems
      <4>2. q = [i \in 1..Len(queue) - 1 |->
                  IF i < at THEN queue[i] ELSE queue[i + 1]]
        BY <3>5 DEF Forget
      <4>3. Lock!Leave(t)
        BY <3>1, <3>5, <4>1, <4>2 DEF Lock!Leave, Lock!InLine, Elems
      <4> QED
        BY <3>3, <4>3 DEF Lock!Next
    <3> QED
      BY <3>4, <3>5
  <2> QED
    BY <1>0, <2>3, <2>4, <2>5
<1> QED
  BY <1>1, <1>2, <1>3, <1>4, <1>5 DEF Handle

\* Every step of the program is one of the lock, or leaves it alone.
LEMMA StepOfLock ==
    LInv /\ [Next]_vars => CapturedNotQueued' /\ [Lock!Next]_(Lock!lockVars)
<1> SUFFICES ASSUME LInv, [Next]_vars
             PROVE  CapturedNotQueued' /\ [Lock!Next]_(Lock!lockVars)
  OBVIOUS
<1>1. IInv /\ CapturedNotQueued
  BY DEF LInv
<1>2. ASSUME UNCHANGED vars
      PROVE  CapturedNotQueued' /\ [Lock!Next]_(Lock!lockVars)
  BY <1>1, <1>2, LockUntouched DEF vars, tracerVars
<1>3. ASSUME HandleNoChild
      PROVE  CapturedNotQueued' /\ [Lock!Next]_(Lock!lockVars)
  <2>1. \A t \in Tid : capture # t
    BY <1>1, <1>3 DEF IInv, NothingLeftOfTheDead, HandleNoChild
  <2>2. capture = NoTid
    BY <1>1, <2>1 DEF IInv, TypeOK
  <2> QED
    BY <1>1, <1>3, <2>2, LockUntouched DEF HandleNoChild
<1>4. ASSUME NEW t \in Tid, Handle(t)
      PROVE  CapturedNotQueued' /\ [Lock!Next]_(Lock!lockVars)
  BY <1>4, LoopMovesLock
<1>5. ASSUME NEW t \in Tid,
             \/ \E k \in Calls : EnterSyscall(t, k)
             \/ EnterWindow(t) \/ ExitWindow(t)
             \/ Run(t) \/ Signal(t) \/ Kill(t)
      PROVE  CapturedNotQueued' /\ [Lock!Next]_(Lock!lockVars)
  BY <1>1, <1>5, ThreadsLeaveLock
<1> QED
  BY <1>2, <1>3, <1>4, <1>5 DEF Next, Terminated

\* The scheduling of captures by run_ptrace_loop implements the lock: one
\* capture at a time, granted in the order in which threads were held.
THEOREM LoopImplementsLock == Spec => ImplementsLock
<1>1. Init => LInv /\ Lock!Init
  BY InitIInv DEF Init, LInv, CapturedNotQueued, Elems, Lock!Init
<1>2. LInv /\ [Next]_vars => LInv'
  BY StepIInv, StepOfLock DEF LInv
<1>3. LInv /\ [Next]_vars => [Lock!Next]_(Lock!lockVars)
  BY StepOfLock
<1> QED
  BY <1>1, <1>2, <1>3, PTL DEF Spec, ImplementsLock, Lock!Spec
=============================================================================
