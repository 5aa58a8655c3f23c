--------------------------- MODULE FdTableProofs ---------------------------
(***************************************************************************)
(* Proofs about FdTable, for any number of threads of one process, any set *)
(* of descriptor numbers and any set of files.                             *)
(***************************************************************************)
EXTENDS FdTable, NaturalsInduction, WellFoundedInduction, TLAPS

\* The threads are those of one process.
OneProcess == \A t, u \in Thr : ProcOf[t] = ProcOf[u]

-----------------------------------------------------------------------------
(* The inductive invariant.                                                 *)

Alloc == {"open", "socket", "dup"}

Maybe == Anything \cup {None}
MaybeFd == Fds \cup {None}

CallRecord ==
    [nr : Calls, lib : BOOLEAN, internal : BOOLEAN, fd : MaybeFd, to : MaybeFd,
     path : Maybe, hint : Maybe, on : Maybe, ret : MaybeFd]

Typed ==
    /\ files \in [Proc -> [Fds -> Maybe]]
    /\ stage \in [Thr -> {"user", "kernel", "exit"}]
    /\ call \in [Thr -> CallRecord]
    /\ fd_paths \in [Fds -> Maybe]
    /\ hidden \in SUBSET Fds

\* What the fields of a call in progress have to do with each other.
Shape(t) ==
    LET c == call[t]
    IN /\ c.nr = "open" => c.path \in Open /\ c.hint = c.path
                           /\ (c.lib <=> c.path = "log")
       /\ c.nr = "close" => c.hint = c.on
       /\ c.nr = "socket" => ~c.lib
       /\ c.fd = None <=> c.nr \in {"open", "socket"}
       /\ c.fd = None => c.on = None
       /\ c.fd # None => c.on # None /\ (c.lib <=> c.on = "log")
       /\ c.to # None <=> c.nr = "dup2"
       /\ stage[t] = "kernel" => c.ret = None
       /\ stage[t] = "exit" /\ c.nr = "dup2" => c.ret = c.to
       /\ c.nr \in {"close", "use"} => c.ret = None

\* The descriptors a call in progress uses or has been given.
Held(t) ==
    IF stage[t] = "user" THEN {}
    ELSE {call[t].fd, call[t].to, call[t].ret} \ {None}

\* t has closed f, or was given it, and its exit-stop is still to be handled.
Closing(t, f) == stage[t] = "exit" /\ call[t].nr = "close" /\ call[t].fd = f
Giving(t, f) == stage[t] = "exit" /\ call[t].nr \in Alloc /\ call[t].ret = f

\* What the kernel opens for an allocating call.
Given(c) ==
    IF c.nr = "open" THEN c.path ELSE IF c.nr = "socket" THEN "socket" ELSE c.on

\* The tables say nothing wrong about f; they say nothing about f.
Right(p, f) ==
    /\ fd_paths[f] # None => fd_paths[f] = files[p][f]
    /\ f \in hidden => files[p][f] = "log"

Clean(f) == fd_paths[f] = None /\ f \notin hidden

\* A descriptor in use is open on what it was when the call was made, and the
\* tables are right about it; a descriptor just given is open, and the tables
\* say nothing of it unless its last close is still to be handled.
Kept(t) ==
    LET c == call[t]
        p == ProcOf[t]
    IN /\ c.fd # None /\ ~Closing(t, c.fd) =>
            files[p][c.fd] = c.on /\ Right(p, c.fd)
       /\ c.nr = "dup2" /\ stage[t] = "kernel" => Right(p, c.to)
       /\ c.nr = "dup2" /\ stage[t] = "exit" => files[p][c.to] = c.on
       /\ c.ret # None /\ c.nr \in Alloc =>
            /\ files[p][c.ret] = Given(c)
            /\ Clean(c.ret) \/ \E u \in Thr : Closing(u, c.ret)

CallInv == \A t \in Thr : stage[t] # "user" => Shape(t) /\ Kept(t)

\* Two calls have a descriptor in common only if one has closed it and the
\* other was given it since.
Exclusive ==
    \A t, u \in Thr : t # u => \A f \in Held(t) \cap Held(u) :
        (Closing(t, f) /\ Giving(u, f)) \/ (Closing(u, f) /\ Giving(t, f))

\* Nobody can be given the closed descriptor a dup2 is about to open.
NoTaker ==
    \A t, u \in Thr :
        /\ stage[t] = "kernel" /\ call[t].nr = "dup2"
        /\ files[ProcOf[t]][call[t].to] = None
        /\ stage[u] = "kernel"
        => call[u].nr \notin Alloc

\* The tables are right about a descriptor that no call has to do with.
RightAtRest ==
    \A p \in Proc, f \in Fds : (\A t \in Thr : f \notin Held(t)) => Right(p, f)

TableInv == Typed /\ CallInv /\ Exclusive /\ NoTaker /\ RightAtRest

-----------------------------------------------------------------------------
(* While no two calls have overlapped, the tables are complete as well.     *)

\* The name of f is known, if it was opened by name, and an output file is
\* hidden.
Whole(p, f) ==
    /\ files[p][f] # "socket" => fd_paths[f] = files[p][f]
    /\ files[p][f] = "log" => f \in hidden

\* The tables have what the descriptor of the call was open on.
Told(c) ==
    /\ fd_paths[c.fd] \in {c.on, None}
    /\ c.on # "socket" => fd_paths[c.fd] = c.on
    /\ c.fd \in hidden <=> c.on = "log"

SerialInv ==
    ~raced =>
      /\ \A t, u \in Thr : stage[t] # "user" /\ stage[u] # "user" => t = u
      /\ \A t \in Thr : stage[t] # "user" =>
           /\ call[t].fd # None => Told(call[t])
           /\ stage[t] = "exit" /\ call[t].nr = "close" =>
                files[ProcOf[t]][call[t].fd] = None
      /\ \A p \in Proc, f \in Fds :
           (\A t \in Thr : f \notin Held(t)) => Whole(p, f)

-----------------------------------------------------------------------------
(* Facts about one state.                                                   *)

\* A set of numbers that is not empty has a least one.
LEMMA LeastOf ==
    ASSUME NEW S \in SUBSET Nat, S # {}
    PROVE  Min(S) \in S
<1>1. PICK m \in S : \A n \in S : <<n, m>> \notin OpToRel(<, Nat)
  BY NatLessThanWellFounded, WFMin, Zenon
<1>2. \A n \in S : m <= n
  <2> SUFFICES ASSUME NEW n \in S PROVE m <= n
    OBVIOUS
  <2>1. ~(n < m)
    BY <1>1 DEF OpToRel
  <2> QED
    BY <2>1
<1> QED
  BY <1>1, <1>2 DEF Min

\* The fields of a call.
LEMMA CallTypes ==
    ASSUME Typed, NEW t \in Thr
    PROVE  /\ stage[t] \in {"user", "kernel", "exit"}
           /\ call[t].nr \in Calls /\ call[t].lib \in BOOLEAN
           /\ call[t].internal \in BOOLEAN
           /\ call[t].fd \in MaybeFd /\ call[t].to \in MaybeFd
           /\ call[t].ret \in MaybeFd
           /\ call[t].path \in Maybe /\ call[t].hint \in Maybe
           /\ call[t].on \in Maybe
<1>1. call[t] \in CallRecord
  BY DEF Typed
<1>2. stage[t] \in {"user", "kernel", "exit"}
  BY DEF Typed
<1> QED
  BY <1>1, <1>2, Zenon DEF CallRecord

\* What is held is a descriptor number.
LEMMA HeldFds ==
    ASSUME Typed, NEW t \in Thr
    PROVE  Held(t) \subseteq Fds
BY CallTypes DEF Held, MaybeFd

\* A descriptor that is not in flight is held by no call.
LEMMA NotHeld ==
    ASSUME OneProcess, NEW t \in Thr, NEW f \in Fds,
           f \notin InFlight(ProcOf[t]), NEW u \in Thr
    PROVE  f \notin Held(u)
<1>1. ProcOf[u] = ProcOf[t]
  BY DEF OneProcess
<1>2. CASE stage[u] = "user"
  BY <1>2 DEF Held
<1>3. CASE stage[u] # "user"
  <2>1. {call[u].fd, call[u].to, call[u].ret} \subseteq InFlight(ProcOf[t])
    BY <1>1, <1>3 DEF InFlight
  <2> QED
    BY <2>1 DEF Held
<1> QED
  BY <1>2, <1>3

\* There is one process.
LEMMA TheProcess ==
    ASSUME OneProcess, NEW t \in Thr, NEW p \in Proc
    PROVE  p = ProcOf[t]
BY DEF OneProcess, Proc

\* A held descriptor is one of the three the call has.
LEMMA HeldIs ==
    ASSUME NEW t \in Thr, NEW f \in Held(t)
    PROVE  /\ stage[t] # "user"
           /\ f # None
           /\ f = call[t].fd \/ f = call[t].to \/ f = call[t].ret
BY DEF Held

LEMMA HoldsIts ==
    ASSUME NEW t \in Thr, stage[t] # "user"
    PROVE  /\ call[t].fd # None => call[t].fd \in Held(t)
           /\ call[t].to # None => call[t].to \in Held(t)
           /\ call[t].ret # None => call[t].ret \in Held(t)
BY DEF Held

\* A call that the kernel is yet to carry out shares no descriptor.
LEMMA KernelAlone ==
    ASSUME Exclusive, NEW t \in Thr, NEW u \in Thr, t # u,
           stage[t] = "kernel", NEW f \in Held(t)
    PROVE  f \notin Held(u)
BY DEF Exclusive, Closing, Giving

\* While a call may be given a descriptor, one that is free is held only by a
\* call that has closed it.
LEMMA FreeIsClosing ==
    ASSUME OneProcess, TableInv, NEW t \in Thr,
           stage[t] = "kernel", call[t].nr \in Alloc,
           NEW f \in Fds, files[ProcOf[t]][f] = None,
           NEW u \in Thr, f \in Held(u)
    PROVE  Closing(u, f)
<1> DEFINE c == call[u]
<1>1. stage[u] # "user" /\ f # None /\ (f = c.fd \/ f = c.to \/ f = c.ret)
  BY HeldIs
<1>2. Shape(u) /\ Kept(u)
  BY <1>1 DEF TableInv, CallInv
<1>3. ProcOf[u] = ProcOf[t]
  BY DEF OneProcess
<1>4. CASE f = c.fd
  BY <1>1, <1>2, <1>3, <1>4 DEF Shape, Kept
<1>5. c.nr \in Calls /\ stage[u] \in {"user", "kernel", "exit"}
  BY CallTypes DEF TableInv
<1>6. CASE f = c.to
  <2>1. c.nr = "dup2" /\ c.fd # None /\ c.on # None
    BY <1>1, <1>2, <1>6 DEF Shape
  <2>2. stage[u] # "kernel"
    BY <1>3, <1>6, <2>1 DEF TableInv, NoTaker
  <2> QED
    BY <1>1, <1>2, <1>3, <1>5, <1>6, <2>1, <2>2 DEF Kept
<1>7. CASE f = c.ret
  <2>1. CASE c.nr \in Alloc
    <3>1. files[ProcOf[t]][f] = Given(c)
      BY <1>1, <1>2, <1>3, <1>7, <2>1 DEF Kept
    <3>2. Given(c) # None
      BY <1>2, <2>1, FilesAssumption DEF Given, Shape, Alloc, Open
    <3> QED
      BY <3>1, <3>2
  <2>2. CASE c.nr = "dup2"
    <3>1. f = c.to
      BY <1>1, <1>2, <1>5, <1>7, <2>2 DEF Shape
    <3> QED
      BY <3>1, <1>6
  <2>3. CASE c.nr \in {"close", "use"}
    BY <1>1, <1>2, <1>7, <2>3 DEF Shape
  <2> QED
    BY <1>5, <2>1, <2>2, <2>3 DEF Calls, Alloc
<1> QED
  BY <1>1, <1>4, <1>6, <1>7

-----------------------------------------------------------------------------
(* Every step keeps the invariant of the tables.                            *)

LEMMA TableInvInit ==
    ASSUME Init
    PROVE  TableInv
<1>1. Seeded \in [Fds -> Maybe]
  BY DEF Seeded, Maybe, Anything, Open
<1>2. Typed
  <2>1. NoCall \in CallRecord
    BY Zenon DEF NoCall, CallRecord, Calls, MaybeFd, Maybe
  <2> QED
    BY <1>1, <2>1 DEF Init, Typed
<1>3. \A t \in Thr : stage[t] = "user"
  BY DEF Init
<1>4. \A t \in Thr : Held(t) = {}
  BY <1>3 DEF Held
<1>5. CallInv /\ Exclusive /\ NoTaker
  BY <1>3, <1>4 DEF CallInv, Exclusive, NoTaker
<1>6. RightAtRest
  BY DEF Init, RightAtRest, Right
<1> QED
  BY <1>2, <1>5, <1>6 DEF TableInv

\* What an entry-stop leaves behind.
LEMMA EnterTable ==
    ASSUME OneProcess, TableInv, NEW t \in Thr, NEW lib \in BOOLEAN,
           NEW nr \in Calls, Enter(t, lib, nr)
    PROVE  TableInv'
<1> DEFINE p == ProcOf[t]
           Rec(path, f, internal, to) ==
               [nr |-> nr, lib |-> lib, internal |-> internal, fd |-> f, to |-> to,
                path |-> path, hint |-> CapturePathHint(p, nr, f, path),
                on |-> IF f = None THEN None ELSE files[p][f], ret |-> None]
<1>1. PICK path \in IF nr # "open" THEN {None}
                    ELSE IF lib THEN {"log"} ELSE Files,
           f \in IF nr \in {"open", "socket"} THEN {None} ELSE Usable(p, lib),
           internal \in BOOLEAN,
           to \in IF nr = "dup2" THEN Targets(p, lib) ELSE {None} :
             call' = [call EXCEPT ![t] = Rec(path, f, internal, to)]
  BY Zenon DEF Enter, IsInternal
<1>2. /\ stage[t] = "user"
      /\ lib => nr # "socket"
      /\ nr \in Alloc => MayAllocate(p)
      /\ stage' = [stage EXCEPT ![t] = "kernel"]
      /\ UNCHANGED <<files, fd_paths, hidden>>
  BY DEF Enter, Alloc
<1> DEFINE c == Rec(path, f, internal, to)
<1>3. /\ files \in [Proc -> [Fds -> Maybe]] /\ p \in Proc
      /\ stage \in [Thr -> {"user", "kernel", "exit"}]
      /\ call \in [Thr -> CallRecord]
      /\ fd_paths \in [Fds -> Maybe] /\ hidden \in SUBSET Fds
  BY DEF TableInv, Typed, Proc
<1>4. /\ nr \in {"open", "socket"} => f = None
      /\ nr \notin {"open", "socket"} => f \in Usable(p, lib)
  BY <1>1
<1>5. f # None => /\ f \in Fds /\ files[p][f] # None
                  /\ lib <=> files[p][f] = "log"
                  /\ f \notin InFlight(p)
  BY <1>4, FdsAssumption, Zenon DEF Usable
<1>6. /\ nr # "dup2" => to = None
      /\ nr = "dup2" => to \in Targets(p, lib)
  BY <1>1
<1>7. /\ nr = "dup2" => to \in Fds
      /\ nr = "dup2" /\ files[p][to] # None => to \notin InFlight(p)
      /\ nr = "dup2" /\ files[p][to] = None => Busy(p) = {}
  BY <1>6, Zenon DEF Targets, Usable
<1>8. f \in MaybeFd /\ to \in MaybeFd /\ (nr \notin {"open", "socket"} => f # None)
  BY <1>4, <1>5, <1>6, <1>7, FdsAssumption DEF Usable, MaybeFd
<1>9. /\ path \in Maybe
      /\ nr = "open" => path \in Open /\ (lib <=> path = "log")
  BY <1>1, FilesAssumption DEF Maybe, Anything, Open
<1>10. CapturePathHint(p, nr, f, path) \in Maybe
  BY <1>3, <1>4, <1>5, <1>8, <1>9 DEF CapturePathHint, Maybe
<1>11. c.on \in Maybe
  BY <1>3, <1>5 DEF Maybe
<1> HIDE DEF Rec
<1>12. /\ c.nr = nr /\ c.lib = lib /\ c.fd = f /\ c.to = to /\ c.path = path
       /\ c.hint = CapturePathHint(p, nr, f, path)
       /\ c.on = (IF f = None THEN None ELSE files[p][f]) /\ c.ret = None
  BY Zenon DEF Rec
<1>13. c \in CallRecord
  <2> DEFINE hh == CapturePathHint(p, nr, f, path)
             oo == IF f = None THEN None ELSE files[p][f]
  <2>1. c = [nr |-> nr, lib |-> lib, internal |-> internal, fd |-> f, to |-> to,
             path |-> path, hint |-> hh, on |-> oo, ret |-> None]
    BY DEF Rec
  <2>2. hh \in Maybe /\ oo \in Maybe /\ None \in MaybeFd
    BY <1>10, <1>11, <1>12 DEF MaybeFd
  <2> HIDE DEF hh, oo, c
  <2> QED
    BY <1>1, <1>8, <1>9, <2>1, <2>2, Zenon DEF CallRecord
<1>14. call'[t] = c /\ stage'[t] = "kernel"
  BY <1>1, <1>2, <1>3
<1>15. \A u \in Thr : u # t => call'[u] = call[u] /\ stage'[u] = stage[u]
  BY <1>1, <1>2, <1>3
<1>16. Typed'
  BY <1>1, <1>2, <1>3, <1>13 DEF Typed
\* Nobody else holds the descriptors of the call.
<1>17. ASSUME NEW g \in Held(t)', NEW u \in Thr PROVE g \notin Held(u)
  <2>1. g # None /\ (g = f \/ g = to)
    BY <1>12, <1>14 DEF Held
  <2>2. CASE g = f
    BY <1>5, <2>1, <2>2, NotHeld
  <2>3. CASE g = to
    <3>1. nr = "dup2"
      BY <1>6, <2>1, <2>3
    <3>2. CASE files[p][to] # None
      BY <1>7, <2>3, <3>1, <3>2, NotHeld
    <3>3. CASE files[p][to] = None
      <4>1. stage[u] = "user"
        BY <1>7, <3>1, <3>3 DEF Busy, OneProcess
      <4> QED
        BY <4>1 DEF Held
    <3> QED
      BY <3>2, <3>3
  <2> QED
    BY <2>1, <2>2, <2>3
<1>18. \A u \in Thr : u # t => Held(u)' = Held(u)
  BY <1>15 DEF Held
<1>19. ASSUME NEW q \in Proc, NEW g PROVE Right(q, g)' <=> Right(q, g)
  BY <1>2 DEF Right
<1>20. ASSUME NEW u \in Thr, stage'[u] # "user" PROVE Shape(u)' /\ Kept(u)'
  <2>1. CASE u = t
    <3>1. Shape(t)'
      <4> HIDE DEF c
      <4>1. c.nr = "open" => c.hint = c.path
        BY <1>12 DEF CapturePathHint
      <4>2. c.nr = "close" => c.hint = c.on
        BY <1>8, <1>12 DEF CapturePathHint
      <4>3. c.nr = "open" => c.path \in Open /\ (c.lib <=> c.path = "log")
        BY <1>9, <1>12, Zenon
      <4>4. /\ c.nr = "socket" => ~c.lib
            /\ c.fd # None => c.on # None /\ (c.lib <=> c.on = "log")
        BY <1>2, <1>5, <1>12, Zenon
      <4>5. /\ c.fd = None <=> c.nr \in {"open", "socket"}
            /\ c.fd = None => c.on = None
            /\ c.to # None <=> c.nr = "dup2"
        BY <1>4, <1>6, <1>7, <1>8, <1>12, FdsAssumption
      <4> QED
        BY <1>12, <1>14, <4>1, <4>2, <4>3, <4>4, <4>5 DEF Shape
    <3>2. f # None => files[p][f] = c.on /\ Right(p, f)
      <4>1. SUFFICES ASSUME f # None PROVE Right(p, f)
        BY <1>12
      <4>2. \A w \in Thr : f \notin Held(w)
        BY <1>5, <4>1, NotHeld
      <4> QED
        BY <1>3, <1>5, <4>1, <4>2 DEF TableInv, RightAtRest
    <3>3. nr = "dup2" => Right(p, to)
      <4>1. SUFFICES ASSUME nr = "dup2" PROVE Right(p, to)
        OBVIOUS
      <4>2. to \in Held(t)'
        BY <1>7, <1>12, <1>14, <4>1, FdsAssumption DEF Held
      <4>3. \A w \in Thr : to \notin Held(w)
        BY <1>17, <4>2
      <4> QED
        BY <1>3, <1>7, <4>1, <4>3 DEF TableInv, RightAtRest
    <3>4. Kept(t)'
      BY <1>2, <1>3, <1>12, <1>14, <1>19, <3>2, <3>3 DEF Kept
    <3> QED
      BY <2>1, <3>1, <3>4
  <2>2. CASE u # t
    <3>1. Shape(u) /\ Kept(u)
      BY <1>15, <1>20, <2>2 DEF TableInv, CallInv
    <3>2. Shape(u)'
      BY <1>15, <2>2, <3>1 DEF Shape
    <3>3. \A g : Clean(g) => Clean(g)'
      BY <1>2 DEF Clean
    <3>4. \A g : \A w \in Thr : Closing(w, g) => Closing(w, g)'
      BY <1>2, <1>15 DEF Closing
    <3>5. \A g : Closing(u, g)' <=> Closing(u, g)
      BY <1>15, <2>2 DEF Closing
    <3>6. ProcOf[u] \in Proc
      BY DEF Proc
    <3>7. Kept(u)'
      BY <1>2, <1>15, <1>19, <2>2, <3>1, <3>3, <3>4, <3>5, <3>6 DEF Kept
    <3> QED
      BY <3>2, <3>7
  <2> QED
    BY <2>1, <2>2
<1>21. Exclusive'
  <2> SUFFICES ASSUME NEW v \in Thr, NEW u \in Thr, v # u,
                      NEW g \in Held(v)' \cap Held(u)'
               PROVE  \/ Closing(v, g)' /\ Giving(u, g)'
                      \/ Closing(u, g)' /\ Giving(v, g)'
    BY DEF Exclusive
  <2>1. v # t /\ u # t
    BY <1>17, <1>18
  <2>2. g \in Held(v) \cap Held(u)
    BY <1>18, <2>1
  <2>3. \/ Closing(v, g) /\ Giving(u, g)
        \/ Closing(u, g) /\ Giving(v, g)
    BY <2>2 DEF TableInv, Exclusive
  <2> QED
    BY <1>15, <2>1, <2>3 DEF Closing, Giving
<1>22. NoTaker'
  <2> SUFFICES ASSUME NEW v \in Thr, NEW u \in Thr,
                      stage'[v] = "kernel", call'[v].nr = "dup2",
                      files'[ProcOf[v]][call'[v].to] = None,
                      stage'[u] = "kernel", call'[u].nr \in Alloc
               PROVE  FALSE
    BY DEF NoTaker
  <2>1. ProcOf[v] = p /\ ProcOf[u] = p
    BY DEF OneProcess
  <2>2. u # v
    BY DEF Alloc
  <2>3. CASE v = t
    <3>1. Busy(p) = {}
      BY <1>2, <1>7, <1>12, <1>14, <2>1, <2>3
    <3> QED
      BY <1>15, <2>1, <2>2, <2>3, <3>1 DEF Busy
  <2>4. CASE u = t
    <3>1. MayAllocate(p)
      BY <1>2, <1>12, <1>14, <2>4
    <3> QED
      BY <1>15, <2>1, <2>2, <2>4, <3>1 DEF MayAllocate, Busy
  <2>5. CASE u # t /\ v # t
    BY <1>2, <1>15, <2>5 DEF TableInv, NoTaker
  <2> QED
    BY <2>3, <2>4, <2>5
<1>23. RightAtRest'
  <2> SUFFICES ASSUME NEW q \in Proc, NEW g \in Fds,
                      \A u \in Thr : g \notin Held(u)'
               PROVE  Right(q, g)'
    BY DEF RightAtRest, Proc
  <2>1. \A u \in Thr : g \notin Held(u)
    BY <1>2, <1>18 DEF Held
  <2> QED
    BY <1>19, <2>1 DEF TableInv, RightAtRest
<1> QED
  BY <1>16, <1>20, <1>21, <1>22, <1>23 DEF TableInv, CallInv

\* Only the call of t moves on, it keeps its arguments, and files changes at
\* most at descriptor g of the process, to what is not None or by a close.
RunStep(t, g, new, r) ==
    /\ stage[t] = "kernel"
    /\ stage' = [stage EXCEPT ![t] = "exit"]
    /\ call' = [call EXCEPT ![t].ret = r]
    /\ UNCHANGED <<fd_paths, hidden>>
    /\ files' = [files EXCEPT ![ProcOf[t]][g] = new]

\* The call is one that the kernel carries out in one of three ways: it gives
\* the lowest free descriptor or none, it opens the target of a dup2, it closes
\* a descriptor or leaves all as they were.
LEMMA RunCases ==
    ASSUME OneProcess, TableInv, NEW t \in Thr, Run(t)
    PROVE  LET p == ProcOf[t]
               c == call[t]
               free == {f \in Fds : files[p][f] = None}
           IN \/ /\ c.nr \in Alloc /\ free # {}
                 /\ RunStep(t, Min(free), Given(c), Min(free))
              \/ /\ c.nr \in Alloc \cup {"use"}
                 /\ stage[t] = "kernel" /\ UNCHANGED <<files, call>>
                 /\ stage' = [stage EXCEPT ![t] = "exit"]
                 /\ UNCHANGED <<fd_paths, hidden>>
              \/ c.nr = "dup2" /\ RunStep(t, c.to, c.on, c.to)
              \/ /\ c.nr = "close" /\ c.ret = None
                 /\ RunStep(t, c.fd, None, None)
<1> DEFINE p == ProcOf[t]
           c == call[t]
           free == {f \in Fds : files[p][f] = None}
           new == CASE c.nr = "open" -> c.path [] c.nr = "socket" -> "socket"
                    [] OTHER -> c.on
<1>1. /\ stage[t] = "kernel"
      /\ stage' = [stage EXCEPT ![t] = "exit"]
      /\ UNCHANGED <<fd_paths, hidden>>
  BY DEF Run
<1>2. new = Given(c)
  BY DEF Given
<1>3. Shape(t)
  BY <1>1 DEF TableInv, CallInv
<1>4. c.nr = "dup2" => new = c.on
  OBVIOUS
<1>5. call \in [Thr -> CallRecord]
  BY DEF TableInv, Typed
<1> HIDE DEF new
<1>6. \/ /\ c.nr \in {"open", "socket", "dup"} /\ free # {}
         /\ files' = [files EXCEPT ![p][Min(free)] = new]
         /\ call' = [call EXCEPT ![t].ret = Min(free)]
      \/ /\ c.nr \in {"open", "socket"} \/ (c.nr = "dup" /\ free = {})
         /\ UNCHANGED <<files, call>>
      \/ /\ c.nr = "dup2"
         /\ files' = [files EXCEPT ![p][c.to] = new]
         /\ call' = [call EXCEPT ![t].ret = c.to]
      \/ /\ c.nr = "close"
         /\ files' = [files EXCEPT ![p][c.fd] = None]
         /\ UNCHANGED call
      \/ c.nr = "use" /\ UNCHANGED <<files, call>>
  BY Zenon DEF Run, new
<1>7. CASE /\ c.nr \in {"open", "socket", "dup"} /\ free # {}
           /\ files' = [files EXCEPT ![p][Min(free)] = new]
           /\ call' = [call EXCEPT ![t].ret = Min(free)]
  BY <1>1, <1>2, <1>7, Zenon DEF RunStep, Alloc
<1>8. CASE /\ c.nr \in {"open", "socket"} \/ (c.nr = "dup" /\ free = {})
           /\ UNCHANGED <<files, call>>
  BY <1>1, <1>8, Zenon DEF Alloc
<1>9. CASE /\ c.nr = "dup2"
           /\ files' = [files EXCEPT ![p][c.to] = new]
           /\ call' = [call EXCEPT ![t].ret = c.to]
  BY <1>1, <1>4, <1>9, Zenon DEF RunStep
<1>10. CASE /\ c.nr = "close"
            /\ files' = [files EXCEPT ![p][c.fd] = None]
            /\ UNCHANGED call
  <2>1. c.ret = None
    BY <1>3, <1>10 DEF Shape
  <2>2. call' = [call EXCEPT ![t].ret = None]
    <3>1. c \in CallRecord
      BY <1>5
    <3>2. c = [c EXCEPT !.ret = None]
      BY <2>1, <3>1 DEF CallRecord
    <3>3. call = [call EXCEPT ![t] = [c EXCEPT !.ret = None]]
      BY <1>5, <3>2
    <3> QED
      BY <1>10, <3>3
  <2> QED
    BY <1>1, <1>10, <2>1, <2>2, Zenon DEF RunStep
<1>11. CASE c.nr = "use" /\ UNCHANGED <<files, call>>
  BY <1>1, <1>11, Zenon
<1> QED
  BY <1>6, <1>7, <1>8, <1>9, <1>10, <1>11, Zenon

\* What such a step does to the state of the threads.
RunDone(t, g, new, r) ==
    /\ stage'[t] = "exit" /\ stage[t] = "kernel"
    /\ call'[t].nr = call[t].nr /\ call'[t].lib = call[t].lib
    /\ call'[t].fd = call[t].fd /\ call'[t].to = call[t].to
    /\ call'[t].path = call[t].path /\ call'[t].hint = call[t].hint
    /\ call'[t].on = call[t].on /\ call'[t].ret = r
    /\ \A u \in Thr : u # t => call'[u] = call[u] /\ stage'[u] = stage[u]
    /\ \A q \in Proc : files'[q][g] = new
    /\ \A q \in Proc, f \in Fds : f # g => files'[q][f] = files[q][f]
    /\ UNCHANGED <<fd_paths, hidden>>

LEMMA RunStepFields ==
    ASSUME OneProcess, Typed, NEW t \in Thr, NEW g \in Fds,
           NEW new \in Maybe, NEW r \in MaybeFd, RunStep(t, g, new, r)
    PROVE  Typed' /\ RunDone(t, g, new, r)
<1>1. /\ call \in [Thr -> CallRecord] /\ call[t] \in CallRecord
      /\ stage \in [Thr -> {"user", "kernel", "exit"}]
      /\ files \in [Proc -> [Fds -> Maybe]] /\ ProcOf[t] \in Proc
  BY DEF Typed, Proc
<1>2. /\ stage[t] = "kernel"
      /\ stage' = [stage EXCEPT ![t] = "exit"]
      /\ call' = [call EXCEPT ![t].ret = r]
      /\ UNCHANGED <<fd_paths, hidden>>
      /\ files' = [files EXCEPT ![ProcOf[t]][g] = new]
  BY DEF RunStep
<1>3. call'[t] = [call[t] EXCEPT !.ret = r]
  BY <1>1, <1>2
<1>4. [call[t] EXCEPT !.ret = r] \in CallRecord
  BY <1>1 DEF CallRecord
<1>5. call' \in [Thr -> CallRecord]
  BY <1>1, <1>2, <1>4
<1>6. files' \in [Proc -> [Fds -> Maybe]]
  BY <1>1, <1>2
<1>7. Typed'
  BY <1>1, <1>2, <1>5, <1>6 DEF Typed
<1>8. \A q \in Proc : q = ProcOf[t]
  BY TheProcess
<1>9. /\ \A q \in Proc : files'[q][g] = new
      /\ \A q \in Proc, f \in Fds : f # g => files'[q][f] = files[q][f]
  BY <1>1, <1>2, <1>8
<1>10. /\ call'[t].nr = call[t].nr /\ call'[t].lib = call[t].lib
       /\ call'[t].fd = call[t].fd /\ call'[t].to = call[t].to
       /\ call'[t].path = call[t].path /\ call'[t].hint = call[t].hint
       /\ call'[t].on = call[t].on /\ call'[t].ret = r
  BY <1>1, <1>3, Zenon DEF CallRecord
<1>11. \A u \in Thr : u # t => call'[u] = call[u] /\ stage'[u] = stage[u]
  BY <1>1, <1>2
<1> QED
  BY <1>1, <1>2, <1>7, <1>9, <1>10, <1>11 DEF RunDone

\* What the step of one call leaves as it was for the others, when they hold the
\* descriptor that changes only if they have closed it.
LEMMA RunFrame ==
    ASSUME OneProcess, TableInv, NEW t \in Thr, NEW g \in Fds,
           NEW new \in Maybe, NEW r \in MaybeFd, RunStep(t, g, new, r),
           \A u \in Thr : u # t /\ g \in Held(u) => Closing(u, g),
           g \in Held(t) \/ (r = g /\ call[t].nr \in Alloc),
           r \in {g, None}
    PROVE  /\ Typed' /\ Exclusive' /\ NoTaker' /\ RightAtRest'
           /\ \A u \in Thr : u # t /\ stage'[u] # "user" => Shape(u)' /\ Kept(u)'
           /\ \A f : \A u \in Thr : Closing(u, f) => Closing(u, f)'
<1>1. /\ Typed'
      /\ stage'[t] = "exit" /\ stage[t] = "kernel"
      /\ call'[t].nr = call[t].nr
      /\ call'[t].fd = call[t].fd /\ call'[t].to = call[t].to
      /\ call'[t].ret = r
      /\ \A u \in Thr : u # t => call'[u] = call[u] /\ stage'[u] = stage[u]
      /\ \A q \in Proc, f \in Fds : f # g => files'[q][f] = files[q][f]
      /\ UNCHANGED <<fd_paths, hidden>>
  <2>1. Typed' /\ RunDone(t, g, new, r)
    BY RunStepFields DEF TableInv
  <2> QED
    BY <2>1 DEF RunDone
<1>2. \A u \in Thr : u # t => Held(u)' = Held(u)
  BY <1>1 DEF Held
<1>3. Held(t)' = Held(t) \cup {g}
  <2>1. Shape(t)
    BY <1>1 DEF TableInv, CallInv
  <2>2. call[t].ret = None
    BY <1>1, <2>1 DEF Shape
  <2>3. g # None
    BY FdsAssumption
  <2> QED
    BY <1>1, <2>2, <2>3 DEF Held
<1>4. \A f : \A u \in Thr : Closing(u, f) => Closing(u, f)'
  BY <1>1 DEF Closing
<1>5. \A f : Clean(f) => Clean(f)'
  BY <1>1 DEF Clean
<1>6. ASSUME NEW q \in Proc, NEW f \in Fds, f # g
      PROVE  Right(q, f) => Right(q, f)'
  BY <1>1, <1>6 DEF Right
<1>7. ASSUME NEW u \in Thr, u # t, stage'[u] # "user"
      PROVE  Shape(u)' /\ Kept(u)'
  <2>1. Shape(u) /\ Kept(u)
    BY <1>1, <1>7 DEF TableInv, CallInv
  <2>2. Shape(u)'
    BY <1>1, <1>7, <2>1 DEF Shape
  <2>3. ProcOf[u] \in Proc /\ stage[u] # "user"
    BY <1>1, <1>7 DEF Proc
  <2>4. \A f : Closing(u, f)' <=> Closing(u, f)
    BY <1>1, <1>7 DEF Closing
  <2>5. /\ call[u].fd \in MaybeFd /\ call[u].to \in MaybeFd
        /\ call[u].ret \in MaybeFd
    BY CallTypes DEF TableInv
  <2>6. ASSUME call[u].fd # None, ~Closing(u, call[u].fd)
        PROVE  call[u].fd \in Fds /\ call[u].fd # g
    BY <1>7, <2>3, <2>5, <2>6, HoldsIts DEF MaybeFd
  <2>7. ASSUME call[u].nr = "dup2"
        PROVE  call[u].to \in Fds /\ call[u].to # g
    BY <1>7, <2>1, <2>3, <2>5, <2>7, HoldsIts DEF MaybeFd, Shape, Closing
  <2>8. ASSUME call[u].ret # None, call[u].nr \in Alloc
        PROVE  call[u].ret \in Fds /\ call[u].ret # g
    BY <1>7, <2>3, <2>5, <2>8, HoldsIts DEF MaybeFd, Closing, Alloc
  <2>9. Kept(u)'
    BY <1>1, <1>4, <1>5, <1>6, <1>7, <2>1, <2>3, <2>4, <2>6, <2>7, <2>8
    DEF Kept
  <2> QED
    BY <2>2, <2>9
<1>8. Exclusive'
  <2>1. ASSUME NEW u \in Thr, u # t, NEW f \in Held(t)' \cap Held(u)'
        PROVE  Closing(u, f)' /\ Giving(t, f)'
    <3>1. f \in Held(u)
      BY <1>2, <2>1
    <3>2. f \notin Held(t)
      BY <1>1, <2>1, <3>1, KernelAlone DEF TableInv
    <3>3. f = g
      BY <1>3, <2>1, <3>2
    <3>4. Closing(u, f)'
      BY <1>4, <2>1, <3>1, <3>3
    <3> QED
      BY <1>1, <3>2, <3>3, <3>4 DEF Giving
  <2> SUFFICES ASSUME NEW v \in Thr, NEW u \in Thr, v # u,
                      NEW f \in Held(v)' \cap Held(u)'
               PROVE  \/ Closing(v, f)' /\ Giving(u, f)'
                      \/ Closing(u, f)' /\ Giving(v, f)'
    BY DEF Exclusive
  <2>2. CASE v = t
    BY <2>1, <2>2
  <2>3. CASE u = t
    BY <2>1, <2>3
  <2>4. CASE v # t /\ u # t
    <3>1. f \in Held(v) \cap Held(u)
      BY <1>2, <2>4
    <3>2. \/ Closing(v, f) /\ Giving(u, f)
          \/ Closing(u, f) /\ Giving(v, f)
      BY <3>1 DEF TableInv, Exclusive
    <3> QED
      BY <1>1, <2>4, <3>2 DEF Closing, Giving
  <2> QED
    BY <2>2, <2>3, <2>4
<1>9. NoTaker'
  <2> SUFFICES ASSUME NEW v \in Thr, NEW u \in Thr,
                      stage'[v] = "kernel", call'[v].nr = "dup2",
                      files'[ProcOf[v]][call'[v].to] = None,
                      stage'[u] = "kernel"
               PROVE  call'[u].nr \notin Alloc
    BY DEF NoTaker
  <2>1. u # t /\ v # t
    BY <1>1
  <2>2. Shape(v) /\ stage[v] = "kernel" /\ call[v].nr = "dup2" /\ call'[v] = call[v]
    BY <1>1, <2>1 DEF TableInv, CallInv
  <2>3. call[v].to \in Fds /\ call[v].to \in Held(v)
    BY <2>2, CallTypes, HoldsIts DEF TableInv, Shape, MaybeFd
  <2>4. call[v].to # g
    BY <2>1, <2>2, <2>3 DEF Closing
  <2>5. files[ProcOf[v]][call[v].to] = None
    BY <1>1, <2>2, <2>3, <2>4 DEF Proc
  <2> QED
    BY <1>1, <2>1, <2>2, <2>5 DEF TableInv, NoTaker
<1>10. RightAtRest'
  <2> SUFFICES ASSUME NEW q \in Proc, NEW f \in Fds,
                      \A u \in Thr : f \notin Held(u)'
               PROVE  Right(q, f)'
    BY DEF RightAtRest, Proc
  <2>1. f # g /\ \A u \in Thr : f \notin Held(u)
    BY <1>2, <1>3
  <2> QED
    BY <1>6, <2>1 DEF TableInv, RightAtRest
<1> QED
  BY <1>1, <1>4, <1>7, <1>8, <1>9, <1>10

\* The kernel gives the lowest free descriptor.
LEMMA RunGives ==
    ASSUME OneProcess, TableInv, NEW t \in Thr, NEW g,
           call[t].nr \in Alloc,
           g = Min({f \in Fds : files[ProcOf[t]][f] = None}),
           {f \in Fds : files[ProcOf[t]][f] = None} # {},
           RunStep(t, g, Given(call[t]), g)
    PROVE  TableInv' /\ g \in Fds /\ g \in Held(t)'
<1> DEFINE p == ProcOf[t]
           c == call[t]
           new == Given(c)
           free == {f \in Fds : files[p][f] = None}
<1>1. g \in Fds /\ files[p][g] = None
  <2>1. free \in SUBSET Nat /\ free # {}
    BY FdsAssumption
  <2> HIDE DEF free
  <2>2. g \in free
    BY <2>1, LeastOf DEF free
  <2> QED
    BY <2>2 DEF free
<1>2. stage[t] = "kernel" /\ Shape(t) /\ Kept(t)
  BY DEF RunStep, TableInv, CallInv
<1>3. new \in Maybe /\ new # None
  BY <1>2, CallTypes, FilesAssumption
  DEF TableInv, Given, Shape, Alloc, Maybe, Anything, Open
<1>4. \A u \in Thr : g \in Held(u) => Closing(u, g)
  BY <1>1, <1>2, FreeIsClosing
<1>5. g \notin Held(t)
  BY <1>2, <1>4 DEF Closing
<1>6. g \in MaybeFd /\ g # None
  BY <1>1, FdsAssumption DEF MaybeFd
<1> HIDE DEF new
<1>7. RunStep(t, g, new, g)
  BY DEF new
<1>8. /\ Typed' /\ Exclusive' /\ NoTaker' /\ RightAtRest'
      /\ \A u \in Thr : u # t /\ stage'[u] # "user" => Shape(u)' /\ Kept(u)'
      /\ \A f : \A u \in Thr : Closing(u, f) => Closing(u, f)'
  BY <1>1, <1>3, <1>4, <1>6, <1>7, RunFrame
<1>9. /\ stage'[t] = "exit"
      /\ call'[t].nr = c.nr /\ call'[t].lib = c.lib
      /\ call'[t].fd = c.fd /\ call'[t].to = c.to
      /\ call'[t].path = c.path /\ call'[t].hint = c.hint
      /\ call'[t].on = c.on /\ call'[t].ret = g
      /\ files'[p][g] = new
      /\ \A f \in Fds : f # g => files'[p][f] = files[p][f]
      /\ UNCHANGED <<fd_paths, hidden>>
  <2>1. p \in Proc /\ Typed
    BY DEF Proc, TableInv
  <2>2. RunDone(t, g, new, g)
    BY <1>1, <1>3, <1>6, <1>7, <2>1, RunStepFields
  <2> QED
    BY <2>1, <2>2 DEF RunDone
<1>10. Shape(t)'
  BY <1>2, <1>9 DEF Shape, Alloc
<1>11. Clean(g) \/ \E u \in Thr : Closing(u, g)
  <2>1. SUFFICES ASSUME \A u \in Thr : ~Closing(u, g) PROVE Clean(g)
    OBVIOUS
  <2>2. \A u \in Thr : g \notin Held(u)
    BY <1>4, <2>1
  <2>3. Right(p, g)
    BY <1>1, <2>2 DEF TableInv, RightAtRest, Proc
  <2> QED
    BY <1>1, <2>3, FilesAssumption DEF Right, Clean
<1>12. Kept(t)'
  <2>1. c.fd # None => c.fd \in Fds /\ c.fd # g
    BY <1>2, <1>5, CallTypes, HoldsIts DEF MaybeFd, TableInv
  <2>2. c.fd # None => files[p][c.fd] = c.on /\ Right(p, c.fd)
    BY <1>2 DEF Kept, Closing
  <2>3. c.fd # None => files'[p][c.fd] = c.on /\ Right(p, c.fd)'
    BY <1>9, <2>1, <2>2 DEF Right
  <2>4. new = Given(call[t])'
    BY <1>9 DEF Given, new
  <2>5. Clean(g)' \/ \E u \in Thr : Closing(u, g)'
    BY <1>8, <1>9, <1>11 DEF Clean
  <2> QED
    BY <1>9, <2>3, <2>4, <2>5 DEF Kept, Alloc
<1>13. g \in Held(t)'
  BY <1>6, <1>9 DEF Held
<1> QED
  BY <1>1, <1>8, <1>9, <1>10, <1>12, <1>13 DEF TableInv, CallInv

\* A dup2 opens its target.
LEMMA RunDup2 ==
    ASSUME OneProcess, TableInv, NEW t \in Thr, call[t].nr = "dup2",
           RunStep(t, call[t].to, call[t].on, call[t].to)
    PROVE  TableInv' /\ call[t].to \in Held(t) /\ call[t].to \in Fds
<1> DEFINE p == ProcOf[t]
           c == call[t]
           g == c.to
<1>1. stage[t] = "kernel" /\ Shape(t) /\ Kept(t)
  BY DEF RunStep, TableInv, CallInv
<1>2. g \in Fds /\ g \in MaybeFd /\ g \in Held(t) /\ c.fd \in Fds
  BY <1>1, CallTypes, HoldsIts DEF TableInv, Shape, MaybeFd
<1>3. c.on \in Maybe /\ c.on # None
  BY <1>1, CallTypes DEF TableInv, Shape
<1>4. \A u \in Thr : u # t => g \notin Held(u)
  BY <1>1, <1>2, KernelAlone DEF TableInv
<1>5. /\ Typed' /\ Exclusive' /\ NoTaker' /\ RightAtRest'
      /\ \A u \in Thr : u # t /\ stage'[u] # "user" => Shape(u)' /\ Kept(u)'
  <2>1. RunStep(t, g, c.on, g)
    OBVIOUS
  <2> HIDE DEF g
  <2> QED
    BY <1>2, <1>3, <1>4, <2>1, RunFrame
<1>6. p \in Proc /\ Typed
  BY DEF Proc, TableInv
<1>7. RunDone(t, g, c.on, g)
  <2>1. RunStep(t, g, c.on, g)
    OBVIOUS
  <2> HIDE DEF g
  <2> QED
    BY <1>2, <1>3, <1>6, <2>1, RunStepFields
<1>8. /\ stage'[t] = "exit"
      /\ call'[t].nr = c.nr /\ call'[t].lib = c.lib
      /\ call'[t].fd = c.fd /\ call'[t].to = c.to
      /\ call'[t].path = c.path /\ call'[t].hint = c.hint
      /\ call'[t].on = c.on /\ call'[t].ret = g
      /\ files'[p][g] = c.on
      /\ \A f \in Fds : f # g => files'[p][f] = files[p][f]
      /\ UNCHANGED <<fd_paths, hidden>>
  BY <1>6, <1>7 DEF RunDone
<1>9. Shape(t)'
  BY <1>1, <1>8 DEF Shape
<1>10. Kept(t)'
  <2>1. files[p][c.fd] = c.on /\ Right(p, c.fd)
    BY <1>1, <1>2, FdsAssumption DEF Kept, Closing
  <2>2. files'[p][c.fd] = c.on
    BY <1>2, <1>8, <2>1
  <2>3. Right(p, c.fd)'
    BY <1>8, <2>1, <2>2 DEF Right
  <2> QED
    BY <1>8, <2>2, <2>3 DEF Kept, Alloc
<1> QED
  BY <1>2, <1>5, <1>9, <1>10 DEF TableInv, CallInv

\* A close closes its descriptor.
LEMMA RunClose ==
    ASSUME OneProcess, TableInv, NEW t \in Thr, call[t].nr = "close",
           RunStep(t, call[t].fd, None, None)
    PROVE  TableInv' /\ call[t].fd \in Held(t) /\ call[t].fd \in Fds
<1> DEFINE p == ProcOf[t]
           c == call[t]
           g == c.fd
<1>1. stage[t] = "kernel" /\ Shape(t) /\ Kept(t)
  BY DEF RunStep, TableInv, CallInv
<1>2. g \in Fds /\ None \in MaybeFd /\ None \in Maybe /\ g \in Held(t)
  BY <1>1, CallTypes, HoldsIts DEF TableInv, Shape, MaybeFd, Maybe
<1>3. \A u \in Thr : u # t => g \notin Held(u)
  BY <1>1, <1>2, KernelAlone DEF TableInv
<1>4. RunStep(t, g, None, None)
  OBVIOUS
<1>5. /\ Typed' /\ Exclusive' /\ NoTaker' /\ RightAtRest'
      /\ \A u \in Thr : u # t /\ stage'[u] # "user" => Shape(u)' /\ Kept(u)'
  <2> HIDE DEF g
  <2> QED
    BY <1>2, <1>3, <1>4, RunFrame
<1>6. Typed
  BY DEF TableInv
<1>7. RunDone(t, g, None, None)
  <2> HIDE DEF g
  <2> QED
    BY <1>2, <1>4, <1>6, RunStepFields
<1>8. /\ stage'[t] = "exit"
      /\ call'[t].nr = c.nr /\ call'[t].lib = c.lib
      /\ call'[t].fd = c.fd /\ call'[t].to = c.to
      /\ call'[t].path = c.path /\ call'[t].hint = c.hint
      /\ call'[t].on = c.on /\ call'[t].ret = None
  BY <1>7 DEF RunDone
<1>9. Shape(t)'
  BY <1>1, <1>8 DEF Shape
<1>10. Kept(t)'
  BY <1>8 DEF Kept, Closing
<1> QED
  BY <1>2, <1>5, <1>9, <1>10 DEF TableInv, CallInv

\* The call fails, or has nothing to do with descriptors.
LEMMA RunStays ==
    ASSUME OneProcess, TableInv, NEW t \in Thr,
           call[t].nr \in Alloc \cup {"use"}, stage[t] = "kernel",
           stage' = [stage EXCEPT ![t] = "exit"],
           UNCHANGED <<files, call, fd_paths, hidden>>
    PROVE  TableInv' /\ \A u \in Thr : Held(u)' = Held(u)
<1>1. /\ stage \in [Thr -> {"user", "kernel", "exit"}]
      /\ stage'[t] = "exit" /\ Shape(t) /\ Kept(t)
      /\ \A u \in Thr : u # t => stage'[u] = stage[u]
  BY DEF TableInv, Typed, CallInv
<1>2. call[t].ret = None /\ call[t].nr \notin {"close", "dup2"}
  BY <1>1 DEF Shape, Alloc
<1>3. Typed'
  BY <1>1 DEF TableInv, Typed
<1>4. \A u \in Thr : Held(u)' = Held(u)
  BY <1>1 DEF Held
<1>5. ASSUME NEW u \in Thr, NEW f
      PROVE  /\ Closing(u, f)' <=> Closing(u, f)
             /\ f # None => (Giving(u, f)' <=> Giving(u, f))
  BY <1>1, <1>2 DEF Closing, Giving
<1>6. /\ \A q, f : Right(q, f)' <=> Right(q, f)
      /\ \A f : Clean(f)' <=> Clean(f)
  BY DEF Right, Clean
<1>7. ASSUME NEW u \in Thr, stage'[u] # "user" PROVE Shape(u)' /\ Kept(u)'
  <2>1. Shape(u) /\ Kept(u)
    BY <1>1, <1>7 DEF TableInv, CallInv
  <2>2. Shape(u)'
    BY <1>1, <1>2, <2>1 DEF Shape
  <2>3. call'[u] = call[u] /\ files' = files
    OBVIOUS
  <2>4. ~(call[u].nr = "dup2" /\ stage'[u] # stage[u])
    BY <1>1, <1>2
  <2>5. \A f : (\E w \in Thr : Closing(w, f)') <=> \E w \in Thr : Closing(w, f)
    BY <1>5
  <2>6. Kept(u)'
    BY <1>5, <1>6, <2>1, <2>3, <2>4, <2>5 DEF Kept
  <2> QED
    BY <2>2, <2>6
<1>8. Exclusive'
  <2> SUFFICES ASSUME NEW v \in Thr, NEW u \in Thr, v # u,
                      NEW f \in Held(v)' \cap Held(u)'
               PROVE  \/ Closing(v, f)' /\ Giving(u, f)'
                      \/ Closing(u, f)' /\ Giving(v, f)'
    BY DEF Exclusive
  <2>1. f \in Held(v) \cap Held(u) /\ f # None
    BY <1>4, HeldIs
  <2>2. \/ Closing(v, f) /\ Giving(u, f)
        \/ Closing(u, f) /\ Giving(v, f)
    BY <2>1 DEF TableInv, Exclusive
  <2> QED
    BY <1>5, <2>1, <2>2
<1>9. NoTaker'
  BY <1>1 DEF TableInv, NoTaker
<1>10. RightAtRest'
  BY <1>4, <1>6 DEF TableInv, RightAtRest, Proc
<1> QED
  BY <1>3, <1>4, <1>7, <1>8, <1>9, <1>10 DEF TableInv, CallInv

LEMMA RunTable ==
    ASSUME OneProcess, TableInv, NEW t \in Thr, Run(t)
    PROVE  TableInv'
<1> DEFINE c == call[t]
           free == {f \in Fds : files[ProcOf[t]][f] = None}
<1>1. CASE c.nr \in Alloc /\ free # {} /\ RunStep(t, Min(free), Given(c), Min(free))
  BY <1>1, RunGives
<1>2. CASE /\ c.nr \in Alloc \cup {"use"}
           /\ stage[t] = "kernel" /\ UNCHANGED <<files, call>>
           /\ stage' = [stage EXCEPT ![t] = "exit"]
           /\ UNCHANGED <<fd_paths, hidden>>
  BY <1>2, RunStays
<1>3. CASE c.nr = "dup2" /\ RunStep(t, c.to, c.on, c.to)
  BY <1>3, RunDup2
<1>4. CASE c.nr = "close" /\ c.ret = None /\ RunStep(t, c.fd, None, None)
  BY <1>4, RunClose
<1> QED
  BY <1>1, <1>2, <1>3, <1>4, RunCases, Zenon

\* What an exit-stop does to the tables.
TablesAfter(c) ==
    \/ /\ c.nr = "open" /\ c.ret # None
       /\ fd_paths' = [fd_paths EXCEPT ![c.ret] = c.hint]
       /\ hidden' = IF c.hint = "log" THEN hidden \cup {c.ret} ELSE hidden
    \/ /\ c.nr = "close"
       /\ fd_paths' = [fd_paths EXCEPT ![c.fd] = None]
       /\ hidden' = hidden \ {c.fd}
    \/ /\ c.nr \in {"dup", "dup2"} /\ c.ret # None
       /\ fd_paths' = [fd_paths EXCEPT ![c.ret] = fd_paths[c.fd]]
       /\ hidden' = IF c.fd \in hidden THEN hidden \cup {c.ret}
                    ELSE IF c.nr = "dup2" THEN hidden \ {c.ret} ELSE hidden
    \/ /\ c.nr \in {"socket", "use"} \/ (c.nr \in {"open", "dup", "dup2"} /\ c.ret = None)
       /\ fd_paths' = fd_paths /\ hidden' = hidden

LEMMA ExitCases ==
    ASSUME NEW c, c.nr \in Calls,
           hidden' = UpdateHidden(c), fd_paths' = UpdateFdPaths(c)
    PROVE  TablesAfter(c)
<1>1. CASE c.nr = "open"
  BY <1>1 DEF TablesAfter, UpdateHidden, UpdateFdPaths, IsOutput
<1>2. CASE c.nr = "close"
  BY <1>2 DEF TablesAfter, UpdateHidden, UpdateFdPaths
<1>3. CASE c.nr = "dup"
  BY <1>3 DEF TablesAfter, UpdateHidden, UpdateFdPaths
<1>4. CASE c.nr = "dup2"
  <2>1. CASE c.ret = None
    BY <1>4, <2>1 DEF TablesAfter, UpdateHidden, UpdateFdPaths
  <2>2. CASE c.ret # None
    <3>1. fd_paths' = [fd_paths EXCEPT ![c.ret] = fd_paths[c.fd]]
      BY <1>4, <2>2 DEF UpdateFdPaths
    <3>2. hidden' = IF c.fd \in hidden THEN hidden \cup {c.ret}
                    ELSE hidden \ {c.ret}
      <4>1. CASE c.fd \in hidden
        BY <1>4, <2>2, <4>1 DEF UpdateHidden
      <4>2. CASE c.fd \notin hidden
        BY <1>4, <2>2, <4>2 DEF UpdateHidden
      <4> QED
        BY <4>1, <4>2
    <3> QED
      BY <1>4, <2>2, <3>1, <3>2 DEF TablesAfter
  <2> QED
    BY <2>1, <2>2
<1>5. CASE c.nr \in {"socket", "use"}
  BY <1>5 DEF TablesAfter, UpdateHidden, UpdateFdPaths
<1> QED
  BY <1>1, <1>2, <1>3, <1>4, <1>5 DEF Calls

LEMMA ExitFields ==
    ASSUME TableInv, NEW t \in Thr, Exit(t)
    PROVE  /\ stage[t] = "exit" /\ Shape(t) /\ Kept(t)
           /\ TablesAfter(call[t])
           /\ stage'[t] = "user" /\ Held(t)' = {}
           /\ \A u \in Thr : u # t => /\ call'[u] = call[u]
                                      /\ stage'[u] = stage[u]
                                      /\ Held(u)' = Held(u)
           /\ files' = files
           /\ Typed'
<1>1. /\ stage[t] = "exit"
      /\ hidden' = UpdateHidden(call[t])
      /\ fd_paths' = UpdateFdPaths(call[t])
      /\ stage' = [stage EXCEPT ![t] = "user"]
      /\ call' = [call EXCEPT ![t] = NoCall]
      /\ files' = files
  BY DEF Exit
<1>2. Shape(t) /\ Kept(t)
  BY <1>1 DEF TableInv, CallInv
<1>3. /\ call[t].nr \in Calls /\ call[t].ret \in MaybeFd /\ call[t].fd \in MaybeFd
      /\ call[t].hint \in Maybe
  BY CallTypes DEF TableInv
<1>4. TablesAfter(call[t])
  BY <1>1, <1>3, ExitCases
<1>5. /\ files \in [Proc -> [Fds -> Maybe]]
      /\ stage \in [Thr -> {"user", "kernel", "exit"}]
      /\ call \in [Thr -> CallRecord]
      /\ fd_paths \in [Fds -> Maybe]
      /\ hidden \in SUBSET Fds
  BY DEF TableInv, Typed
<1>6. fd_paths' \in [Fds -> Maybe] /\ hidden' \in SUBSET Fds
  <2>1. /\ call[t].nr \in {"close", "dup", "dup2"} => call[t].fd \in Fds
        /\ call[t].ret # None => call[t].ret \in Fds
        /\ None \in Maybe
    BY <1>2, <1>3 DEF Shape, MaybeFd, Maybe
  <2> QED
    BY <1>3, <1>4, <1>5, <2>1 DEF TablesAfter
<1>7. NoCall \in CallRecord
  BY Zenon DEF NoCall, CallRecord, Calls, MaybeFd, Maybe
<1>8. Typed'
  BY <1>1, <1>5, <1>6, <1>7 DEF Typed
<1>9. /\ stage'[t] = "user"
      /\ \A u \in Thr : u # t => call'[u] = call[u] /\ stage'[u] = stage[u]
  BY <1>1, <1>5
<1>10. Held(t)' = {} /\ \A u \in Thr : u # t => Held(u)' = Held(u)
  BY <1>9 DEF Held
<1> QED
  BY <1>1, <1>2, <1>4, <1>8, <1>9, <1>10

\* An exit-stop changes the tables only at descriptors its call has, and after a
\* close they say nothing about the descriptor.
LEMMA ExitElsewhere ==
    ASSUME TableInv, NEW t \in Thr, Exit(t), NEW f \in Fds
    PROVE  /\ f \notin Held(t) => /\ fd_paths'[f] = fd_paths[f]
                                  /\ f \in hidden' <=> f \in hidden
           /\ Closing(t, f) => Clean(f)'
<1>1. stage[t] = "exit" /\ Shape(t) /\ TablesAfter(call[t])
  BY ExitFields
<1>2. fd_paths \in [Fds -> Maybe]
  BY DEF TableInv, Typed
<1>3. /\ call[t].nr = "close" => call[t].fd # None /\ call[t].fd \in Held(t)
      /\ call[t].ret # None => call[t].ret \in Held(t)
  BY <1>1, HoldsIts DEF Shape
<1>4. ASSUME f \notin Held(t)
      PROVE  fd_paths'[f] = fd_paths[f] /\ (f \in hidden' <=> f \in hidden)
  BY <1>1, <1>2, <1>3, <1>4 DEF TablesAfter
<1>5. ASSUME Closing(t, f) PROVE Clean(f)'
  BY <1>1, <1>2, <1>5 DEF TablesAfter, Closing, Clean
<1> QED
  BY <1>4, <1>5

\* The tables are right about a descriptor once the last call that had to do
\* with it is over.
LEMMA ExitLast ==
    ASSUME OneProcess, TableInv, NEW t \in Thr, Exit(t), NEW f \in Held(t),
           \A u \in Thr : u # t => f \notin Held(u)
    PROVE  Right(ProcOf[t], f)'
<1> DEFINE p == ProcOf[t]
           c == call[t]
<1>1. /\ stage[t] = "exit" /\ Shape(t) /\ Kept(t) /\ TablesAfter(c)
      /\ files' = files
  BY ExitFields
<1>2. fd_paths \in [Fds -> Maybe] /\ f \in Fds
  BY HeldFds DEF TableInv, Typed
<1>3. c.nr \in Calls
  BY CallTypes DEF TableInv
<1>4. f # None /\ (f = c.fd \/ f = c.to \/ f = c.ret)
  BY HeldIs
\* No close of f is pending.
<1>5. ASSUME NEW u \in Thr, Closing(u, f) PROVE u = t
  BY <1>5, <1>4, HoldsIts DEF Closing
<1>6. CASE c.nr = "close"
  <2>1. f = c.fd
    BY <1>1, <1>4, <1>6 DEF Shape
  <2>2. Clean(f)'
    BY <1>1, <1>2, <1>6, <2>1, ExitElsewhere DEF Closing
  <2> QED
    BY <2>2 DEF Clean, Right
<1>7. CASE c.nr = "open"
  <2>1. f = c.ret /\ f # None
    BY <1>1, <1>4, <1>7 DEF Shape
  <2>2. files[p][f] = c.path /\ Clean(f) /\ c.hint = c.path
    BY <1>1, <1>5, <1>7, <2>1 DEF Kept, Given, Alloc, Shape, Closing
  <2> QED
    BY <1>1, <1>2, <1>7, <2>1, <2>2 DEF TablesAfter, Right, Clean
<1>8. CASE c.nr = "socket"
  <2>1. f = c.ret /\ f # None
    BY <1>1, <1>4, <1>8 DEF Shape
  <2>2. Clean(f)
    BY <1>1, <1>5, <1>8, <2>1 DEF Kept, Alloc, Closing
  <2> QED
    BY <1>1, <1>8, <2>1, <2>2 DEF TablesAfter, Right, Clean
<1>9. CASE c.nr = "use"
  <2>1. f = c.fd
    BY <1>1, <1>4, <1>9 DEF Shape
  <2>2. Right(p, f)
    BY <1>1, <1>4, <1>9, <2>1 DEF Kept, Closing
  <2> QED
    BY <1>1, <1>9, <2>2 DEF TablesAfter, Right
<1>10. CASE c.nr \in {"dup", "dup2"}
  <2>1. c.fd # None /\ c.fd \in Fds
    BY <1>1, <1>10, CallTypes DEF Shape, TableInv, MaybeFd
  <2>2. files[p][c.fd] = c.on /\ Right(p, c.fd)
    BY <1>1, <1>10, <2>1 DEF Kept, Closing
  <2>3. CASE f = c.ret
    <3>1. files[p][f] = c.on
      BY <1>1, <1>4, <1>10, <2>3 DEF Kept, Given, Alloc, Shape
    <3>2. c.nr = "dup" => Clean(f)
      BY <1>1, <1>4, <1>5, <2>3 DEF Kept, Alloc, Closing
    <3> QED
      BY <1>1, <1>2, <1>4, <1>10, <2>1, <2>2, <2>3, <3>1, <3>2
      DEF TablesAfter, Right, Clean
  <2>4. CASE f # c.ret
    <3>1. f = c.fd
      BY <1>1, <1>4, <1>10, <2>4 DEF Shape
    <3> QED
      BY <1>1, <1>2, <1>10, <2>2, <2>4, <3>1 DEF TablesAfter, Right
  <2> QED
    BY <2>3, <2>4
<1> QED
  BY <1>3, <1>6, <1>7, <1>8, <1>9, <1>10 DEF Calls

LEMMA ExitTable ==
    ASSUME OneProcess, TableInv, NEW t \in Thr, Exit(t)
    PROVE  TableInv'
<1>1. /\ stage[t] = "exit" /\ Typed'
      /\ stage'[t] = "user" /\ Held(t)' = {}
      /\ \A u \in Thr : u # t => /\ call'[u] = call[u]
                                 /\ stage'[u] = stage[u]
                                 /\ Held(u)' = Held(u)
      /\ files' = files
  BY ExitFields
<1>2. ASSUME NEW f \in Fds, f \notin Held(t)
      PROVE  /\ \A q \in Proc : Right(q, f) => Right(q, f)'
             /\ Clean(f) => Clean(f)'
             /\ \A u \in Thr : Closing(u, f) => Closing(u, f)'
  <2>1. fd_paths'[f] = fd_paths[f] /\ (f \in hidden' <=> f \in hidden)
    BY <1>2, ExitElsewhere
  <2>2. ASSUME NEW u \in Thr, Closing(u, f) PROVE u # t
    BY <1>2, <2>2, HoldsIts, FdsAssumption DEF Closing
  <2>3. \A u \in Thr : Closing(u, f) => Closing(u, f)'
    BY <1>1, <2>2 DEF Closing
  <2> QED
    BY <1>1, <2>1, <2>3 DEF Right, Clean
\* A descriptor shared with the call is one it closed, or one the other closed.
<1>3. ASSUME NEW u \in Thr, u # t, NEW f \in Held(u), f \in Held(t)
      PROVE  (Giving(u, f) /\ Clean(f)') \/ (Closing(u, f) /\ Giving(t, f))
  <2>1. (Closing(t, f) /\ Giving(u, f)) \/ (Closing(u, f) /\ Giving(t, f))
    BY <1>3 DEF TableInv, Exclusive
  <2>2. f \in Fds
    BY HeldFds DEF TableInv
  <2> QED
    BY <2>1, <2>2, ExitElsewhere
<1>4. \A q, f : Clean(f)' => Right(q, f)'
  BY DEF Clean, Right
<1>5. ASSUME NEW u \in Thr, stage'[u] # "user" PROVE Shape(u)' /\ Kept(u)'
  <2>1. u # t /\ stage[u] # "user" /\ Shape(u) /\ Kept(u)
    BY <1>1, <1>5 DEF TableInv, CallInv
  <2>2. call'[u] = call[u] /\ stage'[u] = stage[u] /\ ProcOf[u] \in Proc
    BY <1>1, <2>1 DEF Proc
  <2>3. Shape(u)'
    BY <2>1, <2>2 DEF Shape
  <2> DEFINE c == call[u]
             p == ProcOf[u]
  <2>4. /\ c.fd # None => c.fd \in Fds /\ c.fd \in Held(u)
        /\ c.to # None => c.to \in Fds /\ c.to \in Held(u)
        /\ c.ret # None => c.ret \in Fds /\ c.ret \in Held(u)
    BY <2>1, CallTypes, HoldsIts DEF TableInv, MaybeFd
  <2>5. ASSUME NEW f \in Held(u), f \in Fds, ~Closing(u, f)
        PROVE  /\ Right(p, f) => Right(p, f)'
               /\ \/ Clean(f)
                  \/ \E w \in Thr : Closing(w, f)
                  => Clean(f)' \/ \E w \in Thr : Closing(w, f)'
    <3>1. CASE f \notin Held(t)
      BY <1>2, <2>2, <2>5, <3>1
    <3>2. CASE f \in Held(t)
      <4>1. Clean(f)'
        BY <1>3, <2>1, <2>5, <3>2
      <4> QED
        BY <1>4, <4>1
    <3> QED
      BY <3>1, <3>2
  <2>6. ~Closing(u, c.to) \/ c.nr # "dup2"
    BY DEF Closing
  <2>7. ~Closing(u, c.ret) \/ c.nr \notin Alloc
    BY DEF Closing, Alloc
  <2>8. \A f : Closing(u, f)' <=> Closing(u, f)
    BY <2>2 DEF Closing
  <2>9. Given(call[u])' = Given(call[u])
    BY <2>2 DEF Given
  <2>10. Kept(u)'
    <3>1. call[u].nr = "dup2" => call[u].to # None
      BY <2>1 DEF Shape
    <3> QED
      BY <1>1, <2>1, <2>2, <2>4, <2>5, <2>6, <2>7, <2>8, <2>9, <3>1 DEF Kept
  <2> QED
    BY <2>3, <2>10
<1>6. Exclusive'
  <2> SUFFICES ASSUME NEW v \in Thr, NEW u \in Thr, v # u,
                      NEW f \in Held(v)' \cap Held(u)'
               PROVE  \/ Closing(v, f)' /\ Giving(u, f)'
                      \/ Closing(u, f)' /\ Giving(v, f)'
    BY DEF Exclusive
  <2>1. v # t /\ u # t
    BY <1>1
  <2>2. f \in Held(v) \cap Held(u)
    BY <1>1, <2>1
  <2>3. \/ Closing(v, f) /\ Giving(u, f)
        \/ Closing(u, f) /\ Giving(v, f)
    BY <2>2 DEF TableInv, Exclusive
  <2> QED
    BY <1>1, <2>1, <2>3 DEF Closing, Giving
<1>7. NoTaker'
  <2> SUFFICES ASSUME NEW v \in Thr, NEW u \in Thr,
                      stage'[v] = "kernel", call'[v].nr = "dup2",
                      files'[ProcOf[v]][call'[v].to] = None,
                      stage'[u] = "kernel"
               PROVE  call'[u].nr \notin Alloc
    BY DEF NoTaker
  <2>1. v # t /\ u # t
    BY <1>1
  <2> QED
    BY <1>1, <2>1 DEF TableInv, NoTaker
<1>8. RightAtRest'
  <2> SUFFICES ASSUME NEW q \in Proc, NEW f \in Fds,
                      \A u \in Thr : f \notin Held(u)'
               PROVE  Right(q, f)'
    BY DEF RightAtRest, Proc
  <2>1. \A u \in Thr : u # t => f \notin Held(u)
    BY <1>1
  <2>2. CASE f \in Held(t)
    BY <2>1, <2>2, ExitLast, TheProcess
  <2>3. CASE f \notin Held(t)
    <3>1. Right(q, f)
      BY <2>1, <2>3 DEF TableInv, RightAtRest
    <3> QED
      BY <1>2, <2>3, <3>1
  <2> QED
    BY <2>2, <2>3
<1> QED
  BY <1>1, <1>5, <1>6, <1>7, <1>8 DEF TableInv, CallInv

LEMMA TableInvStep ==
    ASSUME OneProcess, TableInv, [Next]_vars
    PROVE  TableInv'
<1>1. ASSUME NEW t \in Thr, NEW lib \in BOOLEAN, NEW nr \in Calls,
             Enter(t, lib, nr)
      PROVE  TableInv'
  BY <1>1, EnterTable
<1>2. ASSUME NEW t \in Thr, Run(t) PROVE TableInv'
  BY <1>2, RunTable
<1>3. ASSUME NEW t \in Thr, Exit(t) PROVE TableInv'
  BY <1>3, ExitTable
<1>4. CASE UNCHANGED vars
  <2>1. \A t \in Thr : Held(t)' = Held(t)
    BY <1>4 DEF vars, Held
  <2>2. \A t \in Thr, f \in Fds \cup {None} :
          /\ Closing(t, f)' <=> Closing(t, f)
          /\ Giving(t, f)' <=> Giving(t, f)
    BY <1>4 DEF vars, Closing, Giving
  <2>3. Typed' /\ CallInv' /\ Exclusive' /\ NoTaker' /\ RightAtRest'
    BY <1>4 DEF TableInv, vars, Typed, CallInv, Shape, Kept, Exclusive, NoTaker,
                RightAtRest, Right, Clean, Held, Closing, Giving, Given, Proc
  <2> QED
    BY <2>3 DEF TableInv
<1> QED
  BY <1>1, <1>2, <1>3, <1>4, Zenon DEF Next

\* The threads of one process may have any number of calls in progress, and
\* their exit-stops may be handled in any order: once no call is in progress,
\* the tables name and hide nothing wrongly.
THEOREM TablesSettleRight ==
    ASSUME OneProcess
    PROVE  Spec => []TablesRightAtRest
<1>1. Init => TableInv
  BY TableInvInit
<1>2. TableInv /\ [Next]_vars => TableInv'
  BY TableInvStep
<1>3. TableInv => TablesRightAtRest
  <2> SUFFICES ASSUME TableInv, AtRest, NEW p \in Proc
               PROVE  /\ \A f \in Fds : fd_paths[f] # None =>
                                          files[p][f] = fd_paths[f]
                      /\ \A f \in hidden : files[p][f] = "log"
    BY DEF TablesRightAtRest
  <2>1. \A t \in Thr : Held(t) = {}
    BY DEF AtRest, Held
  <2>2. \A f \in Fds : Right(p, f)
    BY <2>1 DEF TableInv, RightAtRest
  <2>3. hidden \subseteq Fds
    BY DEF TableInv, Typed
  <2> QED
    BY <2>2, <2>3 DEF Right
<1> QED
  BY <1>1, <1>2, <1>3, PTL DEF Spec

-----------------------------------------------------------------------------
(* Every step keeps the tables complete while calls do not overlap.         *)

LEMMA SerialInit ==
    ASSUME Init
    PROVE  SerialInv /\ LinesRight
<1>1. \A t \in Thr : stage[t] = "user"
  BY DEF Init
<1>2. \A p \in Proc, f \in Fds : Whole(p, f)
  BY DEF Init, Whole
<1>3. SerialInv
  BY <1>1, <1>2 DEF SerialInv
<1>4. line = NoLine
  BY DEF Init
<1>5. LinesRight
  BY <1>4, FilesAssumption, Zenon DEF LinesRight, NoLine
<1> QED
  BY <1>3, <1>5

LEMMA EnterSerial ==
    ASSUME OneProcess, TableInv, SerialInv, NEW t \in Thr, NEW lib \in BOOLEAN,
           NEW nr \in Calls, Enter(t, lib, nr)
    PROVE  SerialInv'
<1> SUFFICES ASSUME ~raced' PROVE SerialInv'
  BY DEF SerialInv
<1>1. ~raced /\ \A u \in Thr : stage[u] = "user"
  BY Zenon DEF Enter
<1>2. /\ stage' = [stage EXCEPT ![t] = "kernel"]
      /\ UNCHANGED <<files, fd_paths, hidden>>
  BY DEF Enter
<1>3. /\ stage \in [Thr -> {"user", "kernel", "exit"}]
      /\ call \in [Thr -> CallRecord]
  BY DEF TableInv, Typed
<1>4. TableInv'
  BY EnterTable
<1>5. stage'[t] = "kernel" /\ \A u \in Thr : u # t => stage'[u] = "user"
  BY <1>1, <1>2, <1>3
<1>6. \A u \in Thr : Held(u) = {}
  BY <1>1 DEF Held
<1>7. \A p \in Proc, f \in Fds : Whole(p, f)
  BY <1>1, <1>6 DEF SerialInv
<1>8. stage'[t] # "user" /\ Kept(t)' /\ Shape(t)' /\ call'[t] \in CallRecord
  BY <1>4, <1>5 DEF TableInv, CallInv, Typed
<1>9. ASSUME call'[t].fd # None PROVE Told(call[t])'
  <2> DEFINE p == ProcOf[t]
             f == call'[t].fd
  <2>1. f \in Fds /\ p \in Proc
    BY <1>8, <1>9 DEF CallRecord, MaybeFd, Proc
  <2>2. files[p][f] = call'[t].on /\ Right(p, f)
    BY <1>2, <1>5, <1>8, <1>9 DEF Kept, Closing, Right
  <2>3. Whole(p, f)
    BY <1>7, <2>1
  <2>4. call'[t].on # None
    BY <1>8, <1>9 DEF Shape
  <2>5. UNCHANGED <<fd_paths, hidden>>
    BY <1>2
  <2> QED
    BY <2>2, <2>3, <2>4, <2>5, FilesAssumption DEF Told, Whole, Right
<1>10. \A p \in Proc, f \in Fds : Whole(p, f)'
  BY <1>2, <1>7 DEF Whole
<1> QED
  BY <1>5, <1>8, <1>9, <1>10 DEF SerialInv, Proc

\* The kernel changes a descriptor that the call has.
LEMMA RunStepSerial ==
    ASSUME OneProcess, TableInv, SerialInv, NEW t \in Thr, NEW g \in Fds,
           NEW new \in Maybe, NEW r \in MaybeFd, RunStep(t, g, new, r),
           g \in Held(t) \/ r = g, UNCHANGED raced,
           call[t].nr = "close" => g = call[t].fd /\ new = None
    PROVE  SerialInv'
<1> SUFFICES ASSUME ~raced PROVE SerialInv'
  BY DEF SerialInv
<1>1. RunDone(t, g, new, r)
  BY RunStepFields DEF TableInv
<1>2. /\ stage'[t] = "exit" /\ stage[t] = "kernel"
      /\ call'[t].nr = call[t].nr /\ call'[t].fd = call[t].fd
      /\ call'[t].to = call[t].to /\ call'[t].on = call[t].on
      /\ call'[t].ret = r
      /\ \A u \in Thr : u # t => call'[u] = call[u] /\ stage'[u] = stage[u]
      /\ \A q \in Proc : files'[q][g] = new
      /\ \A q \in Proc, f \in Fds : f # g => files'[q][f] = files[q][f]
      /\ UNCHANGED <<fd_paths, hidden>>
  BY <1>1 DEF RunDone
<1>3. Shape(t)
  BY <1>2 DEF TableInv, CallInv
<1>4. \A u \in Thr : u # t => stage[u] = "user" /\ stage'[u] = "user"
  BY <1>2 DEF SerialInv
<1>5. call'[t].fd # None => Told(call[t])'
  BY <1>2 DEF SerialInv, Told
<1>6. call'[t].nr = "close" => files'[ProcOf[t]][call'[t].fd] = None
  BY <1>2 DEF Proc
<1>7. Held(t) \subseteq Held(t)' /\ g \in Held(t)'
  <2>1. call[t].ret = None /\ g # None
    BY <1>2, <1>3, FdsAssumption DEF Shape
  <2> QED
    BY <1>2, <2>1 DEF Held
<1>8. ASSUME NEW q \in Proc, NEW f \in Fds, \A u \in Thr : f \notin Held(u)'
      PROVE  Whole(q, f)'
  <2>1. f # g /\ f \notin Held(t)
    BY <1>7, <1>8
  <2>2. \A u \in Thr : f \notin Held(u)
    BY <1>4, <2>1 DEF Held
  <2>3. Whole(q, f)
    BY <2>2 DEF SerialInv
  <2> QED
    BY <1>2, <2>1, <2>3 DEF Whole
<1> QED
  BY <1>4, <1>5, <1>6, <1>8 DEF SerialInv, Proc

LEMMA RunSerial ==
    ASSUME OneProcess, TableInv, SerialInv, NEW t \in Thr, Run(t)
    PROVE  SerialInv'
<1> DEFINE c == call[t]
           free == {f \in Fds : files[ProcOf[t]][f] = None}
<1>1. UNCHANGED raced
  BY DEF Run
<1>2. CASE c.nr \in Alloc /\ free # {} /\ RunStep(t, Min(free), Given(c), Min(free))
  <2> DEFINE g == Min(free)
             new == Given(c)
  <2>1. g \in Fds
    BY <1>2, RunGives
  <2>2. stage[t] = "kernel" /\ Shape(t)
    BY <1>2 DEF RunStep, TableInv, CallInv
  <2>3. new \in Maybe
    BY <1>2, <2>2, CallTypes DEF TableInv, Given, Shape, Alloc, Maybe, Anything, Open
  <2>4. c.nr # "close" /\ g \in MaybeFd /\ RunStep(t, g, new, g)
    BY <1>2, <2>1 DEF Alloc, MaybeFd
  <2> HIDE DEF g, new
  <2> QED
    BY <1>1, <2>1, <2>3, <2>4, RunStepSerial
<1>3. CASE /\ c.nr \in Alloc \cup {"use"}
           /\ stage[t] = "kernel" /\ UNCHANGED <<files, call>>
           /\ stage' = [stage EXCEPT ![t] = "exit"]
           /\ UNCHANGED <<fd_paths, hidden>>
  <2> SUFFICES ASSUME ~raced PROVE SerialInv'
    BY <1>1 DEF SerialInv
  <2>1. \A u \in Thr : Held(u)' = Held(u)
    BY <1>3, RunStays
  <2>2. stage \in [Thr -> {"user", "kernel", "exit"}]
    BY DEF TableInv, Typed
  <2>3. stage'[t] = "exit" /\ \A u \in Thr : u # t => stage'[u] = stage[u]
    BY <1>3, <2>2
  <2>4. \A u \in Thr : u # t => stage[u] = "user"
    BY <1>3 DEF SerialInv
  <2>5. call'[t] = call[t] /\ c.nr # "close"
    BY <1>3 DEF Alloc
  <2>6. c.fd # None => Told(call[t])'
    BY <1>3, <2>5 DEF SerialInv, Told
  <2>7. \A q \in Proc, f \in Fds : Whole(q, f)' <=> Whole(q, f)
    BY <1>3 DEF Whole
  <2> QED
    BY <2>1, <2>3, <2>4, <2>5, <2>6, <2>7 DEF SerialInv, Proc
<1>4. CASE c.nr = "dup2" /\ RunStep(t, c.to, c.on, c.to)
  <2> DEFINE g == c.to
             new == c.on
  <2>1. g \in Held(t) /\ g \in Fds
    BY <1>4, RunDup2
  <2>2. new \in Maybe /\ c.nr # "close" /\ g \in MaybeFd /\ RunStep(t, g, new, g)
    BY <1>4, CallTypes DEF TableInv
  <2> HIDE DEF g, new
  <2> QED
    BY <1>1, <2>1, <2>2, RunStepSerial
<1>5. CASE c.nr = "close" /\ c.ret = None /\ RunStep(t, c.fd, None, None)
  <2> DEFINE g == c.fd
  <2>1. g \in Held(t) /\ g \in Fds
    BY <1>5, RunClose
  <2>2. None \in Maybe /\ None \in MaybeFd /\ g = call[t].fd /\ RunStep(t, g, None, None)
    BY <1>5 DEF Maybe, MaybeFd
  <2> HIDE DEF g
  <2> QED
    BY <1>1, <2>1, <2>2, RunStepSerial
<1> QED
  BY <1>2, <1>3, <1>4, <1>5, RunCases, Zenon

\* The tables are complete about the descriptors of a call once it is over.
LEMMA ExitWhole ==
    ASSUME OneProcess, TableInv, SerialInv, ~raced, NEW t \in Thr, Exit(t),
           NEW f \in Held(t)
    PROVE  Whole(ProcOf[t], f)'
<1> DEFINE p == ProcOf[t]
           c == call[t]
<1>1. /\ stage[t] = "exit" /\ Shape(t) /\ Kept(t) /\ TablesAfter(c)
      /\ files' = files
  BY ExitFields
<1>2. fd_paths \in [Fds -> Maybe] /\ f \in Fds
  BY HeldFds DEF TableInv, Typed
<1>3. c.nr \in Calls
  BY CallTypes DEF TableInv
<1>4. f # None /\ (f = c.fd \/ f = c.to \/ f = c.ret)
  BY HeldIs
<1>5. c.fd # None => Told(c)
  BY <1>1 DEF SerialInv
<1>6. CASE c.nr = "close"
  <2>1. f = c.fd
    BY <1>1, <1>4, <1>6 DEF Shape
  <2>2. Clean(f)' /\ files[p][f] = None
    BY <1>1, <1>2, <1>6, <2>1, ExitElsewhere DEF Closing, SerialInv
  <2> QED
    BY <1>1, <2>2, FilesAssumption DEF Clean, Whole
<1>7. CASE c.nr = "open"
  <2>1. f = c.ret /\ f # None
    BY <1>1, <1>4, <1>7 DEF Shape
  <2>2. files[p][f] = c.path /\ c.hint = c.path
    BY <1>1, <1>7, <2>1 DEF Kept, Given, Alloc, Shape
  <2> QED
    BY <1>1, <1>2, <1>7, <2>1, <2>2 DEF TablesAfter, Whole
<1>8. CASE c.nr = "socket"
  <2>1. f = c.ret /\ f # None
    BY <1>1, <1>4, <1>8 DEF Shape
  <2>2. files[p][f] = "socket"
    BY <1>1, <1>8, <2>1 DEF Kept, Alloc, Given
  <2> QED
    BY <1>1, <2>2 DEF Whole
<1>9. CASE c.nr = "use"
  <2>1. f = c.fd
    BY <1>1, <1>4, <1>9 DEF Shape
  <2>2. files[p][f] = c.on
    BY <1>1, <1>4, <1>9, <2>1 DEF Kept, Closing
  <2> QED
    BY <1>1, <1>4, <1>5, <1>9, <2>1, <2>2 DEF TablesAfter, Whole, Told
<1>10. CASE c.nr \in {"dup", "dup2"}
  <2>1. c.fd # None /\ c.fd \in Fds
    BY <1>1, <1>10, CallTypes DEF Shape, TableInv, MaybeFd
  <2>2. files[p][c.fd] = c.on
    BY <1>1, <1>10, <2>1 DEF Kept, Closing
  <2>3. CASE f = c.ret
    <3>1. files[p][f] = c.on
      BY <1>1, <1>4, <1>10, <2>3 DEF Kept, Given, Alloc, Shape
    <3> QED
      BY <1>1, <1>2, <1>4, <1>5, <1>10, <2>1, <2>3, <3>1
      DEF TablesAfter, Whole, Told
  <2>4. CASE f # c.ret
    <3>1. f = c.fd
      BY <1>1, <1>4, <1>10, <2>4 DEF Shape
    <3> QED
      BY <1>1, <1>2, <1>5, <1>10, <2>1, <2>2, <2>4, <3>1
      DEF TablesAfter, Whole, Told
  <2> QED
    BY <2>3, <2>4
<1> QED
  BY <1>3, <1>6, <1>7, <1>8, <1>9, <1>10 DEF Calls

LEMMA ExitSerial ==
    ASSUME OneProcess, TableInv, SerialInv, NEW t \in Thr, Exit(t)
    PROVE  SerialInv'
<1>1. raced' = raced
  BY DEF Exit
<1> SUFFICES ASSUME ~raced PROVE SerialInv'
  BY <1>1 DEF SerialInv
<1>2. /\ stage[t] = "exit" /\ stage'[t] = "user"
      /\ \A u \in Thr : u # t => stage'[u] = stage[u]
      /\ files' = files
  BY ExitFields
<1>3. \A u \in Thr : u # t => stage[u] = "user"
  BY <1>2 DEF SerialInv
<1>4. ASSUME NEW q \in Proc, NEW f \in Fds PROVE Whole(q, f)'
  <2>1. CASE f \in Held(t)
    BY <2>1, ExitWhole, TheProcess
  <2>2. CASE f \notin Held(t)
    <3>1. \A u \in Thr : f \notin Held(u)
      BY <1>3, <2>2 DEF Held
    <3>2. Whole(q, f)
      BY <3>1 DEF SerialInv
    <3>3. fd_paths'[f] = fd_paths[f] /\ (f \in hidden' <=> f \in hidden)
      BY <2>2, ExitElsewhere
    <3> QED
      BY <1>2, <3>2, <3>3 DEF Whole
  <2> QED
    BY <2>1, <2>2
<1> QED
  BY <1>2, <1>3, <1>4 DEF SerialInv, Proc

\* A step that writes no line.
LEMMA NoLineRight ==
    ASSUME line' = NoLine
    PROVE  LinesRight'
<1>1. /\ line'.internal = FALSE /\ line'.lib = FALSE /\ line'.dropped = FALSE
      /\ line'.on = None /\ line'.shown = None
  BY Zenon DEF NoLine
<1> QED
  BY <1>1, FilesAssumption, Zenon DEF LinesRight

\* The line of a call that overlapped with no other.
LEMMA ExitLine ==
    ASSUME OneProcess, TableInv, SerialInv, NEW t \in Thr, Exit(t)
    PROVE  LinesRight'
<1> DEFINE c == call[t]
           p == ProcOf[t]
<1>1. raced' = raced
  BY DEF Exit
<1> SUFFICES ASSUME ~raced PROVE LinesRight'
  BY <1>1 DEF LinesRight
<1>2. stage[t] = "exit" /\ Shape(t)
  BY DEF Exit, TableInv, CallInv
<1>3. /\ c.nr \in Calls /\ c.lib \in BOOLEAN /\ c.internal \in BOOLEAN
      /\ c.fd \in MaybeFd /\ hidden \subseteq Fds
  BY CallTypes DEF TableInv, Typed
<1>4. c.fd # None => Told(c)
  BY <1>2 DEF SerialInv
<1>5. c.fd = None => ~IsHidden(c)
  BY <1>3, FdsAssumption DEF IsHidden
<1> DEFINE dropped == c.internal \/ Dropped(c)
<1>6. line' = [lib |-> c.lib,
               internal |-> c.internal,
               failed |-> c.nr = "open" /\ c.ret = None,
               dropped |-> dropped,
               shown |-> IF dropped THEN None ELSE Shown(p, c),
               on |-> IF c.nr = "open" THEN c.path ELSE c.on]
  BY Zenon DEF Exit
<1>7. /\ line'.lib = c.lib
      /\ line'.internal = c.internal
      /\ line'.failed = (c.nr = "open" /\ c.ret = None)
      /\ line'.dropped = dropped
      /\ line'.on = IF c.nr = "open" THEN c.path ELSE c.on
  BY <1>6, Zenon
<1>a. ASSUME ~dropped PROVE line'.shown = Shown(p, c)
  <2>1. line'.shown = IF dropped THEN None ELSE Shown(p, c)
    BY <1>6, Zenon
  <2> QED
    BY <1>a, <2>1, Zenon
<1>8. Dropped(c) <=> c.lib /\ ~(c.nr = "open" /\ c.ret = None)
  <2>1. CASE c.nr = "open"
    <3>1. c.fd = None /\ c.hint = c.path /\ (c.lib <=> c.path = "log")
      BY <1>2, <2>1, Zenon DEF Shape
    <3> QED
      BY <1>5, <2>1, <3>1, Zenon DEF Dropped, IsOutput
  <2>2. CASE c.nr = "socket"
    <3>1. c.fd = None /\ ~c.lib
      BY <1>2, <2>2 DEF Shape
    <3> QED
      BY <1>5, <2>2, <3>1 DEF Dropped
  <2>3. CASE c.nr \notin {"open", "socket"}
    <3>1. c.fd # None /\ (c.lib <=> c.on = "log")
      BY <1>2, <2>3 DEF Shape
    <3>2. IsHidden(c) <=> c.on = "log"
      BY <1>4, <3>1 DEF Told, IsHidden
    <3>3. c.nr # "open"
      BY <2>3
    <3> QED
      BY <3>1, <3>2, <3>3, Zenon DEF Dropped
  <2> QED
    BY <2>1, <2>2, <2>3
<1> DEFINE on == IF c.nr = "open" THEN c.path ELSE c.on
<1>9. /\ on # "socket" => Shown(p, c) = on
      /\ on = "socket" => Shown(p, c) \in {"socket", None}
  <2>1. CASE c.nr = "open"
    <3>1. c.hint = c.path /\ c.path # "socket"
      BY <1>2, <2>1, FilesAssumption DEF Shape, Open
    <3>2. Shown(p, c) = c.hint
      BY <2>1 DEF Shown
    <3> QED
      BY <2>1, <3>1, <3>2
  <2>2. CASE c.nr = "socket"
    <3>1. c.on = None /\ Shown(p, c) = None
      BY <1>2, <2>2 DEF Shape, Shown
    <3> QED
      BY <2>2, <3>1
  <2>3. CASE c.nr = "close"
    <3>1. c.hint = c.on /\ c.on # None
      BY <1>2, <2>3 DEF Shape
    <3>2. Shown(p, c) = c.on
      BY <2>3, <3>1 DEF Shown
    <3> QED
      BY <2>3, <3>2
  <2>4. CASE c.nr \notin {"open", "socket", "close"}
    <3>1. c.fd # None /\ Shown(p, c) = fd_paths[c.fd] /\ c.on # None
      BY <1>2, <2>4 DEF Shape, Shown
    <3>2. fd_paths[c.fd] \in {c.on, None} /\ (c.on # "socket" => fd_paths[c.fd] = c.on)
      BY <1>4, <3>1 DEF Told
    <3>3. on = c.on
      BY <2>4
    <3> QED
      BY <3>1, <3>2, <3>3
  <2> QED
    BY <2>1, <2>2, <2>3, <2>4
<1>10. line'.on = on
  BY <1>7
<1> HIDE DEF on
<1>11. ~line'.internal => (line'.dropped <=> line'.lib /\ ~line'.failed)
  BY <1>7, <1>8, Zenon
<1>12. line'.internal => line'.dropped
  BY <1>7, Zenon
<1>13. ASSUME ~line'.dropped
       PROVE  /\ line'.on # "socket" => line'.shown = line'.on
              /\ line'.on = "socket" => line'.shown \in {"socket", None}
  <2>1. line'.shown = Shown(p, c)
    BY <1>7, <1>a, <1>13, Zenon
  <2> QED
    BY <1>9, <1>10, <2>1, Zenon
<1> QED
  BY <1>11, <1>12, <1>13, Zenon DEF LinesRight

\* As long as no two calls of the process have been in progress at once: of the
\* calls that is_internal_syscall does not take for the library's, those of the
\* program and the failed opens of the library get a line and the others none,
\* whatever calls it was wrong about before; and a line shows the name of the
\* file the descriptor is open on.
THEOREM SerialLinesRight ==
    ASSUME OneProcess
    PROVE  Spec => []LinesRight
<1> DEFINE Inv == TableInv /\ SerialInv /\ LinesRight
<1>1. Init => Inv
  BY TableInvInit, SerialInit
<1>2. Inv /\ [Next]_vars => Inv'
  <2> SUFFICES ASSUME Inv, [Next]_vars PROVE Inv'
    OBVIOUS
  <2>1. TableInv'
    BY TableInvStep
  <2>2. ASSUME NEW t \in Thr, NEW lib \in BOOLEAN, NEW nr \in Calls,
               Enter(t, lib, nr)
        PROVE  SerialInv' /\ LinesRight'
    <3>1. line' = NoLine
      BY <2>2 DEF Enter
    <3>3. LinesRight'
      BY <3>1, NoLineRight
    <3> QED
      BY <2>2, <3>3, EnterSerial
  <2>3. ASSUME NEW t \in Thr, Run(t) PROVE SerialInv' /\ LinesRight'
    <3>1. line' = NoLine
      BY <2>3 DEF Run
    <3>2. LinesRight'
      BY <3>1, NoLineRight
    <3> QED
      BY <2>3, <3>2, RunSerial
  <2>4. ASSUME NEW t \in Thr, Exit(t) PROVE SerialInv' /\ LinesRight'
    BY <2>4, ExitSerial, ExitLine
  <2>5. CASE UNCHANGED vars
    <3>1. LinesRight'
      BY <2>5 DEF vars, LinesRight
    <3>2. SerialInv'
      BY <2>5 DEF vars, SerialInv, Held, Told, Whole, Proc
    <3> QED
      BY <2>1, <3>1, <3>2
  <2>6. CASE Next
    BY <2>1, <2>2, <2>3, <2>4, <2>6, Zenon DEF Next
  <2> QED
    BY <2>5, <2>6
<1>3. Inv => LinesRight
  OBVIOUS
<1> QED
  BY <1>1, <1>2, <1>3, PTL DEF Spec
=============================================================================
