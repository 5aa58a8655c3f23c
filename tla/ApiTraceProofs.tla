--------------------------- MODULE ApiTraceProofs ---------------------------
(***************************************************************************)
(* Proofs about ApiTrace, for every set of functions, every choice of the  *)
(* traced and the watched ones, and every value of the bounds: the         *)
(* re-entry guard hides what graph::enter and graph::exit call and nothing *)
(* else, the labels the tracer keeps are those of the open windows, and    *)
(* the output of the thread is the rendering of what it did.               *)
(***************************************************************************)
EXTENDS ApiTrace, FiniteSetTheorems, SequenceTheorems, NaturalsInduction,
        WellFoundedInduction, TLAPS

-----------------------------------------------------------------------------
(* The inductive invariants.                                                *)

\* The calls that hold the guard.
InGuard == {i \in DOMAIN scopes : scopes[i].stage \in {"entering", "leaving"}}

\* A call is where what it has lets it be: only a matched one updates the
\* window depth, only one with a span takes the guard; and its window's number
\* was given out.
StageOk(i) ==
    /\ scopes[i].stage \in {"numbering", "opening", "opened", "closing", "closed"}
         => scopes[i].fgraph_window_matched
    /\ scopes[i].stage \in {"opened", "entering", "closed", "leaving"}
         => scopes[i].span
    /\ scopes[i].seq <= seqs[scopes[i].func]

\* The depth a call has yet to publish is that of its place: the calls from
\* inside have put the counter back.
DepthOk(i) == i \in Unpublished => scopes[i].depth = Place(i)

\* What a call has is decided by its function and the calls it is inside of.
Hidden(j) == \E i \in 1..j - 1 : scopes[i].stage \in {"entering", "leaving"}

HiddenOk(j) ==
    /\ scopes[j].span <=> ~Hidden(j) /\ scopes[j].func \in Traced
    /\ scopes[j].fgraph_window_matched <=>
         ~Hidden(j) /\ syscall /\ scopes[j].func \in Watched

ScopeOk(i) == StageOk(i) /\ DepthOk(i) /\ HiddenOk(i)

\* The scopes are scopes and the counters of windows are numbers; the guard is
\* held once by each call in InGuard; and FGRAPH_WINDOW_DEPTH counts the open
\* windows.
ScopeInv ==
    /\ scopes \in Seq(Scope)
    /\ seqs \in [Func -> 0..MaxSeq]
    /\ bypass = Cardinality(InGuard)
    /\ windows = Cardinality(OpenWindows)
    /\ \A i \in DOMAIN scopes : ScopeOk(i)

Label == [func : Func, seq : Nat]

\* What the tracer knows of the windows: it has a label for each of the settled
\* ones.
LabelInv ==
    /\ winSeen \in [depth : Nat, labels : Seq(Label)]
    /\ lost \in Nat
    /\ LossyLabelsBounded
    /\ LabelsMatchWindows
    /\ lost = 0 => Cardinality(Settled) <= Len(winSeen.labels)

\* The frames on STACK are those of the spans in progress.
StackInv ==
    tls => /\ Len(stack) = Cardinality(Begun)
           /\ \A i \in Begun : stack[Rank(i)].func = scopes[i].func

\* The events of one kind in the history.
Events(e) == {i \in DOMAIN history : history[i].event = e}

\* The history is of events, and the stack holds the spans begun and not ended.
SpanInv ==
    /\ history \in Seq(Event)
    /\ stack \in Seq(Frame)
    /\ Len(stack) = Cardinality(Events("call")) - Cardinality(Events("return"))

\* A frame owes its open line only outside brace mode and until a child begins;
\* every frame but the last has a child.
FrameInv ==
    /\ syscall \in BOOLEAN
    /\ \A i \in DOMAIN stack :
         /\ syscall => stack[i].enter_printed
         /\ ~syscall => (stack[i].enter_printed <=> stack[i].has_child)
         /\ i < Len(stack) => stack[i].has_child

\* The last event was a call.
AfterCall == history # <<>> /\ history[Len(history)].event = "call"

\* Outside brace mode the last frame has no child exactly if its call is the
\* last event.
FreshInv ==
    ~syscall => /\ AfterCall <=> stack # <<>> /\ ~stack[Len(stack)].has_child
                /\ AfterCall => history[Len(history)].func = stack[Len(stack)].func

\* The tracer has the depth of the stack as long as no update was lost.
DepthInv ==
    /\ lost \in Nat
    /\ depthSeen \in Nat
    /\ syscall /\ lost = 0 => depthSeen = Len(stack)

\* Lines whose depth may be any integer.
AnyLine == [kind : {"open", "close", "leaf", "syscall"},
            func : Func \cup {"-"}, depth : Int]

OutInv ==
    /\ out \in Seq(AnyLine)
    /\ OutputRendersHistory

(* Sequences and counting.                                                  *)

\* Sequences without their last element, and the element.
LEMMA FrontFacts ==
    ASSUME NEW S, NEW s \in Seq(S), s # <<>>
    PROVE  /\ Len(s) \in Nat \ {0}
           /\ DOMAIN s = 1..Len(s)
           /\ Last(s) = s[Len(s)] /\ Last(s) \in S
           /\ Front(s) \in Seq(S)
           /\ Len(Front(s)) = Len(s) - 1
           /\ DOMAIN Front(s) = 1..(Len(s) - 1)
           /\ \A i \in 1..(Len(s) - 1) : Front(s)[i] = s[i]
<1>1. Len(s) \in Nat \ {0} /\ DOMAIN s = 1..Len(s)
  BY EmptySeq, LenProperties
<1>2. Last(s) = s[Len(s)] /\ Last(s) \in S
  BY <1>1, ElementOfSeq DEF Last
<1>3. \A i \in 1..(Len(s) - 1) : s[i] \in S
  BY <1>1, ElementOfSeq
<1>4. /\ Front(s) \in Seq(S)
      /\ Len(Front(s)) = Len(s) - 1
      /\ \A i \in 1..(Len(s) - 1) : Front(s)[i] = s[i]
  BY <1>1, <1>3, SubSeqProperties DEF Front
<1>5. DOMAIN Front(s) = 1..(Len(s) - 1)
  BY <1>4, LenProperties
<1> QED
  BY <1>1, <1>2, <1>4, <1>5

\* How many elements a set of indices has after one is added at the end or the
\* last one is taken away.
LEMMA CountFacts ==
    ASSUME NEW n \in Nat, NEW S \in SUBSET (1..n)
    PROVE  /\ IsFiniteSet(S)
           /\ Cardinality(S) \in Nat
           /\ Cardinality(S \cup {n + 1}) = Cardinality(S) + 1
           /\ \A x \in S : /\ Cardinality(S \ {x}) = Cardinality(S) - 1
                           /\ Cardinality(S) > 0
<1>1. IsFiniteSet(S)
  <2>1. IsFiniteSet(1..n)
    BY FS_Interval
  <2> QED
    BY <2>1, FS_Subset
<1>2. Cardinality(S) \in Nat
  BY <1>1, FS_CardinalityType
<1>3. Cardinality(S \cup {n + 1}) = Cardinality(S) + 1
  <2>1. n + 1 \notin S
    OBVIOUS
  <2> QED
    BY <1>1, <2>1, FS_AddElement
<1>4. ASSUME NEW x \in S
      PROVE  Cardinality(S \ {x}) = Cardinality(S) - 1 /\ Cardinality(S) > 0
  <2>1. Cardinality(S \ {x}) = Cardinality(S) - 1
    BY <1>1, FS_RemoveElement
  <2>2. Cardinality(S \ {x}) \in Nat
    BY <1>1, FS_RemoveElement, FS_CardinalityType
  <2> QED
    BY <1>2, <2>1, <2>2
<1> QED
  BY <1>1, <1>2, <1>3, <1>4

-----------------------------------------------------------------------------
(* The scopes, the guard and the windows.                                   *)

\* How a count changes when the last index comes or goes.
LEMMA LastCount ==
    ASSUME NEW n \in Nat \ {0}, NEW S \in SUBSET (1..n)
    PROVE  /\ IsFiniteSet(S) /\ Cardinality(S) \in Nat
           /\ n \in S => /\ Cardinality(S \ {n}) = Cardinality(S) - 1
                         /\ Cardinality(S) > 0
                         /\ S \cup {n} = S
           /\ n \notin S => /\ Cardinality(S \cup {n}) = Cardinality(S) + 1
                            /\ S \ {n} = S
<1>1. /\ IsFiniteSet(S) /\ Cardinality(S) \in Nat
      /\ \A x \in S : /\ Cardinality(S \ {x}) = Cardinality(S) - 1
                      /\ Cardinality(S) > 0
  BY CountFacts
<1>2. n \notin S => Cardinality(S \cup {n}) = Cardinality(S) + 1
  BY <1>1, FS_AddElement
<1> QED
  BY <1>1, <1>2

-----------------------------------------------------------------------------
(* The scopes, the guard and the windows.                                   *)

\* What Call(f) decides and pushes.
Matches(f) == ~hooks_blocked /\ syscall /\ f \in Watched
Spans(f) == ~hooks_blocked /\ f \in Traced

NewScope(f) ==
    [func |-> f, span |-> Spans(f), fgraph_window_matched |-> Matches(f),
     seq |-> 0, depth |-> 0,
     stage |-> IF Matches(f) THEN "numbering"
               ELSE IF Spans(f) THEN "entering" ELSE "body"]

\* What ScopeInv says of the indices and the counters.
LEMMA ScopeFacts ==
    ASSUME ScopeInv
    PROVE  /\ Len(scopes) \in Nat
           /\ DOMAIN scopes = 1..Len(scopes)
           /\ \A i \in 1..Len(scopes) : scopes[i] \in Scope
           /\ InGuard \in SUBSET (1..Len(scopes))
           /\ OpenWindows \in SUBSET (1..Len(scopes))
           /\ Unpublished \in SUBSET (1..Len(scopes))
           /\ Begun \in SUBSET (1..Len(scopes))
           /\ bypass \in Nat /\ windows \in Nat
           /\ bypass = 0 <=> InGuard = {}
<1>1. /\ Len(scopes) \in Nat
      /\ DOMAIN scopes = 1..Len(scopes)
      /\ \A i \in 1..Len(scopes) : scopes[i] \in Scope
  BY LenProperties, ElementOfSeq DEF ScopeInv
<1>2. /\ InGuard \in SUBSET (1..Len(scopes))
      /\ OpenWindows \in SUBSET (1..Len(scopes))
      /\ Unpublished \in SUBSET (1..Len(scopes))
      /\ Begun \in SUBSET (1..Len(scopes))
  BY <1>1 DEF InGuard, OpenWindows, Unpublished, Begun
<1>3. bypass \in Nat /\ windows \in Nat
  BY <1>1, <1>2, CountFacts DEF ScopeInv
<1>4. bypass = 0 <=> InGuard = {}
  BY <1>1, <1>2, CountFacts, FS_EmptySet DEF ScopeInv
<1> QED
  BY <1>1, <1>2, <1>3, <1>4

\* The last scope, of a call in stage st.
LEMMA LastScope ==
    ASSUME ScopeInv, NEW st, InStage(st)
    PROVE  /\ Len(scopes) \in Nat \ {0} /\ Len(scopes) \in 1..Len(scopes)
           /\ Last(scopes) = scopes[Len(scopes)]
           /\ scopes[Len(scopes)] \in Scope
           /\ scopes[Len(scopes)].stage = st
           /\ scopes # <<>>
<1>1. scopes # <<>> /\ Last(scopes).stage = st
  BY DEF InStage
<1>2. Len(scopes) \in Nat \ {0} /\ Last(scopes) = scopes[Len(scopes)]
      /\ Last(scopes) \in Scope
  BY <1>1, FrontFacts DEF ScopeInv
<1> QED
  BY <1>1, <1>2

\* The scopes of the first m calls stay: so does everything that is said of them.
LEMMA BelowSame ==
    ASSUME ScopeInv, scopes' \in Seq(Scope), NEW m \in Nat,
           m <= Len(scopes), m <= Len(scopes'),
           \A i \in 1..m : scopes'[i] = scopes[i]
    PROVE  \A i \in 1..m :
             /\ i \in InGuard' <=> i \in InGuard
             /\ i \in OpenWindows' <=> i \in OpenWindows
             /\ i \in Unpublished' <=> i \in Unpublished
             /\ i \in Begun' <=> i \in Begun
             /\ Place(i)' = Place(i)
             /\ Rank(i)' = Rank(i)
             /\ Hidden(i)' <=> Hidden(i)
<1>1. /\ Len(scopes) \in Nat /\ Len(scopes') \in Nat
      /\ DOMAIN scopes = 1..Len(scopes) /\ DOMAIN scopes' = 1..Len(scopes')
  BY LenProperties DEF ScopeInv
<1>2. \A i \in 1..m : /\ i \in InGuard' <=> i \in InGuard
                      /\ i \in OpenWindows' <=> i \in OpenWindows
                      /\ i \in Unpublished' <=> i \in Unpublished
                      /\ i \in Begun' <=> i \in Begun
  BY <1>1 DEF InGuard, OpenWindows, Unpublished, Begun
<1>3. OpenWindows' \in SUBSET (1..Len(scopes')) /\ Begun' \in SUBSET (1..Len(scopes'))
      /\ OpenWindows \in SUBSET (1..Len(scopes)) /\ Begun \in SUBSET (1..Len(scopes))
  BY <1>1 DEF OpenWindows, Begun
<1>4. ASSUME NEW i \in 1..m PROVE Place(i)' = Place(i) /\ Rank(i)' = Rank(i)
  <2>1. {j \in OpenWindows' : j <= i} = {j \in OpenWindows : j <= i}
    <3>1. \A j \in OpenWindows' : j <= i => j \in 1..m
      BY <1>1, <1>3
    <3>2. \A j \in OpenWindows : j <= i => j \in 1..m
      BY <1>1, <1>3
    <3> QED
      BY <1>2, <3>1, <3>2, Zenon
  <2>2. {j \in Begun' : j <= i} = {j \in Begun : j <= i}
    <3>1. \A j \in Begun' : j <= i => j \in 1..m
      BY <1>1, <1>3
    <3>2. \A j \in Begun : j <= i => j \in 1..m
      BY <1>1, <1>3
    <3> QED
      BY <1>2, <3>1, <3>2, Zenon
  <2> QED
    BY <2>1, <2>2 DEF Place, Rank
<1>5. ASSUME NEW i \in 1..m PROVE Hidden(i)' <=> Hidden(i)
  <2>1. \A j \in 1..i - 1 : j \in 1..m
    OBVIOUS
  <2> QED
    BY <2>1 DEF Hidden
<1> QED
  BY <1>2, <1>4, <1>5

\* What is said of one call, for the calls whose scopes stay.
LEMMA BelowOk ==
    ASSUME ScopeInv, scopes' \in Seq(Scope), NEW m \in Nat,
           m <= Len(scopes), m <= Len(scopes'), syscall' = syscall,
           \A i \in 1..m : scopes'[i] = scopes[i],
           \A g \in Func : seqs[g] <= seqs'[g],
           seqs' \in [Func -> 0..MaxSeq],
           NEW i \in 1..m
    PROVE  ScopeOk(i)'
<1>1. /\ Len(scopes) \in Nat /\ DOMAIN scopes = 1..Len(scopes)
      /\ \A k \in 1..Len(scopes) : scopes[k] \in Scope
  BY ScopeFacts
<1>2. i \in DOMAIN scopes /\ scopes[i] \in Scope /\ scopes'[i] = scopes[i]
  BY <1>1
<1>3. /\ i \in Unpublished' <=> i \in Unpublished
      /\ Place(i)' = Place(i)
      /\ Hidden(i)' <=> Hidden(i)
  BY BelowSame
<1>4. StageOk(i) /\ DepthOk(i) /\ HiddenOk(i)
  BY <1>2 DEF ScopeInv, ScopeOk
<1>5. scopes'[i].seq <= seqs'[scopes'[i].func]
  <2>1. scopes[i].func \in Func /\ scopes[i].seq \in 0..MaxSeq
    BY <1>2 DEF Scope
  <2>2. scopes[i].seq <= seqs[scopes[i].func]
    BY <1>4 DEF StageOk
  <2>3. seqs[scopes[i].func] \in 0..MaxSeq /\ seqs'[scopes[i].func] \in 0..MaxSeq
        /\ seqs[scopes[i].func] <= seqs'[scopes[i].func]
    BY <2>1 DEF ScopeInv
  <2> QED
    BY <1>2, <2>1, <2>2, <2>3, BoundAssumption
<1>6. StageOk(i)'
  BY <1>2, <1>4, <1>5 DEF StageOk
<1>7. DepthOk(i)'
  BY <1>2, <1>3, <1>4 DEF DepthOk
<1>8. HiddenOk(i)'
  BY <1>2, <1>3, <1>4 DEF HiddenOk
<1> QED
  BY <1>6, <1>7, <1>8 DEF ScopeOk

\* ScopeInv holds again if the scopes below the last stay, the last is right and
\* so are the counters.
LEMMA Rebuilt ==
    ASSUME ScopeInv, scopes' \in Seq(Scope), NEW m \in Nat,
           m <= Len(scopes), Len(scopes') = m \/ Len(scopes') = m + 1,
           syscall' = syscall,
           \A i \in 1..m : scopes'[i] = scopes[i],
           \A g \in Func : seqs[g] <= seqs'[g],
           seqs' \in [Func -> 0..MaxSeq],
           bypass' = Cardinality(InGuard'),
           windows' = Cardinality(OpenWindows'),
           Len(scopes') = m + 1 => ScopeOk(m + 1)'
    PROVE  ScopeInv'
<1>1. Len(scopes) \in Nat /\ m <= Len(scopes')
  BY ScopeFacts
<1>2. DOMAIN scopes' = 1..Len(scopes')
  BY LenProperties
<1>3. ASSUME NEW i \in DOMAIN scopes' PROVE ScopeOk(i)'
  <2>1. CASE i \in 1..m
    BY <1>1, <2>1, BelowOk
  <2>2. CASE i \notin 1..m
    <3>1. Len(scopes') = m + 1 /\ i = m + 1
      BY <1>2, <1>3, <2>2
    <3> QED
      BY <3>1
  <2> QED
    BY <2>1, <2>2
<1> QED
  BY <1>3 DEF ScopeInv

\* The last scope is replaced by one of the same call.
LEMMA ReplacedScopes ==
    ASSUME ScopeInv, NEW e \in Scope, scopes # <<>>,
           scopes' = [scopes EXCEPT ![Len(scopes)] = e]
    PROVE  /\ scopes' \in Seq(Scope)
           /\ Len(scopes') = Len(scopes)
           /\ Len(scopes) \in Nat \ {0}
           /\ DOMAIN scopes' = 1..Len(scopes)
           /\ \A i \in 1..(Len(scopes) - 1) : scopes'[i] = scopes[i]
           /\ scopes'[Len(scopes)] = e
           /\ InGuard' = IF e.stage \in {"entering", "leaving"}
                         THEN InGuard \cup {Len(scopes)} ELSE InGuard \ {Len(scopes)}
           /\ OpenWindows' = IF /\ e.fgraph_window_matched
                                /\ e.stage \in {"opening", "opened", "entering", "body"}
                             THEN OpenWindows \cup {Len(scopes)}
                             ELSE OpenWindows \ {Len(scopes)}
           /\ Unpublished' = IF e.stage \in {"opening", "closing"}
                             THEN Unpublished \cup {Len(scopes)}
                             ELSE Unpublished \ {Len(scopes)}
           /\ Begun' = IF /\ e.span
                          /\ e.stage \in {"body", "closing", "closed", "leaving"}
                       THEN Begun \cup {Len(scopes)} ELSE Begun \ {Len(scopes)}
           /\ Hidden(Len(scopes))' <=> Hidden(Len(scopes))
<1> DEFINE n == Len(scopes)
<1>1. /\ n \in Nat \ {0} /\ n \in 1..n /\ DOMAIN scopes = 1..n
  BY ScopeFacts, FrontFacts DEF ScopeInv
<1>2. /\ scopes' \in Seq(Scope)
      /\ Len(scopes') = n
      /\ \A i \in 1..n : scopes'[i] = IF i = n THEN e ELSE scopes[i]
  BY <1>1, ExceptSeq DEF ScopeInv
<1>3. DOMAIN scopes' = 1..n
  BY <1>2, LenProperties
<1>4. ASSUME NEW i \in 1..(n - 1) PROVE scopes'[i] = scopes[i]
  <2>1. i \in 1..n /\ i # n
    <3> HIDE DEF n
    <3> QED
      BY <1>1
  <2> QED
    BY <1>2, <2>1
<1>5. scopes'[n] = e
  BY <1>1, <1>2
<1>6. InGuard' = IF e.stage \in {"entering", "leaving"}
                 THEN InGuard \cup {n} ELSE InGuard \ {n}
  BY <1>1, <1>2, <1>3 DEF InGuard
<1>7. OpenWindows' = IF /\ e.fgraph_window_matched
                        /\ e.stage \in {"opening", "opened", "entering", "body"}
                     THEN OpenWindows \cup {n} ELSE OpenWindows \ {n}
  BY <1>1, <1>2, <1>3 DEF OpenWindows
<1>8. Unpublished' = IF e.stage \in {"opening", "closing"}
                     THEN Unpublished \cup {n} ELSE Unpublished \ {n}
  BY <1>1, <1>2, <1>3 DEF Unpublished
<1>9. Begun' = IF e.span /\ e.stage \in {"body", "closing", "closed", "leaving"}
               THEN Begun \cup {n} ELSE Begun \ {n}
  BY <1>1, <1>2, <1>3 DEF Begun
<1>10. Hidden(n)' <=> Hidden(n)
  BY <1>4 DEF Hidden
<1> QED
  BY <1>1, <1>2, <1>3, <1>4, <1>5, <1>6, <1>7, <1>8, <1>9, <1>10

\* The last scope is dropped.
LEMMA DroppedScopes ==
    ASSUME ScopeInv, scopes # <<>>, scopes' = Front(scopes)
    PROVE  /\ scopes' \in Seq(Scope)
           /\ Len(scopes') = Len(scopes) - 1
           /\ Len(scopes) \in Nat \ {0}
           /\ DOMAIN scopes' = 1..(Len(scopes) - 1)
           /\ \A i \in 1..(Len(scopes) - 1) : scopes'[i] = scopes[i]
           /\ InGuard' = InGuard \ {Len(scopes)}
           /\ OpenWindows' = OpenWindows \ {Len(scopes)}
           /\ Unpublished' = Unpublished \ {Len(scopes)}
           /\ Begun' = Begun \ {Len(scopes)}
<1> DEFINE n == Len(scopes)
<1>1. /\ n \in Nat \ {0} /\ DOMAIN scopes = 1..n
      /\ scopes' \in Seq(Scope)
      /\ Len(scopes') = n - 1
      /\ DOMAIN scopes' = 1..(n - 1)
      /\ \A i \in 1..(n - 1) : scopes'[i] = scopes[i]
  BY FrontFacts DEF ScopeInv
<1>2. /\ InGuard' = InGuard \ {n} /\ OpenWindows' = OpenWindows \ {n}
      /\ Unpublished' = Unpublished \ {n} /\ Begun' = Begun \ {n}
  BY <1>1 DEF InGuard, OpenWindows, Unpublished, Begun
<1> QED
  BY <1>1, <1>2

\* A set of indices up to n.
LEMMA UpToAll ==
    ASSUME NEW n \in Nat, NEW S \in SUBSET (1..n)
    PROVE  {j \in S : j <= n} = S
<1>1. \A j \in S : j <= n
  OBVIOUS
<1> QED
  BY <1>1

\* ScopeInv after the last scope was replaced by another of the same call.
LEMMA ReplacedInv ==
    ASSUME ScopeInv, NEW e \in Scope, scopes # <<>>,
           scopes' = [scopes EXCEPT ![Len(scopes)] = e],
           e.func = scopes[Len(scopes)].func,
           e.span = scopes[Len(scopes)].span,
           e.fgraph_window_matched = scopes[Len(scopes)].fgraph_window_matched,
           syscall' = syscall,
           \A g \in Func : seqs[g] <= seqs'[g],
           seqs' \in [Func -> 0..MaxSeq],
           bypass' = Cardinality(InGuard'),
           windows' = Cardinality(OpenWindows'),
           StageOk(Len(scopes))', DepthOk(Len(scopes))'
    PROVE  ScopeInv'
<1> DEFINE n == Len(scopes)
<1>1. /\ scopes' \in Seq(Scope) /\ Len(scopes') = n /\ n \in Nat \ {0}
      /\ \A i \in 1..(n - 1) : scopes'[i] = scopes[i]
      /\ scopes'[n] = e
      /\ Hidden(n)' <=> Hidden(n)
  BY ReplacedScopes
<1>2. n \in DOMAIN scopes
  <2>1. DOMAIN scopes = 1..n
    BY ScopeFacts
  <2> HIDE DEF n
  <2> QED
    BY <1>1, <2>1
<1>3. HiddenOk(n)
  BY <1>2 DEF ScopeInv, ScopeOk
<1>4. HiddenOk(n)'
  BY <1>1, <1>3 DEF HiddenOk
<1>5. ScopeOk(n)'
  BY <1>4 DEF ScopeOk
<1>6. PICK m \in Nat : m = n - 1 /\ m <= n /\ n = m + 1
  <2> HIDE DEF n
  <2>1. n - 1 \in Nat /\ n - 1 <= n /\ n = (n - 1) + 1
    BY <1>1
  <2> QED
    BY <2>1
<1>7. m <= Len(scopes) /\ Len(scopes') = m + 1
  BY <1>1, <1>6
<1>8. \A i \in 1..m : scopes'[i] = scopes[i]
  BY <1>1, <1>6
<1>9. ScopeOk(m + 1)'
  BY <1>5, <1>7
<1>10. scopes' \in Seq(Scope)
  BY <1>1
<1> QED
  BY <1>7, <1>8, <1>9, <1>10, Rebuilt

\* MoveTo replaces the last scope.
LEMMA MovedScope ==
    ASSUME ScopeInv, scopes # <<>>, NEW st \in Stage,
           scopes' = [scopes EXCEPT ![Len(scopes)].stage = st]
    PROVE  \E e \in Scope :
             /\ scopes' = [scopes EXCEPT ![Len(scopes)] = e]
             /\ e.stage = st
             /\ e.func = scopes[Len(scopes)].func
             /\ e.span = scopes[Len(scopes)].span
             /\ e.fgraph_window_matched = scopes[Len(scopes)].fgraph_window_matched
             /\ e.seq = scopes[Len(scopes)].seq
<1> DEFINE n == Len(scopes)
           e == [scopes[n] EXCEPT !.stage = st]
<1>1. n \in DOMAIN scopes /\ scopes[n] \in Scope
  BY FrontFacts, ScopeFacts DEF ScopeInv
<1>2. e \in Scope
  BY <1>1 DEF Scope
<1>3. scopes' = [scopes EXCEPT ![n] = e]
  BY <1>1
<1>4. /\ e.stage = st /\ e.func = scopes[n].func /\ e.seq = scopes[n].seq
      /\ e.span = scopes[n].span
      /\ e.fgraph_window_matched = scopes[n].fgraph_window_matched
  BY <1>1 DEF Scope
<1> HIDE DEF e
<1> QED
  BY <1>2, <1>3, <1>4

\* A move of the last scope that changes no window: the guard is counted, and
\* the windows are as they were.
LEMMA MovedInv ==
    ASSUME ScopeInv, scopes # <<>>, NEW st \in Stage,
           scopes' = [scopes EXCEPT ![Len(scopes)].stage = st],
           syscall' = syscall, seqs' = seqs, windows' = windows,
           st \notin {"opening", "closing"},
           st = "opened" => scopes[Len(scopes)].fgraph_window_matched,
           st = "numbering" => scopes[Len(scopes)].fgraph_window_matched,
           st = "closed" => scopes[Len(scopes)].fgraph_window_matched,
           st \in {"opened", "entering", "closed", "leaving"}
             => scopes[Len(scopes)].span,
           Len(scopes) \in OpenWindows <=>
             /\ scopes[Len(scopes)].fgraph_window_matched
             /\ st \in {"opening", "opened", "entering", "body"},
           bypass' = Cardinality(InGuard')
    PROVE  /\ ScopeInv'
           /\ scopes' \in Seq(Scope) /\ Len(scopes') = Len(scopes)
           /\ Len(scopes) \in Nat \ {0}
           /\ \A i \in 1..(Len(scopes) - 1) : scopes'[i] = scopes[i]
           /\ scopes'[Len(scopes)].func = scopes[Len(scopes)].func
           /\ scopes'[Len(scopes)].seq = scopes[Len(scopes)].seq
           /\ OpenWindows' = OpenWindows
           /\ Unpublished' = Unpublished \ {Len(scopes)}
           /\ Begun' = IF /\ scopes[Len(scopes)].span
                          /\ st \in {"body", "closing", "closed", "leaving"}
                       THEN Begun \cup {Len(scopes)} ELSE Begun \ {Len(scopes)}
<1> DEFINE n == Len(scopes)
<1>1. PICK e \in Scope :
             /\ scopes' = [scopes EXCEPT ![n] = e]
             /\ e.stage = st
             /\ e.func = scopes[n].func
             /\ e.span = scopes[n].span
             /\ e.fgraph_window_matched = scopes[n].fgraph_window_matched
             /\ e.seq = scopes[n].seq
  BY MovedScope
<1>2. /\ scopes' \in Seq(Scope) /\ Len(scopes') = n /\ n \in Nat \ {0}
      /\ \A i \in 1..(n - 1) : scopes'[i] = scopes[i]
      /\ scopes'[n] = e
      /\ OpenWindows' = IF /\ e.fgraph_window_matched
                           /\ e.stage \in {"opening", "opened", "entering", "body"}
                        THEN OpenWindows \cup {n} ELSE OpenWindows \ {n}
      /\ Unpublished' = IF e.stage \in {"opening", "closing"}
                        THEN Unpublished \cup {n} ELSE Unpublished \ {n}
      /\ Begun' = IF e.span /\ e.stage \in {"body", "closing", "closed", "leaving"}
                  THEN Begun \cup {n} ELSE Begun \ {n}
  BY <1>1, ReplacedScopes
<1>3. OpenWindows' = OpenWindows
  BY <1>1, <1>2
<1>4. Unpublished' = Unpublished \ {n}
  BY <1>1, <1>2
<1>5. Begun' = IF scopes[n].span /\ st \in {"body", "closing", "closed", "leaving"}
               THEN Begun \cup {n} ELSE Begun \ {n}
  BY <1>1, <1>2
<1>6. n \in DOMAIN scopes
  BY <1>2, ScopeFacts
<1>7. StageOk(n)'
  <2>1. StageOk(n)
    BY <1>6 DEF ScopeInv, ScopeOk
  <2> QED
    BY <1>1, <1>2, <2>1 DEF StageOk
<1>8. DepthOk(n)'
  BY <1>4 DEF DepthOk
<1>9. windows' = Cardinality(OpenWindows')
  BY <1>3 DEF ScopeInv
<1>10. seqs' \in [Func -> 0..MaxSeq] /\ \A g \in Func : seqs[g] <= seqs'[g]
  BY BoundAssumption DEF ScopeInv
<1>11. ScopeInv'
  BY <1>1, <1>7, <1>8, <1>9, <1>10, ReplacedInv
<1> QED
  BY <1>1, <1>2, <1>3, <1>4, <1>5, <1>11

\* How the guard's count changes when the last call moves.
LEMMA MovedGuard ==
    ASSUME ScopeInv, scopes # <<>>, NEW st \in Stage,
           scopes' = [scopes EXCEPT ![Len(scopes)].stage = st]
    PROVE  Cardinality(InGuard') =
             IF st \in {"entering", "leaving"}
             THEN IF Len(scopes) \in InGuard THEN bypass ELSE bypass + 1
             ELSE IF Len(scopes) \in InGuard THEN bypass - 1 ELSE bypass
<1> DEFINE n == Len(scopes)
<1>1. PICK e \in Scope : /\ scopes' = [scopes EXCEPT ![n] = e]
                         /\ e.stage = st
  BY MovedScope
<1>2. /\ n \in Nat \ {0}
      /\ InGuard' = IF e.stage \in {"entering", "leaving"}
                    THEN InGuard \cup {n} ELSE InGuard \ {n}
  BY <1>1, ReplacedScopes
<1>3. InGuard \in SUBSET (1..n) /\ bypass = Cardinality(InGuard)
  BY ScopeFacts DEF ScopeInv
<1>4. /\ n \in InGuard => /\ Cardinality(InGuard \ {n}) = bypass - 1
                          /\ InGuard \cup {n} = InGuard
      /\ n \notin InGuard => /\ Cardinality(InGuard \cup {n}) = bypass + 1
                             /\ InGuard \ {n} = InGuard
  BY <1>2, <1>3, LastCount
<1>5. InGuard' = IF st \in {"entering", "leaving"}
                 THEN InGuard \cup {n} ELSE InGuard \ {n}
  BY <1>1, <1>2
<1> DEFINE c == IF st \in {"entering", "leaving"}
                THEN IF n \in InGuard THEN bypass ELSE bypass + 1
                ELSE IF n \in InGuard THEN bypass - 1 ELSE bypass
<1> HIDE DEF n
<1>6. CASE st \in {"entering", "leaving"} /\ n \in InGuard
  <2>1. Cardinality(InGuard') = c
    BY <1>3, <1>4, <1>5, <1>6
  <2> QED
    BY <2>1 DEF n
<1>7. CASE st \in {"entering", "leaving"} /\ n \notin InGuard
  <2>1. Cardinality(InGuard') = c
    BY <1>3, <1>4, <1>5, <1>7
  <2> QED
    BY <2>1 DEF n
<1>8. CASE st \notin {"entering", "leaving"} /\ n \in InGuard
  <2>1. Cardinality(InGuard') = c
    BY <1>3, <1>4, <1>5, <1>8
  <2> QED
    BY <2>1 DEF n
<1>9. CASE st \notin {"entering", "leaving"} /\ n \notin InGuard
  <2>1. Cardinality(InGuard') = c
    BY <1>3, <1>4, <1>5, <1>9
  <2> QED
    BY <2>1 DEF n
<1> QED
  BY <1>6, <1>7, <1>8, <1>9

\* TraceScope::enter: the new scope is the last one and has no window yet.
LEMMA CallScopes ==
    ASSUME ScopeInv, NEW f \in Func, Call(f)
    PROVE  /\ ScopeInv' /\ scopes' \in Seq(Scope)
           /\ Len(scopes') = Len(scopes) + 1
           /\ \A i \in 1..Len(scopes) : scopes'[i] = scopes[i]
           /\ OpenWindows' = OpenWindows
           /\ Unpublished' = Unpublished
           /\ Begun' = Begun
<1>0. PICK n \in Nat : n = Len(scopes)
  BY ScopeFacts
<1>1. /\ DOMAIN scopes = 1..n
      /\ \A i \in 1..n : scopes[i] \in Scope
      /\ InGuard \in SUBSET (1..n) /\ OpenWindows \in SUBSET (1..n)
      /\ Unpublished \in SUBSET (1..n) /\ Begun \in SUBSET (1..n)
      /\ bypass \in Nat /\ windows \in Nat
      /\ bypass = 0 <=> InGuard = {}
  BY <1>0, ScopeFacts
<1>2. 0 \in 0..MaxSeq
  BY BoundAssumption
<1>3. NewScope(f) \in Scope
  BY <1>2 DEF NewScope, Scope, Stage, Spans, Matches
<1>4. scopes' = Append(scopes, NewScope(f))
  BY DEF Call, NewScope, Spans, Matches
<1>5. /\ scopes' \in Seq(Scope)
      /\ Len(scopes') = n + 1
      /\ \A i \in 1..n : scopes'[i] = scopes[i]
      /\ scopes'[n + 1] = NewScope(f)
  BY <1>0, <1>3, <1>4, AppendProperties DEF ScopeInv
<1>6. DOMAIN scopes' = 1..(n + 1)
  BY <1>5, LenProperties
<1>7. /\ NewScope(f).func = f /\ NewScope(f).seq = 0
      /\ NewScope(f).span = Spans(f)
      /\ NewScope(f).fgraph_window_matched = Matches(f)
      /\ NewScope(f).stage = IF Matches(f) THEN "numbering"
                             ELSE IF Spans(f) THEN "entering" ELSE "body"
  BY DEF NewScope
<1> DEFINE e == NewScope(f)
<1> HIDE DEF e
<1>8. /\ e.func = f /\ e.seq = 0 /\ e.span = Spans(f)
      /\ e.fgraph_window_matched = Matches(f)
      /\ e.stage = IF Matches(f) THEN "numbering"
                   ELSE IF Spans(f) THEN "entering" ELSE "body"
      /\ scopes'[n + 1] = e
  BY <1>5, <1>7 DEF e
<1>9. OpenWindows' = OpenWindows
  BY <1>1, <1>5, <1>6, <1>8 DEF OpenWindows
<1>10. Unpublished' = Unpublished
  BY <1>1, <1>5, <1>6, <1>8 DEF Unpublished
<1>11. Begun' = Begun
  BY <1>1, <1>5, <1>6, <1>8 DEF Begun
<1>12. InGuard' = IF Spans(f) /\ ~Matches(f) THEN InGuard \cup {n + 1} ELSE InGuard
  BY <1>1, <1>5, <1>6, <1>8 DEF InGuard
<1>13. bypass' = IF Spans(f) /\ ~Matches(f) THEN bypass + 1 ELSE bypass
  BY <1>1 DEF Call, Spans, Matches
<1>14. bypass' = Cardinality(InGuard')
  BY <1>1, <1>12, <1>13, CountFacts DEF ScopeInv
<1>15. windows' = windows /\ seqs' = seqs /\ syscall' = syscall
  BY DEF Call
<1>16. windows' = Cardinality(OpenWindows')
  BY <1>9, <1>15 DEF ScopeInv
<1>17. seqs' \in [Func -> 0..MaxSeq] /\ \A g \in Func : seqs[g] <= seqs'[g]
  BY <1>15, BoundAssumption DEF ScopeInv
<1>18. Hidden(n + 1)' <=> hooks_blocked
  <2>1. Hidden(n + 1)' <=> \E i \in 1..n : scopes'[i].stage \in {"entering", "leaving"}
    BY DEF Hidden
  <2>2. Hidden(n + 1)' <=> InGuard # {}
    BY <1>1, <1>5, <2>1 DEF InGuard
  <2>3. bypass > 0 <=> bypass # 0
    BY <1>1
  <2>4. bypass # 0 <=> InGuard # {}
    BY <1>1
  <2> QED
    BY <2>2, <2>3, <2>4 DEF hooks_blocked
<1>19. HiddenOk(n + 1)'
  BY <1>8, <1>15, <1>18 DEF HiddenOk, Spans, Matches
<1>20. StageOk(n + 1)'
  <2>1. seqs'[f] \in 0..MaxSeq
    BY <1>17
  <2>2. 0 <= seqs'[f]
    BY <2>1, BoundAssumption
  <2> QED
    BY <1>8, <2>2 DEF StageOk
<1>21. DepthOk(n + 1)'
  <2>1. n + 1 \notin Unpublished'
    BY <1>1, <1>10
  <2> QED
    BY <2>1 DEF DepthOk
<1>22. ScopeOk(n + 1)'
  BY <1>19, <1>20, <1>21 DEF ScopeOk
<1>23. n <= Len(scopes)
  BY <1>0
<1>24. ScopeInv'
  BY <1>5, <1>14, <1>15, <1>16, <1>17, <1>22, <1>23, Rebuilt
<1> QED
  BY <1>0, <1>5, <1>9, <1>10, <1>11, <1>24

\* The next number of a window.
LEMMA SeqFacts ==
    ASSUME ScopeInv, NEW f \in Func, seqs' = [seqs EXCEPT ![f] = NextSeq(f)]
    PROVE  /\ NextSeq(f) \in 0..MaxSeq
           /\ seqs' \in [Func -> 0..MaxSeq]
           /\ \A g \in Func : seqs[g] <= seqs'[g]
           /\ seqs'[f] = NextSeq(f)
<1>1. \A g \in Func : seqs[g] \in 0..MaxSeq
  BY DEF ScopeInv
<1>2. NextSeq(f) \in 0..MaxSeq /\ seqs[f] <= NextSeq(f)
  BY <1>1, BoundAssumption DEF NextSeq
<1>3. seqs' \in [Func -> 0..MaxSeq] /\ seqs'[f] = NextSeq(f)
      /\ \A g \in Func : g # f => seqs'[g] = seqs[g]
  BY <1>2 DEF ScopeInv
<1> HIDE DEF NextSeq
<1>4. ASSUME NEW g \in Func PROVE seqs[g] <= seqs'[g]
  <2>1. CASE g = f
    BY <1>2, <1>3, <2>1
  <2>2. CASE g # f
    <3>1. seqs'[g] = seqs[g] /\ seqs[g] \in Int
      BY <1>1, <1>3, <2>2, BoundAssumption
    <3> QED
      BY <3>1
  <2> QED
    BY <2>1, <2>2
<1> QED
  BY <1>2, <1>3, <1>4

\* enter_fgraph_window_if_matched: the window counts and is not published.
LEMMA EnterWindowScopes ==
    ASSUME ScopeInv, EnterWindow
    PROVE  /\ ScopeInv' /\ scopes' \in Seq(Scope)
           /\ Len(scopes') = Len(scopes) /\ Len(scopes) \in Nat \ {0}
           /\ \A i \in 1..(Len(scopes) - 1) : scopes'[i] = scopes[i]
           /\ OpenWindows' = OpenWindows \cup {Len(scopes)}
           /\ Unpublished' = Unpublished \cup {Len(scopes)}
           /\ Begun' = Begun
           /\ \A g \in Func : seqs[g] <= seqs'[g]
<1> DEFINE n == Len(scopes)
           f == scopes[n].func
           e == [scopes[n] EXCEPT !.seq = NextSeq(f), !.depth = windows + 1,
                                  !.stage = "opening"]
<1>1. /\ n \in Nat \ {0} /\ n \in 1..n /\ Last(scopes) = scopes[n]
      /\ scopes[n] \in Scope /\ scopes[n].stage = "numbering" /\ scopes # <<>>
  BY LastScope DEF EnterWindow
<1>2. /\ DOMAIN scopes = 1..n
      /\ InGuard \in SUBSET (1..n) /\ OpenWindows \in SUBSET (1..n)
      /\ Begun \in SUBSET (1..n)
      /\ windows \in Nat
  BY ScopeFacts
<1>3. f \in Func
  BY <1>1 DEF Scope
<1>4. /\ seqs' = [seqs EXCEPT ![f] = NextSeq(f)] /\ windows' = windows + 1
      /\ syscall' = syscall /\ bypass' = bypass
      /\ scopes' = [scopes EXCEPT ![n] = [@ EXCEPT !.seq = NextSeq(f),
                     !.depth = windows + 1, !.stage = "opening"]]
  BY <1>1 DEF EnterWindow
<1>5. /\ NextSeq(f) \in 0..MaxSeq
      /\ seqs' \in [Func -> 0..MaxSeq]
      /\ \A g \in Func : seqs[g] <= seqs'[g]
      /\ seqs'[f] = NextSeq(f)
  BY <1>3, <1>4, SeqFacts
<1>6. windows + 1 \in Nat
  BY <1>2
<1>7. e \in Scope
  BY <1>1, <1>5, <1>6 DEF Scope, Stage
<1>8. scopes' = [scopes EXCEPT ![n] = e]
  BY <1>1, <1>2, <1>4
<1>9. /\ e.func = f /\ e.span = scopes[n].span /\ e.seq = NextSeq(f)
      /\ e.fgraph_window_matched = scopes[n].fgraph_window_matched
      /\ e.depth = windows + 1 /\ e.stage = "opening"
  BY <1>1 DEF Scope
<1> HIDE DEF e
<1>10. StageOk(n) /\ scopes[n].fgraph_window_matched
  BY <1>1, <1>2 DEF ScopeInv, ScopeOk, StageOk
<1>11. /\ scopes' \in Seq(Scope) /\ Len(scopes') = n
       /\ \A i \in 1..(n - 1) : scopes'[i] = scopes[i]
       /\ scopes'[n] = e
       /\ InGuard' = InGuard \ {n}
       /\ OpenWindows' = OpenWindows \cup {n}
       /\ Unpublished' = Unpublished \cup {n}
       /\ Begun' = Begun \ {n}
  BY <1>1, <1>7, <1>8, <1>9, <1>10, ReplacedScopes
<1>12. n \notin InGuard /\ n \notin OpenWindows /\ n \notin Begun
  BY <1>1 DEF InGuard, OpenWindows, Begun
<1>13. InGuard' = InGuard /\ Begun' = Begun
  BY <1>11, <1>12
<1>14. bypass' = Cardinality(InGuard')
  BY <1>4, <1>13 DEF ScopeInv
<1>15. windows' = Cardinality(OpenWindows')
  BY <1>1, <1>2, <1>4, <1>11, <1>12, LastCount DEF ScopeInv
<1>16. StageOk(n)'
  <2>1. e.seq <= seqs'[e.func]
    <3>1. NextSeq(f) <= NextSeq(f)
      BY <1>5, BoundAssumption
    <3> QED
      BY <1>5, <1>9, <3>1
  <2>2. scopes'[n] = e /\ n' = n
    BY <1>11
  <2> QED
    BY <1>9, <1>10, <2>1, <2>2 DEF StageOk
<1>17. DepthOk(n)'
  <2>1. OpenWindows' \in SUBSET (1..n)
    BY <1>1, <1>2, <1>11
  <2>2. {j \in OpenWindows' : j <= n} = OpenWindows'
    BY <1>1, <2>1, UpToAll
  <2>3. n' = n /\ scopes'[n] = e
    BY <1>11
  <2>4. Place(n)' = windows'
    BY <1>15, <2>2, <2>3 DEF Place
  <2> QED
    BY <1>4, <1>9, <2>3, <2>4 DEF DepthOk
<1>18. ScopeInv'
  BY <1>1, <1>4, <1>5, <1>7, <1>8, <1>9, <1>14, <1>15, <1>16, <1>17, ReplacedInv
<1> QED
  BY <1>1, <1>5, <1>11, <1>13, <1>18

\* publish_fgraph_window_enter: the window is published.
LEMMA PublishEnterScopes ==
    ASSUME ScopeInv, PublishEnter
    PROVE  /\ ScopeInv' /\ scopes' \in Seq(Scope)
           /\ Len(scopes') = Len(scopes) /\ Len(scopes) \in Nat \ {0}
           /\ \A i \in 1..(Len(scopes) - 1) : scopes'[i] = scopes[i]
           /\ scopes'[Len(scopes)].func = scopes[Len(scopes)].func
           /\ scopes'[Len(scopes)].seq = scopes[Len(scopes)].seq
           /\ OpenWindows' = OpenWindows
           /\ Len(scopes) \in OpenWindows
           /\ Unpublished' = Unpublished \ {Len(scopes)}
           /\ Len(scopes) \in Unpublished
           /\ Begun' = Begun
<1> DEFINE n == Len(scopes)
           st == IF scopes[n].span THEN "opened" ELSE "body"
<1>1. /\ n \in Nat \ {0} /\ n \in 1..n /\ Last(scopes) = scopes[n]
      /\ scopes[n] \in Scope /\ scopes[n].stage = "opening" /\ scopes # <<>>
  BY LastScope DEF PublishEnter
<1>2. /\ scopes' = [scopes EXCEPT ![n].stage = st]
      /\ syscall' = syscall /\ bypass' = bypass /\ windows' = windows
      /\ seqs' = seqs
  BY <1>1 DEF PublishEnter, MoveTo
<1>3. DOMAIN scopes = 1..n
  BY ScopeFacts
<1>4. scopes[n].fgraph_window_matched
  <2>1. StageOk(n)
    BY <1>1, <1>3 DEF ScopeInv, ScopeOk
  <2> QED
    BY <1>1, <2>1 DEF StageOk
<1>5. n \notin InGuard /\ n \in OpenWindows /\ n \in Unpublished /\ n \notin Begun
  BY <1>1, <1>3, <1>4 DEF InGuard, OpenWindows, Unpublished, Begun
<1>6. /\ st \in Stage /\ st \notin {"opening", "closing", "numbering", "closed",
                                    "entering", "leaving"}
      /\ st \in {"opening", "opened", "entering", "body"}
      /\ st \in {"opened", "entering", "closed", "leaving"} => scopes[n].span
      /\ ~(scopes[n].span /\ st \in {"body", "closing", "closed", "leaving"})
  BY DEF Stage
<1> HIDE DEF st
<1>7. bypass' = Cardinality(InGuard')
  BY <1>1, <1>2, <1>5, <1>6, MovedGuard
<1>8. /\ ScopeInv'
      /\ scopes' \in Seq(Scope) /\ Len(scopes') = n
      /\ \A i \in 1..(n - 1) : scopes'[i] = scopes[i]
      /\ scopes'[n].func = scopes[n].func
      /\ scopes'[n].seq = scopes[n].seq
      /\ OpenWindows' = OpenWindows
      /\ Unpublished' = Unpublished \ {n}
      /\ Begun' = IF /\ scopes[n].span
                     /\ st \in {"body", "closing", "closed", "leaving"}
                  THEN Begun \cup {n} ELSE Begun \ {n}
  BY <1>1, <1>2, <1>4, <1>5, <1>6, <1>7, MovedInv
<1>9. Begun' = Begun
  BY <1>5, <1>6, <1>8
<1> QED
  BY <1>1, <1>5, <1>8, <1>9

\* HookBypassGuard::enter after a window update: nothing but the guard changes.
LEMMA TakeGuardScopes ==
    ASSUME ScopeInv, TakeGuard
    PROVE  /\ ScopeInv' /\ scopes' \in Seq(Scope)
           /\ Len(scopes') = Len(scopes) /\ Len(scopes) \in Nat \ {0}
           /\ \A i \in 1..(Len(scopes) - 1) : scopes'[i] = scopes[i]
           /\ scopes'[Len(scopes)].func = scopes[Len(scopes)].func
           /\ scopes'[Len(scopes)].seq = scopes[Len(scopes)].seq
           /\ OpenWindows' = OpenWindows
           /\ Unpublished' = Unpublished
           /\ Begun' = Begun
<1> DEFINE n == Len(scopes)
<1>1. ASSUME NEW from, NEW st \in Stage, InStage(from), MoveTo(st),
             \/ from = "opened" /\ st = "entering"
             \/ from = "closed" /\ st = "leaving"
      PROVE  /\ ScopeInv' /\ scopes' \in Seq(Scope)
             /\ Len(scopes') = n /\ n \in Nat \ {0}
             /\ \A i \in 1..(n - 1) : scopes'[i] = scopes[i]
             /\ scopes'[n].func = scopes[n].func
             /\ scopes'[n].seq = scopes[n].seq
             /\ OpenWindows' = OpenWindows
             /\ Unpublished' = Unpublished
             /\ Begun' = Begun
  <2>1. /\ n \in Nat \ {0} /\ n \in 1..n
        /\ scopes[n] \in Scope /\ scopes[n].stage = from /\ scopes # <<>>
    BY <1>1, LastScope
  <2>2. /\ scopes' = [scopes EXCEPT ![n].stage = st]
        /\ syscall' = syscall /\ bypass' = bypass + 1 /\ windows' = windows
        /\ seqs' = seqs
    BY <1>1 DEF TakeGuard, MoveTo
  <2>3. DOMAIN scopes = 1..n
    BY ScopeFacts
  <2>4. scopes[n].fgraph_window_matched /\ scopes[n].span
    <3>1. StageOk(n)
      BY <2>1, <2>3 DEF ScopeInv, ScopeOk
    <3> QED
      BY <1>1, <2>1, <3>1 DEF StageOk
  <2>5. /\ n \notin InGuard /\ n \notin Unpublished
        /\ n \in OpenWindows <=> st = "entering"
        /\ n \in Begun <=> st = "leaving"
    BY <1>1, <2>1, <2>3, <2>4 DEF InGuard, OpenWindows, Unpublished, Begun
  <2>6. bypass' = Cardinality(InGuard')
    BY <1>1, <2>1, <2>2, <2>5, MovedGuard
  <2>7. n \in OpenWindows <=> /\ scopes[n].fgraph_window_matched
                              /\ st \in {"opening", "opened", "entering", "body"}
    BY <1>1, <2>4, <2>5
  <2>8. /\ ScopeInv'
        /\ scopes' \in Seq(Scope) /\ Len(scopes') = n
        /\ \A i \in 1..(n - 1) : scopes'[i] = scopes[i]
        /\ scopes'[n].func = scopes[n].func
        /\ scopes'[n].seq = scopes[n].seq
        /\ OpenWindows' = OpenWindows
        /\ Unpublished' = Unpublished \ {n}
        /\ Begun' = IF /\ scopes[n].span
                       /\ st \in {"body", "closing", "closed", "leaving"}
                    THEN Begun \cup {n} ELSE Begun \ {n}
    BY <1>1, <2>1, <2>2, <2>4, <2>6, <2>7, MovedInv
  <2>9. Begun' = Begun /\ Unpublished' = Unpublished
    BY <1>1, <2>4, <2>5, <2>8
  <2> QED
    BY <2>1, <2>8, <2>9
<1>2. "entering" \in Stage /\ "leaving" \in Stage
  BY DEF Stage
<1>3. CASE InStage("opened") /\ MoveTo("entering")
  BY <1>1, <1>2, <1>3
<1>4. CASE InStage("closed") /\ MoveTo("leaving")
  BY <1>1, <1>2, <1>4
<1> QED
  BY <1>3, <1>4 DEF TakeGuard

\* TraceScope::enter ends: the guard is dropped, the span is begun and no window
\* changes.
LEMMA EnterScopes ==
    ASSUME ScopeInv, Enter
    PROVE  /\ ScopeInv' /\ scopes' \in Seq(Scope)
           /\ Len(scopes') = Len(scopes) /\ Len(scopes) \in Nat \ {0}
           /\ \A i \in 1..(Len(scopes) - 1) : scopes'[i] = scopes[i]
           /\ scopes'[Len(scopes)].func = scopes[Len(scopes)].func
           /\ scopes'[Len(scopes)].seq = scopes[Len(scopes)].seq
           /\ OpenWindows' = OpenWindows
           /\ Unpublished' = Unpublished
           /\ Begun' = Begun \cup {Len(scopes)}
           /\ Len(scopes) \notin Begun
<1> DEFINE n == Len(scopes)
<1>1. /\ n \in Nat \ {0} /\ n \in 1..n
      /\ scopes[n] \in Scope /\ scopes[n].stage = "entering" /\ scopes # <<>>
  BY LastScope DEF Enter
<1>2. /\ scopes' = [scopes EXCEPT ![n].stage = "body"]
      /\ syscall' = syscall /\ bypass' = bypass - 1 /\ windows' = windows
      /\ seqs' = seqs
  BY DEF Enter, MoveTo
<1>3. DOMAIN scopes = 1..n
  BY ScopeFacts
<1>4. scopes[n].span
  <2>1. StageOk(n)
    BY <1>1, <1>3 DEF ScopeInv, ScopeOk
  <2> QED
    BY <1>1, <2>1 DEF StageOk
<1>5. /\ n \in InGuard /\ n \notin Unpublished /\ n \notin Begun
      /\ n \in OpenWindows <=> scopes[n].fgraph_window_matched
  BY <1>1, <1>3 DEF InGuard, OpenWindows, Unpublished, Begun
<1> DEFINE st == "body"
<1>6. /\ st \in Stage
      /\ st \notin {"opening", "closing", "numbering", "opened", "closed",
                    "entering", "leaving"}
      /\ st \in {"opening", "opened", "entering", "body"}
      /\ st \in {"body", "closing", "closed", "leaving"}
      /\ scopes' = [scopes EXCEPT ![n].stage = st]
  BY <1>2 DEF Stage
<1> HIDE DEF st
<1>7. bypass' = Cardinality(InGuard')
  BY <1>1, <1>2, <1>5, <1>6, MovedGuard
<1>8. /\ ScopeInv'
      /\ scopes' \in Seq(Scope) /\ Len(scopes') = n
      /\ \A i \in 1..(n - 1) : scopes'[i] = scopes[i]
      /\ scopes'[n].func = scopes[n].func
      /\ scopes'[n].seq = scopes[n].seq
      /\ OpenWindows' = OpenWindows
      /\ Unpublished' = Unpublished \ {n}
      /\ Begun' = IF /\ scopes[n].span
                     /\ st \in {"body", "closing", "closed", "leaving"}
                  THEN Begun \cup {n} ELSE Begun \ {n}
  BY <1>1, <1>2, <1>5, <1>6, <1>7, MovedInv
<1>9. Begun' = Begun \cup {n} /\ Unpublished' = Unpublished
  BY <1>4, <1>5, <1>6, <1>8
<1> QED
  BY <1>1, <1>5, <1>8, <1>9

\* ScopeInv after the last scope was dropped.
LEMMA DroppedInv ==
    ASSUME ScopeInv, scopes # <<>>, scopes' = Front(scopes),
           syscall' = syscall, seqs' = seqs, windows' = windows,
           Len(scopes) \notin OpenWindows,
           bypass' = IF Len(scopes) \in InGuard THEN bypass - 1 ELSE bypass
    PROVE  ScopeInv'
<1> DEFINE n == Len(scopes)
<1>1. /\ scopes' \in Seq(Scope) /\ Len(scopes') = n - 1 /\ n \in Nat \ {0}
      /\ \A i \in 1..(n - 1) : scopes'[i] = scopes[i]
      /\ InGuard' = InGuard \ {n} /\ OpenWindows' = OpenWindows \ {n}
  BY DroppedScopes
<1>2. PICK m \in Nat : m = n - 1 /\ m <= n
  <2> HIDE DEF n
  <2>1. n - 1 \in Nat /\ n - 1 <= n
    BY <1>1
  <2> QED
    BY <2>1
<1>3. InGuard \in SUBSET (1..n) /\ OpenWindows \in SUBSET (1..n) /\ bypass \in Nat
  BY ScopeFacts
<1>4. /\ n \in InGuard => Cardinality(InGuard \ {n}) = Cardinality(InGuard) - 1
      /\ n \notin InGuard => InGuard \ {n} = InGuard
  BY <1>1, <1>3, LastCount
<1>5. bypass' = Cardinality(InGuard')
  <2>1. CASE n \in InGuard
    BY <1>1, <1>4, <2>1 DEF ScopeInv
  <2>2. CASE n \notin InGuard
    BY <1>1, <1>4, <2>2 DEF ScopeInv
  <2> QED
    BY <2>1, <2>2
<1>6. windows' = Cardinality(OpenWindows')
  <2>1. OpenWindows' = OpenWindows
    BY <1>1
  <2> QED
    BY <2>1 DEF ScopeInv
<1>7. seqs' \in [Func -> 0..MaxSeq] /\ \A g \in Func : seqs[g] <= seqs'[g]
  BY BoundAssumption DEF ScopeInv
<1>8. /\ Len(scopes') = m /\ m <= Len(scopes)
      /\ \A i \in 1..m : scopes'[i] = scopes[i]
  BY <1>1, <1>2
<1>9. Len(scopes') # m + 1
  BY <1>2, <1>8
<1>10. scopes' \in Seq(Scope)
  BY <1>1
<1> QED
  BY <1>5, <1>6, <1>7, <1>8, <1>9, <1>10, Rebuilt

\* TraceScope::finish of a call without a window: nothing of a window changes.
LEMMA FinishPlain ==
    ASSUME ScopeInv, Finish, ~scopes[Len(scopes)].fgraph_window_matched
    PROVE  /\ ScopeInv' /\ scopes' \in Seq(Scope)
           /\ Len(scopes) \in Nat \ {0} /\ Len(scopes) - 1 <= Len(scopes')
           /\ \A i \in 1..(Len(scopes) - 1) : scopes'[i] = scopes[i]
           /\ OpenWindows' = OpenWindows /\ Len(scopes) \notin OpenWindows
           /\ Unpublished' = Unpublished
           /\ Begun' = Begun
           /\ Len(scopes) \in Begun => scopes'[Len(scopes)].func = scopes[Len(scopes)].func
<1> DEFINE n == Len(scopes)
<1>1. /\ n \in Nat \ {0} /\ n \in 1..n /\ Last(scopes) = scopes[n]
      /\ scopes[n] \in Scope /\ scopes[n].stage = "body" /\ scopes # <<>>
  BY LastScope DEF Finish
<1>2. DOMAIN scopes = 1..n
  BY ScopeFacts
<1>3. /\ n \notin InGuard /\ n \notin Unpublished /\ n \notin OpenWindows
      /\ n \in Begun <=> scopes[n].span
  BY <1>1, <1>2 DEF InGuard, OpenWindows, Unpublished, Begun
<1>4. syscall' = syscall /\ windows' = windows /\ seqs' = seqs
  BY <1>1 DEF Finish
<1>5. CASE scopes[n].span
  <2> DEFINE st == "leaving"
  <2>1. scopes' = [scopes EXCEPT ![n].stage = st] /\ bypass' = bypass + 1
    BY <1>1, <1>5 DEF Finish, MoveTo
  <2>2. /\ st \in Stage
        /\ st \notin {"opening", "closing", "numbering", "opened", "closed", "body"}
        /\ st \in {"entering", "leaving"}
        /\ st \in {"body", "closing", "closed", "leaving"}
        /\ st \notin {"opening", "opened", "entering", "body"}
    BY DEF Stage
  <2> HIDE DEF st
  <2>3. bypass' = Cardinality(InGuard')
    BY <1>1, <1>3, <2>1, <2>2, MovedGuard
  <2>4. /\ ScopeInv'
        /\ scopes' \in Seq(Scope) /\ Len(scopes') = n
        /\ \A i \in 1..(n - 1) : scopes'[i] = scopes[i]
        /\ scopes'[n].func = scopes[n].func
        /\ OpenWindows' = OpenWindows
        /\ Unpublished' = Unpublished \ {n}
        /\ Begun' = IF /\ scopes[n].span
                       /\ st \in {"body", "closing", "closed", "leaving"}
                    THEN Begun \cup {n} ELSE Begun \ {n}
    BY <1>1, <1>3, <1>4, <1>5, <2>1, <2>2, <2>3, MovedInv
  <2>5. Begun' = Begun /\ Unpublished' = Unpublished
    BY <1>3, <1>5, <2>2, <2>4
  <2>6. n - 1 <= Len(scopes')
    <3> HIDE DEF n
    <3> QED
      BY <1>1, <2>4
  <2> QED
    BY <1>1, <1>3, <2>4, <2>5, <2>6
<1>6. CASE ~scopes[n].span
  <2>1. scopes' = Front(scopes) /\ bypass' = bypass
    BY <1>1, <1>6 DEF Finish
  <2>2. /\ scopes' \in Seq(Scope)
        /\ Len(scopes') = n - 1
        /\ \A i \in 1..(n - 1) : scopes'[i] = scopes[i]
        /\ OpenWindows' = OpenWindows \ {n}
        /\ Unpublished' = Unpublished \ {n}
        /\ Begun' = Begun \ {n}
    BY <1>1, <2>1, DroppedScopes
  <2>3. OpenWindows' = OpenWindows /\ Unpublished' = Unpublished /\ Begun' = Begun
    BY <1>3, <1>6, <2>2
  <2>4. ScopeInv'
    BY <1>1, <1>3, <1>4, <2>1, DroppedInv
  <2>5. n - 1 <= Len(scopes')
    <3> HIDE DEF n
    <3> QED
      BY <1>1, <2>2
  <2> QED
    BY <1>1, <1>3, <1>6, <2>2, <2>3, <2>4, <2>5
<1> QED
  BY <1>5, <1>6

\* TraceScope::finish of a call with a window: it counts no more, and this is
\* not published.
LEMMA FinishMatched ==
    ASSUME ScopeInv, Finish, scopes[Len(scopes)].fgraph_window_matched
    PROVE  /\ ScopeInv' /\ scopes' \in Seq(Scope)
           /\ Len(scopes') = Len(scopes) /\ Len(scopes) \in Nat \ {0}
           /\ \A i \in 1..(Len(scopes) - 1) : scopes'[i] = scopes[i]
           /\ scopes'[Len(scopes)].func = scopes[Len(scopes)].func
           /\ OpenWindows' = OpenWindows \ {Len(scopes)}
           /\ Unpublished' = Unpublished \cup {Len(scopes)}
           /\ Begun' = Begun
<1> DEFINE n == Len(scopes)
           e == [scopes[n] EXCEPT !.depth = windows - 1, !.stage = "closing"]
<1>1. /\ n \in Nat \ {0} /\ n \in 1..n /\ Last(scopes) = scopes[n]
      /\ scopes[n] \in Scope /\ scopes[n].stage = "body" /\ scopes # <<>>
  BY LastScope DEF Finish
<1>2. /\ DOMAIN scopes = 1..n
      /\ InGuard \in SUBSET (1..n) /\ OpenWindows \in SUBSET (1..n)
      /\ windows \in Nat
  BY ScopeFacts
<1>3. /\ n \notin InGuard /\ n \in OpenWindows
      /\ n \in Begun <=> scopes[n].span
  BY <1>1, <1>2 DEF InGuard, OpenWindows, Begun
<1>4. /\ syscall' = syscall /\ windows' = windows - 1 /\ seqs' = seqs
      /\ bypass' = bypass
      /\ scopes' = [scopes EXCEPT ![n] = [@ EXCEPT !.depth = windows - 1,
                                                   !.stage = "closing"]]
  BY <1>1 DEF Finish
<1>5. /\ windows - 1 \in Nat
      /\ Cardinality(OpenWindows \ {n}) = windows - 1
  <2>1. windows > 0 /\ Cardinality(OpenWindows \ {n}) = windows - 1
    BY <1>1, <1>2, <1>3, LastCount DEF ScopeInv
  <2> QED
    BY <1>2, <2>1
<1>6. e \in Scope
  BY <1>1, <1>5 DEF Scope, Stage
<1>7. scopes' = [scopes EXCEPT ![n] = e]
  BY <1>1, <1>2, <1>4
<1>8. /\ e.func = scopes[n].func /\ e.span = scopes[n].span /\ e.seq = scopes[n].seq
      /\ e.fgraph_window_matched = scopes[n].fgraph_window_matched
      /\ e.depth = windows - 1 /\ e.stage = "closing"
  BY <1>1 DEF Scope
<1> HIDE DEF e
<1>9. /\ scopes' \in Seq(Scope) /\ Len(scopes') = n
      /\ \A i \in 1..(n - 1) : scopes'[i] = scopes[i]
      /\ scopes'[n] = e
      /\ InGuard' = InGuard \ {n}
      /\ OpenWindows' = OpenWindows \ {n}
      /\ Unpublished' = Unpublished \cup {n}
      /\ Begun' = IF e.span THEN Begun \cup {n} ELSE Begun \ {n}
  BY <1>1, <1>6, <1>7, <1>8, ReplacedScopes
<1>10. InGuard' = InGuard /\ Begun' = Begun
  BY <1>3, <1>8, <1>9
<1>11. bypass' = Cardinality(InGuard') /\ windows' = Cardinality(OpenWindows')
  BY <1>4, <1>5, <1>9, <1>10 DEF ScopeInv
<1>12. StageOk(n)'
  <2>1. StageOk(n)
    BY <1>1, <1>2 DEF ScopeInv, ScopeOk
  <2>2. scopes'[n] = e /\ n' = n
    BY <1>9
  <2> QED
    BY <1>4, <1>8, <2>1, <2>2 DEF StageOk
<1>13. DepthOk(n)'
  <2>1. OpenWindows' \in SUBSET (1..n)
    BY <1>2, <1>9
  <2>2. {j \in OpenWindows' : j <= n} = OpenWindows'
    BY <1>1, <2>1, UpToAll
  <2>3. n' = n /\ scopes'[n] = e
    BY <1>9
  <2>4. Place(n)' = windows'
    BY <1>11, <2>2, <2>3 DEF Place
  <2> QED
    BY <1>4, <1>8, <2>3, <2>4 DEF DepthOk
<1>14. seqs' \in [Func -> 0..MaxSeq] /\ \A g \in Func : seqs[g] <= seqs'[g]
  BY <1>4, BoundAssumption DEF ScopeInv
<1>15. ScopeInv'
  BY <1>1, <1>4, <1>6, <1>7, <1>8, <1>11, <1>12, <1>13, <1>14, ReplacedInv
<1> QED
  BY <1>1, <1>8, <1>9, <1>10, <1>15

\* publish_fgraph_window_exit: the closing is published.
LEMMA PublishExitScopes ==
    ASSUME ScopeInv, PublishExit
    PROVE  /\ ScopeInv' /\ scopes' \in Seq(Scope)
           /\ Len(scopes) \in Nat \ {0} /\ Len(scopes) - 1 <= Len(scopes')
           /\ \A i \in 1..(Len(scopes) - 1) : scopes'[i] = scopes[i]
           /\ OpenWindows' = OpenWindows /\ Len(scopes) \notin OpenWindows
           /\ Unpublished' = Unpublished \ {Len(scopes)}
           /\ Len(scopes) \in Unpublished
           /\ Begun' = Begun
           /\ Len(scopes) \in Begun => scopes'[Len(scopes)].func = scopes[Len(scopes)].func
<1> DEFINE n == Len(scopes)
<1>1. /\ n \in Nat \ {0} /\ n \in 1..n /\ Last(scopes) = scopes[n]
      /\ scopes[n] \in Scope /\ scopes[n].stage = "closing" /\ scopes # <<>>
  BY LastScope DEF PublishExit
<1>2. DOMAIN scopes = 1..n
  BY ScopeFacts
<1>3. /\ n \notin InGuard /\ n \in Unpublished /\ n \notin OpenWindows
      /\ n \in Begun <=> scopes[n].span
  BY <1>1, <1>2 DEF InGuard, OpenWindows, Unpublished, Begun
<1>4. syscall' = syscall /\ windows' = windows /\ seqs' = seqs /\ bypass' = bypass
  BY DEF PublishExit
<1>5. CASE scopes[n].span
  <2> DEFINE st == "closed"
  <2>1. scopes' = [scopes EXCEPT ![n].stage = st]
    BY <1>1, <1>5 DEF PublishExit, MoveTo
  <2>2. /\ st \in Stage
        /\ st \notin {"opening", "closing", "numbering", "opened", "body",
                      "entering", "leaving"}
        /\ st \in {"body", "closing", "closed", "leaving"}
        /\ st \notin {"opening", "opened", "entering", "body"}
    BY DEF Stage
  <2> HIDE DEF st
  <2>3. bypass' = Cardinality(InGuard')
    BY <1>1, <1>3, <1>4, <2>1, <2>2, MovedGuard
  <2>4. scopes[n].fgraph_window_matched
    <3>1. StageOk(n)
      BY <1>1, <1>2 DEF ScopeInv, ScopeOk
    <3> QED
      BY <1>1, <3>1 DEF StageOk
  <2>5. /\ ScopeInv'
        /\ scopes' \in Seq(Scope) /\ Len(scopes') = n
        /\ \A i \in 1..(n - 1) : scopes'[i] = scopes[i]
        /\ scopes'[n].func = scopes[n].func
        /\ OpenWindows' = OpenWindows
        /\ Unpublished' = Unpublished \ {n}
        /\ Begun' = IF /\ scopes[n].span
                       /\ st \in {"body", "closing", "closed", "leaving"}
                    THEN Begun \cup {n} ELSE Begun \ {n}
    BY <1>1, <1>3, <1>4, <1>5, <2>1, <2>2, <2>3, <2>4, MovedInv
  <2>6. Begun' = Begun
    BY <1>3, <1>5, <2>2, <2>5
  <2>7. n - 1 <= Len(scopes')
    <3> HIDE DEF n
    <3> QED
      BY <1>1, <2>5
  <2> QED
    BY <1>1, <1>3, <2>5, <2>6, <2>7
<1>6. CASE ~scopes[n].span
  <2>1. scopes' = Front(scopes)
    BY <1>1, <1>6 DEF PublishExit
  <2>2. /\ scopes' \in Seq(Scope)
        /\ Len(scopes') = n - 1
        /\ \A i \in 1..(n - 1) : scopes'[i] = scopes[i]
        /\ OpenWindows' = OpenWindows \ {n}
        /\ Unpublished' = Unpublished \ {n}
        /\ Begun' = Begun \ {n}
    BY <1>1, <2>1, DroppedScopes
  <2>3. OpenWindows' = OpenWindows /\ Begun' = Begun
    BY <1>3, <1>6, <2>2
  <2>4. ScopeInv'
    BY <1>1, <1>3, <1>4, <2>1, DroppedInv
  <2>5. n - 1 <= Len(scopes')
    <3> HIDE DEF n
    <3> QED
      BY <1>1, <2>2
  <2> QED
    BY <1>1, <1>3, <1>6, <2>2, <2>3, <2>4, <2>5
<1> QED
  BY <1>5, <1>6

\* TraceScope::finish ends: the guard and the span go with the scope.
LEMMA ExitScopes ==
    ASSUME ScopeInv, Exit
    PROVE  /\ ScopeInv' /\ scopes' \in Seq(Scope)
           /\ Len(scopes') = Len(scopes) - 1 /\ Len(scopes) \in Nat \ {0}
           /\ \A i \in 1..(Len(scopes) - 1) : scopes'[i] = scopes[i]
           /\ OpenWindows' = OpenWindows /\ Len(scopes) \notin OpenWindows
           /\ Unpublished' = Unpublished
           /\ Begun' = Begun \ {Len(scopes)} /\ Len(scopes) \in Begun
<1> DEFINE n == Len(scopes)
<1>1. /\ n \in Nat \ {0} /\ n \in 1..n
      /\ scopes[n] \in Scope /\ scopes[n].stage = "leaving" /\ scopes # <<>>
  BY LastScope DEF Exit
<1>2. DOMAIN scopes = 1..n
  BY ScopeFacts
<1>3. scopes[n].span
  <2>1. StageOk(n)
    BY <1>1, <1>2 DEF ScopeInv, ScopeOk
  <2> QED
    BY <1>1, <2>1 DEF StageOk
<1>4. /\ n \in InGuard /\ n \notin Unpublished /\ n \notin OpenWindows
      /\ n \in Begun
  BY <1>1, <1>2, <1>3 DEF InGuard, OpenWindows, Unpublished, Begun
<1>5. /\ syscall' = syscall /\ windows' = windows /\ seqs' = seqs
      /\ bypass' = bypass - 1 /\ scopes' = Front(scopes)
  BY DEF Exit
<1>6. /\ scopes' \in Seq(Scope)
      /\ Len(scopes') = n - 1
      /\ \A i \in 1..(n - 1) : scopes'[i] = scopes[i]
      /\ OpenWindows' = OpenWindows \ {n}
      /\ Unpublished' = Unpublished \ {n}
      /\ Begun' = Begun \ {n}
  BY <1>1, <1>5, DroppedScopes
<1>7. OpenWindows' = OpenWindows /\ Unpublished' = Unpublished
  BY <1>4, <1>6
<1>8. ScopeInv'
  BY <1>1, <1>4, <1>5, DroppedInv
<1> QED
  BY <1>1, <1>4, <1>6, <1>7, <1>8

\* No call is in progress at first.
LEMMA ScopeInit == Init => ScopeInv
<1> SUFFICES ASSUME Init PROVE ScopeInv
  OBVIOUS
<1>1. scopes = <<>> /\ bypass = 0 /\ windows = 0 /\ DOMAIN scopes = {}
  BY DEF Init
<1>2. InGuard = {} /\ OpenWindows = {}
  BY <1>1 DEF InGuard, OpenWindows
<1>3. scopes \in Seq(Scope)
  BY <1>1, EmptySeq
<1>4. seqs \in [Func -> 0..MaxSeq]
  BY BoundAssumption DEF Init
<1> QED
  BY <1>1, <1>2, <1>3, <1>4, FS_EmptySet DEF ScopeInv

\* Every step keeps ScopeInv.
LEMMA ScopeStep == ScopeInv /\ [Next]_vars => ScopeInv'
<1> SUFFICES ASSUME ScopeInv, [Next]_vars PROVE ScopeInv'
  OBVIOUS
<1>1. ASSUME NEW f \in Func, Call(f) PROVE ScopeInv'
  BY <1>1, CallScopes
<1>2. CASE EnterWindow
  BY <1>2, EnterWindowScopes
<1>3. CASE PublishEnter
  BY <1>3, PublishEnterScopes
<1>4. CASE TakeGuard
  BY <1>4, TakeGuardScopes
<1>5. CASE Enter
  BY <1>5, EnterScopes
<1>6. CASE Finish
  BY <1>6, FinishPlain, FinishMatched
<1>7. CASE PublishExit
  BY <1>7, PublishExitScopes
<1>8. CASE Exit
  BY <1>8, ExitScopes
<1>9. ASSUME UNCHANGED <<syscall, scopes, seqs, bypass, windows>> PROVE ScopeInv'
  BY <1>9 DEF ScopeInv, InGuard, OpenWindows, Unpublished, Place, Hidden,
              ScopeOk, StageOk, DepthOk, HiddenOk
<1>10. CASE Syscall
  BY <1>9, <1>10 DEF Syscall
<1>11. CASE TearDown
  BY <1>9, <1>11 DEF TearDown
<1>12. CASE UNCHANGED vars
  BY <1>9, <1>12 DEF vars
<1> QED
  BY <1>1, <1>2, <1>3, <1>4, <1>5, <1>6, <1>7, <1>8, <1>10, <1>11, <1>12
     DEF Next, Idle

-----------------------------------------------------------------------------
(* The labels the tracer keeps.                                             *)

\* The first elements of a sequence.
LEMMA TruncatedFacts ==
    ASSUME NEW S, NEW s \in Seq(S), NEW n \in Nat
    PROVE  /\ Truncated(s, n) \in Seq(S)
           /\ Len(Truncated(s, n)) = IF Len(s) < n THEN Len(s) ELSE n
           /\ \A i \in 1..Len(Truncated(s, n)) :
                i \in 1..Len(s) /\ Truncated(s, n)[i] = s[i]
<1> DEFINE m == IF Len(s) < n THEN Len(s) ELSE n
<1>1. Len(s) \in Nat /\ m \in Nat /\ m <= Len(s)
  BY LenProperties
<1> HIDE DEF m
<1>2. \A i \in 1..m : i \in 1..Len(s) /\ s[i] \in S
  BY <1>1, ElementOfSeq
<1>3. /\ SubSeq(s, 1, m) \in Seq(S)
      /\ Len(SubSeq(s, 1, m)) = m
      /\ \A i \in 1..m : SubSeq(s, 1, m)[i] = s[i]
  BY <1>1, <1>2, SubSeqProperties
<1>4. Truncated(s, n) = SubSeq(s, 1, m)
  BY DEF Truncated, m
<1> QED
  BY <1>2, <1>3, <1>4 DEF m

\* The settled windows are the first of the open ones.
LEMMA SettledFacts ==
    ASSUME ScopeInv
    PROVE  /\ Settled \in SUBSET OpenWindows
           /\ IsFiniteSet(Settled) /\ Cardinality(Settled) \in Nat
           /\ \A i \in Settled : Place(i) \in 1..Cardinality(Settled)
<1>1. PICK n \in Nat : n = Len(scopes)
  BY ScopeFacts
<1>2. OpenWindows \in SUBSET (1..n) /\ Unpublished \in SUBSET (1..n)
  BY <1>1, ScopeFacts
<1>3. Settled \in SUBSET OpenWindows /\ Settled \in SUBSET (1..n)
  BY <1>2 DEF Settled
<1>4. IsFiniteSet(Settled) /\ Cardinality(Settled) \in Nat
  BY <1>3, CountFacts
<1>5. ASSUME NEW i \in Settled PROVE Place(i) \in 1..Cardinality(Settled)
  <2> DEFINE S == {j \in OpenWindows : j <= i}
  <2>1. i \in 1..n /\ i \in OpenWindows
    BY <1>3
  <2>2. ASSUME NEW j \in S, NEW u \in Unpublished PROVE j < u
    <3>1. i < u /\ j <= i /\ j \in 1..n /\ u \in 1..n
      BY <1>2 DEF Settled
    <3> QED
      BY <2>1, <3>1
  <2>3. S \in SUBSET Settled
    BY <2>2 DEF Settled
  <2>4. i \in S /\ S \in SUBSET (1..n)
    <3>1. i <= i
      BY <2>1
    <3> QED
      BY <1>2, <2>1, <3>1
  <2>5. Cardinality(S) <= Cardinality(Settled)
    BY <1>4, <2>3, FS_Subset
  <2>6. Cardinality(S) \in Nat /\ Cardinality(S) > 0
    BY <2>4, CountFacts
  <2>7. Place(i) = Cardinality(S)
    BY DEF Place
  <2> HIDE DEF S
  <2> QED
    BY <1>4, <2>5, <2>6, <2>7
<1> QED
  BY <1>3, <1>4, <1>5

\* The tracer hears of no window: what it knows is right if no window was
\* settled by the step and nothing is lost.
LEMMA KeptLabels ==
    ASSUME ScopeInv, ScopeInv', LabelInv, winSeen' = winSeen, lost' \in Nat,
           \A g \in Func : seqs[g] <= seqs'[g],
           lost' = 0 =>
             /\ lost = 0
             /\ Settled' \in SUBSET Settled
             /\ Unpublished' = {} => Unpublished = {} /\ windows' = windows
             /\ \A i \in Settled' : /\ Place(i)' = Place(i)
                                    /\ scopes'[i].func = scopes[i].func
                                    /\ scopes'[i].seq = scopes[i].seq
    PROVE  LabelInv'
<1>1. /\ winSeen.labels \in Seq(Label)
      /\ seqs \in [Func -> 0..MaxSeq] /\ seqs' \in [Func -> 0..MaxSeq]
  BY DEF LabelInv, ScopeInv
<1>2. Len(winSeen.labels) \in Nat /\ DOMAIN winSeen.labels = 1..Len(winSeen.labels)
  BY <1>1, LenProperties
<1>3. ASSUME NEW i \in DOMAIN winSeen.labels
      PROVE  winSeen.labels[i].seq <= seqs'[winSeen.labels[i].func]
  <2>1. winSeen.labels[i] \in Label
    BY <1>1, <1>2, ElementOfSeq
  <2>2. winSeen.labels[i].func \in Func /\ winSeen.labels[i].seq \in Nat
    BY <2>1 DEF Label
  <2>3. winSeen.labels[i].seq <= seqs[winSeen.labels[i].func]
    BY DEF LabelInv, LossyLabelsBounded
  <2>4. /\ seqs[winSeen.labels[i].func] \in 0..MaxSeq
        /\ seqs'[winSeen.labels[i].func] \in 0..MaxSeq
        /\ seqs[winSeen.labels[i].func] <= seqs'[winSeen.labels[i].func]
    BY <1>1, <2>2
  <2> QED
    BY <2>2, <2>3, <2>4, BoundAssumption
<1>4. LossyLabelsBounded'
  BY <1>3 DEF LabelInv, LossyLabelsBounded
<1>5. ASSUME lost' = 0
      PROVE  /\ \A i \in Settled' :
                  /\ Place(i)' <= Len(winSeen'.labels)
                  /\ winSeen'.labels[Place(i)'] =
                       [func |-> scopes'[i].func, seq |-> scopes'[i].seq]
             /\ Unpublished' = {} =>
                  winSeen'.depth = windows' /\ Len(winSeen'.labels) = windows'
             /\ Cardinality(Settled') <= Len(winSeen'.labels)
  <2>1. /\ \A i \in Settled :
             /\ Place(i) <= Len(winSeen.labels)
             /\ winSeen.labels[Place(i)] =
                  [func |-> scopes[i].func, seq |-> scopes[i].seq]
        /\ Unpublished = {} =>
             winSeen.depth = windows /\ Len(winSeen.labels) = windows
        /\ Cardinality(Settled) <= Len(winSeen.labels)
    BY <1>5 DEF LabelInv, LabelsMatchWindows
  <2>2. ASSUME NEW i \in Settled'
        PROVE  /\ Place(i)' <= Len(winSeen'.labels)
               /\ winSeen'.labels[Place(i)'] =
                    [func |-> scopes'[i].func, seq |-> scopes'[i].seq]
    <3>1. i \in Settled /\ Place(i)' = Place(i)
          /\ scopes'[i].func = scopes[i].func /\ scopes'[i].seq = scopes[i].seq
      BY <1>5, <2>2
    <3> QED
      BY <2>1, <3>1
  <2>3. Cardinality(Settled') <= Cardinality(Settled) /\ Cardinality(Settled') \in Nat
    <3>1. IsFiniteSet(Settled) /\ Settled' \in SUBSET Settled
      BY <1>5, SettledFacts
    <3>2. IsFiniteSet(Settled') /\ Cardinality(Settled') <= Cardinality(Settled)
      BY <3>1, FS_Subset
    <3> QED
      BY <3>2, FS_CardinalityType
  <2>4. Cardinality(Settled) \in Nat
    BY SettledFacts
  <2>5. Cardinality(Settled') <= Len(winSeen'.labels)
    BY <1>2, <2>1, <2>3, <2>4
  <2>6. Unpublished' = {} =>
          winSeen'.depth = windows' /\ Len(winSeen'.labels) = windows'
    BY <1>5, <2>1
  <2> QED
    BY <2>2, <2>5, <2>6
<1>6. LabelsMatchWindows'
  BY <1>5 DEF LabelsMatchWindows, ScopeInv
<1> QED
  BY <1>4, <1>5, <1>6 DEF LabelInv

\* The windows around the one being published, seen from the last scope.
LEMMA AroundLast ==
    ASSUME ScopeInv, NEW n \in Nat \ {0}, n = Len(scopes), n \in Unpublished
    PROVE  /\ scopes[n].depth = windows
           /\ Place(n) = windows
           /\ n \notin Settled
           /\ Unpublished = {n} => Settled = OpenWindows \ {n}
           /\ \A i \in OpenWindows :
                i # n /\ (\A u \in Unpublished \ {n} : i < u) => i \in Settled
           /\ \A u \in Unpublished : n < u => FALSE
<1>1. /\ DOMAIN scopes = 1..n /\ OpenWindows \in SUBSET (1..n)
      /\ Unpublished \in SUBSET (1..n) /\ n \in 1..n
  BY ScopeFacts
<1>2. Place(n) = windows
  <2>1. {j \in OpenWindows : j <= n} = OpenWindows
    BY <1>1, UpToAll
  <2> QED
    BY <2>1 DEF Place, ScopeInv
<1>3. scopes[n].depth = windows
  BY <1>1, <1>2 DEF ScopeInv, ScopeOk, DepthOk
<1>4. n \notin Settled
  <2>1. ~(n < n)
    BY <1>1
  <2> QED
    BY <2>1 DEF Settled
<1>5. \A i \in OpenWindows : i # n => i < n
  BY <1>1
<1>6. \A i \in OpenWindows :
        i # n /\ (\A u \in Unpublished \ {n} : i < u) => i \in Settled
  BY <1>5 DEF Settled
<1>7. Unpublished = {n} => Settled = OpenWindows \ {n}
  BY <1>4, <1>5 DEF Settled
<1>8. \A u \in Unpublished : ~(n < u)
  BY <1>1
<1> QED
  BY <1>2, <1>3, <1>4, <1>6, <1>7, <1>8

\* A window that the tracer hears of the opening of: it keeps the labels of the
\* windows around it and adds the new one.
LEMMA EnterLabels ==
    ASSUME ScopeInv, LabelInv, PublishEnter, lost' = lost,
           winSeen' = AfterWindowEnter(winSeen, scopes[Len(scopes)].depth,
                        [func |-> scopes[Len(scopes)].func,
                         seq |-> scopes[Len(scopes)].seq])
    PROVE  LabelInv'
<1>0. PICK n \in Nat \ {0} : n = Len(scopes)
  BY PublishEnterScopes
<1>1. /\ ScopeInv'
      /\ \A i \in 1..(n - 1) : scopes'[i] = scopes[i]
      /\ scopes'[n].func = scopes[n].func /\ scopes'[n].seq = scopes[n].seq
      /\ OpenWindows' = OpenWindows /\ n \in OpenWindows
      /\ Unpublished' = Unpublished \ {n} /\ n \in Unpublished
  BY <1>0, PublishEnterScopes
<1>2. /\ OpenWindows \in SUBSET (1..n) /\ windows \in Nat
      /\ DOMAIN scopes = 1..n /\ scopes[n] \in Scope /\ n \in 1..n
  BY <1>0, ScopeFacts
<1>3. /\ scopes[n].depth = windows /\ Place(n) = windows /\ n \notin Settled
      /\ Unpublished = {n} => Settled = OpenWindows \ {n}
      /\ \A i \in OpenWindows :
           i # n /\ (\A u \in Unpublished \ {n} : i < u) => i \in Settled
      /\ \A u \in Unpublished : ~(n < u)
  BY <1>0, <1>1, AroundLast
<1>4. windows' = windows /\ seqs' = seqs
  BY DEF PublishEnter
<1>5. /\ windows = Cardinality(OpenWindows) /\ windows - 1 \in Nat
      /\ Cardinality(OpenWindows \ {n}) = windows - 1
      /\ IsFiniteSet(OpenWindows)
  <2>1. /\ windows = Cardinality(OpenWindows) /\ IsFiniteSet(OpenWindows)
        /\ Cardinality(OpenWindows \ {n}) = windows - 1 /\ windows > 0
    BY <1>1, <1>2, LastCount DEF ScopeInv
  <2> QED
    BY <1>2, <2>1
<1> DEFINE kept == Truncated(winSeen.labels, windows - 1)
           new == [func |-> scopes[n].func, seq |-> scopes[n].seq]
<1>6. /\ winSeen.labels \in Seq(Label) /\ winSeen.depth \in Nat /\ lost \in Nat
  BY DEF LabelInv
<1>7. Len(winSeen.labels) \in Nat /\ DOMAIN winSeen.labels = 1..Len(winSeen.labels)
  BY <1>6, LenProperties
<1>8. scopes[n].func \in Func /\ scopes[n].seq \in 0..MaxSeq
  BY <1>2 DEF Scope
<1>9. new \in Label
  BY <1>8, BoundAssumption DEF Label
<1>10. new.seq <= seqs[new.func]
  <2>1. StageOk(n)
    BY <1>2 DEF ScopeInv, ScopeOk
  <2> QED
    BY <2>1 DEF StageOk
<1>11. winSeen' = [depth |-> windows, labels |-> Append(kept, new)]
  BY <1>0, <1>3 DEF AfterWindowEnter
<1>12. /\ kept \in Seq(Label)
       /\ Len(kept) = IF Len(winSeen.labels) < windows - 1
                      THEN Len(winSeen.labels) ELSE windows - 1
       /\ \A i \in 1..Len(kept) : /\ i \in 1..Len(winSeen.labels)
                                  /\ kept[i] = winSeen.labels[i]
  BY <1>5, <1>6, TruncatedFacts
<1>13. /\ new.func = scopes[n].func /\ new.seq = scopes[n].seq
       /\ new = [func |-> scopes[n].func, seq |-> scopes[n].seq]
  OBVIOUS
<1> HIDE DEF kept, new
<1>14. /\ Append(kept, new) \in Seq(Label)
       /\ Len(Append(kept, new)) = Len(kept) + 1
       /\ \A i \in 1..Len(kept) : Append(kept, new)[i] = kept[i]
       /\ Append(kept, new)[Len(kept) + 1] = new
  BY <1>9, <1>12, AppendProperties
<1>15. DOMAIN Append(kept, new) = 1..(Len(kept) + 1)
  BY <1>14, LenProperties
<1>16. /\ winSeen'.depth = windows /\ winSeen'.labels = Append(kept, new)
       /\ winSeen' \in [depth : Nat, labels : Seq(Label)] /\ lost' \in Nat
  <2>1. winSeen' \in [depth : Nat, labels : Seq(Label)]
    BY <1>2, <1>11, <1>14
  <2> QED
    BY <1>6, <1>11, <2>1
<1>17. ASSUME NEW i \in 1..(Len(kept) + 1)
       PROVE  Append(kept, new)[i].seq <= seqs'[Append(kept, new)[i].func]
  <2>1. CASE i \in 1..Len(kept)
    <3>1. /\ i \in DOMAIN winSeen.labels
          /\ Append(kept, new)[i] = winSeen.labels[i]
      BY <1>7, <1>12, <1>14, <2>1
    <3> QED
      BY <1>4, <3>1 DEF LabelInv, LossyLabelsBounded
  <2>2. CASE i = Len(kept) + 1
    BY <1>4, <1>10, <1>14, <2>2
  <2>3. Len(kept) \in Nat
    BY <1>12, LenProperties
  <2> QED
    BY <1>17, <2>1, <2>2, <2>3
<1>18. LossyLabelsBounded'
  <2>1. Len(kept) + 1 <= windows
    BY <1>2, <1>5, <1>7, <1>12
  <2> QED
    BY <1>14, <1>15, <1>16, <1>17, <2>1 DEF LossyLabelsBounded
<1>19. /\ Settled \in SUBSET OpenWindows
       /\ IsFiniteSet(Settled) /\ Cardinality(Settled) \in Nat
       /\ \A i \in Settled : Place(i) \in 1..Cardinality(Settled)
  BY SettledFacts
<1>20. Cardinality(Settled) <= windows - 1
  <2>1. Settled \in SUBSET (OpenWindows \ {n})
    BY <1>3, <1>19
  <2>2. IsFiniteSet(OpenWindows \ {n})
    BY <1>5, FS_RemoveElement
  <2>3. Cardinality(Settled) <= Cardinality(OpenWindows \ {n})
    BY <2>1, <2>2, FS_Subset
  <2> QED
    BY <1>5, <2>3
<1>21. ASSUME NEW i \in Settled', i \notin Settled
       PROVE  i = n /\ Unpublished = {n}
  <2>1. i \in OpenWindows /\ \A u \in Unpublished \ {n} : i < u
    BY <1>1, <1>21 DEF Settled
  <2>2. i = n
    BY <1>3, <1>21, <2>1
  <2>3. Unpublished = {n}
    BY <1>1, <1>3, <2>1, <2>2
  <2> QED
    BY <2>2, <2>3
<1>22. ASSUME lost' = 0
       PROVE  /\ \A i \in Settled' :
                   /\ Place(i)' <= Len(winSeen'.labels)
                   /\ winSeen'.labels[Place(i)'] =
                        [func |-> scopes'[i].func, seq |-> scopes'[i].seq]
              /\ Unpublished' = {} =>
                   winSeen'.depth = windows' /\ Len(winSeen'.labels) = windows'
              /\ Cardinality(Settled') <= Len(winSeen'.labels)
  <2>1. /\ \A i \in Settled :
             /\ Place(i) <= Len(winSeen.labels)
             /\ winSeen.labels[Place(i)] =
                  [func |-> scopes[i].func, seq |-> scopes[i].seq]
        /\ Cardinality(Settled) <= Len(winSeen.labels)
    BY <1>22 DEF LabelInv, LabelsMatchWindows
  <2>2. /\ Len(kept) \in Nat /\ Cardinality(Settled) <= Len(kept)
        /\ Len(winSeen'.labels) = Len(kept) + 1
    BY <1>5, <1>7, <1>12, <1>14, <1>16, <1>19, <1>20, <2>1
  <2>3. ASSUME Unpublished = {n} PROVE Len(kept) = windows - 1
    <3>1. Cardinality(Settled) = windows - 1
      BY <1>3, <1>5, <2>3
    <3> QED
      BY <1>5, <1>7, <1>12, <2>1, <3>1
  <2>4. \A i : Place(i)' = Place(i)
    BY <1>1 DEF Place
  <2>5. ASSUME NEW i \in Settled'
        PROVE  /\ Place(i)' <= Len(winSeen'.labels)
               /\ winSeen'.labels[Place(i)'] =
                    [func |-> scopes'[i].func, seq |-> scopes'[i].seq]
    <3>1. CASE i \in Settled
      <4>1. Place(i) \in 1..Len(kept) /\ Place(i) <= Len(kept) + 1
        BY <1>19, <2>2, <3>1
      <4>2. winSeen'.labels[Place(i)] = winSeen.labels[Place(i)]
        BY <1>12, <1>14, <1>16, <4>1
      <4>3. i \in 1..(n - 1)
        BY <1>2, <1>3, <1>19, <3>1
      <4>4. scopes'[i] = scopes[i]
        BY <1>1, <4>3
      <4> QED
        BY <2>1, <2>2, <2>4, <3>1, <4>1, <4>2, <4>4
    <3>2. CASE i \notin Settled
      <4>1. i = n /\ Len(kept) = windows - 1
        BY <1>21, <2>3, <2>5, <3>2
      <4>2. Place(i)' = Len(kept) + 1
        BY <1>2, <1>3, <2>4, <4>1
      <4>3. winSeen'.labels[Place(i)'] = new
        BY <1>14, <1>16, <4>2
      <4>4. Len(kept) + 1 <= Len(kept) + 1
        BY <2>2
      <4> QED
        BY <1>1, <1>13, <2>2, <4>1, <4>2, <4>3, <4>4
    <3> QED
      BY <3>1, <3>2
  <2>6. ASSUME Unpublished' = {}
        PROVE  winSeen'.depth = windows' /\ Len(winSeen'.labels) = windows'
    <3>1. Unpublished = {n}
      BY <1>1, <2>6
    <3> QED
      BY <1>2, <1>4, <1>16, <2>2, <2>3, <3>1
  <2>7. Cardinality(Settled') <= Len(winSeen'.labels)
    <3>1. CASE Settled' \in SUBSET Settled
      <4>1. Cardinality(Settled') <= Cardinality(Settled) /\ IsFiniteSet(Settled')
        BY <1>19, <3>1, FS_Subset
      <4>2. Cardinality(Settled') \in Nat
        BY <4>1, FS_CardinalityType
      <4> QED
        BY <1>19, <2>2, <4>1, <4>2
    <3>2. CASE Settled' \notin SUBSET Settled
      <4>1. Unpublished = {n}
        BY <1>21, <3>2
      <4>2. Settled' \in SUBSET OpenWindows
        BY <1>1 DEF Settled
      <4>3. Cardinality(Settled') <= windows
        BY <1>5, <4>2, FS_Subset
      <4> QED
        BY <1>2, <2>2, <2>3, <4>1, <4>3
    <3> QED
      BY <3>1, <3>2
  <2> QED
    BY <2>5, <2>6, <2>7
<1>23. LabelsMatchWindows'
  BY <1>1, <1>22 DEF LabelsMatchWindows, ScopeInv
<1> QED
  BY <1>16, <1>18, <1>22, <1>23 DEF LabelInv

\* A window that the tracer hears of the closing of: the labels of the windows
\* around it are left, and nothing when there is none.
LEMMA ExitLabels ==
    ASSUME ScopeInv, LabelInv, PublishExit, lost' = lost,
           winSeen' = AfterWindowExit(winSeen, scopes[Len(scopes)].depth)
    PROVE  LabelInv'
<1>0. PICK n \in Nat \ {0} : n = Len(scopes)
  BY PublishExitScopes
<1>1. /\ ScopeInv'
      /\ \A i \in 1..(n - 1) : scopes'[i] = scopes[i]
      /\ OpenWindows' = OpenWindows /\ n \notin OpenWindows
      /\ Unpublished' = Unpublished \ {n} /\ n \in Unpublished
  BY <1>0, PublishExitScopes
<1>2. OpenWindows \in SUBSET (1..n) /\ windows \in Nat
  BY <1>0, ScopeFacts
<1>3. /\ scopes[n].depth = windows
      /\ Unpublished = {n} => Settled = OpenWindows \ {n}
      /\ \A i \in OpenWindows :
           i # n /\ (\A u \in Unpublished \ {n} : i < u) => i \in Settled
  BY <1>0, <1>1, AroundLast
<1>4. windows' = windows /\ seqs' = seqs
  BY DEF PublishExit
<1>5. windows = Cardinality(OpenWindows) /\ IsFiniteSet(OpenWindows)
  BY <1>2, CountFacts DEF ScopeInv
<1> DEFINE kept == IF windows = 0 THEN <<>> ELSE Truncated(winSeen.labels, windows)
<1>6. winSeen.labels \in Seq(Label) /\ winSeen.depth \in Nat /\ lost \in Nat
  BY DEF LabelInv
<1>7. Len(winSeen.labels) \in Nat /\ DOMAIN winSeen.labels = 1..Len(winSeen.labels)
  BY <1>6, LenProperties
<1>8. /\ kept \in Seq(Label)
      /\ Len(kept) = IF Len(winSeen.labels) < windows
                     THEN Len(winSeen.labels) ELSE windows
      /\ \A i \in 1..Len(kept) : /\ i \in 1..Len(winSeen.labels)
                                 /\ kept[i] = winSeen.labels[i]
  <2>1. CASE windows = 0
    <3>1. kept = <<>> /\ kept \in Seq(Label) /\ Len(kept) = 0
      BY <2>1, EmptySeq
    <3>2. ~(Len(winSeen.labels) < windows)
      BY <1>7, <2>1
    <3> QED
      BY <2>1, <3>1, <3>2
  <2>2. CASE windows # 0
    BY <1>2, <1>6, <2>2, TruncatedFacts
  <2> QED
    BY <2>1, <2>2
<1>9. winSeen' = [depth |-> windows, labels |-> kept]
  BY <1>0, <1>3 DEF AfterWindowExit, NoWindow
<1> HIDE DEF kept
<1>10. DOMAIN kept = 1..Len(kept) /\ Len(kept) \in Nat
  BY <1>8, LenProperties
<1>11. /\ winSeen'.depth = windows /\ winSeen'.labels = kept
       /\ winSeen' \in [depth : Nat, labels : Seq(Label)] /\ lost' \in Nat
  BY <1>2, <1>6, <1>8, <1>9
<1>12. LossyLabelsBounded'
  <2>1. Len(kept) <= windows
    BY <1>2, <1>7, <1>8
  <2>2. ASSUME NEW i \in 1..Len(kept)
        PROVE  kept[i].seq <= seqs'[kept[i].func]
    BY <1>4, <1>7, <1>8 DEF LabelInv, LossyLabelsBounded
  <2> QED
    BY <1>10, <1>11, <2>1, <2>2 DEF LossyLabelsBounded
<1>13. /\ Settled \in SUBSET OpenWindows
       /\ IsFiniteSet(Settled) /\ Cardinality(Settled) \in Nat
       /\ \A i \in Settled : Place(i) \in 1..Cardinality(Settled)
  BY SettledFacts
<1>14. Cardinality(Settled) <= windows
  BY <1>5, <1>13, FS_Subset
<1>15. Settled' = Settled
  <2>1. ASSUME NEW i \in Settled' PROVE i \in Settled
    <3>1. i \in OpenWindows /\ \A u \in Unpublished \ {n} : i < u
      BY <1>1 DEF Settled
    <3> QED
      BY <1>1, <1>3, <3>1
  <2>2. ASSUME NEW i \in Settled PROVE i \in Settled'
    BY <1>1 DEF Settled
  <2> QED
    BY <2>1, <2>2
<1>16. ASSUME lost' = 0
       PROVE  /\ \A i \in Settled' :
                   /\ Place(i)' <= Len(winSeen'.labels)
                   /\ winSeen'.labels[Place(i)'] =
                        [func |-> scopes'[i].func, seq |-> scopes'[i].seq]
              /\ Unpublished' = {} =>
                   winSeen'.depth = windows' /\ Len(winSeen'.labels) = windows'
              /\ Cardinality(Settled') <= Len(winSeen'.labels)
  <2>1. /\ \A i \in Settled :
             /\ Place(i) <= Len(winSeen.labels)
             /\ winSeen.labels[Place(i)] =
                  [func |-> scopes[i].func, seq |-> scopes[i].seq]
        /\ Cardinality(Settled) <= Len(winSeen.labels)
    BY <1>16 DEF LabelInv, LabelsMatchWindows
  <2>2. Cardinality(Settled) <= Len(kept)
    BY <1>2, <1>7, <1>8, <1>13, <1>14, <2>1
  <2>3. \A i : Place(i)' = Place(i)
    BY <1>1 DEF Place
  <2>4. ASSUME NEW i \in Settled
        PROVE  /\ Place(i)' <= Len(winSeen'.labels)
               /\ winSeen'.labels[Place(i)'] =
                    [func |-> scopes'[i].func, seq |-> scopes'[i].seq]
    <3>1. Place(i) \in 1..Len(kept)
      BY <1>10, <1>13, <2>2
    <3>2. kept[Place(i)] = winSeen.labels[Place(i)]
      BY <1>8, <3>1
    <3>3. i \in 1..(n - 1)
      BY <1>1, <1>2, <1>13
    <3>4. scopes'[i] = scopes[i]
      BY <1>1, <3>3
    <3> QED
      BY <1>10, <1>11, <2>1, <2>3, <3>1, <3>2, <3>4
  <2>5. ASSUME Unpublished' = {}
        PROVE  winSeen'.depth = windows' /\ Len(winSeen'.labels) = windows'
    <3>1. Unpublished = {n}
      BY <1>1, <2>5
    <3>2. Settled = OpenWindows
      BY <1>1, <1>3, <3>1
    <3>3. Len(kept) = windows
      BY <1>2, <1>5, <1>7, <1>8, <2>1, <3>2
    <3> QED
      BY <1>4, <1>11, <3>3
  <2> QED
    BY <1>11, <1>15, <2>2, <2>4, <2>5
<1>17. LabelsMatchWindows'
  BY <1>1, <1>16 DEF LabelsMatchWindows, ScopeInv
<1> QED
  BY <1>11, <1>12, <1>16, <1>17 DEF LabelInv

\* The tracer knows of no window at first.
LEMMA LabelInit == Init => LabelInv
<1> SUFFICES ASSUME Init PROVE LabelInv
  OBVIOUS
<1>1. /\ scopes = <<>> /\ DOMAIN scopes = {} /\ lost = 0 /\ windows = 0
      /\ winSeen = [depth |-> 0, labels |-> <<>>]
  BY DEF Init, NoWindow
<1>2. OpenWindows = {} /\ Settled = {}
  BY <1>1 DEF OpenWindows, Settled
<1>3. <<>> \in Seq(Label) /\ Len(<<>>) = 0 /\ DOMAIN <<>> = {}
  BY EmptySeq
<1>4. winSeen.depth = 0 /\ winSeen.labels = <<>>
  BY <1>1
<1>5. winSeen \in [depth : Nat, labels : Seq(Label)]
  BY <1>1, <1>3
<1>6. LossyLabelsBounded
  BY <1>3, <1>4 DEF LossyLabelsBounded
<1>7. LabelsMatchWindows
  BY <1>1, <1>2, <1>3, <1>4, FS_EmptySet DEF LabelsMatchWindows
<1>8. Cardinality(Settled) <= Len(winSeen.labels)
  BY <1>2, <1>3, <1>4, FS_EmptySet
<1> QED
  BY <1>1, <1>5, <1>6, <1>7, <1>8 DEF LabelInv

\* Every step keeps LabelInv.
LEMMA LabelStep == ScopeInv /\ LabelInv /\ [Next]_vars => LabelInv'
<1> SUFFICES ASSUME ScopeInv, LabelInv, [Next]_vars PROVE LabelInv'
  OBVIOUS
<1>1. /\ ScopeInv' /\ lost \in Nat
      /\ seqs \in [Func -> 0..MaxSeq] /\ seqs' \in [Func -> 0..MaxSeq]
      /\ \A g \in Func : seqs[g] <= seqs[g]
  BY ScopeStep, BoundAssumption DEF LabelInv, ScopeInv
\* Windows and their updates as they were, but for the last scope.
<1>2. ASSUME NEW m \in Nat, m <= Len(scopes), m <= Len(scopes'),
             \A i \in 1..m : scopes'[i] = scopes[i],
             \A i \in OpenWindows : i \notin 1..m =>
               scopes'[i].func = scopes[i].func /\ scopes'[i].seq = scopes[i].seq,
             OpenWindows' = OpenWindows, Unpublished' = Unpublished,
             windows' = windows, seqs' = seqs, winSeen' = winSeen,
             lost' = lost \/ lost' = lost + 1
      PROVE  LabelInv'
  <2>1. Settled' = Settled
    BY <1>2 DEF Settled
  <2>2. \A i : Place(i)' = Place(i)
    BY <1>2 DEF Place
  <2>3. \A i \in Settled' : /\ scopes'[i].func = scopes[i].func
                            /\ scopes'[i].seq = scopes[i].seq
    <3>1. \A i \in Settled' : i \in OpenWindows
      BY <2>1 DEF Settled
    <3> QED
      BY <1>2, <3>1
  <2>4. lost' \in Nat /\ (lost' = 0 => lost = 0)
    BY <1>1, <1>2
  <2> QED
    BY <1>1, <1>2, <2>1, <2>2, <2>3, <2>4, KeptLabels
<1>3. PICK n \in Nat : n = Len(scopes)
  BY ScopeFacts
<1>4. OpenWindows \in SUBSET (1..n)
  BY <1>3, ScopeFacts
<1>5. ASSUME n \in Nat \ {0}
      PROVE  \E m \in Nat : /\ m = n - 1 /\ m <= n
                            /\ \A i \in OpenWindows : i \notin 1..m => i = n
  <2>1. n - 1 \in Nat /\ n - 1 <= n
    BY <1>5
  <2>2. \A i \in OpenWindows : i \notin 1..(n - 1) => i = n
    BY <1>4, <1>5
  <2> QED
    BY <2>1, <2>2
<1>6. ASSUME NEW f \in Func, Call(f) PROVE LabelInv'
  <2>1. seqs' = seqs /\ winSeen' = winSeen /\ lost' = lost /\ windows' = windows
    BY <1>6 DEF Call
  <2>2. /\ Len(scopes') = n + 1
        /\ \A i \in 1..n : scopes'[i] = scopes[i]
        /\ OpenWindows' = OpenWindows /\ Unpublished' = Unpublished
    BY <1>3, <1>6, CallScopes
  <2>3. n <= Len(scopes) /\ n <= Len(scopes')
    BY <1>3, <2>2
  <2> QED
    BY <1>2, <1>4, <2>1, <2>2, <2>3
<1>7. CASE EnterWindow
  <2>1. /\ Len(scopes') = n /\ n \in Nat \ {0}
        /\ \A i \in 1..(n - 1) : scopes'[i] = scopes[i]
        /\ OpenWindows' = OpenWindows \cup {n}
        /\ Unpublished' = Unpublished \cup {n}
        /\ \A g \in Func : seqs[g] <= seqs'[g]
    BY <1>3, <1>7, EnterWindowScopes
  <2>2. winSeen' = winSeen /\ lost' = lost
    BY <1>7 DEF EnterWindow
  <2>3. PICK m \in Nat : /\ m = n - 1 /\ m <= n
                         /\ \A i \in OpenWindows : i \notin 1..m => i = n
    BY <1>5, <2>1
  <2>4. ASSUME NEW i \in Settled' PROVE i \in Settled /\ i \in 1..m
    <3>1. i \in OpenWindows \cup {n} /\ i < n /\ \A u \in Unpublished : i < u
      BY <2>1 DEF Settled
    <3>2. i # n /\ i \in OpenWindows
      BY <1>3, <3>1
    <3> QED
      BY <2>3, <3>1, <3>2 DEF Settled
  <2>5. \A i \in 1..m : Place(i)' = Place(i) /\ scopes'[i] = scopes[i]
    <3>1. /\ m <= Len(scopes) /\ m <= Len(scopes')
          /\ \A i \in 1..m : scopes'[i] = scopes[i]
      BY <1>3, <2>1, <2>3
    <3>2. scopes' \in Seq(Scope)
      BY <1>1 DEF ScopeInv
    <3> QED
      BY <3>1, <3>2, BelowSame
  <2>6. Unpublished' # {}
    BY <2>1
  <2> QED
    BY <1>1, <2>1, <2>2, <2>4, <2>5, <2>6, KeptLabels
<1>8. CASE PublishEnter
  <2>1. /\ seqs' = seqs /\ Last(scopes) = scopes[Len(scopes)]
        /\ PublishWindow(AfterWindowEnter(winSeen, scopes[Len(scopes)].depth,
                           [func |-> scopes[Len(scopes)].func,
                            seq |-> scopes[Len(scopes)].seq]))
    BY <1>8 DEF PublishEnter, Last
  <2>2. CASE lost' = lost + 1 /\ winSeen' = winSeen
    <3>1. lost' \in Nat /\ lost' # 0
      BY <1>1, <2>2
    <3> QED
      BY <1>1, <2>1, <2>2, <3>1, KeptLabels
  <2>3. CASE /\ lost' = lost
             /\ winSeen' = AfterWindowEnter(winSeen, scopes[Len(scopes)].depth,
                             [func |-> scopes[Len(scopes)].func,
                              seq |-> scopes[Len(scopes)].seq])
    BY <1>8, <2>3, EnterLabels
  <2> QED
    BY <2>1, <2>2, <2>3 DEF PublishWindow
<1>9. CASE TakeGuard
  <2>1. /\ Len(scopes') = n /\ n \in Nat \ {0}
        /\ \A i \in 1..(n - 1) : scopes'[i] = scopes[i]
        /\ scopes'[n].func = scopes[n].func /\ scopes'[n].seq = scopes[n].seq
        /\ OpenWindows' = OpenWindows /\ Unpublished' = Unpublished
    BY <1>3, <1>9, TakeGuardScopes
  <2>2. winSeen' = winSeen /\ lost' = lost /\ windows' = windows /\ seqs' = seqs
    BY <1>9 DEF TakeGuard
  <2>3. PICK m \in Nat : /\ m = n - 1 /\ m <= n
                         /\ \A i \in OpenWindows : i \notin 1..m => i = n
    BY <1>5, <2>1
  <2>4. /\ m <= Len(scopes) /\ m <= Len(scopes')
        /\ \A i \in 1..m : scopes'[i] = scopes[i]
    BY <1>3, <2>1, <2>3
  <2> QED
    BY <1>2, <2>1, <2>2, <2>3, <2>4
<1>10. CASE Enter
  <2>1. /\ Len(scopes') = n /\ n \in Nat \ {0}
        /\ \A i \in 1..(n - 1) : scopes'[i] = scopes[i]
        /\ scopes'[n].func = scopes[n].func /\ scopes'[n].seq = scopes[n].seq
        /\ OpenWindows' = OpenWindows /\ Unpublished' = Unpublished
    BY <1>3, <1>10, EnterScopes
  <2>2. winSeen' = winSeen /\ windows' = windows /\ seqs' = seqs
    BY <1>10 DEF Enter
  <2>3. lost' = lost \/ lost' = lost + 1
    BY <1>10 DEF Enter, PushSpan, PublishDepth
  <2>4. PICK m \in Nat : /\ m = n - 1 /\ m <= n
                         /\ \A i \in OpenWindows : i \notin 1..m => i = n
    BY <1>5, <2>1
  <2>5. /\ m <= Len(scopes) /\ m <= Len(scopes')
        /\ \A i \in 1..m : scopes'[i] = scopes[i]
    BY <1>3, <2>1, <2>4
  <2> QED
    BY <1>2, <2>1, <2>2, <2>3, <2>4, <2>5
<1>11. CASE Finish /\ scopes[n].fgraph_window_matched
  <2>1. /\ Len(scopes') = n /\ n \in Nat \ {0}
        /\ \A i \in 1..(n - 1) : scopes'[i] = scopes[i]
        /\ OpenWindows' = OpenWindows \ {n}
        /\ Unpublished' = Unpublished \cup {n}
    BY <1>3, <1>11, FinishMatched
  <2>2. winSeen' = winSeen /\ lost' = lost /\ seqs' = seqs
    BY <1>11 DEF Finish
  <2>3. PICK m \in Nat : /\ m = n - 1 /\ m <= n
                         /\ \A i \in OpenWindows : i \notin 1..m => i = n
    BY <1>5, <2>1
  <2>4. ASSUME NEW i \in Settled' PROVE i \in Settled /\ i \in 1..m
    <3>1. i \in OpenWindows /\ i # n /\ \A u \in Unpublished : i < u
      BY <2>1 DEF Settled
    <3> QED
      BY <2>3, <3>1 DEF Settled
  <2>5. \A i \in 1..m : Place(i)' = Place(i) /\ scopes'[i] = scopes[i]
    <3>1. /\ m <= Len(scopes) /\ m <= Len(scopes')
          /\ \A i \in 1..m : scopes'[i] = scopes[i]
      BY <1>3, <2>1, <2>3
    <3>2. scopes' \in Seq(Scope)
      BY <1>1 DEF ScopeInv
    <3> QED
      BY <3>1, <3>2, BelowSame
  <2>6. Unpublished' # {}
    BY <2>1
  <2> QED
    BY <1>1, <2>1, <2>2, <2>4, <2>5, <2>6, KeptLabels
<1>12. CASE Finish /\ ~scopes[n].fgraph_window_matched
  <2>1. /\ n - 1 <= Len(scopes') /\ n \in Nat \ {0}
        /\ \A i \in 1..(n - 1) : scopes'[i] = scopes[i]
        /\ OpenWindows' = OpenWindows /\ n \notin OpenWindows
        /\ Unpublished' = Unpublished
    BY <1>3, <1>12, FinishPlain
  <2>2. winSeen' = winSeen /\ lost' = lost /\ seqs' = seqs
    BY <1>12 DEF Finish
  <2>3. PICK m \in Nat : /\ m = n - 1 /\ m <= n
                         /\ \A i \in OpenWindows : i \notin 1..m => i = n
    BY <1>5, <2>1
  <2>4. /\ m <= Len(scopes) /\ m <= Len(scopes')
        /\ \A i \in 1..m : scopes'[i] = scopes[i]
    BY <1>3, <2>1, <2>3
  <2>5. windows' = windows
    BY <1>1, <2>1 DEF ScopeInv
  <2> QED
    BY <1>2, <2>1, <2>2, <2>3, <2>4, <2>5
<1>13. CASE PublishExit
  <2>1. /\ seqs' = seqs /\ Last(scopes) = scopes[Len(scopes)]
        /\ PublishWindow(AfterWindowExit(winSeen, scopes[Len(scopes)].depth))
    BY <1>13 DEF PublishExit, Last
  <2>2. CASE lost' = lost + 1 /\ winSeen' = winSeen
    <3>1. lost' \in Nat /\ lost' # 0
      BY <1>1, <2>2
    <3> QED
      BY <1>1, <2>1, <2>2, <3>1, KeptLabels
  <2>3. CASE lost' = lost /\ winSeen' = AfterWindowExit(winSeen, scopes[Len(scopes)].depth)
    BY <1>13, <2>3, ExitLabels
  <2> QED
    BY <2>1, <2>2, <2>3 DEF PublishWindow
<1>14. CASE Exit
  <2>1. /\ Len(scopes') = n - 1 /\ n \in Nat \ {0}
        /\ \A i \in 1..(n - 1) : scopes'[i] = scopes[i]
        /\ OpenWindows' = OpenWindows /\ n \notin OpenWindows
        /\ Unpublished' = Unpublished
    BY <1>3, <1>14, ExitScopes
  <2>2. winSeen' = winSeen /\ windows' = windows /\ seqs' = seqs
    BY <1>14 DEF Exit
  <2>3. lost' = lost \/ lost' = lost + 1
    BY <1>14 DEF Exit, PopSpan, PublishDepth
  <2>4. PICK m \in Nat : /\ m = n - 1 /\ m <= n
                         /\ \A i \in OpenWindows : i \notin 1..m => i = n
    BY <1>5, <2>1
  <2>5. /\ m <= Len(scopes) /\ m <= Len(scopes')
        /\ \A i \in 1..m : scopes'[i] = scopes[i]
    BY <1>3, <2>1, <2>4
  <2> QED
    BY <1>2, <2>1, <2>2, <2>3, <2>4, <2>5
<1>15. ASSUME UNCHANGED <<scopes, windows, seqs, winSeen, lost>> PROVE LabelInv'
  <2>1. OpenWindows' = OpenWindows /\ Unpublished' = Unpublished
    BY <1>15 DEF OpenWindows, Unpublished
  <2>2. n <= Len(scopes) /\ n <= Len(scopes') /\ \A i \in 1..n : scopes'[i] = scopes[i]
    BY <1>3, <1>15
  <2> QED
    BY <1>2, <1>4, <1>15, <2>1, <2>2
<1>16. CASE Syscall
  BY <1>15, <1>16 DEF Syscall
<1>17. CASE TearDown
  BY <1>15, <1>17 DEF TearDown
<1>18. CASE UNCHANGED vars
  BY <1>15, <1>18 DEF vars
<1> QED
  BY <1>6, <1>7, <1>8, <1>9, <1>10, <1>11, <1>12, <1>13, <1>14, <1>16, <1>17,
     <1>18 DEF Next, Idle

-----------------------------------------------------------------------------
(* Flattening.  The induction theorems of the library take an operator, so   *)
(* the induction is over a set of numbers.                                  *)

\* A nonempty set of natural numbers has a least element.
LEMMA LeastNumber ==
    ASSUME NEW T \in SUBSET Nat, T # {}
    PROVE  \E x \in T : \A y \in T : x <= y
<1> DEFINE R == {ss \in Nat \X Nat : ss[1] < ss[2]}
<1>1. OpToRel(<, Nat) = R
  BY DEF OpToRel
<1>2. IsWellFoundedOn(R, Nat)
  BY <1>1, NatLessThanWellFounded
<1>3. PICK x \in T : \A y \in T : ~(<<y, x>> \in R)
  <2> HIDE DEF R
  <2> QED
    BY <1>2, WFMin
<1>4. \A y \in T : x <= y
  <2> TAKE y \in T
  <2>1. x \in Nat /\ y \in Nat /\ ~(y < x)
    BY <1>3
  <2> QED
    BY <2>1
<1> QED
  BY <1>4

\* Induction over an initial segment of the natural numbers, for a set of
\* numbers: the theorems of the library take an operator.
LEMMA SetInduction ==
    ASSUME NEW n \in Nat, NEW P \in SUBSET Nat, 0 \in P,
           \A i \in 0..(n - 1) : i \in P => i + 1 \in P
    PROVE  0..n \subseteq P
<1> DEFINE T == (0..n) \ P
<1>1. SUFFICES ASSUME T # {} PROVE FALSE
  OBVIOUS
<1>2. PICK x \in T : \A y \in T : x <= y
  <2>1. T \in SUBSET Nat
    OBVIOUS
  <2> QED
    BY <1>1, <2>1, LeastNumber
<1>3. x \in Nat /\ x # 0 /\ x <= n /\ x \notin P
  BY <1>2
<1>4. x - 1 \in 0..(n - 1) /\ ~(x <= x - 1) /\ x - 1 + 1 = x
  BY <1>3
<1>5. x - 1 \in P
  BY <1>2, <1>3, <1>4
<1> QED
  BY <1>3, <1>4, <1>5

\* Up to n, g joins the elements of s, one more at each index.
Joins(g, s, n) ==
    \A i \in 1..n : g[i] = IF i = 1 THEN s[i] ELSE g[i - 1] \o s[i]

\* There is such a function for every sequence of sequences.
LEMMA JoinsExist ==
    ASSUME NEW S, NEW s \in Seq(Seq(S)), NEW n \in 0..Len(s)
    PROVE  \E g \in [1..n -> Seq(S)] : Joins(g, s, n)
<1> DEFINE P == {m \in 0..Len(s) : \E g \in [1..m -> Seq(S)] : Joins(g, s, m)}
<1>1. Len(s) \in Nat /\ \A i \in 1..Len(s) : s[i] \in Seq(S)
  BY LenProperties, ElementOfSeq
<1>2. 0 \in P
  <2>1. [i \in 1..0 |-> <<>>] \in [1..0 -> Seq(S)]
    OBVIOUS
  <2>2. Joins([i \in 1..0 |-> <<>>], s, 0)
    BY DEF Joins
  <2>3. \E g \in [1..0 -> Seq(S)] : Joins(g, s, 0)
    BY <2>1, <2>2
  <2>4. 0 \in 0..Len(s)
    BY <1>1
  <2> QED
    BY <2>3, <2>4
<1>3. ASSUME NEW m \in 0..(Len(s) - 1), m \in P PROVE m + 1 \in P
  <2>1. PICK g \in [1..m -> Seq(S)] : Joins(g, s, m)
    BY <1>3
  <2> DEFINE e == IF m = 0 THEN s[m + 1] ELSE g[m] \o s[m + 1]
             h == [i \in 1..(m + 1) |-> IF i = m + 1 THEN e ELSE g[i]]
  <2>2. m \in Nat /\ m + 1 \in 1..Len(s) /\ m + 1 \in 0..Len(s)
    BY <1>1, <1>3
  <2>3. s[m + 1] \in Seq(S)
    BY <1>1, <2>2
  <2>4. e \in Seq(S)
    BY <2>2, <2>3, ConcatProperties
  <2> HIDE DEF e
  <2>5. h \in [1..(m + 1) -> Seq(S)]
    BY <2>2, <2>4
  <2>6. ASSUME NEW i \in 1..(m + 1)
        PROVE  h[i] = IF i = 1 THEN s[i] ELSE h[i - 1] \o s[i]
    <3>1. CASE i = m + 1
      <4>1. h[i] = e
        BY <3>1
      <4>2. CASE m = 0
        BY <3>1, <4>1, <4>2 DEF e
      <4>3. CASE m # 0
        <5>1. i # 1 /\ i - 1 = m /\ i - 1 \in 1..(m + 1) /\ i - 1 # m + 1
          BY <2>2, <3>1, <4>3
        <5>2. h[i - 1] = g[m]
          BY <5>1
        <5> QED
          BY <3>1, <4>1, <4>3, <5>1, <5>2 DEF e
      <4> QED
        BY <4>2, <4>3
    <3>2. CASE i # m + 1
      <4>1. i \in 1..m /\ h[i] = g[i]
        BY <2>2, <3>2
      <4>2. CASE i = 1
        BY <2>1, <4>1, <4>2 DEF Joins
      <4>3. CASE i # 1
        <5>1. i - 1 \in 1..(m + 1) /\ i - 1 # m + 1
          BY <2>2, <4>1, <4>3
        <5>2. h[i - 1] = g[i - 1]
          BY <5>1
        <5> QED
          BY <2>1, <4>1, <4>3, <5>2 DEF Joins
      <4> QED
        BY <4>2, <4>3
    <3> QED
      BY <3>1, <3>2
  <2>7. Joins(h, s, m + 1)
    BY <2>6 DEF Joins
  <2> HIDE DEF h
  <2> QED
    BY <2>2, <2>5, <2>7
<1>4. 0..Len(s) \subseteq P
  <2>1. P \in SUBSET Nat
    OBVIOUS
  <2> HIDE DEF P
  <2> QED
    BY <1>1, <1>2, <1>3, <2>1, SetInduction
<1> QED
  BY <1>4

\* Up to n, s and t are the same.
SameUpTo(s, t, n) == \A i \in 1..n : s[i] = t[i]

\* Two such functions agree as long as the sequences do.
LEMMA JoinsAgree ==
    ASSUME NEW n \in Nat, NEW s, NEW t, NEW g, NEW h,
           \A i \in 1..n : s[i] = t[i], Joins(g, s, n), Joins(h, t, n)
    PROVE  \A i \in 1..n : g[i] = h[i]
<1> DEFINE P == {i \in 0..n : i = 0 \/ g[i] = h[i]}
<1>1. 0 \in P
  OBVIOUS
<1>2. ASSUME NEW i \in 0..(n - 1), i \in P PROVE i + 1 \in P
  <2>1. i + 1 \in 1..n /\ i + 1 - 1 = i /\ (i + 1 = 1 <=> i = 0)
    BY <1>2
  <2>2. g[i + 1] = h[i + 1]
    BY <1>2, <2>1 DEF Joins
  <2> QED
    BY <2>1, <2>2
<1>3. P \in SUBSET Nat
  OBVIOUS
<1>4. 0..n \subseteq P
  <2> HIDE DEF P
  <2> QED
    BY <1>1, <1>2, <1>3, SetInduction
<1> QED
  BY <1>4

\* Such functions for a sequence and for one with an element more.
LEMMA JoinsOneMore ==
    ASSUME NEW n \in Nat, NEW s, NEW t, NEW g, NEW h,
           n # 0, SameUpTo(s, t, n), Joins(g, s, n), Joins(h, t, n + 1)
    PROVE  h[n + 1] = g[n] \o t[n + 1]
<1>1. PICK m : m = n + 1
  OBVIOUS
<1>2. m \in 1..m /\ m - 1 = n /\ m # 1 /\ n \in 1..n
  BY <1>1
<1>3. \A i \in 1..n : i \in 1..m
  BY <1>1
<1>4. Joins(h, t, m)
  BY <1>1
<1>5. Joins(h, t, n)
  BY <1>3, <1>4 DEF Joins
<1>6. \A i \in 1..n : g[i] = h[i]
  BY <1>5, JoinsAgree DEF SameUpTo
<1>7. g[n] = h[n]
  BY <1>2, <1>6
<1>8. h[m] = IF m = 1 THEN t[m] ELSE h[m - 1] \o t[m]
  BY <1>2, <1>4 DEF Joins
<1>9. h[m] = g[n] \o t[m]
  BY <1>2, <1>7, <1>8
<1> QED
  BY <1>1, <1>9

\* What FlattenSeq returns is the last value of such a function.
LEMMA FlattenJoins ==
    ASSUME NEW S, NEW s \in Seq(Seq(S)), s # <<>>
    PROVE  \E g \in [1..Len(s) -> Seq(S)] :
             /\ FlattenSeq(s) = g[Len(s)]
             /\ Joins(g, s, Len(s))
<1> DEFINE n == Len(s)
           F(g) == [i \in 1..n |-> IF i = 1 THEN s[i] ELSE g[i - 1] \o s[i]]
           flat == CHOOSE g : g = F(g)
<1>1. n \in Nat \ {0}
  BY EmptySeq
<1>2. PICK g \in [1..n -> Seq(S)] : Joins(g, s, n)
  <2>1. n \in 0..Len(s)
    BY <1>1
  <2> QED
    BY <2>1, JoinsExist
<1>3. g = F(g)
  BY <1>2 DEF Joins
<1>4. flat = F(flat)
  BY <1>3
<1>5. FlattenSeq(s) = flat[n]
  BY <1>1 DEF FlattenSeq
<1>6. Joins(flat, s, n)
  <2> HIDE DEF flat
  <2> QED
    BY <1>4 DEF Joins
<1>7. flat[n] = g[n]
  <2> HIDE DEF flat
  <2>1. n \in Nat /\ \A i \in 1..n : s[i] = s[i]
    BY <1>1
  <2>2. \A i \in 1..n : flat[i] = g[i]
    <3> HIDE DEF n
    <3> QED
      BY <1>2, <1>6, <2>1, JoinsAgree
  <2> QED
    BY <1>1, <2>2
<1>8. FlattenSeq(s) = g[n]
  BY <1>5, <1>7
<1> QED
  BY <1>2, <1>8

\* Flattening one more sequence appends its elements.
LEMMA FlattenAppend ==
    ASSUME NEW S, NEW s \in Seq(Seq(S)), NEW x \in Seq(S)
    PROVE  /\ FlattenSeq(s) \in Seq(S)
           /\ FlattenSeq(Append(s, x)) = FlattenSeq(s) \o x
<1> DEFINE n == Len(s)
           t == Append(s, x)
<1>1. n \in Nat /\ n = Len(s)
  BY LenProperties
<1>2. /\ t \in Seq(Seq(S)) /\ t # <<>> /\ Len(t) = n + 1
      /\ \A i \in 1..n : t[i] = s[i]
      /\ t[n + 1] = x
  BY AppendProperties
<1> HIDE DEF t, n
<1>3. PICK h \in [1..(n + 1) -> Seq(S)] :
        FlattenSeq(t) = h[n + 1] /\ Joins(h, t, n + 1)
  BY <1>2, FlattenJoins
<1>4. CASE s = <<>>
  <2>1. n = 0 /\ FlattenSeq(s) = <<>>
    BY <1>1, <1>4 DEF FlattenSeq
  <2>2. FlattenSeq(t) = x
    BY <1>2, <1>3, <2>1 DEF Joins
  <2>3. <<>> \o x = x /\ <<>> \in Seq(S)
    BY ConcatEmptySeq, EmptySeq
  <2> QED
    BY <2>1, <2>2, <2>3 DEF t
<1>5. CASE s # <<>>
  <2>1. n \in Nat \ {0}
    BY <1>1, <1>5, EmptySeq
  <2>2. PICK g \in [1..n -> Seq(S)] :
          FlattenSeq(s) = g[n] /\ Joins(g, s, n)
    BY <1>1, <1>5, FlattenJoins
  <2>3. n \in Nat /\ n # 0 /\ SameUpTo(s, t, n)
    BY <1>2, <2>1 DEF SameUpTo
  <2>4. h[n + 1] = g[n] \o t[n + 1]
    BY <1>3, <2>2, <2>3, JoinsOneMore, Zenon
  <2>5. FlattenSeq(s) \in Seq(S)
    BY <2>1, <2>2
  <2> QED
    BY <1>2, <1>3, <2>2, <2>4, <2>5 DEF t
<1> QED
  BY <1>4, <1>5

-----------------------------------------------------------------------------
(* The lines.                                                               *)

\* A function on 1..n is a sequence.
LEMMA SeqOfFunction ==
    ASSUME NEW T, NEW n \in Nat, NEW f \in [1..n -> T]
    PROVE  f \in Seq(T) /\ Len(f) = n
  OBVIOUS

\* A sequence of one element.
LEMMA OneLine ==
    ASSUME NEW S, NEW x \in S
    PROVE  <<x>> \in Seq(S) /\ Len(<<x>>) = 1 /\ <<x>>[1] = x
  OBVIOUS

\* o is l, but for the depth of system calls if an update was lost.
Follows(o, l, spoiled) ==
    /\ Len(o) = Len(l)
    /\ \A i \in 1..Len(o) : \/ o[i] = l[i]
                            \/ spoiled /\ {o[i].kind, l[i].kind} = {"syscall"}

\* Sequences that follow each other do so when such sequences are added.
LEMMA FollowsMore ==
    ASSUME NEW S, NEW o \in Seq(S), NEW l \in Seq(S), NEW p \in Seq(S),
           NEW q \in Seq(S), NEW b \in BOOLEAN, NEW c \in BOOLEAN, b => c,
           Follows(o, l, b), Follows(p, q, c)
    PROVE  Follows(o \o p, l \o q, c)
<1>1. /\ Len(o) \in Nat /\ Len(p) \in Nat
      /\ Len(l) = Len(o) /\ Len(q) = Len(p)
  BY LenProperties DEF Follows
<1>2. /\ Len(o \o p) = Len(o) + Len(p)
      /\ \A i \in 1..(Len(o) + Len(p)) :
           (o \o p)[i] = IF i <= Len(o) THEN o[i] ELSE p[i - Len(o)]
  BY ConcatProperties
<1>3. /\ Len(l \o q) = Len(o) + Len(p)
      /\ \A i \in 1..(Len(o) + Len(p)) :
           (l \o q)[i] = IF i <= Len(o) THEN l[i] ELSE q[i - Len(o)]
  <2>1. /\ Len(l \o q) = Len(l) + Len(q)
        /\ \A i \in 1..(Len(l) + Len(q)) :
             (l \o q)[i] = IF i <= Len(l) THEN l[i] ELSE q[i - Len(l)]
    BY ConcatProperties
  <2> QED
    BY <1>1, <2>1, Zenon
<1>4. ASSUME NEW i \in 1..(Len(o) + Len(p))
      PROVE  \/ (o \o p)[i] = (l \o q)[i]
             \/ c /\ {(o \o p)[i].kind, (l \o q)[i].kind} = {"syscall"}
  <2>1. CASE i <= Len(o)
    <3>1. i \in 1..Len(o)
      BY <1>1, <2>1
    <3>2. (o \o p)[i] = o[i] /\ (l \o q)[i] = l[i]
      BY <1>2, <1>3, <2>1
    <3>3. \/ o[i] = l[i]
          \/ b /\ {o[i].kind, l[i].kind} = {"syscall"}
      BY <3>1 DEF Follows
    <3> QED
      BY <3>2, <3>3, Zenon
  <2>2. CASE ~(i <= Len(o))
    <3>1. PICK k : k = i - Len(o)
      OBVIOUS
    <3>2. k \in 1..Len(p)
      BY <1>1, <2>2, <3>1
    <3>3. (o \o p)[i] = p[k] /\ (l \o q)[i] = q[k]
      BY <1>2, <1>3, <2>2, <3>1
    <3>4. \/ p[k] = q[k]
          \/ c /\ {p[k].kind, q[k].kind} = {"syscall"}
      BY <3>2 DEF Follows
    <3> QED
      BY <3>3, <3>4, Zenon
  <2> QED
    BY <2>1, <2>2
<1> QED
  BY <1>2, <1>3, <1>4, Zenon DEF Follows

\* What the type of the history says of its events and depths.
LEMMA HistoryFacts ==
    ASSUME history \in Seq(Event)
    PROVE  /\ Len(history) \in Nat
           /\ DOMAIN history = 1..Len(history)
           /\ \A i \in 1..Len(history) : /\ history[i].event \in
                                              {"call", "return", "syscall"}
                                         /\ history[i].func \in Func \cup {"-"}
           /\ \A i \in Int : DepthBefore(i) \in Int
<1>1. Len(history) \in Nat /\ DOMAIN history = 1..Len(history)
  BY LenProperties
<1>2. ASSUME NEW i \in 1..Len(history)
      PROVE  /\ history[i].event \in {"call", "return", "syscall"}
             /\ history[i].func \in Func \cup {"-"}
  <2>1. history[i] \in Event
    BY ElementOfSeq
  <2> QED
    BY <2>1 DEF Event
<1>3. ASSUME NEW i \in Int, NEW S \in SUBSET (1..i - 1)
      PROVE  Cardinality(S) \in Nat
  <2>1. IsFiniteSet(1..i - 1)
    BY FS_Interval
  <2> QED
    BY <2>1, FS_Subset, FS_CardinalityType
<1>4. ASSUME NEW i \in Int PROVE DepthBefore(i) \in Int
  <2> DEFINE C == {j \in 1..i - 1 : history[j].event = "call"}
             R == {j \in 1..i - 1 : history[j].event = "return"}
  <2>1. Cardinality(C) \in Nat
    BY <1>3
  <2>2. Cardinality(R) \in Nat
    BY <1>3
  <2>3. DepthBefore(i) = Cardinality(C) - Cardinality(R)
    BY DEF DepthBefore
  <2> QED
    BY <2>1, <2>2, <2>3
<1> QED
  BY <1>1, <1>2, <1>4

\* What is rendered is a sequence of lines.
LEMMA RenderedLines ==
    ASSUME history \in Seq(Event), NEW i \in 1..Len(history)
    PROVE  Rendered(i) \in Seq(AnyLine)
<1> DEFINE d == DepthBefore(i)
           f == history[i].func
           g == history[i - 1].func
<1>1. i \in Int /\ d \in Int /\ d - 1 \in Int /\ f \in Func \cup {"-"}
  BY HistoryFacts
<1>2. i > 1 => g \in Func \cup {"-"}
  <2>1. Len(history) \in Nat
    BY HistoryFacts
  <2>2. i > 1 => i - 1 \in 1..Len(history)
    BY <2>1
  <2> QED
    BY <2>2, HistoryFacts
<1> HIDE DEF d, f, g
<1>3. /\ SyscallLine(d) \in AnyLine /\ OpenLine(d, f) \in AnyLine
      /\ CloseLine(d - 1) \in AnyLine
      /\ i > 1 => OpenLine(d - 1, g) \in AnyLine /\ LeafLine(d - 1, g) \in AnyLine
  BY <1>1, <1>2 DEF SyscallLine, OpenLine, CloseLine, LeafLine, AnyLine
<1> DEFINE afterCall == i > 1 /\ history[i - 1].event = "call"
<1>4. \/ Rendered(i) = <<SyscallLine(d)>>
      \/ Rendered(i) = <<OpenLine(d, f)>>
      \/ afterCall /\ Rendered(i) = <<OpenLine(d - 1, g)>>
      \/ Rendered(i) = <<>>
      \/ afterCall /\ Rendered(i) = <<LeafLine(d - 1, g)>>
      \/ Rendered(i) = <<CloseLine(d - 1)>>
  BY DEF Rendered, d, f, g
<1> QED
  BY <1>3, <1>4, OneLine, EmptySeq

\* An event more changes nothing of what is rendered before it.
LEMMA RenderedKept ==
    ASSUME history \in Seq(Event), NEW e \in Event,
           history' = Append(history, e), syscall' = syscall,
           NEW i \in 1..Len(history)
    PROVE  Rendered(i)' = Rendered(i)
<1>1. Len(history) \in Nat /\ i \in Int
  BY HistoryFacts
<1>2. \A j \in 1..Len(history) : history'[j] = history[j]
  BY AppendProperties
<1>3. \A j \in 1..i - 1 : history'[j] = history[j]
  BY <1>1, <1>2
<1>4. /\ {j \in 1..i - 1 : history'[j].event = "call"}
           = {j \in 1..i - 1 : history[j].event = "call"}
      /\ {j \in 1..i - 1 : history'[j].event = "return"}
           = {j \in 1..i - 1 : history[j].event = "return"}
  BY <1>3
<1>5. DepthBefore(i)' = DepthBefore(i)
  BY <1>4 DEF DepthBefore
<1>6. history'[i] = history[i]
  BY <1>2
<1>7. (i > 1 /\ history'[i - 1].event = "call")
        <=> (i > 1 /\ history[i - 1].event = "call")
  BY <1>1, <1>3
<1>8. CASE i > 1
  <2>1. history'[i - 1] = history[i - 1]
    BY <1>1, <1>3, <1>8
  <2> QED
    BY <1>5, <1>6, <2>1 DEF Rendered
<1>9. CASE ~(i > 1)
  BY <1>5, <1>6, <1>9 DEF Rendered
<1> QED
  BY <1>8, <1>9

\* How an event is rendered at the end of the history.
RenderNext(e) ==
    IF e.event = "syscall" THEN <<SyscallLine(Len(stack))>>
    ELSE IF e.event = "call"
      THEN IF syscall THEN <<OpenLine(Len(stack), e.func)>>
           ELSE IF AfterCall
                  THEN <<OpenLine(Len(stack) - 1, history[Len(history)].func)>>
                  ELSE <<>>
    ELSE IF ~syscall /\ AfterCall
           THEN <<LeafLine(Len(stack) - 1, history[Len(history)].func)>>
           ELSE <<CloseLine(Len(stack) - 1)>>

\* That is what Rendered gives for the last event.
LEMMA RenderedLast ==
    ASSUME SpanInv, syscall \in BOOLEAN, NEW e \in Event,
           history' = Append(history, e), syscall' = syscall,
           NEW i, i = Len(history) + 1
    PROVE  Rendered(i)' = RenderNext(e)
<1> DEFINE n == Len(history)
           d == Len(stack)
<1>1. n \in Nat /\ i - 1 = n /\ i \in Int /\ DOMAIN history = 1..n
  BY HistoryFacts DEF SpanInv
<1>2. \A j \in 1..n : history'[j] = history[j]
  BY AppendProperties DEF SpanInv
<1>3. history'[i] = e
  BY AppendProperties DEF SpanInv
<1>4. /\ {j \in 1..i - 1 : history'[j].event = "call"} = Events("call")
      /\ {j \in 1..i - 1 : history'[j].event = "return"} = Events("return")
  BY <1>1, <1>2 DEF Events
<1>5. DepthBefore(i)' = d
  BY <1>4 DEF DepthBefore, SpanInv
<1>6. (i > 1 /\ history'[i - 1].event = "call") <=> AfterCall
  <2>1. CASE n = 0
    BY <1>1, <2>1, LenProperties DEF AfterCall, SpanInv
  <2>2. CASE n # 0
    <3>1. i > 1 /\ history'[i - 1] = history[n]
      <4>1. n \in 1..n /\ i > 1
        BY <1>1, <2>2
      <4>2. history'[n] = history[n]
        BY <1>2, <4>1
      <4> QED
        BY <1>1, <4>1, <4>2
    <3>2. history # <<>>
      BY <2>2
    <3> QED
      BY <3>1, <3>2 DEF AfterCall
  <2> QED
    BY <2>1, <2>2
<1>7. AfterCall => history'[i - 1] = history[n]
  <2>1. AfterCall => n \in 1..n
    BY <1>1, EmptySeq DEF AfterCall, SpanInv
  <2> QED
    BY <1>1, <1>2, <2>1
<1>8. e.event \in {"call", "return", "syscall"}
  BY DEF Event
<1> HIDE DEF d, n
<1>9. CASE e.event = "syscall"
  BY <1>3, <1>5, <1>9 DEF Rendered, RenderNext, d
<1>10. CASE e.event = "call"
  <2>1. CASE syscall
    BY <1>3, <1>5, <1>10, <2>1 DEF Rendered, RenderNext, d
  <2>2. CASE ~syscall /\ AfterCall
    BY <1>3, <1>5, <1>6, <1>7, <1>10, <2>2 DEF Rendered, RenderNext, d, n
  <2>3. CASE ~syscall /\ ~AfterCall
    BY <1>3, <1>5, <1>6, <1>10, <2>3 DEF Rendered, RenderNext
  <2> QED
    BY <2>1, <2>2, <2>3
<1>11. CASE e.event = "return"
  <2>1. CASE ~syscall /\ AfterCall
    BY <1>3, <1>5, <1>6, <1>7, <1>11, <2>1 DEF Rendered, RenderNext, d, n
  <2>2. CASE ~(~syscall /\ AfterCall)
    BY <1>3, <1>5, <1>6, <1>11, <2>2 DEF Rendered, RenderNext, d
  <2> QED
    BY <2>1, <2>2
<1> QED
  BY <1>8, <1>9, <1>10, <1>11

\* The reference output.
Lines == FlattenSeq([i \in DOMAIN history |-> Rendered(i)])

\* An event adds its own lines.
LEMMA LinesMore ==
    ASSUME SpanInv, syscall \in BOOLEAN, NEW e \in Event,
           history' = Append(history, e), syscall' = syscall
    PROVE  /\ Lines \in Seq(AnyLine)
           /\ RenderNext(e) \in Seq(AnyLine)
           /\ Lines' = Lines \o RenderNext(e)
<1> DEFINE n == Len(history)
           s == [i \in DOMAIN history |-> Rendered(i)]
           t == [i \in DOMAIN history' |-> Rendered(i)']
<1>1. n \in Nat /\ DOMAIN history = 1..n
  BY HistoryFacts DEF SpanInv
<1>2. history' \in Seq(Event) /\ Len(history') = n + 1 /\ DOMAIN history' = 1..(n + 1)
  BY AppendProperties, LenProperties DEF SpanInv
<1>3. \A i \in 1..n : Rendered(i) \in Seq(AnyLine)
  BY RenderedLines DEF SpanInv
<1>4. \A i \in 1..n : Rendered(i)' = Rendered(i)
  BY RenderedKept DEF SpanInv
<1>5. \A i : i = n + 1 => Rendered(i)' = RenderNext(e)
  BY RenderedLast
<1>6. RenderNext(e) \in Seq(AnyLine)
  <2> DEFINE d == Len(stack)
             f == e.func
             g == history[n].func
  <2>1. d \in Int /\ d - 1 \in Int /\ f \in Func \cup {"-"}
    BY LenProperties DEF SpanInv, Event
  <2>2. AfterCall => g \in Func \cup {"-"}
    <3>1. AfterCall => n \in 1..n
      BY EmptySeq, <1>1 DEF AfterCall, SpanInv
    <3> QED
      BY <3>1, HistoryFacts DEF SpanInv
  <2> HIDE DEF d, f, g
  <2>3. /\ SyscallLine(d) \in AnyLine /\ OpenLine(d, f) \in AnyLine
        /\ CloseLine(d - 1) \in AnyLine
        /\ AfterCall => OpenLine(d - 1, g) \in AnyLine /\ LeafLine(d - 1, g) \in AnyLine
    BY <2>1, <2>2 DEF SyscallLine, OpenLine, CloseLine, LeafLine, AnyLine
  <2>4. \/ RenderNext(e) = <<SyscallLine(d)>>
        \/ RenderNext(e) = <<OpenLine(d, f)>>
        \/ AfterCall /\ RenderNext(e) = <<OpenLine(d - 1, g)>>
        \/ RenderNext(e) = <<>>
        \/ AfterCall /\ RenderNext(e) = <<LeafLine(d - 1, g)>>
        \/ RenderNext(e) = <<CloseLine(d - 1)>>
    BY DEF RenderNext, d, f, g
  <2> QED
    BY <2>3, <2>4, OneLine, EmptySeq
<1>7. s \in Seq(Seq(AnyLine)) /\ Len(s) = n
  <2>1. s \in [1..n -> Seq(AnyLine)]
    BY <1>1, <1>3
  <2> QED
    BY <1>1, <2>1, SeqOfFunction
<1>8. t \in Seq(Seq(AnyLine)) /\ Len(t) = n + 1
  <2>1. \A i \in 1..(n + 1) : Rendered(i)' \in Seq(AnyLine)
    BY <1>1, <1>3, <1>4, <1>5, <1>6
  <2>2. t \in [1..(n + 1) -> Seq(AnyLine)]
    BY <1>2, <2>1
  <2>3. n + 1 \in Nat
    BY <1>1
  <2> QED
    BY <2>2, <2>3, SeqOfFunction
<1>9. t = Append(s, RenderNext(e))
  <2> DEFINE u == Append(s, RenderNext(e))
  <2>1. /\ u \in Seq(Seq(AnyLine)) /\ Len(u) = n + 1
        /\ \A i \in 1..n : u[i] = s[i]
        /\ u[n + 1] = RenderNext(e)
    BY <1>6, <1>7, AppendProperties
  <2> HIDE DEF u
  <2>2. ASSUME NEW i \in 1..(n + 1) PROVE t[i] = u[i]
    <3>1. t[i] = Rendered(i)'
      BY <1>2
    <3>2. CASE i \in 1..n
      <4>1. s[i] = Rendered(i)
        BY <1>1, <3>2
      <4> QED
        BY <1>4, <2>1, <3>1, <3>2, <4>1
    <3>3. CASE i = n + 1
      BY <1>5, <2>1, <3>1, <3>3
    <3> QED
      BY <1>1, <3>2, <3>3
  <2> HIDE DEF s, t
  <2>3. t = u
    BY <1>8, <2>1, <2>2, SeqEqual
  <2> QED
    BY <2>3 DEF u
<1>10. Lines = FlattenSeq(s) /\ Lines' = FlattenSeq(t)
  BY DEF Lines
<1> HIDE DEF s, t
<1> QED
  BY <1>6, <1>7, <1>9, <1>10, FlattenAppend

\* The counts of events after one more.
LEMMA EventsMore ==
    ASSUME history \in Seq(Event), NEW e \in Event, history' = Append(history, e),
           NEW k \in {"call", "return", "syscall"}
    PROVE  /\ history' \in Seq(Event) /\ Len(history') = Len(history) + 1
           /\ history' # <<>> /\ history'[Len(history')] = e
           /\ Cardinality(Events(k)) \in Nat
           /\ Cardinality(Events(k)') =
                Cardinality(Events(k)) + (IF e.event = k THEN 1 ELSE 0)
<1> DEFINE n == Len(history)
<1>1. n \in Nat /\ DOMAIN history = 1..n
  BY HistoryFacts
<1>2. /\ history' \in Seq(Event) /\ Len(history') = n + 1 /\ history' # <<>>
      /\ \A i \in 1..n : history'[i] = history[i]
      /\ history'[n + 1] = e
  BY AppendProperties
<1>3. DOMAIN history' = 1..(n + 1)
  BY <1>2, LenProperties
<1>4. Events(k) \in SUBSET (1..n)
  BY <1>1 DEF Events
<1>5. Events(k)' = IF e.event = k THEN Events(k) \cup {n + 1} ELSE Events(k)
  BY <1>1, <1>2, <1>3 DEF Events
<1>6. /\ Cardinality(Events(k)) \in Nat
      /\ Cardinality(Events(k) \cup {n + 1}) = Cardinality(Events(k)) + 1
  BY <1>1, <1>4, CountFacts
<1> QED
  BY <1>2, <1>5, <1>6

\* A write to the depth pipe arrives or is counted.
LEMMA PublishFacts ==
    ASSUME lost \in Nat, depthSeen \in Nat, NEW d \in Nat, PublishDepth(d)
    PROVE  /\ lost' \in Nat /\ depthSeen' \in Nat
           /\ lost > 0 => lost' > 0
           /\ syscall /\ lost' = 0 => depthSeen' = d
  BY DEF PublishDepth

\* The output goes on with the lines of an event.
LEMMA OutMore ==
    ASSUME SpanInv, OutInv, syscall \in BOOLEAN, NEW e \in Event,
           history' = Append(history, e), syscall' = syscall,
           lost \in Nat, lost' \in Nat, lost > 0 => lost' > 0,
           NEW p \in Seq(AnyLine), out' = out \o p,
           Follows(p, RenderNext(e), lost' > 0)
    PROVE  OutInv'
<1>1. /\ Lines \in Seq(AnyLine) /\ RenderNext(e) \in Seq(AnyLine)
      /\ Lines' = Lines \o RenderNext(e)
  BY LinesMore
<1>2. out \in Seq(AnyLine) /\ DOMAIN out = 1..Len(out)
  BY LenProperties DEF OutInv
<1>3. Follows(out, Lines, lost > 0)
  BY <1>2 DEF OutInv, OutputRendersHistory, Lines, Follows
<1>4. Follows(out \o p, Lines \o RenderNext(e), lost' > 0)
  <2>1. (lost > 0) \in BOOLEAN /\ (lost' > 0) \in BOOLEAN
    OBVIOUS
  <2> QED
    BY <1>1, <1>2, <1>3, <2>1, FollowsMore, Zenon
<1>5. out' \in Seq(AnyLine) /\ DOMAIN out' = 1..Len(out')
  BY <1>2, ConcatProperties, LenProperties
<1>6. Follows(out', Lines', lost' > 0)
  BY <1>1, <1>4
<1>7. OutputRendersHistory'
  BY <1>5, <1>6 DEF OutputRendersHistory, Lines, Follows
<1> QED
  BY <1>5, <1>7 DEF OutInv

\* Every sequence follows itself.
LEMMA FollowsItself ==
    ASSUME NEW s, NEW b
    PROVE  Follows(s, s, b)
  BY DEF Follows

\* Everything about spans and lines.
PrintInv == SpanInv /\ FrameInv /\ FreshInv /\ DepthInv /\ OutInv

\* The frames, and the frames after the parent has been told of a child.
LEMMA FrameFacts ==
    ASSUME SpanInv
    PROVE  /\ Len(stack) \in Nat /\ DOMAIN stack = 1..Len(stack)
           /\ stack = <<>> <=> Len(stack) = 0
           /\ \A i \in 1..Len(stack) : stack[i] \in Frame
           /\ WithChild(stack) \in Seq(Frame)
           /\ Len(WithChild(stack)) = Len(stack)
           /\ \A i \in 1..Len(stack) :
                IF i = Len(stack)
                THEN WithChild(stack)[i].has_child /\ WithChild(stack)[i].enter_printed
                ELSE WithChild(stack)[i] = stack[i]
<1> DEFINE n == Len(stack)
           e == [stack[n] EXCEPT !.has_child = TRUE, !.enter_printed = TRUE]
<1>1. n \in Nat /\ DOMAIN stack = 1..n /\ (stack = <<>> <=> n = 0)
  BY LenProperties, EmptySeq DEF SpanInv
<1>2. \A i \in 1..n : stack[i] \in Frame
  BY ElementOfSeq DEF SpanInv
<1>3. CASE stack = <<>>
  BY <1>1, <1>2, <1>3 DEF WithChild, SpanInv
<1>4. CASE stack # <<>>
  <2>1. n \in 1..n
    BY <1>1, <1>4
  <2>2. stack[n] \in Frame
    BY <1>2, <2>1
  <2>3. e \in Frame /\ e.has_child = TRUE /\ e.enter_printed = TRUE
    BY <2>2 DEF Frame
  <2>4. WithChild(stack) = [stack EXCEPT ![n] = e]
    BY <1>1, <1>4, <2>1, <2>2 DEF WithChild
  <2> HIDE DEF e
  <2>5. /\ WithChild(stack) \in Seq(Frame)
        /\ Len(WithChild(stack)) = n
        /\ \A i \in 1..n : WithChild(stack)[i] = IF i = n THEN e ELSE stack[i]
    BY <2>1, <2>3, <2>4, ExceptSeq DEF SpanInv
  <2> QED
    BY <1>1, <1>2, <2>3, <2>5
<1> QED
  BY <1>3, <1>4

\* graph::enter.
LEMMA PushStep ==
    ASSUME PrintInv, syscall' = syscall, NEW f \in Func, tls, PushSpan(f)
    PROVE  PrintInv'
<1> DEFINE n == Len(stack)
           e == [event |-> "call", func |-> f]
           new == [func |-> f, has_child |-> FALSE, enter_printed |-> syscall]
           w == WithChild(stack)
<1>1. /\ history' = Append(history, e) /\ stack' = Append(w, new)
      /\ PublishDepth(n + 1) /\ out' = out \o EnterLines(f)
  BY DEF PushSpan
<1>2. e \in Event /\ e.event = "call" /\ e.func = f
  BY DEF Event
<1>3. /\ n \in Nat /\ DOMAIN stack = 1..n /\ (stack = <<>> <=> n = 0)
      /\ \A i \in 1..n : stack[i] \in Frame
      /\ w \in Seq(Frame) /\ Len(w) = n
  BY FrameFacts DEF PrintInv
<1>4. n \in Nat
  BY <1>3
<1>5. \A i \in 1..n : IF i = n THEN w[i].has_child /\ w[i].enter_printed
                       ELSE w[i] = stack[i]
  BY FrameFacts DEF PrintInv
<1>6. syscall \in BOOLEAN
  BY DEF PrintInv, FrameInv
<1>7. new \in Frame
  BY <1>6 DEF Frame
<1> HIDE DEF w, new
<1>8. /\ stack' \in Seq(Frame) /\ Len(stack') = n + 1 /\ stack' # <<>>
      /\ \A i \in 1..n : stack'[i] = w[i]
      /\ stack'[n + 1] = new
  BY <1>1, <1>3, <1>7, AppendProperties
<1>9. DOMAIN stack' = 1..(n + 1)
  BY <1>8, LenProperties
<1>10. /\ history' \in Seq(Event) /\ history' # <<>> /\ history'[Len(history')] = e
      /\ Cardinality(Events("call")) \in Nat
      /\ Cardinality(Events("return")) \in Nat
      /\ Cardinality(Events("call")') = Cardinality(Events("call")) + 1
      /\ Cardinality(Events("return")') = Cardinality(Events("return"))
  <2> HIDE DEF e
  <2>1. history \in Seq(Event)
    BY DEF PrintInv, SpanInv
  <2>2. "call" \in {"call", "return", "syscall"} /\ "return" \in {"call", "return", "syscall"}
    OBVIOUS
  <2>3. /\ Cardinality(Events("call")) \in Nat
        /\ Cardinality(Events("call")') = Cardinality(Events("call")) + 1
    BY <1>1, <1>2, <2>1, <2>2, EventsMore
  <2>4. /\ Cardinality(Events("return")) \in Nat
        /\ Cardinality(Events("return")') = Cardinality(Events("return"))
    BY <1>1, <1>2, <2>1, <2>2, EventsMore
  <2> QED
    BY <1>1, <1>2, <2>1, <2>2, <2>3, <2>4, EventsMore
<1>11. SpanInv'
  <2>1. n = Cardinality(Events("call")) - Cardinality(Events("return"))
    BY DEF PrintInv, SpanInv
  <2> QED
    BY <1>8, <1>10, <2>1 DEF SpanInv
<1>12. new.func = f /\ new.has_child = FALSE /\ new.enter_printed = syscall
  BY DEF new
<1>13. ASSUME NEW i \in 1..(n + 1)
       PROVE  /\ syscall => stack'[i].enter_printed
              /\ ~syscall => (stack'[i].enter_printed <=> stack'[i].has_child)
              /\ i < n + 1 => stack'[i].has_child
  <2>1. CASE i = n + 1
    <3>1. stack'[i] = new /\ ~(i < n + 1)
      BY <1>3, <1>8, <2>1
    <3> QED
      BY <1>6, <1>12, <3>1
  <2>2. CASE i \in 1..n /\ i = n
    <3>1. stack'[i].has_child /\ stack'[i].enter_printed
      BY <1>5, <1>8, <2>2
    <3> QED
      BY <3>1
  <2>3. CASE i \in 1..n /\ i # n
    <3>1. stack'[i] = stack[i]
      BY <1>5, <1>8, <2>3
    <3>2. i < n
      BY <1>4, <2>3
    <3>3. /\ syscall => stack[i].enter_printed
          /\ ~syscall => (stack[i].enter_printed <=> stack[i].has_child)
          /\ stack[i].has_child
      BY <1>3, <2>3, <3>2 DEF PrintInv, FrameInv
    <3> QED
      BY <3>1, <3>3
  <2> QED
    <3>1. i = n + 1 \/ (i \in 1..n /\ i = n) \/ (i \in 1..n /\ i # n)
      BY <1>4
    <3> QED
      BY <2>1, <2>2, <2>3, <3>1
<1>14. FrameInv'
  BY <1>6, <1>8, <1>9, <1>13 DEF FrameInv
<1>15. AfterCall'
  BY <1>2, <1>10 DEF AfterCall
<1>16. FreshInv'
  <2>1. stack'[Len(stack')] = new
    BY <1>8
  <2>2. history'[Len(history')].func = f
    BY <1>2, <1>10
  <2> QED
    BY <1>8, <1>12, <1>15, <2>1, <2>2 DEF FreshInv
<1>17. /\ lost \in Nat /\ lost' \in Nat /\ depthSeen' \in Nat
       /\ lost > 0 => lost' > 0
       /\ syscall /\ lost' = 0 => depthSeen' = n + 1
  <2>1. lost \in Nat /\ depthSeen \in Nat /\ n + 1 \in Nat
    BY <1>4 DEF PrintInv, DepthInv
  <2> QED
    BY <1>1, <2>1, PublishFacts
<1>18. DepthInv'
  BY <1>8, <1>17 DEF DepthInv
<1>19. EnterLines(f) = RenderNext(e)
  <2>1. CASE syscall
    <3>1. stack # <<>> => Last(stack).enter_printed
      <4>1. stack # <<>> => n \in DOMAIN stack
        BY <1>3
      <4> QED
        BY <2>1, <4>1 DEF PrintInv, FrameInv, Last
    <3>2. EnterLines(f) = <<>> \o <<OpenLine(n, f)>>
      BY <2>1, <3>1 DEF EnterLines
    <3>3. <<>> \o <<OpenLine(n, f)>> = <<OpenLine(n, f)>>
      BY OneLine, ConcatEmptySeq
    <3>4. RenderNext(e) = <<OpenLine(n, f)>>
      BY <2>1 DEF RenderNext
    <3> QED
      BY <3>2, <3>3, <3>4
  <2>2. CASE ~syscall /\ AfterCall
    <3> DEFINE x == OpenLine(n - 1, Last(stack).func)
    <3>1. /\ stack # <<>> /\ ~stack[n].has_child
          /\ history[Len(history)].func = stack[n].func
      BY <2>2 DEF PrintInv, FreshInv
    <3>2. n \in DOMAIN stack
      BY <1>3, <3>1
    <3>3. Last(stack) = stack[n] /\ ~stack[n].enter_printed
      BY <2>2, <3>1, <3>2 DEF PrintInv, FrameInv, Last
    <3>4. EnterLines(f) = <<x>> \o <<>>
      BY <2>2, <3>1, <3>3 DEF EnterLines
    <3>5. <<x>> \o <<>> = <<x>>
      BY OneLine, ConcatEmptySeq
    <3>6. RenderNext(e) = <<x>>
      BY <2>2, <3>1, <3>3 DEF RenderNext
    <3> QED
      BY <3>4, <3>5, <3>6
  <2>3. CASE ~syscall /\ ~AfterCall
    <3>1. stack = <<>> \/ stack[n].has_child
      BY <2>3 DEF PrintInv, FreshInv
    <3>2. EnterLines(f) = <<>> \o <<>>
      BY <2>3, <3>1 DEF EnterLines, Last
    <3>3. <<>> \o <<>> = <<>>
      BY EmptySeq, ConcatEmptySeq
    <3>4. RenderNext(e) = <<>>
      BY <2>3 DEF RenderNext
    <3> QED
      BY <3>2, <3>3, <3>4
  <2> QED
    BY <2>1, <2>2, <2>3
<1>20. OutInv'
  <2> HIDE DEF e
  <2>1. RenderNext(e) \in Seq(AnyLine)
    BY <1>1, <1>2, <1>6, LinesMore DEF PrintInv
  <2>2. Follows(EnterLines(f), RenderNext(e), lost' > 0)
    BY <1>19, FollowsItself
  <2> QED
    BY <1>1, <1>2, <1>6, <1>17, <1>19, <2>1, <2>2, OutMore DEF PrintInv
<1> QED
  BY <1>11, <1>14, <1>16, <1>18, <1>20 DEF PrintInv

\* graph::exit.
LEMMA PopStep ==
    ASSUME PrintInv, syscall' = syscall, stack # <<>>, PopSpan
    PROVE  PrintInv'
<1> DEFINE n == Len(stack)
           e == [event |-> "return", func |-> "-"]
<1>1. /\ history' = Append(history, e) /\ stack' = Front(stack)
      /\ PublishDepth(n - 1) /\ out' = out \o ExitLines
  BY DEF PopSpan
<1>2. e \in Event /\ e.event = "return"
  BY DEF Event
<1>3. /\ n \in Nat \ {0} /\ DOMAIN stack = 1..n
      /\ Last(stack) = stack[n]
      /\ stack' \in Seq(Frame) /\ Len(stack') = n - 1
      /\ DOMAIN stack' = 1..(n - 1)
      /\ \A i \in 1..(n - 1) : stack'[i] = stack[i]
  BY <1>1, FrontFacts DEF PrintInv, SpanInv
<1>4. n \in Nat /\ n # 0 /\ n - 1 \in Nat /\ n \in 1..n
  BY <1>3
<1>5. syscall \in BOOLEAN
  BY DEF PrintInv, FrameInv
<1>6. /\ history' \in Seq(Event) /\ history' # <<>> /\ history'[Len(history')] = e
      /\ Cardinality(Events("call")) \in Nat
      /\ Cardinality(Events("return")) \in Nat
      /\ Cardinality(Events("call")') = Cardinality(Events("call"))
      /\ Cardinality(Events("return")') = Cardinality(Events("return")) + 1
  <2> HIDE DEF e
  <2>1. history \in Seq(Event)
    BY DEF PrintInv, SpanInv
  <2>2. "call" \in {"call", "return", "syscall"} /\ "return" \in {"call", "return", "syscall"}
    OBVIOUS
  <2>3. /\ Cardinality(Events("call")) \in Nat
        /\ Cardinality(Events("call")') = Cardinality(Events("call"))
    BY <1>1, <1>2, <2>1, <2>2, EventsMore
  <2>4. /\ Cardinality(Events("return")) \in Nat
        /\ Cardinality(Events("return")') = Cardinality(Events("return")) + 1
    BY <1>1, <1>2, <2>1, <2>2, EventsMore
  <2> QED
    BY <1>1, <1>2, <2>1, <2>2, <2>3, <2>4, EventsMore
<1>7. SpanInv'
  <2>1. n = Cardinality(Events("call")) - Cardinality(Events("return"))
    BY DEF PrintInv, SpanInv
  <2> QED
    BY <1>3, <1>4, <1>6, <2>1 DEF SpanInv
<1>8. ASSUME NEW i \in 1..(n - 1)
      PROVE  /\ stack'[i] = stack[i]
             /\ syscall => stack[i].enter_printed
             /\ ~syscall => (stack[i].enter_printed <=> stack[i].has_child)
             /\ stack[i].has_child
  <2>1. i \in DOMAIN stack /\ i < n
    BY <1>3, <1>4
  <2>2. stack'[i] = stack[i]
    BY <1>3
  <2> QED
    BY <2>1, <2>2 DEF PrintInv, FrameInv
<1>9. FrameInv'
  BY <1>3, <1>5, <1>8 DEF FrameInv
<1>10. ~AfterCall'
  BY <1>2, <1>6 DEF AfterCall
<1>11. ~(stack' # <<>> /\ ~stack'[Len(stack')].has_child)
  <2>1. stack' # <<>> => n - 1 \in 1..(n - 1)
    BY <1>3, <1>4, EmptySeq
  <2> QED
    BY <1>3, <1>8, <2>1
<1>12. FreshInv'
  BY <1>10, <1>11 DEF FreshInv
<1>13. /\ lost \in Nat /\ lost' \in Nat /\ depthSeen' \in Nat
       /\ lost > 0 => lost' > 0
       /\ syscall /\ lost' = 0 => depthSeen' = n - 1
  <2>1. lost \in Nat /\ depthSeen \in Nat
    BY DEF PrintInv, DepthInv
  <2> QED
    BY <1>1, <1>4, <2>1, PublishFacts
<1>14. DepthInv'
  BY <1>3, <1>13 DEF DepthInv
<1>15. ExitLines = RenderNext(e)
  <2>1. /\ syscall => stack[n].enter_printed
        /\ ~syscall => (stack[n].enter_printed <=> stack[n].has_child)
    BY <1>3, <1>4 DEF PrintInv, FrameInv
  <2>2. <<>> \o <<CloseLine(n - 1)>> = <<CloseLine(n - 1)>>
    BY OneLine, ConcatEmptySeq
  <2>3. CASE syscall
    <3>1. ExitLines = <<>> \o <<CloseLine(n - 1)>>
      BY <1>3, <2>1, <2>3 DEF ExitLines
    <3>2. RenderNext(e) = <<CloseLine(n - 1)>>
      BY <2>3 DEF RenderNext
    <3> QED
      BY <2>2, <3>1, <3>2
  <2>4. CASE ~syscall /\ AfterCall
    <3>1. ~stack[n].has_child /\ history[Len(history)].func = stack[n].func
      BY <2>4 DEF PrintInv, FreshInv
    <3>2. ExitLines = <<LeafLine(n - 1, stack[n].func)>>
      BY <1>3, <2>4, <3>1 DEF ExitLines
    <3>3. RenderNext(e) = <<LeafLine(n - 1, stack[n].func)>>
      BY <2>4, <3>1 DEF RenderNext
    <3> QED
      BY <3>2, <3>3
  <2>5. CASE ~syscall /\ ~AfterCall
    <3>1. stack[n].has_child
      BY <2>5 DEF PrintInv, FreshInv
    <3>2. ExitLines = <<>> \o <<CloseLine(n - 1)>>
      BY <1>3, <2>1, <2>5, <3>1 DEF ExitLines
    <3>3. RenderNext(e) = <<CloseLine(n - 1)>>
      BY <2>5 DEF RenderNext
    <3> QED
      BY <2>2, <3>2, <3>3
  <2> QED
    BY <2>3, <2>4, <2>5
<1>16. OutInv'
  <2> HIDE DEF e
  <2>1. RenderNext(e) \in Seq(AnyLine)
    BY <1>1, <1>2, <1>5, LinesMore DEF PrintInv
  <2>2. Follows(ExitLines, RenderNext(e), lost' > 0)
    BY <1>15, FollowsItself
  <2> QED
    BY <1>1, <1>2, <1>5, <1>13, <1>15, <2>1, <2>2, OutMore DEF PrintInv
<1> QED
  BY <1>7, <1>9, <1>12, <1>14, <1>16 DEF PrintInv

\* A line of the tracer: it is at the depth of the stack unless an update was
\* lost.
LEMMA SyscallStep ==
    ASSUME PrintInv, Syscall
    PROVE  PrintInv'
<1> DEFINE e == [event |-> "syscall", func |-> "-"]
           x == SyscallLine(depthSeen)
<1>1. /\ history' = Append(history, e) /\ out' = Append(out, x)
      /\ UNCHANGED <<syscall, stack, depthSeen, lost>> /\ syscall
  BY DEF Syscall
<1>2. e \in Event /\ e.event = "syscall"
  BY DEF Event
<1>3. /\ history \in Seq(Event) /\ stack \in Seq(Frame) /\ lost \in Nat
      /\ depthSeen \in Nat /\ out \in Seq(AnyLine) /\ Len(stack) \in Nat
      /\ SpanInv
  BY LenProperties DEF PrintInv, SpanInv, DepthInv, OutInv
<1>4. syscall \in BOOLEAN
  BY DEF PrintInv, FrameInv
<1>5. RenderNext(e) = <<SyscallLine(Len(stack))>>
  BY DEF RenderNext
<1> HIDE DEF e
<1>6. SpanInv'
  <2>1. "call" \in {"call", "return", "syscall"} /\ "return" \in {"call", "return", "syscall"}
    OBVIOUS
  <2>2. /\ history' \in Seq(Event)
        /\ Cardinality(Events("call")) \in Nat
        /\ Cardinality(Events("call")') = Cardinality(Events("call"))
    BY <1>1, <1>2, <1>3, <2>1, EventsMore
  <2>3. /\ Cardinality(Events("return")) \in Nat
        /\ Cardinality(Events("return")') = Cardinality(Events("return"))
    BY <1>1, <1>2, <1>3, <2>1, EventsMore
  <2> QED
    BY <1>1, <1>3, <2>2, <2>3 DEF SpanInv
<1>7. FrameInv'
  BY <1>1 DEF PrintInv, FrameInv
<1>8. FreshInv'
  BY <1>1 DEF FreshInv
<1>9. DepthInv'
  BY <1>1 DEF PrintInv, DepthInv
<1>10. x \in AnyLine /\ x.kind = "syscall" /\ SyscallLine(Len(stack)).kind = "syscall"
  BY <1>3 DEF SyscallLine, AnyLine
<1>11. lost = 0 => x = SyscallLine(Len(stack))
  BY <1>1 DEF PrintInv, DepthInv
<1>12. Follows(<<x>>, RenderNext(e), lost' > 0)
  <2> DEFINE y == SyscallLine(Len(stack))
  <2>1. x = y \/ (lost > 0 /\ x.kind = "syscall" /\ y.kind = "syscall")
    BY <1>3, <1>10, <1>11
  <2> HIDE DEF x, y
  <2>2. x = y \/ (lost' > 0 /\ {x.kind, y.kind} = {"syscall"})
    BY <1>1, <2>1
  <2>3. Len(<<x>>) = 1 /\ Len(<<y>>) = 1 /\ <<x>>[1] = x /\ <<y>>[1] = y
    BY OneLine
  <2>4. Follows(<<x>>, <<y>>, lost' > 0)
    BY <2>2, <2>3 DEF Follows
  <2> QED
    BY <1>5, <2>4 DEF y
<1> HIDE DEF x
<1>13. <<x>> \in Seq(AnyLine) /\ out' = out \o <<x>>
  BY <1>1, <1>3, <1>10, OneLine, AppendIsConcat
<1>14. OutInv'
  BY <1>1, <1>2, <1>3, <1>4, <1>12, <1>13, OutMore DEF PrintInv
<1> QED
  BY <1>6, <1>7, <1>8, <1>9, <1>14 DEF PrintInv

\* A step that neither begins nor ends a span, nor is a system call.
LEMMA QuietStep ==
    ASSUME PrintInv,
           UNCHANGED <<syscall, stack, history, out, depthSeen>>,
           lost' = lost \/ lost' = lost + 1
    PROVE  PrintInv'
<1>1. lost \in Nat /\ lost' \in Nat /\ (lost > 0 => lost' > 0) /\ (lost' = 0 => lost = 0)
  BY DEF PrintInv, DepthInv
<1>2. SpanInv' /\ FrameInv'
  BY DEF PrintInv, SpanInv, FrameInv, Events
<1>3. FreshInv'
  BY DEF PrintInv, FreshInv, AfterCall
<1>4. DepthInv'
  BY <1>1 DEF PrintInv, DepthInv
<1>5. Lines' = Lines
  BY DEF Lines, Rendered, DepthBefore
<1>6. out \in Seq(AnyLine) /\ DOMAIN out = 1..Len(out)
  BY LenProperties DEF PrintInv, OutInv
<1>7. Follows(out, Lines, lost > 0)
  BY <1>6 DEF PrintInv, OutInv, OutputRendersHistory, Lines, Follows
<1>8. Follows(out, Lines, lost' > 0)
  BY <1>1, <1>7, Zenon DEF Follows
<1>9. Follows(out', Lines', lost' > 0)
  BY <1>5, <1>8
<1>10. OutInv'
  BY <1>6, <1>9 DEF OutInv, OutputRendersHistory, Lines, Follows
<1> QED
  BY <1>2, <1>3, <1>4, <1>10 DEF PrintInv

\* There is no span, no event and no line at first.
LEMMA PrintInit == Init => PrintInv
<1> SUFFICES ASSUME Init PROVE PrintInv
  OBVIOUS
<1>1. /\ stack = <<>> /\ history = <<>> /\ out = <<>>
      /\ depthSeen = 0 /\ lost = 0 /\ syscall \in BOOLEAN
  BY DEF Init
<1>2. DOMAIN history = {} /\ DOMAIN stack = {} /\ DOMAIN out = {}
      /\ Len(stack) = 0 /\ Len(out) = 0
  BY <1>1
<1>3. Events("call") = {} /\ Events("return") = {}
  BY <1>2 DEF Events
<1>4. SpanInv
  <2>1. Cardinality(Events("call")) = 0 /\ Cardinality(Events("return")) = 0
    BY <1>3, FS_EmptySet
  <2>2. history \in Seq(Event) /\ stack \in Seq(Frame)
    BY <1>1, EmptySeq
  <2> QED
    BY <1>2, <2>1, <2>2 DEF SpanInv
<1>5. FrameInv /\ FreshInv /\ DepthInv
  BY <1>1, <1>2 DEF FrameInv, FreshInv, DepthInv, AfterCall
<1>6. Lines = <<>>
  <2> DEFINE s == [i \in DOMAIN history |-> Rendered(i)]
  <2>1. s = <<>>
    BY <1>2
  <2>2. Lines = FlattenSeq(s)
    BY DEF Lines
  <2> HIDE DEF s
  <2> QED
    BY <2>1, <2>2 DEF FlattenSeq
<1>7. OutInv
  BY <1>1, <1>2, <1>6, EmptySeq DEF OutInv, OutputRendersHistory, Lines
<1> QED
  BY <1>4, <1>5, <1>7 DEF PrintInv

\* Every step keeps PrintInv.
LEMMA PrintStep == ScopeInv /\ PrintInv /\ [Next]_vars => PrintInv'
<1> SUFFICES ASSUME ScopeInv, PrintInv, [Next]_vars PROVE PrintInv'
  OBVIOUS
<1>1. ASSUME UNCHANGED <<syscall, stack, history, out, depthSeen>>,
             lost' = lost \/ lost' = lost + 1
      PROVE  PrintInv'
  BY <1>1, QuietStep
<1>2. ASSUME NEW f \in Func, Call(f) PROVE PrintInv'
  BY <1>1, <1>2 DEF Call
<1>3. CASE EnterWindow
  BY <1>1, <1>3 DEF EnterWindow
<1>4. CASE PublishEnter
  BY <1>1, <1>4 DEF PublishEnter, PublishWindow
<1>5. CASE TakeGuard
  BY <1>1, <1>5 DEF TakeGuard
<1>6. CASE Enter
  <2>1. Last(scopes).func \in Func
    <3>1. Last(scopes) \in Scope
      BY <1>6, FrontFacts DEF Enter, InStage, ScopeInv
    <3> QED
      BY <3>1 DEF Scope
  <2>2. syscall' = syscall /\ PushSpan(Last(scopes).func)
    BY <1>6 DEF Enter
  <2>3. CASE tls
    BY <2>1, <2>2, <2>3, PushStep
  <2>4. CASE ~tls
    <3>1. UNCHANGED <<syscall, stack, history, out, depthSeen, lost>>
      BY <2>2, <2>4 DEF PushSpan
    <3> QED
      BY <3>1, <1>1
  <2> QED
    BY <2>3, <2>4
<1>7. CASE Finish
  BY <1>1, <1>7 DEF Finish
<1>8. CASE PublishExit
  BY <1>1, <1>8 DEF PublishExit, PublishWindow
<1>9. CASE Exit
  <2>1. syscall' = syscall /\ PopSpan
    BY <1>9 DEF Exit
  <2>2. CASE stack # <<>>
    BY <2>1, <2>2, PopStep
  <2>3. CASE stack = <<>>
    <3>1. UNCHANGED <<syscall, stack, history, out, depthSeen, lost>>
      BY <2>1, <2>3 DEF PopSpan
    <3> QED
      BY <3>1, <1>1
  <2> QED
    BY <2>2, <2>3
<1>10. CASE Syscall
  BY <1>10, SyscallStep
<1>11. CASE TearDown
  BY <1>1, <1>11 DEF TearDown
<1>12. CASE UNCHANGED vars
  BY <1>1, <1>12 DEF vars
<1> QED
  BY <1>2, <1>3, <1>4, <1>5, <1>6, <1>7, <1>8, <1>9, <1>10, <1>11, <1>12
     DEF Next, Idle

-----------------------------------------------------------------------------
(* The stack and the calls.                                                 *)

\* A span in progress has a place among them.
LEMMA RankFacts ==
    ASSUME ScopeInv, NEW i \in Begun
    PROVE  Rank(i) \in 1..Cardinality(Begun)
<1> DEFINE S == {j \in Begun : j <= i}
<1>1. PICK n \in Nat : n = Len(scopes)
  BY ScopeFacts
<1>2. Begun \in SUBSET (1..n)
  BY <1>1, ScopeFacts
<1>3. IsFiniteSet(Begun) /\ Cardinality(Begun) \in Nat
  BY <1>2, CountFacts
<1>4. Cardinality(S) <= Cardinality(Begun)
  BY <1>3, FS_Subset
<1>5. i \in S /\ S \in SUBSET (1..n)
  <2>1. i <= i
    BY <1>2
  <2> QED
    BY <1>2, <2>1
<1>6. Cardinality(S) \in Nat /\ Cardinality(S) > 0
  BY <1>5, CountFacts
<1>7. Rank(i) = Cardinality(S)
  BY DEF Rank
<1> HIDE DEF S
<1> QED
  BY <1>3, <1>4, <1>6, <1>7

\* The frames keep their functions when a parent is told of a child.
LEMMA ChildKeepsFunc ==
    ASSUME SpanInv, NEW i \in 1..Len(stack)
    PROVE  WithChild(stack)[i].func = stack[i].func
<1> DEFINE n == Len(stack)
           e == [stack[n] EXCEPT !.has_child = TRUE, !.enter_printed = TRUE]
<1>1. n \in Nat /\ DOMAIN stack = 1..n /\ stack # <<>> /\ stack \in Seq(Frame)
  BY FrameFacts DEF SpanInv
<1>a. n \in 1..n
  <2> HIDE DEF n
  <2> QED
    BY <1>1, i \in 1..n DEF n
<1>2. n \in 1..n /\ stack[n] \in Frame
  BY <1>1, <1>a
<1>3. e.func = stack[n].func
  BY <1>2 DEF Frame
<1>4. WithChild(stack) = [stack EXCEPT ![n] = e]
  BY <1>1, <1>2 DEF WithChild, Frame
<1> HIDE DEF e
<1> QED
  BY <1>1, <1>3, <1>4

\* Spans and frames as they were.
LEMMA SameStack ==
    ASSUME ScopeInv, StackInv, tls' = tls, stack' = stack, Begun' = Begun,
           \A i \in Begun : scopes'[i].func = scopes[i].func
    PROVE  StackInv'
<1>1. \A i : Rank(i)' = Rank(i)
  BY DEF Rank
<1> QED
  BY <1>1 DEF StackInv

\* graph::enter pushes the frame of the call.
LEMMA EnterStack ==
    ASSUME ScopeInv, StackInv, SpanInv, Enter, tls
    PROVE  StackInv'
<1>0. PICK n \in Nat \ {0} : n = Len(scopes)
  BY EnterScopes
<1>1. /\ ScopeInv'
      /\ \A i \in 1..(n - 1) : scopes'[i] = scopes[i]
      /\ scopes'[n].func = scopes[n].func
      /\ Begun' = Begun \cup {n} /\ n \notin Begun
  BY <1>0, EnterScopes
<1>2. Begun \in SUBSET (1..n) /\ Last(scopes) = scopes[n]
  BY <1>0, ScopeFacts DEF Last
<1>3. Cardinality(Begun') = Cardinality(Begun) + 1 /\ Cardinality(Begun) \in Nat
  BY <1>1, <1>2, LastCount
<1>4. /\ Len(stack) = Cardinality(Begun)
      /\ \A i \in Begun : stack[Rank(i)].func = scopes[i].func
  BY DEF StackInv
<1> DEFINE w == WithChild(stack)
           new == [func |-> scopes[n].func, has_child |-> FALSE,
                   enter_printed |-> syscall]
<1>5. stack' = Append(w, new)
  BY <1>2 DEF Enter, PushSpan
<1>6. w \in Seq(Frame) /\ Len(w) = Len(stack) /\ new.func = scopes[n].func
  BY FrameFacts
<1>7. \A i \in 1..Len(stack) : w[i].func = stack[i].func
  BY ChildKeepsFunc
<1> HIDE DEF w, new
<1>8. /\ Len(stack') = Len(stack) + 1
      /\ \A i \in 1..Len(stack) : stack'[i] = w[i]
      /\ stack'[Len(stack) + 1] = new
  BY <1>5, <1>6
<1>9. ASSUME NEW i \in Begun
      PROVE  stack'[Rank(i)'].func = scopes'[i].func
  <2>a. i \in 1..n /\ i # n
    <3>1. i \in 1..n
      BY <1>2, Zenon
    <3>2. n \notin Begun
      BY <1>1
    <3> QED
      BY <3>1, <3>2, Zenon
  <2>1. i \in 1..(n - 1) /\ ~(n <= i)
    BY <2>a
  <2>2. {j \in Begun' : j <= i} = {j \in Begun : j <= i}
    BY <1>1, <2>1
  <2>3. Rank(i)' = Rank(i) /\ Rank(i) \in 1..Len(stack)
    BY <1>4, <2>2, RankFacts DEF Rank
  <2> QED
    BY <1>1, <1>4, <1>7, <1>8, <2>1, <2>3
<1>10. stack'[Rank(n)'].func = scopes'[n].func
  <2>a. Begun' = Begun \cup {n} /\ Begun \in SUBSET (1..n) /\ n \in 1..n
    BY <1>1, <1>2
  <2>1. Begun' \in SUBSET (1..n)
    BY <2>a, Zenon
  <2>2. {j \in Begun' : j <= n} = Begun'
    BY <2>1, UpToAll
  <2>3. Rank(n)' = Len(stack) + 1
    BY <1>3, <1>4, <2>2 DEF Rank
  <2> QED
    BY <1>1, <1>6, <1>8, <2>3
<1> QED
  BY <1>1, <1>3, <1>4, <1>8, <1>9, <1>10 DEF StackInv

\* graph::exit pops the frame of the call that ends.
LEMMA ExitStack ==
    ASSUME ScopeInv, StackInv, SpanInv, Exit, tls
    PROVE  StackInv'
<1>0. PICK n \in Nat \ {0} : n = Len(scopes)
  BY ExitScopes
<1>1. /\ ScopeInv'
      /\ \A i \in 1..(n - 1) : scopes'[i] = scopes[i]
      /\ Begun' = Begun \ {n} /\ n \in Begun
  BY <1>0, ExitScopes
<1>2. Begun \in SUBSET (1..n)
  BY <1>0, ScopeFacts
<1>3. /\ Cardinality(Begun') = Cardinality(Begun) - 1 /\ Cardinality(Begun) \in Nat
      /\ Cardinality(Begun) > 0
  BY <1>1, <1>2, LastCount
<1>4. /\ Len(stack) = Cardinality(Begun)
      /\ \A i \in Begun : stack[Rank(i)].func = scopes[i].func
  BY DEF StackInv
<1>5. stack # <<>> /\ stack \in Seq(Frame)
  BY <1>3, <1>4, FrameFacts DEF SpanInv
<1>6. stack' = Front(stack)
  BY <1>5 DEF Exit, PopSpan
<1>7. /\ Len(stack') = Len(stack) - 1
      /\ \A i \in 1..(Len(stack) - 1) : stack'[i] = stack[i]
  BY <1>5, <1>6, FrontFacts
<1>8. ASSUME NEW i \in Begun'
      PROVE  stack'[Rank(i)'].func = scopes'[i].func
  <2>1. i \in Begun /\ i \in 1..(n - 1) /\ ~(n <= i)
    BY <1>1, <1>2
  <2>2. {j \in Begun' : j <= i} = {j \in Begun : j <= i}
    BY <1>1, <2>1
  <2>3. Rank(i)' = Rank(i)
    BY <2>2 DEF Rank
  <2>4. Rank(i)' \in 1..Cardinality(Begun')
    <3>1. {j \in Begun' : j <= i} \in SUBSET Begun' /\ IsFiniteSet(Begun')
      <4>1. Begun' \in SUBSET (1..n)
        BY <1>1, <1>2
      <4> QED
        BY <4>1, CountFacts
    <3>2. Rank(i)' <= Cardinality(Begun')
      BY <3>1, FS_Subset DEF Rank
    <3>3. Rank(i) \in 1..Cardinality(Begun)
      BY <2>1, RankFacts
    <3> QED
      BY <1>3, <2>3, <3>2, <3>3
  <2> QED
    BY <1>1, <1>3, <1>4, <1>7, <2>1, <2>3, <2>4
<1> QED
  BY <1>3, <1>4, <1>7, <1>8 DEF StackInv

\* Every step keeps StackInv.
LEMMA StackStep == ScopeInv /\ SpanInv /\ StackInv /\ [Next]_vars => StackInv'
<1> SUFFICES ASSUME ScopeInv, SpanInv, StackInv, [Next]_vars PROVE StackInv'
  OBVIOUS
<1>1. PICK n \in Nat : n = Len(scopes)
  BY ScopeFacts
<1>2. Begun \in SUBSET (1..n)
  BY <1>1, ScopeFacts
<1>3. \A i \in Begun : i # n => i \in 1..(n - 1)
  BY <1>2
<1>4. ASSUME NEW f \in Func, Call(f) PROVE StackInv'
  <2>1. Begun' = Begun /\ \A i \in 1..n : scopes'[i] = scopes[i]
    BY <1>1, <1>4, CallScopes
  <2>2. tls' = tls /\ stack' = stack
    BY <1>4 DEF Call
  <2> QED
    BY <1>2, <2>1, <2>2, SameStack
<1>5. CASE EnterWindow
  <2>1. Begun' = Begun /\ \A i \in 1..(n - 1) : scopes'[i] = scopes[i]
    BY <1>1, <1>5, EnterWindowScopes
  <2>2. tls' = tls /\ stack' = stack
    BY <1>5 DEF EnterWindow
  <2>3. n \notin Begun
    <3>1. scopes[n].stage = "numbering"
      BY <1>1, <1>5, LastScope DEF EnterWindow
    <3> QED
      BY <3>1 DEF Begun
  <2> QED
    BY <1>3, <2>1, <2>2, <2>3, SameStack
<1>6. CASE PublishEnter
  <2>1. /\ Begun' = Begun /\ \A i \in 1..(n - 1) : scopes'[i] = scopes[i]
        /\ scopes'[n].func = scopes[n].func
    BY <1>1, <1>6, PublishEnterScopes
  <2>2. tls' = tls /\ stack' = stack
    BY <1>6 DEF PublishEnter
  <2> QED
    BY <1>3, <2>1, <2>2, SameStack
<1>7. CASE TakeGuard
  <2>1. /\ Begun' = Begun /\ \A i \in 1..(n - 1) : scopes'[i] = scopes[i]
        /\ scopes'[n].func = scopes[n].func
    BY <1>1, <1>7, TakeGuardScopes
  <2>2. tls' = tls /\ stack' = stack
    BY <1>7 DEF TakeGuard
  <2> QED
    BY <1>3, <2>1, <2>2, SameStack
<1>8. CASE Enter
  <2>1. CASE tls
    BY <1>8, <2>1, EnterStack
  <2>2. CASE ~tls
    BY <1>8, <2>2 DEF Enter, StackInv
  <2> QED
    BY <2>1, <2>2
<1>9. CASE Finish /\ scopes[n].fgraph_window_matched
  <2>1. /\ Begun' = Begun /\ \A i \in 1..(n - 1) : scopes'[i] = scopes[i]
        /\ scopes'[n].func = scopes[n].func
    BY <1>1, <1>9, FinishMatched
  <2>2. tls' = tls /\ stack' = stack
    BY <1>9 DEF Finish
  <2> QED
    BY <1>3, <2>1, <2>2, SameStack
<1>10. CASE Finish /\ ~scopes[n].fgraph_window_matched
  <2>1. /\ Begun' = Begun /\ \A i \in 1..(n - 1) : scopes'[i] = scopes[i]
        /\ n \in Begun => scopes'[n].func = scopes[n].func
    BY <1>1, <1>10, FinishPlain
  <2>2. tls' = tls /\ stack' = stack
    BY <1>10 DEF Finish
  <2> QED
    BY <1>3, <2>1, <2>2, SameStack
<1>11. CASE PublishExit
  <2>1. /\ Begun' = Begun /\ \A i \in 1..(n - 1) : scopes'[i] = scopes[i]
        /\ n \in Begun => scopes'[n].func = scopes[n].func
    BY <1>1, <1>11, PublishExitScopes
  <2>2. tls' = tls /\ stack' = stack
    BY <1>11 DEF PublishExit
  <2> QED
    BY <1>3, <2>1, <2>2, SameStack
<1>12. CASE Exit
  <2>1. CASE tls
    BY <1>12, <2>1, ExitStack
  <2>2. CASE ~tls
    BY <1>12, <2>2 DEF Exit, StackInv
  <2> QED
    BY <2>1, <2>2
<1>13. CASE TearDown
  BY <1>13 DEF TearDown, StackInv
<1>14. ASSUME UNCHANGED <<scopes, stack, tls>> PROVE StackInv'
  <2>1. Begun' = Begun
    BY <1>14 DEF Begun
  <2> QED
    BY <1>14, <2>1, SameStack
<1>15. CASE Syscall
  BY <1>14, <1>15 DEF Syscall
<1>16. CASE UNCHANGED vars
  BY <1>14, <1>16 DEF vars
<1> QED
  BY <1>4, <1>5, <1>6, <1>7, <1>8, <1>9, <1>10, <1>11, <1>12, <1>13, <1>15,
     <1>16 DEF Next, Idle

-----------------------------------------------------------------------------
(* The theorems.                                                            *)

IInv == ScopeInv /\ LabelInv /\ PrintInv /\ StackInv

\* The conjunction is an invariant.
LEMMA Invariance == Spec => []IInv
<1>1. Init => IInv
  <2>1. ASSUME Init PROVE StackInv
    <3>1. scopes = <<>> /\ DOMAIN scopes = {} /\ stack = <<>> /\ Len(stack) = 0
      BY <2>1 DEF Init
    <3>2. Begun = {}
      BY <3>1 DEF Begun
    <3> QED
      BY <3>1, <3>2, FS_EmptySet DEF StackInv
  <2> QED
    BY <2>1, ScopeInit, LabelInit, PrintInit DEF IInv
<1>2. IInv /\ [Next]_vars => IInv'
  BY ScopeStep, LabelStep, PrintStep, StackStep DEF IInv, PrintInv
<1> QED
  BY <1>1, <1>2, PTL DEF Spec

\* For any functions and however calls nest, HookBypassGuard hides what
\* graph::enter and graph::exit call and nothing else, the calls from inside an
\* unguarded window update included, and each span ends with its own frame.
THEOREM GuardIsExact == Spec => []TracedUnlessGuarded
<1>1. IInv => TracedUnlessGuarded
  <2> SUFFICES ASSUME IInv PROVE TracedUnlessGuarded
    OBVIOUS
  <2>1. \A j \in DOMAIN scopes : HiddenOk(j)
    BY DEF IInv, ScopeInv, ScopeOk
  <2>2. StackInv
    BY DEF IInv
  <2> QED
    BY <2>1, <2>2 DEF TracedUnlessGuarded, HiddenOk, Hidden, StackInv
<1> QED
  BY <1>1, Invariance, PTL

\* Whichever updates are lost, apply_fgraph_window_update never keeps more
\* labels than windows, nor one of a window that was not entered.
THEOREM LabelsStayBounded == Spec => []LossyLabelsBounded
<1>1. IInv => LossyLabelsBounded
  BY DEF IInv, LabelInv
<1> QED
  BY <1>1, Invariance, PTL

\* Without a lost update the tracer has the names and numbers of the windows
\* that are open, in their order, but for those opened inside an update that is
\* not yet published.
THEOREM LabelsAreOfWindows == Spec => []LabelsMatchWindows
<1>1. IInv => LabelsMatchWindows
  BY DEF IInv, LabelInv
<1> QED
  BY <1>1, Invariance, PTL

\* graph::enter and graph::exit, with the syscall lines of the tracer, write the
\* rendering of the thread's history, for histories of any length.
THEOREM OutputIsRendering == Spec => []OutputRendersHistory
<1>1. IInv => OutputRendersHistory
  BY DEF IInv, PrintInv, OutInv
<1> QED
  BY <1>1, Invariance, PTL

\* An exit from the outermost window that the tracer hears of clears everything
\* it knew, whatever it missed before.
THEOREM OutermostExitClears == Spec => OutermostExitForgets
<1>1. ASSUME IInv, [Next]_vars, windows = 0, winSeen' # winSeen
      PROVE  winSeen' = NoWindow
  <2>1. ScopeInv
    BY <1>1 DEF IInv
  <2>2. PublishEnter \/ PublishExit
    BY <1>1 DEF Next, Idle, vars, Call, EnterWindow, TakeGuard, Enter, Finish,
                Exit, Syscall, TearDown
  <2>3. ~PublishEnter
    <3>1. ASSUME PublishEnter PROVE FALSE
      <4>1. Len(scopes) \in OpenWindows
        BY <2>1, <3>1, PublishEnterScopes
      <4>2. windows > 0
        BY <2>1, <4>1, ScopeFacts, CountFacts DEF ScopeInv
      <4> QED
        BY <1>1, <4>2
    <3> QED
      BY <3>1
  <2>4. PublishExit
    BY <2>2, <2>3
  <2>5. PICK n \in Nat \ {0} : n = Len(scopes) /\ n \in Unpublished
    BY <2>1, <2>4, PublishExitScopes
  <2>6. scopes[n].depth = 0
    BY <1>1, <2>1, <2>5, AroundLast
  <2>7. PublishWindow(AfterWindowExit(winSeen, scopes[n].depth))
    BY <2>4, <2>5 DEF PublishExit, Last
  <2> QED
    BY <1>1, <2>6, <2>7 DEF PublishWindow, AfterWindowExit
<1>2. IInv /\ [Next]_vars =>
        [windows = 0 /\ winSeen' # winSeen => winSeen' = NoWindow]_vars
  BY <1>1
<1> QED
  BY <1>2, Invariance, PTL DEF Spec, OutermostExitForgets
=============================================================================
