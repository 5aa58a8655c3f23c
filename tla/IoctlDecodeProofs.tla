------------------------- MODULE IoctlDecodeProofs -------------------------
(***************************************************************************)
(* Proofs about IoctlDecode, for every limit on blobs and every set of      *)
(* argument sizes: each decoder writes one status, which is true, copies no *)
(* more than it may and shows lists that are honest, whichever copies fail  *)
(* and whatever the copied memory holds.                                    *)
(*                                                                          *)
(* The invariant says of the steps that are left that they form a good      *)
(* script.  It rests on two groups of lemmas: every script that a decoder   *)
(* starts with is good (one lemma per shape of decoder, over the layouts of *)
(* all structures), and each action leaves a good script.                   *)
(***************************************************************************)
EXTENDS IoctlDecode, FiniteSetTheorems, SequenceTheorems, NaturalsInduction,
        WellFoundedInduction, TLAPS

-----------------------------------------------------------------------------
(* The inductive invariant.                                                 *)

\* A finite sequence.
IsScript(q) == q \in Seq(Range(q))

\* At most so many copies are made for an ioctl, and at most so much is copied
\* from behind a pointer.
CopyLimit == Max({5, MaxBlob \div NvIoctlCardInfo.size})
PointerLimit == Max({MaxBlob, 128, MaxCtrlListItems * NvxxxxCtrlXxxInfo.size})

\* A call whose size the decoder has to check, and when it has to refuse it.
Checked(c) ==
    /\ c.dev = "rm" /\ c.magic /\ c.mode = "full" /\ ~c.null
    /\ c.cmd \in DOMAIN AssertedSize

Refused(c) ==
    IF c.size = 0
    THEN c.cmd \in {"card_info", "rm_alloc_memory", "rm_alloc", "rm_map_memory"}
    ELSE c.size < AssertedSize[c.cmd]

\* What the status s claims, when the blocks of g have been copied.
TrueStatus(s, c, g) ==
    /\ s = "ok" => "arg" \in g \/ c.cmd = "deinitialize"
    /\ s = "arg_unreadable" => "arg" \notin g
    /\ s = "params_unreadable" => "params" \notin g
    /\ s = "inner_partial" => "params" \in g
    /\ s = "size_mismatch" /\ Checked(c) => Refused(c)

\* A copy of no more than the program says is there, but for the ones that two
\* decoders make without a look at it.
InsideRoom(s, c) ==
    /\ s.op = "read" /\ s.off \in Nat /\ s.len \in Nat
    /\ s.room # NoRoom => /\ s.room \in Nat
                          /\ s.off + s.len <= s.room \/ Unchecked(c, s)
    /\ s.from = "pointer" => s.len <= 128

\* A copy whose failure ends what the script was about to do.
Must(s) == s.must = TRUE

\* A copy whose failure is passed over.
TryRead(s, c) ==
    /\ InsideRoom(s, c) /\ s.must = FALSE
    /\ s.from \in {"arg", "pointer", "event"}

\* The kinds of side steps: bytes are shown, a list of the structure is, what
\* lies behind a pointer is copied, or a value in memory decides.
Showing(s) ==
    s.op = "show" /\ s.read \in Nat /\ s.count \in Nat /\ s.unit \in {1, 4}

\* The next of several structures: what was read before it is shown.
NextRead(s, c) ==
    /\ InsideRoom(s, c) /\ Must(s) /\ s.from = "arg"
    /\ s.bad = <<s.bad[1], Put("ok")>> /\ Showing(s.bad[1])

Listing(s) ==
    /\ s.op = "list"
    /\ s.cap \in Nat \ {0} /\ s.sample \in Nat
    /\ s.flag \in BOOLEAN /\ s.raw \in BOOLEAN /\ s.filtered \in BOOLEAN
    /\ s.flag \/ s.raw
    /\ s.pair \in BOOLEAN

Following(s) ==
    \/ /\ s.op = "indirect" /\ s.size \in {4, 8} /\ s.copies \in {1, 2}
    \/ /\ s.op = "array" /\ s.size \in {4, 8}
       /\ s.shown \in 0..MaxCtrlListItems /\ s.count \in Nat
       /\ s.shown <= s.count
    \/ s.op \in {"text", "blob"} /\ s.limit \in 16..Max({MaxBlob, 128})

Branching(s, c) ==
    /\ s.op = "oneof"
    /\ \A q \in s.scripts : q # <<>> => q = <<q[1]>> /\ TryRead(q[1], c)

\* The steps between the copy of a structure and the status.
Side(s, g, c) ==
    \/ TryRead(s, c) \/ Showing(s) \/ Listing(s) \/ Following(s)
    \/ Branching(s, c)
    \/ "arg" \in g /\ NextRead(s, c)
    \/ {"arg", "params"} \subseteq g /\ s.op = "last" /\ s.t = U64

\* How many copies a body may still make.
Work(q) ==
    LET n == Len(q) IN
    n - 1 - (IF n > 1 /\ q[n - 1].op \in {"inner", "show"} THEN 1 ELSE 0)
          + (IF q[1].op = "indirect" THEN q[1].copies - 1 ELSE 0)

\* Side steps, then the statuses.  `arr' are the lengths of the arrays in the
\* structure last copied, `w' the number of copies that may still be made.
Body(q, c, g, arr, w) ==
    LET n == Len(q) IN
    /\ IsScript(q) /\ n > 0
    /\ q[n].op = "put" /\ TrueStatus(q[n].status, c, g)
    /\ q[n].status = "arg_unreadable" => n = 1
    /\ q[n].status = "params_unreadable" => n = 1 \/ (n = 2 /\ q[1].op = "inner")
    /\ \A i \in 1..(n - 1) :
         \/ Side(q[i], g, c)
         \/ i = n - 1 /\ q[i].op = "inner" /\ (q[i].status = "ok" => "params" \in g)
    /\ \A i \in 1..(n - 1) : q[i].op = "list" =>
         q[i].cap \in arr /\ \A j \in 1..(i - 1) : q[j].op = "list"
    /\ \A i \in 1..(n - 1) : q[i].op = "indirect" => i = 1
    /\ Work(q) <= w

\* What follows the argument of a transferred escape.
XferChoice ==
    <<OneOf({<<Put("xfer_non_nvos54")>>} \cup
            {<<read_pod("os54", 0, NvOs54Parameters, size,
                        <<Put("os54_unreadable")>>), Payload>> :
               size \in XferSizes})>>

\* What may follow a copy.
Rest(q, c, g, arr, w) ==
    \/ Body(q, c, g, arr, w)
    \/ q = <<Payload>> /\ "arg" \in g /\ "params" \notin g /\ w >= 3
    \/ /\ q = XferChoice /\ "arg" \in g /\ "params" \notin g /\ w >= 4
       /\ c.cmd = "ioctl_xfer_cmd"

\* A script that starts with a copy that must succeed.
Reading(q, c, g, w) ==
    /\ IsScript(q) /\ Len(q) > 1
    /\ InsideRoom(q[1], c) /\ Must(q[1])
    /\ q[1].from \in {"arg", "os54", "params"}
    /\ q[1].from = "params" => "arg" \in g
    /\ Rest(Tail(q), c, g \cup {q[1].from}, q[1].lens, w - 1)

\* When it fails, a body takes its place; or another such script does.
ReadOrEnd(q, c, g, arr, w) ==
    Reading(q, c, g, w) /\ Body(q[1].bad, c, g, arr, w - 1)

ReadOrRead(q, c, g, arr, w) ==
    Reading(q, c, g, w) /\ ReadOrEnd(q[1].bad, c, g, arr, w - 1)

\* What may be left of a decoder.
Good(q, c, g, arr, w) ==
    \/ Rest(q, c, g, arr, w)
    \/ ReadOrEnd(q, c, g, arr, w)
    \/ ReadOrRead(q, c, g, arr, w)

\* The blocks that the successful copies of R come from.
CopiedIn(R) == {r.from : r \in {x \in R : x.ok}}

\* How many copies may follow those of R.
CopiesLeft(R) == CopyLimit - Cardinality(R)

\* The blocks that have been copied.
Copied == CopiedIn(reads)

\* An ioctl that is not decoded.
Silent(c) == c.mode = "off" \/ c.dev = "other" \/ (c.dev = "rm" /\ ~c.magic)

\* Every copy is within its bounds, and every list is honest.
CopyOk(r, c) ==
    /\ r.room # NoRoom => r.off + r.len <= r.room \/ Unchecked(c, r)
    /\ r.from = "pointer" => r.len <= PointerLimit

ListOk(l) ==
    /\ l.shown <= l.cap /\ l.cap \in l.slices
    /\ IF l.flag
       THEN IF l.truncated THEN l.shown < l.count
                           ELSE l.count < l.shown + l.unit
       ELSE l.raw

\* A decoder at work, and one that has written its status.
Running ==
    /\ todo # <<>> /\ root = <<>>
    /\ Good(todo, call, Copied, arrays, CopiesLeft(reads))

Finished ==
    /\ todo = <<>> /\ root = <<root[1]>>
    /\ TrueStatus(root[1], call, Copied)

\* Between two ioctls nothing is left; from the first step to the last a good
\* script is; and there is one status in the inner object, near the end.
Idle == call = NoCall =>
    todo = <<>> /\ root = <<>> /\ inner = <<>> /\ reads = {} /\ arrays = {}

Decoding == call # NoCall =>
    /\ call \in Calls
    /\ IF Silent(call) THEN todo = <<>> /\ root = <<>> ELSE Running \/ Finished

InnerOnce ==
    \/ inner = <<>>
    \/ /\ inner = <<inner[1]>>
       /\ inner[1] = "ok" => "params" \in Copied
       /\ todo = <<>> \/ (Len(todo) = 1 /\ todo[1].op = "put")

\* A call that is to be refused is refused at once.
Refusal ==
    (call # NoCall /\ Checked(call) /\ Refused(call)) =>
       \/ todo = <<Put("size_mismatch")>>
       \/ todo = <<>> /\ root = <<"size_mismatch">>

DecodeInv ==
    /\ IsFiniteSet(reads) /\ psize \in Nat
    /\ \A r \in reads : CopyOk(r, call)
    /\ \A l \in lists : ListOk(l)
    /\ Idle /\ Decoding /\ InnerOnce /\ Refusal
    /\ "params" \in Copied => "arg" \in Copied
    /\ CopiesLeft(reads) >= 0

-----------------------------------------------------------------------------
(* Scripts.                                                                 *)

\* A sequence over any set is a script.
LEMMA SeqIsScript ==
    ASSUME NEW S, NEW q \in Seq(S)
    PROVE  IsScript(q)
<1>1. Len(q) \in Nat /\ DOMAIN q = 1..Len(q)
  BY LenProperties
<1>2. \A i \in 1..Len(q) : q[i] \in Range(q)
  BY <1>1 DEF Range
<1>3. q \in Seq(Range(q))
  BY <1>1, <1>2, IsASeq
<1> QED
  BY <1>3 DEF IsScript

\* What is left of a script after its first step.
LEMMA ScriptTail ==
    ASSUME NEW q, IsScript(q), Len(q) > 0
    PROVE  /\ Len(q) \in Nat /\ IsScript(Tail(q)) /\ Len(Tail(q)) = Len(q) - 1
           /\ \A i \in 1..(Len(q) - 1) : Tail(q)[i] = q[i + 1]
           /\ Head(q) = q[1] /\ q # <<>>
<1> DEFINE S == Range(q)
<1>1. q \in Seq(S)
  BY DEF IsScript
<1> HIDE DEF S
<1>2. Len(q) \in Nat /\ q # <<>>
  BY <1>1, LenProperties
<1>3. Tail(q) \in Seq(S) /\ Len(Tail(q)) = Len(q) - 1
        /\ \A i \in 1..(Len(q) - 1) : Tail(q)[i] = q[i + 1]
  BY <1>1, <1>2
<1>4. IsScript(Tail(q))
  BY <1>3, SeqIsScript
<1>5. Head(q) = q[1]
  BY <1>1, <1>2
<1> QED
  BY <1>2, <1>3, <1>4, <1>5

\* Two scripts in a row.
LEMMA ScriptConcat ==
    ASSUME NEW q, NEW r, IsScript(q), IsScript(r)
    PROVE  /\ Len(q) \in Nat /\ Len(r) \in Nat
           /\ IsScript(q \o r) /\ Len(q \o r) = Len(q) + Len(r)
           /\ \A i \in 1..(Len(q) + Len(r)) :
                (q \o r)[i] = IF i <= Len(q) THEN q[i] ELSE r[i - Len(q)]
<1> DEFINE S == Range(q) \cup Range(r)
<1>1. q \in Seq(Range(q)) /\ r \in Seq(Range(r))
  BY DEF IsScript
<1>2. q \in Seq(S) /\ r \in Seq(S)
  <2>1. \A x \in Range(q) : x \in S
    OBVIOUS
  <2>2. \A x \in Range(r) : x \in S
    OBVIOUS
  <2> HIDE DEF S
  <2> QED
    BY <1>1, <2>1, <2>2
<1> HIDE DEF S
<1>3. Len(q) \in Nat /\ Len(r) \in Nat
  BY <1>2, LenProperties
<1>4. q \o r \in Seq(S)
  BY <1>2
<1>5. Len(q \o r) = Len(q) + Len(r)
  BY <1>2, <1>3
<1>6. \A i \in 1..(Len(q) + Len(r)) :
         (q \o r)[i] = IF i <= Len(q) THEN q[i] ELSE r[i - Len(q)]
  BY <1>2, <1>3
<1> QED
  BY <1>3, <1>4, <1>5, <1>6, SeqIsScript

\* Scripts of one, two and no steps.
LEMMA Script1 ==
    ASSUME NEW x
    PROVE  IsScript(<<x>>) /\ Len(<<x>>) = 1 /\ <<x>>[1] = x
<1>1. <<x>> \in Seq({x})
  OBVIOUS
<1> QED
  BY <1>1, SeqIsScript

LEMMA Script2 ==
    ASSUME NEW x, NEW y
    PROVE  IsScript(<<x, y>>) /\ Len(<<x, y>>) = 2
             /\ <<x, y>>[1] = x /\ <<x, y>>[2] = y
<1>1. <<x, y>> \in Seq({x, y})
  OBVIOUS
<1> QED
  BY <1>1, SeqIsScript

LEMMA Script0 == IsScript(<<>>) /\ Len(<<>>) = 0
<1>1. <<>> \in Seq({})
  OBVIOUS
<1> QED
  BY <1>1, SeqIsScript

\* A script without steps is <<>>.
LEMMA ScriptNonempty ==
    ASSUME NEW q, IsScript(q), q # <<>>
    PROVE  Len(q) \in Nat /\ Len(q) > 0
<1> DEFINE S == Range(q)
<1>1. q \in Seq(S)
  BY DEF IsScript
<1> HIDE DEF S
<1> QED
  BY <1>1, LenProperties, EmptySeq

-----------------------------------------------------------------------------
(* Numbers.                                                                 *)

\* The smaller and the greater of numbers.
LEMMA LeastIs ==
    ASSUME NEW a \in Int, NEW b \in Int
    PROVE  Least(a, b) = IF a <= b THEN a ELSE b
<1> DEFINE m == IF a <= b THEN a ELSE b
<1>1. m \in {a, b} /\ \A y \in {a, b} : m <= y
  OBVIOUS
<1>2. \A x \in {a, b} : (\A y \in {a, b} : x <= y) => x = m
  OBVIOUS
<1> HIDE DEF m
<1>3. Least(a, b) = m
  BY <1>1, <1>2 DEF Least, Min
<1> QED
  BY <1>3 DEF m

LEMMA MaxIs ==
    ASSUME NEW a \in Int, NEW b \in Int
    PROVE  Max({a, b}) = IF a >= b THEN a ELSE b
<1> DEFINE m == IF a >= b THEN a ELSE b
<1>1. m \in {a, b} /\ \A y \in {a, b} : m >= y
  OBVIOUS
<1>2. \A x \in {a, b} : (\A y \in {a, b} : x >= y) => x = m
  OBVIOUS
<1> HIDE DEF m
<1>3. Max({a, b}) = m
  BY <1>1, <1>2 DEF Max
<1> QED
  BY <1>3 DEF m

LEMMA Max3Is ==
    ASSUME NEW a \in Int, NEW b \in Int, NEW c \in Int
    PROVE  /\ Max({a, b, c}) \in {a, b, c} /\ Max({a, b, c}) >= a
           /\ Max({a, b, c}) >= b /\ Max({a, b, c}) >= c
<1> DEFINE m == IF a >= b /\ a >= c THEN a ELSE IF b >= c THEN b ELSE c
<1>1. m \in {a, b, c} /\ \A y \in {a, b, c} : m >= y
  OBVIOUS
<1> HIDE DEF m
<1>2. \E x \in {a, b, c} : \A y \in {a, b, c} : x >= y
  BY <1>1
<1>3. Max({a, b, c}) \in {a, b, c} /\ \A y \in {a, b, c} : Max({a, b, c}) >= y
  BY <1>2 DEF Max
<1> QED
  BY <1>3

-----------------------------------------------------------------------------
(* Steps of a body.                                                         *)

\* A step that is in order stays so when more has been copied.
LEMMA SideMore ==
    ASSUME NEW c, NEW s, NEW g, NEW h, Side(s, g, c), g \subseteq h
    PROVE  Side(s, h, c)
BY DEF Side

\* Every body but the shortest has a first step that is no status.
LEMMA BodyLong ==
    ASSUME NEW q, NEW c, NEW g, NEW arr, NEW w, Body(q, c, g, arr, w),
           q[1].op # "put"
    PROVE  Len(q) > 1
<1>1. Len(q) \in Nat
  BY LenProperties DEF Body, IsScript
<1> QED
  BY <1>1 DEF Body

\* The first step is taken: what is copied grows, the arrays change only when
\* no list is left, and a copy is paid for.
LEMMA BodyTail ==
    ASSUME NEW q, NEW c, NEW g, NEW arr, NEW w \in Int,
           NEW h, NEW arr2, NEW w2 \in Int,
           Body(q, c, g, arr, w), q[1].op \notin {"put", "indirect"},
           g \subseteq h, q[1].op = "inner" => h = g,
           q[1].op = "list" => arr2 = arr,
           w2 >= w - 1, q[1].op \in {"inner", "show"} => w2 >= w
    PROVE  Body(Tail(q), c, h, arr2, w2)
<1> DEFINE n == Len(q)
           r == Tail(q)
<1>1. IsScript(q) /\ n > 1
  BY BodyLong DEF Body
<1>2. n \in Nat /\ IsScript(r) /\ Len(r) = n - 1
        /\ \A i \in 1..(n - 1) : r[i] = q[i + 1]
  BY <1>1, ScriptTail
<1>3. r[n - 1] = q[n] /\ r[1] = q[2]
  BY <1>1, <1>2
<1> HIDE DEF r
<1>4. q[n].op = "put" /\ TrueStatus(q[n].status, c, h)
        /\ q[n].status # "arg_unreadable"
        /\ (q[n].status = "params_unreadable" => n = 2)
  <2>1. q[n].status # "arg_unreadable"
    BY <1>1, <1>2 DEF Body
  <2>2. q[n].status = "params_unreadable" => n = 2 /\ h = g
    BY <1>1, <1>2 DEF Body
  <2>3. q[n].op = "put" /\ TrueStatus(q[n].status, c, g)
    BY DEF Body
  <2> QED
    BY <2>1, <2>2, <2>3 DEF TrueStatus
<1>5. ASSUME NEW i \in 1..(n - 2)
      PROVE  \/ Side(r[i], h, c)
             \/ i = n - 2 /\ r[i].op = "inner" /\ (r[i].status = "ok" => "params" \in h)
  <2>1. i + 1 \in 1..(n - 1) /\ r[i] = q[i + 1] /\ (i + 1 = n - 1 => i = n - 2)
    BY <1>2
  <2>2. \/ Side(q[i + 1], g, c)
        \/ i + 1 = n - 1 /\ q[i + 1].op = "inner"
             /\ (q[i + 1].status = "ok" => "params" \in g)
    BY <2>1 DEF Body
  <2> QED
    BY <2>1, <2>2, SideMore
<1>6. ASSUME NEW i \in 1..(n - 2), r[i].op = "list"
      PROVE  r[i].cap \in arr2 /\ \A j \in 1..(i - 1) : r[j].op = "list"
  <2>1. i + 1 \in 1..(n - 1) /\ r[i] = q[i + 1] /\ 1 \in 1..(i + 1 - 1)
    BY <1>2
  <2>2. q[i + 1].cap \in arr /\ \A j \in 1..(i + 1 - 1) : q[j].op = "list"
    BY <2>1, <1>6 DEF Body
  <2>3. arr2 = arr
    BY <2>1, <2>2
  <2>4. ASSUME NEW j \in 1..(i - 1) PROVE r[j].op = "list"
    <3>1. j + 1 \in 1..(i + 1 - 1) /\ r[j] = q[j + 1]
      BY <1>2
    <3> QED
      BY <2>2, <3>1
  <2> QED
    BY <2>1, <2>2, <2>3, <2>4
<1>7. ASSUME NEW i \in 1..(n - 2) PROVE r[i].op # "indirect"
  <2>1. i + 1 \in 1..(n - 1) /\ r[i] = q[i + 1] /\ i + 1 # 1
    BY <1>2
  <2> QED
    BY <2>1 DEF Body
<1>8. Work(r) <= w2
  <2>1. r[1].op # "indirect"
    <3>1. CASE n = 2
      BY <3>1, <1>3, <1>4
    <3>2. CASE n # 2
      <4>1. 1 \in 1..(n - 2)
        BY <3>2, <1>1, <1>2
      <4> QED
        BY <4>1, <1>7
    <3> QED
      BY <3>1, <3>2
  <2>2. Work(q) <= w
    BY DEF Body
  <2>3. CASE n = 2
    <3>1. Work(r) = 0
      BY <2>3, <1>2, <2>1 DEF Work
    <3>2. Work(q) = IF q[1].op \in {"inner", "show"} THEN 0 ELSE 1
      BY <2>3 DEF Work
    <3> QED
      BY <3>1, <3>2, <2>2
  <2>4. CASE n # 2
    <3>1. r[n - 2] = q[n - 1]
      <4>1. n - 2 \in 1..(n - 1) /\ n - 2 + 1 = n - 1
        BY <2>4, <1>1, <1>2
      <4> QED
        BY <4>1, <1>2
    <3>2. Work(r) = n - 2 - (IF q[n - 1].op \in {"inner", "show"} THEN 1 ELSE 0)
      <4>1. n - 1 > 1 /\ n - 1 - 1 = n - 2 /\ Len(r) = n - 1
        BY <2>4, <1>1, <1>2
      <4> QED
        BY <4>1, <3>1, <1>2, <2>1 DEF Work
    <3>3. Work(q) = n - 1 - (IF q[n - 1].op \in {"inner", "show"} THEN 1 ELSE 0)
      BY <1>1 DEF Work
    <3> QED
      BY <1>2, <3>2, <3>3, <2>2
  <2> QED
    BY <2>3, <2>4
<1>9. Len(r) - 1 = n - 2 /\ Len(r) > 0 /\ (n = 2 => Len(r) = 1)
  BY <1>1, <1>2
<1>10. r[Len(r)] = q[n]
  BY <1>2, <1>3
<1>11. \A i \in 1..(Len(r) - 1) :
          \/ Side(r[i], h, c)
          \/ i = Len(r) - 1 /\ r[i].op = "inner"
               /\ (r[i].status = "ok" => "params" \in h)
  BY <1>5, <1>9
<1>12. \A i \in 1..(Len(r) - 1) : r[i].op = "list" =>
          r[i].cap \in arr2 /\ \A j \in 1..(i - 1) : r[j].op = "list"
  BY <1>6, <1>9
<1>13. \A i \in 1..(Len(r) - 1) : r[i].op = "indirect" => i = 1
  BY <1>7, <1>9
<1>14. /\ r[Len(r)].op = "put" /\ TrueStatus(r[Len(r)].status, c, h)
       /\ r[Len(r)].status = "arg_unreadable" => Len(r) = 1
       /\ r[Len(r)].status = "params_unreadable" =>
            Len(r) = 1 \/ (Len(r) = 2 /\ r[1].op = "inner")
  BY <1>4, <1>9, <1>10
<1> HIDE DEF n
<1>15. Body(r, c, h, arr2, w2)
  BY <1>2, <1>8, <1>9, <1>11, <1>12, <1>13, <1>14 DEF Body
<1> QED
  BY <1>15 DEF r

\* A branch of a body is taken.
LEMMA BodyBranch ==
    ASSUME NEW q, NEW c, NEW g, NEW arr, NEW w \in Int, NEW s,
           Body(q, c, g, arr, w), q[1].op = "oneof", TryRead(s, c)
    PROVE  Body(<<s>> \o Tail(q), c, g, arr, w)
<1> DEFINE n == Len(q)
           r == <<s>> \o Tail(q)
<1>1. IsScript(q) /\ n > 1
  BY BodyLong DEF Body
<1>2. n \in Nat /\ IsScript(Tail(q)) /\ Len(Tail(q)) = n - 1
        /\ \A i \in 1..(n - 1) : Tail(q)[i] = q[i + 1]
  BY <1>1, ScriptTail
<1>3. IsScript(<<s>>) /\ Len(<<s>>) = 1 /\ <<s>>[1] = s
  BY Script1
<1>4. IsScript(r) /\ Len(r) = n /\ r[1] = s
        /\ \A i \in 2..n : r[i] = q[i]
  <2>1. IsScript(r) /\ Len(r) = 1 + (n - 1)
          /\ \A i \in 1..(1 + (n - 1)) :
               r[i] = IF i <= 1 THEN <<s>>[i] ELSE Tail(q)[i - 1]
    BY <1>2, <1>3, ScriptConcat
  <2>2. ASSUME NEW i \in 2..n PROVE r[i] = q[i]
    <3>1. i - 1 \in 1..(n - 1) /\ i \in 1..(1 + (n - 1)) /\ ~(i <= 1)
             /\ i - 1 + 1 = i
      BY <1>2
    <3> QED
      BY <2>1, <3>1, <1>2
  <2>3. 1 \in 1..(1 + (n - 1)) /\ 1 + (n - 1) = n
    BY <1>1, <1>2
  <2> QED
    BY <2>1, <2>2, <2>3, <1>3
<1>5. Side(s, g, c) /\ s.op = "read"
  BY DEF Side, TryRead, InsideRoom
<1>6. n \in 2..n /\ \A i \in 1..(n - 1) : i # 1 => i \in 2..n
  BY <1>1, <1>2
<1> HIDE DEF r
<1>7. \A i \in 1..(n - 1) :
         \/ Side(r[i], g, c)
         \/ i = n - 1 /\ r[i].op = "inner" /\ (r[i].status = "ok" => "params" \in g)
  BY <1>4, <1>5, <1>6 DEF Body
<1>8. \A i \in 1..(n - 1) : r[i].op # "list"
  <2>1. \A i \in 2..(n - 1) : q[i].op # "list"
    <3> SUFFICES ASSUME NEW i \in 2..(n - 1), q[i].op = "list" PROVE FALSE
      OBVIOUS
    <3>1. i \in 1..(n - 1) /\ 1 \in 1..(i - 1)
      BY <1>2
    <3> QED
      BY <3>1 DEF Body
  <2> QED
    BY <2>1, <1>2, <1>4, <1>5, <1>6
<1>9. \A i \in 1..(n - 1) : r[i].op # "indirect"
  BY <1>4, <1>5, <1>6 DEF Body
<1>10. Work(r) <= w
  <2>1. Work(q) <= w
    BY DEF Body
  <2>2. CASE n = 2
    BY <2>1, <2>2, <1>4, <1>5 DEF Work
  <2>3. CASE n # 2
    <3>1. r[n - 1] = q[n - 1]
      BY <2>3, <1>1, <1>2, <1>4
    <3> QED
      BY <3>1, <2>1, <1>1, <1>2, <1>4, <1>5 DEF Work
  <2> QED
    BY <2>2, <2>3
<1>11. q[n].op = "put" /\ TrueStatus(q[n].status, c, g)
         /\ q[n].status # "arg_unreadable" /\ q[n].status # "params_unreadable"
  BY <1>1, <1>2 DEF Body
<1>12. r[n] = q[n]
  BY <1>4, <1>6
<1>13. Len(r) = n /\ n > 0
  BY <1>1, <1>2, <1>4
<1> HIDE DEF n
<1>14. \A i \in 1..(Len(r) - 1) :
          \/ Side(r[i], g, c)
          \/ i = Len(r) - 1 /\ r[i].op = "inner"
               /\ (r[i].status = "ok" => "params" \in g)
  BY <1>7, <1>13
<1>15. \A i \in 1..(Len(r) - 1) : r[i].op # "list" /\ r[i].op # "indirect"
  BY <1>8, <1>9, <1>13
<1>16. /\ r[Len(r)].op = "put" /\ TrueStatus(r[Len(r)].status, c, g)
       /\ r[Len(r)].status # "arg_unreadable"
       /\ r[Len(r)].status # "params_unreadable" /\ Len(r) > 0
  BY <1>11, <1>12, <1>13
<1>17. Body(r, c, g, arr, w)
  BY <1>4, <1>10, <1>14, <1>15, <1>16 DEF Body
<1> QED
  BY <1>17 DEF r

\* The arrays behind pointers take the place of the step that announces them.
LEMMA BodyArrays ==
    ASSUME NEW q, NEW c, NEW g, NEW arr, NEW w \in Int, NEW x,
           Body(q, c, g, arr, w), q[1].op = "indirect", q[1].copies \in {1, 2},
           Following(x), x.op = "array"
    PROVE  Body([i \in 1..q[1].copies |-> x] \o Tail(q), c, g, arr, w)
<1> DEFINE n == Len(q)
           k == q[1].copies
           y == [i \in 1..k |-> x]
           r == y \o Tail(q)
<1>1. IsScript(q) /\ n > 1 /\ k \in {1, 2}
  BY BodyLong DEF Body
<1>2. n \in Nat /\ IsScript(Tail(q)) /\ Len(Tail(q)) = n - 1
        /\ \A i \in 1..(n - 1) : Tail(q)[i] = q[i + 1]
  BY <1>1, ScriptTail
<1>3. IsScript(y) /\ Len(y) = k /\ \A i \in 1..k : y[i] = x
  <2>1. k \in Nat
    BY <1>1
  <2>2. y \in Seq({x}) /\ Len(y) = k
    <3> HIDE DEF k
    <3> QED
      BY <2>1, IsASeq
  <2> QED
    BY <2>2, SeqIsScript
<1> HIDE DEF y
<1>4. IsScript(r) /\ Len(r) = n + k - 1 /\ (\A i \in 1..k : r[i] = x)
        /\ \A i \in (k + 1)..(n + k - 1) : r[i] = q[i - k + 1]
  <2>1. IsScript(r) /\ Len(r) = k + (n - 1)
          /\ \A i \in 1..(k + (n - 1)) :
               r[i] = IF i <= k THEN y[i] ELSE Tail(q)[i - k]
    <3>1. Len(y) = k /\ Len(Tail(q)) = n - 1
      BY <1>2, <1>3
    <3>2. IsScript(r) /\ Len(r) = Len(y) + Len(Tail(q))
            /\ \A i \in 1..(Len(y) + Len(Tail(q))) :
                 r[i] = IF i <= Len(y) THEN y[i] ELSE Tail(q)[i - Len(y)]
      BY <1>2, <1>3, ScriptConcat
    <3> HIDE DEF r
    <3> QED
      BY <3>1, <3>2
  <2>2. k + (n - 1) = n + k - 1
    BY <1>1, <1>2
  <2>3. ASSUME NEW i \in (k + 1)..(n + k - 1) PROVE r[i] = q[i - k + 1]
    <3>1. i - k \in 1..(n - 1) /\ i \in 1..(k + (n - 1)) /\ ~(i <= k)
      BY <1>1, <1>2
    <3> QED
      BY <2>1, <3>1, <1>2
  <2>4. ASSUME NEW i \in 1..k PROVE r[i] = x
    <3>1. i \in 1..(k + (n - 1)) /\ i <= k
      BY <1>1, <1>2
    <3> QED
      BY <2>1, <3>1, <1>3
  <2> QED
    BY <2>1, <2>2, <2>3, <2>4
<1> HIDE DEF r
<1>5. Side(x, g, c)
  BY DEF Side
<1> DEFINE m == n + k - 1
<1>6. m \in Nat /\ m > 0 /\ m \in (k + 1)..m /\ m - k + 1 = n
        /\ \A i \in 1..(m - 1) : i \notin 1..k =>
             i \in (k + 1)..m /\ i - k + 1 \in 2..(n - 1)
               /\ (i - k + 1 = n - 1 => i = m - 1)
  <2>1. k \in Nat /\ k >= 1 /\ k <= 2 /\ n \in Nat /\ n > 1
    BY <1>1, <1>2
  <2> HIDE DEF k, n
  <2> QED
    BY <2>1
<1>7. r[m] = q[n]
  BY <1>4, <1>6
<1>8. q[n].op = "put" /\ TrueStatus(q[n].status, c, g)
         /\ q[n].status # "arg_unreadable" /\ q[n].status # "params_unreadable"
  BY <1>1, <1>2 DEF Body
<1>9. ASSUME NEW i \in 1..(m - 1)
      PROVE  /\ \/ Side(r[i], g, c)
                \/ i = m - 1 /\ r[i].op = "inner"
                     /\ (r[i].status = "ok" => "params" \in g)
             /\ r[i].op # "list" /\ r[i].op # "indirect"
  <2>1. CASE i \in 1..k
    BY <2>1, <1>4, <1>5
  <2>2. CASE i \notin 1..k
    <3>1. PICK j \in 2..(n - 1) : j = i - k + 1
      BY <2>2, <1>6
    <3>2. r[i] = q[j] /\ (j = n - 1 => i = m - 1)
      BY <2>2, <3>1, <1>4, <1>6
    <3>3. j \in 1..(n - 1) /\ 1 \in 1..(j - 1) /\ j # 1
      BY <1>2
    <3> QED
      BY <3>2, <3>3 DEF Body
  <2> QED
    BY <2>1, <2>2
<1>10. Work(r) <= w
  <2>1. Work(q) <= w
    BY DEF Body
  <2>2. r[1].op = "array"
    BY <1>1, <1>4
  <2>3. CASE n = 2
    <3>1. m - 1 = k /\ m - 1 \in 1..k
      BY <2>3, <1>1
    <3>2. r[m - 1].op = "array"
      BY <3>1, <1>4
    <3>3. Work(r) = m - 1
      <4>1. Len(r) = m /\ m \in Nat
        BY <1>4, <1>6
      <4> HIDE DEF m
      <4> QED
        BY <3>2, <2>2, <4>1 DEF Work
    <3>4. Work(q) = k
      BY <2>3, <1>1 DEF Work
    <3> QED
      BY <3>1, <3>3, <3>4, <2>1
  <2>4. CASE n # 2
    <3>1. m - 1 \in (k + 1)..m /\ m - 1 - k + 1 = n - 1 /\ m > 1
      <4>1. k \in Nat /\ k >= 1 /\ k <= 2
        BY <1>1
      <4>2. n \in Nat /\ n > 1
        BY <1>1, <1>2
      <4> HIDE DEF k, n
      <4>3. n > 2
        BY <2>4, <4>2
      <4> QED
        BY <4>1, <4>2, <4>3
    <3>2. r[m - 1] = q[n - 1]
      BY <3>1, <1>4
    <3>3. Work(r) = m - 1 - (IF q[n - 1].op \in {"inner", "show"} THEN 1 ELSE 0)
      <4>1. Len(r) = m /\ m \in Nat /\ m > 1
        BY <1>4, <1>6, <3>1
      <4> HIDE DEF m
      <4> QED
        BY <3>2, <2>2, <4>1 DEF Work
    <3>4. Work(q) = n - 1 - (IF q[n - 1].op \in {"inner", "show"} THEN 1 ELSE 0)
                       + (k - 1)
      BY <1>1 DEF Work
    <3> QED
      BY <3>3, <3>4, <2>1, <1>1, <1>2
  <2> QED
    BY <2>3, <2>4
<1>11. Len(r) = m
  BY <1>4
<1> HIDE DEF m, n
<1>12. \A i \in 1..(Len(r) - 1) :
          \/ Side(r[i], g, c)
          \/ i = Len(r) - 1 /\ r[i].op = "inner"
               /\ (r[i].status = "ok" => "params" \in g)
  BY <1>9, <1>11
<1>13. \A i \in 1..(Len(r) - 1) : r[i].op # "list" /\ r[i].op # "indirect"
  BY <1>9, <1>11
<1>14. /\ r[Len(r)].op = "put" /\ TrueStatus(r[Len(r)].status, c, g)
       /\ r[Len(r)].status # "arg_unreadable"
       /\ r[Len(r)].status # "params_unreadable" /\ Len(r) > 0
  BY <1>6, <1>7, <1>8, <1>11
<1>15. Body(r, c, g, arr, w)
  BY <1>4, <1>10, <1>12, <1>13, <1>14 DEF Body
<1> QED
  BY <1>15 DEF r, y

\* A body of one step.
LEMMA BodyPut ==
    ASSUME NEW s, NEW c, NEW g, NEW arr, NEW w \in Nat,
           s.op = "put", TrueStatus(s.status, c, g)
    PROVE  Body(<<s>>, c, g, arr, w)
<1>1. IsScript(<<s>>) /\ Len(<<s>>) = 1 /\ <<s>>[1] = s
  BY Script1
<1>2. Work(<<s>>) = 0
  BY <1>1 DEF Work
<1> HIDE DEF Work
<1> QED
  BY <1>1, <1>2 DEF Body

-----------------------------------------------------------------------------
(* Folds.  The induction theorems of the library take an operator, so the    *)
(* induction is over a set of numbers.                                      *)

\* A nonempty set of natural numbers has a least element.
LEMMA LeastNumber ==
    ASSUME NEW T \in SUBSET Nat, T # {}
    PROVE  \E x \in T : \A y \in T : x <= y
<1> DEFINE R == {ss \in Nat \X Nat : ss[1] < ss[2]}
<1>1. OpToRel(<, Nat) = R
  BY DEF OpToRel
<1>2. IsWellFoundedOn(R, Nat)
  BY <1>1, NatLessThanWellFounded
<1>3. PICK x \in T : \A y \in T : ~(<<y, x>> \in R)
  <2> HIDE DEF R
  <2> QED
    BY <1>2, WFMin
<1>4. \A y \in T : x <= y
  <2> TAKE y \in T
  <2>1. x \in Nat /\ y \in Nat /\ ~(y < x)
    BY <1>3
  <2> QED
    BY <2>1
<1> QED
  BY <1>4

\* A nonempty set of numbers up to n has a greatest element.
LEMMA MaxInSet ==
    ASSUME NEW n \in Nat, NEW s \in SUBSET (1..n), s # {}
    PROVE  Max(s) \in s /\ \A y \in s : y <= Max(s)
<1> DEFINE T == {k \in Nat : \A y \in s : y <= k}
<1>1. n \in T /\ T \in SUBSET Nat
  OBVIOUS
<1>2. PICK x \in T : \A k \in T : x <= k
  <2> HIDE DEF T
  <2> QED
    BY <1>1, LeastNumber
<1>3. x \in s
  <2> SUFFICES ASSUME x \notin s PROVE FALSE
    OBVIOUS
  <2>1. x \in Nat /\ \A y \in s : y \in Nat /\ y >= 1 /\ y <= x /\ y # x
    BY <1>2
  <2>2. PICK z \in s : TRUE
    OBVIOUS
  <2>4. x - 1 \in Nat
    BY <2>1, <2>2
  <2>5. \A y \in s : y <= x - 1
    BY <2>1
  <2>3. x - 1 \in T /\ ~(x <= x - 1)
    BY <2>1, <2>4, <2>5
  <2> QED
    BY <1>2, <2>3
<1>4. \A y \in s : x >= y
  BY <1>2
<1>5. \E z \in s : \A y \in s : z >= y
  BY <1>3, <1>4
<1>6. Max(s) \in s /\ \A y \in s : Max(s) >= y
  BY <1>5 DEF Max
<1> QED
  BY <1>6

\* f folds the functions of G over the subsets of D, the greatest index last.
Folds(f, D, base, G) ==
    f = [s \in SUBSET D |->
           IF s = {} THEN base ELSE G[Max(s)][f[s \ {Max(s)}]]]

\* There is such a function.
LEMMA FoldExists ==
    ASSUME NEW n \in Nat, NEW base \in Nat, NEW G \in [1..n -> [Nat -> Nat]]
    PROVE  \E f \in [SUBSET (1..n) -> Nat] : Folds(f, 1..n, base, G)
<1> DEFINE P == {m \in 0..n :
                   \E f \in [SUBSET (1..m) -> Nat] : Folds(f, 1..m, base, G)}
<1>1. 0 \in P
  <2> DEFINE f == [s \in SUBSET (1..0) |-> base]
  <2>1. f \in [SUBSET (1..0) -> Nat]
    OBVIOUS
  <2>2. \A s \in SUBSET (1..0) : s = {}
    OBVIOUS
  <2>3. Folds(f, 1..0, base, G)
    <3>1. [s \in SUBSET (1..0) |->
             IF s = {} THEN base ELSE G[Max(s)][f[s \ {Max(s)}]]]
           = [s \in SUBSET (1..0) |-> base]
      BY <2>2
    <3> QED
      BY <3>1 DEF Folds
  <2>4. 0 \in 0..n
    OBVIOUS
  <2> HIDE DEF f
  <2> QED
    BY <2>1, <2>3, <2>4
<1>2. ASSUME NEW m \in 0..(n - 1), m \in P PROVE m + 1 \in P
  <2>1. PICK f \in [SUBSET (1..m) -> Nat] : Folds(f, 1..m, base, G)
    BY <1>2
  <2>2. PICK k \in 1..n : k = m + 1
    OBVIOUS
  <2> DEFINE h == [s \in SUBSET (1..k) |->
                     IF k \in s THEN G[k][f[s \ {k}]] ELSE f[s]]
  <2>3. ASSUME NEW s \in SUBSET (1..k)
        PROVE  s \ {k} \in SUBSET (1..m) /\ (k \notin s => s \in SUBSET (1..m))
    <3>1. \A i \in 1..k : i # k => i \in 1..m
      BY <2>2
    <3> QED
      BY <3>1
  <2>4. h \in [SUBSET (1..k) -> Nat]
    <3>1. ASSUME NEW s \in SUBSET (1..k)
          PROVE  (IF k \in s THEN G[k][f[s \ {k}]] ELSE f[s]) \in Nat
      <4>1. G[k] \in [Nat -> Nat]
        BY <2>2
      <4> QED
        BY <2>3, <4>1
    <3> QED
      BY <3>1
  <2>5. ASSUME NEW s \in SUBSET (1..k)
        PROVE  h[s] = IF s = {} THEN base ELSE G[Max(s)][h[s \ {Max(s)}]]
    <3>1. CASE k \in s
      <4>1. Max(s) = k
        <5>1. k \in Nat /\ \A y \in s : y <= k
          OBVIOUS
        <5>2. Max(s) \in s /\ \A y \in s : y <= Max(s)
          <6>1. k \in Nat /\ s # {}
            BY <3>1
          <6> HIDE DEF h
          <6> QED
            BY <6>1, MaxInSet
        <5>3. Max(s) \in Nat
          <6>1. Max(s) \in 1..k
            BY <5>2
          <6> QED
            BY <6>1
        <5> QED
          BY <3>1, <5>1, <5>2, <5>3
      <4>2. s \ {k} \in SUBSET (1..k) /\ h[s \ {k}] = f[s \ {k}]
        OBVIOUS
      <4> QED
        BY <3>1, <4>1, <4>2
    <3>2. CASE k \notin s
      <4>1. s \in SUBSET (1..m) /\ h[s] = f[s]
        BY <3>2, <2>3
      <4>2. f[s] = IF s = {} THEN base ELSE G[Max(s)][f[s \ {Max(s)}]]
        <5> HIDE DEF h
        <5> QED
          BY <4>1, <2>1 DEF Folds
      <4>3. h[s \ {Max(s)}] = f[s \ {Max(s)}]
        <5>1. s \ {Max(s)} \in SUBSET (1..k) /\ k \notin s \ {Max(s)}
          BY <3>2
        <5> QED
          BY <5>1
      <4> QED
        BY <4>1, <4>2, <4>3
    <3> QED
      BY <3>1, <3>2
  <2>6. Folds(h, 1..k, base, G)
    <3>1. h = [s \in SUBSET (1..k) |-> h[s]]
      OBVIOUS
    <3> HIDE DEF h
    <3> QED
      BY <2>5, <3>1 DEF Folds
  <2>7. k \in 0..n
    BY <2>2
  <2> HIDE DEF h
  <2> QED
    BY <2>2, <2>4, <2>6, <2>7
<1>3. n \in P
  <2> DEFINE T == (0..n) \ P
  <2> SUFFICES ASSUME T # {} PROVE FALSE
    <3>1. n \in 0..n
      OBVIOUS
    <3> HIDE DEF P
    <3> QED
      BY <3>1
  <2>1. PICK x \in T : \A y \in T : x <= y
    <3>1. T \in SUBSET Nat
      OBVIOUS
    <3> HIDE DEF T
    <3> QED
      BY <3>1, LeastNumber
  <2>2. x \in Nat /\ x <= n /\ x \notin P
    <3> HIDE DEF P
    <3>1. x \in 0..n /\ x \notin P
      BY <2>1
    <3> QED
      BY <3>1
  <2>3. x # 0
    <3> HIDE DEF P
    <3> QED
      BY <1>1, <2>2
  <2>4. x - 1 \in 0..(n - 1) /\ x - 1 \in 0..n /\ ~(x <= x - 1) /\ x - 1 + 1 = x
    BY <2>2, <2>3
  <2>5. x - 1 \in P
    <3> HIDE DEF P
    <3> QED
      BY <2>1, <2>4
  <2> HIDE DEF P
  <2> QED
    BY <1>2, <2>2, <2>4, <2>5
<1> QED
  BY <1>3

-----------------------------------------------------------------------------
(* Layouts.                                                                 *)

Aligns == {1, 2, 4, 8}

Type == [size : Nat \ {0}, align : Aligns, lens : SUBSET Nat]

\* Rounding up to an alignment gives a multiple of it, and not less.
LEMMA RoundUpIs ==
    ASSUME NEW n \in Nat, NEW a \in Aligns
    PROVE  RoundUp(n, a) \in Nat /\ RoundUp(n, a) >= n
<1>1. CASE a = 1
  BY <1>1 DEF RoundUp
<1>2. CASE a = 2
  BY <1>2 DEF RoundUp
<1>3. CASE a = 4
  BY <1>3 DEF RoundUp
<1>4. CASE a = 8
  BY <1>4 DEF RoundUp
<1> QED
  BY <1>1, <1>2, <1>3, <1>4 DEF Aligns

\* The integer types and arrays of a type are types.
LEMMA BaseTypes ==
    /\ U8 \in Type /\ U16 \in Type /\ U32 \in Type /\ U64 \in Type
    /\ U8.size = 1 /\ U16.size = 2 /\ U32.size = 4 /\ U64.size = 8
    /\ U8.align = 1 /\ U16.align = 2 /\ U32.align = 4 /\ U64.align = 8
BY DEF U8, U16, U32, U64, Type, Aligns

LEMMA ArrType ==
    ASSUME NEW n \in Nat \ {0}, NEW t \in Type
    PROVE  /\ Arr(n, t) \in Type /\ Arr(n, t).size = n * t.size
           /\ Arr(n, t).align = t.align /\ Arr(n, t).lens = t.lens \cup {n}
<1>1. /\ Arr(n, t).size = n * t.size /\ Arr(n, t).align = t.align
      /\ Arr(n, t).lens = t.lens \cup {n}
  BY DEF Arr, Type
<1>2. t.size \in Nat \ {0} /\ t.align \in Aligns /\ t.lens \in SUBSET Nat
  BY DEF Type
<1>3. n * t.size \in Nat \ {0}
  <2>1. n \in Nat /\ n > 0 /\ t.size \in Nat /\ t.size > 0
    BY <1>2
  <2> QED
    BY <2>1
<1>4. Arr(n, t) \in Type
  BY <1>2, <1>3 DEF Arr, Type
<1> QED
  BY <1>1, <1>4

\* Where the fields end, one after the other.
LEMMA EndOfIs ==
    ASSUME NEW fields \in Seq(Type)
    PROVE  \E e \in [0..Len(fields) -> Nat] :
             /\ e[0] = 0 /\ EndOf(fields) = e[Len(fields)]
             /\ \A k \in 1..Len(fields) :
                  e[k] = RoundUp(e[k - 1], fields[k].align) + fields[k].size
<1> DEFINE n == Len(fields)
           D == DOMAIN fields
           G == [i \in 1..n |-> [x \in Nat |->
                   RoundUp(x, fields[i].align) + fields[i].size]]
<1>1. n \in Nat /\ D = 1..n /\ \A i \in 1..n : fields[i] \in Type
  BY LenProperties, ElementOfSeq
<1>2. G \in [1..n -> [Nat -> Nat]]
  <2>1. ASSUME NEW i \in 1..n, NEW x \in Nat
        PROVE  RoundUp(x, fields[i].align) + fields[i].size \in Nat
    <3>1. fields[i].align \in Aligns /\ fields[i].size \in Nat
      BY <1>1 DEF Type
    <3>2. RoundUp(x, fields[i].align) \in Nat
      BY <3>1, RoundUpIs
    <3> QED
      BY <3>1, <3>2
  <2> QED
    BY <2>1
<1>3. \A g : (g \in [SUBSET (1..n) -> Nat] /\ Folds(g, 1..n, 0, G)) =>
         g = [s \in SUBSET D |->
                IF s = {} THEN 0
                ELSE RoundUp(g[s \ {Max(s)}], fields[Max(s)].align)
                       + fields[Max(s)].size]
  <2> TAKE g
  <2> HAVE g \in [SUBSET (1..n) -> Nat] /\ Folds(g, 1..n, 0, G)
  <2>1. ASSUME NEW s \in SUBSET (1..n), s # {}
        PROVE  G[Max(s)][g[s \ {Max(s)}]] =
                 RoundUp(g[s \ {Max(s)}], fields[Max(s)].align)
                   + fields[Max(s)].size
    <3>1. Max(s) \in 1..n
      <4>1. Max(s) \in s
        BY <1>1, <2>1, MaxInSet
      <4> QED
        BY <4>1
    <3>2. g[s \ {Max(s)}] \in Nat
      OBVIOUS
    <3> QED
      BY <3>1, <3>2
  <2> HIDE DEF G, n, D
  <2> QED
    BY <1>1, <2>1 DEF Folds
<1> DEFINE Q(g) == g = [s \in SUBSET D |->
                          IF s = {} THEN 0
                          ELSE RoundUp(g[s \ {Max(s)}], fields[Max(s)].align)
                                 + fields[Max(s)].size]
           f == CHOOSE g : Q(g)
<1>4. EndOf(fields) = f[D]
  BY DEF EndOf, FoldLeft, MapThenFoldSet
<1>5. Q(f)
  <2>1. PICK g \in [SUBSET (1..n) -> Nat] : Folds(g, 1..n, 0, G)
    <3> HIDE DEF G, n
    <3> QED
      BY <1>1, <1>2, FoldExists
  <2>2. Q(g)
    <3> HIDE DEF G, n, D
    <3> QED
      BY <1>3, <2>1
  <2> QED
    BY <2>2
<1> HIDE DEF f
<1>6. f[1..0] = 0
  <2>1. (1..0) = {} /\ (1..0) \in SUBSET D
    OBVIOUS
  <2> QED
    BY <1>5, <2>1
<1>7. ASSUME NEW k \in 1..n
      PROVE  f[1..k] = RoundUp(f[1..(k - 1)], fields[k].align) + fields[k].size
  <2> HIDE DEF n
  <2>4. (1..k) \in SUBSET (1..n) /\ k \in 1..k /\ (1..k) \ {k} = 1..(k - 1)
          /\ k \in Nat
    BY <1>1
  <2> HIDE DEF D
  <2>1. (1..k) \in SUBSET D /\ k \in 1..k /\ (1..k) \ {k} = 1..(k - 1)
          /\ k \in Nat /\ 1..k # {}
    BY <1>1, <2>4
  <2>2. Max(1..k) = k
    <3>1. Max(1..k) \in 1..k /\ \A y \in 1..k : y <= Max(1..k)
      BY <2>1, MaxInSet
    <3> QED
      BY <2>1, <3>1
  <2>3. f[1..k] = RoundUp(f[(1..k) \ {Max(1..k)}], fields[Max(1..k)].align)
                     + fields[Max(1..k)].size
    <3> HIDE DEF D
    <3> QED
      BY <1>5, <2>1
  <2> QED
    BY <2>1, <2>2, <2>3
<1> DEFINE e == [k \in 0..n |-> f[1..k]]
<1> HIDE DEF Q
<1>8. e \in [0..n -> Nat]
  <2> DEFINE T == {k \in 0..n : f[1..k] \notin Nat}
  <2> SUFFICES ASSUME T # {} PROVE FALSE
    OBVIOUS
  <2>1. PICK x \in T : \A y \in T : x <= y
    <3>1. T \in SUBSET Nat
      OBVIOUS
    <3> HIDE DEF T
    <3> QED
      BY <3>1, LeastNumber
  <2>2. x \in 0..n /\ f[1..x] \notin Nat
    BY <2>1
  <2>3. x # 0
    BY <1>6, <2>2
  <2>4. x \in 1..n /\ x - 1 \in 0..n /\ ~(x <= x - 1)
    BY <1>1, <2>2, <2>3
  <2>5. f[1..(x - 1)] \in Nat
    BY <2>1, <2>4
  <2>6. fields[x].align \in Aligns /\ fields[x].size \in Nat
    BY <1>1, <2>4 DEF Type
  <2>7. RoundUp(f[1..(x - 1)], fields[x].align) \in Nat
    BY <2>5, <2>6, RoundUpIs
  <2>8. f[1..x] = RoundUp(f[1..(x - 1)], fields[x].align) + fields[x].size
    BY <1>7, <2>4
  <2> QED
    BY <2>2, <2>6, <2>7, <2>8
<1>9. e[0] = 0 /\ e[n] = f[D]
  BY <1>1, <1>6
<1>10. \A k \in 1..n : e[k] = RoundUp(e[k - 1], fields[k].align) + fields[k].size
  <2> TAKE k \in 1..n
  <2>1. k \in 0..n /\ k - 1 \in 0..n
    BY <1>1
  <2> QED
    BY <1>7, <2>1
<1> HIDE DEF e, n, D
<1>11. e \in [0..n -> Nat] /\ e[0] = 0 /\ EndOf(fields) = e[n]
         /\ \A k \in 1..n :
              e[k] = RoundUp(e[k - 1], fields[k].align) + fields[k].size
  BY <1>4, <1>8, <1>9, <1>10
<1> QED
  BY <1>11 DEF n

Wider(f, a) == IF f.align > a THEN f.align ELSE a

\* The greatest alignment so far, one field after the other.
LEMMA AlignOfIs ==
    ASSUME NEW fields \in Seq(Type)
    PROVE  \E e \in [0..Len(fields) -> Aligns] :
             /\ e[0] = 1 /\ AlignOf(fields) = e[Len(fields)]
             /\ \A k \in 1..Len(fields) :
                  e[k] = Wider(fields[k], e[k - 1])
<1> DEFINE n == Len(fields)
           D == DOMAIN fields
           G == [i \in 1..n |-> [x \in Nat |-> Wider(fields[i], x)]]
<1>1. n \in Nat /\ D = 1..n /\ \A i \in 1..n : fields[i] \in Type
  BY LenProperties, ElementOfSeq
<1>2. G \in [1..n -> [Nat -> Nat]]
  <2>1. ASSUME NEW i \in 1..n, NEW x \in Nat PROVE Wider(fields[i], x) \in Nat
    <3>1. fields[i].align \in Nat
      BY <1>1 DEF Type, Aligns
    <3> QED
      BY <3>1 DEF Wider
  <2> QED
    BY <2>1
<1>3. \A g : (g \in [SUBSET (1..n) -> Nat] /\ Folds(g, 1..n, 1, G)) =>
         g = [s \in SUBSET D |->
                IF s = {} THEN 1
                ELSE Wider(fields[Max(s)], g[s \ {Max(s)}])]
  <2> TAKE g
  <2> HAVE g \in [SUBSET (1..n) -> Nat] /\ Folds(g, 1..n, 1, G)
  <2>1. ASSUME NEW s \in SUBSET (1..n), s # {}
        PROVE  G[Max(s)][g[s \ {Max(s)}]] =
                 Wider(fields[Max(s)], g[s \ {Max(s)}])
    <3>1. Max(s) \in 1..n
      <4>1. Max(s) \in s
        BY <1>1, <2>1, MaxInSet
      <4> QED
        BY <4>1
    <3>2. g[s \ {Max(s)}] \in Nat
      OBVIOUS
    <3> QED
      BY <3>1, <3>2
  <2> HIDE DEF G, n, D
  <2> QED
    BY <1>1, <2>1 DEF Folds
<1> DEFINE Q(g) == g = [s \in SUBSET D |->
                          IF s = {} THEN 1
                          ELSE Wider(fields[Max(s)], g[s \ {Max(s)}])]
           f == CHOOSE g : Q(g)
<1>4. AlignOf(fields) = f[D]
  BY DEF AlignOf, Wider, FoldLeft, MapThenFoldSet
<1>5. Q(f)
  <2>1. PICK g \in [SUBSET (1..n) -> Nat] : Folds(g, 1..n, 1, G)
    <3> HIDE DEF G, n
    <3> QED
      BY <1>1, <1>2, FoldExists
  <2>2. Q(g)
    <3> HIDE DEF G, n, D
    <3> QED
      BY <1>3, <2>1
  <2> QED
    BY <2>2
<1> HIDE DEF f
<1>6. f[1..0] = 1
  <2>1. (1..0) = {} /\ (1..0) \in SUBSET D
    OBVIOUS
  <2> QED
    BY <1>5, <2>1
<1>7. ASSUME NEW k \in 1..n
      PROVE  f[1..k] = Wider(fields[k], f[1..(k - 1)])
  <2> HIDE DEF n
  <2>4. (1..k) \in SUBSET (1..n) /\ k \in 1..k /\ (1..k) \ {k} = 1..(k - 1)
          /\ k \in Nat
    BY <1>1
  <2> HIDE DEF D
  <2>1. (1..k) \in SUBSET D /\ k \in 1..k /\ (1..k) \ {k} = 1..(k - 1)
          /\ k \in Nat /\ 1..k # {}
    BY <1>1, <2>4
  <2>2. Max(1..k) = k
    <3>1. Max(1..k) \in 1..k /\ \A y \in 1..k : y <= Max(1..k)
      BY <2>1, MaxInSet
    <3> QED
      BY <2>1, <3>1
  <2>3. f[1..k] = Wider(fields[Max(1..k)], f[(1..k) \ {Max(1..k)}])
    <3> HIDE DEF D
    <3> QED
      BY <1>5, <2>1
  <2> QED
    BY <2>1, <2>2, <2>3
<1> DEFINE e == [k \in 0..n |-> f[1..k]]
<1> HIDE DEF Q
<1>8. e \in [0..n -> Aligns]
  <2> DEFINE T == {k \in 0..n : f[1..k] \notin Aligns}
  <2> SUFFICES ASSUME T # {} PROVE FALSE
    OBVIOUS
  <2>1. PICK x \in T : \A y \in T : x <= y
    <3>1. T \in SUBSET Nat
      OBVIOUS
    <3> HIDE DEF T
    <3> QED
      BY <3>1, LeastNumber
  <2>2. x \in 0..n /\ f[1..x] \notin Aligns
    BY <2>1
  <2>3. x # 0
    BY <1>6, <2>2 DEF Aligns
  <2>4. x \in 1..n /\ x - 1 \in 0..n /\ ~(x <= x - 1)
    BY <1>1, <2>2, <2>3
  <2>5. f[1..(x - 1)] \in Aligns
    BY <2>1, <2>4
  <2>6. fields[x].align \in Aligns
    BY <1>1, <2>4 DEF Type
  <2>7. Wider(fields[x], f[1..(x - 1)]) \in Aligns
    BY <2>5, <2>6 DEF Wider
  <2>8. f[1..x] = Wider(fields[x], f[1..(x - 1)])
    BY <1>7, <2>4
  <2> QED
    BY <2>2, <2>7, <2>8
<1>9. e[0] = 1 /\ e[n] = f[D]
  BY <1>1, <1>6
<1>10. \A k \in 1..n : e[k] = Wider(fields[k], e[k - 1])
  <2> TAKE k \in 1..n
  <2>1. k \in 0..n /\ k - 1 \in 0..n
    BY <1>1
  <2> QED
    BY <1>7, <2>1
<1> HIDE DEF e, n, D
<1>11. e \in [0..n -> Aligns] /\ e[0] = 1 /\ AlignOf(fields) = e[n]
         /\ \A k \in 1..n :
              e[k] = Wider(fields[k], e[k - 1])
  BY <1>4, <1>8, <1>9, <1>10
<1> QED
  BY <1>11 DEF n

\* A structure with a field is a type, and the arrays of its fields are its
\* own.
LEMMA StructType ==
    ASSUME NEW fields \in Seq(Type), Len(fields) > 0
    PROVE  /\ Struct(fields) \in Type
           /\ \A i \in 1..Len(fields) : fields[i].lens \subseteq Struct(fields).lens
<1>1. Len(fields) \in Nat /\ DOMAIN fields = 1..Len(fields)
        /\ \A i \in 1..Len(fields) : fields[i] \in Type
  BY LenProperties, ElementOfSeq
<1>2. PICK m \in [0..Len(fields) -> Aligns] : AlignOf(fields) = m[Len(fields)]
  BY AlignOfIs
<1>3. AlignOf(fields) \in Aligns
  BY <1>1, <1>2
<1>4. PICK e \in [0..Len(fields) -> Nat] :
         /\ EndOf(fields) = e[Len(fields)]
         /\ \A k \in 1..Len(fields) :
              e[k] = RoundUp(e[k - 1], fields[k].align) + fields[k].size
  BY EndOfIs
<1>5. EndOf(fields) \in Nat /\ EndOf(fields) > 0
  <2> DEFINE n == Len(fields)
  <2>1. n \in 1..n /\ n \in 0..n /\ n - 1 \in 0..n
    BY <1>1
  <2>2. fields[n].align \in Aligns /\ fields[n].size \in Nat \ {0}
    BY <1>1, <2>1 DEF Type
  <2>3. RoundUp(e[n - 1], fields[n].align) \in Nat
    BY <2>1, <2>2, RoundUpIs
  <2>4. e[n] = RoundUp(e[n - 1], fields[n].align) + fields[n].size
    BY <1>4, <2>1
  <2> QED
    BY <1>4, <2>2, <2>3, <2>4
<1>6. SizeOf(fields) \in Nat /\ SizeOf(fields) >= EndOf(fields)
  BY <1>3, <1>5, RoundUpIs DEF SizeOf
<1>7. SizeOf(fields) \in Nat \ {0}
  BY <1>5, <1>6
<1>8. UNION {fields[i].lens : i \in DOMAIN fields} \in SUBSET Nat
  <2>1. \A i \in DOMAIN fields : fields[i].lens \in SUBSET Nat
    BY <1>1 DEF Type
  <2> QED
    BY <2>1
<1>9. \A i \in DOMAIN fields :
         fields[i].lens \subseteq UNION {fields[j].lens : j \in DOMAIN fields}
  OBVIOUS
<1>10. Struct(fields) \in Type
  BY <1>3, <1>7, <1>8 DEF Struct, Type
<1>11. Struct(fields).lens = UNION {fields[i].lens : i \in DOMAIN fields}
  BY DEF Struct
<1> QED
  BY <1>1, <1>9, <1>10, <1>11

-----------------------------------------------------------------------------
(* The sizes of the structures of the escapes.                              *)

Sized(X, size, align) == X \in Type /\ X.size = size /\ X.align = align

\* What lies before a field and the field itself, in bytes; and the greater
\* of two alignments.
Lay(end, size, align) == RoundUp(end, align) + size
Mx(a, b) == IF b > a THEN b ELSE a

\* The size of an array.
LEMMA SizedArr ==
    ASSUME NEW n \in Nat \ {0}, NEW t, NEW s \in Nat, NEW a, NEW r, Sized(t, s, a),
           r = n * s
    PROVE  Sized(Arr(n, t), r, a)
BY ArrType DEF Sized

\* The ends and the alignments after each of n fields.
Laid(fields, n, e, m) ==
    /\ e[0] = 0 /\ m[0] = 1
    /\ \A k \in 1..n :
         /\ e[k] = Lay(e[k - 1], fields[k].size, fields[k].align)
         /\ m[k] = Mx(m[k - 1], fields[k].align)
    /\ Sized(Struct(fields), RoundUp(e[n], m[n]), m[n])

\* The size of a structure, from where its last field ends.
LEMMA SizedStruct ==
    ASSUME NEW fields \in Seq(Type), NEW n \in Nat \ {0}, Len(fields) = n
    PROVE  \E e, m : Laid(fields, n, e, m)
<1>1. PICK e \in [0..n -> Nat] :
         /\ e[0] = 0 /\ EndOf(fields) = e[n]
         /\ \A k \in 1..n :
              e[k] = RoundUp(e[k - 1], fields[k].align) + fields[k].size
  BY EndOfIs
<1>2. PICK m \in [0..n -> Aligns] :
         /\ m[0] = 1 /\ AlignOf(fields) = m[n]
         /\ \A k \in 1..n : m[k] = Wider(fields[k], m[k - 1])
  BY AlignOfIs
<1>3. Struct(fields) \in Type
  BY StructType
<1>4. Struct(fields).size = RoundUp(e[n], m[n]) /\ Struct(fields).align = m[n]
  BY <1>1, <1>2 DEF Struct, SizeOf
<1> QED
  BY <1>1, <1>2, <1>3, <1>4 DEF Sized, Laid, Lay, Wider, Mx

\* Structures of one to ten fields.
LEMMA Sized1 ==
    ASSUME NEW f1, NEW s1 \in Nat, NEW a1,
           Sized(f1, s1, a1)
    PROVE  LET e1 == Lay(0, s1, a1)   m1 == Mx(1, a1)
           IN  Sized(Struct(<<f1>>), RoundUp(e1, m1), m1)
<1> DEFINE fields == <<f1>>
<1>1. fields \in Seq(Type) /\ Len(fields) = 1
  BY DEF Sized
<1>f. /\ fields[1].size = s1 /\ fields[1].align = a1
  BY DEF Sized
<1> HIDE DEF fields
<1>2. PICK e, m : Laid(fields, 1, e, m)
  <2>1. 1 \in Nat \ {0}
    OBVIOUS
  <2> QED
    BY <1>1, <2>1, SizedStruct, Zenon
<1>3. e[1] = Lay(0, s1, a1) /\ m[1] = Mx(1, a1)
  BY <1>f, <1>2 DEF Laid
<1> QED
  BY <1>2, <1>3 DEF fields, Laid

LEMMA Sized2 ==
    ASSUME NEW f1, NEW s1 \in Nat, NEW a1,
           NEW f2, NEW s2 \in Nat, NEW a2,
           Sized(f1, s1, a1), Sized(f2, s2, a2)
    PROVE  LET e1 == Lay(0, s1, a1)   m1 == Mx(1, a1)
               e2 == Lay(e1, s2, a2)   m2 == Mx(m1, a2)
           IN  Sized(Struct(<<f1, f2>>), RoundUp(e2, m2), m2)
<1> DEFINE fields == <<f1, f2>>
<1>1. fields \in Seq(Type) /\ Len(fields) = 2
  BY DEF Sized
<1>f. /\ fields[1].size = s1 /\ fields[1].align = a1
        /\ fields[2].size = s2 /\ fields[2].align = a2
  BY DEF Sized
<1> HIDE DEF fields
<1>2. PICK e, m : Laid(fields, 2, e, m)
  <2>1. 2 \in Nat \ {0}
    OBVIOUS
  <2> QED
    BY <1>1, <2>1, SizedStruct, Zenon
<1>3. e[1] = Lay(0, s1, a1) /\ m[1] = Mx(1, a1)
  BY <1>f, <1>2 DEF Laid
<1>4. e[2] = Lay(e[1], s2, a2) /\ m[2] = Mx(m[1], a2)
  BY <1>f, <1>2 DEF Laid
<1> QED
  BY <1>2, <1>3, <1>4 DEF fields, Laid

LEMMA Sized3 ==
    ASSUME NEW f1, NEW s1 \in Nat, NEW a1,
           NEW f2, NEW s2 \in Nat, NEW a2,
           NEW f3, NEW s3 \in Nat, NEW a3,
           Sized(f1, s1, a1), Sized(f2, s2, a2), Sized(f3, s3, a3)
    PROVE  LET e1 == Lay(0, s1, a1)   m1 == Mx(1, a1)
               e2 == Lay(e1, s2, a2)   m2 == Mx(m1, a2)
               e3 == Lay(e2, s3, a3)   m3 == Mx(m2, a3)
           IN  Sized(Struct(<<f1, f2, f3>>), RoundUp(e3, m3), m3)
<1> DEFINE fields == <<f1, f2, f3>>
<1>1. fields \in Seq(Type) /\ Len(fields) = 3
  BY DEF Sized
<1>f. /\ fields[1].size = s1 /\ fields[1].align = a1
        /\ fields[2].size = s2 /\ fields[2].align = a2
        /\ fields[3].size = s3 /\ fields[3].align = a3
  BY DEF Sized
<1> HIDE DEF fields
<1>2. PICK e, m : Laid(fields, 3, e, m)
  <2>1. 3 \in Nat \ {0}
    OBVIOUS
  <2> QED
    BY <1>1, <2>1, SizedStruct, Zenon
<1>3. e[1] = Lay(0, s1, a1) /\ m[1] = Mx(1, a1)
  BY <1>f, <1>2 DEF Laid
<1>4. e[2] = Lay(e[1], s2, a2) /\ m[2] = Mx(m[1], a2)
  BY <1>f, <1>2 DEF Laid
<1>5. e[3] = Lay(e[2], s3, a3) /\ m[3] = Mx(m[2], a3)
  BY <1>f, <1>2 DEF Laid
<1> QED
  BY <1>2, <1>3, <1>4, <1>5 DEF fields, Laid

LEMMA Sized4 ==
    ASSUME NEW f1, NEW s1 \in Nat, NEW a1,
           NEW f2, NEW s2 \in Nat, NEW a2,
           NEW f3, NEW s3 \in Nat, NEW a3,
           NEW f4, NEW s4 \in Nat, NEW a4,
           Sized(f1, s1, a1), Sized(f2, s2, a2), Sized(f3, s3, a3), Sized(f4, s4, a4)
    PROVE  LET e1 == Lay(0, s1, a1)   m1 == Mx(1, a1)
               e2 == Lay(e1, s2, a2)   m2 == Mx(m1, a2)
               e3 == Lay(e2, s3, a3)   m3 == Mx(m2, a3)
               e4 == Lay(e3, s4, a4)   m4 == Mx(m3, a4)
           IN  Sized(Struct(<<f1, f2, f3, f4>>), RoundUp(e4, m4), m4)
<1> DEFINE fields == <<f1, f2, f3, f4>>
<1>1. fields \in Seq(Type) /\ Len(fields) = 4
  BY DEF Sized
<1>f. /\ fields[1].size = s1 /\ fields[1].align = a1
        /\ fields[2].size = s2 /\ fields[2].align = a2
        /\ fields[3].size = s3 /\ fields[3].align = a3
        /\ fields[4].size = s4 /\ fields[4].align = a4
  BY DEF Sized
<1> HIDE DEF fields
<1>2. PICK e, m : Laid(fields, 4, e, m)
  <2>1. 4 \in Nat \ {0}
    OBVIOUS
  <2> QED
    BY <1>1, <2>1, SizedStruct, Zenon
<1>3. e[1] = Lay(0, s1, a1) /\ m[1] = Mx(1, a1)
  BY <1>f, <1>2 DEF Laid
<1>4. e[2] = Lay(e[1], s2, a2) /\ m[2] = Mx(m[1], a2)
  BY <1>f, <1>2 DEF Laid
<1>5. e[3] = Lay(e[2], s3, a3) /\ m[3] = Mx(m[2], a3)
  BY <1>f, <1>2 DEF Laid
<1>6. e[4] = Lay(e[3], s4, a4) /\ m[4] = Mx(m[3], a4)
  BY <1>f, <1>2 DEF Laid
<1> QED
  BY <1>2, <1>3, <1>4, <1>5, <1>6 DEF fields, Laid

LEMMA Sized5 ==
    ASSUME NEW f1, NEW s1 \in Nat, NEW a1,
           NEW f2, NEW s2 \in Nat, NEW a2,
           NEW f3, NEW s3 \in Nat, NEW a3,
           NEW f4, NEW s4 \in Nat, NEW a4,
           NEW f5, NEW s5 \in Nat, NEW a5,
           Sized(f1, s1, a1), Sized(f2, s2, a2), Sized(f3, s3, a3), Sized(f4, s4, a4), Sized(f5, s5, a5)
    PROVE  LET e1 == Lay(0, s1, a1)   m1 == Mx(1, a1)
               e2 == Lay(e1, s2, a2)   m2 == Mx(m1, a2)
               e3 == Lay(e2, s3, a3)   m3 == Mx(m2, a3)
               e4 == Lay(e3, s4, a4)   m4 == Mx(m3, a4)
               e5 == Lay(e4, s5, a5)   m5 == Mx(m4, a5)
           IN  Sized(Struct(<<f1, f2, f3, f4, f5>>), RoundUp(e5, m5), m5)
<1> DEFINE fields == <<f1, f2, f3, f4, f5>>
<1>1. fields \in Seq(Type) /\ Len(fields) = 5
  BY DEF Sized
<1>f. /\ fields[1].size = s1 /\ fields[1].align = a1
        /\ fields[2].size = s2 /\ fields[2].align = a2
        /\ fields[3].size = s3 /\ fields[3].align = a3
        /\ fields[4].size = s4 /\ fields[4].align = a4
        /\ fields[5].size = s5 /\ fields[5].align = a5
  BY DEF Sized
<1> HIDE DEF fields
<1>2. PICK e, m : Laid(fields, 5, e, m)
  <2>1. 5 \in Nat \ {0}
    OBVIOUS
  <2> QED
    BY <1>1, <2>1, SizedStruct, Zenon
<1>3. e[1] = Lay(0, s1, a1) /\ m[1] = Mx(1, a1)
  BY <1>f, <1>2 DEF Laid
<1>4. e[2] = Lay(e[1], s2, a2) /\ m[2] = Mx(m[1], a2)
  BY <1>f, <1>2 DEF Laid
<1>5. e[3] = Lay(e[2], s3, a3) /\ m[3] = Mx(m[2], a3)
  BY <1>f, <1>2 DEF Laid
<1>6. e[4] = Lay(e[3], s4, a4) /\ m[4] = Mx(m[3], a4)
  BY <1>f, <1>2 DEF Laid
<1>7. e[5] = Lay(e[4], s5, a5) /\ m[5] = Mx(m[4], a5)
  BY <1>f, <1>2 DEF Laid
<1> QED
  BY <1>2, <1>3, <1>4, <1>5, <1>6, <1>7 DEF fields, Laid

LEMMA Sized10 ==
    ASSUME NEW f1, NEW s1 \in Nat, NEW a1,
           NEW f2, NEW s2 \in Nat, NEW a2,
           NEW f3, NEW s3 \in Nat, NEW a3,
           NEW f4, NEW s4 \in Nat, NEW a4,
           NEW f5, NEW s5 \in Nat, NEW a5,
           NEW f6, NEW s6 \in Nat, NEW a6,
           NEW f7, NEW s7 \in Nat, NEW a7,
           NEW f8, NEW s8 \in Nat, NEW a8,
           NEW f9, NEW s9 \in Nat, NEW a9,
           NEW f10, NEW s10 \in Nat, NEW a10,
           Sized(f1, s1, a1), Sized(f2, s2, a2), Sized(f3, s3, a3), Sized(f4, s4, a4), Sized(f5, s5, a5), Sized(f6, s6, a6), Sized(f7, s7, a7), Sized(f8, s8, a8), Sized(f9, s9, a9), Sized(f10, s10, a10)
    PROVE  LET e1 == Lay(0, s1, a1)   m1 == Mx(1, a1)
               e2 == Lay(e1, s2, a2)   m2 == Mx(m1, a2)
               e3 == Lay(e2, s3, a3)   m3 == Mx(m2, a3)
               e4 == Lay(e3, s4, a4)   m4 == Mx(m3, a4)
               e5 == Lay(e4, s5, a5)   m5 == Mx(m4, a5)
               e6 == Lay(e5, s6, a6)   m6 == Mx(m5, a6)
               e7 == Lay(e6, s7, a7)   m7 == Mx(m6, a7)
               e8 == Lay(e7, s8, a8)   m8 == Mx(m7, a8)
               e9 == Lay(e8, s9, a9)   m9 == Mx(m8, a9)
               e10 == Lay(e9, s10, a10)   m10 == Mx(m9, a10)
           IN  Sized(Struct(<<f1, f2, f3, f4, f5, f6, f7, f8, f9, f10>>), RoundUp(e10, m10), m10)
<1> DEFINE fields == <<f1, f2, f3, f4, f5, f6, f7, f8, f9, f10>>
<1>1. fields \in Seq(Type) /\ Len(fields) = 10
  BY DEF Sized
<1>f. /\ fields[1].size = s1 /\ fields[1].align = a1
        /\ fields[2].size = s2 /\ fields[2].align = a2
        /\ fields[3].size = s3 /\ fields[3].align = a3
        /\ fields[4].size = s4 /\ fields[4].align = a4
        /\ fields[5].size = s5 /\ fields[5].align = a5
        /\ fields[6].size = s6 /\ fields[6].align = a6
        /\ fields[7].size = s7 /\ fields[7].align = a7
        /\ fields[8].size = s8 /\ fields[8].align = a8
        /\ fields[9].size = s9 /\ fields[9].align = a9
        /\ fields[10].size = s10 /\ fields[10].align = a10
  BY DEF Sized
<1> HIDE DEF fields
<1>2. PICK e, m : Laid(fields, 10, e, m)
  <2>1. 10 \in Nat \ {0}
    OBVIOUS
  <2> QED
    BY <1>1, <2>1, SizedStruct, Zenon
<1>3. e[1] = Lay(0, s1, a1) /\ m[1] = Mx(1, a1)
  BY <1>f, <1>2 DEF Laid
<1>4. e[2] = Lay(e[1], s2, a2) /\ m[2] = Mx(m[1], a2)
  BY <1>f, <1>2 DEF Laid
<1>5. e[3] = Lay(e[2], s3, a3) /\ m[3] = Mx(m[2], a3)
  BY <1>f, <1>2 DEF Laid
<1>6. e[4] = Lay(e[3], s4, a4) /\ m[4] = Mx(m[3], a4)
  BY <1>f, <1>2 DEF Laid
<1>7. e[5] = Lay(e[4], s5, a5) /\ m[5] = Mx(m[4], a5)
  BY <1>f, <1>2 DEF Laid
<1>8. e[6] = Lay(e[5], s6, a6) /\ m[6] = Mx(m[5], a6)
  BY <1>f, <1>2 DEF Laid
<1>9. e[7] = Lay(e[6], s7, a7) /\ m[7] = Mx(m[6], a7)
  BY <1>f, <1>2 DEF Laid
<1>10. e[8] = Lay(e[7], s8, a8) /\ m[8] = Mx(m[7], a8)
  BY <1>f, <1>2 DEF Laid
<1>11. e[9] = Lay(e[8], s9, a9) /\ m[9] = Mx(m[8], a9)
  BY <1>f, <1>2 DEF Laid
<1>12. e[10] = Lay(e[9], s10, a10) /\ m[10] = Mx(m[9], a10)
  BY <1>f, <1>2 DEF Laid
<1> QED
  BY <1>2, <1>3, <1>4, <1>5, <1>6, <1>7, <1>8, <1>9, <1>10, <1>11, <1>12 DEF fields, Laid

\* The sizes of the integer types, of their arrays and of two inner structures.
LEMMA SizedFields ==
    /\ Sized(U8, 1, 1) /\ Sized(U16, 2, 2) /\ Sized(U32, 4, 4) /\ Sized(U64, 8, 8)
    /\ Sized(Arr(4, U8), 4, 1)
    /\ Sized(Arr(2, U16), 4, 2)
    /\ Sized(Arr(3, U8), 3, 1)
    /\ Sized(Arr(2, U8), 2, 1)
    /\ Sized(Arr(4, U64), 32, 8)
    /\ Sized(Arr(10, U8), 10, 1)
    /\ Sized(Arr(4, U32), 16, 4)
    /\ Sized(Arr(2, U32), 8, 4)
    /\ Sized(Arr(64, U8), 64, 1)
    /\ Sized(Arr(64, U64), 512, 8)
    /\ Sized(Arr(3, U64), 24, 8)
    /\ Sized(Arr(7, U8), 7, 1)
    /\ Sized(Arr(5, U32), 20, 4)
    /\ Sized(Arr(2, U64), 16, 8)
    /\ Sized(Arr(3, U32), 12, 4)
<1>1. Sized(U8, 1, 1) /\ Sized(U16, 2, 2) /\ Sized(U32, 4, 4) /\ Sized(U64, 8, 8)
  BY BaseTypes DEF Sized
<1> QED
  BY <1>1, SizedArr

\* The sizes that size_of gives for the arguments of the escapes.
LEMMA Sizes1 ==
    /\ Sized(NvPciInfo, 12, 4)
    /\ Sized(NvIoctlCardInfo, 72, 8)
    /\ Sized(NvIoctlRegisterFd, 4, 4)
    /\ Sized(NvIoctlAllocOsEvent, 16, 4)
    /\ Sized(NvIoctlStatusCode, 12, 4)
    /\ Sized(NvIoctlRmApiVersion, 72, 4)
    /\ Sized(NvIoctlQueryDeviceIntr, 8, 4)
    /\ Sized(NvIoctlSysParams, 8, 8)
    /\ Sized(NvIoctlWaitOpenComplete, 8, 4)
    /\ Sized(NvOfflineAddresses, 520, 8)
    /\ Sized(NvIoctlNumaInfo, 560, 8)
    /\ Sized(NvIoctlSetNumaStatus, 4, 4)
    /\ Sized(NvIoctlExportToDmaBufFdPrefix, 40, 8)
    /\ Sized(NvOs00Parameters, 16, 4)
    /\ Sized(NvOs02Parameters, 48, 8)
    /\ Sized(NvIoctlNvos02ParametersWithFd, 56, 8)
    /\ Sized(NvOs05Parameters, 20, 4)
    /\ Sized(NvOs21Parameters, 32, 8)
    /\ Sized(NvOs64Parameters, 48, 8)
    /\ Sized(NvOs33Parameters, 48, 8)
    /\ Sized(NvIoctlNvos33ParametersWithFd, 56, 8)
    /\ Sized(NvOs34Parameters, 32, 8)
    /\ Sized(NvOs54Parameters, 32, 8)
    /\ Sized(NvxxxxCtrlXxxInfo, 8, 4)
<1>1. Sized(NvPciInfo, 12, 4)
  BY SizedFields, Sized3 DEF NvPciInfo, Lay, Mx, RoundUp
<1>2. Sized(NvIoctlCardInfo, 72, 8)
  <2>1. /\ Lay(0, 1, 1) = 1 /\ Mx(1, 1) = 1
        /\ Lay(1, 3, 1) = 4 /\ Mx(1, 1) = 1
        /\ Lay(4, 12, 4) = 16 /\ Mx(1, 4) = 4
        /\ Lay(16, 4, 4) = 20 /\ Mx(4, 4) = 4
        /\ Lay(20, 2, 2) = 22 /\ Mx(4, 2) = 4
        /\ Lay(22, 2, 1) = 24 /\ Mx(4, 1) = 4
        /\ Lay(24, 32, 8) = 56 /\ Mx(4, 8) = 8
        /\ Lay(56, 4, 4) = 60 /\ Mx(8, 4) = 8
        /\ Lay(60, 10, 1) = 70 /\ Mx(8, 1) = 8
        /\ Lay(70, 2, 1) = 72 /\ Mx(8, 1) = 8
        /\ RoundUp(72, 8) = 72
    BY DEF Lay, Mx, RoundUp
  <2> QED
    BY <2>1, <1>1, SizedFields, Sized10 DEF NvIoctlCardInfo
<1>3. Sized(NvIoctlRegisterFd, 4, 4)
  BY SizedFields, Sized1 DEF NvIoctlRegisterFd, Lay, Mx, RoundUp
<1>4. Sized(NvIoctlAllocOsEvent, 16, 4)
  BY SizedFields, Sized1 DEF NvIoctlAllocOsEvent, Lay, Mx, RoundUp
<1>5. Sized(NvIoctlStatusCode, 12, 4)
  BY SizedFields, Sized4 DEF NvIoctlStatusCode, Lay, Mx, RoundUp
<1>6. Sized(NvIoctlRmApiVersion, 72, 4)
  BY SizedFields, Sized2 DEF NvIoctlRmApiVersion, Lay, Mx, RoundUp
<1>7. Sized(NvIoctlQueryDeviceIntr, 8, 4)
  BY SizedFields, Sized1 DEF NvIoctlQueryDeviceIntr, Lay, Mx, RoundUp
<1>8. Sized(NvIoctlSysParams, 8, 8)
  BY SizedFields, Sized1 DEF NvIoctlSysParams, Lay, Mx, RoundUp
<1>9. Sized(NvIoctlWaitOpenComplete, 8, 4)
  BY SizedFields, Sized1 DEF NvIoctlWaitOpenComplete, Lay, Mx, RoundUp
<1>10. Sized(NvOfflineAddresses, 520, 8)
  BY SizedFields, Sized2 DEF NvOfflineAddresses, Lay, Mx, RoundUp
<1>11. Sized(NvIoctlNumaInfo, 560, 8)
  BY <1>10, SizedFields, Sized5 DEF NvIoctlNumaInfo, Lay, Mx, RoundUp
<1>12. Sized(NvIoctlSetNumaStatus, 4, 4)
  BY SizedFields, Sized1 DEF NvIoctlSetNumaStatus, Lay, Mx, RoundUp
<1>13. Sized(NvIoctlExportToDmaBufFdPrefix, 40, 8)
  BY SizedFields, Sized3 DEF NvIoctlExportToDmaBufFdPrefix, Lay, Mx, RoundUp
<1>14. Sized(NvOs00Parameters, 16, 4)
  BY SizedFields, Sized1 DEF NvOs00Parameters, Lay, Mx, RoundUp
<1>15. Sized(NvOs02Parameters, 48, 8)
  BY SizedFields, Sized3 DEF NvOs02Parameters, Lay, Mx, RoundUp
<1>16. Sized(NvIoctlNvos02ParametersWithFd, 56, 8)
  BY <1>15, SizedFields, Sized2 DEF NvIoctlNvos02ParametersWithFd, Lay, Mx, RoundUp
<1>17. Sized(NvOs05Parameters, 20, 4)
  BY SizedFields, Sized1 DEF NvOs05Parameters, Lay, Mx, RoundUp
<1>18. Sized(NvOs21Parameters, 32, 8)
  BY SizedFields, Sized3 DEF NvOs21Parameters, Lay, Mx, RoundUp
<1>19. Sized(NvOs64Parameters, 48, 8)
  BY SizedFields, Sized3 DEF NvOs64Parameters, Lay, Mx, RoundUp
<1>20. Sized(NvOs33Parameters, 48, 8)
  BY SizedFields, Sized3 DEF NvOs33Parameters, Lay, Mx, RoundUp
<1>21. Sized(NvIoctlNvos33ParametersWithFd, 56, 8)
  BY <1>20, SizedFields, Sized2 DEF NvIoctlNvos33ParametersWithFd, Lay, Mx, RoundUp
<1>22. Sized(NvOs34Parameters, 32, 8)
  BY SizedFields, Sized3 DEF NvOs34Parameters, Lay, Mx, RoundUp
<1>23. Sized(NvOs54Parameters, 32, 8)
  BY SizedFields, Sized3 DEF NvOs54Parameters, Lay, Mx, RoundUp
<1>24. Sized(NvxxxxCtrlXxxInfo, 8, 4)
  BY SizedFields, Sized1 DEF NvxxxxCtrlXxxInfo, Lay, Mx, RoundUp
<1> QED
  BY <1>1, <1>2, <1>3, <1>4, <1>5, <1>6, <1>7, <1>8, <1>9, <1>10, <1>11, <1>12, <1>13, <1>14, <1>15, <1>16, <1>17, <1>18, <1>19, <1>20, <1>21, <1>22, <1>23, <1>24

-----------------------------------------------------------------------------
(* Every structure is a type, with the arrays of its fields.                *)

\* A structure of one to seven fields is a type with their arrays.
LEMMA Struct1 ==
    ASSUME NEW f1 \in Type
    PROVE  /\ Struct(<<f1>>) \in Type
           /\ f1.lens \subseteq Struct(<<f1>>).lens
<1> DEFINE fields == <<f1>>
<1>1. fields \in Seq(Type) /\ Len(fields) = 1
  OBVIOUS
<1>2. fields[1] = f1
  OBVIOUS
<1> HIDE DEF fields
<1>3. Struct(fields) \in Type
        /\ \A i \in 1..Len(fields) : fields[i].lens \subseteq Struct(fields).lens
  <2>1. Len(fields) > 0
    BY <1>1
  <2> QED
    BY <1>1, <2>1, StructType
<1>4. f1.lens \subseteq Struct(fields).lens
  BY <1>1, <1>2, <1>3
<1> QED
  BY <1>3, <1>4 DEF fields

LEMMA Struct2 ==
    ASSUME NEW f1 \in Type, NEW f2 \in Type
    PROVE  /\ Struct(<<f1, f2>>) \in Type
           /\ f1.lens \subseteq Struct(<<f1, f2>>).lens
           /\ f2.lens \subseteq Struct(<<f1, f2>>).lens
<1> DEFINE fields == <<f1, f2>>
<1>1. fields \in Seq(Type) /\ Len(fields) = 2
  OBVIOUS
<1>2. fields[1] = f1 /\ fields[2] = f2
  OBVIOUS
<1> HIDE DEF fields
<1>3. Struct(fields) \in Type
        /\ \A i \in 1..Len(fields) : fields[i].lens \subseteq Struct(fields).lens
  <2>1. Len(fields) > 0
    BY <1>1
  <2> QED
    BY <1>1, <2>1, StructType
<1>4. f1.lens \subseteq Struct(fields).lens /\ f2.lens \subseteq Struct(fields).lens
  BY <1>1, <1>2, <1>3
<1> QED
  BY <1>3, <1>4 DEF fields

LEMMA Struct3 ==
    ASSUME NEW f1 \in Type, NEW f2 \in Type, NEW f3 \in Type
    PROVE  /\ Struct(<<f1, f2, f3>>) \in Type
           /\ f1.lens \subseteq Struct(<<f1, f2, f3>>).lens
           /\ f2.lens \subseteq Struct(<<f1, f2, f3>>).lens
           /\ f3.lens \subseteq Struct(<<f1, f2, f3>>).lens
<1> DEFINE fields == <<f1, f2, f3>>
<1>1. fields \in Seq(Type) /\ Len(fields) = 3
  OBVIOUS
<1>2. fields[1] = f1 /\ fields[2] = f2 /\ fields[3] = f3
  OBVIOUS
<1> HIDE DEF fields
<1>3. Struct(fields) \in Type
        /\ \A i \in 1..Len(fields) : fields[i].lens \subseteq Struct(fields).lens
  <2>1. Len(fields) > 0
    BY <1>1
  <2> QED
    BY <1>1, <2>1, StructType
<1>4. f1.lens \subseteq Struct(fields).lens /\ f2.lens \subseteq Struct(fields).lens /\ f3.lens \subseteq Struct(fields).lens
  BY <1>1, <1>2, <1>3
<1> QED
  BY <1>3, <1>4 DEF fields

LEMMA Struct4 ==
    ASSUME NEW f1 \in Type, NEW f2 \in Type, NEW f3 \in Type, NEW f4 \in Type
    PROVE  /\ Struct(<<f1, f2, f3, f4>>) \in Type
           /\ f1.lens \subseteq Struct(<<f1, f2, f3, f4>>).lens
           /\ f2.lens \subseteq Struct(<<f1, f2, f3, f4>>).lens
           /\ f3.lens \subseteq Struct(<<f1, f2, f3, f4>>).lens
           /\ f4.lens \subseteq Struct(<<f1, f2, f3, f4>>).lens
<1> DEFINE fields == <<f1, f2, f3, f4>>
<1>1. fields \in Seq(Type) /\ Len(fields) = 4
  OBVIOUS
<1>2. fields[1] = f1 /\ fields[2] = f2 /\ fields[3] = f3 /\ fields[4] = f4
  OBVIOUS
<1> HIDE DEF fields
<1>3. Struct(fields) \in Type
        /\ \A i \in 1..Len(fields) : fields[i].lens \subseteq Struct(fields).lens
  <2>1. Len(fields) > 0
    BY <1>1
  <2> QED
    BY <1>1, <2>1, StructType
<1>4. f1.lens \subseteq Struct(fields).lens /\ f2.lens \subseteq Struct(fields).lens /\ f3.lens \subseteq Struct(fields).lens /\ f4.lens \subseteq Struct(fields).lens
  BY <1>1, <1>2, <1>3
<1> QED
  BY <1>3, <1>4 DEF fields

LEMMA Struct5 ==
    ASSUME NEW f1 \in Type, NEW f2 \in Type, NEW f3 \in Type, NEW f4 \in Type, NEW f5 \in Type
    PROVE  /\ Struct(<<f1, f2, f3, f4, f5>>) \in Type
           /\ f1.lens \subseteq Struct(<<f1, f2, f3, f4, f5>>).lens
           /\ f2.lens \subseteq Struct(<<f1, f2, f3, f4, f5>>).lens
           /\ f3.lens \subseteq Struct(<<f1, f2, f3, f4, f5>>).lens
           /\ f4.lens \subseteq Struct(<<f1, f2, f3, f4, f5>>).lens
           /\ f5.lens \subseteq Struct(<<f1, f2, f3, f4, f5>>).lens
<1> DEFINE fields == <<f1, f2, f3, f4, f5>>
<1>1. fields \in Seq(Type) /\ Len(fields) = 5
  OBVIOUS
<1>2. fields[1] = f1 /\ fields[2] = f2 /\ fields[3] = f3 /\ fields[4] = f4 /\ fields[5] = f5
  OBVIOUS
<1> HIDE DEF fields
<1>3. Struct(fields) \in Type
        /\ \A i \in 1..Len(fields) : fields[i].lens \subseteq Struct(fields).lens
  <2>1. Len(fields) > 0
    BY <1>1
  <2> QED
    BY <1>1, <2>1, StructType
<1>4. f1.lens \subseteq Struct(fields).lens /\ f2.lens \subseteq Struct(fields).lens /\ f3.lens \subseteq Struct(fields).lens /\ f4.lens \subseteq Struct(fields).lens /\ f5.lens \subseteq Struct(fields).lens
  BY <1>1, <1>2, <1>3
<1> QED
  BY <1>3, <1>4 DEF fields

LEMMA Struct7 ==
    ASSUME NEW f1 \in Type, NEW f2 \in Type, NEW f3 \in Type, NEW f4 \in Type, NEW f5 \in Type, NEW f6 \in Type, NEW f7 \in Type
    PROVE  /\ Struct(<<f1, f2, f3, f4, f5, f6, f7>>) \in Type
           /\ f1.lens \subseteq Struct(<<f1, f2, f3, f4, f5, f6, f7>>).lens
           /\ f2.lens \subseteq Struct(<<f1, f2, f3, f4, f5, f6, f7>>).lens
           /\ f3.lens \subseteq Struct(<<f1, f2, f3, f4, f5, f6, f7>>).lens
           /\ f4.lens \subseteq Struct(<<f1, f2, f3, f4, f5, f6, f7>>).lens
           /\ f5.lens \subseteq Struct(<<f1, f2, f3, f4, f5, f6, f7>>).lens
           /\ f6.lens \subseteq Struct(<<f1, f2, f3, f4, f5, f6, f7>>).lens
           /\ f7.lens \subseteq Struct(<<f1, f2, f3, f4, f5, f6, f7>>).lens
<1> DEFINE fields == <<f1, f2, f3, f4, f5, f6, f7>>
<1>1. fields \in Seq(Type) /\ Len(fields) = 7
  OBVIOUS
<1>2. fields[1] = f1 /\ fields[2] = f2 /\ fields[3] = f3 /\ fields[4] = f4 /\ fields[5] = f5 /\ fields[6] = f6 /\ fields[7] = f7
  OBVIOUS
<1> HIDE DEF fields
<1>3. Struct(fields) \in Type
        /\ \A i \in 1..Len(fields) : fields[i].lens \subseteq Struct(fields).lens
  <2>1. Len(fields) > 0
    BY <1>1
  <2> QED
    BY <1>1, <2>1, StructType
<1>4. f1.lens \subseteq Struct(fields).lens /\ f2.lens \subseteq Struct(fields).lens /\ f3.lens \subseteq Struct(fields).lens /\ f4.lens \subseteq Struct(fields).lens /\ f5.lens \subseteq Struct(fields).lens /\ f6.lens \subseteq Struct(fields).lens /\ f7.lens \subseteq Struct(fields).lens
  BY <1>1, <1>2, <1>3
<1> QED
  BY <1>3, <1>4 DEF fields

\* The structures of the escapes.
LEMMA EscapeTypes ==
    /\ RmI2cAccessParams \in Type
    /\ RmIdleChannelsParams \in Type
    /\ RmAllocContextDma2Params \in Type
    /\ RmMapMemoryDmaParams \in Type
    /\ RmUnmapMemoryDmaParams \in Type
    /\ RmBindContextDmaParams \in Type
    /\ RmDupObjectParams \in Type
    /\ RmUpdateDeviceMappingInfoParams \in Type
    /\ RsAccessMask \in Type
    /\ RsSharePolicy \in Type
    /\ RmShareParams \in Type
    /\ RmAddVblankCallbackParams \in Type
    /\ NvIoctlXfer \in Type
    /\ RmVidHeapControlPrefix \in Type
    /\ RmVidHeapAllocSizeData \in Type
    /\ RmVidHeapFreeData \in Type
    /\ RmVidHeapAllocOsDescData \in Type
    /\ RmAccessRegistryParams \in Type
    /\ RmGetEventDataParams \in Type
    /\ RmUnixEvent \in Type
    /\ NvOs05Parameters \in Type
    /\ NvOs00Parameters \in Type
    /\ NvOs34Parameters \in Type
    /\ NvIoctlRegisterFd \in Type
    /\ NvIoctlAllocOsEvent \in Type
    /\ NvIoctlStatusCode \in Type
    /\ NvIoctlRmApiVersion \in Type
    /\ NvIoctlQueryDeviceIntr \in Type
    /\ NvIoctlSysParams \in Type
    /\ NvIoctlWaitOpenComplete \in Type
    /\ NvIoctlSetNumaStatus \in Type
    /\ NvIoctlExportToDmaBufFdPrefix \in Type
    /\ NvOs54Parameters \in Type
    /\ NvIoctlNvos02ParametersWithFd \in Type
    /\ NvOs02Parameters \in Type
    /\ NvOs64Parameters \in Type
    /\ NvOs21Parameters \in Type
    /\ NvIoctlNvos33ParametersWithFd \in Type
    /\ NvIoctlNumaInfo \in Type /\ {64} \subseteq NvIoctlNumaInfo.lens
    /\ NvIoctlCardInfo \in Type
<1>1. RmI2cAccessParams \in Type
  BY BaseTypes, ArrType, Struct3 DEF RmI2cAccessParams
<1>2. RmIdleChannelsParams \in Type
  BY BaseTypes, ArrType, Struct3 DEF RmIdleChannelsParams
<1>3. RmAllocContextDma2Params \in Type
  BY BaseTypes, ArrType, Struct3 DEF RmAllocContextDma2Params
<1>4. RmMapMemoryDmaParams \in Type
  BY BaseTypes, ArrType, Struct5 DEF RmMapMemoryDmaParams
<1>5. RmUnmapMemoryDmaParams \in Type
  BY BaseTypes, ArrType, Struct3 DEF RmUnmapMemoryDmaParams
<1>6. RmBindContextDmaParams \in Type
  BY BaseTypes, ArrType, Struct1 DEF RmBindContextDmaParams
<1>7. RmDupObjectParams \in Type
  BY BaseTypes, ArrType, Struct1 DEF RmDupObjectParams
<1>8. RmUpdateDeviceMappingInfoParams \in Type
  BY BaseTypes, ArrType, Struct3 DEF RmUpdateDeviceMappingInfoParams
<1>9. RsAccessMask \in Type
  BY BaseTypes, ArrType, Struct1 DEF RsAccessMask
<1>10. RsSharePolicy \in Type
  BY <1>9, BaseTypes, ArrType, Struct4 DEF RsSharePolicy
<1>11. RmShareParams \in Type
  BY <1>10, BaseTypes, ArrType, Struct3 DEF RmShareParams
<1>12. RmAddVblankCallbackParams \in Type
  BY BaseTypes, ArrType, Struct5 DEF RmAddVblankCallbackParams
<1>13. NvIoctlXfer \in Type
  BY BaseTypes, ArrType, Struct2 DEF NvIoctlXfer
<1>14. RmVidHeapControlPrefix \in Type
  BY BaseTypes, ArrType, Struct4 DEF RmVidHeapControlPrefix
<1>15. RmVidHeapAllocSizeData \in Type
  BY BaseTypes, ArrType, Struct3 DEF RmVidHeapAllocSizeData
<1>16. RmVidHeapFreeData \in Type
  BY BaseTypes, ArrType, Struct1 DEF RmVidHeapFreeData
<1>17. RmVidHeapAllocOsDescData \in Type
  BY BaseTypes, ArrType, Struct3 DEF RmVidHeapAllocOsDescData
<1>18. RmAccessRegistryParams \in Type
  <2>1. /\ Arr(4, U32) \in Type
        /\ Arr(3, U32) \in Type
    BY BaseTypes, ArrType
  <2> QED
    BY <2>1, BaseTypes, Struct7 DEF RmAccessRegistryParams
<1>19. RmGetEventDataParams \in Type
  BY BaseTypes, ArrType, Struct2 DEF RmGetEventDataParams
<1>20. RmUnixEvent \in Type
  BY BaseTypes, ArrType, Struct2 DEF RmUnixEvent
<1>21. {64} \subseteq NvIoctlNumaInfo.lens
  <2>1. Arr(64, U64) \in Type /\ 64 \in Arr(64, U64).lens
    BY BaseTypes, ArrType
  <2>2. 64 \in NvOfflineAddresses.lens
    BY <2>1, BaseTypes, Struct2 DEF NvOfflineAddresses
  <2>3. Arr(2, U32) \in Type /\ Arr(3, U64) \in Type /\ Arr(7, U8) \in Type
          /\ NvOfflineAddresses \in Type
    BY Sizes1, BaseTypes, ArrType DEF Sized
  <2> QED
    BY <2>2, <2>3, BaseTypes, Struct5 DEF NvIoctlNumaInfo
<1> QED
  BY <1>1, <1>2, <1>3, <1>4, <1>5, <1>6, <1>7, <1>8, <1>9, <1>10, <1>11, <1>12, <1>13, <1>14, <1>15, <1>16, <1>17, <1>18, <1>19, <1>20, <1>21, Sizes1 DEF Sized

\* The structures of the RM controls.
LEMMA ControlTypes ==
    /\ Nv0000CtrlClientGetAddrSpaceTypeParams \in Type
    /\ Nv0000CtrlOsUnixGetControlFileDescriptorParams \in Type
    /\ Nv0000CtrlSystemGetBuildVersionParams \in Type
    /\ Nv0000CtrlClientSetInheritedSharePolicyParams \in Type
    /\ Nv0000CtrlSystemGetFeaturesParams \in Type
    /\ Nv0000CtrlSystemGetFabricStatusParams \in Type
    /\ Nv0000CtrlSystemGetP2PCapsMatrixParams \in Type /\ {8} \subseteq Nv0000CtrlSystemGetP2PCapsMatrixParams.lens
    /\ Nv0000CtrlGpuGetMemopEnableParams \in Type
    /\ Nv0000CtrlGpuGetAttachedIdsParams \in Type /\ {32} \subseteq Nv0000CtrlGpuGetAttachedIdsParams.lens
    /\ Nv0000CtrlGpuGetIdInfoParams \in Type
    /\ Nv0000CtrlGpuGetIdInfoV2Params \in Type
    /\ Nv0000CtrlGpuGetProbedIdsParams \in Type /\ {32} \subseteq Nv0000CtrlGpuGetProbedIdsParams.lens
    /\ Nv0000CtrlGpuAttachIdsParams \in Type /\ {32} \subseteq Nv0000CtrlGpuAttachIdsParams.lens
    /\ Nv0000CtrlGpuActiveDevice \in Type
    /\ Nv0000CtrlGpuGetActiveDeviceIdsParams \in Type /\ {256} \subseteq Nv0000CtrlGpuGetActiveDeviceIdsParams.lens
    /\ Nv0000SyncGpuBoostGroupConfig \in Type /\ {32} \subseteq Nv0000SyncGpuBoostGroupConfig.lens
    /\ Nv0000SyncGpuBoostGroupInfoParams \in Type /\ {16, 32} \subseteq Nv0000SyncGpuBoostGroupInfoParams.lens
    /\ Nv0080CtrlHostGetCapsV2Params \in Type
    /\ Nv0080CtrlGpuGetNumSubdevicesParams \in Type
    /\ Nv0080CtrlGpuGetClasslistV2Params \in Type /\ {200} \subseteq Nv0080CtrlGpuGetClasslistV2Params.lens
    /\ Nv0080CtrlGpuGetVirtualizationModeParams \in Type
    /\ Nv0080CtrlFifoGetChannellistParams \in Type
    /\ Nv0080CtrlPerfCudaLimitControlParams \in Type
    /\ Nv0080CtrlFbGetCapsV2Params \in Type
    /\ Nv906fCtrlGetClassEngineIdParams \in Type
    /\ Nvc36fCtrlCmdGpfifoGetWorkSubmitTokenParams \in Type
    /\ Nv2080CtrlMcGetArchInfoParams \in Type
    /\ Nv2080CtrlGpuGetInfoV2Params \in Type /\ {70} \subseteq Nv2080CtrlGpuGetInfoV2Params.lens
    /\ Nv2080CtrlGpuGetNameStringParams \in Type
    /\ Nv2080CtrlGpuGetShortNameStringParams \in Type
    /\ Nv2080CtrlGpuGetSimulationInfoParams \in Type
    /\ Nv2080CtrlGpuGetEnginesV2Params \in Type /\ {84} \subseteq Nv2080CtrlGpuGetEnginesV2Params.lens
    /\ Nv2080CtrlGpuQueryEccExceptionStatus \in Type
    /\ Nv2080CtrlGpuQueryEccUnitStatus \in Type
    /\ Nv2080CtrlGrRouteInfo \in Type
    /\ Nv2080CtrlGpuQueryEccStatusParams \in Type /\ {41} \subseteq Nv2080CtrlGpuQueryEccStatusParams.lens
    /\ Nv2080CtrlGpuQueryComputeModeRulesParams \in Type
    /\ Nv2080CtrlGpuGetGidInfoParams \in Type /\ {256} \subseteq Nv2080CtrlGpuGetGidInfoParams.lens
    /\ Nv2080CtrlFbGetInfoV2Params \in Type /\ {128} \subseteq Nv2080CtrlFbGetInfoV2Params.lens
    /\ Nv2080CtrlBusGetPciInfoParams \in Type
    /\ Nv2080CtrlBusGetInfoV2Params \in Type /\ {52} \subseteq Nv2080CtrlBusGetInfoV2Params.lens
    /\ Nv2080CtrlBusPciBarInfo \in Type
    /\ Nv2080CtrlBusGetPciBarInfoParams \in Type /\ {8} \subseteq Nv2080CtrlBusGetPciBarInfoParams.lens
    /\ Nv2080CtrlBusPcieGpuAtomicOpInfo \in Type
    /\ Nv2080CtrlCmdBusGetPcieSupportedGpuAtomicsParams \in Type
    /\ Nv2080CtrlBusGetC2cInfoParams \in Type
    /\ Nv2080CtrlGrGetInfoParams \in Type
    /\ Nv2080CtrlGrGlobalSmId \in Type
    /\ Nv2080CtrlGrGetGlobalSmOrderParams \in Type /\ {512} \subseteq Nv2080CtrlGrGetGlobalSmOrderParams.lens
    /\ Nv0080CtrlGrGetCapsV2Params \in Type
    /\ Nv2080CtrlGrGetGpcMaskParams \in Type
    /\ Nv2080CtrlGrGetTpcMaskParams \in Type
    /\ Nv2080CtrlGrSetCtxswPreemptionModeParams \in Type
    /\ Nv2080CtrlGrGetCtxBufferSizeParams \in Type
    /\ Nv2080CtrlCeGetAllCapsParams \in Type /\ {64} \subseteq Nv2080CtrlCeGetAllCapsParams.lens
    /\ Nv2080CtrlNvlinkLinkMask \in Type
    /\ Nv2080CtrlNvlinkGetNvlinkStatusParamsPrefix \in Type
    /\ Nv2080CtrlGspGetFeaturesParams \in Type
    /\ Nv2080CtrlGrmgrGrFsInfoQueryParams \in Type
    /\ Nv2080CtrlGrmgrGetGrFsInfoParams \in Type /\ {96} \subseteq Nv2080CtrlGrmgrGetGrFsInfoParams.lens
    /\ NvConfComputeCtrlCmdSystemGetCapabilitiesParams \in Type
    /\ Nva06cCtrlGpfifoScheduleParams \in Type
    /\ Nva06cCtrlTimesliceParams \in Type
    /\ Nva06cCtrlPreemptParams \in Type
    /\ Nv83deCtrlDebugSetExceptionMaskParams \in Type
    /\ Nv2080CtrlPerfBoostParams \in Type
    /\ NvxxxxCtrlXxxInfo \in Type
<1>1. Nv0000CtrlClientGetAddrSpaceTypeParams \in Type
  BY BaseTypes, ArrType, Struct1 DEF Nv0000CtrlClientGetAddrSpaceTypeParams
<1>2. Nv0000CtrlOsUnixGetControlFileDescriptorParams \in Type
  BY BaseTypes, ArrType, Struct1 DEF Nv0000CtrlOsUnixGetControlFileDescriptorParams
<1>3. Nv0000CtrlSystemGetBuildVersionParams \in Type
  BY BaseTypes, ArrType, Struct3 DEF Nv0000CtrlSystemGetBuildVersionParams
<1>4. Nv0000CtrlClientSetInheritedSharePolicyParams \in Type
  BY EscapeTypes, BaseTypes, ArrType, Struct1 DEF Nv0000CtrlClientSetInheritedSharePolicyParams
<1>5. Nv0000CtrlSystemGetFeaturesParams \in Type
  BY BaseTypes, ArrType, Struct1 DEF Nv0000CtrlSystemGetFeaturesParams
<1>6. Nv0000CtrlSystemGetFabricStatusParams \in Type
  BY BaseTypes, ArrType, Struct1 DEF Nv0000CtrlSystemGetFabricStatusParams
<1>7. Nv0000CtrlSystemGetP2PCapsMatrixParams \in Type /\ {8} \subseteq Nv0000CtrlSystemGetP2PCapsMatrixParams.lens
  BY BaseTypes, ArrType, Struct3 DEF Nv0000CtrlSystemGetP2PCapsMatrixParams
<1>8. Nv0000CtrlGpuGetMemopEnableParams \in Type
  BY BaseTypes, ArrType, Struct1 DEF Nv0000CtrlGpuGetMemopEnableParams
<1>9. Nv0000CtrlGpuGetAttachedIdsParams \in Type /\ {32} \subseteq Nv0000CtrlGpuGetAttachedIdsParams.lens
  BY BaseTypes, ArrType, Struct1 DEF Nv0000CtrlGpuGetAttachedIdsParams
<1>10. Nv0000CtrlGpuGetIdInfoParams \in Type
  BY BaseTypes, ArrType, Struct3 DEF Nv0000CtrlGpuGetIdInfoParams
<1>11. Nv0000CtrlGpuGetIdInfoV2Params \in Type
  BY BaseTypes, ArrType, Struct1 DEF Nv0000CtrlGpuGetIdInfoV2Params
<1>12. Nv0000CtrlGpuGetProbedIdsParams \in Type /\ {32} \subseteq Nv0000CtrlGpuGetProbedIdsParams.lens
  BY BaseTypes, ArrType, Struct1 DEF Nv0000CtrlGpuGetProbedIdsParams
<1>13. Nv0000CtrlGpuAttachIdsParams \in Type /\ {32} \subseteq Nv0000CtrlGpuAttachIdsParams.lens
  BY BaseTypes, ArrType, Struct2 DEF Nv0000CtrlGpuAttachIdsParams
<1>14. Nv0000CtrlGpuActiveDevice \in Type
  BY BaseTypes, ArrType, Struct1 DEF Nv0000CtrlGpuActiveDevice
<1>15. Nv0000CtrlGpuGetActiveDeviceIdsParams \in Type /\ {256} \subseteq Nv0000CtrlGpuGetActiveDeviceIdsParams.lens
  BY <1>14, BaseTypes, ArrType, Struct2 DEF Nv0000CtrlGpuGetActiveDeviceIdsParams
<1>16. Nv0000SyncGpuBoostGroupConfig \in Type /\ {32} \subseteq Nv0000SyncGpuBoostGroupConfig.lens
  <2>1. /\ Arr(32, U32) \in Type /\ {32} \subseteq Arr(32, U32).lens
        /\ Arr(3, U8) \in Type
    BY BaseTypes, ArrType
  <2> QED
    BY <2>1, BaseTypes, Struct5 DEF Nv0000SyncGpuBoostGroupConfig
<1>17. Nv0000SyncGpuBoostGroupInfoParams \in Type /\ {16, 32} \subseteq Nv0000SyncGpuBoostGroupInfoParams.lens
  <2>1. /\ Arr(16, Nv0000SyncGpuBoostGroupConfig) \in Type /\ {16, 32} \subseteq Arr(16, Nv0000SyncGpuBoostGroupConfig).lens
    BY <1>16, BaseTypes, ArrType
  <2> QED
    BY <2>1, <1>16, BaseTypes, Struct2 DEF Nv0000SyncGpuBoostGroupInfoParams
<1>18. Nv0080CtrlHostGetCapsV2Params \in Type
  BY BaseTypes, ArrType, Struct1 DEF Nv0080CtrlHostGetCapsV2Params
<1>19. Nv0080CtrlGpuGetNumSubdevicesParams \in Type
  BY BaseTypes, ArrType, Struct1 DEF Nv0080CtrlGpuGetNumSubdevicesParams
<1>20. Nv0080CtrlGpuGetClasslistV2Params \in Type /\ {200} \subseteq Nv0080CtrlGpuGetClasslistV2Params.lens
  BY BaseTypes, ArrType, Struct2 DEF Nv0080CtrlGpuGetClasslistV2Params
<1>21. Nv0080CtrlGpuGetVirtualizationModeParams \in Type
  BY BaseTypes, ArrType, Struct3 DEF Nv0080CtrlGpuGetVirtualizationModeParams
<1>22. Nv0080CtrlFifoGetChannellistParams \in Type
  BY BaseTypes, ArrType, Struct2 DEF Nv0080CtrlFifoGetChannellistParams
<1>23. Nv0080CtrlPerfCudaLimitControlParams \in Type
  BY BaseTypes, ArrType, Struct1 DEF Nv0080CtrlPerfCudaLimitControlParams
<1>24. Nv0080CtrlFbGetCapsV2Params \in Type
  BY BaseTypes, ArrType, Struct1 DEF Nv0080CtrlFbGetCapsV2Params
<1>25. Nv906fCtrlGetClassEngineIdParams \in Type
  BY BaseTypes, ArrType, Struct1 DEF Nv906fCtrlGetClassEngineIdParams
<1>26. Nvc36fCtrlCmdGpfifoGetWorkSubmitTokenParams \in Type
  BY BaseTypes, ArrType, Struct1 DEF Nvc36fCtrlCmdGpfifoGetWorkSubmitTokenParams
<1>27. Nv2080CtrlMcGetArchInfoParams \in Type
  BY BaseTypes, ArrType, Struct3 DEF Nv2080CtrlMcGetArchInfoParams
<1>28. Nv2080CtrlGpuGetInfoV2Params \in Type /\ {70} \subseteq Nv2080CtrlGpuGetInfoV2Params.lens
  BY Sizes1, BaseTypes, ArrType, Struct2 DEF Nv2080CtrlGpuGetInfoV2Params, Sized
<1>29. Nv2080CtrlGpuGetNameStringParams \in Type
  BY BaseTypes, ArrType, Struct2 DEF Nv2080CtrlGpuGetNameStringParams
<1>30. Nv2080CtrlGpuGetShortNameStringParams \in Type
  BY BaseTypes, ArrType, Struct1 DEF Nv2080CtrlGpuGetShortNameStringParams
<1>31. Nv2080CtrlGpuGetSimulationInfoParams \in Type
  BY BaseTypes, ArrType, Struct1 DEF Nv2080CtrlGpuGetSimulationInfoParams
<1>32. Nv2080CtrlGpuGetEnginesV2Params \in Type /\ {84} \subseteq Nv2080CtrlGpuGetEnginesV2Params.lens
  BY BaseTypes, ArrType, Struct2 DEF Nv2080CtrlGpuGetEnginesV2Params
<1>33. Nv2080CtrlGpuQueryEccExceptionStatus \in Type
  BY BaseTypes, ArrType, Struct1 DEF Nv2080CtrlGpuQueryEccExceptionStatus
<1>34. Nv2080CtrlGpuQueryEccUnitStatus \in Type
  BY <1>33, BaseTypes, ArrType, Struct3 DEF Nv2080CtrlGpuQueryEccUnitStatus
<1>35. Nv2080CtrlGrRouteInfo \in Type
  BY BaseTypes, ArrType, Struct2 DEF Nv2080CtrlGrRouteInfo
<1>36. Nv2080CtrlGpuQueryEccStatusParams \in Type /\ {41} \subseteq Nv2080CtrlGpuQueryEccStatusParams.lens
  <2>1. /\ Arr(41, Nv2080CtrlGpuQueryEccUnitStatus) \in Type /\ {41} \subseteq Arr(41, Nv2080CtrlGpuQueryEccUnitStatus).lens
        /\ Arr(2, U8) \in Type
    BY <1>34, <1>35, BaseTypes, ArrType
  <2> QED
    BY <2>1, <1>34, <1>35, BaseTypes, Struct5 DEF Nv2080CtrlGpuQueryEccStatusParams
<1>37. Nv2080CtrlGpuQueryComputeModeRulesParams \in Type
  BY BaseTypes, ArrType, Struct1 DEF Nv2080CtrlGpuQueryComputeModeRulesParams
<1>38. Nv2080CtrlGpuGetGidInfoParams \in Type /\ {256} \subseteq Nv2080CtrlGpuGetGidInfoParams.lens
  BY BaseTypes, ArrType, Struct2 DEF Nv2080CtrlGpuGetGidInfoParams
<1>39. Nv2080CtrlFbGetInfoV2Params \in Type /\ {128} \subseteq Nv2080CtrlFbGetInfoV2Params.lens
  BY Sizes1, BaseTypes, ArrType, Struct2 DEF Nv2080CtrlFbGetInfoV2Params, Sized
<1>40. Nv2080CtrlBusGetPciInfoParams \in Type
  BY BaseTypes, ArrType, Struct1 DEF Nv2080CtrlBusGetPciInfoParams
<1>41. Nv2080CtrlBusGetInfoV2Params \in Type /\ {52} \subseteq Nv2080CtrlBusGetInfoV2Params.lens
  BY Sizes1, BaseTypes, ArrType, Struct2 DEF Nv2080CtrlBusGetInfoV2Params, Sized
<1>42. Nv2080CtrlBusPciBarInfo \in Type
  BY BaseTypes, ArrType, Struct2 DEF Nv2080CtrlBusPciBarInfo
<1>43. Nv2080CtrlBusGetPciBarInfoParams \in Type /\ {8} \subseteq Nv2080CtrlBusGetPciBarInfoParams.lens
  BY <1>42, BaseTypes, ArrType, Struct2 DEF Nv2080CtrlBusGetPciBarInfoParams
<1>44. Nv2080CtrlBusPcieGpuAtomicOpInfo \in Type
  BY BaseTypes, ArrType, Struct3 DEF Nv2080CtrlBusPcieGpuAtomicOpInfo
<1>45. Nv2080CtrlCmdBusGetPcieSupportedGpuAtomicsParams \in Type
  BY <1>44, BaseTypes, ArrType, Struct2 DEF Nv2080CtrlCmdBusGetPcieSupportedGpuAtomicsParams
<1>46. Nv2080CtrlBusGetC2cInfoParams \in Type
  BY BaseTypes, ArrType, Struct3 DEF Nv2080CtrlBusGetC2cInfoParams
<1>47. Nv2080CtrlGrGetInfoParams \in Type
  BY <1>35, BaseTypes, ArrType, Struct3 DEF Nv2080CtrlGrGetInfoParams
<1>48. Nv2080CtrlGrGlobalSmId \in Type
  BY BaseTypes, ArrType, Struct1 DEF Nv2080CtrlGrGlobalSmId
<1>49. Nv2080CtrlGrGetGlobalSmOrderParams \in Type /\ {512} \subseteq Nv2080CtrlGrGetGlobalSmOrderParams.lens
  <2>1. /\ Arr(512, Nv2080CtrlGrGlobalSmId) \in Type /\ {512} \subseteq Arr(512, Nv2080CtrlGrGlobalSmId).lens
        /\ Arr(2, U16) \in Type
    BY <1>48, <1>35, BaseTypes, ArrType
  <2> QED
    BY <2>1, <1>48, <1>35, BaseTypes, Struct4 DEF Nv2080CtrlGrGetGlobalSmOrderParams
<1>50. Nv0080CtrlGrGetCapsV2Params \in Type
  BY <1>35, BaseTypes, ArrType, Struct5 DEF Nv0080CtrlGrGetCapsV2Params
<1>51. Nv2080CtrlGrGetGpcMaskParams \in Type
  BY <1>35, BaseTypes, ArrType, Struct2 DEF Nv2080CtrlGrGetGpcMaskParams
<1>52. Nv2080CtrlGrGetTpcMaskParams \in Type
  BY <1>35, BaseTypes, ArrType, Struct2 DEF Nv2080CtrlGrGetTpcMaskParams
<1>53. Nv2080CtrlGrSetCtxswPreemptionModeParams \in Type
  BY <1>35, BaseTypes, ArrType, Struct2 DEF Nv2080CtrlGrSetCtxswPreemptionModeParams
<1>54. Nv2080CtrlGrGetCtxBufferSizeParams \in Type
  BY BaseTypes, ArrType, Struct2 DEF Nv2080CtrlGrGetCtxBufferSizeParams
<1>55. Nv2080CtrlCeGetAllCapsParams \in Type /\ {64} \subseteq Nv2080CtrlCeGetAllCapsParams.lens
  BY BaseTypes, ArrType, Struct2 DEF Nv2080CtrlCeGetAllCapsParams
<1>56. Nv2080CtrlNvlinkLinkMask \in Type
  BY BaseTypes, ArrType, Struct3 DEF Nv2080CtrlNvlinkLinkMask
<1>57. Nv2080CtrlNvlinkGetNvlinkStatusParamsPrefix \in Type
  BY <1>56, BaseTypes, ArrType, Struct3 DEF Nv2080CtrlNvlinkGetNvlinkStatusParamsPrefix
<1>58. Nv2080CtrlGspGetFeaturesParams \in Type
  BY BaseTypes, ArrType, Struct4 DEF Nv2080CtrlGspGetFeaturesParams
<1>59. Nv2080CtrlGrmgrGrFsInfoQueryParams \in Type
  BY BaseTypes, ArrType, Struct4 DEF Nv2080CtrlGrmgrGrFsInfoQueryParams
<1>60. Nv2080CtrlGrmgrGetGrFsInfoParams \in Type /\ {96} \subseteq Nv2080CtrlGrmgrGetGrFsInfoParams.lens
  BY <1>59, BaseTypes, ArrType, Struct3 DEF Nv2080CtrlGrmgrGetGrFsInfoParams
<1>61. NvConfComputeCtrlCmdSystemGetCapabilitiesParams \in Type
  BY BaseTypes, ArrType, Struct1 DEF NvConfComputeCtrlCmdSystemGetCapabilitiesParams
<1>62. Nva06cCtrlGpfifoScheduleParams \in Type
  BY BaseTypes, ArrType, Struct1 DEF Nva06cCtrlGpfifoScheduleParams
<1>63. Nva06cCtrlTimesliceParams \in Type
  BY BaseTypes, ArrType, Struct1 DEF Nva06cCtrlTimesliceParams
<1>64. Nva06cCtrlPreemptParams \in Type
  BY BaseTypes, ArrType, Struct3 DEF Nva06cCtrlPreemptParams
<1>65. Nv83deCtrlDebugSetExceptionMaskParams \in Type
  BY BaseTypes, ArrType, Struct1 DEF Nv83deCtrlDebugSetExceptionMaskParams
<1>66. Nv2080CtrlPerfBoostParams \in Type
  BY BaseTypes, ArrType, Struct1 DEF Nv2080CtrlPerfBoostParams
<1> QED
  BY <1>1, <1>2, <1>3, <1>4, <1>5, <1>6, <1>7, <1>8, <1>9, <1>10, <1>11, <1>12, <1>13, <1>14, <1>15, <1>16, <1>17, <1>18, <1>19, <1>20, <1>21, <1>22, <1>23, <1>24, <1>25, <1>26, <1>27, <1>28, <1>29, <1>30, <1>31, <1>32, <1>33, <1>34, <1>35, <1>36, <1>37, <1>38, <1>39, <1>40, <1>41, <1>42, <1>43, <1>44, <1>45, <1>46, <1>47, <1>48, <1>49, <1>50, <1>51, <1>52, <1>53, <1>54, <1>55, <1>56, <1>57, <1>58, <1>59, <1>60, <1>61, <1>62, <1>63, <1>64, <1>65, <1>66, Sizes1 DEF Sized

\* The structures of the UVM ioctls.
LEMMA UvmTypes ==
    /\ UvmInitializeParams \in Type
    /\ UvmReserveVaParams \in Type
    /\ UvmRegionCommitParams \in Type
    /\ UvmRegionSetStreamParams \in Type
    /\ UvmSetStreamRunningParams \in Type
    /\ UvmSetStreamStoppedParams \in Type /\ {32} \subseteq UvmSetStreamStoppedParams.lens
    /\ UvmAddSessionParams \in Type
    /\ UvmCounterConfig \in Type
    /\ UvmEnableCountersParams \in Type /\ {32} \subseteq UvmEnableCountersParams.lens
    /\ UvmMapCounterParams \in Type
    /\ UvmCreateEventQueueParams \in Type
    /\ UvmRemoveEventQueueParams \in Type
    /\ UvmMapEventQueueParams \in Type
    /\ UvmEventCtrlParams \in Type
    /\ UvmGetGpuUuidTableParams \in Type /\ {32} \subseteq UvmGetGpuUuidTableParams.lens
    /\ UvmRegionSetBackingParams \in Type
    /\ UvmRegionUnsetBackingParams \in Type
    /\ UvmCreateRangeGroupParams \in Type
    /\ UvmDestroyRangeGroupParams \in Type
    /\ UvmRegisterGpuVaspaceParams \in Type
    /\ UvmUnregisterGpuVaspaceParams \in Type
    /\ UvmRegisterChannelParams \in Type
    /\ UvmUnregisterChannelParams \in Type
    /\ UvmPeerAccessParams \in Type
    /\ UvmSetRangeGroupParams \in Type
    /\ UvmGpuMappingAttributes \in Type
    /\ UvmMapExternalAllocationParams \in Type /\ {256} \subseteq UvmMapExternalAllocationParams.lens
    /\ UvmFreeParams \in Type
    /\ UvmMemMapParams \in Type
    /\ UvmRegisterGpuParams \in Type
    /\ UvmUnregisterGpuParams \in Type
    /\ UvmPageableMemAccessParams \in Type
    /\ UvmRangeGroupsParams \in Type /\ {32} \subseteq UvmRangeGroupsParams.lens
    /\ UvmSetPreferredLocationParams \in Type
    /\ UvmSetAccessedByParams \in Type
    /\ UvmMigrateParams \in Type
    /\ UvmMigrateRangeGroupParams \in Type
    /\ UvmGpuUuidParams \in Type
    /\ UvmToolsInitEventTrackerParams \in Type
    /\ UvmToolsSetNotificationThresholdParams \in Type
    /\ UvmToolsFlagsParams \in Type
    /\ UvmToolsReadProcessMemoryParams \in Type
    /\ UvmToolsWriteProcessMemoryParams \in Type
    /\ UvmToolsGetProcessorUuidTableParams \in Type
    /\ UvmBaseLengthGpuUuidParams \in Type
    /\ UvmStatusParams \in Type
    /\ UvmAllocSemaphorePoolParams \in Type /\ {256} \subseteq UvmAllocSemaphorePoolParams.lens
    /\ UvmPageableMemAccessOnGpuParams \in Type
    /\ UvmPopulatePageableParams \in Type
    /\ UvmValidateVaRangeParams \in Type
    /\ UvmCreateExternalRangeParams \in Type
    /\ UvmMmInitializeParams \in Type
    /\ UvmAllocDeviceP2pParams \in Type
    /\ UvmDiscardParams \in Type
    /\ UvmIs8SupportedParams \in Type
<1>1. UvmInitializeParams \in Type
  BY BaseTypes, ArrType, Struct2 DEF UvmInitializeParams
<1>2. UvmReserveVaParams \in Type
  BY BaseTypes, ArrType, Struct2 DEF UvmReserveVaParams
<1>3. UvmRegionCommitParams \in Type
  BY BaseTypes, ArrType, Struct3 DEF UvmRegionCommitParams
<1>4. UvmRegionSetStreamParams \in Type
  BY BaseTypes, ArrType, Struct3 DEF UvmRegionSetStreamParams
<1>5. UvmSetStreamRunningParams \in Type
  BY BaseTypes, ArrType, Struct2 DEF UvmSetStreamRunningParams
<1>6. UvmSetStreamStoppedParams \in Type /\ {32} \subseteq UvmSetStreamStoppedParams.lens
  BY BaseTypes, ArrType, Struct3 DEF UvmSetStreamStoppedParams
<1>7. UvmAddSessionParams \in Type
  BY BaseTypes, ArrType, Struct1 DEF UvmAddSessionParams
<1>8. UvmCounterConfig \in Type
  BY BaseTypes, ArrType, Struct3 DEF UvmCounterConfig
<1>9. UvmEnableCountersParams \in Type /\ {32} \subseteq UvmEnableCountersParams.lens
  BY <1>8, BaseTypes, ArrType, Struct2 DEF UvmEnableCountersParams
<1>10. UvmMapCounterParams \in Type
  BY BaseTypes, ArrType, Struct4 DEF UvmMapCounterParams
<1>11. UvmCreateEventQueueParams \in Type
  BY BaseTypes, ArrType, Struct3 DEF UvmCreateEventQueueParams
<1>12. UvmRemoveEventQueueParams \in Type
  BY BaseTypes, ArrType, Struct1 DEF UvmRemoveEventQueueParams
<1>13. UvmMapEventQueueParams \in Type
  BY BaseTypes, ArrType, Struct3 DEF UvmMapEventQueueParams
<1>14. UvmEventCtrlParams \in Type
  BY BaseTypes, ArrType, Struct1 DEF UvmEventCtrlParams
<1>15. UvmGetGpuUuidTableParams \in Type /\ {32} \subseteq UvmGetGpuUuidTableParams.lens
  BY BaseTypes, ArrType, Struct2 DEF UvmGetGpuUuidTableParams
<1>16. UvmRegionSetBackingParams \in Type
  BY BaseTypes, ArrType, Struct4 DEF UvmRegionSetBackingParams
<1>17. UvmRegionUnsetBackingParams \in Type
  BY BaseTypes, ArrType, Struct2 DEF UvmRegionUnsetBackingParams
<1>18. UvmCreateRangeGroupParams \in Type
  BY BaseTypes, ArrType, Struct2 DEF UvmCreateRangeGroupParams
<1>19. UvmDestroyRangeGroupParams \in Type
  BY BaseTypes, ArrType, Struct2 DEF UvmDestroyRangeGroupParams
<1>20. UvmRegisterGpuVaspaceParams \in Type
  BY BaseTypes, ArrType, Struct2 DEF UvmRegisterGpuVaspaceParams
<1>21. UvmUnregisterGpuVaspaceParams \in Type
  BY BaseTypes, ArrType, Struct2 DEF UvmUnregisterGpuVaspaceParams
<1>22. UvmRegisterChannelParams \in Type
  BY BaseTypes, ArrType, Struct4 DEF UvmRegisterChannelParams
<1>23. UvmUnregisterChannelParams \in Type
  BY BaseTypes, ArrType, Struct1 DEF UvmUnregisterChannelParams
<1>24. UvmPeerAccessParams \in Type
  BY BaseTypes, ArrType, Struct2 DEF UvmPeerAccessParams
<1>25. UvmSetRangeGroupParams \in Type
  BY BaseTypes, ArrType, Struct2 DEF UvmSetRangeGroupParams
<1>26. UvmGpuMappingAttributes \in Type
  BY BaseTypes, ArrType, Struct2 DEF UvmGpuMappingAttributes
<1>27. UvmMapExternalAllocationParams \in Type /\ {256} \subseteq UvmMapExternalAllocationParams.lens
  BY <1>26, BaseTypes, ArrType, Struct4 DEF UvmMapExternalAllocationParams
<1>28. UvmFreeParams \in Type
  BY BaseTypes, ArrType, Struct2 DEF UvmFreeParams
<1>29. UvmMemMapParams \in Type
  BY BaseTypes, ArrType, Struct2 DEF UvmMemMapParams
<1>30. UvmRegisterGpuParams \in Type
  BY BaseTypes, ArrType, Struct4 DEF UvmRegisterGpuParams
<1>31. UvmUnregisterGpuParams \in Type
  BY BaseTypes, ArrType, Struct2 DEF UvmUnregisterGpuParams
<1>32. UvmPageableMemAccessParams \in Type
  BY BaseTypes, ArrType, Struct3 DEF UvmPageableMemAccessParams
<1>33. UvmRangeGroupsParams \in Type /\ {32} \subseteq UvmRangeGroupsParams.lens
  BY BaseTypes, ArrType, Struct3 DEF UvmRangeGroupsParams
<1>34. UvmSetPreferredLocationParams \in Type
  BY BaseTypes, ArrType, Struct3 DEF UvmSetPreferredLocationParams
<1>35. UvmSetAccessedByParams \in Type
  BY BaseTypes, ArrType, Struct3 DEF UvmSetAccessedByParams
<1>36. UvmMigrateParams \in Type
  <2>1. /\ Arr(2, U64) \in Type
        /\ Arr(16, U8) \in Type
        /\ Arr(2, U32) \in Type
    BY BaseTypes, ArrType
  <2> QED
    BY <2>1, BaseTypes, Struct7 DEF UvmMigrateParams
<1>37. UvmMigrateRangeGroupParams \in Type
  BY BaseTypes, ArrType, Struct3 DEF UvmMigrateRangeGroupParams
<1>38. UvmGpuUuidParams \in Type
  BY BaseTypes, ArrType, Struct2 DEF UvmGpuUuidParams
<1>39. UvmToolsInitEventTrackerParams \in Type
  BY BaseTypes, ArrType, Struct3 DEF UvmToolsInitEventTrackerParams
<1>40. UvmToolsSetNotificationThresholdParams \in Type
  BY BaseTypes, ArrType, Struct1 DEF UvmToolsSetNotificationThresholdParams
<1>41. UvmToolsFlagsParams \in Type
  BY BaseTypes, ArrType, Struct2 DEF UvmToolsFlagsParams
<1>42. UvmToolsReadProcessMemoryParams \in Type
  BY BaseTypes, ArrType, Struct2 DEF UvmToolsReadProcessMemoryParams
<1>43. UvmToolsWriteProcessMemoryParams \in Type
  BY BaseTypes, ArrType, Struct2 DEF UvmToolsWriteProcessMemoryParams
<1>44. UvmToolsGetProcessorUuidTableParams \in Type
  BY BaseTypes, ArrType, Struct2 DEF UvmToolsGetProcessorUuidTableParams
<1>45. UvmBaseLengthGpuUuidParams \in Type
  BY BaseTypes, ArrType, Struct3 DEF UvmBaseLengthGpuUuidParams
<1>46. UvmStatusParams \in Type
  BY BaseTypes, ArrType, Struct1 DEF UvmStatusParams
<1>47. UvmAllocSemaphorePoolParams \in Type /\ {256} \subseteq UvmAllocSemaphorePoolParams.lens
  BY <1>26, BaseTypes, ArrType, Struct4 DEF UvmAllocSemaphorePoolParams
<1>48. UvmPageableMemAccessOnGpuParams \in Type
  BY BaseTypes, ArrType, Struct4 DEF UvmPageableMemAccessOnGpuParams
<1>49. UvmPopulatePageableParams \in Type
  BY BaseTypes, ArrType, Struct2 DEF UvmPopulatePageableParams
<1>50. UvmValidateVaRangeParams \in Type
  BY BaseTypes, ArrType, Struct2 DEF UvmValidateVaRangeParams
<1>51. UvmCreateExternalRangeParams \in Type
  BY BaseTypes, ArrType, Struct2 DEF UvmCreateExternalRangeParams
<1>52. UvmMmInitializeParams \in Type
  BY BaseTypes, ArrType, Struct1 DEF UvmMmInitializeParams
<1>53. UvmAllocDeviceP2pParams \in Type
  BY BaseTypes, ArrType, Struct3 DEF UvmAllocDeviceP2pParams
<1>54. UvmDiscardParams \in Type
  BY BaseTypes, ArrType, Struct2 DEF UvmDiscardParams
<1>55. UvmIs8SupportedParams \in Type
  BY BaseTypes, ArrType, Struct1 DEF UvmIs8SupportedParams
<1> QED
  BY <1>1, <1>2, <1>3, <1>4, <1>5, <1>6, <1>7, <1>8, <1>9, <1>10, <1>11, <1>12, <1>13, <1>14, <1>15, <1>16, <1>17, <1>18, <1>19, <1>20, <1>21, <1>22, <1>23, <1>24, <1>25, <1>26, <1>27, <1>28, <1>29, <1>30, <1>31, <1>32, <1>33, <1>34, <1>35, <1>36, <1>37, <1>38, <1>39, <1>40, <1>41, <1>42, <1>43, <1>44, <1>45, <1>46, <1>47, <1>48, <1>49, <1>50, <1>51, <1>52, <1>53, <1>54, <1>55

-----------------------------------------------------------------------------
(* How scripts are put together.                                            *)

\* Two scripts are sequences over one set.
LEMMA ScriptsOf ==
    ASSUME NEW q, NEW r, IsScript(q), IsScript(r)
    PROVE  \E S : q \in Seq(S) /\ r \in Seq(S)
<1> DEFINE S == Range(q) \cup Range(r)
<1>1. \A x \in Range(q) : x \in S
  OBVIOUS
<1>2. \A x \in Range(r) : x \in S
  OBVIOUS
<1> HIDE DEF S
<1>3. q \in Seq(S)
  BY <1>1 DEF IsScript
<1>4. r \in Seq(S)
  BY <1>2 DEF IsScript
<1> QED
  BY <1>3, <1>4

\* Scripts with the same steps are equal.
LEMMA ScriptEqual ==
    ASSUME NEW q, NEW r, IsScript(q), IsScript(r), Len(q) = Len(r),
           \A i \in 1..Len(q) : q[i] = r[i]
    PROVE  q = r
<1>1. PICK S : q \in Seq(S) /\ r \in Seq(S)
  BY ScriptsOf
<1> QED
  BY <1>1, SeqEqual

\* The rest of a script after its first step.
LEMMA TailCons ==
    ASSUME NEW x, NEW q, IsScript(q)
    PROVE  /\ Tail(<<x>> \o q) = q /\ IsScript(<<x>> \o q)
           /\ Len(<<x>> \o q) = 1 + Len(q) /\ (<<x>> \o q)[1] = x
           /\ Len(q) \in Nat
<1>1. IsScript(<<x>>) /\ Len(<<x>>) = 1 /\ <<x>>[1] = x
  BY Script1
<1> DEFINE r == <<x>> \o q
<1>2. IsScript(r) /\ Len(r) = 1 + Len(q) /\ Len(q) \in Nat
        /\ \A i \in 1..(1 + Len(q)) : r[i] = IF i <= 1 THEN <<x>>[i] ELSE q[i - 1]
  BY <1>1, ScriptConcat
<1> HIDE DEF r
<1>3. 1 \in 1..(1 + Len(q)) /\ Len(r) > 0
  BY <1>2
<1>4. r[1] = x
  BY <1>1, <1>2, <1>3
<1>5. IsScript(Tail(r)) /\ Len(Tail(r)) = Len(r) - 1
        /\ \A i \in 1..(Len(r) - 1) : Tail(r)[i] = r[i + 1]
  BY <1>2, <1>3, ScriptTail
<1>6. Len(Tail(r)) = Len(q)
  BY <1>2, <1>5
<1>7. ASSUME NEW i \in 1..Len(q) PROVE Tail(r)[i] = q[i]
  <2>1. i \in 1..(Len(r) - 1) /\ i + 1 \in 1..(1 + Len(q)) /\ ~(i + 1 <= 1)
          /\ i + 1 - 1 = i
    BY <1>2
  <2> QED
    BY <1>2, <1>5, <2>1
<1>8. Tail(r) = q
  BY <1>5, <1>6, <1>7, ScriptEqual
<1> QED
  BY <1>2, <1>4, <1>8 DEF r

\* A script as its first step and the others.
LEMMA Cons2 ==
    ASSUME NEW x, NEW y
    PROVE  <<x, y>> = <<x>> \o <<y>>
<1>1. IsScript(<<x>>) /\ Len(<<x>>) = 1 /\ <<x>>[1] = x
        /\ IsScript(<<y>>) /\ Len(<<y>>) = 1 /\ <<y>>[1] = y
  BY Script1
<1> DEFINE r == <<x>> \o <<y>>
<1>2. IsScript(r) /\ Len(r) = 2
        /\ \A i \in 1..2 : r[i] = IF i <= 1 THEN <<x>>[i] ELSE <<y>>[i - 1]
  BY <1>1, ScriptConcat
<1>3. r[1] = x /\ r[2] = y
  BY <1>1, <1>2
<1>4. IsScript(<<x, y>>) /\ Len(<<x, y>>) = 2 /\ <<x, y>>[1] = x /\ <<x, y>>[2] = y
  BY Script2
<1> HIDE DEF r
<1>5. \A i \in 1..2 : i = 1 \/ i = 2
  OBVIOUS
<1>6. \A i \in 1..2 : <<x, y>>[i] = r[i]
  BY <1>3, <1>4, <1>5
<1>7. <<x, y>> = r
  BY <1>2, <1>4, <1>6, ScriptEqual
<1> QED
  BY <1>7 DEF r

\* Scripts of three and four steps.
LEMMA Script3 ==
    ASSUME NEW x, NEW y, NEW z
    PROVE  IsScript(<<x, y, z>>) /\ Len(<<x, y, z>>) = 3
             /\ <<x, y, z>>[1] = x /\ <<x, y, z>>[2] = y /\ <<x, y, z>>[3] = z
<1>1. <<x, y, z>> \in Seq({x, y, z})
  OBVIOUS
<1> QED
  BY <1>1, SeqIsScript

LEMMA Script4 ==
    ASSUME NEW x, NEW y, NEW z, NEW u
    PROVE  IsScript(<<x, y, z, u>>) /\ Len(<<x, y, z, u>>) = 4
             /\ <<x, y, z, u>>[1] = x /\ <<x, y, z, u>>[2] = y
             /\ <<x, y, z, u>>[3] = z /\ <<x, y, z, u>>[4] = u
<1>1. <<x, y, z, u>> \in Seq({x, y, z, u})
  OBVIOUS
<1> QED
  BY <1>1, SeqIsScript

\* ... of three and four steps.
LEMMA Cons3 ==
    ASSUME NEW x, NEW y, NEW z
    PROVE  <<x, y, z>> = <<x>> \o <<y, z>> /\ <<x, y, z>> = <<x, y>> \o <<z>>
<1> DEFINE t == <<x, y, z>>
<1>1. IsScript(t) /\ Len(t) = 3 /\ t[1] = x /\ t[2] = y /\ t[3] = z
  BY Script3
<1> HIDE DEF t
<1>2. \A i \in 1..3 : i = 1 \/ i = 2 \/ i = 3
  OBVIOUS
<1>3. IsScript(<<x>>) /\ Len(<<x>>) = 1 /\ <<x>>[1] = x
        /\ IsScript(<<z>>) /\ Len(<<z>>) = 1 /\ <<z>>[1] = z
  BY Script1
<1>4. /\ IsScript(<<y, z>>) /\ Len(<<y, z>>) = 2 /\ <<y, z>>[1] = y /\ <<y, z>>[2] = z
      /\ IsScript(<<x, y>>) /\ Len(<<x, y>>) = 2 /\ <<x, y>>[1] = x /\ <<x, y>>[2] = y
  BY Script2
<1>5. t = <<x>> \o <<y, z>>
  <2> DEFINE r == <<x>> \o <<y, z>>
  <2>1. IsScript(r) /\ Len(r) = 3
          /\ \A i \in 1..3 : r[i] = IF i <= 1 THEN <<x>>[i] ELSE <<y, z>>[i - 1]
    BY <1>3, <1>4, ScriptConcat
  <2> HIDE DEF r
  <2>2. r[1] = x /\ r[2] = y /\ r[3] = z
    BY <1>3, <1>4, <2>1
  <2>3. \A i \in 1..3 : t[i] = r[i]
    BY <1>1, <1>2, <2>2
  <2>4. t = r
    BY <1>1, <2>1, <2>3, ScriptEqual
  <2> QED
    BY <2>4 DEF r
<1>6. t = <<x, y>> \o <<z>>
  <2> DEFINE r == <<x, y>> \o <<z>>
  <2>1. IsScript(r) /\ Len(r) = 3
          /\ \A i \in 1..3 : r[i] = IF i <= 2 THEN <<x, y>>[i] ELSE <<z>>[i - 2]
    BY <1>3, <1>4, ScriptConcat
  <2> HIDE DEF r
  <2>2. r[1] = x /\ r[2] = y /\ r[3] = z
    BY <1>3, <1>4, <2>1
  <2>3. \A i \in 1..3 : t[i] = r[i]
    BY <1>1, <1>2, <2>2
  <2>4. t = r
    BY <1>1, <2>1, <2>3, ScriptEqual
  <2> QED
    BY <2>4 DEF r
<1> QED
  BY <1>5, <1>6 DEF t

LEMMA Cons4 ==
    ASSUME NEW x, NEW y, NEW z, NEW u
    PROVE  <<x, y, z, u>> = <<x>> \o <<y, z, u>>
<1> DEFINE t == <<x, y, z, u>>
           s == <<y, z, u>>
           r == <<x>> \o s
<1>1. IsScript(t) /\ Len(t) = 4 /\ t[1] = x /\ t[2] = y /\ t[3] = z /\ t[4] = u
  BY Script4
<1>2. IsScript(s) /\ Len(s) = 3 /\ s[1] = y /\ s[2] = z /\ s[3] = u
  BY Script3
<1>3. IsScript(<<x>>) /\ Len(<<x>>) = 1 /\ <<x>>[1] = x
  BY Script1
<1> HIDE DEF s, t
<1>4. IsScript(r) /\ Len(r) = 4
        /\ \A i \in 1..4 : r[i] = IF i <= 1 THEN <<x>>[i] ELSE s[i - 1]
  <2>1. IsScript(r) /\ Len(r) = Len(<<x>>) + Len(s)
          /\ \A i \in 1..(Len(<<x>>) + Len(s)) :
               r[i] = IF i <= Len(<<x>>) THEN <<x>>[i] ELSE s[i - Len(<<x>>)]
    BY <1>2, <1>3, ScriptConcat
  <2> HIDE DEF r
  <2> QED
    BY <1>2, <1>3, <2>1
<1> HIDE DEF r
<1>5. r[1] = x /\ r[2] = y /\ r[3] = z /\ r[4] = u
  BY <1>2, <1>3, <1>4
<1>6. \A i \in 1..4 : i = 1 \/ i = 2 \/ i = 3 \/ i = 4
  OBVIOUS
<1>7. \A i \in 1..4 : t[i] = r[i]
  BY <1>1, <1>5, <1>6
<1>8. t = r
  BY <1>1, <1>4, <1>7, ScriptEqual
<1> QED
  BY <1>8 DEF r, s, t

\* Concatenation is associative.
LEMMA ConsAssoc ==
    ASSUME NEW q, NEW r, NEW s, IsScript(q), IsScript(r), IsScript(s)
    PROVE  (q \o r) \o s = q \o (r \o s)
<1> DEFINE S == Range(q) \cup Range(r) \cup Range(s)
<1>1. \A x \in Range(q) : x \in S
  OBVIOUS
<1>2. \A x \in Range(r) : x \in S
  OBVIOUS
<1>3. \A x \in Range(s) : x \in S
  OBVIOUS
<1> HIDE DEF S
<1>4. q \in Seq(S)
  BY <1>1 DEF IsScript
<1>5. r \in Seq(S)
  BY <1>2 DEF IsScript
<1>6. s \in Seq(S)
  BY <1>3 DEF IsScript
<1> QED
  BY <1>4, <1>5, <1>6, ConcatAssociative

-----------------------------------------------------------------------------
(* Bodies from side steps.                                                  *)

\* Side steps in order: lists first, indirect arrays at the head.
Sides(q, g, arr, c) ==
    /\ IsScript(q)
    /\ \A i \in 1..Len(q) :
         /\ Side(q[i], g, c)
         /\ q[i].op = "list" =>
              q[i].cap \in arr /\ \A j \in 1..(i - 1) : q[j].op = "list"
         /\ q[i].op = "indirect" => i = 1

\* No side steps, one and two.
LEMMA Sides0 ==
    ASSUME NEW c, NEW g, NEW arr
    PROVE  Sides(<<>>, g, arr, c)
BY Script0 DEF Sides

LEMMA Sides1 ==
    ASSUME NEW c, NEW x, NEW g, NEW arr, Side(x, g, c), x.op = "list" => x.cap \in arr
    PROVE  Sides(<<x>>, g, arr, c)
<1>1. IsScript(<<x>>) /\ Len(<<x>>) = 1 /\ <<x>>[1] = x
  BY Script1
<1>2. \A i \in 1..1 : i = 1
  OBVIOUS
<1> QED
  BY <1>1, <1>2 DEF Sides

LEMMA Sides2 ==
    ASSUME NEW c, NEW x, NEW y, NEW g, NEW arr, Side(x, g, c), Side(y, g, c),
           x.op = "list" => x.cap \in arr,
           y.op = "list" => x.op = "list" /\ y.cap \in arr,
           y.op # "indirect"
    PROVE  Sides(<<x, y>>, g, arr, c)
<1>1. IsScript(<<x, y>>) /\ Len(<<x, y>>) = 2 /\ <<x, y>>[1] = x /\ <<x, y>>[2] = y
  BY Script2
<1> DEFINE q == <<x, y>>
<1>2. \A i \in 1..2 : i = 1 \/ i = 2
  OBVIOUS
<1>3. \A j \in 1..(2 - 1) : j = 1
  OBVIOUS
<1> HIDE DEF q
<1>4. IsScript(q) /\ Len(q) = 2 /\ q[1] = x /\ q[2] = y
  BY <1>1 DEF q
<1>5. Sides(q, g, arr, c)
  BY <1>2, <1>3, <1>4 DEF Sides
<1> QED
  BY <1>5 DEF q

\* Side steps, then a status.
LEMMA BodyOf ==
    ASSUME NEW q, NEW s, NEW c, NEW g, NEW arr, NEW w \in Int,
           Sides(q, g, arr, c), TrueStatus(s, c, g),
           s \notin {"arg_unreadable", "params_unreadable"},
           Len(q) + (IF Len(q) > 0 /\ q[1].op = "indirect" THEN q[1].copies - 1 ELSE 0)
                  - (IF Len(q) > 0 /\ q[Len(q)].op = "show" THEN 1 ELSE 0) <= w
    PROVE  Body(q \o <<Put(s)>>, c, g, arr, w)
<1> DEFINE n == Len(q)
           x == Put(s)
           r == q \o <<x>>
<1>1. IsScript(q)
  BY DEF Sides
<1>2. IsScript(<<x>>) /\ Len(<<x>>) = 1 /\ <<x>>[1] = x
  BY Script1
<1>3. x.op = "put" /\ x.status = s
  BY DEF Put
<1> HIDE DEF x
<1>4. n \in Nat /\ IsScript(r) /\ Len(r) = n + 1
        /\ \A i \in 1..(n + 1) : r[i] = IF i <= n THEN q[i] ELSE <<x>>[i - n]
  BY <1>1, <1>2, ScriptConcat
<1> HIDE DEF r
<1>5. r[n + 1] = x /\ \A i \in 1..n : r[i] = q[i]
  <2>1. n + 1 \in 1..(n + 1) /\ ~(n + 1 <= n) /\ n + 1 - n = 1
          /\ \A i \in 1..n : i \in 1..(n + 1) /\ i <= n
    BY <1>4
  <2> QED
    BY <1>2, <1>4, <2>1
<1>6. Len(r) - 1 = n /\ Len(r) > 0 /\ r[Len(r)] = x
  BY <1>4, <1>5
<1>7. \A i \in 1..n :
         /\ Side(r[i], g, c)
         /\ r[i].op = "list" =>
              r[i].cap \in arr /\ \A j \in 1..(i - 1) : r[j].op = "list"
         /\ r[i].op = "indirect" => i = 1
  <2> TAKE i \in 1..n
  <2>1. \A j \in 1..(i - 1) : j \in 1..n
    BY <1>4
  <2> QED
    BY <1>5, <2>1 DEF Sides
<1>8. Work(r) <= w
  <2>1. CASE n = 0
    <3>1. Len(r) = 1 /\ r[1] = x
      BY <2>1, <1>4, <1>5
    <3>2. Work(r) = 0
      BY <3>1, <1>3 DEF Work
    <3> QED
      BY <3>2, <2>1
  <2>2. CASE n # 0
    <3>1. n > 0 /\ n \in 1..n /\ 1 \in 1..n /\ n + 1 > 1 /\ n + 1 - 1 = n
      BY <2>2, <1>4
    <3>2. r[1] = q[1] /\ r[n] = q[n]
      BY <3>1, <1>5
    <3>3. q[n].op # "inner"
      <4>1. Side(q[n], g, c)
        BY <3>1 DEF Sides
      <4> QED
        BY <4>1 DEF Side, TryRead, Showing, Listing, Following, Branching,
                    NextRead, InsideRoom
    <3>4. Work(r) = n - (IF q[n].op = "show" THEN 1 ELSE 0)
                      + (IF q[1].op = "indirect" THEN q[1].copies - 1 ELSE 0)
      BY <1>4, <3>1, <3>2, <3>3 DEF Work
    <3>5. q[1].op = "indirect" => q[1].copies \in {1, 2}
      <4>1. Side(q[1], g, c)
        BY <3>1 DEF Sides
      <4> QED
        BY <4>1 DEF Side, TryRead, Showing, Listing, Following, Branching,
                    NextRead, InsideRoom
    <3> QED
      BY <1>4, <3>1, <3>4, <3>5
  <2> QED
    BY <2>1, <2>2
<1> HIDE DEF n
<1>9. Body(r, c, g, arr, w)
  BY <1>3, <1>4, <1>6, <1>7, <1>8 DEF Body
<1> QED
  BY <1>9 DEF r, x

\* Side steps, then the status of the parameters and that of the line.
LEMMA BodyInnerOf ==
    ASSUME NEW q, NEW t, NEW s, NEW c, NEW g, NEW arr, NEW w \in Int,
           Sides(q, g, arr, c), TrueStatus(s, c, g), t = "ok" => "params" \in g,
           s # "arg_unreadable", s = "params_unreadable" => q = <<>>,
           Len(q) + (IF Len(q) > 0 /\ q[1].op = "indirect" THEN q[1].copies - 1 ELSE 0)
             <= w
    PROVE  Body(q \o <<PutInner(t), Put(s)>>, c, g, arr, w)
<1> DEFINE n == Len(q)
           x == PutInner(t)
           y == Put(s)
           r == q \o <<x, y>>
<1>1. IsScript(q)
  BY DEF Sides
<1>2. IsScript(<<x, y>>) /\ Len(<<x, y>>) = 2 /\ <<x, y>>[1] = x /\ <<x, y>>[2] = y
  BY Script2
<1>3. x.op = "inner" /\ x.status = t /\ y.op = "put" /\ y.status = s
  BY DEF Put, PutInner
<1> HIDE DEF x, y
<1>4. n \in Nat /\ IsScript(r) /\ Len(r) = n + 2
        /\ \A i \in 1..(n + 2) : r[i] = IF i <= n THEN q[i] ELSE <<x, y>>[i - n]
  BY <1>1, <1>2, ScriptConcat
<1> HIDE DEF r
<1>5. r[n + 1] = x /\ r[n + 2] = y /\ \A i \in 1..n : r[i] = q[i]
  <2>1. n + 1 \in 1..(n + 2) /\ ~(n + 1 <= n) /\ n + 1 - n = 1
          /\ n + 2 \in 1..(n + 2) /\ ~(n + 2 <= n) /\ n + 2 - n = 2
          /\ \A i \in 1..n : i \in 1..(n + 2) /\ i <= n
    BY <1>4
  <2> QED
    BY <1>2, <1>4, <2>1
<1>6. Len(r) - 1 = n + 1 /\ Len(r) > 0 /\ r[Len(r)] = y
  BY <1>4, <1>5
<1>7. \A i \in 1..(n + 1) :
         /\ Side(r[i], g, c) \/ (i = n + 1 /\ r[i] = x)
         /\ r[i].op = "list" =>
              r[i].cap \in arr /\ \A j \in 1..(i - 1) : r[j].op = "list"
         /\ r[i].op = "indirect" => i = 1
  <2> TAKE i \in 1..(n + 1)
  <2>1. CASE i = n + 1
    BY <2>1, <1>3, <1>5
  <2>2. CASE i # n + 1
    <3>1. i \in 1..n /\ \A j \in 1..(i - 1) : j \in 1..n
      BY <2>2, <1>4
    <3> QED
      BY <1>5, <3>1 DEF Sides
  <2> QED
    BY <2>1, <2>2
<1>8. Work(r) <= w
  <2>0. n + 2 > 1 /\ n + 2 - 1 = n + 1
    BY <1>4
  <2>1. CASE n = 0
    <3>1. r[1] = x
      BY <2>1, <1>5
    <3>2. Work(r) = 0
      BY <3>1, <2>1, <1>3, <1>4, <1>5 DEF Work
    <3> QED
      BY <3>2, <2>1
  <2>2. CASE n # 0
    <3>1. n > 0 /\ 1 \in 1..n
      BY <2>2, <1>4
    <3>2. r[1] = q[1]
      BY <3>1, <1>5
    <3>4. Work(r) = n + (IF q[1].op = "indirect" THEN q[1].copies - 1 ELSE 0)
      BY <1>3, <1>4, <1>5, <2>0, <3>1, <3>2 DEF Work
    <3> QED
      BY <1>4, <3>1, <3>4
  <2> QED
    BY <2>1, <2>2
<1>9. s = "params_unreadable" => Len(r) = 2 /\ r[1].op = "inner"
  <2> SUFFICES ASSUME s = "params_unreadable" PROVE Len(r) = 2 /\ r[1].op = "inner"
    OBVIOUS
  <2>1. n = 0
    BY Script0
  <2> QED
    BY <2>1, <1>3, <1>4, <1>5
<1> HIDE DEF n
<1>10. Body(r, c, g, arr, w)
  BY <1>3, <1>4, <1>6, <1>7, <1>8, <1>9 DEF Body
<1> QED
  BY <1>10 DEF r, x, y

\* A copy that must succeed, then the rest.
LEMMA ReadThen ==
    ASSUME NEW x, NEW q, NEW c, NEW g, NEW w, IsScript(q), Len(q) > 0,
           InsideRoom(x, c), Must(x), x.from \in {"arg", "os54", "params"},
           x.from = "params" => "arg" \in g,
           Rest(q, c, g \cup {x.from}, x.lens, w - 1)
    PROVE  Reading(<<x>> \o q, c, g, w)
<1> DEFINE r == <<x>> \o q
<1>1. Tail(r) = q /\ IsScript(r) /\ Len(r) = 1 + Len(q) /\ r[1] = x /\ Len(q) \in Nat
  BY TailCons
<1> HIDE DEF r
<1>2. Len(r) > 1
  BY <1>1
<1>3. Rest(Tail(r), c, g \cup {r[1].from}, r[1].lens, w - 1)
  BY <1>1
<1>4. InsideRoom(r[1], c) /\ Must(r[1]) /\ r[1].from \in {"arg", "os54", "params"}
        /\ (r[1].from = "params" => "arg" \in g)
  BY <1>1
<1>5. Reading(r, c, g, w)
  BY <1>1, <1>2, <1>3, <1>4, Zenon DEF Reading
<1> QED
  BY <1>5 DEF r

\* A copy, and the statuses when it fails.
LEMMA ReadThenEnd ==
    ASSUME NEW x, NEW q, NEW c, NEW g, NEW arr, NEW w,
           IsScript(q), Reading(<<x>> \o q, c, g, w),
           Body(x.bad, c, g, arr, w - 1)
    PROVE  ReadOrEnd(<<x>> \o q, c, g, arr, w)
BY TailCons DEF ReadOrEnd

\* A copy, and another when it fails.
LEMMA ReadThenRead ==
    ASSUME NEW x, NEW q, NEW c, NEW g, NEW arr, NEW w,
           IsScript(q), Reading(<<x>> \o q, c, g, w),
           ReadOrEnd(x.bad, c, g, arr, w - 1)
    PROVE  ReadOrRead(<<x>> \o q, c, g, arr, w)
BY TailCons DEF ReadOrRead

\* A body is a script.
LEMMA BodyIsScript ==
    ASSUME NEW q, NEW c, NEW g, NEW arr, NEW w, Body(q, c, g, arr, w)
    PROVE  IsScript(q) /\ Len(q) > 0
BY DEF Body

-----------------------------------------------------------------------------
(* The limits.                                                              *)

\* The constants and the two limits as numbers.
LEMMA Limits ==
    /\ MaxBlob \in Nat \ {0} /\ Huge \in Nat \ {0}
    /\ NvIoctlCardInfo.size = 72 /\ NvxxxxCtrlXxxInfo.size = 8
    /\ CopyLimit \in Nat /\ CopyLimit >= 5 /\ CopyLimit >= MaxBlob \div 72
    /\ PointerLimit \in Nat /\ PointerLimit >= MaxBlob /\ PointerLimit >= 128
    /\ PointerLimit >= 512
<1>1. MaxBlob \in Nat \ {0} /\ Huge \in Nat \ {0}
  BY MaxBlobAssumption, HugeAssumption
<1>2. NvIoctlCardInfo.size = 72 /\ NvxxxxCtrlXxxInfo.size = 8
  BY Sizes1 DEF Sized
<1>3. MaxBlob \div 72 \in Nat
  BY <1>1
<1>4. CopyLimit = IF 5 >= MaxBlob \div 72 THEN 5 ELSE MaxBlob \div 72
  BY <1>2, <1>3, MaxIs DEF CopyLimit
<1> DEFINE items == MaxCtrlListItems * NvxxxxCtrlXxxInfo.size
<1>5. items = 512
  BY <1>2 DEF MaxCtrlListItems
<1> HIDE DEF items
<1> DEFINE text == 128
<1>8. text = 128
  OBVIOUS
<1> HIDE DEF text
<1>6. /\ Max({MaxBlob, text, items}) \in {MaxBlob, text, items}
      /\ Max({MaxBlob, text, items}) >= MaxBlob /\ Max({MaxBlob, text, items}) >= text
      /\ Max({MaxBlob, text, items}) >= items
  BY <1>1, <1>5, <1>8, Max3Is
<1>7. /\ PointerLimit \in {MaxBlob, 128, 512} /\ PointerLimit >= MaxBlob
      /\ PointerLimit >= 128 /\ PointerLimit >= 512
  BY <1>5, <1>6, <1>8 DEF PointerLimit, items, text
<1> QED
  BY <1>1, <1>2, <1>3, <1>4, <1>7

\* MaxBlob, but at least n.
LEMMA AtLeastIs ==
    ASSUME NEW n \in Nat
    PROVE  AtLeast(n) \in Nat /\ AtLeast(n) >= n
             /\ AtLeast(n) = IF MaxBlob >= n THEN MaxBlob ELSE n
<1>1. MaxBlob \in Nat
  BY Limits
<1>2. AtLeast(n) = IF MaxBlob >= n THEN MaxBlob ELSE n
  BY <1>1, MaxIs DEF AtLeast
<1> QED
  BY <1>1, <1>2

\* The limits that the decoders of blobs use.
LEMMA BlobLimits ==
    AtLeast(16) \in 16..Max({MaxBlob, 128}) /\ AtLeast(32) \in 16..Max({MaxBlob, 128})
<1>1. MaxBlob \in Nat
  BY Limits
<1>2. Max({MaxBlob, 128}) = IF MaxBlob >= 128 THEN MaxBlob ELSE 128
  BY <1>1, MaxIs
<1>3. AtLeast(16) = (IF MaxBlob >= 16 THEN MaxBlob ELSE 16)
        /\ AtLeast(32) = (IF MaxBlob >= 32 THEN MaxBlob ELSE 32)
  BY AtLeastIs
<1> QED
  BY <1>1, <1>2, <1>3

-----------------------------------------------------------------------------
(* The steps that the decoders use.                                         *)

\* The copy of a structure.
LEMMA ReadWhole ==
    ASSUME NEW c, NEW from, NEW t \in Type, NEW bad, from # "pointer"
    PROVE  /\ InsideRoom(read_pod(from, 0, t, NoRoom, bad), c)
           /\ read_pod(from, 0, t, NoRoom, bad).from = from
           /\ read_pod(from, 0, t, NoRoom, bad).lens = t.lens
           /\ read_pod(from, 0, t, NoRoom, bad).bad = bad
           /\ Must(read_pod(from, 0, t, NoRoom, bad))
<1>1. t.size \in Nat
  BY DEF Type
<1> QED
  BY <1>1 DEF read_pod, ReadStep, InsideRoom, Must

\* The copy of bytes.
LEMMA ReadBytes ==
    ASSUME NEW c, NEW from, NEW len \in Nat, NEW room, NEW bad,
           room # NoRoom => room \in Nat /\ len <= room,
           from # "pointer"
    PROVE  /\ InsideRoom(read_bytes(from, len, room, bad), c)
           /\ read_bytes(from, len, room, bad).from = from
           /\ read_bytes(from, len, room, bad).lens = {}
           /\ read_bytes(from, len, room, bad).bad = bad
           /\ Must(read_bytes(from, len, room, bad))
BY DEF read_bytes, ReadStep, InsideRoom, Must

\* Copies that may fail without consequence.
LEMMA TryPod ==
    ASSUME NEW c, NEW from \in {"arg", "event"}, NEW off \in Nat, NEW t \in Type, NEW room,
           room # NoRoom => room \in Nat /\ off + t.size <= room
    PROVE  TryRead(try_pod(from, off, t, room), c) /\ try_pod(from, off, t, room).op = "read"
<1>1. t.size \in Nat
  BY DEF Type
<1>2. InsideRoom(try_pod(from, off, t, room), c)
  BY <1>1 DEF try_pod, ReadStep, InsideRoom
<1> QED
  BY <1>2 DEF try_pod, ReadStep, TryRead

LEMMA TryText ==
    ASSUME NEW c
    PROVE  TryRead(try_bytes("pointer", 128, NoRoom), c)
<1>1. InsideRoom(try_bytes("pointer", 128, NoRoom), c)
  BY DEF try_bytes, ReadStep, InsideRoom
<1> QED
  BY <1>1 DEF try_bytes, ReadStep, TryRead

\* The lists of a structure are side steps.
LEMMA Lists ==
    ASSUME NEW c, NEW cap \in Nat \ {0}, NEW g
    PROVE  /\ Side(List(cap), g, c) /\ List(cap).op = "list" /\ List(cap).cap = cap
           /\ Side(BareList(cap), g, c) /\ BareList(cap).op = "list"
           /\ BareList(cap).cap = cap
           /\ Side(FilteredList(cap), g, c) /\ FilteredList(cap).op = "list"
           /\ FilteredList(cap).cap = cap
           /\ Side(PairOfLists(cap), g, c) /\ PairOfLists(cap).op = "list"
           /\ PairOfLists(cap).cap = cap
<1>1. Huge \in Nat
  BY Limits
<1>2. /\ Listing(List(cap)) /\ Listing(BareList(cap)) /\ Listing(FilteredList(cap))
      /\ Listing(PairOfLists(cap))
  BY <1>1 DEF List, BareList, FilteredList, PairOfLists, ListStep, Listing
<1>3. /\ Side(List(cap), g, c) /\ Side(BareList(cap), g, c)
      /\ Side(FilteredList(cap), g, c) /\ Side(PairOfLists(cap), g, c)
  BY <1>2 DEF Side
<1> QED
  BY <1>3 DEF List, BareList, FilteredList, PairOfLists, ListStep

LEMMA SampledLists ==
    ASSUME NEW c, NEW cap \in Nat \ {0}, NEW sample \in Nat, NEW g
    PROVE  /\ Side(SampledList(cap, sample), g, c) /\ SampledList(cap, sample).op = "list"
           /\ SampledList(cap, sample).cap = cap
<1>1. Listing(SampledList(cap, sample))
  BY DEF SampledList, ListStep, Listing
<1>2. Side(SampledList(cap, sample), g, c)
  BY <1>1 DEF Side
<1> QED
  BY <1>2 DEF SampledList, ListStep

\* So are what lies behind pointers, fixed strings and the last field.
LEMMA OtherSides ==
    ASSUME NEW c, NEW g
    PROVE  /\ Side(decode_alloc_blob, g, c) /\ decode_alloc_blob.op = "blob"
           /\ Side(read_remote_string, g, c) /\ read_remote_string.op = "text"
           /\ Side(FixedText(128), g, c) /\ FixedText(128).op = "oneof"
           /\ Side(Indirect(U32, 2), g, c) /\ Indirect(U32, 2).op = "indirect"
           /\ Indirect(U32, 2).copies = 2
           /\ Side(Indirect(NvxxxxCtrlXxxInfo, 1), g, c)
           /\ Indirect(NvxxxxCtrlXxxInfo, 1).op = "indirect"
           /\ Indirect(NvxxxxCtrlXxxInfo, 1).copies = 1
           /\ {"arg", "params"} \subseteq g => Side(LastOf(U64), g, c)
           /\ LastOf(U64).op = "last"
<1>1. Side(decode_alloc_blob, g, c) /\ decode_alloc_blob.op = "blob"
  BY BlobLimits DEF decode_alloc_blob, Blob, Side, Following
<1>2. Side(read_remote_string, g, c) /\ read_remote_string.op = "text"
  BY BlobLimits DEF read_remote_string, Text, Side, Following
<1>3. Side(FixedText(128), g, c) /\ FixedText(128).op = "oneof"
  <2> DEFINE x == try_bytes("pointer", 128, NoRoom)
  <2>1. TryRead(x, c)
    BY TryText
  <2> HIDE DEF x
  <2>2. <<x>>[1] = x
    OBVIOUS
  <2>3. \A q \in {<<>>, <<x>>} : q # <<>> => q = <<q[1]>> /\ TryRead(q[1], c)
    BY <2>1, <2>2
  <2>4. Branching(OneOf({<<>>, <<x>>}), c) /\ OneOf({<<>>, <<x>>}).op = "oneof"
    BY <2>3 DEF OneOf, Branching
  <2> QED
    BY <2>4 DEF FixedText, Side, x
<1>4. Side(Indirect(U32, 2), g, c) /\ Indirect(U32, 2).op = "indirect"
        /\ Indirect(U32, 2).copies = 2
  BY BaseTypes DEF Indirect, Side, Following
<1>5. /\ Side(Indirect(NvxxxxCtrlXxxInfo, 1), g, c)
      /\ Indirect(NvxxxxCtrlXxxInfo, 1).op = "indirect"
      /\ Indirect(NvxxxxCtrlXxxInfo, 1).copies = 1
  BY Limits DEF Indirect, Side, Following
<1>6. ({"arg", "params"} \subseteq g => Side(LastOf(U64), g, c)) /\ LastOf(U64).op = "last"
  BY DEF LastOf, Side
<1> QED
  BY <1>1, <1>2, <1>3, <1>4, <1>5, <1>6

\* A choice of one of several copies, or none.
LEMMA Branches ==
    ASSUME NEW c, NEW S, NEW g, \A q \in S : q # <<>> => q = <<q[1]>> /\ TryRead(q[1], c)
    PROVE  Side(OneOf(S), g, c) /\ OneOf(S).op = "oneof"
BY DEF OneOf, Branching, Side

\* So is the display of bytes.
LEMMA Shows ==
    ASSUME NEW c, NEW a \in Nat, NEW b \in Nat, NEW g
    PROVE  /\ Side(Show(a, b), g, c) /\ Show(a, b).op = "show" /\ Showing(Show(a, b))
           /\ Side(ShowWords(a, b), g, c) /\ ShowWords(a, b).op = "show"
BY DEF Show, ShowWords, ShowStep, Showing, Side

-----------------------------------------------------------------------------
(* The scripts of the decoders.                                             *)

\* A script that may be started.
StartGood(q, c) == q # <<>> /\ Good(q, c, {}, {}, CopyLimit)

\* A script with a first step is not empty.
LEMMA ConsNonempty ==
    ASSUME NEW x, NEW q, IsScript(q)
    PROVE  <<x>> \o q # <<>>
<1> DEFINE r == <<x>> \o q
<1>1. IsScript(r) /\ Len(r) = 1 + Len(q) /\ Len(q) \in Nat
  BY TailCons
<1> HIDE DEF r
<1>2. Len(r) # 0
  BY <1>1
<1>3. r # <<>>
  BY <1>2, Script0
<1> QED
  BY <1>3 DEF r

\* A status on its own.
LEMMA StartPut ==
    ASSUME NEW s, NEW c, TrueStatus(s, c, {})
    PROVE  StartGood(<<Put(s)>>, c)
<1>1. Put(s).op = "put" /\ Put(s).status = s
  BY DEF Put
<1>2. Body(<<Put(s)>>, c, {}, {}, CopyLimit)
  BY <1>1, Limits, BodyPut
<1>3. <<Put(s)>> # <<>>
  OBVIOUS
<1> QED
  BY <1>2, <1>3 DEF StartGood, Good, Rest

\* The copy of the argument, then the rest.
LEMMA StartRead ==
    ASSUME NEW x, NEW q, NEW c, NEW s, IsScript(q), Len(q) > 0,
           InsideRoom(x, c), Must(x), x.from = "arg", x.bad = <<Put(s)>>,
           TrueStatus(s, c, {}),
           Rest(q, c, {"arg"}, x.lens, CopyLimit - 1)
    PROVE  StartGood(<<x>> \o q, c)
<1>1. {} \cup {x.from} = {"arg"}
  OBVIOUS
<1>2. Reading(<<x>> \o q, c, {}, CopyLimit)
  <2>1. Rest(q, c, {} \cup {x.from}, x.lens, CopyLimit - 1)
    BY <1>1
  <2> QED
    BY <2>1, ReadThen
<1>3. Put(s).op = "put" /\ Put(s).status = s
  BY DEF Put
<1>4. CopyLimit - 1 \in Nat
  BY Limits
<1>5. Body(x.bad, c, {}, {}, CopyLimit - 1)
  BY <1>3, <1>4, BodyPut
<1>6. ReadOrEnd(<<x>> \o q, c, {}, {}, CopyLimit)
  BY <1>2, <1>5, ReadThenEnd
<1> QED
  BY <1>6, ConsNonempty DEF StartGood, Good

\* What follows the copy of the argument: a few side steps, then a status.
LEMMA ShortBody ==
    ASSUME NEW q, NEW s, NEW c, NEW g, NEW arr, Sides(q, g, arr, c), Len(q) <= 3,
           TrueStatus(s, c, g), s \notin {"arg_unreadable", "params_unreadable"},
           Len(q) > 0 => q[1].op # "indirect"
    PROVE  /\ Body(q \o <<Put(s)>>, c, g, arr, CopyLimit - 1)
           /\ IsScript(q \o <<Put(s)>>) /\ Len(q \o <<Put(s)>>) > 0
<1>1. CopyLimit - 1 \in Int /\ CopyLimit - 1 >= 4
  BY Limits
<1>2. Len(q) \in Nat
  <2>1. IsScript(q)
    BY DEF Sides
  <2> QED
    BY <2>1, Script0, ScriptNonempty
<1> DEFINE w == CopyLimit - 1
<1>3. w \in Int /\ w >= 4
  BY <1>1
<1> HIDE DEF w
<1>4. Len(q) + (IF Len(q) > 0 /\ q[1].op = "indirect" THEN q[1].copies - 1 ELSE 0)
             - (IF Len(q) > 0 /\ q[Len(q)].op = "show" THEN 1 ELSE 0) <= w
  BY <1>2, <1>3
<1>5. Body(q \o <<Put(s)>>, c, g, arr, w)
  BY <1>3, <1>4, BodyOf
<1> QED
  BY <1>5, BodyIsScript DEF w

\* "ok" is true over an argument that was copied.
LEMMA OkStatus ==
    ASSUME NEW c, NEW g, "arg" \in g
    PROVE  TrueStatus("ok", c, g)
BY DEF TrueStatus

\* "arg_unreadable" is true when nothing was.
LEMMA UnreadableStatus ==
    ASSUME NEW c
    PROVE  TrueStatus("arg_unreadable", c, {})
BY DEF TrueStatus

\* with_params of ioctl_uvm.rs, with side steps.
LEMMA WithParams ==
    ASSUME NEW t \in Type, NEW more, NEW c, Sides(more, {"arg"}, t.lens, c),
           Len(more) <= 3, Len(more) > 0 => more[1].op # "indirect"
    PROVE  StartGood(with_params(t, more), c)
<1> DEFINE bad == <<Put("arg_unreadable")>>
           x == read_pod("arg", 0, t, NoRoom, bad)
           q == more \o <<Put("ok")>>
<1> HIDE DEF bad
<1>1. /\ InsideRoom(x, c) /\ Must(x) /\ x.from = "arg" /\ x.lens = t.lens
      /\ x.bad = bad
  BY ReadWhole
<1>2. TrueStatus("ok", c, {"arg"})
  BY OkStatus
<1>3. Body(q, c, {"arg"}, t.lens, CopyLimit - 1) /\ IsScript(q) /\ Len(q) > 0
  BY <1>2, ShortBody
<1>4. TrueStatus("arg_unreadable", c, {})
  BY UnreadableStatus
<1>5. IsScript(<<x>>) /\ IsScript(more) /\ IsScript(<<Put("ok")>>)
  BY Script1 DEF Sides
<1> HIDE DEF x
<1>6. with_params(t, more) = <<x>> \o q
  BY <1>5, ConsAssoc DEF with_params, x, bad
<1> HIDE DEF q
<1>7. StartGood(<<x>> \o q, c)
  <2>1. Rest(q, c, {"arg"}, x.lens, CopyLimit - 1)
    BY <1>1, <1>3 DEF Rest
  <2>2. x.bad = <<Put("arg_unreadable")>>
    BY <1>1 DEF bad
  <2> QED
    BY <1>1, <1>3, <1>4, <2>1, <2>2, StartRead
<1> QED
  BY <1>6, <1>7

\* The ioctls that only show the fields of their structure.
LEMMA WithFields ==
    ASSUME NEW t \in Type, NEW c
    PROVE  StartGood(with_params(t, <<>>), c)
BY Sides0, Script0, WithParams

\* The ioctls that show a list of their structure as well.
LEMMA WithList ==
    ASSUME NEW t \in Type, NEW cap \in Nat \ {0}, NEW c, {cap} \subseteq t.lens
    PROVE  StartGood(with_params(t, <<List(cap)>>), c)
<1> DEFINE x == List(cap)
<1>1. Side(x, {"arg"}, c) /\ x.op = "list" /\ x.cap = cap
  BY Lists
<1> HIDE DEF x
<1>2. Sides(<<x>>, {"arg"}, t.lens, c)
  BY <1>1, Sides1
<1>3. Len(<<x>>) = 1 /\ <<x>>[1] = x
  BY Script1
<1> DEFINE more == <<x>>
<1>4. Sides(more, {"arg"}, t.lens, c) /\ Len(more) <= 3 /\ more[1].op # "indirect"
  BY <1>1, <1>2, <1>3
<1> HIDE DEF more
<1>5. StartGood(with_params(t, more), c)
  BY <1>4, WithParams
<1> QED
  BY <1>5 DEF x, more

\* A UVM command without a decoder.
LEMMA UvmUnknown ==
    ASSUME NEW c
    PROVE  StartGood(decode_unknown_uvm, c)
<1> DEFINE n == Least(AtLeast(16), 64)
           bad == <<Put("arg_unreadable")>>
           x == read_bytes("arg", n, NoRoom, bad)
           q == <<Put("unknown_cmd")>>
<1>1. n \in Nat
  <2>1. AtLeast(16) \in Nat
    BY AtLeastIs
  <2> HIDE DEF n
  <2>2. n = IF AtLeast(16) <= 64 THEN AtLeast(16) ELSE 64
    BY <2>1, LeastIs DEF n
  <2> QED
    BY <2>1, <2>2
<1> HIDE DEF n, bad
<1>2. InsideRoom(x, c) /\ x.from = "arg" /\ x.lens = {} /\ x.bad = bad /\ Must(x)
  <2>1. InsideRoom(x, c)
    BY <1>1, ReadBytes
  <2>2. x.from = "arg" /\ x.lens = {}
    BY DEF read_bytes, ReadStep
  <2>3. x.bad = bad
    BY DEF read_bytes, ReadStep
  <2>4. Must(x)
    BY <1>1, ReadBytes
  <2> QED
    BY <2>1, <2>2, <2>3, <2>4
<1>3. decode_unknown_uvm = <<x>> \o q
  BY Cons2 DEF decode_unknown_uvm, n, bad
<1> HIDE DEF x
<1>4. TrueStatus("unknown_cmd", c, {"arg"}) /\ TrueStatus("arg_unreadable", c, {})
  BY DEF TrueStatus
<1>5. IsScript(q) /\ Len(q) > 0
  BY Script1
<1>6. Body(q, c, {"arg"}, {}, CopyLimit - 1)
  <2>1. CopyLimit - 1 \in Nat
    BY Limits
  <2>2. Put("unknown_cmd").op = "put" /\ Put("unknown_cmd").status = "unknown_cmd"
    BY DEF Put
  <2> QED
    BY <1>4, <2>1, <2>2, BodyPut
<1> HIDE DEF q
<1>7. Rest(q, c, {"arg"}, x.lens, CopyLimit - 1)
  BY <1>2, <1>6 DEF Rest
<1>8. StartGood(<<x>> \o q, c)
  BY <1>2, <1>4, <1>5, <1>7, StartRead DEF bad
<1> QED
  BY <1>3, <1>8

\* Whatever the command, a UVM ioctl is decoded by a good script.
LEMMA UvmGood ==
    ASSUME NEW c, c.cmd \in DOMAIN decode_uvm_ioctl
    PROVE  StartGood(decode_uvm_ioctl[c.cmd], c)
<1> DEFINE P(k) == k = c.cmd => StartGood(decode_uvm_ioctl[k], c)
<1>1. StartGood(decode_initialize, c)
  BY UvmTypes, WithFields DEF decode_initialize
<1>2. StartGood(decode_reserve_va, c)
  BY UvmTypes, WithFields DEF decode_reserve_va
<1>3. StartGood(decode_release_va, c)
  BY UvmTypes, WithFields DEF decode_release_va
<1>4. StartGood(decode_region_commit, c)
  BY UvmTypes, WithFields DEF decode_region_commit
<1>5. StartGood(decode_region_decommit, c)
  BY UvmTypes, WithFields DEF decode_region_decommit
<1>6. StartGood(decode_region_set_stream, c)
  BY UvmTypes, WithFields DEF decode_region_set_stream
<1>7. StartGood(decode_set_stream_running, c)
  BY UvmTypes, WithFields DEF decode_set_stream_running
<1>8. StartGood(decode_set_stream_stopped, c)
  BY UvmTypes, WithList DEF decode_set_stream_stopped
<1>9. StartGood(decode_add_session, c)
  BY UvmTypes, WithFields DEF decode_add_session
<1>10. StartGood(decode_enable_counters, c)
  BY UvmTypes, WithList DEF decode_enable_counters
<1>11. StartGood(decode_map_counter, c)
  BY UvmTypes, WithFields DEF decode_map_counter
<1>12. StartGood(decode_create_event_queue, c)
  BY UvmTypes, WithFields DEF decode_create_event_queue
<1>13. StartGood(decode_remove_event_queue, c)
  BY UvmTypes, WithFields DEF decode_remove_event_queue
<1>14. StartGood(decode_map_event_queue, c)
  BY UvmTypes, WithFields DEF decode_map_event_queue
<1>15. StartGood(decode_event_ctrl, c)
  BY UvmTypes, WithFields DEF decode_event_ctrl
<1>16. StartGood(decode_get_gpu_uuid_table, c)
  BY UvmTypes, WithList DEF decode_get_gpu_uuid_table
<1>17. StartGood(decode_region_set_backing, c)
  BY UvmTypes, WithFields DEF decode_region_set_backing
<1>18. StartGood(decode_region_unset_backing, c)
  BY UvmTypes, WithFields DEF decode_region_unset_backing
<1>19. StartGood(decode_create_range_group, c)
  BY UvmTypes, WithFields DEF decode_create_range_group
<1>20. StartGood(decode_destroy_range_group, c)
  BY UvmTypes, WithFields DEF decode_destroy_range_group
<1>21. StartGood(decode_register_gpu_vaspace, c)
  BY UvmTypes, WithFields DEF decode_register_gpu_vaspace
<1>22. StartGood(decode_unregister_gpu_vaspace, c)
  BY UvmTypes, WithFields DEF decode_unregister_gpu_vaspace
<1>23. StartGood(decode_register_channel, c)
  BY UvmTypes, WithFields DEF decode_register_channel
<1>24. StartGood(decode_unregister_channel, c)
  BY UvmTypes, WithFields DEF decode_unregister_channel
<1>25. StartGood(decode_enable_peer_access, c)
  BY UvmTypes, WithFields DEF decode_enable_peer_access
<1>26. StartGood(decode_disable_peer_access, c)
  BY UvmTypes, WithFields DEF decode_disable_peer_access
<1>27. StartGood(decode_set_range_group, c)
  BY UvmTypes, WithFields DEF decode_set_range_group
<1>28. StartGood(decode_map_external_allocation, c)
  BY UvmTypes, WithList DEF decode_map_external_allocation
<1>29. StartGood(decode_free, c)
  BY UvmTypes, WithFields DEF decode_free
<1>30. StartGood(decode_mem_map, c)
  BY UvmTypes, WithFields DEF decode_mem_map
<1>31. StartGood(decode_register_gpu, c)
  BY UvmTypes, WithFields DEF decode_register_gpu
<1>32. StartGood(decode_unregister_gpu, c)
  BY UvmTypes, WithFields DEF decode_unregister_gpu
<1>33. StartGood(decode_pageable_mem_access, c)
  BY UvmTypes, WithFields DEF decode_pageable_mem_access
<1>34. StartGood(decode_prevent_migration_range_groups, c)
  BY UvmTypes, WithList DEF decode_prevent_migration_range_groups
<1>35. StartGood(decode_allow_migration_range_groups, c)
  BY UvmTypes, WithList DEF decode_allow_migration_range_groups
<1>36. StartGood(decode_set_preferred_location, c)
  BY UvmTypes, WithFields DEF decode_set_preferred_location
<1>37. StartGood(decode_unset_preferred_location, c)
  BY UvmTypes, WithFields DEF decode_unset_preferred_location
<1>38. StartGood(decode_enable_read_duplication, c)
  BY UvmTypes, WithFields DEF decode_enable_read_duplication
<1>39. StartGood(decode_disable_read_duplication, c)
  BY UvmTypes, WithFields DEF decode_disable_read_duplication
<1>40. StartGood(decode_set_accessed_by, c)
  BY UvmTypes, WithFields DEF decode_set_accessed_by
<1>41. StartGood(decode_unset_accessed_by, c)
  BY UvmTypes, WithFields DEF decode_unset_accessed_by
<1>42. StartGood(decode_migrate, c)
  BY UvmTypes, WithFields DEF decode_migrate
<1>43. StartGood(decode_migrate_range_group, c)
  BY UvmTypes, WithFields DEF decode_migrate_range_group
<1>44. StartGood(decode_enable_system_wide_atomics, c)
  BY UvmTypes, WithFields DEF decode_enable_system_wide_atomics
<1>45. StartGood(decode_disable_system_wide_atomics, c)
  BY UvmTypes, WithFields DEF decode_disable_system_wide_atomics
<1>46. StartGood(decode_tools_init_event_tracker, c)
  BY UvmTypes, WithFields DEF decode_tools_init_event_tracker
<1>47. StartGood(decode_tools_set_notification_threshold, c)
  BY UvmTypes, WithFields DEF decode_tools_set_notification_threshold
<1>48. StartGood(decode_tools_event_queue_enable_events, c)
  BY UvmTypes, WithFields DEF decode_tools_event_queue_enable_events
<1>49. StartGood(decode_tools_event_queue_disable_events, c)
  BY UvmTypes, WithFields DEF decode_tools_event_queue_disable_events
<1>50. StartGood(decode_tools_enable_counters, c)
  BY UvmTypes, WithFields DEF decode_tools_enable_counters
<1>51. StartGood(decode_tools_disable_counters, c)
  BY UvmTypes, WithFields DEF decode_tools_disable_counters
<1>52. StartGood(decode_tools_read_process_memory, c)
  BY UvmTypes, WithFields DEF decode_tools_read_process_memory
<1>53. StartGood(decode_tools_write_process_memory, c)
  BY UvmTypes, WithFields DEF decode_tools_write_process_memory
<1>54. StartGood(decode_tools_get_processor_uuid_table, c)
  BY UvmTypes, WithFields DEF decode_tools_get_processor_uuid_table
<1>55. StartGood(decode_map_dynamic_parallelism_region, c)
  BY UvmTypes, WithFields DEF decode_map_dynamic_parallelism_region
<1>56. StartGood(decode_unmap_external, c)
  BY UvmTypes, WithFields DEF decode_unmap_external
<1>57. StartGood(decode_tools_flush_events, c)
  BY UvmTypes, WithFields DEF decode_tools_flush_events
<1>58. StartGood(decode_alloc_semaphore_pool, c)
  BY UvmTypes, WithList DEF decode_alloc_semaphore_pool
<1>59. StartGood(decode_clean_up_zombie_resources, c)
  BY UvmTypes, WithFields DEF decode_clean_up_zombie_resources
<1>60. StartGood(decode_pageable_mem_access_on_gpu, c)
  BY UvmTypes, WithFields DEF decode_pageable_mem_access_on_gpu
<1>61. StartGood(decode_populate_pageable, c)
  BY UvmTypes, WithFields DEF decode_populate_pageable
<1>62. StartGood(decode_validate_va_range, c)
  BY UvmTypes, WithFields DEF decode_validate_va_range
<1>63. StartGood(decode_create_external_range, c)
  BY UvmTypes, WithFields DEF decode_create_external_range
<1>64. StartGood(decode_map_external_sparse, c)
  BY UvmTypes, WithFields DEF decode_map_external_sparse
<1>65. StartGood(decode_mm_initialize, c)
  BY UvmTypes, WithFields DEF decode_mm_initialize
<1>66. StartGood(decode_alloc_device_p2p, c)
  BY UvmTypes, WithFields DEF decode_alloc_device_p2p
<1>67. StartGood(decode_clear_all_access_counters, c)
  BY UvmTypes, WithFields DEF decode_clear_all_access_counters
<1>68. StartGood(decode_discard, c)
  BY UvmTypes, WithFields DEF decode_discard
<1>69. StartGood(decode_is8_supported, c)
  BY UvmTypes, WithFields DEF decode_is8_supported
<1>70. P("deinitialize")
  <2> SUFFICES ASSUME "deinitialize" = c.cmd PROVE StartGood(decode_uvm_ioctl["deinitialize"], c)
    OBVIOUS
  <2>1. TrueStatus("ok", c, {})
    BY DEF TrueStatus
  <2>2. decode_uvm_ioctl["deinitialize"] = <<Put("ok")>>
    BY DEF decode_uvm_ioctl
  <2> QED
    BY <2>1, <2>2, StartPut
<1>71. P("initialize")
  BY <1>1 DEF decode_uvm_ioctl
<1>72. P("reserve_va")
  BY <1>2 DEF decode_uvm_ioctl
<1>73. P("release_va")
  BY <1>3 DEF decode_uvm_ioctl
<1>74. P("region_commit")
  BY <1>4 DEF decode_uvm_ioctl
<1>75. P("region_decommit")
  BY <1>5 DEF decode_uvm_ioctl
<1>76. P("region_set_stream")
  BY <1>6 DEF decode_uvm_ioctl
<1>77. P("set_stream_running")
  BY <1>7 DEF decode_uvm_ioctl
<1>78. P("set_stream_stopped")
  BY <1>8 DEF decode_uvm_ioctl
<1>79. P("add_session")
  BY <1>9 DEF decode_uvm_ioctl
<1>80. P("enable_counters")
  BY <1>10 DEF decode_uvm_ioctl
<1>81. P("map_counter")
  BY <1>11 DEF decode_uvm_ioctl
<1>82. P("create_event_queue")
  BY <1>12 DEF decode_uvm_ioctl
<1>83. P("remove_event_queue")
  BY <1>13 DEF decode_uvm_ioctl
<1>84. P("map_event_queue")
  BY <1>14 DEF decode_uvm_ioctl
<1>85. P("event_ctrl")
  BY <1>15 DEF decode_uvm_ioctl
<1>86. P("get_gpu_uuid_table")
  BY <1>16 DEF decode_uvm_ioctl
<1>87. P("region_set_backing")
  BY <1>17 DEF decode_uvm_ioctl
<1>88. P("region_unset_backing")
  BY <1>18 DEF decode_uvm_ioctl
<1>89. P("create_range_group")
  BY <1>19 DEF decode_uvm_ioctl
<1>90. P("destroy_range_group")
  BY <1>20 DEF decode_uvm_ioctl
<1>91. P("register_gpu_vaspace")
  BY <1>21 DEF decode_uvm_ioctl
<1>92. P("unregister_gpu_vaspace")
  BY <1>22 DEF decode_uvm_ioctl
<1>93. P("register_channel")
  BY <1>23 DEF decode_uvm_ioctl
<1>94. P("unregister_channel")
  BY <1>24 DEF decode_uvm_ioctl
<1>95. P("enable_peer_access")
  BY <1>25 DEF decode_uvm_ioctl
<1>96. P("disable_peer_access")
  BY <1>26 DEF decode_uvm_ioctl
<1>97. P("set_range_group")
  BY <1>27 DEF decode_uvm_ioctl
<1>98. P("map_external_allocation")
  BY <1>28 DEF decode_uvm_ioctl
<1>99. P("free")
  BY <1>29 DEF decode_uvm_ioctl
<1>100. P("mem_map")
  BY <1>30 DEF decode_uvm_ioctl
<1>101. P("register_gpu")
  BY <1>31 DEF decode_uvm_ioctl
<1>102. P("unregister_gpu")
  BY <1>32 DEF decode_uvm_ioctl
<1>103. P("pageable_mem_access")
  BY <1>33 DEF decode_uvm_ioctl
<1>104. P("prevent_migration_range_groups")
  BY <1>34 DEF decode_uvm_ioctl
<1>105. P("allow_migration_range_groups")
  BY <1>35 DEF decode_uvm_ioctl
<1>106. P("set_preferred_location")
  BY <1>36 DEF decode_uvm_ioctl
<1>107. P("unset_preferred_location")
  BY <1>37 DEF decode_uvm_ioctl
<1>108. P("enable_read_duplication")
  BY <1>38 DEF decode_uvm_ioctl
<1>109. P("disable_read_duplication")
  BY <1>39 DEF decode_uvm_ioctl
<1>110. P("set_accessed_by")
  BY <1>40 DEF decode_uvm_ioctl
<1>111. P("unset_accessed_by")
  BY <1>41 DEF decode_uvm_ioctl
<1>112. P("migrate")
  BY <1>42 DEF decode_uvm_ioctl
<1>113. P("migrate_range_group")
  BY <1>43 DEF decode_uvm_ioctl
<1>114. P("enable_system_wide_atomics")
  BY <1>44 DEF decode_uvm_ioctl
<1>115. P("disable_system_wide_atomics")
  BY <1>45 DEF decode_uvm_ioctl
<1>116. P("tools_init_event_tracker")
  BY <1>46 DEF decode_uvm_ioctl
<1>117. P("tools_init_event_tracker_v2")
  BY <1>46 DEF decode_uvm_ioctl
<1>118. P("tools_set_notification_threshold")
  BY <1>47 DEF decode_uvm_ioctl
<1>119. P("tools_event_queue_enable_events")
  BY <1>48 DEF decode_uvm_ioctl
<1>120. P("tools_event_queue_disable_events")
  BY <1>49 DEF decode_uvm_ioctl
<1>121. P("tools_enable_counters")
  BY <1>50 DEF decode_uvm_ioctl
<1>122. P("tools_disable_counters")
  BY <1>51 DEF decode_uvm_ioctl
<1>123. P("tools_read_process_memory")
  BY <1>52 DEF decode_uvm_ioctl
<1>124. P("tools_write_process_memory")
  BY <1>53 DEF decode_uvm_ioctl
<1>125. P("tools_get_processor_uuid_table")
  BY <1>54 DEF decode_uvm_ioctl
<1>126. P("tools_get_processor_uuid_table_v2")
  BY <1>54 DEF decode_uvm_ioctl
<1>127. P("map_dynamic_parallelism_region")
  BY <1>55 DEF decode_uvm_ioctl
<1>128. P("unmap_external")
  BY <1>56 DEF decode_uvm_ioctl
<1>129. P("tools_flush_events")
  BY <1>57 DEF decode_uvm_ioctl
<1>130. P("alloc_semaphore_pool")
  BY <1>58 DEF decode_uvm_ioctl
<1>131. P("clean_up_zombie_resources")
  BY <1>59 DEF decode_uvm_ioctl
<1>132. P("pageable_mem_access_on_gpu")
  BY <1>60 DEF decode_uvm_ioctl
<1>133. P("populate_pageable")
  BY <1>61 DEF decode_uvm_ioctl
<1>134. P("validate_va_range")
  BY <1>62 DEF decode_uvm_ioctl
<1>135. P("create_external_range")
  BY <1>63 DEF decode_uvm_ioctl
<1>136. P("map_external_sparse")
  BY <1>64 DEF decode_uvm_ioctl
<1>137. P("mm_initialize")
  BY <1>65 DEF decode_uvm_ioctl
<1>138. P("alloc_device_p2p")
  BY <1>66 DEF decode_uvm_ioctl
<1>139. P("clear_all_access_counters")
  BY <1>67 DEF decode_uvm_ioctl
<1>140. P("discard")
  BY <1>68 DEF decode_uvm_ioctl
<1>141. P("is_8_supported")
  BY <1>69 DEF decode_uvm_ioctl
<1>142. P("unknown")
  BY UvmUnknown DEF decode_uvm_ioctl
<1> HIDE DEF P
<1>143. \A k \in {"deinitialize", "initialize", "reserve_va", "release_va",
           "region_commit", "region_decommit", "region_set_stream",
           "set_stream_running", "set_stream_stopped"} : P(k)
  BY <1>70, <1>71, <1>72, <1>73, <1>74, <1>75, <1>76, <1>77, <1>78
<1>144. \A k \in {"add_session", "enable_counters", "map_counter",
           "create_event_queue", "remove_event_queue", "map_event_queue",
           "event_ctrl", "get_gpu_uuid_table", "region_set_backing"} : P(k)
  BY <1>79, <1>80, <1>81, <1>82, <1>83, <1>84, <1>85, <1>86, <1>87
<1>145. \A k \in {"region_unset_backing", "create_range_group",
           "destroy_range_group", "register_gpu_vaspace",
           "unregister_gpu_vaspace", "register_channel",
           "unregister_channel", "enable_peer_access",
           "disable_peer_access"} : P(k)
  BY <1>88, <1>89, <1>90, <1>91, <1>92, <1>93, <1>94, <1>95, <1>96
<1>146. \A k \in {"set_range_group", "map_external_allocation", "free", "mem_map",
           "register_gpu", "unregister_gpu", "pageable_mem_access",
           "prevent_migration_range_groups", "allow_migration_range_groups"} : P(k)
  BY <1>97, <1>98, <1>99, <1>100, <1>101, <1>102, <1>103, <1>104, <1>105
<1>147. \A k \in {"set_preferred_location", "unset_preferred_location",
           "enable_read_duplication", "disable_read_duplication",
           "set_accessed_by", "unset_accessed_by", "migrate",
           "migrate_range_group", "enable_system_wide_atomics"} : P(k)
  BY <1>106, <1>107, <1>108, <1>109, <1>110, <1>111, <1>112, <1>113, <1>114
<1>148. \A k \in {"disable_system_wide_atomics", "tools_init_event_tracker",
           "tools_init_event_tracker_v2",
           "tools_set_notification_threshold",
           "tools_event_queue_enable_events",
           "tools_event_queue_disable_events", "tools_enable_counters",
           "tools_disable_counters", "tools_read_process_memory"} : P(k)
  BY <1>115, <1>116, <1>117, <1>118, <1>119, <1>120, <1>121, <1>122, <1>123
<1>149. \A k \in {"tools_write_process_memory", "tools_get_processor_uuid_table",
           "tools_get_processor_uuid_table_v2",
           "map_dynamic_parallelism_region", "unmap_external",
           "tools_flush_events", "alloc_semaphore_pool",
           "clean_up_zombie_resources", "pageable_mem_access_on_gpu"} : P(k)
  BY <1>124, <1>125, <1>126, <1>127, <1>128, <1>129, <1>130, <1>131, <1>132
<1>150. \A k \in {"populate_pageable", "validate_va_range",
           "create_external_range", "map_external_sparse", "mm_initialize",
           "alloc_device_p2p", "clear_all_access_counters", "discard",
           "is_8_supported"} : P(k)
  BY <1>133, <1>134, <1>135, <1>136, <1>137, <1>138, <1>139, <1>140, <1>141
<1>151. \A k \in {"unknown"} : P(k)
  BY <1>142
<1>152. DOMAIN decode_uvm_ioctl =
        {"deinitialize", "initialize", "reserve_va", "release_va",
           "region_commit", "region_decommit", "region_set_stream",
           "set_stream_running", "set_stream_stopped"}
          \cup {"add_session", "enable_counters", "map_counter",
           "create_event_queue", "remove_event_queue", "map_event_queue",
           "event_ctrl", "get_gpu_uuid_table", "region_set_backing"}
          \cup {"region_unset_backing", "create_range_group",
           "destroy_range_group", "register_gpu_vaspace",
           "unregister_gpu_vaspace", "register_channel",
           "unregister_channel", "enable_peer_access",
           "disable_peer_access"}
          \cup {"set_range_group", "map_external_allocation", "free", "mem_map",
           "register_gpu", "unregister_gpu", "pageable_mem_access",
           "prevent_migration_range_groups", "allow_migration_range_groups"}
          \cup {"set_preferred_location", "unset_preferred_location",
           "enable_read_duplication", "disable_read_duplication",
           "set_accessed_by", "unset_accessed_by", "migrate",
           "migrate_range_group", "enable_system_wide_atomics"}
          \cup {"disable_system_wide_atomics", "tools_init_event_tracker",
           "tools_init_event_tracker_v2",
           "tools_set_notification_threshold",
           "tools_event_queue_enable_events",
           "tools_event_queue_disable_events", "tools_enable_counters",
           "tools_disable_counters", "tools_read_process_memory"}
          \cup {"tools_write_process_memory", "tools_get_processor_uuid_table",
           "tools_get_processor_uuid_table_v2",
           "map_dynamic_parallelism_region", "unmap_external",
           "tools_flush_events", "alloc_semaphore_pool",
           "clean_up_zombie_resources", "pageable_mem_access_on_gpu"}
          \cup {"populate_pageable", "validate_va_range",
           "create_external_range", "map_external_sparse", "mm_initialize",
           "alloc_device_p2p", "clear_all_access_counters", "discard",
           "is_8_supported"}
          \cup {"unknown"}
  BY DEF decode_uvm_ioctl
<1>153. P(c.cmd)
  BY <1>143, <1>144, <1>145, <1>146, <1>147, <1>148, <1>149, <1>150, <1>151, <1>152
<1> QED
  BY <1>153 DEF P

-----------------------------------------------------------------------------
(* The escapes.                                                             *)

\* A script that may be started, and that refuses what must be refused.
Decoder(q, c) ==
    /\ StartGood(q, c)
    /\ Checked(c) /\ Refused(c) => q = <<Put("size_mismatch")>>

\* The structure t decides what is refused.
SizeClaim(c, t) == Checked(c) => (Refused(c) <=> c.size > 0 /\ c.size < t.size)

\* No size is asserted for the command.
NoClaim(c) == ~Checked(c)

\* A command without an asserted size is never to be refused.
LEMMA Unclaimed ==
    ASSUME NEW c, NEW t, c.cmd \notin DOMAIN AssertedSize
    PROVE  NoClaim(c) /\ SizeClaim(c, t)
BY DEF NoClaim, SizeClaim, Checked

\* ... so any good script will do.
LEMMA NoClaimDecoder ==
    ASSUME NEW c, NEW q, NoClaim(c), StartGood(q, c)
    PROVE  Decoder(q, c)
BY DEF NoClaim, Decoder

\* The refusal itself.
LEMMA RefusalDecoder ==
    ASSUME NEW c, Checked(c) => Refused(c)
    PROVE  Decoder(<<Put("size_mismatch")>>, c)
<1>1. TrueStatus("size_mismatch", c, {})
  BY DEF TrueStatus
<1> QED
  BY <1>1, StartPut DEF Decoder

\* The structure fits what the number declares: it is copied.
LEMMA ArgRead ==
    ASSUME NEW c, NEW t \in Type, NEW q, c.size \in Nat,
           c.size = 0 \/ t.size <= c.size, IsScript(q), Len(q) > 0,
           Rest(q, c, {"arg"}, t.lens, CopyLimit - 1)
    PROVE  StartGood(<<read_pod("arg", 0, t, Room(c.size), <<Put("arg_unreadable")>>)>>
                       \o q, c)
<1> DEFINE bad == <<Put("arg_unreadable")>>
           x == read_pod("arg", 0, t, Room(c.size), bad)
<1> HIDE DEF bad
<1>1. Room(c.size) # NoRoom => Room(c.size) \in Nat /\ t.size <= Room(c.size)
  BY DEF Room
<1>2. t.size \in Nat
  BY DEF Type
<1>3. InsideRoom(x, c)
  BY <1>1, <1>2 DEF read_pod, ReadStep, InsideRoom
<1>4. x.from = "arg" /\ x.lens = t.lens
  BY DEF read_pod, ReadStep
<1>5. x.bad = bad
  BY DEF read_pod, ReadStep
<1>6. Must(x)
  BY DEF read_pod, ReadStep, Must
<1> HIDE DEF x
<1>7. TrueStatus("arg_unreadable", c, {})
  BY UnreadableStatus
<1>8. StartGood(<<x>> \o q, c)
  <2>1. Rest(q, c, {"arg"}, x.lens, CopyLimit - 1)
    BY <1>4
  <2>2. x.bad = <<Put("arg_unreadable")>>
    BY <1>5 DEF bad
  <2> QED
    BY <1>3, <1>4, <1>6, <1>7, <2>1, <2>2, StartRead
<1> QED
  BY <1>8 DEF x, bad

\* A structure that fits in the declared size.
LEMMA CheckedPod ==
    ASSUME NEW c, NEW t \in Type, NEW q, c.size \in Nat, SizeClaim(c, t),
           IsScript(q), Len(q) > 0, Rest(q, c, {"arg"}, t.lens, CopyLimit - 1)
    PROVE  Decoder(read_checked_pod(c.size, t, q), c)
<1>1. t.size \in Nat
  BY DEF Type
<1>2. CASE c.size > 0 /\ c.size < t.size
  <2>1. Checked(c) => Refused(c)
    BY <1>2 DEF SizeClaim
  <2> QED
    BY <1>2, <2>1, RefusalDecoder DEF read_checked_pod
<1>3. CASE ~(c.size > 0 /\ c.size < t.size)
  <2>1. c.size = 0 \/ t.size <= c.size
    BY <1>1, <1>3
  <2> DEFINE r == <<read_pod("arg", 0, t, Room(c.size), <<Put("arg_unreadable")>>)>> \o q
  <2>2. StartGood(r, c)
    BY <2>1, ArgRead
  <2>3. read_checked_pod(c.size, t, q) = r
    BY <1>3 DEF read_checked_pod
  <2> HIDE DEF r
  <2>4. ~(Checked(c) /\ Refused(c))
    BY <1>3 DEF SizeClaim
  <2> QED
    BY <2>2, <2>3, <2>4 DEF Decoder
<1> QED
  BY <1>2, <1>3

\* What follows the copy, when it is a status or a side step and a status.
LEMMA ArgRest0 ==
    ASSUME NEW c, NEW arr
    PROVE  /\ Rest(<<Put("ok")>>, c, {"arg"}, arr, CopyLimit - 1)
           /\ IsScript(<<Put("ok")>>) /\ Len(<<Put("ok")>>) > 0
<1>1. Put("ok").op = "put" /\ Put("ok").status = "ok"
  BY DEF Put
<1>2. CopyLimit - 1 \in Nat
  BY Limits
<1>3. TrueStatus(Put("ok").status, c, {"arg"})
  BY <1>1, OkStatus
<1>4. Body(<<Put("ok")>>, c, {"arg"}, arr, CopyLimit - 1)
  BY <1>1, <1>2, <1>3, BodyPut
<1> QED
  BY <1>4, BodyIsScript DEF Rest

\* The same with one side step.
LEMMA ArgRest1 ==
    ASSUME NEW c, NEW arr, NEW x, NEW s, Side(x, {"arg"}, c), x.op # "indirect",
           x.op = "list" => x.cap \in arr, TrueStatus(s, c, {"arg"}),
           s \notin {"arg_unreadable", "params_unreadable"}
    PROVE  /\ Rest(<<x, Put(s)>>, c, {"arg"}, arr, CopyLimit - 1)
           /\ IsScript(<<x, Put(s)>>) /\ Len(<<x, Put(s)>>) > 0
<1> DEFINE q == <<x>>
<1>1. Sides(q, {"arg"}, arr, c)
  BY Sides1
<1>2. Len(q) = 1 /\ q[1] = x
  BY Script1
<1>3. <<x, Put(s)>> = q \o <<Put(s)>>
  BY Cons2
<1> HIDE DEF q
<1>4. /\ Body(q \o <<Put(s)>>, c, {"arg"}, arr, CopyLimit - 1)
      /\ IsScript(q \o <<Put(s)>>) /\ Len(q \o <<Put(s)>>) > 0
  <2>1. Len(q) <= 3 /\ (Len(q) > 0 => q[1].op # "indirect")
    BY <1>2
  <2> QED
    BY <1>1, <2>1, ShortBody
<1> QED
  BY <1>3, <1>4 DEF Rest

\* An escape whose decoder shows the fields of one structure.
LEMMA PlainDecoder ==
    ASSUME NEW c, NEW t \in Type, c.size \in Nat, SizeClaim(c, t)
    PROVE  Decoder(Plain(c.size, t), c)
<1>1. /\ Rest(<<Put("ok")>>, c, {"arg"}, t.lens, CopyLimit - 1)
      /\ IsScript(<<Put("ok")>>) /\ Len(<<Put("ok")>>) > 0
  BY ArgRest0
<1> DEFINE q == <<Put("ok")>>
<1> HIDE DEF q
<1>2. /\ Rest(q, c, {"arg"}, t.lens, CopyLimit - 1)
      /\ IsScript(q) /\ Len(q) > 0
  BY <1>1 DEF q
<1>3. Decoder(read_checked_pod(c.size, t, q), c)
  BY <1>2, CheckedPod
<1> QED
  BY <1>3 DEF Plain, q

\* NV_ESC_IOCTL_XFER_CMD.
LEMMA XferDecoder ==
    ASSUME NEW c, c.size \in Nat, c.cmd = "ioctl_xfer_cmd", NoClaim(c)
    PROVE  Decoder(decode_xfer(c.size, "full"), c)
<1> DEFINE bad == <<Put("xfer_unreadable")>>
           x == read_pod("arg", 0, NvIoctlXfer, Room(c.size), bad)
<1> HIDE DEF bad
<1>1. NvIoctlXfer \in Type
  BY EscapeTypes
<1>2. InsideRoom(x, c) /\ x.from = "arg" /\ x.bad = bad /\ Must(x)
  <2>1. NvIoctlXfer.size \in Nat
    BY <1>1 DEF Type
  <2>2. Room(c.size) # NoRoom => Room(c.size) \in Nat
    BY DEF Room
  <2>3. InsideRoom(x, c)
    BY <2>1, <2>2 DEF read_pod, ReadStep, InsideRoom, Unchecked
  <2> QED
    BY <2>3 DEF read_pod, ReadStep, Must
<1> HIDE DEF x
<1>3. TrueStatus("xfer_unreadable", c, {})
  BY DEF TrueStatus
<1>4. IsScript(XferChoice) /\ Len(XferChoice) > 0
  BY Script1 DEF XferChoice
<1>5. Rest(XferChoice, c, {"arg"}, x.lens, CopyLimit - 1)
  <2>1. CopyLimit - 1 >= 4
    BY Limits
  <2> QED
    BY <2>1 DEF Rest
<1>6. StartGood(<<x>> \o XferChoice, c)
  <2>1. x.bad = <<Put("xfer_unreadable")>>
    BY <1>2 DEF bad
  <2> QED
    BY <1>2, <1>3, <1>4, <1>5, <2>1, StartRead
<1>7. decode_xfer(c.size, "full") = <<x>> \o XferChoice
  BY DEF decode_xfer, XferChoice, x, bad
<1> QED
  BY <1>6, <1>7, NoClaimDecoder

\* NV_ESC_RM_CONTROL.
LEMMA ControlDecoder ==
    ASSUME NEW c, c.size \in Nat, SizeClaim(c, NvOs54Parameters)
    PROVE  Decoder(decode_rm_control(c.size), c)
<1> DEFINE q == <<Payload>>
<1>1. NvOs54Parameters \in Type
  BY EscapeTypes
<1>2. IsScript(q) /\ Len(q) > 0
  BY Script1
<1>3. Rest(q, c, {"arg"}, NvOs54Parameters.lens, CopyLimit - 1)
  <2>1. CopyLimit - 1 >= 3
    BY Limits
  <2> QED
    BY <2>1 DEF Rest
<1> HIDE DEF q
<1>4. Decoder(read_checked_pod(c.size, NvOs54Parameters, q), c)
  BY <1>1, <1>2, <1>3, CheckedPod
<1> QED
  BY <1>4 DEF decode_rm_control, q

\* A decoder that refuses a structure by itself: read_checked_pod only sees
\* what fits.
LEMMA FittingDecoder ==
    ASSUME NEW c, NEW t \in Type, NEW q, c.size \in Nat, t.size <= c.size,
           Checked(c) => ~Refused(c),
           IsScript(q), Len(q) > 0, Rest(q, c, {"arg"}, t.lens, CopyLimit - 1)
    PROVE  Decoder(read_checked_pod(c.size, t, q), c)
<1>1. t.size \in Nat
  BY DEF Type
<1>2. ~(c.size > 0 /\ c.size < t.size)
  BY <1>1
<1>3. SizeClaim(c, t)
  BY <1>2 DEF SizeClaim
<1> QED
  BY <1>3, CheckedPod

\* A decoder of one structure that accepts any size from its own on.
LEMMA FittingPlain ==
    ASSUME NEW c, NEW t \in Type, c.size \in Nat, t.size <= c.size,
           Checked(c) => ~Refused(c)
    PROVE  Decoder(Plain(c.size, t), c)
<1>1. t.size \in Nat
  BY DEF Type
<1>2. ~(c.size > 0 /\ c.size < t.size)
  BY <1>1
<1>3. SizeClaim(c, t)
  BY <1>2 DEF SizeClaim
<1> QED
  BY <1>3, PlainDecoder

\* The four decoders that refuse a number without a size.
SelfClaim(c, n) == Checked(c) => (Refused(c) <=> c.size < n)

\* NV_ESC_RM_ALLOC_MEMORY.
LEMMA AllocMemoryDecoder ==
    ASSUME NEW c, c.size \in Nat, SelfClaim(c, 48)
    PROVE  Decoder(decode_rm_alloc_memory(c.size), c)
<1>1. /\ NvOs02Parameters \in Type /\ NvOs02Parameters.size = 48
      /\ NvIoctlNvos02ParametersWithFd \in Type
      /\ NvIoctlNvos02ParametersWithFd.size = 56
  BY Sizes1 DEF Sized
<1>2. CASE c.size >= 56
  <2>1. Checked(c) => ~Refused(c)
    BY <1>2 DEF SelfClaim
  <2>2. Decoder(Plain(c.size, NvIoctlNvos02ParametersWithFd), c)
    BY <1>1, <1>2, <2>1, FittingPlain
  <2> QED
    BY <1>1, <1>2, <2>2 DEF decode_rm_alloc_memory
<1>3. CASE c.size >= 48 /\ c.size < 56
  <2>1. Checked(c) => ~Refused(c)
    BY <1>3 DEF SelfClaim
  <2>2. Decoder(Plain(c.size, NvOs02Parameters), c)
    BY <1>1, <1>3, <2>1, FittingPlain
  <2> QED
    BY <1>1, <1>3, <2>2 DEF decode_rm_alloc_memory
<1>4. CASE c.size < 48
  <2>1. Checked(c) => Refused(c)
    BY <1>4 DEF SelfClaim
  <2>2. decode_rm_alloc_memory(c.size) = <<Put("size_mismatch")>>
    BY <1>1, <1>4 DEF decode_rm_alloc_memory
  <2> QED
    BY <2>1, <2>2, RefusalDecoder
<1> QED
  BY <1>2, <1>3, <1>4

\* NV_ESC_RM_ALLOC.
LEMMA AllocDecoder ==
    ASSUME NEW c, c.size \in Nat, SelfClaim(c, 32)
    PROVE  Decoder(decode_rm_alloc(c.size), c)
<1>1. /\ NvOs21Parameters \in Type /\ NvOs21Parameters.size = 32
      /\ NvOs64Parameters \in Type /\ NvOs64Parameters.size = 48
  BY Sizes1 DEF Sized
<1> DEFINE q == <<decode_alloc_blob, Put("ok")>>
<1>2. \A arr : Rest(q, c, {"arg"}, arr, CopyLimit - 1) /\ IsScript(q) /\ Len(q) > 0
  <2> TAKE arr
  <2>1. TrueStatus("ok", c, {"arg"})
    BY OkStatus
  <2>2. Side(decode_alloc_blob, {"arg"}, c) /\ decode_alloc_blob.op = "blob"
    BY OtherSides
  <2> QED
    BY <2>1, <2>2, ArgRest1
<1> HIDE DEF q
<1>3. CASE c.size >= 48
  <2>1. Checked(c) => ~Refused(c)
    BY <1>3 DEF SelfClaim
  <2>2. Decoder(read_checked_pod(c.size, NvOs64Parameters, q), c)
    BY <1>1, <1>2, <1>3, <2>1, FittingDecoder
  <2> QED
    BY <1>1, <1>3, <2>2 DEF decode_rm_alloc, q
<1>4. CASE c.size >= 32 /\ c.size < 48
  <2>1. Checked(c) => ~Refused(c)
    BY <1>4 DEF SelfClaim
  <2>2. Decoder(read_checked_pod(c.size, NvOs21Parameters, q), c)
    BY <1>1, <1>2, <1>4, <2>1, FittingDecoder
  <2> QED
    BY <1>1, <1>4, <2>2 DEF decode_rm_alloc, q
<1>5. CASE c.size < 32
  <2>1. Checked(c) => Refused(c)
    BY <1>5 DEF SelfClaim
  <2>2. decode_rm_alloc(c.size) = <<Put("size_mismatch")>>
    BY <1>1, <1>5 DEF decode_rm_alloc
  <2> QED
    BY <2>1, <2>2, RefusalDecoder
<1> QED
  BY <1>3, <1>4, <1>5

\* NV_ESC_RM_MAP_MEMORY.
LEMMA MapMemoryDecoder ==
    ASSUME NEW c, c.size \in Nat, SelfClaim(c, 56)
    PROVE  Decoder(decode_rm_map_memory(c.size), c)
<1>1. NvIoctlNvos33ParametersWithFd \in Type /\ NvIoctlNvos33ParametersWithFd.size = 56
  BY Sizes1 DEF Sized
<1>2. CASE c.size >= 56
  <2>1. Checked(c) => ~Refused(c)
    BY <1>2 DEF SelfClaim
  <2>2. Decoder(Plain(c.size, NvIoctlNvos33ParametersWithFd), c)
    BY <1>1, <1>2, <2>1, FittingPlain
  <2> QED
    BY <1>1, <1>2, <2>2 DEF decode_rm_map_memory
<1>3. CASE c.size < 56
  <2>1. Checked(c) => Refused(c)
    BY <1>3 DEF SelfClaim
  <2>2. decode_rm_map_memory(c.size) = <<Put("size_mismatch")>>
    BY <1>1, <1>3 DEF decode_rm_map_memory
  <2> QED
    BY <2>1, <2>2, RefusalDecoder
<1> QED
  BY <1>2, <1>3

\* One side step between the copy and the status.
LEMMA OneSideDecoder ==
    ASSUME NEW c, NEW t \in Type, NEW x, c.size \in Nat, SizeClaim(c, t),
           Side(x, {"arg"}, c), x.op # "indirect", x.op = "list" => x.cap \in t.lens
    PROVE  Decoder(read_checked_pod(c.size, t, <<x, Put("ok")>>), c)
<1> DEFINE q == <<x, Put("ok")>>
<1>1. TrueStatus("ok", c, {"arg"})
  BY OkStatus
<1>2. Rest(q, c, {"arg"}, t.lens, CopyLimit - 1) /\ IsScript(q) /\ Len(q) > 0
  BY <1>1, ArgRest1
<1> HIDE DEF q
<1>3. Decoder(read_checked_pod(c.size, t, q), c)
  BY <1>2, CheckedPod
<1> QED
  BY <1>3 DEF q

\* NV_ESC_RM_VID_HEAP_CONTROL.
LEMMA VidHeapDecoder ==
    ASSUME NEW c, c.size \in Nat, c.cmd = "rm_vid_heap_control", NoClaim(c)
    PROVE  Decoder(decode_rm_vid_heap_control(c.size), c)
<1> DEFINE n == RmVidHeapControlPrefix.size
           room == Room(c.size)
           data(t) == <<try_pod("arg", n, t, room)>>
           S == {<<>>, data(RmVidHeapAllocSizeData), data(RmVidHeapFreeData),
                 data(RmVidHeapAllocOsDescData)}
           x == OneOf(S)
<1>1. /\ RmVidHeapControlPrefix \in Type /\ RmVidHeapAllocSizeData \in Type
      /\ RmVidHeapFreeData \in Type /\ RmVidHeapAllocOsDescData \in Type
  BY EscapeTypes
<1>2. n \in Nat
  BY <1>1 DEF Type
<1>8. CASE c.size > 0 /\ c.size < n
  <2>1. decode_rm_vid_heap_control(c.size) = <<Put("size_mismatch")>>
    BY <1>8 DEF decode_rm_vid_heap_control, read_checked_pod
  <2> QED
    BY <2>1, RefusalDecoder DEF NoClaim
<1> SUFFICES ASSUME ~(c.size > 0 /\ c.size < n)
             PROVE  Decoder(decode_rm_vid_heap_control(c.size), c)
  BY <1>8
<1>9. room # NoRoom => room \in Nat /\ n <= room
  BY <1>2 DEF Room
<1> HIDE DEF n, room
<1>3. ASSUME NEW t \in Type
      PROVE  data(t) = <<data(t)[1]>> /\ TryRead(data(t)[1], c)
  <2> DEFINE y == try_pod("arg", n, t, room)
  <2>1. TryRead(y, c)
    <3>1. t.size \in Nat
      BY DEF Type
    <3>2. /\ y.op = "read" /\ y.from = "arg" /\ y.off = n /\ y.len = t.size
          /\ y.room = room /\ y.must = FALSE
      BY DEF try_pod, ReadStep
    <3> HIDE DEF y
    <3>3. room # NoRoom => Unchecked(c, y)
      BY <1>9, <3>2 DEF Unchecked, n
    <3>4. InsideRoom(y, c)
      BY <1>2, <1>9, <3>1, <3>2, <3>3 DEF InsideRoom
    <3> QED
      BY <3>2, <3>4 DEF TryRead
  <2> HIDE DEF y
  <2>2. <<y>>[1] = y
    OBVIOUS
  <2>3. <<y>> = <<<<y>>[1]>> /\ TryRead(<<y>>[1], c)
    BY <2>1, <2>2
  <2> QED
    BY <2>3 DEF y
<1> HIDE DEF data
<1>4. \A q \in S : q # <<>> => q = <<q[1]>> /\ TryRead(q[1], c)
  BY <1>1, <1>3
<1> HIDE DEF S
<1>5. Side(x, {"arg"}, c) /\ x.op = "oneof"
  BY <1>4, Branches
<1> HIDE DEF x
<1>6. SizeClaim(c, RmVidHeapControlPrefix)
  BY DEF NoClaim, SizeClaim
<1>7. Decoder(read_checked_pod(c.size, RmVidHeapControlPrefix, <<x, Put("ok")>>), c)
  BY <1>1, <1>5, <1>6, OneSideDecoder
<1> QED
  BY <1>7 DEF decode_rm_vid_heap_control, x, S, data, n, room

\* NV_ESC_RM_GET_EVENT_DATA.
LEMMA EventDataDecoder ==
    ASSUME NEW c, c.size \in Nat, NoClaim(c)
    PROVE  Decoder(decode_rm_get_event_data(c.size), c)
<1> DEFINE y == try_pod("event", 0, RmUnixEvent, NoRoom)
           S == {<<>>, <<y>>}
           x == OneOf(S)
<1>1. RmGetEventDataParams \in Type /\ RmUnixEvent \in Type
  BY EscapeTypes
<1>2. TryRead(y, c)
  <2>1. RmUnixEvent.size \in Nat
    BY <1>1 DEF Type
  <2>2. InsideRoom(y, c)
    BY <2>1 DEF try_pod, ReadStep, InsideRoom
  <2> QED
    BY <2>2 DEF try_pod, ReadStep, TryRead
<1> HIDE DEF y
<1>3. <<y>>[1] = y
  OBVIOUS
<1>4. \A q \in S : q # <<>> => q = <<q[1]>> /\ TryRead(q[1], c)
  BY <1>2, <1>3
<1> HIDE DEF S
<1>5. Side(x, {"arg"}, c) /\ x.op = "oneof"
  BY <1>4, Branches
<1> HIDE DEF x
<1>6. SizeClaim(c, RmGetEventDataParams)
  BY DEF NoClaim, SizeClaim
<1>7. Decoder(read_checked_pod(c.size, RmGetEventDataParams, <<x, Put("ok")>>), c)
  BY <1>1, <1>5, <1>6, OneSideDecoder
<1> QED
  BY <1>7 DEF decode_rm_get_event_data, x, S, y

\* NV_ESC_NUMA_INFO.
LEMMA NumaDecoder ==
    ASSUME NEW c, c.size \in Nat, SizeClaim(c, NvIoctlNumaInfo)
    PROVE  Decoder(decode_numa_info(c.size), c)
<1> DEFINE x == SampledList(64, 16)
<1>1. Side(x, {"arg"}, c) /\ x.op = "list" /\ x.cap = 64
  <2>1. Listing(x)
    BY DEF SampledList, ListStep, Listing
  <2>2. Side(x, {"arg"}, c)
    BY <2>1 DEF Side
  <2> QED
    BY <2>2 DEF SampledList, ListStep
<1> HIDE DEF x
<1>2. NvIoctlNumaInfo \in Type /\ 64 \in NvIoctlNumaInfo.lens
  BY EscapeTypes
<1>3. Decoder(read_checked_pod(c.size, NvIoctlNumaInfo, <<x, Put("ok")>>), c)
  BY <1>1, <1>2, OneSideDecoder
<1> QED
  BY <1>3 DEF decode_numa_info, x

\* NV_ESC_RM_ACCESS_REGISTRY.
LEMMA RegistryDecoder ==
    ASSUME NEW c, c.size \in Nat, NoClaim(c)
    PROVE  Decoder(decode_rm_access_registry(c.size), c)
<1> DEFINE t == RmAccessRegistryParams
           x == read_remote_string
           more == <<x, x>>
           q == <<x, x, Put("ok")>>
<1>1. t \in Type
  BY EscapeTypes
<1>2. Side(x, {"arg"}, c) /\ x.op = "text"
  BY OtherSides
<1> HIDE DEF t, x
<1>3. Sides(more, {"arg"}, t.lens, c)
  BY <1>2, Sides2
<1>4. Len(more) = 2 /\ more[1] = x
  BY Script2
<1>5. q = more \o <<Put("ok")>>
  BY Cons3
<1> HIDE DEF more
<1>6. TrueStatus("ok", c, {"arg"})
  BY OkStatus
<1>7. /\ Body(more \o <<Put("ok")>>, c, {"arg"}, t.lens, CopyLimit - 1)
      /\ IsScript(more \o <<Put("ok")>>) /\ Len(more \o <<Put("ok")>>) > 0
  <2>1. Len(more) <= 3 /\ (Len(more) > 0 => more[1].op # "indirect")
    BY <1>2, <1>4
  <2> QED
    BY <1>3, <1>6, <2>1, ShortBody
<1>8. Rest(q, c, {"arg"}, t.lens, CopyLimit - 1) /\ IsScript(q) /\ Len(q) > 0
  BY <1>5, <1>7 DEF Rest
<1> HIDE DEF q
<1>9. SizeClaim(c, t)
  BY DEF NoClaim, SizeClaim
<1>10. Decoder(read_checked_pod(c.size, t, q), c)
  BY <1>1, <1>8, <1>9, CheckedPod
<1> QED
  BY <1>10 DEF decode_rm_access_registry, t, q, x

\* An escape of which only bytes are shown.
LEMMA OpaqueDecoder ==
    ASSUME NEW c, c.size \in Nat, NoClaim(c)
    PROVE  Decoder(decode_rm_opaque(c.size), c)
<1>1. U32 \in Type /\ U32.size = 4
  BY BaseTypes
<1>2. TrueStatus("opaque", c, {})
  BY DEF TrueStatus
<1>3. CASE c.size < 4
  BY <1>1, <1>2, <1>3, StartPut, NoClaimDecoder DEF decode_rm_opaque
<1>4. CASE c.size >= 4
  <2> DEFINE off == c.size - U32.size
             x == try_pod("arg", off, U32, c.size)
             q == <<x>>
  <2>1. off \in Nat /\ off + U32.size <= c.size
    BY <1>1, <1>4
  <2>2. decode_rm_opaque(c.size) = <<x, Put("opaque")>>
    BY <1>1, <1>4 DEF decode_rm_opaque
  <2> HIDE DEF off
  <2>3. TryRead(x, c) /\ x.op = "read"
    <3>1. InsideRoom(x, c)
      BY <1>1, <2>1 DEF try_pod, ReadStep, InsideRoom
    <3> QED
      BY <3>1 DEF try_pod, ReadStep, TryRead
  <2> HIDE DEF x
  <2>4. Sides(q, {}, {}, c)
    <3>1. Side(x, {}, c)
      BY <2>3 DEF Side
    <3> QED
      BY <2>3, <3>1, Sides1
  <2>5. Len(q) = 1 /\ q[1] = x
    BY Script1
  <2>6. <<x, Put("opaque")>> = q \o <<Put("opaque")>>
    BY Cons2
  <2> HIDE DEF q
  <2>7. CopyLimit \in Int /\ CopyLimit >= 5
    BY Limits
  <2>8. Len(q) + (IF Len(q) > 0 /\ q[1].op = "indirect" THEN q[1].copies - 1 ELSE 0)
               - (IF Len(q) > 0 /\ q[Len(q)].op = "show" THEN 1 ELSE 0) <= CopyLimit
    BY <2>3, <2>5, <2>7
  <2>9. Body(q \o <<Put("opaque")>>, c, {}, {}, CopyLimit)
    BY <1>2, <2>4, <2>7, <2>8, BodyOf
  <2>10. <<x, Put("opaque")>> # <<>>
    OBVIOUS
  <2>11. StartGood(<<x, Put("opaque")>>, c)
    BY <2>6, <2>9, <2>10 DEF StartGood, Good, Rest
  <2> QED
    BY <2>2, <2>11, NoClaimDecoder
<1> QED
  BY <1>3, <1>4

\* Bytes of the argument, as many as are shown.
LEMMA BytesDecoder ==
    ASSUME NEW c, NEW len \in Nat, NEW s, NEW y, c.size \in Nat, len <= c.size,
           NoClaim(c), s \in {"ok", "partial"},
           y = Show(len, c.size) \/ y = ShowWords(len, c.size)
    PROVE  Decoder(<<read_bytes("arg", len, c.size, <<Put("arg_unreadable")>>),
                     y, Put(s)>>, c)
<1> DEFINE bad == <<Put("arg_unreadable")>>
           x == read_bytes("arg", len, c.size, bad)
           q == <<y, Put(s)>>
<1> HIDE DEF bad
<1>1. InsideRoom(x, c)
  BY DEF read_bytes, ReadStep, InsideRoom
<1>2. x.from = "arg" /\ x.lens = {}
  BY DEF read_bytes, ReadStep
<1>3. x.bad = bad
  BY DEF read_bytes, ReadStep
<1>4. Must(x)
  BY DEF read_bytes, ReadStep, Must
<1> HIDE DEF x
<1>5. Side(y, {"arg"}, c) /\ y.op = "show"
  BY Shows
<1>6. TrueStatus(s, c, {"arg"}) /\ TrueStatus("arg_unreadable", c, {})
  BY DEF TrueStatus
<1>7. Rest(q, c, {"arg"}, {}, CopyLimit - 1) /\ IsScript(q) /\ Len(q) > 0
  BY <1>5, <1>6, ArgRest1
<1>8. <<x, y, Put(s)>> = <<x>> \o q
  BY Cons3
<1> HIDE DEF q
<1>9. Rest(q, c, {"arg"}, x.lens, CopyLimit - 1)
  BY <1>2, <1>7
<1>10. x.bad = <<Put("arg_unreadable")>>
  BY <1>3 DEF bad
<1>11. StartGood(<<x>> \o q, c)
  BY <1>1, <1>2, <1>4, <1>6, <1>7, <1>9, <1>10, StartRead
<1>12. Decoder(<<x, y, Put(s)>>, c)
  BY <1>8, <1>11, NoClaimDecoder
<1> QED
  BY <1>12 DEF x, bad

\* How many bytes are shown.
LEMMA ShownLength ==
    ASSUME NEW n \in Nat, NEW m \in Nat
    PROVE  Least(n, m) \in Nat /\ Least(n, m) <= n /\ Least(n, m) <= m
<1>1. Least(n, m) = IF n <= m THEN n ELSE m
  BY LeastIs
<1> QED
  BY <1>1

\* An escape without a decoder.
LEMMA UnknownDecoder ==
    ASSUME NEW c, c.size \in Nat, NoClaim(c)
    PROVE  Decoder(decode_unknown(c.size), c)
<1> DEFINE len == Least(c.size, AtLeast(16))
<1>1. AtLeast(16) \in Nat
  BY AtLeastIs
<1>2. len \in Nat /\ len <= c.size
  BY <1>1, ShownLength
<1>3. CASE c.size = 0
  <2>1. TrueStatus("unknown_cmd", c, {})
    BY DEF TrueStatus
  <2> QED
    BY <1>3, <2>1, StartPut, NoClaimDecoder DEF decode_unknown
<1>4. CASE c.size # 0
  <2>1. decode_unknown(c.size) =
          <<read_bytes("arg", len, c.size, <<Put("arg_unreadable")>>),
            Show(len, c.size), Put("partial")>>
    BY <1>4 DEF decode_unknown
  <2> HIDE DEF len
  <2> QED
    BY <1>2, <2>1, BytesDecoder
<1> QED
  BY <1>3, <1>4

\* NV_ESC_ATTACH_GPUS_TO_FD.
LEMMA AttachDecoder ==
    ASSUME NEW c, c.size \in Nat, NoClaim(c)
    PROVE  Decoder(decode_attach_gpus(c.size), c)
<1> DEFINE len == Least(c.size, AtLeast(U32.size))
<1>1. AtLeast(U32.size) \in Nat
  BY AtLeastIs, BaseTypes
<1>2. len \in Nat /\ len <= c.size
  BY <1>1, ShownLength
<1> DEFINE odd == c.size = 0 \/ c.size % U32.size # 0
<1>3. decode_attach_gpus(c.size) =
        IF odd THEN <<Put("size_unknown")>>
        ELSE <<read_bytes("arg", len, c.size, <<Put("arg_unreadable")>>),
               ShowWords(len, c.size), Put("ok")>>
  BY DEF decode_attach_gpus
<1> HIDE DEF len, odd
<1>4. CASE odd
  <2>1. TrueStatus("size_unknown", c, {})
    BY DEF TrueStatus
  <2> QED
    BY <1>3, <1>4, <2>1, StartPut, NoClaimDecoder
<1>5. CASE ~odd
  BY <1>2, <1>3, <1>5, BytesDecoder
<1> QED
  BY <1>4, <1>5

\* The cards: the first copy decides whether the argument is readable, each
\* later one ends the list early.
LEMMA CardsDecoder ==
    ASSUME NEW c, c.size \in Nat, SelfClaim(c, 72)
    PROVE  Decoder(decode_card_info(c.size), c)
<1> DEFINE t == NvIoctlCardInfo
           size == c.size
           all == size \div t.size
           most == Max({MaxBlob \div t.size, 1})
           k == Least(all, most)
           finish(n) == IF n = 0 THEN <<Put("arg_unreadable")>>
                        ELSE <<Show(n, all), Put("ok")>>
           card(n) == read_pod("arg", (n - 1) * t.size, t, size, finish(n - 1))
           cards == [n \in 1..k |-> card(n)]
           y == Show(k, all)
           z == Put("ok")
           r == cards \o <<y, z>>
           q == Tail(r)
<1>1. t \in Type /\ t.size = 72
  BY Sizes1 DEF Sized
<1>2. CASE size < 72
  <2>1. Checked(c) => Refused(c)
    BY <1>2 DEF SelfClaim
  <2>2. decode_card_info(c.size) = <<Put("size_mismatch")>>
    BY <1>1, <1>2 DEF decode_card_info
  <2> QED
    BY <2>1, <2>2, RefusalDecoder
<1>3. CASE size >= 72
  <2>1. all \in Nat /\ all >= 1 /\ all * 72 <= size
    BY <1>1, <1>3
  <2>2. most \in Nat /\ most >= 1 /\ most <= CopyLimit
    <3> DEFINE m == MaxBlob \div t.size
               one == 1
    <3>1. m \in Nat /\ m <= CopyLimit /\ CopyLimit >= 5 /\ CopyLimit \in Nat
      BY <1>1, Limits
    <3>2. one = 1
      OBVIOUS
    <3> HIDE DEF m, one
    <3>3. Max({m, one}) = IF m >= one THEN m ELSE one
      BY <3>1, <3>2, MaxIs
    <3>4. most = Max({m, one})
      BY DEF m, one
    <3> HIDE DEF most
    <3> QED
      BY <3>1, <3>2, <3>3, <3>4
  <2> HIDE DEF most
  <2>3. k \in Nat /\ k >= 1 /\ k <= all /\ k <= CopyLimit
    <3>1. k = IF all <= most THEN all ELSE most
      BY <2>1, <2>2, LeastIs
    <3> HIDE DEF k, all
    <3> QED
      BY <3>1, <2>1, <2>2, Limits
  <2>4. decode_card_info(c.size) = r
    <3>1. decode_card_info(c.size) = cards \o finish(k)
      <4>1. ~(size < t.size)
        BY <1>1, <1>3
      <4> QED
        BY <4>1 DEF decode_card_info, most
    <3>2. k # 0
      BY <2>3
    <3> HIDE DEF k, cards
    <3>3. finish(k) = <<y, z>>
      BY <3>2
    <3> QED
      BY <3>1, <3>3
  <2> HIDE DEF all, k, z
  <2>5. ASSUME NEW n \in 1..k
        PROVE  /\ InsideRoom(card(n), c) /\ card(n).op = "read" /\ card(n).from = "arg"
               /\ card(n).bad = finish(n - 1)
    <3> DEFINE off == (n - 1) * t.size
               bad == finish(n - 1)
    <3>1. off \in Nat /\ off + 72 <= size
      BY <1>1, <2>1, <2>3
    <3> HIDE DEF off, bad
    <3>2. InsideRoom(card(n), c)
      BY <1>1, <3>1 DEF read_pod, ReadStep, InsideRoom, off
    <3>3. card(n).op = "read" /\ card(n).from = "arg"
      BY DEF read_pod, ReadStep
    <3>4. read_pod("arg", (n - 1) * t.size, t, size, bad).bad = bad
      BY DEF read_pod, ReadStep
    <3> QED
      BY <3>2, <3>3, <3>4 DEF bad
  <2>6. ASSUME NEW n \in 1..k
        PROVE  Must(card(n)) /\ card(n).lens = t.lens
    <3> HIDE DEF finish
    <3> QED
      BY DEF read_pod, ReadStep, Must
  <2>7. ASSUME NEW n \in 1..k, n # 1
        PROVE  NextRead(card(n), c)
    <3> DEFINE v == Show(n - 1, all)
    <3>1. n - 1 \in Nat /\ n - 1 # 0
      BY <2>3, <2>7
    <3>2. Showing(v)
      BY <2>1, <3>1, Shows
    <3> HIDE DEF v
    <3>3. finish(n - 1) = <<v, Put("ok")>>
      BY <3>1 DEF v
    <3> HIDE DEF card, finish
    <3>4. card(n).bad[1] = v
      BY <2>5, <3>3
    <3>5. card(n).bad = <<card(n).bad[1], Put("ok")>> /\ Showing(card(n).bad[1])
      BY <2>5, <3>2, <3>3, <3>4
    <3> QED
      BY <2>5, <2>6, <3>5 DEF NextRead
  <2>8. card(1).bad = <<Put("arg_unreadable")>> /\ 1 \in 1..k
    <3>1. 1 \in 1..k /\ 1 - 1 = 0
      BY <2>3
    <3>2. card(1).bad = finish(1 - 1)
      BY <3>1, <2>5
    <3> HIDE DEF card
    <3> QED
      BY <3>1, <3>2
  <2>9. IsScript(cards) /\ Len(cards) = k /\ \A n \in 1..k : cards[n] = card(n)
    <3> HIDE DEF card
    <3> DEFINE S == {card(n) : n \in 1..k}
    <3>1. cards \in [1..k -> S]
      OBVIOUS
    <3>2. \A n \in 1..k : cards[n] = card(n)
      OBVIOUS
    <3> HIDE DEF S, cards
    <3>3. cards \in Seq(S) /\ Len(cards) = k
      BY <2>3, <3>1
    <3> QED
      BY <3>2, <3>3, SeqIsScript
  <2> HIDE DEF card, cards, finish
  <2>10. Side(y, {"arg"}, c) /\ y.op = "show"
    BY <2>1, <2>3, Shows
  <2>11. z.op = "put" /\ z.status = "ok"
    BY DEF z, Put
  <2> HIDE DEF y
  <2>12. IsScript(<<y, z>>) /\ Len(<<y, z>>) = 2 /\ <<y, z>>[1] = y /\ <<y, z>>[2] = z
    BY Script2
  <2>13. /\ IsScript(r) /\ Len(r) = k + 2
         /\ \A i \in 1..(k + 2) : r[i] = IF i <= k THEN cards[i] ELSE <<y, z>>[i - k]
    BY <2>9, <2>12, ScriptConcat
  <2> HIDE DEF r
  <2>14. r[k + 1] = y /\ r[k + 2] = z /\ \A i \in 1..k : r[i] = card(i)
    <3>1. k + 1 \in 1..(k + 2) /\ ~(k + 1 <= k) /\ k + 1 - k = 1
            /\ k + 2 \in 1..(k + 2) /\ ~(k + 2 <= k) /\ k + 2 - k = 2
            /\ \A i \in 1..k : i \in 1..(k + 2) /\ i <= k
      BY <2>3
    <3> QED
      BY <2>9, <2>12, <2>13, <3>1
  <2>15. Len(r) > 1 /\ r # <<>> /\ IsScript(q) /\ Len(q) = k + 1
           /\ \A i \in 1..(k + 1) : q[i] = r[i + 1]
    <3>1. Len(r) > 0 /\ Len(r) > 1 /\ Len(r) - 1 = k + 1
      BY <2>3, <2>13
    <3> QED
      BY <2>13, <3>1, ScriptTail
  <2> HIDE DEF q
  <2>16. q[k + 1] = z /\ q[k] = y /\ \A i \in 1..k : i # k => i + 1 \in 1..k /\ q[i] = card(i + 1)
    <3>1. k + 1 \in 1..(k + 1) /\ k \in 1..(k + 1) /\ k + 1 + 1 = k + 2
            /\ \A i \in 1..k : i # k => i + 1 \in 1..k /\ i \in 1..(k + 1)
      BY <2>3
    <3> QED
      BY <2>14, <2>15, <3>1
  <2>17. \A i \in 1..k : Side(q[i], {"arg"}, c) /\ q[i].op \in {"read", "show"}
    <3> TAKE i \in 1..k
    <3>1. CASE i = k
      BY <2>10, <2>16, <3>1
    <3>2. CASE i # k
      <4>1. i + 1 \in 1..k /\ i + 1 # 1 /\ q[i] = card(i + 1)
        BY <2>16, <3>2
      <4>2. NextRead(card(i + 1), c) /\ card(i + 1).op = "read"
        BY <2>5, <2>7, <4>1
      <4> QED
        BY <4>1, <4>2 DEF Side
    <3> QED
      BY <3>1, <3>2
  <2>18. Work(q) = k - 1
    <3>1. 1 \in 1..k /\ k + 1 > 1 /\ k + 1 - 1 = k
      BY <2>3
    <3>2. q[1].op # "indirect"
      BY <2>17, <3>1
    <3> QED
      BY <2>3, <2>10, <2>15, <2>16, <3>1, <3>2 DEF Work
  <2>19. TrueStatus("ok", c, {"arg"}) /\ TrueStatus("arg_unreadable", c, {})
    BY OkStatus, UnreadableStatus
  <2>20. Body(q, c, {"arg"}, t.lens, CopyLimit - 1)
    <3>1. Len(q) - 1 = k /\ Len(q) > 0 /\ q[Len(q)] = z /\ Work(q) <= CopyLimit - 1
      BY <2>3, <2>15, <2>16, <2>18, Limits
    <3>2. \A i \in 1..k : q[i].op # "list" /\ q[i].op # "indirect"
      BY <2>17
    <3> QED
      BY <2>11, <2>15, <2>17, <2>19, <3>1, <3>2 DEF Body
  <2>21. r[1] = card(1)
    BY <2>8, <2>14
  <2>22. InsideRoom(r[1], c) /\ Must(r[1]) /\ r[1].from = "arg"
           /\ r[1].bad = <<Put("arg_unreadable")>> /\ r[1].lens = t.lens
    BY <2>5, <2>6, <2>8, <2>21
  <2>23. Reading(r, c, {}, CopyLimit)
    <3>1. {} \cup {r[1].from} = {"arg"}
      BY <2>22
    <3>2. Rest(Tail(r), c, {} \cup {r[1].from}, r[1].lens, CopyLimit - 1)
      BY <2>20, <2>22, <3>1 DEF Rest, q
    <3> QED
      BY <2>13, <2>15, <2>22, <3>2 DEF Reading
  <2>24. Body(r[1].bad, c, {}, {}, CopyLimit - 1)
    <3> DEFINE bad == Put("arg_unreadable")
    <3>1. CopyLimit - 1 \in Nat
      BY Limits
    <3>2. bad.op = "put" /\ bad.status = "arg_unreadable"
      BY DEF Put
    <3>3. r[1].bad = <<bad>>
      BY <2>22
    <3> HIDE DEF bad
    <3> QED
      BY <2>19, <3>1, <3>2, <3>3, BodyPut
  <2>25. StartGood(r, c)
    BY <2>15, <2>23, <2>24 DEF StartGood, Good, ReadOrEnd
  <2>26. Checked(c) => ~Refused(c)
    BY <1>3 DEF SelfClaim
  <2> QED
    BY <2>4, <2>25, <2>26 DEF Decoder
<1> QED
  BY <1>2, <1>3

\* Whatever the escape, its script is good and refuses what is too short.
LEMMA EscapesGood ==
    ASSUME NEW c, c.size \in Nat, c.cmd \in DOMAIN decode_nvidia_ioctl(0, "full")
    PROVE  Decoder(decode_nvidia_ioctl(c.size, "full")[c.cmd], c)
<1> DEFINE f == decode_nvidia_ioctl(c.size, "full")
           P(k) == k = c.cmd => Decoder(f[k], c)
<1>1. P("ioctl_xfer_cmd")
  <2>1. f["ioctl_xfer_cmd"] = decode_xfer(c.size, "full")
    BY DEF decode_nvidia_ioctl
  <2>2. ASSUME "ioctl_xfer_cmd" = c.cmd PROVE Decoder(decode_xfer(c.size, "full"), c)
    <3>1. NoClaim(c)
      BY <2>2, Unclaimed DEF AssertedSize
    <3> QED
      BY <2>2, <3>1, XferDecoder
  <2> QED
    BY <2>1, <2>2
<1>2. P("rm_control")
  <2>1. f["rm_control"] = decode_rm_control(c.size)
    BY DEF decode_nvidia_ioctl
  <2>2. ASSUME "rm_control" = c.cmd PROVE Decoder(decode_rm_control(c.size), c)
    <3>1. SizeClaim(c, NvOs54Parameters)
      BY <2>2, Sizes1 DEF Sized, SizeClaim, Refused, AssertedSize
    <3> QED
      BY <3>1, ControlDecoder
  <2> QED
    BY <2>1, <2>2
<1>3. P("rm_alloc_memory")
  <2>1. f["rm_alloc_memory"] = decode_rm_alloc_memory(c.size)
    BY DEF decode_nvidia_ioctl
  <2>2. ASSUME "rm_alloc_memory" = c.cmd PROVE Decoder(decode_rm_alloc_memory(c.size), c)
    <3>1. SelfClaim(c, 48)
      BY <2>2 DEF SelfClaim, Refused, AssertedSize
    <3> QED
      BY <3>1, AllocMemoryDecoder
  <2> QED
    BY <2>1, <2>2
<1>4. P("rm_alloc_object")
  <2>1. f["rm_alloc_object"] = decode_rm_alloc_object(c.size)
    BY DEF decode_nvidia_ioctl
  <2>2. ASSUME "rm_alloc_object" = c.cmd PROVE Decoder(decode_rm_alloc_object(c.size), c)
    <3>1. NvOs05Parameters \in Type
      BY EscapeTypes
    <3>2. SizeClaim(c, NvOs05Parameters)
      BY <2>2, Sizes1 DEF Sized, SizeClaim, Refused, AssertedSize
    <3> QED
      BY <3>1, <3>2, PlainDecoder DEF decode_rm_alloc_object
  <2> QED
    BY <2>1, <2>2
<1>5. P("rm_alloc")
  <2>1. f["rm_alloc"] = decode_rm_alloc(c.size)
    BY DEF decode_nvidia_ioctl
  <2>2. ASSUME "rm_alloc" = c.cmd PROVE Decoder(decode_rm_alloc(c.size), c)
    <3>1. SelfClaim(c, 32)
      BY <2>2 DEF SelfClaim, Refused, AssertedSize
    <3> QED
      BY <3>1, AllocDecoder
  <2> QED
    BY <2>1, <2>2
<1>6. P("rm_free")
  <2>1. f["rm_free"] = decode_rm_free(c.size)
    BY DEF decode_nvidia_ioctl
  <2>2. ASSUME "rm_free" = c.cmd PROVE Decoder(decode_rm_free(c.size), c)
    <3>1. NvOs00Parameters \in Type
      BY EscapeTypes
    <3>2. SizeClaim(c, NvOs00Parameters)
      BY <2>2, Sizes1 DEF Sized, SizeClaim, Refused, AssertedSize
    <3> QED
      BY <3>1, <3>2, PlainDecoder DEF decode_rm_free
  <2> QED
    BY <2>1, <2>2
<1>7. P("rm_map_memory")
  <2>1. f["rm_map_memory"] = decode_rm_map_memory(c.size)
    BY DEF decode_nvidia_ioctl
  <2>2. ASSUME "rm_map_memory" = c.cmd PROVE Decoder(decode_rm_map_memory(c.size), c)
    <3>1. SelfClaim(c, 56)
      BY <2>2 DEF SelfClaim, Refused, AssertedSize
    <3> QED
      BY <3>1, MapMemoryDecoder
  <2> QED
    BY <2>1, <2>2
<1>8. P("rm_unmap_memory")
  <2>1. f["rm_unmap_memory"] = decode_rm_unmap_memory(c.size)
    BY DEF decode_nvidia_ioctl
  <2>2. ASSUME "rm_unmap_memory" = c.cmd PROVE Decoder(decode_rm_unmap_memory(c.size), c)
    <3>1. NvOs34Parameters \in Type
      BY EscapeTypes
    <3>2. SizeClaim(c, NvOs34Parameters)
      BY <2>2, Sizes1 DEF Sized, SizeClaim, Refused, AssertedSize
    <3> QED
      BY <3>1, <3>2, PlainDecoder DEF decode_rm_unmap_memory
  <2> QED
    BY <2>1, <2>2
<1>9. P("rm_i2c_access")
  <2>1. f["rm_i2c_access"] = decode_rm_i2c_access(c.size)
    BY DEF decode_nvidia_ioctl
  <2>2. ASSUME "rm_i2c_access" = c.cmd PROVE Decoder(decode_rm_i2c_access(c.size), c)
    <3>1. RmI2cAccessParams \in Type
      BY EscapeTypes
    <3>2. SizeClaim(c, RmI2cAccessParams)
      BY <2>2, Unclaimed DEF AssertedSize
    <3> QED
      BY <3>1, <3>2, PlainDecoder DEF decode_rm_i2c_access
  <2> QED
    BY <2>1, <2>2
<1>10. P("rm_idle_channels")
  <2>1. f["rm_idle_channels"] = decode_rm_idle_channels(c.size)
    BY DEF decode_nvidia_ioctl
  <2>2. ASSUME "rm_idle_channels" = c.cmd PROVE Decoder(decode_rm_idle_channels(c.size), c)
    <3>1. RmIdleChannelsParams \in Type
      BY EscapeTypes
    <3>2. SizeClaim(c, RmIdleChannelsParams)
      BY <2>2, Unclaimed DEF AssertedSize
    <3> QED
      BY <3>1, <3>2, PlainDecoder DEF decode_rm_idle_channels
  <2> QED
    BY <2>1, <2>2
<1>11. P("rm_vid_heap_control")
  <2>1. f["rm_vid_heap_control"] = decode_rm_vid_heap_control(c.size)
    BY DEF decode_nvidia_ioctl
  <2>2. ASSUME "rm_vid_heap_control" = c.cmd PROVE Decoder(decode_rm_vid_heap_control(c.size), c)
    <3>1. NoClaim(c)
      BY <2>2, Unclaimed DEF AssertedSize
    <3> QED
      BY <2>2, <3>1, VidHeapDecoder
  <2> QED
    BY <2>1, <2>2
<1>12. P("rm_access_registry")
  <2>1. f["rm_access_registry"] = decode_rm_access_registry(c.size)
    BY DEF decode_nvidia_ioctl
  <2>2. ASSUME "rm_access_registry" = c.cmd PROVE Decoder(decode_rm_access_registry(c.size), c)
    <3>1. NoClaim(c)
      BY <2>2, Unclaimed DEF AssertedSize
    <3> QED
      BY <3>1, RegistryDecoder
  <2> QED
    BY <2>1, <2>2
<1>13. P("rm_get_event_data")
  <2>1. f["rm_get_event_data"] = decode_rm_get_event_data(c.size)
    BY DEF decode_nvidia_ioctl
  <2>2. ASSUME "rm_get_event_data" = c.cmd PROVE Decoder(decode_rm_get_event_data(c.size), c)
    <3>1. NoClaim(c)
      BY <2>2, Unclaimed DEF AssertedSize
    <3> QED
      BY <3>1, EventDataDecoder
  <2> QED
    BY <2>1, <2>2
<1>14. P("rm_alloc_context_dma2")
  <2>1. f["rm_alloc_context_dma2"] = decode_rm_alloc_context_dma2(c.size)
    BY DEF decode_nvidia_ioctl
  <2>2. ASSUME "rm_alloc_context_dma2" = c.cmd PROVE Decoder(decode_rm_alloc_context_dma2(c.size), c)
    <3>1. RmAllocContextDma2Params \in Type
      BY EscapeTypes
    <3>2. SizeClaim(c, RmAllocContextDma2Params)
      BY <2>2, Unclaimed DEF AssertedSize
    <3> QED
      BY <3>1, <3>2, PlainDecoder DEF decode_rm_alloc_context_dma2
  <2> QED
    BY <2>1, <2>2
<1>15. P("rm_map_memory_dma")
  <2>1. f["rm_map_memory_dma"] = decode_rm_map_memory_dma(c.size)
    BY DEF decode_nvidia_ioctl
  <2>2. ASSUME "rm_map_memory_dma" = c.cmd PROVE Decoder(decode_rm_map_memory_dma(c.size), c)
    <3>1. RmMapMemoryDmaParams \in Type
      BY EscapeTypes
    <3>2. SizeClaim(c, RmMapMemoryDmaParams)
      BY <2>2, Unclaimed DEF AssertedSize
    <3> QED
      BY <3>1, <3>2, PlainDecoder DEF decode_rm_map_memory_dma
  <2> QED
    BY <2>1, <2>2
<1>16. P("rm_unmap_memory_dma")
  <2>1. f["rm_unmap_memory_dma"] = decode_rm_unmap_memory_dma(c.size)
    BY DEF decode_nvidia_ioctl
  <2>2. ASSUME "rm_unmap_memory_dma" = c.cmd PROVE Decoder(decode_rm_unmap_memory_dma(c.size), c)
    <3>1. RmUnmapMemoryDmaParams \in Type
      BY EscapeTypes
    <3>2. SizeClaim(c, RmUnmapMemoryDmaParams)
      BY <2>2, Unclaimed DEF AssertedSize
    <3> QED
      BY <3>1, <3>2, PlainDecoder DEF decode_rm_unmap_memory_dma
  <2> QED
    BY <2>1, <2>2
<1>17. P("rm_bind_context_dma")
  <2>1. f["rm_bind_context_dma"] = decode_rm_bind_context_dma(c.size)
    BY DEF decode_nvidia_ioctl
  <2>2. ASSUME "rm_bind_context_dma" = c.cmd PROVE Decoder(decode_rm_bind_context_dma(c.size), c)
    <3>1. RmBindContextDmaParams \in Type
      BY EscapeTypes
    <3>2. SizeClaim(c, RmBindContextDmaParams)
      BY <2>2, Unclaimed DEF AssertedSize
    <3> QED
      BY <3>1, <3>2, PlainDecoder DEF decode_rm_bind_context_dma
  <2> QED
    BY <2>1, <2>2
<1>18. P("rm_dup_object")
  <2>1. f["rm_dup_object"] = decode_rm_dup_object(c.size)
    BY DEF decode_nvidia_ioctl
  <2>2. ASSUME "rm_dup_object" = c.cmd PROVE Decoder(decode_rm_dup_object(c.size), c)
    <3>1. RmDupObjectParams \in Type
      BY EscapeTypes
    <3>2. SizeClaim(c, RmDupObjectParams)
      BY <2>2, Unclaimed DEF AssertedSize
    <3> QED
      BY <3>1, <3>2, PlainDecoder DEF decode_rm_dup_object
  <2> QED
    BY <2>1, <2>2
<1>19. P("rm_update_device_mapping_info")
  <2>1. f["rm_update_device_mapping_info"] = decode_rm_update_device_mapping_info(c.size)
    BY DEF decode_nvidia_ioctl
  <2>2. ASSUME "rm_update_device_mapping_info" = c.cmd PROVE Decoder(decode_rm_update_device_mapping_info(c.size), c)
    <3>1. RmUpdateDeviceMappingInfoParams \in Type
      BY EscapeTypes
    <3>2. SizeClaim(c, RmUpdateDeviceMappingInfoParams)
      BY <2>2, Unclaimed DEF AssertedSize
    <3> QED
      BY <3>1, <3>2, PlainDecoder DEF decode_rm_update_device_mapping_info
  <2> QED
    BY <2>1, <2>2
<1>20. P("rm_share")
  <2>1. f["rm_share"] = decode_rm_share(c.size)
    BY DEF decode_nvidia_ioctl
  <2>2. ASSUME "rm_share" = c.cmd PROVE Decoder(decode_rm_share(c.size), c)
    <3>1. RmShareParams \in Type
      BY EscapeTypes
    <3>2. SizeClaim(c, RmShareParams)
      BY <2>2, Unclaimed DEF AssertedSize
    <3> QED
      BY <3>1, <3>2, PlainDecoder DEF decode_rm_share
  <2> QED
    BY <2>1, <2>2
<1>21. P("rm_add_vblank_callback")
  <2>1. f["rm_add_vblank_callback"] = decode_rm_add_vblank_callback(c.size)
    BY DEF decode_nvidia_ioctl
  <2>2. ASSUME "rm_add_vblank_callback" = c.cmd PROVE Decoder(decode_rm_add_vblank_callback(c.size), c)
    <3>1. RmAddVblankCallbackParams \in Type
      BY EscapeTypes
    <3>2. SizeClaim(c, RmAddVblankCallbackParams)
      BY <2>2, Unclaimed DEF AssertedSize
    <3> QED
      BY <3>1, <3>2, PlainDecoder DEF decode_rm_add_vblank_callback
  <2> QED
    BY <2>1, <2>2
<1>22. P("rm_config_get")
  <2>1. f["rm_config_get"] = decode_rm_opaque(c.size)
    BY DEF decode_nvidia_ioctl
  <2>2. ASSUME "rm_config_get" = c.cmd PROVE Decoder(decode_rm_opaque(c.size), c)
    <3>1. NoClaim(c)
      BY <2>2, Unclaimed DEF AssertedSize
    <3> QED
      BY <3>1, OpaqueDecoder
  <2> QED
    BY <2>1, <2>2
<1>23. P("rm_config_set")
  <2>1. f["rm_config_set"] = decode_rm_opaque(c.size)
    BY DEF decode_nvidia_ioctl
  <2>2. ASSUME "rm_config_set" = c.cmd PROVE Decoder(decode_rm_opaque(c.size), c)
    <3>1. NoClaim(c)
      BY <2>2, Unclaimed DEF AssertedSize
    <3> QED
      BY <3>1, OpaqueDecoder
  <2> QED
    BY <2>1, <2>2
<1>24. P("rm_config_get_ex")
  <2>1. f["rm_config_get_ex"] = decode_rm_opaque(c.size)
    BY DEF decode_nvidia_ioctl
  <2>2. ASSUME "rm_config_get_ex" = c.cmd PROVE Decoder(decode_rm_opaque(c.size), c)
    <3>1. NoClaim(c)
      BY <2>2, Unclaimed DEF AssertedSize
    <3> QED
      BY <3>1, OpaqueDecoder
  <2> QED
    BY <2>1, <2>2
<1>25. P("rm_config_set_ex")
  <2>1. f["rm_config_set_ex"] = decode_rm_opaque(c.size)
    BY DEF decode_nvidia_ioctl
  <2>2. ASSUME "rm_config_set_ex" = c.cmd PROVE Decoder(decode_rm_opaque(c.size), c)
    <3>1. NoClaim(c)
      BY <2>2, Unclaimed DEF AssertedSize
    <3> QED
      BY <3>1, OpaqueDecoder
  <2> QED
    BY <2>1, <2>2
<1>26. P("rm_export_object_to_fd")
  <2>1. f["rm_export_object_to_fd"] = decode_rm_opaque(c.size)
    BY DEF decode_nvidia_ioctl
  <2>2. ASSUME "rm_export_object_to_fd" = c.cmd PROVE Decoder(decode_rm_opaque(c.size), c)
    <3>1. NoClaim(c)
      BY <2>2, Unclaimed DEF AssertedSize
    <3> QED
      BY <3>1, OpaqueDecoder
  <2> QED
    BY <2>1, <2>2
<1>27. P("rm_import_object_from_fd")
  <2>1. f["rm_import_object_from_fd"] = decode_rm_opaque(c.size)
    BY DEF decode_nvidia_ioctl
  <2>2. ASSUME "rm_import_object_from_fd" = c.cmd PROVE Decoder(decode_rm_opaque(c.size), c)
    <3>1. NoClaim(c)
      BY <2>2, Unclaimed DEF AssertedSize
    <3> QED
      BY <3>1, OpaqueDecoder
  <2> QED
    BY <2>1, <2>2
<1>28. P("rm_lockless_diagnostic")
  <2>1. f["rm_lockless_diagnostic"] = decode_rm_opaque(c.size)
    BY DEF decode_nvidia_ioctl
  <2>2. ASSUME "rm_lockless_diagnostic" = c.cmd PROVE Decoder(decode_rm_opaque(c.size), c)
    <3>1. NoClaim(c)
      BY <2>2, Unclaimed DEF AssertedSize
    <3> QED
      BY <3>1, OpaqueDecoder
  <2> QED
    BY <2>1, <2>2
<1>29. P("register_fd")
  <2>1. f["register_fd"] = decode_register_fd(c.size)
    BY DEF decode_nvidia_ioctl
  <2>2. ASSUME "register_fd" = c.cmd PROVE Decoder(decode_register_fd(c.size), c)
    <3>1. NvIoctlRegisterFd \in Type
      BY EscapeTypes
    <3>2. SizeClaim(c, NvIoctlRegisterFd)
      BY <2>2, Sizes1 DEF Sized, SizeClaim, Refused, AssertedSize
    <3> QED
      BY <3>1, <3>2, PlainDecoder DEF decode_register_fd
  <2> QED
    BY <2>1, <2>2
<1>30. P("alloc_os_event")
  <2>1. f["alloc_os_event"] = decode_alloc_free_os_event(c.size)
    BY DEF decode_nvidia_ioctl
  <2>2. ASSUME "alloc_os_event" = c.cmd PROVE Decoder(decode_alloc_free_os_event(c.size), c)
    <3>1. NvIoctlAllocOsEvent \in Type
      BY EscapeTypes
    <3>2. SizeClaim(c, NvIoctlAllocOsEvent)
      BY <2>2, Sizes1 DEF Sized, SizeClaim, Refused, AssertedSize
    <3> QED
      BY <3>1, <3>2, PlainDecoder DEF decode_alloc_free_os_event
  <2> QED
    BY <2>1, <2>2
<1>31. P("free_os_event")
  <2>1. f["free_os_event"] = decode_alloc_free_os_event(c.size)
    BY DEF decode_nvidia_ioctl
  <2>2. ASSUME "free_os_event" = c.cmd PROVE Decoder(decode_alloc_free_os_event(c.size), c)
    <3>1. NvIoctlAllocOsEvent \in Type
      BY EscapeTypes
    <3>2. SizeClaim(c, NvIoctlAllocOsEvent)
      BY <2>2, Unclaimed DEF AssertedSize
    <3> QED
      BY <3>1, <3>2, PlainDecoder DEF decode_alloc_free_os_event
  <2> QED
    BY <2>1, <2>2
<1>32. P("status_code")
  <2>1. f["status_code"] = decode_status_code(c.size)
    BY DEF decode_nvidia_ioctl
  <2>2. ASSUME "status_code" = c.cmd PROVE Decoder(decode_status_code(c.size), c)
    <3>1. NvIoctlStatusCode \in Type
      BY EscapeTypes
    <3>2. SizeClaim(c, NvIoctlStatusCode)
      BY <2>2, Sizes1 DEF Sized, SizeClaim, Refused, AssertedSize
    <3> QED
      BY <3>1, <3>2, PlainDecoder DEF decode_status_code
  <2> QED
    BY <2>1, <2>2
<1>33. P("check_version_str")
  <2>1. f["check_version_str"] = decode_rm_api_version(c.size)
    BY DEF decode_nvidia_ioctl
  <2>2. ASSUME "check_version_str" = c.cmd PROVE Decoder(decode_rm_api_version(c.size), c)
    <3>1. NvIoctlRmApiVersion \in Type
      BY EscapeTypes
    <3>2. SizeClaim(c, NvIoctlRmApiVersion)
      BY <2>2, Sizes1 DEF Sized, SizeClaim, Refused, AssertedSize
    <3> QED
      BY <3>1, <3>2, PlainDecoder DEF decode_rm_api_version
  <2> QED
    BY <2>1, <2>2
<1>34. P("query_device_intr")
  <2>1. f["query_device_intr"] = decode_query_device_intr(c.size)
    BY DEF decode_nvidia_ioctl
  <2>2. ASSUME "query_device_intr" = c.cmd PROVE Decoder(decode_query_device_intr(c.size), c)
    <3>1. NvIoctlQueryDeviceIntr \in Type
      BY EscapeTypes
    <3>2. SizeClaim(c, NvIoctlQueryDeviceIntr)
      BY <2>2, Sizes1 DEF Sized, SizeClaim, Refused, AssertedSize
    <3> QED
      BY <3>1, <3>2, PlainDecoder DEF decode_query_device_intr
  <2> QED
    BY <2>1, <2>2
<1>35. P("sys_params")
  <2>1. f["sys_params"] = decode_sys_params(c.size)
    BY DEF decode_nvidia_ioctl
  <2>2. ASSUME "sys_params" = c.cmd PROVE Decoder(decode_sys_params(c.size), c)
    <3>1. NvIoctlSysParams \in Type
      BY EscapeTypes
    <3>2. SizeClaim(c, NvIoctlSysParams)
      BY <2>2, Sizes1 DEF Sized, SizeClaim, Refused, AssertedSize
    <3> QED
      BY <3>1, <3>2, PlainDecoder DEF decode_sys_params
  <2> QED
    BY <2>1, <2>2
<1>36. P("wait_open_complete")
  <2>1. f["wait_open_complete"] = decode_wait_open_complete(c.size)
    BY DEF decode_nvidia_ioctl
  <2>2. ASSUME "wait_open_complete" = c.cmd PROVE Decoder(decode_wait_open_complete(c.size), c)
    <3>1. NvIoctlWaitOpenComplete \in Type
      BY EscapeTypes
    <3>2. SizeClaim(c, NvIoctlWaitOpenComplete)
      BY <2>2, Sizes1 DEF Sized, SizeClaim, Refused, AssertedSize
    <3> QED
      BY <3>1, <3>2, PlainDecoder DEF decode_wait_open_complete
  <2> QED
    BY <2>1, <2>2
<1>37. P("numa_info")
  <2>1. f["numa_info"] = decode_numa_info(c.size)
    BY DEF decode_nvidia_ioctl
  <2>2. ASSUME "numa_info" = c.cmd PROVE Decoder(decode_numa_info(c.size), c)
    <3>1. SizeClaim(c, NvIoctlNumaInfo)
      BY <2>2, Sizes1 DEF Sized, SizeClaim, Refused, AssertedSize
    <3> QED
      BY <3>1, NumaDecoder
  <2> QED
    BY <2>1, <2>2
<1>38. P("set_numa_status")
  <2>1. f["set_numa_status"] = decode_set_numa_status(c.size)
    BY DEF decode_nvidia_ioctl
  <2>2. ASSUME "set_numa_status" = c.cmd PROVE Decoder(decode_set_numa_status(c.size), c)
    <3>1. NvIoctlSetNumaStatus \in Type
      BY EscapeTypes
    <3>2. SizeClaim(c, NvIoctlSetNumaStatus)
      BY <2>2, Sizes1 DEF Sized, SizeClaim, Refused, AssertedSize
    <3> QED
      BY <3>1, <3>2, PlainDecoder DEF decode_set_numa_status
  <2> QED
    BY <2>1, <2>2
<1>39. P("attach_gpus_to_fd")
  <2>1. f["attach_gpus_to_fd"] = decode_attach_gpus(c.size)
    BY DEF decode_nvidia_ioctl
  <2>2. ASSUME "attach_gpus_to_fd" = c.cmd PROVE Decoder(decode_attach_gpus(c.size), c)
    <3>1. NoClaim(c)
      BY <2>2, Unclaimed DEF AssertedSize
    <3> QED
      BY <3>1, AttachDecoder
  <2> QED
    BY <2>1, <2>2
<1>40. P("export_to_dmabuf_fd")
  <2>1. f["export_to_dmabuf_fd"] = decode_export_to_dmabuf(c.size)
    BY DEF decode_nvidia_ioctl
  <2>2. ASSUME "export_to_dmabuf_fd" = c.cmd PROVE Decoder(decode_export_to_dmabuf(c.size), c)
    <3>1. NvIoctlExportToDmaBufFdPrefix \in Type
      BY EscapeTypes
    <3>2. SizeClaim(c, NvIoctlExportToDmaBufFdPrefix)
      BY <2>2, Sizes1 DEF Sized, SizeClaim, Refused, AssertedSize
    <3> QED
      BY <3>1, <3>2, PlainDecoder DEF decode_export_to_dmabuf
  <2> QED
    BY <2>1, <2>2
<1>41. P("card_info")
  <2>1. f["card_info"] = decode_card_info(c.size)
    BY DEF decode_nvidia_ioctl
  <2>2. ASSUME "card_info" = c.cmd PROVE Decoder(decode_card_info(c.size), c)
    <3>1. SelfClaim(c, 72)
      BY <2>2 DEF SelfClaim, Refused, AssertedSize
    <3> QED
      BY <3>1, CardsDecoder
  <2> QED
    BY <2>1, <2>2
<1>42. P("unknown")
  <2>1. f["unknown"] = decode_unknown(c.size)
    BY DEF decode_nvidia_ioctl
  <2>2. ASSUME "unknown" = c.cmd PROVE Decoder(decode_unknown(c.size), c)
    <3>1. NoClaim(c)
      BY <2>2, Unclaimed DEF AssertedSize
    <3> QED
      BY <3>1, UnknownDecoder
  <2> QED
    BY <2>1, <2>2
<1> HIDE DEF P
<1>43. \A k \in {"ioctl_xfer_cmd", "rm_control", "rm_alloc_memory",
           "rm_alloc_object", "rm_alloc", "rm_free", "rm_map_memory",
           "rm_unmap_memory", "rm_i2c_access"} : P(k)
  BY <1>1, <1>2, <1>3, <1>4, <1>5, <1>6, <1>7, <1>8, <1>9
<1>44. \A k \in {"rm_idle_channels", "rm_vid_heap_control", "rm_access_registry",
           "rm_get_event_data", "rm_alloc_context_dma2",
           "rm_map_memory_dma", "rm_unmap_memory_dma",
           "rm_bind_context_dma", "rm_dup_object"} : P(k)
  BY <1>10, <1>11, <1>12, <1>13, <1>14, <1>15, <1>16, <1>17, <1>18
<1>45. \A k \in {"rm_update_device_mapping_info", "rm_share",
           "rm_add_vblank_callback", "rm_config_get", "rm_config_set",
           "rm_config_get_ex", "rm_config_set_ex",
           "rm_export_object_to_fd", "rm_import_object_from_fd"} : P(k)
  BY <1>19, <1>20, <1>21, <1>22, <1>23, <1>24, <1>25, <1>26, <1>27
<1>46. \A k \in {"rm_lockless_diagnostic", "register_fd", "alloc_os_event",
           "free_os_event", "status_code", "check_version_str",
           "query_device_intr", "sys_params", "wait_open_complete"} : P(k)
  BY <1>28, <1>29, <1>30, <1>31, <1>32, <1>33, <1>34, <1>35, <1>36
<1>47. \A k \in {"numa_info", "set_numa_status", "attach_gpus_to_fd",
           "export_to_dmabuf_fd", "card_info", "unknown"} : P(k)
  BY <1>37, <1>38, <1>39, <1>40, <1>41, <1>42
<1>48. DOMAIN decode_nvidia_ioctl(0, "full") =
        {"ioctl_xfer_cmd", "rm_control", "rm_alloc_memory",
           "rm_alloc_object", "rm_alloc", "rm_free", "rm_map_memory",
           "rm_unmap_memory", "rm_i2c_access"}
          \cup {"rm_idle_channels", "rm_vid_heap_control", "rm_access_registry",
           "rm_get_event_data", "rm_alloc_context_dma2",
           "rm_map_memory_dma", "rm_unmap_memory_dma",
           "rm_bind_context_dma", "rm_dup_object"}
          \cup {"rm_update_device_mapping_info", "rm_share",
           "rm_add_vblank_callback", "rm_config_get", "rm_config_set",
           "rm_config_get_ex", "rm_config_set_ex",
           "rm_export_object_to_fd", "rm_import_object_from_fd"}
          \cup {"rm_lockless_diagnostic", "register_fd", "alloc_os_event",
           "free_os_event", "status_code", "check_version_str",
           "query_device_intr", "sys_params", "wait_open_complete"}
          \cup {"numa_info", "set_numa_status", "attach_gpus_to_fd",
           "export_to_dmabuf_fd", "card_info", "unknown"}
  BY DEF decode_nvidia_ioctl
<1>49. P(c.cmd)
  BY <1>43, <1>44, <1>45, <1>46, <1>47, <1>48
<1> QED
  BY <1>49 DEF P

-----------------------------------------------------------------------------
(* The parameters of an RM control.                                         *)

\* The argument has been copied, the parameters have not.
ArgOnly(g) == "arg" \in g /\ "params" \notin g

\* Two statuses and nothing else.
LEMMA InnerEnd ==
    ASSUME NEW t, NEW s, NEW c, NEW g, NEW arr, NEW w \in Nat,
           t = "ok" => "params" \in g, TrueStatus(s, c, g), s # "arg_unreadable"
    PROVE  Body(<<PutInner(t), Put(s)>>, c, g, arr, w)
<1> DEFINE q == <<>>
           r == <<PutInner(t), Put(s)>>
<1>1. Sides(q, g, arr, c) /\ Len(q) = 0
  BY Sides0, Script0
<1>2. q \o r = r
  <2>1. r \in Seq({PutInner(t), Put(s)})
    OBVIOUS
  <2> HIDE DEF r
  <2> QED
    BY <2>1, ConcatEmptySeq
<1>3. s = "params_unreadable" => q = <<>>
  OBVIOUS
<1> HIDE DEF q
<1>4. Len(q) + (IF Len(q) > 0 /\ q[1].op = "indirect" THEN q[1].copies - 1 ELSE 0) <= w
  BY <1>1
<1>5. Body(q \o r, c, g, arr, w)
  <2>1. w \in Int
    OBVIOUS
  <2> QED
    BY <1>1, <1>3, <1>4, <2>1, BodyInnerOf, Zenon
<1> HIDE DEF r
<1>6. Body(r, c, g, arr, w)
  BY <1>2, <1>5
<1> QED
  BY <1>6 DEF r

\* Bytes of the parameters are shown, then come the statuses.
LEMMA ParamBytes ==
    ASSUME NEW len \in Nat, NEW size \in Nat, NEW bad, NEW t, NEW s,
           NEW c, NEW g, NEW w \in Int, len <= size, ArgOnly(g), w >= 2,
           TrueStatus(s, c, g \cup {"params"}), s \in {"ok", "inner_partial"}
    PROVE  /\ Reading(<<read_bytes("params", len, size, bad), ShowWords(len, size),
                        PutInner(t), Put(s)>>, c, g, w)
           /\ <<read_bytes("params", len, size, bad), ShowWords(len, size),
                        PutInner(t), Put(s)>>[1].bad = bad
<1> DEFINE x == read_bytes("params", len, size, bad)
           y == ShowWords(len, size)
           more == <<y>>
           q == <<y, PutInner(t), Put(s)>>
           h == g \cup {"params"}
<1>1. InsideRoom(x, c)
  BY DEF read_bytes, ReadStep, InsideRoom
<1>2. x.from = "params" /\ x.lens = {}
  BY DEF read_bytes, ReadStep
<1>3. x.bad = bad
  BY DEF read_bytes, ReadStep
<1>4. Must(x)
  BY DEF read_bytes, ReadStep, Must
<1> HIDE DEF x
<1>5. Side(y, h, c) /\ y.op = "show"
  BY Shows
<1> HIDE DEF y
<1>6. Sides(more, h, {}, c)
  <2> HIDE DEF h
  <2> QED
    BY <1>5, Sides1
<1>7. Len(more) = 1 /\ more[1] = y
  BY Script1
<1>8. q = more \o <<PutInner(t), Put(s)>>
  BY Cons3
<1>9. "params" \in h /\ TrueStatus(s, c, h)
  OBVIOUS
<1> HIDE DEF more, h
<1> DEFINE v == w - 1
<1>10. v \in Int /\ v >= 1
  OBVIOUS
<1> HIDE DEF v
<1>11. Body(more \o <<PutInner(t), Put(s)>>, c, h, {}, v)
  <2>1. Len(more) + (IF Len(more) > 0 /\ more[1].op = "indirect"
                     THEN more[1].copies - 1 ELSE 0) <= v
    BY <1>5, <1>7, <1>10
  <2>2. s # "arg_unreadable" /\ (s = "params_unreadable" => more = <<>>)
    OBVIOUS
  <2> QED
    BY <1>6, <1>9, <1>10, <2>1, <2>2, BodyInnerOf
<1>12. Body(q, c, h, {}, v) /\ IsScript(q) /\ Len(q) > 0
  BY <1>8, <1>11, BodyIsScript
<1>13. <<x, y, PutInner(t), Put(s)>> = <<x>> \o q
  BY Cons4
<1> HIDE DEF q
<1>14. Rest(q, c, g \cup {x.from}, x.lens, w - 1)
  BY <1>2, <1>12 DEF Rest, h, v
<1>15. Reading(<<x>> \o q, c, g, w)
  BY <1>1, <1>2, <1>4, <1>12, <1>14, ReadThen DEF ArgOnly
<1>16. (<<x>> \o q)[1] = x
  BY <1>12, TailCons
<1>17. /\ Reading(<<x, y, PutInner(t), Put(s)>>, c, g, w)
       /\ <<x, y, PutInner(t), Put(s)>>[1].bad = bad
  BY <1>3, <1>13, <1>15, <1>16
<1> QED
  BY <1>17 DEF x, y

\* The preview of parameters.
LEMMA PreviewGood ==
    ASSUME NEW size \in Nat, NEW c, NEW g, NEW arr, NEW w \in Int, ArgOnly(g), w >= 2
    PROVE  ReadOrEnd(Preview(size), c, g, arr, w)
<1> DEFINE len == Least(size, Least(AtLeast(16), 32))
           bad == <<PutInner("unreadable"), Put("params_unreadable")>>
           q == <<read_bytes("params", len, size, bad), ShowWords(len, size),
                  PutInner("preview"), Put("inner_partial")>>
<1>1. len \in Nat /\ len <= size
  <2>1. AtLeast(16) \in Nat
    BY AtLeastIs
  <2>2. Least(AtLeast(16), 32) \in Nat
    BY <2>1, ShownLength
  <2> QED
    BY <2>2, ShownLength
<1>2. Preview(size) = q
  BY DEF Preview
<1> HIDE DEF len
<1>3. Body(bad, c, g, arr, w - 1)
  <2>1. w - 1 \in Nat
    OBVIOUS
  <2>2. TrueStatus("params_unreadable", c, g)
    BY DEF TrueStatus, ArgOnly
  <2> QED
    BY <2>1, <2>2, InnerEnd
<1> HIDE DEF bad
<1>4. TrueStatus("inner_partial", c, g \cup {"params"})
  BY DEF TrueStatus
<1>5. Reading(q, c, g, w) /\ q[1].bad = bad
  BY <1>1, <1>4, ParamBytes
<1> HIDE DEF q
<1>6. ReadOrEnd(q, c, g, arr, w)
  BY <1>3, <1>5 DEF ReadOrEnd
<1> QED
  BY <1>2, <1>6

\* The generic decoder of the legacy controls, which falls back to the preview.
LEMMA LegacyGood ==
    ASSUME NEW size \in Nat, NEW c, NEW g, NEW arr, NEW w \in Int, ArgOnly(g), w >= 3
    PROVE  ReadOrRead(decode_cmd_nv2080_legacy_generic(size), c, g, arr, w)
<1> DEFINE len == Least(size, 256)
           bad == Preview(size)
           q == <<read_bytes("params", len, size, bad), ShowWords(len, size),
                  PutInner("ok"), Put("ok")>>
<1>1. len \in Nat /\ len <= size
  BY ShownLength
<1>2. decode_cmd_nv2080_legacy_generic(size) = q
  BY DEF decode_cmd_nv2080_legacy_generic
<1> HIDE DEF len
<1>3. ReadOrEnd(bad, c, g, arr, w - 1)
  BY PreviewGood
<1> HIDE DEF bad
<1>4. TrueStatus("ok", c, g \cup {"params"})
  BY DEF TrueStatus, ArgOnly
<1>5. Reading(q, c, g, w) /\ q[1].bad = bad
  BY <1>1, <1>4, ParamBytes
<1> HIDE DEF q
<1>6. ReadOrRead(q, c, g, arr, w)
  BY <1>3, <1>5 DEF ReadOrRead
<1> QED
  BY <1>2, <1>6

\* What the table says of a control: side steps that fit its structure, with
\* two copies at most.
ControlOk(d) ==
    /\ d.need \in Nat \ {0} /\ IsScript(d.more)
    /\ \A g, c : {"arg", "params"} \subseteq g => Sides(d.more, g, d.lens, c)
    /\ Len(d.more) + (IF Len(d.more) > 0 /\ d.more[1].op = "indirect"
                      THEN d.more[1].copies - 1 ELSE 0) <= 2

\* A control with a decoder, which does so too.
LEMMA KnownControlGood ==
    ASSUME NEW d, NEW size \in Nat, NEW c, NEW g, NEW arr, NEW w \in Int,
           ControlOk(d), ArgOnly(g), w >= 3
    PROVE  Good(KnownControl(d, size), c, g, arr, w)
<1>1. CASE size < d.need
  <2>1. TrueStatus("ok", c, g)
    BY DEF TrueStatus, ArgOnly
  <2>2. Body(<<PutInner("size_mismatch"), Put("ok")>>, c, g, arr, w)
    BY <2>1, InnerEnd
  <2> QED
    BY <1>1, <2>2 DEF KnownControl, Good, Rest
<1>2. CASE ~(size < d.need)
  <2> DEFINE bad == Preview(size)
             x == ReadStep("params", 0, d.need, size, d.lens, TRUE, bad)
             more == d.more
             e == <<PutInner("ok"), Put("ok")>>
             q == more \o e
             h == g \cup {"params"}
             v == w - 1
  <2>1. ReadOrEnd(bad, c, g, arr, w - 1)
    BY PreviewGood
  <2>2. IsScript(<<x>>) /\ IsScript(more) /\ IsScript(e)
    BY Script1, Script2 DEF ControlOk
  <2>3. KnownControl(d, size) = <<x>> \o q
    <3>1. KnownControl(d, size) = <<x>> \o more \o e
      BY <1>2 DEF KnownControl
    <3> HIDE DEF x, more, e
    <3> QED
      BY <3>1, <2>2, ConsAssoc
  <2> HIDE DEF bad
  <2>4. d.need \in Nat /\ d.need <= size
    BY <1>2 DEF ControlOk
  <2>5. InsideRoom(x, c)
    BY <2>4 DEF ReadStep, InsideRoom
  <2>6. x.from = "params" /\ x.lens = d.lens
    BY DEF ReadStep
  <2>7. x.bad = bad
    BY DEF ReadStep
  <2>8. Must(x)
    BY DEF ReadStep, Must
  <2> HIDE DEF x
  <2>9. {"arg", "params"} \subseteq h /\ "params" \in h /\ TrueStatus("ok", c, h)
    BY DEF ArgOnly, TrueStatus
  <2> HIDE DEF h
  <2>10. Sides(more, h, d.lens, c)
    BY <2>9 DEF ControlOk
  <2>11. v \in Int /\ v >= 2
    OBVIOUS
  <2> HIDE DEF v
  <2>12. Len(more) + (IF Len(more) > 0 /\ more[1].op = "indirect"
                      THEN more[1].copies - 1 ELSE 0) <= v
    <3> DEFINE n == Len(more) + (IF Len(more) > 0 /\ more[1].op = "indirect"
                                 THEN more[1].copies - 1 ELSE 0)
    <3>1. n <= 2
      BY DEF ControlOk
    <3>2. n \in Int
      <4>1. Len(more) \in Nat
        BY <2>2, Script0, ScriptNonempty
      <4>2. (Len(more) > 0 /\ more[1].op = "indirect") => more[1].copies \in {1, 2}
        <5>1. ASSUME Len(more) > 0 PROVE Side(more[1], h, c)
          <6>1. 1 \in 1..Len(more)
            BY <4>1, <5>1
          <6> QED
            BY <2>10, <6>1 DEF Sides
        <5> QED
          BY <5>1 DEF Side, TryRead, Showing, Listing, Following, Branching,
                      NextRead, InsideRoom
      <4> HIDE DEF more
      <4> QED
        BY <4>1, <4>2
    <3> HIDE DEF n
    <3>3. n <= v
      BY <3>1, <3>2, <2>11
    <3> QED
      BY <3>3 DEF n
  <2> HIDE DEF more
  <2>13. Body(q, c, h, d.lens, v)
    <3>1. "ok" # "arg_unreadable" /\ ("ok" = "params_unreadable" => more = <<>>)
      OBVIOUS
    <3> QED
      BY <2>9, <2>10, <2>11, <2>12, <3>1, BodyInnerOf
  <2>14. IsScript(q) /\ Len(q) > 0
    BY <2>13, BodyIsScript
  <2> HIDE DEF q
  <2>15. Rest(q, c, g \cup {x.from}, x.lens, w - 1)
    BY <2>6, <2>13 DEF Rest, h, v
  <2>16. Reading(<<x>> \o q, c, g, w)
    BY <2>5, <2>6, <2>8, <2>14, <2>15, ReadThen DEF ArgOnly
  <2>17. ReadOrRead(<<x>> \o q, c, g, arr, w)
    BY <2>1, <2>7, <2>14, <2>16, ReadThenRead
  <2> QED
    BY <2>3, <2>17 DEF Good
<1> QED
  BY <1>1, <1>2

\* Controls without side steps, with one, with two lists, and with arrays
\* behind pointers.
LEMMA Control0 ==
    ASSUME NEW t \in Type
    PROVE  ControlOk(Control(t, <<>>))
<1> DEFINE d == Control(t, <<>>)
<1>1. d.need = t.size /\ d.more = <<>> /\ d.lens = t.lens
  BY DEF Control
<1>2. t.size \in Nat \ {0}
  BY DEF Type
<1> HIDE DEF d
<1>3. ControlOk(d)
  BY <1>1, <1>2, Script0, Sides0 DEF ControlOk
<1> QED
  BY <1>3 DEF d

\* Controls with one side step and with two.
LEMMA Control1 ==
    ASSUME NEW t \in Type, NEW x,
           \A g, c : {"arg", "params"} \subseteq g => Side(x, g, c),
           x.op = "list" => x.cap \in t.lens,
           x.op = "indirect" => x.copies \in {1, 2}
    PROVE  ControlOk(Control(t, <<x>>))
<1> DEFINE more == <<x>>
           d == Control(t, more)
<1>1. \A g, c : {"arg", "params"} \subseteq g => Sides(more, g, t.lens, c)
  BY Sides1
<1>2. IsScript(more) /\ Len(more) = 1 /\ more[1] = x
  BY Script1
<1> HIDE DEF more
<1>3. d.need = t.size /\ d.more = more /\ d.lens = t.lens
  BY DEF Control
<1>4. t.size \in Nat \ {0}
  BY DEF Type
<1> HIDE DEF d
<1>5. Len(d.more) + (IF Len(d.more) > 0 /\ d.more[1].op = "indirect"
                     THEN d.more[1].copies - 1 ELSE 0) <= 2
  <2>1. Len(d.more) = 1 /\ d.more[1] = x
    BY <1>2, <1>3
  <2>2. CASE x.op = "indirect"
    <3>1. x.copies \in {1, 2}
      BY <2>2
    <3> QED
      BY <2>1, <2>2, <3>1
  <2>3. CASE x.op # "indirect"
    BY <2>1, <2>3
  <2> QED
    BY <2>2, <2>3
<1>6. ControlOk(d)
  BY <1>1, <1>2, <1>3, <1>4, <1>5 DEF ControlOk
<1> QED
  BY <1>6 DEF d, more

LEMMA Control2 ==
    ASSUME NEW t \in Type, NEW x, NEW y, \A g, c : Side(x, g, c) /\ Side(y, g, c),
           x.op = "list", y.op = "list", x.cap \in t.lens, y.cap \in t.lens
    PROVE  ControlOk(Control(t, <<x, y>>))
<1> DEFINE more == <<x, y>>
           d == Control(t, more)
<1>1. \A g, c : {"arg", "params"} \subseteq g => Sides(more, g, t.lens, c)
  BY Sides2
<1>2. IsScript(more) /\ Len(more) = 2 /\ more[1] = x
  BY Script2
<1> HIDE DEF more
<1>3. d.need = t.size /\ d.more = more /\ d.lens = t.lens
  BY DEF Control
<1>4. t.size \in Nat \ {0}
  BY DEF Type
<1> HIDE DEF d
<1>5. Len(d.more) + (IF Len(d.more) > 0 /\ d.more[1].op = "indirect"
                     THEN d.more[1].copies - 1 ELSE 0) <= 2
  <2>1. Len(d.more) = 2 /\ ~(d.more[1].op = "indirect")
    BY <1>2, <1>3
  <2> QED
    BY <2>1
<1>6. ControlOk(d)
  BY <1>1, <1>2, <1>3, <1>4, <1>5 DEF ControlOk
<1> QED
  BY <1>6 DEF d, more

\* Controls with one list.
LEMMA ListControl ==
    ASSUME NEW t \in Type, NEW cap \in Nat \ {0}, {cap} \subseteq t.lens
    PROVE  ControlOk(Control(t, <<List(cap)>>))
<1>1. \A g, c : Side(List(cap), g, c) /\ List(cap).op = "list" /\ List(cap).cap = cap
  BY Lists
<1> QED
  BY <1>1, Control1

LEMMA BareListControl ==
    ASSUME NEW t \in Type, NEW cap \in Nat \ {0}, {cap} \subseteq t.lens
    PROVE  ControlOk(Control(t, <<BareList(cap)>>))
<1>1. \A g, c : Side(BareList(cap), g, c) /\ BareList(cap).op = "list" /\ BareList(cap).cap = cap
  BY Lists
<1> QED
  BY <1>1, Control1

LEMMA FilteredListControl ==
    ASSUME NEW t \in Type, NEW cap \in Nat \ {0}, {cap} \subseteq t.lens
    PROVE  ControlOk(Control(t, <<FilteredList(cap)>>))
<1>1. \A g, c : Side(FilteredList(cap), g, c) /\ FilteredList(cap).op = "list" /\ FilteredList(cap).cap = cap
  BY Lists
<1> QED
  BY <1>1, Control1

\* ... of which a sample is shown.
LEMMA SampledControl ==
    ASSUME NEW t \in Type, NEW cap \in Nat \ {0}, {cap} \subseteq t.lens
    PROVE  ControlOk(Control(t, <<SampledList(cap, MaxCtrlListItems)>>))
<1>1. MaxCtrlListItems \in Nat
  BY DEF MaxCtrlListItems
<1>2. \A g, c : /\ Side(SampledList(cap, MaxCtrlListItems), g, c)
             /\ SampledList(cap, MaxCtrlListItems).op = "list"
             /\ SampledList(cap, MaxCtrlListItems).cap = cap
  BY <1>1, SampledLists
<1> QED
  BY <1>2, Control1

LEMMA PairControl ==
    ASSUME NEW t \in Type, NEW cap \in Nat \ {0}, {cap} \subseteq t.lens
    PROVE  ControlOk(Control(t, <<PairOfLists(cap)>>))
<1>1. \A g, c : Side(PairOfLists(cap), g, c) /\ PairOfLists(cap).op = "list"
               /\ PairOfLists(cap).cap = cap
  BY Lists
<1> QED
  BY <1>1, Control1

LEMMA ListBareListControl ==
    ASSUME NEW t \in Type, NEW cap \in Nat \ {0}, NEW cap2 \in Nat \ {0},
           {cap, cap2} \subseteq t.lens
    PROVE  ControlOk(Control(t, <<List(cap), BareList(cap2)>>))
<1>1. \A g, c : Side(List(cap), g, c) /\ List(cap).op = "list" /\ List(cap).cap = cap
  BY Lists
<1>2. \A g, c : Side(BareList(cap2), g, c) /\ BareList(cap2).op = "list" /\ BareList(cap2).cap = cap2
  BY Lists
<1> QED
  BY <1>1, <1>2, Control2

LEMMA FilteredListFilteredListControl ==
    ASSUME NEW t \in Type, NEW cap \in Nat \ {0}, NEW cap2 \in Nat \ {0},
           {cap, cap2} \subseteq t.lens
    PROVE  ControlOk(Control(t, <<FilteredList(cap), FilteredList(cap2)>>))
<1>1. \A g, c : Side(FilteredList(cap), g, c) /\ FilteredList(cap).op = "list" /\ FilteredList(cap).cap = cap
  BY Lists
<1>2. \A g, c : Side(FilteredList(cap2), g, c) /\ FilteredList(cap2).op = "list" /\ FilteredList(cap2).cap = cap2
  BY Lists
<1> QED
  BY <1>1, <1>2, Control2

\* Controls with another side step.
LEMMA OtherControl ==
    ASSUME NEW t \in Type
    PROVE  /\ ControlOk(Control(t, <<FixedText(128)>>))
           /\ ControlOk(Control(t, <<Indirect(U32, 2)>>))
           /\ ControlOk(Control(t, <<Indirect(NvxxxxCtrlXxxInfo, 1)>>))
           /\ ControlOk(Control(t, <<LastOf(U64)>>))
<1>1. ControlOk(Control(t, <<FixedText(128)>>))
  <2>1. \A g, c : Side(FixedText(128), g, c) /\ FixedText(128).op = "oneof"
    BY OtherSides
  <2> QED
    BY <2>1, Control1
<1>2. ControlOk(Control(t, <<Indirect(U32, 2)>>))
  <2>1. \A g, c : /\ Side(Indirect(U32, 2), g, c) /\ Indirect(U32, 2).op = "indirect"
               /\ Indirect(U32, 2).copies = 2
    BY OtherSides
  <2> QED
    BY <2>1, Control1
<1>3. ControlOk(Control(t, <<Indirect(NvxxxxCtrlXxxInfo, 1)>>))
  <2>1. \A g, c : /\ Side(Indirect(NvxxxxCtrlXxxInfo, 1), g, c)
               /\ Indirect(NvxxxxCtrlXxxInfo, 1).op = "indirect"
               /\ Indirect(NvxxxxCtrlXxxInfo, 1).copies = 1
    BY OtherSides
  <2> QED
    BY <2>1, Control1
<1>4. ControlOk(Control(t, <<LastOf(U64)>>))
  <2>1. \A g, c : ({"arg", "params"} \subseteq g => Side(LastOf(U64), g, c))
               /\ LastOf(U64).op = "last"
    BY OtherSides
  <2> QED
    BY <2>1, Control1
<1> QED
  BY <1>1, <1>2, <1>3, <1>4

\* Every control of the table.
LEMMA ControlsOk ==
    ASSUME NEW cmd \in DOMAIN decode_known_rm_control
    PROVE  ControlOk(decode_known_rm_control[cmd])
<1> DEFINE P(k) == ControlOk(decode_known_rm_control[k])
<1>1. P("client_get_addr_space_type")
  <2>1. ControlOk(decode_cmd_client_get_addr_space_type)
    BY ControlTypes, Control0 DEF decode_cmd_client_get_addr_space_type
  <2> QED
    BY <2>1 DEF decode_known_rm_control
<1>2. P("os_unix_get_control_file_descriptor")
  <2>1. ControlOk(decode_cmd_os_unix_get_control_file_descriptor)
    BY ControlTypes, Control0 DEF decode_cmd_os_unix_get_control_file_descriptor
  <2> QED
    BY <2>1 DEF decode_known_rm_control
<1>3. P("system_get_build_version")
  <2>1. ControlOk(decode_cmd_system_get_build_version)
    BY ControlTypes, Control0 DEF decode_cmd_system_get_build_version
  <2> QED
    BY <2>1 DEF decode_known_rm_control
<1>4. P("client_set_inherited_share_policy")
  <2>1. ControlOk(decode_cmd_client_set_inherited_share_policy)
    BY ControlTypes, Control0 DEF decode_cmd_client_set_inherited_share_policy
  <2> QED
    BY <2>1 DEF decode_known_rm_control
<1>5. P("system_get_features")
  <2>1. ControlOk(decode_cmd_system_get_features)
    BY ControlTypes, Control0 DEF decode_cmd_system_get_features
  <2> QED
    BY <2>1 DEF decode_known_rm_control
<1>6. P("system_get_fabric_status")
  <2>1. ControlOk(decode_cmd_system_get_fabric_status)
    BY ControlTypes, Control0 DEF decode_cmd_system_get_fabric_status
  <2> QED
    BY <2>1 DEF decode_known_rm_control
<1>7. P("system_get_p2p_caps_matrix")
  <2>1. Nv0000CtrlSystemGetP2PCapsMatrixParams \in Type /\ {8} \subseteq Nv0000CtrlSystemGetP2PCapsMatrixParams.lens
    BY ControlTypes
  <2>2. ControlOk(decode_cmd_system_get_p2p_caps_matrix)
    BY <2>1, PairControl DEF decode_cmd_system_get_p2p_caps_matrix
  <2> QED
    BY <2>2 DEF decode_known_rm_control
<1>8. P("gpu_get_memop_enable")
  <2>1. ControlOk(decode_cmd_gpu_get_memop_enable)
    BY ControlTypes, Control0 DEF decode_cmd_gpu_get_memop_enable
  <2> QED
    BY <2>1 DEF decode_known_rm_control
<1>9. P("gpu_get_attached_ids")
  <2>1. Nv0000CtrlGpuGetAttachedIdsParams \in Type /\ {32} \subseteq Nv0000CtrlGpuGetAttachedIdsParams.lens
    BY ControlTypes
  <2>2. ControlOk(decode_cmd_gpu_get_attached_ids)
    BY <2>1, FilteredListControl DEF decode_cmd_gpu_get_attached_ids
  <2> QED
    BY <2>2 DEF decode_known_rm_control
<1>10. P("gpu_get_id_info")
  <2>1. ControlOk(decode_cmd_gpu_get_id_info)
    BY ControlTypes, OtherControl DEF decode_cmd_gpu_get_id_info
  <2> QED
    BY <2>1 DEF decode_known_rm_control
<1>11. P("gpu_get_id_info_v2")
  <2>1. ControlOk(decode_cmd_gpu_get_id_info_v2)
    BY ControlTypes, Control0 DEF decode_cmd_gpu_get_id_info_v2
  <2> QED
    BY <2>1 DEF decode_known_rm_control
<1>12. P("gpu_get_probed_ids")
  <2>1. Nv0000CtrlGpuGetProbedIdsParams \in Type /\ {32} \subseteq Nv0000CtrlGpuGetProbedIdsParams.lens
    BY ControlTypes
  <2>2. ControlOk(decode_cmd_gpu_get_probed_ids)
    BY <2>1, FilteredListFilteredListControl DEF decode_cmd_gpu_get_probed_ids
  <2> QED
    BY <2>2 DEF decode_known_rm_control
<1>13. P("gpu_attach_ids")
  <2>1. Nv0000CtrlGpuAttachIdsParams \in Type /\ {32} \subseteq Nv0000CtrlGpuAttachIdsParams.lens
    BY ControlTypes
  <2>2. ControlOk(decode_cmd_gpu_attach_ids)
    BY <2>1, FilteredListControl DEF decode_cmd_gpu_attach_ids
  <2> QED
    BY <2>2 DEF decode_known_rm_control
<1>14. P("gpu_get_active_device_ids")
  <2>1. Nv0000CtrlGpuGetActiveDeviceIdsParams \in Type /\ {256} \subseteq Nv0000CtrlGpuGetActiveDeviceIdsParams.lens
    BY ControlTypes
  <2>2. ControlOk(decode_cmd_gpu_get_active_device_ids)
    BY <2>1, ListControl DEF decode_cmd_gpu_get_active_device_ids
  <2> QED
    BY <2>2 DEF decode_known_rm_control
<1>15. P("sync_gpu_boost_group_info")
  <2>1. Nv0000SyncGpuBoostGroupInfoParams \in Type /\ {16, 32} \subseteq Nv0000SyncGpuBoostGroupInfoParams.lens
    BY ControlTypes
  <2>2. ControlOk(decode_cmd_sync_gpu_boost_group_info)
    BY <2>1, ListBareListControl DEF decode_cmd_sync_gpu_boost_group_info
  <2> QED
    BY <2>2 DEF decode_known_rm_control
<1>16. P("host_get_caps_v2")
  <2>1. ControlOk(decode_cmd_host_get_caps_v2)
    BY ControlTypes, Control0 DEF decode_cmd_host_get_caps_v2
  <2> QED
    BY <2>1 DEF decode_known_rm_control
<1>17. P("gpu_get_num_subdevices")
  <2>1. ControlOk(decode_cmd_gpu_get_num_subdevices)
    BY ControlTypes, Control0 DEF decode_cmd_gpu_get_num_subdevices
  <2> QED
    BY <2>1 DEF decode_known_rm_control
<1>18. P("gpu_get_classlist_v2")
  <2>1. Nv0080CtrlGpuGetClasslistV2Params \in Type /\ {200} \subseteq Nv0080CtrlGpuGetClasslistV2Params.lens
    BY ControlTypes
  <2>2. ControlOk(decode_cmd_gpu_get_classlist_v2)
    BY <2>1, ListControl DEF decode_cmd_gpu_get_classlist_v2
  <2> QED
    BY <2>2 DEF decode_known_rm_control
<1>19. P("gpu_get_virtualization_mode")
  <2>1. ControlOk(decode_cmd_gpu_get_virtualization_mode)
    BY ControlTypes, Control0 DEF decode_cmd_gpu_get_virtualization_mode
  <2> QED
    BY <2>1 DEF decode_known_rm_control
<1>20. P("fifo_get_channellist")
  <2>1. ControlOk(decode_cmd_fifo_get_channellist)
    BY ControlTypes, OtherControl DEF decode_cmd_fifo_get_channellist
  <2> QED
    BY <2>1 DEF decode_known_rm_control
<1>21. P("perf_cuda_limit_set_control")
  <2>1. ControlOk(decode_cmd_perf_cuda_limit_set_control)
    BY ControlTypes, Control0 DEF decode_cmd_perf_cuda_limit_set_control
  <2> QED
    BY <2>1 DEF decode_known_rm_control
<1>22. P("fb_get_caps_v2")
  <2>1. ControlOk(decode_cmd_fb_get_caps_v2)
    BY ControlTypes, Control0 DEF decode_cmd_fb_get_caps_v2
  <2> QED
    BY <2>1 DEF decode_known_rm_control
<1>23. P("class_engine_id")
  <2>1. ControlOk(decode_cmd_class_engine_id)
    BY ControlTypes, Control0 DEF decode_cmd_class_engine_id
  <2> QED
    BY <2>1 DEF decode_known_rm_control
<1>24. P("gpfifo_get_work_submit_token")
  <2>1. ControlOk(decode_cmd_gpfifo_get_work_submit_token)
    BY ControlTypes, Control0 DEF decode_cmd_gpfifo_get_work_submit_token
  <2> QED
    BY <2>1 DEF decode_known_rm_control
<1>25. P("mc_get_arch_info")
  <2>1. ControlOk(decode_cmd_mc_get_arch_info)
    BY ControlTypes, Control0 DEF decode_cmd_mc_get_arch_info
  <2> QED
    BY <2>1 DEF decode_known_rm_control
<1>26. P("gpu_get_info_v2")
  <2>1. Nv2080CtrlGpuGetInfoV2Params \in Type /\ {70} \subseteq Nv2080CtrlGpuGetInfoV2Params.lens
    BY ControlTypes
  <2>2. ControlOk(decode_cmd_gpu_get_info_v2)
    BY <2>1, ListControl DEF decode_cmd_gpu_get_info_v2
  <2> QED
    BY <2>2 DEF decode_known_rm_control
<1>27. P("gpu_get_name_string")
  <2>1. ControlOk(decode_cmd_gpu_get_name_string)
    BY ControlTypes, Control0 DEF decode_cmd_gpu_get_name_string
  <2> QED
    BY <2>1 DEF decode_known_rm_control
<1>28. P("gpu_get_short_name_string")
  <2>1. ControlOk(decode_cmd_gpu_get_short_name_string)
    BY ControlTypes, Control0 DEF decode_cmd_gpu_get_short_name_string
  <2> QED
    BY <2>1 DEF decode_known_rm_control
<1>29. P("gpu_get_simulation_info")
  <2>1. ControlOk(decode_cmd_gpu_get_simulation_info)
    BY ControlTypes, Control0 DEF decode_cmd_gpu_get_simulation_info
  <2> QED
    BY <2>1 DEF decode_known_rm_control
<1>30. P("gpu_get_engines_v2")
  <2>1. Nv2080CtrlGpuGetEnginesV2Params \in Type /\ {84} \subseteq Nv2080CtrlGpuGetEnginesV2Params.lens
    BY ControlTypes
  <2>2. ControlOk(decode_cmd_gpu_get_engines_v2)
    BY <2>1, ListControl DEF decode_cmd_gpu_get_engines_v2
  <2> QED
    BY <2>2 DEF decode_known_rm_control
<1>31. P("gpu_query_ecc_status")
  <2>1. Nv2080CtrlGpuQueryEccStatusParams \in Type /\ {41} \subseteq Nv2080CtrlGpuQueryEccStatusParams.lens
    BY ControlTypes
  <2>2. ControlOk(decode_cmd_gpu_query_ecc_status)
    BY <2>1, FilteredListControl DEF decode_cmd_gpu_query_ecc_status
  <2> QED
    BY <2>2 DEF decode_known_rm_control
<1>32. P("gpu_query_compute_mode_rules")
  <2>1. ControlOk(decode_cmd_gpu_query_compute_mode_rules)
    BY ControlTypes, Control0 DEF decode_cmd_gpu_query_compute_mode_rules
  <2> QED
    BY <2>1 DEF decode_known_rm_control
<1>33. P("gpu_get_gid_info")
  <2>1. Nv2080CtrlGpuGetGidInfoParams \in Type /\ {256} \subseteq Nv2080CtrlGpuGetGidInfoParams.lens
    BY ControlTypes
  <2>2. ControlOk(decode_cmd_gpu_get_gid_info)
    BY <2>1, BareListControl DEF decode_cmd_gpu_get_gid_info
  <2> QED
    BY <2>2 DEF decode_known_rm_control
<1>34. P("fb_get_info_v2")
  <2>1. Nv2080CtrlFbGetInfoV2Params \in Type /\ {128} \subseteq Nv2080CtrlFbGetInfoV2Params.lens
    BY ControlTypes
  <2>2. ControlOk(decode_cmd_fb_get_info_v2)
    BY <2>1, ListControl DEF decode_cmd_fb_get_info_v2
  <2> QED
    BY <2>2 DEF decode_known_rm_control
<1>35. P("bus_get_pci_info")
  <2>1. ControlOk(decode_cmd_bus_get_pci_info)
    BY ControlTypes, Control0 DEF decode_cmd_bus_get_pci_info
  <2> QED
    BY <2>1 DEF decode_known_rm_control
<1>36. P("bus_get_info_v2")
  <2>1. Nv2080CtrlBusGetInfoV2Params \in Type /\ {52} \subseteq Nv2080CtrlBusGetInfoV2Params.lens
    BY ControlTypes
  <2>2. ControlOk(decode_cmd_bus_get_info_v2)
    BY <2>1, ListControl DEF decode_cmd_bus_get_info_v2
  <2> QED
    BY <2>2 DEF decode_known_rm_control
<1>37. P("bus_get_pci_bar_info")
  <2>1. Nv2080CtrlBusGetPciBarInfoParams \in Type /\ {8} \subseteq Nv2080CtrlBusGetPciBarInfoParams.lens
    BY ControlTypes
  <2>2. ControlOk(decode_cmd_bus_get_pci_bar_info)
    BY <2>1, ListControl DEF decode_cmd_bus_get_pci_bar_info
  <2> QED
    BY <2>2 DEF decode_known_rm_control
<1>38. P("bus_get_pcie_supported_gpu_atomics")
  <2>1. ControlOk(decode_cmd_bus_get_pcie_supported_gpu_atomics)
    BY ControlTypes, Control0 DEF decode_cmd_bus_get_pcie_supported_gpu_atomics
  <2> QED
    BY <2>1 DEF decode_known_rm_control
<1>39. P("bus_get_c2c_info")
  <2>1. ControlOk(decode_cmd_bus_get_c2c_info)
    BY ControlTypes, Control0 DEF decode_cmd_bus_get_c2c_info
  <2> QED
    BY <2>1 DEF decode_known_rm_control
<1>40. P("gr_get_info")
  <2>1. ControlOk(decode_cmd_gr_get_info)
    BY ControlTypes, OtherControl DEF decode_cmd_gr_get_info
  <2> QED
    BY <2>1 DEF decode_known_rm_control
<1>41. P("gr_get_global_sm_order")
  <2>1. Nv2080CtrlGrGetGlobalSmOrderParams \in Type /\ {512} \subseteq Nv2080CtrlGrGetGlobalSmOrderParams.lens
    BY ControlTypes
  <2>2. ControlOk(decode_cmd_gr_get_global_sm_order)
    BY <2>1, SampledControl DEF decode_cmd_gr_get_global_sm_order
  <2> QED
    BY <2>2 DEF decode_known_rm_control
<1>42. P("gr_get_caps_v2")
  <2>1. ControlOk(decode_cmd_gr_get_caps_v2)
    BY ControlTypes, Control0 DEF decode_cmd_gr_get_caps_v2
  <2> QED
    BY <2>1 DEF decode_known_rm_control
<1>43. P("gr_get_gpc_mask")
  <2>1. ControlOk(decode_cmd_gr_get_gpc_mask)
    BY ControlTypes, Control0 DEF decode_cmd_gr_get_gpc_mask
  <2> QED
    BY <2>1 DEF decode_known_rm_control
<1>44. P("gr_get_tpc_mask")
  <2>1. ControlOk(decode_cmd_gr_get_tpc_mask)
    BY ControlTypes, Control0 DEF decode_cmd_gr_get_tpc_mask
  <2> QED
    BY <2>1 DEF decode_known_rm_control
<1>45. P("gr_set_ctxsw_preemption_mode")
  <2>1. ControlOk(decode_cmd_gr_set_ctxsw_preemption_mode)
    BY ControlTypes, Control0 DEF decode_cmd_gr_set_ctxsw_preemption_mode
  <2> QED
    BY <2>1 DEF decode_known_rm_control
<1>46. P("gr_get_ctx_buffer_size")
  <2>1. ControlOk(decode_cmd_gr_get_ctx_buffer_size)
    BY ControlTypes, Control0 DEF decode_cmd_gr_get_ctx_buffer_size
  <2> QED
    BY <2>1 DEF decode_known_rm_control
<1>47. P("ce_get_all_caps")
  <2>1. Nv2080CtrlCeGetAllCapsParams \in Type /\ {64} \subseteq Nv2080CtrlCeGetAllCapsParams.lens
    BY ControlTypes
  <2>2. ControlOk(decode_cmd_ce_get_all_caps)
    BY <2>1, FilteredListControl DEF decode_cmd_ce_get_all_caps
  <2> QED
    BY <2>2 DEF decode_known_rm_control
<1>48. P("nvlink_get_nvlink_status")
  <2>1. ControlOk(decode_cmd_nvlink_get_nvlink_status)
    BY ControlTypes, OtherControl DEF decode_cmd_nvlink_get_nvlink_status
  <2> QED
    BY <2>1 DEF decode_known_rm_control
<1>49. P("gsp_get_features")
  <2>1. ControlOk(decode_cmd_gsp_get_features)
    BY ControlTypes, Control0 DEF decode_cmd_gsp_get_features
  <2> QED
    BY <2>1 DEF decode_known_rm_control
<1>50. P("grmgr_get_gr_fs_info")
  <2>1. Nv2080CtrlGrmgrGetGrFsInfoParams \in Type /\ {96} \subseteq Nv2080CtrlGrmgrGetGrFsInfoParams.lens
    BY ControlTypes
  <2>2. ControlOk(decode_cmd_grmgr_get_gr_fs_info)
    BY <2>1, SampledControl DEF decode_cmd_grmgr_get_gr_fs_info
  <2> QED
    BY <2>2 DEF decode_known_rm_control
<1>51. P("conf_compute_get_capabilities")
  <2>1. ControlOk(decode_cmd_conf_compute_get_capabilities)
    BY ControlTypes, Control0 DEF decode_cmd_conf_compute_get_capabilities
  <2> QED
    BY <2>1 DEF decode_known_rm_control
<1>52. P("gpfifo_schedule")
  <2>1. ControlOk(decode_cmd_gpfifo_schedule)
    BY ControlTypes, Control0 DEF decode_cmd_gpfifo_schedule
  <2> QED
    BY <2>1 DEF decode_known_rm_control
<1>53. P("set_timeslice")
  <2>1. ControlOk(decode_cmd_set_timeslice)
    BY ControlTypes, Control0 DEF decode_cmd_set_timeslice
  <2> QED
    BY <2>1 DEF decode_known_rm_control
<1>54. P("preempt")
  <2>1. ControlOk(decode_cmd_preempt)
    BY ControlTypes, Control0 DEF decode_cmd_preempt
  <2> QED
    BY <2>1 DEF decode_known_rm_control
<1>55. P("debug_set_exception_mask")
  <2>1. ControlOk(decode_cmd_debug_set_exception_mask)
    BY ControlTypes, Control0 DEF decode_cmd_debug_set_exception_mask
  <2> QED
    BY <2>1 DEF decode_known_rm_control
<1>56. P("perf_boost")
  <2>1. ControlOk(decode_cmd_perf_boost)
    BY ControlTypes, Control0 DEF decode_cmd_perf_boost
  <2> QED
    BY <2>1 DEF decode_known_rm_control
<1> HIDE DEF P
<1>57. \A k \in {"client_get_addr_space_type",
           "os_unix_get_control_file_descriptor",
           "system_get_build_version", "client_set_inherited_share_policy",
           "system_get_features", "system_get_fabric_status",
           "system_get_p2p_caps_matrix", "gpu_get_memop_enable",
           "gpu_get_attached_ids"} : P(k)
  BY <1>1, <1>2, <1>3, <1>4, <1>5, <1>6, <1>7, <1>8, <1>9
<1>58. \A k \in {"gpu_get_id_info", "gpu_get_id_info_v2", "gpu_get_probed_ids",
           "gpu_attach_ids", "gpu_get_active_device_ids",
           "sync_gpu_boost_group_info", "host_get_caps_v2",
           "gpu_get_num_subdevices", "gpu_get_classlist_v2"} : P(k)
  BY <1>10, <1>11, <1>12, <1>13, <1>14, <1>15, <1>16, <1>17, <1>18
<1>59. \A k \in {"gpu_get_virtualization_mode", "fifo_get_channellist",
           "perf_cuda_limit_set_control", "fb_get_caps_v2",
           "class_engine_id", "gpfifo_get_work_submit_token",
           "mc_get_arch_info", "gpu_get_info_v2", "gpu_get_name_string"} : P(k)
  BY <1>19, <1>20, <1>21, <1>22, <1>23, <1>24, <1>25, <1>26, <1>27
<1>60. \A k \in {"gpu_get_short_name_string", "gpu_get_simulation_info",
           "gpu_get_engines_v2", "gpu_query_ecc_status",
           "gpu_query_compute_mode_rules", "gpu_get_gid_info",
           "fb_get_info_v2", "bus_get_pci_info", "bus_get_info_v2"} : P(k)
  BY <1>28, <1>29, <1>30, <1>31, <1>32, <1>33, <1>34, <1>35, <1>36
<1>61. \A k \in {"bus_get_pci_bar_info", "bus_get_pcie_supported_gpu_atomics",
           "bus_get_c2c_info", "gr_get_info", "gr_get_global_sm_order",
           "gr_get_caps_v2", "gr_get_gpc_mask", "gr_get_tpc_mask",
           "gr_set_ctxsw_preemption_mode"} : P(k)
  BY <1>37, <1>38, <1>39, <1>40, <1>41, <1>42, <1>43, <1>44, <1>45
<1>62. \A k \in {"gr_get_ctx_buffer_size", "ce_get_all_caps",
           "nvlink_get_nvlink_status", "gsp_get_features",
           "grmgr_get_gr_fs_info", "conf_compute_get_capabilities",
           "gpfifo_schedule", "set_timeslice", "preempt"} : P(k)
  BY <1>46, <1>47, <1>48, <1>49, <1>50, <1>51, <1>52, <1>53, <1>54
<1>63. \A k \in {"debug_set_exception_mask", "perf_boost"} : P(k)
  BY <1>55, <1>56
<1>64. DOMAIN decode_known_rm_control =
        {"client_get_addr_space_type",
           "os_unix_get_control_file_descriptor",
           "system_get_build_version", "client_set_inherited_share_policy",
           "system_get_features", "system_get_fabric_status",
           "system_get_p2p_caps_matrix", "gpu_get_memop_enable",
           "gpu_get_attached_ids"}
          \cup {"gpu_get_id_info", "gpu_get_id_info_v2", "gpu_get_probed_ids",
           "gpu_attach_ids", "gpu_get_active_device_ids",
           "sync_gpu_boost_group_info", "host_get_caps_v2",
           "gpu_get_num_subdevices", "gpu_get_classlist_v2"}
          \cup {"gpu_get_virtualization_mode", "fifo_get_channellist",
           "perf_cuda_limit_set_control", "fb_get_caps_v2",
           "class_engine_id", "gpfifo_get_work_submit_token",
           "mc_get_arch_info", "gpu_get_info_v2", "gpu_get_name_string"}
          \cup {"gpu_get_short_name_string", "gpu_get_simulation_info",
           "gpu_get_engines_v2", "gpu_query_ecc_status",
           "gpu_query_compute_mode_rules", "gpu_get_gid_info",
           "fb_get_info_v2", "bus_get_pci_info", "bus_get_info_v2"}
          \cup {"bus_get_pci_bar_info", "bus_get_pcie_supported_gpu_atomics",
           "bus_get_c2c_info", "gr_get_info", "gr_get_global_sm_order",
           "gr_get_caps_v2", "gr_get_gpc_mask", "gr_get_tpc_mask",
           "gr_set_ctxsw_preemption_mode"}
          \cup {"gr_get_ctx_buffer_size", "ce_get_all_caps",
           "nvlink_get_nvlink_status", "gsp_get_features",
           "grmgr_get_gr_fs_info", "conf_compute_get_capabilities",
           "gpfifo_schedule", "set_timeslice", "preempt"}
          \cup {"debug_set_exception_mask", "perf_boost"}
  BY DEF decode_known_rm_control
<1>65. P(cmd)
  BY <1>57, <1>58, <1>59, <1>60, <1>61, <1>62, <1>63, <1>64
<1> QED
  BY <1>65 DEF P

\* The sizes a program may give.
LEMMA AroundNat ==
    ASSUME NEW n \in Nat \ {0}
    PROVE  Around(n) \subseteq Nat
BY Limits DEF Around

\* The parameter sizes of a control are numbers.
LEMMA SizesNat ==
    ASSUME NEW cmd \in Controls, NEW n \in ControlSizes(cmd)
    PROVE  n \in Nat
<1>1. CASE cmd = "legacy"
  BY <1>1, AroundNat DEF ControlSizes
<1>2. CASE cmd = "other"
  <2>1. ControlSizes(cmd) = Around(32) \cup Around(16) \cup Around(MaxBlob)
    BY <1>2 DEF ControlSizes
  <2>2. Around(32) \subseteq Nat /\ Around(16) \subseteq Nat /\ Around(MaxBlob) \subseteq Nat
    BY AroundNat, Limits
  <2> QED
    BY <2>1, <2>2
<1>3. CASE cmd # "legacy" /\ cmd # "other"
  <2>1. cmd \in DOMAIN decode_known_rm_control
    BY <1>3 DEF Controls
  <2>2. ControlSizes(cmd) = Around(decode_known_rm_control[cmd].need)
    BY <1>3 DEF ControlSizes
  <2>3. decode_known_rm_control[cmd].need \in Nat \ {0}
    BY <2>1, ControlsOk DEF ControlOk
  <2>4. Around(decode_known_rm_control[cmd].need) \subseteq Nat
    BY <2>3, AroundNat
  <2> QED
    BY <2>2, <2>4
<1> QED
  BY <1>1, <1>2, <1>3

\* Whatever the command and the size, the parameters are decoded by a good
\* script.
LEMMA PayloadGood ==
    ASSUME NEW cmd \in Controls, NEW size \in Nat,
           NEW c, NEW g, NEW arr, NEW w \in Int, ArgOnly(g), w >= 3
    PROVE  Good(decode_nvos54_payload(cmd, size), c, g, arr, w)
<1>1. CASE size = 0
  <2>1. TrueStatus("ok", c, g)
    BY DEF TrueStatus, ArgOnly
  <2>2. Put("ok").op = "put" /\ Put("ok").status = "ok"
    BY DEF Put
  <2>3. Body(<<Put("ok")>>, c, g, arr, w)
    BY <2>1, <2>2, BodyPut
  <2>4. decode_nvos54_payload(cmd, size) = <<Put("ok")>>
    BY <1>1 DEF decode_nvos54_payload
  <2> QED
    BY <2>3, <2>4 DEF Good, Rest
<1>2. CASE size > 0 /\ cmd = "legacy"
  <2>1. decode_nvos54_payload(cmd, size) = decode_cmd_nv2080_legacy_generic(size)
    BY <1>2 DEF decode_nvos54_payload
  <2>2. ReadOrRead(decode_cmd_nv2080_legacy_generic(size), c, g, arr, w)
    BY LegacyGood
  <2> QED
    BY <2>1, <2>2 DEF Good
<1>3. CASE size > 0 /\ cmd = "other"
  <2>1. decode_nvos54_payload(cmd, size) = Preview(size)
    BY <1>3 DEF decode_nvos54_payload
  <2>2. ReadOrEnd(Preview(size), c, g, arr, w)
    BY PreviewGood
  <2> QED
    BY <2>1, <2>2 DEF Good
<1>4. CASE size > 0 /\ cmd # "legacy" /\ cmd # "other"
  <2>1. cmd \in DOMAIN decode_known_rm_control
    BY <1>4 DEF Controls
  <2>2. decode_nvos54_payload(cmd, size)
          = KnownControl(decode_known_rm_control[cmd], size)
    BY <1>4 DEF decode_nvos54_payload
  <2>3. ControlOk(decode_known_rm_control[cmd])
    BY <2>1, ControlsOk
  <2> DEFINE d == decode_known_rm_control[cmd]
  <2> HIDE DEF d
  <2>4. Good(KnownControl(d, size), c, g, arr, w)
    <3>1. ControlOk(d)
      BY <2>3 DEF d
    <3> QED
      BY <3>1, KnownControlGood
  <2> QED
    BY <2>2, <2>4 DEF d
<1>5. size = 0 \/ size > 0
  OBVIOUS
<1> QED
  BY <1>1, <1>2, <1>3, <1>4, <1>5

-----------------------------------------------------------------------------
(* Every call.                                                              *)

\* So are the sizes of ioctl numbers.
LEMMA DeclaredSize ==
    ASSUME NEW n \in Sizes
    PROVE  n \in Nat
<1>1. n \in 0..16383
  BY SizesAssumption
<1> QED
  BY <1>1

\* The fields of a call.
LEMMA CallKinds ==
    ASSUME NEW c \in Calls
    PROVE  /\ c.dev \in {"uvm", "rm", "other"} /\ c.mode \in {"off", "header", "full"}
           /\ c.dev = "uvm" => c.cmd \in DOMAIN decode_uvm_ioctl
           /\ c.dev = "rm" => c.cmd \in DOMAIN decode_nvidia_ioctl(0, "full")
           /\ c.size \in Nat /\ c # NoCall
<1>1. \A k \in {"rm_control", "unknown"} : k \in DOMAIN decode_nvidia_ioctl(0, "full")
  BY DEF decode_nvidia_ioctl
<1> DEFINE D == DOMAIN decode_nvidia_ioctl(0, "full")
           U == DOMAIN decode_uvm_ioctl
           A == [dev : {"uvm"}, cmd : U, size : {0}, magic : {FALSE},
                 null : BOOLEAN, mode : Modes]
           B == [dev : {"rm"}, cmd : D, size : Sizes,
                 magic : BOOLEAN, null : {FALSE}, mode : {"full"}]
           E == [dev : {"rm"}, cmd : {"rm_control", "unknown"}, size : {0, 32},
                 magic : BOOLEAN, null : BOOLEAN, mode : Modes]
           O == [dev : {"other"}, cmd : {"unknown"}, size : {0}, magic : BOOLEAN,
                 null : BOOLEAN, mode : Modes]
<1>2. Calls = A \cup B \cup E \cup O
  BY DEF Calls
<1>3. \A k \in {"rm_control", "unknown"} : k \in D
  BY <1>1
<1> HIDE DEF D, U
<1>5. NoCall.dev = "none"
  BY DEF NoCall
<1>6. CASE c \in A
  BY <1>5, <1>6 DEF Modes, U
<1>7. CASE c \in B
  BY <1>5, <1>7, DeclaredSize DEF Modes, D
<1>8. CASE c \in E
  BY <1>3, <1>5, <1>8 DEF Modes, D
<1>9. CASE c \in O
  BY <1>5, <1>9 DEF Modes
<1> QED
  BY <1>2, <1>6, <1>7, <1>8, <1>9

\* What Start puts on the list of steps.
LEMMA ScriptGood ==
    ASSUME NEW c \in Calls
    PROVE  /\ Silent(c) => Script(c) = <<>>
           /\ ~Silent(c) => Decoder(Script(c), c)
<1> DEFINE off == c.mode = "off" \/ c.dev = "other"
<1>1. Script(c) =
        CASE off -> <<>>
          [] c.mode # "off" /\ c.dev = "uvm" ->
                IF c.mode = "header" THEN <<Put("header")>>
                ELSE IF c.null /\ c.cmd # "deinitialize" THEN <<Put("arg_null")>>
                ELSE decode_uvm_ioctl[c.cmd]
          [] c.mode # "off" /\ c.dev = "rm" ->
                IF ~c.magic THEN <<>>
                ELSE IF c.mode = "header" THEN <<Put("header")>>
                ELSE IF c.null THEN <<Put("arg_null")>>
                ELSE decode_nvidia_ioctl(c.size, c.mode)[c.cmd]
  BY DEF Script
<1>2. /\ c.dev \in {"uvm", "rm", "other"} /\ c.mode \in {"off", "header", "full"}
      /\ c.dev = "uvm" => c.cmd \in DOMAIN decode_uvm_ioctl
      /\ c.dev = "rm" => c.cmd \in DOMAIN decode_nvidia_ioctl(0, "full")
      /\ c.size \in Nat
  BY CallKinds
<1>3. TrueStatus("header", c, {}) /\ TrueStatus("arg_null", c, {})
  BY DEF TrueStatus
<1>4. StartGood(<<Put("header")>>, c) /\ StartGood(<<Put("arg_null")>>, c)
  BY <1>3, StartPut
<1>5. CASE off
  <2>1. Script(c) = <<>>
    BY <1>1, <1>5
  <2>2. Silent(c)
    BY <1>5 DEF Silent
  <2> QED
    BY <2>1, <2>2
<1>6. CASE ~off /\ c.dev = "uvm"
  <2>1. ~Silent(c) /\ ~Checked(c)
    BY <1>6 DEF Silent, Checked
  <2>2. StartGood(decode_uvm_ioctl[c.cmd], c)
    BY <1>2, <1>6, UvmGood
  <2>3. Script(c) = IF c.mode = "header" THEN <<Put("header")>>
                    ELSE IF c.null /\ c.cmd # "deinitialize" THEN <<Put("arg_null")>>
                    ELSE decode_uvm_ioctl[c.cmd]
    BY <1>1, <1>6
  <2>4. StartGood(Script(c), c)
    BY <1>4, <2>2, <2>3
  <2> QED
    BY <2>1, <2>4 DEF Decoder
<1>7. CASE ~off /\ c.dev = "rm"
  <2>1. Script(c) = IF ~c.magic THEN <<>>
                    ELSE IF c.mode = "header" THEN <<Put("header")>>
                    ELSE IF c.null THEN <<Put("arg_null")>>
                    ELSE decode_nvidia_ioctl(c.size, c.mode)[c.cmd]
    BY <1>1, <1>7
  <2>2. CASE ~c.magic
    BY <1>7, <2>1, <2>2 DEF Silent
  <2>3. CASE c.magic
    <3>1. ~Silent(c)
      BY <1>7, <2>3 DEF Silent
    <3>2. CASE c.mode = "header"
      <4>1. ~Checked(c)
        BY <3>2 DEF Checked
      <4>2. Script(c) = <<Put("header")>>
        BY <2>1, <2>3, <3>2
      <4> QED
        BY <1>4, <3>1, <4>1, <4>2 DEF Decoder
    <3>3. CASE c.mode # "header" /\ c.null
      <4>1. ~Checked(c)
        BY <3>3 DEF Checked
      <4>2. Script(c) = <<Put("arg_null")>>
        BY <2>1, <2>3, <3>3
      <4> QED
        BY <1>4, <3>1, <4>1, <4>2 DEF Decoder
    <3>4. CASE c.mode # "header" /\ ~c.null
      <4>1. c.mode = "full"
        BY <1>2, <1>7, <3>4
      <4>2. Script(c) = decode_nvidia_ioctl(c.size, "full")[c.cmd]
        BY <2>1, <2>3, <3>4, <4>1
      <4>3. Decoder(decode_nvidia_ioctl(c.size, "full")[c.cmd], c)
        BY <1>2, <1>7, EscapesGood
      <4> QED
        BY <3>1, <4>2, <4>3
    <3> QED
      BY <3>2, <3>3, <3>4
  <2> QED
    BY <2>2, <2>3
<1>8. off \/ (~off /\ c.dev = "uvm") \/ (~off /\ c.dev = "rm")
  BY <1>2
<1> QED
  BY <1>5, <1>6, <1>7, <1>8

-----------------------------------------------------------------------------
(* A good script stays good with more copies to make.                       *)

\* A body has a number of copies to make.
LEMMA WorkIsNat ==
    ASSUME NEW q, NEW c, NEW g, NEW arr, NEW w \in Int, Body(q, c, g, arr, w)
    PROVE  w >= 0 /\ Work(q) \in Nat
<1>1. Len(q) \in Nat /\ Len(q) > 0
  BY LenProperties DEF Body, IsScript
<1>2. q[1].op = "indirect" => q[1].copies \in {1, 2}
  <2> SUFFICES ASSUME q[1].op = "indirect" PROVE q[1].copies \in {1, 2}
    OBVIOUS
  <2>1. Len(q) > 1
    BY BodyLong
  <2>2. 1 \in 1..(Len(q) - 1)
    BY <1>1, <2>1
  <2>3. Side(q[1], g, c)
    BY <2>2 DEF Body
  <2> QED
    BY <2>3 DEF Side, TryRead, Showing, Listing, Following, Branching,
                NextRead, InsideRoom
<1>3. Work(q) \in Nat
  BY <1>1, <1>2 DEF Work
<1>4. Work(q) <= w
  BY DEF Body
<1> QED
  BY <1>3, <1>4

\* A body.
LEMMA BodyMore ==
    ASSUME NEW q, NEW c, NEW g, NEW arr, NEW w \in Int, NEW v \in Int,
           Body(q, c, g, arr, w), v >= w
    PROVE  Body(q, c, g, arr, v)
<1>1. Work(q) \in Nat
  BY WorkIsNat
<1>2. Work(q) <= w
  BY DEF Body
<1>3. Work(q) <= v
  BY <1>1, <1>2
<1> QED
  BY <1>3 DEF Body

\* What follows a copy.
LEMMA RestMore ==
    ASSUME NEW q, NEW c, NEW g, NEW arr, NEW w \in Int, NEW v \in Int,
           Rest(q, c, g, arr, w), v >= w
    PROVE  Rest(q, c, g, arr, v) /\ v >= 0
<1>1. CASE Body(q, c, g, arr, w)
  <2>1. Body(q, c, g, arr, v)
    BY <1>1, BodyMore
  <2>2. v >= 0
    BY <2>1, WorkIsNat
  <2> QED
    BY <2>1, <2>2 DEF Rest
<1>2. CASE ~Body(q, c, g, arr, w)
  BY <1>2 DEF Rest
<1> QED
  BY <1>1, <1>2

\* A script that starts with a copy.
LEMMA ReadingMore ==
    ASSUME NEW q, NEW c, NEW g, NEW w \in Int, NEW v \in Int,
           Reading(q, c, g, w), v >= w
    PROVE  Reading(q, c, g, v) /\ v >= 0
<1>1. Rest(Tail(q), c, g \cup {q[1].from}, q[1].lens, w - 1)
  BY DEF Reading
<1>2. w - 1 \in Int /\ v - 1 \in Int /\ v - 1 >= w - 1
  OBVIOUS
<1>3. Rest(Tail(q), c, g \cup {q[1].from}, q[1].lens, v - 1) /\ v - 1 >= 0
  BY <1>1, <1>2, RestMore
<1>4. v >= 0
  BY <1>3
<1> QED
  BY <1>3, <1>4 DEF Reading

\* ... with its end when it fails.
LEMMA ReadOrEndMore ==
    ASSUME NEW q, NEW c, NEW g, NEW arr, NEW w \in Int, NEW v \in Int,
           ReadOrEnd(q, c, g, arr, w), v >= w
    PROVE  ReadOrEnd(q, c, g, arr, v) /\ v >= 0
<1>1. Reading(q, c, g, w) /\ Body(q[1].bad, c, g, arr, w - 1)
  BY DEF ReadOrEnd
<1>2. w - 1 \in Int /\ v - 1 \in Int /\ v - 1 >= w - 1
  OBVIOUS
<1>3. Reading(q, c, g, v) /\ v >= 0
  BY <1>1, ReadingMore
<1>4. Body(q[1].bad, c, g, arr, v - 1)
  BY <1>1, <1>2, BodyMore
<1> QED
  BY <1>3, <1>4 DEF ReadOrEnd

\* Every good script.
LEMMA GoodMore ==
    ASSUME NEW q, NEW c, NEW g, NEW arr, NEW w \in Int, NEW v \in Int,
           Good(q, c, g, arr, w), v >= w
    PROVE  Good(q, c, g, arr, v) /\ v >= 0
<1>1. CASE Rest(q, c, g, arr, w)
  BY <1>1, RestMore DEF Good
<1>2. CASE ReadOrEnd(q, c, g, arr, w)
  BY <1>2, ReadOrEndMore DEF Good
<1>3. CASE ReadOrRead(q, c, g, arr, w)
  <2>1. Reading(q, c, g, w) /\ ReadOrEnd(q[1].bad, c, g, arr, w - 1)
    BY <1>3 DEF ReadOrRead
  <2>2. w - 1 \in Int /\ v - 1 \in Int /\ v - 1 >= w - 1
    OBVIOUS
  <2>3. Reading(q, c, g, v) /\ v >= 0
    BY <2>1, ReadingMore
  <2>4. ReadOrEnd(q[1].bad, c, g, arr, v - 1)
    BY <2>1, <2>2, ReadOrEndMore
  <2>5. ReadOrRead(q, c, g, arr, v)
    BY <2>3, <2>4 DEF ReadOrRead
  <2> QED
    BY <2>3, <2>5 DEF Good
<1> QED
  BY <1>1, <1>2, <1>3 DEF Good

-----------------------------------------------------------------------------
(* What the first step of a good script can be.                             *)

\* The two scripts that are not bodies.
LEMMA XferChoiceIs ==
    XferChoice[1].op = "oneof" /\ XferChoice # <<>> /\ Head(XferChoice) = XferChoice[1]
BY DEF XferChoice, OneOf

LEMMA PayloadIs ==
    <<Payload>>[1].op = "payload" /\ <<Payload>> # <<>>
BY DEF Payload

\* A good script is not over.
LEMMA RestNonempty ==
    ASSUME NEW q, NEW c, NEW g, NEW arr, NEW w, Rest(q, c, g, arr, w)
    PROVE  q # <<>>
<1>1. Body(q, c, g, arr, w) => q # <<>>
  BY ScriptTail DEF Body
<1> QED
  BY <1>1, PayloadIs, XferChoiceIs DEF Rest

LEMMA GoodNonempty ==
    ASSUME NEW q, NEW c, NEW g, NEW arr, NEW w, Good(q, c, g, arr, w)
    PROVE  q # <<>>
<1>1. ASSUME Reading(q, c, g, w) PROVE q # <<>>
  <2>1. Len(q) > 0
    BY <1>1, LenProperties DEF Reading, IsScript
  <2> QED
    BY <1>1, <2>1, ScriptTail DEF Reading
<1>2. Rest(q, c, g, arr, w) \/ Reading(q, c, g, w)
  BY DEF Good, ReadOrEnd, ReadOrRead
<1> QED
  BY <1>1, <1>2, RestNonempty

\* A good script is a body, starts with a copy, or is one of the two others.
LEMMA GoodHeads ==
    ASSUME NEW q, NEW c, NEW g, NEW arr, NEW w, Good(q, c, g, arr, w)
    PROVE  \/ Body(q, c, g, arr, w)
           \/ q[1].op = "read" /\ (ReadOrEnd(q, c, g, arr, w) \/ ReadOrRead(q, c, g, arr, w))
           \/ q[1].op = "payload" /\ q = <<Payload>> /\ ArgOnly(g) /\ w >= 3
           \/ /\ q[1].op = "oneof" /\ q = XferChoice /\ ArgOnly(g) /\ w >= 4
              /\ c.cmd = "ioctl_xfer_cmd"
<1>1. Reading(q, c, g, w) => q[1].op = "read"
  BY DEF Reading, InsideRoom
<1> QED
  BY <1>1, XferChoiceIs, PayloadIs DEF Good, Rest, ReadOrEnd, ReadOrRead, ArgOnly

\* The first step of a body.
LEMMA BodyHead ==
    ASSUME NEW q, NEW c, NEW g, NEW arr, NEW w, Body(q, c, g, arr, w)
    PROVE  /\ q[1].op # "put" =>
                /\ Len(q) \in Nat /\ Len(q) > 1
                /\ \/ Side(q[1], g, c)
                   \/ /\ Len(q) = 2 /\ q[1].op = "inner"
                      /\ q[1].status = "ok" => "params" \in g
           /\ q[1].op = "list" => q[1].cap \in arr
<1>1. Len(q) \in Nat
  BY LenProperties DEF Body, IsScript
<1> SUFFICES ASSUME q[1].op # "put"
             PROVE  /\ Len(q) > 1
                    /\ \/ Side(q[1], g, c)
                       \/ /\ Len(q) = 2 /\ q[1].op = "inner"
                          /\ q[1].status = "ok" => "params" \in g
                    /\ q[1].op = "list" => q[1].cap \in arr
  BY <1>1
<1>2. Len(q) > 1
  BY BodyLong
<1>3. 1 \in 1..(Len(q) - 1) /\ (1 = Len(q) - 1 => Len(q) = 2)
  BY <1>1, <1>2
<1> QED
  BY <1>2, <1>3 DEF Body

\* A status comes last.
LEMMA BodyPutHead ==
    ASSUME NEW q, NEW c, NEW g, NEW arr, NEW w, Body(q, c, g, arr, w),
           q[1].op = "put"
    PROVE  Len(q) = 1 /\ TrueStatus(q[1].status, c, g)
<1>1. Len(q) \in Nat /\ Len(q) > 0
  BY LenProperties DEF Body, IsScript
<1>2. ~(Len(q) > 1)
  <2> SUFFICES ASSUME Len(q) > 1 PROVE FALSE
    OBVIOUS
  <2>1. 1 \in 1..(Len(q) - 1)
    BY <1>1
  <2>2. Side(q[1], g, c) \/ q[1].op = "inner"
    BY <2>1 DEF Body
  <2> QED
    BY <2>2 DEF Side, TryRead, Showing, Listing, Following, Branching,
                NextRead, InsideRoom
<1>3. Len(q) = 1
  <2> DEFINE n == Len(q)
  <2>1. n \in Nat /\ n > 0 /\ ~(n > 1)
    BY <1>1, <1>2
  <2> HIDE DEF n
  <2>2. n = 1
    BY <2>1
  <2> QED
    BY <2>2 DEF n
<1> QED
  BY <1>3 DEF Body

\* What a side step is, by its kind.
LEMMA SideKinds ==
    ASSUME NEW c, NEW s, NEW g, Side(s, g, c)
    PROVE  /\ s.op # "payload" /\ s.op # "inner" /\ s.op # "put"
           /\ s.op = "read" => TryRead(s, c) \/ ("arg" \in g /\ NextRead(s, c))
           /\ s.op = "show" => Showing(s)
           /\ s.op = "list" => Listing(s)
           /\ s.op \in {"indirect", "array", "text", "blob"} => Following(s)
           /\ s.op = "oneof" => Branching(s, c)
           /\ s.op = "last" => {"arg", "params"} \subseteq g /\ s.t = U64
BY DEF Side, TryRead, Showing, Listing, Following, Branching, NextRead, InsideRoom

-----------------------------------------------------------------------------
(* A step of a good script leaves a good script.                            *)

\* A good script is a script.
LEMMA RestScript ==
    ASSUME NEW q, NEW c, NEW g, NEW arr, NEW w, Rest(q, c, g, arr, w)
    PROVE  IsScript(q) /\ Len(q) > 0
<1>1. Body(q, c, g, arr, w) => IsScript(q) /\ Len(q) > 0
  BY DEF Body
<1>2. IsScript(<<Payload>>) /\ Len(<<Payload>>) > 0
  BY Script1
<1>3. IsScript(XferChoice) /\ Len(XferChoice) > 0
  BY Script1 DEF XferChoice
<1> QED
  BY <1>1, <1>2, <1>3 DEF Rest

LEMMA GoodScript ==
    ASSUME NEW q, NEW c, NEW g, NEW arr, NEW w, Good(q, c, g, arr, w)
    PROVE  IsScript(q) /\ Len(q) > 0 /\ Head(q) = q[1]
<1>1. Reading(q, c, g, w) => IsScript(q) /\ Len(q) > 0
  <2> SUFFICES ASSUME Reading(q, c, g, w) PROVE IsScript(q) /\ Len(q) > 0
    OBVIOUS
  <2> QED
    BY LenProperties DEF Reading, IsScript
<1>2. Rest(q, c, g, arr, w) \/ Reading(q, c, g, w)
  BY DEF Good, ReadOrEnd, ReadOrRead
<1>3. IsScript(q) /\ Len(q) > 0
  BY <1>1, <1>2, RestScript
<1> QED
  BY <1>3, ScriptTail

\* A copy that succeeds.
LEMMA CopyGood ==
    ASSUME NEW q, NEW c, NEW g, NEW arr, NEW w \in Int, NEW v \in Int,
           Good(q, c, g, arr, w), q[1].op = "read", v >= w - 1
    PROVE  Good(Tail(q), c, g \cup {q[1].from}, q[1].lens, v)
<1>1. CASE Body(q, c, g, arr, w)
  <2>1. Body(Tail(q), c, g \cup {q[1].from}, q[1].lens, v)
    BY <1>1, BodyTail
  <2> QED
    BY <2>1 DEF Good, Rest
<1>2. CASE Reading(q, c, g, w)
  <2>1. Rest(Tail(q), c, g \cup {q[1].from}, q[1].lens, w - 1)
    BY <1>2 DEF Reading
  <2>2. w - 1 \in Int
    OBVIOUS
  <2>3. Rest(Tail(q), c, g \cup {q[1].from}, q[1].lens, v)
    BY <2>1, <2>2, RestMore
  <2> QED
    BY <2>3 DEF Good
<1> QED
  BY <1>1, <1>2, GoodHeads DEF ReadOrEnd, ReadOrRead

\* The structures read before one that cannot be read are shown.
LEMMA NextReadBad ==
    ASSUME NEW s, NEW c, NEW g, NEW arr, NEW v \in Nat, NextRead(s, c), "arg" \in g
    PROVE  Body(s.bad, c, g, arr, v)
<1> DEFINE x == s.bad[1]
           r == <<x>>
<1>1. s.bad = <<x, Put("ok")>> /\ Showing(x)
  BY DEF NextRead
<1>2. x.op = "show"
  BY <1>1 DEF Showing
<1> HIDE DEF x
<1>3. Sides(r, g, arr, c)
  BY <1>1, <1>2, Sides1 DEF Side
<1>4. Len(r) = 1 /\ r[1] = x
  BY Script1
<1>5. <<x, Put("ok")>> = r \o <<Put("ok")>>
  BY Cons2
<1>6. TrueStatus("ok", c, g)
  BY OkStatus
<1> HIDE DEF r
<1>7. Len(r) + (IF Len(r) > 0 /\ r[1].op = "indirect" THEN r[1].copies - 1 ELSE 0)
             - (IF Len(r) > 0 /\ r[Len(r)].op = "show" THEN 1 ELSE 0) <= v
  BY <1>2, <1>4
<1>8. Body(r \o <<Put("ok")>>, c, g, arr, v)
  BY <1>3, <1>6, <1>7, BodyOf
<1> QED
  BY <1>1, <1>5, <1>8

\* A copy that fails.
LEMMA NoCopyGood ==
    ASSUME NEW q, NEW c, NEW g, NEW arr, NEW w \in Int, NEW v \in Int,
           Good(q, c, g, arr, w), q[1].op = "read", v >= w - 1
    PROVE  \/ Must(q[1]) /\ Good(q[1].bad, c, g, arr, v)
           \/ q[1].must = FALSE /\ Good(Tail(q), c, g, arr, v)
<1>1. CASE Body(q, c, g, arr, w)
  <2>1. Body(Tail(q), c, g, arr, v)
    BY <1>1, BodyTail
  <2>2. Good(Tail(q), c, g, arr, v)
    BY <2>1 DEF Good, Rest
  <2>3. v >= 0
    BY <2>1, WorkIsNat
  <2>4. v \in Nat
    BY <2>3
  <2>5. Side(q[1], g, c)
    BY <1>1, BodyHead
  <2>6. TryRead(q[1], c) \/ ("arg" \in g /\ NextRead(q[1], c))
    BY <2>5, SideKinds
  <2>7. CASE TryRead(q[1], c)
    BY <2>2, <2>7 DEF TryRead
  <2>8. CASE "arg" \in g /\ NextRead(q[1], c)
    <3>1. Body(q[1].bad, c, g, arr, v)
      BY <2>4, <2>8, NextReadBad
    <3>2. Must(q[1])
      BY <2>8 DEF NextRead
    <3> QED
      BY <3>1, <3>2 DEF Good, Rest
  <2> QED
    BY <2>6, <2>7, <2>8
<1>2. CASE ReadOrEnd(q, c, g, arr, w)
  <2>1. Must(q[1]) /\ Body(q[1].bad, c, g, arr, w - 1) /\ w - 1 \in Int
    BY <1>2 DEF ReadOrEnd, Reading
  <2>2. Body(q[1].bad, c, g, arr, v)
    BY <2>1, BodyMore
  <2> QED
    BY <2>1, <2>2 DEF Good, Rest
<1>3. CASE ReadOrRead(q, c, g, arr, w)
  <2>1. Must(q[1]) /\ ReadOrEnd(q[1].bad, c, g, arr, w - 1) /\ w - 1 \in Int
    BY <1>3 DEF ReadOrRead, Reading
  <2>2. ReadOrEnd(q[1].bad, c, g, arr, v)
    BY <2>1, ReadOrEndMore
  <2> QED
    BY <2>1, <2>2 DEF Good
<1> QED
  BY <1>1, <1>2, <1>3, GoodHeads

\* What is copied lies inside its room; parameters come after the argument.
LEMMA ReadInside ==
    ASSUME NEW q, NEW c, NEW g, NEW arr, NEW w,
           Good(q, c, g, arr, w), q[1].op = "read"
    PROVE  InsideRoom(q[1], c) /\ (q[1].from = "params" => "arg" \in g)
<1>1. CASE Body(q, c, g, arr, w)
  <2>1. Side(q[1], g, c)
    BY <1>1, BodyHead
  <2>2. TryRead(q[1], c) \/ ("arg" \in g /\ NextRead(q[1], c))
    BY <2>1, SideKinds
  <2> QED
    BY <2>2 DEF TryRead, NextRead
<1>2. CASE Reading(q, c, g, w)
  BY <1>2 DEF Reading
<1> QED
  BY <1>1, <1>2, GoodHeads DEF ReadOrEnd, ReadOrRead

\* A side step other than a count of arrays, and a status of the inner object.
LEMMA SideGood ==
    ASSUME NEW q, NEW c, NEW g, NEW arr, NEW w \in Int, NEW h, NEW v \in Int,
           Good(q, c, g, arr, w), g \subseteq h,
           q[1].op \in {"list", "show", "array", "text", "blob", "last"},
           v >= w - 1, q[1].op \in {"show", "list"} => v >= w
    PROVE  Body(q, c, g, arr, w) /\ Side(q[1], g, c) /\ Good(Tail(q), c, h, arr, v)
<1>1. Body(q, c, g, arr, w)
  BY GoodHeads
<1>2. Side(q[1], g, c)
  BY <1>1, BodyHead
<1>3. Body(Tail(q), c, h, arr, v)
  BY <1>1, BodyTail
<1> QED
  BY <1>1, <1>2, <1>3 DEF Good, Rest

\* The elements behind pointers.
LEMMA IndirectGood ==
    ASSUME NEW q, NEW c, NEW g, NEW arr, NEW w \in Int, NEW n \in Nat, NEW count \in Nat,
           Good(q, c, g, arr, w), q[1].op = "indirect",
           n <= MaxCtrlListItems, n <= count
    PROVE  Good([i \in 1..q[1].copies |-> Array(q[1].size, n, count)] \o Tail(q),
                c, g, arr, w)
<1> DEFINE x == Array(q[1].size, n, count)
<1>1. Body(q, c, g, arr, w)
  BY GoodHeads
<1>2. Side(q[1], g, c)
  BY <1>1, BodyHead
<1>3. Following(q[1])
  BY <1>2, SideKinds
<1>4. q[1].size \in {4, 8} /\ q[1].copies \in {1, 2}
  BY <1>3 DEF Following
<1>5. x.op = "array" /\ x.size = q[1].size /\ x.shown = n /\ x.count = count
  BY DEF Array
<1>6. n \in 0..MaxCtrlListItems
  BY DEF MaxCtrlListItems
<1> HIDE DEF x
<1>7. Following(x)
  BY <1>4, <1>5, <1>6 DEF Following
<1>8. Body([i \in 1..q[1].copies |-> x] \o Tail(q), c, g, arr, w)
  BY <1>1, <1>4, <1>5, <1>7, BodyArrays
<1> QED
  BY <1>8 DEF Good, Rest, x

\* The empty script is neutral.
LEMMA EmptyConcat ==
    ASSUME NEW q, IsScript(q)
    PROVE  <<>> \o q = q /\ q \o <<>> = q
<1>1. q \in Seq(Range(q))
  BY DEF IsScript
<1> QED
  BY <1>1, ConcatEmptySeq

\* Whatever size is stated for it, the control that is transferred is copied.
LEMMA XferRead ==
    ASSUME NEW c, NEW size \in XferSizes, NEW bad, c.cmd = "ioctl_xfer_cmd"
    PROVE  /\ InsideRoom(read_pod("os54", 0, NvOs54Parameters, size, bad), c)
           /\ read_pod("os54", 0, NvOs54Parameters, size, bad).from = "os54"
           /\ read_pod("os54", 0, NvOs54Parameters, size, bad).bad = bad
           /\ Must(read_pod("os54", 0, NvOs54Parameters, size, bad))
<1>1. NvOs54Parameters.size = 32
  BY Sizes1 DEF Sized
<1>2. size \in Nat
  BY <1>1 DEF XferSizes
<1>3. InsideRoom(read_pod("os54", 0, NvOs54Parameters, size, bad), c)
  BY <1>1, <1>2 DEF read_pod, ReadStep, InsideRoom, Unchecked
<1> QED
  BY <1>3 DEF read_pod, ReadStep, Must

\* The two ends of a transferred escape.
LEMMA XferGood ==
    ASSUME NEW s, NEW c, NEW g, NEW arr, NEW w \in Int, ArgOnly(g), w >= 4,
           s \in XferChoice[1].scripts, c.cmd = "ioctl_xfer_cmd"
    PROVE  IsScript(s) /\ Good(s, c, g, arr, w)
<1> DEFINE t == "os54_unreadable"
           x(size) == read_pod("os54", 0, NvOs54Parameters, size, <<Put(t)>>)
           y == <<Payload>>
           a == <<Put("xfer_non_nvos54")>>
           b(size) == <<x(size), Payload>>
<1>1. s = a \/ \E size \in XferSizes : s = b(size)
  BY DEF XferChoice, OneOf
<1>2. CASE s = a
  <2>1. TrueStatus("xfer_non_nvos54", c, g)
    BY DEF TrueStatus
  <2>2. Put("xfer_non_nvos54").op = "put"
          /\ Put("xfer_non_nvos54").status = "xfer_non_nvos54"
    BY DEF Put
  <2>3. w \in Nat
    OBVIOUS
  <2>4. Body(a, c, g, arr, w)
    BY <2>1, <2>2, <2>3, BodyPut
  <2>5. IsScript(a)
    BY Script1
  <2> QED
    BY <1>2, <2>4, <2>5 DEF Good, Rest
<1>3. ASSUME NEW size \in XferSizes, s = b(size)
      PROVE  IsScript(s) /\ Good(s, c, g, arr, w)
  <2>1. /\ InsideRoom(x(size), c) /\ x(size).from = "os54"
        /\ x(size).bad = <<Put(t)>> /\ Must(x(size))
    BY XferRead
  <2>2. b(size) = <<x(size)>> \o y /\ IsScript(b(size))
    BY Cons2, Script2
  <2>3. IsScript(y) /\ Len(y) > 0
    BY Script1
  <2>4. ArgOnly(g \cup {"os54"})
    BY DEF ArgOnly
  <2>5. w - 1 >= 3 /\ w - 1 \in Nat
    OBVIOUS
  <2>6. Rest(y, c, g \cup {"os54"}, x(size).lens, w - 1)
    BY <2>4, <2>5 DEF Rest, ArgOnly
  <2>7. TrueStatus(t, c, g)
    BY DEF TrueStatus
  <2>8. Put(t).op = "put" /\ Put(t).status = t
    BY DEF Put
  <2> HIDE DEF t
  <2>9. Body(<<Put(t)>>, c, g, arr, w - 1)
    BY <2>5, <2>7, <2>8, BodyPut
  <2> HIDE DEF x, y, b
  <2>10. Reading(<<x(size)>> \o y, c, g, w)
    BY <2>1, <2>3, <2>6, ReadThen
  <2>11. ReadOrEnd(<<x(size)>> \o y, c, g, arr, w)
    BY <2>1, <2>3, <2>9, <2>10, ReadThenEnd
  <2> QED
    BY <1>3, <2>2, <2>11 DEF Good
<1> QED
  BY <1>1, <1>2, <1>3

\* A choice by a value in memory.
LEMMA ChooseGood ==
    ASSUME NEW q, NEW c, NEW g, NEW arr, NEW w \in Int, NEW s,
           Good(q, c, g, arr, w), q[1].op = "oneof", s \in q[1].scripts
    PROVE  Good(s \o Tail(q), c, g, arr, w)
<1>1. CASE Body(q, c, g, arr, w)
  <2>1. Side(q[1], g, c)
    BY <1>1, BodyHead
  <2>2. Branching(q[1], c)
    BY <2>1, SideKinds
  <2>3. CASE s = <<>>
    <3>1. Body(Tail(q), c, g, arr, w)
      BY <1>1, BodyTail
    <3>2. IsScript(Tail(q))
      BY <3>1 DEF Body
    <3>3. s \o Tail(q) = Tail(q)
      BY <2>3, <3>2, EmptyConcat
    <3> QED
      BY <3>1, <3>3 DEF Good, Rest
  <2>4. CASE s # <<>>
    <3>1. s = <<s[1]>> /\ TryRead(s[1], c)
      BY <2>2, <2>4 DEF Branching
    <3>2. Body(<<s[1]>> \o Tail(q), c, g, arr, w)
      BY <1>1, <3>1, BodyBranch
    <3> QED
      BY <3>1, <3>2 DEF Good, Rest
  <2> QED
    BY <2>3, <2>4
<1>2. CASE q = XferChoice /\ ArgOnly(g) /\ w >= 4 /\ c.cmd = "ioctl_xfer_cmd"
  <2>1. IsScript(s) /\ Good(s, c, g, arr, w)
    BY <1>2, XferGood
  <2>2. Tail(q) = <<>>
    BY <1>2 DEF XferChoice
  <2>3. s \o Tail(q) = s
    BY <2>1, <2>2, EmptyConcat
  <2> QED
    BY <2>1, <2>3
<1> QED
  BY <1>1, <1>2, GoodHeads

\* The parameters of a control.
LEMMA ParametersGood ==
    ASSUME NEW q, NEW c, NEW g, NEW arr, NEW w \in Int,
           NEW cmd \in Controls, NEW n \in ControlSizes(cmd),
           Good(q, c, g, arr, w), q[1].op = "payload"
    PROVE  n \in Nat /\ Good(decode_nvos54_payload(cmd, n), c, g, arr, w)
<1>1. ~Body(q, c, g, arr, w)
  <2> SUFFICES ASSUME Body(q, c, g, arr, w) PROVE FALSE
    OBVIOUS
  <2>1. Side(q[1], g, c)
    BY BodyHead
  <2> QED
    BY <2>1, SideKinds
<1>2. ArgOnly(g) /\ w >= 3
  BY <1>1, GoodHeads
<1>3. n \in Nat
  BY SizesNat
<1> QED
  BY <1>2, <1>3, PayloadGood

\* The status, which is the last step.
LEMMA PutLast ==
    ASSUME NEW q, NEW c, NEW g, NEW arr, NEW w,
           Good(q, c, g, arr, w), q[1].op = "put"
    PROVE  Tail(q) = <<>> /\ TrueStatus(q[1].status, c, g)
<1>1. Body(q, c, g, arr, w)
  BY GoodHeads
<1>2. Len(q) = 1 /\ TrueStatus(q[1].status, c, g)
  BY <1>1, BodyPutHead
<1>3. IsScript(q) /\ Len(q) > 0
  BY GoodScript
<1>4. IsScript(Tail(q)) /\ Len(Tail(q)) = Len(q) - 1
  BY <1>3, ScriptTail
<1>5. Tail(q) = <<>>
  <2> DEFINE r == Tail(q)
             n == Len(q)
  <2>1. IsScript(r) /\ Len(r) = n - 1 /\ n = 1
    BY <1>2, <1>4
  <2> HIDE DEF r, n
  <2>2. ~(Len(r) > 0)
    BY <2>1
  <2>3. r = <<>>
    BY <2>1, <2>2, ScriptNonempty
  <2> QED
    BY <2>3 DEF r
<1> QED
  BY <1>2, <1>5

\* The status of the inner object, which is the last step but one.
LEMMA InnerLast ==
    ASSUME NEW q, NEW c, NEW g, NEW arr, NEW w \in Int,
           Good(q, c, g, arr, w), q[1].op = "inner"
    PROVE  /\ Good(Tail(q), c, g, arr, w)
           /\ Len(Tail(q)) = 1 /\ Tail(q)[1].op = "put"
           /\ q[1].status = "ok" => "params" \in g
<1>1. Body(q, c, g, arr, w)
  BY GoodHeads
<1>2. ~Side(q[1], g, c)
  BY SideKinds
<1>3. Len(q) = 2 /\ (q[1].status = "ok" => "params" \in g)
  BY <1>1, <1>2, BodyHead
<1>4. Body(Tail(q), c, g, arr, w)
  BY <1>1, BodyTail
<1>5. IsScript(q) /\ Len(q) > 0
  BY GoodScript
<1>6. Len(Tail(q)) = 1
  BY <1>3, <1>5, ScriptTail
<1>7. Tail(q)[1].op = "put"
  BY <1>4, <1>6 DEF Body
<1> QED
  BY <1>3, <1>4, <1>6, <1>7 DEF Good, Rest

-----------------------------------------------------------------------------
(* Copies and lists.                                                        *)

\* One more copy takes at most one of those left.
LEMMA AddCopy ==
    ASSUME NEW R, NEW x, IsFiniteSet(R)
    PROVE  /\ IsFiniteSet(R \cup {x})
           /\ CopiesLeft(R) \in Int /\ CopiesLeft(R \cup {x}) \in Int
           /\ CopiesLeft(R \cup {x}) >= CopiesLeft(R) - 1
<1>1. Cardinality(R) \in Nat
  BY FS_CardinalityType
<1>2. /\ IsFiniteSet(R \cup {x})
      /\ Cardinality(R \cup {x}) = IF x \in R THEN Cardinality(R) ELSE Cardinality(R) + 1
  BY FS_AddElement
<1>3. CopyLimit \in Nat
  BY Limits
<1> QED
  BY <1>1, <1>2, <1>3 DEF CopiesLeft

\* A copy that succeeds adds its block, one that fails does not.
LEMMA CopiedMore ==
    ASSUME NEW R, NEW x, NEW from, x.from = from, x.ok
    PROVE  CopiedIn(R \cup {x}) = CopiedIn(R) \cup {from}
BY Zenon DEF CopiedIn

LEMMA CopiedNoMore ==
    ASSUME NEW R, NEW from, NEW off, NEW len, NEW room
    PROVE  CopiedIn(R \cup {Copy(from, off, len, room, FALSE)}) = CopiedIn(R)
<1> DEFINE x == Copy(from, off, len, room, FALSE)
<1>1. ~x.ok
  BY DEF Copy
<1> HIDE DEF x
<1>2. CopiedIn(R \cup {x}) = CopiedIn(R)
  BY <1>1, Zenon DEF CopiedIn
<1> QED
  BY <1>2 DEF x

\* In both cases, at most its block is added.
LEMMA CopiedBounds ==
    ASSUME NEW R, NEW from, NEW off, NEW len, NEW room, NEW ok
    PROVE  /\ CopiedIn(R) \subseteq CopiedIn(R \cup {Copy(from, off, len, room, ok)})
           /\ CopiedIn(R \cup {Copy(from, off, len, room, ok)})
                \subseteq CopiedIn(R) \cup {from}
<1> DEFINE x == Copy(from, off, len, room, ok)
<1>1. x.from = from
  BY DEF Copy
<1> HIDE DEF x
<1>2. CopiedIn(R) \subseteq CopiedIn(R \cup {x})
  BY Zenon DEF CopiedIn
<1>3. CopiedIn(R \cup {x}) \subseteq CopiedIn(R) \cup {from}
  BY <1>1, Zenon DEF CopiedIn
<1> QED
  BY <1>2, <1>3 DEF x

\* When a copy is within its bounds.
LEMMA CopyIsOk ==
    ASSUME NEW c, NEW from, NEW off, NEW len, NEW room, NEW ok,
           room # NoRoom => off + len <= room,
           from = "pointer" => len <= PointerLimit
    PROVE  CopyOk(Copy(from, off, len, room, ok), c)
BY DEF CopyOk, Copy

\* The copy that a step makes.
LEMMA StepCopyOk ==
    ASSUME NEW s, NEW c, NEW ok, InsideRoom(s, c)
    PROVE  CopyOk(Copy(s.from, s.off, s.len, s.room, ok), c)
<1> DEFINE r == Copy(s.from, s.off, s.len, s.room, ok)
<1>1. r.from = s.from /\ r.off = s.off /\ r.len = s.len /\ r.room = s.room
  BY DEF Copy
<1> HIDE DEF r
<1>2. Unchecked(c, s) => Unchecked(c, r)
  BY <1>1, Zenon DEF Unchecked
<1>3. r.room # NoRoom => r.off + r.len <= r.room \/ Unchecked(c, r)
  BY <1>1, <1>2 DEF InsideRoom
<1>4. r.from = "pointer" => r.len <= PointerLimit
  BY <1>1, Limits DEF InsideRoom
<1>5. CopyOk(r, c)
  BY <1>3, <1>4 DEF CopyOk
<1> QED
  BY <1>5 DEF r

\* A list of count elements, of which shown are shown.
Listed(count, shown, unit, cap, arr, raw, flag, truncated) ==
    [count |-> count, shown |-> shown, unit |-> unit, cap |-> cap,
     slices |-> arr, raw |-> raw, flag |-> flag, truncated |-> truncated]

\* The flag of a list is right, or the list has none and its count is raw.
FlagOk(count, shown, unit, raw, flag, truncated) ==
    IF flag THEN IF truncated THEN shown < count ELSE count < shown + unit
    ELSE raw

\* When a list is honest and its slice in the array.
LEMMA ListedOk ==
    ASSUME NEW count, NEW shown, NEW unit, NEW cap, NEW arr, NEW raw, NEW flag,
           NEW truncated, shown <= cap, cap \in arr,
           FlagOk(count, shown, unit, raw, flag, truncated)
    PROVE  ListOk(Listed(count, shown, unit, cap, arr, raw, flag, truncated))
<1> DEFINE l == Listed(count, shown, unit, cap, arr, raw, flag, truncated)
<1>1. /\ l.count = count /\ l.shown = shown /\ l.cap = cap /\ l.slices = arr
      /\ l.raw = raw /\ l.flag = flag /\ l.truncated = truncated /\ l.unit = unit
  BY DEF Listed
<1> HIDE DEF l
<1>2. ListOk(l)
  BY <1>1, Zenon DEF ListOk, FlagOk
<1> QED
  BY <1>2 DEF l

\* Bytes shown are.
LEMMA ShownOk ==
    ASSUME NEW count \in Nat, NEW read \in Nat, NEW unit \in {1, 4}
    PROVE  ListOk(Shown(count, read, unit))
<1> DEFINE shown == read - (read % unit)
           short == read < count
<1>1. Shown(count, read, unit) =
        Listed(count, shown, unit, shown, {shown}, FALSE, TRUE, short)
  BY DEF Shown, Listed
<1>2. /\ shown \in Nat /\ shown <= shown
      /\ IF short THEN shown < count ELSE count < shown + unit
  <2>1. CASE unit = 1
    BY <2>1
  <2>2. CASE unit = 4
    BY <2>2
  <2> QED
    BY <2>1, <2>2
<1> HIDE DEF shown, short
<1>3. FlagOk(count, shown, unit, FALSE, TRUE, short)
  BY <1>2, Zenon DEF FlagOk
<1>4. ListOk(Listed(count, shown, unit, shown, {shown}, FALSE, TRUE, short))
  BY <1>2, <1>3, ListedOk
<1> QED
  BY <1>1, <1>4, Zenon

\* The slice of a list and its "truncated" field, for any count.
LEMMA SliceOk ==
    ASSUME NEW s, NEW count \in Nat, NEW arr, Listing(s), s.cap \in arr
    PROVE  ListOk([count |-> count, shown |-> Least(clamp_count(count, s.cap), s.sample),
                   unit |-> 1, cap |-> s.cap, slices |-> arr, raw |-> s.raw, flag |-> s.flag,
                   truncated |-> Least(clamp_count(count, s.cap), s.sample)
                                  < IF s.sample < s.cap THEN clamp_count(count, s.cap)
                                                        ELSE count])
<1> DEFINE cap == s.cap
           sample == s.sample
           within == clamp_count(count, cap)
           shown == Least(within, sample)
           whole == IF sample < cap THEN within ELSE count
<1>1. cap \in Nat /\ sample \in Nat
  BY DEF Listing
<1>2. s.flag \/ s.raw
  BY Zenon DEF Listing
<1> HIDE DEF cap, sample
<1>3. within = IF count <= cap THEN count ELSE cap
  BY <1>1, LeastIs DEF clamp_count
<1>4. within \in Nat
  BY <1>1, <1>3
<1> HIDE DEF within
<1>5. shown = IF within <= sample THEN within ELSE sample
  BY <1>1, <1>4, LeastIs
<1>6. shown \in Nat
  BY <1>1, <1>4, <1>5
<1> HIDE DEF shown
<1>7. shown <= cap /\ (shown < whole <=> shown < count)
  BY <1>1, <1>3, <1>4, <1>5, <1>6
<1> HIDE DEF whole
<1>8. IF shown < whole THEN shown < count ELSE count < shown + 1
  BY <1>6, <1>7
<1>9. cap \in arr
  BY DEF cap
<1>10. FlagOk(count, shown, 1, s.raw, s.flag, shown < whole)
  BY <1>2, <1>8, Zenon DEF FlagOk
<1>11. ListOk(Listed(count, shown, 1, cap, arr, s.raw, s.flag, shown < whole))
  BY <1>7, <1>9, <1>10, ListedOk, Zenon
<1> QED
  BY <1>11, Zenon DEF Listed, cap, sample, within, shown, whole

\* A list without the flag, whose count is printed as it was found.
LEMMA RawOk ==
    ASSUME NEW cap \in Nat, NEW count \in Nat, NEW arr, cap \in arr
    PROVE  /\ clamp_count(count, cap) \in Nat /\ clamp_count(count, cap) <= count
           /\ ListOk(Listed(count, clamp_count(count, cap), 1, cap, arr, TRUE,
                            FALSE, FALSE))
<1> DEFINE shown == clamp_count(count, cap)
<1>1. shown = IF count <= cap THEN count ELSE cap
  BY LeastIs DEF clamp_count
<1> HIDE DEF shown
<1>2. shown \in Nat /\ shown <= count /\ shown <= cap
  BY <1>1
<1>3. FlagOk(count, shown, 1, TRUE, FALSE, FALSE)
  BY Zenon DEF FlagOk
<1>4. ListOk(Listed(count, shown, 1, cap, arr, TRUE, FALSE, FALSE))
  BY <1>2, <1>3, ListedOk
<1> QED
  BY <1>2, <1>4 DEF shown

\* The flag that two lists share.
LEMMA JointOk ==
    ASSUME NEW count1 \in Nat, NEW count2 \in Nat, NEW shown1 \in Nat,
           NEW shown2 \in Nat, shown1 <= count1, shown2 <= count2
    PROVE  ListOk([Shown(count1 + count2, shown1 + shown2, 1)
                     EXCEPT !.truncated = shown1 < count1 \/ shown2 < count2])
<1> DEFINE count == count1 + count2
           m == shown1 + shown2
           t == shown1 < count1 \/ shown2 < count2
           k == Shown(count, m, 1)
           l == [k EXCEPT !.truncated = t]
<1>1. m \in Nat /\ m <= m /\ m - (m % 1) = m
  OBVIOUS
<1>2. IF t THEN m < count ELSE count < m + 1
  OBVIOUS
<1> HIDE DEF m, t, count
<1>3. l.count = count /\ l.unit = 1
  BY DEF Shown
<1>4. l.shown = m
  BY <1>1 DEF Shown
<1>5. l.cap = m
  BY <1>1 DEF Shown
<1>6. l.slices = {m}
  BY <1>1 DEF Shown
<1>7. l.flag
  BY DEF Shown
<1>8. l.truncated = t
  BY DEF Shown
<1> HIDE DEF l
<1>9. ListOk(l)
  BY <1>1, <1>2, <1>3, <1>4, <1>5, <1>6, <1>7, <1>8, Zenon DEF ListOk
<1> QED
  BY <1>9, Zenon DEF l, k, t, m, count

\* An array behind a pointer, read or not.
LEMMA ArrayOk ==
    ASSUME NEW count \in Nat, NEW n \in Nat, NEW got \in BOOLEAN
    PROVE  ListOk([Shown(count, IF got THEN n ELSE 0, 1)
                     EXCEPT !.raw = TRUE, !.flag = got, !.truncated = n < count])
<1> DEFINE m == IF got THEN n ELSE 0
           t == n < count
           k == Shown(count, m, 1)
           l == [k EXCEPT !.raw = TRUE, !.flag = got, !.truncated = t]
<1>1. m \in Nat /\ m <= m /\ m - (m % 1) = m
  OBVIOUS
<1>2. IF got THEN IF t THEN m < count ELSE count < m + 1 ELSE TRUE
  OBVIOUS
<1> HIDE DEF m, t
<1>3. l.count = count /\ l.unit = 1
  BY DEF Shown
<1>4. l.shown = m
  BY <1>1 DEF Shown
<1>5. l.cap = m
  BY <1>1 DEF Shown
<1>6. l.slices = {m}
  BY <1>1 DEF Shown
<1>7. l.raw
  BY DEF Shown
<1>8. l.flag = got
  BY DEF Shown
<1>9. l.truncated = t
  BY DEF Shown
<1> HIDE DEF l
<1>10. ListOk(l)
  BY <1>1, <1>2, <1>3, <1>4, <1>5, <1>6, <1>7, <1>8, <1>9, Zenon DEF ListOk
<1> QED
  BY <1>10, Zenon DEF l, k, m, t

-----------------------------------------------------------------------------
(* The invariant is inductive.                                              *)

\* In the middle of a decoder.
Midway ==
    /\ call \in Calls /\ ~Silent(call) /\ call # NoCall
    /\ root = <<>> /\ inner = <<>>
    /\ ~(Checked(call) /\ Refused(call))

\* The copies left, and the bound on those made.
LEMMA FiniteLeft ==
    ASSUME NEW R, IsFiniteSet(R)
    PROVE  CopiesLeft(R) \in Int /\ (CopiesLeft(R) >= 0 <=> Cardinality(R) <= CopyLimit)
<1>1. Cardinality(R) \in Nat
  BY FS_CardinalityType
<1>2. CopyLimit \in Nat
  BY Limits
<1> QED
  BY <1>1, <1>2 DEF CopiesLeft

\* Before a step other than the last.
LEMMA InMiddle ==
    ASSUME DecodeInv, NEW op, Next1(op), op # "put"
    PROVE  /\ Midway
           /\ Good(todo, call, Copied, arrays, CopiesLeft(reads))
           /\ Head(todo) = todo[1] /\ todo[1].op = op
           /\ CopiesLeft(reads) \in Int
<1>1. call # NoCall /\ todo # <<>> /\ Head(todo).op = op
  BY DEF Next1
<1>2. /\ IsFiniteSet(reads) /\ Decoding /\ InnerOnce /\ Refusal
  BY DEF DecodeInv
<1>3. call \in Calls /\ ~Silent(call) /\ Running
  BY <1>1, <1>2 DEF Decoding, Finished
<1>4. Good(todo, call, Copied, arrays, CopiesLeft(reads)) /\ root = <<>>
  BY <1>3 DEF Running
<1>5. Head(todo) = todo[1] /\ todo[1].op = op
  BY <1>1, <1>4, GoodScript
<1>6. inner = <<>>
  BY <1>1, <1>2, <1>5 DEF InnerOnce
<1>7. ~(Checked(call) /\ Refused(call))
  <2> SUFFICES ASSUME Checked(call), Refused(call) PROVE FALSE
    OBVIOUS
  <2>1. todo = <<Put("size_mismatch")>>
    BY <1>1, <1>2 DEF Refusal
  <2>2. todo[1].op = "put"
    BY <2>1 DEF Put
  <2> QED
    BY <1>5, <2>2
<1>8. CopiesLeft(reads) \in Int
  BY <1>2, FiniteLeft
<1> QED
  BY <1>1, <1>3, <1>4, <1>5, <1>6, <1>7, <1>8 DEF Midway

\* After a step other than the last.
LEMMA StillMiddle ==
    ASSUME Midway, UNCHANGED <<call, root, inner>>,
           IsFiniteSet(reads'), psize' \in Nat,
           \A r \in reads' : CopyOk(r, call), \A l \in lists' : ListOk(l),
           "params" \in CopiedIn(reads') => "arg" \in CopiedIn(reads'),
           Good(todo', call, CopiedIn(reads'), arrays', CopiesLeft(reads'))
    PROVE  DecodeInv'
<1>1. call' = call /\ root' = <<>> /\ inner' = <<>> /\ call \in Calls
      /\ ~Silent(call) /\ call # NoCall /\ ~(Checked(call) /\ Refused(call))
  BY DEF Midway
<1>2. Copied' = CopiedIn(reads')
  BY DEF Copied
<1>3. todo' # <<>>
  BY GoodNonempty
<1>4. CopiesLeft(reads') \in Int
  BY FiniteLeft
<1>5. CopiesLeft(reads') >= 0
  BY <1>4, GoodMore
<1>6. Good(todo', call', Copied', arrays', CopiesLeft(reads'))
  BY <1>1, <1>2
<1>7. Running'
  BY <1>1, <1>3, <1>6 DEF Running
<1>8. Decoding'
  BY <1>1, <1>7 DEF Decoding
<1>9. Idle' /\ InnerOnce' /\ Refusal'
  BY <1>1 DEF Idle, InnerOnce, Refusal
<1> QED
  BY <1>2, <1>5, <1>8, <1>9 DEF DecodeInv

\* Before the first ioctl nothing is being decoded, and the invariant holds.
THEOREM InitDecodeInv ==
    ASSUME Init
    PROVE  DecodeInv
<1>1. IsFiniteSet({}) /\ Cardinality({}) = 0
  BY FS_EmptySet
<1>2. CopiesLeft(reads) >= 0
  BY <1>1, Limits DEF CopiesLeft, Init
<1>3. Copied = {}
  BY DEF Copied, CopiedIn, Init
<1> QED
  BY <1>1, <1>2, <1>3 DEF DecodeInv, Init, Idle, Decoding, InnerOnce, Refusal

\* summarize_ioctl starts a decoder: its script is good.
LEMMA StartInv ==
    ASSUME DecodeInv, NEW c \in Calls, Start(c)
    PROVE  DecodeInv'
<1>1. /\ call = NoCall /\ call' = c /\ todo' = Script(c)
      /\ UNCHANGED <<arrays, psize, root, inner, reads, lists>>
  BY DEF Start
<1>2. root = <<>> /\ inner = <<>> /\ reads = {} /\ arrays = {}
  BY <1>1 DEF DecodeInv, Idle
<1>3. c # NoCall
  BY CallKinds
<1>4. Copied = {} /\ Copied' = {}
  BY <1>1, <1>2 DEF Copied, CopiedIn
<1>5. CopiesLeft(reads') = CopyLimit
  BY <1>1, <1>2, FS_EmptySet, Limits DEF CopiesLeft
<1>6. Silent(c) => todo' = <<>>
  BY <1>1, ScriptGood
<1>7. ~Silent(c) => Decoder(todo', c)
  BY <1>1, ScriptGood
<1>8. Decoding'
  <2>1. ~Silent(c) => todo' # <<>> /\ Good(todo', c, {}, {}, CopyLimit)
    BY <1>7 DEF Decoder, StartGood
  <2>2. ~Silent(c) => Running'
    BY <1>1, <1>2, <1>4, <1>5, <2>1 DEF Running
  <2> QED
    BY <1>1, <1>2, <1>6, <2>2 DEF Decoding
<1>9. Refusal'
  <2> SUFFICES ASSUME Checked(c), Refused(c) PROVE todo' = <<Put("size_mismatch")>>
    BY <1>1 DEF Refusal
  <2>1. ~Silent(c)
    BY Zenon DEF Silent, Checked
  <2> QED
    BY <1>7, <2>1 DEF Decoder
<1>10. Idle' /\ InnerOnce'
  BY <1>1, <1>2, <1>3 DEF Idle, InnerOnce
<1>11. CopiesLeft(reads') >= 0
  BY <1>5, Limits
<1>12. reads' = {} /\ IsFiniteSet(reads')
  BY <1>1, <1>2, FS_EmptySet
<1>13. psize' \in Nat /\ \A l \in lists' : ListOk(l)
  BY <1>1 DEF DecodeInv
<1>14. \A r \in reads' : CopyOk(r, call')
  BY <1>12, Zenon
<1> QED
  BY <1>4, <1>8, <1>9, <1>10, <1>11, <1>12, <1>13, <1>14 DEF DecodeInv

\* Steps that make no copy: what they show is honest, and the script they
\* leave is good.
LEMMA NoCopyInv ==
    ASSUME DecodeInv, Midway, UNCHANGED <<call, root, inner, reads>>, psize' \in Nat,
           \A l \in lists' : ListOk(l),
           Good(todo', call, Copied, arrays', CopiesLeft(reads))
    PROVE  DecodeInv'
<1>1. reads' = reads /\ Copied = CopiedIn(reads)
  BY DEF Copied
<1>2. /\ IsFiniteSet(reads) /\ \A r \in reads : CopyOk(r, call)
      /\ "params" \in Copied => "arg" \in Copied
  BY DEF DecodeInv
<1>3. Good(todo', call, CopiedIn(reads'), arrays', CopiesLeft(reads'))
  BY <1>1
<1> QED
  BY <1>1, <1>2, <1>3, StillMiddle

\* Steps that make one copy.
LEMMA OneCopyInv ==
    ASSUME DecodeInv, Midway, UNCHANGED <<call, root, inner, psize>>,
           NEW x, NEW h, reads' = reads \cup {x}, CopyOk(x, call),
           h = CopiedIn(reads \cup {x}), "params" \in h => "arg" \in h,
           \A l \in lists' : ListOk(l),
           \A v \in Int : v >= CopiesLeft(reads) - 1 => Good(todo', call, h, arrays', v)
    PROVE  DecodeInv'
<1>1. IsFiniteSet(reads) /\ (\A r \in reads : CopyOk(r, call)) /\ psize \in Nat
  BY DEF DecodeInv
<1>2. /\ IsFiniteSet(reads') /\ CopiesLeft(reads') \in Int
      /\ CopiesLeft(reads') >= CopiesLeft(reads) - 1
  BY <1>1, AddCopy
<1>3. Good(todo', call, CopiedIn(reads'), arrays', CopiesLeft(reads'))
  BY <1>2
<1>4. \A r \in reads' : CopyOk(r, call)
  BY <1>1
<1>5. "params" \in CopiedIn(reads') => "arg" \in CopiedIn(reads')
  OBVIOUS
<1>6. psize' \in Nat /\ UNCHANGED <<call, root, inner>>
  BY <1>1
<1> QED
  BY <1>2, <1>3, <1>4, <1>5, <1>6, StillMiddle

\* ... behind a pointer, or of the last parameter.
LEMMA SideCopyInv ==
    ASSUME DecodeInv, Midway, UNCHANGED <<call, root, inner, psize, arrays>>,
           NEW from, NEW off, NEW len, NEW room, NEW ok,
           reads' = reads \cup {Copy(from, off, len, room, ok)}, todo' = Tail(todo),
           room # NoRoom => off + len <= room,
           from = "pointer" => len <= PointerLimit,
           from \in {"pointer", "params"}, from = "params" => "arg" \in Copied,
           \A l \in lists' : ListOk(l),
           Good(todo, call, Copied, arrays, CopiesLeft(reads)),
           todo[1].op \in {"array", "text", "blob", "last"}
    PROVE  DecodeInv'
<1> DEFINE x == Copy(from, off, len, room, ok)
           h == CopiedIn(reads \cup {x})
<1>1. CopyOk(x, call)
  BY CopyIsOk
<1>2. Copied \subseteq h /\ h \subseteq Copied \cup {from}
  BY CopiedBounds DEF Copied
<1>3. "params" \in Copied => "arg" \in Copied
  BY DEF DecodeInv
<1>4. CopiesLeft(reads) \in Int
  BY FiniteLeft DEF DecodeInv
<1> HIDE DEF x
<1>5. h = CopiedIn(reads \cup {x}) /\ reads' = reads \cup {x}
  BY DEF x
<1> HIDE DEF h
<1>6. "params" \in h => "arg" \in h
  BY <1>2, <1>3
<1>7. ASSUME NEW v \in Int, v >= CopiesLeft(reads) - 1
      PROVE  Good(todo', call, h, arrays', v)
  <2>1. Good(Tail(todo), call, h, arrays, v)
    BY <1>2, <1>4, <1>7, SideGood
  <2> QED
    BY <2>1
<1> QED
  BY <1>1, <1>5, <1>6, <1>7, OneCopyInv

\* A copy of memory, that succeeds or fails.
LEMMA ReadMemoryInv ==
    ASSUME DecodeInv, NEW ok \in BOOLEAN, ReadMemory(ok)
    PROVE  DecodeInv'
<1> DEFINE s == todo[1]
<1>1. /\ Midway /\ Good(todo, call, Copied, arrays, CopiesLeft(reads))
      /\ Head(todo) = s /\ s.op = "read" /\ CopiesLeft(reads) \in Int
  BY InMiddle DEF ReadMemory
<1>2. /\ reads' = reads \cup {Copy(s.from, s.off, s.len, s.room, ok)}
      /\ arrays' = IF ok THEN s.lens ELSE arrays
      /\ todo' = IF ~ok /\ s.must THEN s.bad ELSE Tail(todo)
      /\ UNCHANGED <<call, psize, root, inner, lists>>
  BY <1>1, Zenon DEF ReadMemory
<1>3. InsideRoom(s, call) /\ (s.from = "params" => "arg" \in Copied)
  BY <1>1, ReadInside
<1>4. \A l \in lists' : ListOk(l)
  BY <1>2 DEF DecodeInv
<1>7. "params" \in Copied => "arg" \in Copied
  BY DEF DecodeInv
<1>8. CASE ok = TRUE
  <2> DEFINE x == Copy(s.from, s.off, s.len, s.room, TRUE)
             h == Copied \cup {s.from}
  <2>1. CopyOk(x, call)
    BY <1>3, StepCopyOk
  <2>2. h = CopiedIn(reads \cup {x})
    <3>1. x.from = s.from /\ x.ok
      BY DEF Copy
    <3> HIDE DEF x
    <3>2. CopiedIn(reads \cup {x}) = CopiedIn(reads) \cup {s.from}
      BY <3>1, CopiedMore
    <3> QED
      BY <3>2 DEF Copied
  <2>3. reads' = reads \cup {x} /\ todo' = Tail(todo) /\ arrays' = s.lens
    BY <1>2, <1>8, Zenon
  <2>4. "params" \in h => "arg" \in h
    BY <1>3, <1>7
  <2>5. ASSUME NEW v \in Int, v >= CopiesLeft(reads) - 1
        PROVE  Good(todo', call, h, arrays', v)
    BY <1>1, <2>3, <2>5, CopyGood
  <2> HIDE DEF x, h
  <2>6. UNCHANGED <<call, root, inner, psize>>
    BY <1>2, Zenon
  <2> QED
    BY <1>1, <1>4, <2>1, <2>2, <2>3, <2>4, <2>5, <2>6, OneCopyInv
<1>9. CASE ok = FALSE
  <2> DEFINE x == Copy(s.from, s.off, s.len, s.room, FALSE)
  <2>1. CopyOk(x, call)
    BY <1>3, StepCopyOk
  <2>2. Copied = CopiedIn(reads \cup {x})
    BY CopiedNoMore DEF Copied
  <2>3. reads' = reads \cup {x} /\ arrays' = arrays
    BY <1>2, <1>9, Zenon
  <2>4. Must(s) => todo' = s.bad
    BY <1>2, <1>9, Zenon DEF Must
  <2>5. s.must = FALSE => todo' = Tail(todo)
    BY <1>2, <1>9, Zenon
  <2>6. ASSUME NEW v \in Int, v >= CopiesLeft(reads) - 1
        PROVE  Good(todo', call, Copied, arrays', v)
    <3>1. \/ Must(s) /\ Good(s.bad, call, Copied, arrays, v)
          \/ s.must = FALSE /\ Good(Tail(todo), call, Copied, arrays, v)
      BY <1>1, <2>6, NoCopyGood
    <3> QED
      BY <2>3, <2>4, <2>5, <3>1, Zenon
  <2> HIDE DEF x
  <2>7. UNCHANGED <<call, root, inner, psize>>
    BY <1>2, Zenon
  <2> QED
    BY <1>1, <1>4, <1>7, <2>1, <2>2, <2>3, <2>6, <2>7, OneCopyInv
<1> QED
  BY <1>8, <1>9

\* The last field of the parameters.
LEMMA ReadLastInv ==
    ASSUME DecodeInv, NEW ok \in BOOLEAN, ReadLast(ok)
    PROVE  DecodeInv'
<1> DEFINE s == todo[1]
           off == psize - s.t.size
           len == s.t.size
<1>1. /\ Midway /\ Good(todo, call, Copied, arrays, CopiesLeft(reads))
      /\ Head(todo) = s /\ s.op = "last" /\ CopiesLeft(reads) \in Int
  BY InMiddle DEF ReadLast
<1>2. /\ reads' = reads \cup {Copy("params", off, len, psize, ok)}
      /\ todo' = Tail(todo)
      /\ UNCHANGED <<call, arrays, psize, root, inner, lists>>
  BY <1>1, Zenon DEF ReadLast
<1>3. Side(s, Copied, call)
  <2>1. CopiesLeft(reads) >= CopiesLeft(reads) - 1
    BY <1>1
  <2> QED
    BY <1>1, <2>1, SideGood
<1>4. {"arg", "params"} \subseteq Copied /\ s.t = U64
  BY <1>1, <1>3, SideKinds
<1>5. len = 8
  BY <1>4 DEF U64
<1>6. psize \in Nat /\ \A l \in lists' : ListOk(l)
  BY <1>2 DEF DecodeInv
<1>7. off + len <= psize
  BY <1>5, <1>6
<1>8. "arg" \in Copied
  BY <1>4
<1>9. UNCHANGED <<call, root, inner, psize, arrays>>
  BY <1>2
<1> HIDE DEF off, len
<1> QED
  BY <1>1, <1>2, <1>6, <1>7, <1>8, <1>9, SideCopyInv

\* A list of the structure last copied, for any count found in it.
LEMMA ShowListInv ==
    ASSUME DecodeInv, NEW count \in Around(Head(todo).cap), ShowList(count)
    PROVE  DecodeInv'
<1> DEFINE s == todo[1]
           l == [count |-> count,
                 shown |-> Least(clamp_count(count, s.cap), s.sample),
                 unit |-> 1, cap |-> s.cap, slices |-> arrays, raw |-> s.raw, flag |-> s.flag,
                 truncated |-> Least(clamp_count(count, s.cap), s.sample)
                                  < IF s.sample < s.cap THEN clamp_count(count, s.cap)
                                                        ELSE count]
<1>1. /\ Midway /\ Good(todo, call, Copied, arrays, CopiesLeft(reads))
      /\ Head(todo) = s /\ s.op = "list" /\ CopiesLeft(reads) \in Int
  BY InMiddle DEF ShowList
<1>2. /\ lists' = lists \cup {l} /\ todo' = Tail(todo)
      /\ UNCHANGED <<call, arrays, psize, root, inner, reads>>
  BY <1>1, Zenon DEF ShowList
<1>3. /\ Body(todo, call, Copied, arrays, CopiesLeft(reads)) /\ Side(s, Copied, call)
      /\ Good(Tail(todo), call, Copied, arrays, CopiesLeft(reads))
  BY <1>1, SideGood
<1>4. Listing(s)
  BY <1>1, <1>3, SideKinds
<1>5. s.cap \in arrays
  BY <1>1, <1>3, BodyHead
<1>6. count \in Nat
  BY <1>1, <1>4, AroundNat DEF Listing
<1>7. ListOk(l)
  BY <1>4, <1>5, <1>6, SliceOk
<1> HIDE DEF l
<1>8. psize' \in Nat /\ \A k \in lists' : ListOk(k)
  BY <1>2, <1>7 DEF DecodeInv
<1>9. Good(todo', call, Copied, arrays', CopiesLeft(reads))
  BY <1>2, <1>3
<1> QED
  BY <1>1, <1>2, <1>8, <1>9, NoCopyInv

LEMMA ShowPairInv ==
    ASSUME DecodeInv, NEW count1 \in Around(Head(todo).cap),
           NEW count2 \in Around(Head(todo).cap), ShowPair(count1, count2)
    PROVE  DecodeInv'
<1> DEFINE s == todo[1]
           cap == s.cap
           shown1 == clamp_count(count1, cap)
           shown2 == clamp_count(count2, cap)
           l1 == Listed(count1, shown1, 1, cap, arrays, TRUE, FALSE, FALSE)
           l2 == Listed(count2, shown2, 1, cap, arrays, TRUE, FALSE, FALSE)
           l == [Shown(count1 + count2, shown1 + shown2, 1)
                   EXCEPT !.truncated = shown1 < count1 \/ shown2 < count2]
<1>1. /\ Midway /\ Good(todo, call, Copied, arrays, CopiesLeft(reads))
      /\ Head(todo) = s /\ s.op = "list" /\ CopiesLeft(reads) \in Int
  BY InMiddle DEF ShowPair
<1>2. /\ lists' = lists \cup {l1, l2, l} /\ todo' = Tail(todo)
      /\ UNCHANGED <<call, arrays, psize, root, inner, reads>>
  BY <1>1, Zenon DEF ShowPair, Listed
<1>3. /\ Body(todo, call, Copied, arrays, CopiesLeft(reads)) /\ Side(s, Copied, call)
      /\ Good(Tail(todo), call, Copied, arrays, CopiesLeft(reads))
  BY <1>1, SideGood
<1>4. Listing(s)
  BY <1>1, <1>3, SideKinds
<1>5. cap \in arrays /\ cap \in Nat
  BY <1>1, <1>3, <1>4, BodyHead DEF Listing
<1>6. count1 \in Nat /\ count2 \in Nat
  BY <1>1, <1>4, AroundNat DEF Listing
<1> HIDE DEF cap
<1>7. /\ shown1 \in Nat /\ shown1 <= count1 /\ ListOk(l1)
      /\ shown2 \in Nat /\ shown2 <= count2 /\ ListOk(l2)
  BY <1>5, <1>6, RawOk
<1> HIDE DEF shown1, shown2, l1, l2
<1>8. ListOk(l)
  BY <1>6, <1>7, JointOk
<1> HIDE DEF l
<1>9. psize' \in Nat /\ \A k \in lists' : ListOk(k)
  BY <1>2, <1>7, <1>8 DEF DecodeInv
<1>10. Good(todo', call, Copied, arrays', CopiesLeft(reads))
  BY <1>2, <1>3
<1> QED
  BY <1>1, <1>2, <1>9, <1>10, NoCopyInv

\* Bytes that were copied are shown.
LEMMA ShowCountedInv ==
    ASSUME DecodeInv, ShowCounted
    PROVE  DecodeInv'
<1> DEFINE s == todo[1]
           l == Shown(s.count, s.read, s.unit)
<1>1. /\ Midway /\ Good(todo, call, Copied, arrays, CopiesLeft(reads))
      /\ Head(todo) = s /\ s.op = "show" /\ CopiesLeft(reads) \in Int
  BY InMiddle DEF ShowCounted
<1>2. /\ lists' = lists \cup {l} /\ todo' = Tail(todo)
      /\ UNCHANGED <<call, arrays, psize, root, inner, reads>>
  BY <1>1, Zenon DEF ShowCounted
<1>3. Side(s, Copied, call) /\ Good(Tail(todo), call, Copied, arrays, CopiesLeft(reads))
  BY <1>1, SideGood
<1>4. s.count \in Nat /\ s.read \in Nat /\ s.unit \in {1, 4}
  BY <1>1, <1>3, SideKinds DEF Showing
<1>5. ListOk(l)
  BY <1>4, ShownOk
<1> HIDE DEF l
<1>6. psize' \in Nat /\ \A k \in lists' : ListOk(k)
  BY <1>2, <1>5 DEF DecodeInv
<1>7. Good(todo', call, Copied, arrays', CopiesLeft(reads))
  BY <1>2, <1>3
<1> QED
  BY <1>1, <1>2, <1>6, <1>7, NoCopyInv

\* The count of arrays behind pointers.
LEMMA FollowCountInv ==
    ASSUME DecodeInv, NEW count \in Around(MaxCtrlListItems), FollowCount(count)
    PROVE  DecodeInv'
<1> DEFINE s == todo[1]
           n == Least(count, MaxCtrlListItems)
<1>1. /\ Midway /\ Good(todo, call, Copied, arrays, CopiesLeft(reads))
      /\ Head(todo) = s /\ s.op = "indirect" /\ CopiesLeft(reads) \in Int
  BY InMiddle DEF FollowCount
<1>2. /\ todo' = [i \in 1..s.copies |-> Array(s.size, n, count)] \o Tail(todo)
      /\ UNCHANGED <<call, arrays, psize, root, inner, reads, lists>>
  BY <1>1, Zenon DEF FollowCount
<1>3. MaxCtrlListItems \in Nat \ {0}
  BY DEF MaxCtrlListItems
<1>4. count \in Nat
  BY <1>3, AroundNat
<1>5. n = IF count <= MaxCtrlListItems THEN count ELSE MaxCtrlListItems
  BY <1>3, <1>4, LeastIs
<1>6. n \in Nat /\ n <= MaxCtrlListItems /\ n <= count
  BY <1>3, <1>4, <1>5
<1> HIDE DEF n
<1>7. Good(todo', call, Copied, arrays', CopiesLeft(reads))
  BY <1>1, <1>2, <1>4, <1>6, IndirectGood
<1>8. psize' \in Nat /\ \A k \in lists' : ListOk(k)
  BY <1>2 DEF DecodeInv
<1> QED
  BY <1>1, <1>2, <1>7, <1>8, NoCopyInv

\* One of these arrays.
LEMMA FollowArrayInv ==
    ASSUME DecodeInv, NEW null \in BOOLEAN, NEW ok \in BOOLEAN, FollowArray(null, ok)
    PROVE  DecodeInv'
<1> DEFINE s == todo[1]
           n == s.shown
           count == s.count
           len == n * s.size
           room == count * s.size
           read == ~null /\ n > 0
           got == read /\ ok
           l == [Shown(count, IF got THEN n ELSE 0, 1)
                   EXCEPT !.raw = TRUE, !.flag = got, !.truncated = n < count]
<1>1. /\ Midway /\ Good(todo, call, Copied, arrays, CopiesLeft(reads))
      /\ Head(todo) = s /\ s.op = "array" /\ CopiesLeft(reads) \in Int
  BY InMiddle DEF FollowArray
<1>2. /\ reads' = reads \cup (IF read THEN {Copy("pointer", 0, len, room, ok)} ELSE {})
      /\ lists' = lists \cup {l} /\ todo' = Tail(todo)
      /\ UNCHANGED <<call, arrays, psize, root, inner>>
  BY <1>1, Zenon DEF FollowArray
<1>3. /\ Side(s, Copied, call)
      /\ Good(Tail(todo), call, Copied, arrays, CopiesLeft(reads))
  <2>1. CopiesLeft(reads) >= CopiesLeft(reads) - 1
    BY <1>1
  <2> QED
    BY <1>1, <2>1, SideGood
<1>4. Following(s)
  BY <1>1, <1>3, SideKinds
<1>5. s.size \in {4, 8} /\ n \in 0..64 /\ count \in Nat /\ n <= count
  BY <1>1, <1>4 DEF Following, MaxCtrlListItems
<1>6. 0 + len <= room /\ len <= PointerLimit
  <2>1. PointerLimit \in Nat /\ PointerLimit >= 512
    BY Limits
  <2>2. CASE s.size = 4
    BY <1>5, <2>1, <2>2
  <2>3. CASE s.size = 8
    BY <1>5, <2>1, <2>3
  <2> QED
    BY <1>5, <2>2, <2>3
<1>7. n \in Nat /\ got \in BOOLEAN
  BY <1>5
<1> HIDE DEF got, n, count
<1>8. ListOk(l)
  BY <1>5, <1>7, ArrayOk
<1> HIDE DEF l, len, room, s
<1>9. \A k \in lists' : ListOk(k)
  BY <1>2, <1>8 DEF DecodeInv
<1>10. psize' \in Nat
  BY <1>2 DEF DecodeInv
<1>11. CASE read
  <2>1. reads' = reads \cup {Copy("pointer", 0, len, room, ok)}
    BY <1>2, <1>11, Zenon
  <2>2. todo' = Tail(todo) /\ UNCHANGED <<call, root, inner, psize, arrays>>
    BY <1>2, Zenon
  <2>3. todo[1].op = "array"
    BY <1>1 DEF s
  <2> QED
    BY <1>1, <1>6, <1>9, <2>1, <2>2, <2>3, SideCopyInv
<1>12. CASE ~read
  <2>1. reads' = reads
    BY <1>2, <1>12
  <2>2. Good(todo', call, Copied, arrays', CopiesLeft(reads))
    BY <1>2, <1>3
  <2>3. UNCHANGED <<call, root, inner, reads>>
    BY <1>2, <2>1, Zenon
  <2> QED
    BY <1>1, <1>9, <1>10, <2>2, <2>3, NoCopyInv
<1> QED
  BY <1>11, <1>12

\* Bytes behind a pointer: at most the length given with it, and the limit.
LEMMA LimitedCopy ==
    ASSUME NEW limit \in 16..Max({MaxBlob, 128}), NEW len \in Nat
    PROVE  /\ Least(len, limit) \in Nat
           /\ 0 + Least(len, limit) <= len /\ Least(len, limit) <= PointerLimit
<1>1. MaxBlob \in Nat /\ PointerLimit \in Nat /\ PointerLimit >= MaxBlob
        /\ PointerLimit >= 128
  BY Limits
<1>2. Max({MaxBlob, 128}) = IF MaxBlob >= 128 THEN MaxBlob ELSE 128
  BY <1>1, MaxIs
<1>3. limit \in Nat \ {0} /\ limit <= PointerLimit
  BY <1>1, <1>2
<1>4. Least(len, limit) = IF len <= limit THEN len ELSE limit
  BY <1>3, LeastIs
<1> QED
  BY <1>1, <1>3, <1>4

\* The lengths an action is given are numbers.
LEMMA LengthsNat ==
    ASSUME NEW limit \in 16..Max({MaxBlob, 128}), NEW len \in Around(limit)
    PROVE  len \in Nat
<1>1. MaxBlob \in Nat
  BY Limits
<1>2. Max({MaxBlob, 128}) \in Nat
  BY <1>1, MaxIs
<1>3. limit \in Nat \ {0}
  BY <1>2
<1> QED
  BY <1>3, AroundNat

\* A string behind a pointer.
LEMMA FollowTextInv ==
    ASSUME DecodeInv, NEW len \in Around(Head(todo).limit), NEW ok \in BOOLEAN,
           FollowText(len, ok)
    PROVE  DecodeInv'
<1> DEFINE s == todo[1]
           n == Least(len, s.limit)
<1>1. /\ Midway /\ Good(todo, call, Copied, arrays, CopiesLeft(reads))
      /\ Head(todo) = s /\ s.op = "text" /\ CopiesLeft(reads) \in Int
  BY InMiddle DEF FollowText
<1>2. /\ reads' = reads \cup (IF len > 0 THEN {Copy("pointer", 0, n, len, ok)} ELSE {})
      /\ todo' = Tail(todo)
      /\ UNCHANGED <<call, arrays, psize, root, inner, lists>>
  BY <1>1, Zenon DEF FollowText
<1>3. /\ Side(s, Copied, call)
      /\ Good(Tail(todo), call, Copied, arrays, CopiesLeft(reads))
  <2>1. CopiesLeft(reads) >= CopiesLeft(reads) - 1
    BY <1>1
  <2> QED
    BY <1>1, <2>1, SideGood
<1>4. s.limit \in 16..Max({MaxBlob, 128})
  BY <1>1, <1>3, SideKinds DEF Following
<1>5. len \in Nat /\ 0 + n <= len /\ n <= PointerLimit
  BY <1>1, <1>4, LengthsNat, LimitedCopy
<1> HIDE DEF n
<1>6. psize' \in Nat /\ \A k \in lists' : ListOk(k)
  BY <1>2 DEF DecodeInv
<1>7. CASE len > 0
  <2>1. reads' = reads \cup {Copy("pointer", 0, n, len, ok)}
    BY <1>2, <1>7, Zenon
  <2>2. todo' = Tail(todo) /\ UNCHANGED <<call, root, inner, psize, arrays>>
    BY <1>2, Zenon
  <2> QED
    BY <1>1, <1>5, <1>6, <2>1, <2>2, SideCopyInv
<1>8. CASE ~(len > 0)
  <2>1. reads' = reads
    BY <1>2, <1>8
  <2>2. Good(todo', call, Copied, arrays', CopiesLeft(reads))
    BY <1>2, <1>3
  <2>3. UNCHANGED <<call, root, inner, reads>>
    BY <1>2, <2>1, Zenon
  <2> QED
    BY <1>1, <1>6, <2>2, <2>3, NoCopyInv
<1> QED
  BY <1>7, <1>8

\* A blob behind a pointer.
LEMMA FollowBlobInv ==
    ASSUME DecodeInv, NEW len \in Around(Head(todo).limit), NEW ok \in BOOLEAN,
           FollowBlob(len, ok)
    PROVE  DecodeInv'
<1> DEFINE s == todo[1]
           n == Least(len, s.limit)
<1>1. /\ Midway /\ Good(todo, call, Copied, arrays, CopiesLeft(reads))
      /\ Head(todo) = s /\ s.op = "blob" /\ CopiesLeft(reads) \in Int
  BY InMiddle DEF FollowBlob
<1>2. /\ reads' = reads \cup (IF len > 0 THEN {Copy("pointer", 0, n, len, ok)} ELSE {})
      /\ lists' = lists \cup (IF len > 0 /\ ok THEN {Shown(len, n, 1)} ELSE {})
      /\ todo' = Tail(todo)
      /\ UNCHANGED <<call, arrays, psize, root, inner>>
  BY <1>1, Zenon DEF FollowBlob
<1>3. /\ Side(s, Copied, call)
      /\ Good(Tail(todo), call, Copied, arrays, CopiesLeft(reads))
  <2>1. CopiesLeft(reads) >= CopiesLeft(reads) - 1
    BY <1>1
  <2> QED
    BY <1>1, <2>1, SideGood
<1>4. s.limit \in 16..Max({MaxBlob, 128})
  BY <1>1, <1>3, SideKinds DEF Following
<1>5. len \in Nat /\ n \in Nat /\ 0 + n <= len /\ n <= PointerLimit
  BY <1>1, <1>4, LengthsNat, LimitedCopy
<1> HIDE DEF n
<1>6. ListOk(Shown(len, n, 1))
  BY <1>5, ShownOk
<1>7. lists' \subseteq lists \cup {Shown(len, n, 1)}
  BY <1>2, Zenon
<1>8. psize' \in Nat /\ \A k \in lists' : ListOk(k)
  BY <1>2, <1>6, <1>7 DEF DecodeInv
<1>9. CASE len > 0
  <2>1. reads' = reads \cup {Copy("pointer", 0, n, len, ok)}
    BY <1>2, <1>9, Zenon
  <2>2. todo' = Tail(todo) /\ UNCHANGED <<call, root, inner, psize, arrays>>
    BY <1>2, Zenon
  <2> QED
    BY <1>1, <1>5, <1>8, <2>1, <2>2, SideCopyInv
<1>10. CASE ~(len > 0)
  <2>1. reads' = reads
    BY <1>2, <1>10
  <2>2. Good(todo', call, Copied, arrays', CopiesLeft(reads))
    BY <1>2, <1>3
  <2>3. UNCHANGED <<call, root, inner, reads>>
    BY <1>2, <2>1, Zenon
  <2> QED
    BY <1>1, <1>8, <2>2, <2>3, NoCopyInv
<1> QED
  BY <1>9, <1>10

\* A choice by a value in memory.
LEMMA ChooseInv ==
    ASSUME DecodeInv, NEW s \in Head(todo).scripts, Choose(s)
    PROVE  DecodeInv'
<1>1. /\ Midway /\ Good(todo, call, Copied, arrays, CopiesLeft(reads))
      /\ Head(todo) = todo[1] /\ todo[1].op = "oneof" /\ CopiesLeft(reads) \in Int
  BY InMiddle DEF Choose
<1>2. /\ todo' = s \o Tail(todo)
      /\ UNCHANGED <<call, arrays, psize, root, inner, reads, lists>>
  BY DEF Choose
<1>3. Good(s \o Tail(todo), call, Copied, arrays, CopiesLeft(reads))
  BY <1>1, ChooseGood
<1>4. psize' \in Nat /\ \A k \in lists' : ListOk(k)
  BY <1>2 DEF DecodeInv
<1>5. Good(todo', call, Copied, arrays', CopiesLeft(reads))
  BY <1>2, <1>3
<1> QED
  BY <1>1, <1>2, <1>4, <1>5, NoCopyInv

\* The command and the parameter size of a control become known.
LEMMA ReadPayloadInv ==
    ASSUME DecodeInv, NEW cmd \in Controls, NEW n \in ControlSizes(cmd),
           ReadPayload(cmd, n)
    PROVE  DecodeInv'
<1>1. /\ Midway /\ Good(todo, call, Copied, arrays, CopiesLeft(reads))
      /\ Head(todo) = todo[1] /\ todo[1].op = "payload" /\ CopiesLeft(reads) \in Int
  BY InMiddle DEF ReadPayload
<1>2. /\ psize' = n /\ todo' = decode_nvos54_payload(cmd, n)
      /\ UNCHANGED <<call, arrays, root, inner, reads, lists>>
  BY DEF ReadPayload
<1>3. n \in Nat /\ Good(decode_nvos54_payload(cmd, n), call, Copied, arrays,
                        CopiesLeft(reads))
  BY <1>1, ParametersGood
<1>4. psize' \in Nat /\ \A k \in lists' : ListOk(k)
  BY <1>2, <1>3 DEF DecodeInv
<1>5. Good(todo', call, Copied, arrays', CopiesLeft(reads))
  BY <1>2, <1>3
<1> QED
  BY <1>1, <1>2, <1>4, <1>5, NoCopyInv

\* The status of the line.
LEMMA PutStatusInv ==
    ASSUME DecodeInv, PutStatus
    PROVE  DecodeInv'
<1>1. /\ call # NoCall /\ todo # <<>> /\ Head(todo).op = "put"
      /\ root' = Append(root, Head(todo).status) /\ todo' = Tail(todo)
      /\ UNCHANGED <<call, arrays, psize, inner, reads, lists>>
  BY DEF PutStatus, Next1
<1>2. Decoding /\ InnerOnce /\ Refusal
  BY DEF DecodeInv
<1>3. call \in Calls /\ ~Silent(call) /\ Running
  BY <1>1, <1>2 DEF Decoding, Finished
<1>4. root = <<>> /\ Good(todo, call, Copied, arrays, CopiesLeft(reads))
  BY <1>3 DEF Running
<1>5. Head(todo) = todo[1]
  BY <1>4, GoodScript
<1>6. Tail(todo) = <<>> /\ TrueStatus(todo[1].status, call, Copied)
  BY <1>1, <1>4, <1>5, PutLast
<1>7. root' = <<todo[1].status>>
  BY <1>1, <1>4, <1>5
<1>8. Copied' = Copied /\ call' = call /\ todo' = <<>> /\ inner' = inner
  BY <1>1, <1>6 DEF Copied
<1>9. Finished'
  BY <1>6, <1>7, <1>8 DEF Finished
<1>10. Decoding' /\ Idle' /\ InnerOnce'
  BY <1>1, <1>2, <1>3, <1>8, <1>9 DEF Decoding, Idle, InnerOnce
<1>11. Refusal'
  <2> SUFFICES ASSUME Checked(call), Refused(call) PROVE root' = <<"size_mismatch">>
    BY <1>8 DEF Refusal
  <2>1. todo = <<Put("size_mismatch")>>
    BY <1>1, <1>2 DEF Refusal
  <2>2. todo[1].status = "size_mismatch"
    BY <2>1 DEF Put
  <2> QED
    BY <1>7, <2>2
<1> QED
  BY <1>1, <1>8, <1>10, <1>11 DEF DecodeInv

\* The status of the inner object.
LEMMA PutInnerStatusInv ==
    ASSUME DecodeInv, PutInnerStatus
    PROVE  DecodeInv'
<1>1. /\ Midway /\ Good(todo, call, Copied, arrays, CopiesLeft(reads))
      /\ Head(todo) = todo[1] /\ todo[1].op = "inner" /\ CopiesLeft(reads) \in Int
  BY InMiddle DEF PutInnerStatus
<1>2. /\ inner' = Append(inner, todo[1].status) /\ todo' = Tail(todo)
      /\ UNCHANGED <<call, arrays, psize, root, reads, lists>>
  BY <1>1 DEF PutInnerStatus
<1>3. /\ Good(Tail(todo), call, Copied, arrays, CopiesLeft(reads))
      /\ Len(Tail(todo)) = 1 /\ Tail(todo)[1].op = "put"
      /\ todo[1].status = "ok" => "params" \in Copied
  BY <1>1, InnerLast
<1>4. /\ call \in Calls /\ ~Silent(call) /\ call # NoCall /\ root = <<>>
      /\ inner = <<>> /\ ~(Checked(call) /\ Refused(call))
  BY <1>1 DEF Midway
<1>5. inner' = <<todo[1].status>>
  BY <1>2, <1>4
<1>6. Copied' = Copied /\ call' = call /\ todo' = Tail(todo) /\ root' = <<>>
      /\ arrays' = arrays /\ reads' = reads
  BY <1>2, <1>4 DEF Copied
<1>7. InnerOnce'
  BY <1>3, <1>5, <1>6 DEF InnerOnce
<1>8. todo' # <<>>
  BY <1>3, <1>6, GoodNonempty
<1>9. Running'
  BY <1>3, <1>6, <1>8 DEF Running
<1>10. Decoding' /\ Idle' /\ Refusal'
  BY <1>4, <1>6, <1>9 DEF Decoding, Idle, Refusal
<1> QED
  BY <1>2, <1>6, <1>7, <1>10 DEF DecodeInv

\* The decoder returns.
LEMMA ReturnInv ==
    ASSUME Return
    PROVE  DecodeInv'
<1>1. /\ call' = NoCall /\ todo' = <<>> /\ arrays' = {} /\ psize' = 0
      /\ root' = <<>> /\ inner' = <<>> /\ reads' = {} /\ lists' = {}
  BY DEF Return
<1>2. IsFiniteSet({}) /\ Cardinality({}) = 0
  BY FS_EmptySet
<1>3. CopiesLeft(reads') >= 0
  BY <1>1, <1>2, Limits DEF CopiesLeft
<1>4. Copied' = {}
  BY <1>1 DEF Copied, CopiedIn
<1> QED
  BY <1>1, <1>2, <1>3, <1>4 DEF DecodeInv, Idle, Decoding, InnerOnce, Refusal

\* Every step of the decoders preserves the invariant.
THEOREM StepDecodeInv ==
    ASSUME DecodeInv, [Next]_vars
    PROVE  DecodeInv'
<1>1. ASSUME NEW c \in Calls, Start(c) PROVE DecodeInv'
  BY <1>1, StartInv
<1>2. ASSUME NEW ok \in BOOLEAN, ReadMemory(ok) \/ ReadLast(ok) PROVE DecodeInv'
  BY <1>2, ReadMemoryInv, ReadLastInv
<1>3. ASSUME NEW n \in Around(Head(todo).cap), NEW m \in Around(Head(todo).cap),
             ShowList(n) \/ ShowPair(n, m)
      PROVE  DecodeInv'
  BY <1>3, ShowListInv, ShowPairInv
<1>4. CASE ShowCounted
  BY <1>4, ShowCountedInv
<1>5. ASSUME NEW n \in Around(MaxCtrlListItems), FollowCount(n) PROVE DecodeInv'
  BY <1>5, FollowCountInv
<1>6. ASSUME NEW null \in BOOLEAN, NEW ok \in BOOLEAN, FollowArray(null, ok)
      PROVE  DecodeInv'
  BY <1>6, FollowArrayInv
<1>7. ASSUME NEW n \in Around(Head(todo).limit), NEW ok \in BOOLEAN,
             FollowText(n, ok) \/ FollowBlob(n, ok)
      PROVE  DecodeInv'
  BY <1>7, FollowTextInv, FollowBlobInv
<1>8. ASSUME NEW s \in Head(todo).scripts, Choose(s) PROVE DecodeInv'
  BY <1>8, ChooseInv
<1>9. ASSUME NEW cmd \in Controls, NEW n \in ControlSizes(cmd), ReadPayload(cmd, n)
      PROVE  DecodeInv'
  BY <1>9, ReadPayloadInv
<1>10. CASE PutStatus
  BY <1>10, PutStatusInv
<1>11. CASE PutInnerStatus
  BY <1>11, PutInnerStatusInv
<1>12. CASE Return
  BY <1>12, ReturnInv
<1>13. CASE UNCHANGED vars
  <2>1. /\ call' = call /\ todo' = todo /\ arrays' = arrays /\ psize' = psize
        /\ root' = root /\ inner' = inner /\ reads' = reads /\ lists' = lists
    BY <1>13 DEF vars
  <2>2. Copied' = Copied
    BY <2>1 DEF Copied
  <2>3. Running => Running'
    BY <2>1, <2>2 DEF Running
  <2>4. Finished => Finished'
    BY <2>1, <2>2 DEF Finished
  <2>5. Decoding => Decoding'
    BY <2>1, <2>3, <2>4 DEF Decoding
  <2>6. (Idle => Idle') /\ (InnerOnce => InnerOnce') /\ (Refusal => Refusal')
    BY <2>1, <2>2 DEF Idle, InnerOnce, Refusal
  <2> QED
    BY <2>1, <2>2, <2>5, <2>6 DEF DecodeInv
<1> QED
  BY <1>1, <1>2, <1>3, <1>4, <1>5, <1>6, <1>7, <1>8, <1>9, <1>10, <1>11, <1>12, <1>13
     DEF Next

\* The inductive invariant of the decoders holds, for every limit on blobs
\* and all sizes that an ioctl number can declare.
THEOREM DecodeInvariant == Spec => []DecodeInv
<1>1. Init => DecodeInv
  BY InitDecodeInv
<1>2. DecodeInv /\ [Next]_vars => DecodeInv'
  BY StepDecodeInv
<1> QED
  BY <1>1, <1>2, PTL DEF Spec

-----------------------------------------------------------------------------
(* What the invariant implies.                                              *)

\* What a call that is over has left.
LEMMA AtEnd ==
    ASSUME DecodeInv, Done
    PROVE  /\ call \in Calls
           /\ Silent(call) => root = <<>>
           /\ ~Silent(call) => root = <<root[1]>> /\ TrueStatus(root[1], call, Copied)
           /\ inner = <<>> \/ (inner = <<inner[1]>> /\ (inner[1] = "ok" => "params" \in Copied))
           /\ Checked(call) /\ Refused(call) => root = <<"size_mismatch">>
<1>1. call # NoCall /\ todo = <<>> /\ Decoding /\ InnerOnce /\ Refusal
  BY DEF DecodeInv, Done
<1>2. Checked(call) /\ Refused(call) => root = <<"size_mismatch">>
  BY <1>1 DEF Refusal
<1>3. ~Running
  BY <1>1 DEF Running
<1> QED
  BY <1>1, <1>2, <1>3 DEF Decoding, Finished, InnerOnce

\* A decoded ioctl has exactly one "status" when its decoder returns, one
\* that is not decoded has none, and there is at most one in the "inner"
\* object: no path through a decoder leaves the status out or writes two.
THEOREM OneStatusHolds == Spec => []OneStatus
<1>1. DecodeInv => OneStatus
  <2> SUFFICES ASSUME DecodeInv, Done
               PROVE  /\ Len(root) = IF Silent(call) THEN 0 ELSE 1
                      /\ Len(inner) <= 1
    BY Zenon DEF OneStatus, Silent
  <2>1. Len(inner) <= 1
    <3>1. inner = <<>> => Len(inner) <= 1
      OBVIOUS
    <3>2. \A s : inner = <<s>> => Len(inner) <= 1
      OBVIOUS
    <3> QED
      BY <3>1, <3>2, AtEnd
  <2>2. Silent(call) => Len(root) = 0
    BY AtEnd
  <2>3. ~Silent(call) => Len(root) = 1
    <3>1. Len(<<root[1]>>) = 1
      OBVIOUS
    <3> QED
      BY <3>1, AtEnd
  <2> QED
    BY <2>1, <2>2, <2>3
<1> QED
  BY <1>1, DecodeInvariant, PTL

\* The status says what happened: "ok" stands over an argument that was
\* copied, "unreadable" over one that was not, and a preview or a decoded
\* control over parameters that were copied, after the argument.
THEOREM StatusIsTrueHolds == Spec => []StatusIsTrue
<1>1. DecodeInv => StatusIsTrue
  <2> DEFINE Got(from) == \E r \in reads : r.from = from /\ r.ok
  <2>1. \A from : Got(from) <=> from \in Copied
    BY Zenon DEF Copied, CopiedIn
  <2> SUFFICES ASSUME DecodeInv, Done, root # <<>>, call.mode = "full"
               PROVE  /\ root[1] = "ok" /\ call.cmd # "deinitialize" => Got("arg")
                      /\ root[1] = "arg_unreadable" => ~Got("arg")
                      /\ root[1] = "params_unreadable" => ~Got("params")
                      /\ root[1] = "inner_partial" => Got("params")
                      /\ inner = <<"ok">> => Got("params")
                      /\ Got("params") => Got("arg")
    BY Zenon DEF StatusIsTrue
  <2> HIDE DEF Got
  <2>2. TrueStatus(root[1], call, Copied)
    BY AtEnd
  <2>3. inner = <<"ok">> => "params" \in Copied
    <3>1. inner = <<"ok">> => inner # <<>> /\ inner[1] = "ok"
      OBVIOUS
    <3> QED
      BY <3>1, AtEnd
  <2>4. "params" \in Copied => "arg" \in Copied
    BY DEF DecodeInv
  <2> QED
    BY <2>1, <2>2, <2>3, <2>4 DEF TrueStatus
<1> QED
  BY <1>1, DecodeInvariant, PTL

\* No copy goes past the size declared in the ioctl number, params_size, or
\* the length given with a pointer, but the three that the decoders of the
\* transferred escape and of the heap control make without looking at it.
THEOREM ReadsInsideHolds == Spec => []ReadsInside
<1>1. DecodeInv => ReadsInside
  BY DEF DecodeInv, CopyOk, ReadsInside
<1> QED
  BY <1>1, DecodeInvariant, PTL

\* What lies behind a pointer is copied up to the limits on blobs and lists,
\* and the number of copies of a call is bounded, whatever memory holds.
THEOREM WorkBoundedHolds == Spec => []WorkBounded
<1>1. DecodeInv => WorkBounded
  <2> SUFFICES ASSUME DecodeInv PROVE WorkBounded
    OBVIOUS
  <2>1. Cardinality(reads) <= CopyLimit
    BY FiniteLeft DEF DecodeInv
  <2>2. \A r \in reads : r.from = "pointer" => r.len <= PointerLimit
    BY DEF DecodeInv, CopyOk
  <2> QED
    BY <2>1, <2>2 DEF WorkBounded, CopyLimit, PointerLimit
<1> QED
  BY <1>1, DecodeInvariant, PTL

\* No slice leaves its array, whatever the count in memory says.
THEOREM SlicesInArraysHold == Spec => []SlicesInArrays
<1>1. DecodeInv => SlicesInArrays
  BY DEF DecodeInv, ListOk, SlicesInArrays
<1> QED
  BY <1>1, DecodeInvariant, PTL

\* A list that is flagged as truncated shows less than its count, and one that
\* is not lacks at most the bytes that do not fill a word; one without the flag
\* prints the count as it was found.
THEOREM ListsHonestHolds == Spec => []ListsHonest
<1>1. DecodeInv => ListsHonest
  BY Zenon DEF DecodeInv, ListOk, ListsHonest
<1> QED
  BY <1>1, DecodeInvariant, PTL

\* An escape is refused for its size exactly when the size it declares is
\* too small for the structure of the driver's headers.
THEOREM RefusesShortArgumentsHolds == Spec => []RefusesShortArguments
<1>1. DecodeInv => RefusesShortArguments
  <2>1. ASSUME DecodeInv, Done, Checked(call)
        PROVE  root = <<"size_mismatch">> <=> Refused(call)
    <3>1. Refused(call) => root = <<"size_mismatch">>
      BY <2>1, AtEnd
    <3>2. ~Silent(call)
      BY <2>1, Zenon DEF Checked, Silent
    <3>3. TrueStatus(root[1], call, Copied)
      BY <2>1, <3>2, AtEnd
    <3>4. root = <<"size_mismatch">> => Refused(call)
      BY <2>1, <3>3 DEF TrueStatus
    <3> QED
      BY <3>1, <3>4
  <2> QED
    BY <2>1, Zenon DEF RefusesShortArguments, Checked, Refused
<1> QED
  BY <1>1, DecodeInvariant, PTL

=============================================================================
