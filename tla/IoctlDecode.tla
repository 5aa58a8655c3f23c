----------------------------- MODULE IoctlDecode -----------------------------
(***************************************************************************)
(* Decoding the argument of one ioctl after another (summarize_ioctl of    *)
(* decode/ioctl.rs).  The tracer holds the calling thread stopped, but the *)
(* memory it copies belongs to a process whose other threads run: every    *)
(* copy may fail, and what it brings is chosen anew.                       *)
(***************************************************************************)
EXTENDS RmControls, RmEscapes, UvmIoctls

CONSTANTS Sizes  \* argument sizes an ioctl number may declare

ASSUME SizesAssumption == Sizes \subseteq 0..16383

VARIABLES call,   \* the ioctl being decoded, or NoCall
          todo,   \* the steps left
          arrays, \* lengths of the arrays in the structure last copied
          psize,  \* os54.params_size, once known
          root,   \* statuses written to the line
          inner,  \* statuses written to its "inner" object
          reads,  \* the copies attempted
          lists   \* the lists shown

vars == <<call, todo, arrays, psize, root, inner, reads, lists>>

NoCall == [dev |-> "none"]

Modes == {"off", "header", "full"}

-----------------------------------------------------------------------------
(* Scripts *)

\* The words shown of parameters without a decoder, or whose decoder could
\* not read them.
Preview(params_size) ==
    LET read_len == Least(params_size, Least(AtLeast(16), 32)) IN
    <<read_bytes("params", read_len, params_size,
                 <<PutInner("unreadable"), Put("params_unreadable")>>),
      ShowWords(read_len, params_size), PutInner("preview"),
      Put("inner_partial")>>

decode_cmd_nv2080_legacy_generic(params_size) ==
    LET read_len == Least(params_size, 256) IN
    <<read_bytes("params", read_len, params_size, Preview(params_size)),
      ShowWords(read_len, params_size), PutInner("ok"), Put("ok")>>

\* Mutants of KnownControl: the size is not checked; the decoder goes on to
\* the preview.
KnownControlUnchecked(c, params_size) ==
    <<ReadStep("params", 0, c.need, params_size, c.lens, TRUE,
               Preview(params_size))>>
    \o c.more \o <<PutInner("ok"), Put("ok")>>

KnownControlGoesOn(c, params_size) ==
    IF params_size < c.need
    THEN <<PutInner("size_mismatch"), Put("ok")>> \o Preview(params_size)
    ELSE KnownControlUnchecked(c, params_size)

KnownControl(c, params_size) ==
    IF params_size < c.need
    THEN <<PutInner("size_mismatch"), Put("ok")>>
    ELSE <<ReadStep("params", 0, c.need, params_size, c.lens, TRUE,
                    Preview(params_size))>>
         \o c.more \o <<PutInner("ok"), Put("ok")>>

decode_nvos54_payload(cmd, params_size) ==
    CASE params_size = 0 -> <<Put("ok")>>
      [] params_size > 0 /\ cmd = "legacy" ->
            decode_cmd_nv2080_legacy_generic(params_size)
      [] params_size > 0 /\ cmd = "other" -> Preview(params_size)
      [] OTHER -> KnownControl(decode_known_rm_control[cmd], params_size)

\* A command of another magic leaves the line without arguments.
Script(c) ==
    CASE c.mode = "off" \/ c.dev = "other" -> <<>>
      [] c.mode # "off" /\ c.dev = "uvm" ->
            IF c.mode = "header" THEN <<Put("header")>>
            ELSE IF c.null /\ c.cmd # "deinitialize" THEN <<Put("arg_null")>>
            ELSE decode_uvm_ioctl[c.cmd]
      [] c.mode # "off" /\ c.dev = "rm" ->
            IF ~c.magic THEN <<>>
            ELSE IF c.mode = "header" THEN <<Put("header")>>
            ELSE IF c.null THEN <<Put("arg_null")>>
            ELSE decode_nvidia_ioctl(c.size, c.mode)[c.cmd]

-----------------------------------------------------------------------------
(* The machine *)

Calls ==
    [dev : {"uvm"}, cmd : DOMAIN decode_uvm_ioctl, size : {0}, magic : {FALSE},
     null : BOOLEAN, mode : Modes]
    \cup
    [dev : {"rm"}, cmd : DOMAIN decode_nvidia_ioctl(0, "full"), size : Sizes,
     magic : BOOLEAN, null : {FALSE}, mode : {"full"}]
    \cup
    [dev : {"rm"}, cmd : {"rm_control", "unknown"}, size : {0, 32},
     magic : BOOLEAN, null : BOOLEAN, mode : Modes]
    \cup
    [dev : {"other"}, cmd : {"unknown"}, size : {0}, magic : BOOLEAN,
     null : BOOLEAN, mode : Modes]

\* Counts and lengths around a limit.
Around(n) == {0, 1, n - 1, n, n + 1, Huge}

Init ==
    /\ call = NoCall /\ todo = <<>> /\ arrays = {} /\ psize = 0
    /\ root = <<>> /\ inner = <<>> /\ reads = {} /\ lists = {}

Start(c) ==
    /\ call = NoCall
    /\ call' = c
    /\ todo' = Script(c)
    /\ UNCHANGED <<arrays, psize, root, inner, reads, lists>>

Return ==
    /\ call # NoCall
    /\ todo = <<>>
    /\ call' = NoCall /\ todo' = <<>> /\ arrays' = {} /\ psize' = 0
    /\ root' = <<>> /\ inner' = <<>> /\ reads' = {} /\ lists' = {}

Next1(op) == call # NoCall /\ todo # <<>> /\ Head(todo).op = op

\* The copy of `len' bytes at `off' of a block.
Copy(from, off, len, room, ok) ==
    [from |-> from, off |-> off, len |-> len, room |-> room, ok |-> ok]

ReadMemory(ok) ==
    LET s == Head(todo) IN
    /\ Next1("read")
    /\ reads' = reads \cup {Copy(s.from, s.off, s.len, s.room, ok)}
    /\ arrays' = IF ok THEN s.lens ELSE arrays
    /\ todo' = IF ~ok /\ s.must THEN s.bad ELSE Tail(todo)
    /\ UNCHANGED <<call, psize, root, inner, lists>>

\* clamp_count and the min(count, array.len()) of the RM decoders.
\* (clamp_countOffByOne is a mutant.)
clamp_countOffByOne(count, cap) == Least(count, cap + 1)

clamp_count(count, cap) == Least(count, cap)

ShowList(count) ==
    LET s      == Head(todo)
        within == clamp_count(count, s.cap)
        shown  == Least(within, s.sample)
        whole  == IF s.sample < s.cap THEN within ELSE count
    IN  /\ Next1("list") /\ ~s.pair
        /\ s.filtered => count <= s.cap
        /\ lists' = lists \cup
             {[count |-> count, shown |-> shown, unit |-> 1, cap |-> s.cap,
               slices |-> arrays, raw |-> s.raw, flag |-> s.flag,
               truncated |-> shown < whole]}
        /\ todo' = Tail(todo)
        /\ UNCHANGED <<call, arrays, psize, root, inner, reads>>

\* A mutant of Shown: an exact fit counts as truncated.
ShownOffByOne(count, read, unit) ==
    LET shown == read - (read % unit) IN
    [count |-> count, shown |-> shown, unit |-> unit, cap |-> shown,
     slices |-> {shown}, raw |-> FALSE, flag |-> TRUE,
     truncated |-> read <= count]

\* Bytes, words or elements behind a pointer or of the argument: no slice is
\* taken.
Shown(count, read, unit) ==
    LET shown == read - (read % unit) IN
    [count |-> count, shown |-> shown, unit |-> unit, cap |-> shown,
     slices |-> {shown}, raw |-> FALSE, flag |-> TRUE,
     truncated |-> read < count]

\* Two lists, whose counts are printed as they were found, and one flag, which
\* is about both together.
ShowPair(count1, count2) ==
    LET s      == Head(todo)
        shown1 == clamp_count(count1, s.cap)
        shown2 == clamp_count(count2, s.cap)
        one(count, shown) ==
            [count |-> count, shown |-> shown, unit |-> 1, cap |-> s.cap,
             slices |-> arrays, raw |-> TRUE, flag |-> FALSE,
             truncated |-> FALSE]
    IN  /\ Next1("list") /\ s.pair
        /\ lists' = lists \cup
             {one(count1, shown1), one(count2, shown2),
              [Shown(count1 + count2, shown1 + shown2, 1)
                 EXCEPT !.truncated = shown1 < count1 \/ shown2 < count2]}
        /\ todo' = Tail(todo)
        /\ UNCHANGED <<call, arrays, psize, root, inner, reads>>

ShowCounted ==
    LET s == Head(todo) IN
    /\ Next1("show")
    /\ lists' = lists \cup {Shown(s.count, s.read, s.unit)}
    /\ todo' = Tail(todo)
    /\ UNCHANGED <<call, arrays, psize, root, inner, reads>>

\* A mutant of FollowCount: the count is believed.
FollowCountUnlimited(count) ==
    /\ Next1("indirect")
    /\ todo' = [i \in 1..Head(todo).copies |->
                  Array(Head(todo).size, count, count)] \o Tail(todo)
    /\ UNCHANGED <<call, arrays, psize, root, inner, reads, lists>>

\* The count of arrays behind pointers.
FollowCount(count) ==
    LET s == Head(todo)
        n == Least(count, MaxCtrlListItems)
    IN  /\ Next1("indirect")
        /\ todo' = [i \in 1..s.copies |-> Array(s.size, n, count)] \o Tail(todo)
        /\ UNCHANGED <<call, arrays, psize, root, inner, reads, lists>>

\* An array whose pointer is null or whose count is 0 is not read; one that
\* cannot be read is shown empty, under the count.
FollowArray(null, ok) ==
    LET s    == Head(todo)
        read == ~null /\ s.shown > 0
    IN  /\ Next1("array")
        /\ reads' = reads \cup
             (IF read THEN {Copy("pointer", 0, s.shown * s.size,
                                 s.count * s.size, ok)} ELSE {})
        /\ lists' = lists \cup
             {[Shown(s.count, IF read /\ ok THEN s.shown ELSE 0, 1)
                 EXCEPT !.raw = TRUE, !.flag = read /\ ok,
                        !.truncated = s.shown < s.count]}
        /\ todo' = Tail(todo)
        /\ UNCHANGED <<call, arrays, psize, root, inner>>

FollowText(len, ok) ==
    LET n == Least(len, Head(todo).limit) IN
    /\ Next1("text")
    /\ reads' = reads \cup
         (IF len > 0 THEN {Copy("pointer", 0, n, len, ok)} ELSE {})
    /\ todo' = Tail(todo)
    /\ UNCHANGED <<call, arrays, psize, root, inner, lists>>

FollowBlob(len, ok) ==
    LET n == Least(len, Head(todo).limit) IN
    /\ Next1("blob")
    /\ reads' = reads \cup
         (IF len > 0 THEN {Copy("pointer", 0, n, len, ok)} ELSE {})
    /\ lists' = lists \cup (IF len > 0 /\ ok THEN {Shown(len, n, 1)} ELSE {})
    /\ todo' = Tail(todo)
    /\ UNCHANGED <<call, arrays, psize, root, inner>>

ReadLast(ok) ==
    LET t == Head(todo).t IN
    /\ Next1("last")
    /\ reads' = reads \cup {Copy("params", psize - t.size, t.size, psize, ok)}
    /\ todo' = Tail(todo)
    /\ UNCHANGED <<call, arrays, psize, root, inner, lists>>

Choose(s) ==
    /\ Next1("oneof")
    /\ todo' = s \o Tail(todo)
    /\ UNCHANGED <<call, arrays, psize, root, inner, reads, lists>>

ReadPayload(cmd, size) ==
    /\ Next1("payload")
    /\ psize' = size
    /\ todo' = decode_nvos54_payload(cmd, size)
    /\ UNCHANGED <<call, arrays, root, inner, reads, lists>>

PutStatus ==
    /\ Next1("put")
    /\ root' = Append(root, Head(todo).status)
    /\ todo' = Tail(todo)
    /\ UNCHANGED <<call, arrays, psize, inner, reads, lists>>

PutInnerStatus ==
    /\ Next1("inner")
    /\ inner' = Append(inner, Head(todo).status)
    /\ todo' = Tail(todo)
    /\ UNCHANGED <<call, arrays, psize, root, reads, lists>>

ControlSizes(cmd) ==
    CASE cmd = "legacy" -> Around(256)
      [] cmd = "other"  -> Around(32) \cup Around(16) \cup Around(MaxBlob)
      [] OTHER -> Around(decode_known_rm_control[cmd].need)

Controls == DOMAIN decode_known_rm_control \cup {"legacy", "other"}

Next ==
    \/ \E c \in Calls : Start(c)
    \/ \E ok \in BOOLEAN : ReadMemory(ok) \/ ReadLast(ok)
    \/ Next1("list") /\ \E n, m \in Around(Head(todo).cap) :
                          ShowList(n) \/ ShowPair(n, m)
    \/ ShowCounted
    \/ \E n \in Around(MaxCtrlListItems) : FollowCount(n)
    \/ \E null, ok \in BOOLEAN : FollowArray(null, ok)
    \/ /\ todo # <<>> /\ "limit" \in DOMAIN Head(todo)
       /\ \E n \in Around(Head(todo).limit), ok \in BOOLEAN :
            FollowText(n, ok) \/ FollowBlob(n, ok)
    \/ Next1("oneof") /\ \E s \in Head(todo).scripts : Choose(s)
    \/ \E cmd \in Controls : \E n \in ControlSizes(cmd) : ReadPayload(cmd, n)
    \/ PutStatus \/ PutInnerStatus
    \/ Return

Spec == Init /\ [][Next]_vars

-----------------------------------------------------------------------------
(* Properties *)

Done == call # NoCall /\ todo = <<>>

\* Whatever fails on the way, a decoded ioctl gets exactly one "status", and
\* an RM control at most one in its "inner" object: no early return of a
\* decoder is missing, and none comes before its status.
OneStatus ==
    Done => /\ Len(root) = IF \/ call.mode = "off" \/ call.dev = "other"
                              \/ call.dev = "rm" /\ ~call.magic
                           THEN 0 ELSE 1
            /\ Len(inner) <= 1

\* The status tells what happened to the copies: "ok" only over an argument
\* that was copied, "unreadable" only over one that was not, and a preview
\* or a decoded control only over parameters that were copied.
StatusIsTrue ==
    (Done /\ root # <<>> /\ call.mode = "full") =>
       LET got(from) == \E r \in reads : r.from = from /\ r.ok
       IN  /\ root[1] = "ok" /\ call.cmd # "deinitialize" => got("arg")
           /\ root[1] = "arg_unreadable" => ~got("arg")
           /\ root[1] = "params_unreadable" => ~got("params")
           /\ root[1] = "inner_partial" => got("params")
           /\ inner = <<"ok">> => got("params")
           /\ got("params") => got("arg")

\* The copies that are made whatever size was stated: the transfer structure and
\* the control it points to, and the data after the prefix of a heap control, of
\* which only the prefix is known to lie inside.
Unchecked(c, r) ==
    \/ c.cmd = "ioctl_xfer_cmd" /\ r.from \in {"arg", "os54"} /\ r.off = 0
    \/ /\ c.cmd = "rm_vid_heap_control" /\ r.from = "arg"
       /\ r.off = RmVidHeapControlPrefix.size /\ r.off <= r.room

\* No copy of any other decoder, and no other copy of these two, goes past what
\* the program says is there: the size declared in the ioctl number,
\* params_size, or the length given with a pointer.
ReadsInside ==
    \A r \in reads :
       r.room # NoRoom => r.off + r.len <= r.room \/ Unchecked(call, r)

\* Counts and lengths found in memory never decide how much is copied: what
\* lies behind a pointer is bounded by MaxBlob and by the list limit, and the
\* number of copies by MaxBlob.
WorkBounded ==
    /\ \A r \in reads :
         r.from = "pointer" =>
            r.len <= Max({MaxBlob, 128, MaxCtrlListItems * NvxxxxCtrlXxxInfo.size})
    /\ Cardinality(reads) <= Max({5, MaxBlob \div NvIoctlCardInfo.size})

\* No slice leaves its array, for any count: the tracer does not panic while
\* the program waits for it.
SlicesInArrays ==
    \A l \in lists : l.shown <= l.cap /\ l.cap \in l.slices

\* A list that shows less than its count says so, and one that shows all of it
\* does not.  The words of parameters may silently lack the bytes at the end
\* that do not fill a word, and no more than those.  (A list behind a pointer
\* that cannot be read is shown empty, under its count.)
ListsHonest ==
    \A l \in lists :
       IF l.flag
       THEN IF l.truncated THEN l.shown < l.count
                           ELSE l.count < l.shown + l.unit
       ELSE l.raw

\* The sizes that the test of decode/nvidia.rs asserts, by escape.
AssertedSize ==
    [card_info |-> 72, register_fd |-> 4, alloc_os_event |-> 16,
     status_code |-> 12, check_version_str |-> 72, query_device_intr |-> 8,
     sys_params |-> 8, wait_open_complete |-> 8, numa_info |-> 560,
     set_numa_status |-> 4, export_to_dmabuf_fd |-> 40, rm_free |-> 16,
     rm_alloc_memory |-> 48, rm_alloc_object |-> 20, rm_alloc |-> 32,
     rm_map_memory |-> 56, rm_unmap_memory |-> 32, rm_control |-> 32]

\* An escape is refused for its size exactly when it declares less than the
\* structure of the driver's headers; four decoders also refuse a number that
\* declares nothing.
RefusesShortArguments ==
    (Done /\ call.dev = "rm" /\ call.magic /\ call.mode = "full" /\ ~call.null
          /\ call.cmd \in DOMAIN AssertedSize) =>
       (root = <<"size_mismatch">> <=>
          IF call.size = 0
          THEN call.cmd \in {"card_info", "rm_alloc_memory", "rm_alloc",
                             "rm_map_memory"}
          ELSE call.size < AssertedSize[call.cmd])
=============================================================================
