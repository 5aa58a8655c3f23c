----------------------------- MODULE DecodeSteps -----------------------------
(***************************************************************************)
(* What an ioctl decoder does with the memory of the traced process, as    *)
(* the steps of a script: copies that may fail, because the page is gone   *)
(* or the process is, values found there that may be anything, because     *)
(* other threads of the program are running, and statuses written to the   *)
(* line.                                                                   *)
(***************************************************************************)
EXTENDS Layout, FiniteSetsExt

CONSTANTS MaxBlob,  \* CUDATRACE_MAX_BLOB: how much of a blob is shown
          Huge      \* stands for the counts and lengths beyond every limit

ASSUME MaxBlobAssumption == MaxBlob \in 1..65536
ASSUME HugeAssumption == Huge \in Nat /\ Huge > 65536

\* The program states no length for the memory read.
NoRoom == -1

MaxCtrlListItems == 64

Least(a, b) == Min({a, b})
AtLeast(n) == Max({MaxBlob, n})

\* `from' is the memory block, `room' how long the program says it is.  When
\* the copy fails, a step that must succeed gives way to the steps of `bad',
\* any other is passed over.
ReadStep(from, off, len, room, lens, must, bad) ==
    [op |-> "read", from |-> from, off |-> off, len |-> len, room |-> room,
     lens |-> lens, must |-> must, bad |-> bad]

read_pod(from, off, t, room, bad) ==
    ReadStep(from, off, t.size, room, t.lens, TRUE, bad)

read_bytes(from, len, room, bad) ==
    ReadStep(from, 0, len, room, {}, TRUE, bad)

try_pod(from, off, t, room) ==
    ReadStep(from, off, t.size, room, t.lens, FALSE, <<>>)

try_bytes(from, len, room) == ReadStep(from, 0, len, room, {}, FALSE, <<>>)

Put(status) == [op |-> "put", status |-> status]
PutInner(status) == [op |-> "inner", status |-> status]

\* A list in the structure just read: its count comes from memory, its array
\* holds `cap' elements, at most `sample' of them are shown.  `flag' when a
\* "truncated" field follows, `raw' when the count is printed as it was
\* found, `filtered' when the count is taken from the array itself, `pair'
\* when there are two such lists and one flag for both.
ListStep(cap, sample, flag, raw, filtered, pair) ==
    [op |-> "list", cap |-> cap, sample |-> sample, flag |-> flag,
     raw |-> raw, filtered |-> filtered, pair |-> pair]

List(cap)                == ListStep(cap, Huge, TRUE, TRUE, FALSE, FALSE)
BareList(cap)            == ListStep(cap, Huge, FALSE, TRUE, FALSE, FALSE)
SampledList(cap, sample) == ListStep(cap, sample, TRUE, FALSE, FALSE, FALSE)
FilteredList(cap)        == ListStep(cap, Huge, FALSE, TRUE, TRUE, FALSE)
PairOfLists(cap)         == ListStep(cap, Huge, TRUE, TRUE, FALSE, TRUE)

\* `copies' arrays of elements of type t behind pointers, with one count.
Indirect(t, copies) == [op |-> "indirect", size |-> t.size, copies |-> copies]

\* One of those arrays: `shown' of its `count' elements.
Array(size, shown, count) ==
    [op |-> "array", size |-> size, shown |-> shown, count |-> count]

\* A string (read_remote_string) or blob behind a pointer, of a length that
\* was read; at most `limit' bytes are copied.
Text(limit) == [op |-> "text", limit |-> limit]
Blob(limit) == [op |-> "blob", limit |-> limit]

\* The last field of the parameters, whose size the caller gave.
LastOf(t) == [op |-> "last", t |-> t]

\* So many of so many bytes or entries have been read, and are shown in whole
\* units: chunks_exact drops what does not fill the last one.
ShowStep(read, count, unit) ==
    [op |-> "show", read |-> read, count |-> count, unit |-> unit]

Show(read, count)      == ShowStep(read, count, 1)
ShowWords(read, count) == ShowStep(read, count, 4)

\* One of several continuations, by a value that was read.
OneOf(scripts) == [op |-> "oneof", scripts |-> scripts]

\* A string of a fixed length, unless its pointer is null.
FixedText(len) == OneOf({<<>>, <<try_bytes("pointer", len, NoRoom)>>})

\* The parameters of an RM control have been read.
Payload == [op |-> "payload"]
=============================================================================
