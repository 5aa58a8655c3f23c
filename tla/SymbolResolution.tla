-------------------------- MODULE SymbolResolution --------------------------
(***************************************************************************)
(* How a wrapped CUDA call finds the function it stands for (src/dlsym.rs, *)
(* src/hook/driver.rs, src/hook/cudart.rs and the C wrappers that build.rs *)
(* generates).                                                             *)
(*                                                                         *)
(* The interposed dlsym answers a lookup of a wrapped name with the        *)
(* wrapper and remembers the handle.  A wrapper of the driver looks for    *)
(* the real function under that handle, then with RTLD_NEXT; a wrapper of  *)
(* the runtime only with RTLD_NEXT, which sees the libraries linked or     *)
(* loaded with RTLD_GLOBAL.  What a lookup gave is cached, a failure too,  *)
(* except in a generated wrapper.  A wrapper that finds nothing returns    *)
(* CUDA_ERROR_UNKNOWN.                                                     *)
(*                                                                         *)
(* The names below stand for the wrappers of each shape: one symbol, two   *)
(* symbols in either order, generated, of the runtime.                     *)
(***************************************************************************)
EXTENDS Naturals, Sequences, FiniteSets

CONSTANTS
    Modes,     \* how libraries are loaded: a subset of {"global", "local"}
    Handles    \* what the program passes to dlsym

VARIABLES
    exports,   \* what the installed driver exports
    loaded,    \* library -> "no", "local" or "global"
    handle,    \* CUDA_DRIVER_HANDLE; "default" is the null RTLD_DEFAULT
    cell,      \* symbol -> what is cached for it
    got,       \* wrappers the program has a pointer to
    last,      \* history: the last call and what it reached
    early      \* history: symbols cached as missing before the load

vars == <<exports, loaded, handle, cell, got, last, early>>

Libs == {"cuda", "cudart"}

ASSUME LoadingAssumption ==
    Modes \subseteq {"global", "local"} /\ Handles \subseteq Libs \cup {"default"}

Names == {"cuInit", "cuStreamDestroy", "cuStreamDestroy_v2", "cuGetProcAddress",
          "cuGetProcAddress_v2", "cuMemAlloc", "cuMemAlloc_v2", "cuMemAdvise",
          "cudaMalloc"}

\* wrapper_for_driver_symbol, wrapper_for_cudart_symbol: two names may have one
\* wrapper.
Wrapper(name) ==
    CASE name = "cuStreamDestroy_v2" -> "cuStreamDestroy"
      [] name = "cuMemAlloc"         -> "cuMemAlloc_v2"
      [] OTHER                       -> name

Wrappers == {Wrapper(n) : n \in Names}

\* The symbols a wrapper tries: not always all the names it stands for.
Chain(w) ==
    CASE w = "cuStreamDestroy"     -> <<"cuStreamDestroy", "cuStreamDestroy_v2">>
      [] w = "cuGetProcAddress"    -> <<w, "cuGetProcAddress_v2">>
      [] w = "cuGetProcAddress_v2" -> <<w, "cuGetProcAddress">>
      [] OTHER                     -> <<w>>

LibOf(w) == IF w = "cudaMalloc" THEN "cudart" ELSE "cuda"
Generated(w) == w = "cuMemAdvise"

Exports(lib) == IF lib = "cuda" THEN exports ELSE {"cudaMalloc"}

\* A driver of today, and one that lacks a newer or a legacy name.
Drivers ==
    LET all == {n \in Names : LibOf(n) = "cuda"}
    IN  {all, all \ {"cuStreamDestroy"},
         all \ {"cuStreamDestroy_v2", "cuGetProcAddress_v2", "cuMemAdvise"}}

NoCall == [w |-> "none", res |-> "none"]

Init ==
    /\ exports \in Drivers
    /\ loaded \in [Libs -> {"no"} \cup (Modes \cap {"global"})]
    /\ handle = "default"
    /\ cell = [s \in Names |-> "unset"]
    /\ got = {w \in Wrappers : loaded[LibOf(w)] = "global"}
    /\ last = NoCall /\ early = {}

-----------------------------------------------------------------------------
(* The dynamic linker. *)

\* libcudatrace.so comes first in the global scope, so a name it exports is
\* found in itself ("self"); RTLD_NEXT looks behind it.
Global(s) == \E lib \in Libs : loaded[lib] = "global" /\ s \in Exports(lib)

RealDlsym(h, s) ==
    IF h = "default"
      THEN "self"
      ELSE IF loaded[h] # "no" /\ s \in Exports(h) THEN "real" ELSE "none"

resolve_next_from_ptr(s) == IF Global(s) THEN "real" ELSE "none"

\* dlopen; what is linked against a library in the global scope calls the
\* wrappers of its functions, which come first there.
Dlopen(lib, mode) ==
    /\ loaded[lib] = "no"
    /\ loaded' = [loaded EXCEPT ![lib] = mode]
    /\ got' = got \cup {w \in Wrappers : LibOf(w) = lib /\ mode = "global"}
    /\ last' = NoCall
    /\ UNCHANGED <<exports, handle, cell, early>>

-----------------------------------------------------------------------------
(* The library. *)

\* The interposed dlsym, for a name that has a wrapper.
dlsym(h, name) ==
    /\ h \in Libs => loaded[h] # "no"
    /\ RealDlsym(h, name) # "none"
    /\ handle' = h
    /\ got' = got \cup {Wrapper(name)}
    /\ UNCHANGED <<exports, loaded, cell, last, early>>

\* Mutant: without the fallback to RTLD_NEXT.
resolve_driver_by_handle(s) ==
    IF handle # "default" THEN RealDlsym(handle, s) ELSE resolve_next_from_ptr(s)

resolve_driver_from_ptr(s) ==
    IF handle # "default" /\ RealDlsym(handle, s) # "none"
      THEN RealDlsym(handle, s)
      ELSE resolve_next_from_ptr(s)

\* What a wrapper gets for a symbol: the cached value, or a lookup.
Value(w, s) ==
    IF cell[s] # "unset" THEN cell[s]
    ELSE IF LibOf(w) = "cudart" THEN resolve_next_from_ptr(s)
    ELSE resolve_driver_from_ptr(s)

\* The symbols of the chain up to the first that is found are looked up; the
\* result is that of the last one.
Tried(w) ==
    LET found == {i \in DOMAIN Chain(w) : Value(w, Chain(w)[i]) # "none"}
        end   == IF found = {} THEN Len(Chain(w))
                 ELSE CHOOSE i \in found : \A j \in found : i <= j
    IN  SubSeq(Chain(w), 1, end)

Result(w) == Value(w, Tried(w)[Len(Tried(w))])

\* A wrapper is called: TraceScope is ApiTrace's.
Call(w) ==
    /\ w \in got
    /\ cell' = [s \in Names |->
                  IF \E i \in DOMAIN Tried(w) : Tried(w)[i] = s
                    THEN IF Generated(w) /\ Value(w, s) = "none" THEN "unset"
                         ELSE Value(w, s)
                    ELSE cell[s]]
    /\ early' = early \cup {s \in Names : cell'[s] = "none" /\ cell[s] = "unset"
                                          /\ loaded[LibOf(w)] = "no"}
    /\ last' = [w |-> w, res |-> Result(w)]
    /\ UNCHANGED <<exports, loaded, handle>>

CallFunction(w) == Call(w) /\ UNCHANGED got

\* cuGetProcAddress of a name the driver has: patch_driver_proc.
GetProcAddress(w, name) ==
    /\ Call(w)
    /\ got' = IF Result(w) = "real" /\ name \in exports
                THEN got \cup {Wrapper(name)} ELSE got

-----------------------------------------------------------------------------
ProcAddress == {"cuGetProcAddress", "cuGetProcAddress_v2"}

Next ==
    \/ \E lib \in Libs, mode \in Modes : Dlopen(lib, mode)
    \/ \E h \in Handles, name \in Names : dlsym(h, name)
    \/ \E w \in Wrappers \ ProcAddress : CallFunction(w)
    \/ \E w \in ProcAddress, name \in Names : GetProcAddress(w, name)

Spec == Init /\ [][Next]_vars

-----------------------------------------------------------------------------
(* Properties. *)

\* A call reaches a function of the library whatever the program has looked up
\* before and under which handle, if the library is loaded and exports one of
\* the names the wrapper tries; the exception is a wrapper that was called
\* before the load and has cached that there is nothing.
CallsReachTheLibrary ==
    LET w == last.w
        offered == {s \in Exports(LibOf(w)) :
                      \E i \in DOMAIN Chain(w) : Chain(w)[i] = s}
    IN  (last # NoCall /\ loaded[LibOf(w)] # "no" /\ ~(offered \subseteq early))
           => last.res = "real"
=============================================================================
