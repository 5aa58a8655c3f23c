---------------------------- MODULE SymbolProofs ----------------------------
(***************************************************************************)
(* Proofs about SymbolResolution, for a program that links the libraries   *)
(* or loads them with RTLD_GLOBAL.  What makes CallsReachTheLibrary hold   *)
(* after any sequence of loads, lookups and calls is that a failure stays  *)
(* cached only for a name that no library has, or from before the load.    *)
(***************************************************************************)
EXTENDS SymbolResolution, TLAPS

\* Nothing is loaded with RTLD_LOCAL.
AllGlobal == Modes \subseteq {"global"}

\* The inductive invariant: the handle the library remembers is that of a
\* library still loaded, a cell holds nothing but what a lookup gave, and a
\* failure that is cached for a name its library has is an early one.
SymInv ==
    /\ loaded \in [Libs -> {"no", "global"}]
    /\ handle \in Libs \cup {"default"}
    /\ handle \in Libs => loaded[handle] = "global"
    /\ cell \in [Names -> {"unset", "real", "none"}]
    /\ \A s \in Names :
         cell[s] = "none" /\ s \in Exports(LibOf(s)) => s \in early
    /\ got \subseteq Wrappers
    /\ last = NoCall \/ last.w \in Wrappers
    /\ CallsReachTheLibrary

\* A wrapper tries one or two names, of its own library.
LEMMA ChainNames ==
    ASSUME NEW w \in Wrappers
    PROVE  /\ Chain(w) \in Seq(Names)
           /\ Len(Chain(w)) \in {1, 2}
           /\ DOMAIN Chain(w) = 1..Len(Chain(w))
           /\ \A i \in 1..Len(Chain(w)) : LibOf(Chain(w)[i]) = LibOf(w)
           /\ LibOf(w) \in Libs
<1>1. w \in {"cuInit", "cuStreamDestroy", "cuGetProcAddress",
             "cuGetProcAddress_v2", "cuMemAlloc_v2", "cuMemAdvise", "cudaMalloc"}
  BY DEF Wrappers, Wrapper, Names
<1>2. w \in Names /\ LibOf(w) \in Libs
  BY <1>1 DEF Names, LibOf, Libs
<1>3. CASE w \in {"cuInit", "cuMemAlloc_v2", "cuMemAdvise", "cudaMalloc"}
  <2>1. Chain(w) = <<w>>
    BY <1>3 DEF Chain
  <2> QED
    BY <1>2, <2>1
<1>4. CASE w = "cuStreamDestroy"
  BY <1>4 DEF Chain, LibOf, Libs, Names
<1>5. CASE w = "cuGetProcAddress"
  BY <1>5 DEF Chain, LibOf, Libs, Names
<1>6. CASE w = "cuGetProcAddress_v2"
  BY <1>6 DEF Chain, LibOf, Libs, Names
<1> QED
  BY <1>1, <1>3, <1>4, <1>5, <1>6

\* What a wrapper gets for a name: the real function if the library that has it
\* is loaded and the name is not cached as missing; never the wrapper itself.
LEMMA ValueOf ==
    ASSUME SymInv, NEW w \in Wrappers, NEW s \in Names, LibOf(s) = LibOf(w)
    PROVE  /\ Value(w, s) \in {"real", "none"}
           /\ loaded[LibOf(w)] # "no" /\ s \in Exports(LibOf(w)) /\ s \notin early
                => Value(w, s) = "real"
           /\ Value(w, s) = "none" /\ cell[s] = "unset" /\ s \in Exports(LibOf(w))
                => loaded[LibOf(w)] = "no"
<1>1. LibOf(w) \in Libs
  BY ChainNames
<1>2. /\ loaded[LibOf(w)] \in {"no", "global"}
      /\ cell[s] \in {"unset", "real", "none"}
      /\ handle # "default" => loaded[handle] = "global" /\ handle \in Libs
      /\ cell[s] = "none" /\ s \in Exports(LibOf(s)) => s \in early
  BY <1>1 DEF SymInv
<1>3. loaded[LibOf(w)] = "global" /\ s \in Exports(LibOf(w))
        => resolve_next_from_ptr(s) = "real"
  BY <1>1 DEF resolve_next_from_ptr, Global
<1>4. resolve_next_from_ptr(s) \in {"real", "none"}
  BY DEF resolve_next_from_ptr
<1>5. handle # "default" => RealDlsym(handle, s) \in {"real", "none"}
  BY <1>2 DEF RealDlsym
<1>6. /\ resolve_driver_from_ptr(s) \in {"real", "none"}
      /\ resolve_next_from_ptr(s) = "real" => resolve_driver_from_ptr(s) = "real"
  BY <1>4, <1>5 DEF resolve_driver_from_ptr
<1> QED
  BY <1>2, <1>3, <1>4, <1>6 DEF Value

\* The names tried are the first of the chain, up to one that is found if there
\* is one.
LEMMA TriedOf ==
    ASSUME NEW w \in Wrappers
    PROVE  \E end \in 1..Len(Chain(w)) :
             /\ Len(Tried(w)) = end
             /\ DOMAIN Tried(w) = 1..end
             /\ \A i \in 1..end : Tried(w)[i] = Chain(w)[i]
             /\ (\E i \in 1..Len(Chain(w)) : Value(w, Chain(w)[i]) # "none")
                  => Value(w, Chain(w)[end]) # "none"
<1> DEFINE c == Chain(w)
           found == {i \in DOMAIN c : Value(w, c[i]) # "none"}
           end == IF found = {} THEN Len(c)
                  ELSE CHOOSE i \in found : \A j \in found : i <= j
<1>1. /\ c \in Seq(Names) /\ Len(c) \in {1, 2} /\ DOMAIN c = 1..Len(c)
  BY ChainNames
<1>2. Tried(w) = SubSeq(c, 1, end)
  BY DEF Tried
<1> HIDE DEF c
<1>3. found # {} => \E i \in found : \A j \in found : i <= j
  <2>1. found \subseteq 1..2
    BY <1>1
  <2> HIDE DEF found
  <2>2. CASE 1 \in found
    BY <2>1, <2>2
  <2>3. CASE 1 \notin found
    <3>1. \A j \in found : j = 2
      BY <2>1, <2>3
    <3> QED
      BY <3>1
  <2> QED
    BY <2>2, <2>3
<1>4. end \in 1..Len(c) /\ (found # {} => end \in found)
  BY <1>1, <1>3
<1>5. found # {} => Value(w, c[end]) # "none"
  BY <1>4
<1> HIDE DEF end
<1>6. /\ Len(SubSeq(c, 1, end)) = end
      /\ DOMAIN SubSeq(c, 1, end) = 1..end
      /\ \A i \in 1..end : SubSeq(c, 1, end)[i] = c[i]
  BY <1>1, <1>4
<1> QED
  BY <1>1, <1>2, <1>4, <1>5, <1>6 DEF c

\* A wrapper gives a value that a name of its chain has; it is the real function
\* if one of them has that.
LEMMA ResultOf ==
    ASSUME SymInv, NEW w \in Wrappers
    PROVE  (\E i \in 1..Len(Chain(w)) : Value(w, Chain(w)[i]) = "real")
             => Result(w) = "real"
<1>1. PICK end \in 1..Len(Chain(w)) :
        /\ Len(Tried(w)) = end
        /\ DOMAIN Tried(w) = 1..end
        /\ \A i \in 1..end : Tried(w)[i] = Chain(w)[i]
        /\ (\E i \in 1..Len(Chain(w)) : Value(w, Chain(w)[i]) # "none")
             => Value(w, Chain(w)[end]) # "none"
  BY TriedOf
<1>2. /\ Chain(w)[end] \in Names /\ LibOf(Chain(w)[end]) = LibOf(w)
  BY ChainNames
<1>3. Value(w, Chain(w)[end]) \in {"real", "none"}
  BY <1>2, ValueOf
<1>4. end \in 1..end
  BY ChainNames
<1>5. Result(w) = Value(w, Chain(w)[end])
  BY <1>1, <1>4 DEF Result
<1> QED
  BY <1>1, <1>3, <1>5

\* A call keeps the invariant, whatever it adds to got.
LEMMA CallStep ==
    ASSUME SymInv, NEW w \in Wrappers, Call(w), got' \subseteq Wrappers
    PROVE  SymInv'
<1>1. /\ w \in got /\ UNCHANGED <<exports, loaded, handle>>
      /\ last' = [w |-> w, res |-> Result(w)]
      /\ cell' = [s \in Names |->
                  IF \E i \in DOMAIN Tried(w) : Tried(w)[i] = s
                    THEN IF Generated(w) /\ Value(w, s) = "none" THEN "unset"
                         ELSE Value(w, s)
                    ELSE cell[s]]
      /\ early' = early \cup {s \in Names : cell'[s] = "none" /\ cell[s] = "unset"
                                            /\ loaded[LibOf(w)] = "no"}
  BY DEF Call
<1>2. \A lib : Exports(lib)' = Exports(lib)
  BY <1>1 DEF Exports
<1>3. ASSUME NEW i \in DOMAIN Tried(w)
      PROVE  Tried(w)[i] \in Names /\ LibOf(Tried(w)[i]) = LibOf(w)
  BY <1>3, TriedOf, ChainNames
<1>4. ASSUME NEW s \in Names
      PROVE  /\ cell'[s] \in {"unset", "real", "none"}
             /\ cell'[s] = "none" /\ s \in Exports(LibOf(s)) => s \in early'
  <2>1. CASE \E i \in DOMAIN Tried(w) : Tried(w)[i] = s
    <3>1. LibOf(s) = LibOf(w)
      BY <1>3, <2>1
    <3>2. /\ Value(w, s) \in {"real", "none"}
          /\ Value(w, s) = "none" /\ cell[s] = "unset" /\ s \in Exports(LibOf(w))
               => loaded[LibOf(w)] = "no"
      BY <3>1, ValueOf
    <3>3. cell'[s] = IF Generated(w) /\ Value(w, s) = "none" THEN "unset"
                     ELSE Value(w, s)
      BY <1>1, <2>1
    <3>4. cell'[s] \in {"unset", "real", "none"}
      BY <3>2, <3>3
    <3>5. ASSUME cell'[s] = "none", s \in Exports(LibOf(s)) PROVE s \in early'
      <4>1. Value(w, s) = "none"
        BY <3>3, <3>5
      <4>2. CASE cell[s] = "unset"
        BY <1>1, <3>1, <3>2, <3>5, <4>1, <4>2
      <4>3. CASE cell[s] # "unset"
        <5>1. cell[s] = "none"
          BY <4>1, <4>3 DEF Value
        <5> QED
          BY <1>1, <3>5, <5>1 DEF SymInv
      <4> QED
        BY <4>2, <4>3
    <3> QED
      BY <3>4, <3>5
  <2>2. CASE ~\E i \in DOMAIN Tried(w) : Tried(w)[i] = s
    <3>1. cell'[s] = cell[s]
      BY <1>1, <2>2
    <3> QED
      BY <1>1, <3>1 DEF SymInv
  <2> QED
    BY <2>1, <2>2
<1>5. last'.w = w /\ last'.res = Result(w)
  BY <1>1
<1>6. CallsReachTheLibrary'
  <2> SUFFICES ASSUME loaded[LibOf(w)] # "no",
                      NEW s \in Exports(LibOf(w)), s \notin early',
                      NEW i \in DOMAIN Chain(w), Chain(w)[i] = s
               PROVE  Result(w) = "real"
    BY <1>1, <1>2, <1>5 DEF CallsReachTheLibrary
  <2>1. s \in Names /\ LibOf(s) = LibOf(w) /\ i \in 1..Len(Chain(w))
    BY ChainNames
  <2>2. s \notin early
    BY <1>1
  <2>3. Value(w, s) = "real"
    BY <2>1, <2>2, ValueOf
  <2> QED
    BY <2>1, <2>3, ResultOf
<1>7. cell' \in [Names -> {"unset", "real", "none"}]
  BY <1>1, <1>4
<1> QED
  BY <1>1, <1>2, <1>4, <1>5, <1>6, <1>7 DEF SymInv

LEMMA SymInvStep ==
    ASSUME AllGlobal, SymInv, [Next]_vars
    PROVE  SymInv'
<1>1. ASSUME NEW lib \in Libs, NEW mode \in Modes, Dlopen(lib, mode)
      PROVE  SymInv'
  <2>1. /\ loaded[lib] = "no" /\ mode = "global"
        /\ loaded' = [loaded EXCEPT ![lib] = mode]
        /\ got' = got \cup {w \in Wrappers : LibOf(w) = lib /\ mode = "global"}
        /\ last' = NoCall
        /\ UNCHANGED <<exports, handle, cell, early>>
    BY <1>1 DEF Dlopen, AllGlobal
  <2>2. \A l : Exports(l)' = Exports(l)
    BY <2>1 DEF Exports
  <2>3. CallsReachTheLibrary'
    BY <2>1 DEF CallsReachTheLibrary, NoCall
  <2>4. /\ loaded' \in [Libs -> {"no", "global"}]
        /\ handle' \in Libs => loaded'[handle'] = "global"
    BY <2>1 DEF SymInv
  <2> QED
    BY <2>1, <2>2, <2>3, <2>4 DEF SymInv
<1>2. ASSUME NEW h \in Handles, NEW name \in Names, dlsym(h, name)
      PROVE  SymInv'
  <2>1. /\ h \in Libs \cup {"default"}
        /\ h \in Libs => loaded[h] # "no"
        /\ handle' = h
        /\ got' = got \cup {Wrapper(name)}
        /\ UNCHANGED <<exports, loaded, cell, last, early>>
    BY <1>2, LoadingAssumption DEF dlsym
  <2>2. Wrapper(name) \in Wrappers
    BY DEF Wrappers
  <2>3. \A l : Exports(l)' = Exports(l)
    BY <2>1 DEF Exports
  <2>4. CallsReachTheLibrary'
    BY <2>1, <2>3 DEF SymInv, CallsReachTheLibrary
  <2> QED
    BY <2>1, <2>2, <2>3, <2>4 DEF SymInv
<1>3. ASSUME NEW w \in Wrappers, CallFunction(w) PROVE SymInv'
  BY <1>3, CallStep DEF CallFunction, SymInv
<1>4. ASSUME NEW w \in ProcAddress, NEW name \in Names, GetProcAddress(w, name)
      PROVE  SymInv'
  <2>1. w \in Wrappers /\ Wrapper(name) \in Wrappers
    BY DEF ProcAddress, Wrappers, Names, Wrapper
  <2>2. Call(w) /\ got' \subseteq Wrappers
    BY <1>4, <2>1 DEF GetProcAddress, SymInv
  <2> QED
    BY <2>1, <2>2, CallStep
<1>5. CASE UNCHANGED vars
  BY <1>5 DEF vars, SymInv, CallsReachTheLibrary, Exports
<1> QED
  BY <1>1, <1>2, <1>3, <1>4, <1>5 DEF Next

\* Whatever the program loads, looks up and calls, in any order and under any
\* handle, as long as it loads with RTLD_GLOBAL: a call reaches the library if
\* that is loaded and has one of the names, unless its wrapper has cached from
\* before the load that there is nothing.
THEOREM GlobalCallsReach ==
    ASSUME AllGlobal
    PROVE  Spec => []CallsReachTheLibrary
<1>1. Init => SymInv
  <2> SUFFICES ASSUME Init PROVE SymInv
    OBVIOUS
  <2>1. /\ loaded \in [Libs -> {"no", "global"}]
        /\ handle = "default" /\ handle \notin Libs
        /\ cell = [s \in Names |-> "unset"]
        /\ got \subseteq Wrappers /\ last = NoCall
    BY DEF Init, Libs
  <2>2. CallsReachTheLibrary
    BY <2>1 DEF CallsReachTheLibrary
  <2> QED
    BY <2>1, <2>2 DEF SymInv
<1>2. SymInv /\ [Next]_vars => SymInv'
  BY SymInvStep
<1>3. SymInv => CallsReachTheLibrary
  BY DEF SymInv
<1> QED
  BY <1>1, <1>2, <1>3, PTL DEF Spec
=============================================================================
