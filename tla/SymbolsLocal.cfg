\* Libraries loaded with RTLD_LOCAL, the default of dlopen.
CONSTANTS
    Modes = {"local"}
    Handles = {"cuda", "cudart"}
SPECIFICATION Spec
INVARIANTS
    CallsReachTheLibrary
