\* Libraries linked, or loaded with RTLD_GLOBAL.
CONSTANTS
    Modes = {"global"}
    Handles = {"cuda", "cudart", "default"}
SPECIFICATION Spec
INVARIANTS
    CallsReachTheLibrary
