\* Three threads of one process, every kind of call that returns.
CONSTANTS
    main = main
    t2 = t2
    t3 = t3
    NoTid = NoTid
    Tid = {main, t2, t3}
    Target = main
    ProcOf <- Threads
    Calls = {"work", "clone", "quit"}
    MaxDepth = 1
    PipeCap = 3
    FgraphEnabled = TRUE
    PromptCloneEvents = TRUE
SPECIFICATION Spec
SYMMETRY Symmetry
INVARIANTS
    TypeOK
    OneUpdatePending
    CaptureMatchesState
    NoStrandedWaiter
    EntryExitInStep
    WindowUpToDate
    WindowCallsCaptured
    CapturesOnlyInWindow
    NothingLeftOfTheDead
PROPERTY
    CaptureSpansOneCall
    ImplementsLock
