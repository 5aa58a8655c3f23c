\* Two threads that execute other programs, clone events handled late, a pipe
\* that overflows.
CONSTANTS
    main = main
    t2 = t2
    NoTid = NoTid
    Tid = {main, t2}
    Target = main
    ProcOf <- TwoThreads
    Calls = {"work", "clone", "quit", "exec"}
    MaxDepth = 1
    PipeCap = 1
    FgraphEnabled = TRUE
    PromptCloneEvents = FALSE
SPECIFICATION ExecSpec
INVARIANTS
    OneCaptureAcrossExec
    HeldIsQueued
    QueueHasNoDuplicates
