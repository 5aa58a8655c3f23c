\* A process forked by a thread that has opened a window.
CONSTANTS
    main = main
    t2 = t2
    t3 = t3
    NoTid = NoTid
    Tid = {main, t2}
    Target = main
    ProcOf <- TwoProcesses
    Calls = {"work", "clone", "quit"}
    MaxDepth = 1
    PipeCap = 2
    FgraphEnabled = TRUE
    PromptCloneEvents = TRUE
SPECIFICATION Spec
INVARIANT CapturesOnlyInWindow
