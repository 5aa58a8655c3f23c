\* A call may wait for a call of another thread.
CONSTANTS
    main = main
    t2 = t2
    t3 = t3
    NoTid = NoTid
    Tid = {main, t2}
    Target = main
    ProcOf <- TwoThreads
    Calls = {"work", "wait", "clone"}
    MaxDepth = 1
    PipeCap = 2
    FgraphEnabled = TRUE
    PromptCloneEvents = TRUE
SPECIFICATION FairSpec
PROPERTY EachWindowCallIsCaptured
