\* Two threads whose calls return.
CONSTANTS
    main = main
    t2 = t2
    t3 = t3
    NoTid = NoTid
    Tid = {main, t2}
    Target = main
    ProcOf <- TwoThreads
    Calls = {"work", "clone", "quit"}
    MaxDepth = 1
    PipeCap = 2
    FgraphEnabled = TRUE
    PromptCloneEvents = TRUE
SPECIFICATION FairSpec
PROPERTIES
    HeldIsReleased
    EachWindowCallIsCaptured
