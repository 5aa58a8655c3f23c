\* With syscall tracing (brace mode, windows, updates that may be lost) and
\* without (a call without children is one line).
CONSTANTS
    Func = {f, g, h}
    Traced = {f, g}
    Watched = {g, h}
    MaxSeq = 2
    MaxNest = 3
    MaxCalls = 2
    MaxSyscalls = 1
    MaxLost = 1
SPECIFICATION Spec
INVARIANTS
    TracedUnlessGuarded
    LossyLabelsBounded
    LabelsMatchWindows
    OutputRendersHistory
PROPERTY
    OutermostExitForgets
