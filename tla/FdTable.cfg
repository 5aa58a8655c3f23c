\* Two threads of one process, stops handled in any order.
CONSTANTS
    t1 = t1
    t2 = t2
    p1 = p1
    Thr = {t1, t2}
    ProcOf <- OneProcess
    Fds = {0, 1, 2}
    Files = {"gpu", "data"}
    None = None
SPECIFICATION Spec
SYMMETRY Symmetry
INVARIANTS
    TablesRightAtRest
    LinesRight
