\* Captures of two threads, any write may fail, and another process loads the
\* library at any time.
CONSTANTS
    t1 = t1
    t2 = t2
    Tid = {t1, t2}
    Nobody = Nobody
    Loads = 2
SPECIFICATION Spec
SYMMETRY Symmetry
INVARIANTS
    NeverRecordsEveryone
    FileIsOfOneThread
    ActiveCaptureRecords
PROPERTY
    StartsClean
