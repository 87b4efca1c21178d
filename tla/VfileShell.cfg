SPECIFICATION Spec
CONSTANTS
    Task = {t1, t2, t3, t4, t5}
    File = {f1, f2}
    First = t1
    NULL = NULL
    MaxDropped = 1
SYMMETRY Symmetry
CONSTRAINT InOrder
INVARIANTS RefcntExact FreedOnce
