SPECIFICATION Spec
CONSTANTS
    c1 = c1
    c2 = c2
    t1 = t1
    t2 = t2
    CPU = {c1, c2}
    Task = {t1, t2}
    Heap = 16
    Header = 2
    Page = 4
    Size <- MCSize
    NULL = NULL
SYMMETRY MCSymmetry
CONSTRAINT InOrder
INVARIANTS NoOverlap Tiled
CHECK_DEADLOCK FALSE
