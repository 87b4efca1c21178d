SPECIFICATION Spec
CONSTANTS
    w1 = w1
    w2 = w2
    p1 = p1
    p2 = p2
    Reader = {r1}
    Writer = {w1, w2}
    ProcessOf <- Shared
    Limit = 1
INVARIANTS
    FileExclusive
