SPECIFICATION FairSpec
CONSTANTS
    w1 = w1
    w2 = w2
    p1 = p1
    p2 = p2
    Reader = {r1, r2}
    Writer = {w1, w2}
    ProcessOf <- OneProcess
    Limit = 1
INVARIANTS WaitersCounted ParkedForSomeone
PROPERTIES
    WriterServed
    ReaderServed
