SPECIFICATION FairSpec
CONSTANTS
    Size = 4
    Total = 10
    Chunk = 6
    Wrap = Wrap
INVARIANTS EndMissed
PROPERTIES StreamSpec WriteReturns
CHECK_DEADLOCK FALSE
