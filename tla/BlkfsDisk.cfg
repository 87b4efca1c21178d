SPECIFICATION Spec
CONSTANTS
    Inode = {0, 1, 2}
    Block = {1, 2, 3, 4, 5, 6}
    Mem = 3
    Name = {91, 92}
    UP = 90
    Wipe <- MCWipe
    Handle = {h1, h2}
    Chunk = {3, 4}
    MaxSize = 7
    MaxPwd = 2
    Path <- MCPath
    NULL = NULL
SYMMETRY MCSymmetry
INVARIANTS BlocksOwned ContentKept ReadsRight NamesKept PwdIsCwd
CHECK_DEADLOCK FALSE
