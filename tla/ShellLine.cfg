SPECIFICATION Spec
CONSTANTS
    Line <- MCLine
    TreeOf <- parsecmd
    MaxArgs = 3
    FdNum = 9
INVARIANTS ParseRight TablesRight InOrder OnlyBackgroundLate EndsSeen
PROPERTY Settles
CHECK_DEADLOCK FALSE
