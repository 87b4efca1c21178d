SPECIFICATION CoSpec
CONSTANTS
    Routines = 3
    Pieces = 2
    Live = 4
    Main = Main
INVARIANTS PoolSound JumpsLand
CHECK_DEADLOCK FALSE
