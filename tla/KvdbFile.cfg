SPECIFICATION FileSpec
CONSTANTS
  Keys <- MCKeys
  Vals <- MCVals
  NULL = NULL
  Words = 170
  MaxPuts = 5
INVARIANTS  BlocksDisjoint
CONSTRAINT InOrder
