\* A queue of at most four items with three different values.
CONSTANTS
  x1 = x1
  x2 = x2
  x3 = x3
  x4 = x4
  null = null
  Item <- MCItem
  Null <- MCNull
  Value = {0, 1, 2}
SPECIFICATION FairSpec
INVARIANTS TypeOK WellFormed NoAssertFails
PROPERTIES Implements CleanupEnds
CHECK_DEADLOCK FALSE
