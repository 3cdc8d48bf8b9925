SPECIFICATION FairSpec
CONSTANTS
  N = 3
  SgxMax = 3
  Tiers = 2
  Table <- MCTable
  Queue <- MCQueue
  Current <- MCCurrent
  Delay <- MCDelay
INVARIANTS TypeOK NoAssertFails RejoinsIfOut RoundRobin 
PROPERTIES Terminates
CHECK_DEADLOCK FALSE
