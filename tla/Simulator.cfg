\* Three nodes, two tiers, arrivals before and during the turns of the others.
SPECIFICATION FairSpec
CONSTANTS
  N = 3
  SgxMax = 3
  Tiers = 2
  Arrival = {0, 2}
  Limit = 12
  UintSpan = 256
INVARIANTS QueuedOnce QuantumPositive LeadsOncePerStay WaitsForOthers ClientNotLate
PROPERTIES Terminates
CHECK_DEADLOCK FALSE
