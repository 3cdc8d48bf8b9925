\* Clients that enter one after the other.
CONSTANTS
  c1 = c1
  c2 = c2
  k1 = k1
  none = none
  Conn <- MCConn
  Key <- MCKey
  NoKey <- MCNoKey
  sgxt_lowerbound = 1
  sgxmax = 2
  Sgxt = {2}
  MaxIds = 3
  MaxNow = 1
  MaxLeadership = 1
SPECIFICATION SpecInOrder
SYMMETRY Interchangeable
INVARIANTS TableIndexedById QueueFrontDistinct QueuePublished
PROPERTY InsertRestoresQueue
CHECK_DEADLOCK FALSE
