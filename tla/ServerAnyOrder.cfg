\* Two connections whose clients register and enter in any order.
CONSTANTS
  c1 = c1
  c2 = c2
  k1 = k1
  none = none
  Conn <- MCConn
  Key <- MCKey
  NoKey <- MCNoKey
  sgxt_lowerbound = 1
  sgxmax = 2
  Sgxt = {0, 1, 2, 3}
  MaxIds = 2
  MaxNow = 1
  MaxLeadership = 1
SPECIFICATION Spec
SYMMETRY Interchangeable
INVARIANT EntriesInRange
PROPERTY StayShrinks
CHECK_DEADLOCK FALSE
