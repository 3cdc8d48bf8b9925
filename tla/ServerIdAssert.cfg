\* Two clients, registered at the same time or entering out of order.
CONSTANTS
  c1 = c1
  c2 = c2
  k1 = k1
  none = none
  Conn <- MCConn
  Key <- MCKey
  NoKey <- MCNoKey
  sgxt_lowerbound = 1
  sgxmax = 2
  Sgxt = {2}
  MaxIds = 2
  MaxNow = 1
  MaxLeadership = 1
SPECIFICATION Spec
SYMMETRY Interchangeable
INVARIANT NoIdAssert
CHECK_DEADLOCK FALSE
