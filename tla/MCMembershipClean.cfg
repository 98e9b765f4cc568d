\* Joins, leaves, promotions, posts and one restart, every write succeeds.
SPECIFICATION Spec
CONSTANTS
  User = {u1, u2}
  Window = 2
  Veterans = {}
  Statuses = {"administrator"}
  Skew = 1
  MaxLost = 0
  MaxCrashes = 1
  MaxQueue = 3
  MaxReplay = 1
SYMMETRY UserSymmetry
INVARIANTS TypeOK NewcomerCaught RowsCatchUp
CHECK_DEADLOCK FALSE
