\* One failing write.
SPECIFICATION Spec
CONSTANTS
  User = {u1, u2}
  Window = 2
  Veterans = {}
  Statuses = {}
  Skew = 0
  MaxLost = 1
  MaxCrashes = 0
  MaxQueue = 3
  MaxReplay = 0
INVARIANTS NewcomerCaught
CHECK_DEADLOCK FALSE
