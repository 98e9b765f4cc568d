\* A member from before the bot who leaves, comes back, is promoted and restricted:
\* a failing write, a clock ahead of the bot's, a restart that repeats two updates.
SPECIFICATION Spec
CONSTANTS
  User = {u1}
  Window = 1
  Veterans = {u1}
  Statuses = {"administrator", "restricted"}
  Skew = 1
  MaxLost = 1
  MaxCrashes = 1
  MaxQueue = 3
  MaxReplay = 2
INVARIANTS VeteranFree
CHECK_DEADLOCK FALSE
