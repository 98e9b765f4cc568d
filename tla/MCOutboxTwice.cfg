\* No fault at all: inline delivery against the worker.
SPECIFICATION Spec
CONSTANTS
  Action <- MCOneAction
  Plans = {"text"}
  Worker = {w1}
  Handler = handler
  MaxShift = 1
  LeaseDuration = 2
  RetryDelay = 3
  MaxPosts = 2
  MaxFaults = 0
INVARIANTS ExactlyOnce
CHECK_DEADLOCK FALSE
