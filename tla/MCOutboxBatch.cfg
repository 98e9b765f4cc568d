\* Two actions in one batch, one fault in it.
SPECIFICATION Spec
CONSTANTS
  Action <- MCAction
  Plans = {"text"}
  Worker = {w1}
  Handler = handler
  MaxShift = 1
  LeaseDuration = 1
  RetryDelay = 2
  MaxPosts = 2
  MaxFaults = 1
INVARIANTS ResponseAfterDelete
PROPERTIES TerminalIsFinalAlone
CHECK_DEADLOCK FALSE
