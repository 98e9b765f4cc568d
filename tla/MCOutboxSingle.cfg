\* One action of every kind, one worker, two faults, under the fairness of FairSpec.
SPECIFICATION FairSpec
CONSTANTS
  Action <- MCOneAction
  Plans = {"text", "copy_media", "reply"}
  Worker = {w1}
  Handler = handler
  MaxShift = 1
  LeaseDuration = 2
  RetryDelay = 3
  MaxPosts = 2
  MaxFaults = 2
INVARIANTS TypeOK CompleteIsHonest DuplicateHasCause
PROPERTIES DeliveryKeepsReplied Implements EverySettles
CHECK_DEADLOCK FALSE
