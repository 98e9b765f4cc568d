\* Streams that break, handlers that fail, a shutdown or a crash.
SPECIFICATION FairSpec
CONSTANTS
  Buffer = 2
  Batch = 2
  MaxBackoff = 3
  MaxUpdates = 5
  MaxBreaks = 2
  MaxRestarts = 1
INVARIANTS TypeOK NothingIsSkipped LossIsBounded
PROPERTIES EveryUpdateIsSeen ShutdownEnds
CHECK_DEADLOCK FALSE
