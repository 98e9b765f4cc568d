\* Two consumers, as while a deployment overlaps.
SPECIFICATION FairSpec
CONSTANTS
  Message = {m1, m2}
  Consumer = {k1, k2}
  Content <- Mixed
  Resolver = {"google-share", "amp"}
  Sandboxes = {TRUE, FALSE}
  ClaimWait = 1
  TTL = 2
  MaxVersion = 1
  MaxRestarts = 0
  MaxFaults = 0
INVARIANTS OneLivePerRule
PROPERTIES ClaimEnds
CHECK_DEADLOCK FALSE
