\* One consumer, wrappers and their reposts, a restart with redelivery, one fault.
SPECIFICATION Spec
CONSTANTS
  Message = {m1, m2}
  Consumer = {k1}
  Content <- Wrappers
  Resolver = {"google-share", "amp"}
  Sandboxes = {FALSE}
  ClaimWait = 1
  TTL = 2
  MaxVersion = 1
  MaxRestarts = 1
  MaxFaults = 1
SYMMETRY MessageSymmetry
INVARIANTS TypeOK OneLivePerContent DeletionsAccounted
PROPERTIES JudgedOnce
CHECK_DEADLOCK FALSE
