\* The original of an enriched reply is edited.
SPECIFICATION Spec
CONSTANTS
  Message = {m1}
  Consumer = {k1}
  Content <- BareLinks
  Resolver = {"google-share", "amp"}
  Sandboxes = {FALSE}
  ClaimWait = 1
  TTL = 2
  MaxVersion = 2
  MaxRestarts = 0
  MaxFaults = 0
INVARIANTS OriginalKept
CHECK_DEADLOCK FALSE
