\* Claims, rights and both operator flags in any order.
SPECIFICATION Spec
CONSTANTS
  User = {u1, u2}
  Chat = {c1, c2, d}
  Group = {c1, c2}
  Resetter = {r1, r2}
  Approver = {a1}
  MaxUpdates = 4
SYMMETRY Symmetry
INVARIANTS TypeOK ApprovedOnRequest StaleOwnerHasCause
CHECK_DEADLOCK FALSE
