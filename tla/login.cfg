CONSTANTS
  l1 = l1
  l2 = l2
  l3 = l3
  l4 = l4
  l5 = l5
  Logins = {l1, l2, l3, l4, l5}
  Limit = 2
  Window = 2
  MaxTime = 6
SPECIFICATION Spec
SYMMETRY Symmetry
INVARIANTS TypeOK
PROPERTIES NeverTooMany NeverLockedOut
CHECK_DEADLOCK FALSE
