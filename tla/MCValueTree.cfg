CONSTANTS
  Values = {v1, v2, v3, v4}
  Blocks = {b1, b2, b3}
  None = None
SPECIFICATION Spec
SYMMETRY Symmetry
INVARIANTS TypeOK NoUseAfterFree OwnedOnce ClearStackExact
CHECK_DEADLOCK FALSE
