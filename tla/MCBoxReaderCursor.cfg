CONSTANTS
  Radix = 4
  MaxGroups = 3
  Ints = {1, 5}
  Names = {100}
  Boxes <- MCBoxes
  MaxBoxes = 2
  Versions = {1, 2}
SPECIFICATION Spec
INVARIANT SuccessMoves
CHECK_DEADLOCK FALSE
