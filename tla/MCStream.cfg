SPECIFICATION Spec
CONSTANTS
  Radix = 128
  MaxGroups = 2
  DoubleLen = 2
  FloatLen = 2
  Outs = {o1, o2}
  None = None
  Values <- MCValues
  JsonValues <- MCJsonValues
  Objects <- MCObjects
  Made <- MCMade
  MaxBoxes = 3
  MaxSent = 2
  MaxItems = 2
SYMMETRY Symmetry
INVARIANTS
  TypeOK
  ReadsExactly
  PointersResolve
  DumpAgrees
  PointersMarked
PROPERTY ImplementsChannel
CHECK_DEADLOCK FALSE
