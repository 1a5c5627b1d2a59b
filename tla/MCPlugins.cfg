CONSTANTS
  r1 = r1
  r2 = r2
  t1 = t1
  t2 = t2
  g1 = g1
  g2 = g2
  None = None
  Results = {r1, r2}
  Texts = {t1, t2}
  Consts = {c}
  Customs = {"custom1"}
  Objects = {"object1"}
  Descriptors <- MCDescriptors
  MaxHoles = 2
  MaxMsgs = 2
  MaxRefs = 2
  MaxEntries = 2
SPECIFICATION Spec
CHECK_DEADLOCK FALSE
INVARIANTS TypeOK TextOwnedOnce SameProvider
PROPERTY ImplementsLog
SYMMETRY MCSymmetry
