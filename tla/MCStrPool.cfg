CONSTANTS
  s1 = s1
  s2 = s2
  s3 = s3
  Strings <- MCStrings
  MaxDepth = 3
  MaxPool = 2
SYMMETRY Symmetry
SPECIFICATION Spec
INVARIANTS TypeOK TableResolves TableExact
