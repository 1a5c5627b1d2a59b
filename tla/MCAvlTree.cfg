CONSTANTS
  Few = 9
  Many = 10
  Keys <- MCKeys
  Entries <- MCEntries
  Nodes <- MCKeys
  Nil = Nil
SPECIFICATION Spec
INVARIANTS TypeOK TreeBalanced IndexOrder
PROPERTY ImplementsMap
CONSTRAINT SmallOrLarge
