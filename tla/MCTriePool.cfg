CONSTANTS
  a = a
  b = b
  Chars = {a, b}
  NoChar = NoChar
  MaxString = 2
  MaxPool = 3
  MaxTmp = 2
SPECIFICATION FairSpec
INVARIANTS TypeOK TableIsTrie NameDecoded
PROPERTIES NameResolves
