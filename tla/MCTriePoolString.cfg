CONSTANTS
  a = a
  b = b
  Chars = {a, b}
  NoChar = NoChar
  MaxString = 2
  MaxPool = 2
  MaxTmp = 2
SPECIFICATION FairSpec
PROPERTIES StringResolves
