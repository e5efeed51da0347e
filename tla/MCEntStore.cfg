SPECIFICATION Spec
CONSTANTS
  Null = Null
  Workers = {w1, w2}
  w1 = w1
  w2 = w2
  Ids = {1, 3}
  MaxCalls = 3
  MaxBuilders = 2
  Focus <- MCFocus
SYMMETRY Symmetry
INVARIANT TypeOK
PROPERTIES SavesGrantWishes OnlyDuplicatesRefused
CHECK_DEADLOCK FALSE
