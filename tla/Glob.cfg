SPECIFICATION Spec
CONSTANTS
  Characters = {"a", "b", "?", "*"}
  Any = "?"
  Many = "*"
  MaxPattern = 3
  MaxValue = 4
  NoStar = npos
CHECK_DEADLOCK FALSE
INVARIANTS
  PlainNamesMatch
  SelectsOnlyMatches
PROPERTY
  Terminates
