SPECIFICATION Spec
CONSTANTS
  Characters = {"a", "b", "?", "*"}
  Any = "?"
  Many = "*"
  MaxPattern = 3
  MaxValue = 2
  NoStar = npos
CHECK_DEADLOCK FALSE
INVARIANT MatchesAsDocumented
