CONSTANTS
  IntWidth = 4
  MaxSize = 4
  Literals <- MCLiterals
SPECIFICATION Spec
INVARIANT
  ResolvedRangeWithinObject
CHECK_DEADLOCK FALSE
