CONSTANTS
  IntWidth = 4
  MaxSize = 4
  Literals <- MCLiterals
SPECIFICATION Spec
INVARIANTS
  TypeOK
  RangeServesRequestedBytes
CHECK_DEADLOCK FALSE
