CONSTANTS
  IntWidth = 4
  Names = {n1}
  Literals <- MCLiterals
  MaxCallbacks = 4
  MaxDocs = 2
  Empty = Empty
SPECIFICATION Spec
INVARIANTS
  TypeOK
  QueryFollowsCallbacks
  SelectOutcome
CHECK_DEADLOCK FALSE
