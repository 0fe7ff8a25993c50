CONSTANTS
  Clients = {c1, c2}
  Buckets = {b1}
  Keys = {k1, k2}
  Bodies = {"big", "small"}
  LargeBodies = {"big"}
  MaxPartNumber = 2
  MaxUploads = 2
  None = None
  CompleteLists <- MCCompleteLists
SYMMETRY MCSymmetry
SPECIFICATION Spec
INVARIANTS
  TypeOK
  AbortCompleteExclusive
  CompletedObjectAtUploadKey
