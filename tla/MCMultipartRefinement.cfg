CONSTANTS
  Clients = {c1, c2}
  Buckets = {b1}
  Keys = {k1, k2}
  Bodies = {"big", "small"}
  LargeBodies = {"big"}
  MaxPartNumber = 1
  MaxUploads = 2
  None = None
  CompleteLists <- MCSmallCompleteLists
SPECIFICATION Spec
PROPERTY
  LifecycleRefined
