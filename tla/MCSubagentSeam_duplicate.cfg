SPECIFICATION Spec
CONSTANTS
  Role = {r1}
  Child = {c1}
  Dispatch = {d1, d2}
  Key = {k1}
  Fiber = {f1}
  None = None
  KeyOf <- AnyKey
  JobResults = FALSE
  PendingLimit = 1
  EmittedLimit = 1
SYMMETRY Symmetry
PROPERTIES RollbackSparesOthers
CHECK_DEADLOCK FALSE
