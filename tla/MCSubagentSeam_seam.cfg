SPECIFICATION Spec
CONSTANTS
  Role = {r1, r2}
  Child = {c1, c2}
  Dispatch = {d1, d2}
  Key = {k1, k2}
  Fiber = {f1, f2}
  None = None
  KeyOf <- EveryKey
  JobResults = TRUE
  PendingLimit = 1
  EmittedLimit = 1
SYMMETRY Symmetry
INVARIANTS MountVerdictKept RoleIsMeant NoOrphanRecord OneNotice
CHECK_DEADLOCK FALSE
