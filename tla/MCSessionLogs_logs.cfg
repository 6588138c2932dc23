SPECIFICATION MCSpec
CONSTANTS
  None = None
  Nothing = Nothing
  Partial = Partial
  r1 = r1
  r2 = r2
  Run = {r1, r2}
  Options <- AllOptions
  Verdicts <- SomeVerdicts
  MaxRev = 3
  Cases <- CasesOfAll
SYMMETRY Symmetry
INVARIANTS RepairIsFaithful ReportIsTrue PublicationFailsClosed PublicationStands LossHasItsBackup CleanExitLoads
CHECK_DEADLOCK FALSE
