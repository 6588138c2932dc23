SPECIFICATION MCSpec
CONSTANTS
  None = None
  Nothing = Nothing
  Partial = Partial
  r1 = r1
  r2 = r2
  Run = {r1, r2}
  Options <- AllOptions
  Verdicts <- SomeVerdicts
  MaxRev = 3
  Cases <- OneCase
SYMMETRY Symmetry
INVARIANTS NothingPublishedIsTrue
CHECK_DEADLOCK FALSE
