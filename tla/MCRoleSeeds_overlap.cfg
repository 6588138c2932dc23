SPECIFICATION Spec
CONSTANTS
  pa = pa
  pb = pb
  Role <- TwoRoles
  Persona = {pa, pb}
  None = None
  Bundled = Bundled
  SetName = {set1, set2}
  Preset <- MCPreset
  Batch <- MCBatch
  Call = {c1}
  Operator = Operator
  MaxInFlight = 2
  MaxSeq = 2
  MaxRules = 1
SYMMETRY Symmetry
PROPERTIES RulesUntouched
CHECK_DEADLOCK FALSE
