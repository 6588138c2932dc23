SPECIFICATION MCSpec
CONSTANTS
  Fiber = {f1, f2, f3}
  NoFiber = NoFiber
  MaxMoves = 4
  Child = {c}
  Own = Own
  MaxBirths = 3
  Agent = {a}
  Route = {r1, r2}
  MaxChanges = 4
  Badge = {x, y}
  NoRole = NoRole
  MaxLog = 5
  pa = pa
  pb = pb
  Role <- OneRole
  Persona = {pa, pb}
  None = None
  Bundled = Bundled
  SetName = {set1, set2}
  Preset <- MCPreset
  Batch <- MCBatch
  Call = {c1, c2}
  Operator = Operator
  MaxInFlight = 2
  MaxSeq = 2
  MaxRules = 1
SYMMETRY AllSymmetry
INVARIANTS SingletonsAreOwned ClaimIsBacked NothingLeftBehind NeverAWrongPill MostRecentIsDecidable
PROPERTIES PresetsByOwner RowAnswersUpdates PolicyIsLastProven OperatorIsKept DefaultRowsFollow
CHECK_DEADLOCK FALSE
