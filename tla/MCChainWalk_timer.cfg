SPECIFICATION Spec
CONSTANTS
  Provider <- MCProvider
  Model <- MCModel
  Self = Self
  Wildcard = Wildcard
  Malformed = Malformed
  Official <- MCOfficial
  Catalog <- MCCatalog
  Window <- MCWindow
  Forever = 1000
  EscalationMultiplier = 2
  EscalationCap = 4
  Session = {s1}
  NoSession = NoSession
  Subagent = {}
  Injected = {}
  RoleOf <- RootRole
  Walk = {w1, w2}
  Owner = {s1}
  LlmUp = {TRUE}
  Config <- TimerConfig
  Policy <- NoPolicy
  Code = {"QUOTA", "CONTEXT_WINDOW_EXCEEDED"}
  Control = {"reasoningEffort", "maxTokens"}
  RepairedBy <- MCRepairedBy
  Unserved <- MCUnserved
  Request <- Nothing
  Outage <- AnyOutage
  NoRoute = NoRoute
  NoCode = NoCode
  MaxNow = 3
SYMMETRY Symmetry
INVARIANTS NoRouteTwice
PROPERTIES CooledIsLastResort ImplementsContract
CHECK_DEADLOCK FALSE
