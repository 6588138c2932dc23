SPECIFICATION Spec
CONSTANTS
  Provider <- MCProvider
  Model <- MCModel
  Self = Self
  Wildcard = Wildcard
  Malformed = Malformed
  Official <- MCOfficial
  Catalog <- MCCatalog
  Window <- MCWindow
  Forever = 1000
  EscalationMultiplier = 2
  EscalationCap = 4
  Session = {s1}
  NoSession = NoSession
  Subagent = {s1}
  Injected = {s1}
  RoleOf <- ScoutRole
  Walk = {w1}
  Owner = {s1, NoSession}
  LlmUp = {TRUE, FALSE}
  Config <- RepairConfig
  Policy <- AnyPolicy
  Code = {"QUOTA", "CONTEXT_WINDOW_EXCEEDED", "UNSUPPORTED_REASONING_EFFORT", "INVALID_MAX_TOKENS", "OTHER"}
  Control = {"reasoningEffort", "maxTokens"}
  RepairedBy <- MCRepairedBy
  Unserved <- MCUnserved
  Request <- Everything
  Outage <- AnyOutage
  NoRoute = NoRoute
  NoCode = NoCode
  MaxNow = 3
INVARIANTS TypeOK WorkBounded InjectedAdmitted
CHECK_DEADLOCK FALSE
