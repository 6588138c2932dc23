SPECIFICATION FairSpec
CONSTANTS
  Provider <- MCProvider
  Model <- TwinModel
  Self = Self
  Wildcard = Wildcard
  Malformed = Malformed
  Official <- TwinOfficial
  Catalog <- TwinCatalog
  Window <- MCWindow
  Forever = 1000
  EscalationMultiplier = 2
  EscalationCap = 4
  Session = {s1}
  NoSession = NoSession
  Subagent = {}
  Injected = {}
  RoleOf <- RootRole
  Walk = {w1, w2}
  Owner = {s1}
  LlmUp = {TRUE}
  Config <- LiveConfig
  Policy <- NoPolicy
  Code = {"QUOTA"}
  Control = {"reasoningEffort", "maxTokens"}
  RepairedBy <- MCRepairedBy
  Unserved <- MCUnserved
  Request <- Nothing
  Outage <- NoOutage
  NoRoute = NoRoute
  NoCode = NoCode
  MaxNow = 3
INVARIANTS HalfOpenNotSuppressed
PROPERTIES WalkTerminates AttemptIsMade SuppressionHolds
CHECK_DEADLOCK FALSE
