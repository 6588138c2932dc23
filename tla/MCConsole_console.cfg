SPECIFICATION MCSpec
CONSTANTS
  Value <- MCValue
  Default = "d"
  Base <- MCBase
  Written <- MCWritten
  Unfit <- MCUnfit
  AutoRoute = "auto"
  Call = {1, 2, 3}
  Budget <- MCBudget
  Provider = {"p"}
  Session = {"s", "t"}
  NoSession = "none"
  Read = {1, 2, 3, 4}
  MaxHost = 3
  Minute <- MCMinute
  Stored <- MCStored
  LeadChoice <- MCLead
  SlotChoice <- MCSlotChoice
  RoleChoice <- MCRoleChoice
  RuleChoice <- MCRuleChoice
  OtherMain <- MCOtherMain
  Seeded <- MCSeeded
  MaxEdits = 1
INVARIANTS ShownIsRead FeedsAreCurrent GatesAgree NoGapNoOverlap
PROPERTIES WriteWins SiblingsNeverRide StagedEditsSurvive SavingEnds CatalogConverges SaveRoundTrips
CHECK_DEADLOCK FALSE
