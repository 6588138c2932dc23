SPECIFICATION StoreSpec
CONSTANTS
  Value <- MCValue
  Default = "d"
  Base <- MCBase
  Written <- MCWritten
  Unfit <- MCUnfit
  AutoRoute = "auto"
  Call = {1, 2, 3}
  Budget <- MCBudget
PROPERTIES CleanSectionFollows
CHECK_DEADLOCK FALSE
