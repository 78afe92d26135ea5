SPECIFICATION RoutingSpec
CONSTANTS
  small = small
  large = large
  eyes = eyes
  far = far
  Endpoints = {small, large, eyes, far}
  None = none
  TierOrder <- MCOrder
  Tier <- MCTier
  Endpoint <- MCEndpoint
  ExpectedCost <- MCCost
  Capable <- MCCapable
  SignalOrder <- MCSignals
  OverflowTier = "tier4"
  SafeTier = "tier2"
  Fallback = far
  ReservePct = 25
  PreferLowerLoad = TRUE
  Inputs <- MCInputs
  Accesses <- MCAccesses
  Plans <- MCPlans
  Budgets <- MCBudgets
  Outages <- MCOutages
  Loads <- MCLoads
  Lasts <- MCLasts
  Target = 75
  BudgetAwareOn = TRUE
  MaxEdits = 1
CHECK_DEADLOCK FALSE
INVARIANTS SentWithinRights WithinWindow NearCheapest
