CONSTANTS
  g1 = g1  g2 = g2
  t1 = t1  t2 = t2  t3 = t3  t4 = t4
  Devices <- TwoGpus
  Host = Host
  None = None
  Routes <- MCRoutes
  Transfers = {t1, t3}
  Request <- Shared
  MaxRate = 4
  UpperCost <- MCUpperCost
  Eps <- MCEps
  MinRate = 2
  LinkPeak <- MCLinkPeak
  TrimUnit = 2
  Victims = {g2}
  InitialVictims = {g2}
  TrimLevels = {1, 2}
  Ambients <- QuietOnly
  Feedback = TRUE
  Actuators = {"python"}
  Depth = 1
  Faulty = {}
  Recurring = {}
  MayShutdown = FALSE
SPECIFICATION Spec
INVARIANTS BudgetKept
CHECK_DEADLOCK FALSE
