CONSTANTS
  a = a  b = b
  Requests = {a, b}
  Slots = {0, 1, 2, 3, 4}
  None = None
  Prompts <- Reused
  MaxBlocks = 5
  NSink = 1
  NWindow = 1
  Sized <- MCSized
  Rankings <- MCRankings
  Routes = {"readThrough"}
  ReuseModes = {TRUE}
  Preemptible = {}
SPECIFICATION Spec
PROPERTIES RestoreHarmless
CHECK_DEADLOCK FALSE
