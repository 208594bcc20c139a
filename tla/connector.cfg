CONSTANTS
  a = a  b = b
  Requests = {a, b}
  Slots = {0, 1, 2, 3, 4, 5, 6, 7, 8}
  None = None
  Prompts <- MCPrompts
  MaxBlocks = 5
  NSink = 1
  NWindow = 1
  Sized <- MCSized
  Rankings <- MCRankings
  Routes = {"hint", "readThrough", "copyBack"}
  ReuseModes = {TRUE, FALSE}
  Preemptible = {a}
SPECIFICATION Spec
INVARIANTS TypeOK MovesOwnSlots BelievedHeld OwnKVKept
CHECK_DEADLOCK FALSE
