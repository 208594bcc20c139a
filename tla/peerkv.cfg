CONSTANTS
  None = None
  Layers = 2
  CLocal = 2
  CPeer = 2
  CScratch = 1
  Batches <- FewBatches
  MaxSteps = 2
  NvlinkBw = 3
  Pcie = 2
  Strict = TRUE
  SingleCap = 3
  TpCap = 4
  Inf = 9
  Ttl = 2
  MaxProbe = 1
  ProbePcies = {2, 4}
  FreeTokens = {2}
  Requests <- MCRequests
  Models <- MCModels
SPECIFICATION Spec
INVARIANTS TypeOK TableResolved SeesOwnStaging ExitLegal TripwireSilent FastestLegal VerdictLag
CHECK_DEADLOCK FALSE
