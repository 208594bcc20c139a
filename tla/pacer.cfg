CONSTANTS
  Actuators = {"python", "native"}
  Depth = 2
  ChunkUnits = 2
  TrainSizes = {1, 5}
  Periods = {1, 2}
  MayRaise = TRUE
  MayFail = TRUE
  MayCancel = TRUE
  MaxTime = 4
  MaxTrains = 2
SPECIFICATION Spec
INVARIANTS TypeOK DepthBound CancelAtChunk
PROPERTIES PacedLaunches
CHECK_DEADLOCK FALSE
