CONSTANTS
  Epoch = 2
  Unit = 4
  Inv <- MCInv
  Used = {"receiver/peer"}
  MinRate = 4
  LowestFloor = 1
  TopRate = 20
  Grace = 3
SPECIFICATION FairSpec
INVARIANTS TypeOK Clamped
PROPERTIES NoStaleIdle NoAbsorption
