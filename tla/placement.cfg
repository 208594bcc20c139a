CONSTANTS
  Blocks = {b1, b2}
  Owners = {r1}
  Callers = {c1, c2}
  Size <- MCSize
  OwnerOf <- MCOwnerOf
  FirstTiers = {"local"}
  PeerCapacity = 1
  MaxEvents = 2
SYMMETRY Interchangeable
SPECIFICATION Spec
INVARIANTS TypeOK LogTellsTier FreedOnce OvercommitBounded
PROPERTIES FallbackLegal NeverRevived
