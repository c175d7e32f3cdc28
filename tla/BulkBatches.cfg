SPECIFICATION Spec
CONSTANTS
  Batches = {b1, b2}
  Size = 3
  Cadence = 10
  Cap = 1
  Limit = 4
  Clients = {c1}
  Faults = {"db", "crash", "delete"}
  MaxCrashes = 1
SYMMETRY Symmetry
CHECK_DEADLOCK FALSE
INVARIANTS
  TypeOK
  SlotsBalance
  CountersAccount
  UsageCoversSent
PROPERTIES
  KeepsContract
