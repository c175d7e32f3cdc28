SPECIFICATION Spec
CONSTANTS
  Batches = {b1}
  Size = 2
  Cadence = 10
  Cap = 1
  Limit = 2
  Clients = {c1}
  Faults = {"delete"}
  MaxCrashes = 0
CHECK_DEADLOCK FALSE
INVARIANTS
  DeletedKeepsNoBatch
