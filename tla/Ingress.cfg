\* Two deliveries of one conversation; two crashes, or a redrive and one fault.
SPECIFICATION FairSpec
CONSTANTS
  d1 = d1  d2 = d2  conv = conv
  Deliveries = {d1, d2}
  Lanes = {conv}
  LaneOf <- MCLaneOf
  Refusable = {d1}
  MaxTries = 2
  MaxReplays = 2
  Workers = 2
  Faults = {"crash", "db", "redis"}
  CostOf <- MCCostOf
  MaxFaults = 4
  MaxRedrives = 1
  MaxLetters = 4
INVARIANTS TypeOK NothingLost OneAtATime HandledOnce OneOpenLetter
PROPERTIES Settles
