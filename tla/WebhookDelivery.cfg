\* An event for two webhooks and one for a third, one slot, one place to wait.
\* Everything may be over: the run stops there.
SPECIFICATION FairSpec
CONSTANTS
  d1 = d1  d2 = d2  d3 = d3
  e1 = e1  e2 = e2
  Deliveries = {d1, d2, d3}
  Events = {e1, e2}
  EventOf <- MCEventOf
  Slots = 1
  MaxQueued = 1
  QueuedEvents = {e1}
  Troubled = {d1, d3}
  RetryCount = 2
  Workers = 1
INVARIANTS TypeOK SlotsAddUp NothingVanishes RecordsAreTrue
CHECK_DEADLOCK FALSE
PROPERTIES Settles
