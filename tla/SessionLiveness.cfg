SPECIFICATION FairSpec
CONSTANTS
  Sessions = {s1}
  Engines = {e1, e2}
  NoEngine = NoEngine
  Slots = {t1, t2}
  Ops = {"start", "stop", "delete", "drop"}
  MaxAttempts = 1
  MaxConcurrent = 1
CHECK_DEADLOCK FALSE
PROPERTIES
  ReservationReleased
  SlotReleased
