SPECIFICATION Spec
CONSTANTS
  Sessions = {s1}
  Engines = {e1, e2}
  NoEngine = NoEngine
  Slots = {t1, t2}
  Ops = {"start", "ready"}
  MaxAttempts = 1
  MaxConcurrent = 1
SYMMETRY Symmetry
CHECK_DEADLOCK FALSE
PROPERTIES
  CredentialsSafe
