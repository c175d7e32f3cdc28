SPECIFICATION Spec
CONSTANTS
  Sessions = {s1}
  Engines = {e1, e2, e3}
  NoEngine = NoEngine
  Slots = {t1, t2, t3}
  Ops = {"start", "stop", "logout", "kill", "delete", "unlink"}
  MaxAttempts = 1
  MaxConcurrent = 1
SYMMETRY Symmetry
CHECK_DEADLOCK FALSE
INVARIANTS
  RetiredWriteSettled
  ServingIsRegistered
  StopIsFinal
PROPERTIES
  CredentialsSafe
