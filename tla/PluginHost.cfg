SPECIFICATION FairSpec
CONSTANTS
  Versions <- Packages
  Broken <- BadOnes
  HookCalls = {hook}
  PlainCalls = {webhook}
  Caps = {k1, k2}
  MaxCaps = 1
  MaxTraffic = 2
CHECK_DEADLOCK FALSE
INVARIANTS TypeOK ServedIffEnabled CallsAddUp InstallKept
PROPERTIES OperationsEnd
