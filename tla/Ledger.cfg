SPECIFICATION Spec
CONSTANTS
  p1 = p1
  v1 = v1
  Pods = {p1}
  Claims = {v1}
  LabelOnly = {p1}
  Graces = {0}
  AppendErrors = {"nothing"}
  MaxTime = 1
  MaxFaults = 1
  MaxCrashes = 1
INVARIANTS
  ExactlyOnce
  ChainHolds
