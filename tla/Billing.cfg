SPECIFICATION FairSpec
CONSTANTS
  p1 = p1
  v1 = v1
  Pods = {p1}
  Claims = {v1}
  LabelOnly = {}
  Graces = {}
  AppendErrors = {"nothing"}
  MaxTime = 1
  MaxFaults = 1
  MaxCrashes = 1
PROPERTIES
  TerminalExact
  IntervalsEnd
