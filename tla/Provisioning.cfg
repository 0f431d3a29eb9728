SPECIFICATION Spec
CONSTANTS
  c1 = c1
  c2 = c2
  Creators <- MCCreators
  Deleters = {d1}
  Rotators = {r1}
  Kinds = {"devmachine", "service", "job"}
  Settings <- MCSettings
  Wants <- MCWants
  Hard = 1
  MaxDeletes = 1
  MaxEvents = 1
INVARIANTS
  ProvisionTypeOK
  OpenComplete
  RevokedKeyStaysOut
PROPERTIES
  SparesOthers
  Resumed
CHECK_DEADLOCK FALSE
