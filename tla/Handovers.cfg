SPECIFICATION Spec
CONSTANTS
  None = None
  Unbound = Unbound
  int = int
  c1 = c1
  c2 = c2
  pi = pi
  p1 = p1
  p2 = p2
  Tenants = {int, c1}
  Customers = {c1}
  Pods = {pi, p1}
  TenantOf <- MCTenantOf
  GpuPods = {p1}
  VolumeTenants = {}
  DesiredOwners = {"ARISE", "DIRECT", "VAST", "MAINTENANCE"}
  AdapterModes = {"mock-v1"}
  Kubectl = FALSE
  HandEdits = {"label", "cordon", "taint"}
  LateLists = FALSE
  MaxTid = 3
  MaxContracts = 1
  MaxFaults = 2
  MaxLosses = 0
  MaxCrashes = 1
  MaxTampers = 0
INVARIANTS
  SoleUse
  NoRefusedStatus
  ReclaimGate
PROPERTIES
  RentalProtected
