SPECIFICATION Spec
CONSTANTS
  None = None
  Unbound = Unbound
  int = int
  c1 = c1
  c2 = c2
  pi = pi
  p1 = p1
  p2 = p2
  Tenants = {int, c1, c2}
  Customers = {c1, c2}
  Pods = {pi, p1, p2}
  TenantOf <- MCTenantOf
  GpuPods = {p1, p2}
  VolumeTenants = {}
  DesiredOwners = {"ARISE", "DIRECT", "VAST", "MAINTENANCE"}
  AdapterModes = {"mock-v1"}
  Kubectl = TRUE
  HandEdits = {"label", "cordon", "taint"}
  LateLists = FALSE
  MaxTid = 3
  MaxContracts = 1
  MaxFaults = 0
  MaxLosses = 1
  MaxCrashes = 0
  MaxTampers = 0
INVARIANTS
  DrainFenced
PROPERTIES
  ImplementsOwnership
  EvictFenced
