SPECIFICATION FairSpec
CONSTANTS
  None = None
  Unbound = Unbound
  int = int
  c1 = c1
  c2 = c2
  pi = pi
  p1 = p1
  p2 = p2
  Tenants = {int, c1}
  Customers = {c1}
  Pods = {pi, p1}
  TenantOf <- MCTenantOf
  GpuPods = {p1}
  VolumeTenants = {}
  DesiredOwners = {"ARISE", "DIRECT", "VAST", "MAINTENANCE"}
  AdapterModes = {"mock-v1"}
  Kubectl = FALSE
  HandEdits = {"label", "cordon", "taint"}
  LateLists = FALSE
  MaxTid = 2
  MaxContracts = 1
  MaxFaults = 0
  MaxLosses = 0
  MaxCrashes = 0
  MaxTampers = 1
INVARIANTS
  TypeOK
  DrainFenced
  ReclaimGate
PROPERTIES
  DriftHealed
  DrainEnds
  IsolationHealed
