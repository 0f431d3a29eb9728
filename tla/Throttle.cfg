SPECIFICATION Spec
CONSTANTS
  k1 = k1
  k2 = k2
  k3 = k3
  t1 = t1
  t2 = t2
  t3 = t3
  Keys = {k1, k2, k3}
  Threads = {t1, t2, t3}
  Window = 2
  MaxFails = 2
  Lockout = 2
  MaxKeys = 2
  MaxTime = 5
INVARIANTS
  KeysBounded
PROPERTIES
  LockoutLasts
  WithinPolicy
