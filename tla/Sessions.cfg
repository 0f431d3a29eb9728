SPECIFICATION Spec
CONSTANTS
  t1 = t1
  t2 = t2
  Seeds = {"admin"}
  Names = {"bob"}
  Requests = {t1, t2}
  TTL = 2
  RevokedPerUser = 1
  MaxTime = 2
  MaxTokens = 2
  MaxVersions = 2
  MaxSecrets = 2
SYMMETRY Threads
INVARIANTS
  EndedStaysEnded
  ProvedIdentity
