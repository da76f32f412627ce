SPECIFICATION Spec
CONSTANTS
  Requests = {r1, r2}
  Names = {n1, n2}
  Emails = {m1, m2}
  RefreshTokens = {t1, t2, t3}
  Lifetime = 2
  Zone <- MCZone
  TokenLifetime = 0
  MaxTime = 2
  None = None
SYMMETRY Symmetric
CHECK_DEADLOCK FALSE
INVARIANTS TypeOK ToldIsRegistered EverySessionIsHeld HeldCanBeRefreshed
