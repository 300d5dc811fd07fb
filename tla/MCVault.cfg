SPECIFICATION VaultSpec
CONSTANTS
  Device = {d1, d2}
  SetUpOn = {d1}
  Email = {m1}
  Password = {p, q}
  MaxDrawn = 3
  c1 = c1
  c2 = c2
  p1 = p1
  p2 = p2
  Credential = {c1, c2}
  Platform = {p1, p2}
  OnPlatform <- OnePlatformEach
  Writer = {w1}
  Syncer = {s1, s2}
  MaxClock = 3
  MaxRevision = 1
  RevealEvent = {e1, e2}
  Flush = {f1, f2}
  MaxDay = 2
  MaxSent = 2
  Entry = {x1, x2}
  InactivityLock = 3
  ClipboardClear = 2
  Browser = {b1, b2}
  SessionTtl = 1
  MaxSessions = 2
  MaxRecoveries = 2
  LastDay = 2
SYMMETRY PasswordSymmetry
INVARIANT OneVault
INVARIANT CacheCatchesUp
INVARIANT RevealsAreKept
INVARIANT ScreenForgets
INVARIANT SecretsAreTimed
INVARIANT SessionsEnd
CHECK_DEADLOCK FALSE
