SPECIFICATION Spec
CONSTANTS
  None = None
  Keep = Keep
  Clear = Clear
  Tabs = {t1, t2}
  MaxLogins = 2
  MaxRequests = 4
  MaxTime = 12
  Jumps = {4}
  AccessLife = 5
  RefreshLife = 11
  ClockSkew = 1
  RefreshSkew = 1
  Faults = 1
  IdleTimeout = 10
  SignInTtl = 4
  SessionTtl = 8
  CallbackPaths = {"/callback", "/auth/callback"}
SYMMETRY Symmetry
CHECK_DEADLOCK FALSE
INVARIANTS CalmSessionLasts AdmittedIsEntitled SignInsComplete SettingsAreSound
