SPECIFICATION Spec
CONSTANTS
  k1 = k1
  k2 = k2
  q1 = q1
  q2 = q2
  Calls = {k1, k2}
  Callers = {u1}
  u1 = u1
  Nobody = Nobody
  Unlocked = Unlocked
  Registered <- MCRegistered
  Offered <- MCOffered
  MaxChanges = 1
  Requests = {q1, q2}
  Checks <- MCChecks
  Unknown = "unknown-id"
  Plugs = {"one", "two"}
  Writers = {w1, w2}
  w1 = w1
  w2 = w2
  Unheld = Unheld
  MaxTries = 2
  MaxTemps = 2
  MaxKills = 1
INVARIANTS CallsAreApart NothingIsDropped FindingsSurvive SurfaceRules KeptIsSound
PROPERTIES EveryoneIsServed
CHECK_DEADLOCK FALSE
