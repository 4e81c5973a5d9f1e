SPECIFICATION Spec
CONSTANTS
  t1 = t1
  t2 = t2
  w1 = w1
  w2 = w2
  Threads = {t1, t2}
  Writes = {w1, w2}
  Free = Free
  None = None
  NoSession = NoSession
  r1 = r1
  r2 = r2
  r3 = r3
  Replicas = {r1, r2, r3}
  Known <- MCKnown
  MaxBreaks = 2
  Manifest <- MCManifest
  Default <- MCDefault
  Docs <- MCDocs
  Policies <- MCPolicies
  StartFiles <- MCStartFiles
  MaxOps = 3
  MaxSaves = 1
  MaxStarts = 2
  MaxTime = 1
  MaxAttempts = 1
SYMMETRY Symmetry
CHECK_DEADLOCK FALSE
INVARIANTS ValuesAreRight MigrationsApplyOnce RulesAgree
PROPERTIES DocumentRefined
