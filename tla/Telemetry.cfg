SPECIFICATION Spec
CONSTANTS
  shell = shell
  other = other
  Procs = {shell, other}
  None = None
  Newer = Newer
  InstallIds = {1, 2, 3}
  OpsProbes <- MCOpsProbes
  Launches <- MCLaunches
  StartFiles <- MCStartFiles
  MaxRuns = 1
CHECK_DEADLOCK FALSE
INVARIANTS ExportIsConsented UserIsTold
PROPERTIES WritesKeepOtherFields EndUserRunEnds
