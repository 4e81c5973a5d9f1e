CONSTANTS
  Segments <- MCSegments
  AppPaths <- MCAppPaths
  CommandsAt <- MCCommandsAt
  Namespaces <- MCNamespaces
  Argvs <- MCArgvs
  Variables <- MCVariables
  ArgSpecs <- MCArgSpecs
  JsonValues <- MCJsonValues
  CommandLines <- MCCommandLines
  MaxCalls = 3
SPECIFICATION AppSpec
CHECK_DEADLOCK FALSE
INVARIANTS OneCommandPerLine BuildIsComplete ArgumentsAreAlike
