SPECIFICATION Spec
CONSTANTS
  Registry <- MCRegistry
  Dirs <- MCDirs
  Parent <- MCParent
  WorkingDir = "/"
  Keys <- MCKeys
  Minimum <- MCMinimum
  Maximum <- MCMaximum
  Defaults <- MCDefaults
  NoFile = NoFile
  Ambiguous = Ambiguous
  Unset = Unset
  WholeRun = WholeRun
  Worlds <- MCWorlds
  Calls <- MCCalls
  BaselineStates <- MCBaselines
  BaselinePaths <- MCPaths
  Nothing = Nothing
INVARIANTS PassHidesNothing ExitTellsTheReport OneScopeForAllTargets ModesKeepTheirPromise
