SPECIFICATION SpecInFolder
CONSTANTS
  p1 = p1
  p2 = p2
  Nobody = Nobody
  Procs <- TwoProcs
  Given <- AnyFile
  FirstStart = TRUE
  Crashes = TRUE
  MaxStarts = 3
  Depth = 2
INVARIANTS
  TypesOK
  SettingsKept
  FolderNotAbandoned
PROPERTIES
  StartEnds
CHECK_DEADLOCK FALSE
