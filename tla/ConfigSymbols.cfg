SPECIFICATION SpecInFolder
CONSTANTS
  p1 = p1
  p2 = p2
  Nobody = Nobody
  Procs <- OneProc
  Given <- UserFiles
  FirstStart = FALSE
  Crashes = FALSE
  MaxStarts = 2
  Depth = 0
INVARIANTS
  UserSymbolsUsed
CHECK_DEADLOCK FALSE
