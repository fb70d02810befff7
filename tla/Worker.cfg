SPECIFICATION FairSpec
CONSTANTS
  h1 = h1
  h2 = h2
  Main = Main
  Updater = Updater
  Nobody = Nobody
  Handlers <- TwoHandlers
  NSymbols = 2
INVARIANTS
  TypeOK
  UpdaterUsesLiveSingletons
  
  

  
  
CHECK_DEADLOCK FALSE
