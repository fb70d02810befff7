SPECIFICATION FairSpec
CONSTANTS
  p1 = p1
  p2 = p2
  aapl = aapl
  fb = fb
  Unnamed = Unnamed
  NoFile = NoFile
  Procs <- TwoProcs
  Symbols <- TwoSymbols
  DbVersion <- Version
  Settings <- AllSettings
INVARIANTS
  TypeOK
  PricesOfTheirCompany
  UsedFileIsCurrent
  VersionRowsBounded
PROPERTIES
  StoreSpec
  StartsOrDies
