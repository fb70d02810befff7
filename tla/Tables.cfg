SPECIFICATION Spec
CONSTANTS
  t1 = t1
  t2 = t2
  aapl = aapl
  fb = fb
  logo = logo
  NoThread = NoThread
  Threads <- TwoThreads
  Uuids <- TwoUuids
  Logos <- OneLogo
  MaxIds = 2
  Failures = TRUE
INVARIANTS
  TypeOK
  TransactionsNeverNest
  PricesKeepTheirCompany
PROPERTIES
  CallsAreAtomic
SYMMETRY AnyThread
