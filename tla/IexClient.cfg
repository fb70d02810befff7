SPECIFICATION Spec
CONSTANTS
  h1 = h1
  aapl = aapl
  fb = fb
  Updater = Updater
  None = None
  Handlers <- OneHandler
  Symbols <- TwoSymbols
  Requests <- UpToTwo
INVARIANTS
  TypeOK
  AnswersMatchRequests
  OnlyFailedQuotesAreEmpty
  CancelledWhenNotHTTP

  
  
CHECK_DEADLOCK FALSE
