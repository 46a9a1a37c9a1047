SPECIFICATION MCSpec
CONSTANTS
  c1 = c1
  c2 = c2
  Call = {c1, c2}
  Payload = {"pay"}
  ChainContext <- TwoChains
  Pins <- PinNetwork
  Unpinned = Unpinned
  Omitted = Omitted
  ExternalTxn <- LongLived
  Operation = {"prepare", "simulate", "submit", "watch"}
  AllowSubmitWithoutPriorSimulation = FALSE
  DefaultExpirationTtl = 1
  MaxExpirationTtl = 1
  WatchTimeout = 1
  MaxWatchTimeout = 1
  MaxSubmitBlockingTimeout = 1
  MaxConcurrentWatchRequests = 1
  ChainStatusCacheTtl = 1
  ExpirationInput = {Omitted}
  TimeoutInput = {Omitted}
  ConfirmationInput = {Omitted}
  KeyInput = {TRUE}
  BlockingInput = {FALSE}
  LastStart = 1
  MaxTime = 1
  MaxPrepared = 1
  MaxHead = 2
  MaxSequence = 1
  MaxSwitches = 1
CHECK_DEADLOCK FALSE
INVARIANTS
  UnknownIsNotResent
PROPERTIES
  SentOnlyWhereSimulated
  
  WatchingCallsReturn
