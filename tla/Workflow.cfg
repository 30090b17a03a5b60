SPECIFICATION PartsSpec
CONSTANTS
  e1 = e1  h1 = h1  h2 = h2  w1 = w1  w2 = w2
  Events <- OneEvent
  Keys <- OneEvent
  Handlers <- TwoHandlers
  Applies <- FirstApplies
  Workers <- TwoWorkers
  Callers <- TwoWorkers
  AsyncSettings = {TRUE, FALSE}
  MaxRetries = 1
  HandlerRetries = 1
  DeadLetters = TRUE
  BatchSize = 1
  Tokens = {1, 2}
  MaxReplays = 1
  Definitions = {"importable"}
  EngineAsync = FALSE
  MaxExecutions = 3
  MaxFaults = 1
INVARIANTS
  DeliverySound
  ProcessedBacked
  UniqueCorrelation
  HandlerRunsOnce
PROPERTIES
  SettledStays
  EventsSettle
  TerminalFinal
  ExecutionsEnd
  KeepsContract
CHECK_DEADLOCK FALSE
