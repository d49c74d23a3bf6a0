\* Two workers, two events, one without a handler; every fault twice.
SPECIFICATION FairSpec
CONSTANTS
  Workers = {w1, w2}
  MaxEvents = 2
  MaxAttempts = 2
  HandlerTimeout = 1
  StuckThreshold = 3
  BaseBackoff = 1
  MaxBackoff = 2
  SettleWindow = 1
  Unhandled = {2}
  MaxReschedules = 1
  MaxWaits = 1
  MaxFaults = 2
  None = None
INVARIANTS
  IInv
  OneActiveHandler
  RequestsAreCarried
PROPERTIES
  StaleWritesAreFenced
  TerminalRowsAreFinal
  EventsSettle
VIEW View
