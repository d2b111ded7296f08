SPECIFICATION PromptSpec
CONSTANTS
  None = None
  Syncs = {s1}
  Once = FALSE
  Interval = 3
  Timeout = 2
  GracePeriod = 1
  Lag = 0
  MaxTime = 9
  MaxSignals = 2
INVARIANTS
  Punctual
PROPERTIES
  HungChildIsRemoved
  TerminationEndsDaemon
  PollingGoesOn
\* The daemon may exit, and the clock stops at MaxTime.
CHECK_DEADLOCK FALSE
