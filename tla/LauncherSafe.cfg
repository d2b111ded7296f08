SPECIFICATION Spec
CONSTANTS
  None = None
  Syncs = {s1}
  Once = TRUE
  Interval = 3
  Timeout = 2
  GracePeriod = 2
  Lag = 1
  MaxTime = 9
  MaxSignals = 2
INVARIANTS
  TypeOK
  CleanExit
  NoOversleep
  NoSpin
PROPERTIES
  ChildLives
\* The daemon may exit, and the clock stops at MaxTime.
CHECK_DEADLOCK FALSE
