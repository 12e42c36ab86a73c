\* What the comment quoted at ActiveIsTerminal says.
SPECIFICATION Spec
CONSTANTS
  e1 = e1
  e2 = e2
  c1 = c1
  none = none
  Entries = {e1}
  Callers = {c1}
  NoEntry = none
  MaxAttempts = 2
  MaxChecks = 3
  MaxFaults = 0
  Restarts = FALSE
PROPERTIES
  ActiveIsTerminal
CHECK_DEADLOCK FALSE
