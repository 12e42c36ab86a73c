\* Polls, host calls, restarts and faults in any order: and every chain ends.
SPECIFICATION FairSpec
CONSTANTS
  e1 = e1
  e2 = e2
  c1 = c1
  none = none
  Entries = {e1, e2}
  Callers = {c1}
  NoEntry = none
  MaxAttempts = 3
  MaxChecks = 4
  MaxFaults = 1
  Restarts = TRUE
INVARIANTS
  WaitingHasAttemptsLeft
  OwnershipWasProved
  MapEntryIsLive
PROPERTIES
  FollowsLifecycle
  ChainsEnd
