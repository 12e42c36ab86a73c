\* One certificate: calls and cycles one at a time, and overlapping.
SPECIFICATION FairSpec
CONSTANTS
  p1 = p1
  p2 = p2
  c1 = c1
  c2 = c2
  m1 = m1
  none = none
  Packs = {p1, p2}
  Callers = {c1, c2}
  Cycles = {m1}
  NoPack = none
  MaxCalls = 3
  MaxFaults = 1
INVARIANTS
  ActiveWasIssued
  RenewalsAreCounted
PROPERTIES
  ExpiryIsReported
CHECK_DEADLOCK FALSE
