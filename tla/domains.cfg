\* One domain: calls one at a time, and overlapping; and the starts of its
\* verification, likewise.
SPECIFICATION MCSpec
CONSTANTS
  c1 = c1
  c2 = c2
  r1 = r1
  r2 = r2
  r3 = r3
  none = none
  Callers = {c1, c2}
  Recs = {r1, r2, r3}
  NoRec = none
  MaxCalls = 8
  MaxFaults = 2

  s1 = s1
  s2 = s2
  Starters = {s1, s2}
  MaxStarts = 2
  Hour = 3
  MaxClock = 6
  MaxRows = 4
INVARIANTS
  OrphansAreFaults
  ActiveIsServed
  SerialStartsAreLimited
  RefusalsAreJustified
PROPERTIES
  ActiveStays
CHECK_DEADLOCK FALSE
