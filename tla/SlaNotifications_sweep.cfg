SPECIFICATION FairSpec
CONSTANTS
  r1 = r1
  Tasks = {t1, t2}
  Matched = {t1}
  Employees = {e1}
  Roles = {r1}
  Notified <- MCNotified
  Workers = {w1}
  NoOne = NoOne
  Starts = {0}
  Dues = {1, 2}
  WarningPct = 75
  EscalationPct = 100
  BatchSize = 1
  MaxSpan = 2
  MaxClock = 2
  MaxChanges = 1
  MaxFaults = 1
INVARIANTS TypeOK ToldOnce BreachIsPast
PROPERTIES ThresholdIsTold
CHECK_DEADLOCK FALSE
