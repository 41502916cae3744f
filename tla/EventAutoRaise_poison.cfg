SPECIFICATION FairSpec
CONSTANTS
  Employees = {e1, e2}
  Workers = {w1}
  Poison = {e1}
  MaxRows = 2
  MaxAttempts = 3
  MaxEntries = 2
  MaxInterrupts = 0
  MaxToggles = 0
PROPERTIES EntriesSettle
CHECK_DEADLOCK FALSE
