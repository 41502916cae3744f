SPECIFICATION FairSpec
CONSTANTS
  Employees = {e1, e2}
  Workers = {w1, w2}
  Poison = {}
  MaxRows = 2
  MaxAttempts = 3
  MaxEntries = 2
  MaxInterrupts = 1
  MaxToggles = 1
INVARIANTS TypeOK ParkedAfterAttempts DoneIsOnboarded OnePendingEntry
PROPERTIES EntriesSettle
CHECK_DEADLOCK FALSE
