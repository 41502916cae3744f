SPECIFICATION FairSpec
CONSTANTS
  r1 = r1
  r2 = r2
  Rules = {r1, r2}
  Workers = {w1}
  HandRuns = {h1}
  Broken = {r2}
  Legacy <- MCLegacy
  Free = Free
  Period = 2
  LastDay = 1
  MaxEdits = 1
  MaxFaults = 1
INVARIANTS TypeOK RaisedOnce MatchesCalendar
PROPERTIES LedgerIsFinal DueIsClaimed RowSettles
CHECK_DEADLOCK FALSE
