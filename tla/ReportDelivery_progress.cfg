SPECIFICATION FairSpec
CONSTANTS
  Recipients = {r1}
  Workers = {w1}
  Users = {u1}
  TicksPerDay = 1
  WeekLength = 2
  RetentionTicks = 0
  MaxTick = 1
  MaxManual = 1
  MaxSaves = 1
  MaxInterrupts = 1
PROPERTIES PendingSettles DueIsServed RetentionRemoves
CHECK_DEADLOCK FALSE
