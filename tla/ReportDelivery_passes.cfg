SPECIFICATION Spec
CONSTANTS
  Recipients = {r1, r2}
  Workers = {w1, w2}
  Users = {}
  TicksPerDay = 1
  WeekLength = 2
  RetentionTicks = 0
  MaxTick = 1
  MaxManual = 0
  MaxSaves = 1
  MaxInterrupts = 1
INVARIANTS TypeOK OneScheduledPerDay StatusIsReal RunningIsPending
PROPERTIES ResultIsFinal
SYMMETRY Symmetry
CHECK_DEADLOCK FALSE
