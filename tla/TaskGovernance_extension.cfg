SPECIFICATION Spec
CONSTANTS
  t1 = t1
  q1 = q1
  q2 = q2
  s1 = s1
  NoTask = NoTask
  NoRequest = NoRequest
  Tasks = {t1}
  Roots = {t1}
  Requests = {q1, q2}
  Sessions = {s1}
  Calls = {"open", "priority", "extension", "approve", "reject"}
  TopPriority = 2
  SlaDays <- TwoPriorities
  Starts = {0}
  Entered = 0
  TypeDue = 2
  MaxDate = 4
  AskedDates = {3, 4}
INVARIANT EffectiveDueDate
CHECK_DEADLOCK FALSE
SYMMETRY Symmetry
