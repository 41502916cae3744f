SPECIFICATION Spec
CONSTANTS
  t1 = t1
  q1 = q1
  q2 = q2
  q3 = q3
  s1 = s1
  s2 = s2
  NoTask = NoTask
  NoRequest = NoRequest
  Tasks = {t1}
  Roots = {t1}
  Requests = {q1, q2, q3}
  Sessions = {s1, s2}
  Calls = {"open", "priority", "extension", "approve", "reject", "record"}
  TopPriority = 2
  SlaDays <- TwoPriorities
  Starts = {0}
  Entered = 0
  TypeDue = 2
  MaxDate = 4
  AskedDates = {4}
INVARIANT OnePendingRequest
CHECK_DEADLOCK FALSE
SYMMETRY Symmetry
