SPECIFICATION Spec
CONSTANTS
  t1 = t1
  t2 = t2
  q1 = q1
  q2 = q2
  s1 = s1
  NoTask = NoTask
  NoRequest = NoRequest
  Tasks = {t1, t2}
  Roots = {t1}
  Requests = {q1, q2}
  Sessions = {s1}
  Calls = {"open", "target", "priority", "extension", "approve", "reject", "record", "child", "start", "retarget", "reschedule", "close", "lose"}
  TopPriority = 2
  SlaDays <- TwoPriorities
  Starts = {0, 1}
  Entered = 0
  TypeDue = 2
  MaxDate = 4
  AskedDates = {2, 4}
INVARIANTS TypeOK PendingIsShown ChildrenInherit
PROPERTY ReductionsAreApproved
CHECK_DEADLOCK FALSE
SYMMETRY Symmetry
