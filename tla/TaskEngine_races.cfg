SPECIFICATION Spec
CONSTANTS
  t1 = t1
  t2 = t2
  x1 = x1
  s1 = s1
  s2 = s2
  NoTask = NoTask
  Tasks = {t1, t2}
  Subjects = {x1}
  Sessions = {s1, s2}
  Calls = {"transition", "complete"}
  Targets = {"InProgress", "PendingReview", "Open"}
  CandidateSources = {}
  MaxLog = 6
INVARIANTS StatusIsLogged TwoGateClosure OneOpenImplementation
CHECK_DEADLOCK FALSE
SYMMETRY Symmetry
