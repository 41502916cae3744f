SPECIFICATION Spec
CONSTANTS
  t1 = t1
  t2 = t2
  x1 = x1
  s1 = s1
  NoTask = NoTask
  Tasks = {t1, t2}
  Subjects = {x1}
  Sessions = {s1}
  Calls = {"assign", "transition", "close", "complete", "sweep", "child", "edit"}
  Targets = {"Assigned", "InProgress", "PendingReview", "ConfigGatePassed", "Cancelled", "Open"}
  CandidateSources = {x1}
  MaxLog = 5
INVARIANTS TypeOK LogIsHistory ReportedProgressIsReal
PROPERTIES CompletionGate FollowsLifecycle
CHECK_DEADLOCK FALSE
SYMMETRY Symmetry
