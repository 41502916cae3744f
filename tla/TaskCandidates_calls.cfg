SPECIFICATION Spec
CONSTANTS
  Candidates = {c1, c2}
  Tasks = {t1, t2}
  Sources = {x1}
  Priorities = {High, Low}
  Sessions = {s1, s2}
  Null = Null
INVARIANTS TypeOK OneOpenPerKey ApprovedOnce SlaFollowsPriority
SYMMETRY Symmetry
CHECK_DEADLOCK FALSE
