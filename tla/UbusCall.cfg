SPECIFICATION UbusFairSpec
CONSTANTS
  Procs = {p1, p2}
  Sems = {s1, s2}
  NoSem = NoSem
INVARIANTS OneHolder Exclusion CauseOfOverlap
PROPERTIES GetsOn
\* all processes may have ended
CHECK_DEADLOCK FALSE
