SPECIFICATION Spec
CONSTANTS
  c1 = c1
  c2 = c2
  oa = oa
  ob = ob
  pa = pa
  pb = pb
  Procs = {c1, c2}
  Options = {oa, ob}
  Package <- MCPackage
  Values = {v}
  Absent = Absent
  Kept = Kept
  Configs <- MCConfigs
INVARIANTS
  CommitTakesAll
  AnswerIsCurrent
SYMMETRY Symmetry
PROPERTIES
  StoreSpec
  StatusIsTrue
CHECK_DEADLOCK FALSE
