SPECIFICATION FairSpec
CONSTANTS
  w1 = w1
  w2 = w2
  u1 = u1
  u2 = u2
  bad = bad
  Writers = {w1, w2}
  Script <- MCScript
  Kind <- MCKind
  Package <- MCPackage
  NodeCap = 2
  Depth = 3
  Blank = Blank
  Raw = Raw
INVARIANTS
  TypeOK
  NothingForgotten
  OnlyNewestAtRisk
PROPERTIES
  FirstInFirstOut
  Handled
  Activated
CHECK_DEADLOCK FALSE
