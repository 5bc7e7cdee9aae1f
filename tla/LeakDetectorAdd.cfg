SPECIFICATION Spec
CONSTANTS
  m1 = m1
  m2 = m2
  m3 = m3
  m4 = m4
  m5 = m5
  m6 = m6
  Chunks = {m1, m2, m3, m4, m5, m6}
  Null = Null
  IndexMod = 65536
SYMMETRY Symmetry
INVARIANTS
  EveryBlockListed
CHECK_DEADLOCK FALSE
