SPECIFICATION Spec
CONSTANTS
  Stations = {m1, m2, m3}
  MaxHosts = 2
  Faults = TRUE
  MaxSent = 2
SYMMETRY Symmetry
INVARIANTS NothingTwice
PROPERTIES DeltaIsTraffic CauseOfDeath
\* the process may have died
CHECK_DEADLOCK FALSE
