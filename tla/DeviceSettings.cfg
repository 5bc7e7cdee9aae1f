SPECIFICATION FairSpec
CONSTANTS
  c1 = c1
  c2 = c2
  x = x
  y = y
  radio = radio
  Calls = {c1, c2}
  Ssid = {c2}
  Target <- MCTarget
  Kind <- MCKind
  Package <- MCPackage
  Nobody = Nobody
INVARIANTS
  TypeOK
  YoungerWins
  InOrder
PROPERTIES
  TakesEffect
CHECK_DEADLOCK FALSE
