CONSTANTS
  s1 = s1
  s2 = s2
  k1 = k1
  k2 = k2
  k3 = k3
  Nobody = Nobody
  Starts <- Both
  Conns <- Two
  Embedded = TRUE
  HasBackoff = TRUE
  Hiccup = 0
  DefaultInterval = 2
  InitialInterval = 1
  MaxInterval = 1
  MaxElapsedTime = 1
  Numerator = 2
  Denominator = 1
SPECIFICATION FairSpec
INVARIANTS
  TypeOK
  ConnsAreServed
  ConnIsCurrent
  LockIsHeldToConnect
  SleepsEndInTime
PROPERTIES
  StartGetsThrough
  StopGetsThrough
