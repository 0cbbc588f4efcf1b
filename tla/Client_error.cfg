CONSTANTS
  s1 = s1
  s2 = s2
  k1 = k1
  k2 = k2
  k3 = k3
  Nobody = Nobody
  Starts <- One
  Conns <- Two
  Embedded = FALSE
  HasBackoff = TRUE
  Hiccup = 1
  DefaultInterval = 1
  InitialInterval = 2
  MaxInterval = 3
  MaxElapsedTime = 3
  Numerator = 3
  Denominator = 2
SPECIFICATION Spec
PROPERTIES
  ServerErrorIsOwn
SYMMETRY ConnSymmetry
