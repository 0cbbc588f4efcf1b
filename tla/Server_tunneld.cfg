CONSTANTS
  k1 = k1
  k2 = k2
  i1 = i1
  i2 = i2
  a = a
  p = p
  none = none
  noAuth = noAuth
  noUser = noUser
  noHost = noHost
  Nobody = Nobody
  Conns <- Two
  Ids <- TwoIds
  Batches <- AnyBatch
  AutoSubscribe = TRUE
  HasListener = FALSE
  Embedded = FALSE
  Addrs = {p}
  HostNames = {a}
  Ports = {}
  NoPort = none
  NoHost = noHost
  Auths = {}
  NoAuth = noAuth
  NoUser = noUser
SPECIFICATION Spec
INVARIANTS
  TypeOK
  ListenersHaveOneHolder
  PooledConnsLive
  ConnectedIsServed
PROPERTIES
  LateDeathSparesSuccessor
  ImplementsHostTable
SYMMETRY ConnSymmetry
