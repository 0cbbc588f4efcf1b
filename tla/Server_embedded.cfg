CONSTANTS
  k1 = k1
  k2 = k2
  i1 = i1
  i2 = i2
  a = a
  p = p
  none = none
  noAuth = noAuth
  noUser = noUser
  noHost = noHost
  Nobody = Nobody
  Conns <- Two
  Ids <- OneId
  Batches <- AnyBatch
  AutoSubscribe = FALSE
  HasListener = TRUE
  Embedded = TRUE
  Addrs = {p}
  HostNames = {a}
  Ports = {}
  NoPort = none
  NoHost = noHost
  Auths = {}
  NoAuth = noAuth
  NoUser = noUser
SPECIFICATION Spec
INVARIANTS
  ListenersHaveOneHolder
  PooledConnsLive
  LockHasHolder
SYMMETRY ConnSymmetry
