CONSTANTS
  c1 = c1
  c2 = c2
  a = a
  p80 = p80
  none = none
  alice = alice
  noAuth = noAuth
  noUser = noUser
  nobody = nobody
  empty = empty
  loopback = loopback
  localhost = localhost
  wildcard = wildcard
  bigA = bigA
  star = star
  unspecified = unspecified
  s1 = s1
  s2 = s2
  s3 = s3
  zero = zero
  x = x
  Ids <- MCIds
  HostNames <- MCHostNames
  Ports <- MCPorts
  NoPort = none
  Auths = {alice}
  NoAuth = noAuth
  NoUser = noUser
  Nobody = nobody
  Listeners <- MCListeners
  Requests <- MCRequests
  NoHost = empty
  Loopback = loopback
  Wildcard = wildcard
  AnyPort = zero
  Numbers <- MCNumbers
  LowerCase <- MCLowerCase
  Patterns <- MCPatterns
  ServerNames <- MCServerNames
  Lists <- MCLists
  Files <- MCFiles
  BadURLs <- MCBadURLs
  Base = 4
  Length = 3
  Chunks = 1
  LookAlikes <- MCLookAlikes
  Foreign = {x}
SPECIFICATION RoutingSpec
INVARIANTS
  TypeOK
  RegisteredHostsRoute
  HostsOwned
  RoutingTypeOK
  SubscribedAreListed
  RightTunnel
  TakenIsServed
PROPERTIES
  ImplementsHostTable
CHECK_DEADLOCK FALSE
