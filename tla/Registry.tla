------------------------------ MODULE Registry ------------------------------
(***************************************************************************)
(* The server's registry (registry.go): which client identifiers are       *)
(* subscribed, which tunnels each of them has registered, and which client *)
(* serves which HTTP host.  Every operation holds r.mu from its first read *)
(* to its last write, so each one is a single action here.                 *)
(*                                                                         *)
(* The two Go maps are functions whose domains are the keys present:       *)
(* delete restricts the domain, an assignment extends it.                  *)
(***************************************************************************)
EXTENDS Functions

CONSTANTS
  Ids,        \* client identifiers, digests of client certificates
  HostNames,  \* host parts of host:port strings
  Ports,      \* port parts of host:port strings
  NoPort,     \* the port of a host:port string that has none
  NoHost,     \* the host of a ":port" string
  Auths,      \* basic auth credentials that name a user
  NoAuth,     \* the nil *Auth
  NoUser,     \* credentials whose user is empty
  Nobody,     \* the owner of a host that leads to no client
  Listeners,  \* open listeners a RegistryItem may hold
  Requests    \* the RegistryItems clients ask for

VARIABLES
  items,      \* r.items: identifier -> RegistryItem, for subscribed clients
  hosts       \* r.hosts: trimmed host -> hostInfo

vars == <<items, hosts>>

\* A Host is a record, so that "host:port" and "host" differ by one field.
HostPort == [host : HostNames, port : Ports \cup {NoPort}]
HostAuth == [Host : HostPort, Auth : Auths \cup {NoAuth, NoUser}]
RegistryItem == [Hosts : SUBSET HostAuth, Listeners : SUBSET Listeners]
hostInfo == [identifier : Ids, auth : Auths \cup {NoAuth}]

\* The shared empty item.  The code compares pointers with it; an item built
\* by addTunnels is never empty (handleClient refuses an empty batch), so
\* comparing values decides the same.
voidRegistryItem == [Hosts |-> {}, Listeners |-> {}]

ASSUME RequestsAssumption == Requests \subseteq RegistryItem \ {voidRegistryItem}
ASSUME SentinelAssumption == NoUser \notin Auths \cup {NoAuth} /\ Nobody \notin Ids

-----------------------------------------------------------------------------
\* A string without a port, or without a host, is its own host part.
trimPort(hostPort) ==
  IF hostPort.host = NoHost THEN hostPort ELSE [host |-> hostPort.host, port |-> NoPort]

TrimmedNames == {trimPort(n) : n \in HostPort}

Trimmed(hostAuths) == {trimPort(h.Host) : h \in hostAuths}

IsSubscribed(id) == id \in DOMAIN items

\* The client has tunnels in the registry.
Registered(id) == IsSubscribed(id) /\ items[id] # voidRegistryItem

\* What the caller of clear or Unsubscribe gets back.  Its callers treat nil
\* and the void item alike: neither has a listener to close.
ItemOf(id) == IF IsSubscribed(id) THEN items[id] ELSE voidRegistryItem

\* RoundTrip's lookup: the host header of a request may carry any port.
Subscriber(hostPort) == hosts[trimPort(hostPort)]
HasSubscriber(hostPort) == trimPort(hostPort) \in DOMAIN hosts

\* delete and assignment on a Go map.  (The provers know nothing of @@.)
Delete(f, S) == Restrict(f, DOMAIN f \ S)
Assign(f, g) ==
  [k \in DOMAIN f \cup DOMAIN g |-> IF k \in DOMAIN g THEN g[k] ELSE f[k]]
AssignOne(f, k, v) == Assign(f, [x \in {k} |-> v])

Init ==
  /\ items = <<>>
  /\ hosts = <<>>

Subscribe(id) ==
  /\ items' = IF IsSubscribed(id) THEN items ELSE AssignOne(items, id, voidRegistryItem)
  /\ UNCHANGED hosts

\* Deletes the hosts under the names the client gave, not the trimmed ones
\* they were stored under.
Unsubscribe(id) ==
  /\ hosts' = Delete(hosts, {h.Host : h \in ItemOf(id).Hosts})
  /\ items' = Delete(items, {id})

\* (Variant: the name is looked up as the client gave it.)
OccupiedUntrimmed(hostPort) == hostPort \in DOMAIN hosts

Occupied(hostPort) == trimPort(hostPort) \in DOMAIN hosts

\* (Variants: a user is not asked for; a second registration is not refused;
\* nor is an occupied host.)
SetErrorAnyUser(i, id) ==
  ~IsSubscribed(id) \/ Registered(id) \/ \E h \in i.Hosts : Occupied(h.Host)
SetErrorOverwrites(i, id) ==
  ~IsSubscribed(id) \/ \E h \in i.Hosts : h.Auth = NoUser \/ Occupied(h.Host)
SetErrorTakesOver(i, id) ==
  ~IsSubscribed(id) \/ Registered(id) \/ \E h \in i.Hosts : h.Auth = NoUser

\* Why set returns an error, if it does; it then changes nothing.
SetError(i, id) ==
  \/ ~IsSubscribed(id)
  \/ Registered(id)
  \/ \E h \in i.Hosts : h.Auth = NoUser \/ Occupied(h.Host)

\* The map entries a batch leaves behind.  Hosts of the batch that differ in
\* the port alone are written to one entry one after the other, and the order
\* of the batch is that of a Go map iteration: any of them may be the last.
HostInfos(i, id) ==
  {[n \in Trimmed(i.Hosts) |-> [identifier |-> id, auth |-> last[n].Auth]] :
     last \in {f \in [Trimmed(i.Hosts) -> i.Hosts] :
                 \A n \in DOMAIN f : trimPort(f[n].Host) = n}}

Set(i, id) ==
  /\ ~SetError(i, id)
  /\ \E added \in HostInfos(i, id) : hosts' = Assign(hosts, added)
  /\ items' = AssignOne(items, id, i)

\* (Variant: names are deleted as the client gave them.)
ClearUntrimmed(id) ==
  /\ hosts' = Delete(hosts, {h.Host : h \in ItemOf(id).Hosts})
  /\ items' = IF Registered(id) THEN AssignOne(items, id, voidRegistryItem) ELSE items

\* When nothing is registered for id, clear returns nil and changes nothing.
Clear(id) ==
  /\ hosts' = Delete(hosts, Trimmed(ItemOf(id).Hosts))
  /\ items' = IF Registered(id) THEN AssignOne(items, id, voidRegistryItem) ELSE items

\* What the tunneld executable makes of the registry: it never calls
\* Unsubscribe, which programs that embed the server may.
TunneldNext ==
  \E id \in Ids :
    \/ Subscribe(id)
    \/ Clear(id)
    \/ \E i \in Requests : Set(i, id)

Next == TunneldNext \/ \E id \in Ids : Unsubscribe(id)

TunneldSpec == Init /\ [][TunneldNext]_vars

Spec == Init /\ [][Next]_vars

-----------------------------------------------------------------------------
\* The maps hold what their Go types and set's checks allow: names in hosts
\* are trimmed, and nothing is guarded by credentials without a user.
TypeOK ==
  /\ DOMAIN items \subseteq Ids
  /\ \A id \in DOMAIN items : items[id] \in RegistryItem
  /\ DOMAIN hosts \subseteq TrimmedNames
  /\ \A n \in DOMAIN hosts : hosts[n] \in hostInfo

\* Every host that a client registered leads to that client, whatever port the
\* request names, until its item is cleared: set never hands the host of one
\* client to another, and neither clear nor Unsubscribe of one client takes
\* away a host of another.
RegisteredHostsRoute ==
  \A id \in DOMAIN items : \A h \in items[id].Hosts :
    HasSubscriber(h.Host) /\ Subscriber(h.Host).identifier = id

\* Conversely, nothing is routed that no client registered: the client that a
\* host leads to holds an item with that host, and the credentials that
\* RoundTrip compares are those that it asked for.  So clear frees every name
\* that set took, although both recompute the names from the item.
HostsOwned ==
  \A n \in DOMAIN hosts :
    /\ IsSubscribed(hosts[n].identifier)
    /\ \E h \in items[hosts[n].identifier].Hosts :
         trimPort(h.Host) = n /\ h.Auth = hosts[n].auth

\* The client that end users of a host are led to.
Owner(n) == IF HasSubscriber(n) THEN Subscriber(n).identifier ELSE Nobody

Table == INSTANCE HostTable WITH
  HostNames <- TrimmedNames,
  owner <- [n \in TrimmedNames |-> Owner(n)]

\* As tunneld uses it, the registry is a table of hosts: each set grants a
\* client without hosts all that it asks for or nothing, each clear takes all
\* of them back, and no step of one client moves a host of another.
ImplementsHostTable == Table!Spec

=============================================================================
