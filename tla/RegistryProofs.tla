--------------------------- MODULE RegistryProofs ---------------------------
(* Theorems about the registry, for any clients, hosts and requests.       *)
EXTENDS Registry, TLAPS

\* What a batch adds: one entry for each of its trimmed hosts, which leads to
\* the client and carries the credentials of one of the hosts of that name.
LEMMA AddedHosts ==
  ASSUME NEW i, NEW id, NEW added \in HostInfos(i, id)
  PROVE  /\ DOMAIN added = Trimmed(i.Hosts)
         /\ \A n \in DOMAIN added :
              /\ added[n].identifier = id
              /\ \E h \in i.Hosts : trimPort(h.Host) = n /\ h.Auth = added[n].auth
  <1>1. PICK last \in [Trimmed(i.Hosts) -> i.Hosts] :
           /\ \A n \in DOMAIN last : trimPort(last[n].Host) = n
           /\ added = [n \in Trimmed(i.Hosts) |-> [identifier |-> id, auth |-> last[n].Auth]]
    BY DEF HostInfos
  <1> QED
    BY <1>1

LEMMA TrimIdempotent ==
  ASSUME NEW n \in HostPort
  PROVE  trimPort(trimPort(n)) = trimPort(n)
  BY DEF trimPort, HostPort

(***************************************************************************)
(* Types.                                                                  *)
(***************************************************************************)
LEMMA VoidItemType == voidRegistryItem \in RegistryItem
  BY DEF voidRegistryItem, RegistryItem

LEMMA TypeSubscribe ==
  ASSUME TypeOK, NEW id \in Ids, Subscribe(id)
  PROVE  TypeOK'
  BY VoidItemType DEF TypeOK, Subscribe, AssignOne, Assign

LEMMA TypeUnsubscribe ==
  ASSUME TypeOK, NEW id \in Ids, Unsubscribe(id)
  PROVE  TypeOK'
  BY DEF TypeOK, Unsubscribe, Delete, Restrict

LEMMA TypeClear ==
  ASSUME TypeOK, NEW id \in Ids, Clear(id)
  PROVE  TypeOK'
  BY VoidItemType DEF TypeOK, Clear, Delete, Restrict, AssignOne, Assign

LEMMA TypeSet ==
  ASSUME TypeOK, NEW id \in Ids, NEW i \in RegistryItem, Set(i, id)
  PROVE  TypeOK'
  <1>1. PICK added \in HostInfos(i, id) : hosts' = Assign(hosts, added)
    BY DEF Set
  <1>2. /\ DOMAIN items' \subseteq Ids
        /\ \A k \in DOMAIN items' : items'[k] \in RegistryItem
    <2>1. /\ DOMAIN items' = DOMAIN items \cup {id}
          /\ items'[id] = i
          /\ \A k \in DOMAIN items \ {id} : items'[k] = items[k]
      BY DEF Set, AssignOne, Assign
    <2> QED
      BY <2>1 DEF TypeOK
  <1>3. \A h \in i.Hosts : h.Host \in HostPort /\ h.Auth \in Auths \cup {NoAuth}
    <2>1. ~\E h \in i.Hosts : h.Auth = NoUser
      BY DEF Set, SetError
    <2> QED
      BY <2>1 DEF RegistryItem, HostAuth
  <1>4. DOMAIN added \subseteq TrimmedNames
    <2>1. DOMAIN added = Trimmed(i.Hosts)
      BY AddedHosts
    <2> QED
      BY <1>3, <2>1 DEF Trimmed, TrimmedNames
  <1>5. \A n \in DOMAIN added : added[n] \in hostInfo
    <2> SUFFICES ASSUME NEW n \in DOMAIN added
                 PROVE  added[n] \in hostInfo
      OBVIOUS
    <2>1. PICK last \in [Trimmed(i.Hosts) -> i.Hosts] :
             added = [m \in Trimmed(i.Hosts) |-> [identifier |-> id, auth |-> last[m].Auth]]
      BY DEF HostInfos
    <2> QED
      BY <1>3, <2>1 DEF hostInfo
  <1> QED
    <2>1. /\ DOMAIN hosts' = DOMAIN hosts \cup DOMAIN added
          /\ \A n \in DOMAIN added : hosts'[n] = added[n]
          /\ \A n \in DOMAIN hosts \ DOMAIN added : hosts'[n] = hosts[n]
      BY <1>1 DEF Assign
    <2> QED
      BY <1>2, <1>4, <1>5, <2>1 DEF TypeOK

\* The registry's maps keep their types, whatever the clients ask for and
\* whoever is unsubscribed.
THEOREM TypeCorrect == Spec => []TypeOK
  <1>1. Init => TypeOK
    BY DEF Init, TypeOK
  <1>2. TypeOK /\ [Next]_vars => TypeOK'
    <2> SUFFICES ASSUME TypeOK, [Next]_vars
                 PROVE  TypeOK'
      OBVIOUS
    <2>1. CASE UNCHANGED vars
      BY <2>1 DEF vars, TypeOK
    <2>2. ASSUME NEW id \in Ids, Subscribe(id)
          PROVE  TypeOK'
      BY <2>2, TypeSubscribe
    <2>3. ASSUME NEW id \in Ids, Clear(id)
          PROVE  TypeOK'
      BY <2>3, TypeClear
    <2>4. ASSUME NEW id \in Ids, NEW i \in Requests, Set(i, id)
          PROVE  TypeOK'
      BY <2>4, TypeSet, RequestsAssumption
    <2>5. ASSUME NEW id \in Ids, Unsubscribe(id)
          PROVE  TypeOK'
      BY <2>5, TypeUnsubscribe
    <2> QED
      BY <2>1, <2>2, <2>3, <2>4, <2>5 DEF Next, TunneldNext
  <1> QED
    BY <1>1, <1>2, PTL DEF Spec

(***************************************************************************)
(* Registered hosts lead to their client.  With the types, which say that  *)
(* names in hosts are trimmed, the property is inductive as it stands: two *)
(* items never hold the same trimmed host, so freeing the hosts of one     *)
(* client leaves those of the others alone.                                *)
(***************************************************************************)
RouteInv == TypeOK /\ RegisteredHostsRoute

LEMMA RouteSubscribe ==
  ASSUME RouteInv, NEW id \in Ids, Subscribe(id)
  PROVE  RegisteredHostsRoute'
  BY DEF RouteInv, RegisteredHostsRoute, HasSubscriber, Subscriber, Subscribe,
         AssignOne, Assign, voidRegistryItem

\* The names that clear and Unsubscribe delete lead to the client itself.
LEMMA RouteDelete ==
  ASSUME RouteInv, NEW id \in Ids, NEW names,
         \A n \in names \cap DOMAIN hosts : hosts[n].identifier = id,
         hosts' = Delete(hosts, names),
         DOMAIN items' \subseteq DOMAIN items,
         \A k \in DOMAIN items' \ {id} : items'[k] = items[k],
         id \in DOMAIN items' => items'[id].Hosts = {}
  PROVE  RegisteredHostsRoute'
  <1> SUFFICES ASSUME NEW k \in DOMAIN items', NEW h \in items'[k].Hosts
               PROVE  /\ trimPort(h.Host) \in DOMAIN hosts'
                      /\ hosts'[trimPort(h.Host)].identifier = k
    BY DEF RegisteredHostsRoute, HasSubscriber, Subscriber
  <1>1. k # id /\ k \in DOMAIN items /\ h \in items[k].Hosts
    OBVIOUS
  <1>2. /\ trimPort(h.Host) \in DOMAIN hosts
        /\ hosts[trimPort(h.Host)].identifier = k
    BY <1>1 DEF RouteInv, RegisteredHostsRoute, HasSubscriber, Subscriber
  <1> QED
    BY <1>1, <1>2 DEF Delete, Restrict

LEMMA RouteClear ==
  ASSUME RouteInv, NEW id \in Ids, Clear(id)
  PROVE  RegisteredHostsRoute'
  <1>1. \A n \in Trimmed(ItemOf(id).Hosts) \cap DOMAIN hosts : hosts[n].identifier = id
    BY DEF RouteInv, RegisteredHostsRoute, HasSubscriber, Subscriber, Trimmed, ItemOf,
           IsSubscribed, voidRegistryItem
  <1>2. /\ DOMAIN items' = DOMAIN items
        /\ \A k \in DOMAIN items' \ {id} : items'[k] = items[k]
        /\ id \in DOMAIN items' => items'[id].Hosts = {}
    BY DEF Clear, Registered, IsSubscribed, AssignOne, Assign, voidRegistryItem
  <1> QED
    BY <1>1, <1>2, RouteDelete DEF Clear

LEMMA RouteUnsubscribe ==
  ASSUME RouteInv, NEW id \in Ids, Unsubscribe(id)
  PROVE  RegisteredHostsRoute'
  <1>1. \A n \in {h.Host : h \in ItemOf(id).Hosts} \cap DOMAIN hosts :
           hosts[n].identifier = id
    <2> SUFFICES ASSUME NEW h \in ItemOf(id).Hosts, h.Host \in DOMAIN hosts
                 PROVE  hosts[h.Host].identifier = id
      OBVIOUS
    <2>1. trimPort(h.Host) = h.Host
      BY TrimIdempotent DEF RouteInv, TypeOK, TrimmedNames
    <2> QED
      BY <2>1 DEF RouteInv, RegisteredHostsRoute, HasSubscriber, Subscriber, ItemOf,
                  IsSubscribed, voidRegistryItem
  <1>2. /\ DOMAIN items' = DOMAIN items \ {id}
        /\ \A k \in DOMAIN items' : items'[k] = items[k]
    BY DEF Unsubscribe, Delete, Restrict
  <1> QED
    BY <1>1, <1>2, RouteDelete DEF Unsubscribe

LEMMA RouteSet ==
  ASSUME RouteInv, NEW id \in Ids, NEW i \in RegistryItem, Set(i, id)
  PROVE  RegisteredHostsRoute'
  <1>1. PICK added \in HostInfos(i, id) : hosts' = Assign(hosts, added)
    BY DEF Set
  <1>2. /\ DOMAIN added = Trimmed(i.Hosts)
        /\ \A n \in DOMAIN added : added[n].identifier = id
    BY AddedHosts
  <1>3. \A n \in Trimmed(i.Hosts) : n \notin DOMAIN hosts
    <2> SUFFICES ASSUME NEW h \in i.Hosts
                 PROVE  trimPort(h.Host) \notin DOMAIN hosts
      BY DEF Trimmed
    <2> QED
      BY DEF Set, SetError, Occupied
  <1>4. /\ DOMAIN items' = DOMAIN items \cup {id}
        /\ items'[id] = i
        /\ \A k \in DOMAIN items' \ {id} : items'[k] = items[k]
    BY DEF Set, AssignOne, Assign
  <1> SUFFICES ASSUME NEW k \in DOMAIN items', NEW h \in items'[k].Hosts
               PROVE  /\ trimPort(h.Host) \in DOMAIN hosts'
                      /\ hosts'[trimPort(h.Host)].identifier = k
    BY DEF RegisteredHostsRoute, HasSubscriber, Subscriber
  <1>5. CASE k = id
    BY <1>1, <1>2, <1>4, <1>5 DEF Assign, Trimmed
  <1>6. CASE k # id
    <2>1. /\ trimPort(h.Host) \in DOMAIN hosts
          /\ hosts[trimPort(h.Host)].identifier = k
      BY <1>4, <1>6 DEF RouteInv, RegisteredHostsRoute, HasSubscriber, Subscriber
    <2> QED
      BY <1>1, <1>2, <1>3, <2>1 DEF Assign
  <1> QED
    BY <1>5, <1>6

LEMMA RouteInductive ==
  ASSUME RouteInv, [Next]_vars
  PROVE  RouteInv'
  <1>1. CASE UNCHANGED vars
    BY <1>1 DEF vars, RouteInv, TypeOK, RegisteredHostsRoute, HasSubscriber, Subscriber
  <1>2. ASSUME NEW id \in Ids, Subscribe(id)
        PROVE  RouteInv'
    BY <1>2, TypeSubscribe, RouteSubscribe DEF RouteInv
  <1>3. ASSUME NEW id \in Ids, Clear(id)
        PROVE  RouteInv'
    BY <1>3, TypeClear, RouteClear DEF RouteInv
  <1>4. ASSUME NEW id \in Ids, NEW i \in Requests, Set(i, id)
        PROVE  RouteInv'
    BY <1>4, TypeSet, RouteSet, RequestsAssumption DEF RouteInv
  <1>5. ASSUME NEW id \in Ids, Unsubscribe(id)
        PROVE  RouteInv'
    BY <1>5, TypeUnsubscribe, RouteUnsubscribe DEF RouteInv
  <1> QED
    BY <1>1, <1>2, <1>3, <1>4, <1>5 DEF Next, TunneldNext

LEMMA RouteInit ==
  ASSUME Init
  PROVE  RouteInv
  BY DEF Init, RouteInv, TypeOK, RegisteredHostsRoute

\* The hosts of a client with tunnels lead to it until they are cleared, with
\* any number of clients, hosts and requests, and whoever is unsubscribed.
THEOREM RegisteredHostsRouteAlways == Spec => []RegisteredHostsRoute
  <1>1. RouteInv /\ [Next]_vars => RouteInv'
    BY RouteInductive
  <1>2. RouteInv => RegisteredHostsRoute
    BY DEF RouteInv
  <1> QED
    BY RouteInit, <1>1, <1>2, PTL DEF Spec

(***************************************************************************)
(* Every entry belongs to a registered tunnel, as long as nobody calls     *)
(* Unsubscribe.                                                            *)
(***************************************************************************)
OwnedInv == RouteInv /\ HostsOwned

LEMMA OwnedSubscribe ==
  ASSUME OwnedInv, NEW id \in Ids, Subscribe(id)
  PROVE  HostsOwned'
  BY DEF OwnedInv, HostsOwned, IsSubscribed, Subscribe, AssignOne, Assign

LEMMA OwnedClear ==
  ASSUME OwnedInv, NEW id \in Ids, Clear(id)
  PROVE  HostsOwned'
  <1> SUFFICES ASSUME NEW n \in DOMAIN hosts'
               PROVE  /\ hosts'[n].identifier \in DOMAIN items'
                      /\ \E h \in items'[hosts'[n].identifier].Hosts :
                           trimPort(h.Host) = n /\ h.Auth = hosts'[n].auth
    BY DEF HostsOwned, IsSubscribed
  <1>1. n \in DOMAIN hosts /\ n \notin Trimmed(ItemOf(id).Hosts) /\ hosts'[n] = hosts[n]
    BY DEF Clear, Delete, Restrict
  <1>2. hosts[n].identifier \in DOMAIN items
    BY <1>1 DEF OwnedInv, HostsOwned, IsSubscribed
  <1>3. PICK h \in items[hosts[n].identifier].Hosts :
           trimPort(h.Host) = n /\ h.Auth = hosts[n].auth
    BY <1>1 DEF OwnedInv, HostsOwned
  <1>4. hosts[n].identifier # id
    BY <1>1, <1>2, <1>3 DEF Trimmed, ItemOf, IsSubscribed
  <1>5. /\ hosts[n].identifier \in DOMAIN items'
        /\ items'[hosts[n].identifier] = items[hosts[n].identifier]
    BY <1>2, <1>4 DEF Clear, AssignOne, Assign
  <1> QED
    BY <1>1, <1>3, <1>5

LEMMA OwnedSet ==
  ASSUME OwnedInv, NEW id \in Ids, NEW i \in RegistryItem, Set(i, id)
  PROVE  HostsOwned'
  <1> SUFFICES ASSUME NEW n \in DOMAIN hosts'
               PROVE  /\ hosts'[n].identifier \in DOMAIN items'
                      /\ \E h \in items'[hosts'[n].identifier].Hosts :
                           trimPort(h.Host) = n /\ h.Auth = hosts'[n].auth
    BY DEF HostsOwned, IsSubscribed
  <1>1. PICK added \in HostInfos(i, id) : hosts' = Assign(hosts, added)
    BY DEF Set
  <1>2. /\ DOMAIN items' = DOMAIN items \cup {id}
        /\ items'[id] = i
        /\ \A k \in DOMAIN items \ {id} : items'[k] = items[k]
    BY DEF Set, AssignOne, Assign
  <1>3. CASE n \in DOMAIN added
    <2>1. hosts'[n] = added[n]
      BY <1>1, <1>3 DEF Assign
    <2>2. /\ added[n].identifier = id
          /\ \E h \in i.Hosts : trimPort(h.Host) = n /\ h.Auth = added[n].auth
      BY <1>3, AddedHosts
    <2> QED
      BY <1>2, <2>1, <2>2
  <1>4. CASE n \notin DOMAIN added
    <2>1. n \in DOMAIN hosts /\ hosts'[n] = hosts[n]
      BY <1>1, <1>4 DEF Assign
    <2>2. hosts[n].identifier \in DOMAIN items
      BY <2>1 DEF OwnedInv, HostsOwned, IsSubscribed
    <2>3. PICK h \in items[hosts[n].identifier].Hosts :
             trimPort(h.Host) = n /\ h.Auth = hosts[n].auth
      BY <2>1 DEF OwnedInv, HostsOwned
    \* set refuses a client that has an item, and the void item owns no host.
    <2>4. hosts[n].identifier # id
      BY <2>2, <2>3 DEF Set, SetError, Registered, IsSubscribed, voidRegistryItem
    <2> QED
      BY <1>2, <2>1, <2>2, <2>3, <2>4
  <1> QED
    BY <1>3, <1>4

LEMMA OwnedInductive ==
  ASSUME OwnedInv, [TunneldNext]_vars
  PROVE  OwnedInv'
  <1>1. CASE UNCHANGED vars
    BY <1>1 DEF vars, OwnedInv, RouteInv, TypeOK, RegisteredHostsRoute, HasSubscriber,
                Subscriber, HostsOwned, IsSubscribed
  <1>2. ASSUME NEW id \in Ids, Subscribe(id)
        PROVE  OwnedInv'
    BY <1>2, TypeSubscribe, RouteSubscribe, OwnedSubscribe DEF OwnedInv, RouteInv
  <1>3. ASSUME NEW id \in Ids, Clear(id)
        PROVE  OwnedInv'
    BY <1>3, TypeClear, RouteClear, OwnedClear DEF OwnedInv, RouteInv
  <1>4. ASSUME NEW id \in Ids, NEW i \in Requests, Set(i, id)
        PROVE  OwnedInv'
    BY <1>4, TypeSet, RouteSet, OwnedSet, RequestsAssumption DEF OwnedInv, RouteInv
  <1> QED
    BY <1>1, <1>2, <1>3, <1>4 DEF TunneldNext

LEMMA OwnedInit ==
  ASSUME Init
  PROVE  OwnedInv
  BY DEF Init, OwnedInv, RouteInv, TypeOK, RegisteredHostsRoute, HostsOwned

\* As tunneld uses the registry, no host is ever left behind: every host that
\* routes belongs to a tunnel of a client whose item is still there.
THEOREM HostsOwnedAlways == TunneldSpec => []HostsOwned
  <1>1. OwnedInv /\ [TunneldNext]_vars => OwnedInv'
    BY OwnedInductive
  <1>2. OwnedInv => HostsOwned
    BY DEF OwnedInv
  <1> QED
    BY OwnedInit, <1>1, <1>2, PTL DEF TunneldSpec

(***************************************************************************)
(* The registry implements the table of hosts.                             *)
(***************************************************************************)
LEMMA OwnerIs ==
  ASSUME NEW n \in TrimmedNames
  PROVE  /\ n \in DOMAIN hosts => Owner(n) = hosts[n].identifier
         /\ n \notin DOMAIN hosts => Owner(n) = Nobody
  BY TrimIdempotent DEF Owner, HasSubscriber, Subscriber, TrimmedNames

LEMMA OwnerIsNext ==
  ASSUME NEW n \in TrimmedNames
  PROVE  /\ n \in DOMAIN hosts' => Owner(n)' = hosts'[n].identifier
         /\ n \notin DOMAIN hosts' => Owner(n)' = Nobody
  BY TrimIdempotent DEF Owner, HasSubscriber, Subscriber, TrimmedNames

\* A client owns the names of its own tunnels and no others.
LEMMA OwnerRegistered ==
  ASSUME OwnedInv, NEW id \in Ids, NEW n \in TrimmedNames
  PROVE  Owner(n) = id <=> n \in Trimmed(ItemOf(id).Hosts)
  <1>1. ASSUME Owner(n) = id
        PROVE  n \in Trimmed(ItemOf(id).Hosts)
    <2>1. n \in DOMAIN hosts /\ hosts[n].identifier = id
      BY <1>1, OwnerIs, SentinelAssumption
    <2>2. /\ id \in DOMAIN items
          /\ \E h \in items[id].Hosts : trimPort(h.Host) = n
      BY <2>1 DEF OwnedInv, HostsOwned, IsSubscribed
    <2> QED
      BY <2>2 DEF Trimmed, ItemOf, IsSubscribed
  <1>2. ASSUME n \in Trimmed(ItemOf(id).Hosts)
        PROVE  Owner(n) = id
    <2>1. /\ id \in DOMAIN items
          /\ \E h \in items[id].Hosts : trimPort(h.Host) = n
      BY <1>2 DEF Trimmed, ItemOf, IsSubscribed, voidRegistryItem
    <2>2. n \in DOMAIN hosts /\ hosts[n].identifier = id
      BY <2>1 DEF OwnedInv, RouteInv, RegisteredHostsRoute, HasSubscriber, Subscriber
    <2> QED
      BY <2>2, OwnerIs
  <1> QED
    BY <1>1, <1>2

LEMMA ClearRevokes ==
  ASSUME OwnedInv, NEW id \in Ids, Clear(id)
  PROVE  Table!Revoke(id)
  <1> SUFFICES ASSUME NEW n \in TrimmedNames
               PROVE  Owner(n)' = IF Owner(n) = id THEN Nobody ELSE Owner(n)
    BY DEF Table!Revoke
  <1>1. CASE Owner(n) = id
    <2>1. n \notin DOMAIN hosts'
      BY <1>1, OwnerRegistered DEF Clear, Delete, Restrict
    <2> QED
      BY <1>1, <2>1, OwnerIsNext
  <1>2. CASE Owner(n) # id
    <2>1. /\ n \in DOMAIN hosts' <=> n \in DOMAIN hosts
          /\ n \in DOMAIN hosts => hosts'[n] = hosts[n]
      BY <1>2, OwnerRegistered DEF Clear, Delete, Restrict
    <2> QED
      BY <1>2, <2>1, OwnerIs, OwnerIsNext
  <1> QED
    BY <1>1, <1>2

LEMMA SetGrants ==
  ASSUME OwnedInv, NEW id \in Ids, NEW i \in RegistryItem, Set(i, id)
  PROVE  \E names \in SUBSET TrimmedNames : Table!Grant(id, names)
  <1> DEFINE names == {n \in TrimmedNames : n \in Trimmed(i.Hosts)}
  <1>1. PICK added \in HostInfos(i, id) : hosts' = Assign(hosts, added)
    BY DEF Set
  <1>2. /\ DOMAIN added = Trimmed(i.Hosts)
        /\ \A n \in DOMAIN added : added[n].identifier = id
    BY AddedHosts
  <1>3. \A n \in TrimmedNames : Owner(n) # id
    BY OwnerRegistered DEF Set, SetError, Registered, ItemOf, IsSubscribed, Trimmed,
                           voidRegistryItem
  <1>4. \A n \in names : Owner(n) = Nobody
    <2> SUFFICES ASSUME NEW n \in names
                 PROVE  n \notin DOMAIN hosts
      BY OwnerIs
    <2> QED
      BY DEF Set, SetError, Occupied, Trimmed
  <1>5. \A n \in TrimmedNames : Owner(n)' = IF n \in names THEN id ELSE Owner(n)
    <2> SUFFICES ASSUME NEW n \in TrimmedNames
                 PROVE  Owner(n)' = IF n \in names THEN id ELSE Owner(n)
      OBVIOUS
    <2>1. CASE n \in names
      <3>1. n \in DOMAIN hosts' /\ hosts'[n].identifier = id
        BY <1>1, <1>2, <2>1 DEF Assign
      <3> QED
        BY <2>1, <3>1, OwnerIsNext
    <2>2. CASE n \notin names
      <3>1. /\ n \in DOMAIN hosts' <=> n \in DOMAIN hosts
            /\ n \in DOMAIN hosts => hosts'[n] = hosts[n]
        BY <1>1, <1>2, <2>2 DEF Assign
      <3> QED
        BY <2>2, <3>1, OwnerIs, OwnerIsNext
    <2> QED
      BY <2>1, <2>2
  <1> HIDE DEF names
  <1>6. names \in SUBSET TrimmedNames
    BY DEF names
  <1>7. Table!Grant(id, names)
    BY <1>3, <1>4, <1>5, <1>6 DEF Table!Grant, Table!Owned
  <1> QED
    BY <1>6, <1>7

LEMMA TableInit ==
  ASSUME Init
  PROVE  Table!Init
  BY OwnerIs DEF Init, Table!Init

LEMMA TableStep ==
  ASSUME OwnedInv, [TunneldNext]_vars
  PROVE  [Table!Next]_([n \in TrimmedNames |-> Owner(n)])
  <1>1. ASSUME hosts' = hosts
        PROVE  [n \in TrimmedNames |-> Owner(n)]' = [n \in TrimmedNames |-> Owner(n)]
    BY <1>1 DEF Owner, HasSubscriber, Subscriber
  <1>2. ASSUME NEW id \in Ids, Clear(id)
        PROVE  Table!Next
    BY <1>2, ClearRevokes DEF Table!Next
  <1>3. ASSUME NEW id \in Ids, NEW i \in Requests, Set(i, id)
        PROVE  Table!Next
    BY <1>3, SetGrants, RequestsAssumption DEF Table!Next
  <1> QED
    BY <1>1, <1>2, <1>3 DEF TunneldNext, Subscribe, vars

\* What RoundTrip sees of the registry is a table in which a client gets all
\* the hosts of a batch or none, and a step of one client leaves the hosts of
\* every other client alone.
THEOREM RegistryImplementsHostTable == TunneldSpec => ImplementsHostTable
  <1>1. OwnedInv /\ [TunneldNext]_vars =>
          OwnedInv' /\ [Table!Next]_([n \in TrimmedNames |-> Owner(n)])
    BY OwnedInductive, TableStep
  <1> QED
    BY OwnedInit, TableInit, <1>1, PTL DEF TunneldSpec, ImplementsHostTable, Table!Spec

=============================================================================
