------------------------ MODULE ServerRegistryProofs ------------------------
(***************************************************************************)
(* What the server does to its registry, for any clients, connections and  *)
(* addresses: each step of a handler, a reader or the embedding program is *)
(* one operation of Registry or none, so what is proved of the registry    *)
(* holds in the server.                                                    *)
(***************************************************************************)
EXTENDS ServerProofs

Offers ==
  {i \in [Hosts : SUBSET [Host : [host : HostNames, port : Ports \cup {NoPort}],
                          Auth : Auths \cup {NoAuth, NoUser}],
          Listeners : SUBSET Listeners] : i.Hosts # {} \/ i.Listeners # {}}

\* The lemmas about the registry.
RegP == INSTANCE RegistryProofs WITH Requests <- Offers

\* They are about the same registry.
LEMMA SameHelpers ==
  /\ Reg!voidRegistryItem = RegP!voidRegistryItem
  /\ \A id : /\ Reg!IsSubscribed(id) <=> RegP!IsSubscribed(id)
             /\ Reg!Registered(id) <=> RegP!Registered(id)
             /\ Reg!ItemOf(id) = RegP!ItemOf(id)
  /\ \A n : Reg!trimPort(n) = RegP!trimPort(n)
  /\ \A S : Reg!Trimmed(S) = RegP!Trimmed(S)
  /\ Reg!TrimmedNames = RegP!TrimmedNames
  /\ \A f, S : Reg!Delete(f, S) = RegP!Delete(f, S)
  /\ \A f, g : Reg!Assign(f, g) = RegP!Assign(f, g)
  /\ \A f, k, v : Reg!AssignOne(f, k, v) = RegP!AssignOne(f, k, v)
BY DEF Reg!voidRegistryItem, RegP!voidRegistryItem, Reg!IsSubscribed, RegP!IsSubscribed,
       Reg!Registered, RegP!Registered, Reg!ItemOf, RegP!ItemOf, Reg!trimPort,
       RegP!trimPort, Reg!Trimmed, RegP!Trimmed, Reg!TrimmedNames, RegP!TrimmedNames, Reg!HostPort,
       RegP!HostPort, Reg!Delete, RegP!Delete, Reg!Restrict, RegP!Restrict, Reg!Assign, RegP!Assign, Reg!AssignOne, RegP!AssignOne

LEMMA SameOperations ==
  ASSUME NEW id
  PROVE  /\ Reg!Subscribe(id) <=> RegP!Subscribe(id)
         /\ Reg!Clear(id) <=> RegP!Clear(id)
         /\ Reg!Unsubscribe(id) <=> RegP!Unsubscribe(id)
         /\ \A i : Reg!Set(i, id) <=> RegP!Set(i, id)
<1>1. Reg!Subscribe(id) <=> RegP!Subscribe(id)
  BY SameHelpers DEF Reg!Subscribe, RegP!Subscribe
<1>2. Reg!Clear(id) <=> RegP!Clear(id)
  BY SameHelpers DEF Reg!Clear, RegP!Clear
<1>3. Reg!Unsubscribe(id) <=> RegP!Unsubscribe(id)
  BY SameHelpers DEF Reg!Unsubscribe, RegP!Unsubscribe
<1>4. ASSUME NEW i PROVE Reg!Set(i, id) <=> RegP!Set(i, id)
  <2>1. Reg!SetError(i, id) <=> RegP!SetError(i, id)
    BY SameHelpers DEF Reg!SetError, RegP!SetError, Reg!Occupied, RegP!Occupied
  <2>2. Reg!HostInfos(i, id) = RegP!HostInfos(i, id)
    BY DEF Reg!HostInfos, RegP!HostInfos, Reg!Trimmed, RegP!Trimmed, Reg!trimPort, RegP!trimPort
  <2> QED BY SameHelpers, <2>1, <2>2 DEF Reg!Set, RegP!Set
<1> QED BY <1>1, <1>2, <1>3, <1>4

LEMMA Assumptions ==
  /\ Offers \subseteq RegP!RegistryItem \ {RegP!voidRegistryItem}
  /\ NoUser \notin Auths \cup {NoAuth} /\ Nobody \notin Ids
BY UserAssumption, NobodyAssumption
   DEF Offers, RegP!RegistryItem, RegP!HostAuth, RegP!HostPort, RegP!voidRegistryItem

-----------------------------------------------------------------------------
(* Each step of the server is one operation of the registry, or none.       *)

\* What addTunnels hands to the registry is never empty; and tunneld does not
\* unsubscribe anybody.
Offering ==
  /\ \A c \in Conns : pc[c] = "open" => todo[c] # {} \/ item[c] # noItem
  /\ ~Embedded => \A id \in Ids : admin[id] = "idle"

LEMMA InitOffering == ASSUME Init PROVE Offering
BY DEF Init, Offering

LEMMA NextOffering ==
  ASSUME PoolInv, ListenerInv, Offering, [Next]_vars
  PROVE  Offering'
<1> USE DEF goto, registryVars, poolVars, handlerVars, embedVars, PoolInv, Types
\* A step that does not take a handler to addTunnels, nor changes what is there.
<1>1. ASSUME UNCHANGED <<todo, item, admin>>, \A c \in Conns : pc'[c] = "open" => pc[c] = "open"
      PROVE  Offering'
  BY <1>1 DEF Offering
<1>2. ASSUME NEW c \in Conns,
             \/ Admit(c) \/ Ask(c) \/ AddConn(c) \/ PingOk(c) \/ PingFails(c) \/ ReplaceConn(c)
             \/ SendHandshake(c) \/ HandshakeFails(c) \/ SetTunnels(c) \/ NotifyError(c)
             \/ RejectDelete(c) \/ RejectDeleted(c) \/ Reject(c)
      PROVE  Offering'
  <2>1. UNCHANGED <<todo, item, admin>>
    BY <1>2 DEF Admit, Ask, AddConn, PingOk, PingFails, ReplaceConn, SendHandshake,
                HandshakeFails, SetTunnels, NotifyError, RejectDelete, RejectDeleted, Reject
  <2>2. \A d \in Conns : pc'[d] = "open" => pc[d] = "open"
    BY <1>2 DEF Admit, Ask, AddConn, PingOk, PingFails, ReplaceConn, SendHandshake,
                HandshakeFails, SetTunnels, NotifyError, RejectDelete, RejectDeleted, Reject,
                Install, InstallFails
  <2> QED BY <1>1, <2>1, <2>2
<1>3. ASSUME NEW c \in Conns, HandshakeReply(c) PROVE Offering'
  <2>1. PICK batch \in Batches : todo' = [todo EXCEPT ![c] = batch]
    BY <1>3 DEF HandshakeReply
  <2>2. batch # {}
    BY BatchesAssumption
  <2> QED BY <1>3, <2>1, <2>2 DEF HandshakeReply, Offering, ListenerInv, ItemTypes
<1>4. ASSUME NEW c \in Conns, OpenTunnel(c) PROVE Offering'
  <2>1. /\ item' = [item EXCEPT ![c] = item'[c]] /\ todo' = [todo EXCEPT ![c] = todo'[c]]
        /\ UNCHANGED <<pc, admin>>
    BY <1>4 DEF OpenTunnel, ListenerInv, ItemTypes
  <2>2. item'[c] # noItem
    <3>1. PICK t \in todo[c] :
            \/ item' = [item EXCEPT ![c].Hosts = @ \cup {t.arg}]
            \/ item' = [item EXCEPT ![c].Listeners = @ \cup {<<c, t.arg>>}]
      BY <1>4 DEF OpenTunnel
    <3>2. item \in [Conns -> ItemType]
      BY DEF ListenerInv, ItemTypes
    <3>3. CASE item' = [item EXCEPT ![c].Hosts = @ \cup {t.arg}]
      <4>1. t.arg \in item'[c].Hosts
        BY <3>2, <3>3 DEF ItemType
      <4> QED BY <4>1 DEF noItem
    <3>4. CASE item' = [item EXCEPT ![c].Listeners = @ \cup {<<c, t.arg>>}]
      <4>1. <<c, t.arg>> \in item'[c].Listeners
        BY <3>2, <3>4 DEF ItemType
      <4> QED BY <4>1 DEF noItem
    <3> QED BY <3>1, <3>3, <3>4
  <2> QED BY <2>1, <2>2 DEF Offering, ListenerInv, ItemTypes
<1>5. ASSUME NEW c \in Conns, OpenFails(c) \/ Rollback(c) \/ Recycle(c) PROVE Offering'
  <2>1. /\ \A d \in Conns \ {c} : item'[d] = item[d] /\ todo'[d] = todo[d] /\ pc'[d] = pc[d]
        /\ pc'[c] # "open" /\ UNCHANGED admin
    BY <1>5 DEF OpenFails, Rollback, Recycle, ListenerInv, ItemTypes
  <2> QED BY <2>1 DEF Offering
<1>6. ASSUME NEW c \in Conns, NEW id \in Ids, Accept(c, id) PROVE Offering'
  BY <1>1, <1>6 DEF Accept
<1>7. ASSUME NEW c \in Conns, ReadLoop(c) \/ Lose(c) \/ GoAway(c) PROVE Offering'
  BY <1>1, <1>7 DEF ReadLoop, ReadFails, MarkDead, MarkedDead, Lose, GoAway
<1>8. ASSUME NEW id \in Ids, Subscribe(id) PROVE Offering'
  BY <1>1, <1>8 DEF Subscribe
<1>9. ASSUME NEW id \in Ids, UnsubscribeConn(id) \/ Caller(id) PROVE Offering'
  <2>1. Embedded \/ UNCHANGED admin
    BY <1>9 DEF UnsubscribeConn, Caller, UnsubscribeDeleted, UnsubscribeItem, Ping, Offering
  <2>2. UNCHANGED <<todo, item, pc>>
    BY <1>9 DEF UnsubscribeConn, Caller, UnsubscribeDeleted, UnsubscribeItem, Ping
  <2> QED BY <2>1, <2>2 DEF Offering
<1>10. CASE CloseListener \/ Stop \/ UNCHANGED vars
  BY <1>1, <1>10 DEF CloseListener, Stop, vars
<1> QED BY <1>2, <1>3, <1>4, <1>5, <1>6, <1>7, <1>8, <1>9, <1>10
        DEF Next, Handler, Environment

\* The operation of the registry in a step of the server.
RegistryOperation ==
  \/ UNCHANGED registryVars
  \/ \E id \in Ids :
       \/ Reg!Subscribe(id) \/ Reg!Clear(id) \/ \E i \in Offers : Reg!Set(i, id)
       \/ Embedded /\ Reg!Unsubscribe(id)

LEMMA RegistryStep ==
  ASSUME PoolInv, ListenerInv, Offering, [Next]_vars
  PROVE  RegistryOperation
<1> USE DEF registryVars, PoolInv, Types
<1>1. ASSUME NEW c \in Conns, Admit(c) \/ Ask(c) PROVE RegistryOperation
  <2>1. ident[c] \in Ids
    BY <1>1 DEF Admit, Ask
  <2> QED BY <1>1, <2>1 DEF Admit, Ask, RegistryOperation
<1>2. ASSUME NEW c \in Conns,
             \/ AddConn(c) \/ PingOk(c) \/ ReplaceConn(c) \/ SendHandshake(c)
             \/ HandshakeReply(c) \/ HandshakeFails(c) \/ OpenTunnel(c) \/ OpenFails(c)
             \/ Rollback(c) \/ NotifyError(c) \/ RejectDeleted(c) \/ Reject(c)
      PROVE  UNCHANGED registryVars
  BY <1>2 DEF AddConn, PingOk, ReplaceConn, SendHandshake, HandshakeReply, HandshakeFails,
              OpenTunnel, OpenFails, Rollback, NotifyError, RejectDeleted, Reject
<1>3. ASSUME NEW c \in Conns, SetTunnels(c) PROVE RegistryOperation
  <2>1. ident[c] \in Ids /\ item[c] \in ItemType /\ item[c] # noItem
    BY <1>3 DEF SetTunnels, ListenerInv, ItemTypes, Offering
  <2>2. item[c].Hosts # {} \/ item[c].Listeners # {}
    BY <2>1 DEF ItemType, noItem
  <2>3. item[c] \in Offers
    BY <2>1, <2>2 DEF Offers, ItemType, Reg!HostAuth, Reg!HostPort
  <2> QED BY <1>3, <2>1, <2>3 DEF SetTunnels, RegistryOperation
<1>4. ASSUME NEW id \in Ids, NEW p, PoolClose(id, p) PROVE RegistryOperation
  BY <1>4 DEF PoolClose, RegistryOperation
<1>5. ASSUME NEW c \in Conns, PingFails(c) \/ RejectDelete(c) \/ MarkDead(c)
      PROVE  RegistryOperation
  <2>1. \/ ident[c] \in Ids /\ \E p : PoolClose(ident[c], p)
        \/ UNCHANGED registryVars
    BY <1>5 DEF PingFails, RejectDelete, MarkDead, DeleteConn, Pooled
  <2> QED BY <1>4, <2>1 DEF RegistryOperation
<1>6. ASSUME NEW id \in Ids, UnsubscribeConn(id) PROVE RegistryOperation
  BY <1>4, <1>6 DEF UnsubscribeConn, DeleteConn, RegistryOperation
<1>7. ASSUME NEW id \in Ids, UnsubscribeItem(id) PROVE RegistryOperation
  BY <1>7 DEF UnsubscribeItem, Offering, RegistryOperation
<1>8. ASSUME NEW id \in Ids, Subscribe(id) \/ UnsubscribeDeleted(id) \/ Ping(id)
      PROVE  RegistryOperation
  BY <1>8 DEF Subscribe, UnsubscribeDeleted, Ping, RegistryOperation
<1>9. ASSUME NEW c \in Conns,
             \/ ReadFails(c) \/ MarkedDead(c) \/ Lose(c) \/ GoAway(c) \/ Recycle(c)
             \/ \E id \in Ids : Accept(c, id)
      PROVE  UNCHANGED registryVars
  BY <1>9 DEF ReadFails, MarkedDead, Lose, GoAway, Recycle, Accept
<1>10. CASE CloseListener \/ Stop \/ UNCHANGED vars
  BY <1>10 DEF CloseListener, Stop, vars, RegistryOperation
<1> QED BY <1>1, <1>2, <1>3, <1>5, <1>6, <1>7, <1>8, <1>9, <1>10
        DEF Next, Handler, ReadLoop, Environment, Caller, RegistryOperation

ControlInv == PoolInv /\ ListenerInv /\ Offering

LEMMA ControlInductive == Spec => []ControlInv
<1>1. PoolInv /\ ListenerInv /\ Offering /\ [Next]_vars => Offering'
  BY NextOffering
<1>2. ControlInv <=> PoolInv /\ ListenerInv /\ Offering
  BY DEF ControlInv
<1> QED BY PoolInductive, ListenersInductive, InitOffering, <1>1, <1>2, PTL DEF Spec

\* Whatever clients, handlers, readers and callers of Unsubscribe do to each
\* other, each of their steps is one operation of the registry, which hands no
\* empty item to set.
THEOREM ServerRunsRegistry == Spec => Reg!Spec
<1>1. Init => Reg!Init
  BY DEF Init
<1>2. ControlInv /\ [Next]_vars => [Reg!Next]_(Reg!vars)
  BY RegistryStep DEF ControlInv, RegistryOperation, registryVars, Reg!vars, Reg!Next,
                      Reg!TunneldNext, Offers
<1> QED BY ControlInductive, <1>1, <1>2, PTL DEF Spec, Reg!Spec

\* And in tunneld, one that tunneld makes use of.
THEOREM TunneldRunsRegistry == ASSUME ~Embedded PROVE Spec => Reg!TunneldSpec
<1>1. Init => Reg!Init
  BY DEF Init
<1>2. ControlInv /\ [Next]_vars => [Reg!TunneldNext]_(Reg!vars)
  BY RegistryStep DEF ControlInv, RegistryOperation, registryVars, Reg!vars, Reg!TunneldNext,
                      Offers
<1> QED BY ControlInductive, <1>1, <1>2, PTL DEF Spec, Reg!TunneldSpec

-----------------------------------------------------------------------------
(* So the theorems about the registry are theorems about the server.        *)

LEMMA SameSteps ==
  /\ Reg!Init <=> RegP!Init
  /\ [Reg!Next]_(Reg!vars) <=> [RegP!Next]_(RegP!vars)
  /\ [Reg!TunneldNext]_(Reg!vars) <=> [RegP!TunneldNext]_(RegP!vars)
BY SameOperations
   DEF Reg!Init, RegP!Init, Reg!vars, RegP!vars, Reg!Next, RegP!Next, Reg!TunneldNext,
       RegP!TunneldNext, Offers

\* A request for a host that a client has registered goes to this client, as
\* long as it is registered, whoever is evicted, replaced or unsubscribed.
THEOREM ServerRoutesHosts == Spec => []Reg!RegisteredHostsRoute
<1>1. Reg!Init => RegP!RouteInv
  BY Assumptions, SameSteps, RegP!RouteInit
<1>2. RegP!RouteInv /\ [Reg!Next]_(Reg!vars) => RegP!RouteInv'
  BY Assumptions, SameSteps, RegP!RouteInductive
<1>3. RegP!RouteInv => Reg!RegisteredHostsRoute
  BY SameHelpers DEF RegP!RouteInv, RegP!RegisteredHostsRoute, Reg!RegisteredHostsRoute,
                     RegP!HasSubscriber, Reg!HasSubscriber, RegP!Subscriber, Reg!Subscriber
<1> QED BY ServerRunsRegistry, <1>1, <1>2, <1>3, PTL DEF Reg!Spec

LEMMA TunneldInductive == Reg!TunneldSpec => []RegP!OwnedInv
<1>1. Reg!Init => RegP!OwnedInv
  BY Assumptions, SameSteps, RegP!OwnedInit
<1>2. RegP!OwnedInv /\ [Reg!TunneldNext]_(Reg!vars) => RegP!OwnedInv'
  BY Assumptions, SameSteps, RegP!OwnedInductive
<1> QED BY <1>1, <1>2, PTL DEF Reg!TunneldSpec

\* No host is left behind by a client that is gone, refused or replaced: each
\* leads to the client whose item holds it, with the credentials it asked for.
THEOREM TunneldOwnsHosts == ASSUME ~Embedded PROVE Spec => []Reg!HostsOwned
<1>1. RegP!OwnedInv => Reg!HostsOwned
  BY SameHelpers DEF RegP!OwnedInv, RegP!HostsOwned, Reg!HostsOwned
<1> QED BY TunneldRunsRegistry, TunneldInductive, <1>1, PTL

LEMMA SameOwner ==
  ASSUME NEW n
  PROVE  Reg!Owner(n) = RegP!Owner(n) /\ Reg!Owner(n)' = RegP!Owner(n)'
BY SameHelpers DEF Reg!Owner, RegP!Owner, Reg!HasSubscriber, RegP!HasSubscriber,
                   Reg!Subscriber, RegP!Subscriber

\* What end users see of tunneld is a table of hosts: connecting grants a client
\* all hosts that it asks for or none, losing it frees them at once, and no step
\* of one client moves a host of another.
THEOREM ServerImplementsHostTable == ASSUME ~Embedded PROVE Spec => ImplementsHostTable
<1>1. Reg!Init => Reg!Table!Init
  <2>1. Reg!Init => RegP!Table!Init
    BY Assumptions, SameSteps, RegP!TableInit
  <2> QED BY <2>1, SameOwner, SameHelpers DEF RegP!Table!Init, Reg!Table!Init
<1>2. RegP!OwnedInv /\ [Reg!TunneldNext]_(Reg!vars) =>
        [Reg!Table!Next]_([n \in Reg!TrimmedNames |-> Reg!Owner(n)])
  <2> SUFFICES ASSUME RegP!OwnedInv, [Reg!TunneldNext]_(Reg!vars)
               PROVE  [Reg!Table!Next]_([n \in Reg!TrimmedNames |-> Reg!Owner(n)])
    OBVIOUS
  <2>1. [RegP!Table!Next]_([n \in RegP!TrimmedNames |-> RegP!Owner(n)])
    BY Assumptions, SameSteps, RegP!TableStep
  <2> QED BY <2>1, SameOwner, SameHelpers
          DEF RegP!Table!Next, Reg!Table!Next, RegP!Table!Revoke, Reg!Table!Revoke,
              RegP!Table!Grant, Reg!Table!Grant, RegP!Table!Owned, Reg!Table!Owned
<1> QED BY TunneldRunsRegistry, TunneldInductive, <1>1, <1>2, PTL
        DEF Reg!TunneldSpec, ImplementsHostTable, Reg!ImplementsHostTable, Reg!Table!Spec
=============================================================================
