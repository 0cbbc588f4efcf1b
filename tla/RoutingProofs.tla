--------------------------- MODULE RoutingProofs ----------------------------
(***************************************************************************)
(* Theorems about Routing, for any clients, configuration files and        *)
(* identifiers: what it does to the registry is what tunneld does there,   *)
(* and -clients keeps out who is not on it.                                *)
(***************************************************************************)
EXTENDS Routing, RegistryProofs

\* The lemmas about identifiers.
Identifying == INSTANCE IdentifiersProofs

-----------------------------------------------------------------------------
(* A program only runs with tunnels of a file that loads.                   *)

ProcessType == process \in [Ids -> {NoProcess} \cup Programs]

LEMMA InitProcess == ASSUME RoutingInit PROVE ProcessType
BY DEF RoutingInit, ProcessType

LEMMA NextProcess == ASSUME ProcessType, [RoutingNext]_routingVars PROVE ProcessType'
<1>1. CASE UNCHANGED process
  BY <1>1 DEF ProcessType
<1>2. ASSUME NEW id \in Ids, RunTunnel(id) PROVE ProcessType'
  <2>1. PICK file \in Files : loads(file) /\ \E m \in ProgramsOf(file) :
                                              process' = [process EXCEPT ![id] = m]
    BY <1>2 DEF RunTunnel
  <2>2. PICK m \in ProgramsOf(file) : process' = [process EXCEPT ![id] = m]
    BY <2>1
  <2>3. m \in Programs
    BY <2>1, <2>2 DEF Programs
  <2> QED BY <2>2, <2>3 DEF ProcessType
<1>3. ASSUME NEW id \in Ids, ExitTunnel(id) PROVE ProcessType'
  BY <1>3 DEF ExitTunnel, ProcessType
<1>4. CASE UNCHANGED routingVars
  BY <1>1, <1>4 DEF routingVars
<1>5. ASSUME NEW id \in Ids, AutoSubscribe(id) \/ Connect(id) \/ Disconnected(id)
      PROVE  UNCHANGED process
  BY <1>5 DEF AutoSubscribe, Connect, Disconnected
<1>6. CASE ReadIdentifier \/ SubscribeListed \/ RoundTrip \/ Accept \/ Serve \/ VisitEnds
  BY <1>1, <1>6 DEF ReadIdentifier, SubscribeListed, RoundTrip, Accept, Serve, VisitEnds
<1> QED BY <1>1, <1>2, <1>3, <1>4, <1>5, <1>6 DEF RoutingNext

-----------------------------------------------------------------------------
(* The registry.                                                            *)

\* What the programs may ask of the server, and the listeners they may get.
ProgramItems ==
  UNION {{ItemFor(m, given) : given \in PortsFor(m)} :
           m \in {k \in Programs : \A t \in Tunnels(k) : HasNumber(t)}}

ProgramListeners == UNION {i.Listeners : i \in ProgramItems}

LEMMA ConnectSets ==
  ASSUME ProcessType, NEW id \in Ids, Connect(id)
  PROVE  \E i \in Requests :
           /\ Set(i, id)
           /\ i \in ProgramItems
           /\ \A k \in DOMAIN items : i.Listeners \cap items[k].Listeners = {}
<1> DEFINE m == process[id]
<1>1. m \in Programs
  BY DEF ProcessType, Connect
<1>2. PICK given \in PortsFor(m) : CanListen(m, given) /\ Set(ItemFor(m, given), id)
  BY DEF Connect
<1>3. PICK file \in Files : loads(file) /\ m \in ProgramsOf(file)
  BY <1>1 DEF Programs
<1> HIDE DEF m
<1>4. ASSUME NEW t \in Tunnels(m) PROVE HasNumber(t)
  <2>1. PICK n \in DOMAIN m : t = m[n]
    BY DEF Tunnels
  <2>2. CASE n \in listening(m)
    BY <1>2, <2>1, <2>2 DEF CanListen
  <2>3. CASE n \notin listening(m)
    <3>1. t.Protocol \notin TCPs
      BY <2>1, <2>3 DEF listening, TCPs
    <3> QED BY <3>1 DEF HasNumber
  <2> QED BY <2>2, <2>3
<1>5. ItemFor(m, given) \in Requests
  BY <1>3, <1>4, ProgramsAssumption
<1>6. ItemFor(m, given) \in ProgramItems
  BY <1>1, <1>4 DEF ProgramItems
<1>7. \A k \in DOMAIN items : ItemFor(m, given).Listeners \cap items[k].Listeners = {}
  BY <1>2 DEF CanListen, ItemFor
<1> QED BY <1>2, <1>5, <1>6, <1>7

LEMMA RegistryStep ==
  ASSUME ProcessType, [RoutingNext]_routingVars
  PROVE  [TunneldNext]_vars
<1> USE DEF registryVars, vars
<1>1. ASSUME NEW id \in Ids, RunTunnel(id) \/ ExitTunnel(id) PROVE UNCHANGED vars
  BY <1>1 DEF RunTunnel, ExitTunnel
<1>2. ASSUME NEW id \in Ids, AutoSubscribe(id) PROVE TunneldNext
  BY <1>2 DEF AutoSubscribe, TunneldNext
<1>3. ASSUME NEW id \in Ids, Connect(id) PROVE TunneldNext
  BY <1>3, ConnectSets DEF TunneldNext
<1>4. ASSUME NEW id \in Ids, Disconnected(id) PROVE TunneldNext
  BY <1>4 DEF Disconnected, TunneldNext
<1>5. ASSUME SubscribeListed PROVE TunneldNext
  BY <1>5 DEF SubscribeListed, TunneldNext
<1>6. CASE ReadIdentifier \/ RoundTrip \/ Accept \/ Serve \/ VisitEnds \/ UNCHANGED routingVars
  BY <1>6 DEF ReadIdentifier, RoundTrip, Accept, Serve, VisitEnds, routingVars
<1> QED BY <1>1, <1>2, <1>3, <1>4, <1>5, <1>6 DEF RoutingNext

\* Whatever the operators configure, and whoever connects, the registry only
\* does what tunneld does with it.
THEOREM RoutingRunsRegistry == RoutingSpec => TunneldSpec
<1>1. RoutingInit => Init
  BY DEF RoutingInit
<1>2. ProcessType /\ [RoutingNext]_routingVars => ProcessType' /\ [TunneldNext]_vars
  BY NextProcess, RegistryStep
<1> QED BY InitProcess, <1>1, <1>2, PTL DEF RoutingSpec, TunneldSpec

LEMMA TunneldIsRegistry == TunneldSpec => Spec
<1>1. [TunneldNext]_vars => [Next]_vars
  BY DEF Next
<1> QED BY <1>1, PTL DEF TunneldSpec, Spec

\* So a visit is led to the client that registered its host, and to nobody
\* when that client has gone.
THEOREM RoutingKeepsHosts == RoutingSpec => [](RegisteredHostsRoute /\ HostsOwned)
BY RoutingRunsRegistry, TunneldIsRegistry, RegisteredHostsRouteAlways, HostsOwnedAlways, PTL

\* And hosts go from one client to another as the host table promises.
THEOREM RoutingImplementsHostTable == RoutingSpec => ImplementsHostTable
BY RoutingRunsRegistry, RegistryImplementsHostTable, PTL

-----------------------------------------------------------------------------
(* -clients.                                                                *)

LEMMA ReadingInit ==
  ASSUME status = "reading", chunk = 0, pos = 0, factor = Reading!FirstFactor,
         written = 0, sum = 0, wrong = 0, differs = FALSE, careless = FALSE
  PROVE  Identifying!Inv
<1>1. factor = Identifying!FirstFactor
  BY DEF Reading!FirstFactor, Identifying!FirstFactor
<1>2. Identifying!Init
  BY <1>1 DEF Identifying!Init
<1> QED BY <1>2, Identifying!InitInv, BaseAssumption, LookAlikesAssumption, LengthsAssumption

LEMMA ReadingStep ==
  ASSUME Identifying!Inv, Reading!Next
  PROVE  Identifying!Inv'
<1>1. Reading!ReadDigit => Identifying!ReadDigit
  BY DEF Reading!ReadDigit, Identifying!ReadDigit, Reading!Digits, Identifying!Digits,
         Reading!Characters, Identifying!Characters, Reading!untypeoify, Identifying!untypeoify,
         Reading!Compare, Identifying!Compare, Reading!Addend, Identifying!Addend
<1>2. Reading!ReadCheckDigit => Identifying!ReadCheckDigit
  BY DEF Reading!ReadCheckDigit, Identifying!ReadCheckDigit, Reading!Digits, Identifying!Digits,
         Reading!Characters, Identifying!Characters, Reading!untypeoify, Identifying!untypeoify,
         Reading!Compare, Identifying!Compare, Reading!CheckDigit, Identifying!CheckDigit,
         Reading!FirstFactor, Identifying!FirstFactor
<1> QED BY <1>1, <1>2, BaseAssumption, LookAlikesAssumption, LengthsAssumption, Identifying!ReadDigitInv, Identifying!ReadCheckDigitInv
        DEF Reading!Next

ListInv ==
  /\ Identifying!Inv
  /\ toRead \subseteq listed
  /\ SubscribedAreListed

LEMMA InitList == ASSUME RoutingInit PROVE ListInv
<1>1. Identifying!Inv
  BY ReadingInit DEF RoutingInit, Reading!Init
<1>2. DOMAIN items = {}
  BY DEF RoutingInit, Init
<1> QED BY <1>1, <1>2 DEF RoutingInit, ListInv, SubscribedAreListed

LEMMA SameReading ==
  ASSUME Identifying!Inv, UNCHANGED readingVars
  PROVE  Identifying!Inv'
BY DEF readingVars, Identifying!Inv, Identifying!TypeOK, Identifying!Sums, Identifying!Mistakes,
       Identifying!MistakesRefused, Identifying!RightIsRead, Identifying!CheckDigit

\* set refuses a client that is not subscribed, and clear adds none.
LEMMA OnlySubscribeAdds ==
  ASSUME NEW id, Clear(id) \/ \E i \in Requests : Set(i, id)
  PROVE  DOMAIN items' = DOMAIN items
<1>1. id \in DOMAIN items \/ items' = items
  BY DEF Clear, Set, SetError, Registered, IsSubscribed
<1>2. items' = items \/ \E i : items' = AssignOne(items, id, i)
  BY DEF Clear, Set
<1> QED BY <1>1, <1>2 DEF AssignOne, Assign

LEMMA NextList == ASSUME ProcessType, ListInv, [RoutingNext]_routingVars PROVE ListInv'
<1> USE DEF registryVars, tunneldVars
<1>1. CASE ReadIdentifier
  <2>1. Identifying!Inv'
    BY <1>1, ReadingStep DEF ReadIdentifier, ListInv
  <2> QED BY <1>1, <2>1 DEF ReadIdentifier, ListInv, SubscribedAreListed
<1>2. CASE SubscribeListed
  <2>1. PICK id \in toRead :
          /\ toRead' = toRead \ {id}
          /\ \E read \in Ids : (read = id <=> ~differs) /\ Subscribe(read)
    BY <1>2 DEF SubscribeListed
  <2>2. PICK read \in Ids : (read = id <=> ~differs) /\ Subscribe(read)
    BY <2>1
  <2>3. /\ status = "accepted" /\ slip' = (slip \/ careless) /\ listed' = listed
        /\ status' = "reading" /\ chunk' = 0 /\ pos' = 0 /\ factor' = FirstFactor
        /\ written' = 0 /\ sum' = 0 /\ wrong' = 0 /\ differs' = FALSE /\ careless' = FALSE
    BY <1>2 DEF SubscribeListed
  <2>4. Identifying!Inv'
    <3>1. factor' \in {1, 2}
      BY <2>3 DEF FirstFactor
    <3>2. 0 \in 0 .. Length /\ 0 \in 0 .. Chunks /\ 0 < Chunks
      BY BaseAssumption, LookAlikesAssumption, LengthsAssumption
    <3>3. Identifying!TypeOK'
      <4>1. 0 \in Nat /\ 0 \in 0 .. 2
        OBVIOUS
      <4> QED BY <2>3, <3>1, <3>2, <4>1 DEF Identifying!TypeOK
    <3>4. Identifying!Sums' /\ Identifying!Mistakes'
      BY <2>3 DEF Identifying!Sums, Identifying!Mistakes
    <3> QED BY <2>3, <3>2, <3>3, <3>4
            DEF Identifying!Inv, Identifying!MistakesRefused, Identifying!RightIsRead
  <2>5. ~careless => read = id
    BY <2>2, <2>3 DEF ListInv, Identifying!Inv, Identifying!MistakesRefused
  <2>6. DOMAIN items' \subseteq DOMAIN items \cup {read}
    BY <2>2 DEF Subscribe, AssignOne, Assign
  <2>7. SubscribedAreListed'
    BY <2>1, <2>3, <2>5, <2>6 DEF ListInv, SubscribedAreListed
  <2> QED BY <2>1, <2>3, <2>4, <2>7 DEF ListInv
<1>3. ASSUME UNCHANGED tunneldVars PROVE Identifying!Inv' /\ UNCHANGED <<listed, toRead, slip>>
  BY <1>3, SameReading DEF ListInv
<1>4. ASSUME NEW id \in Ids, AutoSubscribe(id) PROVE ListInv'
  <2>1. listed = {} /\ UNCHANGED tunneldVars
    BY <1>4 DEF AutoSubscribe, autoSubscribe
  <2> QED BY <1>3, <2>1 DEF ListInv, SubscribedAreListed
<1>5. ASSUME NEW id \in Ids, Connect(id) \/ Disconnected(id) PROVE ListInv'
  <2>1. DOMAIN items' = DOMAIN items /\ UNCHANGED tunneldVars
    BY <1>5, ConnectSets, OnlySubscribeAdds DEF Connect, Disconnected
  <2> QED BY <1>3, <2>1 DEF ListInv, SubscribedAreListed
<1>6. ASSUME UNCHANGED registryVars, UNCHANGED tunneldVars PROVE ListInv'
  BY <1>3, <1>6 DEF ListInv, SubscribedAreListed
<1>7. ASSUME NEW id \in Ids, RunTunnel(id) \/ ExitTunnel(id)
      PROVE  UNCHANGED registryVars /\ UNCHANGED tunneldVars
  BY <1>7 DEF RunTunnel, ExitTunnel
<1>8. ASSUME RoundTrip \/ Accept \/ Serve \/ VisitEnds \/ UNCHANGED routingVars
      PROVE  UNCHANGED registryVars /\ UNCHANGED tunneldVars
  BY <1>8 DEF RoundTrip, Accept, Serve, VisitEnds, routingVars
<1> QED BY <1>1, <1>2, <1>4, <1>5, <1>6, <1>7, <1>8 DEF RoutingNext

\* With -clients, tunneld subscribes the clients listed and no other, unless two
\* digits of one chunk were copied wrong: any other mistake is found.
THEOREM SubscribedAreListedAlways == RoutingSpec => []SubscribedAreListed
<1>1. ProcessType /\ ListInv /\ [RoutingNext]_routingVars => ProcessType' /\ ListInv'
  BY NextProcess, NextList
<1>2. ListInv => SubscribedAreListed
  BY DEF ListInv
<1> QED BY InitProcess, InitList, <1>1, <1>2, PTL DEF RoutingSpec

-----------------------------------------------------------------------------
(* Tunnels as the configuration leaves them.                                *)

LEMMA NormalizedAddress ==
  ASSUME NEW a, isAddr(a)
  PROVE  /\ isAddr(normalizeAddress(a))
         /\ normalizeAddress(normalizeAddress(a)) = normalizeAddress(a)
         /\ normalizeAddress(a) # NoText
<1> USE HostsAssumption DEF isAddr, normalizeAddress, isPort, NoText, Text
<1>1. CASE isPort(a)
  BY <1>1
<1>2. CASE ~isPort(a) /\ a.host = NoHost
  BY <1>2
<1>3. CASE ~isPort(a) /\ a.host # NoHost
  BY <1>3
<1> QED BY <1>1, <1>2, <1>3

LEMMA AlreadyNormal ==
  ASSUME NEW t, isTunnel(t), valid(t), normalizeAddress(t.Addr) = t.Addr,
         t.Protocol \in TCPs => normalizeAddress(t.RemoteAddr) = t.RemoteAddr
  PROVE  t.Protocol \in TCPs \cup {"sni"} => normalized(t) = t
<1> USE DEF TCPs
<1>1. CASE t.Protocol \in TCPs
  <2>1. normalized(t) = [t EXCEPT !.RemoteAddr = t.RemoteAddr, !.Addr = t.Addr]
    BY <1>1 DEF normalized
  <2> QED BY <2>1 DEF isTunnel
<1>2. CASE t.Protocol = "sni"
  <2>1. normalized(t) = [t EXCEPT !.Addr = t.Addr]
    BY <1>2 DEF normalized
  <2> QED BY <2>1 DEF isTunnel
<1> QED BY <1>1, <1>2

\* Normalizing once is enough, and what was valid stays so.
LEMMA NormalizedTunnel ==
  ASSUME NEW t, isTunnel(t), valid(t)
  PROVE  /\ isTunnel(normalized(t))
         /\ valid(normalized(t))
         /\ normalized(normalized(t)) = normalized(t)
<1>1. /\ \A a \in {t.Addr, t.RemoteAddr} :
           /\ isAddr(normalizeAddress(a))
           /\ normalizeAddress(normalizeAddress(a)) = normalizeAddress(a)
           /\ normalizeAddress(a) # NoText
  BY NormalizedAddress DEF isTunnel
<1>2. CASE t.Protocol = "http"
  BY <1>2 DEF normalized, TCPs
<1>3. CASE t.Protocol \in TCPs
  <2> USE DEF TCPs
  <2>1. normalized(t) = [Protocol |-> t.Protocol, Host |-> t.Host, Auth |-> t.Auth,
                         Addr |-> normalizeAddress(t.Addr),
                         RemoteAddr |-> normalizeAddress(t.RemoteAddr)]
    BY <1>3 DEF normalized, isTunnel
  <2>2. validateTCP(t)
    BY <1>3 DEF valid
  <2>3. validateTCP(normalized(t))
    BY <1>1, <2>1, <2>2 DEF validateTCP, isAddress
  <2>4. isTunnel(normalized(t))
    BY <1>1, <2>1 DEF isTunnel
  <2>5. valid(normalized(t))
    BY <1>3, <2>1, <2>3 DEF valid, TCPs
  <2>6. normalized(normalized(t)) = normalized(t)
    BY <1>1, <1>3, <2>1, <2>4, <2>5, AlreadyNormal
  <2> QED BY <2>4, <2>5, <2>6
<1>4. CASE t.Protocol = "sni"
  <2>1. normalized(t) = [Protocol |-> "sni", Host |-> t.Host, Auth |-> t.Auth,
                         Addr |-> normalizeAddress(t.Addr), RemoteAddr |-> t.RemoteAddr]
    BY <1>4 DEF normalized, isTunnel
  <2>2. validateSNI(t)
    BY <1>4 DEF valid
  <2>3. validateSNI(normalized(t))
    BY <1>1, <2>1, <2>2 DEF validateSNI, isAddress
  <2>4. isTunnel(normalized(t))
    BY <1>1, <2>1 DEF isTunnel
  <2>5. valid(normalized(t))
    BY <2>1, <2>3 DEF valid
  <2>6. normalized(normalized(t)) = normalized(t)
    BY <1>1, <2>1, <2>4, <2>5, AlreadyNormal DEF TCPs
  <2> QED BY <2>4, <2>5, <2>6
<1> QED BY <1>2, <1>3, <1>4 DEF valid

LEMMA ProgramTunnels ==
  ASSUME NEW m \in Programs, NEW t \in Tunnels(m)
  PROVE  isTunnel(t) /\ valid(t) /\ normalized(t) = t
<1>1. PICK file \in Files : loads(file) /\ m \in ProgramsOf(file)
  BY DEF Programs
<1>2. PICK names \in SUBSET DOMAIN file : m = [n \in names |-> normalized(file[n])]
  BY <1>1 DEF ProgramsOf
<1>3. PICK n \in names : t = normalized(file[n])
  BY <1>2 DEF Tunnels
<1>4. isTunnel(file[n]) /\ valid(file[n])
  BY <1>1, <1>3, FilesAssumption DEF loads
<1> QED BY <1>3, <1>4, NormalizedTunnel

\* What the lookups below need of it: a tunnel is of one of three protocols,
\* and the address of a listener has a port.
LEMMA ProgramProtocols ==
  ASSUME NEW m \in Programs, NEW t \in Tunnels(m)
  PROVE  /\ isAddr(t.Host) /\ isAddr(t.RemoteAddr)
         /\ \/ t.Protocol = "http"
            \/ /\ t.Protocol \in TCPs
               /\ t.Host = NoText
               /\ t.RemoteAddr.port # NoPort
            \/ t.Protocol = "sni" /\ t.Host # NoText
<1>1. isTunnel(t) /\ valid(t) /\ normalized(t) = t
  BY ProgramTunnels
<1>2. CASE t.Protocol \in TCPs
  <2> USE DEF TCPs
  <2>1. normalizeAddress(t.RemoteAddr) = t.RemoteAddr
    BY <1>1, <1>2 DEF normalized, isTunnel
  <2> QED BY <1>1, <1>2, <2>1 DEF valid, validateTCP, isAddress, isTunnel
<1>3. CASE t.Protocol \in {"http", "sni"}
  BY <1>1, <1>3 DEF valid, validateSNI, isTunnel
<1> QED BY <1>1, <1>2, <1>3 DEF valid

LEMMA NoTunnels == Tunnels(NoProcess) = {}
BY DEF Tunnels, NoProcess

-----------------------------------------------------------------------------
(* The types of Routing, and what of the configurations is in the registry. *)

\* No two clients hold a listener of one name.
ListenersInv ==
  /\ \A id \in DOMAIN items : items[id].Listeners \subseteq ProgramListeners
  /\ \A id, k \in DOMAIN items : id # k => items[id].Listeners \cap items[k].Listeners = {}

VisitInv ==
  /\ visit = [to |-> visit.to, proto |-> visit.proto, host |-> visit.host,
              service |-> visit.service]
  /\ \/ visit.proto = "none" /\ visit.to = Nobody
     \/ visit.proto = "http" /\ visit.to \in Ids /\ visit.host \in HostPort
     \/ /\ visit.proto = "tcp" /\ visit.to \in Ids
        /\ \/ \E l \in ProgramListeners : l.network = "tcp" /\ visit.host = l.name
           \/ \E name \in ServerNames : visit.host = Text(name)

RoutingInv == OwnedInv /\ ProcessType /\ ListInv /\ ListenersInv /\ VisitInv

LEMMA NextListeners ==
  ASSUME ProcessType, ListenersInv, [RoutingNext]_routingVars
  PROVE  ListenersInv'
<1> DEFINE New(i) == /\ i.Listeners \subseteq ProgramListeners
                     /\ \A k \in DOMAIN items : i.Listeners \cap items[k].Listeners = {}
<1>1. CASE UNCHANGED items
  BY <1>1 DEF ListenersInv
<1>2. ASSUME NEW id, NEW i, New(i), items' = AssignOne(items, id, i) PROVE ListenersInv'
  <2>1. /\ DOMAIN items' = DOMAIN items \cup {id}
        /\ \A k \in DOMAIN items' : items'[k] = IF k = id THEN i ELSE items[k]
    BY <1>2 DEF AssignOne, Assign
  <2> QED BY <1>2, <2>1 DEF ListenersInv
<1>3. New(voidRegistryItem)
  BY DEF voidRegistryItem
<1>4. ASSUME NEW id, Subscribe(id) \/ Clear(id) PROVE ListenersInv'
  <2>1. items' = items \/ items' = AssignOne(items, id, voidRegistryItem)
    BY <1>4 DEF Subscribe, Clear
  <2> HIDE DEF New
  <2> QED BY <1>1, <1>2, <1>3, <2>1
<1>5. ASSUME NEW id \in Ids, Connect(id) PROVE ListenersInv'
  <2>1. PICK i \in Requests :
          /\ Set(i, id)
          /\ i \in ProgramItems
          /\ \A k \in DOMAIN items : i.Listeners \cap items[k].Listeners = {}
    BY <1>5, ConnectSets
  <2>2. items' = AssignOne(items, id, i)
    BY <2>1 DEF Set
  <2>3. New(i)
    BY <2>1 DEF ProgramListeners
  <2> HIDE DEF New
  <2> QED BY <1>2, <2>2, <2>3
<1>6. ASSUME NEW id \in Ids, AutoSubscribe(id) \/ Disconnected(id) PROVE ListenersInv'
  BY <1>4, <1>6 DEF AutoSubscribe, Disconnected
<1>7. CASE SubscribeListed
  BY <1>4, <1>7 DEF SubscribeListed
<1>8. ASSUME NEW id \in Ids, RunTunnel(id) \/ ExitTunnel(id) PROVE UNCHANGED items
  BY <1>8 DEF RunTunnel, ExitTunnel, registryVars
<1>9. CASE ReadIdentifier \/ RoundTrip \/ Accept \/ Serve \/ VisitEnds \/ UNCHANGED routingVars
  BY <1>1, <1>9 DEF ReadIdentifier, RoundTrip, Accept, Serve, VisitEnds, routingVars,
                    registryVars
<1> QED BY <1>1, <1>5, <1>6, <1>7, <1>8, <1>9 DEF RoutingNext

LEMMA NextVisit ==
  ASSUME OwnedInv, ListenersInv, VisitInv, [RoutingNext]_routingVars
  PROVE  VisitInv'
<1>1. CASE UNCHANGED visit
  BY <1>1 DEF VisitInv
<1>2. CASE RoundTrip
  <2>1. PICK hostPort \in HostPort :
          /\ HasSubscriber(hostPort)
          /\ visit' = [to |-> Subscriber(hostPort).identifier, proto |-> "http",
                       host |-> hostPort, service |-> NoText]
    BY <1>2 DEF RoundTrip
  <2>2. Subscriber(hostPort).identifier \in Ids
    BY <2>1 DEF OwnedInv, RouteInv, TypeOK, HasSubscriber, Subscriber, hostInfo
  <2> QED BY <2>1, <2>2 DEF VisitInv
<1>3. CASE Accept
  <2>1. DOMAIN items \subseteq Ids
    BY DEF OwnedInv, RouteInv, TypeOK
  <2>2. ASSUME NEW id \in DOMAIN items, NEW l \in items[id].Listeners, l.network = "tcp",
               visit' = [to |-> id, proto |-> "tcp", host |-> l.name, service |-> NoText]
        PROVE  VisitInv'
    BY <2>1, <2>2 DEF VisitInv, ListenersInv
  <2>3. ASSUME NEW name \in ServerNames, NEW id \in LedTo(name),
               visit' = [to |-> id, proto |-> "tcp", host |-> Text(name), service |-> NoText]
        PROVE  VisitInv'
    BY <2>1, <2>3 DEF VisitInv, LedTo
  <2> QED BY <1>3, <2>2, <2>3 DEF Accept
<1>4. CASE Serve
  <2>1. PICK s : visit' = [visit EXCEPT !.service = s]
    BY <1>4 DEF Serve
  <2> QED BY <2>1 DEF VisitInv
<1>5. CASE VisitEnds
  BY <1>5 DEF VisitEnds, NoVisit, VisitInv
<1>6. ASSUME NEW id \in Ids, RunTunnel(id) \/ ExitTunnel(id) \/ AutoSubscribe(id)
                             \/ Connect(id) \/ Disconnected(id)
      PROVE  UNCHANGED visit
  BY <1>6 DEF RunTunnel, ExitTunnel, AutoSubscribe, Connect, Disconnected
<1>7. CASE ReadIdentifier \/ SubscribeListed \/ UNCHANGED routingVars
  BY <1>1, <1>7 DEF ReadIdentifier, SubscribeListed, routingVars
<1> QED BY <1>1, <1>2, <1>3, <1>4, <1>5, <1>6, <1>7 DEF RoutingNext

LEMMA RoutingInductive == RoutingSpec => []RoutingInv
<1>1. ASSUME RoutingInit PROVE RoutingInv
  <2>1. OwnedInv /\ ListenersInv
    BY <1>1, OwnedInit DEF RoutingInit, ListenersInv, Init
  <2>2. VisitInv
    BY <1>1 DEF RoutingInit, NoVisit, VisitInv
  <2> QED BY <1>1, <2>1, <2>2, InitProcess, InitList DEF RoutingInv
<1>2. ASSUME RoutingInv, [RoutingNext]_routingVars PROVE RoutingInv'
  BY <1>2, RegistryStep, OwnedInductive, NextProcess, NextList, NextListeners, NextVisit
     DEF RoutingInv
<1> QED BY <1>1, <1>2, PTL DEF RoutingSpec

\* A program never runs with a tunnel that config.go would refuse, or that
\* normalize.go would change once more, whatever the files say; and a visit goes
\* to a client.
THEOREM RoutingTypeOKAlways == RoutingSpec => []RoutingTypeOK
<1> DEFINE ListType == listed \in Lists /\ slip \in BOOLEAN
<1>1. RoutingInit => ListType
  BY DEF RoutingInit
<1>2. ASSUME RoutingInv, ListType, [RoutingNext]_routingVars PROVE ListType'
  <2>1. careless \in BOOLEAN
    BY <1>2 DEF RoutingInv, ListInv, Identifying!Inv, Identifying!TypeOK
  <2>2. UNCHANGED <<listed, slip>> \/ (UNCHANGED listed /\ slip' = (slip \/ careless))
    BY <1>2 DEF RoutingNext, ReadIdentifier, SubscribeListed, RunTunnel, ExitTunnel,
                AutoSubscribe, Connect, Disconnected, RoundTrip, Accept, Serve, VisitEnds,
                routingVars, tunneldVars
  <2> QED BY <1>2, <2>1, <2>2
<1>3. ASSUME RoutingInv, ListType PROVE RoutingTypeOK
  <2>1. Reading!TypeOK
    BY <1>3 DEF RoutingInv, ListInv, Identifying!Inv, Identifying!TypeOK, Reading!TypeOK
  <2>2. \A id \in Ids : \A t \in Tunnels(process[id]) : valid(t) /\ normalized(t) = t
    BY <1>3, ProgramTunnels, NoTunnels DEF RoutingInv, ProcessType
  <2>3. /\ visit.proto \in {"none", "http", "tcp"}
        /\ visit.to \in IF visit.proto = "none" THEN {Nobody} ELSE Ids
    BY <1>3 DEF RoutingInv, VisitInv
  <2> QED BY <1>3, <2>1, <2>2, <2>3 DEF RoutingTypeOK, RoutingInv, ListInv
<1> QED BY RoutingInductive, <1>1, <1>2, <1>3, PTL DEF RoutingSpec

-----------------------------------------------------------------------------
(* Where the client's proxies look for a target.                            *)

\* Whoever is found was under one of the keys, and before it nobody was.
LEMMA Found ==
  ASSUME NEW keys, NEW map, NEW s \in Targets(keys, map)
  PROVE  \E e \in map, i \in DOMAIN keys :
           e[2] = s /\ e[1] = keys[i] /\ \A j \in 1 .. i - 1 : keys[j] \notin Keys(map)
BY DEF Targets

\* Somebody is found if any of the keys, of which there are four at most, is
\* there.
LEMMA AnyKeyIsEnough ==
  ASSUME NEW n \in 1 .. 4, NEW keys, DOMAIN keys = 1 .. n, NEW map,
         NEW k \in 1 .. n, keys[k] \in Keys(map)
  PROVE  Targets(keys, map) # {}
<1> DEFINE Has(j) == keys[j] \in Keys(map)
<1>1. \E i \in 1 .. n : Has(i) /\ \A j \in 1 .. i - 1 : ~Has(j)
  <2> HIDE DEF Has
  <2>1. Has(k)
    BY DEF Has
  <2>2. CASE n >= 1 /\ Has(1)
    BY <2>2
  <2>3. CASE n >= 2 /\ ~Has(1) /\ Has(2)
    BY <2>3
  <2>4. CASE n >= 3 /\ ~Has(1) /\ ~Has(2) /\ Has(3)
    BY <2>4
  <2>5. CASE n >= 4 /\ ~Has(1) /\ ~Has(2) /\ ~Has(3) /\ Has(4)
    BY <2>5
  <2>6. k \in {1, 2, 3, 4} /\ k <= n
    OBVIOUS
  <2> QED BY <2>1, <2>2, <2>3, <2>4, <2>5, <2>6
<1>2. PICK i \in 1 .. n : Has(i) /\ \A j \in 1 .. i - 1 : ~Has(j)
  BY <1>1
<1>3. PICK e \in map : e[1] = keys[i]
  BY <1>2 DEF Keys
<1> QED BY <1>2, <1>3 DEF Targets

\* The keys, one by one: the whole text comes first, and without a port there
\* is no other.
LEMMA URLKeys ==
  ASSUME NEW h
  PROVE  LET keys == urlKeys(h)
         IN  \/ h.port = NoPort /\ DOMAIN keys = 1 .. 1 /\ keys[1] = h
             \/ /\ h.port # NoPort /\ DOMAIN keys = 1 .. 3 /\ keys[1] = h
                /\ keys[2] = Text(h.port) /\ keys[3] = Text(h.host)
BY DEF urlKeys

LEMMA AddrKeys ==
  ASSUME NEW h
  PROVE  LET keys == addrKeys(h)
         IN  \/ h.port = NoPort /\ DOMAIN keys = 1 .. 1 /\ keys[1] = h
             \/ /\ h.port # NoPort /\ DOMAIN keys = 1 .. 4 /\ keys[1] = h
                /\ keys[2] = Text(h.port)
                /\ keys[3] = [host |-> Wildcard, port |-> h.port]
                /\ keys[4] = Text(h.host)
BY DEF addrKeys

LEMMA URLFound ==
  ASSUME NEW m, NEW h, NEW t \in Tunnels(m), t.Protocol = "http",
         \/ t.Host = h
         \/ h.port # NoPort /\ t.Host = Text(h.host)
  PROVE  TargetsOf(m, "http", h) # {}
<1>1. t.Host \in Keys(httpURL(m))
  <2>1. <<t.Host, t.Addr>> \in httpURL(m)
    BY DEF httpURL
  <2> QED BY <2>1 DEF Keys
<1>2. Targets(urlKeys(h), httpURL(m)) # {}
  BY <1>1, URLKeys, AnyKeyIsEnough
<1> QED BY <1>2 DEF TargetsOf

LEMMA AddrFound ==
  ASSUME NEW m, NEW h, NEW t \in Tunnels(m), t.Protocol # "http",
         \/ keysOf(t) = h
         \/ h.port # NoPort /\ keysOf(t) = [host |-> Wildcard, port |-> h.port]
  PROVE  TargetsOf(m, "tcp", h) # {}
<1>1. keysOf(t) \in Keys(tcpAddr(m))
  <2>1. <<keysOf(t), t.Addr>> \in tcpAddr(m)
    BY DEF tcpAddr
  <2> QED BY <2>1 DEF Keys
<1>2. Targets(addrKeys(h), tcpAddr(m)) # {}
  <2>1. CASE h.port = NoPort
    <3>1. DOMAIN addrKeys(h) = 1 .. 1 /\ addrKeys(h)[1] = keysOf(t)
      BY <2>1, AddrKeys
    <3>2. 1 \in 1 .. 4 /\ 1 \in 1 .. 1
      OBVIOUS
    <3> QED BY <1>1, <3>1, <3>2, AnyKeyIsEnough
  <2>2. CASE h.port # NoPort
    <3>1. DOMAIN addrKeys(h) = 1 .. 4 /\ \E k \in {1, 3} : addrKeys(h)[k] = keysOf(t)
      BY <2>2, AddrKeys
    <3>2. 4 \in 1 .. 4 /\ {1, 3} \subseteq 1 .. 4
      OBVIOUS
    <3> QED BY <1>1, <3>1, <3>2, AnyKeyIsEnough
  <2> QED BY <2>1, <2>2
<1> QED BY <1>2 DEF TargetsOf

\* The listeners that a program gets: one on a number of a network and a port, or
\* one of the muxer's under a name without a port.
LEMMA ListenerNames ==
  ASSUME NEW l \in ProgramListeners
  PROVE  \/ /\ l.network = "tcp" /\ isAddr(l.name) /\ l.name.port \in Ports
            /\ \E p \in TCPs : \E h \in DOMAIN Numbers[p] : l.name.host = Numbers[p][h]
         \/ l = [network |-> "sni", name |-> Text(l.name.host)]
<1>1. PICK m \in Programs : /\ \A t \in Tunnels(m) : HasNumber(t)
                            /\ \E given \in PortsFor(m) : l \in ItemFor(m, given).Listeners
  BY DEF ProgramListeners, ProgramItems
<1>2. PICK given \in PortsFor(m) : l \in ItemFor(m, given).Listeners
  BY <1>1
<1>3. PICK n \in listening(m) : l = Listener(m[n], given[n])
  BY <1>2 DEF ItemFor
<1> DEFINE t == m[n]
<1>4. /\ t \in Tunnels(m) /\ t.Protocol # "http" /\ HasNumber(t)
      /\ given[n] \in Ports /\ l = Listener(t, given[n])
  BY <1>1, <1>3 DEF listening, Tunnels, PortsFor
<1> HIDE DEF t
<1>5. CASE t.Protocol \in TCPs
  <2>1. t.RemoteAddr.port \in Ports \cup {AnyPort}
    BY <1>4, <1>5, ProgramProtocols DEF TCPs, isAddr
  <2>2. l = [network |-> "tcp", name |-> listenAddr(t, given[n])]
    BY <1>4, <1>5 DEF Listener, TCPs
  <2>3. t.RemoteAddr.host \in DOMAIN Numbers[t.Protocol]
    BY <1>4, <1>5 DEF HasNumber
  <2>4. isAddr(l.name) /\ l.name.port \in Ports
    BY <1>4, <2>1, <2>2 DEF listenAddr, isAddr
  <2>5. l.name.host = Numbers[t.Protocol][t.RemoteAddr.host]
    BY <2>2 DEF listenAddr
  <2> QED BY <1>5, <2>2, <2>3, <2>4, <2>5
<1>6. CASE t.Protocol = "sni"
  BY <1>4, <1>6 DEF Listener, TCPs, Text
<1> QED BY <1>4, <1>5, <1>6, ProgramProtocols

\* An exact name goes before all patterns, and no two clients have one name.
LEMMA LedToHolder ==
  ASSUME ListenersInv, NEW id \in DOMAIN items, NEW host,
         [network |-> "sni", name |-> Text(muxName(host))] \in items[id].Listeners
  PROVE  LedTo(host) = {id}
<1> DEFINE l == [network |-> "sni", name |-> Text(muxName(host))]
<1>1. l.network = "sni" /\ l.name.host = muxName(host)
  BY DEF Text
<1>2. muxName(host) \in muxed
  BY <1>1 DEF muxed
<1>3. muxGet(muxName(host)) = {muxName(host)}
  BY <1>2 DEF muxGet
<1>4. id \in LedTo(host)
  BY <1>1, <1>3 DEF LedTo
<1>5. ASSUME NEW k \in LedTo(host) PROVE k = id
  <2>1. PICK o \in items[k].Listeners : o.network = "sni" /\ o.name.host = muxName(host)
    BY <1>3 DEF LedTo
  <2>2. k \in DOMAIN items
    BY DEF LedTo
  <2>3. o = l
    BY <2>1, <2>2, ListenerNames DEF ListenersInv
  <2> QED BY <2>1, <2>2, <2>3 DEF ListenersInv
<1> QED BY <1>4, <1>5

\* What tunneld has taken for a client, the program that asked for it serves,
\* with any files, names of hosts and ports: each host under any port, each
\* listener on all addresses or on a number under the name that the operating
\* system gives it, and each SNI host for a user who sends it as it was configured.
THEOREM TakenIsServedAlways == RoutingSpec => []TakenIsServed
<1>1. ASSUME RoutingInv, NEW id \in DOMAIN items, Taken(id), NEW t \in Tunnels(process[id])
      PROVE  /\ t.Protocol = "http" /\ t.Host.port = NoPort =>
                  \A p \in Ports \cup {NoPort} :
                    TargetsOf(process[id], "http", [t.Host EXCEPT !.port = p]) # {}
             /\ t.Protocol \in TCPs /\ NamedAlike(t) =>
                  \A given \in Ports : TargetsOf(process[id], "tcp", listenAddr(t, given)) # {}
             /\ t.Protocol = "sni" /\ t.Host.port = NoPort =>
                  LedTo(t.Host.host) = {id} /\ TargetsOf(process[id], "tcp", t.Host) # {}
  <2> DEFINE m == process[id]
  <2>1. m \in Programs
    <3>1. id \in Ids
      BY <1>1 DEF RoutingInv, OwnedInv, RouteInv, TypeOK
    <3> QED BY <1>1, <3>1, NoTunnels DEF RoutingInv, ProcessType
  <2>2. PICK given \in PortsFor(m) : items[id] = ItemFor(m, given)
    BY <1>1 DEF Taken
  <2>3. ListenersInv
    BY <1>1 DEF RoutingInv
  <2>4. t \in Tunnels(m)
    BY <1>1
  <2> HIDE DEF m
  <2>5. /\ isAddr(t.Host) /\ isAddr(t.RemoteAddr)
        /\ t.Protocol \in TCPs => t.RemoteAddr.port # NoPort
    BY <2>1, <2>4, ProgramProtocols DEF TCPs
  <2>6. ASSUME t.Protocol = "http", t.Host.port = NoPort, NEW p \in Ports \cup {NoPort}
        PROVE  TargetsOf(m, "http", [t.Host EXCEPT !.port = p]) # {}
    <3>1. /\ t.Host = [host |-> t.Host.host, port |-> NoPort]
          /\ [t.Host EXCEPT !.port = p] = [host |-> t.Host.host, port |-> p]
      BY <2>5, <2>6 DEF isAddr
    <3>2. TargetsOf(m, "http", [host |-> t.Host.host, port |-> p]) # {}
      BY <2>4, <2>6, <3>1, URLFound DEF Text
    <3> QED BY <3>1, <3>2
  <2>7. ASSUME t.Protocol \in TCPs, NamedAlike(t), NEW port \in Ports
        PROVE  TargetsOf(m, "tcp", listenAddr(t, port)) # {}
    <3>1. listenAddr(t, port) = [host |-> Numbers[t.Protocol][t.RemoteAddr.host],
                                 port |-> t.RemoteAddr.port]
      BY <2>7 DEF listenAddr, NamedAlike
    <3>2. \/ t.RemoteAddr = listenAddr(t, port)
          \/ t.RemoteAddr = [host |-> Wildcard, port |-> t.RemoteAddr.port]
      BY <2>5, <2>7, <3>1 DEF NamedAlike, isAddr
    <3>3. listenAddr(t, port).port = t.RemoteAddr.port /\ t.RemoteAddr.port # NoPort
      BY <2>5, <2>7, <3>1
    <3> QED BY <2>4, <2>7, <3>2, <3>3, AddrFound DEF keysOf, TCPs
  <2>8. ASSUME t.Protocol = "sni", t.Host.port = NoPort
        PROVE  LedTo(t.Host.host) = {id} /\ TargetsOf(m, "tcp", t.Host) # {}
    <3>1. PICK n \in DOMAIN m : t = m[n]
      BY <2>4 DEF Tunnels
    <3>2. n \in listening(m)
      BY <2>8, <3>1 DEF listening
    <3>3. Listener(m[n], given[n]) \in items[id].Listeners
      BY <2>2, <3>2 DEF ItemFor
    <3>4. Listener(m[n], given[n]) = [network |-> "sni", name |-> Text(muxName(t.Host.host))]
      BY <2>8, <3>1 DEF Listener, TCPs
    <3>5. LedTo(t.Host.host) = {id}
      BY <2>3, <3>3, <3>4, LedToHolder
    <3>6. TargetsOf(m, "tcp", t.Host) # {}
      BY <2>4, <2>8, AddrFound DEF keysOf, TCPs
    <3> QED BY <3>5, <3>6
  <2> QED BY <2>6, <2>7, <2>8 DEF m
<1>2. RoutingInv => TakenIsServed
  BY <1>1 DEF TakenIsServed
<1> QED BY RoutingInductive, <1>2, PTL

LEMMA RightURL ==
  ASSUME NEW m \in Programs, NEW v, v.proto = "http", NEW s \in TargetsOf(m, "http", v.host)
  PROVE  \E t \in Tunnels(m) :
           /\ t.Addr = s
           /\ Names(t, v)
           /\ (\E u \in Tunnels(m) : u.Host = v.host /\ Names(u, v)) => t.Host = v.host
<1> DEFINE keys == urlKeys(v.host)
<1>1. PICK e \in httpURL(m), i \in DOMAIN keys :
        /\ e[2] = s /\ e[1] = keys[i]
        /\ \A j \in 1 .. i - 1 : keys[j] \notin Keys(httpURL(m))
  <2>1. s \in Targets(keys, httpURL(m))
    BY DEF TargetsOf
  <2> HIDE DEF keys
  <2> QED BY <2>1, Found
<1>2. PICK t \in Tunnels(m) : t.Protocol = "http" /\ e = <<t.Host, t.Addr>>
  BY <1>1 DEF httpURL
<1>3. t.Addr = s /\ t.Host = keys[i]
  BY <1>1, <1>2
<1>4. keys[1] = v.host /\ i \in 1 .. 3
      /\ keys[i] \in {v.host, Text(v.host.port), Text(v.host.host)}
  BY <1>1, URLKeys
<1>5. Names(t, v)
  BY <1>2, <1>3, <1>4 DEF Names, TCPs
<1>6. ASSUME NEW u \in Tunnels(m), u.Host = v.host, Names(u, v) PROVE t.Host = v.host
  <2>1. u.Protocol = "http"
    BY <1>6, ProgramProtocols DEF Names
  <2>2. <<u.Host, u.Addr>> \in httpURL(m)
    BY <2>1 DEF httpURL
  <2>3. keys[1] \in Keys(httpURL(m))
    BY <1>4, <1>6, <2>2 DEF Keys
  <2> HIDE DEF keys
  <2>4. i = 1
    BY <1>1, <1>4, <2>3
  <2> QED BY <1>3, <1>4, <2>4
<1> QED BY <1>3, <1>5, <1>6

LEMMA RightAddr ==
  ASSUME SNIHostsAreNames, NEW m \in Programs, NEW v, v.proto = "tcp",
         \/ \E l \in ProgramListeners : l.network = "tcp" /\ v.host = l.name
         \/ \E name \in ServerNames : v.host = Text(name),
         NEW s \in TargetsOf(m, "tcp", v.host)
  PROVE  \E t \in Tunnels(m) :
           /\ t.Addr = s
           /\ Names(t, v)
           /\ (\E u \in Tunnels(m) : u.Host = v.host /\ Names(u, v)) => t.Host = v.host
<1> DEFINE keys == addrKeys(v.host)
<1>1. PICK e \in tcpAddr(m), i \in DOMAIN keys :
        /\ e[2] = s /\ e[1] = keys[i]
        /\ \A j \in 1 .. i - 1 : keys[j] \notin Keys(tcpAddr(m))
  <2>1. s \in Targets(keys, tcpAddr(m))
    BY DEF TargetsOf
  <2> HIDE DEF keys
  <2> QED BY <2>1, Found
<1>2. PICK t \in Tunnels(m) : t.Protocol # "http" /\ e = <<keysOf(t), t.Addr>>
  BY <1>1 DEF tcpAddr
<1>3. t.Addr = s /\ keysOf(t) = keys[i]
  BY <1>1, <1>2
\* A name that a user sent is a single key, and only an SNI tunnel has it.
<1>4. CASE \E name \in ServerNames : v.host = Text(name)
  <2>1. v.host.port = NoPort
    BY <1>4 DEF Text
  <2>2. keysOf(t) = v.host
    <3>1. i \in 1 .. 1 /\ keys[1] = v.host
      BY <1>1, <2>1, AddrKeys
    <3> HIDE DEF keys
    <3> QED BY <1>3, <3>1
  <2>3. t.Protocol \notin TCPs
    BY <2>1, <2>2, ProgramProtocols DEF keysOf, TCPs
  <2>4. t.Protocol = "sni"
    BY <1>2, <2>3, ProgramProtocols
  <2> QED BY <1>3, <2>2, <2>4 DEF keysOf, Names, TCPs
\* A visit of a listener leads to a tunnel that listens there, for the names of
\* SNI tunnels are none of its keys; nor has it the host of any.
<1>5. CASE \E l \in ProgramListeners : l.network = "tcp" /\ v.host = l.name
  <2>1. /\ isAddr(v.host) /\ v.host.port \in Ports
        /\ \E p \in TCPs : \E h \in DOMAIN Numbers[p] : v.host.host = Numbers[p][h]
    BY <1>5, ListenerNames
  <2>2. v.host.port # NoPort
    BY <2>1, HostsAssumption
  <2>3. /\ i \in 1 .. 4 /\ keys[1] = v.host /\ keys[2] = Text(v.host.port)
        /\ keys[3] = [host |-> Wildcard, port |-> v.host.port] /\ keys[4] = Text(v.host.host)
    BY <1>1, <2>2, AddrKeys
  <2>4. keysOf(t) \in {v.host, Text(v.host.port), [host |-> Wildcard, port |-> v.host.port],
                       Text(v.host.host)}
    <3> HIDE DEF keys
    <3> QED BY <1>3, <2>3
  <2>5. \A u \in Tunnels(m) : u.Protocol = "sni" =>
          u.Host.host \notin {v.host.host, v.host.port, Wildcard}
    BY <2>1 DEF SNIHostsAreNames
  <2>6. t.Protocol \in TCPs /\ t.RemoteAddr.port # NoPort
    <3>1. t.Protocol # "sni"
      BY <2>4, <2>5 DEF keysOf, TCPs, Text
    <3> QED BY <1>2, <3>1, ProgramProtocols DEF TCPs
  <2>7. t.RemoteAddr \in {v.host, [v.host EXCEPT !.host = Wildcard]}
    <3>1. [v.host EXCEPT !.host = Wildcard] = [host |-> Wildcard, port |-> v.host.port]
      BY <2>1 DEF isAddr
    <3> QED BY <2>4, <2>6, <3>1 DEF keysOf, Text
  <2>8. ASSUME NEW u \in Tunnels(m), u.Host = v.host, Names(u, v) PROVE FALSE
    <3>1. u.Protocol # "http"
      BY <2>8 DEF Names, TCPs
    <3>2. u.Protocol # "sni"
      BY <2>5, <2>8
    <3>3. u.Host.port = NoPort
      BY <3>1, <3>2, ProgramProtocols DEF NoText, Text
    <3> QED BY <2>2, <2>8, <3>3
  <2> QED BY <1>3, <2>6, <2>7, <2>8 DEF Names, TCPs
<1> QED BY <1>4, <1>5

\* A visit never reaches a service that is for another host, address or
\* protocol, with any files, whichever of them the client was started with when
\* the visit began and when it arrives, as long as the hosts of SNI tunnels are
\* names of hosts.
THEOREM RightTunnelAlways == ASSUME SNIHostsAreNames PROVE RoutingSpec => []RightTunnel
<1>1. ASSUME RoutingInv PROVE RightTunnel
  <2> SUFFICES ASSUME NEW id \in Ids, process[id] # NoProcess, visit.to = id,
                      NEW s \in TargetsOf(process[id], visit.proto, visit.host)
               PROVE  \E t \in Tunnels(process[id]) :
                        /\ t.Addr = s
                        /\ Names(t, visit)
                        /\ (\E u \in Tunnels(process[id]) :
                              u.Host = visit.host /\ Names(u, visit)) => t.Host = visit.host
    BY DEF RightTunnel
  <2>1. process[id] \in Programs
    BY <1>1 DEF RoutingInv, ProcessType
  <2>2. CASE visit.proto = "http"
    <3>1. s \in TargetsOf(process[id], "http", visit.host)
      BY <2>2
    <3> QED BY <2>1, <2>2, <3>1, RightURL
  <2>3. CASE /\ visit.proto = "tcp"
             /\ \/ \E l \in ProgramListeners : l.network = "tcp" /\ visit.host = l.name
                \/ \E name \in ServerNames : visit.host = Text(name)
    <3>1. s \in TargetsOf(process[id], "tcp", visit.host)
      BY <2>3
    <3> QED BY <2>1, <2>3, <3>1, RightAddr
  <2>4. visit.proto # "none"
    BY <1>1, SentinelAssumption DEF RoutingInv, VisitInv
  <2> QED BY <1>1, <2>2, <2>3, <2>4 DEF RoutingInv, VisitInv
<1> QED BY RoutingInductive, <1>1, PTL

=============================================================================
