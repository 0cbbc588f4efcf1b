------------------------------- MODULE Routing -------------------------------
(***************************************************************************)
(* From the operators' settings to the service an end user reaches: the    *)
(* identifiers given to tunneld (tunneld.go), the configuration file that  *)
(* tunnel loads (config.go, normalize.go), what of it goes to the server   *)
(* (tunnels in tunnel.go, addTunnels in server.go) and what stays with the *)
(* client's proxies (proxy in tunnel.go, localAddrFor, localURLFor), and   *)
(* the control message that leads from one to the other.                   *)
(*                                                                         *)
(* An end user's visit goes through the registry when it comes in and      *)
(* through the client's maps when it arrives there; a client may stop, and *)
(* start with another configuration, in between.                           *)
(***************************************************************************)
EXTENDS Registry, Luhn

CONSTANTS
  Loopback,    \* 127.0.0.1
  Wildcard,    \* 0.0.0.0
  AnyPort,     \* port 0, for which the operating system chooses one
  Numbers,     \* by network, the number under which it listens on a host
  LowerCase,   \* hosts that have capital letters, without them
  Patterns,    \* wildcard names for a host, the narrowest first
  ServerNames, \* the names that end users send by SNI
  Lists,       \* sets of identifiers that -clients may name, {} for no flag
  Files,       \* configuration files: tunnels by name
  BadURLs      \* addresses that normalizeURL refuses

VARIABLES
  listed,      \* the identifiers in -clients
  toRead,      \* those that tunneld has not read
  slip,        \* it has accepted two mistakes in one chunk
  status, chunk, pos, factor, written, sum, wrong, differs, careless,
  process,     \* tunnels that the tunnel program of a client runs with, by name
  visit        \* an end user's connection or request

TCPs == {"tcp", "tcp4", "tcp6"}

\* The names of hosts and ports are told apart; a tunnel of a file has the
\* fields of config.go's Tunnel, and an address has a host and a port.
isAddr(a) == a = [host |-> a.host, port |-> a.port] /\ a.port \in Ports \cup {AnyPort, NoPort}
isTunnel(t) ==
  /\ t = [Protocol |-> t.Protocol, Host |-> t.Host, Auth |-> t.Auth, Addr |-> t.Addr,
          RemoteAddr |-> t.RemoteAddr]
  /\ isAddr(t.Host) /\ isAddr(t.Addr) /\ isAddr(t.RemoteAddr)

ASSUME HostsAssumption ==
  /\ NoPort \notin Ports \cup {AnyPort} /\ AnyPort \notin Ports
  /\ Loopback \notin Ports \cup {AnyPort, NoHost}
ASSUME NumbersAssumption == DOMAIN Numbers = TCPs
ASSUME FilesAssumption == \A file \in Files : \A n \in DOMAIN file : isTunnel(file[n])

Reading == INSTANCE Identifiers

registryVars == <<items, hosts>>
readingVars == <<status, chunk, pos, factor, written, sum, wrong, differs, careless>>
tunneldVars == <<listed, toRead, slip, readingVars>>
routingVars == <<registryVars, tunneldVars, process, visit>>

Text(host) == [host |-> host, port |-> NoPort]
NoText == Text(NoHost)

NoProcess == <<>>
NoVisit == [to |-> Nobody, proto |-> "none", host |-> NoText, service |-> NoText]

RoutingInit ==
  /\ Init
  /\ listed \in Lists
  /\ toRead = listed
  /\ slip = FALSE
  /\ Reading!Init
  /\ process = [id \in Ids |-> NoProcess]
  /\ visit = NoVisit

-----------------------------------------------------------------------------
(* tunneld *)

ReadIdentifier ==
  /\ toRead # {}
  /\ Reading!Next
  /\ UNCHANGED <<registryVars, listed, toRead, slip, process, visit>>

\* A text with mistakes in it that is accepted names some other identifier.
\* One that is refused is fatal.
SubscribeListed ==
  /\ status = "accepted"
  /\ \E id \in toRead :
       /\ toRead' = toRead \ {id}
       /\ \E read \in Ids : (read = id <=> ~differs) /\ Subscribe(read)
  /\ slip' = (slip \/ careless)
  /\ status' = "reading" /\ chunk' = 0 /\ pos' = 0 /\ factor' = FirstFactor
  /\ written' = 0 /\ sum' = 0 /\ wrong' = 0 /\ differs' = FALSE /\ careless' = FALSE
  /\ UNCHANGED <<listed, process, visit>>

Serving == toRead = {}
autoSubscribe == listed = {}

-----------------------------------------------------------------------------
(* tunnel: the configuration *)

isPort(addr) == addr.host \in Ports \cup {AnyPort} /\ addr.port = NoPort

\* Of the result, one without a port stands for the error.
normalizeAddress(addr) ==
  IF isPort(addr) THEN [host |-> Loopback, port |-> addr.host]
  ELSE IF addr.host = NoHost THEN [addr EXCEPT !.host = Loopback]
  ELSE addr

isAddress(addr) == normalizeAddress(addr).port # NoPort

validateHTTP(t) ==
  /\ t.Host # NoText
  /\ t.Addr # NoText /\ t.Addr \notin BadURLs
  /\ t.RemoteAddr = NoText

validateTCP(t) ==
  /\ isAddress(t.RemoteAddr) /\ isAddress(t.Addr) /\ t.Addr # NoText
  /\ t.Host = NoText /\ t.Auth = NoAuth

validateSNI(t) ==
  /\ t.Host # NoText
  /\ isAddress(t.Addr) /\ t.Addr # NoText
  /\ t.RemoteAddr = NoText /\ t.Auth = NoAuth

valid(t) ==
  CASE t.Protocol = "http" -> validateHTTP(t)
    [] t.Protocol \in TCPs -> validateTCP(t)
    [] t.Protocol = "sni" -> validateSNI(t)
    [] OTHER -> FALSE

normalized(t) ==
  CASE t.Protocol = "http" -> t
    [] t.Protocol \in TCPs -> [t EXCEPT !.RemoteAddr = normalizeAddress(@),
                                        !.Addr = normalizeAddress(@)]
    [] t.Protocol = "sni" -> [t EXCEPT !.Addr = normalizeAddress(@)]

\* (Variant: nothing is validated.)
LoadAny(file) == TRUE

loads(file) == \A n \in DOMAIN file : valid(file[n])

\* The tunnels that are named in the command, or all.
ProgramsOf(file) ==
  {[n \in names |-> normalized(file[n])] : names \in SUBSET DOMAIN file \ {{}}}

\* The commands start and start-all.
RunTunnel(id) ==
  /\ process[id] = NoProcess
  /\ \E file \in Files :
       /\ loads(file)
       /\ \E m \in ProgramsOf(file) : process' = [process EXCEPT ![id] = m]
  /\ UNCHANGED <<registryVars, tunneldVars, visit>>

\* Start returned an error, or the operator stopped it.
ExitTunnel(id) ==
  /\ process[id] # NoProcess
  /\ process' = [process EXCEPT ![id] = NoProcess]
  /\ UNCHANGED <<registryVars, tunneldVars, visit>>

-----------------------------------------------------------------------------
(* The server's side of a tunnel *)

\* The name of a listener.  Of one of the server's own, l.Addr() says where it
\* listens: hosts are numbers there, and an open port is the one given.  The SNI
\* muxer knows a host without its port and in lower case.
listenAddr(t, given) ==
  [host |-> Numbers[t.Protocol][t.RemoteAddr.host],
   port |-> IF t.RemoteAddr.port = AnyPort THEN given ELSE t.RemoteAddr.port]

muxName(host) == IF host \in DOMAIN LowerCase THEN LowerCase[host] ELSE host

Listener(t, given) ==
  CASE t.Protocol \in TCPs -> [network |-> "tcp", name |-> listenAddr(t, given)]
    [] t.Protocol = "sni" -> [network |-> "sni", name |-> Text(muxName(t.Host.host))]

Tunnels(m) == {m[n] : n \in DOMAIN m}

listening(m) == {n \in DOMAIN m : m[n].Protocol # "http"}

\* A network cannot listen on every host: tcp6 has no 0.0.0.0.
HasNumber(t) == t.Protocol \in TCPs => t.RemoteAddr.host \in DOMAIN Numbers[t.Protocol]

\* The RegistryItem that addTunnels builds, with the ports given to listeners.
ItemFor(m, given) ==
  [Hosts |-> {[Host |-> t.Host, Auth |-> t.Auth] : t \in {u \in Tunnels(m) : u.Protocol = "http"}},
   Listeners |-> {Listener(m[n], given[n]) : n \in listening(m)}]

PortsFor(m) == [listening(m) -> Ports]

ASSUME ProgramsAssumption ==
  \A file \in Files : loads(file) => \A m \in ProgramsOf(file) :
    (\A t \in Tunnels(m) : HasNumber(t)) =>
      \A given \in PortsFor(m) : ItemFor(m, given) \in Requests

\* net.Listen, or the muxer's Listen, succeeds for each tunnel of the batch: not
\* twice under one name.  Whether it does next to a listener on all addresses is
\* left open; that depends on the networks and the operating system.
CanListen(m, given) ==
  /\ \A n \in listening(m) : HasNumber(m[n])
  /\ \A n, k \in listening(m) : n # k => Listener(m[n], given[n]) # Listener(m[k], given[k])
  /\ \A n \in listening(m), id \in DOMAIN items :
       Listener(m[n], given[n]) \notin items[id].Listeners

AutoSubscribe(id) ==
  /\ Serving /\ autoSubscribe
  /\ process[id] # NoProcess
  /\ Subscribe(id)
  /\ UNCHANGED <<tunneldVars, process, visit>>

\* The handshake.  When it fails, nothing is left of it.
Connect(id) ==
  /\ Serving
  /\ process[id] # NoProcess
  /\ \E given \in PortsFor(process[id]) :
       CanListen(process[id], given) /\ Set(ItemFor(process[id], given), id)
  /\ UNCHANGED <<tunneldVars, process, visit>>

Disconnected(id) ==
  /\ Serving
  /\ Clear(id)
  /\ UNCHANGED <<tunneldVars, process, visit>>

\* RoundTrip: the visit goes to the client that the registry names, if the
\* user has given the credentials.
RoundTrip ==
  /\ visit = NoVisit
  /\ \E hostPort \in HostPort, auth \in Auths \cup {NoAuth} :
       /\ HasSubscriber(hostPort)
       /\ Subscriber(hostPort).auth \in {NoAuth, auth}
       /\ visit' = [to |-> Subscriber(hostPort).identifier, proto |-> "http",
                    host |-> hostPort, service |-> NoText]
  /\ UNCHANGED <<registryVars, tunneldVars, process>>

\* What the muxer finds for a name that a user sent: a host, or the narrowest
\* wildcard name that covers it.
muxed == {l.name.host : l \in {k \in UNION {items[id].Listeners : id \in DOMAIN items} :
                                 k.network = "sni"}}

muxGet(name) ==
  IF name \in muxed THEN {name}
  ELSE {Patterns[name][i] : i \in {j \in DOMAIN Patterns[name] :
          Patterns[name][j] \in muxed /\ \A k \in 1 .. j - 1 : Patterns[name][k] \notin muxed}}

\* The clients to whose listener the muxer leads a user.
LedTo(name) ==
  {id \in DOMAIN items : \E l \in items[id].Listeners :
     l.network = "sni" /\ l.name.host \in muxGet(muxName(name))}

\* listen: the network of both kinds of listener is "tcp".  The server names
\* the listener to the client, or the host that the user has sent, as it is.
Accept ==
  /\ visit = NoVisit
  /\ \/ \E id \in DOMAIN items : \E l \in items[id].Listeners :
          /\ l.network = "tcp"
          /\ visit' = [to |-> id, proto |-> "tcp", host |-> l.name, service |-> NoText]
     \/ \E name \in ServerNames : \E id \in LedTo(name) :
          visit' = [to |-> id, proto |-> "tcp", host |-> Text(name), service |-> NoText]
  /\ UNCHANGED <<registryVars, tunneldVars, process>>

-----------------------------------------------------------------------------
(* The client's side of a tunnel *)

\* The entries of httpURL and tcpAddr.  When two tunnels have one key, the
\* order of a Go map decides which of them stays.
keysOf(t) == IF t.Protocol \in TCPs THEN t.RemoteAddr ELSE t.Host
httpURL(m) == {<<t.Host, t.Addr>> : t \in {u \in Tunnels(m) : u.Protocol = "http"}}
tcpAddr(m) == {<<keysOf(t), t.Addr>> : t \in {u \in Tunnels(m) : u.Protocol # "http"}}

Keys(map) == {entry[1] : entry \in map}

\* (Variants: the port comes first; a listener on 0.0.0.0 is looked for under
\* the name it has.)
urlKeysPortFirst(h) ==
  IF h.port = NoPort THEN <<h>> ELSE <<Text(h.port), h, Text(h.host)>>
addrKeysAsListened(h) ==
  IF h.port = NoPort THEN <<h>> ELSE <<h, Text(h.port), Text(h.host)>>

\* The order in which localURLFor and localAddrFor look for ForwardedHost.
urlKeys(h) == IF h.port = NoPort THEN <<h>> ELSE <<h, Text(h.port), Text(h.host)>>
addrKeys(h) ==
  IF h.port = NoPort THEN <<h>>
  ELSE <<h, Text(h.port), [host |-> Wildcard, port |-> h.port], Text(h.host)>>

\* The services under the first of the keys that has any.
Targets(keys, map) ==
  {entry[2] : entry \in
     {e \in map : \E i \in DOMAIN keys :
        e[1] = keys[i] /\ \A j \in 1 .. i - 1 : keys[j] \notin Keys(map)}}

\* Proxy: by the protocol of the message, to the proxy for it.
TargetsOf(m, proto, host) ==
  IF proto = "http" THEN Targets(urlKeys(host), httpURL(m)) ELSE Targets(addrKeys(host), tcpAddr(m))

\* GetClientConn gives the connection that the client has now.
Serve ==
  /\ visit.service = NoText
  /\ visit.to \in Ids
  /\ \E s \in TargetsOf(process[visit.to], visit.proto, visit.host) :
       visit' = [visit EXCEPT !.service = s]
  /\ UNCHANGED <<registryVars, tunneldVars, process>>

\* Served, or refused: the client is gone or has no target.
VisitEnds ==
  /\ visit # NoVisit
  /\ visit' = NoVisit
  /\ UNCHANGED <<registryVars, tunneldVars, process>>

-----------------------------------------------------------------------------
RoutingNext ==
  \/ ReadIdentifier \/ SubscribeListed
  \/ \E id \in Ids :
       RunTunnel(id) \/ ExitTunnel(id) \/ AutoSubscribe(id) \/ Connect(id) \/ Disconnected(id)
  \/ RoundTrip \/ Accept \/ Serve \/ VisitEnds

RoutingSpec == RoutingInit /\ [][RoutingNext]_routingVars

-----------------------------------------------------------------------------
\* A program runs with tunnels that config.go accepts as they are, and a visit
\* that has reached a service came from the registry.
RoutingTypeOK ==
  /\ listed \in Lists /\ toRead \subseteq listed /\ slip \in BOOLEAN
  /\ Reading!TypeOK
  /\ \A id \in Ids : \A t \in Tunnels(process[id]) : valid(t) /\ normalized(t) = t
  /\ visit.proto \in {"none", "http", "tcp"}
  /\ visit.to \in IF visit.proto = "none" THEN {Nobody} ELSE Ids

\* With -clients, only a client that is listed is ever subscribed, and with it
\* served, if no identifier was given with two mistakes in one chunk: the check
\* digits find all others, and tunneld does not start with them.
SubscribedAreListed ==
  listed # {} /\ ~slip => DOMAIN items \subseteq listed

\* The tunnel is for what the user asked for.
Names(t, v) ==
  CASE t.Protocol = "http" ->
         v.proto = "http" /\ t.Host \in {v.host, Text(v.host.port), Text(v.host.host)}
    [] t.Protocol \in TCPs ->
         v.proto = "tcp" /\ t.RemoteAddr \in {v.host, [v.host EXCEPT !.host = Wildcard]}
    [] t.Protocol = "sni" -> v.proto = "tcp" /\ t.Host = v.host

\* What the programs may run with.
Programs == UNION {ProgramsOf(file) : file \in {f \in Files : loads(f)}}

\* The host of an SNI tunnel is the name of a host, neither a port nor the number
\* of a host.  The code takes any text, and looks a listener's host and port up
\* among such names.
SNIHostsAreNames ==
  \A m \in Programs : \A t \in Tunnels(m) :
    t.Protocol = "sni" =>
      /\ t.Host.host \notin Ports \cup {Wildcard}
      /\ \A p \in TCPs : \A h \in DOMAIN Numbers[p] : t.Host.host # Numbers[p][h]

\* A visit reaches a service only through a tunnel of the client that is for
\* the host or address that the user asked for, and for its protocol, though
\* the client may have been started with other tunnels while the visit was on
\* its way; and a tunnel for the host with its port goes before all others.
RightTunnel ==
  \A id \in Ids : process[id] # NoProcess /\ visit.to = id /\ visit.service = NoText =>
    \A s \in TargetsOf(process[id], visit.proto, visit.host) :
      \E t \in Tunnels(process[id]) :
        /\ t.Addr = s
        /\ Names(t, visit)
        /\ (\E u \in Tunnels(process[id]) : u.Host = visit.host /\ Names(u, visit)) =>
              t.Host = visit.host

\* The tunnels of the program are those that the server has taken for the client.
Taken(id) ==
  /\ \A t \in Tunnels(process[id]) : HasNumber(t)
  /\ \E given \in PortsFor(process[id]) : items[id] = ItemFor(process[id], given)

\* The operating system names a listener by what remote_addr says, or it listens
\* on all addresses.
NamedAlike(t) ==
  /\ t.RemoteAddr.port # AnyPort
  /\ t.RemoteAddr.host \in {Wildcard, Numbers[t.Protocol][t.RemoteAddr.host]}

\* What the server has taken for a client, the client serves, though the server
\* trims ports, names its listeners by the operating system and compares SNI names
\* in lower case and by patterns, and the client looks up what its configuration
\* says.  A host without a port has a target under any port; so has a listener on
\* a port, on all addresses or on a number; and a user who sends the host of an SNI
\* tunnel as it was configured, without a port, is led to this client, to nobody
\* else, and to a target.
TakenIsServed ==
  \A id \in DOMAIN items : Taken(id) =>
    \A t \in Tunnels(process[id]) :
      /\ t.Protocol = "http" /\ t.Host.port = NoPort =>
           \A p \in Ports \cup {NoPort} :
             TargetsOf(process[id], "http", [t.Host EXCEPT !.port = p]) # {}
      /\ t.Protocol \in TCPs /\ NamedAlike(t) =>
           \A given \in Ports : TargetsOf(process[id], "tcp", listenAddr(t, given)) # {}
      /\ t.Protocol = "sni" /\ t.Host.port = NoPort =>
           LedTo(t.Host.host) = {id} /\ TargetsOf(process[id], "tcp", t.Host) # {}

=============================================================================
