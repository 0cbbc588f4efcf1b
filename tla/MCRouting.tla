------------------------------ MODULE MCRouting ------------------------------
(* Two clients that share hosts and addresses; some of their tunnels have a *)
(* port, credentials, capital letters or a pattern, one file does not load.  *)
EXTENDS Routing

CONSTANTS c1, c2, a, p80, none, alice, noAuth, noUser, nobody,
          empty, loopback, localhost, wildcard, unspecified, bigA, star,
          s1, s2, s3, zero, x

MCIds == {c1, c2}
MCHostNames == {a, p80}
MCPorts == {p80}
MCLists == {{}, {c1}}
MCLookAlikes == [c \in {zero} |-> 1]

At(host, port) == [host |-> host, port |-> port]

HTTP(host, auth, addr) ==
  [Protocol |-> "http", Host |-> host, Auth |-> auth, Addr |-> addr, RemoteAddr |-> Text(empty)]
TCP(protocol, remote, addr) ==
  [Protocol |-> protocol, Host |-> Text(empty), Auth |-> noAuth, Addr |-> addr, RemoteAddr |-> remote]
SNI(host, addr) ==
  [Protocol |-> "sni", Host |-> host, Auth |-> noAuth, Addr |-> addr, RemoteAddr |-> Text(empty)]

Plain == HTTP(Text(a), noAuth, Text(s1))
Guarded == HTTP(At(a, p80), alice, Text(s2))
ByPort == HTTP(Text(p80), noAuth, Text(s3))
Userless == HTTP(Text(a), noUser, Text(s1))
Public == TCP("tcp", At(wildcard, p80), Text(p80))
Public6 == TCP("tcp6", At(wildcard, p80), Text(p80))
AnyLocal == TCP("tcp4", At(localhost, zero), Text(p80))
Virtual == SNI(Text(a), At(empty, p80))
Capital == SNI(Text(bigA), At(s1, p80))
Star == SNI(Text(star), At(s2, p80))
NoRemotePort == TCP("tcp", Text(wildcard), Text(p80))

Alone(t) == [n \in {"one"} |-> t]
File(t, u) == [n \in {"one", "two"} |-> IF n = "one" THEN t ELSE u]

MCFiles ==
  {File(Plain, Guarded), File(Guarded, ByPort), File(Virtual, Capital),
   Alone(Userless), Alone(Star), Alone(Public), Alone(AnyLocal), Alone(Public6),
   Alone(NoRemotePort)}

MCBadURLs == {Text(x)}

\* A host name stands for a number, tcp listens on 0.0.0.0 as ::, and tcp6 not
\* at all.
MCNumbers ==
  LET numbers == [h \in {loopback, localhost, wildcard} |->
                    IF h = localhost THEN loopback ELSE h]
  IN  [p \in {"tcp", "tcp4", "tcp6"} |->
         CASE p = "tcp" -> [numbers EXCEPT ![wildcard] = unspecified]
           [] p = "tcp4" -> numbers
           [] p = "tcp6" -> [h \in {unspecified} |-> unspecified]]

MCLowerCase == [h \in {bigA} |-> a]
MCPatterns == [h \in {a} |-> <<star>>]
MCServerNames == {a, bigA}

MCListeners ==
  {[network |-> "tcp", name |-> At(h, p)] : h \in {loopback, wildcard, unspecified}, p \in {p80, none}}
    \cup {[network |-> "sni", name |-> Text(h)] : h \in {a, star}}

ASSUME NamesAssumption == SNIHostsAreNames

MCRequests ==
  UNION {{ItemFor(m, given) : given \in PortsFor(m)} :
           m \in {n \in Programs : \A t \in Tunnels(n) : HasNumber(t)}}
=============================================================================
