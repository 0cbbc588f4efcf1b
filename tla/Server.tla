------------------------------- MODULE Server -------------------------------
(***************************************************************************)
(* The control plane of the tunnel server: Server.handleClient and the     *)
(* operations of an embedding program (server.go), the pool of client      *)
(* connections (pool.go), and the registry (module Registry), from the     *)
(* moment a client connects until its tunnels are closed.                  *)
(*                                                                         *)
(* Each connection has two goroutines: its handler, which runs             *)
(* handleClient, and its reader, the read loop of its http2.ClientConn,    *)
(* which reports a dead connection to the pool.  An action is what one of  *)
(* them does between two points at which the others can notice: a lock it  *)
(* waits for, a message it waits for, or a listener it opens or closes.    *)
(***************************************************************************)
EXTENDS Functions

CONSTANTS
  Conns,          \* connections to the server, reused once they are gone
  Addrs,          \* what listeners listen on: TCP or unix addresses, SNI names
  Batches,        \* the sets of tunnels clients offer
  AutoSubscribe,  \* ServerConfig.AutoSubscribe
  HasListener,    \* ServerConfig.SubscriptionListener is set
  Embedded,       \* the program calls Unsubscribe, Ping and Stop; tunneld does not
  Nobody,         \* holds no lock, owns no host
  Ids, HostNames, Ports, NoPort, NoHost, Auths, NoAuth, NoUser  \* see Registry

VARIABLES
  items, hosts,  \* the registry
  conns,         \* connPool.conns: identifier -> connection
  mu,            \* who holds connPool.mu longer than one step
  closing,       \* the listeners that it still has to close in disconnected
  listening,     \* open listeners of the process
  link,          \* the state of each connection
  ident,         \* handleClient's identifier
  pc,            \* where the handler of each connection is
  reader,        \* where the reader of each connection is
  via,           \* the connection that carries the handler's request
  todo,          \* tunnels that addTunnels has not looked at yet
  item,          \* the RegistryItem that addTunnels builds
  admin,         \* where the embedding program's call about a client is
  returned,      \* listeners that Unsubscribe handed to its caller
  accepting      \* the control listener is open

registryVars == <<items, hosts>>
poolVars == <<conns, mu, closing>>
handlerVars == <<pc, ident, via, todo, item>>
embedVars == <<admin, returned, accepting>>
vars == <<registryVars, poolVars, listening, link, handlerVars, reader, embedVars>>

\* A listener is the one that a connection's handler opened on an address.
Listeners == Conns \X Addrs

Reg == INSTANCE Registry WITH
  Requests <- {i \in [Hosts : SUBSET [Host : [host : HostNames, port : Ports \cup {NoPort}],
                                      Auth : Auths \cup {NoAuth, NoUser}],
                      Listeners : SUBSET Listeners] : i.Hosts # {} \/ i.Listeners # {}}

\* A tunnel is an HTTP tunnel, which asks for a host, or one that asks for a
\* listener: tcp, tcp4, tcp6, unix or sni.
HTTPTunnel(hostAuth) == [proto |-> "http", arg |-> hostAuth]
ListenTunnel(addr) == [proto |-> "listen", arg |-> addr]
Tunnel == {HTTPTunnel(h) : h \in Reg!HostAuth} \cup {ListenTunnel(a) : a \in Addrs}

\* handleClient refuses an answer without tunnels.
ASSUME BatchesAssumption == Batches \subseteq (SUBSET Tunnel) \ {{}}
ASSUME UserAssumption == NoUser \notin Auths \cup {NoAuth}
ASSUME FlagsAssumption == {AutoSubscribe, HasListener, Embedded} \subseteq BOOLEAN

noItem == [Hosts |-> {}, Listeners |-> {}]

handler(c) == <<"handler", c>>
readLoop(c) == <<"reader", c>>
caller(id) == <<"caller", id>>

ASSUME NobodyAssumption ==
  Nobody \notin Ids \cup {handler(c) : c \in Conns} \cup {readLoop(c) : c \in Conns}
                  \cup {caller(id) : id \in Ids}

Init ==
  /\ Reg!Init
  /\ conns = <<>> /\ mu = Nobody /\ closing = {}
  /\ listening = {}
  /\ link = [c \in Conns |-> "none"]
  /\ ident = [c \in Conns |-> Nobody]
  /\ pc = [c \in Conns |-> "idle"]
  /\ reader = [c \in Conns |-> "off"]
  /\ via = [c \in Conns |-> c]
  /\ todo = [c \in Conns |-> {}]
  /\ item = [c \in Conns |-> noItem]
  /\ admin = [id \in Ids |-> "idle"]
  /\ returned = {}
  /\ accepting = TRUE

goto(c, label) == pc' = [pc EXCEPT ![c] = label]

-----------------------------------------------------------------------------
(* The pool.  A step that needs connPool.mu waits until nobody holds it.    *)

Unlocked == mu = Nobody
Pooled(id) == id \in DOMAIN conns

\* (Variant: the entry is not deleted.)
PoolCloseKeepsEntry(id, p) ==
  /\ link' = [link EXCEPT ![conns[id]] = "closed"]
  /\ Reg!Clear(id)
  /\ closing' = Reg!ItemOf(id).Listeners
  /\ mu' = p
  /\ UNCHANGED conns

\* connPool.close with the free callback, Server.disconnected: p closes the
\* connection of id, forgets it, clears the registry, and goes on to close
\* the listeners of the item, all under the lock.
PoolClose(id, p) ==
  /\ link' = [link EXCEPT ![conns[id]] = "closed"]
  /\ conns' = Reg!Delete(conns, {id})
  /\ Reg!Clear(id)
  /\ closing' = Reg!ItemOf(id).Listeners
  /\ mu' = p

\* disconnected closes the next listener.
CloseListener ==
  \E l \in closing :
    /\ closing' = closing \ {l}
    /\ listening' = listening \ {l}
    /\ UNCHANGED <<registryVars, conns, mu, link, handlerVars, reader, embedVars>>

\* p is done with disconnected and unlocks.
Unlock(p) == mu = p /\ closing = {} /\ mu' = Nobody

\* DeleteConn, up to the closing of the listeners, after which p continues at
\* the step that Unlocks.
DeleteConn(id, p) ==
  /\ Unlocked
  /\ IF Pooled(id) THEN PoolClose(id, p)
                   ELSE UNCHANGED <<registryVars, poolVars, link>>

\* AddConn makes c the connection of id, with a new http2.ClientConn whose
\* read loop starts.
Install(c) ==
  /\ conns' = Reg!AssignOne(conns, ident[c], c)
  /\ reader' = [reader EXCEPT ![c] = "reading"]
  /\ goto(c, "shaking")

\* http2.Transport.NewClientConn cannot write the preface.
InstallFails(c) ==
  /\ link[c] # "up"
  /\ goto(c, "reject")
  /\ UNCHANGED <<conns, reader>>

-----------------------------------------------------------------------------
(* handleClient.                                                            *)

\* (Variant: the client is not identified.)
AcceptAnyone(c, id) ==
  /\ accepting
  /\ pc[c] = "idle"
  /\ link' = [link EXCEPT ![c] = "up"]
  /\ goto(c, "admit")
  /\ UNCHANGED <<registryVars, poolVars, listening, ident, via, todo, item, reader, embedVars>>

\* Server.Start accepts a connection and id.PeerID finds the certificate of id
\* on it.  (Without one, the handler closes the connection again and nothing
\* else has changed.)
Accept(c, id) ==
  /\ accepting
  /\ pc[c] = "idle"
  /\ link' = [link EXCEPT ![c] = "up"]
  /\ ident' = [ident EXCEPT ![c] = id]
  /\ goto(c, "admit")
  /\ UNCHANGED <<registryVars, poolVars, listening, via, todo, item, reader, embedVars>>

Admit(c) ==
  /\ pc[c] = "admit"
  /\ IF AutoSubscribe THEN Reg!Subscribe(ident[c]) ELSE UNCHANGED registryVars
  /\ goto(c, IF AutoSubscribe \/ Reg!IsSubscribed(ident[c]) THEN "add"
             ELSE IF HasListener THEN "ask" ELSE "reject")
  /\ UNCHANGED <<poolVars, listening, link, ident, via, todo, item, reader, embedVars>>

\* The subscription listener is asked without any lock; Unsubscribe and other
\* handlers may run before its answer.
Ask(c) ==
  /\ pc[c] = "ask"
  /\ \/ Reg!Subscribe(ident[c]) /\ goto(c, "add")
     \/ UNCHANGED registryVars /\ goto(c, "reject")
  /\ UNCHANGED <<poolVars, listening, link, ident, via, todo, item, reader, embedVars>>

\* AddConn finds no connection of the client and adds this one, or pings the
\* one it finds, holding the lock.
AddConn(c) ==
  /\ pc[c] = "add"
  /\ Unlocked
  /\ IF Pooled(ident[c])
     THEN mu' = handler(c) /\ goto(c, "ping") /\ UNCHANGED <<conns, reader>>
     ELSE (Install(c) \/ InstallFails(c)) /\ UNCHANGED mu
  /\ UNCHANGED <<registryVars, closing, listening, link, ident, via, todo, item,
                 embedVars>>

\* (Variant: an early return without the unlock.)
PingOkKeepsLock(c) ==
  /\ pc[c] = "ping"
  /\ link[conns[ident[c]]] = "up" /\ reader[conns[ident[c]]] = "reading"
  /\ goto(c, "reject")
  /\ UNCHANGED <<registryVars, poolVars, listening, link, ident, via, todo, item, reader, embedVars>>

\* The old connection answers: errClientAlreadyConnected.
PingOk(c) ==
  /\ pc[c] = "ping"
  /\ link[conns[ident[c]]] = "up" /\ reader[conns[ident[c]]] = "reading"
  /\ mu' = Nobody
  /\ goto(c, "reject")
  /\ UNCHANGED <<registryVars, conns, closing, listening, link, ident, via, todo, item, reader, embedVars>>

\* (Variant: the ping has no timeout, it ends when the read loop does.)
PingWaits(c) ==
  /\ pc[c] = "ping"
  /\ reader[conns[ident[c]]] = "off"
  /\ PoolClose(ident[c], handler(c))
  /\ goto(c, "replace")
  /\ UNCHANGED <<listening, ident, via, todo, item, reader, embedVars>>

\* The old connection does not answer within DefaultPingTimeout, dead or slow.
PingFails(c) ==
  /\ pc[c] = "ping"
  /\ PoolClose(ident[c], handler(c))
  /\ goto(c, "replace")
  /\ UNCHANGED <<listening, ident, via, todo, item, reader, embedVars>>

ReplaceConn(c) ==
  /\ pc[c] = "replace"
  /\ Unlock(handler(c))
  /\ Install(c) \/ InstallFails(c)
  /\ UNCHANGED <<registryVars, closing, listening, link, ident, via, todo, item,
                 embedVars>>

\* The CONNECT request goes over the connection that the pool has for the
\* client at that time, or fails for want of one.  (When the transport retries
\* it, only the last attempt counts; when all streams of the connection are
\* taken, it fails as in HandshakeFails.)
SendHandshake(c) ==
  /\ pc[c] = "shaking"
  /\ Unlocked
  /\ \/ /\ Pooled(ident[c])
        /\ via' = [via EXCEPT ![c] = conns[ident[c]]]
        /\ goto(c, "await")
     \/ ~Pooled(ident[c]) /\ goto(c, "notify") /\ UNCHANGED via
  /\ UNCHANGED <<registryVars, poolVars, listening, link, ident, todo, item, reader,
                 embedVars>>

\* The client answers 200 with its tunnels.
HandshakeReply(c) ==
  /\ pc[c] = "await"
  /\ link[via[c]] = "up" /\ reader[via[c]] = "reading"
  /\ \E batch \in Batches : todo' = [todo EXCEPT ![c] = batch]
  /\ via' = [via EXCEPT ![c] = c]
  /\ goto(c, "open")
  /\ UNCHANGED <<registryVars, poolVars, listening, link, ident, item, reader, embedVars>>

\* The request fails, or takes longer than DefaultTimeout, or the answer is not
\* one that handleClient accepts.
HandshakeFails(c) ==
  /\ pc[c] = "await"
  /\ via' = [via EXCEPT ![c] = c]
  /\ goto(c, "notify")
  /\ UNCHANGED <<registryVars, poolVars, listening, link, ident, todo, item, reader, embedVars>>

\* addTunnels takes the next tunnel: a host is noted, a listener is opened
\* unless the address is taken.
OpenTunnel(c) ==
  /\ pc[c] = "open"
  /\ \E t \in todo[c] :
       /\ todo' = [todo EXCEPT ![c] = @ \ {t}]
       /\ \/ /\ t.proto = "http"
             /\ item' = [item EXCEPT ![c].Hosts = @ \cup {t.arg}]
             /\ UNCHANGED listening
          \/ /\ t.proto = "listen"
             /\ \A l \in listening : l[2] # t.arg
             /\ item' = [item EXCEPT ![c].Listeners = @ \cup {<<c, t.arg>>}]
             /\ listening' = listening \cup {<<c, t.arg>>}
  /\ UNCHANGED <<registryVars, poolVars, link, ident, pc, via, reader, embedVars>>

\* The address is taken, or the system or the SNI muxer refuses it, or the
\* protocol is not supported.
OpenFails(c) ==
  /\ pc[c] = "open"
  /\ \E t \in todo[c] : t.proto = "listen"
  /\ todo' = [todo EXCEPT ![c] = {}]
  /\ goto(c, "rollback")
  /\ UNCHANGED <<registryVars, poolVars, listening, link, ident, via, item, reader, embedVars>>

\* (Variant: what the registry refuses is not rolled back.)
SetTunnelsKeepsListeners(c) ==
  /\ pc[c] = "open" /\ todo[c] = {}
  /\ \/ Reg!Set(item[c], ident[c]) /\ goto(c, "connected")
     \/ Reg!SetError(item[c], ident[c]) /\ UNCHANGED registryVars /\ goto(c, "notify")
  /\ UNCHANGED <<poolVars, listening, link, ident, via, todo, item, reader, embedVars>>

\* addTunnels registers the item, unless the registry refuses it.
SetTunnels(c) ==
  /\ pc[c] = "open" /\ todo[c] = {}
  /\ \/ Reg!Set(item[c], ident[c]) /\ goto(c, "connected")
     \/ Reg!SetError(item[c], ident[c]) /\ UNCHANGED registryVars /\ goto(c, "rollback")
  /\ UNCHANGED <<poolVars, listening, link, ident, via, todo, item, reader, embedVars>>

\* The rollback of addTunnels closes the listeners that it opened.
Rollback(c) ==
  /\ pc[c] = "rollback"
  /\ \/ \E l \in item[c].Listeners :
          /\ listening' = listening \ {l}
          /\ item' = [item EXCEPT ![c].Listeners = @ \ {l}]
          /\ UNCHANGED pc
     \/ /\ item[c].Listeners = {}
        /\ item' = [item EXCEPT ![c] = noItem]
        /\ goto(c, "notify")
        /\ UNCHANGED listening
  /\ UNCHANGED <<registryVars, poolVars, link, ident, via, todo, reader, embedVars>>

\* notifyError sends the error over the connection that the pool has for the
\* client at that time, which need not be the one that failed.  The client's
\* answer makes no difference.
NotifyError(c) ==
  /\ pc[c] = "notify"
  /\ Unlocked
  /\ goto(c, "delete")
  /\ UNCHANGED <<registryVars, poolVars, listening, link, ident, via, todo, item, reader,
                 embedVars>>

\* The reject path deletes the client's connection, whichever it is.
RejectDelete(c) ==
  /\ pc[c] = "delete"
  /\ DeleteConn(ident[c], handler(c))
  /\ goto(c, IF Pooled(ident[c]) THEN "deleting" ELSE "reject")
  /\ UNCHANGED <<listening, ident, via, todo, item, reader, embedVars>>

RejectDeleted(c) ==
  /\ pc[c] = "deleting"
  /\ Unlock(handler(c))
  /\ goto(c, "reject")
  /\ UNCHANGED <<registryVars, conns, closing, listening, link, ident, via, todo, item, reader, embedVars>>

\* The end of the reject path: the handler closes its own connection.
Reject(c) ==
  /\ pc[c] = "reject"
  /\ link' = [link EXCEPT ![c] = "closed"]
  /\ goto(c, "rejected")
  /\ UNCHANGED <<registryVars, poolVars, listening, ident, via, todo, item, reader,
                 embedVars>>

-----------------------------------------------------------------------------
(* The read loop of a connection, and the network.                          *)

\* The client or the network goes away.
Lose(c) ==
  /\ link[c] = "up"
  /\ link' = [link EXCEPT ![c] = "lost"]
  /\ UNCHANGED <<registryVars, poolVars, listening, handlerVars, reader, embedVars>>

\* The read loop fails on a closed or lost connection, which TCP keepalive
\* makes sure it notices.
ReadFails(c) ==
  /\ reader[c] = "reading" /\ link[c] # "up"
  /\ reader' = [reader EXCEPT ![c] = "markdead"]
  /\ UNCHANGED <<registryVars, poolVars, listening, link, handlerVars, embedVars>>

\* The client says GOAWAY or breaks the protocol.
GoAway(c) ==
  /\ reader[c] = "reading" /\ link[c] = "up"
  /\ reader' = [reader EXCEPT ![c] = "markdead"]
  /\ UNCHANGED <<registryVars, poolVars, listening, link, handlerVars, embedVars>>

\* (Variants: the pool is searched by client, or not at all.)
MarkDeadByClient(c) ==
  /\ reader[c] = "markdead"
  /\ Unlocked
  /\ IF Pooled(ident[c])
     THEN PoolClose(ident[c], readLoop(c)) /\ reader' = [reader EXCEPT ![c] = "marked"]
     ELSE /\ link' = [link EXCEPT ![c] = "closed"]
          /\ reader' = [reader EXCEPT ![c] = "off"]
          /\ UNCHANGED <<registryVars, poolVars>>
  /\ UNCHANGED <<listening, handlerVars, embedVars>>
MarkDeadIgnored(c) ==
  /\ reader[c] = "markdead"
  /\ Unlocked
  /\ reader' = [reader EXCEPT ![c] = "off"]
  /\ UNCHANGED <<registryVars, poolVars, listening, link, handlerVars, embedVars>>

\* MarkDead looks for this very connection in the pool, not for the client.
MarkDead(c) ==
  /\ reader[c] = "markdead"
  /\ Unlocked
  /\ IF Pooled(ident[c]) /\ conns[ident[c]] = c
     THEN PoolClose(ident[c], readLoop(c)) /\ reader' = [reader EXCEPT ![c] = "marked"]
     ELSE /\ link' = [link EXCEPT ![c] = "closed"]
          /\ reader' = [reader EXCEPT ![c] = "off"]
          /\ UNCHANGED <<registryVars, poolVars>>
  /\ UNCHANGED <<listening, handlerVars, embedVars>>

MarkedDead(c) ==
  /\ reader[c] = "marked"
  /\ Unlock(readLoop(c))
  /\ reader' = [reader EXCEPT ![c] = "off"]
  /\ UNCHANGED <<registryVars, conns, closing, listening, link, handlerVars, embedVars>>

\* Both goroutines of a connection are gone; the next connection may take its
\* place.
Recycle(c) ==
  /\ pc[c] \in {"connected", "rejected"}
  /\ link[c] = "closed" /\ reader[c] = "off"
  /\ \A d \in Conns : pc[d] = "await" => via[d] # c
  /\ link' = [link EXCEPT ![c] = "none"]
  /\ goto(c, "idle")
  /\ ident' = [ident EXCEPT ![c] = Nobody]
  /\ item' = [item EXCEPT ![c] = noItem]
  /\ UNCHANGED <<registryVars, poolVars, listening, via, todo, reader, embedVars>>

-----------------------------------------------------------------------------
(* Calls of the embedding program; tunneld only subscribes.                 *)

Subscribe(id) ==
  /\ Reg!Subscribe(id)
  /\ UNCHANGED <<poolVars, listening, link, handlerVars, reader, embedVars>>

\* Unsubscribe deletes the connection first ...
UnsubscribeConn(id) ==
  /\ Embedded
  /\ admin[id] = "idle"
  /\ DeleteConn(id, caller(id))
  /\ admin' = [admin EXCEPT ![id] = IF Pooled(id) THEN "deleting" ELSE "deleted"]
  /\ UNCHANGED <<listening, handlerVars, reader, returned, accepting>>

UnsubscribeDeleted(id) ==
  /\ admin[id] = "deleting"
  /\ Unlock(caller(id))
  /\ admin' = [admin EXCEPT ![id] = "deleted"]
  /\ UNCHANGED <<registryVars, conns, closing, listening, link, handlerVars, reader, returned,
                 accepting>>

\* ... and the registration after it, in a step of its own.
UnsubscribeItem(id) ==
  /\ admin[id] = "deleted"
  /\ Reg!Unsubscribe(id)
  /\ returned' = returned \cup Reg!ItemOf(id).Listeners
  /\ admin' = [admin EXCEPT ![id] = "idle"]
  /\ UNCHANGED <<poolVars, listening, link, handlerVars, reader, accepting>>

\* Ping holds the lock while it waits for the answer or the timeout.
Ping(id) ==
  /\ Embedded
  /\ \/ /\ admin[id] = "idle" /\ Unlocked /\ Pooled(id)
        /\ mu' = caller(id)
        /\ admin' = [admin EXCEPT ![id] = "ping"]
     \/ /\ admin[id] = "ping"
        /\ mu' = Nobody
        /\ admin' = [admin EXCEPT ![id] = "idle"]
  /\ UNCHANGED <<registryVars, conns, closing, listening, link, handlerVars, reader, returned,
                 accepting>>

\* Stop closes the control listener and nothing else.
Stop ==
  /\ Embedded
  /\ accepting' = FALSE
  /\ UNCHANGED <<registryVars, poolVars, listening, link, handlerVars, reader, admin, returned>>

-----------------------------------------------------------------------------
Handler(c) ==
  \/ Admit(c) \/ Ask(c) \/ AddConn(c) \/ PingOk(c) \/ PingFails(c) \/ ReplaceConn(c)
  \/ SendHandshake(c) \/ HandshakeReply(c) \/ HandshakeFails(c)
  \/ OpenTunnel(c) \/ OpenFails(c) \/ SetTunnels(c) \/ Rollback(c)
  \/ NotifyError(c) \/ RejectDelete(c) \/ RejectDeleted(c) \/ Reject(c)

ReadLoop(c) == ReadFails(c) \/ MarkDead(c) \/ MarkedDead(c)

Environment(c) ==
  (\E id \in Ids : Accept(c, id)) \/ Lose(c) \/ GoAway(c) \/ Recycle(c)

Caller(id) == UnsubscribeDeleted(id) \/ UnsubscribeItem(id) \/ Ping(id)

Next ==
  \/ \E c \in Conns : Handler(c) \/ ReadLoop(c) \/ Environment(c)
  \/ \E id \in Ids : Subscribe(id) \/ UnsubscribeConn(id) \/ Caller(id)
  \/ CloseListener
  \/ Stop

Spec == Init /\ [][Next]_vars

\* Goroutines are scheduled, timers fire, and a Go mutex that is contended
\* goes to the goroutine that waits longest, so one that can get the lock
\* again and again gets it.  Clients and the network owe us nothing.
Fairness ==
  /\ \A c \in Conns : SF_vars(Handler(c)) /\ SF_vars(ReadLoop(c))
  /\ \A id \in Ids : WF_vars(Caller(id))
  /\ WF_vars(CloseListener)

FairSpec == Spec /\ Fairness

-----------------------------------------------------------------------------
pcs == {"idle", "admit", "ask", "add", "ping", "replace", "shaking", "await", "open",
        "connected", "rollback", "notify", "delete", "deleting", "reject", "rejected"}

TypeOK ==
  /\ Reg!TypeOK
  /\ DOMAIN conns \subseteq Ids /\ \A id \in DOMAIN conns : conns[id] \in Conns
  /\ mu \in {Nobody} \cup {handler(c) : c \in Conns} \cup {readLoop(c) : c \in Conns}
              \cup {caller(id) : id \in Ids}
  /\ closing \subseteq Listeners
  /\ listening \subseteq Listeners
  /\ link \in [Conns -> {"none", "up", "lost", "closed"}]
  /\ ident \in [Conns -> Ids \cup {Nobody}]
  /\ \A c \in Conns : pc[c] # "idle" => ident[c] \in Ids
  /\ pc \in [Conns -> pcs]
  /\ reader \in [Conns -> {"off", "reading", "markdead", "marked"}]
  /\ via \in [Conns -> Conns]
  /\ todo \in [Conns -> SUBSET Tunnel]
  /\ item \in [Conns -> Reg!RegistryItem]
  /\ admin \in [Ids -> {"idle", "deleting", "deleted", "ping"}]
  /\ returned \subseteq Listeners
  /\ accepting \in BOOLEAN

\* Who has to close a listener: the handler whose addTunnels opened it, the
\* client whose item holds it, whoever closes the client's connection, or the
\* caller of Unsubscribe.
Holders(l) ==
  {handler(c) : c \in {d \in Conns : /\ pc[d] \in {"open", "rollback"}
                                      /\ l \in item[d].Listeners}}
  \cup {<<"client", id>> : id \in {k \in DOMAIN items : l \in items[k].Listeners}}
  \cup {<<"pool", Nobody>> : x \in closing \cap {l}}
  \cup {<<"returned", Nobody>> : x \in returned \cap {l}}

\* Every open listener is some party's to close, and no listener is two
\* parties' or held after it is closed: whatever connects, fails, is evicted or
\* unsubscribed in between, addTunnels, disconnected and Unsubscribe neither
\* leak a listener nor close one twice.  (The SNI muxer's Close panics the
\* second time.)
ListenersHaveOneHolder ==
  \A l \in Listeners :
    /\ l \in listening <=> Holders(l) # {}
    /\ \A x, y \in Holders(l) : x = y

\* The connection that the pool has for a client is a connection of that client
\* which the server has not closed, and whose read loop will still report its
\* end: the pool cannot get stuck with a connection that nobody removes.
PooledConnsLive ==
  \A id \in DOMAIN conns :
    LET c == conns[id]
    IN  /\ ident[c] = id
        /\ link[c] \in {"up", "lost"}
        /\ reader[c] \in {"reading", "markdead"}

\* Who is in a critical section of the pool that takes more than one step.  None
\* of the steps that end one needs a lock, or anybody but its holder.
Inside ==
  {handler(c) : c \in {d \in Conns : pc[d] \in {"ping", "replace", "deleting"}}}
  \cup {readLoop(c) : c \in {d \in Conns : reader[d] = "marked"}}
  \cup {caller(id) : id \in {k \in Ids : admin[k] \in {"ping", "deleting"}}}

\* The pool's lock is held by the one party that is inside and by nobody else:
\* no ping of AddConn or Ping, refused client, eviction, death or Unsubscribe
\* leaves it locked, and nobody closes a connection while another is being
\* closed or pinged.  (pool.go unlocks on every return.)
LockHasHolder == Inside = {mu} \ {Nobody}

\* A handshake that went through is honoured: as long as the pool has the
\* connection of a handler that reached "connected", the registry has exactly
\* the tunnels that the handler was asked for, and all their listeners are
\* open.  proto/tunnel.go:8 says "If client gets connected server proxies
\* connections to given Host and Addr to the client".
Connected(c) == pc[c] = "connected" /\ Pooled(ident[c]) /\ conns[ident[c]] = c

ConnectedIsServed ==
  \A c \in Conns :
    Connected(c) =>
      /\ Reg!Registered(ident[c]) /\ items[ident[c]] = item[c]
      /\ item[c].Listeners \subseteq listening

\* The late death of an old connection does not reach the connection that took
\* its place: MarkDead may wait for the lock while AddConn evicts the one and
\* installs the other, and then finds nothing to close.
LateDeathSparesSuccessor ==
  [][\A c, d \in Conns :
       c # d /\ reader[c] = "markdead" /\ reader'[c] # "markdead" =>
         link'[d] = link[d] /\ UNCHANGED <<Pooled(ident[d]) /\ conns[ident[d]] = d>>]_vars

\* What RoundTrip sees of the server is a table of hosts, whatever the clients,
\* the network and the pool do: see HostTable.
ImplementsHostTable == Reg!ImplementsHostTable

\* Every handler that got past the TLS handshake returns, so the pool's lock
\* is never held for ever: not by a ping of a dead connection whose read loop
\* waits for the same lock, nor by disconnected.
HandlersReturn ==
  \A c \in Conns :
    pc[c] \notin {"idle", "connected", "rejected"} ~> pc[c] \in {"connected", "rejected"}

\* A connection that is lost leaves the pool.
LostConnsLeavePool ==
  \A c \in Conns :
    link[c] = "lost" /\ Pooled(ident[c]) /\ conns[ident[c]] = c ~> link[c] = "closed"

\* Nothing is under way: no handler runs, no read loop has to report, nobody
\* holds the lock, and no call of the embedding program is open.
Quiet ==
  /\ mu = Nobody
  /\ \A c \in Conns :
       /\ pc[c] \in {"idle", "connected", "rejected"}
       /\ reader[c] = "off" \/ (reader[c] = "reading" /\ link[c] = "up")
  /\ \A id \in Ids : admin[id] = "idle"

\* When nothing is under way, only connected clients hold hosts and listeners.
\* server.go:172 says "disconnected clears resources used by client, it's
\* invoked by connection pool when client goes away".
GoneClientsHoldNothing ==
  Quiet => \A id \in Ids : Reg!Registered(id) => Pooled(id)

\* The error of a handshake goes to the connection on which it failed, and a
\* client that is connected is not told that it is not.  client.go:89 says Start
\* "returns error if there is a connection error, or server cannot open requested
\* tunnels".
ConnectedNotToldErrors ==
  [][\A c, d \in Conns :
       pc[c] = "notify" /\ pc'[c] = "delete" => ~(Connected(d) /\ ident[d] = ident[c])]_vars

=============================================================================
