---------------------------- MODULE ServerProofs ----------------------------
(***************************************************************************)
(* Proofs about Server, for any clients, connections and addresses.  What  *)
(* the pool and the listeners rest on is who holds connPool.mu, so the     *)
(* invariant is built from the lock outwards.                              *)
(***************************************************************************)
EXTENDS Server, TLAPS

Types ==
  /\ DOMAIN conns \subseteq Ids /\ \A id \in DOMAIN conns : conns[id] \in Conns
  /\ link \in [Conns -> {"none", "up", "lost", "closed"}]
  /\ ident \in [Conns -> Ids \cup {Nobody}]
  /\ \A c \in Conns : pc[c] # "idle" => ident[c] \in Ids
  /\ pc \in [Conns -> pcs]
  /\ reader \in [Conns -> {"off", "reading", "markdead", "marked"}]
  /\ admin \in [Ids -> {"idle", "deleting", "deleted", "ping"}]

\* Who is in the middle of a critical section holds the lock, and there are
\* listeners to close only inside one that disconnected a client.
Lock ==
  /\ mu = Nobody => closing = {}
  /\ \A c \in Conns :
       /\ pc[c] \in {"ping", "replace", "deleting"} => mu = handler(c)
       /\ pc[c] = "ping" => closing = {} /\ Pooled(ident[c])
       /\ reader[c] = "marked" => mu = readLoop(c)
  /\ \A id \in Ids :
       /\ admin[id] \in {"deleting", "ping"} => mu = caller(id)
       /\ admin[id] = "ping" => closing = {}

\* Before a handler's connection is in the pool nobody closes it and it has no
\* reader; while it is there its handler is not about to close it.
Pool ==
  /\ \A id \in DOMAIN conns :
       /\ ident[conns[id]] = id
       /\ link[conns[id]] \in {"up", "lost"}
       /\ reader[conns[id]] \in {"reading", "markdead"}
       /\ pc[conns[id]] \in {"shaking", "await", "open", "rollback", "connected", "notify",
                             "delete"}
  /\ \A c \in Conns :
       /\ pc[c] \in {"admit", "ask", "add", "ping", "replace"} =>
            link[c] \in {"up", "lost"} /\ reader[c] = "off"
       /\ pc[c] = "idle" => reader[c] = "off"

PoolInv == Types /\ Lock /\ Pool

LEMMA InitPool == ASSUME Init PROVE PoolInv
BY NobodyAssumption DEF Init, PoolInv, Types, Lock, Pool, pcs

\* What closing a pooled connection does to the pool, without the maps.
LEMMA Close ==
  ASSUME NEW id, NEW p, PoolClose(id, p)
  PROVE  /\ DOMAIN conns' = DOMAIN conns \ {id}
         /\ \A k \in DOMAIN conns \ {id} : conns'[k] = conns[k]
         /\ link' = [link EXCEPT ![conns[id]] = "closed"]
         /\ mu' = p
BY DEF PoolClose, Reg!Delete, Reg!Restrict

\* And what installing one does.
LEMMA Added ==
  ASSUME NEW c, Install(c)
  PROVE  /\ DOMAIN conns' = DOMAIN conns \cup {ident[c]}
         /\ conns'[ident[c]] = c
         /\ \A k \in DOMAIN conns \ {ident[c]} : conns'[k] = conns[k]
BY DEF Install, Reg!AssignOne, Reg!Assign

LEMMA CloseTypes ==
  ASSUME Types, NEW id, NEW p, Pooled(id), PoolClose(id, p)
  PROVE  /\ DOMAIN conns' \subseteq Ids /\ \A k \in DOMAIN conns' : conns'[k] \in Conns
         /\ link' \in [Conns -> {"none", "up", "lost", "closed"}]
<1>1. /\ DOMAIN conns' = DOMAIN conns \ {id}
      /\ \A k \in DOMAIN conns \ {id} : conns'[k] = conns[k]
      /\ link' = [link EXCEPT ![conns[id]] = "closed"]
  BY Close
<1> QED BY <1>1 DEF Types, Pooled

LEMMA NextTypes == ASSUME PoolInv, [Next]_vars PROVE Types'
<1> USE DEF PoolInv, Types, Lock, goto, pcs, poolVars, handlerVars, embedVars
<1>1. ASSUME NEW c \in Conns,
             \/ Admit(c) \/ Ask(c) \/ PingOk(c) \/ SendHandshake(c) \/ HandshakeReply(c)
             \/ HandshakeFails(c) \/ OpenTunnel(c) \/ OpenFails(c) \/ SetTunnels(c)
             \/ Rollback(c) \/ NotifyError(c) \/ RejectDeleted(c) \/ Reject(c)
      PROVE Types'
  BY <1>1 DEF Admit, Ask, PingOk, SendHandshake, HandshakeReply, HandshakeFails, OpenTunnel,
              OpenFails, SetTunnels, Rollback, NotifyError, RejectDeleted, Reject, poolVars
<1>2. ASSUME NEW c \in Conns, AddConn(c) \/ ReplaceConn(c) PROVE Types'
  BY <1>2 DEF AddConn, ReplaceConn, Install, InstallFails, Reg!AssignOne, Reg!Assign
<1>3. ASSUME NEW c \in Conns, PingFails(c) \/ RejectDelete(c) PROVE Types'
  <2>1. /\ DOMAIN conns' \subseteq Ids /\ \A id \in DOMAIN conns' : conns'[id] \in Conns
        /\ link' \in [Conns -> {"none", "up", "lost", "closed"}]
    BY <1>3, CloseTypes DEF PingFails, RejectDelete, DeleteConn
  <2> QED BY <1>3, <2>1 DEF PingFails, RejectDelete
<1>4. ASSUME NEW c \in Conns, ReadFails(c) \/ MarkedDead(c) \/ Lose(c) \/ GoAway(c) \/ Recycle(c)
      PROVE Types'
  BY <1>4 DEF ReadFails, MarkedDead, Lose, GoAway, Recycle, poolVars, handlerVars, embedVars
<1>5. ASSUME NEW c \in Conns, MarkDead(c) PROVE Types'
  <2>1. /\ DOMAIN conns' \subseteq Ids /\ \A id \in DOMAIN conns' : conns'[id] \in Conns
        /\ link' \in [Conns -> {"none", "up", "lost", "closed"}]
    BY <1>5, CloseTypes DEF MarkDead
  <2> QED BY <1>5, <2>1 DEF MarkDead
<1>6. ASSUME NEW c \in Conns, NEW id \in Ids, Accept(c, id) PROVE Types'
  BY <1>6 DEF Accept, poolVars, embedVars
<1>7. ASSUME NEW id \in Ids, Subscribe(id) \/ Caller(id) PROVE Types'
  BY <1>7 DEF Subscribe, Caller, UnsubscribeDeleted, UnsubscribeItem, Ping, poolVars,
              handlerVars, embedVars
<1>8. ASSUME NEW id \in Ids, UnsubscribeConn(id) PROVE Types'
  <2>1. /\ DOMAIN conns' \subseteq Ids /\ \A k \in DOMAIN conns' : conns'[k] \in Conns
        /\ link' \in [Conns -> {"none", "up", "lost", "closed"}]
    BY <1>8, CloseTypes DEF UnsubscribeConn, DeleteConn
  <2> QED BY <1>8, <2>1 DEF UnsubscribeConn
<1>9. ASSUME CloseListener \/ Stop \/ UNCHANGED vars PROVE Types'
  BY <1>9 DEF CloseListener, Stop, vars, poolVars, handlerVars, embedVars
<1> QED BY <1>1, <1>2, <1>3, <1>4, <1>5, <1>6, <1>7, <1>8, <1>9
        DEF Next, Handler, ReadLoop, Environment

LEMMA Parties ==
  /\ \A c \in Conns, d \in Conns :
       /\ handler(c) # readLoop(d) /\ handler(c) # Nobody /\ readLoop(c) # Nobody
       /\ handler(c) = handler(d) => c = d
       /\ readLoop(c) = readLoop(d) => c = d
  /\ \A c \in Conns, id \in Ids : handler(c) # caller(id) /\ readLoop(c) # caller(id)
  /\ \A id \in Ids, k \in Ids : caller(id) # Nobody /\ (caller(id) = caller(k) => id = k)
BY NobodyAssumption DEF handler, readLoop, caller

LEMMA NextLock == ASSUME PoolInv, [Next]_vars PROVE Lock'
<1> USE Parties DEF PoolInv, Types, Lock, goto, Unlocked, Pooled, poolVars, handlerVars, embedVars
\* These neither take the lock nor give it back, and end outside of it.
<1>1. ASSUME NEW c \in Conns,
             \/ Admit(c) \/ Ask(c) \/ SendHandshake(c) \/ HandshakeReply(c)
             \/ HandshakeFails(c) \/ OpenTunnel(c) \/ OpenFails(c) \/ SetTunnels(c)
             \/ Rollback(c) \/ NotifyError(c) \/ Reject(c)
      PROVE Lock'
  <2>1. UNCHANGED <<conns, mu, closing, ident, reader, admin>>
    BY <1>1 DEF Admit, Ask, SendHandshake, HandshakeReply, HandshakeFails, OpenTunnel,
                OpenFails, SetTunnels, Rollback, NotifyError, Reject
  <2>2. /\ \A d \in Conns \ {c} : pc'[d] = pc[d]
        /\ pc'[c] \notin {"ping", "replace", "deleting"}
    BY <1>1 DEF Admit, Ask, SendHandshake, HandshakeReply, HandshakeFails, OpenTunnel,
                OpenFails, SetTunnels, Rollback, NotifyError, Reject
  <2> QED BY <2>1, <2>2
<1>2. ASSUME NEW c \in Conns, AddConn(c) PROVE Lock'
  <2>1. CASE Pooled(ident[c])
    BY <1>2, <2>1 DEF AddConn
  <2>2. CASE ~Pooled(ident[c])
    BY <1>2, <2>2, Added DEF AddConn, Install, InstallFails
  <2> QED BY <2>1, <2>2
<1>3. ASSUME NEW c \in Conns, ReplaceConn(c) PROVE Lock'
  BY <1>3, Added DEF ReplaceConn, Unlock, Install, InstallFails
<1>4. ASSUME NEW c \in Conns, PingOk(c) PROVE Lock'
  BY <1>4 DEF PingOk
<1>5. ASSUME NEW c \in Conns, PingFails(c) PROVE Lock'
  <2>1. /\ mu = handler(c) /\ mu' = handler(c)
        /\ pc' = [pc EXCEPT ![c] = "replace"]
        /\ UNCHANGED <<ident, reader, admin>>
    BY <1>5, Close DEF PingFails
  <2> QED BY <2>1
<1>6. ASSUME NEW c \in Conns, RejectDelete(c) PROVE Lock'
  <2>1. CASE Pooled(ident[c])
    <3>1. /\ mu = Nobody /\ mu' = handler(c)
          /\ pc' = [pc EXCEPT ![c] = "deleting"]
          /\ UNCHANGED <<ident, reader, admin>>
      BY <1>6, <2>1, Close DEF RejectDelete, DeleteConn
    <3> QED BY <3>1
  <2>2. CASE ~Pooled(ident[c])
    BY <1>6, <2>2 DEF RejectDelete, DeleteConn
  <2> QED BY <2>1, <2>2
<1>7. ASSUME NEW c \in Conns, RejectDeleted(c) PROVE Lock'
  BY <1>7 DEF RejectDeleted, Unlock
<1>8. ASSUME NEW c \in Conns, ReadFails(c) \/ Lose(c) \/ GoAway(c) \/ Recycle(c) PROVE Lock'
  BY <1>8 DEF ReadFails, Lose, GoAway, Recycle
<1>9. ASSUME NEW c \in Conns, MarkDead(c) PROVE Lock'
  <2>1. CASE PoolClose(ident[c], readLoop(c)) /\ Pooled(ident[c])
    <3>1. /\ DOMAIN conns' = DOMAIN conns \ {ident[c]}
          /\ mu' = readLoop(c)
      BY <2>1, Close
    <3>2. mu = Nobody /\ UNCHANGED <<pc, ident, admin>>
      BY <1>9 DEF MarkDead
    <3>3. \A d \in Conns \ {c} : reader'[d] = reader[d]
      BY <1>9 DEF MarkDead
    <3> QED BY <3>1, <3>2, <3>3
  <2>2. CASE UNCHANGED <<conns, mu, closing>> /\ reader' = [reader EXCEPT ![c] = "off"]
    BY <1>9, <2>2 DEF MarkDead
  <2> QED BY <1>9, <2>1, <2>2 DEF MarkDead
<1>10. ASSUME NEW c \in Conns, MarkedDead(c) PROVE Lock'
  BY <1>10 DEF MarkedDead, Unlock
<1>11. ASSUME NEW c \in Conns, NEW id \in Ids, Accept(c, id) PROVE Lock'
  BY <1>11 DEF Accept
<1>12. ASSUME NEW id \in Ids, Subscribe(id) \/ UnsubscribeDeleted(id) \/ UnsubscribeItem(id)
       PROVE Lock'
  BY <1>12 DEF Subscribe, UnsubscribeDeleted, UnsubscribeItem, Unlock
<1>13. ASSUME NEW id \in Ids, Ping(id) PROVE Lock'
  BY <1>13 DEF Ping
<1>14. ASSUME NEW id \in Ids, UnsubscribeConn(id) PROVE Lock'
  <2>1. CASE Pooled(id)
    <3>1. /\ mu = Nobody /\ mu' = caller(id)
          /\ admin' = [admin EXCEPT ![id] = "deleting"]
          /\ UNCHANGED <<pc, ident, reader>>
      BY <1>14, <2>1, Close DEF UnsubscribeConn, DeleteConn
    <3> QED BY <3>1
  <2>2. CASE ~Pooled(id)
    BY <1>14, <2>2 DEF UnsubscribeConn, DeleteConn
  <2> QED BY <2>1, <2>2
<1>15. ASSUME CloseListener \/ Stop \/ UNCHANGED vars PROVE Lock'
  BY <1>15 DEF CloseListener, Stop, vars
<1> QED BY <1>1, <1>2, <1>3, <1>4, <1>5, <1>6, <1>7, <1>8, <1>9, <1>10, <1>11, <1>12, <1>13,
           <1>14, <1>15
        DEF Next, Handler, ReadLoop, Environment, Caller

LEMMA NextPool == ASSUME PoolInv, [Next]_vars PROVE Pool'
<1> USE DEF PoolInv, Types, Pool, goto, poolVars, handlerVars, embedVars
<1>1. ASSUME NEW c \in Conns,
             \/ Admit(c) \/ Ask(c) \/ SendHandshake(c) \/ HandshakeReply(c)
             \/ HandshakeFails(c) \/ OpenTunnel(c) \/ OpenFails(c) \/ SetTunnels(c)
             \/ Rollback(c) \/ NotifyError(c) \/ PingOk(c) \/ RejectDeleted(c)
      PROVE Pool'
  <2>1. UNCHANGED <<conns, ident, reader, link>>
    BY <1>1 DEF Admit, Ask, SendHandshake, HandshakeReply, HandshakeFails, OpenTunnel,
                OpenFails, SetTunnels, Rollback, NotifyError, PingOk, RejectDeleted
  <2>2. /\ \A d \in Conns \ {c} : pc'[d] = pc[d]
        /\ \/ /\ pc[c] \in {"admit", "ask", "ping", "deleting"}
              /\ pc'[c] \in {"ask", "add", "reject"}
           \/ /\ pc[c] \in {"shaking", "await", "open", "rollback", "notify"}
              /\ pc'[c] \in {"await", "open", "rollback", "connected", "notify", "delete"}
    BY <1>1 DEF Admit, Ask, SendHandshake, HandshakeReply, HandshakeFails, OpenTunnel,
                OpenFails, SetTunnels, Rollback, NotifyError, PingOk, RejectDeleted
  <2>3. pc'[c] \in {"ask", "add"} => pc[c] \in {"admit", "ask"}
    BY <1>1 DEF Admit, Ask, SendHandshake, HandshakeReply, HandshakeFails, OpenTunnel,
                OpenFails, SetTunnels, Rollback, NotifyError, PingOk, RejectDeleted
  <2> QED BY <2>1, <2>2, <2>3
<1>2. ASSUME NEW c \in Conns, AddConn(c) \/ ReplaceConn(c) PROVE Pool'
  <2>1. CASE Install(c)
    <3>1. /\ DOMAIN conns' = DOMAIN conns \cup {ident[c]}
          /\ conns'[ident[c]] = c
          /\ \A k \in DOMAIN conns \ {ident[c]} : conns'[k] = conns[k]
      BY <2>1, Added
    <3>2. pc[c] \in {"add", "replace"} /\ UNCHANGED <<ident, link>>
      BY <1>2 DEF AddConn, ReplaceConn
    <3>3. /\ reader' = [reader EXCEPT ![c] = "reading"]
          /\ pc' = [pc EXCEPT ![c] = "shaking"]
      BY <2>1 DEF Install
    <3> QED BY <3>1, <3>2, <3>3
  <2>2. CASE UNCHANGED <<conns, reader>> /\ pc' = [pc EXCEPT ![c] = "ping"] /\ pc[c] = "add"
    BY <1>2, <2>2 DEF AddConn, ReplaceConn
  <2>3. CASE InstallFails(c)
    BY <1>2, <2>3 DEF AddConn, ReplaceConn, InstallFails
  <2> QED BY <1>2, <2>1, <2>2, <2>3 DEF AddConn, ReplaceConn
\* Whoever closes a pooled connection and takes it out leaves the others alone.
<1>3. ASSUME NEW id \in Ids, NEW p, Pooled(id), PoolClose(id, p), UNCHANGED ident,
             \A d \in Conns : pc'[d] # pc[d] =>
               /\ ident[d] = id
               /\ (pc[d] = "ping" /\ pc'[d] = "replace") \/ pc'[d] = "deleting",
             \A d \in Conns : reader'[d] # reader[d] => conns[id] = d
      PROVE Pool'
  <2>1. /\ DOMAIN conns' = DOMAIN conns \ {id}
        /\ \A k \in DOMAIN conns \ {id} : conns'[k] = conns[k]
        /\ link' = [link EXCEPT ![conns[id]] = "closed"]
    BY <1>3, Close
  <2>2. \A k \in DOMAIN conns \ {id} : conns[k] # conns[id] /\ ident[conns[k]] # id
    BY <1>3 DEF Pooled
  <2>3. \A d \in Conns : pc'[d] = "idle" => pc[d] = "idle"
    BY <1>3
  <2>4. \A d \in Conns :
          pc'[d] \in {"admit", "ask", "add", "ping", "replace"} =>
            pc[d] \in {"admit", "ask", "add", "ping", "replace"} /\ d # conns[id]
    BY <1>3 DEF Pooled
  <2>5. ASSUME NEW k \in DOMAIN conns'
        PROVE  LET c == conns[k]
               IN  /\ conns'[k] = c /\ ident'[c] = k
                   /\ UNCHANGED <<link[c], reader[c], pc[c]>>
    <3>1. k \in DOMAIN conns \ {id} /\ conns[k] \in Conns
      BY <2>1
    <3> QED BY <1>3, <2>1, <2>2, <3>1
  <2>6. \A d \in Conns :
          pc'[d] \in {"admit", "ask", "add", "ping", "replace"} =>
            link'[d] = link[d] /\ reader'[d] = reader[d]
    BY <1>3, <2>1, <2>4
  <2>7. \A d \in Conns : pc[d] = "idle" => reader'[d] = reader[d]
    BY <1>3 DEF Pooled
  <2> QED BY <1>3, <2>1, <2>3, <2>4, <2>5, <2>6, <2>7
<1>4. ASSUME NEW c \in Conns, PingFails(c) PROVE Pool'
  <2>1. ident[c] \in Ids /\ Pooled(ident[c])
    BY <1>4 DEF PingFails, Lock
  <2>2. PoolClose(ident[c], handler(c)) /\ UNCHANGED <<ident, reader>>
        /\ pc[c] = "ping" /\ pc' = [pc EXCEPT ![c] = "replace"]
    BY <1>4 DEF PingFails
  <2> HIDE DEF Pool
  <2> QED BY <2>1, <2>2, <1>3
<1>5. ASSUME NEW c \in Conns, RejectDelete(c) PROVE Pool'
  <2>1. CASE Pooled(ident[c])
    <3>1. /\ ident[c] \in Ids /\ PoolClose(ident[c], handler(c)) /\ UNCHANGED <<ident, reader>>
          /\ pc[c] = "delete" /\ pc' = [pc EXCEPT ![c] = "deleting"]
      BY <1>5, <2>1 DEF RejectDelete, DeleteConn
    <3> HIDE DEF Pool
    <3> QED BY <2>1, <3>1, <1>3
  <2>2. CASE ~Pooled(ident[c])
    BY <1>5, <2>2 DEF RejectDelete, DeleteConn, Pooled
  <2> QED BY <2>1, <2>2
<1>6. ASSUME NEW c \in Conns, Reject(c) PROVE Pool'
  BY <1>6 DEF Reject
<1>7. ASSUME NEW c \in Conns, ReadFails(c) \/ Lose(c) \/ GoAway(c) PROVE Pool'
  BY <1>7 DEF ReadFails, Lose, GoAway
<1>8. ASSUME NEW c \in Conns, Recycle(c) PROVE Pool'
  BY <1>8 DEF Recycle
<1>9. ASSUME NEW c \in Conns, MarkDead(c) PROVE Pool'
  <2>1. CASE Pooled(ident[c]) /\ conns[ident[c]] = c
    <3>1. /\ ident[c] \in Ids /\ PoolClose(ident[c], readLoop(c)) /\ UNCHANGED <<ident, pc>>
          /\ reader[c] = "markdead" /\ reader' = [reader EXCEPT ![c] = "marked"]
      BY <1>9, <2>1 DEF MarkDead, Pooled
    <3> HIDE DEF Pool
    <3> QED BY <2>1, <3>1, <1>3
  <2>2. CASE ~(Pooled(ident[c]) /\ conns[ident[c]] = c)
    BY <1>9, <2>2 DEF MarkDead, Pooled
  <2> QED BY <2>1, <2>2
<1>10. ASSUME NEW c \in Conns, MarkedDead(c) PROVE Pool'
  BY <1>10 DEF MarkedDead
<1>11. ASSUME NEW c \in Conns, NEW id \in Ids, Accept(c, id) PROVE Pool'
  BY <1>11 DEF Accept
<1>12. ASSUME NEW id \in Ids, Subscribe(id) \/ Caller(id) PROVE Pool'
  BY <1>12 DEF Subscribe, Caller, UnsubscribeDeleted, UnsubscribeItem, Ping
<1>13. ASSUME NEW id \in Ids, UnsubscribeConn(id) PROVE Pool'
  <2>1. CASE Pooled(id)
    <3>1. PoolClose(id, caller(id)) /\ UNCHANGED <<ident, pc, reader>>
      BY <1>13, <2>1 DEF UnsubscribeConn, DeleteConn
    <3> HIDE DEF Pool
    <3> QED BY <2>1, <3>1, <1>3
  <2>2. CASE ~Pooled(id)
    BY <1>13, <2>2 DEF UnsubscribeConn, DeleteConn
  <2> QED BY <2>1, <2>2
<1>14. ASSUME CloseListener \/ Stop \/ UNCHANGED vars PROVE Pool'
  BY <1>14 DEF CloseListener, Stop, vars
<1> QED BY <1>1, <1>2, <1>4, <1>5, <1>6, <1>7, <1>8, <1>9, <1>10, <1>11, <1>12, <1>13, <1>14
        DEF Next, Handler, ReadLoop, Environment

LEMMA PoolInductive == Spec => []PoolInv
<1>1. PoolInv /\ [Next]_vars => PoolInv'
  BY NextTypes, NextLock, NextPool DEF PoolInv
<1> QED BY InitPool, <1>1, PTL DEF Spec

\* The pool never holds a connection that is closed, or that no read loop will
\* take out of it, and never one of another client.
THEOREM PooledConnsLiveAlways == Spec => []PooledConnsLive
<1>1. PoolInv => PooledConnsLive
  BY DEF PoolInv, Pool, PooledConnsLive
<1> QED BY PoolInductive, <1>1, PTL

\* A lock that is held is held by somebody who is inside.
Holder ==
  \/ mu = Nobody
  \/ \E c \in Conns : mu = handler(c) /\ pc[c] \in {"ping", "replace", "deleting"}
  \/ \E c \in Conns : mu = readLoop(c) /\ reader[c] = "marked"
  \/ \E id \in Ids : mu = caller(id) /\ admin[id] \in {"ping", "deleting"}

\* Who does not take the lock or give it back does not go inside or come out.
LEMMA HolderStays ==
  ASSUME Holder, UNCHANGED mu,
         \A c \in Conns : pc[c] \in {"ping", "replace", "deleting"} => pc'[c] = pc[c],
         \A c \in Conns : reader[c] = "marked" => reader'[c] = "marked",
         \A id \in Ids : admin[id] \in {"ping", "deleting"} => admin'[id] = admin[id]
  PROVE  Holder'
BY DEF Holder, handler, readLoop, caller

LEMMA NextHolder == ASSUME PoolInv, Holder, [Next]_vars PROVE Holder'
<1> USE DEF PoolInv, Types, goto, Unlocked, poolVars, handlerVars, embedVars
<1>1. ASSUME NEW c \in Conns,
             \/ Admit(c) \/ Ask(c) \/ SendHandshake(c) \/ HandshakeReply(c)
             \/ HandshakeFails(c) \/ OpenTunnel(c) \/ OpenFails(c) \/ SetTunnels(c)
             \/ Rollback(c) \/ NotifyError(c) \/ Reject(c)
      PROVE Holder'
  <2>1. UNCHANGED <<mu, reader, admin>>
    BY <1>1 DEF Admit, Ask, SendHandshake, HandshakeReply, HandshakeFails, OpenTunnel,
                OpenFails, SetTunnels, Rollback, NotifyError, Reject
  <2>2. /\ \A d \in Conns \ {c} : pc'[d] = pc[d]
        /\ pc[c] \notin {"ping", "replace", "deleting"}
    BY <1>1 DEF Admit, Ask, SendHandshake, HandshakeReply, HandshakeFails, OpenTunnel,
                OpenFails, SetTunnels, Rollback, NotifyError, Reject
  <2> QED BY <2>1, <2>2, HolderStays
<1>2. ASSUME NEW c \in Conns, AddConn(c) PROVE Holder'
  <2>1. CASE Pooled(ident[c])
    <3>1. mu' = handler(c) /\ pc'[c] = "ping"
      BY <1>2, <2>1 DEF AddConn
    <3> QED BY <3>1 DEF Holder, handler
  <2>2. CASE ~Pooled(ident[c])
    BY <1>2, <2>2 DEF AddConn, Holder
  <2> QED BY <2>1, <2>2
<1>3. ASSUME NEW c \in Conns, PingFails(c) PROVE Holder'
  <2>1. mu' = handler(c) /\ pc'[c] = "replace"
    BY <1>3 DEF PingFails, PoolClose
  <2> QED BY <2>1 DEF Holder, handler
<1>4. ASSUME NEW c \in Conns, RejectDelete(c) PROVE Holder'
  <2>1. CASE Pooled(ident[c])
    <3>1. mu' = handler(c) /\ pc'[c] = "deleting"
      BY <1>4, <2>1 DEF RejectDelete, DeleteConn, PoolClose
    <3> QED BY <3>1 DEF Holder, handler
  <2>2. CASE ~Pooled(ident[c])
    BY <1>4, <2>2 DEF RejectDelete, DeleteConn, Holder
  <2> QED BY <2>1, <2>2
\* These give the lock back.
<1>5. ASSUME NEW c \in Conns, PingOk(c) \/ ReplaceConn(c) \/ RejectDeleted(c) \/ MarkedDead(c)
      PROVE Holder'
  BY <1>5 DEF PingOk, ReplaceConn, RejectDeleted, MarkedDead, Unlock, Holder
<1>6. ASSUME NEW c \in Conns, MarkDead(c) PROVE Holder'
  <2>1. CASE mu' = readLoop(c) /\ reader'[c] = "marked"
    BY <2>1 DEF Holder, readLoop
  <2>2. CASE UNCHANGED mu
    BY <1>6, <2>2 DEF MarkDead, Holder
  <2> QED BY <1>6, <2>1, <2>2 DEF MarkDead, PoolClose
<1>7. ASSUME NEW c \in Conns, ReadFails(c) \/ Lose(c) \/ GoAway(c) \/ Recycle(c) PROVE Holder'
  BY <1>7, HolderStays DEF ReadFails, Lose, GoAway, Recycle
<1>8. ASSUME NEW c \in Conns, NEW id \in Ids, Accept(c, id) PROVE Holder'
  BY <1>8, HolderStays DEF Accept
<1>9. ASSUME NEW id \in Ids, Subscribe(id) \/ UnsubscribeItem(id) PROVE Holder'
  BY <1>9, HolderStays DEF Subscribe, UnsubscribeItem
<1>10. ASSUME NEW id \in Ids, UnsubscribeDeleted(id) PROVE Holder'
  BY <1>10 DEF UnsubscribeDeleted, Unlock, Holder
<1>11. ASSUME NEW id \in Ids, Ping(id) PROVE Holder'
  <2>1. mu' = Nobody \/ (mu' = caller(id) /\ admin'[id] = "ping")
    BY <1>11 DEF Ping
  <2> QED BY <2>1 DEF Holder, caller
<1>12. ASSUME NEW id \in Ids, UnsubscribeConn(id) PROVE Holder'
  <2>1. CASE Pooled(id)
    <3>1. mu' = caller(id) /\ admin'[id] = "deleting"
      BY <1>12, <2>1 DEF UnsubscribeConn, DeleteConn, PoolClose
    <3> QED BY <3>1 DEF Holder, caller
  <2>2. CASE ~Pooled(id)
    BY <1>12, <2>2 DEF UnsubscribeConn, DeleteConn, Holder
  <2> QED BY <2>1, <2>2
<1>13. ASSUME CloseListener \/ Stop \/ UNCHANGED vars PROVE Holder'
  BY <1>13, HolderStays DEF CloseListener, Stop, vars
<1> QED BY <1>1, <1>2, <1>3, <1>4, <1>5, <1>6, <1>7, <1>8, <1>9, <1>10, <1>11, <1>12, <1>13
        DEF Next, Handler, ReadLoop, Environment, Caller

\* The pool's lock is never left locked, and never entered twice, by any number
\* of handlers, readers and callers: what is left to show of HandlersReturn is
\* that a section ends, which takes no lock.
THEOREM LockHasHolderAlways == Spec => []LockHasHolder
<1>1. Init => Holder
  BY DEF Init, Holder
<1>2. PoolInv /\ Holder /\ [Next]_vars => Holder'
  BY NextHolder
<1>3. PoolInv /\ Holder => LockHasHolder
  <2> SUFFICES ASSUME PoolInv, Holder PROVE Inside = {mu} \ {Nobody}
    BY DEF LockHasHolder
  <2>1. ASSUME NEW p \in Inside PROVE p = mu /\ p # Nobody
    BY <2>1, Parties DEF PoolInv, Lock, Inside
  <2>2. ASSUME mu # Nobody PROVE mu \in Inside
    BY <2>2 DEF Holder, Inside
  <2> QED BY <2>1, <2>2
<1> QED BY PoolInductive, <1>1, <1>2, <1>3, PTL DEF Spec

\* Only MarkDead ends the wait of a reader that found its connection dead.
LEMMA MarkDeadEnds ==
  ASSUME PoolInv, [Next]_vars, NEW c \in Conns, reader[c] = "markdead", reader'[c] # "markdead"
  PROVE  MarkDead(c)
<1> USE DEF PoolInv, Types, Pool, poolVars, handlerVars, embedVars
<1>1. ASSUME NEW d \in Conns, Handler(d) PROVE FALSE
  <2>1. UNCHANGED reader \/ AddConn(d) \/ ReplaceConn(d)
    BY <1>1 DEF Handler, Admit, Ask, PingOk, PingFails, SendHandshake, HandshakeReply,
                HandshakeFails, OpenTunnel, OpenFails, SetTunnels, Rollback, NotifyError,
                RejectDelete, RejectDeleted, Reject
  <2>2. ASSUME AddConn(d) \/ ReplaceConn(d) PROVE FALSE
    <3>1. reader[d] = "off"
      BY <2>2 DEF AddConn, ReplaceConn
    <3>2. UNCHANGED reader \/ reader' = [reader EXCEPT ![d] = "reading"]
      BY <2>2 DEF AddConn, ReplaceConn, Install, InstallFails
    <3> QED BY <3>1, <3>2
  <2> QED BY <2>1, <2>2
<1>2. ASSUME NEW d \in Conns, ReadLoop(d) \/ Environment(d), ~MarkDead(c) PROVE FALSE
  BY <1>2 DEF ReadLoop, Environment, ReadFails, MarkDead, MarkedDead, Accept, Lose, GoAway, Recycle
<1>3. ASSUME NEW id \in Ids, Subscribe(id) \/ UnsubscribeConn(id) \/ Caller(id) PROVE FALSE
  BY <1>3 DEF Subscribe, UnsubscribeConn, Caller, UnsubscribeDeleted, UnsubscribeItem, Ping
<1>4. ASSUME CloseListener \/ Stop \/ UNCHANGED vars PROVE FALSE
  BY <1>4 DEF CloseListener, Stop, vars
<1> QED BY <1>1, <1>2, <1>3, <1>4 DEF Next

\* A connection that died late takes nothing from the one that replaced it.
THEOREM LateDeathSparesSuccessorAlways == Spec => LateDeathSparesSuccessor
<1>1. PoolInv /\ [Next]_vars =>
        [\A c, d \in Conns :
           c # d /\ reader[c] = "markdead" /\ reader'[c] # "markdead" =>
             link'[d] = link[d] /\ UNCHANGED <<Pooled(ident[d]) /\ conns[ident[d]] = d>>]_vars
  <2> SUFFICES ASSUME PoolInv, [Next]_vars, NEW c \in Conns, NEW d \in Conns, c # d,
                      reader[c] = "markdead", reader'[c] # "markdead"
               PROVE  /\ link'[d] = link[d]
                      /\ UNCHANGED <<Pooled(ident[d]) /\ conns[ident[d]] = d>>
    OBVIOUS
  <2>1. MarkDead(c)
    BY MarkDeadEnds
  <2>2. UNCHANGED ident
    BY <2>1 DEF MarkDead, handlerVars
  <2>3. CASE Pooled(ident[c]) /\ conns[ident[c]] = c
    <3>1. PoolClose(ident[c], readLoop(c))
      BY <2>1, <2>3 DEF MarkDead
    <3>2. /\ DOMAIN conns' = DOMAIN conns \ {ident[c]}
          /\ \A k \in DOMAIN conns \ {ident[c]} : conns'[k] = conns[k]
          /\ link' = [link EXCEPT ![c] = "closed"]
      BY <2>3, <3>1, Close
    <3> QED BY <2>2, <2>3, <3>2 DEF PoolInv, Types, Pooled
  <2>4. CASE ~(Pooled(ident[c]) /\ conns[ident[c]] = c)
    BY <2>1, <2>2, <2>4 DEF MarkDead, PoolInv, Types, Pooled, poolVars
  <2> QED BY <2>3, <2>4
<1> QED BY PoolInductive, <1>1, PTL DEF Spec, LateDeathSparesSuccessor

-----------------------------------------------------------------------------
(* The listeners.  Each step that touches one moves it from one holder to    *)
(* another, opens it or closes it; the lock makes sure that disconnected     *)
(* starts with nothing left to close.                                        *)

ItemType == [Hosts : SUBSET Reg!HostAuth, Listeners : SUBSET Listeners]

\* The listeners that addTunnels of a handler opened and has not passed on.
Building(c) == pc[c] \in {"open", "rollback"}

ItemTypes ==
  /\ DOMAIN items \subseteq Ids
  /\ \A id \in DOMAIN items : items[id] \in ItemType
  /\ item \in [Conns -> ItemType]
  /\ todo \in [Conns -> SUBSET Tunnel]
  /\ \A c \in Conns : pc[c] \in {"idle", "admit", "ask", "add", "ping", "replace", "shaking",
                                "await"} => item[c].Listeners = {}

\* Whoever holds a listener holds it alone, and exactly the open ones are held.
Held ==
  \A l \in Listeners :
    /\ l \in listening <=> \/ \E c \in Conns : Building(c) /\ l \in item[c].Listeners
                           \/ \E id \in DOMAIN items : l \in items[id].Listeners
                           \/ l \in closing
                           \/ l \in returned
    /\ \A c \in Conns : Building(c) /\ l \in item[c].Listeners =>
         /\ \A d \in Conns : Building(d) /\ l \in item[d].Listeners => c = d
         /\ \A id \in DOMAIN items : l \notin items[id].Listeners
         /\ l \notin closing /\ l \notin returned
    /\ \A id \in DOMAIN items : l \in items[id].Listeners =>
         /\ \A k \in DOMAIN items : l \in items[k].Listeners => id = k
         /\ l \notin closing /\ l \notin returned
    /\ ~(l \in closing /\ l \in returned)

ListenerInv == ItemTypes /\ Held

LEMMA InitListeners == ASSUME Init PROVE ListenerInv
BY DEF Init, ListenerInv, ItemTypes, Held, Building, ItemType, noItem, Listeners, Reg!Init

\* What the operations of the registry do to the items.
LEMMA Cleared ==
  ASSUME ItemTypes, NEW id \in Ids, NEW p, PoolClose(id, p)
  PROVE  /\ DOMAIN items' = DOMAIN items
         /\ \A k \in DOMAIN items \ {id} : items'[k] = items[k]
         /\ id \in DOMAIN items =>
              items'[id] = Reg!voidRegistryItem /\ closing' = items[id].Listeners
         /\ id \notin DOMAIN items => closing' = {}
BY DEF PoolClose, Reg!Clear, Reg!ItemOf, Reg!Registered, Reg!IsSubscribed, Reg!AssignOne,
       Reg!Assign, Reg!voidRegistryItem, ItemTypes

LEMMA Subscribed ==
  ASSUME NEW id, Reg!Subscribe(id)
  PROVE  \/ items' = items
         \/ /\ id \notin DOMAIN items /\ DOMAIN items' = DOMAIN items \cup {id}
            /\ \A k \in DOMAIN items : items'[k] = items[k]
            /\ items'[id] = Reg!voidRegistryItem
BY DEF Reg!Subscribe, Reg!IsSubscribed, Reg!AssignOne, Reg!Assign

LEMMA Unsubscribed ==
  ASSUME NEW id, Reg!Unsubscribe(id)
  PROVE  /\ DOMAIN items' = DOMAIN items \ {id}
         /\ \A k \in DOMAIN items \ {id} : items'[k] = items[k]
BY DEF Reg!Unsubscribe, Reg!Delete, Reg!Restrict

LEMMA WasSet ==
  ASSUME NEW i, NEW id, Reg!Set(i, id)
  PROVE  /\ id \in DOMAIN items /\ items[id] = Reg!voidRegistryItem
         /\ DOMAIN items' = DOMAIN items
         /\ \A k \in DOMAIN items \ {id} : items'[k] = items[k]
         /\ items'[id] = i
BY DEF Reg!Set, Reg!SetError, Reg!Registered, Reg!IsSubscribed, Reg!AssignOne, Reg!Assign

Early(c) == pc[c] \in {"idle", "admit", "ask", "add", "ping", "replace", "shaking", "await"}

\* A step that moves handlers only keeps every listener where it is, if the
\* handlers that hold listeners are the same.
LEMMA HandlersMove ==
  ASSUME ListenerInv, UNCHANGED <<items, item, listening, closing, returned, todo>>,
         \A c \in Conns : (Building(c)' <=> Building(c)) /\ (Early(c)' => Early(c))
  PROVE  ListenerInv'
BY DEF ListenerInv, ItemTypes, Held, Early

\* One that closes a pooled connection passes the listeners of the client on to
\* the lock's holder.
LEMMA ListenersPassToPool ==
  ASSUME PoolInv, ListenerInv, UNCHANGED <<item, listening, returned, todo>>,
         \A c \in Conns : (Building(c)' <=> Building(c)) /\ (Early(c)' => Early(c)),
         NEW id \in Ids, NEW p, closing = {}, PoolClose(id, p)
  PROVE  ListenerInv'
<1> DEFINE ls == IF id \in DOMAIN items THEN items[id].Listeners ELSE {}
<1>1. /\ DOMAIN items' = DOMAIN items
      /\ \A k \in DOMAIN items \ {id} : items'[k] = items[k]
      /\ id \in DOMAIN items => items'[id] = Reg!voidRegistryItem
      /\ closing' = ls
  BY Cleared DEF ListenerInv
<1>2. Reg!voidRegistryItem \in ItemType /\ Reg!voidRegistryItem.Listeners = {}
  BY DEF Reg!voidRegistryItem, ItemType
<1>3. ItemTypes'
  BY <1>1, <1>2 DEF ListenerInv, ItemTypes, Early
<1>4. Held'
  BY <1>1, <1>2 DEF ListenerInv, Held
<1> QED BY <1>3, <1>4 DEF ListenerInv

LEMMA NextListeners == ASSUME PoolInv, ListenerInv, [Next]_vars PROVE ListenerInv'
<1> USE DEF goto, registryVars, poolVars, handlerVars, embedVars
<1>1. ASSUME NEW c \in Conns,
             \/ AddConn(c) \/ PingOk(c) \/ ReplaceConn(c) \/ SendHandshake(c) \/ HandshakeFails(c)
             \/ NotifyError(c) \/ RejectDeleted(c) \/ Reject(c)
      PROVE ListenerInv'
  <2>1. UNCHANGED <<items, item, listening, closing, returned, todo>>
    BY <1>1 DEF AddConn, PingOk, ReplaceConn, SendHandshake, HandshakeFails, NotifyError,
                RejectDeleted, Reject, Install, InstallFails
  <2>2. \A d \in Conns : (Building(d)' <=> Building(d)) /\ (Early(d)' => Early(d))
    BY <1>1 DEF AddConn, PingOk, ReplaceConn, SendHandshake, HandshakeFails, NotifyError,
                RejectDeleted, Reject, Install, InstallFails, Building, Early, PoolInv, Types
  <2> QED BY <2>1, <2>2, HandlersMove
<1>2. ASSUME NEW c \in Conns, NEW id \in Ids, Accept(c, id) PROVE ListenerInv'
  <2>1. UNCHANGED <<items, item, listening, closing, returned, todo>>
    BY <1>2 DEF Accept
  <2>2. \A d \in Conns : (Building(d)' <=> Building(d)) /\ (Early(d)' => Early(d))
    BY <1>2 DEF Accept, Building, Early, PoolInv, Types
  <2> QED BY <2>1, <2>2, HandlersMove
<1>3. ASSUME NEW c \in Conns, ReadFails(c) \/ MarkedDead(c) \/ Lose(c) \/ GoAway(c)
      PROVE ListenerInv'
  BY <1>3, HandlersMove DEF ReadFails, MarkedDead, Lose, GoAway, Building, Early
<1>4. ASSUME NEW id \in Ids, UnsubscribeDeleted(id) \/ Ping(id) PROVE ListenerInv'
  BY <1>4, HandlersMove DEF UnsubscribeDeleted, Ping, Building, Early
<1>5. ASSUME Stop \/ UNCHANGED vars PROVE ListenerInv'
  BY <1>5, HandlersMove DEF Stop, vars, Building, Early
<1>6. ASSUME NEW id, Reg!Subscribe(id), id \in Ids,
             UNCHANGED <<item, listening, closing, returned, todo>>,
             \A d \in Conns : (Building(d)' <=> Building(d)) /\ (Early(d)' => Early(d))
      PROVE ListenerInv'
  <2>1. Reg!voidRegistryItem \in ItemType /\ Reg!voidRegistryItem.Listeners = {}
    BY DEF Reg!voidRegistryItem, ItemType
  <2>2. CASE items' = items
    BY <1>6, <2>2, HandlersMove
  <2>3. CASE items' # items
    <3>1. /\ id \notin DOMAIN items /\ DOMAIN items' = DOMAIN items \cup {id}
          /\ \A k \in DOMAIN items : items'[k] = items[k]
          /\ items'[id] = Reg!voidRegistryItem
      BY <1>6, <2>3, Subscribed
    <3>2. ItemTypes'
      BY <1>6, <2>1, <3>1 DEF ListenerInv, ItemTypes, Early
    <3>3. Held'
      BY <1>6, <2>1, <3>1 DEF ListenerInv, Held
    <3> QED BY <3>2, <3>3 DEF ListenerInv
  <2> QED BY <2>2, <2>3
<1>7. ASSUME NEW c \in Conns, Admit(c) \/ Ask(c) PROVE ListenerInv'
  <2>1. ident[c] \in Ids
    BY <1>7 DEF Admit, Ask, PoolInv, Types
  <2>2. UNCHANGED <<item, listening, closing, returned, todo>>
    BY <1>7 DEF Admit, Ask
  <2>3. \A d \in Conns : (Building(d)' <=> Building(d)) /\ (Early(d)' => Early(d))
    BY <1>7 DEF Admit, Ask, Building, Early, PoolInv, Types
  <2>4. UNCHANGED items \/ Reg!Subscribe(ident[c])
    BY <1>7 DEF Admit, Ask
  <2> QED BY <2>1, <2>2, <2>3, <2>4, <1>6, HandlersMove
<1>8. ASSUME NEW id \in Ids, Subscribe(id) PROVE ListenerInv'
  BY <1>8, <1>6 DEF Subscribe, Building, Early
<1>9. ASSUME NEW c \in Conns, PingFails(c) PROVE ListenerInv'
  <2>1. ident[c] \in Ids /\ closing = {} /\ PoolClose(ident[c], handler(c))
    BY <1>9 DEF PingFails, PoolInv, Types, Lock
  <2>2. UNCHANGED <<item, listening, returned, todo>>
    BY <1>9 DEF PingFails
  <2>3. \A d \in Conns : (Building(d)' <=> Building(d)) /\ (Early(d)' => Early(d))
    BY <1>9 DEF PingFails, Building, Early, PoolInv, Types
  <2> QED BY <2>1, <2>2, <2>3, ListenersPassToPool
<1>10. ASSUME NEW c \in Conns, RejectDelete(c) PROVE ListenerInv'
  <2>1. ident[c] \in Ids /\ closing = {}
    BY <1>10 DEF RejectDelete, DeleteConn, Unlocked, PoolInv, Types, Lock
  <2>2. UNCHANGED <<item, listening, returned, todo>>
    BY <1>10 DEF RejectDelete
  <2>3. \A d \in Conns : (Building(d)' <=> Building(d)) /\ (Early(d)' => Early(d))
    BY <1>10 DEF RejectDelete, Building, Early, PoolInv, Types
  <2>4. PoolClose(ident[c], handler(c)) \/ UNCHANGED <<items, closing>>
    BY <1>10 DEF RejectDelete, DeleteConn
  <2> QED BY <2>1, <2>2, <2>3, <2>4, ListenersPassToPool, HandlersMove
<1>11. ASSUME NEW c \in Conns, MarkDead(c) PROVE ListenerInv'
  <2>1. closing = {}
    BY <1>11 DEF MarkDead, Unlocked, PoolInv, Lock
  <2>2. UNCHANGED <<item, listening, returned, todo, pc>>
    BY <1>11 DEF MarkDead
  <2>3. \A d \in Conns : (Building(d)' <=> Building(d)) /\ (Early(d)' => Early(d))
    BY <2>2 DEF Building, Early
  <2>4. \/ ident[c] \in Ids /\ PoolClose(ident[c], readLoop(c))
        \/ UNCHANGED <<items, closing>>
    BY <1>11 DEF MarkDead, Pooled, PoolInv, Types
  <2> QED BY <2>1, <2>2, <2>3, <2>4, ListenersPassToPool, HandlersMove
<1>12. ASSUME NEW id \in Ids, UnsubscribeConn(id) PROVE ListenerInv'
  <2>1. closing = {}
    BY <1>12 DEF UnsubscribeConn, DeleteConn, Unlocked, PoolInv, Lock
  <2>2. UNCHANGED <<item, listening, returned, todo, pc>>
    BY <1>12 DEF UnsubscribeConn
  <2>3. \A d \in Conns : (Building(d)' <=> Building(d)) /\ (Early(d)' => Early(d))
    BY <2>2 DEF Building, Early
  <2>4. PoolClose(id, caller(id)) \/ UNCHANGED <<items, closing>>
    BY <1>12 DEF UnsubscribeConn, DeleteConn
  <2> QED BY <2>1, <2>2, <2>3, <2>4, ListenersPassToPool, HandlersMove
<1>13. ASSUME NEW c \in Conns, HandshakeReply(c) PROVE ListenerInv'
  <2>1. PICK batch \in Batches : todo' = [todo EXCEPT ![c] = batch]
    BY <1>13 DEF HandshakeReply
  <2>2. /\ pc[c] = "await" /\ pc' = [pc EXCEPT ![c] = "open"]
        /\ UNCHANGED <<items, item, listening, closing, returned>>
    BY <1>13 DEF HandshakeReply
  <2>3. item[c].Listeners = {}
    BY <2>2 DEF ListenerInv, ItemTypes
  <2>4. ItemTypes'
    BY <2>1, <2>2, BatchesAssumption DEF ListenerInv, ItemTypes, PoolInv, Types
  <2>5. Held'
    BY <2>2, <2>3 DEF ListenerInv, Held, Building, PoolInv, Types
  <2> QED BY <2>4, <2>5 DEF ListenerInv
<1>14. ASSUME NEW c \in Conns, OpenFails(c) PROVE ListenerInv'
  <2>1. /\ pc[c] = "open" /\ pc' = [pc EXCEPT ![c] = "rollback"]
        /\ todo' = [todo EXCEPT ![c] = {}]
        /\ UNCHANGED <<items, item, listening, closing, returned>>
    BY <1>14 DEF OpenFails
  <2>2. ItemTypes'
    BY <2>1 DEF ListenerInv, ItemTypes, PoolInv, Types
  <2>3. Held'
    BY <2>1 DEF ListenerInv, Held, Building, PoolInv, Types
  <2> QED BY <2>2, <2>3 DEF ListenerInv
\* A new listener has an address that no open one has, so nobody holds it yet.
<1>15. ASSUME NEW c \in Conns, OpenTunnel(c) PROVE ListenerInv'
  <2>1. PICK t \in todo[c] :
          /\ todo' = [todo EXCEPT ![c] = @ \ {t}]
          /\ \/ /\ t.proto = "http"
                /\ item' = [item EXCEPT ![c].Hosts = @ \cup {t.arg}]
                /\ UNCHANGED listening
             \/ /\ t.proto = "listen"
                /\ \A l \in listening : l[2] # t.arg
                /\ item' = [item EXCEPT ![c].Listeners = @ \cup {<<c, t.arg>>}]
                /\ listening' = listening \cup {<<c, t.arg>>}
    BY <1>15 DEF OpenTunnel
  <2>2. pc[c] = "open" /\ UNCHANGED <<items, pc, closing, returned>>
    BY <1>15 DEF OpenTunnel
  <2>3. item[c] \in ItemType /\ t \in Tunnel
    BY DEF ListenerInv, ItemTypes
  <2>4. CASE /\ t.proto = "http"
             /\ item' = [item EXCEPT ![c].Hosts = @ \cup {t.arg}]
             /\ UNCHANGED listening
    <3>1. t.arg \in Reg!HostAuth
      BY <2>3, <2>4 DEF Tunnel, HTTPTunnel, ListenTunnel
    <3>2. /\ item'[c] \in ItemType /\ item'[c].Listeners = item[c].Listeners
          /\ \A d \in Conns \ {c} : item'[d] = item[d]
      BY <2>3, <2>4, <3>1 DEF ListenerInv, ItemTypes, ItemType
    <3>3. ItemTypes'
      BY <2>1, <2>2, <2>4, <3>2 DEF ListenerInv, ItemTypes
    <3>4. Held'
      BY <2>2, <2>4, <3>2 DEF ListenerInv, Held, Building
    <3> QED BY <3>3, <3>4 DEF ListenerInv
  <2>5. CASE /\ t.proto = "listen"
             /\ \A l \in listening : l[2] # t.arg
             /\ item' = [item EXCEPT ![c].Listeners = @ \cup {<<c, t.arg>>}]
             /\ listening' = listening \cup {<<c, t.arg>>}
    <3> DEFINE new == <<c, t.arg>>
    <3>1. t.arg \in Addrs
      BY <2>3, <2>5 DEF Tunnel, HTTPTunnel, ListenTunnel
    <3>2. new \in Listeners /\ new \notin listening
      BY <2>5, <3>1 DEF Listeners
    <3>3. /\ item'[c] \in ItemType /\ item'[c].Listeners = item[c].Listeners \cup {new}
          /\ \A d \in Conns \ {c} : item'[d] = item[d]
      BY <2>3, <2>5, <3>2 DEF ListenerInv, ItemTypes, ItemType
    <3>4. ItemTypes'
      BY <2>1, <2>2, <2>5, <3>3 DEF ListenerInv, ItemTypes
    <3>5. listening' = listening \cup {new}
      BY <2>5
    <3> HIDE DEF new
    <3>6. Held'
      BY <2>2, <3>2, <3>3, <3>5 DEF ListenerInv, Held, Building
    <3> QED BY <3>4, <3>6 DEF ListenerInv
  <2> QED BY <2>1, <2>4, <2>5
<1>16. ASSUME NEW c \in Conns, SetTunnels(c) PROVE ListenerInv'
  <2>1. pc[c] = "open" /\ UNCHANGED <<item, todo, listening, closing, returned>>
    BY <1>16 DEF SetTunnels
  <2>2. CASE UNCHANGED items /\ pc' = [pc EXCEPT ![c] = "rollback"]
    BY <2>1, <2>2, HandlersMove DEF Building, Early, PoolInv, Types
  <2>3. CASE Reg!Set(item[c], ident[c]) /\ pc' = [pc EXCEPT ![c] = "connected"]
    <3>1. /\ ident[c] \in DOMAIN items /\ items[ident[c]].Listeners = {}
          /\ DOMAIN items' = DOMAIN items
          /\ \A k \in DOMAIN items \ {ident[c]} : items'[k] = items[k]
          /\ items'[ident[c]] = item[c]
      BY <2>3, WasSet DEF Reg!voidRegistryItem
    <3>2. ItemTypes'
      BY <2>1, <2>3, <3>1 DEF ListenerInv, ItemTypes, PoolInv, Types
    <3>3. Held'
      BY <2>1, <2>3, <3>1 DEF ListenerInv, Held, Building, PoolInv, Types
    <3> QED BY <3>2, <3>3 DEF ListenerInv
  <2> QED BY <1>16, <2>2, <2>3 DEF SetTunnels
<1>17. ASSUME NEW c \in Conns, Rollback(c) PROVE ListenerInv'
  <2>1. pc[c] = "rollback" /\ UNCHANGED <<items, todo, closing, returned>>
    BY <1>17 DEF Rollback
  <2>2. item[c] \in ItemType
    BY DEF ListenerInv, ItemTypes
  <2>3. ASSUME NEW l \in item[c].Listeners,
               listening' = listening \ {l},
               item' = [item EXCEPT ![c].Listeners = @ \ {l}],
               UNCHANGED pc
        PROVE ListenerInv'
    <3>1. /\ item'[c] \in ItemType /\ item'[c].Listeners = item[c].Listeners \ {l}
          /\ \A d \in Conns \ {c} : item'[d] = item[d]
      BY <2>2, <2>3 DEF ListenerInv, ItemTypes, ItemType
    <3>2. ItemTypes'
      BY <2>1, <2>3, <3>1 DEF ListenerInv, ItemTypes
    <3>3. Held'
      BY <2>1, <2>3, <3>1 DEF ListenerInv, Held, Building
    <3> QED BY <3>2, <3>3 DEF ListenerInv
  <2>4. CASE /\ item[c].Listeners = {}
             /\ item' = [item EXCEPT ![c] = noItem]
             /\ pc' = [pc EXCEPT ![c] = "notify"]
             /\ UNCHANGED listening
    <3>1. noItem \in ItemType
      BY DEF noItem, ItemType
    <3>2. ItemTypes'
      BY <2>1, <2>4, <3>1 DEF ListenerInv, ItemTypes, PoolInv, Types
    <3>3. Held'
      BY <2>1, <2>4 DEF ListenerInv, ItemTypes, Held, Building, PoolInv, Types
    <3> QED BY <3>2, <3>3 DEF ListenerInv
  <2> QED BY <1>17, <2>3, <2>4 DEF Rollback
<1>18. ASSUME NEW c \in Conns, Recycle(c) PROVE ListenerInv'
  <2>1. /\ pc[c] \in {"connected", "rejected"} /\ pc' = [pc EXCEPT ![c] = "idle"]
        /\ item' = [item EXCEPT ![c] = noItem]
        /\ UNCHANGED <<items, todo, listening, closing, returned>>
    BY <1>18 DEF Recycle
  <2>2. noItem \in ItemType /\ noItem.Listeners = {}
    BY DEF noItem, ItemType
  <2>3. ItemTypes'
    BY <2>1, <2>2 DEF ListenerInv, ItemTypes, PoolInv, Types
  <2>4. Held'
    BY <2>1 DEF ListenerInv, ItemTypes, Held, Building, PoolInv, Types
  <2> QED BY <2>3, <2>4 DEF ListenerInv
<1>19. ASSUME NEW id \in Ids, UnsubscribeItem(id) PROVE ListenerInv'
  <2>1. /\ UNCHANGED <<item, todo, pc, listening, closing>>
        /\ returned' = returned \cup Reg!ItemOf(id).Listeners
    BY <1>19 DEF UnsubscribeItem
  <2>2. /\ DOMAIN items' = DOMAIN items \ {id}
        /\ \A k \in DOMAIN items \ {id} : items'[k] = items[k]
    BY <1>19, Unsubscribed DEF UnsubscribeItem
  <2>3. /\ id \in DOMAIN items => Reg!ItemOf(id).Listeners = items[id].Listeners
        /\ id \notin DOMAIN items => Reg!ItemOf(id).Listeners = {}
    BY DEF Reg!ItemOf, Reg!IsSubscribed, Reg!voidRegistryItem
  <2>4. ItemTypes'
    BY <2>1, <2>2 DEF ListenerInv, ItemTypes
  <2>5. Held'
    BY <2>1, <2>2, <2>3 DEF ListenerInv, Held, Building
  <2> QED BY <2>4, <2>5 DEF ListenerInv
<1>20. ASSUME CloseListener PROVE ListenerInv'
  <2>1. PICK l \in closing : closing' = closing \ {l} /\ listening' = listening \ {l}
    BY <1>20 DEF CloseListener
  <2>2. UNCHANGED <<items, item, todo, pc, returned>>
    BY <1>20 DEF CloseListener
  <2>3. ItemTypes'
    BY <2>2 DEF ListenerInv, ItemTypes
  <2>4. Held'
    BY <2>1, <2>2 DEF ListenerInv, Held, Building
  <2> QED BY <2>3, <2>4 DEF ListenerInv
<1> QED BY <1>1, <1>2, <1>3, <1>4, <1>5, <1>7, <1>8, <1>9, <1>10, <1>11, <1>12, <1>13, <1>14,
           <1>15, <1>16, <1>17, <1>18, <1>19, <1>20
        DEF Next, Handler, ReadLoop, Environment, Caller

LEMMA ListenersInductive == Spec => []ListenerInv
<1>1. PoolInv /\ ListenerInv /\ [Next]_vars => ListenerInv'
  BY NextListeners
<1> QED BY InitListeners, PoolInductive, <1>1, PTL DEF Spec

\* Whatever connects, fails, is evicted or unsubscribed in between: every open
\* listener is one party's to close, and no listener is closed twice.
THEOREM ListenersHaveOneHolderAlways == Spec => []ListenersHaveOneHolder
<1>1. ListenerInv => ListenersHaveOneHolder
  <2> SUFFICES ASSUME ListenerInv, NEW l \in Listeners
               PROVE  /\ l \in listening <=> Holders(l) # {}
                      /\ \A x, y \in Holders(l) : x = y
    BY DEF ListenersHaveOneHolder
  <2>1. \A x : x \in Holders(l) <=>
          \/ \E c \in Conns : x = <<"handler", c>> /\ Building(c) /\ l \in item[c].Listeners
          \/ \E id \in DOMAIN items : x = <<"client", id>> /\ l \in items[id].Listeners
          \/ x = <<"pool", Nobody>> /\ l \in closing
          \/ x = <<"returned", Nobody>> /\ l \in returned
    BY DEF Holders, Building, handler
  <2>2. l \in listening <=> \E x : x \in Holders(l)
    <3>1. l \in listening <=> \/ \E c \in Conns : Building(c) /\ l \in item[c].Listeners
                              \/ \E id \in DOMAIN items : l \in items[id].Listeners
                              \/ l \in closing
                              \/ l \in returned
      BY DEF ListenerInv, Held
    <3> QED BY <2>1, <3>1
  <2>3. ASSUME NEW x \in Holders(l), NEW y \in Holders(l) PROVE x = y
    BY <2>1, <2>3 DEF ListenerInv, Held
  <2> QED BY <2>2, <2>3
<1> QED BY ListenersInductive, <1>1, PTL

-----------------------------------------------------------------------------
(* Without calls of Unsubscribe a registration lasts as long as the pooled   *)
(* connection.                                                               *)

Served ==
  /\ \A id \in Ids : admin[id] = "idle"
  /\ \A c \in Conns : pc[c] = "open" => todo[c] # {} \/ item[c] # noItem
  /\ \A c \in Conns : Connected(c) =>
       ident[c] \in DOMAIN items /\ items[ident[c]] = item[c] /\ item[c] # noItem

\* A step that neither connects a handler nor touches what is registered for one
\* that is connected.
LEMMA ServedStays ==
  ASSUME Served, UNCHANGED <<admin, todo, item>>,
         \A c \in Conns : pc'[c] = "open" => pc[c] = "open",
         \A c \in Conns : Connected(c)' => Connected(c) /\ ident'[c] = ident[c],
         \A id \in DOMAIN items : (\E c \in Conns : Connected(c)' /\ ident[c] = id) =>
           id \in DOMAIN items' /\ items'[id] = items[id]
  PROVE  Served'
BY DEF Served

\* The registration goes with the connection.
LEMMA ServedUntilClosed ==
  ASSUME PoolInv, ListenerInv, Served, UNCHANGED <<admin, todo, item, ident>>,
         NEW id \in Ids, NEW p, PoolClose(id, p),
         \A c \in Conns : pc'[c] \in {"open", "connected"} => pc[c] = pc'[c]
  PROVE  Served'
<1>1. /\ DOMAIN conns' = DOMAIN conns \ {id}
      /\ \A k \in DOMAIN conns \ {id} : conns'[k] = conns[k]
  BY Close
<1>2. /\ DOMAIN items' = DOMAIN items
      /\ \A k \in DOMAIN items \ {id} : items'[k] = items[k]
  BY Cleared DEF ListenerInv
<1>3. \A c \in Conns : Connected(c)' => Connected(c) /\ ident[c] # id
  BY <1>1 DEF Connected, Pooled
<1> QED BY <1>2, <1>3, ServedStays

LEMMA NextServed == ASSUME ~Embedded, PoolInv, ListenerInv, Served, [Next]_vars PROVE Served'
<1> USE DEF goto, registryVars, poolVars, handlerVars, embedVars
<1>1. ASSUME NEW c \in Conns,
             \/ PingOk(c) \/ SendHandshake(c) \/ HandshakeFails(c)
             \/ NotifyError(c) \/ RejectDeleted(c) \/ Reject(c)
      PROVE Served'
  <2>1. UNCHANGED <<admin, todo, item, items, conns, ident>>
    BY <1>1 DEF PingOk, SendHandshake, HandshakeFails, NotifyError, RejectDeleted, Reject
  <2>2. \A d \in Conns : pc'[d] \in {"open", "connected"} => pc[d] = pc'[d]
    BY <1>1 DEF PingOk, SendHandshake, HandshakeFails, NotifyError, RejectDeleted, Reject,
                PoolInv, Types
  <2> QED BY <2>1, <2>2, ServedStays DEF Connected, Pooled
<1>2. ASSUME NEW c \in Conns, AddConn(c) \/ ReplaceConn(c) PROVE Served'
  <2>1. UNCHANGED <<admin, todo, item, items, ident>>
    BY <1>2 DEF AddConn, ReplaceConn
  <2>2. /\ pc'[c] \notin {"open", "connected"}
        /\ \A d \in Conns \ {c} : pc'[d] = pc[d]
    BY <1>2 DEF AddConn, ReplaceConn, Install, InstallFails, PoolInv, Types
  <2>3. CASE UNCHANGED conns
    BY <2>1, <2>2, <2>3, ServedStays DEF Connected, Pooled
  <2>4. CASE Install(c)
    <3>1. /\ DOMAIN conns' = DOMAIN conns \cup {ident[c]} /\ conns'[ident[c]] = c
          /\ \A k \in DOMAIN conns \ {ident[c]} : conns'[k] = conns[k]
      BY <2>4, Added
    <3>2. \A d \in Conns : Connected(d)' => Connected(d)
      BY <2>1, <2>2, <3>1 DEF Connected, Pooled
    <3> QED BY <2>1, <2>2, <3>2, ServedStays
  <2> QED BY <1>2, <2>3, <2>4 DEF AddConn, ReplaceConn, InstallFails
<1>3. ASSUME NEW c \in Conns, NEW id \in Ids, Accept(c, id) PROVE Served'
  <2>1. UNCHANGED <<admin, todo, item, items, conns>>
    BY <1>3 DEF Accept
  <2>2. /\ pc'[c] = "admit"
        /\ \A d \in Conns \ {c} : pc'[d] = pc[d] /\ ident'[d] = ident[d]
    BY <1>3 DEF Accept, PoolInv, Types
  <2> QED BY <2>1, <2>2, ServedStays DEF Connected, Pooled
<1>4. ASSUME NEW c \in Conns, ReadFails(c) \/ MarkedDead(c) \/ Lose(c) \/ GoAway(c) PROVE Served'
  BY <1>4, ServedStays DEF ReadFails, MarkedDead, Lose, GoAway, Connected, Pooled
<1>5. ASSUME Stop \/ CloseListener \/ UNCHANGED vars PROVE Served'
  BY <1>5, ServedStays DEF Stop, CloseListener, vars, Connected, Pooled
\* Nobody calls Ping or Unsubscribe.
<1>6. ASSUME NEW id \in Ids, Caller(id) \/ UnsubscribeConn(id) PROVE FALSE
  BY <1>6 DEF Caller, UnsubscribeConn, UnsubscribeDeleted, UnsubscribeItem, Ping, Served
<1>7. ASSUME NEW id \in Ids, Reg!Subscribe(id), UNCHANGED <<admin, todo, item, conns, ident>>,
             \A d \in Conns : pc'[d] \in {"open", "connected"} => pc[d] = pc'[d]
      PROVE Served'
  <2>1. \A k \in DOMAIN items : k \in DOMAIN items' /\ items'[k] = items[k]
    BY <1>7, Subscribed
  <2> QED BY <1>7, <2>1, ServedStays DEF Connected, Pooled
<1>8. ASSUME NEW c \in Conns, Admit(c) \/ Ask(c) PROVE Served'
  <2>1. ident[c] \in Ids
    BY <1>8 DEF Admit, Ask, PoolInv, Types
  <2>2. UNCHANGED <<admin, todo, item, conns, ident>>
    BY <1>8 DEF Admit, Ask
  <2>3. \A d \in Conns : pc'[d] \in {"open", "connected"} => pc[d] = pc'[d]
    BY <1>8 DEF Admit, Ask, PoolInv, Types
  <2>4. CASE UNCHANGED items
    BY <2>2, <2>3, <2>4, ServedStays DEF Connected, Pooled
  <2>5. UNCHANGED items \/ Reg!Subscribe(ident[c])
    BY <1>8 DEF Admit, Ask
  <2> QED BY <2>1, <2>2, <2>3, <2>4, <2>5, <1>7
<1>9. ASSUME NEW id \in Ids, Subscribe(id) PROVE Served'
  BY <1>9, <1>7 DEF Subscribe
<1>10. ASSUME NEW c \in Conns, PingFails(c) \/ RejectDelete(c) PROVE Served'
  <2>1. ident[c] \in Ids /\ UNCHANGED <<admin, todo, item, ident>>
    BY <1>10 DEF PingFails, RejectDelete, PoolInv, Types
  <2>2. \A d \in Conns : pc'[d] \in {"open", "connected"} => pc[d] = pc'[d]
    BY <1>10 DEF PingFails, RejectDelete, PoolInv, Types
  <2>3. CASE UNCHANGED <<conns, items>>
    BY <2>1, <2>2, <2>3, ServedStays DEF Connected, Pooled
  <2>4. PoolClose(ident[c], handler(c)) \/ UNCHANGED <<conns, items>>
    BY <1>10 DEF PingFails, RejectDelete, DeleteConn
  <2> QED BY <2>1, <2>2, <2>3, <2>4, ServedUntilClosed
<1>11. ASSUME NEW c \in Conns, MarkDead(c) PROVE Served'
  <2>1. UNCHANGED <<admin, todo, item, ident, pc>>
    BY <1>11 DEF MarkDead
  <2>2. CASE UNCHANGED <<conns, items>>
    BY <2>1, <2>2, ServedStays DEF Connected, Pooled
  <2>3. \/ ident[c] \in Ids /\ PoolClose(ident[c], readLoop(c))
        \/ UNCHANGED <<conns, items>>
    BY <1>11 DEF MarkDead, Pooled, PoolInv, Types
  <2> QED BY <2>1, <2>2, <2>3, ServedUntilClosed
<1>12. ASSUME NEW c \in Conns, HandshakeReply(c) PROVE Served'
  <2>1. PICK batch \in Batches : todo' = [todo EXCEPT ![c] = batch]
    BY <1>12 DEF HandshakeReply
  <2>2. /\ pc' = [pc EXCEPT ![c] = "open"]
        /\ UNCHANGED <<admin, item, items, conns, ident>>
    BY <1>12 DEF HandshakeReply
  <2>3. todo'[c] # {} /\ \A d \in Conns \ {c} : todo'[d] = todo[d]
    BY <2>1, BatchesAssumption DEF ListenerInv, ItemTypes
  <2>4. pc'[c] = "open" /\ \A d \in Conns \ {c} : pc'[d] = pc[d]
    BY <2>2 DEF PoolInv, Types
  <2> QED BY <2>2, <2>3, <2>4 DEF Served, Connected, Pooled
<1>13. ASSUME NEW c \in Conns, OpenFails(c) PROVE Served'
  <2>1. /\ pc' = [pc EXCEPT ![c] = "rollback"]
        /\ todo' = [todo EXCEPT ![c] = {}]
        /\ UNCHANGED <<admin, item, items, conns, ident>>
    BY <1>13 DEF OpenFails
  <2> QED BY <2>1 DEF Served, Connected, Pooled, PoolInv, Types, ListenerInv, ItemTypes
<1>14. ASSUME NEW c \in Conns, OpenTunnel(c) PROVE Served'
  <2>1. pc[c] = "open" /\ UNCHANGED <<admin, pc, items, conns, ident>>
    BY <1>14 DEF OpenTunnel
  <2>2. PICK x : \/ item' = [item EXCEPT ![c].Hosts = @ \cup {x}]
                 \/ item' = [item EXCEPT ![c].Listeners = @ \cup {x}]
    BY <1>14 DEF OpenTunnel
  <2>3. item[c] \in ItemType
    BY DEF ListenerInv, ItemTypes
  <2>4. x \in item'[c].Hosts \/ x \in item'[c].Listeners
    BY <2>2, <2>3 DEF ListenerInv, ItemTypes, ItemType
  <2>5. item'[c] # noItem
    BY <2>4 DEF noItem
  <2>6. \A d \in Conns \ {c} : item'[d] = item[d] /\ todo'[d] = todo[d]
    BY <1>14 DEF OpenTunnel, ListenerInv, ItemTypes
  <2> QED BY <2>1, <2>5, <2>6 DEF Served, Connected, Pooled
<1>15. ASSUME NEW c \in Conns, SetTunnels(c) PROVE Served'
  <2>1. /\ pc[c] = "open" /\ todo[c] = {}
        /\ UNCHANGED <<admin, todo, item, conns, ident>>
    BY <1>15 DEF SetTunnels
  <2>2. item[c] # noItem
    BY <2>1 DEF Served
  <2>3. CASE UNCHANGED items /\ pc' = [pc EXCEPT ![c] = "rollback"]
    <3>1. \A d \in Conns : pc'[d] \in {"open", "connected"} => pc[d] = pc'[d]
      BY <2>3 DEF PoolInv, Types
    <3> QED BY <2>1, <2>3, <3>1, ServedStays DEF Connected, Pooled
  <2>4. CASE Reg!Set(item[c], ident[c]) /\ pc' = [pc EXCEPT ![c] = "connected"]
    <3>1. /\ ident[c] \in DOMAIN items /\ items[ident[c]] = noItem
          /\ DOMAIN items' = DOMAIN items
          /\ \A k \in DOMAIN items \ {ident[c]} : items'[k] = items[k]
          /\ items'[ident[c]] = item[c]
      BY <2>4, WasSet DEF Reg!voidRegistryItem, noItem
    <3>2. \A d \in Conns : Connected(d) => ident[d] # ident[c]
      BY <3>1 DEF Served
    <3>3. pc'[c] = "connected" /\ \A d \in Conns \ {c} : pc'[d] = pc[d]
      BY <2>4 DEF PoolInv, Types
    <3> QED BY <2>1, <2>2, <3>1, <3>2, <3>3 DEF Served, Connected, Pooled
  <2> QED BY <1>15, <2>3, <2>4 DEF SetTunnels
<1>16. ASSUME NEW c \in Conns, Rollback(c) \/ Recycle(c) PROVE Served'
  <2>1. /\ UNCHANGED <<admin, todo, items, conns>>
        /\ pc'[c] \notin {"open", "connected"}
    BY <1>16 DEF Rollback, Recycle, PoolInv, Types
  <2>2. \A d \in Conns \ {c} : pc'[d] = pc[d] /\ ident'[d] = ident[d] /\ item'[d] = item[d]
    BY <1>16 DEF Rollback, Recycle, PoolInv, Types, ListenerInv, ItemTypes
  <2> QED BY <2>1, <2>2 DEF Served, Connected, Pooled
<1> QED BY <1>1, <1>2, <1>3, <1>4, <1>5, <1>6, <1>8, <1>9, <1>10, <1>11, <1>12, <1>13, <1>14,
           <1>15, <1>16
        DEF Next, Handler, ReadLoop, Environment

\* In tunneld, which never unsubscribes, a client that is connected is served:
\* the registry has what its handler registered, and the listeners are open.
THEOREM ConnectedIsServedAlways == ASSUME ~Embedded PROVE Spec => []ConnectedIsServed
<1>1. Init => Served
  BY DEF Init, Served, Connected, Pooled
<1>2. PoolInv /\ ListenerInv /\ Served /\ [Next]_vars => Served'
  BY NextServed
<1>3. ListenerInv /\ Served => ConnectedIsServed
  <2> SUFFICES ASSUME ListenerInv, Served, NEW c \in Conns, Connected(c)
               PROVE  /\ Reg!Registered(ident[c]) /\ items[ident[c]] = item[c]
                      /\ item[c].Listeners \subseteq listening
    BY DEF ConnectedIsServed
  <2>1. ident[c] \in DOMAIN items /\ items[ident[c]] = item[c] /\ item[c] # noItem
    BY DEF Served
  <2>2. Reg!Registered(ident[c])
    BY <2>1 DEF Reg!Registered, Reg!IsSubscribed, Reg!voidRegistryItem, noItem
  <2>3. item[c].Listeners \subseteq Listeners
    BY DEF ListenerInv, ItemTypes, ItemType
  <2>4. item[c].Listeners \subseteq listening
    BY <2>1, <2>3 DEF ListenerInv, Held
  <2> QED BY <2>1, <2>2, <2>4
<1> QED BY PoolInductive, ListenersInductive, <1>1, <1>2, <1>3, PTL DEF Spec

-----------------------------------------------------------------------------
(* The remaining types.                                                      *)

HostTypes ==
  /\ DOMAIN hosts \subseteq Reg!TrimmedNames
  /\ \A n \in DOMAIN hosts : hosts[n] \in Reg!hostInfo

LEMMA HostsDeleted ==
  ASSUME HostTypes, NEW S, hosts' = Reg!Delete(hosts, S)
  PROVE  HostTypes'
BY DEF HostTypes, Reg!Delete, Reg!Restrict

LEMMA HostsAdded ==
  ASSUME HostTypes, NEW id \in Ids, NEW i \in ItemType, Reg!Set(i, id)
  PROVE  HostTypes'
<1>1. \A h \in i.Hosts : h.Host \in Reg!HostPort /\ h.Auth \in Auths \cup {NoAuth}
  BY DEF Reg!Set, Reg!SetError, ItemType, Reg!HostAuth
<1>2. PICK added \in Reg!HostInfos(i, id) : hosts' = Reg!Assign(hosts, added)
  BY DEF Reg!Set
<1>3. PICK last \in [Reg!Trimmed(i.Hosts) -> i.Hosts] :
        added = [n \in Reg!Trimmed(i.Hosts) |-> [identifier |-> id, auth |-> last[n].Auth]]
  BY DEF Reg!HostInfos
<1>4. /\ DOMAIN added \subseteq Reg!TrimmedNames
      /\ \A n \in DOMAIN added : added[n] \in Reg!hostInfo
  BY <1>1, <1>3 DEF Reg!Trimmed, Reg!TrimmedNames, Reg!hostInfo
<1>5. /\ DOMAIN hosts' = DOMAIN hosts \cup DOMAIN added
      /\ \A n \in DOMAIN added : hosts'[n] = added[n]
      /\ \A n \in DOMAIN hosts \ DOMAIN added : hosts'[n] = hosts[n]
  BY <1>2 DEF Reg!Assign
<1> QED BY <1>4, <1>5 DEF HostTypes

MoreTypes ==
  /\ HostTypes
  /\ mu \in {Nobody} \cup {handler(c) : c \in Conns} \cup {readLoop(c) : c \in Conns}
             \cup {caller(id) : id \in Ids}
  /\ closing \subseteq Listeners /\ listening \subseteq Listeners /\ returned \subseteq Listeners
  /\ via \in [Conns -> Conns]
  /\ accepting \in BOOLEAN

LEMMA ClosedTypes ==
  ASSUME ListenerInv, MoreTypes, NEW id \in Ids, NEW p, PoolClose(id, p)
  PROVE  closing' \subseteq Listeners /\ HostTypes' /\ mu' = p
<1>1. closing' \subseteq Listeners
  BY Cleared DEF ListenerInv, ItemTypes, ItemType
<1>2. HostTypes'
  BY HostsDeleted DEF PoolClose, Reg!Clear, MoreTypes
<1> QED BY <1>1, <1>2 DEF PoolClose

LEMMA NextMoreTypes == ASSUME PoolInv, ListenerInv, MoreTypes, [Next]_vars PROVE MoreTypes'
<1> USE DEF goto, registryVars, poolVars, handlerVars, embedVars
<1>1. ASSUME NEW c \in Conns,
             \/ AddConn(c) \/ PingOk(c) \/ ReplaceConn(c) \/ HandshakeReply(c) \/ HandshakeFails(c)
             \/ OpenFails(c) \/ Rollback(c) \/ NotifyError(c) \/ RejectDeleted(c) \/ Reject(c)
      PROVE MoreTypes'
  <2>1. UNCHANGED <<hosts, closing, returned, accepting>>
    BY <1>1 DEF AddConn, PingOk, ReplaceConn, HandshakeReply, HandshakeFails, OpenFails,
                Rollback, NotifyError, RejectDeleted, Reject
  <2>2. mu' \in {mu, Nobody, handler(c)}
    BY <1>1 DEF AddConn, PingOk, ReplaceConn, HandshakeReply, HandshakeFails, OpenFails,
                Rollback, NotifyError, RejectDeleted, Reject, Unlock
  <2>3. listening' \subseteq listening
    BY <1>1 DEF AddConn, PingOk, ReplaceConn, HandshakeReply, HandshakeFails, OpenFails,
                Rollback, NotifyError, RejectDeleted, Reject
  <2>4. via' = via \/ via' = [via EXCEPT ![c] = c]
    BY <1>1 DEF AddConn, PingOk, ReplaceConn, HandshakeReply, HandshakeFails, OpenFails,
                Rollback, NotifyError, RejectDeleted, Reject
  <2> QED BY <2>1, <2>2, <2>3, <2>4 DEF MoreTypes, HostTypes
<1>2. ASSUME NEW c \in Conns, SendHandshake(c) PROVE MoreTypes'
  BY <1>2 DEF SendHandshake, Pooled, PoolInv, Types, MoreTypes, HostTypes
<1>3. ASSUME NEW c \in Conns, Admit(c) \/ Ask(c) PROVE MoreTypes'
  BY <1>3 DEF Admit, Ask, Reg!Subscribe, MoreTypes, HostTypes
<1>4. ASSUME NEW c \in Conns, OpenTunnel(c) PROVE MoreTypes'
  <2>1. \A t \in todo[c] : t.proto = "listen" => t.arg \in Addrs
    BY DEF ListenerInv, ItemTypes, Tunnel, HTTPTunnel, ListenTunnel
  <2>2. listening' \subseteq Listeners
    BY <1>4, <2>1 DEF OpenTunnel, Listeners, MoreTypes
  <2>3. UNCHANGED <<hosts, mu, closing, returned, via, accepting>>
    BY <1>4 DEF OpenTunnel
  <2> QED BY <2>2, <2>3 DEF MoreTypes, HostTypes
<1>5. ASSUME NEW c \in Conns, SetTunnels(c) PROVE MoreTypes'
  <2>1. item[c] \in ItemType /\ ident[c] \in Ids
    BY <1>5 DEF SetTunnels, ListenerInv, ItemTypes, PoolInv, Types
  <2>2. Reg!Set(item[c], ident[c]) \/ UNCHANGED hosts
    BY <1>5 DEF SetTunnels
  <2>3. HostTypes'
    BY <2>1, <2>2, HostsAdded DEF MoreTypes, HostTypes
  <2> QED BY <1>5, <2>3 DEF SetTunnels, MoreTypes
<1>6. ASSUME NEW c \in Conns, PingFails(c) \/ RejectDelete(c) \/ MarkDead(c) PROVE MoreTypes'
  <2>1. UNCHANGED <<listening, returned, via, accepting>>
    BY <1>6 DEF PingFails, RejectDelete, MarkDead
  <2>2. \/ ident[c] \in Ids
           /\ (PoolClose(ident[c], handler(c)) \/ PoolClose(ident[c], readLoop(c)))
        \/ UNCHANGED <<hosts, mu, closing>>
    BY <1>6 DEF PingFails, RejectDelete, MarkDead, DeleteConn, Pooled, PoolInv, Types
  <2>3. CASE UNCHANGED <<hosts, mu, closing>>
    BY <2>1, <2>3 DEF MoreTypes, HostTypes
  <2>4. CASE ident[c] \in Ids /\ PoolClose(ident[c], handler(c))
    BY <2>1, <2>4, ClosedTypes DEF MoreTypes
  <2>5. CASE ident[c] \in Ids /\ PoolClose(ident[c], readLoop(c))
    BY <2>1, <2>5, ClosedTypes DEF MoreTypes
  <2> QED BY <2>2, <2>3, <2>4, <2>5
<1>7. ASSUME NEW c \in Conns, NEW id \in Ids, Accept(c, id) PROVE MoreTypes'
  BY <1>7 DEF Accept, MoreTypes, HostTypes
<1>8. ASSUME NEW c \in Conns,
             ReadFails(c) \/ MarkedDead(c) \/ Lose(c) \/ GoAway(c) \/ Recycle(c)
      PROVE MoreTypes'
  BY <1>8 DEF ReadFails, MarkedDead, Lose, GoAway, Recycle, Unlock, MoreTypes, HostTypes
<1>9. ASSUME NEW id \in Ids, Subscribe(id) \/ UnsubscribeDeleted(id) \/ Ping(id)
      PROVE MoreTypes'
  BY <1>9 DEF Subscribe, UnsubscribeDeleted, Ping, Unlock, Reg!Subscribe, MoreTypes, HostTypes
<1>10. ASSUME NEW id \in Ids, UnsubscribeConn(id) PROVE MoreTypes'
  <2>1. UNCHANGED <<listening, returned, via, accepting>>
    BY <1>10 DEF UnsubscribeConn
  <2>2. CASE PoolClose(id, caller(id))
    BY <2>1, <2>2, ClosedTypes DEF MoreTypes
  <2>3. CASE UNCHANGED <<hosts, mu, closing>>
    BY <2>1, <2>3 DEF MoreTypes, HostTypes
  <2> QED BY <1>10, <2>2, <2>3 DEF UnsubscribeConn, DeleteConn
<1>11. ASSUME NEW id \in Ids, UnsubscribeItem(id) PROVE MoreTypes'
  <2>1. Reg!ItemOf(id).Listeners \subseteq Listeners
    BY DEF Reg!ItemOf, Reg!IsSubscribed, Reg!voidRegistryItem, ListenerInv, ItemTypes, ItemType
  <2>2. HostTypes'
    BY <1>11, HostsDeleted DEF UnsubscribeItem, Reg!Unsubscribe, MoreTypes
  <2> QED BY <1>11, <2>1, <2>2 DEF UnsubscribeItem, MoreTypes
<1>12. ASSUME CloseListener \/ Stop \/ UNCHANGED vars PROVE MoreTypes'
  BY <1>12 DEF CloseListener, Stop, vars, MoreTypes, HostTypes
<1> QED BY <1>1, <1>2, <1>3, <1>4, <1>5, <1>6, <1>7, <1>8, <1>9, <1>10, <1>11, <1>12
        DEF Next, Handler, ReadLoop, Environment, Caller

\* The server's state keeps its types, the registry's included, under every step
\* of handlers, readers, clients and the embedding program.
THEOREM TypeOKAlways == Spec => []TypeOK
<1>1. Init => MoreTypes
  BY DEF Init, MoreTypes, HostTypes, Reg!Init
<1>2. PoolInv /\ ListenerInv /\ MoreTypes /\ [Next]_vars => MoreTypes'
  BY NextMoreTypes
<1>3. PoolInv /\ ListenerInv /\ MoreTypes => TypeOK
  <2> SUFFICES ASSUME PoolInv, ListenerInv, MoreTypes PROVE TypeOK
    OBVIOUS
  <2>1. Reg!TypeOK
    BY DEF Reg!TypeOK, Reg!RegistryItem, ListenerInv, ItemTypes, ItemType, MoreTypes, HostTypes
  <2>2. item \in [Conns -> Reg!RegistryItem]
    BY DEF Reg!RegistryItem, ListenerInv, ItemTypes, ItemType
  <2> QED BY <2>1, <2>2 DEF TypeOK, PoolInv, Types, ListenerInv, ItemTypes, MoreTypes
<1> QED BY PoolInductive, ListenersInductive, <1>1, <1>2, <1>3, PTL DEF Spec
=============================================================================
