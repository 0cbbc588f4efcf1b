---------------------------- MODULE ClientProofs ----------------------------
(***************************************************************************)
(* Proofs about Client, for any calls of Start and any connections.        *)
(***************************************************************************)
EXTENDS Client, TLAPS

\* Connections and the calls of Start that serve them.
Serving(s) == pc[s] \in {"serve", "served"}

Types ==
  /\ conn \in Conns \cup {Nobody}
  /\ serverErr \in Conns \cup {Nobody}
  /\ pc \in [Starts -> {"returned", "connect", "dial", "sleep", "serve", "served"}]
  /\ mine \in [Starts -> Conns \cup {Nobody}]
  /\ result \in [Starts -> {"none", "alreadyConnected", "dialFailed",
                            "backoffLimit", "serverError", "beingCut"}]
  /\ link \in [Conns -> {"gone", "up", "down"}]
  /\ handler \in [Conns -> {"none", "running", "handled"}]

\* What the sessions of the client rest on.
Sessions ==
  /\ \A s \in Starts : Serving(s) <=> mine[s] # Nobody
  /\ \A s, t \in Starts : mine[s] # Nobody /\ mine[s] = mine[t] => s = t
  /\ \A s \in Starts : pc[s] = "served" => link[mine[s]] = "gone"
  /\ \A c \in Conns : link[c] # "gone" => \E s \in Starts : mine[s] = c
  /\ conn # Nobody => \E s \in Starts : mine[s] = conn

Inv == Types /\ Sessions

LEMMA InitInv == ASSUME Init PROVE Inv
BY NobodyAssumption DEF Init, Inv, Types, Sessions, Serving

LEMMA NextTypes == ASSUME Types, [Next]_vars PROVE Types'
<1> USE DEF Types
<1>1. ASSUME NEW s \in Starts, CallStart(s) PROVE Types'
  BY <1>1 DEF CallStart, enter, goto, clientVars, backoffVars
<1>2. ASSUME NEW s \in Starts, Connect(s) PROVE Types'
  BY <1>2 DEF Connect, return, goto, backoffVars
<1>3. ASSUME NEW s \in Starts, DialSucceeds(s) PROVE Types'
  BY <1>3 DEF DialSucceeds, enter, goto
<1>4. ASSUME NEW s \in Starts, DialFails(s) PROVE Types'
  BY <1>4 DEF DialFails, return, goto
<1>5. ASSUME NEW s \in Starts, Wake(s) PROVE Types'
  BY <1>5 DEF Wake, goto, clientVars, backoffVars
<1>6. ASSUME NEW s \in Starts, ServeConnReturns(s) PROVE Types'
  BY <1>6 DEF ServeConnReturns, goto, clientVars, backoffVars
<1>7. ASSUME NEW s \in Starts, Disconnected(s) PROVE Types'
  BY <1>7 DEF Disconnected, return, enter, goto, backoffVars
<1>8. ASSUME NEW c \in Conns, ServerSendsError(c) PROVE Types'
  BY <1>8 DEF ServerSendsError, clientVars, startVars, backoffVars
<1>9. ASSUME NEW c \in Conns, HandleHandshakeError(c) PROVE Types'
  BY <1>9 DEF HandleHandshakeError, startVars, backoffVars
<1>10. ASSUME NEW c \in Conns, Lose(c) PROVE Types'
  BY <1>10 DEF Lose, clientVars, startVars, backoffVars
<1>11. ASSUME Tick PROVE Types'
  BY <1>11 DEF Tick
<1>12. ASSUME CallStop \/ StopReturns PROVE Types'
  BY <1>12 DEF CallStop, StopReturns, clientVars, startVars, backoffVars
<1>13. ASSUME UNCHANGED vars PROVE Types'
  BY <1>13 DEF vars, clientVars, startVars
<1> QED BY <1>1, <1>2, <1>3, <1>4, <1>5, <1>6, <1>7, <1>8, <1>9, <1>10, <1>11, <1>12, <1>13
        DEF Next, Start

LEMMA NextSessions == ASSUME Inv, [Next]_vars PROVE Sessions'
<1> USE NobodyAssumption DEF Inv, Types
\* These leave the connections and who serves them alone.
<1>1. ASSUME NEW s \in Starts, CallStart(s) \/ Connect(s) \/ DialFails(s) \/ Wake(s)
      PROVE Sessions'
  <2>1. UNCHANGED <<mine, link, conn>> /\ ~Serving(s) /\ ~Serving(s)'
    BY <1>1 DEF CallStart, Connect, DialFails, Wake, enter, return, goto, clientVars, Serving
  <2>2. \A t \in Starts \ {s} : pc'[t] = pc[t]
    BY <1>1 DEF CallStart, Connect, DialFails, Wake, enter, return, goto
  <2> QED BY <2>1, <2>2 DEF Sessions, Serving
<1>2. ASSUME NEW s \in Starts, DialSucceeds(s) PROVE Sessions'
  <2>1. PICK c \in Conns : /\ Unused(c)
                           /\ link' = [link EXCEPT ![c] = "up"]
                           /\ mine' = [mine EXCEPT ![s] = c]
                           /\ conn' = c
    BY <1>2 DEF DialSucceeds
  <2>2. pc[s] = "dial" /\ pc' = [pc EXCEPT ![s] = "serve"]
    BY <1>2 DEF DialSucceeds, enter, goto
  <2>3. mine[s] = Nobody /\ \A t \in Starts : mine[t] # c
    BY <2>1, <2>2 DEF Unused, Sessions, Serving
  <2> QED BY <2>1, <2>2, <2>3 DEF Sessions, Serving
<1>3. ASSUME NEW s \in Starts, ServeConnReturns(s) PROVE Sessions'
  <2>1. mine[s] \in Conns
    BY <1>3 DEF ServeConnReturns, Sessions, Serving
  <2> QED BY <1>3, <2>1 DEF ServeConnReturns, goto, clientVars, Sessions, Serving
<1>4. ASSUME NEW s \in Starts, Disconnected(s) PROVE Sessions'
  <2>1. /\ pc[s] = "served" /\ mine[s] \in Conns /\ link[mine[s]] = "gone"
        /\ mine' = [mine EXCEPT ![s] = Nobody]
        /\ conn' = Nobody /\ link' = link
    BY <1>4 DEF Disconnected, Sessions, Serving
  <2>2. \/ pc' = [pc EXCEPT ![s] = "returned"]
        \/ pc' = [pc EXCEPT ![s] = "connect"]
    BY <1>4 DEF Disconnected, return, enter, goto
  <2> QED BY <2>1, <2>2 DEF Sessions, Serving
<1>5. ASSUME NEW c \in Conns,
             ServerSendsError(c) \/ HandleHandshakeError(c) \/ Lose(c)
      PROVE Sessions'
  BY <1>5 DEF ServerSendsError, HandleHandshakeError, Lose, clientVars, startVars, Sessions,
              Serving
<1>6. ASSUME Tick \/ CallStop \/ UNCHANGED vars PROVE Sessions'
  BY <1>6 DEF Tick, CallStop, vars, clientVars, startVars, Sessions, Serving
<1>7. ASSUME StopReturns PROVE Sessions'
  BY <1>7 DEF StopReturns, startVars, Sessions, Serving
<1> QED BY <1>1, <1>2, <1>3, <1>4, <1>5, <1>6, <1>7 DEF Next, Start

LEMMA Inductive == Spec => []Inv
<1>1. Inv /\ [Next]_vars => Inv'
  BY NextTypes, NextSessions DEF Inv
<1> QED BY InitInv, <1>1, PTL DEF Spec

-----------------------------------------------------------------------------
(* The lock and the timers.                                                 *)

\* The largest of three.
LEMMA Longest ==
  /\ LongestInterval \in Nat
  /\ {DefaultInterval, InitialInterval, MaxInterval} \subseteq 0 .. LongestInterval
  /\ LongestSleep = (3 * LongestInterval + 1) \div 2 /\ LongestSleep \in Nat
BY IntervalsAssumption DEF LongestInterval, larger, LongestSleep

Timers ==
  /\ connMu \in Starts \cup {Nobody}
  /\ sinceDisconnect \in 0 .. Hiccup
  /\ since \in [Starts -> 0 .. Long]
  /\ stop \in BOOLEAN
  /\ rest \in Nat
  /\ interval \in 0 .. LongestInterval
  /\ elapsed \in 0 .. MaxElapsedTime + 1

LEMMA Quotient ==
  ASSUME NEW a \in Nat, NEW d \in Nat \ {0}, NEW m \in Nat, a < m * d
  PROVE  a \div d \in 0 .. m
<1> DEFINE q == a \div d
           r == a % d
<1>1. a = d * q + r /\ r \in 0 .. d - 1 /\ q \in Nat
  OBVIOUS
<1> HIDE DEF q, r
<1>2. q <= m
  <2>1. SUFFICES ASSUME q >= m + 1 PROVE FALSE
    BY <1>1
  <2>2. d * q >= d * (m + 1)
    BY <2>1, <1>1
  <2>3. d * (m + 1) = m * d + d
    OBVIOUS
  <2> QED BY <2>2, <2>3, <1>1
<1> QED BY <1>1, <1>2 DEF q

LEMMA IncrementedBounded ==
  ASSUME interval \in 0 .. LongestInterval
  PROVE  Policy!Incremented \in 0 .. LongestInterval
<1> USE IntervalsAssumption, Longest
<1>1. CASE interval * Numerator >= MaxInterval * Denominator
  BY <1>1 DEF Policy!Incremented
<1>2. CASE ~(interval * Numerator >= MaxInterval * Denominator)
  <2>1. interval * Numerator \in Nat /\ MaxInterval * Denominator \in Nat
    OBVIOUS
  <2>2. interval * Numerator < MaxInterval * Denominator
    BY <1>2, <2>1
  <2>3. (interval * Numerator) \div Denominator \in 0 .. MaxInterval
    BY <2>1, <2>2, Quotient
  <2> QED BY <1>2, <2>3 DEF Policy!Incremented
<1> QED BY <1>1, <1>2

LEMMA NextTimers == ASSUME Types, Timers, [Next]_vars PROVE Timers'
<1> USE IntervalsAssumption, HiccupAssumption DEF Timers
<1>1. 0 \in 0 .. Long /\ Long \in Nat /\ LongestInterval \in Nat /\ InitialInterval \in 0 .. LongestInterval
  BY Longest DEF Long
<1>2. ASSUME NEW s \in Starts, CallStart(s) \/ Connect(s) PROVE Timers'
  BY <1>1, <1>2 DEF CallStart, Connect, enter, return, goto, clientVars, backoffVars
<1>3. ASSUME NEW s \in Starts, DialSucceeds(s) PROVE Timers'
  BY <1>1, <1>3 DEF DialSucceeds, enter, goto, Policy!Reset, backoffVars
<1>4. ASSUME NEW s \in Starts, DialFails(s) PROVE Timers'
  <2>1. rest' \in Nat /\ interval' \in 0 .. LongestInterval /\ elapsed' = elapsed
    BY <1>1, <1>4, IncrementedBounded DEF DialFails, Policy!NextBackOff, Policy!Randomized, backoffVars
  <2> QED BY <1>4, <2>1 DEF DialFails
<1>5. ASSUME NEW s \in Starts, Wake(s) \/ ServeConnReturns(s) PROVE Timers'
  BY <1>5 DEF Wake, ServeConnReturns, clientVars, backoffVars
<1>6. ASSUME NEW s \in Starts, Disconnected(s) PROVE Timers'
  BY <1>1, <1>6 DEF Disconnected, enter, return, goto, backoffVars
<1>7. ASSUME NEW c \in Conns, ServerSendsError(c) \/ HandleHandshakeError(c) \/ Lose(c)
      PROVE Timers'
  BY <1>7 DEF ServerSendsError, HandleHandshakeError, Lose, clientVars, startVars, backoffVars
<1>8. ASSUME Tick PROVE Timers'
  <2>1. sinceDisconnect' \in 0 .. Hiccup /\ rest' \in Nat
    BY <1>8 DEF Tick, upTo
  <2>2. since' \in [Starts -> 0 .. Long]
    BY <1>1, <1>8 DEF Tick, upTo
  <2>3. elapsed' \in 0 .. MaxElapsedTime + 1 /\ interval' = interval
    BY <1>8 DEF Tick, Policy!Elapse
  <2> QED BY <1>8, <2>1, <2>2, <2>3 DEF Tick
<1>9. ASSUME CallStop \/ StopReturns \/ UNCHANGED vars PROVE Timers'
  BY <1>9 DEF CallStop, StopReturns, vars, clientVars, startVars, backoffVars
<1> QED BY <1>2, <1>3, <1>4, <1>5, <1>6, <1>7, <1>8, <1>9 DEF Next, Start

LEMMA TimersInductive == Spec => []Timers
<1>1. ASSUME Init PROVE Timers
  <2>1. 0 \in 0 .. Long /\ DefaultInterval \in 0 .. LongestInterval
        /\ 0 \in 0 .. MaxElapsedTime + 1 /\ Hiccup \in 0 .. Hiccup
    BY IntervalsAssumption, HiccupAssumption, Longest DEF Long
  <2>2. interval = DefaultInterval /\ elapsed = 0
    BY <1>1 DEF Init, Policy!Init
  <2> QED BY <1>1, <2>1, <2>2 DEF Init, Timers
<1>2. Types /\ Timers /\ [Next]_vars => Timers'
  BY NextTimers
<1>3. Inv => Types
  BY DEF Inv
<1> QED BY Inductive, <1>1, <1>2, <1>3, PTL DEF Spec

\* Only the call of Start that dials or sleeps has the lock.
Locking ==
  /\ \A s \in Starts : pc[s] \in {"dial", "sleep"} => connMu = s
  /\ connMu # Nobody => connMu \in Starts /\ pc[connMu] \in {"dial", "sleep"}

LEMMA NextLocking == ASSUME Types, Locking, [Next]_vars PROVE Locking'
<1> USE NobodyAssumption DEF Types, Locking
<1>1. ASSUME NEW s \in Starts, CallStart(s) \/ Wake(s) \/ ServeConnReturns(s) PROVE Locking'
  BY <1>1 DEF CallStart, Wake, ServeConnReturns, enter, goto, clientVars
<1>2. ASSUME NEW s \in Starts, Connect(s) PROVE Locking'
  BY <1>2 DEF Connect, return, goto, Unlocked
<1>3. ASSUME NEW s \in Starts, DialSucceeds(s) PROVE Locking'
  BY <1>3 DEF DialSucceeds, enter, goto
<1>4. ASSUME NEW s \in Starts, DialFails(s) PROVE Locking'
  BY <1>4 DEF DialFails, return, goto
<1>5. ASSUME NEW s \in Starts, Disconnected(s) PROVE Locking'
  <2>1. /\ pc[s] = "served" /\ UNCHANGED connMu
        /\ \/ pc' = [pc EXCEPT ![s] = "returned"]
           \/ pc' = [pc EXCEPT ![s] = "connect"]
    BY <1>5 DEF Disconnected, return, enter, goto
  <2> QED BY <2>1
<1>6. ASSUME NEW c \in Conns, ServerSendsError(c) \/ HandleHandshakeError(c) \/ Lose(c)
      PROVE Locking'
  BY <1>6 DEF ServerSendsError, HandleHandshakeError, Lose, clientVars, startVars
<1>7. ASSUME Tick \/ CallStop \/ StopReturns \/ UNCHANGED vars PROVE Locking'
  BY <1>7 DEF Tick, CallStop, StopReturns, vars, clientVars, startVars
<1> QED BY <1>1, <1>2, <1>3, <1>4, <1>5, <1>6, <1>7 DEF Next, Start

\* connMu is never left locked, and connect is never entered twice, by any
\* number of calls of Start, whatever the dials, the policy and Stop do.
THEOREM LockIsHeldToConnectAlways == Spec => []LockIsHeldToConnect
<1>1. Init => Locking
  BY NobodyAssumption DEF Init, Locking
<1>2. Inv /\ Locking /\ [Next]_vars => Locking'
  BY NextLocking DEF Inv
<1>3. Locking => LockIsHeldToConnect
  <2> SUFFICES ASSUME Locking
               PROVE  {s \in Starts : pc[s] \in {"dial", "sleep"}} = {connMu} \ {Nobody}
    BY DEF LockIsHeldToConnect
  <2> QED BY NobodyAssumption DEF Locking
<1> QED BY Inductive, <1>1, <1>2, <1>3, PTL DEF Spec

\* A sleep is drawn while max_time has not passed, from the interval as it is
\* before it grows.
LEMMA DrawnInTime ==
  ASSUME interval \in 0 .. LongestInterval, elapsed \in Nat, NEW d, Policy!NextBackOff(d)
  PROVE  /\ d \in 0 .. LongestSleep
         /\ MaxElapsedTime # 0 => elapsed <= MaxElapsedTime
<1> USE IntervalsAssumption
<1>1. MaxElapsedTime # 0 => elapsed <= MaxElapsedTime
  BY DEF Policy!NextBackOff, Policy!Stop
<1>2. LongestInterval \in Nat /\ LongestSleep = (3 * LongestInterval + 1) \div 2
  BY Longest
<1>3. d \in Nat /\ 2 * d < 3 * interval + 2
  BY <1>2 DEF Policy!NextBackOff, Policy!Randomized
<1>4. 2 * d <= 3 * LongestInterval + 1
  BY <1>2, <1>3
<1>5. d <= (3 * LongestInterval + 1) \div 2
  BY <1>2, <1>3, <1>4
<1> QED BY <1>1, <1>2, <1>3, <1>5

LEMMA NextSleep == ASSUME Types, Timers, SleepsEndInTime, [Next]_vars PROVE SleepsEndInTime'
<1> USE IntervalsAssumption DEF Timers, SleepsEndInTime
<1>1. LongestSleep \in Nat
  BY Longest
<1>2. CASE UNCHANGED <<rest, backoffVars>>
  BY <1>2 DEF backoffVars
<1>3. ASSUME NEW s \in Starts, DialSucceeds(s) PROVE SleepsEndInTime'
  <2>1. rest' = rest /\ (elapsed' = 0 \/ elapsed' = elapsed)
    BY <1>3 DEF DialSucceeds, Policy!Reset, backoffVars
  <2> QED BY <1>1, <2>1
<1>4. ASSUME NEW s \in Starts, DialFails(s) PROVE SleepsEndInTime'
  <2>1. CASE UNCHANGED <<rest, backoffVars>>
    BY <1>2, <2>1
  <2>2. ASSUME NEW d, Policy!NextBackOff(d), rest' = d PROVE SleepsEndInTime'
    <3>1. d \in 0 .. LongestSleep /\ (MaxElapsedTime # 0 => elapsed <= MaxElapsedTime)
      BY <2>2, DrawnInTime
    <3>2. elapsed' = elapsed
      BY <2>2 DEF Policy!NextBackOff
    <3> QED BY <1>1, <2>2, <3>1, <3>2
  <2> QED BY <1>4, <2>1, <2>2 DEF DialFails
\* Time takes away from what is left as much as it adds to what has passed.
<1>5. ASSUME Tick PROVE SleepsEndInTime'
  <2>1. /\ rest' = IF rest > 0 THEN rest - 1 ELSE 0
        /\ elapsed' = IF elapsed > MaxElapsedTime THEN elapsed ELSE elapsed + 1
    BY <1>5 DEF Tick, Policy!Elapse
  <2> QED BY <1>1, <2>1
<1>6. ASSUME NEW s \in Starts,
             CallStart(s) \/ Connect(s) \/ Wake(s) \/ ServeConnReturns(s) \/ Disconnected(s)
      PROVE UNCHANGED <<rest, backoffVars>>
  BY <1>6 DEF CallStart, Connect, Wake, ServeConnReturns, Disconnected, backoffVars
<1>7. ASSUME NEW c \in Conns, ServerSendsError(c) \/ HandleHandshakeError(c) \/ Lose(c)
      PROVE UNCHANGED <<rest, backoffVars>>
  BY <1>7 DEF ServerSendsError, HandleHandshakeError, Lose, backoffVars
<1>8. ASSUME CallStop \/ StopReturns \/ UNCHANGED vars PROVE UNCHANGED <<rest, backoffVars>>
  BY <1>8 DEF CallStop, StopReturns, vars, backoffVars
<1> QED BY <1>2, <1>3, <1>4, <1>5, <1>6, <1>7, <1>8 DEF Next, Start

\* However often dials fail, no sleep is longer than one and a half times the
\* longest of the library's 500 ms, interval and max_interval, for any multiplier,
\* and none lasts longer than that beyond max_time.
THEOREM SleepsEndInTimeAlways == Spec => []SleepsEndInTime
<1>1. Init => SleepsEndInTime
  <2>1. LongestSleep \in Nat
    BY Longest
  <2> QED BY <2>1 DEF Init, SleepsEndInTime
<1>2. Inv /\ Timers /\ SleepsEndInTime /\ [Next]_vars => SleepsEndInTime'
  BY NextSleep DEF Inv
<1> QED BY Inductive, TimersInductive, <1>1, <1>2, PTL DEF Spec

\* Every variable of the client stays within its type: the backoff interval
\* never exceeds the longest of the library's 500 ms, interval and max_interval,
\* for any multiplier.
THEOREM TypeOKAlways == Spec => []TypeOK
<1>1. Inv /\ Timers => TypeOK
  BY DEF Inv, Types, Timers, TypeOK
<1> QED BY Inductive, TimersInductive, <1>1, PTL

-----------------------------------------------------------------------------
(* Connections.                                                             *)

\* However dialling fails and whenever Stop comes, no connection is leaked or
\* served twice.
THEOREM ConnsAreServedAlways == Spec => []ConnsAreServed
<1>1. Inv => ConnsAreServed
  BY NobodyAssumption DEF Inv, Types, Sessions, Serving, ConnsAreServed
<1> QED BY Inductive, <1>1, PTL

\* Start is never refused because of a connection that nobody serves.
THEOREM ConnIsCurrentAlways == Spec => []ConnIsCurrent
<1>1. Inv => ConnIsCurrent
  BY NobodyAssumption DEF Inv, Types, Sessions, Serving, ConnIsCurrent
<1> QED BY Inductive, <1>1, PTL

-----------------------------------------------------------------------------
(* Without Stop, the field conn is the connection of whoever serves one, and *)
(* the lock keeps others from dialling.                                      *)

Exclusive ==
  /\ ~stop
  /\ \A s \in Starts : Serving(s) => conn = mine[s]
  /\ \A s \in Starts : pc[s] \in {"dial", "sleep"} => connMu = s /\ conn = Nobody
  /\ \A s \in Starts : Serving(s) /\ handler[mine[s]] = "handled" => serverErr # Nobody

LEMMA NextExclusive == ASSUME ~Embedded, Inv, Exclusive, [Next]_vars PROVE Exclusive'
<1> USE NobodyAssumption DEF Inv, Types, Sessions
<1>1. ASSUME NEW s \in Starts, CallStart(s) PROVE Exclusive'
  BY <1>1 DEF CallStart, enter, goto, clientVars, Exclusive, Serving
<1>2. ASSUME NEW s \in Starts, Connect(s) PROVE Exclusive'
  BY <1>2 DEF Connect, return, goto, Unlocked, Exclusive, Serving
<1>3. ASSUME NEW s \in Starts, DialSucceeds(s) PROVE Exclusive'
  <2>1. PICK c \in Conns : /\ Unused(c)
                           /\ handler' = [handler EXCEPT ![c] = "none"]
                           /\ mine' = [mine EXCEPT ![s] = c]
                           /\ conn' = c
    BY <1>3 DEF DialSucceeds
  <2>2. /\ pc[s] = "dial" /\ pc' = [pc EXCEPT ![s] = "serve"]
        /\ connMu = s /\ conn = Nobody
        /\ ~stop' /\ serverErr' = serverErr
    BY <1>3 DEF DialSucceeds, enter, goto, Exclusive
  <2>3. \A t \in Starts : ~Serving(t) /\ (pc[t] \in {"dial", "sleep"} => t = s)
    BY <2>2 DEF Exclusive
  <2> QED BY <2>1, <2>2, <2>3 DEF Exclusive, Serving
<1>4. ASSUME NEW s \in Starts, DialFails(s) PROVE Exclusive'
  <2>1. /\ pc[s] = "dial" /\ connMu = s /\ conn = Nobody
        /\ UNCHANGED <<conn, serverErr, mine, stop, handler>>
    BY <1>4 DEF DialFails, Exclusive
  <2>2. \/ pc' = [pc EXCEPT ![s] = "sleep"] /\ connMu' = connMu
        \/ pc' = [pc EXCEPT ![s] = "returned"]
    BY <1>4 DEF DialFails, return, goto
  <2>3. \A t \in Starts : ~Serving(t) /\ (pc[t] \in {"dial", "sleep"} => t = s)
    BY <2>1 DEF Exclusive
  <2> QED BY <2>1, <2>2, <2>3 DEF Exclusive, Serving
<1>5. ASSUME NEW s \in Starts, Wake(s) PROVE Exclusive'
  BY <1>5 DEF Wake, goto, clientVars, Exclusive, Serving
<1>6. ASSUME NEW s \in Starts, ServeConnReturns(s) PROVE Exclusive'
  BY <1>6 DEF ServeConnReturns, goto, clientVars, Exclusive, Serving
<1>7. ASSUME NEW s \in Starts, Disconnected(s) PROVE Exclusive'
  <2>1. /\ pc[s] = "served" /\ conn = mine[s] /\ mine[s] # Nobody
        /\ UNCHANGED <<connMu, stop, handler>>
        /\ mine' = [mine EXCEPT ![s] = Nobody]
        /\ connMu = Nobody
    BY <1>7 DEF Disconnected, Unlocked, Exclusive, Serving
  <2>2. \/ pc' = [pc EXCEPT ![s] = "returned"]
        \/ pc' = [pc EXCEPT ![s] = "connect"]
    BY <1>7 DEF Disconnected, return, enter, goto
  <2>3. \A t \in Starts \ {s} : ~Serving(t) /\ pc[t] \notin {"dial", "sleep"}
    BY <2>1 DEF Exclusive
  <2> QED BY <2>1, <2>2, <2>3 DEF Exclusive, Serving
<1>8. ASSUME NEW c \in Conns, ServerSendsError(c) \/ Lose(c) PROVE Exclusive'
  BY <1>8 DEF ServerSendsError, Lose, clientVars, startVars, Exclusive, Serving
<1>9. ASSUME NEW c \in Conns, HandleHandshakeError(c) PROVE Exclusive'
  BY <1>9 DEF HandleHandshakeError, startVars, Exclusive, Serving
<1>10. ASSUME Tick PROVE Exclusive'
  BY <1>10 DEF Tick, Exclusive, Serving
<1>11. ASSUME CallStop \/ StopReturns PROVE Exclusive'
  BY <1>11 DEF CallStop, StopReturns, Exclusive
<1>12. ASSUME UNCHANGED vars PROVE Exclusive'
  BY <1>12 DEF vars, clientVars, startVars, Exclusive, Serving
<1> QED BY <1>1, <1>2, <1>3, <1>4, <1>5, <1>6, <1>7, <1>8, <1>9, <1>10, <1>11, <1>12
        DEF Next, Start

LEMMA ExclusiveInductive == ASSUME ~Embedded PROVE Spec => []Exclusive
<1>1. Init => Exclusive
  BY DEF Init, Exclusive, Serving
<1>2. Inv /\ Exclusive /\ [Next]_vars => Exclusive'
  BY NextExclusive
<1> QED BY Inductive, <1>1, <1>2, PTL DEF Spec

\* Without Stop, any number of calls of Start have one connection at a time.
THEOREM OneSessionAlways == ASSUME ~Embedded PROVE Spec => []OneSession
<1>1. Inv /\ Exclusive => OneSession
  <2> SUFFICES ASSUME Inv, Exclusive, NEW c \in Conns, NEW d \in Conns,
                      link[c] = "up", link[d] = "up"
               PROVE c = d
    BY DEF OneSession
  <2>1. PICK s \in Starts : mine[s] = c
    BY DEF Inv, Sessions
  <2>2. PICK t \in Starts : mine[t] = d
    BY DEF Inv, Sessions
  <2> QED BY <2>1, <2>2, NobodyAssumption DEF Inv, Sessions, Exclusive
<1> QED BY Inductive, ExclusiveInductive, <1>1, PTL

\* Without Stop, a call of Start that the server refused does not dial again.
THEOREM RefusedStartReturnsAlways == ASSUME ~Embedded PROVE Spec => RefusedStartReturns
<1>1. Inv /\ Exclusive /\ [Next]_vars =>
        [\A s \in Starts :
           pc[s] = "served" /\ handler[mine[s]] = "handled" => pc'[s] # "connect"]_vars
  <2> SUFFICES ASSUME Inv, Exclusive, [Next]_vars,
                      NEW s \in Starts, pc[s] = "served", handler[mine[s]] = "handled"
               PROVE pc'[s] # "connect"
    OBVIOUS
  <2>1. serverErr # Nobody
    BY DEF Exclusive, Serving
  <2> QED BY <2>1 DEF Inv, Types, Next, Start, CallStart, Connect, DialSucceeds, DialFails, Wake,
       ServeConnReturns, Disconnected, ServerSendsError, HandleHandshakeError, Lose, Tick,
       CallStop, StopReturns, return, enter, goto, vars, startVars
<1> QED BY Inductive, ExclusiveInductive, <1>1, PTL DEF Spec, RefusedStartReturns

-----------------------------------------------------------------------------
(* Without Stop, the time since the last disconnection is at least that of   *)
(* the session, for no session ends while another one is served.             *)

SessionTime ==
  \A s \in Starts : Serving(s) /\ sinceDisconnect < Hiccup => since[s] <= sinceDisconnect

LEMMA NextSessionTime ==
  ASSUME Inv, Exclusive, Timers, SessionTime, [Next]_vars PROVE SessionTime'
<1> USE NobodyAssumption, HiccupAssumption DEF Inv, Types, Timers
\* Nothing happens to the timers here, and nobody begins to serve.
<1>1. ASSUME NEW s \in Starts, DialFails(s) \/ Wake(s) \/ ServeConnReturns(s) \/ Connect(s)
      PROVE SessionTime'
  <2>1. UNCHANGED <<since, sinceDisconnect>>
    BY <1>1 DEF DialFails, Wake, ServeConnReturns, Connect, clientVars
  <2>2. \A t \in Starts : Serving(t)' => Serving(t)
    BY <1>1 DEF DialFails, Wake, ServeConnReturns, Connect, return, goto, Serving
  <2> QED BY <2>1, <2>2 DEF SessionTime
<1>2. ASSUME NEW s \in Starts, CallStart(s) PROVE SessionTime'
  BY <1>2 DEF CallStart, enter, goto, clientVars, SessionTime, Serving
\* A session begins with its timer at 0.
<1>3. ASSUME NEW s \in Starts, DialSucceeds(s) PROVE SessionTime'
  <2>1. /\ since' = [since EXCEPT ![s] = 0]
        /\ sinceDisconnect' = sinceDisconnect
        /\ pc' = [pc EXCEPT ![s] = "serve"]
    BY <1>3 DEF DialSucceeds, enter, goto
  <2>2. sinceDisconnect \in Nat
    OBVIOUS
  <2> QED BY <2>1, <2>2 DEF SessionTime, Serving
\* The session that ends is the only one.
<1>4. ASSUME NEW s \in Starts, Disconnected(s) PROVE SessionTime'
  <2>1. \A t \in Starts : Serving(t) => t = s
    BY <1>4 DEF Disconnected, Exclusive, Serving, Sessions
  <2>2. pc[s] = "served" /\ (\/ pc' = [pc EXCEPT ![s] = "returned"]
                             \/ pc' = [pc EXCEPT ![s] = "connect"])
    BY <1>4 DEF Disconnected, return, enter, goto
  <2>3. \A t \in Starts : ~Serving(t)'
    BY <2>1, <2>2 DEF Serving
  <2> QED BY <2>3 DEF SessionTime
<1>5. ASSUME NEW c \in Conns, ServerSendsError(c) \/ HandleHandshakeError(c) \/ Lose(c)
      PROVE SessionTime'
  BY <1>5 DEF ServerSendsError, HandleHandshakeError, Lose, clientVars, startVars, SessionTime,
              Serving
<1>6. ASSUME Tick PROVE SessionTime'
  <2> SUFFICES ASSUME NEW s \in Starts, Serving(s)', sinceDisconnect' < Hiccup
               PROVE since'[s] <= sinceDisconnect'
    BY DEF SessionTime
  <2>1. Serving(s)
    BY <1>6 DEF Tick, Serving
  <2>2. sinceDisconnect < Hiccup /\ sinceDisconnect' = sinceDisconnect + 1
    BY <1>6 DEF Tick, upTo
  <2>3. since[s] <= sinceDisconnect
    BY <2>1, <2>2 DEF SessionTime
  <2>4. since[s] \in Nat /\ since'[s] \in {since[s], since[s] + 1}
    BY <1>6, <2>1 DEF Tick, upTo, Serving
  <2>5. sinceDisconnect \in Nat
    OBVIOUS
  <2> HIDE DEF Inv, Types, Timers
  <2> QED BY <2>2, <2>3, <2>4, <2>5
<1>7. ASSUME CallStop \/ StopReturns \/ UNCHANGED vars PROVE SessionTime'
  BY <1>7 DEF CallStop, StopReturns, vars, clientVars, startVars, SessionTime, Serving
<1> QED BY <1>1, <1>2, <1>3, <1>4, <1>5, <1>6, <1>7 DEF Next, Start

\* Without Stop, Start never gives up with "connection is being cut" after a
\* session that lasted a hiccup or longer.
THEOREM CutSessionsAreShortAlways == ASSUME ~Embedded PROVE Spec => CutSessionsAreShort
<1>1. Init => SessionTime
  BY DEF Init, SessionTime, Serving
<1>2. Inv /\ Exclusive /\ Timers /\ SessionTime /\ [Next]_vars => SessionTime'
  BY NextSessionTime
<1>3. Inv /\ Exclusive /\ Timers /\ SessionTime /\ [Next]_vars =>
        [\A s \in Starts :
           result'[s] = "beingCut" /\ result[s] # "beingCut" => since[s] < Hiccup]_vars
  <2> SUFFICES ASSUME Inv, Timers, SessionTime, [Next]_vars, NEW s \in Starts,
                      result'[s] = "beingCut", result[s] # "beingCut"
               PROVE since[s] < Hiccup
    OBVIOUS
  <2>1. pc[s] = "served" /\ sinceDisconnect < Hiccup
    BY DEF Inv, Types, Next, Start, CallStart, Connect, DialSucceeds, DialFails, Wake,
       ServeConnReturns, Disconnected, ServerSendsError, HandleHandshakeError, Lose, Tick,
       CallStop, StopReturns, return, enter, goto, vars, startVars
  <2> QED BY <2>1, HiccupAssumption DEF SessionTime, Serving, Timers
<1> QED BY Inductive, ExclusiveInductive, TimersInductive, <1>1, <1>2, <1>3, PTL
        DEF Spec, CutSessionsAreShort
=============================================================================
