------------------------------- MODULE Client -------------------------------
(***************************************************************************)
(* The control plane of the tunnel client (client.go): Start, which dials  *)
(* the server, serves the connection until it ends and dials again; the    *)
(* handler of the server's error; and Stop.                                *)
(*                                                                         *)
(* The processes are the calls of Start and Stop, and for each connection  *)
(* the goroutine that http2.Server starts for the server's error request.  *)
(* An action is what one of them does between two points at which the      *)
(* others can notice; connect holds connMu while it dials and while it     *)
(* sleeps.  Time passes in ticks, and each timer counts as far as it       *)
(* matters.                                                                *)
(***************************************************************************)
EXTENDS Naturals

CONSTANTS
  Starts,      \* goroutines of the program that call Start
  Conns,       \* connections to the server, reused once they are gone
  Embedded,    \* the program calls Stop, and Start again; tunnel calls Start once
  HasBackoff,  \* ClientConfig.Backoff is set
  Hiccup,      \* a second disconnection within this time ends Start: 5 seconds
  Nobody,
  DefaultInterval, InitialInterval, MaxInterval, MaxElapsedTime,
  Numerator, Denominator  \* see Backoff

VARIABLES
  conn,             \* Client.conn, Nobody if there is none
  connMu,           \* the call of Start that holds the lock to connect
  serverErr,        \* the connection on which Client.serverErr came, or Nobody
  sinceDisconnect,  \* time since lastDisconnect
  pc, mine, result, \* of each call of Start: where it is, its connection, its result
  since,            \* ... and the time since it began to connect or to serve
  stop,             \* a call of Stop is waiting for the lock
  link,             \* each connection as the client's end sees it
  handler,          \* the goroutine of each connection's error request
  rest,             \* what is left of time.Sleep
  interval, elapsed \* of the backoff policy

clientVars == <<conn, connMu, serverErr, sinceDisconnect>>
startVars == <<pc, mine, result, since>>
backoffVars == <<interval, elapsed>>
vars == <<clientVars, startVars, stop, link, handler, rest, backoffVars>>

ASSUME IntervalsAssumption ==
  /\ {DefaultInterval, InitialInterval, MaxInterval, MaxElapsedTime, Numerator} \subseteq Nat
  /\ Denominator \in Nat \ {0}
ASSUME FlagsAssumption == {Embedded, HasBackoff} \subseteq BOOLEAN
ASSUME HiccupAssumption == Hiccup \in Nat
ASSUME NobodyAssumption == Nobody \notin Starts \cup Conns

Policy == INSTANCE Backoff

\* The longest time that matters to any timer of a call of Start.
Long == IF Hiccup > MaxElapsedTime THEN Hiccup ELSE MaxElapsedTime + 1

\* lastDisconnect is the zero time, long ago.
Init ==
  /\ conn = Nobody /\ connMu = Nobody /\ serverErr = Nobody
  /\ sinceDisconnect = Hiccup
  /\ pc = [s \in Starts |-> "returned"]
  /\ mine = [s \in Starts |-> Nobody]
  /\ result = [s \in Starts |-> "none"]
  /\ since = [s \in Starts |-> 0]
  /\ stop = FALSE
  /\ link = [c \in Conns |-> "gone"]
  /\ handler = [c \in Conns |-> "none"]
  /\ rest = 0
  /\ Policy!Init

Unlocked == connMu = Nobody

goto(s, label) == pc' = [pc EXCEPT ![s] = label]

return(s, res) == goto(s, "returned") /\ result' = [result EXCEPT ![s] = res]

\* A phase of Start begins.
enter(s, label) == goto(s, label) /\ since' = [since EXCEPT ![s] = 0]

-----------------------------------------------------------------------------
(* Start.                                                                   *)

CallStart(s) ==
  /\ pc[s] = "returned" /\ (result[s] = "none" \/ Embedded)
  /\ enter(s, "connect")
  /\ result' = [result EXCEPT ![s] = "none"]
  /\ UNCHANGED <<clientVars, mine, stop, link, handler, rest, backoffVars>>

\* (Variants: connect always dials; it does not take the lock.)
ConnectAlways(s) ==
  /\ pc[s] = "connect"
  /\ Unlocked
  /\ goto(s, "dial") /\ connMu' = s
  /\ UNCHANGED <<conn, serverErr, sinceDisconnect, mine, result, since, stop, link, handler,
                 rest, backoffVars>>

ConnectUnlocked(s) ==
  /\ pc[s] = "connect"
  /\ IF conn # Nobody
     THEN return(s, "alreadyConnected")
     ELSE goto(s, "dial") /\ UNCHANGED result
  /\ UNCHANGED <<clientVars, mine, since, stop, link, handler, rest, backoffVars>>

\* connect refuses when there is a connection, and dials otherwise.
Connect(s) ==
  /\ pc[s] = "connect"
  /\ Unlocked
  /\ IF conn # Nobody
     THEN return(s, "alreadyConnected") /\ UNCHANGED connMu
     ELSE goto(s, "dial") /\ connMu' = s /\ UNCHANGED result
  /\ UNCHANGED <<conn, serverErr, sinceDisconnect, mine, since, stop, link, handler, rest,
                 backoffVars>>

\* A connection that nothing remembers.
Unused(c) == link[c] = "gone" /\ handler[c] # "running" /\ serverErr # c /\ conn # c
               /\ \A s \in Starts : mine[s] # c

DialSucceeds(s) ==
  /\ pc[s] = "dial"
  /\ \E c \in Conns :
       /\ Unused(c)
       /\ link' = [link EXCEPT ![c] = "up"]
       /\ handler' = [handler EXCEPT ![c] = "none"]
       /\ mine' = [mine EXCEPT ![s] = c]
       /\ conn' = c
  /\ connMu' = Nobody
  /\ IF HasBackoff THEN Policy!Reset ELSE UNCHANGED backoffVars
  /\ enter(s, "serve")
  /\ result' = [result EXCEPT ![s] = "none"]
  /\ UNCHANGED <<serverErr, sinceDisconnect, stop, rest>>

\* (Variants: a connection whose TLS handshake fails is not closed; the policy
\* is reset at every attempt.)
DialFailsOpen(s) ==
  /\ pc[s] = "dial"
  /\ \E c \in Conns : link[c] = "gone" /\ link' = [link EXCEPT ![c] = "up"]
  /\ connMu' = Nobody
  /\ return(s, "dialFailed")
  /\ UNCHANGED <<conn, serverErr, sinceDisconnect, mine, since, stop, handler, rest,
                 backoffVars>>
DialFailsReset(s) ==
  /\ pc[s] = "dial"
  /\ \E d \in Policy!Randomized : rest' = d
  /\ goto(s, "sleep")
  /\ Policy!Reset
  /\ UNCHANGED <<clientVars, mine, result, since, stop, link, handler>>

\* Without a connection left: sleep, or give up.
DialFails(s) ==
  /\ pc[s] = "dial"
  /\ \/ /\ HasBackoff
        /\ \E d \in Policy!Randomized : Policy!NextBackOff(d) /\ rest' = d
        /\ goto(s, "sleep")
        /\ UNCHANGED <<connMu, result>>
     \/ /\ HasBackoff => Policy!Stop
        /\ connMu' = Nobody
        /\ return(s, IF HasBackoff THEN "backoffLimit" ELSE "dialFailed")
        /\ UNCHANGED <<rest, backoffVars>>
  /\ UNCHANGED <<conn, serverErr, sinceDisconnect, mine, since, stop, link, handler>>

Wake(s) ==
  /\ pc[s] = "sleep" /\ rest = 0
  /\ goto(s, "dial")
  /\ UNCHANGED <<clientVars, mine, result, since, stop, link, handler, rest, backoffVars>>

\* ServeConn returns and closes the connection.  It does not wait for the
\* goroutines of its requests.
ServeConnReturns(s) ==
  /\ pc[s] = "serve" /\ link[mine[s]] = "down"
  /\ link' = [link EXCEPT ![mine[s]] = "gone"]
  /\ goto(s, "served")
  /\ UNCHANGED <<clientVars, mine, result, since, stop, handler, rest, backoffVars>>

\* (Variants: the server's error is forgotten; the time of the disconnection is
\* noted before it is compared; conn is kept.)
DisconnectedForgets(s) ==
  /\ pc[s] = "served"
  /\ Unlocked
  /\ conn' = Nobody /\ serverErr' = Nobody /\ sinceDisconnect' = 0
  /\ mine' = [mine EXCEPT ![s] = Nobody]
  /\ IF sinceDisconnect < Hiccup
     THEN return(s, "beingCut") /\ UNCHANGED since
     ELSE enter(s, "connect") /\ UNCHANGED result
  /\ UNCHANGED <<connMu, stop, link, handler, rest, backoffVars>>
DisconnectedNotesTimeFirst(s) ==
  /\ pc[s] = "served"
  /\ Unlocked
  /\ conn' = Nobody /\ serverErr' = Nobody /\ sinceDisconnect' = 0
  /\ mine' = [mine EXCEPT ![s] = Nobody]
  /\ return(s, IF serverErr # Nobody THEN "serverError" ELSE "beingCut") /\ UNCHANGED since
  /\ UNCHANGED <<connMu, stop, link, handler, rest, backoffVars>>
DisconnectedKeepsConn(s) ==
  /\ pc[s] = "served"
  /\ Unlocked
  /\ serverErr' = Nobody /\ sinceDisconnect' = 0
  /\ mine' = [mine EXCEPT ![s] = Nobody]
  /\ return(s, "beingCut") /\ UNCHANGED since
  /\ UNCHANGED <<conn, connMu, stop, link, handler, rest, backoffVars>>

\* Start takes the server's error and notes the time.
Disconnected(s) ==
  /\ pc[s] = "served"
  /\ Unlocked
  /\ conn' = Nobody /\ serverErr' = Nobody /\ sinceDisconnect' = 0
  /\ mine' = [mine EXCEPT ![s] = Nobody]
  /\ \/ serverErr # Nobody /\ return(s, "serverError") /\ UNCHANGED since
     \/ /\ serverErr = Nobody /\ sinceDisconnect < Hiccup
        /\ return(s, "beingCut")
        /\ UNCHANGED since
     \/ /\ serverErr = Nobody /\ sinceDisconnect >= Hiccup
        /\ enter(s, "connect")
        /\ UNCHANGED result
  /\ UNCHANGED <<connMu, stop, link, handler, rest, backoffVars>>

-----------------------------------------------------------------------------
(* The server, the network and time.                                        *)

\* The server sends a handshake error; serveHTTP runs in a goroutine.
ServerSendsError(c) ==
  /\ link[c] = "up" /\ handler[c] = "none"
  /\ \E s \in Starts : pc[s] = "serve" /\ mine[s] = c
  /\ handler' = [handler EXCEPT ![c] = "running"]
  /\ UNCHANGED <<clientVars, startVars, stop, link, rest, backoffVars>>

HandleHandshakeError(c) ==
  /\ handler[c] = "running"
  /\ Unlocked
  /\ serverErr' = c
  /\ handler' = [handler EXCEPT ![c] = "handled"]
  /\ UNCHANGED <<conn, connMu, sinceDisconnect, startVars, stop, link, rest, backoffVars>>

\* The server or the network ends the connection.
Lose(c) ==
  /\ link[c] = "up"
  /\ link' = [link EXCEPT ![c] = "down"]
  /\ UNCHANGED <<clientVars, startVars, stop, handler, rest, backoffVars>>

upTo(limit, t) == IF t < limit THEN t + 1 ELSE t

Tick ==
  /\ sinceDisconnect' = upTo(Hiccup, sinceDisconnect)
  /\ since' = [s \in Starts |-> IF pc[s] = "returned" THEN 0 ELSE upTo(Long, since[s])]
  /\ rest' = IF rest > 0 THEN rest - 1 ELSE 0
  /\ Policy!Elapse
  /\ UNCHANGED <<conn, connMu, serverErr, pc, mine, result, stop, link, handler>>

-----------------------------------------------------------------------------
(* Stop.                                                                    *)

CallStop ==
  /\ Embedded /\ ~stop
  /\ stop' = TRUE
  /\ UNCHANGED <<clientVars, startVars, link, handler, rest, backoffVars>>

StopReturns ==
  /\ stop
  /\ Unlocked
  /\ link' = IF conn # Nobody /\ link[conn] = "up" THEN [link EXCEPT ![conn] = "down"] ELSE link
  /\ conn' = Nobody
  /\ stop' = FALSE
  /\ UNCHANGED <<connMu, serverErr, sinceDisconnect, startVars, handler, rest, backoffVars>>

-----------------------------------------------------------------------------
Start(s) ==
  \/ Connect(s) \/ DialSucceeds(s) \/ DialFails(s) \/ Wake(s)
  \/ ServeConnReturns(s) \/ Disconnected(s)

Next ==
  \/ \E s \in Starts : CallStart(s) \/ Start(s)
  \/ \E c \in Conns : ServerSendsError(c) \/ HandleHandshakeError(c) \/ Lose(c)
  \/ Tick
  \/ CallStop \/ StopReturns

Spec == Init /\ [][Next]_vars

\* Goroutines are scheduled, time passes, contended locks are handed over, and
\* every attempt to dial ends.
Fairness ==
  /\ \A s \in Starts : SF_vars(Start(s))
  /\ \A c \in Conns : SF_vars(HandleHandshakeError(c))
  /\ WF_vars(Tick)
  /\ SF_vars(StopReturns)

FairSpec == Spec /\ Fairness

-----------------------------------------------------------------------------
larger(m, n) == IF m > n THEN m ELSE n

\* What the interval of the policy never exceeds: max_interval, or the interval
\* that the first outage or a later one begins with.
LongestInterval == larger(DefaultInterval, larger(InitialInterval, MaxInterval))

TypeOK ==
  /\ conn \in Conns \cup {Nobody}
  /\ connMu \in Starts \cup {Nobody}
  /\ serverErr \in Conns \cup {Nobody}
  /\ sinceDisconnect \in 0 .. Hiccup
  /\ pc \in [Starts -> {"returned", "connect", "dial", "sleep", "serve", "served"}]
  /\ mine \in [Starts -> Conns \cup {Nobody}]
  /\ result \in [Starts -> {"none", "alreadyConnected", "dialFailed",
                            "backoffLimit", "serverError", "beingCut"}]
  /\ since \in [Starts -> 0 .. Long]
  /\ stop \in BOOLEAN
  /\ link \in [Conns -> {"gone", "up", "down"}]
  /\ handler \in [Conns -> {"none", "running", "handled"}]
  /\ rest \in Nat
  /\ interval \in 0 .. LongestInterval
  /\ elapsed \in 0 .. MaxElapsedTime + 1

\* Every connection that is open is served by exactly one call of Start, which
\* closes it in the end: whether dialling fails half-way, Stop comes in between
\* or another Start clears the field conn, no connection is leaked or served
\* twice.
ConnsAreServed ==
  \A c \in Conns :
    /\ link[c] # "gone" => \E s \in Starts : pc[s] = "serve" /\ mine[s] = c
    /\ \A s, t \in Starts : mine[s] = c /\ mine[t] = c => s = t

\* The field conn never outlives its session, so Start cannot be refused as
\* "already connected" for ever: there is a call of Start that still has to
\* clear it.
ConnIsCurrent ==
  conn # Nobody => \E s \in Starts : pc[s] \in {"serve", "served"} /\ mine[s] = conn

\* One call of Start dials or sleeps at a time, and only this one holds connMu:
\* however connect ends, it leaves the lock to Stop and the others, and no other
\* goroutine can come in between its look at conn and its dial.
LockIsHeldToConnect ==
  {s \in Starts : pc[s] \in {"dial", "sleep"}} = {connMu} \ {Nobody}

\* A sleep of connect, for which Stop has to wait, is at most one and a half
\* times the longest of the library's 500 ms, interval and max_interval, and ends
\* by as much after max_time.
LongestSleep == (3 * LongestInterval + 1) \div 2

SleepsEndInTime ==
  /\ rest <= LongestSleep
  /\ MaxElapsedTime # 0 /\ rest > 0 => elapsed + rest <= MaxElapsedTime + LongestSleep

\* The program that calls Start once learns that the server refused it, instead
\* of dialling again: when a session ends on which the server's error was
\* handled, Start returns.
RefusedStartReturns ==
  [][\A s \in Starts :
       pc[s] = "served" /\ handler[mine[s]] = "handled" => pc'[s] # "connect"]_vars

\* Start gives up with "connection is being cut" only after a session that was
\* shorter than a hiccup, never after one that went well for longer.
CutSessionsAreShort ==
  [][\A s \in Starts :
       result'[s] = "beingCut" /\ result[s] # "beingCut" => since[s] < Hiccup]_vars

\* Every call of Start gets connected or returns: with a bound on the elapsed
\* time, dialling does not go on for ever.
StartGetsThrough ==
  \A s \in Starts : pc[s] = "connect" ~> pc[s] \in {"serve", "returned"}

\* Stop, which needs the lock that connect holds while it dials and sleeps,
\* returns, unless the policy never stops trying.
StopGetsThrough == stop ~> ~stop

\* client.go:139 refuses a second connection as "already connected": however
\* many calls of Start there are, the client has one connection at a time.  That
\* is so unless Stop comes in between.
OneSession == \A c, d \in Conns : link[c] = "up" /\ link[d] = "up" => c = d

\* client.go:89 says that Start "returns error if there is a connection error,
\* or server cannot open requested tunnels" and that "On connection error a
\* backoff policy is used to reestablish the connection": the error that Start
\* returns is one of its own session.
ServerErrorIsOwn ==
  [][\A s \in Starts :
       result'[s] = "serverError" /\ result[s] # "serverError" =>
         handler[mine[s]] = "handled"]_vars

=============================================================================
