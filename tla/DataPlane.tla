----------------------------- MODULE DataPlane ------------------------------
(***************************************************************************)
(* One end user's connection or HTTP request on its way through the        *)
(* tunnel: proxyConn, proxyConnUpgraded and proxyHTTP of the server        *)
(* (server.go), the HTTP/2 request that carries it (the vendored http2     *)
(* transport), and TCPProxy.Proxy or HTTPProxy.Proxy of the client with    *)
(* its connection to the local service.                                    *)
(*                                                                         *)
(* The bytes of a direction are chunks numbered from 1; a copy loop moves  *)
(* one chunk at a time.  A chunk is in the hands of a goroutine only where *)
(* it can be lost there: in the transport, between io.Pipe and the stream. *)
(*                                                                         *)
(*   user -> inbox -> (pipe) -> held -> up -> served        by the service *)
(*   user <- received <- down <- outbox                   from the service *)
(***************************************************************************)
EXTENDS Naturals, Sequences

CONSTANTS
  Kinds,    \* which of the server's functions carry connections here
  Sends,    \* chunks a user sends at most; an HTTP request has all of them
  Early,    \* chunks of a connection that were read before Upgrade
  Answers   \* chunks a service sends at most; an HTTP answer has all of them

ASSUME KindsAssumption == Kinds \subseteq {"proxyConn", "proxyConnUpgraded", "proxyHTTP"}
ASSUME SizesAssumption == Sends \in Nat \ {0} /\ Early \in 0..Sends /\ Answers \in Nat

VARIABLES
  kind,       \* the function of the server
  user,       \* "here", "half" (sends no more) or "gone"
  sent,       \* chunks the user has sent
  inbox,      \* those that the server has not read from the connection
  received,   \* chunks the user has got

  main,       \* goroutine of the function: "do", "return", "copy", "wait", "end"
  starter,    \* goroutine that writes requestBytes: "write", "signal", "end"
  first,      \* what is left of requestBytes
  uploader,   \* goroutine that copies from the user: "wait", "copy", "end"
  cancelled,  \* the context of the request

  pipe,       \* "open", "eof" (pw is closed) or "closed" (pr is)
  writer,     \* transport's goroutine that writes the body: "run", "end"
  held,       \* the chunk it has read from the pipe and not sent
  stream,     \* "open", "ended" by the client's handler, "reset" by either
  up, down,   \* chunks on the stream
  tunnel,     \* connection between server and client: "up", "lost"

  client,     \* goroutine of Proxy: "idle", "copy", "wait", "end"
  reply,      \* the copying of the service's output: "none", "copy", "end"
  service,    \* "open", "closed"
  served,     \* chunks the service has got
  answered,   \* chunks the service has sent
  outbox      \* those that the client has not read

userVars == <<kind, user, sent, inbox, received>>
serverVars == <<main, starter, first, uploader, cancelled>>
streamVars == <<pipe, writer, held, stream, up, down, tunnel>>
clientVars == <<client, reply>>
serviceVars == <<service, served, answered, outbox>>
vars == <<userVars, serverVars, streamVars, clientVars, serviceVars>>

Nothing == 0    \* held by a writer that has no chunk
END == 0        \* on a stream: its end in order

HTTP == kind = "proxyHTTP"

From(n, m) == [i \in 1..(m - n) |-> n + i]

Init ==
  /\ kind \in Kinds
  /\ user = "here"
  /\ sent = CASE kind = "proxyConn" -> 0
              [] kind = "proxyConnUpgraded" -> Early
              [] kind = "proxyHTTP" -> 1
  /\ first = IF kind = "proxyConnUpgraded" THEN From(0, Early) ELSE <<>>
  /\ inbox = IF HTTP THEN <<1>> ELSE <<>>
  /\ starter = IF kind = "proxyConnUpgraded" THEN "write" ELSE "end"
  /\ uploader = IF kind = "proxyConnUpgraded" THEN "wait" ELSE "copy"
  /\ main = "do"
  /\ cancelled = FALSE
  /\ pipe = "open" /\ writer = "run" /\ held = Nothing
  /\ stream = "open" /\ tunnel = "up"
  /\ client = "idle" /\ reply = "none"
  /\ service = "open"
  /\ answered = 0
  /\ received = <<>> /\ up = <<>> /\ down = <<>> /\ served = <<>> /\ outbox = <<>>

-----------------------------------------------------------------------------
(* The transport of the server *)

\* (Variant: the chunk is kept.)
AbortKeepsChunk ==
  /\ stream' = "reset"
  /\ pipe' = "closed"
  /\ writer' = "end"
  /\ UNCHANGED held
  /\ \E n \in 0..Len(down) : down' = SubSeq(down, 1, n)

\* RST_STREAM, or what the end of the connection does to each stream: pr is
\* closed, the body writer ends, and of the answer there is what has arrived.
Abort ==
  /\ stream' = "reset"
  /\ pipe' = "closed"
  /\ writer' = "end"
  /\ held' = Nothing
  /\ \E n \in 0..Len(down) : down' = SubSeq(down, 1, n)

\* writeRequestBody is in body.Read.  There it does not notice a context.
Reading == writer = "run" /\ held = Nothing

\* io.Pipe hands a chunk from the goroutine that writes to the one that reads.
HandOver(chunk) ==
  /\ pipe = "open"
  /\ Reading
  /\ held' = chunk
  /\ UNCHANGED <<pipe, writer, stream, up, down, tunnel>>

WriterSends ==
  /\ writer = "run" /\ held # Nothing
  /\ ~cancelled /\ stream = "open"
  /\ up' = Append(up, held)
  /\ held' = Nothing
  /\ UNCHANGED <<pipe, writer, stream, down, tunnel>>

\* awaitFlowControl looks at the context before it sends.
WriterCancelled ==
  /\ writer = "run" /\ held # Nothing
  /\ cancelled
  /\ Abort
  /\ UNCHANGED <<up, tunnel>>

WriterSeesEOF ==
  /\ Reading
  /\ pipe = "eof"
  /\ up' = IF stream = "open" THEN Append(up, END) ELSE up
  /\ writer' = "end"
  /\ UNCHANGED <<pipe, held, stream, down, tunnel>>

\* Woken by pw.Close, the reader finds pr closed as well: not EOF but
\* ErrClosedPipe, which is an error of the body and aborts the stream.
WriterSeesClosedPipe ==
  /\ Reading
  /\ pipe = "closed"
  /\ Abort
  /\ UNCHANGED <<up, tunnel>>

\* The client's handler returned before the end of the body: it says so by
\* RST_STREAM after the end of the answer.  The headers have come before and
\* woken RoundTrip, which has waited for them since it sent the request.
WriterStopped ==
  /\ writer = "run"
  /\ stream = "ended" /\ main # "do"
  /\ writer' = "end" /\ held' = Nothing /\ pipe' = "closed"
  /\ UNCHANGED <<stream, up, down, tunnel>>

Writer ==
  /\ WriterSends \/ WriterCancelled \/ WriterSeesEOF \/ WriterSeesClosedPipe \/ WriterStopped
  /\ UNCHANGED <<userVars, serverVars, clientVars, serviceVars>>

\* Keepalive or a failing write ends the connection to the client.  What is on
\* its way in either direction may be lost.
LoseTunnel ==
  /\ tunnel = "up"
  /\ tunnel' = "lost"
  /\ Abort
  /\ \E n \in 0..Len(up) : up' = SubSeq(up, 1, n)
  /\ UNCHANGED <<userVars, serverVars, clientVars, serviceVars>>

-----------------------------------------------------------------------------
(* The server *)

\* pw.Write(requestBytes) returns when all of it was read, or pr is closed.
StarterWrites ==
  /\ starter = "write"
  /\ IF first # <<>> /\ pipe = "open"
     THEN /\ HandOver(Head(first))
          /\ first' = Tail(first)
          /\ UNCHANGED starter
     ELSE /\ starter' = "signal"
          /\ UNCHANGED <<first, streamVars>>
  /\ UNCHANGED <<main, uploader, cancelled>>

\* (Variant: nothing is sent on continueChan.)
StarterSignalsNobody ==
  /\ starter = "signal" /\ uploader = "wait"
  /\ starter' = "end"
  /\ UNCHANGED <<main, first, uploader, cancelled, streamVars>>

\* continueChan is not buffered: both goroutines are at it.
StarterSignals ==
  /\ starter = "signal" /\ uploader = "wait"
  /\ starter' = "end" /\ uploader' = "copy"
  /\ UNCHANGED <<main, first, cancelled, streamVars>>

\* (Variant: does not wait for continueChan.)
UploaderCopiesAtOnce ==
  /\ uploader # "end" /\ inbox # <<>>
  /\ HandOver(Head(inbox))
  /\ inbox' = Tail(inbox)
  /\ UNCHANGED <<kind, user, sent, received, serverVars>>

UploaderCopies ==
  /\ uploader = "copy" /\ inbox # <<>>
  /\ HandOver(Head(inbox))
  /\ inbox' = Tail(inbox)
  /\ UNCHANGED <<kind, user, sent, received, serverVars>>

\* transfer, or r.Write, is over: there is nothing more to read, writing to
\* the pipe fails, or the function has returned and closed its end.  The
\* functions for connections then cancel the request and close done.
UploaderEnds ==
  /\ uploader = "copy"
  /\ \/ inbox = <<>> /\ user # "here"
     \/ inbox = <<>> /\ HTTP /\ sent = Sends
     \/ inbox # <<>> /\ pipe # "open"
     \/ main = "end"
  /\ uploader' = "end"
  /\ cancelled' = (cancelled \/ ~HTTP)
  /\ UNCHANGED <<main, starter, first, userVars, streamVars>>

\* RoundTrip waits in a select for the headers, the end of the stream and the
\* context, and what happens first decides.  Do returns with the headers; what
\* proxyHTTP defers closes pw and then pr.  A status above 299 has stopped the
\* body writer before.
DoReturns ==
  /\ main = "do"
  /\ down # <<>> /\ ~cancelled
  /\ IF ~HTTP
     THEN /\ main' = "copy"
          /\ UNCHANGED <<pipe, writer, held>>
     ELSE /\ main' = "return"
          /\ \/ /\ pipe' = (IF pipe = "open" THEN "eof" ELSE pipe)
                /\ UNCHANGED <<writer, held>>
             \/ pipe' = "closed" /\ writer' = "end" /\ held' = Nothing
  /\ UNCHANGED <<starter, first, uploader, cancelled, userVars, stream, up, down, tunnel>>

HTTPReturns ==
  /\ main = "return"
  /\ main' = "copy"
  /\ pipe' = "closed"
  /\ UNCHANGED <<starter, first, uploader, cancelled, userVars, writer, held, stream, up,
                 down, tunnel>>

\* What is deferred: the answer's body, the pipe and the user's connection are
\* closed.
Return ==
  /\ main' = "end"
  /\ stream' = IF stream = "open" THEN "reset" ELSE stream
  /\ pipe' = "closed" /\ writer' = "end" /\ held' = Nothing
  /\ down' = <<>>
  /\ UNCHANGED <<starter, first, uploader, cancelled, userVars, up, tunnel>>

\* No headers came before the stream or the context ended.
DoFails ==
  /\ main = "do"
  /\ \/ stream = "reset" /\ down = <<>>
     \/ cancelled
  /\ Return

\* Writing to a user who is gone succeeds at first.
CopyDown ==
  /\ main = "copy"
  /\ down # <<>> /\ Head(down) # END
  /\ down' = Tail(down)
  /\ \/ /\ user # "gone"
        /\ received' = Append(received, Head(down))
        /\ UNCHANGED main
     \/ /\ user = "gone"
        /\ main' \in {"copy", "wait"}
        /\ UNCHANGED received
  /\ UNCHANGED <<starter, first, uploader, cancelled, kind, user, sent, inbox, pipe, writer,
                 held, stream, up, tunnel>>

CopyEnds ==
  /\ main = "copy"
  /\ \/ down = <<>> /\ stream = "reset"
     \/ down # <<>> /\ Head(down) = END
  /\ main' = "wait"
  /\ UNCHANGED <<starter, first, uploader, cancelled, userVars, streamVars>>


\* done was closed, or DefaultTimeout is over.
WaitEnds ==
  /\ main = "wait"
  /\ Return

Starter == StarterWrites \/ StarterSignals
Uploader == UploaderCopies \/ UploaderEnds
Main == DoReturns \/ HTTPReturns \/ DoFails \/ CopyDown \/ CopyEnds \/ WaitEnds

Server ==
  /\ (Starter /\ UNCHANGED userVars) \/ Uploader \/ Main
  /\ UNCHANGED <<clientVars, serviceVars>>

-----------------------------------------------------------------------------
(* The user *)

UserSends ==
  /\ user = "here" /\ sent < Sends /\ main # "end"
  /\ sent' = sent + 1
  /\ inbox' = Append(inbox, sent + 1)
  /\ UNCHANGED <<kind, user, received>>

UserShuts ==
  /\ user = "here" /\ ~HTTP
  /\ user' = "half"
  /\ UNCHANGED <<kind, sent, inbox, received>>

\* A connection that is reset loses what was not read from it.
UserLeaves ==
  /\ user # "gone"
  /\ user' = "gone"
  /\ inbox' \in {inbox, <<>>}
  /\ UNCHANGED <<kind, sent, received>>

User ==
  /\ UserSends \/ UserShuts \/ UserLeaves
  /\ UNCHANGED <<serverVars, streamVars, clientVars, serviceVars>>

-----------------------------------------------------------------------------
(* The client *)

\* The handler's return ends the answer.  With nothing written, that is all of
\* the answer.
EndAnswer ==
  /\ stream' = IF stream = "open" THEN "ended" ELSE stream
  /\ down' = IF stream = "open" THEN Append(down, END) ELSE down
  /\ UNCHANGED <<pipe, writer, held, up, tunnel>>

\* The request is read and the local service dialled.
Proxy ==
  /\ client = "idle"
  /\ tunnel = "up" \/ up # <<>>
  /\ HTTP => up # <<>> /\ Head(up) # END
  /\ client' = "copy" /\ reply' = "copy"
  /\ UNCHANGED <<serviceVars, streamVars>>

\* No target, an unsupported protocol, a service that is down, a request that
\* cannot be read; or the request has never arrived.
ProxyFails ==
  /\ client = "idle"
  /\ client' = "end"
  /\ EndAnswer
  /\ UNCHANGED <<reply, serviceVars>>

\* Writing to a service that is gone succeeds at first.
CopyUp ==
  /\ client = "copy"
  /\ up # <<>> /\ Head(up) # END
  /\ up' = Tail(up)
  /\ \/ /\ service = "open"
        /\ served' = Append(served, Head(up))
        /\ UNCHANGED client
     \/ /\ service = "closed"
        /\ client' \in {"copy", "wait"}
        /\ UNCHANGED served
  /\ UNCHANGED <<reply, service, answered, outbox, pipe, writer, held, stream, down, tunnel>>

\* (Variant: a stream that was reset is not noticed.)
CopyUpEndsAtEOF ==
  /\ client = "copy"
  /\ up # <<>> /\ Head(up) = END
  /\ client' = "wait"
  /\ UNCHANGED <<reply, serviceVars, streamVars>>

\* An HTTP request that ends too early ends the local connection with it.
CopyUpEnds ==
  /\ client = "copy"
  /\ \/ up = <<>> /\ stream = "reset"
     \/ up # <<>> /\ Head(up) = END
  /\ client' = "wait"
  /\ reply' = IF HTTP /\ Len(served) < Sends THEN "end" ELSE reply
  /\ UNCHANGED <<serviceVars, streamVars>>

\* (Variant: without flushWriter, a chunk waits for the next one.)
CopyReplyUnflushed ==
  /\ reply = "copy" /\ outbox # <<>>
  /\ stream = "open"
  /\ Len(outbox) > 1 \/ service = "closed"
  /\ down' = Append(down, Head(outbox))
  /\ outbox' = Tail(outbox)
  /\ UNCHANGED <<clientVars, service, served, answered, pipe, writer, held, stream, up, tunnel>>

CopyReply ==
  /\ reply = "copy" /\ outbox # <<>>
  /\ stream = "open"
  /\ down' = Append(down, Head(outbox))
  /\ outbox' = Tail(outbox)
  /\ UNCHANGED <<clientVars, service, served, answered, pipe, writer, held, stream, up, tunnel>>

\* The service has ended its output, or writing to the stream fails, which
\* TCPProxy finds out when it has something to write, and HTTPProxy by
\* CloseNotify.
CopyReplyEnds ==
  /\ reply = "copy"
  /\ \/ outbox = <<>> /\ service = "closed"
     \/ stream = "reset" /\ (outbox # <<>> \/ HTTP)
  /\ reply' = "end"
  /\ UNCHANGED <<client, serviceVars, streamVars>>

\* (Variant: does not wait for the output of the service.)
ProxyReturnsAtOnce ==
  /\ client \in {"copy", "wait"}
  /\ client = "wait" \/ (HTTP /\ reply = "end")
  /\ client' = "end"
  /\ EndAnswer
  /\ UNCHANGED <<reply, serviceVars>>

\* TCPProxy waits for both directions, HTTPProxy for the answer.
ProxyReturns ==
  /\ client \in {"copy", "wait"} /\ reply = "end"
  /\ client = "wait" \/ HTTP
  /\ client' = "end"
  /\ EndAnswer
  /\ UNCHANGED <<reply, serviceVars>>

Handler == Proxy \/ ProxyFails \/ CopyUp \/ CopyUpEnds \/ ProxyReturns
Reply == CopyReply \/ CopyReplyEnds

Client == (Handler \/ Reply) /\ UNCHANGED <<userVars, serverVars>>

-----------------------------------------------------------------------------
(* The local service *)

\* An HTTP service answers when it has the head of the request, and may do so
\* before it has the rest.
ServiceSends ==
  /\ service = "open" /\ reply = "copy"
  /\ answered < Answers
  /\ HTTP => served # <<>>
  /\ answered' = answered + 1
  /\ outbox' = Append(outbox, answered + 1)
  /\ UNCHANGED <<service, served>>

\* At any time, or after its answer; or when the client closed the connection.
ServiceCloses ==
  /\ service = "open" /\ client # "idle"
  /\ HTTP => answered = Answers \/ reply = "end"
  /\ service' = "closed"
  /\ UNCHANGED <<served, answered, outbox>>

Service ==
  /\ ServiceSends \/ ServiceCloses
  /\ UNCHANGED <<userVars, serverVars, streamVars, clientVars>>

-----------------------------------------------------------------------------
Next == User \/ Server \/ Writer \/ LoseTunnel \/ Client \/ Service

Spec == Init /\ [][Next]_vars

\* Every goroutine that can run does, and timers fire.  One that writes to a
\* user or a service who is there can run only when they read: transfer sets no
\* deadline.  Nothing else is assumed of them, and nothing of the tunnel.
Fairness ==
  /\ WF_vars(Starter /\ UNCHANGED <<userVars, clientVars, serviceVars>>)
  /\ WF_vars(Uploader /\ UNCHANGED <<clientVars, serviceVars>>)
  /\ WF_vars(Main /\ UNCHANGED <<received, clientVars, serviceVars>>)
  /\ WF_vars(Writer)
  /\ WF_vars(Handler /\ UNCHANGED <<served, userVars, serverVars>>)
  /\ WF_vars(Reply /\ UNCHANGED <<userVars, serverVars>>)

\* Premises: while they are there, the user or the service reads.
UserReads == WF_vars(CopyDown /\ user # "gone" /\ UNCHANGED <<clientVars, serviceVars>>)
ServiceReads == WF_vars(CopyUp /\ service = "open" /\ UNCHANGED <<userVars, serverVars>>)

FairSpec == Spec /\ Fairness

-----------------------------------------------------------------------------
Chunks == Nat \ {0}

\* Every variable holds one of its states, and only the body writer of an open
\* pipe holds a chunk.
TypeOK ==
  /\ kind \in Kinds
  /\ user \in {"here", "half", "gone"}
  /\ sent \in 0..Sends /\ answered \in 0..Answers
  /\ inbox \in Seq(Chunks) /\ received \in Seq(Chunks) /\ first \in Seq(Chunks)
  /\ served \in Seq(Chunks) /\ outbox \in Seq(Chunks)
  /\ up \in Seq(Nat) /\ down \in Seq(Nat)
  /\ main \in {"do", "return", "copy", "wait", "end"}
  /\ starter \in {"write", "signal", "end"}
  /\ uploader \in {"wait", "copy", "end"}
  /\ cancelled \in BOOLEAN
  /\ pipe \in {"open", "eof", "closed"}
  /\ writer \in {"run", "end"}
  /\ held \in Nat /\ (held # Nothing => writer = "run")
  /\ stream \in {"open", "ended", "reset"} /\ tunnel \in {"up", "lost"}
  /\ client \in {"idle", "copy", "wait", "end"}
  /\ reply \in {"none", "copy", "end"}
  /\ service \in {"open", "closed"}

P == INSTANCE Pipe WITH
  given <- [d \in {"up", "down"} |-> IF d = "up" THEN sent ELSE answered],
  got <- [d \in {"up", "down"} |-> IF d = "up" THEN served ELSE received]

\* Whatever goroutines copy, in whatever order they are cancelled, fail or take
\* over from each other (requestBytes and the connection of proxyConnUpgraded),
\* each end gets a beginning of what the other sent, in its order.
ImplementsPipe == P!Spec

\* The server closes a user's connection under a user who is still there only
\* when the tunnel is lost or the user has got all that the service sent:
\* TCPProxy lets the copying of the answer end before it returns, and the
\* server reads the answer to its end.
ServiceEndDelivers ==
  ~HTTP /\ main = "end" /\ user = "here" /\ tunnel = "up" => Len(received) = answered


\* When the stream is over and the service has closed its connection, the
\* client's goroutines end.
ClientEnds ==
  stream # "open" /\ service = "closed" ~> client = "end" /\ reply # "copy"

\* What a user sends reaches a service that reads, unless one of them leaves, or
\* the stream ends: the pipe and continueChan do not block for ever.
ChunksArrive ==
  ~HTTP /\ ServiceReads => \A n \in 1..Sends :
    sent >= n ~> Len(served) >= n \/ user # "here" \/ service = "closed" \/ stream # "open"

\* What the service sends reaches a user who stays and reads, although the service
\* sends nothing more, unless the stream is reset.
AnswersArrive ==
  ~HTTP /\ UserReads => \A n \in 1..Answers :
    answered >= n ~> Len(received) >= n \/ user # "here" \/ stream = "reset"

\* A connection both of whose ends have gone is over.  README.md:183 says that
\* the server "proxies incoming connections to the client. Then the connection
\* is further proxied in the client's network."
GoneIsOver ==
  user = "gone" /\ service = "closed" ~> main = "end"

\* When the server lets go of a user who waits for an answer, and the service
\* has given it, to a whole request, the user has all of it while the tunnel is
\* up.  The integration test checks that as much is read as was sent
\* (integration_test.go:229).
AnswerIsWhole ==
  [][HTTP /\ main # "end" /\ main' = "end" /\ user = "here" /\ tunnel = "up"
       /\ Len(served) = Sends /\ answered = Answers
     => Len(received) = Answers]_vars

=============================================================================
