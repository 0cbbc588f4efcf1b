--------------------------- MODULE DataPlaneProofs ---------------------------
(***************************************************************************)
(* Proofs about DataPlane, for any number of chunks.                       *)
(***************************************************************************)
EXTENDS DataPlane, SequenceTheorems, TLAPS

-----------------------------------------------------------------------------
(* Sequences.                                                               *)

LEMMA Appended ==
  ASSUME NEW S, NEW s \in Seq(S), NEW x \in S
  PROVE  /\ Append(s, x) \in Seq(S) /\ Len(Append(s, x)) = Len(s) + 1
         /\ \A i \in 1 .. Len(s) + 1 : Append(s, x)[i] = IF i = Len(s) + 1 THEN x ELSE s[i]
OBVIOUS

LEMMA Taken ==
  ASSUME NEW S, NEW s \in Seq(S), s # <<>>
  PROVE  /\ Head(s) = s[1] /\ Head(s) \in S /\ Len(s) \in Nat \ {0}
         /\ Tail(s) \in Seq(S) /\ Len(Tail(s)) = Len(s) - 1
         /\ \A i \in 1 .. Len(s) - 1 : Tail(s)[i] = s[i + 1]
OBVIOUS

LEMMA Cut ==
  ASSUME NEW S, NEW s \in Seq(S), NEW n \in 0 .. Len(s)
  PROVE  /\ SubSeq(s, 1, n) \in Seq(S) /\ Len(SubSeq(s, 1, n)) = n
         /\ \A i \in 1 .. n : SubSeq(s, 1, n)[i] = s[i]
<1>1. \A i \in 1 .. n : s[i] \in S
  BY LenProperties
<1>2. n \in Nat /\ 1 \in Nat
  BY LenProperties
<1> QED BY <1>1, <1>2, SubSeqProperties

LEMMA Whole ==
  ASSUME NEW S, NEW s \in Seq(S)
  PROVE  Len(s) \in 0 .. Len(s) /\ s = SubSeq(s, 1, Len(s))
OBVIOUS

\* A run of numbers that loses its first.
LEMMA Shifted ==
  ASSUME NEW S, NEW s \in Seq(S), s # <<>>, NEW h \in Nat,
         \A i \in 1 .. Len(s) : s[i] = h + i
  PROVE  /\ Head(s) = h + 1
         /\ Len(s) \in Nat \ {0} /\ Tail(s) \in Seq(S) /\ Len(Tail(s)) = Len(s) - 1
         /\ \A i \in 1 .. Len(s) - 1 : Tail(s)[i] = h + 1 + i
<1>1. /\ Head(s) = s[1] /\ Len(s) \in Nat \ {0}
      /\ Tail(s) \in Seq(S) /\ Len(Tail(s)) = Len(s) - 1
      /\ \A i \in 1 .. Len(s) - 1 : Tail(s)[i] = s[i + 1]
  BY Taken
<1>2. s[1] = h + 1
  BY <1>1
<1>3. ASSUME NEW i \in 1 .. Len(s) - 1 PROVE Tail(s)[i] = h + 1 + i
  <2>1. i + 1 \in 1 .. Len(s)
    BY <1>1
  <2>2. Tail(s)[i] = s[i + 1] /\ s[i + 1] = h + (i + 1)
    BY <1>1, <2>1
  <2> QED BY <2>2
<1> QED BY <1>1, <1>2, <1>3

-----------------------------------------------------------------------------
(* Types.                                                                   *)

LEMMA InitType == ASSUME Init PROVE TypeOK
<1> USE KindsAssumption, SizesAssumption
<1>1. From(0, Early) \in Seq(Chunks)
  <2>1. Early \in Nat
    OBVIOUS
  <2>2. \A i \in 1 .. Early - 0 : 0 + i \in Chunks
    BY <2>1 DEF Chunks
  <2>3. Early - 0 \in Nat
    BY <2>1
  <2> QED BY <2>2, <2>3, IsASeq DEF From
<1>2. <<>> \in Seq(Chunks) /\ <<>> \in Seq(Nat) /\ <<1>> \in Seq(Chunks)
  BY DEF Chunks
<1>3. kind \in Kinds /\ kind \in {"proxyConn", "proxyConnUpgraded", "proxyHTTP"}
  BY DEF Init
<1>4. first \in Seq(Chunks) /\ inbox \in Seq(Chunks) /\ sent \in 0 .. Sends
  BY <1>1, <1>2, <1>3 DEF Init
<1>5. answered \in 0 .. Answers /\ answered = 0
  BY DEF Init
<1>6. /\ received \in Seq(Chunks) /\ served \in Seq(Chunks) /\ outbox \in Seq(Chunks)
      /\ up \in Seq(Nat) /\ down \in Seq(Nat)
  BY <1>2 DEF Init
<1>7. /\ main = "do" /\ starter \in {"write", "signal", "end"}
      /\ uploader \in {"wait", "copy", "end"}
      /\ user = "here" /\ pipe = "open" /\ writer = "run" /\ stream = "open" /\ tunnel = "up"
      /\ client = "idle" /\ reply = "none" /\ service = "open"
  BY DEF Init
<1>8. cancelled \in BOOLEAN
  BY DEF Init
<1>9. held \in Nat
  BY DEF Init, Nothing
<1> QED BY <1>3, <1>4, <1>5, <1>6, <1>7, <1>8, <1>9 DEF TypeOK

\* What Abort does to the types.
LEMMA AbortType ==
  ASSUME TypeOK, Abort
  PROVE  /\ stream' = "reset" /\ pipe' = "closed" /\ writer' = "end" /\ held' = 0
         /\ down' \in Seq(Nat)
BY Cut DEF Abort, TypeOK, Nothing

LEMMA HandOverType ==
  ASSUME TypeOK, NEW chunk \in Chunks, HandOver(chunk)
  PROVE  /\ writer = "run" /\ held' \in Nat
         /\ UNCHANGED <<pipe, writer, stream, up, down, tunnel>>
BY DEF HandOver, Reading, Chunks

LEMMA NextType == ASSUME TypeOK, [Next]_vars PROVE TypeOK'
<1> USE DEF userVars, serverVars, streamVars, clientVars, serviceVars
<1>1. ASSUME Writer PROVE TypeOK'
  <2>1. UNCHANGED <<userVars, serverVars, clientVars, serviceVars>>
    BY <1>1 DEF Writer
  <2>2. CASE WriterSends
    BY <2>1, <2>2, Appended DEF WriterSends, TypeOK, Nothing
  <2>3. CASE WriterCancelled \/ WriterSeesClosedPipe
    BY <2>1, <2>3, AbortType DEF WriterCancelled, WriterSeesClosedPipe, TypeOK, Nothing
  <2>4. CASE WriterSeesEOF
    BY <2>1, <2>4, Appended DEF WriterSeesEOF, Reading, TypeOK, Nothing, END
  <2>5. CASE WriterStopped
    BY <2>1, <2>5 DEF WriterStopped, TypeOK, Nothing
  <2> QED BY <1>1, <2>2, <2>3, <2>4, <2>5 DEF Writer
<1>2. ASSUME LoseTunnel PROVE TypeOK'
  <2>1. up' \in Seq(Nat)
    BY <1>2, Cut DEF LoseTunnel, TypeOK
  <2> QED BY <1>2, <2>1, AbortType DEF LoseTunnel, TypeOK, Nothing
<1>3. ASSUME Starter, UNCHANGED <<userVars, clientVars, serviceVars>> PROVE TypeOK'
  <2>1. CASE StarterWrites /\ first # <<>> /\ pipe = "open"
    <3>1. Head(first) \in Chunks /\ Tail(first) \in Seq(Chunks)
      BY <2>1, Taken DEF TypeOK
    <3>2. HandOver(Head(first)) /\ first' = Tail(first) /\ UNCHANGED <<starter, main, uploader, cancelled>>
      BY <2>1 DEF StarterWrites
    <3> QED BY <1>3, <3>1, <3>2, HandOverType DEF TypeOK, Nothing
  <2>2. CASE StarterWrites /\ ~(first # <<>> /\ pipe = "open")
    BY <1>3, <2>2 DEF StarterWrites, TypeOK
  <2>3. CASE StarterSignals
    BY <1>3, <2>3 DEF StarterSignals, TypeOK
  <2> QED BY <1>3, <2>1, <2>2, <2>3 DEF Starter
<1>4. ASSUME Uploader, UNCHANGED <<clientVars, serviceVars>> PROVE TypeOK'
  <2>1. CASE UploaderCopies
    <3>1. Head(inbox) \in Chunks /\ Tail(inbox) \in Seq(Chunks)
      BY <2>1, Taken DEF UploaderCopies, TypeOK
    <3> QED BY <1>4, <2>1, <3>1, HandOverType DEF UploaderCopies, TypeOK, Nothing
  <2>2. CASE UploaderEnds
    <3>1. cancelled' \in BOOLEAN
      BY <2>2 DEF UploaderEnds, TypeOK
    <3> QED BY <1>4, <2>2, <3>1 DEF UploaderEnds, TypeOK
  <2> QED BY <1>4, <2>1, <2>2 DEF Uploader
<1>5. ASSUME Main, UNCHANGED <<clientVars, serviceVars>> PROVE TypeOK'
  <2>1. CASE DoReturns
    BY <1>5, <2>1 DEF DoReturns, TypeOK, Nothing
  <2>2. CASE HTTPReturns
    BY <1>5, <2>2 DEF HTTPReturns, TypeOK
  <2>3. CASE DoFails \/ WaitEnds
    <3>1. Return
      BY <2>3 DEF DoFails, WaitEnds
    <3> QED BY <1>5, <3>1 DEF Return, TypeOK, Nothing
  <2>4. CASE CopyDown
    <3>1. /\ Head(down) \in Nat \ {0} /\ down' \in Seq(Nat)
          /\ received' \in {received, Append(received, Head(down))}
          /\ main' \in {"copy", "wait"}
      BY <2>4, Taken DEF CopyDown, TypeOK, END
    <3>2. Head(down) \in Chunks /\ received \in Seq(Chunks)
      BY <3>1 DEF TypeOK, Chunks
    <3>3. received' \in Seq(Chunks)
      <4>1. Append(received, Head(down)) \in Seq(Chunks)
        BY <3>2, Appended
      <4> QED BY <3>1, <3>2, <4>1
    <3>4. UNCHANGED <<starter, first, uploader, cancelled, kind, user, sent, inbox, pipe,
                      writer, held, stream, up, tunnel, client, reply, service, served,
                      answered, outbox>>
      BY <1>5, <2>4 DEF CopyDown, clientVars, serviceVars
    <3> QED BY <3>1, <3>3, <3>4 DEF TypeOK
  <2>5. CASE CopyEnds
    BY <1>5, <2>5 DEF CopyEnds, TypeOK
  <2> QED BY <1>5, <2>1, <2>2, <2>3, <2>4, <2>5 DEF Main
<1>6. ASSUME User PROVE TypeOK'
  <2>1. UNCHANGED <<serverVars, streamVars, clientVars, serviceVars>>
    BY <1>6 DEF User
  <2>2. CASE UserSends
    <3>1. sent + 1 \in Chunks /\ sent + 1 \in 0 .. Sends
      BY <2>2, SizesAssumption DEF UserSends, TypeOK, Chunks
    <3> QED BY <2>1, <2>2, <3>1, Appended DEF UserSends, TypeOK
  <2>3. CASE UserShuts
    BY <2>1, <2>3 DEF UserShuts, TypeOK
  <2>4. CASE UserLeaves
    <3>1. inbox' \in Seq(Chunks)
      <4>1. <<>> \in Seq(Chunks)
        OBVIOUS
      <4> QED BY <2>4, <4>1 DEF UserLeaves, TypeOK
    <3> QED BY <2>1, <2>4, <3>1 DEF UserLeaves, TypeOK
  <2> QED BY <1>6, <2>2, <2>3, <2>4 DEF User
<1>7. ASSUME Handler, UNCHANGED <<userVars, serverVars>> PROVE TypeOK'
  <2>1. ASSUME EndAnswer PROVE /\ down' \in Seq(Nat) /\ stream' \in {"open", "ended", "reset"}
                               /\ UNCHANGED <<pipe, writer, held, up, tunnel>>
    BY <2>1, Appended DEF EndAnswer, TypeOK, END
  <2>2. CASE Proxy
    BY <1>7, <2>2 DEF Proxy, TypeOK
  <2>3. CASE ProxyFails
    BY <1>7, <2>1, <2>3 DEF ProxyFails, TypeOK
  <2>4. CASE CopyUp
    <3>1. /\ Head(up) \in Nat \ {0} /\ up' \in Seq(Nat)
          /\ served' \in {served, Append(served, Head(up))}
          /\ client' \in {"copy", "wait"}
      BY <2>4, Taken DEF CopyUp, TypeOK, END
    <3>2. Head(up) \in Chunks /\ served \in Seq(Chunks)
      BY <3>1 DEF TypeOK, Chunks
    <3>3. served' \in Seq(Chunks)
      <4>1. Append(served, Head(up)) \in Seq(Chunks)
        BY <3>2, Appended
      <4> QED BY <3>1, <3>2, <4>1
    <3>4. UNCHANGED <<reply, service, answered, outbox, pipe, writer, held, stream, down,
                      tunnel, kind, user, sent, inbox, received, main, starter, first,
                      uploader, cancelled>>
      BY <1>7, <2>4 DEF CopyUp, userVars, serverVars
    <3> QED BY <3>1, <3>3, <3>4 DEF TypeOK
  <2>5. CASE CopyUpEnds
    BY <1>7, <2>5 DEF CopyUpEnds, TypeOK
  <2>6. CASE ProxyReturns
    BY <1>7, <2>1, <2>6 DEF ProxyReturns, TypeOK
  <2> QED BY <1>7, <2>2, <2>3, <2>4, <2>5, <2>6 DEF Handler
<1>8. ASSUME Reply, UNCHANGED <<userVars, serverVars>> PROVE TypeOK'
  <2>1. CASE CopyReply
    <3>1. Head(outbox) \in Nat /\ outbox' \in Seq(Chunks)
      BY <2>1, Taken DEF CopyReply, TypeOK, Chunks
    <3>2. down' \in Seq(Nat)
      BY <2>1, <3>1, Appended DEF CopyReply, TypeOK
    <3> QED BY <1>8, <2>1, <3>1, <3>2 DEF CopyReply, TypeOK
  <2>2. CASE CopyReplyEnds
    BY <1>8, <2>2 DEF CopyReplyEnds, TypeOK
  <2> QED BY <1>8, <2>1, <2>2 DEF Reply
<1>9. ASSUME Service PROVE TypeOK'
  <2>1. UNCHANGED <<userVars, serverVars, streamVars, clientVars>>
    BY <1>9 DEF Service
  <2>2. CASE ServiceSends
    <3>1. answered + 1 \in Chunks /\ answered + 1 \in 0 .. Answers
      BY <2>2, SizesAssumption DEF ServiceSends, TypeOK, Chunks
    <3> QED BY <2>1, <2>2, <3>1, Appended DEF ServiceSends, TypeOK
  <2>3. CASE ServiceCloses
    BY <2>1, <2>3 DEF ServiceCloses, TypeOK
  <2> QED BY <1>9, <2>2, <2>3 DEF Service
<1>10. ASSUME UNCHANGED vars PROVE TypeOK'
  BY <1>10 DEF vars, TypeOK
<1> QED BY <1>1, <1>2, <1>3, <1>4, <1>5, <1>6, <1>7, <1>8, <1>9, <1>10
        DEF Next, Server, Client

\* In particular the transport never keeps a chunk past the end of its body
\* writer, however the stream ends.
THEOREM TypeOKAlways == Spec => []TypeOK
<1>1. TypeOK /\ [Next]_vars => TypeOK'
  BY NextType
<1> QED BY InitType, <1>1, PTL DEF Spec

-----------------------------------------------------------------------------
(* From the user to the service.  While the service is there, what is on the *)
(* stream continues what it was served; while the pipe is open as well, the  *)
(* body writer's chunk, requestBytes and the connection continue that, in    *)
(* this order and to the last chunk the user sent.                           *)

Handed == Len(served) + Len(up) + (IF held = 0 THEN 0 ELSE 1)

OnStream ==
  service = "open" =>
    \A i \in 1 .. Len(up) : up[i] # 0 => up[i] = Len(served) + i /\ up[i] <= sent

AtWriter ==
  service = "open" /\ held # 0 => held = Len(served) + Len(up) + 1 /\ held <= sent

BeforePipe ==
  service = "open" /\ writer = "run" /\ pipe = "open" =>
    /\ \A i \in 1 .. Len(first) : first[i] = Handed + i
    /\ \A i \in 1 .. Len(inbox) : inbox[i] = Handed + Len(first) + i
    /\ Handed + Len(first) + Len(inbox) <= sent
    /\ user # "gone" => Handed + Len(first) + Len(inbox) = sent

\* Of the two goroutines that write to the pipe, the second waits for the first.
OneWrites ==
  /\ starter = "write" \/ first = <<>> \/ pipe # "open"
  /\ uploader = "copy" => starter = "end"

UpInOrder == OnStream /\ AtWriter /\ BeforePipe /\ OneWrites

upVars == <<user, sent, inbox, served, service, up, held, writer, pipe, first, starter, uploader>>

LEMMA InitUp == ASSUME Init PROVE UpInOrder
<1> USE KindsAssumption, SizesAssumption
<1>1. /\ served = <<>> /\ up = <<>> /\ held = 0 /\ Handed = 0
  BY DEF Init, Nothing, Handed
<1>2. kind \in {"proxyConn", "proxyConnUpgraded", "proxyHTTP"}
  BY DEF Init
<1>3. /\ \A i \in 1 .. Len(first) : first[i] = i
      /\ \A i \in 1 .. Len(inbox) : inbox[i] = Len(first) + i
      /\ Len(first) + Len(inbox) = sent
      /\ sent \in Nat
  <2>1. CASE kind = "proxyConn"
    BY <2>1 DEF Init, HTTP
  <2>2. CASE kind = "proxyHTTP"
    BY <2>2 DEF Init, HTTP
  <2>3. CASE kind = "proxyConnUpgraded"
    <3>1. first = [i \in 1 .. Early |-> i] /\ inbox = <<>> /\ sent = Early
      BY <2>3 DEF Init, HTTP, From
    <3>2. Early \in Nat
      OBVIOUS
    <3>3. Len(first) = Early
      BY <3>1, <3>2
    <3> QED BY <3>1, <3>2, <3>3
  <2> QED BY <1>2, <2>1, <2>2, <2>3
<1>4. OnStream /\ AtWriter
  BY <1>1 DEF OnStream, AtWriter
<1>5. BeforePipe
  <2>1. Len(first) \in Nat /\ Len(inbox) \in Nat
    BY InitType DEF TypeOK
  <2> QED BY <1>1, <1>3, <2>1 DEF BeforePipe
<1>6. OneWrites
  BY <1>2 DEF Init, OneWrites
<1> QED BY <1>4, <1>5, <1>6 DEF UpInOrder

\* A chunk that is handed over at the pipe, of which the rest comes from
\* requestBytes and from the connection.
LEMMA HandOverUp ==
  ASSUME TypeOK, UpInOrder, NEW chunk \in Chunks, HandOver(chunk),
         UNCHANGED <<user, sent, served, service>>,
         first' \in Seq(Chunks), inbox' \in Seq(Chunks),
         \/ /\ first # <<>> /\ chunk = Head(first) /\ first' = Tail(first) /\ inbox' = inbox
         \/ /\ first = <<>> /\ inbox # <<>> /\ chunk = Head(inbox)
            /\ first' = first /\ inbox' = Tail(inbox)
  PROVE  OnStream' /\ AtWriter' /\ BeforePipe'
<1>1. /\ pipe = "open" /\ writer = "run" /\ held = 0 /\ held' = chunk /\ chunk # 0
      /\ UNCHANGED <<pipe, writer, up>>
  BY DEF HandOver, Reading, Nothing, Chunks
<1>2. OnStream'
  BY <1>1 DEF UpInOrder, OnStream
<1>3. /\ Len(served) \in Nat /\ Len(up) \in Nat /\ sent \in Nat
      /\ Len(first) \in Nat /\ Len(inbox) \in Nat
  BY SizesAssumption DEF TypeOK
<1>4. Handed = Len(served) + Len(up) /\ Handed' = Handed + 1 /\ Handed \in Nat
  BY <1>1, <1>3 DEF Handed
<1>5. SUFFICES ASSUME service = "open" PROVE AtWriter' /\ BeforePipe'
  BY <1>2 DEF AtWriter, BeforePipe
<1>6. /\ \A i \in 1 .. Len(first) : first[i] = Handed + i
      /\ \A i \in 1 .. Len(inbox) : inbox[i] = Handed + Len(first) + i
      /\ Handed + Len(first) + Len(inbox) <= sent
      /\ user # "gone" => Handed + Len(first) + Len(inbox) = sent
  BY <1>1, <1>5 DEF UpInOrder, BeforePipe
<1>7. CASE first # <<>> /\ chunk = Head(first) /\ first' = Tail(first) /\ inbox' = inbox
  <2>1. /\ chunk = Handed + 1 /\ Len(first) >= 1 /\ Len(first') = Len(first) - 1
        /\ \A i \in 1 .. Len(first) - 1 : first'[i] = Handed + 1 + i
    BY <1>4, <1>6, <1>7, Shifted DEF TypeOK
  <2>2. chunk <= sent
    BY <1>3, <1>4, <1>6, <2>1
  <2>3. AtWriter'
    BY <1>1, <1>4, <2>1, <2>2 DEF AtWriter
  <2>4. \A i \in 1 .. Len(first') : first'[i] = Handed' + i
    BY <1>4, <2>1
  <2>5. Handed' + Len(first') = Handed + Len(first)
    BY <1>3, <1>4, <2>1
  <2> QED BY <1>6, <1>7, <2>3, <2>4, <2>5 DEF BeforePipe
<1>8. CASE /\ first = <<>> /\ inbox # <<>> /\ chunk = Head(inbox)
           /\ first' = first /\ inbox' = Tail(inbox)
  <2>1. Len(first) = 0 /\ Handed + Len(first) = Handed
    BY <1>4, <1>8
  <2>2. \A i \in 1 .. Len(inbox) : inbox[i] = Handed + i
    BY <1>6, <2>1
  <2>3. /\ chunk = Handed + 1 /\ Len(inbox) >= 1 /\ Len(inbox') = Len(inbox) - 1
        /\ \A i \in 1 .. Len(inbox) - 1 : inbox'[i] = Handed + 1 + i
    BY <1>4, <1>8, <2>2, Shifted DEF TypeOK
  <2>4. chunk <= sent
    BY <1>3, <1>4, <1>6, <2>1, <2>3
  <2>5. AtWriter'
    BY <1>1, <1>4, <2>3, <2>4 DEF AtWriter
  <2>6. Len(first') = 0 /\ Handed' + Len(first') = Handed + 1
    BY <1>4, <1>8, <2>1
  <2>7. \A i \in 1 .. Len(inbox') : inbox'[i] = Handed' + Len(first') + i
    BY <2>3, <2>6
  <2>8. Handed' + Len(first') + Len(inbox') = Handed + Len(first) + Len(inbox)
    BY <1>3, <1>4, <2>1, <2>3, <2>6
  <2> QED BY <1>6, <1>8, <2>5, <2>6, <2>7, <2>8 DEF BeforePipe
<1> QED BY <1>7, <1>8

\* The body writer has ended, and of the stream there is a beginning.
LEMMA WriterEndsUp ==
  ASSUME TypeOK, UpInOrder, writer' = "end", held' = 0, pipe' \in {pipe, "closed"},
         NEW n \in 0 .. Len(up), up' = SubSeq(up, 1, n),
         UNCHANGED <<sent, served, service, first, starter, uploader>>
  PROVE  UpInOrder'
<1>1. /\ Len(up') = n /\ n <= Len(up) /\ n \in Nat /\ Len(up) \in Nat
      /\ \A i \in 1 .. n : up'[i] = up[i]
  BY Cut DEF TypeOK
<1>2. OnStream'
  BY <1>1 DEF UpInOrder, OnStream
<1> QED BY <1>2 DEF UpInOrder, AtWriter, BeforePipe, OneWrites

\* Steps of which the way up notices nothing, or that its pipe is shut.
LEMMA ShutsUp ==
  ASSUME UpInOrder, pipe' = pipe \/ pipe' # "open",
         UNCHANGED <<user, sent, inbox, served, service, up, held, writer, first, starter, uploader>>
  PROVE  UpInOrder'
<1>1. Handed' = Handed
  BY DEF Handed
<1>2. OnStream' /\ AtWriter' /\ OneWrites'
  BY DEF UpInOrder, OnStream, AtWriter, OneWrites
<1>3. BeforePipe'
  BY <1>1 DEF UpInOrder, BeforePipe
<1> QED BY <1>2, <1>3 DEF UpInOrder

LEMMA WriterUp == ASSUME TypeOK, UpInOrder, Writer PROVE UpInOrder'
<1> USE DEF userVars, serverVars, streamVars, clientVars, serviceVars
<1>1. UNCHANGED <<user, sent, inbox, served, service, first, starter, uploader>>
  BY DEF Writer
<1>2. CASE WriterSends
  <2>1. /\ held # 0 /\ held' = 0 /\ up' = Append(up, held) /\ UNCHANGED <<pipe, writer>>
        /\ held \in Nat /\ Len(up) \in Nat /\ Len(served) \in Nat
    BY <1>2 DEF WriterSends, Nothing, TypeOK
  <2>2. /\ Len(up') = Len(up) + 1
        /\ \A i \in 1 .. Len(up) + 1 : up'[i] = IF i = Len(up) + 1 THEN held ELSE up[i]
    BY <2>1, Appended DEF TypeOK
  <2>3. Handed' = Handed
    BY <1>1, <2>1, <2>2 DEF Handed
  <2>4. OnStream'
    <3>1. SUFFICES ASSUME service = "open", NEW i \in 1 .. Len(up) + 1, up'[i] # 0
                   PROVE  up'[i] = Len(served) + i /\ up'[i] <= sent
      BY <1>1, <2>2 DEF OnStream
    <3>2. CASE i = Len(up) + 1
      BY <2>1, <2>2, <3>1, <3>2 DEF UpInOrder, AtWriter
    <3>3. CASE i # Len(up) + 1
      <4>1. i \in 1 .. Len(up) /\ up'[i] = up[i]
        BY <2>1, <2>2, <3>3
      <4> QED BY <3>1, <4>1 DEF UpInOrder, OnStream
    <3> QED BY <3>2, <3>3
  <2>5. AtWriter' /\ OneWrites'
    BY <1>1, <2>1 DEF UpInOrder, AtWriter, OneWrites
  <2>6. BeforePipe'
    BY <1>1, <2>1, <2>3 DEF UpInOrder, BeforePipe
  <2> QED BY <2>4, <2>5, <2>6 DEF UpInOrder
<1>3. CASE WriterSeesEOF
  <2>1. held = 0 /\ held' = 0 /\ writer' = "end" /\ pipe' = pipe /\ up' \in {up, Append(up, 0)}
    BY <1>3 DEF WriterSeesEOF, Reading, Nothing, END
  <2>2. /\ Len(Append(up, 0)) = Len(up) + 1 /\ Len(up) \in Nat
        /\ \A i \in 1 .. Len(up) + 1 : Append(up, 0)[i] = IF i = Len(up) + 1 THEN 0 ELSE up[i]
    BY Appended DEF TypeOK
  <2>3. \A i \in 1 .. Len(up') : up'[i] # 0 => i \in 1 .. Len(up) /\ up'[i] = up[i]
    BY <2>1, <2>2
  <2>4. OnStream'
    BY <1>1, <2>3 DEF UpInOrder, OnStream
  <2> QED BY <1>1, <2>1, <2>4 DEF UpInOrder, AtWriter, BeforePipe, OneWrites
<1>4. CASE WriterCancelled \/ WriterSeesClosedPipe \/ WriterStopped
  <2>1. writer' = "end" /\ held' = 0 /\ pipe' = "closed" /\ up' = up
    BY <1>4 DEF WriterCancelled, WriterSeesClosedPipe, WriterStopped, Abort, Nothing
  <2>2. Len(up) \in 0 .. Len(up) /\ up' = SubSeq(up, 1, Len(up))
    BY <2>1, Whole DEF TypeOK
  <2> QED BY <1>1, <2>1, <2>2, WriterEndsUp
<1> QED BY <1>2, <1>3, <1>4 DEF Writer

LEMMA ReturnUp == ASSUME TypeOK, UpInOrder, Return, UNCHANGED <<served, service>> PROVE UpInOrder'
<1>1. /\ writer' = "end" /\ held' = 0 /\ pipe' = "closed" /\ up' = up
      /\ UNCHANGED <<sent, first, starter, uploader>>
  BY DEF Return, Nothing, userVars
<1>2. Len(up) \in 0 .. Len(up) /\ up' = SubSeq(up, 1, Len(up))
  BY <1>1, Whole DEF TypeOK
<1> QED BY <1>1, <1>2, WriterEndsUp

LEMMA ServerUp == ASSUME TypeOK, UpInOrder, Server PROVE UpInOrder'
<1> USE DEF userVars, serverVars, streamVars, clientVars, serviceVars
<1>1. UNCHANGED <<served, service>>
  BY DEF Server
<1>2. CASE StarterWrites /\ UNCHANGED userVars
  <2>1. CASE first # <<>> /\ pipe = "open"
    <3>1. /\ HandOver(Head(first)) /\ first' = Tail(first)
          /\ UNCHANGED <<user, sent, inbox, starter, uploader>>
      BY <1>2, <2>1 DEF StarterWrites
    <3>2. Head(first) \in Chunks /\ first' \in Seq(Chunks) /\ inbox' \in Seq(Chunks)
      BY <2>1, <3>1, Taken DEF TypeOK
    <3>3. OnStream' /\ AtWriter' /\ BeforePipe'
      BY <1>1, <2>1, <3>1, <3>2, HandOverUp
    <3>4. OneWrites'
      BY <1>2, <3>1 DEF UpInOrder, OneWrites, StarterWrites
    <3> QED BY <3>3, <3>4 DEF UpInOrder
  <2>2. CASE ~(first # <<>> /\ pipe = "open")
    <3>1. UNCHANGED <<user, sent, inbox, up, held, writer, pipe, first, uploader>>
      BY <1>2, <2>2 DEF StarterWrites
    <3>2. OneWrites'
      BY <1>2, <2>2, <3>1 DEF UpInOrder, OneWrites, StarterWrites
    <3>3. Handed' = Handed
      BY <1>1, <3>1 DEF Handed
    <3> QED BY <1>1, <3>1, <3>2, <3>3 DEF UpInOrder, OnStream, AtWriter, BeforePipe
  <2> QED BY <2>1, <2>2
<1>3. CASE StarterSignals /\ UNCHANGED userVars
  <2>1. UNCHANGED <<user, sent, inbox, up, held, writer, pipe, first>>
    BY <1>3 DEF StarterSignals
  <2>2. OneWrites'
    BY <1>3 DEF UpInOrder, OneWrites, StarterSignals
  <2>3. Handed' = Handed
    BY <1>1, <2>1 DEF Handed
  <2> QED BY <1>1, <2>1, <2>2, <2>3 DEF UpInOrder, OnStream, AtWriter, BeforePipe
<1>4. CASE UploaderCopies
  <2>1. /\ HandOver(Head(inbox)) /\ inbox # <<>> /\ inbox' = Tail(inbox) /\ first' = first
        /\ UNCHANGED <<user, sent, starter, uploader>> /\ uploader = "copy"
    BY <1>4 DEF UploaderCopies
  <2>2. Head(inbox) \in Chunks /\ first' \in Seq(Chunks) /\ inbox' \in Seq(Chunks)
    BY <2>1, Taken DEF TypeOK
  <2>3. pipe = "open" /\ pipe' = "open"
    BY <2>1 DEF HandOver
  <2>4. first = <<>>
    BY <2>1, <2>3 DEF UpInOrder, OneWrites
  <2>5. OnStream' /\ AtWriter' /\ BeforePipe'
    BY <1>1, <2>1, <2>2, <2>4, HandOverUp
  <2> QED BY <2>1, <2>4, <2>5 DEF UpInOrder, OneWrites
<1>5. CASE UploaderEnds
  <2>1. /\ UNCHANGED <<user, sent, inbox, up, held, writer, pipe, first, starter>>
        /\ uploader' = "end"
    BY <1>5 DEF UploaderEnds
  <2>2. Handed' = Handed
    BY <1>1, <2>1 DEF Handed
  <2> QED BY <1>1, <2>1, <2>2 DEF UpInOrder, OnStream, AtWriter, BeforePipe, OneWrites
<1>6. CASE DoReturns
  <2>1. UNCHANGED <<user, sent, inbox, first, starter, uploader, up>>
    BY <1>6 DEF DoReturns
  <2>2. CASE ~HTTP \/ (pipe' = (IF pipe = "open" THEN "eof" ELSE pipe) /\ UNCHANGED <<writer, held>>)
    BY <1>1, <1>6, <2>1, <2>2, ShutsUp DEF DoReturns
  <2>3. CASE pipe' = "closed" /\ writer' = "end" /\ held' = Nothing
    <3>1. Len(up) \in 0 .. Len(up) /\ up' = SubSeq(up, 1, Len(up))
      BY <2>1, Whole DEF TypeOK
    <3> QED BY <1>1, <2>1, <2>3, <3>1, WriterEndsUp DEF Nothing
  <2> QED BY <1>6, <2>2, <2>3 DEF DoReturns
<1>7. CASE HTTPReturns
  BY <1>1, <1>7, ShutsUp DEF HTTPReturns
<1>8. CASE DoFails \/ WaitEnds
  BY <1>1, <1>8, ReturnUp DEF DoFails, WaitEnds
<1>9. CASE CopyDown \/ CopyEnds
  BY <1>1, <1>9, ShutsUp DEF CopyDown, CopyEnds
<1> QED BY <1>2, <1>3, <1>4, <1>5, <1>6, <1>7, <1>8, <1>9 DEF Server, Starter, Uploader, Main

LEMMA UserUp == ASSUME TypeOK, UpInOrder, User PROVE UpInOrder'
<1> USE DEF userVars, serverVars, streamVars, clientVars, serviceVars
<1>1. UNCHANGED <<served, service, up, held, writer, pipe, first, starter, uploader>>
  BY DEF User
<1>2. Handed' = Handed
  BY <1>1 DEF Handed
<1>3. OneWrites'
  BY <1>1 DEF UpInOrder, OneWrites
<1>4. /\ sent \in Nat /\ Handed \in Nat /\ Len(first) \in Nat /\ Len(inbox) \in Nat
      /\ Len(up) \in Nat /\ Len(served) \in Nat /\ held \in Nat
  BY SizesAssumption DEF TypeOK, Handed
<1>5. CASE UserSends
  <2>1. sent' = sent + 1 /\ inbox' = Append(inbox, sent + 1) /\ user = "here" /\ user' = user
    BY <1>5 DEF UserSends
  <2>2. OnStream' /\ AtWriter'
    <3>1. AtWriter'
      BY <1>1, <1>4, <2>1 DEF UpInOrder, AtWriter
    <3>2. ASSUME service = "open", NEW i \in 1 .. Len(up), up[i] # 0
          PROVE  up[i] = Len(served) + i /\ up[i] <= sent + 1
      BY <1>4, <3>2 DEF UpInOrder, OnStream
    <3> QED BY <1>1, <2>1, <3>1, <3>2 DEF OnStream
  <2>3. BeforePipe'
    <3>1. SUFFICES ASSUME service = "open", writer = "run", pipe = "open"
                   PROVE  BeforePipe'
      BY <1>1 DEF BeforePipe
    <3>2. /\ \A i \in 1 .. Len(first) : first[i] = Handed + i
          /\ \A i \in 1 .. Len(inbox) : inbox[i] = Handed + Len(first) + i
          /\ Handed + Len(first) + Len(inbox) = sent
      BY <2>1, <3>1 DEF UpInOrder, BeforePipe
    <3>3. sent + 1 \in Chunks
      BY <1>4 DEF Chunks
    <3>4. /\ Len(inbox') = Len(inbox) + 1
          /\ \A i \in 1 .. Len(inbox) + 1 :
               inbox'[i] = IF i = Len(inbox) + 1 THEN sent + 1 ELSE inbox[i]
      BY <2>1, <3>3, Appended DEF TypeOK
    <3>5. ASSUME NEW i \in 1 .. Len(inbox) + 1 PROVE inbox'[i] = Handed + Len(first) + i
      <4>1. CASE i = Len(inbox) + 1
        <5>1. inbox'[i] = sent + 1
          BY <3>4, <4>1
        <5>2. Handed + Len(first) + i = sent + 1
          BY <1>4, <3>2, <4>1
        <5> QED BY <5>1, <5>2
      <4>2. CASE i # Len(inbox) + 1
        <5>1. i \in 1 .. Len(inbox)
          BY <1>4, <4>2
        <5> QED BY <3>2, <3>4, <4>2, <5>1
      <4> QED BY <4>1, <4>2
    <3>6. Handed + Len(first) + Len(inbox') = sent'
      BY <1>4, <2>1, <3>2, <3>4
    <3>7. Handed + Len(first) + Len(inbox') <= sent'
      BY <1>4, <2>1, <3>6
    <3> QED BY <1>1, <1>2, <3>2, <3>4, <3>5, <3>6, <3>7 DEF BeforePipe
  <2> QED BY <1>3, <2>2, <2>3 DEF UpInOrder
<1>6. CASE UserShuts
  <2>1. user = "here" /\ user' = "half" /\ UNCHANGED <<sent, inbox>>
    BY <1>6 DEF UserShuts
  <2>2. OnStream' /\ AtWriter'
    BY <1>1, <2>1 DEF UpInOrder, OnStream, AtWriter
  <2>3. BeforePipe'
    BY <1>1, <1>2, <2>1 DEF UpInOrder, BeforePipe
  <2> QED BY <1>3, <2>2, <2>3 DEF UpInOrder
<1>7. CASE UserLeaves
  <2>1. user' = "gone" /\ sent' = sent /\ inbox' \in {inbox, <<>>}
    BY <1>7 DEF UserLeaves
  <2>2. OnStream' /\ AtWriter'
    BY <1>1, <2>1 DEF UpInOrder, OnStream, AtWriter
  <2>3. ASSUME inbox' = inbox PROVE BeforePipe'
    BY <1>1, <1>2, <2>1, <2>3 DEF UpInOrder, BeforePipe
  <2>4. ASSUME inbox' = <<>> PROVE BeforePipe'
    <3>1. Len(inbox') = 0
      BY <2>4
    <3>2. SUFFICES ASSUME service = "open", writer = "run", pipe = "open" PROVE BeforePipe'
      BY <1>1 DEF BeforePipe
    <3>3. /\ \A i \in 1 .. Len(first) : first[i] = Handed + i
          /\ Handed + Len(first) + Len(inbox) <= sent
      BY <3>2 DEF UpInOrder, BeforePipe
    <3>4. Handed + Len(first) + 0 <= sent
      BY <1>4, <3>3
    <3>5. Handed' + Len(first') + Len(inbox') <= sent'
      BY <1>1, <1>2, <2>1, <3>1, <3>4
    <3>6. \A i \in 1 .. Len(inbox') : inbox'[i] = Handed' + Len(first') + i
      BY <3>1
    <3> QED BY <1>1, <1>2, <2>1, <3>3, <3>5, <3>6 DEF BeforePipe
  <2> QED BY <1>3, <2>1, <2>2, <2>3, <2>4 DEF UpInOrder
<1> QED BY <1>5, <1>6, <1>7 DEF User

\* The client's copying passes the chunk on that comes next.
LEMMA CopyUpNext ==
  ASSUME TypeOK, UpInOrder, CopyUp, service = "open"
  PROVE  /\ served' = Append(served, Len(served) + 1) /\ Len(served) < sent
         /\ Len(served') = Len(served) + 1 /\ Len(up') = Len(up) - 1
         /\ \A i \in 1 .. Len(up) - 1 : up'[i] = up[i + 1]
<1>1. /\ Head(up) = up[1] /\ up[1] # 0 /\ served' = Append(served, up[1])
      /\ Len(up) \in Nat \ {0} /\ Len(up') = Len(up) - 1
      /\ \A i \in 1 .. Len(up) - 1 : up'[i] = up[i + 1]
  BY Taken DEF CopyUp, TypeOK, END
<1>2. up[1] = Len(served) + 1 /\ up[1] <= sent
  BY <1>1 DEF UpInOrder, OnStream
<1>3. Len(served) \in Nat /\ sent \in Nat
  BY SizesAssumption DEF TypeOK
<1>4. Len(served) + 1 \in Chunks
  BY <1>3 DEF Chunks
<1>5. Len(served') = Len(served) + 1
  BY <1>1, <1>2, <1>4, Appended DEF TypeOK
<1> QED BY <1>1, <1>2, <1>3, <1>5

LEMMA NextUp == ASSUME TypeOK, UpInOrder, [Next]_vars PROVE UpInOrder'
<1> USE DEF userVars, serverVars, streamVars, clientVars, serviceVars
<1>1. CASE LoseTunnel
  <2>1. PICK n \in 0 .. Len(up) : up' = SubSeq(up, 1, n)
    BY <1>1 DEF LoseTunnel
  <2> QED BY <1>1, <2>1, WriterEndsUp DEF LoseTunnel, Abort, Nothing
<1>2. CASE Client
  <2>1. UNCHANGED <<user, sent, inbox, first, starter, uploader>>
    BY <1>2 DEF Client
  <2>2. CASE CopyUp
    <3>1. UNCHANGED <<service, pipe, writer, held>>
      BY <2>2 DEF CopyUp
    <3>2. CASE service = "closed"
      BY <2>1, <3>1, <3>2 DEF UpInOrder, OnStream, AtWriter, BeforePipe, OneWrites
    <3>3. CASE service = "open"
      <4>1. /\ Len(served) \in Nat /\ Len(up) \in Nat
        BY DEF TypeOK
      <4>2. /\ Len(served') = Len(served) + 1 /\ Len(up') = Len(up) - 1
            /\ \A i \in 1 .. Len(up) - 1 : up'[i] = up[i + 1]
        BY <2>2, <3>3, CopyUpNext
      <4>3. Len(served') + Len(up') = Len(served) + Len(up) /\ Handed' = Handed
        BY <3>1, <4>1, <4>2 DEF Handed
      <4>4. ASSUME NEW i \in 1 .. Len(up'), up'[i] # 0
            PROVE  up'[i] = Len(served') + i /\ up'[i] <= sent
        <5>1. i + 1 \in 1 .. Len(up) /\ up'[i] = up[i + 1]
          BY <4>1, <4>2
        <5>2. up[i + 1] = Len(served) + (i + 1) /\ up[i + 1] <= sent
          BY <3>3, <4>4, <5>1 DEF UpInOrder, OnStream
        <5> QED BY <4>1, <4>2, <5>1, <5>2
      <4>5. OnStream'
        BY <2>1, <4>4 DEF OnStream
      <4>6. AtWriter' /\ OneWrites'
        BY <2>1, <3>1, <4>3 DEF UpInOrder, AtWriter, OneWrites
      <4> QED BY <2>1, <3>1, <4>3, <4>5, <4>6 DEF UpInOrder, BeforePipe
    <3> QED BY <3>2, <3>3 DEF TypeOK
  <2>3. CASE ~CopyUp
    <3>1. UNCHANGED <<served, service, up, held, writer, pipe>>
      BY <1>2, <2>3 DEF Client, Handler, Reply, Proxy, ProxyFails, CopyUpEnds, ProxyReturns,
                        EndAnswer, CopyReply, CopyReplyEnds
    <3> QED BY <2>1, <3>1, ShutsUp
  <2> QED BY <2>2, <2>3
<1>3. CASE Service
  <2>1. UNCHANGED <<user, sent, inbox, served, up, held, writer, pipe, first, starter, uploader>>
    BY <1>3 DEF Service, ServiceSends, ServiceCloses
  <2>2. service' = service \/ service' = "closed"
    BY <1>3 DEF Service, ServiceSends, ServiceCloses
  <2>3. CASE service' = "closed"
    BY <2>1, <2>3 DEF UpInOrder, OnStream, AtWriter, BeforePipe, OneWrites
  <2> QED BY <2>1, <2>2, <2>3, ShutsUp
<1>4. CASE UNCHANGED vars
  BY <1>4, ShutsUp DEF vars
<1> QED BY <1>1, <1>2, <1>3, <1>4, UserUp, ServerUp, WriterUp DEF Next

-----------------------------------------------------------------------------
(* From the service to the user.  What is on the stream continues what a     *)
(* user who is there has received, and while nothing has ended the stream,   *)
(* what the client has not read continues that, to the service's last chunk. *)

OnStreamDown ==
  user # "gone" =>
    \A i \in 1 .. Len(down) : down[i] # 0 => down[i] = Len(received) + i /\ down[i] <= answered

AtClient ==
  user # "gone" /\ stream = "open" =>
    /\ \A i \in 1 .. Len(outbox) : outbox[i] = Len(received) + Len(down) + i
    /\ Len(received) + Len(down) + Len(outbox) = answered

DownInOrder == OnStreamDown /\ AtClient

LEMMA InitDown == ASSUME Init PROVE DownInOrder
<1>1. received = <<>> /\ down = <<>> /\ outbox = <<>> /\ answered = 0
  BY DEF Init
<1> QED BY <1>1 DEF DownInOrder, OnStreamDown, AtClient

\* The stream is not open any more, and of the answer there is a beginning.
LEMMA StreamEndsDown ==
  ASSUME TypeOK, DownInOrder, stream' # "open",
         NEW n \in 0 .. Len(down), down' = SubSeq(down, 1, n),
         UNCHANGED <<user, received, answered>>
  PROVE  DownInOrder'
<1>1. /\ Len(down') = n /\ n <= Len(down) /\ n \in Nat /\ Len(down) \in Nat
      /\ \A i \in 1 .. n : down'[i] = down[i]
  BY Cut DEF TypeOK
<1>2. OnStreamDown'
  BY <1>1 DEF DownInOrder, OnStreamDown
<1> QED BY <1>2 DEF DownInOrder, AtClient

LEMMA AbortDown ==
  ASSUME TypeOK, DownInOrder, Abort, UNCHANGED <<user, received, answered>>
  PROVE  DownInOrder'
<1>1. PICK n \in 0 .. Len(down) : down' = SubSeq(down, 1, n)
  BY DEF Abort
<1> QED BY <1>1, StreamEndsDown DEF Abort

LEMMA SameDown ==
  ASSUME DownInOrder, UNCHANGED <<user, received, down, answered, outbox, stream>>
  PROVE  DownInOrder'
BY DEF DownInOrder, OnStreamDown, AtClient

LEMMA EndAnswerDown ==
  ASSUME TypeOK, DownInOrder, EndAnswer, UNCHANGED <<user, received, answered, outbox>>
  PROVE  DownInOrder'
<1>1. CASE stream = "open"
  <2>1. stream' = "ended" /\ down' = Append(down, 0)
    BY <1>1 DEF EndAnswer, END
  <2>2. /\ Len(down') = Len(down) + 1 /\ Len(down) \in Nat
        /\ \A i \in 1 .. Len(down) + 1 : down'[i] = IF i = Len(down) + 1 THEN 0 ELSE down[i]
    BY <2>1, Appended DEF TypeOK
  <2>3. \A i \in 1 .. Len(down') : down'[i] # 0 => i \in 1 .. Len(down) /\ down'[i] = down[i]
    BY <2>2
  <2>4. OnStreamDown'
    BY <2>3 DEF DownInOrder, OnStreamDown
  <2> QED BY <2>1, <2>4 DEF DownInOrder, AtClient
<1>2. CASE stream # "open"
  BY <1>2, SameDown DEF EndAnswer
<1> QED BY <1>1, <1>2

\* The server's copying gives a user who is there the chunk that comes next.
LEMMA CopyDownNext ==
  ASSUME TypeOK, DownInOrder, CopyDown, user # "gone"
  PROVE  /\ received' = Append(received, Len(received) + 1) /\ Len(received) < answered
         /\ Len(received') = Len(received) + 1 /\ Len(down') = Len(down) - 1
         /\ \A i \in 1 .. Len(down) - 1 : down'[i] = down[i + 1]
<1>1. /\ Head(down) = down[1] /\ down[1] # 0 /\ received' = Append(received, down[1])
      /\ Len(down) \in Nat \ {0} /\ Len(down') = Len(down) - 1
      /\ \A i \in 1 .. Len(down) - 1 : down'[i] = down[i + 1]
  BY Taken DEF CopyDown, TypeOK, END
<1>2. down[1] = Len(received) + 1 /\ down[1] <= answered
  BY <1>1 DEF DownInOrder, OnStreamDown
<1>3. Len(received) \in Nat /\ answered \in Nat
  BY SizesAssumption DEF TypeOK
<1>4. Len(received) + 1 \in Chunks
  BY <1>3 DEF Chunks
<1>5. Len(received') = Len(received) + 1
  BY <1>1, <1>2, <1>4, Appended DEF TypeOK
<1> QED BY <1>1, <1>2, <1>3, <1>5

LEMMA ServerDown == ASSUME TypeOK, DownInOrder, Server PROVE DownInOrder'
<1> USE DEF userVars, serverVars, streamVars, clientVars, serviceVars
<1>1. UNCHANGED <<answered, outbox>>
  BY DEF Server
<1>2. CASE (Starter /\ UNCHANGED userVars) \/ Uploader
  BY <1>1, <1>2, SameDown DEF Starter, StarterWrites, StarterSignals, Uploader, UploaderCopies,
                              UploaderEnds, HandOver
<1>3. CASE DoReturns \/ HTTPReturns \/ CopyEnds
  BY <1>1, <1>3, SameDown DEF DoReturns, HTTPReturns, CopyEnds
<1>4. CASE DoFails \/ WaitEnds
  <2>1. Return
    BY <1>4 DEF DoFails, WaitEnds
  <2>2. down' = <<>> /\ stream' # "open" /\ UNCHANGED <<user, received>>
    BY <2>1 DEF Return
  <2>3. 0 \in 0 .. Len(down) /\ <<>> = SubSeq(down, 1, 0)
    BY Cut, LenProperties DEF TypeOK
  <2> QED BY <1>1, <2>2, <2>3, StreamEndsDown
<1>5. CASE CopyDown
  <2>1. UNCHANGED <<user, stream>>
    BY <1>5 DEF CopyDown
  <2>2. CASE user = "gone"
    BY <2>1, <2>2 DEF DownInOrder, OnStreamDown, AtClient
  <2>3. CASE user # "gone"
    <3>1. /\ Len(received') = Len(received) + 1 /\ Len(down') = Len(down) - 1
          /\ \A i \in 1 .. Len(down) - 1 : down'[i] = down[i + 1]
      BY <1>5, <2>3, CopyDownNext
    <3>2. Len(received) \in Nat /\ Len(down) \in Nat /\ Len(outbox) \in Nat
      BY DEF TypeOK
    <3>3. Len(received') + Len(down') = Len(received) + Len(down)
      BY <3>1, <3>2
    <3>4. ASSUME NEW i \in 1 .. Len(down'), down'[i] # 0
          PROVE  down'[i] = Len(received') + i /\ down'[i] <= answered
      <4>1. i + 1 \in 1 .. Len(down) /\ down'[i] = down[i + 1]
        BY <3>1, <3>2
      <4>2. down[i + 1] = Len(received) + (i + 1) /\ down[i + 1] <= answered
        BY <2>3, <3>4, <4>1 DEF DownInOrder, OnStreamDown
      <4> QED BY <3>1, <3>2, <4>1, <4>2
    <3>5. OnStreamDown'
      BY <1>1, <3>4 DEF OnStreamDown
    <3> QED BY <1>1, <2>1, <3>3, <3>5 DEF DownInOrder, AtClient
  <2> QED BY <2>2, <2>3
<1> QED BY <1>2, <1>3, <1>4, <1>5 DEF Server, Main

LEMMA ClientDown == ASSUME TypeOK, DownInOrder, Client PROVE DownInOrder'
<1> USE DEF userVars, serverVars, streamVars, clientVars, serviceVars
<1>1. UNCHANGED <<user, received>>
  BY DEF Client
<1>2. CASE ProxyFails \/ ProxyReturns
  BY <1>1, <1>2, EndAnswerDown DEF ProxyFails, ProxyReturns
<1>3. CASE Proxy \/ CopyUp \/ CopyUpEnds \/ CopyReplyEnds
  BY <1>1, <1>3, SameDown DEF Proxy, CopyUp, CopyUpEnds, CopyReplyEnds
<1>4. CASE CopyReply
  <2>1. SUFFICES ASSUME user # "gone" PROVE DownInOrder'
    BY <1>1 DEF DownInOrder, OnStreamDown, AtClient
  <2>2. /\ stream = "open" /\ outbox # <<>> /\ UNCHANGED <<stream, answered>>
        /\ down' = Append(down, Head(outbox)) /\ outbox' = Tail(outbox)
    BY <1>4 DEF CopyReply
  <2>3. /\ \A i \in 1 .. Len(outbox) : outbox[i] = Len(received) + Len(down) + i
        /\ Len(received) + Len(down) + Len(outbox) = answered
    BY <2>1, <2>2 DEF DownInOrder, AtClient
  <2>4. Len(received) \in Nat /\ Len(down) \in Nat /\ Len(received) + Len(down) \in Nat
    BY DEF TypeOK
  <2>5. /\ Head(outbox) = Len(received) + Len(down) + 1
        /\ Len(outbox) \in Nat \ {0} /\ Len(outbox') = Len(outbox) - 1
        /\ \A i \in 1 .. Len(outbox) - 1 : outbox'[i] = Len(received) + Len(down) + 1 + i
    BY <2>2, <2>3, <2>4, Shifted DEF TypeOK
  <2>6. Head(outbox) \in Nat
    BY <2>4, <2>5
  <2>7. /\ Len(down') = Len(down) + 1
        /\ \A i \in 1 .. Len(down) + 1 :
             down'[i] = IF i = Len(down) + 1 THEN Head(outbox) ELSE down[i]
    BY <2>2, <2>6, Appended DEF TypeOK
  <2>8. Len(received) + Len(down') = Len(received) + Len(down) + 1
    BY <2>4, <2>7
  <2>9. ASSUME NEW i \in 1 .. Len(down) + 1, down'[i] # 0
        PROVE  down'[i] = Len(received) + i /\ down'[i] <= answered
    <3>1. CASE i = Len(down) + 1
      <4>1. down'[i] = Len(received) + i
        BY <2>4, <2>5, <2>7, <3>1
      <4>2. Len(received) + i <= answered
        BY <2>3, <2>4, <2>5, <3>1
      <4> QED BY <4>1, <4>2
    <3>2. CASE i # Len(down) + 1
      <4>1. i \in 1 .. Len(down) /\ down'[i] = down[i]
        BY <2>4, <2>7, <3>2
      <4> QED BY <2>1, <2>9, <4>1 DEF DownInOrder, OnStreamDown
    <3> QED BY <3>1, <3>2
  <2>10. OnStreamDown'
    BY <1>1, <2>2, <2>7, <2>9 DEF OnStreamDown
  <2>11. /\ \A i \in 1 .. Len(outbox') : outbox'[i] = Len(received) + Len(down') + i
         /\ Len(received) + Len(down') + Len(outbox') = answered
    <3>1. Len(received) + Len(down) + Len(outbox) = answered
      BY <2>3
    <3>2. Len(outbox) \in Nat /\ Len(outbox') = Len(outbox) - 1
      BY <2>5
    <3>3. Len(received) + Len(down') + Len(outbox') = answered
      BY <2>4, <2>8, <3>1, <3>2
    <3>4. ASSUME NEW i \in 1 .. Len(outbox) - 1
          PROVE  outbox'[i] = Len(received) + Len(down') + i
      BY <2>5, <2>8
    <3> QED BY <3>2, <3>3, <3>4
  <2> QED BY <1>1, <2>2, <2>10, <2>11 DEF DownInOrder, AtClient
<1> QED BY <1>2, <1>3, <1>4 DEF Client, Handler, Reply

LEMMA NextDown == ASSUME TypeOK, DownInOrder, [Next]_vars PROVE DownInOrder'
<1> USE DEF userVars, serverVars, streamVars, clientVars, serviceVars
<1>1. CASE LoseTunnel
  BY <1>1, AbortDown DEF LoseTunnel
<1>2. CASE Writer
  <2>1. UNCHANGED <<user, received, answered, outbox>>
    BY <1>2 DEF Writer
  <2>2. CASE WriterCancelled \/ WriterSeesClosedPipe
    BY <2>1, <2>2, AbortDown DEF WriterCancelled, WriterSeesClosedPipe
  <2>3. CASE WriterSends \/ WriterSeesEOF \/ WriterStopped
    BY <2>1, <2>3, SameDown DEF WriterSends, WriterSeesEOF, WriterStopped
  <2> QED BY <1>2, <2>2, <2>3 DEF Writer
<1>3. CASE User
  <2>1. UNCHANGED <<received, down, answered, outbox, stream>>
    BY <1>3 DEF User, UserSends, UserShuts, UserLeaves
  <2>2. user' = user \/ user' = "gone" \/ user = "here"
    BY <1>3 DEF User, UserSends, UserShuts, UserLeaves
  <2> QED BY <2>1, <2>2 DEF DownInOrder, OnStreamDown, AtClient
<1>4. CASE Service
  <2>1. UNCHANGED <<user, received, down, stream>>
    BY <1>4 DEF Service
  <2>2. CASE ServiceCloses
    BY <2>1, <2>2, SameDown DEF ServiceCloses
  <2>3. CASE ServiceSends
    <3>1. answered' = answered + 1 /\ outbox' = Append(outbox, answered + 1)
      BY <2>3 DEF ServiceSends
    <3>2. /\ answered \in Nat /\ Len(received) \in Nat /\ Len(down) \in Nat /\ Len(outbox) \in Nat
      BY SizesAssumption DEF TypeOK
    <3>3. ASSUME user # "gone", NEW i \in 1 .. Len(down), down[i] # 0
          PROVE  down[i] = Len(received) + i /\ down[i] <= answered + 1
      BY <3>2, <3>3 DEF DownInOrder, OnStreamDown
    <3>4. OnStreamDown'
      BY <2>1, <3>1, <3>3 DEF OnStreamDown
    <3>5. ASSUME user # "gone", stream = "open"
          PROVE  /\ \A i \in 1 .. Len(outbox') : outbox'[i] = Len(received) + Len(down) + i
                 /\ Len(received) + Len(down) + Len(outbox') = answered'
      <4>1. /\ \A i \in 1 .. Len(outbox) : outbox[i] = Len(received) + Len(down) + i
            /\ Len(received) + Len(down) + Len(outbox) = answered
        BY <3>5 DEF DownInOrder, AtClient
      <4>2. answered + 1 \in Chunks
        BY <3>2 DEF Chunks
      <4>3. /\ Len(outbox') = Len(outbox) + 1
            /\ \A i \in 1 .. Len(outbox) + 1 :
                 outbox'[i] = IF i = Len(outbox) + 1 THEN answered + 1 ELSE outbox[i]
        BY <3>1, <4>2, Appended DEF TypeOK
      <4>4. Len(received) + Len(down) + Len(outbox') = answered'
        <5>1. Len(received) + Len(down) + Len(outbox) = answered /\ Len(outbox') = Len(outbox) + 1
          BY <4>1, <4>3
        <5> QED BY <3>1, <3>2, <5>1
      <4>5. ASSUME NEW i \in 1 .. Len(outbox) + 1
            PROVE  outbox'[i] = Len(received) + Len(down) + i
        <5>1. CASE i = Len(outbox) + 1
          <6>1. outbox'[i] = answered + 1
            BY <4>3, <5>1
          <6>2. Len(received) + Len(down) + i = answered + 1
            BY <3>2, <4>1, <5>1
          <6> QED BY <6>1, <6>2
        <5>2. CASE i # Len(outbox) + 1
          <6>1. i \in 1 .. Len(outbox) /\ outbox'[i] = outbox[i]
            BY <3>2, <4>3, <5>2
          <6> QED BY <4>1, <6>1
        <5> QED BY <5>1, <5>2
      <4> QED BY <4>3, <4>4, <4>5
    <3> QED BY <2>1, <3>4, <3>5 DEF DownInOrder, AtClient
  <2> QED BY <1>4, <2>2, <2>3 DEF Service
<1>5. CASE UNCHANGED vars
  BY <1>5, SameDown DEF vars
<1> QED BY <1>1, <1>2, <1>3, <1>4, <1>5, ServerDown, ClientDown DEF Next

-----------------------------------------------------------------------------
(* DataPlane implements Pipe.                                                *)

InOrder == TypeOK /\ UpInOrder /\ DownInOrder

LEMMA InOrderInductive ==
  /\ Init => InOrder
  /\ InOrder /\ [Next]_vars => InOrder'
BY InitType, InitUp, InitDown, NextType, NextUp, NextDown DEF InOrder

LEMMA InitPipe == ASSUME Init PROVE P!Init
<1>1. sent \in Nat /\ answered \in Nat /\ served = <<>> /\ received = <<>>
  <2>1. sent \in 0 .. Sends /\ answered \in 0 .. Answers
    BY InitType DEF TypeOK
  <2>2. served = <<>> /\ received = <<>>
    BY DEF Init
  <2> QED BY <2>1, <2>2, SizesAssumption
<1> QED BY <1>1 DEF P!Init, P!Dirs

\* A step that gives a chunk, gets the one that comes next, or does neither.
LEMMA PipeStep ==
  ASSUME \/ sent' = sent + 1 /\ UNCHANGED <<served, answered, received>>
         \/ answered' = answered + 1 /\ UNCHANGED <<served, sent, received>>
         \/ /\ served' = Append(served, Len(served) + 1) /\ Len(served) < sent
            /\ UNCHANGED <<sent, answered, received>>
         \/ /\ received' = Append(received, Len(received) + 1) /\ Len(received) < answered
            /\ UNCHANGED <<sent, answered, served>>
         \/ UNCHANGED <<sent, served, answered, received>>
  PROVE  [P!Next]_P!vars
<1>1. CASE sent' = sent + 1 /\ UNCHANGED <<served, answered, received>>
  <2>1. P!Give("up")
    BY <1>1 DEF P!Give
  <2> QED BY <2>1 DEF P!Next, P!Dirs
<1>2. CASE answered' = answered + 1 /\ UNCHANGED <<served, sent, received>>
  <2>1. P!Give("down")
    BY <1>2 DEF P!Give
  <2> QED BY <2>1 DEF P!Next, P!Dirs
<1>3. CASE /\ served' = Append(served, Len(served) + 1) /\ Len(served) < sent
           /\ UNCHANGED <<sent, answered, received>>
  <2>1. P!Get("up")
    BY <1>3 DEF P!Get
  <2> QED BY <2>1 DEF P!Next, P!Dirs
<1>4. CASE /\ received' = Append(received, Len(received) + 1) /\ Len(received) < answered
           /\ UNCHANGED <<sent, answered, served>>
  <2>1. P!Get("down")
    BY <1>4 DEF P!Get
  <2> QED BY <2>1 DEF P!Next, P!Dirs
<1>5. CASE UNCHANGED <<sent, served, answered, received>>
  BY <1>5 DEF P!vars
<1> QED BY <1>1, <1>2, <1>3, <1>4, <1>5

LEMMA NextPipe == ASSUME InOrder, [Next]_vars PROVE [P!Next]_P!vars
<1> USE DEF userVars, serverVars, streamVars, clientVars, serviceVars
<1>1. CASE Writer \/ LoseTunnel \/ UNCHANGED vars
  <2>1. UNCHANGED <<sent, served, answered, received>>
    BY <1>1 DEF Writer, LoseTunnel, vars
  <2> QED BY <2>1, PipeStep
<1>2. CASE User
  <2>1. UNCHANGED <<served, answered, received>> /\ (sent' = sent + 1 \/ sent' = sent)
    BY <1>2 DEF User, UserSends, UserShuts, UserLeaves
  <2> QED BY <2>1, PipeStep
<1>3. CASE Service
  <2>1. UNCHANGED <<served, sent, received>> /\ (answered' = answered + 1 \/ answered' = answered)
    BY <1>3 DEF Service, ServiceSends, ServiceCloses
  <2> QED BY <2>1, PipeStep
<1>4. CASE Server
  <2>1. UNCHANGED <<served, answered>>
    BY <1>4 DEF Server
  <2>2. CASE CopyDown /\ user # "gone"
    <3>1. received' = Append(received, Len(received) + 1) /\ Len(received) < answered
      BY <2>2, CopyDownNext DEF InOrder
    <3>2. sent' = sent
      BY <2>2 DEF CopyDown
    <3> QED BY <2>1, <3>1, <3>2, PipeStep
  <2>3. CASE (Starter /\ UNCHANGED userVars) \/ Uploader
    <3>1. UNCHANGED <<sent, received>>
      BY <2>3 DEF Uploader, UploaderCopies, UploaderEnds
    <3> QED BY <2>1, <3>1, PipeStep
  <2>4. CASE Main /\ ~(CopyDown /\ user # "gone")
    <3>1. UNCHANGED <<sent, received>>
      BY <2>4 DEF Main, DoReturns, HTTPReturns, DoFails, WaitEnds, Return, CopyDown, CopyEnds
    <3> QED BY <2>1, <3>1, PipeStep
  <2> QED BY <1>4, <2>2, <2>3, <2>4 DEF Server
<1>5. CASE Client
  <2>1. UNCHANGED <<sent, received>>
    BY <1>5 DEF Client
  <2>2. CASE CopyUp /\ service = "open"
    <3>1. served' = Append(served, Len(served) + 1) /\ Len(served) < sent
      BY <2>2, CopyUpNext DEF InOrder
    <3>2. answered' = answered
      BY <2>2 DEF CopyUp
    <3> QED BY <2>1, <3>1, <3>2, PipeStep
  <2>3. CASE ~(CopyUp /\ service = "open")
    <3>1. UNCHANGED <<served, answered>>
      BY <1>5, <2>3 DEF Client, Handler, Reply, Proxy, ProxyFails, CopyUp, CopyUpEnds,
                        ProxyReturns, CopyReply, CopyReplyEnds
    <3> QED BY <2>1, <3>1, PipeStep
  <2> QED BY <2>2, <2>3
<1> QED BY <1>1, <1>2, <1>3, <1>4, <1>5 DEF Next

\* Through cancellations, failures and the take-over from requestBytes, each end
\* of a connection gets a beginning of what the other has sent, in its order.
THEOREM PipeIsImplemented == Spec => ImplementsPipe
<1>1. InOrder /\ [Next]_vars => [P!Next]_P!vars
  BY NextPipe
<1> QED BY InOrderInductive, InitPipe, <1>1, PTL DEF Spec, ImplementsPipe, P!Spec

-----------------------------------------------------------------------------
(* The end of a connection whose user is there, while the tunnel is up.      *)

Served == ~HTTP /\ user = "here" /\ tunnel = "up"

\* Only the client's handler ends the stream, and nothing before that shuts
\* the pipe or cancels the request.
OnlyHandlerEnds ==
  /\ stream # "reset"
  /\ main # "return"
  /\ main # "end" => \/ pipe = "open" /\ ~cancelled
                     \/ stream = "ended" /\ main # "do" /\ writer = "end"
  /\ main = "end" => writer = "end"

\* The handler ends it after the copying of the service's output.
AfterCopying ==
  /\ reply # "copy" => outbox = <<>>
  /\ client = "idle" \/ client = "end" => reply # "copy"
  /\ stream = "ended" => client = "end"

\* What the user has not received of it is on the stream, with its end after it.
EndIsLast ==
  /\ stream = "open" => \A i \in 1 .. Len(down) : down[i] # 0
  /\ stream = "ended" /\ main \in {"do", "copy"} =>
       /\ Len(down) >= 1 /\ Len(received) + Len(down) = answered + 1
       /\ \A i \in 1 .. Len(down) - 1 : down[i] # 0
       /\ down[Len(down)] = 0
  /\ main \in {"wait", "end"} => stream = "ended" /\ Len(received) = answered

Ending == Served => OnlyHandlerEnds /\ AfterCopying /\ EndIsLast

Ends == OnlyHandlerEnds /\ AfterCopying /\ EndIsLast

endVars == <<main, cancelled, pipe, writer, stream, down, client, reply, outbox, received, answered>>

LEMMA InitEnding == ASSUME Init PROVE Ending
<1>1. /\ main = "do" /\ ~cancelled /\ pipe = "open" /\ writer = "run" /\ stream = "open"
      /\ client = "idle" /\ reply = "none" /\ outbox = <<>> /\ down = <<>>
  BY DEF Init
<1>2. OnlyHandlerEnds /\ AfterCopying
  BY <1>1 DEF OnlyHandlerEnds, AfterCopying
<1>3. EndIsLast
  BY <1>1 DEF EndIsLast
<1> QED BY <1>2, <1>3 DEF Ending

\* No step brings a user or a tunnel back.
LEMMA ServedBefore == ASSUME [Next]_vars, Served' PROVE Served
<1> USE DEF userVars, serverVars, streamVars, clientVars, serviceVars
<1>1. kind' = kind
  BY DEF Next, User, UserSends, UserShuts, UserLeaves, Server, Uploader, UploaderCopies, UploaderEnds,
         Main, DoReturns, HTTPReturns, DoFails, WaitEnds, Return, CopyDown, CopyEnds, Writer,
         LoseTunnel, Client, Service, vars
<1>2. user' = user \/ user' # "here"
  BY DEF Next, User, UserSends, UserShuts, UserLeaves, Server, Uploader, UploaderCopies, UploaderEnds,
         Main, DoReturns, HTTPReturns, DoFails, WaitEnds, Return, CopyDown, CopyEnds, Writer,
         LoseTunnel, Client, Service, vars
<1>3. tunnel' = tunnel \/ tunnel' # "up"
  <2>1. CASE User \/ Service \/ LoseTunnel \/ UNCHANGED vars
    BY <2>1 DEF User, Service, LoseTunnel, vars
  <2>2. CASE Writer
    BY <2>2 DEF Writer, WriterSends, WriterCancelled, WriterSeesEOF, WriterSeesClosedPipe, WriterStopped
  <2>3. CASE Server
    BY <2>3 DEF Server, Starter, StarterWrites, StarterSignals, Uploader, UploaderCopies, UploaderEnds,
                HandOver, Main, DoReturns, HTTPReturns, DoFails, WaitEnds, Return, CopyDown, CopyEnds
  <2>4. CASE Client
    BY <2>4 DEF Client, Handler, Reply, Proxy, ProxyFails, CopyUp, CopyUpEnds, ProxyReturns, EndAnswer,
                CopyReply, CopyReplyEnds
  <2> QED BY <2>1, <2>2, <2>3, <2>4 DEF Next
<1> QED BY <1>1, <1>2, <1>3 DEF Served, HTTP

LEMMA SameEnds == ASSUME Ends, UNCHANGED endVars PROVE Ends'
BY DEF Ends, endVars, OnlyHandlerEnds, AfterCopying, EndIsLast

\* The body writer aborts nothing: it is cancelled, and finds the pipe closed,
\* only after the stream has ended and it has itself.
LEMMA WriterEnds == ASSUME TypeOK, Ends, Writer PROVE Ends'
<1> USE DEF userVars, serverVars, streamVars, clientVars, serviceVars
<1>1. UNCHANGED <<main, cancelled, client, reply, outbox, received, answered>>
  BY DEF Writer
<1>2. writer = "run"
  BY DEF Writer, WriterSends, WriterCancelled, WriterSeesEOF, WriterSeesClosedPipe, WriterStopped,
         Reading
<1>3. pipe = "open" /\ ~cancelled /\ main # "end"
  BY <1>2 DEF Ends, OnlyHandlerEnds
<1>4. WriterSends \/ WriterStopped
  BY <1>3 DEF Writer, WriterCancelled, WriterSeesEOF, WriterSeesClosedPipe
<1>5. UNCHANGED <<stream, down>>
  BY <1>4 DEF WriterSends, WriterStopped
<1>6. AfterCopying' /\ EndIsLast'
  BY <1>1, <1>5 DEF Ends, AfterCopying, EndIsLast
<1>7. CASE WriterSends
  BY <1>1, <1>5, <1>6, <1>7 DEF Ends, OnlyHandlerEnds, WriterSends
<1>8. CASE WriterStopped
  BY <1>1, <1>5, <1>6, <1>8 DEF Ends, OnlyHandlerEnds, WriterStopped
<1> QED BY <1>4, <1>7, <1>8

LEMMA ServerEndsInOrder == ASSUME TypeOK, Ends, Served, Server PROVE Ends'
<1> USE DEF userVars, serverVars, streamVars, clientVars, serviceVars
<1>1. UNCHANGED <<client, reply, outbox, answered>>
  BY DEF Server
<1>2. CASE (Starter /\ UNCHANGED userVars) \/ UploaderCopies
  <2>1. UNCHANGED endVars
    BY <1>1, <1>2 DEF Starter, StarterWrites, StarterSignals, UploaderCopies, HandOver, endVars
  <2> QED BY <2>1, SameEnds
<1>3. CASE UploaderEnds
  <2>1. UNCHANGED <<main, pipe, writer, stream, down, received>>
    BY <1>3 DEF UploaderEnds
  <2>2. pipe # "open" \/ main = "end"
    BY <1>3 DEF UploaderEnds, Served
  <2>3. OnlyHandlerEnds'
    BY <2>1, <2>2 DEF Ends, OnlyHandlerEnds
  <2> QED BY <1>1, <2>1, <2>3 DEF Ends, AfterCopying, EndIsLast
<1>4. CASE DoReturns
  <2>1. /\ main = "do" /\ main' = "copy"
        /\ UNCHANGED <<pipe, writer, cancelled, stream, down, received>>
    BY <1>4 DEF DoReturns, Served
  <2>2. OnlyHandlerEnds'
    BY <2>1 DEF Ends, OnlyHandlerEnds
  <2> QED BY <1>1, <2>1, <2>2 DEF Ends, AfterCopying, EndIsLast
<1>5. ~HTTPReturns
  BY DEF Ends, OnlyHandlerEnds, HTTPReturns
<1>6. ~DoFails
  BY DEF Ends, OnlyHandlerEnds, DoFails
<1>7. CASE WaitEnds
  <2>1. main = "wait" /\ stream = "ended" /\ Len(received) = answered
    BY <1>7 DEF WaitEnds, Ends, EndIsLast
  <2>2. main' = "end" /\ writer' = "end" /\ stream' = "ended" /\ received' = received
    BY <1>7, <2>1 DEF WaitEnds, Return
  <2> QED BY <1>1, <2>1, <2>2 DEF Ends, OnlyHandlerEnds, AfterCopying, EndIsLast
<1>8. CASE CopyDown
  <2>1. /\ main = "copy" /\ main' = "copy" /\ down # <<>> /\ Head(down) # 0 /\ down' = Tail(down)
        /\ received' = Append(received, Head(down)) /\ UNCHANGED <<cancelled, pipe, writer, stream>>
    BY <1>8 DEF CopyDown, Served, END
  <2>2. /\ Head(down) = down[1] /\ Head(down) \in Nat /\ Len(down) \in Nat \ {0}
        /\ Len(down') = Len(down) - 1
        /\ \A i \in 1 .. Len(down) - 1 : down'[i] = down[i + 1]
    BY <2>1, Taken DEF TypeOK
  <2>3. Head(down) \in Chunks
    BY <2>1, <2>2 DEF Chunks
  <2>4. Len(received') = Len(received) + 1 /\ Len(received) \in Nat
    BY <2>1, <2>3, Appended DEF TypeOK
  <2>5. OnlyHandlerEnds' /\ AfterCopying'
    BY <1>1, <2>1 DEF Ends, OnlyHandlerEnds, AfterCopying
  <2>6. CASE stream = "open"
    <3>1. ASSUME NEW i \in 1 .. Len(down) - 1 PROVE down'[i] # 0
      <4>1. i + 1 \in 1 .. Len(down)
        BY <2>2
      <4> QED BY <2>2, <2>6, <4>1 DEF Ends, EndIsLast
    <3> QED BY <2>1, <2>2, <2>5, <2>6, <3>1 DEF Ends, EndIsLast
  <2>7. CASE stream = "ended"
    <3>1. /\ Len(received) + Len(down) = answered + 1
          /\ \A i \in 1 .. Len(down) - 1 : down[i] # 0
          /\ down[Len(down)] = 0
      BY <2>1, <2>7 DEF Ends, EndIsLast
    <3>2. Len(down) # 1
      BY <2>1, <2>2, <3>1
    <3>3. Len(down) - 1 >= 1 /\ Len(down) - 1 \in 1 .. Len(down) - 1
      BY <2>2, <3>2
    <3>4. down'[Len(down')] = 0
      BY <2>2, <3>1, <3>3
    <3>5. \A i \in 1 .. Len(down') - 1 : down'[i] # 0
      <4>1. SUFFICES ASSUME NEW i \in 1 .. Len(down) - 2 PROVE down'[i] # 0
        BY <2>2
      <4>2. i \in 1 .. Len(down) - 1 /\ i + 1 \in 1 .. Len(down) - 1
        BY <2>2
      <4> QED BY <2>2, <3>1, <4>2
    <3>6. answered \in Nat /\ Len(received') + Len(down') = answered + 1
      <4>1. answered \in Nat
        BY SizesAssumption DEF TypeOK
      <4>2. Len(received) + Len(down) = answered + 1
        BY <3>1
      <4>3. Len(down) \in Nat /\ Len(down') = Len(down) - 1
        BY <2>2
      <4> QED BY <2>4, <4>1, <4>2, <4>3
    <3>7. EndIsLast'
      BY <1>1, <2>1, <2>2, <2>7, <3>3, <3>4, <3>5, <3>6 DEF EndIsLast
    <3> QED BY <2>5, <3>7 DEF Ends
  <2> QED BY <2>6, <2>7 DEF Ends, OnlyHandlerEnds, TypeOK
<1>9. CASE CopyEnds
  <2>1. /\ main = "copy" /\ main' = "wait" /\ down # <<>> /\ Head(down) = 0
        /\ UNCHANGED <<cancelled, pipe, writer, stream, down, received>>
    BY <1>9 DEF CopyEnds, Ends, OnlyHandlerEnds, END, Nothing
  <2>2. down[1] = 0 /\ Len(down) \in Nat \ {0}
    BY <2>1, Taken DEF TypeOK
  <2>3. stream = "ended"
    BY <2>1, <2>2 DEF Ends, OnlyHandlerEnds, EndIsLast, TypeOK
  <2>4. /\ Len(received) + Len(down) = answered + 1
        /\ \A i \in 1 .. Len(down) - 1 : down[i] # 0
    BY <2>1, <2>3 DEF Ends, EndIsLast
  <2>5. Len(down) = 1
    <3>1. 1 \notin 1 .. Len(down) - 1
      BY <2>2, <2>4
    <3>2. Len(down) \in Nat \ {0}
      BY <2>2
    <3>3. ASSUME NEW n \in Nat \ {0}, 1 \notin 1 .. n - 1 PROVE n = 1
      <4>1. CASE n >= 2
        BY <3>3, <4>1
      <4> QED BY <4>1
    <3> QED BY <3>1, <3>2, <3>3
  <2>6. Len(received) \in Nat /\ answered \in Nat
    BY SizesAssumption DEF TypeOK
  <2>7. Len(received) = answered
    BY <2>4, <2>5, <2>6
  <2>8. OnlyHandlerEnds' /\ AfterCopying'
    BY <1>1, <2>1 DEF Ends, OnlyHandlerEnds, AfterCopying
  <2>9. EndIsLast'
    BY <1>1, <2>1, <2>3, <2>7 DEF EndIsLast
  <2> QED BY <2>8, <2>9 DEF Ends
<1> QED BY <1>2, <1>3, <1>4, <1>5, <1>6, <1>7, <1>8, <1>9 DEF Server, Uploader, Main

LEMMA ClientEndsInOrder == ASSUME TypeOK, DownInOrder, Ends, Served, Client PROVE Ends'
<1> USE DEF userVars, serverVars, streamVars, clientVars, serviceVars
<1>1. UNCHANGED <<main, cancelled, received>>
  BY DEF Client
<1>2. CASE ProxyFails \/ ProxyReturns
  <2>1. /\ client # "end" /\ client' = "end" /\ reply # "copy" /\ EndAnswer
        /\ UNCHANGED <<reply, outbox, answered, pipe, writer>>
    BY <1>2 DEF ProxyFails, ProxyReturns, Ends, AfterCopying, EndAnswer
  <2>2. stream = "open" /\ stream' = "ended" /\ down' = Append(down, 0)
    BY <2>1 DEF Ends, OnlyHandlerEnds, AfterCopying, EndAnswer, TypeOK, END
  <2>3. /\ Len(down') = Len(down) + 1 /\ Len(down) \in Nat
        /\ \A i \in 1 .. Len(down) + 1 : down'[i] = IF i = Len(down) + 1 THEN 0 ELSE down[i]
    BY <2>2, Appended DEF TypeOK
  <2>4. outbox = <<>> /\ Len(outbox) = 0
    BY <2>1 DEF Ends, AfterCopying
  <2>5. Len(received) + Len(down) + Len(outbox) = answered
    BY <2>2 DEF DownInOrder, AtClient, Served
  <2>6. Len(received) \in Nat /\ answered \in Nat
    BY SizesAssumption DEF TypeOK
  <2>7. Len(received) + Len(down') = answered + 1
    BY <2>3, <2>4, <2>5, <2>6
  <2>8. Len(down') >= 1 /\ Len(down') = Len(down) + 1 /\ down'[Len(down')] = 0
    BY <2>3
  <2>9. \A i \in 1 .. Len(down') - 1 : down'[i] # 0
    <3>1. SUFFICES ASSUME NEW i \in 1 .. Len(down) PROVE down'[i] # 0
      BY <2>3
    <3>2. down[i] # 0
      BY <2>2 DEF Ends, EndIsLast
    <3> QED BY <2>3, <3>2
  <2>10. main \notin {"wait", "end"}
    BY <2>2 DEF Ends, EndIsLast
  <2>11. EndIsLast'
    BY <1>1, <2>1, <2>2, <2>7, <2>8, <2>9, <2>10 DEF EndIsLast
  <2>12. OnlyHandlerEnds' /\ AfterCopying'
    BY <1>1, <2>1, <2>2, <2>4, <2>10 DEF Ends, OnlyHandlerEnds, AfterCopying
  <2> QED BY <2>11, <2>12 DEF Ends
<1>3. CASE Proxy \/ CopyUp \/ CopyUpEnds
  <2>1. /\ UNCHANGED <<pipe, writer, stream, down, outbox, answered>>
        /\ client # "end" /\ client' # "end" /\ client' # "idle"
        /\ reply' # "copy" => reply # "copy"
    BY <1>3 DEF Proxy, CopyUp, CopyUpEnds, Served
  <2>2. AfterCopying'
    BY <2>1 DEF Ends, AfterCopying
  <2> QED BY <1>1, <2>1, <2>2 DEF Ends, OnlyHandlerEnds, EndIsLast
<1>4. CASE CopyReply
  <2>1. /\ reply = "copy" /\ stream = "open" /\ outbox # <<>>
        /\ down' = Append(down, Head(outbox))
        /\ UNCHANGED <<client, reply, answered, pipe, writer, stream>>
    BY <1>4 DEF CopyReply
  <2>2. Head(outbox) \in Chunks
    BY <2>1, Taken DEF TypeOK
  <2>3. Head(outbox) \in Nat /\ Head(outbox) # 0
    BY <2>2 DEF Chunks
  <2>4. /\ Len(down') = Len(down) + 1 /\ Len(down) \in Nat
        /\ \A i \in 1 .. Len(down) + 1 :
             down'[i] = IF i = Len(down) + 1 THEN Head(outbox) ELSE down[i]
    BY <2>1, <2>3, Appended DEF TypeOK
  <2>5. \A i \in 1 .. Len(down') : down'[i] # 0
    <3>1. \A i \in 1 .. Len(down) : down[i] # 0
      BY <2>1 DEF Ends, EndIsLast
    <3>2. ASSUME NEW i \in 1 .. Len(down) + 1 PROVE down'[i] # 0
      BY <2>3, <2>4, <3>1
    <3> QED BY <2>4, <3>2
  <2>6. main \notin {"wait", "end"}
    BY <2>1 DEF Ends, EndIsLast
  <2>7. EndIsLast'
    BY <1>1, <2>1, <2>5, <2>6 DEF EndIsLast
  <2>8. OnlyHandlerEnds' /\ AfterCopying'
    BY <1>1, <2>1 DEF Ends, OnlyHandlerEnds, AfterCopying
  <2> QED BY <2>7, <2>8 DEF Ends
<1>5. CASE CopyReplyEnds
  <2>1. /\ outbox = <<>> /\ reply' = "end" /\ reply = "copy"
        /\ UNCHANGED <<client, pipe, writer, stream, down, outbox, answered>>
    BY <1>5 DEF CopyReplyEnds, Ends, OnlyHandlerEnds
  <2>2. AfterCopying'
    BY <2>1 DEF Ends, AfterCopying
  <2> QED BY <1>1, <2>1, <2>2 DEF Ends, OnlyHandlerEnds, EndIsLast
<1> QED BY <1>2, <1>3, <1>4, <1>5 DEF Client, Handler, Reply

LEMMA NextEnding == ASSUME InOrder, Ending, [Next]_vars PROVE Ending'
<1> USE DEF userVars, serverVars, streamVars, clientVars, serviceVars
<1>1. SUFFICES ASSUME Served' PROVE Ends'
  BY DEF Ending, Ends
<1>2. Served /\ Ends /\ TypeOK /\ DownInOrder
  BY <1>1, ServedBefore DEF Ending, Ends, InOrder
<1>3. CASE User
  <2>1. UNCHANGED endVars
    BY <1>3 DEF User, UserSends, UserShuts, UserLeaves, endVars
  <2> QED BY <1>2, <2>1, SameEnds
<1>4. CASE Service
  <2>1. /\ UNCHANGED <<main, cancelled, pipe, writer, stream, down, client, reply, received>>
        /\ reply = "copy" \/ UNCHANGED <<outbox, answered>>
    BY <1>4 DEF Service, ServiceSends, ServiceCloses
  <2>2. CASE UNCHANGED <<outbox, answered>>
    BY <1>2, <2>1, <2>2, SameEnds DEF endVars
  <2>3. CASE reply = "copy"
    <3>1. stream = "open" /\ main \notin {"wait", "end"}
      BY <1>2, <2>3 DEF Ends, OnlyHandlerEnds, AfterCopying, EndIsLast, TypeOK
    <3>2. OnlyHandlerEnds' /\ AfterCopying'
      BY <1>2, <2>1, <2>3 DEF Ends, OnlyHandlerEnds, AfterCopying
    <3>3. EndIsLast'
      BY <1>2, <2>1, <3>1 DEF Ends, EndIsLast
    <3> QED BY <3>2, <3>3 DEF Ends
  <2> QED BY <2>1, <2>2, <2>3
<1>5. ~LoseTunnel
  BY <1>1 DEF LoseTunnel, Served
<1>6. CASE UNCHANGED vars
  <2>1. UNCHANGED endVars
    BY <1>6 DEF vars, endVars
  <2> QED BY <1>2, <2>1, SameEnds
<1> QED BY <1>2, <1>3, <1>4, <1>5, <1>6, WriterEnds, ServerEndsInOrder, ClientEndsInOrder DEF Next

\* A user who stays while the tunnel is up is let go only with all that the
\* service has sent: nothing but the client's handler ends the stream, it does so
\* after the last chunk, and the server copies what it receives to that end.
THEOREM ServiceEndDeliversAlways == Spec => []ServiceEndDelivers
<1>1. InOrder /\ Ending /\ [Next]_vars => InOrder' /\ Ending'
  BY InOrderInductive, NextEnding
<1>2. Ending => ServiceEndDelivers
  BY DEF Ending, Served, EndIsLast, ServiceEndDelivers
<1> QED BY InOrderInductive, InitEnding, <1>1, <1>2, PTL DEF Spec

=============================================================================
