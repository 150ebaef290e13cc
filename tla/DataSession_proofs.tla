-------------------------- MODULE DataSession_proofs --------------------------
(***************************************************************************)
(* Theorems of DataSession, for any texts, links and number of messages.   *)
(***************************************************************************)
EXTENDS DataSession, SequenceTheorems, TLAPS

Packets == {Error} \cup {Response(m) : m \in Texts}
Quiet(l) == toServer[l] = <<>> /\ toClient[l] = <<>>

Queues ==
  /\ toServer \in [Links -> Seq(Texts)]
  /\ toClient \in [Links -> Seq(Packets)]

\* A link that the client replaced is down, at both ends or at its own, and
\* nothing was sent on one that is not in use yet.
OtherLinks ==
  /\ spc[link] # "free"
  /\ \A l \in Links \ {link} : ~LinkOpen(l) /\ (spc[l] = "free" => Quiet(l))

\* Between two messages only the error of a thread that closed the link is left,
\* and a client dies only of a link that is closed.
BetweenMessages ==
  cpc # "expectResponse" =>
    /\ LinkOpen(link) => cpc = "ui" /\ Quiet(link)
    /\ toClient[link] \in {<<>>, <<Error>>}

\* While the client waits, the message just sent is a request, or its response,
\* or dropped.
WaitingForAnswer ==
  cpc = "expectResponse" =>
    /\ sentMessages # <<>>
    /\ toClient[link] \in {<<>>, <<Error>>, <<Response(LastSent)>>}
    /\ LinkOpen(link) =>
         \/ toServer[link] = <<LastSent>> /\ toClient[link] = <<>>
         \/ toServer[link] = <<>> /\ toClient[link] \in {<<>>, <<Response(LastSent)>>}
    /\ LinkOpen(link) /\ spc[link] = "receiveSessionKey" => toClient[link] = <<>>

IInv == TypeOK /\ Queues /\ OtherLinks /\ BetweenMessages /\ WaitingForAnswer

-----------------------------------------------------------------------------
(* Packets *)

LEMMA Distinct ==
  ASSUME NEW m, NEW n
  PROVE  Response(m) # Error /\ (Response(m) = Response(n) => m = n)
  BY DEF Response, Error

LEMMA PacketType == Error \in Packets /\ \A m \in Texts : Response(m) \in Packets
  BY DEF Packets

\* A queue of at most one element
LEMMA Single ==
  ASSUME NEW S, NEW x \in S
  PROVE  /\ <<x>> \in Seq(S) /\ <<>> \in Seq(S)
         /\ Append(<<>>, x) = <<x>>
         /\ Head(<<x>>) = x /\ Tail(<<x>>) = <<>> /\ <<x>> # <<>>
  OBVIOUS

LEMMA LastAppended ==
  ASSUME NEW S, NEW s \in Seq(S), NEW x \in S
  PROVE  /\ Append(s, x) \in Seq(S) /\ Append(s, x) # <<>>
         /\ Append(s, x)[Len(Append(s, x))] = x
  OBVIOUS

LEMMA LastType == ASSUME TypeOK, sentMessages # <<>> PROVE LastSent \in Texts
<1>1. sentMessages \in Seq(Texts) /\ Len(sentMessages) \in 1..Len(sentMessages)
  BY DEF TypeOK
<1> QED BY <1>1 DEF LastSent

-----------------------------------------------------------------------------
(* The invariant is inductive *)

LEMMA DataInit == Init => IInv
<1> SUFFICES ASSUME Init PROVE IInv
  OBVIOUS
<1>1. TypeOK /\ Queues
  BY DataAssumption DEF Init, TypeOK, Queues, LinkOpen
<1>2. OtherLinks /\ BetweenMessages /\ WaitingForAnswer
  BY DataAssumption DEF Init, OtherLinks, BetweenMessages, WaitingForAnswer, LinkOpen, Quiet
<1> QED BY <1>1, <1>2 DEF IInv

\* The client sends a message.
LEMMA SendStep == ASSUME IInv, NEW m \in Texts, SendData(m) PROVE IInv'
<1> USE DEF IInv
<1>1. /\ sentMessages' \in Seq(Texts) /\ sentMessages' # <<>>
      /\ LastSent' = m
  BY LastAppended DEF SendData, TypeOK, LastSent
<1>2. /\ cpc = "ui" /\ cpc' = "expectResponse"
      /\ UNCHANGED <<link, serverResponses, spc, toClient, broken>>
  BY DEF SendData
<1>3. \A l \in Links : LinkOpen(l)' <=> LinkOpen(l)
  BY <1>2 DEF LinkOpen
<1>4. link \in Links /\ \A l \in Links : toServer[l] \in Seq(Texts)
  BY DEF TypeOK, Queues
<1>5. CASE LinkOpen(link)
  <2>1. toServer[link] = <<>> /\ toClient[link] = <<>>
    BY <1>2, <1>5 DEF BetweenMessages, Quiet
  <2>2. toServer' = [toServer EXCEPT ![link] = <<m>>]
    BY <1>5, <2>1, Single DEF SendData, Deliver
  <2>3. /\ toServer' \in [Links -> Seq(Texts)] /\ toServer'[link] = <<m>>
        /\ \A l \in Links \ {link} : toServer'[l] = toServer[l]
    BY <1>4, <2>2, Single DEF Queues
  <2>4. TypeOK' /\ Queues'
    BY <1>1, <1>2, <2>3 DEF TypeOK, Queues
  <2>5. OtherLinks'
    BY <1>2, <1>3, <1>4, <2>3 DEF OtherLinks, Quiet
  <2>6. BetweenMessages' /\ WaitingForAnswer'
    BY <1>1, <1>2, <2>1, <2>3 DEF BetweenMessages, WaitingForAnswer
  <2> QED BY <2>4, <2>5, <2>6
<1>6. CASE ~LinkOpen(link)
  <2>1. toServer' = toServer
    BY <1>6 DEF SendData, Deliver
  <2>2. TypeOK' /\ Queues'
    BY <1>1, <1>2, <2>1 DEF TypeOK, Queues
  <2>3. OtherLinks'
    BY <1>2, <1>3, <1>4, <2>1 DEF OtherLinks, Quiet
  <2>4. toClient[link] \in {<<>>, <<Error>>}
    BY <1>2 DEF BetweenMessages
  <2>5. BetweenMessages' /\ WaitingForAnswer'
    BY <1>1, <1>2, <1>3, <1>4, <1>6, <2>4 DEF BetweenMessages, WaitingForAnswer, LinkOpen
  <2> QED BY <2>2, <2>3, <2>5
<1> QED BY <1>5, <1>6

\* What the client takes from the link is what is there.
LEMMA TakenQueue ==
  ASSUME IInv, cpc = "expectResponse", toClient[link] # <<>>, TakeResponse
  PROVE  /\ toClient[link] \in {<<Error>>, <<Response(LastSent)>>}
         /\ toClient' \in [Links -> Seq(Packets)] /\ toClient'[link] = <<>>
         /\ \A l \in Links \ {link} : toClient'[l] = toClient[l]
         /\ Head(toClient[link]) = Error => toClient[link] = <<Error>>
         /\ \A m \in Texts : Head(toClient[link]) = Response(m) =>
              m = LastSent /\ toClient[link] = <<Response(LastSent)>>
<1> USE DEF IInv
<1>1. /\ link \in Links /\ sentMessages # <<>>
      /\ toClient[link] \in {<<Error>>, <<Response(LastSent)>>}
  BY DEF TypeOK, WaitingForAnswer
<1>2. LastSent \in Texts
  BY <1>1, LastType
<1>3. Tail(toClient[link]) = <<>>
  BY <1>1, <1>2, Single, PacketType
<1>4. toClient' = [toClient EXCEPT ![link] = <<>>]
  BY <1>3 DEF TakeResponse
<1>5. /\ Head(<<Error>>) = Error
      /\ Head(<<Response(LastSent)>>) = Response(LastSent)
  BY <1>2, Single, PacketType
<1> QED BY <1>1, <1>4, <1>5, Distinct, PacketType, Single DEF Queues

\* A response is recorded only for the message just sent.
LEMMA Recorded ==
  ASSUME IInv, ReceiveResponse
  PROVE  /\ toClient[link] = <<Response(LastSent)>>
         /\ \/ UNCHANGED serverResponses
            \/ LastSent \in Messages /\ serverResponses' = Append(serverResponses, LastSent)
<1>1. PICK m \in Texts :
        /\ toClient[link] # <<>> /\ Head(toClient[link]) = Response(m)
        /\ \/ /\ LastSent # Empty
              /\ serverResponses' = Append(serverResponses, m)
           \/ UNCHANGED serverResponses
  BY DEF ReceiveResponse
<1>2. m = LastSent /\ toClient[link] = <<Response(LastSent)>>
  BY <1>1, TakenQueue DEF ReceiveResponse
<1> QED BY <1>1, <1>2 DEF Texts

LEMMA ReceiveStep == ASSUME IInv, ReceiveResponse PROVE IInv'
<1> USE DEF IInv
<1>1. /\ cpc = "expectResponse" /\ cpc' = "ui" /\ TakeResponse
      /\ UNCHANGED <<link, sentMessages, spc, toServer, broken>>
  BY DEF ReceiveResponse
<1>2. link \in Links /\ \A l \in Links : LinkOpen(l)' <=> LinkOpen(l)
  BY <1>1 DEF LinkOpen, TypeOK
<1>3. toClient[link] = <<Response(LastSent)>> /\ toClient[link] # <<>>
  BY Recorded, Single, PacketType
<1>4. serverResponses' \in Seq(Messages)
  <2>1. serverResponses \in Seq(Messages)
    BY DEF TypeOK
  <2> QED BY <2>1, Recorded, LastAppended
<1>5. /\ toClient' \in [Links -> Seq(Packets)] /\ toClient'[link] = <<>>
      /\ \A l \in Links \ {link} : toClient'[l] = toClient[l]
  BY <1>1, <1>3, TakenQueue
<1>6. LinkOpen(link) => toServer[link] = <<>>
  BY <1>1, <1>3 DEF WaitingForAnswer
<1>7. TypeOK' /\ Queues'
  BY <1>1, <1>2, <1>4, <1>5, <1>6 DEF TypeOK, Queues
<1>8. OtherLinks'
  BY <1>1, <1>2, <1>5 DEF OtherLinks, Quiet
<1>9. BetweenMessages' /\ WaitingForAnswer'
  BY <1>1, <1>2, <1>5, <1>6 DEF BetweenMessages, WaitingForAnswer, Quiet
<1> QED BY <1>7, <1>8, <1>9

LEMMA MissingStep == ASSUME IInv, UseMissingResponse PROVE IInv'
<1> USE DEF IInv
<1>1. /\ cpc = "expectResponse" /\ cpc' \in {"ui", "crashed"}
      /\ UNCHANGED <<link, sentMessages, serverResponses, spc, toServer, broken>>
  BY DEF UseMissingResponse
<1>2. link \in Links /\ \A l \in Links : LinkOpen(l)' <=> LinkOpen(l)
  BY <1>1 DEF LinkOpen, TypeOK
<1>3. /\ ~LinkOpen(link)
      /\ toClient' \in [Links -> Seq(Packets)] /\ toClient'[link] = <<>>
      /\ \A l \in Links \ {link} : toClient'[l] = toClient[l]
  <2>1. CASE toClient[link] # <<>> /\ Head(toClient[link]) = Error /\ TakeResponse
    <3>1. toClient[link] = <<Error>> /\ <<Error>> # <<>> /\ <<Error>> # <<Response(LastSent)>>
      BY <1>1, <2>1, TakenQueue, Distinct
    <3>2. ~LinkOpen(link)
      BY <1>1, <3>1 DEF WaitingForAnswer
    <3> QED BY <1>1, <2>1, <3>2, TakenQueue
  <2>2. CASE toClient[link] = <<>> /\ ~LinkOpen(link) /\ UNCHANGED toClient
    BY <2>2 DEF Queues
  <2> QED BY <2>1, <2>2 DEF UseMissingResponse
<1>4. TypeOK' /\ Queues'
  BY <1>1, <1>2, <1>3 DEF TypeOK, Queues
<1>5. OtherLinks'
  BY <1>1, <1>2, <1>3 DEF OtherLinks, Quiet
<1>6. BetweenMessages' /\ WaitingForAnswer'
  BY <1>1, <1>2, <1>3 DEF BetweenMessages, WaitingForAnswer
<1> QED BY <1>4, <1>5, <1>6

\* The link that is replaced is closed, and nobody writes to it any more.
LEMMA ConnectStep == ASSUME IInv, NEW l \in Links, Connect(l) PROVE IInv'
<1> USE DEF IInv
<1>1. /\ cpc = "ui" /\ ~Healthy(link) /\ spc[l] = "free" /\ link' = l
      /\ spc' = [spc EXCEPT ![l] = "expectRequest"]
      /\ UNCHANGED <<cpc, sentMessages, serverResponses, toServer, toClient, broken>>
  BY DEF Connect
<1>2. ~LinkOpen(link) /\ toClient[link] = <<>> /\ link \in Links
  BY <1>1 DEF Healthy, TypeOK
<1>3. l # link /\ toServer[l] = <<>> /\ toClient[l] = <<>>
  BY <1>1 DEF OtherLinks, Quiet
<1>4. /\ spc' \in [Links -> {"free", "expectRequest", "receiveSessionKey", "session", "closed"}]
      /\ spc'[l] = "expectRequest" /\ \A k \in Links \ {l} : spc'[k] = spc[k]
  BY <1>1 DEF TypeOK
<1>5. \A k \in Links \ {l} : LinkOpen(k)' <=> LinkOpen(k)
  BY <1>1, <1>4 DEF LinkOpen
<1>6. TypeOK' /\ Queues'
  BY <1>1, <1>3, <1>4 DEF TypeOK, Queues
<1>7. OtherLinks'
  BY <1>1, <1>2, <1>4, <1>5 DEF OtherLinks, LinkOpen, Quiet
<1>8. BetweenMessages' /\ WaitingForAnswer'
  BY <1>1, <1>3 DEF BetweenMessages, WaitingForAnswer, Quiet
<1> QED BY <1>6, <1>7, <1>8

\* A thread of the server that is running runs for the client's link.
LEMMA OpenIsLink == ASSUME IInv, NEW l \in Links, LinkOpen(l) PROVE l = link
  BY DEF IInv, OtherLinks

\* A link that closes keeps its queues, or gets an error when the thread had no key.
LEMMA CloseStep ==
  ASSUME IInv, LinkOpen(link), spc' = [spc EXCEPT ![link] = "closed"],
         UNCHANGED <<cpc, link, sentMessages, serverResponses, broken>>,
         \/ toServer' \in [Links -> Seq(Texts)] /\ toClient' = toClient
         \/ /\ toServer' = toServer /\ toClient[link] = <<>>
            /\ toClient' = [toClient EXCEPT ![link] = <<Error>>],
         \A k \in Links \ {link} : toServer'[k] = toServer[k]
  PROVE  IInv'
<1> USE DEF IInv
<1>1. /\ link \in Links
      /\ spc' \in [Links -> {"free", "expectRequest", "receiveSessionKey", "session", "closed"}]
      /\ spc'[link] = "closed" /\ \A k \in Links \ {link} : spc'[k] = spc[k]
  BY DEF TypeOK
<1>2. ~LinkOpen(link)' /\ \A k \in Links \ {link} : LinkOpen(k)' <=> LinkOpen(k)
  BY <1>1 DEF LinkOpen
<1>3. /\ toClient' \in [Links -> Seq(Packets)]
      /\ toClient'[link] = toClient[link] \/ toClient'[link] = <<Error>>
      /\ \A k \in Links \ {link} : toClient'[k] = toClient[k]
  <2>1. toClient \in [Links -> Seq(Packets)]
    BY DEF Queues
  <2>2. CASE toClient' = toClient
    BY <2>1, <2>2
  <2>3. CASE toClient' = [toClient EXCEPT ![link] = <<Error>>]
    <3>1. <<Error>> \in Seq(Packets)
      BY Single, PacketType
    <3> QED BY <1>1, <2>1, <2>3, <3>1
  <2> QED BY <2>2, <2>3
<1>4. TypeOK' /\ Queues'
  BY <1>1, <1>2, <1>3 DEF TypeOK, Queues
<1>5. OtherLinks'
  BY <1>1, <1>2, <1>3 DEF OtherLinks, Quiet
<1>6. BetweenMessages' /\ WaitingForAnswer'
  BY <1>1, <1>2, <1>3 DEF BetweenMessages, WaitingForAnswer, LastSent
<1> QED BY <1>4, <1>5, <1>6

\* What the thread of a broken link does, nobody sees.
LEMMA BrokenStep ==
  ASSUME IInv, NEW l \in Links, l \in broken, spc[l] # "free",
         spc' \in [Links -> {"free", "expectRequest", "receiveSessionKey", "session", "closed"}],
         spc'[l] \in {"session", "closed"},
         \A k \in Links \ {l} : spc'[k] = spc[k],
         \/ toServer' = toServer
         \/ toServer[l] # <<>> /\ toServer' = [toServer EXCEPT ![l] = Tail(@)],
         UNCHANGED <<cpc, link, sentMessages, serverResponses, toClient, broken>>
  PROVE  IInv'
<1> USE DEF IInv
<1>1. link \in Links /\ \A k \in Links : LinkOpen(k)' <=> k # l /\ LinkOpen(k)
  BY DEF LinkOpen, TypeOK
<1>2. /\ toServer' \in [Links -> Seq(Texts)]
      /\ \A k \in Links \ {l} : toServer'[k] = toServer[k]
  <2>1. toServer \in [Links -> Seq(Texts)] /\ toServer[l] \in Seq(Texts)
    BY DEF Queues
  <2>2. toServer[l] # <<>> => Tail(toServer[l]) \in Seq(Texts)
    BY <2>1, HeadTailProperties
  <2> QED BY <2>1, <2>2
<1>3. TypeOK' /\ Queues'
  BY <1>1, <1>2 DEF TypeOK, Queues
<1>4. OtherLinks'
  BY <1>1, <1>2 DEF OtherLinks, Quiet
<1>5. BetweenMessages' /\ WaitingForAnswer'
  <2>1. LastSent' = LastSent
    BY DEF LastSent
  <2> QED BY <1>1, <1>2, <2>1 DEF BetweenMessages, WaitingForAnswer, Quiet
<1> QED BY <1>3, <1>4, <1>5

\* A thread runs for the client's link, or for one that broke.
LEMMA OpenOrBroken ==
  ASSUME IInv, NEW l \in Links, spc[l] \notin {"free", "closed"}
  PROVE  (l = link /\ LinkOpen(link)) \/ (l \in broken /\ ~LinkOpen(l))
  BY OpenIsLink DEF LinkOpen

LEMMA StartStep == ASSUME IInv, NEW l \in Links, StartSession(l) PROVE IInv'
<1> USE DEF IInv
<1>1. /\ spc[l] = "receiveSessionKey" /\ spc' = [spc EXCEPT ![l] = "session"]
      /\ UNCHANGED <<cpc, link, sentMessages, serverResponses, toServer, toClient, broken>>
  BY DEF StartSession, client
<1>3. /\ spc' \in [Links -> {"free", "expectRequest", "receiveSessionKey", "session", "closed"}]
      /\ spc'[l] = "session" /\ \A k \in Links \ {l} : spc'[k] = spc[k]
  BY <1>1 DEF TypeOK
<1>4. CASE l = link /\ LinkOpen(link)
  <2>1. \A k \in Links : LinkOpen(k)' <=> LinkOpen(k)
    BY <1>1, <1>3 DEF LinkOpen
  <2>2. TypeOK' /\ Queues'
    BY <1>1, <1>3, <1>4, <2>1 DEF TypeOK, Queues
  <2>3. OtherLinks'
    BY <1>1, <1>3, <1>4, <2>1 DEF OtherLinks, Quiet
  <2>4. BetweenMessages' /\ WaitingForAnswer'
    BY <1>1, <1>3, <1>4, <2>1 DEF BetweenMessages, WaitingForAnswer, Quiet, LastSent
  <2> QED BY <2>2, <2>3, <2>4
<1>5. CASE l \in broken
  BY <1>1, <1>3, <1>5, BrokenStep
<1> QED BY <1>1, <1>4, <1>5, OpenOrBroken

LEMMA ServerFailsStep == ASSUME IInv, NEW l \in Links, ServerFails(l) PROVE IInv'
<1> USE DEF IInv
<1>1. /\ spc[l] = "receiveSessionKey" /\ spc' = [spc EXCEPT ![l] = "closed"]
      /\ Reply(l, Error)
      /\ UNCHANGED <<cpc, link, sentMessages, serverResponses, toServer, broken>>
  BY DEF ServerFails, client
<1>2. CASE l = link /\ LinkOpen(link)
  <2>1. toServer \in [Links -> Seq(Texts)]
    BY DEF Queues
  <2>2. toClient[link] = <<>>
    BY <1>1, <1>2 DEF BetweenMessages, WaitingForAnswer, Quiet
  <2>3. toClient' = [toClient EXCEPT ![link] = <<Error>>]
    BY <1>1, <1>2, <2>2, Single, PacketType DEF Reply
  <2> QED BY <1>1, <1>2, <2>1, <2>2, <2>3, CloseStep
<1>3. CASE l \in broken /\ ~LinkOpen(l)
  <2>1. toClient' = toClient
    BY <1>1, <1>3 DEF Reply
  <2>2. /\ spc' \in [Links -> {"free", "expectRequest", "receiveSessionKey", "session", "closed"}]
        /\ spc'[l] = "closed" /\ \A k \in Links \ {l} : spc'[k] = spc[k]
    BY <1>1 DEF TypeOK
  <2> QED BY <1>1, <1>3, <2>1, <2>2, BrokenStep
<1> QED BY <1>1, <1>2, <1>3, OpenOrBroken

\* Only a thread in session finds a request, and it is the message just sent.
LEMMA Requested ==
  ASSUME IInv, LinkOpen(link), toServer[link] # <<>>
  PROVE  /\ cpc = "expectResponse" /\ link \in Links
         /\ LastSent \in Texts
         /\ toServer[link] = <<LastSent>> /\ toClient[link] = <<>>
         /\ Head(toServer[link]) = LastSent /\ Tail(toServer[link]) = <<>>
<1>1. cpc = "expectResponse"
  BY DEF IInv, BetweenMessages, Quiet
<1>2. sentMessages # <<>> /\ toServer[link] = <<LastSent>> /\ toClient[link] = <<>>
  BY <1>1 DEF IInv, WaitingForAnswer
<1>3. LastSent \in Texts
  BY <1>2, LastType DEF IInv
<1> QED BY <1>1, <1>2, <1>3, Single DEF IInv, TypeOK

\* The request is taken, and answered or dropped.
LEMMA TakenStep ==
  ASSUME IInv, LinkOpen(link), spc[link] = "session", toServer[link] # <<>>,
         toServer' = [toServer EXCEPT ![link] = Tail(@)],
         \/ toClient' = [toClient EXCEPT ![link] = Append(@, Response(Head(toServer[link])))]
         \/ toClient' = toClient,
         UNCHANGED <<cpc, link, sentMessages, serverResponses, spc, broken>>
  PROVE  IInv'
<1> USE DEF IInv
<1>1. LinkOpen(link) /\ \A k \in Links : LinkOpen(k)' <=> LinkOpen(k)
  BY DEF LinkOpen
<1>2. /\ cpc = "expectResponse" /\ link \in Links
      /\ LastSent \in Texts
      /\ toServer[link] = <<LastSent>> /\ toClient[link] = <<>>
      /\ Head(toServer[link]) = LastSent /\ Tail(toServer[link]) = <<>>
  BY <1>1, Requested
<1>3. toServer' = [toServer EXCEPT ![link] = <<>>]
  BY <1>2
<1>4. /\ toServer' \in [Links -> Seq(Texts)] /\ toServer'[link] = <<>>
      /\ \A k \in Links \ {link} : toServer'[k] = toServer[k]
  BY <1>2, <1>3, Single DEF Queues
<1>5. /\ toClient' \in [Links -> Seq(Packets)]
      /\ toClient'[link] \in {<<>>, <<Response(LastSent)>>}
      /\ \A k \in Links \ {link} : toClient'[k] = toClient[k]
  <2>1. CASE toClient' = toClient
    BY <1>2, <2>1 DEF Queues
  <2>2. CASE toClient' = [toClient EXCEPT ![link] = Append(@, Response(Head(toServer[link])))]
    <3>1. toClient' = [toClient EXCEPT ![link] = <<Response(LastSent)>>]
      BY <1>2, <2>2, Single, PacketType
    <3>2. <<Response(LastSent)>> \in Seq(Packets)
      BY <1>2, Single, PacketType
    <3> QED BY <1>2, <3>1, <3>2 DEF Queues
  <2> QED BY <2>1, <2>2
<1>6. TypeOK' /\ Queues'
  BY <1>2, <1>4, <1>5 DEF TypeOK, Queues
<1>7. OtherLinks'
  BY <1>1, <1>4, <1>5 DEF OtherLinks, Quiet
<1>8. BetweenMessages' /\ WaitingForAnswer'
  <2>1. LastSent' = LastSent
    BY DEF LastSent
  <2> QED BY <1>2, <1>4, <1>5, <2>1 DEF BetweenMessages, WaitingForAnswer
<1> QED BY <1>6, <1>7, <1>8

LEMMA HandleStep ==
  ASSUME IInv, NEW l \in Links, HandleDataRequest(l) \/ DropDataRequest(l)
  PROVE  IInv'
<1>1. /\ spc[l] = "session" /\ toServer[l] # <<>>
      /\ toServer' = [toServer EXCEPT ![l] = Tail(@)]
      /\ Reply(l, Response(Head(toServer[l]))) \/ toClient' = toClient
      /\ UNCHANGED <<cpc, link, sentMessages, serverResponses, spc, broken>>
  BY DEF HandleDataRequest, DropDataRequest, client
<1>2. CASE l = link /\ LinkOpen(link)
  BY <1>1, <1>2, TakenStep DEF Reply
<1>3. CASE l \in broken /\ ~LinkOpen(l)
  <2>1. toClient' = toClient
    BY <1>1, <1>3 DEF Reply
  <2>2. spc \in [Links -> {"free", "expectRequest", "receiveSessionKey", "session", "closed"}]
    BY DEF IInv, TypeOK
  <2> QED BY <1>1, <1>3, <2>1, <2>2, BrokenStep
<1> QED BY <1>1, <1>2, <1>3, OpenOrBroken

LEMMA RefuseStep == ASSUME IInv, NEW l \in Links, RefuseDataRequest(l) PROVE IInv'
<1>1. /\ spc[l] = "expectRequest" /\ toServer[l] # <<>>
      /\ toServer' = [toServer EXCEPT ![l] = Tail(@)]
      /\ spc' = [spc EXCEPT ![l] = "closed"]
      /\ UNCHANGED <<cpc, link, sentMessages, serverResponses, toClient, broken>>
  BY DEF RefuseDataRequest, client
<1>2. CASE l = link /\ LinkOpen(link)
  <2>1. link \in Links /\ Tail(toServer[link]) = <<>>
    BY <1>1, <1>2, Requested
  <2>2. toServer' = [toServer EXCEPT ![link] = <<>>]
    BY <1>1, <1>2, <2>1
  <2>3. /\ toServer' \in [Links -> Seq(Texts)]
        /\ \A k \in Links \ {link} : toServer'[k] = toServer[k]
    BY <2>1, <2>2 DEF IInv, Queues
  <2> QED BY <1>1, <1>2, <2>3, CloseStep
<1>3. CASE l \in broken
  <2>1. /\ spc' \in [Links -> {"free", "expectRequest", "receiveSessionKey", "session", "closed"}]
        /\ spc'[l] = "closed" /\ \A k \in Links \ {l} : spc'[k] = spc[k]
    BY <1>1 DEF IInv, TypeOK
  <2> QED BY <1>1, <1>3, <2>1, BrokenStep
<1> QED BY <1>1, <1>2, <1>3, OpenOrBroken

LEMMA ReturnStep == ASSUME IInv, NEW l \in Links, ServerReturns(l) PROVE IInv'
<1>1. /\ spc[l] \in {"expectRequest", "session"} /\ l \in broken
      /\ spc' = [spc EXCEPT ![l] = "closed"]
      /\ UNCHANGED <<cpc, link, sentMessages, serverResponses, toServer, toClient, broken>>
  BY DEF ServerReturns, client
<1>2. /\ spc' \in [Links -> {"free", "expectRequest", "receiveSessionKey", "session", "closed"}]
      /\ spc'[l] = "closed" /\ \A k \in Links \ {l} : spc'[k] = spc[k]
  BY <1>1 DEF IInv, TypeOK
<1> QED BY <1>1, <1>2, BrokenStep

LEMMA EndStep == ASSUME IInv, ServerEnds PROVE IInv'
<1> USE DEF IInv
<1>1. /\ UNCHANGED <<cpc, link, sentMessages, serverResponses, toServer, toClient, broken>>
      /\ spc' = [l \in Links |-> IF spc[l] = "free" THEN "free" ELSE "closed"]
  BY DEF ServerEnds, client
<1>2. \A l \in Links : ~LinkOpen(l)' /\ (spc'[l] = "free" <=> spc[l] = "free")
  BY <1>1 DEF LinkOpen
<1>3. link \in Links /\ LastSent' = LastSent
  BY <1>1 DEF TypeOK, LastSent
<1>4. TypeOK' /\ Queues'
  BY <1>1, <1>2, <1>3 DEF TypeOK, Queues
<1>5. OtherLinks'
  BY <1>1, <1>2, <1>3 DEF OtherLinks, Quiet
<1>6. BetweenMessages' /\ WaitingForAnswer'
  <2>1. spc'[link] # "receiveSessionKey"
    BY <1>1, <1>3
  <2> QED BY <1>1, <1>2, <1>3, <2>1 DEF BetweenMessages, WaitingForAnswer
<1> QED BY <1>4, <1>5, <1>6

\* What a break leaves of a queue
LEMMA Prefix ==
  ASSUME NEW S, NEW q \in Seq(S), NEW n \in 0..Len(q)
  PROVE  /\ SubSeq(q, 1, n) \in Seq(S)
         /\ \A x \in S : q = <<x>> => SubSeq(q, 1, n) \in {<<>>, <<x>>}
         /\ q = <<>> => SubSeq(q, 1, n) = <<>>
<1>1. SubSeq(q, 1, n) \in Seq(S)
  BY SubSeqProperties
<1>2. SubSeq(q, 1, 0) = <<>>
  BY SubSeqEmpty
<1>3. SubSeq(q, 1, Len(q)) = q
  BY SubSeqFull
<1>4. q = <<>> => n = 0
  OBVIOUS
<1>5. \A x \in S : q = <<x>> => n = 0 \/ n = Len(q)
  OBVIOUS
<1> QED BY <1>1, <1>2, <1>3, <1>4, <1>5

LEMMA BreakStep == ASSUME IInv, NEW l \in Links, LinkBreaks(l) PROVE IInv'
<1> USE DEF IInv
<1>1. /\ l = link /\ LinkOpen(link) /\ broken' = broken \cup {link}
      /\ UNCHANGED <<cpc, link, sentMessages, serverResponses, spc>>
  BY OpenIsLink DEF LinkBreaks, client
<1>2. /\ toServer \in [Links -> Seq(Texts)] /\ toClient \in [Links -> Seq(Packets)]
      /\ link \in Links
  BY DEF Queues, TypeOK
<1>3. PICK n \in 0..Len(toServer[link]) : toServer' = [toServer EXCEPT ![link] = SubSeq(@, 1, n)]
  BY <1>1 DEF LinkBreaks
<1>4. PICK m \in 0..Len(toClient[link]) : toClient' = [toClient EXCEPT ![link] = SubSeq(@, 1, m)]
  BY <1>1 DEF LinkBreaks
<1>5. SubSeq(toServer[link], 1, n) \in Seq(Texts)
  BY <1>2, Prefix
<1>6. /\ SubSeq(toClient[link], 1, m) \in Seq(Packets)
      /\ \A x \in Packets : toClient[link] = <<x>> =>
           SubSeq(toClient[link], 1, m) \in {<<>>, <<x>>}
      /\ toClient[link] = <<>> => SubSeq(toClient[link], 1, m) = <<>>
  BY <1>2, Prefix
<1>7. /\ toServer' \in [Links -> Seq(Texts)] /\ toClient' \in [Links -> Seq(Packets)]
      /\ toClient'[link] = SubSeq(toClient[link], 1, m)
      /\ \A k \in Links \ {link} : toServer'[k] = toServer[k] /\ toClient'[k] = toClient[k]
  BY <1>2, <1>3, <1>4, <1>5, <1>6
<1>8. ~LinkOpen(link)' /\ \A k \in Links \ {link} : LinkOpen(k)' <=> LinkOpen(k)
  BY <1>1 DEF LinkOpen
<1>9. TypeOK' /\ Queues'
  BY <1>1, <1>2, <1>7, <1>8 DEF TypeOK, Queues
<1>10. OtherLinks'
  BY <1>1, <1>2, <1>7, <1>8 DEF OtherLinks, Quiet
<1>11. BetweenMessages'
  BY <1>1, <1>6, <1>7, <1>8, PacketType DEF BetweenMessages
<1>12. WaitingForAnswer'
  <2> SUFFICES ASSUME cpc = "expectResponse" PROVE WaitingForAnswer'
    BY <1>1 DEF WaitingForAnswer
  <2>1. LastSent' = LastSent /\ LastSent \in Texts
    BY <1>1, LastType DEF LastSent, WaitingForAnswer
  <2>2. toClient'[link] \in {<<>>, <<Error>>, <<Response(LastSent)>>}
    BY <1>6, <1>7, <2>1, PacketType DEF WaitingForAnswer
  <2>3. toClient[link] = <<>> => toClient'[link] = <<>>
    BY <1>6, <1>7
  <2> QED BY <1>1, <1>8, <2>1, <2>2, <2>3 DEF WaitingForAnswer
<1> QED BY <1>9, <1>10, <1>11, <1>12

LEMMA DataNext == IInv /\ [Next]_vars => IInv'
<1> SUFFICES ASSUME IInv, [Next]_vars PROVE IInv'
  OBVIOUS
<1>1. ASSUME NEW m \in Texts, SendData(m) PROVE IInv'
  BY <1>1, SendStep
<1>2. CASE ReceiveResponse \/ UseMissingResponse
  BY <1>2, ReceiveStep, MissingStep
<1>3. ASSUME NEW l \in Links, Connect(l) \/ LinkBreaks(l) PROVE IInv'
  BY <1>3, ConnectStep, BreakStep
<1>4. ASSUME NEW l \in Links, Server(l) PROVE IInv'
  BY <1>4, StartStep, ServerFailsStep, HandleStep, RefuseStep, ReturnStep DEF Server
<1>5. CASE UNCHANGED vars
  BY <1>5 DEF vars, client, IInv, TypeOK, Queues, OtherLinks, BetweenMessages,
              WaitingForAnswer, LinkOpen, Quiet, LastSent
<1> QED BY <1>1, <1>2, <1>3, <1>4, <1>5, EndStep DEF Next

-----------------------------------------------------------------------------
(* The theorems *)

\* Between two messages nothing is left on an open link, whatever was refused or
\* dropped, so the next read belongs to the next message.
THEOREM DataTypeCorrect == Spec => []TypeOK
<1>1. IInv => TypeOK
  BY DEF IInv
<1> QED BY <1>1, DataInit, DataNext, PTL DEF Spec

\* sendData records a response only for the message just sent.
THEOREM AnswersAreLast == Spec => AnswersLast
<1>1. IInv /\ [Next]_vars =>
        [serverResponses' # serverResponses =>
           serverResponses' = Append(serverResponses, LastSent)]_vars
  <2> SUFFICES ASSUME IInv, [Next]_vars, serverResponses' # serverResponses
               PROVE  serverResponses' = Append(serverResponses, LastSent)
    OBVIOUS
  <2>1. ReceiveResponse
    BY DEF Next, Server, SendData, UseMissingResponse, Connect, StartSession, ServerFails,
           HandleDataRequest, DropDataRequest, RefuseDataRequest, ServerReturns, ServerEnds,
           LinkBreaks, vars, client
  <2> QED BY <2>1, Recorded
<1> QED BY <1>1, DataInit, DataNext, PTL DEF Spec, AnswersLast

\* As long as no response is missing, each stands in the list beside its message,
\* and there are never more than messages answered, however many were refused,
\* dropped or lost.
THEOREM RowsAreRight == Spec => []RowsMatch
<1>1. Init => RowsMatch
  <2>1. Len(<<>>) = 0 /\ DOMAIN <<>> = {}
    OBVIOUS
  <2> QED BY <2>1 DEF Init, RowsMatch, Answerable
<1>2. IInv /\ RowsMatch /\ [Next]_vars => RowsMatch'
  <2> SUFFICES ASSUME IInv, RowsMatch, [Next]_vars PROVE RowsMatch'
    OBVIOUS
  <2>t. /\ sentMessages \in Seq(Texts) /\ serverResponses \in Seq(Messages)
        /\ Len(sentMessages) \in Nat /\ Len(serverResponses) \in Nat
        /\ DOMAIN serverResponses = 1..Len(serverResponses)
    BY DEF IInv, TypeOK
  <2>1. ASSUME NEW m \in Texts, SendData(m) PROVE RowsMatch'
    <3>1. /\ cpc = "ui" /\ cpc' = "expectResponse" /\ serverResponses' = serverResponses
          /\ sentMessages' = Append(sentMessages, m)
      BY <2>1 DEF SendData
    <3>2. /\ Len(sentMessages') = Len(sentMessages) + 1
          /\ \A i \in 1..Len(sentMessages) : sentMessages'[i] = sentMessages[i]
      BY <2>t, <3>1
    <3>3. Answerable = Len(sentMessages) /\ Answerable' = Len(sentMessages)
      BY <2>t, <3>1, <3>2 DEF Answerable
    <3> QED BY <2>t, <3>1, <3>2, <3>3 DEF RowsMatch
  <2>2. CASE ReceiveResponse \/ UseMissingResponse
    <3>1. /\ cpc = "expectResponse" /\ cpc' # "expectResponse"
          /\ sentMessages' = sentMessages
      BY <2>2 DEF ReceiveResponse, UseMissingResponse
    <3>2. Answerable = Len(sentMessages) - 1 /\ Answerable' = Len(sentMessages)
      BY <2>t, <3>1 DEF Answerable
    <3>3. CASE UNCHANGED serverResponses
      <4>1. Len(serverResponses) <= Len(sentMessages) - 1
        BY <3>2 DEF RowsMatch
      <4>2. Len(serverResponses') = Len(serverResponses)
        BY <3>3
      <4>3. /\ Len(serverResponses') <= Len(sentMessages)
            /\ Len(serverResponses') # Len(sentMessages)
        BY <2>t, <4>1, <4>2
      <4> QED BY <3>2, <4>3 DEF RowsMatch
    <3>4. CASE LastSent \in Messages /\ serverResponses' = Append(serverResponses, LastSent)
      <4> DEFINE n == Len(serverResponses)
      <4>1. /\ n \in Nat /\ Len(serverResponses') = n + 1
            /\ DOMAIN serverResponses' = 1..(n + 1)
            /\ \A i \in 1..n : serverResponses'[i] = serverResponses[i]
            /\ serverResponses'[n + 1] = LastSent
        BY <2>t, <3>4
      <4>2. LastSent = sentMessages[Len(sentMessages)]
        BY DEF LastSent
      <4> QED BY <2>t, <3>1, <3>2, <4>1, <4>2 DEF RowsMatch
    <3> QED BY <2>2, <3>3, <3>4, Recorded DEF UseMissingResponse
  <2>3. CASE UNCHANGED <<cpc, sentMessages, serverResponses>>
    BY <2>3 DEF RowsMatch, Answerable
  <2> QED BY <2>1, <2>2, <2>3
          DEF Next, Server, Connect, StartSession, ServerFails, HandleDataRequest,
              DropDataRequest, RefuseDataRequest, ServerReturns, ServerEnds, LinkBreaks,
              vars, client
<1> QED BY <1>1, <1>2, DataInit, DataNext, PTL DEF Spec
=============================================================================
