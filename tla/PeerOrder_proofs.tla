--------------------------- MODULE PeerOrder_proofs ---------------------------
(***************************************************************************)
(* What a peer of the TTP finds on its connection, and in which order,     *)
(* whichever threads write to it; what the two programs make of it; and in *)
(* what state a handshake leaves the link between them.                    *)
(*                                                                         *)
(* PeerOrder alone is not inductive: that the third packet is the key and  *)
(* no other rests on how many packets there are when it is written, and    *)
(* that a requester's connection begins with InitiateAuthOk on nobody else *)
(* knowing the connection before.                                          *)
(***************************************************************************)
EXTENDS KeyBroker_proofs, SequenceTheorems

Unseen == {"free", "receive"}

\* Before it has introduced itself nobody writes to a connection.
Unwritten == \A c \in Conn : pc[c] \in Unseen => sent[c] = <<>>

\* The connection a service's thread is about to notify is a user's.
Notified == \A t \in Conn : pc[t] \in Notifying => name[session[t].client] \in Users

\* Once it has, it was told InitiateAuthOk, first of all and once.
Greeted ==
  \A c \in Conn : name[c] \in Names =>
    /\ sent[c] # <<>> /\ sent[c][1].type = "InitiateAuthOk"
    /\ \A i \in DOMAIN sent[c] : i # 1 => sent[c][i].type # "InitiateAuthOk"

ErrorFree(c) == \A i \in DOMAIN sent[c] : sent[c][i] # Error

\* How many packets a service was sent tells how far it got, unless one of them
\* is an error.
ServiceCount ==
  \A c \in Conn : name[c] \in Services /\ ErrorFree(c) =>
    Len(sent[c]) = IF clientCn[c] = None THEN 1 ELSE IF Keys[c] = {} THEN 2 ELSE 3

\* The two parts of PeerOrder that are about services
ServiceOrder ==
  \A c \in Conn : name[c] \in Services =>
    \A i \in DOMAIN sent[c] :
      (\A j \in 1..i : sent[c][j] # Error) =>
        /\ (i = 2) = (sent[c][i] = Msg("ServerAuthOk"))
        /\ (i = 3) = (sent[c][i].type = "UserAuthOk")

Written == Unwritten /\ Notified /\ Greeted /\ ServiceCount /\ ServiceOrder

-----------------------------------------------------------------------------
(* Who writes what to whom *)

WritesErrors(x) ==
  /\ pc'[x] \notin Unseen
  /\ \/ sent'[x] = Append(sent[x], Error)
     \/ sent'[x] = Append(Append(sent[x], Error), Error)

WritesToUser(x) ==
  /\ name[x] \in Users
  /\ \E p \in Packet : p.type # "InitiateAuthOk" /\ sent'[x] = Append(sent[x], p)

WritesKey(x) == \E t \in Conn : SendServiceKey(t) /\ session[t].service = x

\* What a step may do to the packets sent to x
Writes(x) ==
  \/ sent'[x] = sent[x]
  \/ WritesErrors(x)
  \/ WritesToUser(x)
  \/ InitiateAuthAccepted(x)
  \/ ServiceAuthenticated(x)
  \/ WritesKey(x)
  \/ ReceiveCertificateRequest(x)

LEMMA OwnThreadWrites ==
  ASSUME Inductive, NEW c \in Conn, NEW x \in Conn,
         \/ InitiateAuthRejected(c) \/ ClientRejected(c) \/ ServiceNameFails(c)
         \/ FindClientFails(c) \/ NotifyFails(c) \/ ServiceRejected(c)
         \/ Fail(c) \/ ReceiveCertificateRequest(c)
  PROVE  Writes(x)
<1>t. TypeOK
  BY DEF Inductive, Typed
<1>1. CASE x # c
  <2>1. sent'[x] = sent[x]
    BY <1>t, <1>1 DEF TypeOK, Post, InitiateAuthRejected, ClientRejected, ServiceNameFails,
       FindClientFails, NotifyFails, ServiceRejected, Fail, ReceiveCertificateRequest
  <2> QED BY <2>1 DEF Writes
<1>2. CASE x = c /\ ReceiveCertificateRequest(c)
  BY <1>2 DEF Writes
<1>3. CASE x = c /\ ~ReceiveCertificateRequest(c)
  <2>1. pc'[c] \in {"closed", "fail", "findPending", "eraseClient"}
    BY <1>t, <1>3 DEF TypeOK, Goto, InitiateAuthRejected, ClientRejected, ServiceNameFails,
       FindClientFails, NotifyFails, ServiceRejected, Fail
  <2>2. sent'[c] = Append(sent[c], Error) \/ sent'[c] = Append(Append(sent[c], Error), Error)
    BY <1>t, <1>3 DEF TypeOK, Post, InitiateAuthRejected, ClientRejected, ServiceNameFails,
       FindClientFails, NotifyFails, ServiceRejected, Fail
  <2> QED BY <1>3, <2>1, <2>2 DEF Writes, WritesErrors, Unseen
<1> QED BY <1>1, <1>2, <1>3

LEMMA FailureWrites ==
  ASSUME Inductive, NEW c \in Conn, NEW x \in Conn, FinalizeFails(c) \/ FailPending(c)
  PROVE  Writes(x)
<1>t. Typed /\ TypeOK
  BY DEF Inductive, Typed
<1>1. pc'[c] \notin Unseen /\ \A d \in Conn \ {c} : pc'[d] = pc[d]
  BY <1>t DEF FinalizeFails, FailPending, Goto, TypeOK, Unseen
<1>2. CASE sent' = sent
  BY <1>2 DEF Writes
<1>3. ASSUME NEW cs, PostErrors(cs), \A d \in Conn \cap cs : d # c => pc[d] \notin Unseen
      PROVE  Writes(x)
  <2>1. sent'[x] = IF x \in cs THEN Append(sent[x], Error) ELSE sent[x]
    BY <1>3 DEF PostErrors
  <2>2. x \in cs => pc'[x] \notin Unseen
    BY <1>1, <1>3
  <2> QED BY <2>1, <2>2 DEF Writes, WritesErrors
<1>4. CASE FinalizeFails(c)
  <2>1. pc[c] = "finalize" /\ (UNCHANGED sent \/ PostErrors({session[c].client, session[c].service}))
    BY <1>4 DEF FinalizeFails
  <2>2. pc[session[c].client] \notin Unseen /\ pc[session[c].service] \notin Unseen
    BY <1>t, <2>1 DEF Inductive, PairMatches, Pairing, BeforeRegister, Listed, Unseen
  <2>3. \A d \in Conn \cap {session[c].client, session[c].service} : d # c => pc[d] \notin Unseen
    BY <2>2
  <2> QED BY <1>2, <1>3, <2>1, <2>3
<1>5. CASE FailPending(c)
  <2>1. PICK d \in Lookup(c, pendingSessions, name[c]) : PostErrors({d})
    BY <1>5 DEF FailPending
  <2>2. name[c] \in Names
    BY <1>t, <1>5 DEF FailPending, Typed, ThreadKnows, RequesterSteps, Names
  <2>3. d \in Conn => pc[d] \notin Unseen
    BY <1>t, <2>1, <2>2, Distinct DEF Lookup, Inductive, PendingListed, Listed, Unseen, TypeOK
  <2>4. \A e \in Conn \cap {d} : e # c => pc[e] \notin Unseen
    BY <2>3
  <2> QED BY <1>3, <2>1, <2>4
<1> QED BY <1>4, <1>5

LEMMA ClientWrites ==
  ASSUME Inductive, Notified, NEW c \in Conn, NEW x \in Conn,
         SendClientKey(c) \/ SendTicket(c) \/ SendRedirect(c)
  PROVE  Writes(x)
<1>t. Typed /\ TypeOK
  BY DEF Inductive, Typed
<1>1. ASSUME NEW p \in Packet, p.type # "InitiateAuthOk", Post(session[c].client, p),
             name[session[c].client] \in Users
      PROVE  Writes(x)
  <2>1. sent'[x] = IF x = session[c].client THEN Append(sent[x], p) ELSE sent[x]
    BY <1>t, <1>1 DEF Post, TypeOK
  <2> QED BY <1>1, <2>1 DEF Writes, WritesToUser
<1>2. CASE SendClientKey(c)
  <2>1. name[session[c].client] \in Users /\ Post(session[c].client, UserAuthOk(c))
    BY <1>2, ClientKeySent DEF SendClientKey
  <2>2. UserAuthOk(c) \in Packet /\ UserAuthOk(c).type # "InitiateAuthOk"
    BY PacketTypes DEF UserAuthOk, Msg
  <2> QED BY <1>1, <2>1, <2>2
<1>3. CASE SendTicket(c)
  <2>1. clientCn[c] \in Users /\ name[c] \in Services
    BY <1>t, <1>3 DEF SendTicket, Typed, ThreadKnows, Asking, ServiceSteps, RequesterSteps
  <2>2. /\ Ticket(clientCn[c], name[c]) \in Packet
        /\ Ticket(clientCn[c], name[c]).type # "InitiateAuthOk"
    BY <2>1, PacketTypes DEF Ticket, Msg
  <2>3. name[session[c].client] \in Users /\ Post(session[c].client, Ticket(clientCn[c], name[c]))
    BY <1>3 DEF SendTicket, Notified, Notifying
  <2> QED BY <1>1, <2>2, <2>3
<1>4. CASE SendRedirect(c)
  <2>1. /\ Msg("UserAuthRedirect") \in Packet
        /\ Msg("UserAuthRedirect").type # "InitiateAuthOk"
    BY PacketTypes DEF Msg
  <2>2. name[session[c].client] \in Users /\ Post(session[c].client, Msg("UserAuthRedirect"))
    BY <1>4 DEF SendRedirect, Notified, Notifying
  <2> QED BY <1>1, <2>1, <2>2
<1> QED BY <1>2, <1>3, <1>4

LEMMA StepWrites ==
  ASSUME Inductive, Notified, [Next]_vars, NEW x \in Conn
  PROVE  Writes(x)
<1>t. TypeOK
  BY DEF Inductive, Typed
<1>1. ASSUME NEW c \in Conn, SendServiceKey(c) PROVE Writes(x)
  <2>1. x # session[c].service => sent'[x] = sent[x]
    BY <1>t, <1>1 DEF SendServiceKey, Post, TypeOK
  <2> QED BY <1>1, <2>1 DEF Writes, WritesKey
<1>2. ASSUME NEW c \in Conn, InitiateAuthAccepted(c) PROVE Writes(x)
  <2>1. x # c => sent'[x] = sent[x]
    BY <1>t, <1>2 DEF InitiateAuthAccepted, Post, TypeOK
  <2> QED BY <1>2, <2>1 DEF Writes
<1>3. ASSUME NEW c \in Conn, ServiceAuthenticated(c) PROVE Writes(x)
  <2>1. x # c => sent'[x] = sent[x]
    BY <1>t, <1>3 DEF ServiceAuthenticated, Post, TypeOK
  <2> QED BY <1>3, <2>1 DEF Writes
<1>4. ASSUME NEW c \in Conn,
             \/ Accept(c) \/ PeerClose(c) \/ ReceiveEnd(c) \/ ReceiveIgnored(c)
             \/ Register(c) \/ ClientAuthenticated(c) \/ MatchSession(c) \/ WaitExpires(c)
             \/ FinalizeExpired(c) \/ SendServiceKeyFails(c) \/ ServiceUnhealthy(c) \/ AddPending(c)
             \/ FindClient(c) \/ EraseClient(c) \/ ErasePending(c)
      PROVE  sent' = sent
  BY <1>4
     DEF Accept, PeerClose, ReceiveEnd, ReceiveIgnored, Register,
         ClientAuthenticated, MatchSession, WaitExpires, FinalizeExpired, SendServiceKeyFails,
         ServiceUnhealthy, AddPending, FindClient, EraseClient, ErasePending, wire
<1>5. CASE \/ \E c \in Conn : \E p \in Sends[c] : PeerSends(c, p)
           \/ Crash \/ UNCHANGED vars
  BY <1>5 DEF PeerSends, Crash, vars, wire, Writes
<1>6. CASE \E c \in Conn : Accept(c) \/ PeerClose(c) \/ Thread(c)
  <2> PICK c \in Conn : Accept(c) \/ PeerClose(c) \/ Thread(c)
    BY <1>6
  <2>1. CASE sent' = sent
    BY <2>1 DEF Writes
  <2>2. CASE Accept(c) \/ PeerClose(c)
    BY <1>4, <2>1, <2>2
  <2>3. CASE ReceiveLoop(c)
    BY <1>2, <1>4, <2>1, <2>3, OwnThreadWrites DEF ReceiveLoop
  <2>4. CASE RequesterAuthenticate(c)
    BY <1>1, <1>4, <2>1, <2>4, OwnThreadWrites, FailureWrites, ClientWrites
       DEF RequesterAuthenticate
  <2>5. CASE ServiceAuthenticate(c)
    BY <1>3, <1>4, <2>1, <2>5, OwnThreadWrites, ClientWrites DEF ServiceAuthenticate
  <2>6. CASE Cleanup(c)
    BY <1>4, <2>1, <2>6 DEF Cleanup
  <2> QED BY <2>2, <2>3, <2>4, <2>5, <2>6 DEF Thread
<1> QED BY <1>5, <1>6 DEF Next
-----------------------------------------------------------------------------
(* Where the threads are *)

LEMMA UnseenMoves ==
  ASSUME TypeOK, [Next]_vars, NEW x \in Conn, pc'[x] \in Unseen
  PROVE  pc[x] \in Unseen
<1> USE DEF Goto, TypeOK, Unseen
<1>1. ASSUME NEW c \in Conn, Accept(c) \/ PeerClose(c) \/ ReceiveLoop(c) \/ Cleanup(c)
      PROVE  pc[x] \in Unseen
  BY <1>1 DEF Accept, PeerClose, ReceiveLoop, ReceiveEnd, ReceiveCertificateRequest,
       InitiateAuthAccepted, ReceiveIgnored, InitiateAuthRejected, Register,
       Cleanup, EraseClient, ErasePending
<1>2. ASSUME NEW c \in Conn, RequesterAuthenticate(c) PROVE pc[x] \in Unseen
  BY <1>2 DEF RequesterAuthenticate, ClientAuthenticated, ClientRejected, MatchSession,
       WaitExpires, FinalizeFails, FinalizeExpired, SendClientKey, SendServiceKey,
       SendServiceKeyFails, Fail, FailPending
<1>3. ASSUME NEW c \in Conn, ServiceAuthenticate(c) PROVE pc[x] \in Unseen
  BY <1>3 DEF ServiceAuthenticate, ServiceUnhealthy, ServiceAuthenticated, ServiceRejected,
       ServiceNameFails, AddPending, FindClient, FindClientFails, SendTicket, SendRedirect,
       NotifyFails
<1>4. ASSUME NEW c \in Conn, NEW p \in Sends[c], PeerSends(c, p) PROVE pc[x] \in Unseen
  BY <1>4 DEF PeerSends
<1>5. CASE Crash \/ UNCHANGED vars
  BY <1>5 DEF Crash, Live, vars
<1> QED BY <1>1, <1>2, <1>3, <1>4, <1>5 DEF Next, Thread

\* Only FindClient brings a thread to notify somebody, and nobody else changes
\* whom.
LEMMA NotifyingMoves ==
  ASSUME TypeOK, [Next]_vars, NEW t \in Conn, pc'[t] \in Notifying, ~FindClient(t)
  PROVE  pc[t] \in Notifying /\ session'[t] = session[t]
<1> USE DEF Goto, TypeOK, Notifying
<1>1. ASSUME NEW c \in Conn, Accept(c) \/ PeerClose(c) \/ ReceiveLoop(c) \/ Cleanup(c)
      PROVE  pc[t] \in Notifying /\ session'[t] = session[t]
  BY <1>1 DEF Accept, PeerClose, ReceiveLoop, ReceiveEnd, ReceiveCertificateRequest,
       InitiateAuthAccepted, ReceiveIgnored, InitiateAuthRejected, Register,
       Cleanup, EraseClient, ErasePending
<1>2. ASSUME NEW c \in Conn, RequesterAuthenticate(c)
      PROVE  pc[t] \in Notifying /\ session'[t] = session[t]
  BY <1>2 DEF RequesterAuthenticate, ClientAuthenticated, ClientRejected, MatchSession,
       WaitExpires, FinalizeFails, FinalizeExpired, SendClientKey, SendServiceKey,
       SendServiceKeyFails, Fail, FailPending
<1>3. ASSUME NEW c \in Conn, ServiceAuthenticate(c)
      PROVE  pc[t] \in Notifying /\ session'[t] = session[t]
  <2>1. CASE FindClient(c)
    <3>1. c # t /\ pc' = [pc EXCEPT ![c] = "sendTicket"]
          /\ \E e : session' = [session EXCEPT ![c].client = e]
      BY <2>1 DEF FindClient
    <3> QED BY <3>1
  <2>2. CASE SendTicket(c) \/ SendRedirect(c) \/ NotifyFails(c)
    BY <2>2 DEF SendTicket, SendRedirect, NotifyFails
  <2> QED BY <1>3, <2>1, <2>2
          DEF ServiceAuthenticate, ServiceUnhealthy, ServiceAuthenticated, ServiceRejected,
              ServiceNameFails, AddPending, FindClientFails
<1>4. ASSUME NEW c \in Conn, NEW p \in Sends[c], PeerSends(c, p)
      PROVE  pc[t] \in Notifying /\ session'[t] = session[t]
  BY <1>4 DEF PeerSends
<1>5. CASE Crash \/ UNCHANGED vars
  BY <1>5 DEF Crash, Live, vars
<1> QED BY <1>1, <1>2, <1>3, <1>4, <1>5 DEF Next, Thread

LEMMA NotifiedNext == Inductive /\ Notified /\ [Next]_vars => Notified'
<1> SUFFICES ASSUME Inductive, Notified, [Next]_vars,
                    NEW t \in Conn, pc'[t] \in Notifying
             PROVE  name'[session'[t].client] \in Users
  BY DEF Notified
<1>t. Typed /\ TypeOK
  BY DEF Inductive, Typed
<1>1. CASE FindClient(t)
  <2>1. PICK e \in Lookup(t, connectedClients, clientCn[t]) :
          e # None /\ session' = [session EXCEPT ![t].client = e] /\ name' = name
    BY <1>1 DEF FindClient
  <2>2. clientCn[t] \in Users
    BY <1>t, <1>1 DEF FindClient, Typed, ThreadKnows, Asking
  <2>3. e \in Conn /\ connectedClients[clientCn[t]] = e
    BY <1>t, <2>1, <2>2 DEF Lookup, TypeOK, Names
  <2>4. name[e] = clientCn[t]
    BY <2>2, <2>3 DEF Inductive, ConnectedLive, Names
  <2>5. session'[t].client = e
    BY <1>t, <2>1 DEF TypeOK
  <2> QED BY <2>1, <2>2, <2>4, <2>5
<1>2. CASE ~FindClient(t)
  <2>1. pc[t] \in Notifying /\ session'[t] = session[t]
    BY <1>t, <1>2, NotifyingMoves
  <2>2. session[t].client \in Conn /\ name[session[t].client] \in Users
    BY <1>t, <2>1 DEF Notified, Typed, ThreadKnows
  <2> QED BY <1>t, <2>1, <2>2, NextNames, TtpAssumption
<1> QED BY <1>1, <1>2

LEMMA UnwrittenNext == Inductive /\ Notified /\ Unwritten /\ [Next]_vars => Unwritten'
<1> SUFFICES ASSUME Inductive, Notified, Unwritten, [Next]_vars,
                    NEW c \in Conn, pc'[c] \in Unseen
             PROVE  sent'[c] = <<>>
  BY DEF Unwritten
<1>t. Typed /\ TypeOK
  BY DEF Inductive, Typed
<1>1. pc[c] \in Unseen /\ sent[c] = <<>>
  BY <1>t, UnseenMoves DEF Unwritten
<1>2. name[c] = None
  BY <1>t, <1>1 DEF Typed, ThreadKnows, Unseen
<1>3. ~WritesErrors(c) /\ ~WritesToUser(c)
  BY <1>2, TtpAssumption DEF WritesErrors, WritesToUser
<1>4. ~InitiateAuthAccepted(c) /\ ~ServiceAuthenticated(c)
  BY <1>t, <1>1 DEF InitiateAuthAccepted, ServiceAuthenticated, Goto, TypeOK, Unseen
<1>5. ~WritesKey(c)
  BY <1>2, ServiceKeySent, TtpAssumption DEF WritesKey
<1>6. ~ReceiveCertificateRequest(c)
  BY <1>t DEF ReceiveCertificateRequest, Goto, TypeOK, Unseen
<1>7. Writes(c)
  BY StepWrites
<1> QED BY <1>1, <1>3, <1>4, <1>5, <1>6, <1>7 DEF Writes
-----------------------------------------------------------------------------
(* What was written, in which order *)

\* A connection gets its name from InitiateAuth only, and the user it asks for
\* from ServerAuthRequest only.
LEMMA NewName ==
  ASSUME Typed, [Next]_vars, NEW c \in Conn, name[c] = None, name'[c] \in Names
  PROVE  InitiateAuthAccepted(c)
<1>1. ASSUME NEW x \in Conn, InitiateAuthAccepted(x) PROVE x = c
  BY <1>1, TtpAssumption DEF InitiateAuthAccepted, Typed, TypeOK, Names
<1>2. ASSUME NEW x \in Conn, ServiceAuthenticated(x) PROVE name' = name
  BY <1>2 DEF ServiceAuthenticated
<1> QED BY <1>1, <1>2, OtherStepsMap, TtpAssumption DEF Names

LEMMA NewAsks ==
  ASSUME Typed, [Next]_vars, NEW c \in Conn, ~ServiceAuthenticated(c)
  PROVE  clientCn'[c] = clientCn[c]
<1>1. ASSUME NEW x \in Conn, ServiceAuthenticated(x) PROVE clientCn'[c] = clientCn[c]
  BY <1>1 DEF ServiceAuthenticated, Typed, TypeOK
<1>2. ASSUME NEW x \in Conn, InitiateAuthAccepted(x) PROVE clientCn' = clientCn
  BY <1>2 DEF InitiateAuthAccepted
<1> QED BY <1>1, <1>2, OtherStepsMap

LEMMA Greets ==
  ASSUME Inductive, Unwritten, NEW c \in Conn, InitiateAuthAccepted(c)
  PROVE  /\ sent'[c] = <<Msg("InitiateAuthOk")>> /\ name[c] = None
         /\ clientCn'[c] = None /\ Keys'[c] = {}
<1>t. Typed /\ TypeOK
  BY DEF Inductive, Typed
<1>1. /\ pc[c] = "receive" /\ clientCn' = clientCn
      /\ sent' = [sent EXCEPT ![c] = Append(@, Msg("InitiateAuthOk"))]
  BY DEF InitiateAuthAccepted, Post
<1>2. sent[c] = <<>> /\ name[c] = None /\ clientCn[c] = None
  BY <1>t, <1>1 DEF Unwritten, Unseen, Typed, ThreadKnows
<1>3. sent'[c] = <<Msg("InitiateAuthOk")>>
  BY <1>t, <1>1, <1>2 DEF TypeOK
<1>4. KeysSent(c)' = {}
  <2>1. Msg("InitiateAuthOk").type # "UserAuthOk"
    BY DEF Msg
  <2> HIDE DEF Msg
  <2>2. \A i \in DOMAIN sent'[c] : sent'[c][i] = Msg("InitiateAuthOk")
    BY <1>3
  <2> QED BY <2>1, <2>2 DEF KeysSent
<1> QED BY <1>1, <1>2, <1>3, <1>4 DEF Keys

\* The named connections a step writes to, and what
LEMMA NamedWrites ==
  ASSUME Inductive, Notified, [Next]_vars, NEW x \in Conn, name[x] \in Names
  PROVE  \/ sent'[x] = sent[x] \/ WritesErrors(x) \/ WritesToUser(x)
         \/ ServiceAuthenticated(x) \/ WritesKey(x)
<1>1. pc[x] \notin Unseen
  BY TtpAssumption DEF Inductive, Typed, ThreadKnows, Names, Unseen
<1> QED BY <1>1, StepWrites DEF Writes, InitiateAuthAccepted, ReceiveCertificateRequest, Unseen

LEMMA AppendGreets ==
  ASSUME NEW q \in Seq(Packet), NEW p \in Packet, p.type # "InitiateAuthOk",
         q # <<>>, q[1].type = "InitiateAuthOk",
         \A i \in DOMAIN q : i # 1 => q[i].type # "InitiateAuthOk"
  PROVE  /\ Append(q, p) \in Seq(Packet)
         /\ Append(q, p) # <<>> /\ Append(q, p)[1].type = "InitiateAuthOk"
         /\ \A i \in DOMAIN Append(q, p) : i # 1 => Append(q, p)[i].type # "InitiateAuthOk"
<1>1. 1 \in DOMAIN q /\ Len(q) + 1 # 1
  OBVIOUS
<1>2. Append(q, p)[1] = q[1]
  BY <1>1, AppendFacts
<1>3. ASSUME NEW i \in DOMAIN Append(q, p), i # 1 PROVE Append(q, p)[i].type # "InitiateAuthOk"
  BY <1>3, AppendFacts
<1>4. Append(q, p) \in Seq(Packet) /\ Append(q, p) # <<>>
  OBVIOUS
<1> QED BY <1>2, <1>3, <1>4

LEMMA GreetedNext ==
  Inductive /\ Unwritten /\ Notified /\ Greeted /\ [Next]_vars => Greeted'
<1> SUFFICES ASSUME Inductive, Unwritten, Notified, Greeted, [Next]_vars,
                    NEW c \in Conn, name'[c] \in Names
             PROVE  /\ sent'[c] # <<>> /\ sent'[c][1].type = "InitiateAuthOk"
                    /\ \A i \in DOMAIN sent'[c] : i # 1 => sent'[c][i].type # "InitiateAuthOk"
  BY DEF Greeted
<1>t. Typed /\ TypeOK
  BY DEF Inductive, Typed
<1>1. CASE name[c] = None
  <2>1. sent'[c] = <<Msg("InitiateAuthOk")>>
    BY <1>t, <1>1, NewName, Greets
  <2>2. Msg("InitiateAuthOk").type = "InitiateAuthOk"
    BY DEF Msg
  <2> QED BY <2>1, <2>2
<1>2. CASE name[c] \in Names
  <2>1. /\ sent[c] \in Seq(Packet) /\ sent[c] # <<>> /\ sent[c][1].type = "InitiateAuthOk"
        /\ \A i \in DOMAIN sent[c] : i # 1 => sent[c][i].type # "InitiateAuthOk"
    BY <1>t, <1>2 DEF Greeted, TypeOK
  <2>2. CASE sent'[c] = sent[c]
    BY <2>1, <2>2
  <2>3. CASE WritesErrors(c)
    <3>1. Error \in Packet /\ Error.type # "InitiateAuthOk"
      BY PacketTypes DEF Error, Msg
    <3> DEFINE q == Append(sent[c], Error)
    <3>2. /\ q \in Seq(Packet) /\ q # <<>> /\ q[1].type = "InitiateAuthOk"
          /\ \A i \in DOMAIN q : i # 1 => q[i].type # "InitiateAuthOk"
      BY <2>1, <3>1, AppendGreets
    <3>3. sent'[c] = q \/ sent'[c] = Append(q, Error)
      BY <2>3 DEF WritesErrors
    <3> HIDE DEF q
    <3> QED BY <3>1, <3>2, <3>3, AppendGreets
  <2>4. CASE WritesToUser(c)
    BY <2>1, <2>4, AppendGreets DEF WritesToUser
  <2>5. CASE ServiceAuthenticated(c)
    <3>1. sent'[c] = Append(sent[c], Msg("ServerAuthOk"))
      BY <1>t, <2>5 DEF ServiceAuthenticated, Post, TypeOK
    <3>2. Msg("ServerAuthOk") \in Packet /\ Msg("ServerAuthOk").type # "InitiateAuthOk"
      BY PacketTypes DEF Msg
    <3> QED BY <2>1, <3>1, <3>2, AppendGreets
  <2>6. CASE WritesKey(c)
    <3>1. PICK t \in Conn : SendServiceKey(t) /\ session[t].service = c
      BY <2>6 DEF WritesKey
    <3>2. sent'[c] = Append(sent[c], UserAuthOk(t))
      BY <1>t, <3>1 DEF SendServiceKey, Post, TypeOK
    <3>3. UserAuthOk(t) \in Packet /\ UserAuthOk(t).type # "InitiateAuthOk"
      BY PacketTypes DEF UserAuthOk, Msg
    <3> QED BY <2>1, <3>2, <3>3, AppendGreets
  <2> QED BY <1>2, <2>2, <2>3, <2>4, <2>5, <2>6, NamedWrites
<1> QED BY <1>t, <1>1, <1>2, NextNames DEF TypeOK
\* What a step does to a service's packets, and what it knew of the service
WritesOk(x) ==
  /\ sent'[x] = Append(sent[x], Msg("ServerAuthOk"))
  /\ clientCn[x] = None /\ clientCn'[x] # None
  /\ Keys[x] = {} /\ Keys'[x] = {}

WritesLast(x) ==
  /\ \E t \in Conn : sent'[x] = Append(sent[x], UserAuthOk(t))
  /\ clientCn[x] # None /\ clientCn'[x] = clientCn[x]
  /\ Keys[x] = {} /\ Keys'[x] # {}

LEMMA ServiceWrites ==
  ASSUME Inductive, Notified, [Next]_vars, NEW x \in Conn, name[x] \in Services
  PROVE  \/ /\ sent'[x] = sent[x] /\ clientCn'[x] = clientCn[x] /\ Keys'[x] = Keys[x]
         \/ WritesErrors(x) \/ WritesOk(x) \/ WritesLast(x)
<1>t. Typed /\ TypeOK
  BY DEF Inductive, Typed
<1>1. CASE ServiceAuthenticated(x)
  <2>1. sent'[x] = Append(sent[x], Msg("ServerAuthOk")) /\ pc[x] = "authenticateService"
    BY <1>t, <1>1 DEF ServiceAuthenticated, Post, TypeOK
  <2>2. clientCn[x] = None /\ clientCn'[x] # None
    BY <1>t, <1>1, <2>1, TtpAssumption DEF ServiceAuthenticated, Typed, ThreadKnows, TypeOK
  <2>3. Keys[x] = {}
    BY <2>1 DEF Inductive, KeyFree, Eligible
  <2>4. Keys' = Keys
    <3>1. Post(x, Msg("ServerAuthOk")) /\ Msg("ServerAuthOk").type # "UserAuthOk"
      BY <1>1 DEF ServiceAuthenticated, Msg
    <3> QED BY <1>t, <3>1, PostKeeps, PacketTypes DEF KeysSame
  <2> QED BY <2>1, <2>2, <2>3, <2>4 DEF WritesOk
<1>2. CASE WritesKey(x)
  <2>1. PICK t \in Conn : SendServiceKey(t) /\ session[t].service = x
    BY <1>2 DEF WritesKey
  <2>2. sent'[x] = Append(sent[x], UserAuthOk(t))
    BY <1>t, <2>1 DEF SendServiceKey, Post, TypeOK
  <2>3. clientCn[x] # None /\ clientCn' = clientCn /\ Keys[x] = {} /\ Keys'[x] = {t}
    BY <2>1, ServiceKeySent, TtpAssumption
  <2> QED BY <2>2, <2>3 DEF WritesLast
<1>3. CASE sent'[x] = sent[x] /\ ~ServiceAuthenticated(x)
  BY <1>t, <1>3, NewAsks DEF Keys, KeysSent
<1>4. ~WritesToUser(x)
  BY Distinct DEF WritesToUser
<1> QED BY <1>1, <1>2, <1>3, <1>4, NamedWrites DEF Names

LEMMA ServiceCountNext ==
  Inductive /\ Unwritten /\ Notified /\ ServiceCount /\ [Next]_vars => ServiceCount'
<1> SUFFICES ASSUME Inductive, Unwritten, Notified, ServiceCount, [Next]_vars,
                    NEW c \in Conn, name'[c] \in Services, ErrorFree(c)'
             PROVE  Len(sent'[c]) = IF clientCn'[c] = None THEN 1
                                    ELSE IF Keys'[c] = {} THEN 2 ELSE 3
  BY DEF ServiceCount
<1>t. Typed /\ TypeOK /\ sent[c] \in Seq(Packet)
  BY DEF Inductive, Typed, TypeOK
<1>1. CASE name[c] = None
  <2>1. sent'[c] = <<Msg("InitiateAuthOk")>> /\ clientCn'[c] = None
    BY <1>t, <1>1, NewName, Greets DEF Names
  <2> QED BY <2>1
<1>2. CASE name[c] \in Services
  <2>0. ErrorFree(c)
    <3>1. Grown
      BY <1>t, NextGrows
    <3> QED BY <3>1 DEF Grown, ErrorFree
  <2>1. Len(sent[c]) = IF clientCn[c] = None THEN 1 ELSE IF Keys[c] = {} THEN 2 ELSE 3
    BY <1>2, <2>0 DEF ServiceCount
  <2>2. ~WritesErrors(c)
    <3>1. Error \in Packet /\ Append(sent[c], Error) \in Seq(Packet)
      BY <1>t, PacketTypes
    <3>2. ASSUME NEW q \in Seq(Packet), sent'[c] = Append(q, Error) PROVE FALSE
      BY <3>1, <3>2, AppendFacts DEF ErrorFree
    <3> QED BY <1>t, <3>1, <3>2 DEF WritesErrors
  <2>3. CASE WritesOk(c)
    <3>1. Len(sent[c]) = 1 /\ clientCn'[c] # None /\ Keys'[c] = {}
      BY <2>1, <2>3 DEF WritesOk
    <3>2. Len(sent'[c]) = Len(sent[c]) + 1
      BY <1>t, <2>3 DEF WritesOk
    <3> QED BY <3>1, <3>2
  <2>4. CASE WritesLast(c)
    <3>1. Len(sent[c]) = 2 /\ clientCn'[c] # None /\ Keys'[c] # {}
      BY <2>1, <2>4 DEF WritesLast
    <3>2. Len(sent'[c]) = Len(sent[c]) + 1
      BY <1>t, <2>4 DEF WritesLast
    <3> QED BY <3>1, <3>2
  <2>5. CASE sent'[c] = sent[c] /\ clientCn'[c] = clientCn[c] /\ Keys'[c] = Keys[c]
    BY <2>1, <2>5
  <2> QED BY <1>2, <2>2, <2>3, <2>4, <2>5, ServiceWrites
<1> QED BY <1>t, <1>1, <1>2, NextNames DEF TypeOK, Names
LEMMA ServiceOrderNext ==
  Inductive /\ Unwritten /\ Notified /\ ServiceCount /\ ServiceOrder /\ [Next]_vars
    => ServiceOrder'
<1> SUFFICES ASSUME Inductive, Unwritten, Notified, ServiceCount, ServiceOrder, [Next]_vars,
                    NEW c \in Conn, name'[c] \in Services,
                    NEW i \in DOMAIN sent'[c], \A j \in 1..i : sent'[c][j] # Error
             PROVE  /\ (i = 2) = (sent'[c][i] = Msg("ServerAuthOk"))
                    /\ (i = 3) = (sent'[c][i].type = "UserAuthOk")
  BY DEF ServiceOrder
<1>t. Typed /\ TypeOK /\ sent[c] \in Seq(Packet) /\ DOMAIN sent[c] = 1..Len(sent[c])
  BY DEF Inductive, Typed, TypeOK
<1>m. /\ Msg("InitiateAuthOk") # Msg("ServerAuthOk")
      /\ Msg("InitiateAuthOk").type # "UserAuthOk"
      /\ Msg("ServerAuthOk").type # "UserAuthOk"
      /\ \A t \in Conn : /\ UserAuthOk(t) # Msg("ServerAuthOk")
                         /\ UserAuthOk(t).type = "UserAuthOk"
  <2>1. \A m : Msg(m).type = m
    BY DEF Msg
  <2>2. \A t \in Conn : UserAuthOk(t).type = "UserAuthOk"
    BY DEF UserAuthOk, Msg
  <2> QED BY <2>1, <2>2
<1>p. /\ Msg("ServerAuthOk") \in Packet /\ Error \in Packet
      /\ \A t \in Conn : UserAuthOk(t) \in Packet
  BY PacketTypes
<1>1. CASE name[c] = None
  <2>1. sent'[c] = <<Msg("InitiateAuthOk")>>
    BY <1>t, <1>1, NewName, Greets DEF Names
  <2>2. i = 1 /\ sent'[c][i] = Msg("InitiateAuthOk")
    BY <2>1
  <2> QED BY <1>m, <2>2
<1>2. CASE name[c] \in Services
  <2>g. \A j \in DOMAIN sent[c] : sent'[c][j] = sent[c][j]
    BY <1>t, NextGrows DEF Grown
  <2>1. CASE i \in DOMAIN sent[c]
    <3>1. sent'[c][i] = sent[c][i] /\ \A j \in 1..i : sent[c][j] # Error
      BY <1>t, <2>1, <2>g
    <3> QED BY <1>2, <2>1, <3>1 DEF ServiceOrder
  <2>2. CASE i \notin DOMAIN sent[c]
    <3>0. i \in Nat \ {0} /\ i > Len(sent[c]) /\ Len(sent[c]) \in Nat
      <4>1. sent'[c] \in Seq(Packet)
        BY <1>t, InductiveNext DEF Inductive, Typed, TypeOK
      <4> QED BY <1>t, <2>2, <4>1
    <3>1. ErrorFree(c)
      BY <1>t, <2>g, <3>0 DEF ErrorFree
    <3>2. Len(sent[c]) = IF clientCn[c] = None THEN 1 ELSE IF Keys[c] = {} THEN 2 ELSE 3
      BY <1>2, <3>1 DEF ServiceCount
    <3>3. sent'[c] # sent[c]
      BY <2>2
    <3>4. ~WritesErrors(c)
      <4>1. Append(sent[c], Error) \in Seq(Packet)
        BY <1>t, <1>p
      <4>2. /\ Append(sent[c], Error)[Len(sent[c]) + 1] = Error
            /\ Append(Append(sent[c], Error), Error)[Len(sent[c]) + 1] = Error
        BY <1>t, <1>p, <4>1, AppendFacts
      <4>3. Len(sent[c]) + 1 \in 1..i
        BY <3>0
      <4> QED BY <4>2, <4>3 DEF WritesErrors
    <3>5. CASE WritesOk(c)
      <4>1. Len(sent[c]) = 1 /\ sent'[c] = Append(sent[c], Msg("ServerAuthOk"))
        BY <3>2, <3>5 DEF WritesOk
      <4>2. i = 2 /\ sent'[c][i] = Msg("ServerAuthOk")
        BY <1>t, <1>p, <2>2, <4>1, AppendFacts
      <4> QED BY <1>m, <4>2
    <3>6. CASE WritesLast(c)
      <4>1. PICK t \in Conn : sent'[c] = Append(sent[c], UserAuthOk(t))
        BY <3>6 DEF WritesLast
      <4>2. Len(sent[c]) = 2
        BY <3>2, <3>6 DEF WritesLast
      <4>3. i = 3 /\ sent'[c][i] = UserAuthOk(t)
        BY <1>t, <1>p, <2>2, <4>1, <4>2, AppendFacts
      <4> QED BY <1>m, <4>3
    <3> QED BY <1>2, <3>3, <3>4, <3>5, <3>6, ServiceWrites
  <2> QED BY <2>1, <2>2
<1> QED BY <1>t, <1>1, <1>2, NextNames DEF TypeOK, Names

LEMMA WrittenInit == Init => Written
<1> SUFFICES ASSUME Init PROVE Written
  OBVIOUS
<1>1. \A c \in Conn : sent[c] = <<>> /\ pc[c] = "free" /\ name[c] = None
  BY DEF Init
<1> QED BY <1>1, TtpAssumption
        DEF Written, Unwritten, Notified, Notifying, Greeted, ServiceCount, ServiceOrder, Names

LEMMA WrittenNext == Inductive /\ Written /\ [Next]_vars => Written'
BY UnwrittenNext, NotifiedNext, GreetedNext, ServiceCountNext, ServiceOrderNext DEF Written

-----------------------------------------------------------------------------

\* Up to the first error a peer finds what its handshake expects and where it
\* expects it: a service InitiateAuthOk, ServerAuthOk and its key, a requester
\* InitiateAuthOk before whatever other threads write to it.
THEOREM PeersInOrder == Spec => []PeerOrder
<1>1. Init => Inductive /\ Written
  BY InductiveInit, WrittenInit
<1>2. Inductive /\ Written /\ [Next]_vars => Inductive' /\ Written'
  BY InductiveNext, WrittenNext
<1>3. Inductive /\ Written => PeerOrder
  <2> SUFFICES ASSUME Inductive, Written, NEW c \in Conn, NEW i \in DOMAIN sent[c],
                      \A j \in 1..i : sent[c][j] # Error
               PROVE  /\ name[c] \in Names => (i = 1) = (sent[c][i].type = "InitiateAuthOk")
                      /\ name[c] \in Services => (i = 2) = (sent[c][i] = Msg("ServerAuthOk"))
                      /\ name[c] \in Services => (i = 3) = (sent[c][i].type = "UserAuthOk")
    BY DEF PeerOrder
  <2> QED BY DEF Written, Greeted, ServiceOrder
<1> QED BY <1>1, <1>2, <1>3, PTL DEF Spec
(***************************************************************************)
(* The readers: what the two programs find on their connections            *)
(***************************************************************************)

\* The two programs do not register here, and so a connection without a name is
\* told of errors only.
NoRegistration ==
  \A c \in Conn : \A i \in DOMAIN inbox[c] : inbox[c][i].type # "CertificateRequest"

StrangerTold ==
  \A c \in Conn : name[c] = None => \A i \in DOMAIN sent[c] : sent[c][i] = Error

\* Where a server's thread is tells how much it has read.
ServerRead ==
  \A l \in Links :
    /\ spc[l] \in {"free", "expectRequest", "connectTo", "initiateAuthentication",
                   "expectInitiateAuthOk"} => read[l] = 0
    /\ spc[l] = "waitServerAuthOk" => read[l] = 1 /\ sent[l][1] # Error
    /\ spc[l] = "receiveSessionKey" =>
         read[l] = 2 /\ sent[l][1] # Error /\ sent[l][2] # Error

ClientRead ==
  \A k \in Users :
    cpc[k] \in {"initiateAuthentication", "expectInitiateAuthOk"} => read[ttp[k]] = 0

Placed == NoRegistration /\ StrangerTold /\ ServerRead /\ ClientRead

\* What a step does to the packets a thread of the TTP has to read
LEMMA InboxSteps ==
  ASSUME Typed, TtpHeld, [HandshakeNext]_allVars, NEW d \in Conn
  PROVE  \/ inbox'[d] = inbox[d]
         \/ inbox[d] # <<>> /\ inbox'[d] = Tail(inbox[d])
         \/ \E p : /\ p.type # "CertificateRequest"
                  /\ inbox'[d] = Append(inbox[d], p)
<1> USE HandshakeAssumption DEF Typed, TypeOK
<1>s. ASSUME NEW c \in Conn, NEW p, SendTtp(c, p), p.type # "CertificateRequest"
      PROVE  \/ inbox'[d] = inbox[d]
             \/ inbox'[d] = Append(inbox[d], p)
  BY <1>s, SendFrame
<1>m. /\ \A x : InitiateAuth(x).type # "CertificateRequest"
      /\ \A x : UserAuthDataSubmit(x).type # "CertificateRequest"
      /\ \A x, y : ServerAuthRequest(x, y).type # "CertificateRequest"
  BY DEF InitiateAuth, UserAuthDataSubmit, ServerAuthRequest, Msg
<1>1. ASSUME NEW k \in Users, Client(k)
      PROVE  \/ inbox'[d] = inbox[d]
             \/ \E p : /\ p.type # "CertificateRequest"
                      /\ inbox'[d] = Append(inbox[d], p)
  <2>1. cpc[k] \notin {"ui", "exited"} => ttp[k] \in Conn
    BY DEF TtpHeld, Attempts
  <2>2. CASE InitiateAuthentication(k)
    BY <1>s, <1>m, <2>1, <2>2 DEF InitiateAuthentication
  <2>3. CASE SubmitUserAuthData(k)
    BY <1>s, <1>m, <2>1, <2>3 DEF SubmitUserAuthData
  <2>4. CASE ReceiveSessionKey(k) \/ ClientFails(k)
    BY <2>4, CloseFrame DEF ReceiveSessionKey, ClientFails
  <2>5. CASE SendServiceRequest(k) \/ ReceiveTicket(k)
    BY <2>5 DEF SendServiceRequest, ReceiveTicket, vars
  <2> QED BY <1>1, <2>2, <2>3, <2>4, <2>5
          DEF Client, ClientRefuses, ServiceRequestFails, LinkWakesClient
<1>2. ASSUME NEW l \in Links, Server(l)
      PROVE  \/ inbox'[d] = inbox[d]
             \/ \E p : /\ p.type # "CertificateRequest"
                      /\ inbox'[d] = Append(inbox[d], p)
  <2>1. CASE ServerInitiates(l)
    BY <1>s, <1>m, <2>1 DEF ServerInitiates
  <2>2. CASE SendServerAuthRequest(l)
    BY <1>s, <1>m, <2>2 DEF SendServerAuthRequest
  <2>3. CASE ConnectTtp(l)
    BY <2>3 DEF ConnectTtp, Accept, wire
  <2>4. CASE ServerReturns(l)
    BY <2>4, CloseFrame DEF ServerReturns
  <2>5. CASE UNCHANGED vars
    BY <2>5 DEF vars
  <2> QED BY <1>2, <2>1, <2>2, <2>3, <2>4, <2>5
          DEF Server, ReceiveServiceRequest, ReceiveServerAuthOk, StartSession, ServerFails, SkipPacket
<1>3. ASSUME NEW c \in Conn, Thread(c)
      PROVE  \/ inbox'[d] = inbox[d]
             \/ inbox[d] # <<>> /\ inbox'[d] = Tail(inbox[d])
  BY <1>3, ThreadFrame
<1>4. ASSUME NEW k \in Users, NEW c \in Attempts, RequestService(k, c) PROVE inbox' = inbox
  BY <1>4 DEF RequestService, Accept, wire
<1>5. CASE Crash
  BY <1>5 DEF Crash, wire
<1>6. CASE UNCHANGED vars
  BY <1>6 DEF vars
<1> QED BY <1>1, <1>2, <1>3, <1>4, <1>5, <1>6
        DEF HandshakeNext, Unattended, allVars, Connect, Exit, LinkBreaks

LEMMA NoRegistrationNext ==
  Typed /\ TtpHeld /\ NoRegistration /\ [HandshakeNext]_allVars => NoRegistration'
<1> SUFFICES ASSUME Typed, TtpHeld, NoRegistration, [HandshakeNext]_allVars,
                    NEW d \in Conn, NEW i \in DOMAIN inbox'[d]
             PROVE  inbox'[d][i].type # "CertificateRequest"
  BY DEF NoRegistration
<1>0. inbox[d] \in Seq(Packet) /\ \A j \in DOMAIN inbox[d] : inbox[d][j].type # "CertificateRequest"
  BY DEF Typed, TypeOK, NoRegistration
<1>1. CASE inbox'[d] = inbox[d]
  BY <1>0, <1>1
<1>2. CASE inbox[d] # <<>> /\ inbox'[d] = Tail(inbox[d])
  <2>1. i + 1 \in DOMAIN inbox[d] /\ Tail(inbox[d])[i] = inbox[d][i + 1]
    BY <1>0, <1>2
  <2> QED BY <1>0, <1>2, <2>1
<1>3. ASSUME NEW p, p.type # "CertificateRequest", inbox'[d] = Append(inbox[d], p)
      PROVE  inbox'[d][i].type # "CertificateRequest"
  <2>1. \/ i \in DOMAIN inbox[d] /\ Append(inbox[d], p)[i] = inbox[d][i]
        \/ Append(inbox[d], p)[i] = p
    BY <1>0, <1>3
  <2> QED BY <1>0, <1>3, <2>1
<1> QED BY <1>1, <1>2, <1>3, InboxSteps

LEMMA StrangerToldNext ==
  Inductive /\ Notified /\ NoRegistration /\ StrangerTold /\ [Next]_vars => StrangerTold'
<1> SUFFICES ASSUME Inductive, Notified, NoRegistration, StrangerTold, [Next]_vars,
                    NEW c \in Conn, name'[c] = None, NEW i \in DOMAIN sent'[c]
             PROVE  sent'[c][i] = Error
  BY DEF StrangerTold
<1>t. Typed /\ TypeOK /\ sent[c] \in Seq(Packet) /\ inbox[c] \in Seq(Packet)
  BY DEF Inductive, Typed, TypeOK
<1>1. name[c] = None /\ \A j \in DOMAIN sent[c] : sent[c][j] = Error
  BY <1>t, NextNames DEF StrangerTold
<1>2. ~WritesToUser(c) /\ ~WritesKey(c)
  BY <1>1, ServiceKeySent, TtpAssumption DEF WritesToUser, WritesKey
<1>3. ~InitiateAuthAccepted(c)
  BY <1>t, TtpAssumption DEF InitiateAuthAccepted, TypeOK, Names
<1>4. ~ServiceAuthenticated(c)
  BY <1>t, <1>1, TtpAssumption DEF ServiceAuthenticated, Typed, ThreadKnows, ServiceSteps
<1>5. ~ReceiveCertificateRequest(c)
  <2>1. Msg("CertificateRequest").type = "CertificateRequest"
    BY DEF Msg
  <2>2. inbox[c] # <<>> => 1 \in DOMAIN inbox[c] /\ Head(inbox[c]) = inbox[c][1]
    BY <1>t
  <2> QED BY <2>1, <2>2 DEF ReceiveCertificateRequest, Receives, NoRegistration
<1>6. CASE WritesErrors(c)
  <2>1. Error \in Packet /\ Append(sent[c], Error) \in Seq(Packet)
    BY <1>t, PacketTypes
  <2>2. \A j \in DOMAIN Append(sent[c], Error) : Append(sent[c], Error)[j] = Error
    BY <1>t, <1>1, <2>1, AppendFacts
  <2>3. \A j \in DOMAIN Append(Append(sent[c], Error), Error) :
          Append(Append(sent[c], Error), Error)[j] = Error
    BY <2>1, <2>2, AppendFacts
  <2> QED BY <1>6, <2>2, <2>3 DEF WritesErrors
<1>7. CASE sent'[c] = sent[c]
  BY <1>1, <1>7
<1> QED BY <1>2, <1>3, <1>4, <1>5, <1>6, <1>7, StepWrites DEF Writes
\* A program reads on its own connection only.
LEMMA ClientReads ==
  ASSUME TtpHeld, ProgramTypes, NEW k \in Users, Client(k)
  PROVE  /\ \A c \in Conn : c # ttp[k] => read'[c] = read[c]
         /\ \A l \in Links : read'[l] = read[l]
         /\ \A n \in Users \ {k} : cpc'[n] = cpc[n] /\ ttp'[n] = ttp[n]
         /\ cpc'[k] \in {"initiateAuthentication", "expectInitiateAuthOk"} =>
              UNCHANGED <<read, ttp>> /\ cpc[k] = "initiateAuthentication"
<1> USE DEF ClientGoto, Reads, ProgramTypes, TtpHeld
<1>1. CASE InitiateAuthentication(k)
  BY <1>1, HandshakeAssumption DEF InitiateAuthentication
<1>2. CASE SendServiceRequest(k) \/ ReceiveTicket(k) \/ SubmitUserAuthData(k) \/ ReceiveSessionKey(k)
  <2>1. /\ \E p : Reads(ttp[k], p)
        /\ cpc'[k] \notin {"initiateAuthentication", "expectInitiateAuthOk"}
        /\ \A n \in Users \ {k} : cpc'[n] = cpc[n] /\ ttp'[n] = ttp[n]
        /\ cpc[k] \notin {"ui", "exited"}
    BY <1>2 DEF SendServiceRequest, ReceiveTicket, SubmitUserAuthData, ReceiveSessionKey
  <2>2. ttp[k] \in Conn /\ ttp[k] \notin Links
    BY <2>1 DEF Attempts
  <2> QED BY <2>1, <2>2, HandshakeAssumption
<1>3. CASE ClientFails(k)
  BY <1>3, HandshakeAssumption DEF ClientFails
<1> QED BY <1>1, <1>2, <1>3 DEF Client, ClientRefuses, ServiceRequestFails, LinkWakesClient

LEMMA ServerReads ==
  ASSUME ProgramTypes, NEW l \in Links, Server(l)
  PROVE  /\ UNCHANGED clients
         /\ \A c \in Conn : c # l => read'[c] = read[c]
         /\ \A m \in Links : m # l => spc'[m] = spc[m]
<1> USE HandshakeAssumption DEF ProgramTypes, ServerGoto, servers, Reads
<1>1. CASE ReceiveServiceRequest(l) \/ ConnectTtp(l) \/ ServerInitiates(l)
  BY <1>1 DEF ReceiveServiceRequest, ConnectTtp, ServerInitiates
<1>2. CASE SendServerAuthRequest(l) \/ ReceiveServerAuthOk(l) \/ StartSession(l)
  BY <1>2 DEF SendServerAuthRequest, ReceiveServerAuthOk, StartSession
<1>3. CASE ServerFails(l) \/ SkipPacket(l) \/ ServerReturns(l)
  BY <1>3 DEF ServerFails, SkipPacket, ServerReturns
<1> QED BY <1>1, <1>2, <1>3, ServerFrame DEF Server

LEMMA ClientReadNext ==
  HandshakeInductive /\ Unwritten /\ ClientRead /\ [HandshakeNext]_allVars => ClientRead'
<1> SUFFICES ASSUME HandshakeInductive, Unwritten, ClientRead, [HandshakeNext]_allVars
             PROVE  ClientRead'
  OBVIOUS
<1>a. Known /\ TtpHeld /\ Owned /\ ProgramTypes /\ ReadBehind
  BY DEF HandshakeInductive, Known
<1>b. \A n \in Users : cpc[n] \notin {"ui", "exited"} =>
        ttp[n] \in Conn /\ ttp[n] \notin Links /\ ttp[n] # None
  BY <1>a, TtpAssumption DEF TtpHeld, Attempts
<1>1. ASSUME NEW k \in Users, NEW c \in Attempts, RequestService(k, c) PROVE ClientRead'
  <2>1. /\ pc[c] = "free" /\ c \in Conn /\ UNCHANGED read
        /\ ttp' = [ttp EXCEPT ![k] = c]
        /\ cpc' = [cpc EXCEPT ![k] = "initiateAuthentication"]
    BY <1>1 DEF RequestService, Accept, ClientGoto, Attempts
  <2>2. read[c] = 0
    <3>1. sent[c] = <<>> /\ read[c] <= Len(sent[c]) /\ read[c] \in Nat
      BY <1>a, <2>1 DEF Unwritten, Unseen, ReadBehind, ProgramTypes
    <3> QED BY <3>1
  <2> QED BY <1>a, <2>1, <2>2 DEF ClientRead, TtpHeld
<1>2. ASSUME NEW k \in Users, Client(k) PROVE ClientRead'
  <2> SUFFICES ASSUME NEW n \in Users,
                      cpc'[n] \in {"initiateAuthentication", "expectInitiateAuthOk"}
               PROVE  read'[ttp'[n]] = 0
    BY DEF ClientRead
  <2>1. CASE n = k
    BY <1>a, <1>2, <2>1, ClientReads DEF ClientRead
  <2>2. CASE n # k
    <3>1. cpc'[n] = cpc[n] /\ ttp'[n] = ttp[n]
      BY <1>a, <1>2, <2>2, ClientReads
    <3>2. read[ttp[n]] = 0 /\ ttp[n] \in Conn /\ ttp[n] # None
      BY <1>b, <3>1 DEF ClientRead
    <3>3. ttp[n] # ttp[k]
      BY <1>a, <2>2, <3>2 DEF Owned
    <3> QED BY <1>a, <1>2, <3>1, <3>2, <3>3, ClientReads
  <2> QED BY <2>1, <2>2
<1>3. ASSUME NEW l \in Links, Server(l) PROVE ClientRead'
  <2>1. UNCHANGED <<cpc, ttp>> /\ \A c \in Conn : c # l => read'[c] = read[c]
    BY <1>a, <1>3, ServerReads DEF clients
  <2> QED BY <1>b, <2>1 DEF ClientRead
<1>4. ASSUME NEW k \in Users, Exit(k) PROVE ClientRead'
  BY <1>a, <1>4 DEF Exit, ClientGoto, ClientRead, TtpHeld
<1>5. CASE UNCHANGED <<cpc, ttp, read>>
  BY <1>5 DEF ClientRead
<1> QED BY <1>1, <1>2, <1>3, <1>4, <1>5
        DEF HandshakeNext, Unattended, allVars, programs, clients, Connect, LinkBreaks

ReadNothing == {"free", "expectRequest", "connectTo", "initiateAuthentication",
                "expectInitiateAuthOk"}

LEMMA ServerReadNext ==
  HandshakeInductive /\ ServerRead /\ [HandshakeNext]_allVars => ServerRead'
<1> SUFFICES ASSUME HandshakeInductive, ServerRead, [HandshakeNext]_allVars,
                    NEW l \in Links
             PROVE  /\ spc'[l] \in ReadNothing => read'[l] = 0
                    /\ spc'[l] = "waitServerAuthOk" => read'[l] = 1 /\ sent'[l][1] # Error
                    /\ spc'[l] = "receiveSessionKey" =>
                         read'[l] = 2 /\ sent'[l][1] # Error /\ sent'[l][2] # Error
  BY DEF ServerRead, ReadNothing
<1>a. Known /\ TtpHeld /\ Typed /\ ProgramTypes /\ ReadBehind /\ l \in Conn
  BY HandshakeAssumption DEF HandshakeInductive, Known
<1>b. \A i \in 1..read[l] : sent'[l][i] = sent[l][i]
  <2>1. Grown
    BY <1>a, ProgramStep, NextGrows DEF Known
  <2>2. read[l] <= Len(sent[l]) /\ read[l] \in Nat /\ sent[l] \in Seq(Packet)
    BY <1>a DEF ReadBehind, ProgramTypes, Typed, TypeOK
  <2>3. \A i \in 1..read[l] : i \in DOMAIN sent[l]
    BY <2>2
  <2> QED BY <1>a, <2>1, <2>3 DEF Grown
<1>o. /\ spc[l] \in ReadNothing => read[l] = 0
      /\ spc[l] = "waitServerAuthOk" => read[l] = 1 /\ sent[l][1] # Error
      /\ spc[l] = "receiveSessionKey" => read[l] = 2 /\ sent[l][1] # Error /\ sent[l][2] # Error
  BY DEF ServerRead, ReadNothing
<1> DEFINE G == /\ spc'[l] \in ReadNothing => read'[l] = 0
                /\ spc'[l] = "waitServerAuthOk" => read'[l] = 1 /\ sent'[l][1] # Error
                /\ spc'[l] = "receiveSessionKey" =>
                     read'[l] = 2 /\ sent'[l][1] # Error /\ sent'[l][2] # Error
<1>s. ASSUME read'[l] = read[l],
             \/ spc'[l] = spc[l]
             \/ spc[l] \in ReadNothing /\ spc'[l] \in ReadNothing
             \/ spc'[l] \in {"session", "return", "closed"}
      PROVE  G
  <2>1. CASE spc'[l] = spc[l]
    BY <1>b, <1>o, <1>s, <2>1
  <2>2. CASE spc[l] \in ReadNothing /\ spc'[l] \in ReadNothing
    BY <1>o, <1>s, <2>2 DEF ReadNothing
  <2>3. CASE spc'[l] \in {"session", "return", "closed"}
    BY <2>3 DEF ReadNothing
  <2> QED BY <1>s, <2>1, <2>2, <2>3
<1> HIDE DEF G
<1>1. ASSUME NEW k \in Users, NEW m \in Links, Connect(k, m) PROVE G
  <2>1. read' = read /\ spc[m] = "free" /\ spc' = [spc EXCEPT ![m] = "expectRequest"]
    BY <1>1 DEF Connect
  <2>2. spc'[l] = spc[l] \/ (spc[l] \in ReadNothing /\ spc'[l] \in ReadNothing)
    BY <1>a, <2>1 DEF ProgramTypes, ReadNothing
  <2> QED BY <1>s, <2>1, <2>2
<1>2. ASSUME NEW k \in Users, Client(k) PROVE G
  BY <1>2, <1>a, <1>s, ClientReads, ClientFrame
<1>3. ASSUME NEW m \in Links, Server(m), m # l PROVE G
  <2>1. spc'[l] = spc[l] /\ read'[l] = read[l]
    BY <1>a, <1>3, ServerReads DEF ProgramTypes
  <2> QED BY <1>s, <2>1
<1>4. ASSUME Server(l) PROVE G
  <2> USE <1>a DEF ServerGoto, ProgramTypes
  <2>1. CASE SendServerAuthRequest(l)
    <3>1. /\ Reads(l, Msg("InitiateAuthOk")) /\ spc[l] = "expectInitiateAuthOk"
          /\ spc'[l] = "waitServerAuthOk"
      BY <2>1 DEF SendServerAuthRequest
    <3>2. read[l] = 0 /\ read'[l] = 1 /\ sent[l][1] = Msg("InitiateAuthOk")
      BY <1>o, <3>1 DEF Reads, ReadNothing
    <3>3. sent' = sent
      BY <2>1, SendFrame DEF SendServerAuthRequest
    <3>4. Msg("InitiateAuthOk") # Error
      BY DEF Error, Msg
    <3> QED BY <3>1, <3>2, <3>3, <3>4 DEF G, ReadNothing
  <2>2. CASE ReceiveServerAuthOk(l)
    <3>1. /\ Reads(l, Msg("ServerAuthOk")) /\ spc[l] = "waitServerAuthOk"
          /\ spc'[l] = "receiveSessionKey" /\ sent' = sent
      BY <2>2 DEF ReceiveServerAuthOk, vars
    <3>2. read[l] = 1 /\ read'[l] = 2 /\ sent[l][2] = Msg("ServerAuthOk") /\ sent[l][1] # Error
      BY <1>o, <3>1 DEF Reads
    <3>4. Msg("ServerAuthOk") # Error
      BY DEF Error, Msg
    <3> QED BY <3>1, <3>2, <3>4 DEF G, ReadNothing
  <2>3. CASE StartSession(l)
    <3>1. spc'[l] = "session"
      BY <2>3 DEF StartSession
    <3> QED BY <3>1 DEF G, ReadNothing
  <2>4. CASE ReceiveServiceRequest(l) \/ ConnectTtp(l) \/ ServerInitiates(l)
    BY <1>s, <2>4 DEF ReceiveServiceRequest, ConnectTtp, ServerInitiates, ReadNothing
  <2>5. CASE ServerFails(l) \/ ServerReturns(l)
    BY <1>s, <2>5 DEF ServerFails, ServerReturns
  <2>6. CASE SkipPacket(l)
    BY <1>s, <2>6 DEF SkipPacket, servers
  <2> QED BY <1>4, <2>1, <2>2, <2>3, <2>4, <2>5, <2>6 DEF Server
<1>5. ASSUME UNCHANGED <<spc, read>> PROVE G
  BY <1>s, <1>5
<1>6. G
  BY <1>1, <1>2, <1>3, <1>4, <1>5
        DEF HandshakeNext, Unattended, allVars, programs, servers, RequestService, Exit,
            LinkBreaks
<1> QED BY <1>6 DEF G

LEMMA PlacedInit == HandshakeInit => Placed
<1> SUFFICES ASSUME HandshakeInit PROVE Placed
  OBVIOUS
<1>1. DOMAIN <<>> = {}
  OBVIOUS
<1>2. NoRegistration /\ StrangerTold
  BY <1>1 DEF HandshakeInit, Init, NoRegistration, StrangerTold
<1>3. ServerRead /\ ClientRead
  BY HandshakeAssumption DEF HandshakeInit, ServerRead, ClientRead
<1> QED BY <1>2, <1>3 DEF Placed

\* What the next packet is, for a reader that has read a given number of them
LEMMA NextInOrder ==
  ASSUME Inductive, Written, StrangerTold, NEW c \in Conn, NEW i \in DOMAIN sent[c],
         sent[c][i] # Error
  PROVE  /\ name[c] \in Names
         /\ i = 1 => sent[c][i].type = "InitiateAuthOk"
         /\ name[c] \in Services /\ i = 2 /\ sent[c][1] # Error
              => sent[c][i].type = "ServerAuthOk"
         /\ name[c] \in Services /\ i = 3 /\ sent[c][1] # Error /\ sent[c][2] # Error
              => sent[c][i].type = "UserAuthOk"
<1>1. name[c] \in Names
  BY DEF StrangerTold, Inductive, Typed, TypeOK
<1>2. i = 1 => sent[c][i].type = "InitiateAuthOk"
  BY <1>1 DEF Written, Greeted
<1>3. ASSUME name[c] \in Services, i \in {2, 3}, \A j \in 1..i : sent[c][j] # Error
      PROVE  /\ i = 2 => sent[c][i] = Msg("ServerAuthOk")
             /\ i = 3 => sent[c][i].type = "UserAuthOk"
  BY <1>3 DEF Written, ServiceOrder
<1>4. Msg("ServerAuthOk").type = "ServerAuthOk"
  BY DEF Msg
<1>5. /\ i = 2 /\ sent[c][1] # Error => \A j \in 1..i : sent[c][j] # Error
      /\ i = 3 /\ sent[c][1] # Error /\ sent[c][2] # Error => \A j \in 1..i : sent[c][j] # Error
  OBVIOUS
<1> QED BY <1>1, <1>2, <1>3, <1>4, <1>5

-----------------------------------------------------------------------------

\* The same order, seen by the programs: none of the three waits of a server's
\* handshake, nor the first one of a client's, ever meets a packet that belongs
\* to another wait, whichever threads of the TTP write to the connection.
THEOREM ProgramsReadInOrder == HandshakeSpec => []ReadsInOrder
<1>1. HandshakeInit => Written /\ Placed
  BY WrittenInit, PlacedInit DEF HandshakeInit
<1>2. HandshakeInductive /\ Written /\ Placed /\ [HandshakeNext]_allVars => Written' /\ Placed'
  <2> SUFFICES ASSUME HandshakeInductive, Written, Placed, [HandshakeNext]_allVars
               PROVE  Written' /\ Placed'
    OBVIOUS
  <2>1. [Next]_vars /\ Inductive /\ Typed /\ TtpHeld
    BY ProgramStep DEF HandshakeInductive, Known
  <2>2. NoRegistration' /\ StrangerTold'
    BY <2>1, NoRegistrationNext, StrangerToldNext DEF Placed, Written
  <2>3. ServerRead' /\ ClientRead'
    BY ServerReadNext, ClientReadNext DEF Placed, Written
  <2> QED BY <2>1, <2>2, <2>3, WrittenNext DEF Placed
<1>3. HandshakeInductive /\ Written /\ Placed => ReadsInOrder
  <2> SUFFICES ASSUME HandshakeInductive, Written, Placed PROVE ReadsInOrder
    OBVIOUS
  <2>a. Inductive /\ Known /\ ProgramTypes /\ TypeOK /\ StrangerTold
    BY DEF HandshakeInductive, Known, Typed, Placed
  <2>e. Error.type = "ErrorMessage"
    BY DEF Error, Msg
  <2>n. ASSUME NEW c \in Conn, read[c] < Len(sent[c])
        PROVE  read[c] + 1 \in DOMAIN sent[c] /\ NextPacket(c) = sent[c][read[c] + 1]
    BY <2>a, <2>n DEF ProgramTypes, TypeOK, NextPacket
  <2>1. ASSUME NEW l \in Links, ServerWaits(l), read[l] < Len(sent[l])
        PROVE  NextPacket(l).type \in {Expected(spc[l]), "ErrorMessage"}
    <3>1. l \in Conn /\ read[l] + 1 \in DOMAIN sent[l] /\ NextPacket(l) = sent[l][read[l] + 1]
      BY <2>1, <2>n, HandshakeAssumption
    <3>2. name[l] \in Names => name[l] \in Services
      BY <2>a, HandshakeAssumption, TtpAssumption DEF Known, Introduced, Introduces, Names
    <3>3. CASE sent[l][read[l] + 1] = Error
      BY <2>e, <3>1, <3>3
    <3>4. CASE sent[l][read[l] + 1] # Error /\ spc[l] = "expectInitiateAuthOk"
      <4>1. read[l] + 1 = 1
        BY <3>4 DEF Placed, ServerRead
      <4> QED BY <2>a, <3>1, <3>4, <4>1, NextInOrder DEF Expected
    <3>5. CASE sent[l][read[l] + 1] # Error /\ spc[l] = "waitServerAuthOk"
      <4>1. read[l] + 1 = 2 /\ sent[l][1] # Error
        BY <3>5 DEF Placed, ServerRead
      <4> QED BY <2>a, <3>1, <3>2, <3>5, <4>1, NextInOrder DEF Expected
    <3>6. CASE sent[l][read[l] + 1] # Error /\ spc[l] = "receiveSessionKey"
      <4>1. read[l] + 1 = 3 /\ sent[l][1] # Error /\ sent[l][2] # Error
        BY <3>6 DEF Placed, ServerRead
      <4> QED BY <2>a, <3>1, <3>2, <3>6, <4>1, NextInOrder DEF Expected
    <3> QED BY <2>1, <3>3, <3>4, <3>5, <3>6 DEF ServerWaits
  <2>2. ASSUME NEW k \in Users, cpc[k] = "expectInitiateAuthOk",
               read[ttp[k]] < Len(sent[ttp[k]])
        PROVE  NextPacket(ttp[k]).type \in {"InitiateAuthOk", "ErrorMessage"}
    <3>1. ttp[k] \in Conn
      BY <2>a, <2>2 DEF Known, TtpHeld, Attempts
    <3>2. read[ttp[k]] + 1 = 1
      BY <2>2 DEF Placed, ClientRead
    <3>3. 1 \in DOMAIN sent[ttp[k]] /\ NextPacket(ttp[k]) = sent[ttp[k]][1]
      BY <2>2, <2>n, <3>1, <3>2
    <3> QED BY <2>a, <2>e, <3>1, <3>3, NextInOrder
  <2> QED BY <2>1, <2>2 DEF ReadsInOrder
<1> QED BY <1>1, <1>2, <1>3, HandshakeInvariance, PTL DEF HandshakeSpec

(***************************************************************************)
(* The link: what the data exchange finds there                            *)
(***************************************************************************)

MayGetKey == {"waitServerAuthOk", "waitRedirect", "receiveSessionKey"}

\* A handshake runs over a link.
Linked == \A k \in Users : cpc[k] \notin {"ui", "exited"} => link[k] # None

\* The thread behind it has read the request, or has it to read, or will read
\* that the link broke.
RequestSeen ==
  \A k \in Users : cpc[k] \in MayGetKey =>
    (spc[link[k]] = "expectRequest" => toServer[link[k]] # <<>> \/ link[k] \in broken)

\* The handshake writes nothing to a link but the error it ends with.
LinkQuiet ==
  /\ toClient \in [Links -> {<<>>, <<"ErrorMessage">>}]
  /\ \A l \in Links : toClient[l] # <<>> => spc[l] \in {"return", "closed"}

LEMMA LinkedNext == TtpHeld /\ Linked /\ [HandshakeNext]_allVars => Linked'
<1> SUFFICES ASSUME TtpHeld, Linked, [HandshakeNext]_allVars PROVE Linked'
  OBVIOUS
<1> USE DEF TtpHeld, Linked
<1>1. ASSUME NEW k \in Users, NEW l \in Links, Connect(k, l) PROVE Linked'
  BY <1>1, HandshakeAssumption, TtpAssumption DEF Connect
<1>2. ASSUME NEW k \in Users, NEW c \in Attempts, RequestService(k, c) PROVE Linked'
  BY <1>2 DEF RequestService, ClientGoto, Healthy
<1>3. ASSUME NEW k \in Users, Exit(k) PROVE Linked'
  BY <1>3 DEF Exit, ClientGoto
<1>4. ASSUME NEW k \in Users, Client(k) PROVE Linked'
  <2>1. UNCHANGED link
    BY <1>4, ClientFrame
  <2>2. cpc[k] \notin {"ui", "exited"} /\ \A n \in Users \ {k} : cpc'[n] = cpc[n]
    BY <1>4 DEF Client, InitiateAuthentication, SendServiceRequest, ReceiveTicket,
         SubmitUserAuthData, ReceiveSessionKey, ClientRefuses, ServiceRequestFails,
         LinkWakesClient, ClientFails, ClientWaits, ClientGoto
  <2> QED BY <2>1, <2>2
<1>5. ASSUME NEW l \in Links, Server(l) PROVE Linked'
  BY <1>5, ServerFrame DEF clients
<1>6. CASE UNCHANGED <<cpc, link>>
  BY <1>6
<1> QED BY <1>1, <1>2, <1>3, <1>4, <1>5, <1>6
        DEF HandshakeNext, Unattended, allVars, programs, clients, LinkBreaks

\* What may be left of a queue of one packet
LEMMA OnePacket ==
  ASSUME NEW x
  PROVE  SubSeq(<<x>>, 1, 0) = <<>> /\ SubSeq(<<x>>, 1, 1) = <<x>>
<1>1. <<x>> \in Seq({x}) /\ Len(<<x>>) = 1
  OBVIOUS
<1>2. SubSeq(<<x>>, 1, 0) = <<>>
  BY SubSeqEmpty
<1>3. SubSeq(<<x>>, 1, Len(<<x>>)) = <<x>>
  BY <1>1, SubSeqFull
<1> QED BY <1>1, <1>2, <1>3

LEMMA AppendFull ==
  ASSUME NEW S, NEW q \in Seq(S), NEW x \in S
  PROVE  Append(q, x) # <<>>
  BY AppendProperties

\* The client that sends a request puts it on its link, unless that is down; no
\* other step but the thread's own takes it away again.
LEMMA RequestSeenNext ==
  ASSUME ProgramTypes, TtpHeld, LinksOwned, Linked, RequestSeen, [HandshakeNext]_allVars
  PROVE  RequestSeen'
<1> USE DEF TtpHeld, ProgramTypes, MayGetKey
<1>t. \A k \in Users : cpc[k] \in MayGetKey => link[k] \in Links
  BY DEF Linked
<1>a. \A l \in Links, k \in Users : Append(toServer[l], cert[k]) # <<>>
  <2> SUFFICES ASSUME NEW l \in Links, NEW k \in Users
               PROVE  Append(toServer[l], cert[k]) # <<>>
    OBVIOUS
  <2>1. toServer[l] \in Seq(Users \cup {Forged, None}) /\ cert[k] \in Users \cup {Forged, None}
    OBVIOUS
  <2> QED BY <2>1, AppendFull
<1>1. ASSUME NEW k \in Users, NEW l \in Links, Connect(k, l) PROVE RequestSeen'
  <2>1. /\ cpc[k] = "ui" /\ spc[l] = "free" /\ UNCHANGED <<cpc, toServer, broken>>
        /\ link' = [link EXCEPT ![k] = l]
        /\ spc' = [spc EXCEPT ![l] = "expectRequest"]
    BY <1>1 DEF Connect, links
  <2>2. ASSUME NEW n \in Users, cpc[n] \in MayGetKey
        PROVE  link'[n] = link[n] /\ spc'[link[n]] = spc[link[n]]
    BY <1>t, <2>1, <2>2, HandshakeAssumption, TtpAssumption DEF LinksOwned, Linked
  <2> QED BY <2>1, <2>2 DEF RequestSeen
<1>2. ASSUME NEW k \in Users, Client(k) PROVE RequestSeen'
  <2>1. UNCHANGED <<link, spc, broken>>
    BY <1>2, ClientFrame
  <2>2. \A l \in Links : toServer'[l] = toServer[l] \/ toServer'[l] # <<>>
    <3>1. \/ toServer' = toServer
          \/ toServer' = [toServer EXCEPT ![link[k]] = Append(@, cert[k])]
      BY <1>2, ClientFrame
    <3>2. \A l \in Links : toServer'[l] \in {toServer[l], Append(toServer[l], cert[k])}
      BY <3>1
    <3> QED BY <1>a, <3>2
  <2>3. \A n \in Users \ {k} : cpc'[n] = cpc[n]
    BY <1>2 DEF Client, InitiateAuthentication, SendServiceRequest, ReceiveTicket,
         SubmitUserAuthData, ReceiveSessionKey, ClientRefuses, ServiceRequestFails,
         LinkWakesClient, ClientFails, ClientWaits, ClientGoto
  <2>4. cpc'[k] \in MayGetKey =>
          cpc[k] \in MayGetKey \/ SendServiceRequest(k)
    BY <1>2 DEF Client, InitiateAuthentication, ReceiveTicket,
         SubmitUserAuthData, ReceiveSessionKey, ClientRefuses, ServiceRequestFails,
         LinkWakesClient, ClientFails, ClientWaits, ClientGoto
  <2>5. ASSUME SendServiceRequest(k), spc[link[k]] = "expectRequest"
        PROVE  toServer'[link[k]] # <<>> \/ link[k] \in broken
    <3> SUFFICES ASSUME link[k] \notin broken PROVE toServer'[link[k]] # <<>>
      OBVIOUS
    <3>1. link[k] \in Links /\ LinkOpen(link[k])
      BY <2>5 DEF Linked, SendServiceRequest, LinkOpen
    <3>2. toServer' = [toServer EXCEPT ![link[k]] = Append(@, cert[k])]
      BY <2>5, <3>1 DEF SendServiceRequest
    <3>3. toServer'[link[k]] = Append(toServer[link[k]], cert[k])
      BY <3>1, <3>2
    <3> QED BY <1>a, <3>1, <3>3
  <2>6. ASSUME NEW n \in Users, cpc'[n] \in MayGetKey,
               spc[link[n]] = "expectRequest"
        PROVE  toServer'[link[n]] # <<>> \/ link[n] \in broken
    <3>1. CASE cpc[n] \in MayGetKey
      BY <1>t, <2>2, <2>6, <3>1 DEF RequestSeen
    <3>2. CASE cpc[n] \notin MayGetKey
      BY <2>3, <2>4, <2>5, <2>6, <3>2
    <3> QED BY <3>1, <3>2
  <2> QED BY <2>1, <2>6 DEF RequestSeen
<1>3. ASSUME NEW l \in Links, Server(l) PROVE RequestSeen'
  <2>1. UNCHANGED <<cpc, link, broken>>
    BY <1>3, ServerFrame DEF clients
  <2>2. \A m \in Links : spc'[m] = "expectRequest" =>
          spc[m] = "expectRequest" /\ toServer'[m] = toServer[m]
    BY <1>3, ServerFrame
       DEF ReceiveServiceRequest, StartSession, SkipPacket, ServerGoto, servers
  <2> QED BY <1>t, <2>1, <2>2 DEF RequestSeen
<1>4. ASSUME NEW k \in Users, NEW c \in Attempts, RequestService(k, c) PROVE RequestSeen'
  BY <1>4 DEF RequestService, ClientGoto, servers, links, RequestSeen
<1>5. ASSUME NEW k \in Users, Exit(k) PROVE RequestSeen'
  BY <1>5 DEF Exit, ClientGoto, servers, links, RequestSeen
<1>6. CASE UNCHANGED <<cpc, link, spc, toServer, broken>>
  BY <1>6 DEF RequestSeen
<1>7. ASSUME NEW l \in Links, LinkBreaks(l) PROVE RequestSeen'
  <2>1. /\ UNCHANGED <<cpc, link, spc>> /\ broken' = broken \cup {l}
        /\ \A m \in Links \ {l} : toServer'[m] = toServer[m]
    BY <1>7 DEF LinkBreaks, clients, servers
  <2> QED BY <1>t, <2>1 DEF RequestSeen
<1> QED BY <1>1, <1>2, <1>3, <1>4, <1>5, <1>6, <1>7
        DEF HandshakeNext, Unattended, allVars, programs, clients, servers, links

LEMMA LinkQuietNext ==
  ProgramTypes /\ LinkQuiet /\ [HandshakeNext]_allVars => LinkQuiet'
<1> SUFFICES ASSUME ProgramTypes, LinkQuiet, [HandshakeNext]_allVars PROVE LinkQuiet'
  OBVIOUS
<1> USE DEF LinkQuiet, ProgramTypes
<1>q. /\ Append(<<>>, "ErrorMessage") = <<"ErrorMessage">> /\ <<"ErrorMessage">> # <<>>
      /\ Tail(<<"ErrorMessage">>) = <<>>
  OBVIOUS
<1>1. ASSUME NEW k \in Users, NEW l \in Links, Connect(k, l) PROVE LinkQuiet'
  BY <1>1 DEF Connect, links
<1>2. ASSUME NEW k \in Users, Client(k) PROVE LinkQuiet'
  <2>1. UNCHANGED spc
    BY <1>2, ClientFrame
  <2>2. \/ UNCHANGED toClient
        \/ toClient[link[k]] # <<>> /\ toClient' = [toClient EXCEPT ![link[k]] = Tail(@)]
    BY <1>2 DEF Client, InitiateAuthentication, SendServiceRequest, ReceiveTicket,
         SubmitUserAuthData, ReceiveSessionKey, ClientRefuses, ServiceRequestFails,
         LinkWakesClient, links
  <2>3. ASSUME NEW l \in Links PROVE toClient'[l] \in {toClient[l], <<>>}
    <3>1. CASE toClient[link[k]] # <<>> /\ toClient' = [toClient EXCEPT ![link[k]] = Tail(@)]
      <4>1. toClient'[l] = IF l = link[k] THEN Tail(toClient[l]) ELSE toClient[l]
        BY <3>1
      <4>2. l = link[k] => toClient[l] = <<"ErrorMessage">>
        BY <3>1
      <4> QED BY <1>q, <4>1, <4>2
    <3> QED BY <2>2, <3>1
  <2>4. toClient' \in [Links -> {<<>>, <<"ErrorMessage">>}]
    BY <2>2, <2>3
  <2> QED BY <2>1, <2>3, <2>4
<1>3. ASSUME NEW l \in Links, Server(l) PROVE LinkQuiet'
  <2>1. CASE ServerFails(l)
    <3>1. toClient[l] = <<>>
      BY <2>1 DEF ServerFails, ServerWaits
    <3>2. \/ toClient' = [toClient EXCEPT ![l] = <<"ErrorMessage">>]
          \/ toClient' = toClient
      BY <1>q, <2>1, <3>1 DEF ServerFails
    <3>3. spc' = [spc EXCEPT ![l] = "return"]
      BY <2>1 DEF ServerFails, ServerGoto
    <3> QED BY <3>2, <3>3
  <2>2. CASE ServerReturns(l)
    BY <2>2 DEF ServerReturns, ServerGoto, links
  <2>3. CASE ~ServerFails(l) /\ ~ServerReturns(l)
    <3>1. UNCHANGED toClient /\ spc[l] \notin {"return", "closed"}
      BY <1>3, <2>3 DEF Server, ReceiveServiceRequest, ConnectTtp, ServerInitiates,
           SendServerAuthRequest, ReceiveServerAuthOk, StartSession, SkipPacket, links
    <3>2. \A m \in Links \ {l} : spc'[m] = spc[m]
      BY <1>3, <2>3 DEF Server, ReceiveServiceRequest, ConnectTtp, ServerInitiates,
           SendServerAuthRequest, ReceiveServerAuthOk, StartSession, SkipPacket,
           servers, ServerGoto
    <3> QED BY <3>1, <3>2
  <2> QED BY <2>1, <2>2, <2>3
<1>4. CASE UNCHANGED <<spc, toClient>>
  BY <1>4
<1>5. ASSUME NEW l \in Links, LinkBreaks(l) PROVE LinkQuiet'
  <2>1. PICK n \in 0..Len(toClient[l]) : toClient' = [toClient EXCEPT ![l] = SubSeq(@, 1, n)]
    BY <1>5 DEF LinkBreaks
  <2>2. toClient[l] \in {<<>>, <<"ErrorMessage">>}
    OBVIOUS
  <2>3. SubSeq(toClient[l], 1, n) \in {<<>>, toClient[l]}
    <3>1. CASE toClient[l] = <<>>
      BY <2>1, <3>1
    <3>2. CASE toClient[l] = <<"ErrorMessage">>
      <4>1. n \in {0, 1}
        BY <2>1, <3>2
      <4> QED BY <3>2, <4>1, OnePacket
    <3> QED BY <2>2, <3>1, <3>2
  <2>4. spc' = spc
    BY <1>5 DEF LinkBreaks, servers
  <2>5. toClient' \in [Links -> {<<>>, <<"ErrorMessage">>}]
    BY <2>1, <2>2, <2>3
  <2>6. \A m \in Links : toClient'[m] \in {<<>>, toClient[m]}
    BY <2>1, <2>3
  <2> QED BY <2>4, <2>5, <2>6
<1> QED BY <1>1, <1>2, <1>3, <1>4, <1>5
        DEF HandshakeNext, Unattended, allVars, programs, servers, links,
            RequestService, Exit

\* While a client may still be given its key, the thread behind its link has the
\* request and nothing but its last error is on the link: so every data exchange
\* begins as DataSession says, for any number of attempts on any links.
THEOREM LinkIsReadyForData == HandshakeSpec => []ReadyForData
<1> DEFINE OnLink == LinksOwned /\ Linked /\ RequestSeen /\ LinkQuiet
<1>1. HandshakeInit => OnLink
  BY HandshakeAssumption, TtpAssumption
     DEF HandshakeInit, LinksOwned, Linked, RequestSeen, LinkQuiet, MayGetKey
<1>2. HandshakeInductive /\ OnLink /\ [HandshakeNext]_allVars => OnLink'
  <2> SUFFICES ASSUME HandshakeInductive, OnLink, [HandshakeNext]_allVars PROVE OnLink'
    OBVIOUS
  <2>1. ProgramTypes /\ TtpHeld
    BY DEF HandshakeInductive, Known
  <2> QED BY <2>1, LinksOwnedNext, LinkedNext, RequestSeenNext, LinkQuietNext
<1>3. HandshakeInductive /\ OnLink => ReadyForData
  BY DEF HandshakeInductive, ProgramTypes, Linked, RequestSeen, LinkQuiet, MayGetKey,
     ReadyForData
<1> HIDE DEF OnLink
<1> QED BY <1>1, <1>2, <1>3, HandshakeInvariance, PTL DEF HandshakeSpec
=============================================================================
