----------------------------- MODULE Ttp_proofs -----------------------------
(***************************************************************************)
(* What TLAPS proves about Ttp for every set of connections, users and     *)
(* services, any inbox bound and any packets the peers may send.           *)
(***************************************************************************)
EXTENDS TtpInvariant, TLAPS

LEMMA PacketTypes ==
  /\ PeerPackets \subseteq Packet
  /\ Error \in Packet
  /\ Msg("InitiateAuthOk") \in Packet
  /\ Msg("CertificateResponse") \in Packet
  /\ Msg("ServerAuthOk") \in Packet
  /\ Msg("UserAuthRedirect") \in Packet
  /\ \A k \in Conn : UserAuthOk(k) \in Packet
  /\ \A u \in Users, s \in Services : Ticket(u, s) \in Packet
<1> USE DEF Packet, Msg, FromPeer, FromTtp, Names
<1>1. Msg("CertificateRequest") \in Packet
  OBVIOUS
<1>2. \A cert \in Names \cup {Forged} : InitiateAuth(cert) \in Packet
  BY DEF InitiateAuth
<1>3. \A cert \in Users \cup {Forged} : UserAuthDataSubmit(cert) \in Packet
  BY DEF UserAuthDataSubmit
<1>4. \A u \in Users \cup {Forged}, s \in Services \cup {Forged} :
        ServerAuthRequest(u, s) \in Packet
  BY DEF ServerAuthRequest
<1>5. PeerPackets \subseteq Packet
  BY <1>1, <1>2, <1>3, <1>4 DEF PeerPackets
<1>6. QED
  BY <1>5 DEF Error, UserAuthOk, Ticket

LEMMA PostTyped ==
  ASSUME TypeOK, NEW c, NEW p \in Packet, Post(c, p)
  PROVE  sent' \in [Conn -> Seq(Packet)]
<1>1. CASE c \in Conn
  <2>1. Append(sent[c], p) \in Seq(Packet)
    BY <1>1 DEF TypeOK
  <2>2. QED
    BY <2>1 DEF TypeOK, Post
<1>2. CASE c \notin Conn
  BY <1>2 DEF TypeOK, Post
<1>3. QED
  BY <1>1, <1>2

LEMMA PostErrorsTyped ==
  ASSUME TypeOK, NEW cs, PostErrors(cs)
  PROVE  sent' \in [Conn -> Seq(Packet)]
<1>1. \A q \in Seq(Packet) : Append(q, Error) \in Seq(Packet)
  BY PacketTypes
<1>2. QED
  BY <1>1 DEF TypeOK, PostErrors

LEMMA TakeTyped ==
  ASSUME TypeOK, NEW c \in Conn, TakePacket(c), inbox[c] # <<>>
  PROVE  inbox' \in [Conn -> Seq(Packet)]
BY DEF TypeOK, TakePacket

LEMMA MapsTyped ==
  ASSUME NEW map \in [Names -> Conn \cup {None}], NEW n
  PROVE  /\ Erase(map, n) \in [Names -> Conn \cup {None}]
         /\ \A c \in Conn : Emplace(map, n, c) \in [Names -> Conn \cup {None}]
BY DEF Erase, Emplace

LEMMA DropClientTyped ==
  ASSUME TypeOK, NEW c \in Conn
  PROVE  [session EXCEPT ![c].client = None]
           \in [Conn -> [client : Conn \cup {None}, service : Conn \cup {None}]]
<1> DEFINE Pair == [client : Conn \cup {None}, service : Conn \cup {None}]
<1>1. session[c] \in Pair
  BY DEF TypeOK
<1>2. [session[c] EXCEPT !.client = None] \in Pair
  BY <1>1
<1> HIDE DEF Pair
<1>3. session \in [Conn -> Pair]
  BY DEF TypeOK, Pair
<1>4. [session EXCEPT ![c] = [session[c] EXCEPT !.client = None]] \in [Conn -> Pair]
  BY <1>2, <1>3
<1>5. QED
  BY <1>4 DEF Pair

LEMMA TypedInit == Init => Typed
BY TtpAssumption
   DEF Init, Typed, TypeOK, ThreadKnows, Steps, RequesterSteps, ServiceSteps,
       NoSession, Names, Asking, Pairing, Notifying

LEMMA TypedNext == Typed /\ [Next]_vars => Typed'
<1> SUFFICES ASSUME Typed, [Next]_vars PROVE Typed'
  OBVIOUS
<1> USE TtpAssumption
    DEF Typed, TypeOK, ThreadKnows, Goto, maps, wire, Names,
        Steps, RequesterSteps, ServiceSteps, Asking, Pairing, Notifying,
        NoSession, BeforeRegister
<1>1. ASSUME NEW c \in Conn, Accept(c) PROVE Typed'
  BY <1>1 DEF Accept
<1>2. ASSUME NEW c \in Conn, PeerClose(c) PROVE Typed'
  BY <1>2 DEF PeerClose
<1>3. ASSUME NEW c \in Conn, ReceiveEnd(c) PROVE Typed'
  BY <1>3 DEF ReceiveEnd
<1>4. ASSUME NEW c \in Conn, ReceiveCertificateRequest(c) PROVE Typed'
  <2>1. sent' \in [Conn -> Seq(Packet)]
    BY <1>4, PostTyped, PacketTypes DEF ReceiveCertificateRequest, Receives
  <2>2. inbox' \in [Conn -> Seq(Packet)]
    BY <1>4, TakeTyped DEF ReceiveCertificateRequest, Receives
  <2>3. TypeOK'
    BY <1>4, <2>1, <2>2 DEF ReceiveCertificateRequest
  <2>4. ThreadKnows'
    BY <1>4, <2>1, <2>2 DEF ReceiveCertificateRequest
  <2>5. QED
    BY <2>3, <2>4
<1>5. ASSUME NEW c \in Conn, ReceiveIgnored(c) PROVE Typed'
  <2>1. inbox' \in [Conn -> Seq(Packet)]
    BY <1>5, TakeTyped DEF ReceiveIgnored, Receives
  <2>2. TypeOK'
    BY <1>5, <2>1 DEF ReceiveIgnored
  <2>3. ThreadKnows'
    BY <1>5, <2>1 DEF ReceiveIgnored
  <2>4. QED
    BY <2>2, <2>3
<1>6. ASSUME NEW c \in Conn, InitiateAuthAccepted(c) PROVE Typed'
  <2>1. sent' \in [Conn -> Seq(Packet)]
    BY <1>6, PostTyped, PacketTypes DEF InitiateAuthAccepted, Receives
  <2>2. inbox' \in [Conn -> Seq(Packet)]
    BY <1>6, TakeTyped DEF InitiateAuthAccepted, Receives
  <2>a. name' \in [Conn -> Names \cup {None}]
    BY <1>6 DEF InitiateAuthAccepted
  <2>3. TypeOK'
    BY <1>6, <2>1, <2>2, <2>a DEF InitiateAuthAccepted
  <2>4. ThreadKnows'
    BY <1>6 DEF InitiateAuthAccepted
  <2>5. QED
    BY <2>3, <2>4
<1>7. ASSUME NEW c \in Conn, InitiateAuthRejected(c) PROVE Typed'
  <2>1. sent' \in [Conn -> Seq(Packet)]
    BY <1>7, PostTyped, PacketTypes DEF InitiateAuthRejected, Receives
  <2>2. inbox' \in [Conn -> Seq(Packet)]
    BY <1>7, TakeTyped DEF InitiateAuthRejected, Receives
  <2>3. TypeOK'
    BY <1>7, <2>1, <2>2 DEF InitiateAuthRejected
  <2>4. ThreadKnows'
    BY <1>7, <2>1, <2>2 DEF InitiateAuthRejected
  <2>5. QED
    BY <2>3, <2>4
<1>8. ASSUME NEW c \in Conn, Register(c) PROVE Typed'
  <2>1. connectedClients' \in [Names -> Conn \cup {None}]
    BY <1>8, MapsTyped DEF Register
  <2>2. TypeOK'
    BY <1>8, <2>1 DEF Register
  <2>3. ThreadKnows'
    BY <1>8, <2>1 DEF Register
  <2>4. QED
    BY <2>2, <2>3
<1>9. ASSUME NEW c \in Conn, ClientAuthenticated(c) PROVE Typed'
  <2>1. inbox' \in [Conn -> Seq(Packet)]
    BY <1>9, TakeTyped DEF ClientAuthenticated, Receives
  <2>2. TypeOK'
    BY <1>9, <2>1 DEF ClientAuthenticated
  <2>3. ThreadKnows'
    BY <1>9, <2>1 DEF ClientAuthenticated
  <2>4. QED
    BY <2>2, <2>3
<1>10. ASSUME NEW c \in Conn, ClientRejected(c) PROVE Typed'
  <2>1. sent' \in [Conn -> Seq(Packet)]
    BY <1>10, PostTyped, PacketTypes DEF ClientRejected, Receives
  <2>2. inbox' \in [Conn -> Seq(Packet)]
    BY <1>10, TakeTyped DEF ClientRejected, Receives
  <2>3. TypeOK'
    BY <1>10, <2>1, <2>2 DEF ClientRejected
  <2>4. ThreadKnows'
    BY <1>10 DEF ClientRejected
  <2>5. QED
    BY <2>3, <2>4
<1>11. ASSUME NEW c \in Conn, MatchSession(c) PROVE Typed'
  <2>1. connectedClients' \in [Names -> Conn \cup {None}]
    BY <1>11, MapsTyped DEF MatchSession
  <2>2. pendingSessions' \in [Names -> Conn \cup {None}]
    BY <1>11, MapsTyped DEF MatchSession
  <2>3. TypeOK'
    BY <1>11, <2>1, <2>2 DEF MatchSession
  <2>4. ThreadKnows'
    BY <1>11, <2>1, <2>2 DEF MatchSession
  <2>5. QED
    BY <2>3, <2>4
<1>12. ASSUME NEW c \in Conn, WaitExpires(c) PROVE Typed'
  BY <1>12 DEF WaitExpires
<1>13. ASSUME NEW c \in Conn, FinalizeFails(c) PROVE Typed'
  <2>1. sent' \in [Conn -> Seq(Packet)]
    BY <1>13, PostErrorsTyped DEF FinalizeFails
  <2>a. [session EXCEPT ![c].client = None]
          \in [Conn -> [client : Conn \cup {None}, service : Conn \cup {None}]]
    BY DropClientTyped
  <2>2. session' \in [Conn -> [client : Conn \cup {None}, service : Conn \cup {None}]]
    BY ONLY <1>13, <2>a, session \in [Conn -> [client : Conn \cup {None}, service : Conn \cup {None}]]
       DEF FinalizeFails
  <2>3. TypeOK'
    BY <1>13, <2>1, <2>2 DEF FinalizeFails
  <2>4. ThreadKnows'
    BY <1>13 DEF FinalizeFails
  <2>5. QED
    BY <2>3, <2>4
<1>14. ASSUME NEW c \in Conn, FinalizeExpired(c) PROVE Typed'
  BY <1>14 DEF FinalizeExpired
<1>15. ASSUME NEW c \in Conn, SendClientKey(c) PROVE Typed'
  <2>1. sent' \in [Conn -> Seq(Packet)]
    BY <1>15, PostTyped, PacketTypes DEF SendClientKey
  <2>2. TypeOK'
    BY <1>15, <2>1 DEF SendClientKey
  <2>3. ThreadKnows'
    BY <1>15, <2>1 DEF SendClientKey
  <2>4. QED
    BY <2>2, <2>3
<1>16. ASSUME NEW c \in Conn, SendServiceKey(c) PROVE Typed'
  <2>1. sent' \in [Conn -> Seq(Packet)]
    BY <1>16, PostTyped, PacketTypes DEF SendServiceKey
  <2>2. TypeOK'
    BY <1>16, <2>1 DEF SendServiceKey
  <2>3. ThreadKnows'
    BY <1>16, <2>1 DEF SendServiceKey
  <2>4. QED
    BY <2>2, <2>3
<1>17. ASSUME NEW c \in Conn, SendServiceKeyFails(c) PROVE Typed'
  BY <1>17 DEF SendServiceKeyFails
<1>18. ASSUME NEW c \in Conn, Fail(c) PROVE Typed'
  <2>1. sent' \in [Conn -> Seq(Packet)]
    BY <1>18, PostTyped, PacketTypes DEF Fail
  <2>2. TypeOK'
    BY <1>18, <2>1 DEF Fail
  <2>3. ThreadKnows'
    BY <1>18, <2>1 DEF Fail
  <2>4. QED
    BY <2>2, <2>3
<1>35. ASSUME NEW c \in Conn, FailPending(c) PROVE Typed'
  <2>1. sent' \in [Conn -> Seq(Packet)]
    BY <1>35, PostErrorsTyped DEF FailPending
  <2>2. TypeOK'
    BY <1>35, <2>1 DEF FailPending
  <2>3. ThreadKnows'
    BY <1>35, <2>1 DEF FailPending
  <2>4. QED
    BY <2>2, <2>3
<1>19. ASSUME NEW c \in Conn, ServiceUnhealthy(c) PROVE Typed'
  BY <1>19 DEF ServiceUnhealthy
<1>20. ASSUME NEW c \in Conn, ServiceAuthenticated(c) PROVE Typed'
  <2>1. sent' \in [Conn -> Seq(Packet)]
    BY <1>20, PostTyped, PacketTypes DEF ServiceAuthenticated, Receives
  <2>2. inbox' \in [Conn -> Seq(Packet)]
    BY <1>20, TakeTyped DEF ServiceAuthenticated, Receives
  <2>a. clientCn' \in [Conn -> Users \cup {None}]
    BY <1>20 DEF ServiceAuthenticated
  <2>3. TypeOK'
    BY <1>20, <2>1, <2>2, <2>a DEF ServiceAuthenticated
  <2>4. ThreadKnows'
    BY <1>20 DEF ServiceAuthenticated
  <2>5. QED
    BY <2>3, <2>4
<1>21. ASSUME NEW c \in Conn, ServiceRejected(c) PROVE Typed'
  <2>1. inbox' \in [Conn -> Seq(Packet)]
    BY <1>21, TakeTyped DEF ServiceRejected, Receives
  <2>2. sent' \in [Conn -> Seq(Packet)]
    BY <1>21, PacketTypes DEF ServiceRejected, Receives
  <2>3. TypeOK'
    BY <1>21, <2>1, <2>2 DEF ServiceRejected
  <2>4. ThreadKnows'
    BY <1>21, <2>1, <2>2 DEF ServiceRejected
  <2>5. QED
    BY <2>3, <2>4
<1>22. ASSUME NEW c \in Conn, ServiceNameFails(c) PROVE Typed'
  <2>1. sent' \in [Conn -> Seq(Packet)]
    BY <1>22, PostTyped, PacketTypes DEF ServiceNameFails
  <2>2. TypeOK'
    BY <1>22, <2>1 DEF ServiceNameFails
  <2>3. ThreadKnows'
    BY <1>22, <2>1 DEF ServiceNameFails
  <2>4. QED
    BY <2>2, <2>3
<1>23. ASSUME NEW c \in Conn, AddPending(c) PROVE Typed'
  <2>1. pendingSessions' \in [Names -> Conn \cup {None}]
    BY <1>23, MapsTyped DEF AddPending
  <2>2. TypeOK'
    BY <1>23, <2>1 DEF AddPending
  <2>3. ThreadKnows'
    BY <1>23, <2>1 DEF AddPending
  <2>4. QED
    BY <2>2, <2>3
<1>24. ASSUME NEW c \in Conn, FindClient(c) PROVE Typed'
  <2>1. PICK e \in Lookup(c, connectedClients, clientCn[c]) :
          e # None /\ session' = [session EXCEPT ![c].client = e]
    BY <1>24 DEF FindClient
  <2>2. e \in Conn
    BY <1>24, <2>1 DEF FindClient, Lookup
  <2>3. session' \in [Conn -> [client : Conn \cup {None}, service : Conn \cup {None}]]
    <3>1. [session[c] EXCEPT !.client = e]
            \in [client : Conn \cup {None}, service : Conn \cup {None}]
      <4>1. session[c] \in [client : Conn \cup {None}, service : Conn \cup {None}]
        OBVIOUS
      <4>2. QED
        BY <2>2, <4>1
    <3>2. session' = [session EXCEPT ![c] = [session[c] EXCEPT !.client = e]]
      BY <2>1
    <3>3. QED
      BY <3>1, <3>2
  <2>4. TypeOK'
    BY <1>24, <2>3 DEF FindClient
  <2>5. ThreadKnows'
    BY <1>24, <2>1, <2>2 DEF FindClient
  <2>6. QED
    BY <2>4, <2>5
<1>25. ASSUME NEW c \in Conn, FindClientFails(c) PROVE Typed'
  <2>1. sent' \in [Conn -> Seq(Packet)]
    BY <1>25, PostTyped, PacketTypes DEF FindClientFails
  <2>2. TypeOK'
    BY <1>25, <2>1 DEF FindClientFails
  <2>3. ThreadKnows'
    BY <1>25, <2>1 DEF FindClientFails
  <2>4. QED
    BY <2>2, <2>3
<1>26. ASSUME NEW c \in Conn, SendTicket(c) PROVE Typed'
  <2>1. sent' \in [Conn -> Seq(Packet)]
    BY <1>26, PostTyped, PacketTypes DEF SendTicket
  <2>2. TypeOK'
    BY <1>26, <2>1 DEF SendTicket
  <2>3. ThreadKnows'
    BY <1>26, <2>1 DEF SendTicket
  <2>4. QED
    BY <2>2, <2>3
<1>27. ASSUME NEW c \in Conn, SendRedirect(c) PROVE Typed'
  <2>1. sent' \in [Conn -> Seq(Packet)]
    BY <1>27, PostTyped, PacketTypes DEF SendRedirect
  <2>2. TypeOK'
    BY <1>27, <2>1 DEF SendRedirect
  <2>3. ThreadKnows'
    BY <1>27 DEF SendRedirect
  <2>4. QED
    BY <2>2, <2>3
<1>28. ASSUME NEW c \in Conn, NotifyFails(c) PROVE Typed'
  <2>1. sent' \in [Conn -> Seq(Packet)]
    BY <1>28, PostTyped, PacketTypes DEF NotifyFails
  <2>2. TypeOK'
    BY <1>28, <2>1 DEF NotifyFails
  <2>3. ThreadKnows'
    BY <1>28 DEF NotifyFails
  <2>4. QED
    BY <2>2, <2>3
<1>29. ASSUME NEW c \in Conn, EraseClient(c) PROVE Typed'
  <2>1. connectedClients' \in [Names -> Conn \cup {None}]
    BY <1>29, MapsTyped DEF EraseClient
  <2>2. TypeOK'
    BY <1>29, <2>1 DEF EraseClient
  <2>3. ThreadKnows'
    BY <1>29, <2>1 DEF EraseClient
  <2>4. QED
    BY <2>2, <2>3
<1>30. ASSUME NEW c \in Conn, ErasePending(c) PROVE Typed'
  <2>1. pendingSessions' \in [Names -> Conn \cup {None}]
    BY <1>30, MapsTyped DEF ErasePending
  <2>2. TypeOK'
    BY <1>30, <2>1 DEF ErasePending
  <2>3. ThreadKnows'
    BY <1>30, <2>1 DEF ErasePending
  <2>4. QED
    BY <2>2, <2>3
<1>31. ASSUME NEW c \in Conn, NEW p \in Sends[c], PeerSends(c, p) PROVE Typed'
  <2>1. p \in Packet
    BY SendsAssumption, PacketTypes
  <2>2. Append(inbox[c], p) \in Seq(Packet)
    BY <2>1
  <2>3. inbox' \in [Conn -> Seq(Packet)]
    BY <1>31, <2>2 DEF PeerSends
  <2>4. TypeOK'
    BY <1>31, <2>3 DEF PeerSends
  <2>5. ThreadKnows'
    BY <1>31, <2>3 DEF PeerSends
  <2>6. QED
    BY <2>4, <2>5
<1>32. CASE Crash
  BY <1>32 DEF Crash, Live
<1>33. CASE UNCHANGED vars
  BY <1>33 DEF vars
<1>34. QED
  BY <1>1, <1>2, <1>3, <1>4, <1>5, <1>6, <1>7, <1>8, <1>9, <1>10, <1>11, <1>12, <1>13, <1>14, <1>15, <1>16, <1>17, <1>18, <1>19, <1>20, <1>21, <1>22, <1>23, <1>24, <1>25, <1>26, <1>27, <1>28, <1>29, <1>30, <1>31, <1>32, <1>33, <1>35
     DEF Next, Thread, ReceiveLoop, RequesterAuthenticate, ServiceAuthenticate, Cleanup
-----------------------------------------------------------------------------
(* Keys *)

\* What every step but the two sends of finalizeHandshake does to the packets
\* sent: no key is added, and no report of a failure is taken back.
KeysSame ==
  /\ Keys' = Keys
  /\ \A x \in Conn : KeysSent(x)' = KeysSent(x)
  /\ ToldError \subseteq ToldError'

LEMMA AppendFacts ==
  ASSUME NEW q \in Seq(Packet), NEW p \in Packet
  PROVE  /\ DOMAIN Append(q, p) = DOMAIN q \cup {Len(q) + 1}
         /\ Len(q) + 1 \notin DOMAIN q
         /\ Append(q, p)[Len(q) + 1] = p
         /\ \A i \in DOMAIN q : Append(q, p)[i] = q[i]
<1>1. DOMAIN q = 1..Len(q) /\ Len(q) \in Nat
  OBVIOUS
<1>2. DOMAIN Append(q, p) = 1..(Len(q) + 1)
  OBVIOUS
<1>3. QED
  BY <1>1, <1>2

\* A function over Conn whose sequences only grow by packets that are no keys
LEMMA QuietGrowth ==
  ASSUME TypeOK,
         \A x \in Conn :
           \/ sent'[x] = sent[x]
           \/ \E p \in Packet : p.type # "UserAuthOk" /\ sent'[x] = Append(sent[x], p)
  PROVE  KeysSame
<1>1. ASSUME NEW x \in Conn
      PROVE  /\ KeysSent(x)' = KeysSent(x)
             /\ \A i \in DOMAIN sent[x] : i \in DOMAIN sent'[x] /\ sent'[x][i] = sent[x][i]
  <2>1. CASE sent'[x] = sent[x]
    BY <2>1 DEF KeysSent
  <2>2. ASSUME NEW p \in Packet, p.type # "UserAuthOk", sent'[x] = Append(sent[x], p)
        PROVE  <1>1!2
    <3>1. sent[x] \in Seq(Packet)
      BY DEF TypeOK
    <3>2. QED
      BY <2>2, <3>1, AppendFacts DEF KeysSent
  <2>3. QED
    BY <2>1, <2>2
<1>2. Keys' = Keys
  <2>1. \A x \in Conn : \A i \in KeysSent(x) : sent'[x][i].key = sent[x][i].key
    BY <1>1 DEF KeysSent
  <2>2. \A x \in Conn : {sent'[x][i].key : i \in KeysSent(x)'}
                          = {sent[x][i].key : i \in KeysSent(x)}
    BY <1>1, <2>1
  <2>3. QED
    BY <2>2 DEF Keys
<1>3. ToldError \subseteq ToldError'
  BY <1>1 DEF ToldError
<1>4. QED
  BY <1>1, <1>2, <1>3 DEF KeysSame

LEMMA PostKeeps ==
  ASSUME TypeOK, NEW c, NEW p \in Packet, Post(c, p), p.type # "UserAuthOk"
  PROVE  KeysSame
BY QuietGrowth DEF Post, TypeOK

LEMMA PostErrorsKeeps ==
  ASSUME TypeOK, NEW cs, PostErrors(cs)
  PROVE  KeysSame
<1>1. Error \in Packet /\ Error.type # "UserAuthOk"
  BY PacketTypes DEF Error, Msg
<1>2. QED
  BY <1>1, QuietGrowth DEF PostErrors, TypeOK

LEMMA SentKeeps == TypeOK /\ UNCHANGED sent => KeysSame
BY DEF KeysSame, KeysSent, Keys, ToldError

\* An error reported on a connection is one it was told of.
LEMMA PostError ==
  ASSUME TypeOK, NEW c \in Conn, Post(c, Error)
  PROVE  c \in ToldError'
<1>1. sent[c] \in Seq(Packet) /\ sent'[c] = Append(sent[c], Error) /\ Error \in Packet
  BY PacketTypes DEF TypeOK, Post
<1>2. QED
  BY <1>1, AppendFacts DEF ToldError

\* The key sent to connection x by the thread of connection k
LEMMA PostKey ==
  ASSUME TypeOK, NEW x \in Conn, NEW k \in Conn, Post(x, UserAuthOk(k))
  PROVE  /\ Keys' = [Keys EXCEPT ![x] = @ \cup {k}]
         /\ \A y \in Conn \ {x} : KeysSent(y)' = KeysSent(y)
         /\ Keys[x] = {} => \A i, j \in KeysSent(x)' : i = j
         /\ ToldError \subseteq ToldError'
<1>1. UserAuthOk(k) \in Packet /\ UserAuthOk(k).key = k /\ UserAuthOk(k).type = "UserAuthOk"
  BY PacketTypes DEF UserAuthOk, Msg
<1>2. sent'[x] = Append(sent[x], UserAuthOk(k)) /\ sent[x] \in Seq(Packet)
  BY DEF Post, TypeOK
<1>3. \A y \in Conn \ {x} : sent'[y] = sent[y]
  BY DEF Post, TypeOK
<1> DEFINE m == Len(sent[x]) + 1
<1>4. /\ KeysSent(x)' = KeysSent(x) \cup {m}
      /\ sent'[x][m].key = k
      /\ \A i \in DOMAIN sent[x] : i \in DOMAIN sent'[x] /\ sent'[x][i] = sent[x][i]
  BY <1>1, <1>2, AppendFacts DEF KeysSent
<1> HIDE DEF m
<1>5. \A i \in KeysSent(x) : sent'[x][i] = sent[x][i]
  BY <1>4 DEF KeysSent
<1>6. \A y \in Conn \ {x} : KeysSent(y)' = KeysSent(y)
  BY <1>3 DEF KeysSent
<1>7. {sent'[x][i].key : i \in KeysSent(x)'} = Keys[x] \cup {k}
  BY <1>4, <1>5 DEF Keys
<1>8. \A y \in Conn \ {x} : {sent'[y][i].key : i \in KeysSent(y)'} = Keys[y]
  BY <1>3, <1>6 DEF Keys
<1>9. Keys' = [Keys EXCEPT ![x] = @ \cup {k}]
  <2> DEFINE KeysAt(y) == {sent'[y][i].key : i \in KeysSent(y)'}
  <2>1. Keys' = [y \in Conn |-> KeysAt(y)]
    BY DEF Keys
  <2>2. \A y \in Conn : KeysAt(y) = IF y = x THEN Keys[x] \cup {k} ELSE Keys[y]
    BY <1>7, <1>8
  <2>3. [Keys EXCEPT ![x] = @ \cup {k}]
          = [y \in Conn |-> IF y = x THEN Keys[x] \cup {k} ELSE Keys[y]]
    BY DEF Keys
  <2> HIDE DEF KeysAt
  <2>4. QED
    BY <2>1, <2>2, <2>3
<1>10. Keys[x] = {} => \A i, j \in KeysSent(x)' : i = j
  <2>1. \A i \in KeysSent(x) : sent[x][i].key \in Keys[x]
    BY DEF Keys
  <2>2. QED
    BY <1>4, <2>1
<1>11. ToldError \subseteq ToldError'
  BY <1>3, <1>4 DEF ToldError
<1>12. QED
  BY <1>6, <1>9, <1>10, <1>11

LEMMA OtherStepsKeep ==
  ASSUME Typed, [Next]_vars,
         \A c \in Conn : ~SendClientKey(c) /\ ~SendServiceKey(c)
  PROVE  KeysSame
<1> USE DEF Typed, maps, wire
<1>1. ASSUME NEW c \in Conn, ReceiveCertificateRequest(c) PROVE KeysSame
  BY <1>1, PostKeeps, PacketTypes DEF ReceiveCertificateRequest, Error, Msg
<1>2. ASSUME NEW c \in Conn, InitiateAuthAccepted(c) PROVE KeysSame
  BY <1>2, PostKeeps, PacketTypes DEF InitiateAuthAccepted, Error, Msg
<1>3. ASSUME NEW c \in Conn, InitiateAuthRejected(c) PROVE KeysSame
  BY <1>3, PostKeeps, PacketTypes DEF InitiateAuthRejected, Error, Msg
<1>4. ASSUME NEW c \in Conn, ClientRejected(c) PROVE KeysSame
  BY <1>4, PostKeeps, PacketTypes DEF ClientRejected, Error, Msg
<1>5. ASSUME NEW c \in Conn, ServiceAuthenticated(c) PROVE KeysSame
  BY <1>5, PostKeeps, PacketTypes DEF ServiceAuthenticated, Error, Msg
<1>6. ASSUME NEW c \in Conn, ServiceNameFails(c) PROVE KeysSame
  BY <1>6, PostKeeps, PacketTypes DEF ServiceNameFails, Error, Msg
<1>7. ASSUME NEW c \in Conn, FindClientFails(c) PROVE KeysSame
  BY <1>7, PostKeeps, PacketTypes DEF FindClientFails, Error, Msg
<1>8. ASSUME NEW c \in Conn, SendTicket(c) PROVE KeysSame
  <2>1. clientCn[c] \in Users /\ name[c] \in Services
    BY <1>8 DEF SendTicket, ThreadKnows, Asking, ServiceSteps, RequesterSteps
  <2>2. /\ Ticket(clientCn[c], name[c]) \in Packet
        /\ Ticket(clientCn[c], name[c]).type # "UserAuthOk"
    BY <2>1, PacketTypes DEF Ticket, Msg
  <2>3. QED
    BY <1>8, <2>2, PostKeeps DEF SendTicket
<1>9. ASSUME NEW c \in Conn, SendRedirect(c) PROVE KeysSame
  BY <1>9, PostKeeps, PacketTypes DEF SendRedirect, Error, Msg
<1>10. ASSUME NEW c \in Conn, NotifyFails(c) PROVE KeysSame
  BY <1>10, PostKeeps, PacketTypes DEF NotifyFails, Error, Msg
<1>11. ASSUME NEW c \in Conn, Fail(c) PROVE KeysSame
  BY <1>11, PostKeeps, PacketTypes DEF Fail, Error, Msg
<1>17. ASSUME NEW c \in Conn, FailPending(c) PROVE KeysSame
  BY <1>17, PostErrorsKeeps DEF FailPending
<1>12. ASSUME NEW c \in Conn, FinalizeFails(c) PROVE KeysSame
  BY <1>12, PostErrorsKeeps, SentKeeps DEF FinalizeFails
<1>13. ASSUME NEW c \in Conn, ServiceRejected(c) PROVE KeysSame
  <2>1. Error \in Packet /\ Error.type # "UserAuthOk"
    BY PacketTypes DEF Error, Msg
  <2>2. sent[c] \in Seq(Packet) /\ Append(sent[c], Error) \in Seq(Packet)
    BY <2>1 DEF TypeOK
  <2>3. /\ sent'[c] = Append(Append(sent[c], Error), Error)
        /\ \A x \in Conn \ {c} : sent'[x] = sent[x]
    BY <1>13 DEF ServiceRejected, TypeOK
  <2>4. /\ KeysSent(c)' = KeysSent(c)
        /\ \A i \in DOMAIN sent[c] : i \in DOMAIN sent'[c] /\ sent'[c][i] = sent[c][i]
    BY <2>1, <2>2, <2>3, AppendFacts DEF KeysSent
  <2>5. \A x \in Conn : KeysSent(x)' = KeysSent(x)
    BY <2>3, <2>4 DEF KeysSent
  <2>6. \A x \in Conn : {sent'[x][i].key : i \in KeysSent(x)'} = Keys[x]
    BY <2>3, <2>4, <2>5 DEF Keys, KeysSent
  <2>7. ToldError \subseteq ToldError'
    BY <2>3, <2>4 DEF ToldError
  <2>8. QED
    BY <2>5, <2>6, <2>7 DEF KeysSame, Keys
<1>14. ASSUME NEW c \in Conn,
             \/ Accept(c) \/ PeerClose(c) \/ ReceiveEnd(c) \/ ReceiveIgnored(c)
             \/ Register(c) \/ ClientAuthenticated(c) \/ MatchSession(c) \/ WaitExpires(c)
             \/ FinalizeExpired(c) \/ SendServiceKeyFails(c) \/ ServiceUnhealthy(c) \/ AddPending(c)
             \/ FindClient(c) \/ EraseClient(c) \/ ErasePending(c)
      PROVE  KeysSame
  BY <1>14, SentKeeps
     DEF Accept, PeerClose, ReceiveEnd, ReceiveIgnored, Register,
         ClientAuthenticated, MatchSession, WaitExpires, FinalizeExpired, SendServiceKeyFails,
         ServiceUnhealthy, AddPending, FindClient, EraseClient, ErasePending
<1>15. CASE \/ \E c \in Conn : \E p \in Sends[c] : PeerSends(c, p)
           \/ Crash \/ UNCHANGED vars
  BY <1>15, SentKeeps DEF PeerSends, Crash, vars
<1>16. QED
  BY <1>1, <1>2, <1>3, <1>4, <1>5, <1>6, <1>7, <1>8, <1>9, <1>10, <1>11, <1>12, <1>13, <1>14, <1>15, <1>17
     DEF Next, Thread, ReceiveLoop, RequesterAuthenticate, ServiceAuthenticate, Cleanup
-----------------------------------------------------------------------------
(* Steps that leave the maps, the names and the keys alone *)

\* The moves of a thread that neither touch a map nor write a key.
QuietMoves ==
  {<<"free", "receive">>, <<"receive", "receive">>, <<"receive", "closed">>,
   <<"authenticateClient", "waitForSessionData">>,
   <<"authenticateClient", "fail">>, <<"waitForSessionData", "fail">>,
   <<"finalize", "fail">>, <<"finalize", "eraseClient">>,
   <<"sendServiceKey", "fail">>, <<"fail", "findPending">>,
   <<"findPending", "eraseClient">>,
   <<"authenticateService", "eraseClient">>, <<"addPending", "eraseClient">>,
   <<"findClient", "sendTicket">>, <<"findClient", "eraseClient">>,
   <<"sendTicket", "sendRedirect">>, <<"sendTicket", "eraseClient">>,
   <<"sendRedirect", "eraseClient">>}

\* Threads that are still to erase their user's pending session
Eraser(t) == name[t] \in Users /\ (pc[t] \in RequesterSteps \/ pc[t] = "register")
OrphanEntry(n, d) ==
  /\ pendingSessions[n] = d
  /\ pc[d] \in {"sendTicket", "sendRedirect", "eraseClient", "closed"}

LEMMA OrphanKept ==
  ASSUME NoSilentOrphan, ToldError \subseteq ToldError',
         \A t \in Conn : Eraser(t) => name'[t] = name[t] /\ Eraser(t)',
         \A n \in Users, d \in Conn :
           OrphanEntry(n, d)' =>
             OrphanEntry(n, d) \/ d \in ToldError' \/ WillErasePending(n)
  PROVE  NoSilentOrphan'
<1>1. \A n \in Users : WillErasePending(n) => WillErasePending(n)'
  BY DEF WillErasePending, Eraser
<1>2. \A n \in Users, d \in Conn :
        OrphanEntry(n, d)' => d \in ToldError' \/ WillErasePending(n)'
  BY <1>1 DEF NoSilentOrphan, OrphanEntry
<1>3. QED
  BY <1>2 DEF NoSilentOrphan, OrphanEntry

LEMMA KeyFreeKept ==
  ASSUME KeyFree, KeysSame, \A x \in Conn : Eligible(x)' => Keys[x] = {}
  PROVE  KeyFree'
BY DEF KeyFree, KeysSame

LEMMA QuietStep ==
  ASSUME Inductive, Typed', KeysSame,
         NEW c \in Conn, NEW b, <<pc[c], b>> \in QuietMoves,
         pc' = [pc EXCEPT ![c] = b],
         UNCHANGED <<name, clientCn, connectedClients, pendingSessions>>,
         \A t \in Conn \ {c} : session'[t] = session[t],
         pc[c] = "findClient" => c \in ToldError' \/ WillErasePending(clientCn[c])
  PROVE  Inductive'
<1> USE DEF Inductive, Typed, TypeOK
<1>1. ConnectedLive'
  BY DEF ConnectedLive, QuietMoves
<1>2. PendingListed'
  BY DEF PendingListed, Listed, QuietMoves
<1>a. /\ \A t \in Conn : pc'[t] \in Pairing => t # c /\ pc[t] \in Pairing
      /\ \A x \in Conn : pc'[x] \in BeforeRegister => pc[x] \in BeforeRegister
      /\ \A x \in Conn : pc[x] \in Listed => pc'[x] \in Listed
  BY DEF Pairing, BeforeRegister, Listed, QuietMoves
<1>3. PairMatches'
  <2>1. \A t \in Conn : pc[t] \in Pairing =>
          session[t].client \in Conn /\ session[t].service \in Conn
    BY DEF ThreadKnows
  <2>2. QED
    BY <1>a, <2>1 DEF PairMatches
<1>4. PairExclusive'
  BY DEF PairExclusive, Pairing, QuietMoves
<1>5. KeyFree'
  <2>1. \A x \in Conn : Eligible(x)' => Eligible(x)
    BY DEF Eligible, BeforeRegister, Pairing, QuietMoves
  <2>2. QED
    BY <2>1, KeyFreeKept DEF KeyFree
<1>6. OneKeyPerConnection'
  BY DEF OneKeyPerConnection, KeysSame
<1>7. KeyHolders'
  BY DEF KeyHolders, KeysSame, QuietMoves
<1>8. NoSilentOrphan'
  <2>1. \A t \in Conn : Eraser(t) => name'[t] = name[t] /\ Eraser(t)'
    BY DEF Eraser, QuietMoves, RequesterSteps, ThreadKnows, ServiceSteps
  <2>2. \A n \in Users, d \in Conn :
          OrphanEntry(n, d)' =>
            OrphanEntry(n, d) \/ d \in ToldError' \/ WillErasePending(n)
    <3>1. SUFFICES ASSUME NEW n \in Users, NEW d \in Conn,
                          OrphanEntry(n, d)', ~OrphanEntry(n, d)
                   PROVE  d \in ToldError' \/ WillErasePending(n)
      OBVIOUS
    <3>2. d = c /\ pendingSessions[n] = c
      BY <3>1 DEF OrphanEntry
    <3>3. clientCn[c] = n /\ pc[c] \in Listed
      BY <3>2 DEF PendingListed, Names
    <3>4. pc[c] = "findClient"
      BY <3>1, <3>2, <3>3 DEF OrphanEntry, Listed
    <3>5. QED
      BY <3>2, <3>3, <3>4
  <2>3. QED
    BY <2>1, <2>2, OrphanKept DEF KeysSame
<1>9. QED
  BY <1>1, <1>2, <1>3, <1>4, <1>5, <1>6, <1>7, <1>8

\* Steps of the environment
LEMMA OutsideStep ==
  ASSUME Inductive, Typed', KeysSame,
         UNCHANGED <<pc, name, clientCn, session, connectedClients, pendingSessions>>
  PROVE  Inductive'
<1> USE DEF Inductive
<1>1. ConnectedLive' /\ PendingListed'
  BY DEF ConnectedLive, PendingListed
<1>2. PairMatches' /\ PairExclusive'
  BY DEF PairMatches, PairExclusive
<1>3. KeyFree' /\ KeyHolders' /\ OneKeyPerConnection'
  BY DEF KeyFree, Eligible, KeyHolders, OneKeyPerConnection, KeysSame
<1>4. NoSilentOrphan'
  <2>1. \A t \in Conn : Eraser(t) => name'[t] = name[t] /\ Eraser(t)'
    BY DEF Eraser
  <2>2. \A n \in Users, d \in Conn : OrphanEntry(n, d)' => OrphanEntry(n, d)
    BY DEF OrphanEntry
  <2>3. QED
    BY <2>1, <2>2, OrphanKept DEF KeysSame
<1>5. QED
  BY <1>1, <1>2, <1>3, <1>4
-----------------------------------------------------------------------------
(* Steps that change a map, a name or a key *)

LEMMA Distinct == None \notin Conn /\ Users \cap Services = {}
BY TtpAssumption

LEMMA InitiateAuthAcceptedStep ==
  ASSUME Inductive, Typed', KeysSame, NEW c \in Conn, InitiateAuthAccepted(c)
  PROVE  Inductive'
<1> USE Distinct DEF Inductive, Typed, TypeOK, Goto, maps, wire
<1>1. ConnectedLive'
  BY DEF InitiateAuthAccepted, ConnectedLive
<1>2. PendingListed'
  BY DEF InitiateAuthAccepted, PendingListed, Listed
<1>3. PairMatches'
  BY DEF InitiateAuthAccepted, PairMatches, Pairing, BeforeRegister, Listed
<1>4. PairExclusive'
  BY DEF InitiateAuthAccepted, PairExclusive, Pairing
<1>5. KeyFree'
  <2>1. \A x \in Conn : Eligible(x)' => Eligible(x)
    BY DEF InitiateAuthAccepted, Eligible, BeforeRegister, Pairing, Names
  <2>2. QED
    BY <2>1, KeyFreeKept DEF KeyFree
<1>6. OneKeyPerConnection'
  BY DEF InitiateAuthAccepted, OneKeyPerConnection, KeysSame
<1>7. KeyHolders'
  <2>1. Keys[c] = {}
    BY DEF InitiateAuthAccepted, KeyFree, Eligible, BeforeRegister
  <2>2. \A x \in Conn : \A k \in Keys[x] : x # c /\ k \in Conn /\ k # c
    BY <2>1 DEF InitiateAuthAccepted, KeyHolders
  <2>3. \A x \in Conn \ {c} :
          name'[x] = name[x] /\ pc'[x] = pc[x] /\ clientCn'[x] = clientCn[x]
    BY DEF InitiateAuthAccepted
  <2>4. QED
    BY <2>2, <2>3 DEF KeyHolders, KeysSame
<1>8. NoSilentOrphan'
  <2>1. \A t \in Conn : Eraser(t) => name'[t] = name[t] /\ Eraser(t)'
    BY DEF InitiateAuthAccepted, Eraser, RequesterSteps, ThreadKnows
  <2>2. \A n \in Users, d \in Conn : OrphanEntry(n, d)' => OrphanEntry(n, d)
    BY DEF InitiateAuthAccepted, OrphanEntry, PendingListed, Listed, Names
  <2>3. QED
    BY <2>1, <2>2, OrphanKept DEF KeysSame
<1>9. QED
  BY <1>1, <1>2, <1>3, <1>4, <1>5, <1>6, <1>7, <1>8

LEMMA RegisterStep ==
  ASSUME Inductive, Typed', KeysSame, NEW c \in Conn, Register(c)
  PROVE  Inductive'
<1> USE Distinct DEF Inductive, Typed, TypeOK, Goto, maps, wire
<1>1. ConnectedLive'
  BY DEF Register, ConnectedLive, Emplace
<1>2. PendingListed'
  BY DEF Register, PendingListed, Listed, Emplace
<1>3. PairMatches'
  BY DEF Register, PairMatches, Pairing, BeforeRegister, Listed, Emplace
<1>4. PairExclusive'
  <2>1. \A t \in Conn : pc[t] \in Pairing => session[t].client # c
    BY DEF Register, PairMatches, BeforeRegister
  <2>2. \A n \in Names : connectedClients'[n] \in {connectedClients[n], c}
    BY DEF Register, Emplace
  <2>3. \A t \in Conn : pc'[t] \in Pairing => pc[t] \in Pairing
    BY DEF Register, Pairing
  <2>4. QED
    BY <2>1, <2>2, <2>3 DEF Register, PairExclusive
<1>5. KeyFree'
  <2>1. Keys[c] = {}
    BY DEF Register, KeyFree, Eligible, BeforeRegister
  <2>2. \A x \in Conn \ {c} : Eligible(x)' => Eligible(x)
    <3>1. \A m \in Names : connectedClients'[m] \in {connectedClients[m], c}
      BY DEF Register, Emplace
    <3>2. pc[c] = "register" /\ pc'[c] \notin Pairing
      BY DEF Register, Pairing
    <3>3. \A t \in Conn \ {c} : pc'[t] = pc[t]
      BY DEF Register
    <3>4. session' = session /\ pendingSessions' = pendingSessions
      BY DEF Register
    <3>5. QED
      BY <3>1, <3>2, <3>3, <3>4 DEF Eligible, Pairing, Names
  <2>3. QED
    BY <2>1, <2>2, KeyFreeKept DEF KeyFree
<1>6. OneKeyPerConnection'
  BY DEF Register, OneKeyPerConnection, KeysSame, Emplace
<1>7. KeyHolders'
  BY DEF Register, KeyHolders, KeysSame, Emplace
<1>8. NoSilentOrphan'
  <2>1. \A t \in Conn : Eraser(t) => name'[t] = name[t] /\ Eraser(t)'
    BY DEF Register, Eraser, RequesterSteps
  <2>2. \A n \in Users, d \in Conn : OrphanEntry(n, d)' => OrphanEntry(n, d)
    BY DEF Register, OrphanEntry
  <2>3. QED
    BY <2>1, <2>2, OrphanKept DEF KeysSame
<1>9. QED
  BY <1>1, <1>2, <1>3, <1>4, <1>5, <1>6, <1>7, <1>8

LEMMA MatchSessionStep ==
  ASSUME Inductive, Typed', KeysSame, NEW c \in Conn, MatchSession(c)
  PROVE  Inductive'
<1> USE Distinct DEF Inductive, Typed, TypeOK, Goto, maps, wire
<1> DEFINE u == name[c]
           e == connectedClients[u]
           d == pendingSessions[u]
<1>a. u \in Users /\ u \in Names /\ e \in Conn /\ d \in Conn
  BY DEF MatchSession, ThreadKnows, RequesterSteps, Names
<1>b. /\ u = name[c] /\ e = connectedClients[u] /\ d = pendingSessions[u]
      /\ pc[c] = "waitForSessionData"
      /\ session' = [session EXCEPT ![c] = [client |-> e, service |-> d]]
      /\ connectedClients' = Erase(connectedClients, u)
      /\ pendingSessions' = Erase(pendingSessions, u)
  BY DEF MatchSession
<1> HIDE DEF u, e, d
<1>1. ConnectedLive'
  BY DEF MatchSession, ConnectedLive, Erase
<1>2. PendingListed'
  BY DEF MatchSession, PendingListed, Listed, Erase
<1>c. /\ session'[c].client = e /\ session'[c].service = d
      /\ pc'[c] = "finalize"
      /\ \A t \in Conn \ {c} : session'[t] = session[t] /\ pc'[t] = pc[t]
      /\ name' = name /\ clientCn' = clientCn
  BY <1>b DEF MatchSession
<1>d. \A m \in Names : /\ connectedClients'[m] \in {connectedClients[m], None}
                       /\ pendingSessions'[m] \in {pendingSessions[m], None}
                       /\ connectedClients'[m] # e
                       /\ pendingSessions'[m] # d
  BY <1>a, <1>b DEF Erase, ConnectedLive, PendingListed
<1>3. PairMatches'
  <2>1. name[e] = name[c] /\ pc[e] \notin BeforeRegister
    BY <1>a, <1>b DEF ConnectedLive, BeforeRegister
  <2>2. name[d] \in Services /\ clientCn[d] = name[c] /\ pc[d] \in Listed
    BY <1>a, <1>b DEF PendingListed
  <2>3. \A x \in Conn : /\ pc[x] \notin BeforeRegister => pc'[x] \notin BeforeRegister
                        /\ pc[x] \in Listed => pc'[x] \in Listed
    BY <1>b, <1>c DEF BeforeRegister, Listed
  <2>4. \A t \in Conn : pc[t] \in Pairing =>
          session[t].client \in Conn /\ session[t].service \in Conn
    BY DEF ThreadKnows
  <2>5. SUFFICES ASSUME NEW t \in Conn, pc'[t] \in Pairing
                 PROVE  /\ name[session'[t].client] = name[t]
                        /\ pc'[session'[t].client] \notin BeforeRegister
                        /\ name[session'[t].service] \in Services
                        /\ clientCn[session'[t].service] = name[t]
                        /\ pc'[session'[t].service] \in Listed
    BY <1>c DEF PairMatches
  <2>6. CASE t = c
    BY <1>a, <1>c, <2>1, <2>2, <2>3, <2>6
  <2>7. CASE t # c
    BY <1>c, <2>3, <2>4, <2>5, <2>7 DEF PairMatches
  <2>8. QED
    BY <2>6, <2>7
<1>4. PairExclusive'
  <2>1. \A t \in Conn \ {c} : pc[t] \in Pairing =>
          session[t].client # e /\ session[t].service # d
    BY <1>a, <1>b DEF PairExclusive
  <2>2. \A t \in Conn : pc[t] \in Pairing =>
          session[t].client \in Conn /\ session[t].service \in Conn
    BY DEF ThreadKnows
  <2>3. ASSUME NEW t \in Conn, pc'[t] \in Pairing, NEW m \in Names
        PROVE  /\ connectedClients'[m] # session'[t].client
               /\ pendingSessions'[m] # session'[t].service
    <3>1. CASE t = c
      BY <1>c, <1>d, <3>1
    <3>2. CASE t # c
      <4>1. /\ connectedClients[m] # session[t].client
            /\ pendingSessions[m] # session[t].service
            /\ session[t].client # None /\ session[t].service # None
        BY <1>c, <2>2, <2>3, <3>2 DEF PairExclusive
      <4>2. QED
        BY <1>c, <1>d, <3>2, <4>1
    <3>3. QED
      BY <3>1, <3>2
  <2>4. ASSUME NEW t \in Conn, pc'[t] \in Pairing, NEW s \in Conn \ {t}, pc'[s] \in Pairing
        PROVE  /\ session'[s].client # session'[t].client
               /\ session'[s].service # session'[t].service
    <3>1. CASE t = c \/ s = c
      BY <1>c, <2>1, <2>4, <3>1
    <3>2. CASE t # c /\ s # c
      BY <1>c, <2>4, <3>2 DEF PairExclusive
    <3>3. QED
      BY <3>1, <3>2
  <2>5. QED
    BY <2>3, <2>4 DEF PairExclusive
<1>5. KeyFree'
  <2>1. Keys[e] = {} /\ Keys[d] = {}
    BY <1>a, <1>b DEF KeyFree, Eligible
  <2>2. \A x \in Conn \ {d, e} : Eligible(x)' => Eligible(x)
    BY <1>b, <1>c, <1>d DEF Eligible, Pairing, BeforeRegister, Names
  <2>3. QED
    BY <1>a, <2>1, <2>2, KeyFreeKept DEF KeyFree
<1>6. OneKeyPerConnection'
  BY DEF MatchSession, OneKeyPerConnection, KeysSame, Erase
<1>7. KeyHolders'
  BY DEF MatchSession, KeyHolders, KeysSame, Erase
<1>8. NoSilentOrphan'
  <2>1. \A t \in Conn : Eraser(t) => name'[t] = name[t] /\ Eraser(t)'
    BY DEF MatchSession, Eraser, RequesterSteps
  <2>2. \A n \in Users, x \in Conn : OrphanEntry(n, x)' => OrphanEntry(n, x)
    BY DEF MatchSession, OrphanEntry, Erase
  <2>3. QED
    BY <2>1, <2>2, OrphanKept DEF KeysSame
<1>9. QED
  BY <1>1, <1>2, <1>3, <1>4, <1>5, <1>6, <1>7, <1>8

LEMMA SendClientKeyStep ==
  ASSUME Inductive, Typed', NEW c \in Conn, SendClientKey(c)
  PROVE  Inductive'
<1>t. TypeOK
  BY DEF Inductive, Typed
<1> USE Distinct DEF Inductive, Typed, TypeOK, Goto, maps, wire
<1>0. PICK e \in Conn : e = session[c].client
  BY DEF SendClientKey, ThreadKnows, Pairing
<1>a. /\ e \in Conn
      /\ name[e] = name[c] /\ name[c] \in Users /\ pc[e] \notin BeforeRegister
  BY <1>0 DEF SendClientKey, PairMatches, Pairing, ThreadKnows, RequesterSteps, BeforeRegister
<1>b. e = session[c].client /\ pc[c] \in Pairing /\ pc[c] = "finalize"
  BY <1>0 DEF SendClientKey, Pairing
<1>p. Post(e, UserAuthOk(c))
  BY <1>0 DEF SendClientKey
<1>c. /\ Keys' = [Keys EXCEPT ![e] = @ \cup {c}]
      /\ \A y \in Conn \ {e} : KeysSent(y)' = KeysSent(y)
      /\ Keys[e] = {} => \A i, j \in KeysSent(e)' : i = j
      /\ ToldError \subseteq ToldError'
  BY <1>a, <1>p, <1>t, PostKey
<1>d. Keys[e] = {}
  BY <1>a, <1>b DEF KeyFree, Eligible
<1>e. /\ Keys'[e] = {c}
      /\ \A x \in Conn \ {e} : Keys'[x] = Keys[x]
  <2>1. DOMAIN Keys = Conn /\ Keys = [x \in Conn |-> Keys[x]]
    BY DEF Keys
  <2>2. QED
    BY <1>a, <1>c, <1>d, <2>1
<1>1. ConnectedLive'
  BY DEF SendClientKey, ConnectedLive
<1>2. PendingListed'
  BY DEF SendClientKey, PendingListed, Listed
<1>3. PairMatches'
  BY DEF SendClientKey, PairMatches, Pairing, BeforeRegister, Listed
<1>4. PairExclusive'
  BY DEF SendClientKey, PairExclusive, Pairing
<1>5. KeyFree'
  <2>1. /\ \A t \in Conn \ {c} : pc'[t] = pc[t]
        /\ pc[c] = "finalize" /\ pc'[c] = "sendServiceKey"
        /\ session' = session /\ connectedClients' = connectedClients
        /\ pendingSessions' = pendingSessions
    BY DEF SendClientKey
  <2>2. \A x \in Conn : Eligible(x)' => Eligible(x)
    BY <2>1 DEF Eligible, Pairing, BeforeRegister
  <2>3. ~Eligible(e)'
    <3>1. \A n \in Names : connectedClients[n] # e /\ pendingSessions[n] # e
      BY <1>a, <1>b DEF PairExclusive, PendingListed, Pairing
    <3>2. \A t \in Conn \ {c} : pc[t] = "finalize" => session[t].client # e
      BY <1>a, <1>b DEF PairExclusive, Pairing
    <3>3. \A t \in Conn : pc[t] \in Pairing => session[t].service # e
      BY <1>a, <1>b DEF PairMatches
    <3>4. pc'[e] \notin BeforeRegister \cup {"authenticateService", "addPending"}
      BY <1>a, <2>1 DEF ThreadKnows, ServiceSteps, BeforeRegister
    <3>5. QED
      BY <1>a, <2>1, <3>1, <3>2, <3>3, <3>4 DEF Eligible, Pairing, Names
  <2>4. QED
    BY <1>e, <2>2, <2>3 DEF KeyFree
<1>6. OneKeyPerConnection'
  <2>1. \A i, j \in KeysSent(e)' : i = j
    BY <1>c, <1>d
  <2>2. \A y \in Conn \ {e} : \A i, j \in KeysSent(y)' : i = j
    BY <1>c DEF OneKeyPerConnection
  <2>3. \A y \in Conn : \A i, j \in KeysSent(y)' : i = j
    BY <2>1, <2>2
  <2>4. QED
    BY <2>3 DEF OneKeyPerConnection
<1>7. KeyHolders'
  <2>1. \A x \in Conn : c \notin Keys[x]
    BY <1>b DEF KeyHolders
  <2>2. /\ name' = name /\ clientCn' = clientCn
        /\ \A k \in Conn \ {c} : pc'[k] = pc[k]
        /\ pc'[c] = "sendServiceKey"
    BY DEF SendClientKey
  <2>3. ASSUME NEW x \in Conn, NEW k \in Keys'[x]
        PROVE  (x = e /\ k = c) \/ (x # e /\ k \in Keys[x] /\ k \in Conn \ {c})
    BY <1>e, <2>1, <2>3 DEF KeyHolders
  <2>4. ASSUME NEW x \in Conn, NEW k \in Keys'[x]
        PROVE  /\ k \in Conn /\ name[k] \in Users
               /\ pc'[k] \in {"sendServiceKey", "fail", "findPending", "eraseClient",
                         "erasePending", "closed"}
               /\ \/ name[x] = name[k]
                  \/ /\ name[x] \in Services /\ clientCn[x] = name[k]
                     /\ pc'[k] # "sendServiceKey"
    <3>1. CASE x = e /\ k = c
      BY <1>a, <2>2, <3>1
    <3>2. CASE x # e /\ k \in Keys[x] /\ k \in Conn \ {c}
      BY <2>2, <3>2 DEF KeyHolders
    <3>3. QED
      BY <2>3, <3>1, <3>2
  <2>5. ASSUME NEW x \in Conn, NEW y \in Conn \ {x}, NEW k \in Keys'[x], k \in Keys'[y]
        PROVE  (name[x] \in Users) # (name[y] \in Users)
    <3>1. x # e /\ y # e /\ k \in Keys[x] /\ k \in Keys[y]
      BY <2>3, <2>5
    <3>2. QED
      BY <3>1 DEF KeyHolders
  <2>6. QED
    BY <2>2, <2>4, <2>5 DEF KeyHolders
<1>8. NoSilentOrphan'
  <2>1. \A t \in Conn : Eraser(t) => name'[t] = name[t] /\ Eraser(t)'
    BY DEF SendClientKey, Eraser, RequesterSteps
  <2>2. \A n \in Users, d \in Conn : OrphanEntry(n, d)' => OrphanEntry(n, d)
    BY DEF SendClientKey, OrphanEntry
  <2>3. QED
    BY <1>c, <2>1, <2>2, OrphanKept
<1>9. QED
  BY <1>1, <1>2, <1>3, <1>4, <1>5, <1>6, <1>7, <1>8

LEMMA SendServiceKeyStep ==
  ASSUME Inductive, Typed', NEW c \in Conn, SendServiceKey(c)
  PROVE  Inductive'
<1>t. TypeOK
  BY DEF Inductive, Typed
<1> USE Distinct DEF Inductive, Typed, TypeOK, Goto, maps, wire
<1>0. PICK d \in Conn : d = session[c].service
  BY DEF SendServiceKey, ThreadKnows, Pairing
<1>a. /\ d \in Conn
      /\ name[d] \in Services /\ clientCn[d] = name[c] /\ pc[d] \in Listed
  BY <1>0 DEF SendServiceKey, PairMatches, Pairing, ThreadKnows, RequesterSteps, BeforeRegister
<1>b. d = session[c].service /\ pc[c] \in Pairing /\ pc[c] = "sendServiceKey"
  BY <1>0 DEF SendServiceKey, Pairing
<1>p. Post(d, UserAuthOk(c))
  BY <1>0 DEF SendServiceKey
<1>c. /\ Keys' = [Keys EXCEPT ![d] = @ \cup {c}]
      /\ \A y \in Conn \ {d} : KeysSent(y)' = KeysSent(y)
      /\ Keys[d] = {} => \A i, j \in KeysSent(d)' : i = j
      /\ ToldError \subseteq ToldError'
  BY <1>a, <1>p, <1>t, PostKey
<1>d. Keys[d] = {}
  BY <1>a, <1>b DEF KeyFree, Eligible
<1>e. /\ Keys'[d] = {c}
      /\ \A x \in Conn \ {d} : Keys'[x] = Keys[x]
  <2>1. DOMAIN Keys = Conn /\ Keys = [x \in Conn |-> Keys[x]]
    BY DEF Keys
  <2>2. QED
    BY <1>a, <1>c, <1>d, <2>1
<1>1. ConnectedLive'
  BY DEF SendServiceKey, ConnectedLive, NoSession
<1>2. PendingListed'
  BY DEF SendServiceKey, PendingListed, Listed, NoSession
<1>3. PairMatches'
  BY DEF SendServiceKey, PairMatches, Pairing, BeforeRegister, Listed, NoSession
<1>4. PairExclusive'
  BY DEF SendServiceKey, PairExclusive, Pairing, NoSession
<1>5. KeyFree'
  <2>1. /\ \A t \in Conn \ {c} : pc'[t] = pc[t] /\ session'[t] = session[t]
        /\ pc[c] = "sendServiceKey" /\ pc'[c] = "eraseClient"
        /\ connectedClients' = connectedClients
        /\ pendingSessions' = pendingSessions
    BY DEF SendServiceKey
  <2>2. \A x \in Conn : Eligible(x)' => Eligible(x)
    BY <2>1 DEF Eligible, Pairing, BeforeRegister
  <2>3. ~Eligible(d)'
    <3>1. /\ \A n \in Names : pendingSessions[n] # d
          /\ \A n \in Users : connectedClients[n] # d
      BY <1>a, <1>b DEF PairExclusive, ConnectedLive, Pairing, Names
    <3>2. \A t \in Conn \ {c} : pc[t] \in Pairing => session[t].service # d
      BY <1>a, <1>b DEF PairExclusive
    <3>3. \A t \in Conn : pc[t] = "finalize" => session[t].client # d
      BY <1>a, <1>b DEF PairMatches, Pairing, ThreadKnows, RequesterSteps
    <3>4. pc'[d] \notin BeforeRegister \cup {"authenticateService", "addPending"}
      BY <1>a, <2>1 DEF Listed, BeforeRegister
    <3>5. QED
      BY <1>a, <2>1, <3>1, <3>2, <3>3, <3>4 DEF Eligible, Pairing, Names
  <2>4. QED
    BY <1>e, <2>2, <2>3 DEF KeyFree
<1>6. OneKeyPerConnection'
  <2>1. \A i, j \in KeysSent(d)' : i = j
    BY <1>c, <1>d
  <2>2. \A y \in Conn \ {d} : \A i, j \in KeysSent(y)' : i = j
    BY <1>c DEF OneKeyPerConnection
  <2>3. \A y \in Conn : \A i, j \in KeysSent(y)' : i = j
    BY <2>1, <2>2
  <2>4. QED
    BY <2>3 DEF OneKeyPerConnection
<1>7. KeyHolders'
  <2>1. pc[c] = "sendServiceKey" /\ name[c] \in Users
    BY <1>b DEF ThreadKnows, RequesterSteps
  <2>2. /\ name' = name /\ clientCn' = clientCn
        /\ \A k \in Conn \ {c} : pc'[k] = pc[k]
        /\ pc'[c] = "eraseClient"
    BY DEF SendServiceKey
  <2>3. \A x \in Conn : c \in Keys[x] => name[x] = name[c]
    BY <2>1 DEF KeyHolders
  <2>4. ASSUME NEW x \in Conn, NEW k \in Keys'[x]
        PROVE  (x = d /\ k = c) \/ (x # d /\ k \in Keys[x])
    BY <1>e, <2>4
  <2>5. ASSUME NEW x \in Conn, NEW k \in Keys'[x]
        PROVE  /\ k \in Conn /\ name[k] \in Users
               /\ pc'[k] \in {"sendServiceKey", "fail", "findPending", "eraseClient",
                         "erasePending", "closed"}
               /\ \/ name[x] = name[k]
                  \/ /\ name[x] \in Services /\ clientCn[x] = name[k]
                     /\ pc'[k] # "sendServiceKey"
    <3>1. CASE x = d /\ k = c
      BY <1>a, <2>1, <2>2, <3>1
    <3>2. CASE x # d /\ k \in Keys[x]
      <4>1. /\ k \in Conn /\ name[k] \in Users
            /\ pc[k] \in {"sendServiceKey", "fail", "findPending", "eraseClient",
                         "erasePending", "closed"}
            /\ \/ name[x] = name[k]
               \/ /\ name[x] \in Services /\ clientCn[x] = name[k]
                  /\ pc[k] # "sendServiceKey"
        BY <3>2 DEF KeyHolders
      <4>2. QED
        BY <2>2, <4>1
    <3>3. QED
      BY <2>4, <3>1, <3>2
  <2>6. ASSUME NEW x \in Conn, NEW y \in Conn \ {x}, NEW k \in Keys'[x], k \in Keys'[y]
        PROVE  (name[x] \in Users) # (name[y] \in Users)
    <3>1. CASE x = d /\ k = c
      BY <1>a, <2>1, <2>3, <2>4, <2>6, <3>1
    <3>2. CASE y = d /\ k = c
      BY <1>a, <2>1, <2>3, <2>4, <2>6, <3>2
    <3>3. CASE k \in Keys[x] /\ k \in Keys[y]
      BY <3>3 DEF KeyHolders
    <3>4. QED
      BY <2>4, <2>6, <3>1, <3>2, <3>3
  <2>7. QED
    BY <2>2, <2>5, <2>6 DEF KeyHolders
<1>8. NoSilentOrphan'
  <2>1. \A t \in Conn : Eraser(t) => name'[t] = name[t] /\ Eraser(t)'
    BY DEF SendServiceKey, Eraser, RequesterSteps
  <2>2. \A n \in Users, x \in Conn : OrphanEntry(n, x)' => OrphanEntry(n, x)
    <3>1. \A n \in Users : pendingSessions[n] # c
      BY <1>b DEF PendingListed, Listed, Names
    <3>2. \A x \in Conn \ {c} : pc'[x] = pc[x] /\ pendingSessions' = pendingSessions
      BY DEF SendServiceKey
    <3>3. QED
      BY <3>1, <3>2 DEF SendServiceKey, OrphanEntry
  <2>3. QED
    BY <1>c, <2>1, <2>2, OrphanKept
<1>9. QED
  BY <1>1, <1>2, <1>3, <1>4, <1>5, <1>6, <1>7, <1>8

LEMMA ServiceAuthenticatedStep ==
  ASSUME Inductive, Typed', KeysSame, NEW c \in Conn, ServiceAuthenticated(c)
  PROVE  Inductive'
<1> USE Distinct DEF Inductive, Typed, TypeOK, Goto, maps, wire
<1>1. ConnectedLive'
  BY DEF ServiceAuthenticated, ConnectedLive
<1>2. PendingListed'
  BY DEF ServiceAuthenticated, PendingListed, Listed
<1>3. PairMatches'
  BY DEF ServiceAuthenticated, PairMatches, Pairing, BeforeRegister, Listed
<1>4. PairExclusive'
  BY DEF ServiceAuthenticated, PairExclusive, Pairing
<1>5. KeyFree'
  <2>1. \A x \in Conn : Eligible(x)' => Eligible(x)
    BY DEF ServiceAuthenticated, Eligible, BeforeRegister, Pairing, Names
  <2>2. QED
    BY <2>1, KeyFreeKept DEF KeyFree
<1>6. OneKeyPerConnection'
  BY DEF ServiceAuthenticated, OneKeyPerConnection, KeysSame
<1>7. KeyHolders'
  <2>1. Keys[c] = {}
    BY DEF ServiceAuthenticated, KeyFree, Eligible, BeforeRegister
  <2>2. \A x \in Conn : \A k \in Keys[x] : x # c /\ k \in Conn /\ k # c
    BY <2>1 DEF ServiceAuthenticated, KeyHolders
  <2>3. \A x \in Conn \ {c} :
          name'[x] = name[x] /\ pc'[x] = pc[x] /\ clientCn'[x] = clientCn[x]
    BY DEF ServiceAuthenticated
  <2>4. QED
    BY <2>2, <2>3 DEF KeyHolders, KeysSame
<1>8. NoSilentOrphan'
  <2>1. \A t \in Conn : Eraser(t) => name'[t] = name[t] /\ Eraser(t)'
    BY DEF ServiceAuthenticated, Eraser, RequesterSteps
  <2>2. \A n \in Users, d \in Conn : OrphanEntry(n, d)' => OrphanEntry(n, d)
    BY DEF ServiceAuthenticated, OrphanEntry
  <2>3. QED
    BY <2>1, <2>2, OrphanKept DEF KeysSame
<1>9. QED
  BY <1>1, <1>2, <1>3, <1>4, <1>5, <1>6, <1>7, <1>8

LEMMA AddPendingStep ==
  ASSUME Inductive, Typed', KeysSame, NEW c \in Conn, AddPending(c)
  PROVE  Inductive'
<1> USE Distinct DEF Inductive, Typed, TypeOK, Goto, maps, wire
<1>1. ConnectedLive'
  BY DEF AddPending, ConnectedLive, Emplace
<1>2. PendingListed'
  BY DEF AddPending, Emplace, PendingListed, Listed, ThreadKnows, Asking, ServiceSteps
<1>3. PairMatches'
  BY DEF AddPending, PairMatches, Pairing, BeforeRegister, Listed, Emplace
<1>4. PairExclusive'
  <2>1. \A t \in Conn : pc[t] \in Pairing => session[t].service # c
    BY DEF AddPending, PairMatches, Listed
  <2>2. \A n \in Names : pendingSessions'[n] \in {pendingSessions[n], c}
    BY DEF AddPending, Emplace
  <2>3. \A t \in Conn : pc'[t] \in Pairing => pc[t] \in Pairing
    BY DEF AddPending, Pairing
  <2>4. QED
    BY <2>1, <2>2, <2>3 DEF AddPending, PairExclusive
<1>5. KeyFree'
  <2>1. \A x \in Conn : Eligible(x)' => Eligible(x)
    BY DEF AddPending, Emplace, Eligible, BeforeRegister, Pairing, Names
  <2>2. QED
    BY <2>1, KeyFreeKept DEF KeyFree
<1>6. OneKeyPerConnection'
  BY DEF AddPending, OneKeyPerConnection, KeysSame, Emplace
<1>7. KeyHolders'
  BY DEF AddPending, KeyHolders, KeysSame, Emplace
<1>8. NoSilentOrphan'
  <2>1. \A t \in Conn : Eraser(t) => name'[t] = name[t] /\ Eraser(t)'
    BY DEF AddPending, Eraser, RequesterSteps
  <2>2. \A n \in Users, d \in Conn : OrphanEntry(n, d)' => OrphanEntry(n, d)
    BY DEF AddPending, OrphanEntry, Emplace
  <2>3. QED
    BY <2>1, <2>2, OrphanKept DEF KeysSame
<1>9. QED
  BY <1>1, <1>2, <1>3, <1>4, <1>5, <1>6, <1>7, <1>8

LEMMA EraseClientStep ==
  ASSUME Inductive, Typed', KeysSame, NEW c \in Conn, EraseClient(c)
  PROVE  Inductive'
<1> USE Distinct DEF Inductive, Typed, TypeOK, Goto, maps, wire
<1>1. ConnectedLive'
  BY DEF EraseClient, ConnectedLive, Erase
<1>2. PendingListed'
  BY DEF EraseClient, PendingListed, Listed, Erase
<1>3. PairMatches'
  BY DEF EraseClient, PairMatches, Pairing, BeforeRegister, Listed, Erase
<1>4. PairExclusive'
  BY DEF EraseClient, PairExclusive, Pairing, Erase, ThreadKnows
<1>5. KeyFree'
  <2>1. \A x \in Conn : Eligible(x)' => Eligible(x)
    BY DEF EraseClient, Erase, Eligible, BeforeRegister, Pairing, Names
  <2>2. QED
    BY <2>1, KeyFreeKept DEF KeyFree
<1>6. OneKeyPerConnection'
  BY DEF EraseClient, OneKeyPerConnection, KeysSame, Erase
<1>7. KeyHolders'
  BY DEF EraseClient, KeyHolders, KeysSame, Erase
<1>8. NoSilentOrphan'
  <2>1. \A t \in Conn : Eraser(t) => name'[t] = name[t] /\ Eraser(t)'
    BY DEF EraseClient, Eraser, RequesterSteps, Names
  <2>2. \A n \in Users, d \in Conn : OrphanEntry(n, d)' => OrphanEntry(n, d)
    BY DEF EraseClient, OrphanEntry
  <2>3. QED
    BY <2>1, <2>2, OrphanKept DEF KeysSame
<1>9. QED
  BY <1>1, <1>2, <1>3, <1>4, <1>5, <1>6, <1>7, <1>8

LEMMA ErasePendingStep ==
  ASSUME Inductive, Typed', KeysSame, NEW c \in Conn, ErasePending(c)
  PROVE  Inductive'
<1> USE Distinct DEF Inductive, Typed, TypeOK, Goto, maps, wire
<1>1. ConnectedLive'
  BY DEF ErasePending, ConnectedLive
<1>2. PendingListed'
  BY DEF ErasePending, PendingListed, Listed, Erase
<1>3. PairMatches'
  BY DEF ErasePending, PairMatches, Pairing, BeforeRegister, Listed
<1>4. PairExclusive'
  BY DEF ErasePending, PairExclusive, Pairing, Erase, ThreadKnows
<1>5. KeyFree'
  <2>1. \A x \in Conn : Eligible(x)' => Eligible(x)
    BY DEF ErasePending, Erase, Eligible, BeforeRegister, Pairing, Names
  <2>2. QED
    BY <2>1, KeyFreeKept DEF KeyFree
<1>6. OneKeyPerConnection'
  BY DEF ErasePending, OneKeyPerConnection, KeysSame
<1>7. KeyHolders'
  BY DEF ErasePending, KeyHolders, KeysSame
<1>8. NoSilentOrphan'
  <2>1. SUFFICES ASSUME NEW n \in Users, NEW d \in Conn, OrphanEntry(n, d)'
                 PROVE  d \in ToldError' \/ WillErasePending(n)'
    BY DEF NoSilentOrphan, OrphanEntry
  <2>2. OrphanEntry(n, d) /\ n # name[c]
    BY <2>1 DEF ErasePending, Erase, OrphanEntry, PendingListed, Listed, Names
  <2>3. \A t \in Conn \ {c} : pc'[t] = pc[t] /\ name'[t] = name[t]
    BY DEF ErasePending
  <2>4. WillErasePending(n) => WillErasePending(n)'
    BY <2>2, <2>3 DEF WillErasePending
  <2>5. QED
    BY <2>2, <2>4 DEF NoSilentOrphan, OrphanEntry, KeysSame
<1>9. QED
  BY <1>1, <1>2, <1>3, <1>4, <1>5, <1>6, <1>7, <1>8

LEMMA CrashStep ==
  ASSUME Inductive, Typed', KeysSame, Crash
  PROVE  Inductive'
<1> USE Distinct DEF Inductive, Typed, TypeOK, maps, wire
<1>1. /\ \A x \in Conn : pc'[x] # "closed" => pc'[x] = "free" /\ pc[x] = "free"
      /\ \A n \in Names : connectedClients'[n] = None /\ pendingSessions'[n] = None
      /\ name' = name /\ clientCn' = clientCn
  BY DEF Crash, Live
<1>2. ConnectedLive' /\ PendingListed'
  BY <1>1 DEF ConnectedLive, PendingListed
<1>3. PairMatches' /\ PairExclusive'
  BY <1>1 DEF PairMatches, PairExclusive, Pairing
<1>4. KeyFree'
  <2>1. \A t \in Conn : pc'[t] \notin Pairing /\ pc'[t] # "finalize"
    BY <1>1 DEF Pairing
  <2>2. SUFFICES ASSUME NEW x \in Conn, Eligible(x)' PROVE Keys[x] = {}
    BY KeyFreeKept
  <2>3. pc'[x] # "closed"
    BY <1>1, <2>1, <2>2 DEF Eligible, Names, BeforeRegister
  <2>4. pc[x] \in BeforeRegister
    BY <1>1, <2>3 DEF BeforeRegister
  <2>5. QED
    BY <2>4 DEF KeyFree, Eligible
<1>5. OneKeyPerConnection'
  BY DEF OneKeyPerConnection, KeysSame
<1>6. KeyHolders'
  BY <1>1 DEF KeyHolders, KeysSame
<1>7. NoSilentOrphan'
  BY <1>1 DEF NoSilentOrphan, Names
<1>8. QED
  BY <1>2, <1>3, <1>4, <1>5, <1>6, <1>7
-----------------------------------------------------------------------------
(* The inductive invariant *)

LEMMA InductiveInit == Init => Inductive
<1> SUFFICES ASSUME Init PROVE Inductive
  OBVIOUS
<1> USE Distinct DEF Init
<1>1. Typed
  BY TypedInit
<1>2. \A c \in Conn : KeysSent(c) = {}
  <2>1. \A c \in Conn : sent[c] = << >>
    OBVIOUS
  <2>2. DOMAIN << >> = {}
    OBVIOUS
  <2>3. QED
    BY <2>1, <2>2 DEF KeysSent
<1>3. \A c \in Conn : Keys[c] = {}
  BY <1>2 DEF Keys
<1>4. ConnectedLive /\ PendingListed
  BY DEF ConnectedLive, PendingListed
<1>5. PairMatches /\ PairExclusive
  BY DEF PairMatches, PairExclusive, Pairing
<1>6. KeyFree /\ OneKeyPerConnection /\ KeyHolders
  BY <1>2, <1>3 DEF KeyFree, OneKeyPerConnection, KeyHolders
<1>7. NoSilentOrphan
  BY DEF NoSilentOrphan
<1>8. QED
  BY <1>1, <1>4, <1>5, <1>6, <1>7 DEF Inductive

LEMMA FoundClient ==
  ASSUME Inductive, NEW c \in Conn, FindClient(c)
  PROVE  WillErasePending(clientCn[c])
<1> USE Distinct DEF Inductive, Typed, TypeOK
<1>1. clientCn[c] \in Users /\ clientCn[c] \in Names
  BY DEF FindClient, ThreadKnows, Asking, Names
<1>2. PICK e \in Conn : connectedClients[clientCn[c]] = e
  BY <1>1 DEF FindClient, Lookup
<1>3. /\ name[e] = clientCn[c]
      /\ pc[e] \notin {"free", "receive", "register", "erasePending", "closed"}
  BY <1>1, <1>2 DEF ConnectedLive
<1>4. pc[e] \in RequesterSteps
  BY <1>1, <1>3 DEF ThreadKnows, Steps, RequesterSteps, ServiceSteps
<1>5. QED
  BY <1>3, <1>4 DEF WillErasePending

LEMMA InductiveNext == Inductive /\ [Next]_vars => Inductive'
<1> SUFFICES ASSUME Inductive, [Next]_vars PROVE Inductive'
  OBVIOUS
<1>t. Typed /\ Typed'
  BY TypedNext DEF Inductive
<1>k. (\A c \in Conn : ~SendClientKey(c) /\ ~SendServiceKey(c)) => KeysSame
  BY <1>t, OtherStepsKeep
<1>1. ASSUME NEW c \in Conn, SendClientKey(c) PROVE Inductive'
  BY <1>1, <1>t, SendClientKeyStep
<1>2. ASSUME NEW c \in Conn, SendServiceKey(c) PROVE Inductive'
  BY <1>2, <1>t, SendServiceKeyStep
<1>3. SUFFICES ASSUME KeysSame PROVE Inductive'
  BY <1>1, <1>2, <1>k
<1>4. ASSUME NEW c \in Conn, InitiateAuthAccepted(c) PROVE Inductive'
  BY <1>4, <1>t, <1>3, InitiateAuthAcceptedStep
<1>5. ASSUME NEW c \in Conn, Register(c) PROVE Inductive'
  BY <1>5, <1>t, <1>3, RegisterStep
<1>6. ASSUME NEW c \in Conn, MatchSession(c) PROVE Inductive'
  BY <1>6, <1>t, <1>3, MatchSessionStep
<1>7. ASSUME NEW c \in Conn, ServiceAuthenticated(c) PROVE Inductive'
  BY <1>7, <1>t, <1>3, ServiceAuthenticatedStep
<1>8. ASSUME NEW c \in Conn, AddPending(c) PROVE Inductive'
  BY <1>8, <1>t, <1>3, AddPendingStep
<1>9. ASSUME NEW c \in Conn, EraseClient(c) PROVE Inductive'
  BY <1>9, <1>t, <1>3, EraseClientStep
<1>10. ASSUME NEW c \in Conn, ErasePending(c) PROVE Inductive'
  BY <1>10, <1>t, <1>3, ErasePendingStep
<1>11. ASSUME NEW c \in Conn, Accept(c) PROVE Inductive'
  <2>1. <<pc[c], "receive">> \in QuietMoves /\ pc[c] # "findClient"
    BY <1>11 DEF Accept, QuietMoves
  <2>2. QED
    BY <1>11, <1>t, <1>3, <2>1, QuietStep DEF Accept, Goto, maps, wire, Typed, TypeOK
<1>12. ASSUME NEW c \in Conn, ReceiveEnd(c) PROVE Inductive'
  <2>1. <<pc[c], "closed">> \in QuietMoves /\ pc[c] # "findClient"
    BY <1>12 DEF ReceiveEnd, QuietMoves
  <2>2. QED
    BY <1>12, <1>t, <1>3, <2>1, QuietStep DEF ReceiveEnd, Goto, maps, wire, Typed, TypeOK
<1>13. ASSUME NEW c \in Conn, ReceiveCertificateRequest(c) PROVE Inductive'
  <2>1. <<pc[c], "closed">> \in QuietMoves /\ pc[c] # "findClient"
    BY <1>13 DEF ReceiveCertificateRequest, QuietMoves
  <2>2. QED
    BY <1>13, <1>t, <1>3, <2>1, QuietStep DEF ReceiveCertificateRequest, Goto, maps, wire, Typed, TypeOK
<1>14. ASSUME NEW c \in Conn, ReceiveIgnored(c) PROVE Inductive'
  <2>1. <<pc[c], "receive">> \in QuietMoves /\ pc' = [pc EXCEPT ![c] = "receive"]
    BY <1>14, <1>t DEF ReceiveIgnored, QuietMoves, Typed, TypeOK
  <2>2. QED
    BY <1>14, <1>t, <1>3, <2>1, QuietStep DEF ReceiveIgnored, maps
<1>15. ASSUME NEW c \in Conn, InitiateAuthRejected(c) PROVE Inductive'
  <2>1. <<pc[c], "closed">> \in QuietMoves /\ pc[c] # "findClient"
    BY <1>15 DEF InitiateAuthRejected, QuietMoves
  <2>2. QED
    BY <1>15, <1>t, <1>3, <2>1, QuietStep DEF InitiateAuthRejected, Goto, maps, wire, Typed, TypeOK
<1>16. ASSUME NEW c \in Conn, ClientAuthenticated(c) PROVE Inductive'
  <2>1. <<pc[c], "waitForSessionData">> \in QuietMoves /\ pc[c] # "findClient"
    BY <1>16 DEF ClientAuthenticated, QuietMoves
  <2>2. QED
    BY <1>16, <1>t, <1>3, <2>1, QuietStep DEF ClientAuthenticated, Goto, maps, wire, Typed, TypeOK
<1>17. ASSUME NEW c \in Conn, ClientRejected(c) PROVE Inductive'
  <2>1. <<pc[c], "fail">> \in QuietMoves /\ pc[c] # "findClient"
    BY <1>17 DEF ClientRejected, QuietMoves
  <2>2. QED
    BY <1>17, <1>t, <1>3, <2>1, QuietStep DEF ClientRejected, Goto, maps, wire, Typed, TypeOK
<1>18. ASSUME NEW c \in Conn, WaitExpires(c) PROVE Inductive'
  <2>1. <<pc[c], "fail">> \in QuietMoves /\ pc[c] # "findClient"
    BY <1>18 DEF WaitExpires, QuietMoves
  <2>2. QED
    BY <1>18, <1>t, <1>3, <2>1, QuietStep DEF WaitExpires, Goto, maps, wire, Typed, TypeOK
<1>19. ASSUME NEW c \in Conn, FinalizeFails(c) PROVE Inductive'
  <2>1. <<pc[c], "fail">> \in QuietMoves /\ pc[c] # "findClient"
    BY <1>19 DEF FinalizeFails, QuietMoves
  <2>2. QED
    BY <1>19, <1>t, <1>3, <2>1, QuietStep DEF FinalizeFails, Goto, maps, wire, Typed, TypeOK
<1>20. ASSUME NEW c \in Conn, FinalizeExpired(c) PROVE Inductive'
  <2>1. <<pc[c], "eraseClient">> \in QuietMoves /\ pc[c] # "findClient"
    BY <1>20 DEF FinalizeExpired, QuietMoves
  <2>2. QED
    BY <1>20, <1>t, <1>3, <2>1, QuietStep DEF FinalizeExpired, Goto, maps, wire, Typed, TypeOK
<1>21. ASSUME NEW c \in Conn, SendServiceKeyFails(c) PROVE Inductive'
  <2>1. <<pc[c], "fail">> \in QuietMoves /\ pc[c] # "findClient"
    BY <1>21 DEF SendServiceKeyFails, QuietMoves
  <2>2. QED
    BY <1>21, <1>t, <1>3, <2>1, QuietStep DEF SendServiceKeyFails, Goto, maps, wire, Typed, TypeOK
<1>22. ASSUME NEW c \in Conn, Fail(c) PROVE Inductive'
  <2>1. <<pc[c], "findPending">> \in QuietMoves /\ pc[c] # "findClient"
    BY <1>22 DEF Fail, QuietMoves
  <2>2. QED
    BY <1>22, <1>t, <1>3, <2>1, QuietStep DEF Fail, Goto, maps, wire, Typed, TypeOK
<1>36. ASSUME NEW c \in Conn, FailPending(c) PROVE Inductive'
  <2>1. <<pc[c], "eraseClient">> \in QuietMoves /\ pc[c] # "findClient"
    BY <1>36 DEF FailPending, QuietMoves
  <2>2. QED
    BY <1>36, <1>t, <1>3, <2>1, QuietStep DEF FailPending, Goto, maps, wire, Typed, TypeOK
<1>23. ASSUME NEW c \in Conn, ServiceUnhealthy(c) PROVE Inductive'
  <2>1. <<pc[c], "eraseClient">> \in QuietMoves /\ pc[c] # "findClient"
    BY <1>23 DEF ServiceUnhealthy, QuietMoves
  <2>2. QED
    BY <1>23, <1>t, <1>3, <2>1, QuietStep DEF ServiceUnhealthy, Goto, maps, wire, Typed, TypeOK
<1>24. ASSUME NEW c \in Conn, ServiceRejected(c) PROVE Inductive'
  <2>1. <<pc[c], "eraseClient">> \in QuietMoves /\ pc[c] # "findClient"
    BY <1>24 DEF ServiceRejected, QuietMoves
  <2>2. QED
    BY <1>24, <1>t, <1>3, <2>1, QuietStep DEF ServiceRejected, Goto, maps, wire, Typed, TypeOK
<1>25. ASSUME NEW c \in Conn, ServiceNameFails(c) PROVE Inductive'
  <2>1. <<pc[c], "eraseClient">> \in QuietMoves /\ pc[c] # "findClient"
    BY <1>25 DEF ServiceNameFails, QuietMoves
  <2>2. QED
    BY <1>25, <1>t, <1>3, <2>1, QuietStep DEF ServiceNameFails, Goto, maps, wire, Typed, TypeOK
<1>26. ASSUME NEW c \in Conn, SendTicket(c) PROVE Inductive'
  <2>1. <<pc[c], "sendRedirect">> \in QuietMoves /\ pc[c] # "findClient"
    BY <1>26 DEF SendTicket, QuietMoves
  <2>2. QED
    BY <1>26, <1>t, <1>3, <2>1, QuietStep DEF SendTicket, Goto, maps, wire, Typed, TypeOK
<1>27. ASSUME NEW c \in Conn, SendRedirect(c) PROVE Inductive'
  <2>1. <<pc[c], "eraseClient">> \in QuietMoves /\ pc[c] # "findClient"
    BY <1>27 DEF SendRedirect, QuietMoves
  <2>2. QED
    BY <1>27, <1>t, <1>3, <2>1, QuietStep DEF SendRedirect, Goto, maps, wire, Typed, TypeOK
<1>28. ASSUME NEW c \in Conn, FindClient(c) PROVE Inductive'
  <2>1. <<pc[c], "sendTicket">> \in QuietMoves
    BY <1>28 DEF FindClient, QuietMoves
  <2>2. WillErasePending(clientCn[c])
    BY <1>28, FoundClient
  <2>3. \A t \in Conn \ {c} : session'[t] = session[t]
    BY <1>28, <1>t DEF FindClient, Typed, TypeOK
  <2>4. QED
    BY <1>28, <1>t, <1>3, <2>1, <2>2, <2>3, QuietStep DEF FindClient, Goto, maps
<1>29. ASSUME NEW c \in Conn, FindClientFails(c) PROVE Inductive'
  <2>1. <<pc[c], "eraseClient">> \in QuietMoves
    BY <1>29 DEF FindClientFails, QuietMoves
  <2>2. c \in ToldError'
    BY <1>29, <1>t, PostError DEF FindClientFails, Typed
  <2>3. QED
    BY <1>29, <1>t, <1>3, <2>1, <2>2, QuietStep DEF FindClientFails, Goto, maps
<1>30. ASSUME NEW c \in Conn, NotifyFails(c) PROVE Inductive'
  <2>1. <<pc[c], "eraseClient">> \in QuietMoves /\ pc[c] # "findClient"
    BY <1>30 DEF NotifyFails, QuietMoves
  <2>2. QED
    BY <1>30, <1>t, <1>3, <2>1, QuietStep DEF NotifyFails, Goto, maps, Typed, TypeOK
<1>31. ASSUME NEW c \in Conn, PeerClose(c) PROVE Inductive'
  BY <1>31, <1>t, <1>3, OutsideStep DEF PeerClose, maps
<1>32. ASSUME NEW c \in Conn, NEW p \in Sends[c], PeerSends(c, p) PROVE Inductive'
  BY <1>32, <1>t, <1>3, OutsideStep DEF PeerSends, maps
<1>33. CASE Crash
  BY <1>33, <1>t, <1>3, CrashStep
<1>34. CASE UNCHANGED vars
  BY <1>34, <1>t, <1>3, OutsideStep DEF vars
<1>35. QED
  BY <1>1, <1>2, <1>4, <1>5, <1>6, <1>7, <1>8, <1>9, <1>10, <1>11, <1>12, <1>13, <1>14, <1>15, <1>16, <1>17, <1>18, <1>19, <1>20, <1>21, <1>22, <1>23, <1>24, <1>25, <1>26, <1>27, <1>28, <1>29, <1>30, <1>31, <1>32, <1>33, <1>34, <1>36
     DEF Next, Thread, ReceiveLoop, RequesterAuthenticate, ServiceAuthenticate, Cleanup
-----------------------------------------------------------------------------
(* Theorems *)

\* Every variable keeps its type, whatever the peers send and however threads
\* interleave: in particular only names of the two kinds of certificate that
\* the TTP signed ever become a thread's name or a key of the maps.
THEOREM TypeCorrect == Spec => []TypeOK
<1>1. Init => Typed
  BY TypedInit
<1>2. Typed /\ [Next]_vars => Typed'
  BY TypedNext
<1>3. Typed => TypeOK
  BY DEF Typed
<1>4. QED
  BY <1>1, <1>2, <1>3, PTL DEF Spec

\* The strengthening that makes the safety properties inductive.
THEOREM Invariance == Spec => []Inductive
<1>1. Init => Inductive
  BY InductiveInit
<1>2. Inductive /\ [Next]_vars => Inductive'
  BY InductiveNext
<1>3. QED
  BY <1>1, <1>2, PTL DEF Spec

\* A connection under connectedClients is that of a thread which has registered
\* and not yet cleaned up: the weak_ptr another thread finds can be locked.
THEOREM RegisteredAreLive == Spec => []ConnectedLive
<1>1. Inductive => ConnectedLive
  BY DEF Inductive
<1>2. QED
  BY <1>1, Invariance, PTL

\* No connection is given two session keys.
THEOREM OneKey == Spec => []OneKeyPerConnection
<1>1. Inductive => OneKeyPerConnection
  BY DEF Inductive
<1>2. QED
  BY <1>1, Invariance, PTL

LEMMA InductiveBinds == Inductive => KeyBinding
<1>1. SUFFICES ASSUME Inductive, NEW c \in Conn, NEW d \in Conn, c # d,
                      NEW k \in Keys[c], k \in Keys[d]
               PROVE  \/ name[c] \in Users /\ name[d] \in Services /\ clientCn[d] = name[c]
                      \/ name[d] \in Users /\ name[c] \in Services /\ clientCn[c] = name[d]
  BY DEF KeyBinding
<1>2. /\ name[k] \in Users
      /\ \/ name[c] = name[k]
         \/ name[c] \in Services /\ clientCn[c] = name[k]
      /\ \/ name[d] = name[k]
         \/ name[d] \in Services /\ clientCn[d] = name[k]
      /\ (name[c] \in Users) # (name[d] \in Users)
  BY <1>1 DEF Inductive, KeyHolders
<1>3. QED
  BY <1>2, Distinct

\* Two connections hold the same session key only when one is a requester's
\* and the other a service's that asked for that requester's user.
THEOREM KeysBindPairs == Spec => []KeyBinding
BY InductiveBinds, Invariance, PTL

\* A service left in pendingSessions by its own thread was told of the failure
\* or will still be found or erased by a requester's thread.
THEOREM OrphansAreSeen == Spec => []NoSilentOrphan
<1>1. Inductive => NoSilentOrphan
  BY DEF Inductive
<1>2. QED
  BY <1>1, Invariance, PTL
=============================================================================
