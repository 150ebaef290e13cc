-------------------------- MODULE Handshake_proofs --------------------------
(***************************************************************************)
(* What TLAPS proves about Handshake for every set of users, services,     *)
(* links and attempts: with these two programs around it the TTP is the    *)
(* TTP of Ttp.tla, so that all of Ttp_proofs holds of the closed system,   *)
(* and a session key is held by one client and one server's thread, which  *)
(* is at the other end of that client's link.                              *)
(***************************************************************************)
EXTENDS Handshake, Ttp_proofs

(***************************************************************************)
(* The parts of the inductive invariant                                    *)
(***************************************************************************)

\* A client has a connection to the TTP during a handshake and only then.
TtpHeld ==
  /\ cpc \in [Users -> ClientSteps]
  /\ ttp \in [Users -> Attempts \cup {None}]
  /\ \A k \in Users : ttp[k] = None <=> cpc[k] \in {"ui", "exited"}

\* A connection is in use by one client, and was accepted for it.
Owned ==
  /\ \A c \in Conn : pc[c] = "free" => inbox[c] = <<>>
  /\ \A k \in Users, c \in Attempts : ttp[k] = c => pc[c] # "free"
  /\ \A k, n \in Users : ttp[k] = ttp[n] /\ ttp[k] # None => k = n

\* Whoever writes to connection c introduces itself as n.
Introduces(c, n) ==
  /\ name[c] \in {None, n}
  /\ \A i \in DOMAIN inbox[c] :
       inbox[c][i].type = "InitiateAuth" => inbox[c][i] = InitiateAuth(n)

Introduced ==
  /\ \A k \in Users, c \in Attempts : ttp[k] = c => Introduces(c, k)
  /\ \A l \in Links : Introduces(l, ServerCert[l])

\* A key that is held came on a connection of its holder.
KeysReceived ==
  /\ \A k \in Users : clientKey[k] # None =>
       \E c \in Attempts : name[c] = k /\ clientKey[k] \in Keys[c]
  /\ \A l \in Links : serverKey[l] # None => serverKey[l] \in Keys[l]

\* The types of the programs' variables
ProgramTypes ==
  /\ link \in [Users -> Links \cup {None}]
  /\ cert \in [Users -> Users \cup {Forged, None}]
  /\ clientKey \in [Users -> Conn \cup {None}]
  /\ spc \in [Links -> ServerSteps]
  /\ userCert \in [Links -> Users \cup {Forged, None}]
  /\ serverKey \in [Links -> Conn \cup {None}]
  /\ toServer \in [Links -> Seq(Users \cup {Forged, None})]
  /\ broken \subseteq Links
  /\ read \in [Conn -> Nat]

ReadBehind == \A c \in Conn : read[c] <= Len(sent[c])

-----------------------------------------------------------------------------
(* The programs are an environment of the TTP *)

LEMMA HeldInit == HandshakeInit => TtpHeld
BY HandshakeAssumption, TtpAssumption
   DEF HandshakeInit, TtpHeld, ClientSteps, Attempts

LEMMA HeldNext == TtpHeld /\ [HandshakeNext]_allVars => TtpHeld'
<1> SUFFICES ASSUME TtpHeld, [HandshakeNext]_allVars PROVE TtpHeld'
  OBVIOUS
<1> USE HandshakeAssumption, TtpAssumption
    DEF TtpHeld, ClientSteps, Attempts, ClientGoto, clients, programs
<1>1. ASSUME NEW k \in Users, NEW l \in Links, Connect(k, l) PROVE TtpHeld'
  BY <1>1 DEF Connect
<1>2. ASSUME NEW k \in Users, NEW c \in Attempts, RequestService(k, c) PROVE TtpHeld'
  BY <1>2 DEF RequestService
<1>3. ASSUME NEW k \in Users, Exit(k) PROVE TtpHeld'
  BY <1>3 DEF Exit
<1>4. ASSUME NEW k \in Users, Client(k) PROVE TtpHeld'
  <2>1. CASE InitiateAuthentication(k)
    BY <2>1 DEF InitiateAuthentication
  <2>2. CASE SendServiceRequest(k)
    BY <2>2 DEF SendServiceRequest
  <2>3. CASE ReceiveTicket(k)
    BY <2>3 DEF ReceiveTicket
  <2>4. CASE SubmitUserAuthData(k)
    BY <2>4 DEF SubmitUserAuthData
  <2>5. CASE ReceiveSessionKey(k)
    BY <2>5 DEF ReceiveSessionKey
  <2>6. CASE ClientFails(k)
    BY <2>6 DEF ClientFails
  <2>7. QED
    BY <1>4, <2>1, <2>2, <2>3, <2>4, <2>5, <2>6
       DEF Client, ClientRefuses, ServiceRequestFails, LinkWakesClient
<1>5. ASSUME NEW l \in Links, Server(l) PROVE TtpHeld'
  BY <1>5 DEF Server, ReceiveServiceRequest, ConnectTtp, ServerInitiates,
     SendServerAuthRequest, ReceiveServerAuthOk, StartSession, ServerFails,
     SkipPacket, ServerReturns
<1>6. CASE UNCHANGED programs \/ \E l \in Links : LinkBreaks(l)
  BY <1>6 DEF LinkBreaks
<1>7. CASE UNCHANGED allVars
  BY <1>7 DEF allVars
<1>8. QED
  BY <1>1, <1>2, <1>3, <1>4, <1>5, <1>6, <1>7 DEF HandshakeNext, Unattended

LEMMA SendTtpStep ==
  ASSUME NEW c \in Conn, NEW p, SendTtp(c, p)
  PROVE  [Next]_vars
BY DEF SendTtp, PeerSends, Next

LEMMA CloseTtpStep ==
  ASSUME NEW c \in Conn, CloseTtp(c)
  PROVE  [Next]_vars
BY DEF CloseTtp, Next

\* A step of either program is one its TTP's environment may take, or none.
LEMMA ProgramStep == TtpHeld /\ [HandshakeNext]_allVars => [Next]_vars
<1> SUFFICES ASSUME TtpHeld, [HandshakeNext]_allVars PROVE [Next]_vars
  OBVIOUS
<1>a. /\ Links \subseteq Conn /\ Attempts \subseteq Conn
      /\ \A k \in Users : cpc[k] \notin {"ui", "exited"} => ttp[k] \in Conn
  BY HandshakeAssumption DEF TtpHeld, Attempts
<1>1. ASSUME NEW k \in Users, NEW l \in Links, Connect(k, l) PROVE [Next]_vars
  BY <1>1 DEF Connect
<1>2. ASSUME NEW k \in Users, NEW c \in Attempts, RequestService(k, c)
      PROVE  [Next]_vars
  BY <1>2, <1>a DEF RequestService, Next
<1>3. ASSUME NEW k \in Users, Exit(k) PROVE [Next]_vars
  BY <1>3 DEF Exit
<1>4. ASSUME NEW k \in Users, Client(k) PROVE [Next]_vars
  <2>1. CASE InitiateAuthentication(k)
    BY <2>1, <1>a, SendTtpStep DEF InitiateAuthentication
  <2>2. CASE SendServiceRequest(k)
    BY <2>2 DEF SendServiceRequest
  <2>3. CASE ReceiveTicket(k)
    BY <2>3 DEF ReceiveTicket
  <2>4. CASE SubmitUserAuthData(k)
    BY <2>4, <1>a, SendTtpStep DEF SubmitUserAuthData
  <2>5. CASE ReceiveSessionKey(k)
    BY <2>5, <1>a, CloseTtpStep DEF ReceiveSessionKey
  <2>6. CASE ClientFails(k) /\ cpc[k] \notin {"ui", "exited"}
    BY <2>6, <1>a, CloseTtpStep DEF ClientFails
  <2>7. QED
    BY <1>4, <2>1, <2>2, <2>3, <2>4, <2>5, <2>6
       DEF Client, ClientRefuses, ServiceRequestFails, LinkWakesClient, ClientWaits
<1>5. ASSUME NEW l \in Links, Server(l) PROVE [Next]_vars
  <2> USE <1>5, <1>a
  <2>1. CASE ConnectTtp(l)
    BY <2>1 DEF ConnectTtp, Next
  <2>2. CASE ServerInitiates(l)
    BY <2>2, SendTtpStep DEF ServerInitiates
  <2>3. CASE SendServerAuthRequest(l)
    BY <2>3, SendTtpStep DEF SendServerAuthRequest
  <2>4. CASE ServerReturns(l)
    BY <2>4, CloseTtpStep DEF ServerReturns
  <2>5. QED
    BY <2>1, <2>2, <2>3, <2>4
       DEF Server, ReceiveServiceRequest, ReceiveServerAuthOk, StartSession,
           ServerFails, SkipPacket
<1>6. ASSUME NEW c \in Conn, Thread(c) PROVE [Next]_vars
  BY <1>6 DEF Next
<1>7. CASE Crash
  BY <1>7 DEF Next
<1>8. CASE UNCHANGED allVars \/ \E l \in Links : LinkBreaks(l)
  BY <1>8 DEF allVars, LinkBreaks
<1>9. QED
  BY <1>1, <1>2, <1>3, <1>4, <1>5, <1>6, <1>7, <1>8 DEF HandshakeNext, Unattended

\* The TTP under these two programs behaves as Ttp.tla says it does under any:
\* what holds of Ttp holds of the system that clients, servers and TTP make.
THEOREM ImplementsTtp == HandshakeSpec => Spec
<1>1. HandshakeInit => Init
  BY DEF HandshakeInit
<1>2. QED
  BY <1>1, HeldInit, HeldNext, ProgramStep, PTL DEF HandshakeSpec, Spec

-----------------------------------------------------------------------------
(* What a step of the TTP leaves of what it wrote and of what it knows *)

\* What was written to a connection stays written.
Grown ==
  \A c \in Conn : /\ Len(sent[c]) <= Len(sent'[c])
                  /\ \A i \in DOMAIN sent[c] : i \in DOMAIN sent'[c]
                                               /\ sent'[c][i] = sent[c][i]

LEMMA AppendGrows ==
  ASSUME NEW S, NEW q \in Seq(S), NEW p \in S
  PROVE  /\ Append(q, p) \in Seq(S)
         /\ Len(q) <= Len(Append(q, p))
         /\ \A i \in DOMAIN q : i \in DOMAIN Append(q, p) /\ Append(q, p)[i] = q[i]
OBVIOUS

LEMMA SameGrows == TypeOK /\ UNCHANGED sent => Grown
BY DEF TypeOK, Grown

LEMMA PostGrows ==
  ASSUME TypeOK, NEW c, NEW p \in Packet, Post(c, p)
  PROVE  Grown
<1> SUFFICES ASSUME NEW d \in Conn
             PROVE  /\ Len(sent[d]) <= Len(sent'[d])
                    /\ \A i \in DOMAIN sent[d] : i \in DOMAIN sent'[d]
                                                 /\ sent'[d][i] = sent[d][i]
  BY DEF Grown
<1>1. sent[d] \in Seq(Packet) /\ Len(sent[d]) \in Nat
  BY DEF TypeOK
<1>2. sent'[d] = sent[d] \/ sent'[d] = Append(sent[d], p)
  BY DEF Post, TypeOK
<1>3. QED
  BY <1>1, <1>2, AppendGrows

LEMMA PostErrorsGrows ==
  ASSUME TypeOK, NEW cs, PostErrors(cs)
  PROVE  Grown
<1> SUFFICES ASSUME NEW d \in Conn
             PROVE  /\ Len(sent[d]) <= Len(sent'[d])
                    /\ \A i \in DOMAIN sent[d] : i \in DOMAIN sent'[d]
                                                 /\ sent'[d][i] = sent[d][i]
  BY DEF Grown
<1>1. sent[d] \in Seq(Packet) /\ Len(sent[d]) \in Nat
  BY DEF TypeOK
<1>2. sent'[d] = sent[d] \/ sent'[d] = Append(sent[d], Error)
  BY DEF PostErrors
<1>3. QED
  BY <1>1, <1>2, AppendGrows, PacketTypes

\* A thread writes to the ends of connections, and to nothing it wrote before.
LEMMA ThreadGrows ==
  ASSUME Typed, NEW c \in Conn, Thread(c)
  PROVE  Grown
<1> USE DEF Typed
<1>1. ASSUME NEW d, NEW p \in Packet, Post(d, p) PROVE Grown
  BY <1>1, PostGrows
<1>2. ASSUME NEW cs, PostErrors(cs) PROVE Grown
  BY <1>2, PostErrorsGrows
<1>3. CASE UNCHANGED sent
  BY <1>3, SameGrows
<1>4. CASE ReceiveLoop(c)
  BY <1>1, <1>3, <1>4, PacketTypes
     DEF ReceiveLoop, ReceiveEnd, ReceiveCertificateRequest, ReceiveIgnored,
         InitiateAuthAccepted, InitiateAuthRejected, Register, wire
<1>5. CASE RequesterAuthenticate(c)
  BY <1>1, <1>2, <1>3, <1>5, PacketTypes
     DEF RequesterAuthenticate, ClientAuthenticated, ClientRejected,
         MatchSession, WaitExpires, FinalizeFails, FinalizeExpired,
         SendClientKey, SendServiceKey, SendServiceKeyFails, Fail, FailPending, wire
<1>6. CASE ServiceRejected(c)
  <2> SUFFICES ASSUME NEW d \in Conn
               PROVE  /\ Len(sent[d]) <= Len(sent'[d])
                      /\ \A i \in DOMAIN sent[d] : i \in DOMAIN sent'[d]
                                                   /\ sent'[d][i] = sent[d][i]
    BY DEF Grown
  <2>1. sent[d] \in Seq(Packet) /\ Len(sent[d]) \in Nat
    BY DEF TypeOK
  <2>2. Append(sent[d], Error) \in Seq(Packet) /\ Len(Append(sent[d], Error)) \in Nat
    BY <2>1, PacketTypes
  <2>3. \/ sent'[d] = sent[d]
        \/ sent'[d] = Append(Append(sent[d], Error), Error)
    BY <1>6 DEF ServiceRejected, TypeOK
  <2>4. QED
    BY <2>1, <2>2, <2>3, AppendGrows, PacketTypes
<1>7. CASE ServiceAuthenticate(c) /\ ~ServiceRejected(c)
  <2>1. ASSUME SendTicket(c) PROVE Grown
    <3>1. pc[c] \in Asking /\ pc[c] \in ServiceSteps \ {"eraseClient"}
      BY <2>1 DEF SendTicket, Asking, ServiceSteps
    <3>2. clientCn[c] \in Users /\ name[c] \in Services
      BY <3>1 DEF ThreadKnows
    <3>3. QED
      BY <1>1, <2>1, <3>2, PacketTypes DEF SendTicket
  <2>2. QED
    BY <1>1, <1>2, <1>3, <1>7, <2>1, PacketTypes
       DEF ServiceAuthenticate, ServiceUnhealthy, ServiceAuthenticated,
           ServiceNameFails, AddPending, FindClient, FindClientFails,
           SendRedirect, NotifyFails, wire
<1>8. CASE Cleanup(c)
  BY <1>3, <1>8 DEF Cleanup, EraseClient, ErasePending, wire
<1>9. QED
  BY <1>4, <1>5, <1>6, <1>7, <1>8 DEF Thread

LEMMA NextGrows == Typed /\ [Next]_vars => Grown
BY ThreadGrows, SameGrows
   DEF Next, vars, wire, Typed, Accept, PeerClose, PeerSends, Crash

\* A thread takes its name from the InitiateAuth it reads, once; it only ever
\* shortens its own inbox.
LEMMA ThreadFrame ==
  ASSUME Typed, NEW c \in Conn, Thread(c)
  PROVE  /\ pc[c] # "free"
         /\ \A d \in Conn : (pc'[d] = "free") = (pc[d] = "free")
         /\ \/ name' = name
            \/ /\ name[c] = None /\ inbox[c] # <<>>
               /\ \E n \in Names : /\ Head(inbox[c]) = InitiateAuth(n)
                                   /\ name' = [name EXCEPT ![c] = n]
         /\ \/ inbox' = inbox
            \/ inbox[c] # <<>> /\ inbox' = [inbox EXCEPT ![c] = Tail(@)]
<1> USE DEF Typed, TypeOK, Goto, wire, Receives, TakePacket
<1>1. CASE ReceiveLoop(c)
  BY <1>1 DEF ThreadKnows, ReceiveLoop, ReceiveEnd, ReceiveCertificateRequest,
     ReceiveIgnored, InitiateAuthAccepted, InitiateAuthRejected, Register
<1>2. CASE RequesterAuthenticate(c)
  BY <1>2 DEF RequesterAuthenticate, ClientAuthenticated, ClientRejected,
     MatchSession, WaitExpires, FinalizeFails, FinalizeExpired,
     SendClientKey, SendServiceKey, SendServiceKeyFails, Fail, FailPending
<1>3. CASE ServiceAuthenticate(c)
  BY <1>3 DEF ServiceAuthenticate, ServiceUnhealthy, ServiceAuthenticated,
     ServiceRejected, ServiceNameFails, AddPending, FindClient,
     FindClientFails, SendTicket, SendRedirect, NotifyFails
<1>4. CASE Cleanup(c)
  BY <1>4 DEF Cleanup, EraseClient, ErasePending
<1>5. QED
  BY <1>1, <1>2, <1>3, <1>4 DEF Thread

-----------------------------------------------------------------------------
(* Who introduces itself on which connection *)

LEMMA OneCertificate ==
  ASSUME NEW a \in Names \cup {Forged}, NEW b \in Names \cup {Forged},
         InitiateAuth(a) = InitiateAuth(b)
  PROVE  a = b
<1>1. \A x \in Names \cup {Forged} :
        /\ x \in Services => InitiateAuth(x).service = x
        /\ x \notin Services => /\ InitiateAuth(x).service = None
                                /\ InitiateAuth(x).user = x
  BY TtpAssumption DEF InitiateAuth, Msg, Names
<1>2. QED
  BY <1>1, TtpAssumption DEF Names

\* What the two programs may do to the TTP's side of their connections
LEMMA SendFrame ==
  ASSUME NEW c \in Conn, NEW p, SendTtp(c, p)
  PROVE  /\ UNCHANGED <<pc, name, clientCn, sent>>
         /\ \/ inbox' = inbox
            \/ pc[c] # "free" /\ inbox' = [inbox EXCEPT ![c] = Append(@, p)]
BY DEF SendTtp, PeerSends, vars

LEMMA CloseFrame ==
  ASSUME NEW c, CloseTtp(c)
  PROVE  UNCHANGED <<pc, name, clientCn, sent, inbox>>
BY DEF CloseTtp, PeerClose, vars

LEMMA ThreadIntroduces ==
  ASSUME Typed, NEW c \in Conn, Thread(c),
         NEW d \in Conn, NEW m \in Names \cup {Forged}, Introduces(d, m)
  PROVE  Introduces(d, m)'
<1> USE DEF Introduces
<1>0. inbox[d] \in Seq(Packet) /\ inbox[c] \in Seq(Packet)
  BY DEF Typed, TypeOK
<1>1. name'[d] \in {None, m}
  <2>1. CASE name' = name
    BY <2>1
  <2>2. CASE name' # name
    <3>1. PICK n \in Names : /\ inbox[c] # <<>> /\ Head(inbox[c]) = InitiateAuth(n)
                             /\ name' = [name EXCEPT ![c] = n]
      BY <2>2, ThreadFrame
    <3>2. CASE d = c
      <4>1. inbox[d][1] = InitiateAuth(n) /\ 1 \in DOMAIN inbox[d]
        BY <1>0, <3>1, <3>2
      <4>2. InitiateAuth(n).type = "InitiateAuth"
        BY DEF InitiateAuth, Msg
      <4>3. n = m
        BY <4>1, <4>2, OneCertificate
      <4>4. QED
        BY <3>1, <4>3 DEF Typed, TypeOK
    <3>3. CASE d # c
      BY <3>1, <3>3
    <3>4. QED
      BY <3>2, <3>3
  <2>3. QED
    BY <2>1, <2>2
<1>2. \A i \in DOMAIN inbox'[d] :
        inbox'[d][i].type = "InitiateAuth" => inbox'[d][i] = InitiateAuth(m)
  <2>1. CASE inbox'[d] = inbox[d]
    BY <2>1
  <2>2. CASE inbox'[d] # inbox[d]
    <3>1. d = c /\ inbox[d] # <<>> /\ inbox'[d] = Tail(inbox[d])
      BY <2>2, ThreadFrame DEF Typed, TypeOK
    <3>2. \A i \in DOMAIN Tail(inbox[d]) :
            i + 1 \in DOMAIN inbox[d] /\ Tail(inbox[d])[i] = inbox[d][i + 1]
      BY <1>0, <3>1
    <3>3. QED
      BY <3>1, <3>2
  <2>3. QED
    BY <2>1, <2>2
<1>3. QED
  BY <1>1, <1>2

LEMMA SendIntroduces ==
  ASSUME Typed, NEW c \in Conn, NEW p, SendTtp(c, p),
         NEW d \in Conn, NEW m, Introduces(d, m),
         d = c /\ p.type = "InitiateAuth" => p = InitiateAuth(m)
  PROVE  Introduces(d, m)'
<1>0. inbox[d] \in Seq(Packet)
  BY DEF Typed, TypeOK
<1>1. \/ inbox'[d] = inbox[d]
      \/ d = c /\ inbox'[d] = Append(inbox[d], p)
  BY SendFrame DEF Typed, TypeOK
<1>2. name'[d] = name[d]
  BY SendFrame
<1>3. CASE inbox'[d] = inbox[d]
  BY <1>2, <1>3 DEF Introduces
<1>4. CASE d = c /\ inbox'[d] = Append(inbox[d], p)
  <2>1. \A i \in DOMAIN Append(inbox[d], p) :
          \/ i \in DOMAIN inbox[d] /\ Append(inbox[d], p)[i] = inbox[d][i]
          \/ Append(inbox[d], p)[i] = p
    BY <1>0
  <2>2. QED
    BY <1>2, <1>4, <2>1 DEF Introduces
<1>5. QED
  BY <1>1, <1>3, <1>4

LEMMA SameIntroduces ==
  ASSUME NEW d, NEW m, Introduces(d, m), UNCHANGED <<name, inbox>>
  PROVE  Introduces(d, m)'
BY DEF Introduces

Known == Typed /\ TtpHeld /\ Owned /\ Introduced

LEMMA KnownInit == HandshakeInit => Known
<1> SUFFICES ASSUME HandshakeInit PROVE Known
  OBVIOUS
<1>1. Typed /\ TtpHeld
  BY TypedInit, HeldInit DEF HandshakeInit
<1>2. Owned
  BY HandshakeAssumption, TtpAssumption DEF HandshakeInit, Init, Owned, Attempts
<1>3. Introduced
  BY HandshakeAssumption, TtpAssumption
     DEF HandshakeInit, Init, Introduced, Introduces, Attempts
<1>4. QED
  BY <1>1, <1>2, <1>3 DEF Known

\* No connection is accepted, written to or read from here.
LEMMA QuietKeeps ==
  ASSUME Known, UNCHANGED <<name, inbox>>,
         \A d \in Conn : pc'[d] = "free" => pc[d] = "free",
         \A k \in Users : ttp'[k] \in {ttp[k], None}
  PROVE  Owned' /\ Introduced'
<1>1. Owned'
  BY HandshakeAssumption, TtpAssumption DEF Known, Owned, Attempts
<1>2. Introduced'
  <2>1. ASSUME NEW k \in Users, NEW c \in Attempts, ttp'[k] = c
        PROVE  Introduces(c, k)'
    BY <2>1, SameIntroduces, TtpAssumption DEF Known, Introduced, Attempts
  <2>2. ASSUME NEW l \in Links PROVE Introduces(l, ServerCert[l])'
    BY SameIntroduces DEF Known, Introduced
  <2>3. QED
    BY <2>1, <2>2 DEF Introduced
<1>3. QED
  BY <1>1, <1>2

\* A program introduces itself, or writes something else.
LEMMA SendKeeps ==
  ASSUME Known, NEW c \in Conn, NEW p, SendTtp(c, p), UNCHANGED ttp,
         p.type = "InitiateAuth" =>
           /\ \A k \in Users : ttp[k] = c => p = InitiateAuth(k)
           /\ c \in Links => p = InitiateAuth(ServerCert[c])
  PROVE  Owned' /\ Introduced'
<1> USE HandshakeAssumption DEF Known, Attempts
<1>1. Owned'
  BY SendFrame DEF Owned, Typed, TypeOK
<1>2. Introduced'
  <2>1. ASSUME NEW k \in Users, NEW d \in Attempts, ttp'[k] = d
        PROVE  Introduces(d, k)'
    BY <2>1, SendIntroduces DEF Introduced
  <2>2. ASSUME NEW l \in Links PROVE Introduces(l, ServerCert[l])'
    BY SendIntroduces DEF Introduced
  <2>3. QED
    BY <2>1, <2>2 DEF Introduced
<1>3. QED
  BY <1>1, <1>2

\* A client's new connection: nobody has used it before.
LEMMA RequestKeeps ==
  ASSUME Known, NEW k \in Users, NEW c \in Attempts, RequestService(k, c)
  PROVE  Owned' /\ Introduced'
<1> USE HandshakeAssumption, TtpAssumption DEF Known, Attempts
<1>1. /\ pc[c] = "free" /\ pc' = [pc EXCEPT ![c] = "receive"]
      /\ UNCHANGED <<name, inbox>> /\ ttp' = [ttp EXCEPT ![k] = c]
  BY DEF RequestService, Accept, Goto, wire
<1>2. inbox[c] = <<>> /\ name[c] = None /\ \A n \in Users : ttp[n] # c
  BY <1>1 DEF Owned, Typed, ThreadKnows
<1>3. Owned'
  BY <1>1, <1>2 DEF Owned, Typed, TypeOK, TtpHeld
<1>4. Introduced'
  <2>1. ASSUME NEW n \in Users, NEW d \in Attempts, ttp'[n] = d
        PROVE  Introduces(d, n)'
    <3>1. CASE n = k
      <4>1. d = c
        BY <1>1, <2>1, <3>1 DEF TtpHeld
      <4>2. inbox'[d] = <<>> /\ name'[d] = None
        BY <1>1, <1>2, <4>1
      <4>3. QED
        BY <4>2 DEF Introduces
    <3>2. CASE n # k
      BY <1>1, <2>1, <3>2, SameIntroduces DEF Introduced, TtpHeld
    <3>3. QED
      BY <3>1, <3>2
  <2>2. ASSUME NEW l \in Links PROVE Introduces(l, ServerCert[l])'
    BY <1>1, SameIntroduces DEF Introduced
  <2>3. QED
    BY <2>1, <2>2 DEF Introduced
<1>5. QED
  BY <1>3, <1>4

LEMMA ThreadKeeps ==
  ASSUME Known, NEW c \in Conn, Thread(c), UNCHANGED ttp
  PROVE  Owned' /\ Introduced'
<1> USE HandshakeAssumption DEF Known, Attempts
<1>1. Owned'
  <2>1. \A d \in Conn : pc'[d] = "free" => inbox'[d] = <<>>
    <3>1. TAKE d \in Conn
    <3>2. HAVE pc'[d] = "free"
    <3>3. pc[d] = "free" /\ inbox[d] = <<>>
      BY <3>2, ThreadFrame DEF Owned
    <3>4. d # c
      BY <3>3, ThreadFrame
    <3> QED BY <3>3, <3>4, ThreadFrame DEF Typed, TypeOK
  <2> QED BY <2>1, ThreadFrame DEF Owned
<1>2. Introduced'
  <2>1. ASSUME NEW k \in Users, NEW d \in Attempts, ttp'[k] = d
        PROVE  Introduces(d, k)'
    BY <2>1, ThreadIntroduces DEF Introduced, Names
  <2>2. ASSUME NEW l \in Links PROVE Introduces(l, ServerCert[l])'
    BY ThreadIntroduces DEF Introduced, Names
  <2>3. QED
    BY <2>1, <2>2 DEF Introduced
<1>3. QED
  BY <1>1, <1>2

\* The steps of the two programs that write to the TTP, and the others
LEMMA ProgramKeeps ==
  ASSUME Known, NEW k \in Users, Client(k)
  PROVE  Owned' /\ Introduced'
<1> USE DEF Known
<1>a. cpc[k] \notin {"ui", "exited"} => ttp[k] \in Conn /\ ttp[k] \notin Links
  BY HandshakeAssumption DEF TtpHeld, Attempts
<1>b. \A n \in Users : ttp[n] = ttp[k] /\ ttp[k] # None => n = k
  BY DEF Owned
<1>1. CASE InitiateAuthentication(k)
  <2>1. PICK c \in Conn : c = ttp[k] /\ c \notin Links
    BY <1>1, <1>a DEF InitiateAuthentication
  <2>2. \A n \in Users : ttp[n] = c => InitiateAuth(k) = InitiateAuth(n)
    BY <2>1, <1>b, TtpAssumption
  <2>3. SendTtp(c, InitiateAuth(k)) /\ UNCHANGED ttp
    BY <1>1, <2>1 DEF InitiateAuthentication
  <2>4. QED
    BY <2>1, <2>2, <2>3, SendKeeps
<1>2. CASE SubmitUserAuthData(k)
  <2>1. PICK c \in Conn : c = ttp[k]
    BY <1>2, <1>a DEF SubmitUserAuthData
  <2>2. UserAuthDataSubmit(cert[k]).type # "InitiateAuth"
    BY DEF UserAuthDataSubmit, Msg
  <2>3. SendTtp(c, UserAuthDataSubmit(cert[k])) /\ UNCHANGED ttp
    BY <1>2, <2>1 DEF SubmitUserAuthData
  <2>4. QED
    BY <2>2, <2>3, SendKeeps
<1>3. CASE /\ UNCHANGED <<pc, name, inbox>>
           /\ \A n \in Users : ttp'[n] \in {ttp[n], None}
  BY <1>3, QuietKeeps
<1>4. CASE ReceiveSessionKey(k) \/ ClientFails(k)
  <2>1. CloseTtp(ttp[k]) /\ ttp' = [ttp EXCEPT ![k] = None]
    BY <1>4 DEF ReceiveSessionKey, ClientFails
  <2>2. UNCHANGED <<pc, name, inbox>>
    BY <2>1, CloseFrame
  <2>3. QED
    BY <2>1, <2>2, <1>3 DEF TtpHeld
<1>5. CASE SendServiceRequest(k) \/ ReceiveTicket(k)
  BY <1>3, <1>5 DEF SendServiceRequest, ReceiveTicket, vars
<1>6. QED
  BY <1>1, <1>2, <1>4, <1>5
     DEF Client, ClientRefuses, ServiceRequestFails, LinkWakesClient

LEMMA ServerKeeps ==
  ASSUME Known, NEW l \in Links, Server(l)
  PROVE  Owned' /\ Introduced'
<1> USE DEF Known
<1>a. l \in Conn /\ \A k \in Users : ttp[k] # l
  BY HandshakeAssumption, TtpAssumption DEF TtpHeld, Attempts
<1>1. CASE ServerInitiates(l)
  BY <1>1, <1>a, SendKeeps DEF ServerInitiates, clients
<1>2. CASE SendServerAuthRequest(l)
  <2>1. ServerAuthRequest(userCert[l], ServerCert[l]).type # "InitiateAuth"
    BY DEF ServerAuthRequest, Msg
  <2>2. QED
    BY <1>2, <1>a, <2>1, SendKeeps DEF SendServerAuthRequest, clients
<1>3. CASE ConnectTtp(l)
  <2>1. /\ UNCHANGED <<name, inbox, ttp>>
        /\ pc' = [pc EXCEPT ![l] = "receive"]
    BY <1>3 DEF ConnectTtp, Accept, Goto, wire, clients
  <2>2. \A d \in Conn : pc'[d] = "free" => pc[d] = "free"
    BY <2>1 DEF Typed, TypeOK
  <2>3. QED
    BY <2>1, <2>2, QuietKeeps
<1>4. CASE ServerReturns(l)
  <2>1. UNCHANGED <<pc, name, inbox, ttp>>
    BY <1>4, CloseFrame DEF ServerReturns, clients
  <2>2. QED
    BY <2>1, QuietKeeps
<1>5. CASE UNCHANGED <<vars, clients>>
  BY <1>5, QuietKeeps DEF vars, clients
<1>6. QED
  BY <1>1, <1>2, <1>3, <1>4, <1>5
     DEF Server, ReceiveServiceRequest, ReceiveServerAuthOk, StartSession,
         ServerFails, SkipPacket

LEMMA KnownNext == Known /\ [HandshakeNext]_allVars => Known'
<1> SUFFICES ASSUME Known, [HandshakeNext]_allVars PROVE Known'
  OBVIOUS
<1>1. Typed' /\ TtpHeld'
  BY HeldNext, ProgramStep, TypedNext DEF Known
<1>2. Owned' /\ Introduced'
  <2>1. ASSUME NEW k \in Users, NEW l \in Links, Connect(k, l)
        PROVE  Owned' /\ Introduced'
    BY <2>1, QuietKeeps DEF Connect, vars
  <2>2. ASSUME NEW k \in Users, Exit(k) PROVE Owned' /\ Introduced'
    BY <2>2, QuietKeeps DEF Exit, vars
  <2>3. ASSUME NEW c \in Conn, Thread(c) /\ UNCHANGED programs
        PROVE  Owned' /\ Introduced'
    BY <2>3, ThreadKeeps DEF programs, clients
  <2>4. CASE Crash /\ UNCHANGED programs
    <3>1. UNCHANGED <<name, inbox, ttp>>
      BY <2>4 DEF Crash, wire, programs, clients
    <3>2. \A d \in Conn : pc'[d] = "free" => pc[d] = "free"
      BY <2>4 DEF Crash, Live
    <3>3. QED
      BY <3>1, <3>2, QuietKeeps
  <2>5. CASE UNCHANGED allVars \/ \E l \in Links : LinkBreaks(l)
    BY <2>5, QuietKeeps DEF allVars, vars, clients, LinkBreaks
  <2>6. QED
    BY <2>1, <2>2, <2>3, <2>4, <2>5, RequestKeeps, ProgramKeeps, ServerKeeps
       DEF HandshakeNext, Unattended
<1>3. QED
  BY <1>1, <1>2 DEF Known

-----------------------------------------------------------------------------
(* What the programs hold *)

LEMMA NextNames ==
  ASSUME Typed, [Next]_vars, NEW c \in Conn, name[c] # None
  PROVE  name'[c] = name[c]
BY ThreadFrame
   DEF Next, vars, Accept, PeerClose, PeerSends, Crash, Typed, TypeOK

LEMMA KeysStay ==
  ASSUME Grown, NEW c \in Conn, NEW key \in Keys[c]
  PROVE  key \in Keys'[c]
<1>1. PICK i \in DOMAIN sent[c] : sent[c][i].type = "UserAuthOk" /\ key = sent[c][i].key
  BY DEF Keys, KeysSent
<1>2. i \in DOMAIN sent'[c] /\ sent'[c][i] = sent[c][i]
  BY <1>1 DEF Grown
<1>3. QED
  BY <1>1, <1>2 DEF Keys, KeysSent

LEMMA ReadKey ==
  ASSUME Typed, ProgramTypes, NEW c \in Conn, NEW key \in Conn,
         Reads(c, UserAuthOk(key))
  PROVE  key \in Keys[c]
<1>1. /\ read[c] + 1 \in DOMAIN sent[c]
      /\ sent[c][read[c] + 1] = UserAuthOk(key)
  BY DEF Reads, Typed, TypeOK, ProgramTypes
<1>2. UserAuthOk(key).type = "UserAuthOk" /\ UserAuthOk(key).key = key
  BY DEF UserAuthOk, Msg
<1>3. QED
  BY <1>1, <1>2 DEF Keys, KeysSent

LEMMA ReadsMore ==
  ASSUME Typed, ProgramTypes, ReadBehind, NEW c \in Conn, NEW p, Reads(c, p)
  PROVE  /\ read' \in [Conn -> Nat]
         /\ \A d \in Conn : read'[d] <= Len(sent[d])
BY DEF Reads, Typed, TypeOK, ProgramTypes, ReadBehind

LEMMA ReadBehindNext ==
  ASSUME Known, ProgramTypes, ReadBehind, [HandshakeNext]_allVars
  PROVE  read' \in [Conn -> Nat] /\ ReadBehind'
<1> USE DEF Known
<1>a. /\ Grown /\ \A k \in Users : cpc[k] \notin {"ui", "exited"} => ttp[k] \in Conn
      /\ \A c \in Conn : read[c] \in Nat /\ Len(sent[c]) \in Nat /\ Len(sent'[c]) \in Nat
  <2>1. [Next]_vars
    BY ProgramStep
  <2>2. Grown /\ TypeOK /\ TypeOK'
    BY <2>1, NextGrows, TypedNext DEF Typed
  <2>3. \A k \in Users : cpc[k] \notin {"ui", "exited"} => ttp[k] \in Conn
    BY DEF TtpHeld, Attempts
  <2>4. \A c \in Conn : read[c] \in Nat /\ sent[c] \in Seq(Packet) /\ sent'[c] \in Seq(Packet)
    BY <2>2 DEF ProgramTypes, TypeOK
  <2>5. \A c \in Conn : Len(sent[c]) \in Nat /\ Len(sent'[c]) \in Nat
    BY <2>4
  <2> QED BY <2>2, <2>3, <2>4, <2>5
<1>1. CASE UNCHANGED read
  BY <1>1, <1>a DEF ProgramTypes, ReadBehind, Grown
<1>2. ASSUME NEW c \in Conn, NEW p, Reads(c, p)
      PROVE  read' \in [Conn -> Nat] /\ ReadBehind'
  BY <1>2, <1>a, ReadsMore DEF ReadBehind, Grown
<1>3. ASSUME NEW k \in Users, Client(k)
      PROVE  read' \in [Conn -> Nat] /\ ReadBehind'
  BY <1>1, <1>2, <1>3, <1>a
     DEF Client, InitiateAuthentication, SendServiceRequest, ReceiveTicket,
         SubmitUserAuthData, ReceiveSessionKey, ClientRefuses,
         ServiceRequestFails, LinkWakesClient, ClientFails
<1>4. ASSUME NEW l \in Links, Server(l)
      PROVE  read' \in [Conn -> Nat] /\ ReadBehind'
  BY <1>1, <1>2, <1>4, HandshakeAssumption
     DEF Server, ReceiveServiceRequest, ConnectTtp, ServerInitiates,
         SendServerAuthRequest, ReceiveServerAuthOk, StartSession, ServerFails,
         SkipPacket, ServerReturns
<1>5. QED
  BY <1>1, <1>3, <1>4
     DEF HandshakeNext, Unattended, allVars, programs, Connect, RequestService, Exit,
         LinkBreaks

\* A link that breaks keeps the first packets on it, and changes nothing else.
LEMMA BreakFrame ==
  ASSUME ProgramTypes, NEW l \in Links, LinkBreaks(l)
  PROVE  /\ UNCHANGED <<vars, clients, servers, read>>
         /\ broken' = broken \cup {l}
         /\ toServer' \in [Links -> Seq(Users \cup {Forged, None})]
         /\ \A m \in Links : \A i \in DOMAIN toServer'[m] :
              i \in DOMAIN toServer[m] /\ toServer'[m][i] = toServer[m][i]
<1> DEFINE S == Users \cup {Forged, None}
<1>1. toServer \in [Links -> Seq(S)]
  BY DEF ProgramTypes
<1>2. PICK n \in 0..Len(toServer[l]) :
        toServer' = [toServer EXCEPT ![l] = SubSeq(@, 1, n)]
  BY DEF LinkBreaks
<1> HIDE DEF S
<1>3. toServer[l] \in Seq(S)
  BY <1>1
<1>4. /\ SubSeq(toServer[l], 1, n) \in Seq(S)
      /\ \A i \in DOMAIN SubSeq(toServer[l], 1, n) :
           /\ i \in DOMAIN toServer[l]
           /\ SubSeq(toServer[l], 1, n)[i] = toServer[l][i]
  BY <1>3
<1>5. toServer' \in [Links -> Seq(S)]
  BY <1>1, <1>2, <1>4
<1>6. \A m \in Links : \A i \in DOMAIN toServer'[m] :
        i \in DOMAIN toServer[m] /\ toServer'[m][i] = toServer[m][i]
  BY <1>1, <1>2, <1>4
<1> QED BY <1>5, <1>6 DEF S, LinkBreaks

LEMMA ProgramTypesNext ==
  ASSUME Known, ProgramTypes, ReadBehind, [HandshakeNext]_allVars
  PROVE  ProgramTypes'
<1> USE HandshakeAssumption DEF Known
<1>0. read' \in [Conn -> Nat]
  BY ReadBehindNext
<1>1. /\ link' \in [Users -> Links \cup {None}]
      /\ cert' \in [Users -> Users \cup {Forged, None}]
      /\ clientKey' \in [Users -> Conn \cup {None}]
  <2> USE DEF ProgramTypes
  <2>1. ASSUME NEW k \in Users, Client(k)
        PROVE  /\ UNCHANGED <<link, cert>>
               /\ clientKey' \in [Users -> Conn \cup {None}]
    BY <2>1 DEF Client, InitiateAuthentication, SendServiceRequest,
       ReceiveTicket, SubmitUserAuthData, ReceiveSessionKey, ClientRefuses,
       ServiceRequestFails, LinkWakesClient, ClientFails
  <2>2. ASSUME NEW l \in Links, Server(l) PROVE UNCHANGED clients
    BY <2>2 DEF Server, ReceiveServiceRequest, ConnectTtp, ServerInitiates,
       SendServerAuthRequest, ReceiveServerAuthOk, StartSession, ServerFails,
       SkipPacket, ServerReturns
  <2>3. ASSUME NEW k \in Users, NEW c \in Attempts, RequestService(k, c)
        PROVE  /\ UNCHANGED <<link, clientKey>>
               /\ cert' \in [Users -> Users \cup {Forged, None}]
    BY <2>3 DEF RequestService
  <2>4. ASSUME NEW k \in Users, NEW l \in Links, Connect(k, l)
        PROVE  /\ UNCHANGED <<cert, clientKey>>
               /\ link' \in [Users -> Links \cup {None}]
    BY <2>4 DEF Connect
  <2>5. CASE UNCHANGED <<link, cert, clientKey>>
    BY <2>5
  <2>6. QED
    BY <2>1, <2>2, <2>3, <2>4, <2>5
       DEF HandshakeNext, Unattended, allVars, programs, clients, Exit, LinkBreaks
<1>2. /\ spc' \in [Links -> ServerSteps]
      /\ userCert' \in [Links -> Users \cup {Forged, None}]
      /\ serverKey' \in [Links -> Conn \cup {None}]
      /\ toServer' \in [Links -> Seq(Users \cup {Forged, None})]
  <2> USE DEF ProgramTypes
  <2>1. ASSUME NEW k \in Users, Client(k)
        PROVE  /\ UNCHANGED servers
               /\ toServer' \in [Links -> Seq(Users \cup {Forged, None})]
    <3>1. CASE SendServiceRequest(k)
      <4> DEFINE S == Users \cup {Forged, None}
      <4>1. cert[k] \in S /\ toServer \in [Links -> Seq(S)]
        OBVIOUS
      <4>2. UNCHANGED servers
        BY <3>1 DEF SendServiceRequest
      <4>3. \/ toServer' = toServer
            \/ toServer' = [toServer EXCEPT ![link[k]] = Append(@, cert[k])]
        BY <3>1 DEF SendServiceRequest
      <4> HIDE DEF S
      <4>4. \A l \in Links : Append(toServer[l], cert[k]) \in Seq(S)
        BY <4>1
      <4>5. toServer' \in [Links -> Seq(S)]
        BY ONLY <4>1, <4>3, <4>4
      <4>6. QED
        BY <4>2, <4>5 DEF S
    <3>2. CASE ~SendServiceRequest(k)
      BY <2>1, <3>2 DEF Client, InitiateAuthentication, ReceiveTicket,
         SubmitUserAuthData, ReceiveSessionKey, ClientRefuses,
         ServiceRequestFails, LinkWakesClient, ClientFails, links
    <3>3. QED
      BY <3>1, <3>2
  <2>2. ASSUME NEW l \in Links, Server(l)
        PROVE  /\ spc' \in [Links -> ServerSteps]
               /\ userCert' \in [Links -> Users \cup {Forged, None}]
               /\ serverKey' \in [Links -> Conn \cup {None}]
    <3> USE DEF ServerGoto, ServerSteps
    <3>1. CASE ReceiveServiceRequest(l)
      <4>1. Head(toServer[l]) \in Users \cup {Forged, None}
        BY <3>1 DEF ReceiveServiceRequest
      <4>2. QED
        BY <3>1, <4>1 DEF ReceiveServiceRequest
    <3>2. CASE StartSession(l)
      BY <3>2 DEF StartSession
    <3>3. CASE UNCHANGED <<userCert, serverKey>>
               /\ \E step \in ServerSteps : spc' = [spc EXCEPT ![l] = step]
      BY <3>3
    <3>4. CASE SkipPacket(l)
      BY <3>4 DEF SkipPacket, servers
    <3>5. QED
      BY <2>2, <3>1, <3>2, <3>3, <3>4
         DEF Server, ConnectTtp, ServerInitiates, SendServerAuthRequest,
             ReceiveServerAuthOk, ServerFails, ServerReturns
  <2>3. ASSUME NEW l \in Links, Server(l)
        PROVE  toServer' \in [Links -> Seq(Users \cup {Forged, None})]
    <3>1. toServer[l] # <<>> => Tail(toServer[l]) \in Seq(Users \cup {Forged, None})
      OBVIOUS
    <3>2. QED
      BY <2>3, <3>1 DEF Server, ReceiveServiceRequest, ConnectTtp,
         ServerInitiates, SendServerAuthRequest, ReceiveServerAuthOk,
         StartSession, ServerFails, SkipPacket, ServerReturns, links
  <2>4. ASSUME NEW l \in Links, LinkBreaks(l)
        PROVE  /\ UNCHANGED servers
               /\ toServer' \in [Links -> Seq(Users \cup {Forged, None})]
    BY <2>4, BreakFrame
  <2>5. ASSUME NEW k \in Users, NEW l \in Links, Connect(k, l)
        PROVE  /\ spc' \in [Links -> ServerSteps]
               /\ UNCHANGED <<userCert, serverKey, toServer>>
    BY <2>5 DEF Connect, links, ServerSteps
  <2>6. CASE UNCHANGED <<servers, toServer>>
    BY <2>6 DEF servers
  <2>7. QED
    BY <2>1, <2>2, <2>3, <2>4, <2>5, <2>6
       DEF HandshakeNext, Unattended, allVars, programs, servers, links, Exit, RequestService
<1>3. broken' \subseteq Links
  <2>1. ASSUME NEW k \in Users, Client(k) PROVE UNCHANGED broken
    BY <2>1 DEF Client, InitiateAuthentication, SendServiceRequest, ReceiveTicket,
       SubmitUserAuthData, ReceiveSessionKey, ClientRefuses,
       ServiceRequestFails, LinkWakesClient, ClientFails, links
  <2>2. ASSUME NEW l \in Links, Server(l) PROVE UNCHANGED broken
    BY <2>2 DEF Server, ReceiveServiceRequest, ConnectTtp, ServerInitiates,
       SendServerAuthRequest, ReceiveServerAuthOk, StartSession, ServerFails,
       SkipPacket, ServerReturns, links
  <2>3. QED
    BY <2>1, <2>2 DEF HandshakeNext, Unattended, allVars, programs, links, Connect, Exit,
       RequestService, LinkBreaks, ProgramTypes
<1>4. QED
  BY <1>0, <1>1, <1>2, <1>3 DEF ProgramTypes

\* Whoever read a key on a client's connection is the client of that name.
LEMMA KeyOnOwnConnection ==
  ASSUME Known, KeyHolders, ProgramTypes,
         NEW k \in Users, NEW c \in Attempts, ttp[k] = c,
         NEW key \in Conn, Reads(c, UserAuthOk(key))
  PROVE  name[c] = k /\ key \in Keys[c]
<1>1. c \in Conn
  BY DEF Attempts
<1>2. key \in Keys[c]
  BY <1>1, ReadKey DEF Known
<1>3. name[c] # None
  BY <1>1, <1>2, TtpAssumption DEF KeyHolders
<1>4. name[c] \in {None, k}
  BY DEF Known, Introduced, Introduces
<1>5. QED
  BY <1>2, <1>3, <1>4

LEMMA KeysReceivedNext ==
  ASSUME Known, KeyHolders, ProgramTypes, KeysReceived, [HandshakeNext]_allVars
  PROVE  KeysReceived'
<1> USE HandshakeAssumption, TtpAssumption DEF Known
<1>a. [Next]_vars /\ Grown
  BY ProgramStep, NextGrows
<1>b. ASSUME NEW k \in Users, NEW c \in Attempts, NEW key,
             name[c] = k, key \in Keys[c]
      PROVE  name'[c] = k /\ key \in Keys'[c]
  BY <1>a, <1>b, NextNames, KeysStay DEF Attempts
<1>c. ASSUME NEW l \in Links, NEW key, key \in Keys[l] PROVE key \in Keys'[l]
  BY <1>a, <1>c, KeysStay
<1>1. ASSUME NEW k \in Users, clientKey'[k] # None
      PROVE  \E c \in Attempts : name'[c] = k /\ clientKey'[k] \in Keys'[c]
  <2>1. CASE clientKey'[k] = clientKey[k]
    <3>1. PICK c \in Attempts : name[c] = k /\ clientKey[k] \in Keys[c]
      BY <1>1, <2>1 DEF KeysReceived
    <3>2. QED
      BY <2>1, <3>1, <1>b
  <2>2. CASE ReceiveSessionKey(k)
    <3>1. PICK key \in Conn : /\ Reads(ttp[k], UserAuthOk(key))
                              /\ clientKey' = [clientKey EXCEPT ![k] = key]
      BY <2>2 DEF ReceiveSessionKey
    <3>2. PICK c \in Attempts : c = ttp[k]
      BY <2>2 DEF ReceiveSessionKey, TtpHeld
    <3>3. name[c] = k /\ key \in Keys[c]
      BY <3>1, <3>2, KeyOnOwnConnection
    <3>4. clientKey'[k] = key
      BY <3>1 DEF ProgramTypes
    <3>5. QED
      BY <3>3, <3>4, <1>b
  <2>3. ASSUME NEW n \in Users, Client(n), clientKey' # clientKey
        PROVE  ReceiveSessionKey(n)
    BY <2>3 DEF Client, InitiateAuthentication, SendServiceRequest,
       ReceiveTicket, SubmitUserAuthData, ClientRefuses, ServiceRequestFails,
       LinkWakesClient, ClientFails
  <2>4. ASSUME NEW n \in Users, n # k, ReceiveSessionKey(n)
        PROVE  clientKey'[k] = clientKey[k]
    BY <2>4 DEF ReceiveSessionKey, ProgramTypes
  <2>5. ASSUME NEW l \in Links, Server(l) PROVE UNCHANGED clients
    BY <2>5 DEF Server, ReceiveServiceRequest, ConnectTtp, ServerInitiates,
       SendServerAuthRequest, ReceiveServerAuthOk, StartSession, ServerFails,
       SkipPacket, ServerReturns
  <2>6. QED
    BY <2>1, <2>2, <2>3, <2>4, <2>5
       DEF HandshakeNext, Unattended, allVars, programs, clients, Connect, RequestService, Exit,
           LinkBreaks
<1>2. ASSUME NEW l \in Links, serverKey'[l] # None
      PROVE  serverKey'[l] \in Keys'[l]
  <2>1. CASE serverKey'[l] = serverKey[l]
    BY <1>2, <2>1, <1>c DEF KeysReceived
  <2>2. CASE StartSession(l)
    <3>1. PICK key \in Conn : /\ Reads(l, UserAuthOk(key))
                              /\ serverKey' = [serverKey EXCEPT ![l] = key]
      BY <2>2 DEF StartSession
    <3>2. key \in Keys[l]
      BY <3>1, ReadKey
    <3>3. serverKey'[l] = key
      BY <3>1 DEF ProgramTypes
    <3>4. QED
      BY <3>2, <3>3, <1>c
  <2>3. ASSUME NEW m \in Links, Server(m), serverKey' # serverKey
        PROVE  StartSession(m)
    BY <2>3 DEF Server, ReceiveServiceRequest, ConnectTtp, ServerInitiates,
       SendServerAuthRequest, ReceiveServerAuthOk, ServerFails, SkipPacket,
       ServerReturns, servers
  <2>4. ASSUME NEW m \in Links, m # l, StartSession(m)
        PROVE  serverKey'[l] = serverKey[l]
    BY <2>4 DEF StartSession, ProgramTypes
  <2>5. ASSUME NEW n \in Users, Client(n) PROVE UNCHANGED servers
    BY <2>5 DEF Client, InitiateAuthentication, SendServiceRequest,
       ReceiveTicket, SubmitUserAuthData, ReceiveSessionKey, ClientRefuses,
       ServiceRequestFails, LinkWakesClient, ClientFails, servers
  <2>6. QED
    BY <2>1, <2>2, <2>3, <2>4, <2>5
       DEF HandshakeNext, Unattended, allVars, programs, servers, Connect, RequestService, Exit,
           LinkBreaks
<1>3. QED
  BY <1>1, <1>2 DEF KeysReceived

-----------------------------------------------------------------------------
(* Theorems *)

HandshakeInductive ==
  Known /\ Inductive /\ ProgramTypes /\ ReadBehind /\ KeysReceived

LEMMA HandshakeInductiveInit == HandshakeInit => HandshakeInductive
<1> SUFFICES ASSUME HandshakeInit PROVE HandshakeInductive
  OBVIOUS
<1> USE HandshakeAssumption, TtpAssumption
<1>1. Known /\ Inductive
  BY KnownInit, InductiveInit DEF HandshakeInit
<1>2. ProgramTypes
  BY DEF HandshakeInit, ProgramTypes, ServerSteps
<1>3. ReadBehind
  <2> SUFFICES ASSUME NEW c \in Conn PROVE read[c] <= Len(sent[c])
    BY DEF ReadBehind
  <2>1. read[c] = 0 /\ sent[c] = <<>>
    BY DEF HandshakeInit, Init
  <2>2. sent[c] \in Seq(Packet) /\ Len(sent[c]) \in Nat
    BY <2>1
  <2>3. QED
    BY <2>1, <2>2
<1>4. KeysReceived
  BY DEF HandshakeInit, KeysReceived
<1>5. QED
  BY <1>1, <1>2, <1>3, <1>4 DEF HandshakeInductive

\* The invariant that the theorems below follow from: the TTP's own, and what
\* each program knows of the connections and the keys it holds.
THEOREM HandshakeInvariance == HandshakeSpec => []HandshakeInductive
<1>1. HandshakeInductive /\ [HandshakeNext]_allVars => HandshakeInductive'
  <2> SUFFICES ASSUME HandshakeInductive, [HandshakeNext]_allVars
               PROVE  HandshakeInductive'
    OBVIOUS
  <2> USE DEF HandshakeInductive
  <2>1. Known'
    BY KnownNext
  <2>2. Inductive'
    BY ProgramStep, InductiveNext DEF Known
  <2>3. ProgramTypes' /\ ReadBehind'
    BY ProgramTypesNext, ReadBehindNext
  <2>4. KeysReceived'
    BY KeysReceivedNext DEF Inductive
  <2>5. QED
    BY <2>1, <2>2, <2>3, <2>4
<1>2. QED
  BY <1>1, HandshakeInductiveInit, PTL DEF HandshakeSpec

\* Types of the closed system, a connection to the TTP exactly while a client's
\* handshake runs, and nobody reads what was not sent.
THEOREM HandshakeTypeCorrect == HandshakeSpec => []HandshakeTypeOK
<1>1. HandshakeInductive => HandshakeTypeOK
  <2> SUFFICES ASSUME HandshakeInductive PROVE HandshakeTypeOK
    OBVIOUS
  <2>1. \A c \in Conn : read[c] \in 0..Len(sent[c])
    <3> TAKE c \in Conn
    <3>1. sent[c] \in Seq(Packet) /\ Len(sent[c]) \in Nat
      BY DEF HandshakeInductive, Known, Typed, TypeOK
    <3>2. read[c] \in Nat /\ read[c] <= Len(sent[c])
      BY DEF HandshakeInductive, ProgramTypes, ReadBehind
    <3>3. QED
      BY <3>1, <3>2
  <2>2. QED
    BY <2>1 DEF HandshakeInductive, Known, Typed, TtpHeld, ProgramTypes,
       HandshakeTypeOK
<1>2. QED
  BY <1>1, HandshakeInvariance, PTL

\* A session key is held by at most one client and one server's thread, and
\* that thread asked the TTP for that client's user.
THEOREM KeyIsOfTwo == HandshakeSpec => []KeyOfTwo
<1>1. HandshakeInductive => KeyOfTwo
  <2> SUFFICES ASSUME HandshakeInductive PROVE KeyOfTwo
    OBVIOUS
  <2> USE HandshakeAssumption, TtpAssumption
  <2>1. \A c, d \in Conn : c # d /\ Keys[c] \cap Keys[d] # {} =>
          \/ name[c] \in Users /\ name[d] \in Services /\ clientCn[d] = name[c]
          \/ name[d] \in Users /\ name[c] \in Services /\ clientCn[c] = name[d]
    BY InductiveBinds DEF HandshakeInductive, KeyBinding
  <2>2. ASSUME NEW k \in Users, clientKey[k] # None
        PROVE  \E c \in Conn \ Links : name[c] = k /\ clientKey[k] \in Keys[c]
    BY <2>2 DEF HandshakeInductive, KeysReceived, Attempts
  <2>3. ASSUME NEW l \in Links, serverKey[l] # None
        PROVE  /\ l \in Conn /\ serverKey[l] \in Keys[l]
               /\ name[l] \notin Users
    BY <2>3 DEF HandshakeInductive, KeysReceived, Known, Introduced, Introduces
  <2>4. ASSUME NEW k \in Users, NEW n \in Users,
               clientKey[k] = clientKey[n], clientKey[k] # None
        PROVE  k = n
    <3>1. PICK c \in Conn : name[c] = k /\ clientKey[k] \in Keys[c]
      BY <2>2, <2>4
    <3>2. PICK d \in Conn : name[d] = n /\ clientKey[k] \in Keys[d]
      BY <2>2, <2>4
    <3>3. QED
      BY <2>1, <3>1, <3>2
  <2>5. ASSUME NEW l \in Links, NEW m \in Links,
               serverKey[l] = serverKey[m], serverKey[l] # None
        PROVE  l = m
    BY <2>1, <2>3, <2>5
  <2>6. ASSUME NEW k \in Users, NEW l \in Links,
               clientKey[k] = serverKey[l], clientKey[k] # None
        PROVE  clientCn[l] = k
    <3>1. PICK c \in Conn \ Links : name[c] = k /\ clientKey[k] \in Keys[c]
      BY <2>2, <2>6
    <3>2. l # c /\ clientKey[k] \in Keys[l] /\ name[l] \notin Users /\ l \in Conn
      BY <2>3, <2>6, <3>1
    <3>3. QED
      BY <2>1, <3>1, <3>2
  <2>7. QED
    BY <2>4, <2>5, <2>6 DEF KeyOfTwo
<1>2. QED
  BY <1>1, HandshakeInvariance, PTL

(***************************************************************************)
(* Links: which of the server's threads a key belongs to                   *)
(***************************************************************************)

\* Whoever writes to connection c asks for user n.
AsksFor(c, n) ==
  /\ clientCn[c] \in {None, n}
  /\ \A i \in DOMAIN inbox[c] :
       inbox[c][i].type = "ServerAuthRequest" => inbox[c][i].user = n

\* A thread of the server has no connection to the TTP before it is asked for
\* its service, and asks for the user it was asked by.
Asked ==
  /\ \A l \in Links : spc[l] \in {"free", "expectRequest", "connectTo"} => pc[l] = "free"
  /\ \A l \in Links : AsksFor(l, userCert[l])

\* k's certificate is on its way over link l, or was received there.
Presented(k, l) == userCert[l] = k \/ \E i \in DOMAIN toServer[l] : toServer[l][i] = k

\* A link is one client's, from the moment it is opened.
LinksOwned ==
  /\ \A k \in Users : link[k] # None => spc[link[k]] # "free"
  /\ \A k, n \in Users : link[k] = link[n] /\ link[k] # None => k = n

\* A certificate is presented by its holder over a link of its own; the holder
\* has no other link while that one is open.
PresentedByHolder ==
  /\ \A k \in Users : cert[k] \in {k, Forged, None}
  /\ \A l \in Links : spc[l] = "free" => toServer[l] = <<>> /\ userCert[l] = None
  /\ \A k, n \in Users, l \in Links : Presented(k, l) /\ link[n] = l => n = k
  /\ \A k \in Users, l \in Links : LinkOpen(l) /\ Presented(k, l) => link[k] = l

SessionHasKey == \A l \in Links : spc[l] = "session" => serverKey[l] # None

LinkKnown == Asked /\ LinksOwned /\ PresentedByHolder /\ SessionHasKey

LEMMA LinkKnownInit == HandshakeInit => LinkKnown
<1> SUFFICES ASSUME HandshakeInit PROVE LinkKnown
  OBVIOUS
<1> USE HandshakeAssumption DEF HandshakeInit, Init
<1>1. DOMAIN <<>> = {}
  OBVIOUS
<1>2. Asked
  BY <1>1 DEF Asked, AsksFor
<1>3. LinksOwned /\ SessionHasKey
  BY DEF LinksOwned, SessionHasKey
<1>4. PresentedByHolder
  BY TtpAssumption DEF PresentedByHolder, LinkOpen
<1> QED BY <1>2, <1>3, <1>4 DEF LinkKnown

-----------------------------------------------------------------------------
(* What a service asks for *)

\* A thread takes the user it asks for from the request it reads, once.
LEMMA ThreadAsks ==
  ASSUME Typed, NEW c \in Conn, Thread(c)
  PROVE  \/ clientCn' = clientCn
         \/ /\ inbox[c] # <<>>
            /\ \E u \in Users, s \in Services :
                 /\ Head(inbox[c]) = ServerAuthRequest(u, s)
                 /\ clientCn' = [clientCn EXCEPT ![c] = u]
<1> USE DEF Receives
<1>1. CASE ReceiveLoop(c)
  BY <1>1 DEF ReceiveLoop, ReceiveEnd, ReceiveCertificateRequest,
     ReceiveIgnored, InitiateAuthAccepted, InitiateAuthRejected, Register
<1>2. CASE RequesterAuthenticate(c)
  BY <1>2 DEF RequesterAuthenticate, ClientAuthenticated, ClientRejected,
     MatchSession, WaitExpires, FinalizeFails, FinalizeExpired,
     SendClientKey, SendServiceKey, SendServiceKeyFails, Fail, FailPending
<1>3. CASE ServiceAuthenticate(c)
  BY <1>3 DEF ServiceAuthenticate, ServiceUnhealthy, ServiceAuthenticated,
     ServiceRejected, ServiceNameFails, AddPending, FindClient,
     FindClientFails, SendTicket, SendRedirect, NotifyFails
<1>4. CASE Cleanup(c)
  BY <1>4 DEF Cleanup, EraseClient, ErasePending
<1> QED BY <1>1, <1>2, <1>3, <1>4 DEF Thread

LEMMA ThreadAsksFor ==
  ASSUME Typed, NEW c \in Conn, Thread(c), NEW d \in Conn, NEW n, AsksFor(d, n),
         UNCHANGED n
  PROVE  AsksFor(d, n)'
<1> USE DEF AsksFor
<1>0. inbox[d] \in Seq(Packet) /\ inbox[c] \in Seq(Packet)
  BY DEF Typed, TypeOK
<1>1. clientCn'[d] \in {None, n}
  <2>1. CASE clientCn' = clientCn
    BY <2>1
  <2>2. CASE clientCn' # clientCn
    <3>1. PICK u \in Users, s \in Services :
            /\ inbox[c] # <<>> /\ Head(inbox[c]) = ServerAuthRequest(u, s)
            /\ clientCn' = [clientCn EXCEPT ![c] = u]
      BY <2>2, ThreadAsks
    <3>2. CASE d = c
      <4>1. inbox[d][1] = ServerAuthRequest(u, s) /\ 1 \in DOMAIN inbox[d]
        BY <1>0, <3>1, <3>2
      <4>2. /\ ServerAuthRequest(u, s).type = "ServerAuthRequest"
            /\ ServerAuthRequest(u, s).user = u
        BY DEF ServerAuthRequest, Msg
      <4>3. n = u
        BY <4>1, <4>2
      <4> QED BY <3>1, <4>3 DEF Typed, TypeOK
    <3>3. CASE d # c
      BY <3>1, <3>3
    <3> QED BY <3>2, <3>3
  <2> QED BY <2>1, <2>2
<1>2. \A i \in DOMAIN inbox'[d] :
        inbox'[d][i].type = "ServerAuthRequest" => inbox'[d][i].user = n
  <2>1. CASE inbox'[d] = inbox[d]
    BY <2>1
  <2>2. CASE inbox'[d] # inbox[d]
    <3>1. d = c /\ inbox[d] # <<>> /\ inbox'[d] = Tail(inbox[d])
      BY <2>2, ThreadFrame DEF Typed, TypeOK
    <3>2. \A i \in DOMAIN Tail(inbox[d]) :
            i + 1 \in DOMAIN inbox[d] /\ Tail(inbox[d])[i] = inbox[d][i + 1]
      BY <1>0, <3>1
    <3> QED BY <3>1, <3>2
  <2> QED BY <2>1, <2>2
<1> QED BY <1>1, <1>2

LEMMA SendAsksFor ==
  ASSUME Typed, NEW c \in Conn, NEW p, SendTtp(c, p),
         NEW d \in Conn, NEW n, UNCHANGED n, AsksFor(d, n),
         d = c /\ p.type = "ServerAuthRequest" => p.user = n
  PROVE  AsksFor(d, n)'
<1>0. inbox[d] \in Seq(Packet)
  BY DEF Typed, TypeOK
<1>1. \/ inbox'[d] = inbox[d]
      \/ d = c /\ inbox'[d] = Append(inbox[d], p)
  BY SendFrame DEF Typed, TypeOK
<1>2. clientCn'[d] = clientCn[d]
  BY SendFrame
<1>3. CASE inbox'[d] = inbox[d]
  BY <1>2, <1>3 DEF AsksFor
<1>4. CASE d = c /\ inbox'[d] = Append(inbox[d], p)
  <2>1. \A i \in DOMAIN Append(inbox[d], p) :
          \/ i \in DOMAIN inbox[d] /\ Append(inbox[d], p)[i] = inbox[d][i]
          \/ Append(inbox[d], p)[i] = p
    BY <1>0
  <2> QED BY <1>2, <1>4, <2>1 DEF AsksFor
<1> QED BY <1>1, <1>3, <1>4

LEMMA SameAsksFor ==
  ASSUME NEW d \in Conn, NEW n, AsksFor(d, n), UNCHANGED <<clientCn, inbox>>
  PROVE  AsksFor(d, n)'
BY DEF AsksFor

-----------------------------------------------------------------------------
(* The parts, step by step *)

\* No step of a server's thread but the first, and none of a client but Connect,
\* concerns a thread that has no connection to the TTP yet.
LEMMA ClientFrame ==
  ASSUME NEW k \in Users, Client(k)
  PROVE  /\ UNCHANGED <<link, cert, spc, userCert, serverKey, broken>>
         /\ \/ toServer' = toServer
            \/ /\ LinkOpen(link[k])
               /\ toServer' = [toServer EXCEPT ![link[k]] = Append(@, cert[k])]
BY DEF Client, InitiateAuthentication, SendServiceRequest, ReceiveTicket,
   SubmitUserAuthData, ReceiveSessionKey, ClientRefuses, ServiceRequestFails,
   LinkWakesClient, ClientFails, servers, links

\* The steps of a server's thread: it takes a packet from its link, starts its
\* session, or goes on.
LEMMA ServerFrame ==
  ASSUME NEW l \in Links, Server(l)
  PROVE  /\ UNCHANGED <<clients, broken>>
         /\ \/ ReceiveServiceRequest(l)
            \/ /\ spc[l] \notin {"free", "expectRequest", "closed"}
               /\ \/ StartSession(l) /\ toServer' = toServer
                  \/ SkipPacket(l)
                  \/ /\ \E step \in ServerSteps \ {"free", "expectRequest", "connectTo", "session"} :
                          spc' = [spc EXCEPT ![l] = step]
                     /\ UNCHANGED <<userCert, serverKey, toServer>>
            \/ /\ spc[l] = "expectRequest"
               /\ spc' = [spc EXCEPT ![l] = "closed"]
               /\ UNCHANGED <<userCert, serverKey, toServer>>
<1> USE DEF ServerGoto, ServerSteps, clients, servers
<1>1. CASE ReceiveServiceRequest(l)
  BY <1>1 DEF ReceiveServiceRequest
<1>2. CASE ConnectTtp(l)
  BY <1>2, HandshakeAssumption DEF ConnectTtp, links
<1>3. CASE ServerInitiates(l) \/ SendServerAuthRequest(l)
  BY <1>3 DEF ServerInitiates, SendServerAuthRequest, links
<1>4. CASE ReceiveServerAuthOk(l)
  BY <1>4 DEF ReceiveServerAuthOk, links
<1>5. CASE StartSession(l)
  BY <1>5 DEF StartSession, links
<1>6. CASE ServerFails(l)
  BY <1>6 DEF ServerFails, ServerWaits
<1>7. CASE SkipPacket(l)
  BY <1>7 DEF SkipPacket
<1>8. CASE ServerReturns(l)
  BY <1>8 DEF ServerReturns, links
<1> QED BY <1>1, <1>2, <1>3, <1>4, <1>5, <1>6, <1>7, <1>8 DEF Server

\* A link is opened by Connect alone.
LEMMA LinksOwnedNext ==
  ASSUME ProgramTypes, LinksOwned, [HandshakeNext]_allVars
  PROVE  LinksOwned'
<1> USE HandshakeAssumption, TtpAssumption DEF ProgramTypes, LinksOwned
<1>1. ASSUME NEW k \in Users, NEW l \in Links, Connect(k, l) PROVE LinksOwned'
  BY <1>1 DEF Connect
<1>2. ASSUME NEW l \in Links, Server(l) PROVE LinksOwned'
  <2>1. link' = link /\ \A m \in Links : spc[m] # "free" => spc'[m] # "free"
    <3> USE DEF ServerGoto, ServerSteps
    <3>1. link' = link
      BY <1>2, ServerFrame DEF clients
    <3>2. CASE ReceiveServiceRequest(l)
      BY <3>1, <3>2 DEF ReceiveServiceRequest
    <3>3. CASE StartSession(l)
      BY <3>1, <3>3 DEF StartSession
    <3>4. CASE SkipPacket(l)
      BY <3>1, <3>4 DEF SkipPacket, servers
    <3>5. CASE \E step \in ServerSteps \ {"free"} : spc' = [spc EXCEPT ![l] = step]
      BY <3>1, <3>5
    <3> QED BY <1>2, <3>2, <3>3, <3>4, <3>5, ServerFrame
  <2> QED BY <2>1
<1>3. CASE UNCHANGED <<link, spc>>
  BY <1>3
<1> QED BY <1>1, <1>2, <1>3, ClientFrame
        DEF HandshakeNext, Unattended, allVars, programs, clients, servers,
            RequestService, Exit, LinkBreaks

\* Connect finds nothing on the link it opens.
LEMMA PresentedNext ==
  ASSUME ProgramTypes, LinksOwned, PresentedByHolder, [HandshakeNext]_allVars
  PROVE  PresentedByHolder'
<1> USE HandshakeAssumption, TtpAssumption DEF ProgramTypes
<1>1. ASSUME NEW k \in Users, NEW l \in Links, Connect(k, l) PROVE PresentedByHolder'
  <2>1. /\ ~Healthy(link[k]) /\ spc[l] = "free"
        /\ link' = [link EXCEPT ![k] = l]
        /\ spc' = [spc EXCEPT ![l] = "expectRequest"]
        /\ UNCHANGED <<cert, userCert, toServer, broken>>
    BY <1>1 DEF Connect, links
  <2>2. ASSUME NEW n \in Users, NEW m \in Links, Presented(n, m)'
        PROVE  Presented(n, m) /\ m # l
    <3>1. Presented(n, m)
      BY <2>1, <2>2 DEF Presented
    <3>2. toServer[l] = <<>> /\ userCert[l] = None /\ DOMAIN <<>> = {}
      BY <2>1 DEF PresentedByHolder
    <3> QED BY <3>1, <3>2 DEF Presented
  <2>3. ASSUME NEW n \in Users, NEW m \in Links, LinkOpen(m)', Presented(n, m)'
        PROVE  link'[n] = m
    <3>1. Presented(n, m) /\ m # l
      BY <2>2, <2>3
    <3>2. LinkOpen(m)
      BY <2>1, <2>3, <3>1 DEF LinkOpen
    <3>3. link[n] = m
      BY <3>1, <3>2 DEF PresentedByHolder
    <3>4. n # k
      BY <2>1, <3>2, <3>3 DEF Healthy
    <3> QED BY <2>1, <3>3, <3>4
  <2>4. ASSUME NEW n \in Users, NEW x \in Users, NEW m \in Links,
               Presented(n, m)', link'[x] = m
        PROVE  x = n
    <3>1. Presented(n, m) /\ m # l
      BY <2>2, <2>4
    <3>2. link[x] = m
      BY <2>1, <2>4, <3>1
    <3> QED BY <3>1, <3>2 DEF PresentedByHolder
  <2>5. \A m \in Links : spc'[m] = "free" => toServer'[m] = <<>> /\ userCert'[m] = None
    BY <2>1 DEF PresentedByHolder
  <2>6. \A n \in Users : cert'[n] \in {n, Forged, None}
    BY <2>1 DEF PresentedByHolder
  <2> QED BY <2>3, <2>4, <2>5, <2>6 DEF PresentedByHolder
<1>2. ASSUME NEW k \in Users, Client(k) PROVE PresentedByHolder'
  <2>1. ASSUME NEW n \in Users, NEW m \in Links, Presented(n, m)'
        PROVE  Presented(n, m) \/ (n = k /\ link[n] = m)
    <3>1. userCert' = userCert
      BY <1>2, ClientFrame
    <3>2. ASSUME toServer'[m] = toServer[m] PROVE Presented(n, m)
      BY <2>1, <3>1, <3>2 DEF Presented
    <3>3. ASSUME m = link[k], toServer'[m] = Append(toServer[m], cert[k]), LinkOpen(m)
          PROVE  Presented(n, m) \/ (n = k /\ link[n] = m)
      <4>1. \A i \in DOMAIN Append(toServer[m], cert[k]) :
              \/ i \in DOMAIN toServer[m] /\ Append(toServer[m], cert[k])[i] = toServer[m][i]
              \/ Append(toServer[m], cert[k])[i] = cert[k]
        OBVIOUS
      <4>2. Presented(n, m) \/ cert[k] = n
        BY <2>1, <3>1, <3>3, <4>1 DEF Presented
      <4>3. cert[k] = n => n = k
        BY DEF PresentedByHolder
      <4>4. n = k => link[n] = m
        BY <3>3
      <4> QED BY <3>3, <4>2, <4>3, <4>4
    <3>4. \/ toServer' = toServer
          \/ /\ LinkOpen(link[k])
             /\ toServer' = [toServer EXCEPT ![link[k]] = Append(@, cert[k])]
      BY <1>2, ClientFrame
    <3>5. \/ toServer'[m] = toServer[m]
          \/ /\ m = link[k] /\ LinkOpen(m)
             /\ toServer'[m] = Append(toServer[m], cert[k])
      BY <3>4
    <3>6. CASE toServer'[m] = toServer[m]
      BY <3>2, <3>6
    <3>7. CASE toServer'[m] # toServer[m]
      BY <3>3, <3>5, <3>7
    <3> QED BY <3>6, <3>7
  <2>2. ASSUME NEW m \in Links, spc'[m] = "free"
        PROVE  toServer'[m] = <<>> /\ userCert'[m] = None
    BY <1>2, <2>2, ClientFrame DEF PresentedByHolder, LinkOpen
  <2>3. UNCHANGED <<cert, link, spc, broken>>
    BY <1>2, ClientFrame
  <2>4. \A n \in Users, m \in Links : LinkOpen(m)' /\ Presented(n, m)' => link'[n] = m
    BY <2>1, <2>3 DEF PresentedByHolder, LinkOpen
  <2>5. \A n, x \in Users, m \in Links : Presented(n, m)' /\ link'[x] = m => x = n
    BY <2>1, <2>3 DEF PresentedByHolder, LinksOwned
  <2> QED BY <2>2, <2>3, <2>4, <2>5 DEF PresentedByHolder
<1>3. ASSUME NEW l \in Links, Server(l) PROVE PresentedByHolder'
  <2> USE DEF ServerGoto, servers, ServerSteps
  <2>1. ASSUME NEW n \in Users, NEW m \in Links, Presented(n, m)'
        PROVE  Presented(n, m)
    <3>1. CASE ReceiveServiceRequest(l)
      <4>1. /\ toServer[l] # <<>>
            /\ userCert' = [userCert EXCEPT ![l] = Head(toServer[l])]
            /\ toServer' = [toServer EXCEPT ![l] = Tail(@)]
        BY <3>1 DEF ReceiveServiceRequest
      <4>2. /\ 1 \in DOMAIN toServer[l] /\ Head(toServer[l]) = toServer[l][1]
            /\ \A i \in DOMAIN Tail(toServer[l]) :
                 i + 1 \in DOMAIN toServer[l] /\ Tail(toServer[l])[i] = toServer[l][i + 1]
        BY <4>1
      <4> QED BY <2>1, <4>1, <4>2 DEF Presented
    <3>2. CASE SkipPacket(l)
      <4>1. /\ toServer[l] # <<>> /\ UNCHANGED userCert
            /\ toServer' = [toServer EXCEPT ![l] = Tail(@)]
        BY <3>2 DEF SkipPacket
      <4>2. \A i \in DOMAIN Tail(toServer[l]) :
              i + 1 \in DOMAIN toServer[l] /\ Tail(toServer[l])[i] = toServer[l][i + 1]
        BY <4>1
      <4> QED BY <2>1, <4>1, <4>2 DEF Presented
    <3>3. CASE UNCHANGED <<userCert, toServer>>
      BY <2>1, <3>3 DEF Presented
    <3>4. CASE StartSession(l) /\ toServer' = toServer
      BY <3>3, <3>4 DEF StartSession
    <3> QED BY <1>3, <3>1, <3>2, <3>3, <3>4, ServerFrame
  <2>2. ASSUME NEW m \in Links, LinkOpen(m)' PROVE LinkOpen(m)
    <3>1. broken' = broken
      BY <1>3, ServerFrame
    <3>2. CASE m # l
      <4>1. \/ UNCHANGED spc
            \/ \E step \in ServerSteps : spc' = [spc EXCEPT ![l] = step]
        BY <1>3, ServerFrame DEF ReceiveServiceRequest, StartSession, SkipPacket
      <4>2. spc'[m] = spc[m]
        BY <3>2, <4>1
      <4> QED BY <2>2, <3>1, <4>2 DEF LinkOpen
    <3>3. CASE m = l
      <4>1. spc'[l] = "closed" \/ spc[l] \notin {"free", "closed"}
        BY <1>3, ServerFrame DEF ReceiveServiceRequest
      <4> QED BY <2>2, <3>1, <3>3, <4>1 DEF LinkOpen
    <3> QED BY <3>2, <3>3
  <2>3. ASSUME NEW m \in Links, spc'[m] = "free"
        PROVE  toServer'[m] = <<>> /\ userCert'[m] = None
    <3>1. CASE ReceiveServiceRequest(l)
      BY <2>3, <3>1 DEF ReceiveServiceRequest, PresentedByHolder
    <3>2. CASE StartSession(l) /\ toServer' = toServer
      BY <2>3, <3>2 DEF StartSession, PresentedByHolder
    <3>3. CASE SkipPacket(l) /\ spc[l] # "free"
      BY <2>3, <3>3 DEF SkipPacket, PresentedByHolder
    <3>4. CASE /\ UNCHANGED <<userCert, toServer>>
               /\ \E step \in ServerSteps \ {"free"} : spc' = [spc EXCEPT ![l] = step]
      BY <2>3, <3>4 DEF PresentedByHolder
    <3> QED BY <1>3, <3>1, <3>2, <3>3, <3>4, ServerFrame
  <2>4. UNCHANGED <<link, cert>>
    BY <1>3, ServerFrame DEF clients
  <2> QED BY <2>1, <2>2, <2>3, <2>4 DEF PresentedByHolder
<1>4. ASSUME NEW k \in Users, NEW c \in Attempts, RequestService(k, c) PROVE PresentedByHolder'
  <2>1. /\ UNCHANGED <<link, spc, userCert, toServer, broken>>
        /\ \A n \in Users : cert'[n] \in {cert[n], n, Forged}
    BY <1>4 DEF RequestService, servers, links
  <2> QED BY <2>1 DEF PresentedByHolder, LinkOpen, Presented
<1>5. ASSUME NEW l \in Links, LinkBreaks(l) PROVE PresentedByHolder'
  <2>1. UNCHANGED <<link, cert, spc, userCert>> /\ broken' = broken \cup {l}
    BY <1>5, BreakFrame DEF clients, servers
  <2>2. ASSUME NEW n \in Users, NEW m \in Links, Presented(n, m)'
        PROVE  Presented(n, m)
    BY <1>5, <2>1, <2>2, BreakFrame DEF Presented
  <2>3. \A m \in Links : LinkOpen(m)' => LinkOpen(m)
    BY <2>1 DEF LinkOpen
  <2>4. ASSUME NEW m \in Links, spc'[m] = "free"
        PROVE  toServer'[m] = <<>> /\ userCert'[m] = None
    <3>1. toServer[m] = <<>> /\ userCert'[m] = None /\ DOMAIN <<>> = {}
      BY <2>1, <2>4 DEF PresentedByHolder
    <3>2. DOMAIN toServer'[m] = {} /\ toServer'[m] \in Seq(Users \cup {Forged, None})
      BY <1>5, <3>1, BreakFrame
    <3> QED BY <3>1, <3>2
  <2> QED BY <2>1, <2>2, <2>3, <2>4 DEF PresentedByHolder
<1>6. CASE UNCHANGED <<link, cert, servers, toServer, broken>>
  BY <1>6 DEF PresentedByHolder, LinkOpen, Presented, servers
<1> QED BY <1>1, <1>2, <1>3, <1>4, <1>5, <1>6
        DEF HandshakeNext, Unattended, allVars, programs, clients, links, Exit

\* The steps of a program but the two that write to a service's connection
LEMMA AskedSame ==
  ASSUME Typed, Owned, Asked, UNCHANGED <<clientCn, inbox, userCert>>,
         \A l \in Links : /\ pc[l] = "free" => pc'[l] = "free"
                          /\ spc'[l] \in {"free", "expectRequest", "connectTo"}
                               => spc[l] \in {"free", "expectRequest", "connectTo"}
  PROVE  Asked'
BY HandshakeAssumption DEF Asked, AsksFor

LEMMA AskedNext ==
  ASSUME Known, ProgramTypes, Asked, [HandshakeNext]_allVars
  PROVE  Asked'
<1> USE HandshakeAssumption, TtpAssumption DEF Known
<1>s. ASSUME NEW c \in Conn, NEW p, SendTtp(c, p), UNCHANGED userCert,
             \A l \in Links : spc'[l] \in {"free", "expectRequest", "connectTo"}
                               => spc[l] \in {"free", "expectRequest", "connectTo"},
             \A l \in Links : l = c /\ p.type = "ServerAuthRequest" => p.user = userCert[l]
      PROVE  Asked'
  <2>1. ASSUME NEW l \in Links PROVE AsksFor(l, userCert[l])'
    <3>1. PICK n : n = userCert[l] /\ n = userCert'[l]
      BY <1>s
    <3>2. AsksFor(l, n)
      BY <3>1 DEF Asked
    <3>3. AsksFor(l, n)'
      BY <1>s, <3>1, <3>2, SendAsksFor
    <3> QED BY <3>1, <3>3 DEF AsksFor
  <2>2. pc' = pc
    BY <1>s, SendFrame
  <2> QED BY <1>s, <2>1, <2>2 DEF Asked
<1>1. ASSUME NEW k \in Users, NEW l \in Links, Connect(k, l) PROVE Asked'
  BY <1>1, AskedSame DEF Connect, vars, ProgramTypes
<1>2. ASSUME NEW k \in Users, Client(k) PROVE Asked'
  <2>1. /\ UNCHANGED <<spc, userCert>>
        /\ cpc[k] \notin {"ui", "exited"} => ttp[k] \in Conn /\ ttp[k] \notin Links
    BY <1>2, ClientFrame DEF TtpHeld, Attempts
  <2>2. CASE InitiateAuthentication(k) \/ SubmitUserAuthData(k)
    <3>1. PICK c \in Conn : c = ttp[k] /\ c \notin Links
      BY <2>1, <2>2 DEF InitiateAuthentication, SubmitUserAuthData
    <3>2. PICK p : SendTtp(c, p)
      BY <2>2, <3>1 DEF InitiateAuthentication, SubmitUserAuthData
    <3> QED BY <1>s, <2>1, <3>1, <3>2
  <2>3. CASE UNCHANGED <<pc, clientCn, inbox>>
    BY <2>1, <2>3, AskedSame
  <2>4. CASE ReceiveSessionKey(k) \/ ClientFails(k)
    <3>1. CloseTtp(ttp[k])
      BY <2>4 DEF ReceiveSessionKey, ClientFails
    <3> QED BY <2>3, <3>1, CloseFrame
  <2>5. CASE SendServiceRequest(k) \/ ReceiveTicket(k)
    BY <2>3, <2>5 DEF SendServiceRequest, ReceiveTicket, vars
  <2> QED BY <1>2, <2>2, <2>4, <2>5 DEF Client, ClientRefuses, ServiceRequestFails, LinkWakesClient
<1>3. ASSUME NEW l \in Links, Server(l) PROVE Asked'
  <2>1. CASE ServerInitiates(l)
    <3>1. InitiateAuth(ServerCert[l]).type # "ServerAuthRequest"
      BY DEF InitiateAuth, Msg
    <3>2. /\ SendTtp(l, InitiateAuth(ServerCert[l])) /\ userCert' = userCert
          /\ spc' = [spc EXCEPT ![l] = "expectInitiateAuthOk"]
      BY <2>1 DEF ServerInitiates, ServerGoto
    <3> QED BY <1>s, <3>1, <3>2 DEF ProgramTypes
  <2>2. CASE SendServerAuthRequest(l)
    <3>1. ServerAuthRequest(userCert[l], ServerCert[l]).user = userCert[l]
      BY DEF ServerAuthRequest, Msg
    <3>2. /\ SendTtp(l, ServerAuthRequest(userCert[l], ServerCert[l])) /\ userCert' = userCert
          /\ spc' = [spc EXCEPT ![l] = "waitServerAuthOk"]
      BY <2>2 DEF SendServerAuthRequest, ServerGoto
    <3> QED BY <1>s, <3>1, <3>2 DEF ProgramTypes
  <2>3. CASE ReceiveServiceRequest(l)
    <3>1. /\ spc[l] = "expectRequest" /\ UNCHANGED <<pc, clientCn, inbox>>
          /\ userCert' = [userCert EXCEPT ![l] = Head(toServer[l])]
          /\ spc' = [spc EXCEPT ![l] = "connectTo"]
      BY <2>3 DEF ReceiveServiceRequest, ServerGoto, vars
    <3>2. pc[l] = "free" /\ inbox[l] = <<>> /\ clientCn[l] = None /\ DOMAIN <<>> = {}
      BY <3>1 DEF Asked, Owned, Typed, ThreadKnows
    <3> QED BY <3>1, <3>2 DEF Asked, AsksFor, ProgramTypes
  <2>4. CASE ConnectTtp(l)
    <3>1. /\ pc' = [pc EXCEPT ![l] = "receive"] /\ UNCHANGED <<clientCn, inbox, userCert>>
          /\ spc' = [spc EXCEPT ![l] = "initiateAuthentication"]
      BY <2>4 DEF ConnectTtp, Accept, Goto, wire, ServerGoto
    <3> QED BY <3>1 DEF Asked, AsksFor, ProgramTypes, Typed, TypeOK
  <2>5. CASE /\ UNCHANGED <<pc, clientCn, inbox, userCert>>
             /\ \/ spc' = spc
                \/ \E step \in {"receiveSessionKey", "session", "return", "closed"} :
                     spc' = [spc EXCEPT ![l] = step]
    BY <2>5, AskedSame DEF ProgramTypes
  <2>6. CASE ReceiveServerAuthOk(l) \/ StartSession(l) \/ ServerFails(l) \/ SkipPacket(l)
    BY <2>5, <2>6 DEF ReceiveServerAuthOk, StartSession, ServerFails, SkipPacket, vars, servers,
       ServerGoto
  <2>7. CASE ServerReturns(l)
    BY <2>5, <2>7, CloseFrame DEF ServerReturns, ServerGoto
  <2> QED BY <1>3, <2>1, <2>2, <2>3, <2>4, <2>6, <2>7 DEF Server
<1>4. ASSUME NEW k \in Users, NEW c \in Attempts, RequestService(k, c) PROVE Asked'
  <2>1. /\ pc' = [pc EXCEPT ![c] = "receive"] /\ c \notin Links
        /\ UNCHANGED <<clientCn, inbox, userCert, spc>>
    BY <1>4 DEF RequestService, Accept, Goto, wire, servers, Attempts
  <2>2. \A l \in Links : pc'[l] = pc[l]
    BY <2>1
  <2> QED BY <2>1, <2>2, AskedSame
<1>5. ASSUME NEW c \in Conn, Thread(c) /\ UNCHANGED programs PROVE Asked'
  <2>1. UNCHANGED <<spc, userCert>> /\ \A l \in Links : pc[l] = "free" => pc'[l] = "free"
    BY <1>5, ThreadFrame DEF programs, servers
  <2>2. ASSUME NEW l \in Links PROVE AsksFor(l, userCert[l])'
    <3>1. PICK n : n = userCert[l] /\ n = userCert'[l]
      BY <2>1
    <3>2. AsksFor(l, n)
      BY <3>1 DEF Asked
    <3>3. AsksFor(l, n)'
      BY <1>5, <3>2, ThreadAsksFor
    <3> QED BY <3>1, <3>3 DEF AsksFor
  <2> QED BY <2>1, <2>2 DEF Asked
<1>6. CASE Crash /\ UNCHANGED programs
  <2>1. /\ UNCHANGED <<clientCn, inbox, userCert, spc>>
        /\ \A d \in Conn : pc[d] = "free" => pc'[d] = "free"
    BY <1>6 DEF Crash, Live, wire, programs, servers
  <2> QED BY <2>1, AskedSame
<1>7. CASE UNCHANGED <<vars, servers>>
  BY <1>7, AskedSame DEF vars, servers
<1> QED BY <1>1, <1>2, <1>3, <1>4, <1>5, <1>6, <1>7
        DEF HandshakeNext, Unattended, allVars, Exit, LinkBreaks

LEMMA SessionHasKeyNext ==
  ASSUME ProgramTypes, SessionHasKey, [HandshakeNext]_allVars
  PROVE  SessionHasKey'
<1> USE TtpAssumption DEF ProgramTypes, SessionHasKey
<1>1. ASSUME NEW l \in Links, Server(l) PROVE SessionHasKey'
  <2> USE DEF ServerGoto, servers
  <2>1. CASE StartSession(l)
    BY <2>1 DEF StartSession
  <2>2. CASE ReceiveServiceRequest(l) \/ SkipPacket(l)
    BY <2>2 DEF ReceiveServiceRequest, SkipPacket
  <2>3. CASE UNCHANGED serverKey /\ \E step \in ServerSteps \ {"session"} : spc' = [spc EXCEPT ![l] = step]
    BY <2>3
  <2>4. CASE spc' = [spc EXCEPT ![l] = "closed"] /\ UNCHANGED serverKey
    BY <2>4
  <2> QED BY <1>1, <2>1, <2>2, <2>3, <2>4, ServerFrame
<1>2. ASSUME NEW k \in Users, NEW l \in Links, Connect(k, l) PROVE SessionHasKey'
  BY <1>2 DEF Connect
<1>3. CASE UNCHANGED <<spc, serverKey>>
  BY <1>3
<1> QED BY <1>1, <1>2, <1>3, ClientFrame
        DEF HandshakeNext, Unattended, allVars, programs, servers, RequestService, Exit,
            LinkBreaks

-----------------------------------------------------------------------------
(* Theorem *)

\* A session that runs with the key a client holds is at the other end of that
\* client's link, or of a link that broke and that no other client has, although
\* the TTP, which hands out the keys, knows no links.
THEOREM SessionIsOnOwnLink == HandshakeSpec => []SessionOnOwnLink
<1>1. HandshakeInit => LinkKnown
  BY LinkKnownInit
<1>2. HandshakeInductive /\ LinkKnown /\ [HandshakeNext]_allVars => LinkKnown'
  BY LinksOwnedNext, PresentedNext, AskedNext, SessionHasKeyNext
     DEF HandshakeInductive, LinkKnown
<1>3. KeyOfTwo /\ LinkKnown => SessionOnOwnLink
  <2> SUFFICES ASSUME KeyOfTwo, LinkKnown, NEW k \in Users, NEW l \in Links,
                      spc[l] = "session", clientKey[k] = serverKey[l]
               PROVE  /\ link[k] = l \/ l \in broken
                      /\ \A n \in Users : link[n] = l => n = k
    BY DEF SessionOnOwnLink
  <2>1. clientCn[l] = k
    BY DEF KeyOfTwo, LinkKnown, SessionHasKey
  <2>2. userCert[l] = k
    BY <2>1, TtpAssumption DEF LinkKnown, Asked, AsksFor
  <2> QED BY <2>2 DEF LinkKnown, PresentedByHolder, Presented, LinkOpen
<1> QED BY <1>1, <1>2, <1>3, HandshakeInvariance, KeyIsOfTwo, PTL DEF HandshakeSpec
=============================================================================
