----------------------------- MODULE Handshake -----------------------------
(***************************************************************************)
(* The client and server programs around the TTP: the environment of       *)
(* Ttp.tla replaced by the code that runs there (src/src/client/main.cpp,  *)
(* src/src/server/main.cpp, clientHandshake and serverHandshake of         *)
(* src/src/common/protocol.cpp).                                           *)
(*                                                                         *)
(* A client program is one thread, the UI loop; its handshake blocks it.   *)
(* It opens one connection to the TTP per attempt and keeps one connection *)
(* to the server, its link, until that looks unhealthy.  The server starts *)
(* a thread per link, which opens its own connection to the TTP; both bear *)
(* the same name here.                                                     *)
(*                                                                         *)
(* A packet is read and the next one written in one action: what a program *)
(* has read nobody else sees.                                              *)
(***************************************************************************)
EXTENDS Ttp

CONSTANTS
  Links,             \* the connections of Conn that server threads open
  ServerCert,        \* ServerCert[l]: certificate of the server behind l
  FalseCertificates, \* whether users tick "Use false certificate"
  Breakable          \* the links that may go down by themselves

ASSUME HandshakeAssumption ==
  /\ Links \subseteq Conn
  /\ ServerCert \in [Links -> Services \cup {Forged}]
  /\ FalseCertificates \in BOOLEAN
  /\ Breakable \subseteq Links

Attempts == Conn \ Links   \* the connections clients open, one per attempt

VARIABLES
  cpc,        \* cpc[k]: where the client program of user k is
  ttp,        \* ttp[k]: its connection to the TTP, or None
  link,       \* link[k]: AppState::serverSocket, or None
  cert,       \* cert[k]: activeCertificate of the attempt
  clientKey,  \* clientKey[k]: AppState::sessionKey; not None once Authenticated
  spc,        \* spc[l]: where the server's thread for l is
  userCert,   \* userCert[l]: the certificate of the ServiceRequest
  serverKey,  \* serverKey[l]: the session key of clientSession
  toServer,   \* toServer[l]: packets on the link the server has not read
  toClient,   \* toClient[l]: packets on the link the client has not read
  broken,     \* the links that were reset or lost
  read        \* read[c]: how many packets of sent[c] the program has read

clients == <<cpc, ttp, link, cert, clientKey>>
servers == <<spc, userCert, serverKey>>
links == <<toServer, toClient, broken>>
allVars == <<vars, clients, servers, links, read>>

ClientSteps == {"ui", "initiateAuthentication", "expectInitiateAuthOk",
                "waitServerAuthOk", "waitRedirect", "receiveSessionKey", "exited"}
ServerSteps == {"free", "expectRequest", "connectTo", "initiateAuthentication",
                "expectInitiateAuthOk", "waitServerAuthOk", "receiveSessionKey",
                "session", "return", "closed"}

HandshakeInit ==
  /\ Init
  /\ cpc = [k \in Users |-> "ui"]
  /\ ttp = [k \in Users |-> None]
  /\ link = [k \in Users |-> None]
  /\ cert = [k \in Users |-> None]
  /\ clientKey = [k \in Users |-> None]
  /\ spc = [l \in Links |-> "free"]
  /\ userCert = [l \in Links |-> None]
  /\ serverKey = [l \in Links |-> None]
  /\ toServer = [l \in Links |-> <<>>]
  /\ toClient = [l \in Links |-> <<>>]
  /\ broken = {}
  /\ read = [c \in Conn |-> 0]

-----------------------------------------------------------------------------
(* Defective variants of the operators and actions below, one bug each *)

\* The Connect button is there whether the link is healthy or not.
ConnectAnyTime(k, l) ==
  /\ cpc[k] = "ui" /\ spc[l] = "free"
  /\ link' = [link EXCEPT ![k] = l]
  /\ spc' = [spc EXCEPT ![l] = "expectRequest"]
  /\ UNCHANGED <<vars, cpc, ttp, cert, clientKey, userCert, serverKey, links, read>>

\* The socket to the TTP survives a failed handshake.
ClientFailsKeepsSocket(k) ==
  /\ cpc' = [cpc EXCEPT ![k] = "ui"]
  /\ UNCHANGED <<vars, ttp, link, cert, clientKey, servers, toServer, broken, read>>

\* poll() watches the TTP's socket only.
LinkNeverWakesClient(k) == FALSE /\ UNCHANGED allVars

-----------------------------------------------------------------------------
(* Connections *)

\* What expectPacket finds on connection c to the TTP; the end of the
\* connection is a packet, CloseConnection.
Readable(c) == read[c] < Len(sent[c]) \/ ~SocketOpen(c)
NextPacket(c) == IF read[c] < Len(sent[c]) THEN sent[c][read[c] + 1]
                                           ELSE Msg("CloseConnection")
Reads(c, p) ==
  /\ read[c] < Len(sent[c]) /\ p = sent[c][read[c] + 1]
  /\ read' = [read EXCEPT ![c] = @ + 1]

\* send() to the TTP; what is sent to a closed connection is lost
SendTtp(c, p) == PeerSends(c, p) \/ (~Live(c) /\ UNCHANGED vars)

\* The destructor of a socket to the TTP
CloseTtp(c) ==
  IF SocketOpen(c) /\ ~peerClosed[c] THEN PeerClose(c) ELSE UNCHANGED vars

LinkOpen(l) == spc[l] \notin {"free", "closed"} /\ l \notin broken
LinkReadable(l) == toClient[l] # <<>> \/ ~LinkOpen(l)

\* isHealthy() peeks one byte: a link with unread data looks healthy, open or
\* not.
Healthy(l) == l # None /\ (LinkOpen(l) \/ toClient[l] # <<>>)

Exited(l) == \E k \in Users : link[k] = l /\ cpc[k] = "exited"

-----------------------------------------------------------------------------
(* The client program *)

ClientGoto(k, step) == cpc' = [cpc EXCEPT ![k] = step]

\* The Connect button, in every stage.  The server's accept loop starts a thread.
Connect(k, l) ==
  /\ cpc[k] = "ui" /\ ~Healthy(link[k])
  /\ spc[l] = "free"
  /\ link' = [link EXCEPT ![k] = l]
  /\ spc' = [spc EXCEPT ![l] = "expectRequest"]
  /\ UNCHANGED <<vars, cpc, ttp, cert, clientKey, userCert, serverKey, links, read>>

\* The window is closed between two frames.
Exit(k) ==
  /\ cpc[k] = "ui"
  /\ ClientGoto(k, "exited")
  /\ UNCHANGED <<vars, ttp, link, cert, clientKey, servers, links, read>>

\* The Request service button: a new connection to the TTP
RequestService(k, c) ==
  /\ cpc[k] = "ui" /\ clientKey[k] = None /\ Healthy(link[k])
  /\ c \in Attempts /\ Accept(c)
  /\ \E x \in {k} \cup (IF FalseCertificates THEN {Forged} ELSE {}) :
       cert' = [cert EXCEPT ![k] = x]
  /\ ttp' = [ttp EXCEPT ![k] = c]
  /\ ClientGoto(k, "initiateAuthentication")
  /\ UNCHANGED <<link, clientKey, servers, links, read>>

InitiateAuthentication(k) ==
  /\ cpc[k] = "initiateAuthentication"
  /\ SendTtp(ttp[k], InitiateAuth(k))
  /\ ClientGoto(k, "expectInitiateAuthOk")
  /\ UNCHANGED <<ttp, link, cert, clientKey, servers, links, read>>

\* InitiateAuthOk is here; ServiceRequest goes out, or is lost on a dead link.
SendServiceRequest(k) ==
  LET l == link[k] IN
  /\ cpc[k] = "expectInitiateAuthOk"
  /\ Reads(ttp[k], Msg("InitiateAuthOk"))
  /\ toServer' = IF LinkOpen(l) THEN [toServer EXCEPT ![l] = Append(@, cert[k])]
                                ELSE toServer
  /\ ClientGoto(k, "waitServerAuthOk")
  /\ UNCHANGED <<vars, ttp, link, cert, clientKey, servers, toClient, broken>>

ReceiveTicket(k) ==
  /\ cpc[k] = "waitServerAuthOk"
  /\ \E n \in Users, s \in Services : Reads(ttp[k], Ticket(n, s))
  /\ ClientGoto(k, "waitRedirect")
  /\ UNCHANGED <<vars, ttp, link, cert, clientKey, servers, links>>

\* UserAuthRedirect is here; the certificate goes to the TTP.
SubmitUserAuthData(k) ==
  /\ cpc[k] = "waitRedirect"
  /\ Reads(ttp[k], Msg("UserAuthRedirect"))
  /\ SendTtp(ttp[k], UserAuthDataSubmit(cert[k]))
  /\ ClientGoto(k, "receiveSessionKey")
  /\ UNCHANGED <<ttp, link, cert, clientKey, servers, links>>

ReceiveSessionKey(k) ==
  /\ cpc[k] = "receiveSessionKey"
  /\ \E key \in Conn : /\ Reads(ttp[k], UserAuthOk(key))
                       /\ clientKey' = [clientKey EXCEPT ![k] = key]
  /\ CloseTtp(ttp[k])
  /\ ttp' = [ttp EXCEPT ![k] = None]
  /\ ClientGoto(k, "ui")
  /\ UNCHANGED <<link, cert, servers, links>>

Expected(step) ==
  CASE step = "expectInitiateAuthOk" -> "InitiateAuthOk"
    [] step = "waitServerAuthOk" -> "ServerAuthOk"
    [] step = "waitRedirect" -> "UserAuthRedirect"
    [] step = "receiveSessionKey" -> "UserAuthOk"

\* The handshake returns an error and the socket to the TTP is destroyed.
ClientFails(k) ==
  /\ CloseTtp(ttp[k])
  /\ ttp' = [ttp EXCEPT ![k] = None]
  /\ ClientGoto(k, "ui")
  /\ UNCHANGED <<link, cert, clientKey, servers, toServer, broken, read>>

ClientWaits(k) == cpc[k] \notin {"ui", "initiateAuthentication", "exited"}

\* Not the packet expected, the connection's end, or a library call failed on it
ClientRefuses(k) ==
  /\ ClientWaits(k) /\ Readable(ttp[k])
  /\ NextPacket(ttp[k]).type = Expected(cpc[k])
       => ttp[k] \in Faulty /\ cpc[k] # "waitRedirect"
  /\ ClientFails(k) /\ UNCHANGED toClient

\* The link is dead, send() may notice
ServiceRequestFails(k) ==
  /\ cpc[k] = "expectInitiateAuthOk" /\ ~LinkOpen(link[k])
  /\ NextPacket(ttp[k]) = Msg("InitiateAuthOk")
  /\ ClientFails(k) /\ UNCHANGED toClient

\* waitForDataOrError: nothing from the TTP, something (or the end) on the link
LinkWakesClient(k) ==
  LET l == link[k] IN
  /\ cpc[k] \in {"waitServerAuthOk", "waitRedirect"}
  /\ ~Readable(ttp[k]) /\ LinkReadable(l)
  /\ toClient' = IF toClient[l] = <<>> THEN toClient
                                       ELSE [toClient EXCEPT ![l] = Tail(@)]
  /\ ClientFails(k)

Client(k) ==
  \/ InitiateAuthentication(k) \/ SendServiceRequest(k) \/ ReceiveTicket(k)
  \/ SubmitUserAuthData(k) \/ ReceiveSessionKey(k)
  \/ ClientRefuses(k) \/ ServiceRequestFails(k) \/ LinkWakesClient(k)

-----------------------------------------------------------------------------
(* The server program: handleConnection *)

ServerGoto(l, step) == spc' = [spc EXCEPT ![l] = step]

ReceiveServiceRequest(l) ==
  /\ spc[l] = "expectRequest" /\ toServer[l] # <<>>
  /\ userCert' = [userCert EXCEPT ![l] = Head(toServer[l])]
  /\ toServer' = [toServer EXCEPT ![l] = Tail(@)]
  /\ ServerGoto(l, "connectTo")
  /\ UNCHANGED <<vars, clients, serverKey, toClient, broken, read>>

ConnectTtp(l) ==
  /\ spc[l] = "connectTo"
  /\ Accept(l)
  /\ ServerGoto(l, "initiateAuthentication")
  /\ UNCHANGED <<clients, userCert, serverKey, links, read>>

ServerInitiates(l) ==
  /\ spc[l] = "initiateAuthentication"
  /\ SendTtp(l, InitiateAuth(ServerCert[l]))
  /\ ServerGoto(l, "expectInitiateAuthOk")
  /\ UNCHANGED <<clients, userCert, serverKey, links, read>>

SendServerAuthRequest(l) ==
  /\ spc[l] = "expectInitiateAuthOk"
  /\ Reads(l, Msg("InitiateAuthOk"))
  /\ SendTtp(l, ServerAuthRequest(userCert[l], ServerCert[l]))
  /\ ServerGoto(l, "waitServerAuthOk")
  /\ UNCHANGED <<clients, userCert, serverKey, links>>

ReceiveServerAuthOk(l) ==
  /\ spc[l] = "waitServerAuthOk"
  /\ Reads(l, Msg("ServerAuthOk"))
  /\ ServerGoto(l, "receiveSessionKey")
  /\ UNCHANGED <<vars, clients, userCert, serverKey, links>>

StartSession(l) ==
  /\ spc[l] = "receiveSessionKey"
  /\ \E key \in Conn : /\ Reads(l, UserAuthOk(key))
                       /\ serverKey' = [serverKey EXCEPT ![l] = key]
  /\ ServerGoto(l, "session")
  /\ UNCHANGED <<vars, clients, userCert, links>>

ServerWaits(l) ==
  spc[l] \in {"expectInitiateAuthOk", "waitServerAuthOk", "receiveSessionKey"}

\* Defective: the thread goes on to wait for another request.
ServerFailsAndWaits(l) ==
  /\ ServerWaits(l) /\ Readable(l)
  /\ NextPacket(l).type # Expected(spc[l])
  /\ toClient' = [toClient EXCEPT ![l] = Append(@, "ErrorMessage")]
  /\ ServerGoto(l, "expectRequest")
  /\ UNCHANGED <<vars, clients, userCert, serverKey, toServer, broken, read>>

\* No connection (or no name, or no descriptor for it), or not the packet
\* expected: an error to the client, which a broken link loses, and return
ServerFails(l) ==
  /\ \/ spc[l] = "connectTo"
     \/ /\ ServerWaits(l) /\ Readable(l)
        /\ NextPacket(l).type = Expected(spc[l])
             => l \in Faulty /\ spc[l] # "waitServerAuthOk"
  /\ toClient' = IF LinkOpen(l) THEN [toClient EXCEPT ![l] = Append(@, "ErrorMessage")]
                                ELSE toClient
  /\ ServerGoto(l, "return")
  /\ UNCHANGED <<vars, clients, userCert, serverKey, toServer, broken, read>>

\* clientSession skips what is no DataRequest.
SkipPacket(l) ==
  /\ spc[l] = "session" /\ toServer[l] # <<>>
  /\ toServer' = [toServer EXCEPT ![l] = Tail(@)]
  /\ UNCHANGED <<vars, clients, servers, toClient, broken, read>>

\* The link ended, or the handshake failed: both sockets go.  Only a thread that
\* reads from the link learns that it ended: in serverHandshake none does.
ServerReturns(l) ==
  /\ \/ spc[l] = "return"
     \/ /\ spc[l] \in {"expectRequest", "session"} /\ toServer[l] = <<>>
        /\ Exited(l) \/ l \in broken
  /\ CloseTtp(l)
  /\ ServerGoto(l, "closed")
  /\ UNCHANGED <<clients, userCert, serverKey, links, read>>

Server(l) ==
  \/ ReceiveServiceRequest(l) \/ ConnectTtp(l) \/ ServerInitiates(l)
  \/ SendServerAuthRequest(l) \/ ReceiveServerAuthOk(l) \/ StartSession(l)
  \/ ServerFails(l) \/ SkipPacket(l) \/ ServerReturns(l)

-----------------------------------------------------------------------------
(* The network *)

\* A link is reset or lost, and with it some of what is on its way.
LinkBreaks(l) ==
  /\ l \in Breakable \ broken /\ Healthy(l)
  /\ broken' = broken \cup {l}
  /\ \E n \in 0..Len(toServer[l]) :
       toServer' = [toServer EXCEPT ![l] = SubSeq(@, 1, n)]
  /\ \E n \in 0..Len(toClient[l]) :
       toClient' = [toClient EXCEPT ![l] = SubSeq(@, 1, n)]
  /\ UNCHANGED <<vars, clients, servers, read>>

-----------------------------------------------------------------------------

programs == <<clients, servers, links, read>>

\* What happens without a button of the user interface
Unattended ==
  \/ \E k \in Users : Client(k)
  \/ \E l \in Links : Server(l)
  \/ \E c \in Conn : Thread(c) /\ UNCHANGED programs
  \/ Crash /\ UNCHANGED programs

HandshakeNext ==
  \/ \E k \in Users : \/ \E l \in Links : Connect(k, l)
                      \/ \E c \in Attempts : RequestService(k, c)
                      \/ Exit(k)
  \/ \E l \in Links : LinkBreaks(l)
  \/ Unattended

HandshakeSpec == HandshakeInit /\ [][HandshakeNext]_allVars

\* Threads and programs keep running; nobody has to press a button.
HandshakeFairness ==
  /\ \A c \in Conn : WF_allVars(UNCHANGED programs /\ Thread(c))
  /\ \A k \in Users : WF_allVars(Client(k))
  /\ \A l \in Links : WF_allVars(Server(l))
FairHandshake == HandshakeSpec /\ HandshakeFairness
-----------------------------------------------------------------------------
(* Properties *)

\* Types, and what goes together: a client has a connection to the TTP exactly
\* during a handshake, and nobody reads what was not sent.
HandshakeTypeOK ==
  /\ TypeOK
  /\ cpc \in [Users -> ClientSteps]
  /\ ttp \in [Users -> Attempts \cup {None}]
  /\ \A k \in Users : ttp[k] = None <=> cpc[k] \in {"ui", "exited"}
  /\ link \in [Users -> Links \cup {None}]
  /\ cert \in [Users -> Users \cup {Forged, None}]
  /\ clientKey \in [Users -> Conn \cup {None}]
  /\ spc \in [Links -> ServerSteps]
  /\ userCert \in [Links -> Users \cup {Forged, None}]
  /\ serverKey \in [Links -> Conn \cup {None}]
  /\ broken \subseteq Links
  /\ \A c \in Conn : read[c] \in 0..Len(sent[c])

\* A session key is held by at most one client and one session, and the thread
\* of that session asked the TTP for that client's user.
KeyOfTwo ==
  /\ \A k, n \in Users : clientKey[k] = clientKey[n] /\ clientKey[k] # None => k = n
  /\ \A l, m \in Links : serverKey[l] = serverKey[m] /\ serverKey[l] # None => l = m
  /\ \A k \in Users, l \in Links :
       clientKey[k] = serverKey[l] /\ clientKey[k] # None => clientCn[l] = k

\* A session key belongs to one link: the server's thread that runs a session
\* with it is at the other end of the link of the client that holds it, or of
\* none any more.  The TTP knows users and services, not links, and a client whose
\* link breaks during its handshake goes on to another (client/main.cpp:126)
\* while the thread of the old one, which reads from the TTP only
\* (protocol.cpp:411), still begins its session.
SessionOnOwnLink ==
  \A k \in Users, l \in Links :
    spc[l] = "session" /\ clientKey[k] = serverKey[l] =>
      /\ link[k] = l \/ l \in broken
      /\ \A n \in Users : link[n] = l => n = k

\* "Both sides hold the same AES-256-GCM session key" (README.md:159): an
\* authenticated client and a session at the other end of its link never have
\* different keys, after any number of attempts.
SameKey ==
  \A k \in Users : \A l \in Links :
    link[k] = l /\ clientKey[k] # None /\ spc[l] = "session" =>
      serverKey[l] = clientKey[k]

\* The TTP gave keys to two connections of user n.
KeyedTwice(n) ==
  \E c, d \in Conn : /\ c # d /\ name[c] = n /\ name[d] = n
                    /\ Keys[c] # {} /\ Keys[d] # {}

\* What goes wrong with SameKey goes wrong in one way only: whatever was lost,
\* refused, delayed or abandoned, the two ends of a link differ only after the
\* TTP keyed two connections of that user, so that a TTP which keyed one of them
\* at most would keep what the documentation says.
SameKeyUnlessTwo ==
  \A k \in Users : \A l \in Links :
    link[k] = l /\ clientKey[k] # None /\ spc[l] = "session" /\ ~KeyedTwice(k)
      => serverKey[l] = clientKey[k]

\* Whatever other threads of the TTP write to a connection, a server's thread
\* finds on its own the packet it waits for or an error, in each of the three
\* waits of serverHandshake, and a client finds so in its first wait.  (In the
\* later ones it does not: two services may send it their tickets.)
ReadsInOrder ==
  /\ \A l \in Links :
       ServerWaits(l) /\ read[l] < Len(sent[l]) =>
         NextPacket(l).type \in {Expected(spc[l]), "ErrorMessage"}
  /\ \A k \in Users :
       cpc[k] = "expectInitiateAuthOk" /\ read[ttp[k]] < Len(sent[ttp[k]]) =>
         NextPacket(ttp[k]).type \in {"InitiateAuthOk", "ErrorMessage"}

\* Where the data exchange begins (DataSession.tla): while a client may still be
\* given its key, the thread at the other end of its link is not waiting for a
\* request that will never come, and on the link there is nothing to read but
\* the error of a thread that closes it; no answer can be mistaken for another.
\* A link that broke may have lost the request, and then ends.
ReadyForData ==
  \A k \in Users : cpc[k] \in {"waitServerAuthOk", "waitRedirect", "receiveSessionKey"} =>
    LET l == link[k] IN
    /\ spc[l] = "expectRequest" => toServer[l] # <<>> \/ l \in broken
    /\ toClient[l] # <<>> =>
         toClient[l] = <<"ErrorMessage">> /\ spc[l] \in {"return", "closed"}

\* A client's handshake ends, unless its server's thread is in a session
\* already: clientSession skips the ServiceRequest, and nothing ever arrives.
Skipped(k) == cpc[k] = "waitServerAuthOk" /\ \E l \in Links : link[k] = l /\ spc[l] = "session"
ClientAnswered ==
  \A k \in Users : \/ cpc[k] \notin {"ui", "exited"} ~> cpc[k] = "ui"
                   \/ <>[]Skipped(k)

\* clientHandshake "blocks until authentication is complete or error occurs"
\* (protocol.hpp:128): no handshake of a client waits forever.
ClientReturns == \A k \in Users : cpc[k] \notin {"ui", "exited"} ~> cpc[k] = "ui"

\* Nor does a server's thread, once it was asked for its service.  Every link is
\* used once, so in the end no thread is on its way to a session or to its end.
ServerAnswers ==
  <>[](\A l \in Links : spc[l] \in {"free", "expectRequest", "session", "closed"})

\* The TTP distributes the key "to both parties" (README.md:122): no client is
\* authenticated whose server's thread has given up.
BothAuthenticated ==
  \A k \in Users : \A l \in Links :
    link[k] = l /\ cpc[k] # "exited" /\ clientKey[k] # None /\ spc[l] = "closed"
      => serverKey[l] # None
=============================================================================
