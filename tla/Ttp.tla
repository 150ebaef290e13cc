-------------------------------- MODULE Ttp --------------------------------
(***************************************************************************)
(* The trusted third party: one detached thread per accepted connection,   *)
(* two maps shared by all threads, and the packets each thread reads from  *)
(* and writes to its own and to other connections' sockets                 *)
(* (src/src/ttp/main.cpp with the TTP's half of src/src/common/protocol.cpp). *)
(*                                                                         *)
(* The peers (client and server programs) are an environment: each sends   *)
(* the packets of Sends in any order and may close its end at any time.    *)
(* Handshake.tla replaces it by the two programs.                          *)
(*                                                                         *)
(* A section under TtpState::mutex is one action.  The four map accesses   *)
(* made without it are actions of their own, and while one of them is      *)
(* concurrent with another access of the same map the data race may lose   *)
(* the lookup (Races) or bring the process down (Crash).                   *)
(***************************************************************************)
EXTENDS Naturals, Sequences

CONSTANTS
  Conn,           \* the connections the TTP may ever accept, one thread each
  Users,          \* common names of user certificates, used as Requester
  Services,       \* common names of server certificates, used as Service
  Forged,         \* a certificate the TTP did not sign
  None,           \* "no entry", "no socket", "no payload field"
  Sends,          \* Sends[c]: the packets the peer of c may send
  MaxInbox,       \* bound: packets waiting unread on one socket
  Faulty          \* the connections on whose work a library call may fail

ASSUME TtpAssumption ==
  /\ Users \cap Services = {}
  /\ Forged \notin Users \cup Services
  /\ None \notin Users \cup Services \cup {Forged} \cup Conn
  /\ MaxInbox \in Nat \ {0}
  /\ Faulty \subseteq Conn

Names == Users \cup Services

(***************************************************************************)
(* Packets.  A certificate is the name it certifies, or Forged; a session  *)
(* key is named after the thread that generated it (32 fresh random bytes).*)
(***************************************************************************)
FromPeer == {"CertificateRequest", "InitiateAuth", "UserAuthDataSubmit",
             "ServerAuthRequest"}
FromTtp == {"CertificateResponse", "InitiateAuthOk", "ServerAuthOk",
            "UserAuthRedirect", "UserAuthOk", "ErrorMessage"}

Packet == [type : FromPeer \cup FromTtp,
           user : Names \cup {Forged, None},
           service : Names \cup {Forged, None},
           key : Conn \cup {None}]

Msg(t) == [type |-> t, user |-> None, service |-> None, key |-> None]
InitiateAuth(cert) ==
  IF cert \in Services THEN [Msg("InitiateAuth") EXCEPT !.service = cert]
                       ELSE [Msg("InitiateAuth") EXCEPT !.user = cert]
UserAuthDataSubmit(cert) == [Msg("UserAuthDataSubmit") EXCEPT !.user = cert]
ServerAuthRequest(u, s) ==
  [Msg("ServerAuthRequest") EXCEPT !.user = u, !.service = s]
Ticket(u, s) == [Msg("ServerAuthOk") EXCEPT !.user = u, !.service = s]
UserAuthOk(k) == [Msg("UserAuthOk") EXCEPT !.key = k]
Error == Msg("ErrorMessage")

PeerPackets ==
  {Msg("CertificateRequest")}
    \cup {InitiateAuth(cert) : cert \in Names \cup {Forged}}
    \cup {UserAuthDataSubmit(cert) : cert \in Users \cup {Forged}}
    \cup {ServerAuthRequest(u, s) : u \in Users \cup {Forged},
                                    s \in Services \cup {Forged}}

ASSUME SendsAssumption == Sends \in [Conn -> SUBSET PeerPackets]

VARIABLES
  up,                \* the process is running
  pc,                \* pc[c]: where connection c's thread is
  name,              \* name[c]: commonName, once InitiateAuth was accepted
  clientCn,          \* clientCn[c]: the user a service's thread asks for
  session,           \* session[c]: sockets of others that c's thread holds
  connectedClients,  \* name -> connection registered under it, or None
  pendingSessions,   \* user -> connection of a service waiting for it, or None
  inbox,             \* inbox[c]: packets from the peer the thread has not read
  sent,              \* sent[c]: every packet written to the peer, in order
  peerClosed         \* peerClosed[c]: the peer closed or lost its end

maps == <<connectedClients, pendingSessions>>
wire == <<inbox, sent, peerClosed>>
vars == <<up, pc, name, clientCn, session, connectedClients, pendingSessions,
          inbox, sent, peerClosed>>

NoSession == [client |-> None, service |-> None]

RequesterSteps == {"authenticateClient", "waitForSessionData", "finalize",
                   "sendServiceKey", "fail", "findPending", "eraseClient",
                   "erasePending"}
ServiceSteps == {"authenticateService", "addPending", "findClient",
                 "sendTicket", "sendRedirect", "eraseClient"}
Steps == {"free", "receive", "register", "closed"}
           \cup RequesterSteps \cup ServiceSteps

Init ==
  /\ up = TRUE
  /\ pc = [c \in Conn |-> "free"]
  /\ name = [c \in Conn |-> None]
  /\ clientCn = [c \in Conn |-> None]
  /\ session = [c \in Conn |-> NoSession]
  /\ connectedClients = [n \in Names |-> None]
  /\ pendingSessions = [n \in Names |-> None]
  /\ inbox = [c \in Conn |-> <<>>]
  /\ sent = [c \in Conn |-> <<>>]
  /\ peerClosed = [c \in Conn |-> FALSE]

-----------------------------------------------------------------------------
(* Sockets and threads *)

Live(c) == pc[c] \notin {"free", "closed"}

\* The shared_ptr of a socket is alive: in its thread, in pendingSessions, or
\* locked by another thread.  A weak_ptr that is only copied (the client of
\* session data before lock()) does not count.
SocketOpen(c) ==
  \/ Live(c)
  \/ \E n \in Names : pendingSessions[n] = c
  \/ \E t \in Conn : \/ session[t].service = c
                     \/ session[t].client = c /\ pc[t] # "finalize"

Goto(c, step) == pc' = [pc EXCEPT ![c] = step]
Post(c, p) == sent' = [sent EXCEPT ![c] = Append(@, p)]
PostErrors(cs) ==
  sent' = [x \in Conn |-> IF x \in cs THEN Append(sent[x], Error) ELSE sent[x]]
TakePacket(c) == inbox' = [inbox EXCEPT ![c] = Tail(@)]

\* receive() has a packet for c's thread
Receives(c, p) == inbox[c] # <<>> /\ p = Head(inbox[c])

\* unordered_map::emplace, which keeps an existing entry, and erase
Emplace(map, n, c) == IF map[n] = None THEN [map EXCEPT ![n] = c] ELSE map
EraseNothing(map, n) == map   \* defective: the entry stays
Erase(map, n) == [map EXCEPT ![n] = None]

(***************************************************************************)
(* The accesses made without TtpState::mutex: pendingSessions.find in      *)
(* FAIL_CLIENTSIDE_AUTH, connectedClients.find in serviceAuthenticate and  *)
(* the erase calls of the cleanup.                                         *)
(***************************************************************************)
Unlocked == {"findPending", "findClient", "eraseClient", "erasePending"}
ConnectedWriters == {"register", "waitForSessionData", "eraseClient"}
PendingWriters == {"addPending", "waitForSessionData", "erasePending"}

Races(c) ==
  \E d \in Conn \ {c} :
    /\ pc[c] \in Unlocked \/ pc[d] \in Unlocked
    /\ \/ /\ pc[c] \in ConnectedWriters \cup {"findClient"}
          /\ pc[d] \in ConnectedWriters \cup {"findClient"}
          /\ pc[c] \in ConnectedWriters \/ pc[d] \in ConnectedWriters
       \/ /\ pc[c] \in PendingWriters \cup {"findPending"}
          /\ pc[d] \in PendingWriters \cup {"findPending"}
          /\ pc[c] \in PendingWriters \/ pc[d] \in PendingWriters

\* What find(n) may return to c's thread
Lookup(c, map, n) == {map[n]} \cup (IF Races(c) THEN {None} ELSE {})

\* send() on a connected socket reports an error only when the peer is gone,
\* and need not even then
SendFails(c) == peerClosed[c]

-----------------------------------------------------------------------------
(* Defective variants of the actions below, one bug each.  No specification  *)
(* uses them: put in place of the action, each must break a property.        *)

\* InitiateAuthOk is forgotten.
InitiateAuthSilent(c) ==
  /\ pc[c] = "receive"
  /\ \E n \in Names : /\ Receives(c, InitiateAuth(n))
                      /\ name' = [name EXCEPT ![c] = n]
  /\ TakePacket(c)
  /\ Goto(c, "register")
  /\ UNCHANGED <<up, clientCn, session, maps, sent, peerClosed>>

\* The loop goes on after CloseConnection.
ReceiveEndContinues(c) ==
  /\ pc[c] = "receive" /\ peerClosed[c]
  /\ UNCHANGED vars

\* Any waiting service will do.
MatchSessionAny(c) ==
  LET n == name[c] IN
  /\ pc[c] = "waitForSessionData"
  /\ \E m \in Names :
       /\ connectedClients[n] # None /\ pendingSessions[m] # None
       /\ session' = [session EXCEPT ![c] = [client |-> connectedClients[n],
                                             service |-> pendingSessions[m]]]
       /\ pendingSessions' = Erase(pendingSessions, m)
  /\ connectedClients' = Erase(connectedClients, n)
  /\ Goto(c, "finalize")
  /\ UNCHANGED <<up, name, clientCn, wire>>

\* The first key goes to the wrong one of the two sockets.
SendKeyToService(c) ==
  /\ pc[c] = "finalize" /\ SocketOpen(session[c].client)
  /\ Post(session[c].service, UserAuthOk(c))
  /\ Goto(c, "sendServiceKey")
  /\ UNCHANGED <<up, name, clientCn, session, maps, inbox, peerClosed>>

\* The user's certificate is parsed but not verified.
ServiceAuthenticatedForged(c) ==
  /\ pc[c] = "authenticateService"
  /\ \E u \in Users \cup {Forged}, s \in Services :
       /\ Receives(c, ServerAuthRequest(u, s))
       /\ clientCn' = [clientCn EXCEPT ![c] = u]
  /\ TakePacket(c)
  /\ Post(c, Msg("ServerAuthOk"))
  /\ Goto(c, "addPending")
  /\ UNCHANGED <<up, name, session, maps, peerClosed>>

\* ServerAuthOk is forgotten.
ServiceAuthenticatedSilent(c) ==
  /\ pc[c] = "authenticateService"
  /\ \E u \in Users, s \in Services :
       /\ Receives(c, ServerAuthRequest(u, s))
       /\ clientCn' = [clientCn EXCEPT ![c] = u]
  /\ TakePacket(c)
  /\ Goto(c, "addPending")
  /\ UNCHANGED <<up, name, session, maps, sent, peerClosed>>

\* Nobody tells the service that the client is not connected.
FindClientFailsSilently(c) ==
  /\ pc[c] = "findClient"
  /\ \E e \in Lookup(c, connectedClients, clientCn[c]) :
       e # None => ~SocketOpen(e)
  /\ Goto(c, "eraseClient")
  /\ UNCHANGED <<up, name, clientCn, session, maps, wire>>

\* The cleanup of a requester in the opposite order.
CleanupReversed(c) ==
  \/ /\ pc[c] = "eraseClient" /\ name[c] \in Users
     /\ pendingSessions' = Erase(pendingSessions, name[c])
     /\ Goto(c, "erasePending")
     /\ UNCHANGED <<up, name, clientCn, session, connectedClients, wire>>
  \/ /\ pc[c] = "erasePending" \/ (pc[c] = "eraseClient" /\ name[c] \in Services)
     /\ connectedClients' = Erase(connectedClients, name[c])
     /\ Goto(c, "closed")
     /\ UNCHANGED <<up, name, clientCn, session, pendingSessions, wire>>

-----------------------------------------------------------------------------
(* The environment *)

Accept(c) ==
  /\ up /\ pc[c] = "free"
  /\ Goto(c, "receive")
  /\ UNCHANGED <<up, name, clientCn, session, maps, wire>>

\* A packet that arrives when the thread has no receive() ahead of it is never
\* read, so only the others are modelled.
PeerSends(c, p) ==
  /\ pc[c] \in {"receive", "register", "authenticateClient", "authenticateService"}
  /\ ~peerClosed[c]
  /\ p \in Sends[c] /\ Len(inbox[c]) < MaxInbox
  /\ inbox' = [inbox EXCEPT ![c] = Append(@, p)]
  /\ UNCHANGED <<up, pc, name, clientCn, session, maps, sent, peerClosed>>

\* Closing an end whose other end is already shut down has no effect.
PeerClose(c) ==
  /\ SocketOpen(c) /\ ~peerClosed[c]
  /\ peerClosed' = [peerClosed EXCEPT ![c] = TRUE]
  /\ UNCHANGED <<up, pc, name, clientCn, session, maps, inbox, sent>>

\* The process dies of two unsynchronised accesses, of an exception, which no
\* thread catches (JSON of another type), or of the undefined behaviour of
\* InitiateAuthRejected.
Crash ==
  /\ {c \in Conn : \/ Races(c)
                   \/ c \in Faulty /\ Live(c)
                   \/ pc[c] = "receive" /\ inbox[c] # <<>> /\ SendFails(c)} # {}
  /\ up' = FALSE
  /\ pc' = [c \in Conn |-> IF Live(c) THEN "closed" ELSE pc[c]]
  /\ session' = [c \in Conn |-> NoSession]
  /\ connectedClients' = [n \in Names |-> None]
  /\ pendingSessions' = [n \in Names |-> None]
  /\ UNCHANGED <<name, clientCn, wire>>

-----------------------------------------------------------------------------
(* handleClientConnection: the receive loop *)

\* CloseConnection, or a receive error on a dead connection
ReceiveEnd(c) ==
  /\ pc[c] = "receive" /\ peerClosed[c]
  /\ Goto(c, "closed")
  /\ UNCHANGED <<up, name, clientCn, session, maps, wire>>

ReceiveCertificateRequest(c) ==
  /\ pc[c] = "receive" /\ Receives(c, Msg("CertificateRequest"))
  /\ TakePacket(c)
  /\ \E reply \in {Msg("CertificateResponse"), Error} : Post(c, reply)
  /\ Goto(c, "closed")
  /\ UNCHANGED <<up, name, clientCn, session, maps, peerClosed>>

\* The verified certificate's name becomes the thread's; InitiateAuthOk is
\* written before the connection is registered.
InitiateAuthAccepted(c) ==
  /\ pc[c] = "receive"
  /\ \E n \in Names : /\ Receives(c, InitiateAuth(n))
                      /\ name' = [name EXCEPT ![c] = n]
  /\ TakePacket(c)
  /\ Post(c, Msg("InitiateAuthOk"))
  /\ Goto(c, "register")
  /\ UNCHANGED <<up, clientCn, session, maps, peerClosed>>

\* If send() failed, the code asks the name it has for an error: undefined
\* behaviour, which writes some error here or ends in Crash.
InitiateAuthRejected(c) ==
  /\ pc[c] = "receive"
  /\ \E cert \in Names \cup {Forged} :
       /\ Receives(c, InitiateAuth(cert))
       /\ cert = Forged \/ SendFails(c) \/ c \in Faulty
  /\ TakePacket(c)
  /\ Post(c, Error)
  /\ Goto(c, "closed")
  /\ UNCHANGED <<up, name, clientCn, session, maps, peerClosed>>

ReceiveIgnored(c) ==
  /\ pc[c] = "receive"
  /\ \E p \in PeerPackets :
       /\ Receives(c, p)
       /\ p.type \notin {"CertificateRequest", "InitiateAuth"}
  /\ TakePacket(c)
  /\ UNCHANGED <<up, pc, name, clientCn, session, maps, sent, peerClosed>>

Register(c) ==
  /\ pc[c] = "register"
  /\ connectedClients' = Emplace(connectedClients, name[c], c)
  /\ Goto(c, IF name[c] \in Users THEN "authenticateClient"
                                  ELSE "authenticateService")
  /\ UNCHANGED <<up, name, clientCn, session, pendingSessions, wire>>

-----------------------------------------------------------------------------
(* requesterAuthenticate *)

ClientAuthenticated(c) ==
  /\ pc[c] = "authenticateClient"
  /\ \E u \in Users : Receives(c, UserAuthDataSubmit(u))
  /\ TakePacket(c)
  /\ Goto(c, "waitForSessionData")
  /\ UNCHANGED <<up, name, clientCn, session, maps, sent, peerClosed>>

\* A wrong packet, a certificate that does not verify, or no packet at all
ClientRejected(c) ==
  /\ pc[c] = "authenticateClient"
  /\ \/ /\ \E p \in PeerPackets :
             /\ Receives(c, p)
             /\ p \in {UserAuthDataSubmit(u) : u \in Users} => c \in Faulty
        /\ TakePacket(c)
     \/ peerClosed[c] /\ UNCHANGED inbox
  /\ Post(c, Error)
  /\ Goto(c, "fail")
  /\ UNCHANGED <<up, name, clientCn, session, maps, peerClosed>>

\* Under the mutex: both entries are there, and both are extracted.
MatchSession(c) ==
  LET n == name[c] IN
  /\ pc[c] = "waitForSessionData"
  /\ connectedClients[n] # None /\ pendingSessions[n] # None
  /\ session' = [session EXCEPT ![c] = [client |-> connectedClients[n],
                                        service |-> pendingSessions[n]]]
  /\ connectedClients' = Erase(connectedClients, n)
  /\ pendingSessions' = Erase(pendingSessions, n)
  /\ Goto(c, "finalize")
  /\ UNCHANGED <<up, name, clientCn, wire>>

\* The five seconds are over, or (peerClosed) isHealthy fails.  Neither is
\* followed by another look at the maps.
WaitExpires(c) ==
  /\ pc[c] = "waitForSessionData"
  /\ Goto(c, "fail")
  /\ UNCHANGED <<up, name, clientCn, session, maps, wire>>

\* getPublicKey of either certificate fails, before the client's weak_ptr is
\* locked; or, after it, the key generation or the first sendSessionKey.
FinalizeFails(c) ==
  LET e == session[c].client  d == session[c].service IN
  /\ pc[c] = "finalize"
  /\ \/ c \in Faulty /\ UNCHANGED sent
          /\ session' = [session EXCEPT ![c].client = None]
     \/ SocketOpen(e) /\ (SendFails(e) \/ c \in Faulty)
          /\ UNCHANGED <<sent, session>>
     \/ SocketOpen(e) /\ c \in Faulty      \* generateSessionKey failed
          /\ PostErrors({e, d}) /\ UNCHANGED session
  /\ Goto(c, "fail")
  /\ UNCHANGED <<up, name, clientCn, maps, inbox, peerClosed>>

FinalizeExpired(c) ==
  /\ pc[c] = "finalize" /\ ~SocketOpen(session[c].client)
  /\ session' = [session EXCEPT ![c] = NoSession]
  /\ Goto(c, "eraseClient")
  /\ UNCHANGED <<up, name, clientCn, maps, wire>>

SendClientKey(c) ==
  /\ pc[c] = "finalize" /\ SocketOpen(session[c].client)
  /\ Post(session[c].client, UserAuthOk(c))
  /\ Goto(c, "sendServiceKey")
  /\ UNCHANGED <<up, name, clientCn, session, maps, inbox, peerClosed>>

SendServiceKey(c) ==
  /\ pc[c] = "sendServiceKey"
  /\ Post(session[c].service, UserAuthOk(c))
  /\ session' = [session EXCEPT ![c] = NoSession]
  /\ Goto(c, "eraseClient")
  /\ UNCHANGED <<up, name, clientCn, maps, inbox, peerClosed>>

SendServiceKeyFails(c) ==
  /\ pc[c] = "sendServiceKey"
  /\ SendFails(session[c].service) \/ c \in Faulty
  /\ Goto(c, "fail")
  /\ UNCHANGED <<up, name, clientCn, session, maps, wire>>

\* FAIL_CLIENTSIDE_AUTH: an error to the own peer ...
Fail(c) ==
  /\ pc[c] = "fail"
  /\ Post(c, Error)
  /\ Goto(c, "findPending")
  /\ UNCHANGED <<up, name, clientCn, session, maps, inbox, peerClosed>>

\* ... then, without the mutex, one to whichever service waits for this user
FailPending(c) ==
  /\ pc[c] = "findPending"
  /\ \E d \in Lookup(c, pendingSessions, name[c]) : PostErrors({d})
  /\ session' = [session EXCEPT ![c] = NoSession]
  /\ Goto(c, "eraseClient")
  /\ UNCHANGED <<up, name, clientCn, maps, inbox, peerClosed>>

-----------------------------------------------------------------------------
(* serviceAuthenticate *)

\* The socket is unhealthy: return without a word
ServiceUnhealthy(c) ==
  /\ pc[c] = "authenticateService" /\ peerClosed[c]
  /\ Goto(c, "eraseClient")
  /\ UNCHANGED <<up, name, clientCn, session, maps, wire>>

ServiceAuthenticated(c) ==
  /\ pc[c] = "authenticateService"
  /\ \E u \in Users, s \in Services :
       /\ Receives(c, ServerAuthRequest(u, s))
       /\ clientCn' = [clientCn EXCEPT ![c] = u]
  /\ TakePacket(c)
  /\ Post(c, Msg("ServerAuthOk"))
  /\ Goto(c, "addPending")
  /\ UNCHANGED <<up, name, session, maps, peerClosed>>

\* Both authenticateService and its caller report the failure.
ServiceRejected(c) ==
  /\ pc[c] = "authenticateService"
  /\ \/ /\ \E p \in PeerPackets :
             /\ Receives(c, p)
             /\ p \in {ServerAuthRequest(u, s) : u \in Users, s \in Services}
                  => c \in Faulty \/ SendFails(c)
        /\ TakePacket(c)
     \/ peerClosed[c] /\ UNCHANGED inbox
  /\ sent' = [sent EXCEPT ![c] = Append(Append(@, Error), Error)]
  /\ Goto(c, "eraseClient")
  /\ UNCHANGED <<up, name, clientCn, session, maps, peerClosed>>

\* getCommonName fails on the verified certificate, after ServerAuthOk
ServiceNameFails(c) ==
  /\ pc[c] = "addPending" /\ c \in Faulty
  /\ Post(c, Error)
  /\ Goto(c, "eraseClient")
  /\ UNCHANGED <<up, name, clientCn, session, maps, inbox, peerClosed>>

AddPending(c) ==
  /\ pc[c] = "addPending"
  /\ pendingSessions' = Emplace(pendingSessions, clientCn[c], c)
  /\ Goto(c, "findClient")
  /\ UNCHANGED <<up, name, clientCn, session, connectedClients, wire>>

\* Without the mutex.  The weak_ptr of a registered client is locked here.
FindClient(c) ==
  /\ pc[c] = "findClient"
  /\ \E e \in Lookup(c, connectedClients, clientCn[c]) :
       /\ e # None /\ SocketOpen(e)
       /\ session' = [session EXCEPT ![c].client = e]
  /\ Goto(c, "sendTicket")
  /\ UNCHANGED <<up, name, clientCn, maps, wire>>

\* "Client is not connected to TTP" or "Client disconnected"
FindClientFails(c) ==
  /\ pc[c] = "findClient"
  /\ \E e \in Lookup(c, connectedClients, clientCn[c]) :
       e # None => ~SocketOpen(e)
  /\ Post(c, Error)
  /\ Goto(c, "eraseClient")
  /\ UNCHANGED <<up, name, clientCn, session, maps, inbox, peerClosed>>

SendTicket(c) ==
  /\ pc[c] = "sendTicket"
  /\ Post(session[c].client, Ticket(clientCn[c], name[c]))
  /\ Goto(c, "sendRedirect")
  /\ UNCHANGED <<up, name, clientCn, session, maps, inbox, peerClosed>>

SendRedirect(c) ==
  /\ pc[c] = "sendRedirect"
  /\ Post(session[c].client, Msg("UserAuthRedirect"))
  /\ session' = [session EXCEPT ![c] = NoSession]
  /\ Goto(c, "eraseClient")
  /\ UNCHANGED <<up, name, clientCn, maps, inbox, peerClosed>>

NotifyFails(c) ==
  /\ \/ pc[c] = "sendTicket" /\ c \in Faulty
     \/ pc[c] \in {"sendTicket", "sendRedirect"} /\ SendFails(session[c].client)
  /\ Post(c, Error)
  /\ session' = [session EXCEPT ![c] = NoSession]
  /\ Goto(c, "eraseClient")
  /\ UNCHANGED <<up, name, clientCn, maps, inbox, peerClosed>>

-----------------------------------------------------------------------------
(* The cleanup of handleClientConnection, without the mutex *)

EraseClient(c) ==
  /\ pc[c] = "eraseClient"
  /\ connectedClients' = Erase(connectedClients, name[c])
  /\ Goto(c, IF name[c] \in Users THEN "erasePending" ELSE "closed")
  /\ UNCHANGED <<up, name, clientCn, session, pendingSessions, wire>>

ErasePending(c) ==
  /\ pc[c] = "erasePending"
  /\ pendingSessions' = Erase(pendingSessions, name[c])
  /\ Goto(c, "closed")
  /\ UNCHANGED <<up, name, clientCn, session, connectedClients, wire>>

-----------------------------------------------------------------------------

ReceiveLoop(c) ==
  \/ ReceiveEnd(c) \/ ReceiveCertificateRequest(c) \/ ReceiveIgnored(c)
  \/ InitiateAuthAccepted(c) \/ InitiateAuthRejected(c) \/ Register(c)

RequesterAuthenticate(c) ==
  \/ ClientAuthenticated(c) \/ ClientRejected(c)
  \/ MatchSession(c) \/ WaitExpires(c)
  \/ FinalizeFails(c) \/ FinalizeExpired(c)
  \/ SendClientKey(c) \/ SendServiceKey(c) \/ SendServiceKeyFails(c)
  \/ Fail(c) \/ FailPending(c)

ServiceAuthenticate(c) ==
  \/ ServiceUnhealthy(c) \/ ServiceAuthenticated(c) \/ ServiceRejected(c)
  \/ ServiceNameFails(c) \/ AddPending(c)
  \/ FindClient(c) \/ FindClientFails(c)
  \/ SendTicket(c) \/ SendRedirect(c) \/ NotifyFails(c)

Cleanup(c) == EraseClient(c) \/ ErasePending(c)

\* One step of the thread of connection c
Thread(c) == ReceiveLoop(c) \/ RequesterAuthenticate(c)
               \/ ServiceAuthenticate(c) \/ Cleanup(c)

Next ==
  \/ \E c \in Conn : Accept(c) \/ PeerClose(c) \/ Thread(c)
  \/ \E c \in Conn : \E p \in Sends[c] : PeerSends(c, p)
  \/ Crash

Spec == Init /\ [][Next]_vars

\* The operating system keeps running every thread.
Fairness == \A c \in Conn : WF_vars(Thread(c))
FairSpec == Spec /\ Fairness
-----------------------------------------------------------------------------
(* Properties *)

\* Every variable has its type, and a thread that has no name yet is one that
\* has not left the receive loop.
TypeOK ==
  /\ up \in BOOLEAN
  /\ pc \in [Conn -> Steps]
  /\ name \in [Conn -> Names \cup {None}]
  /\ clientCn \in [Conn -> Users \cup {None}]
  /\ session \in [Conn -> [client : Conn \cup {None}, service : Conn \cup {None}]]
  /\ connectedClients \in [Names -> Conn \cup {None}]
  /\ pendingSessions \in [Names -> Conn \cup {None}]
  /\ inbox \in [Conn -> Seq(Packet)]
  /\ sent \in [Conn -> Seq(Packet)]
  /\ peerClosed \in [Conn -> BOOLEAN]

\* connectedClients never keeps a connection whose thread has already done its
\* cleanup, so the weak_ptr found under the map's entry can be locked: emplace
\* comes before the thread's own erase, and nobody else re-inserts it.
ConnectedLive ==
  \A n \in Names : \A e \in Conn :
    connectedClients[n] = e =>
      /\ name[e] = n
      /\ pc[e] \notin {"free", "receive", "register", "erasePending", "closed"}

KeysSent(c) == {i \in DOMAIN sent[c] : sent[c][i].type = "UserAuthOk"}

\* The keys a connection was given, and the connections told of a failure
Keys == [c \in Conn |-> {sent[c][i].key : i \in KeysSent(c)}]
ToldError == {c \in Conn : \E i \in DOMAIN sent[c] : sent[c][i] = Error}

\* No connection is ever given two session keys, whichever threads of the same
\* user and whichever waiting services compete: extraction of both map entries
\* in one critical section makes the pair the property of one thread.
OneKeyPerConnection ==
  \A c \in Conn : \A i, j \in KeysSent(c) : i = j

\* Two connections that hold the same session key are a requester and a service
\* that asked the TTP for exactly that requester's name.
KeyBinding ==
  \A c, d \in Conn : c # d /\ Keys[c] \cap Keys[d] # {} =>
      \/ name[c] \in Users /\ name[d] \in Services /\ clientCn[d] = name[c]
      \/ name[d] \in Users /\ name[c] \in Services /\ clientCn[c] = name[d]

\* A requester's thread of user n that has yet to erase n's pending session
WillErasePending(n) ==
  \E t \in Conn : name[t] = n /\ (pc[t] \in RequesterSteps \/ pc[t] = "register")

\* A service left in pendingSessions after its thread has looked for the client
\* either was told of the failure, or some requester's thread of that user is
\* still to find it or to erase it.  It rests on two orders in the code: the
\* service inserts before it looks (ttp/main.cpp:247, 252), the requester erases
\* its own entry before the pending one (331, 335).
NoSilentOrphan ==
  \A n \in Users : \A d \in Conn :
    /\ pendingSessions[n] = d
    /\ pc[d] \in {"sendTicket", "sendRedirect", "eraseClient", "closed"}
    => d \in ToldError \/ WillErasePending(n)

\* The key a connection was given
GivenKey ==
  [c \in Conn |-> IF KeysSent(c) = {} THEN None
                  ELSE sent[c][CHOOSE i \in KeysSent(c) : TRUE].key]

\* What the TTP promises about keys, whatever its threads do: KeyBroker.tla.
Broker == INSTANCE KeyBroker WITH who <- name, asks <- clientCn, key <- GivenKey

\* Every step of the TTP is a step of the abstract broker: a fresh key goes to
\* one requester's connection first, then to at most one service's that asked
\* for that requester, and what was given is never replaced.
BrokerSpec == Broker!Spec

\* A peer sees what its handshake expects, in the order it expects it, up to
\* the first error: a service InitiateAuthOk, ServerAuthOk, UserAuthOk; a
\* requester InitiateAuthOk before anything another thread writes to it.
PeerOrder ==
  \A c \in Conn : \A i \in DOMAIN sent[c] :
    (\A j \in 1..i : sent[c][j] # Error) =>
      /\ name[c] \in Names => (i = 1) = (sent[c][i].type = "InitiateAuthOk")
      /\ name[c] \in Services => (i = 2) = (sent[c][i] = Msg("ServerAuthOk"))
      /\ name[c] \in Services => (i = 3) = (sent[c][i].type = "UserAuthOk")

\* A thread whose peer is gone ends: every wait of the handler is bounded by the
\* peer's end of the connection or by the five seconds of waitForSessionData.
ThreadEnds == \A c \in Conn : peerClosed[c] ~> ~Live(c)

RequestersGone ==
  \A c \in Conn : Live(c) /\ name[c] \notin Services => peerClosed[c]

\* A service that was told ServerAuthOk is not left waiting once the users'
\* connections have ended: it gets a key, an error or the end of its connection.
ServiceAnswered ==
  \A d \in Conn :
    (<>[]RequestersGone) =>
      (pc[d] = "findClient"
         ~> Keys[d] # {} \/ d \in ToldError \/ ~SocketOpen(d))
=============================================================================
