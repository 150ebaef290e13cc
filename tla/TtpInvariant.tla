---------------------------- MODULE TtpInvariant ----------------------------
(***************************************************************************)
(* The inductive invariant behind the safety properties of Ttp.  TLC       *)
(* checks it on the instances of MCTtp, Ttp_proofs proves it.              *)
(***************************************************************************)
EXTENDS Ttp

BeforeRegister == {"free", "receive", "register"}
Asking == {"addPending", "findClient", "sendTicket", "sendRedirect"}
Pairing == {"finalize", "sendServiceKey"}
Notifying == {"sendTicket", "sendRedirect"}
\* Where a service's thread is after AddPending, when it did not fail before it
Listed == {"findClient", "sendTicket", "sendRedirect", "eraseClient", "closed"}

\* Where a thread is determines what it knows: its name, the user it asks for
\* and the sockets it is about to write to.
ThreadKnows ==
  \A c \in Conn :
    /\ pc[c] \in {"free", "receive"} => name[c] = None
    /\ pc[c] \in {"free", "receive", "register", "authenticateService"}
         => clientCn[c] = None
    /\ pc[c] \in {"register", "eraseClient"} => name[c] \in Names
    /\ pc[c] \in RequesterSteps \ {"eraseClient"} => name[c] \in Users
    /\ pc[c] \in ServiceSteps \ {"eraseClient"} => name[c] \in Services
    /\ pc[c] \in Asking => clientCn[c] \in Users
    /\ name[c] \in Users => clientCn[c] = None
    /\ pc[c] \in Pairing =>
         session[c].client \in Conn /\ session[c].service \in Conn
    /\ pc[c] \in Notifying => session[c].client \in Conn

Typed == TypeOK /\ ThreadKnows

\* A pending session is that of a service which asked for this very user and
\* whose thread has inserted it.
PendingListed ==
  \A n \in Names, d \in Conn :
    pendingSessions[n] = d =>
      name[d] \in Services /\ clientCn[d] = n /\ pc[d] \in Listed

\* The two sockets a requester's thread extracted belong to its own user and to
\* a service that asked for it.
PairMatches ==
  \A t \in Conn : pc[t] \in Pairing =>
    LET e == session[t].client  d == session[t].service IN
    /\ name[e] = name[t] /\ pc[e] \notin BeforeRegister
    /\ name[d] \in Services /\ clientCn[d] = name[t] /\ pc[d] \in Listed

\* A socket is in a map or in one thread's pair, never in two places.
PairExclusive ==
  \A t \in Conn : pc[t] \in Pairing =>
    /\ \A n \in Names : /\ connectedClients[n] # session[t].client
                        /\ pendingSessions[n] # session[t].service
    /\ \A s \in Conn \ {t} : pc[s] \in Pairing =>
         /\ session[s].client # session[t].client
         /\ session[s].service # session[t].service

\* A connection some thread may still write a key to, now or later
Eligible(c) ==
  \/ pc[c] \in BeforeRegister \cup {"authenticateService", "addPending"}
  \/ \E n \in Users : connectedClients[n] = c
  \/ \E n \in Names : pendingSessions[n] = c
  \/ \E t \in Conn : pc[t] = "finalize" /\ session[t].client = c
  \/ \E t \in Conn : pc[t] \in Pairing /\ session[t].service = c

\* Whoever can still be given a key has none.
KeyFree == \A c \in Conn : Eligible(c) => Keys[c] = {}

\* A key names the thread that generated it; it is held by one connection of
\* that thread's user and, once that thread is past the second send, by one
\* service that asked for the user.
KeyHolders ==
  \A c \in Conn : \A k \in Keys[c] :
    /\ k \in Conn /\ name[k] \in Users
    /\ pc[k] \in {"sendServiceKey", "fail", "findPending", "eraseClient", "erasePending",
                 "closed"}
    /\ \/ name[c] = name[k]
       \/ /\ name[c] \in Services /\ clientCn[c] = name[k]
          /\ pc[k] # "sendServiceKey"
    /\ \A d \in Conn \ {c} :
         k \in Keys[d] => (name[c] \in Users) # (name[d] \in Users)

Inductive ==
  /\ Typed
  /\ ConnectedLive
  /\ PendingListed
  /\ PairMatches
  /\ PairExclusive
  /\ KeyFree
  /\ OneKeyPerConnection
  /\ KeyHolders
  /\ NoSilentOrphan
=============================================================================
