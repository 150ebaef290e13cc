--------------------------- MODULE KeyBroker_proofs ---------------------------
(***************************************************************************)
(* The TTP implements the abstract broker of KeyBroker, for any peers and  *)
(* any number of threads, and so does the TTP between the two programs; and *)
(* what the two ends of a link hold follows from where keys come from.     *)
(***************************************************************************)
EXTENDS Handshake_proofs

\* Between the two sends the requester's connection has the key already.
FirstSent ==
  \A t \in Conn : pc[t] = "sendServiceKey" => t \in Keys[session[t].client]

\* One key among some packets
LEMMA OneOf ==
  ASSUME NEW is, NEW q, \A i, j \in is : i = j
  PROVE  LET given == IF is = {} THEN None ELSE q[CHOOSE i \in is : TRUE].key
             held == {q[i].key : i \in is}
         IN  (held = {} => given = None) /\ (held # {} => held = {given})
<1>1. CASE is = {}
  BY <1>1
<1>2. CASE is # {}
  <2>1. PICK i \in is : i = CHOOSE j \in is : TRUE
    BY <1>2
  <2>2. is = {i}
    BY <2>1
  <2> QED BY <1>2, <2>1, <2>2
<1> QED BY <1>1, <1>2

\* A connection that was given a key was given the one it holds.
LEMMA GivenIsHeld ==
  ASSUME OneKeyPerConnection, NEW c \in Conn
  PROVE  /\ Keys[c] = {} => GivenKey[c] = None
         /\ Keys[c] # {} => Keys[c] = {GivenKey[c]}
<1>1. \A i, j \in KeysSent(c) : i = j
  BY DEF OneKeyPerConnection
<1>2. /\ Keys[c] = {sent[c][i].key : i \in KeysSent(c)}
      /\ GivenKey[c] = IF KeysSent(c) = {} THEN None
                       ELSE sent[c][CHOOSE i \in KeysSent(c) : TRUE].key
  BY DEF Keys, GivenKey
<1> QED BY <1>1, <1>2, OneOf

LEMMA GivenIsHeldNext ==
  ASSUME OneKeyPerConnection', NEW c \in Conn
  PROVE  /\ Keys'[c] = {} => GivenKey'[c] = None
         /\ Keys'[c] # {} => Keys'[c] = {GivenKey'[c]}
<1>1. \A i, j \in KeysSent(c)' : i = j
  BY DEF OneKeyPerConnection
<1>2. /\ Keys'[c] = {sent'[c][i].key : i \in KeysSent(c)'}
      /\ GivenKey'[c] = IF KeysSent(c)' = {} THEN None
                        ELSE sent'[c][CHOOSE i \in KeysSent(c)' : TRUE].key
  BY DEF Keys, GivenKey
<1> QED BY <1>1, <1>2, OneOf

LEMMA HeldTypes ==
  ASSUME Inductive, NEW c \in Conn
  PROVE  /\ Keys[c] \subseteq Conn /\ None \notin Keys[c]
         /\ Keys[c] = {} <=> GivenKey[c] = None
         /\ \A k \in Conn : k \in Keys[c] <=> GivenKey[c] = k
<1>1. Keys[c] \subseteq Conn
  BY DEF Inductive, KeyHolders
<1>2. OneKeyPerConnection
  BY DEF Inductive
<1> QED BY <1>1, <1>2, GivenIsHeld, Distinct

\* The keys given are those held, before and after a step.
LEMMA GivenSame ==
  ASSUME Inductive, Inductive', Keys' = Keys
  PROVE  GivenKey' = GivenKey
<1>1. ASSUME NEW c \in Conn PROVE GivenKey'[c] = GivenKey[c]
  <2>1. OneKeyPerConnection /\ OneKeyPerConnection'
    BY DEF Inductive
  <2>2. /\ Keys[c] = {} => GivenKey[c] = None
        /\ Keys[c] # {} => Keys[c] = {GivenKey[c]}
    BY <2>1, GivenIsHeld
  <2>3. /\ Keys'[c] = {} => GivenKey'[c] = None
        /\ Keys'[c] # {} => Keys'[c] = {GivenKey'[c]}
    BY <2>1, GivenIsHeldNext
  <2> QED BY <2>2, <2>3
<1>2. GivenKey = [c \in Conn |-> GivenKey[c]] /\ GivenKey' = [c \in Conn |-> GivenKey'[c]]
  BY DEF GivenKey
<1> QED BY <1>1, <1>2

\* One connection is given a key, the others keep theirs.
LEMMA GivenOne ==
  ASSUME Inductive, Inductive', NEW e \in Conn, NEW k \in Conn,
         Keys'[e] = {k}, \A x \in Conn \ {e} : Keys'[x] = Keys[x]
  PROVE  GivenKey' = [GivenKey EXCEPT ![e] = k]
<1>1. OneKeyPerConnection /\ OneKeyPerConnection'
  BY DEF Inductive
<1>2. ASSUME NEW c \in Conn PROVE GivenKey'[c] = IF c = e THEN k ELSE GivenKey[c]
  <2>2. /\ Keys[c] = {} => GivenKey[c] = None
        /\ Keys[c] # {} => Keys[c] = {GivenKey[c]}
    BY <1>1, GivenIsHeld
  <2>3. /\ Keys'[c] = {} => GivenKey'[c] = None
        /\ Keys'[c] # {} => Keys'[c] = {GivenKey'[c]}
    BY <1>1, GivenIsHeldNext
  <2> QED BY <2>2, <2>3
<1>3. /\ GivenKey = [c \in Conn |-> GivenKey[c]] /\ GivenKey' = [c \in Conn |-> GivenKey'[c]]
      /\ DOMAIN GivenKey = Conn
  BY DEF GivenKey
<1> QED BY <1>2, <1>3

-----------------------------------------------------------------------------
(* The steps *)

\* What every other step does to a name, to what a service asks for and to the
\* progress of a key
LEMMA OtherStepsMap ==
  ASSUME [Next]_vars,
         \A c \in Conn : ~InitiateAuthAccepted(c) /\ ~ServiceAuthenticated(c)
  PROVE  UNCHANGED <<name, clientCn>>
<1>1. ASSUME NEW c \in Conn,
             Accept(c) \/ PeerClose(c) \/ ReceiveLoop(c) \/ Cleanup(c)
      PROVE  UNCHANGED <<name, clientCn>>
  BY <1>1 DEF Accept, PeerClose, ReceiveLoop, Cleanup, ReceiveEnd, ReceiveCertificateRequest,
       ReceiveIgnored, InitiateAuthRejected, Register, EraseClient, ErasePending
<1>2. ASSUME NEW c \in Conn, RequesterAuthenticate(c)
      PROVE  UNCHANGED <<name, clientCn>>
  BY <1>2 DEF RequesterAuthenticate, ClientAuthenticated, ClientRejected, MatchSession,
       WaitExpires, FinalizeFails, FinalizeExpired, SendClientKey, SendServiceKey,
       SendServiceKeyFails, Fail, FailPending
<1>3. ASSUME NEW c \in Conn, ServiceAuthenticate(c)
      PROVE  UNCHANGED <<name, clientCn>>
  BY <1>3 DEF ServiceAuthenticate, ServiceUnhealthy, ServiceRejected, ServiceNameFails,
       AddPending, FindClient, FindClientFails, SendTicket, SendRedirect, NotifyFails
<1>4. ASSUME NEW c \in Conn, NEW p \in Sends[c], PeerSends(c, p)
      PROVE  UNCHANGED <<name, clientCn>>
  BY <1>4 DEF PeerSends
<1>5. CASE Crash \/ UNCHANGED vars
  BY <1>5 DEF Crash, vars
<1> QED BY <1>1, <1>2, <1>3, <1>4, <1>5 DEF Next, Thread

\* Only the first send brings a thread between the two, and nobody else
\* changes the pair it holds there.
LEMMA BetweenSends ==
  ASSUME TypeOK, [Next]_vars, NEW t \in Conn, pc'[t] = "sendServiceKey", ~SendClientKey(t)
  PROVE  pc[t] = "sendServiceKey" /\ session'[t] = session[t]
<1> USE DEF Goto, TypeOK
<1>1. ASSUME NEW c \in Conn, Accept(c) \/ PeerClose(c) \/ Cleanup(c)
      PROVE  pc[t] = "sendServiceKey" /\ session'[t] = session[t]
  BY <1>1 DEF Accept, PeerClose, Cleanup, EraseClient, ErasePending
<1>2. ASSUME NEW c \in Conn, ReceiveLoop(c)
      PROVE  pc[t] = "sendServiceKey" /\ session'[t] = session[t]
  BY <1>2 DEF ReceiveLoop, ReceiveEnd, ReceiveCertificateRequest, InitiateAuthAccepted,
       ReceiveIgnored, InitiateAuthRejected, Register
<1>3. ASSUME NEW c \in Conn, RequesterAuthenticate(c)
      PROVE  pc[t] = "sendServiceKey" /\ session'[t] = session[t]
  <2>1. CASE ClientAuthenticated(c) \/ ClientRejected(c) \/ MatchSession(c) \/ WaitExpires(c)
             \/ FinalizeFails(c) \/ FinalizeExpired(c)
    BY <2>1 DEF ClientAuthenticated, ClientRejected, MatchSession, WaitExpires,
         FinalizeFails, FinalizeExpired
  <2>2. CASE SendClientKey(c)
    BY <2>2 DEF SendClientKey
  <2>3. CASE SendServiceKey(c) \/ SendServiceKeyFails(c) \/ Fail(c)
             \/ FailPending(c)
    BY <2>3 DEF SendServiceKey, SendServiceKeyFails, Fail, FailPending
  <2> QED BY <1>3, <2>1, <2>2, <2>3 DEF RequesterAuthenticate
<1>4. ASSUME NEW c \in Conn, ServiceAuthenticate(c)
      PROVE  pc[t] = "sendServiceKey" /\ session'[t] = session[t]
  BY <1>4 DEF ServiceAuthenticate, ServiceUnhealthy, ServiceAuthenticated, ServiceRejected,
       ServiceNameFails, AddPending, FindClient, FindClientFails, SendTicket, SendRedirect,
       NotifyFails
<1>5. ASSUME NEW c \in Conn, NEW p \in Sends[c], PeerSends(c, p)
      PROVE  pc[t] = "sendServiceKey" /\ session'[t] = session[t]
  BY <1>5 DEF PeerSends
<1>6. CASE Crash
  BY <1>6 DEF Crash, Live
<1>7. CASE UNCHANGED vars
  BY <1>7 DEF vars
<1> QED BY <1>1, <1>2, <1>3, <1>4, <1>5, <1>6, <1>7 DEF Next, Thread

\* The two sends, in terms of keys
LEMMA ClientKeySent ==
  ASSUME Inductive, NEW t \in Conn, SendClientKey(t)
  PROVE  LET e == session[t].client IN
         /\ e \in Conn /\ name[e] \in Users /\ Keys[e] = {} /\ Keys'[e] = {t}
         /\ \A x \in Conn \ {e} : Keys'[x] = Keys[x]
         /\ \A x \in Conn : t \notin Keys[x]
         /\ session' = session /\ UNCHANGED <<name, clientCn>>
<1>t. Typed /\ TypeOK
  BY DEF Inductive, Typed
<1>0. PICK e \in Conn : e = session[t].client
  BY DEF SendClientKey, Inductive, Typed, ThreadKnows, Pairing
<1>1. pc[t] = "finalize" /\ Post(e, UserAuthOk(t)) /\ session' = session
      /\ UNCHANGED <<name, clientCn>>
  BY <1>0 DEF SendClientKey
<1>2. name[e] = name[t] /\ name[t] \in Users
  BY <1>0, <1>1, <1>t DEF Inductive, PairMatches, Pairing, Typed, ThreadKnows, RequesterSteps
<1>3. Keys[e] = {}
  BY <1>0, <1>1 DEF Inductive, KeyFree, Eligible
<1>4. Keys' = [Keys EXCEPT ![e] = @ \cup {t}]
  BY <1>1, <1>t, PostKey
<1>5. \A x \in Conn : t \notin Keys[x]
  BY <1>1 DEF Inductive, KeyHolders
<1>6. Keys'[e] = {t} /\ \A x \in Conn \ {e} : Keys'[x] = Keys[x]
  <2>1. DOMAIN Keys = Conn /\ Keys = [x \in Conn |-> Keys[x]]
    BY DEF Keys
  <2> QED BY <1>3, <1>4, <2>1
<1> QED BY <1>0, <1>1, <1>2, <1>3, <1>5, <1>6

LEMMA ServiceKeySent ==
  ASSUME Inductive, NEW t \in Conn, SendServiceKey(t)
  PROVE  LET d == session[t].service IN
         /\ d \in Conn /\ name[d] \in Services /\ clientCn[d] = name[t] /\ name[t] \in Users
         /\ session[t].client \in Conn /\ name[session[t].client] = name[t]
         /\ Keys[d] = {} /\ Keys'[d] = {t}
         /\ \A x \in Conn \ {d} : Keys'[x] = Keys[x]
         /\ \A x \in Conn : t \in Keys[x] => name[x] \notin Services
         /\ UNCHANGED <<name, clientCn>> /\ pc[t] = "sendServiceKey"
<1>t. Typed /\ TypeOK
  BY DEF Inductive, Typed
<1>0. PICK d \in Conn : d = session[t].service
  BY DEF SendServiceKey, Inductive, Typed, ThreadKnows, Pairing
<1>1. pc[t] = "sendServiceKey" /\ Post(d, UserAuthOk(t)) /\ UNCHANGED <<name, clientCn>>
  BY <1>0 DEF SendServiceKey
<1>2. /\ name[d] \in Services /\ clientCn[d] = name[t] /\ name[t] \in Users
      /\ session[t].client \in Conn /\ name[session[t].client] = name[t]
  BY <1>0, <1>1, <1>t DEF Inductive, PairMatches, Pairing, Typed, ThreadKnows, RequesterSteps
<1>3. Keys[d] = {}
  BY <1>0, <1>1 DEF Inductive, KeyFree, Eligible, Pairing
<1>4. Keys' = [Keys EXCEPT ![d] = @ \cup {t}]
  BY <1>1, <1>t, PostKey
<1>5. \A x \in Conn : t \in Keys[x] => name[x] \notin Services
  <2>1. \A x \in Conn : t \in Keys[x] => name[x] = name[t]
    BY <1>1 DEF Inductive, KeyHolders
  <2> QED BY <1>2, <2>1, Distinct
<1>6. Keys'[d] = {t} /\ \A x \in Conn \ {d} : Keys'[x] = Keys[x]
  <2>1. DOMAIN Keys = Conn /\ Keys = [x \in Conn |-> Keys[x]]
    BY DEF Keys
  <2> QED BY <1>3, <1>4, <2>1
<1> QED BY <1>0, <1>1, <1>2, <1>3, <1>5, <1>6

LEMMA FirstSentNext == Inductive /\ FirstSent /\ [Next]_vars => FirstSent'
<1> SUFFICES ASSUME Inductive, FirstSent, [Next]_vars,
                    NEW t \in Conn, pc'[t] = "sendServiceKey"
             PROVE  t \in Keys'[session'[t].client]
  BY DEF FirstSent
<1>t. TypeOK /\ Typed
  BY DEF Inductive, Typed
<1>1. CASE SendClientKey(t)
  BY <1>1, ClientKeySent
<1>2. CASE ~SendClientKey(t)
  <2>1. pc[t] = "sendServiceKey" /\ session'[t] = session[t]
    BY <1>2, <1>t, BetweenSends
  <2>2. PICK e \in Conn : e = session[t].client
    BY <1>t, <2>1 DEF Typed, ThreadKnows, Pairing
  <2>3. t \in Keys[e]
    BY <2>1, <2>2 DEF FirstSent
  <2>4. Keys[e] \subseteq Keys'[e]
    <3>1. ASSUME NEW c \in Conn, SendClientKey(c) PROVE Keys[e] \subseteq Keys'[e]
      BY <3>1, ClientKeySent
    <3>2. ASSUME NEW c \in Conn, SendServiceKey(c) PROVE Keys[e] \subseteq Keys'[e]
      BY <3>2, ServiceKeySent
    <3>3. CASE \A c \in Conn : ~SendClientKey(c) /\ ~SendServiceKey(c)
      BY <1>t, <3>3, OtherStepsKeep DEF KeysSame
    <3> QED BY <3>1, <3>2, <3>3
  <2> QED BY <2>1, <2>2, <2>3, <2>4
<1> QED BY <1>1, <1>2

-----------------------------------------------------------------------------
(* The abstract broker *)

LEMMA BrokerInit == Init => Broker!Init
<1> SUFFICES ASSUME Init PROVE Broker!Init
  OBVIOUS
<1>1. \A c \in Conn : KeysSent(c) = {}
  <2>1. \A c \in Conn : sent[c] = <<>>
    BY DEF Init
  <2>2. DOMAIN <<>> = {}
    OBVIOUS
  <2> QED BY <2>1, <2>2 DEF KeysSent
<1>2. GivenKey = [c \in Conn |-> None]
  BY <1>1 DEF GivenKey
<1> QED BY <1>2 DEF Broker!Init, Init

LEMMA BrokerNext ==
  Inductive /\ Inductive' /\ FirstSent /\ [Next]_vars => [Broker!Next]_(Broker!vars)
<1> SUFFICES ASSUME Inductive, Inductive', FirstSent, [Next]_vars
             PROVE  [Broker!Next]_(Broker!vars)
  OBVIOUS
<1>t. TypeOK /\ Typed
  BY DEF Inductive, Typed
<1>k. (\A c \in Conn : ~SendClientKey(c) /\ ~SendServiceKey(c)) => GivenKey' = GivenKey
  BY <1>t, OtherStepsKeep, GivenSame DEF KeysSame
<1>1. ASSUME NEW t \in Conn, SendClientKey(t) PROVE Broker!Next
  <2> DEFINE e == session[t].client
  <2>1. /\ e \in Conn /\ name[e] \in Users /\ Keys[e] = {} /\ Keys'[e] = {t}
        /\ \A x \in Conn \ {e} : Keys'[x] = Keys[x]
        /\ \A x \in Conn : t \notin Keys[x]
        /\ UNCHANGED <<name, clientCn>>
    BY <1>1, ClientKeySent
  <2> HIDE DEF e
  <2>2. GivenKey' = [GivenKey EXCEPT ![e] = t] /\ DOMAIN GivenKey = Conn
    BY <2>1, GivenOne DEF GivenKey
  <2>3. GivenKey[e] = None /\ \A d \in Conn : GivenKey[d] # t
    BY <2>1, HeldTypes
  <2>4. Broker!GiveRequester(e)
    BY <2>1, <2>2, <2>3 DEF Broker!GiveRequester
  <2> QED BY <2>1, <2>4 DEF Broker!Next
<1>2. ASSUME NEW t \in Conn, SendServiceKey(t) PROVE Broker!Next
  <2> DEFINE d == session[t].service  e == session[t].client
  <2>1. /\ d \in Conn /\ name[d] \in Services /\ clientCn[d] = name[t] /\ name[t] \in Users
        /\ e \in Conn /\ name[e] = name[t]
        /\ Keys[d] = {} /\ Keys'[d] = {t}
        /\ \A x \in Conn \ {d} : Keys'[x] = Keys[x]
        /\ \A x \in Conn : t \in Keys[x] => name[x] \notin Services
        /\ UNCHANGED <<name, clientCn>> /\ pc[t] = "sendServiceKey"
    BY <1>2, ServiceKeySent
  <2>2. t \in Keys[e]
    BY <2>1 DEF FirstSent
  <2> HIDE DEF d, e
  <2>3. GivenKey' = [GivenKey EXCEPT ![d] = t] /\ DOMAIN GivenKey = Conn
    BY <2>1, GivenOne DEF GivenKey
  <2>4. /\ GivenKey[d] = None /\ GivenKey[e] = t
        /\ \A x \in Conn : GivenKey[x] = t => name[x] \notin Services
    BY <2>1, <2>2, HeldTypes
  <2>5. Broker!GiveService(d)
    BY <2>1, <2>3, <2>4 DEF Broker!GiveService
  <2> QED BY <2>1, <2>5 DEF Broker!Next
<1>3. ASSUME NEW c \in Conn, InitiateAuthAccepted(c) PROVE Broker!Next
  <2>1. PICK n \in Names : name' = [name EXCEPT ![c] = n]
    BY <1>3 DEF InitiateAuthAccepted
  <2>2. /\ name[c] = None /\ clientCn' = clientCn
    BY <1>3, <1>t DEF InitiateAuthAccepted, Typed, ThreadKnows
  <2>3. GivenKey' = GivenKey
    <3>1. \A d \in Conn : ~SendClientKey(d) /\ ~SendServiceKey(d)
      BY <1>3, <1>t, <2>1, <2>2, Distinct, ClientKeySent, ServiceKeySent, TtpAssumption DEF Names, TypeOK
    <3> QED BY <1>k, <3>1
  <2>4. Broker!Identify(c, n)
    BY <2>1, <2>2, <2>3 DEF Broker!Identify
  <2> QED BY <2>4 DEF Broker!Next, Names
<1>4. ASSUME NEW c \in Conn, ServiceAuthenticated(c) PROVE Broker!Next
  <2>1. PICK u \in Users : clientCn' = [clientCn EXCEPT ![c] = u]
    BY <1>4 DEF ServiceAuthenticated
  <2>2. /\ name[c] \in Services /\ clientCn[c] = None /\ name' = name
    BY <1>4, <1>t DEF ServiceAuthenticated, Typed, ThreadKnows, ServiceSteps
  <2>3. GivenKey' = GivenKey
    <3>1. clientCn' # clientCn
      BY <1>t, <2>1, <2>2, TtpAssumption DEF TypeOK
    <3>2. \A d \in Conn : ~SendClientKey(d) /\ ~SendServiceKey(d)
      BY <3>1, ClientKeySent, ServiceKeySent
    <3> QED BY <1>k, <3>2
  <2>4. Broker!AskFor(c, u)
    BY <2>1, <2>2, <2>3 DEF Broker!AskFor
  <2> QED BY <2>4 DEF Broker!Next
<1>5. CASE \A c \in Conn : /\ ~SendClientKey(c) /\ ~SendServiceKey(c)
                         /\ ~InitiateAuthAccepted(c) /\ ~ServiceAuthenticated(c)
  BY <1>5, <1>k, OtherStepsMap DEF Broker!vars
<1> QED BY <1>1, <1>2, <1>3, <1>4, <1>5

-----------------------------------------------------------------------------

\* Every step of the TTP is one of the abstract broker, or changes nothing it
\* speaks of: a fresh key goes to one requester's connection first, then to at most
\* one service's that asked for that requester, and what was given is never
\* replaced, whichever threads compete for the map entries.
THEOREM ImplementsBroker == Spec => BrokerSpec
<1>1. Init => Inductive /\ FirstSent /\ Broker!Init
  BY InductiveInit, BrokerInit DEF Init, FirstSent
<1>2. Inductive /\ FirstSent /\ [Next]_vars => Inductive' /\ FirstSent'
  BY InductiveNext, FirstSentNext
<1>3. Inductive /\ Inductive' /\ FirstSent /\ [Next]_vars => [Broker!Next]_(Broker!vars)
  BY BrokerNext
<1> QED BY <1>1, <1>2, <1>3, PTL DEF Spec, BrokerSpec, Broker!Spec

\* So does the TTP between the client and the server programs.
THEOREM HandshakeImplementsBroker == HandshakeSpec => BrokerSpec
  BY ImplementsTtp, ImplementsBroker, PTL

(***************************************************************************)
(* The two ends of a link: what SameKey rests on                           *)
(***************************************************************************)

\* A service's key is held by a requester it asked for, the first of the two.
KeySource ==
  \A d \in Conn : name[d] \in Services /\ Keys[d] # {} =>
    \E c \in Conn : name[c] \in Users /\ name[c] = clientCn[d] /\ Keys[c] = Keys[d]

LEMMA KeySourceNext == Inductive /\ FirstSent /\ KeySource /\ [Next]_vars => KeySource'
<1> SUFFICES ASSUME Inductive, FirstSent, KeySource, [Next]_vars,
                    NEW d \in Conn, name'[d] \in Services, Keys'[d] # {}
             PROVE  \E c \in Conn : /\ name'[c] \in Users /\ name'[c] = clientCn'[d]
                                   /\ Keys'[c] = Keys'[d]
  BY DEF KeySource
<1>t. Typed /\ TypeOK
  BY DEF Inductive, Typed
<1>1. ASSUME NEW t \in Conn, SendClientKey(t)
      PROVE  \E c \in Conn : /\ name'[c] \in Users /\ name'[c] = clientCn'[d]
                            /\ Keys'[c] = Keys'[d]
  <2> DEFINE e == session[t].client
  <2>1. /\ e \in Conn /\ name[e] \in Users /\ Keys[e] = {}
        /\ \A x \in Conn \ {e} : Keys'[x] = Keys[x]
        /\ UNCHANGED <<name, clientCn>>
    BY <1>1, ClientKeySent
  <2> HIDE DEF e
  <2>2. d # e /\ Keys'[d] = Keys[d]
    BY <2>1, Distinct
  <2>3. PICK c \in Conn : name[c] \in Users /\ name[c] = clientCn[d] /\ Keys[c] = Keys[d]
    BY <2>1, <2>2 DEF KeySource
  <2> QED BY <2>1, <2>2, <2>3
<1>2. ASSUME NEW t \in Conn, SendServiceKey(t)
      PROVE  \E c \in Conn : /\ name'[c] \in Users /\ name'[c] = clientCn'[d]
                            /\ Keys'[c] = Keys'[d]
  <2> DEFINE s == session[t].service  e == session[t].client
  <2>1. /\ s \in Conn /\ name[s] \in Services /\ clientCn[s] = name[t] /\ name[t] \in Users
        /\ e \in Conn /\ name[e] = name[t]
        /\ Keys[s] = {} /\ Keys'[s] = {t}
        /\ \A x \in Conn \ {s} : Keys'[x] = Keys[x]
        /\ UNCHANGED <<name, clientCn>> /\ pc[t] = "sendServiceKey"
    BY <1>2, ServiceKeySent
  <2>2. t \in Keys[e]
    BY <2>1 DEF FirstSent
  <2> HIDE DEF s, e
  <2>3. Keys[e] = {t}
    BY <2>1, <2>2, GivenIsHeld DEF Inductive
  <2>4. CASE d = s
    BY <2>1, <2>3, <2>4
  <2>5. CASE d # s
    <3>1. PICK c \in Conn : name[c] \in Users /\ name[c] = clientCn[d] /\ Keys[c] = Keys[d]
      BY <2>1, <2>5 DEF KeySource
    <3> QED BY <2>1, <2>5, <3>1, Distinct
  <2> QED BY <2>4, <2>5
<1>3. CASE \A c \in Conn : ~SendClientKey(c) /\ ~SendServiceKey(c)
  <2>1. Keys' = Keys
    BY <1>t, <1>3, OtherStepsKeep DEF KeysSame
  <2>2. \A k \in Keys[d] : k \in Conn /\ (name[d] = name[k] \/ name[d] \in Services) /\ name[k] \in Users
    BY DEF Inductive, KeyHolders
  <2>3. name[d] # None /\ name[d] = name'[d] /\ name[d] \in Services
    <3>1. name[d] # None
      BY <2>1, <2>2, TtpAssumption
    <3> QED BY <1>t, <3>1, NextNames
  <2>4. PICK c \in Conn : name[c] \in Users /\ name[c] = clientCn[d] /\ Keys[c] = Keys[d]
    BY <2>1, <2>3 DEF KeySource
  <2>5. name'[c] = name[c]
    BY <1>t, <2>4, NextNames, TtpAssumption
  <2>6. clientCn'[d] = clientCn[d]
    <3>1. ASSUME NEW x \in Conn, ServiceAuthenticated(x) PROVE clientCn'[d] = clientCn[d]
      <4>1. pc[x] = "authenticateService" /\ \E u \in Users : clientCn' = [clientCn EXCEPT ![x] = u]
        BY <3>1 DEF ServiceAuthenticated
      <4>2. Keys[x] = {}
        BY <4>1 DEF Inductive, KeyFree, Eligible
      <4> QED BY <1>t, <2>1, <4>1, <4>2 DEF TypeOK
    <3>2. ASSUME NEW x \in Conn, InitiateAuthAccepted(x) PROVE clientCn'[d] = clientCn[d]
      BY <3>2 DEF InitiateAuthAccepted
    <3> QED BY <3>1, <3>2, OtherStepsMap
  <2> QED BY <2>1, <2>4, <2>5, <2>6
<1> QED BY <1>1, <1>2, <1>3

\* An authenticated client and the session at the other end of its link hold the
\* same key as long as the TTP keyed one connection of that user at most: for
\* any number of attempts, and however slow, refused or abandoned they were.
THEOREM SameKeyForOne == HandshakeSpec => []SameKeyUnlessTwo
<1> DEFINE Ends == FirstSent /\ KeySource /\ LinkKnown
<1>1. HandshakeInit => Ends
  <2> SUFFICES ASSUME HandshakeInit PROVE Ends
    OBVIOUS
  <2>1. FirstSent /\ KeySource
    BY TtpAssumption DEF HandshakeInit, Init, FirstSent, KeySource
  <2> QED BY <2>1, LinkKnownInit
<1>2. HandshakeInductive /\ Ends /\ [HandshakeNext]_allVars => Ends'
  <2> SUFFICES ASSUME HandshakeInductive, Ends, [HandshakeNext]_allVars PROVE Ends'
    OBVIOUS
  <2>1. LinkKnown'
    BY LinksOwnedNext, PresentedNext, AskedNext, SessionHasKeyNext
       DEF HandshakeInductive, LinkKnown
  <2>2. FirstSent' /\ KeySource'
    BY ProgramStep, FirstSentNext, KeySourceNext DEF HandshakeInductive, Known
  <2> QED BY <2>1, <2>2
<1>3. HandshakeInductive /\ Ends => SameKeyUnlessTwo
  <2> SUFFICES ASSUME HandshakeInductive, Ends, NEW k \in Users, NEW l \in Links,
                      link[k] = l, clientKey[k] # None, spc[l] = "session", ~KeyedTwice(k)
               PROVE  serverKey[l] = clientKey[k]
    BY DEF SameKeyUnlessTwo
  <2>i. Inductive /\ l \in Conn /\ l # None
    BY HandshakeAssumption, TtpAssumption DEF HandshakeInductive
  <2>1. serverKey[l] \in Keys[l] /\ name[l] \notin Users
    <3>1. serverKey[l] # None
      BY DEF LinkKnown, SessionHasKey
    <3> QED BY <3>1, HandshakeAssumption, TtpAssumption
            DEF HandshakeInductive, KeysReceived, Known, Introduced, Introduces
  <2>2. name[l] \in Services
    BY <2>i, <2>1 DEF Inductive, KeyHolders
  <2>3. PICK c \in Conn : name[c] \in Users /\ name[c] = clientCn[l] /\ Keys[c] = Keys[l]
    BY <2>i, <2>1, <2>2 DEF KeySource
  <2>4. clientCn[l] = k
    <3>1. clientCn[l] = userCert[l] /\ clientCn[l] \in Users
      BY <2>3, TtpAssumption DEF LinkKnown, Asked, AsksFor
    <3> QED BY <3>1 DEF LinkKnown, PresentedByHolder, Presented
  <2>5. PICK e \in Conn : name[e] = k /\ clientKey[k] \in Keys[e]
    BY DEF HandshakeInductive, KeysReceived, Attempts
  <2>6. e = c
    BY <2>1, <2>3, <2>4, <2>5 DEF KeyedTwice
  <2>7. Keys[c] = {GivenKey[c]}
    BY <2>i, <2>5, <2>6, GivenIsHeld DEF Inductive
  <2> QED BY <2>1, <2>3, <2>5, <2>6, <2>7
<1> HIDE DEF Ends
<1> QED BY <1>1, <1>2, <1>3, HandshakeInvariance, PTL DEF HandshakeSpec
=============================================================================
