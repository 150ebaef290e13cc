---------------------------- MODULE DataSession ----------------------------
(***************************************************************************)
(* The encrypted data exchange of one client with the server: sendData and *)
(* authenticatedUi of src/src/client/main.cpp, clientSession and           *)
(* handleDataRequest of src/src/server/main.cpp.                           *)
(*                                                                         *)
(* It starts where Handshake.tla leaves a client that is authenticated:    *)
(* the server's thread behind its link has yet to receive its copy of the  *)
(* key, or the failure of it.  A request that is encrypted with the key of *)
(* the session is the message in it, the response to it the message it     *)
(* answers.                                                                *)
(***************************************************************************)
EXTENDS Naturals, Sequences

CONSTANTS
  Messages,       \* texts a user may type
  Empty,          \* the empty text
  Links,          \* connections to the server, one thread each
  First,          \* the one the client authenticated on
  MaxSent,        \* bound: messages sent
  LibraryFaults   \* whether an OpenSSL call may fail

ASSUME DataAssumption ==
  /\ Empty \notin Messages
  /\ First \in Links
  /\ MaxSent \in Nat
  /\ LibraryFaults \in BOOLEAN

Texts == Messages \cup {Empty}
Response(m) == [type |-> "DataResponse", text |-> m]
Error == [type |-> "ErrorMessage", text |-> Empty]

VARIABLES
  cpc,              \* where the client is: "ui", "expectResponse", "crashed"
  link,             \* AppState::serverSocket
  sentMessages,     \* AppState::sentMessages
  serverResponses,  \* AppState::serverResponses, each named by what it answers
  spc,              \* spc[l]: where the server's thread for l is
  toServer,         \* toServer[l]: texts of the requests not read yet
  toClient,         \* toClient[l]: packets the client has not read yet
  broken            \* the links that were reset or lost

client == <<cpc, link, sentMessages, serverResponses>>
vars == <<client, spc, toServer, toClient, broken>>

Init ==
  /\ cpc = "ui" /\ link = First
  /\ sentMessages = <<>> /\ serverResponses = <<>>
  /\ spc = [l \in Links |-> IF l = First THEN "receiveSessionKey" ELSE "free"]
  /\ toServer = [l \in Links |-> <<>>]
  /\ toClient = [l \in Links |-> <<>>]
  /\ broken = {}

LinkOpen(l) == spc[l] \notin {"free", "closed"} /\ l \notin broken
Healthy(l) == LinkOpen(l) \/ toClient[l] # <<>>
LastSent == sentMessages[Len(sentMessages)]
Deliver(m) ==
  toServer' = IF LinkOpen(link) THEN [toServer EXCEPT ![link] = Append(@, m)]
                                ELSE toServer
TakeResponse == toClient' = [toClient EXCEPT ![link] = Tail(@)]

\* The server's thread sends, and a broken link loses it.
Reply(l, p) ==
  toClient' = IF LinkOpen(l) THEN [toClient EXCEPT ![l] = Append(@, p)]
                             ELSE toClient

-----------------------------------------------------------------------------
(* Defective variants, one bug each *)

\* The empty text is found before the response is read.
SendDataReturnsEarly(m) ==
  /\ cpc = "ui" /\ Len(sentMessages) < MaxSent
  /\ Deliver(m)
  /\ sentMessages' = Append(sentMessages, m)
  /\ cpc' = IF m = Empty THEN "ui" ELSE "expectResponse"
  /\ UNCHANGED <<link, serverResponses, spc, toClient, broken>>

\* The thread goes on waiting for a ServiceRequest.
RefuseBySkipping(l) ==
  /\ spc[l] = "expectRequest" /\ toServer[l] # <<>>
  /\ toServer' = [toServer EXCEPT ![l] = Tail(@)]
  /\ UNCHANGED <<client, spc, toClient, broken>>

\* The response is read as isHealthy reads, and stays where it is.
ReceiveByPeeking ==
  /\ cpc = "expectResponse" /\ toClient[link] # <<>>
  /\ \E m \in Messages : /\ Head(toClient[link]) = Response(m)
                         /\ serverResponses' = Append(serverResponses, m)
  /\ cpc' = "ui"
  /\ UNCHANGED <<link, sentMessages, spc, toServer, toClient, broken>>

-----------------------------------------------------------------------------
(* The client *)

\* The Send button.  Encryption or send() may fail, then nothing has happened.
SendData(m) ==
  /\ cpc = "ui" /\ Len(sentMessages) < MaxSent
  /\ Deliver(m)
  /\ sentMessages' = Append(sentMessages, m)
  /\ cpc' = "expectResponse"
  /\ UNCHANGED <<link, serverResponses, spc, toClient, broken>>

\* A response is recorded unless the message sent (not the response) is empty,
\* or decryption fails.
ReceiveResponse ==
  /\ cpc = "expectResponse"
  /\ \E m \in Texts :
       /\ toClient[link] # <<>> /\ Head(toClient[link]) = Response(m)
       /\ \/ /\ LastSent # Empty
             /\ serverResponses' = Append(serverResponses, m)
          \/ /\ LastSent = Empty \/ LibraryFaults
             /\ UNCHANGED serverResponses
  /\ TakeResponse
  /\ cpc' = "ui"
  /\ UNCHANGED <<link, sentMessages, spc, toServer, broken>>

\* expectPacket returned an error, and its payload is used all the same:
\* undefined behaviour.  The process dies, or what it finds decrypts to nothing.
UseMissingResponse ==
  /\ cpc = "expectResponse"
  /\ \/ toClient[link] # <<>> /\ Head(toClient[link]) = Error /\ TakeResponse
     \/ toClient[link] = <<>> /\ ~LinkOpen(link) /\ UNCHANGED toClient
  /\ cpc' \in {"ui", "crashed"}
  /\ UNCHANGED <<link, sentMessages, serverResponses, spc, toServer, broken>>

\* The Connect button is there in this stage too.  The new link's thread waits
\* for a ServiceRequest, which an authenticated client never sends.
Connect(l) ==
  /\ cpc = "ui" /\ ~Healthy(link)
  /\ spc[l] = "free"
  /\ link' = l
  /\ spc' = [spc EXCEPT ![l] = "expectRequest"]
  /\ UNCHANGED <<cpc, sentMessages, serverResponses, toServer, toClient, broken>>

-----------------------------------------------------------------------------
(* The server's threads *)

StartSession(l) ==
  /\ spc[l] = "receiveSessionKey"
  /\ spc' = [spc EXCEPT ![l] = "session"]
  /\ UNCHANGED <<client, toServer, toClient, broken>>

\* No key came: an error on the link, and the thread returns.
ServerFails(l) ==
  /\ spc[l] = "receiveSessionKey"
  /\ Reply(l, Error)
  /\ spc' = [spc EXCEPT ![l] = "closed"]
  /\ UNCHANGED <<client, toServer, broken>>

HandleDataRequest(l) ==
  /\ spc[l] = "session" /\ toServer[l] # <<>>
  /\ Reply(l, Response(Head(toServer[l])))
  /\ toServer' = [toServer EXCEPT ![l] = Tail(@)]
  /\ UNCHANGED <<client, spc, broken>>

\* Decryption or encryption failed: no response, not even an error.  (The log of
\* a failed decryption uses a value that is not there: undefined behaviour, of
\* which the program dies, ServerEnds, or not.)
DropDataRequest(l) ==
  /\ LibraryFaults
  /\ spc[l] = "session" /\ toServer[l] # <<>>
  /\ toServer' = [toServer EXCEPT ![l] = Tail(@)]
  /\ UNCHANGED <<client, spc, toClient, broken>>

\* expectPacket(ServiceRequest) got something else.
RefuseDataRequest(l) ==
  /\ spc[l] = "expectRequest" /\ toServer[l] # <<>>
  /\ toServer' = [toServer EXCEPT ![l] = Tail(@)]
  /\ spc' = [spc EXCEPT ![l] = "closed"]
  /\ UNCHANGED <<client, toClient, broken>>

\* A thread that reads from the link finds that it ended; one that waits for its
\* key reads from the TTP only.
ServerReturns(l) ==
  /\ spc[l] \in {"expectRequest", "session"}
  /\ l \in broken /\ toServer[l] = <<>>
  /\ spc' = [spc EXCEPT ![l] = "closed"]
  /\ UNCHANGED <<client, toServer, toClient, broken>>

\* The server program ends, and every thread with it; it may be started again.
ServerEnds ==
  /\ spc' = [l \in Links |-> IF spc[l] = "free" THEN "free" ELSE "closed"]
  /\ UNCHANGED <<client, toServer, toClient, broken>>

\* The link is reset or lost, and with it some of what is on its way.
LinkBreaks(l) ==
  /\ LinkOpen(l)
  /\ broken' = broken \cup {l}
  /\ \E n \in 0..Len(toServer[l]) :
       toServer' = [toServer EXCEPT ![l] = SubSeq(@, 1, n)]
  /\ \E n \in 0..Len(toClient[l]) :
       toClient' = [toClient EXCEPT ![l] = SubSeq(@, 1, n)]
  /\ UNCHANGED <<client, spc>>

Server(l) ==
  \/ StartSession(l) \/ ServerFails(l)
  \/ HandleDataRequest(l) \/ DropDataRequest(l) \/ RefuseDataRequest(l)
  \/ ServerReturns(l)

-----------------------------------------------------------------------------

Next ==
  \/ \E m \in Texts : SendData(m)
  \/ ReceiveResponse \/ UseMissingResponse
  \/ \E l \in Links : Connect(l) \/ Server(l) \/ LinkBreaks(l)
  \/ ServerEnds

Spec == Init /\ [][Next]_vars

\* Both programs keep running.
FairSpec ==
  /\ Spec
  /\ WF_vars(ReceiveResponse \/ UseMissingResponse)
  /\ \A l \in Links : WF_vars(Server(l))
-----------------------------------------------------------------------------
(* Properties *)

\* Nothing is left on an open link between two messages, neither a request nor
\* a response: what the next read finds belongs to the next message.
TypeOK ==
  /\ cpc \in {"ui", "expectResponse", "crashed"}
  /\ link \in Links
  /\ sentMessages \in Seq(Texts) /\ serverResponses \in Seq(Messages)
  /\ spc \in [Links -> {"free", "expectRequest", "receiveSessionKey", "session", "closed"}]
  /\ broken \subseteq Links
  /\ cpc = "ui" /\ LinkOpen(link) =>
       toServer[link] = <<>> /\ toClient[link] = <<>>

\* A response is recorded only for the message just sent, whatever was refused,
\* dropped or lost before.
AnswersLast ==
  [][serverResponses' # serverResponses =>
       serverResponses' = Append(serverResponses, LastSent)]_vars

\* How many of the messages the client waits for no more
Answerable == Len(sentMessages) - (IF cpc = "expectResponse" THEN 1 ELSE 0)

\* Under "Messages that server responded to" the user interface pairs messages
\* and responses by their index (client/main.cpp:264-274).  There are never more
\* responses than messages they could be of, and as long as none is missing each
\* response stands beside its own message, however many requests were refused,
\* dropped or lost.  With one missing, after an empty message or a response that
\* never came, this says nothing, and the rows after it are indeed wrong.
RowsMatch ==
  /\ Len(serverResponses) <= Answerable
  /\ Len(serverResponses) = Answerable =>
       \A i \in DOMAIN serverResponses : serverResponses[i] = sentMessages[i]

\* The server could not decrypt the request or encrypt the response, and says so
\* in its log only.
Dropped ==
  spc[link] = "session" /\ toServer[link] = <<>> /\ toClient[link] = <<>>

\* sendData returns unless the server drops the request: one that answers,
\* refuses, fails or goes away ends the wait.
SendReturns ==
  cpc = "expectResponse" ~> cpc # "expectResponse" \/ Dropped
=============================================================================
