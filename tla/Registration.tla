----------------------------- MODULE Registration -----------------------------
(***************************************************************************)
(* Phase 1 of the protocol, certificate registration, over restarts of the *)
(* TTP (src/src/ttp/main.cpp, server/main.cpp, client/main.cpp and         *)
(* common/protocol.cpp).                                                   *)
(*                                                                         *)
(* Every run of the TTP makes a key and a self-signed certificate, saves   *)
(* the certificate in ttp.cert and listens.  A client or server loads the  *)
(* certificate from its copy of the file, once, and asks the TTP for a     *)
(* certificate of its own, sending its id encrypted for the TTP's key.     *)
(* Nothing else is persistent: a program that is started again is another  *)
(* member of Client or Server.  A copy may be of any age: the programs     *)
(* share a directory, or docker-compose.yml and download_ttp_cert.sh copy  *)
(* the file.                                                               *)
(***************************************************************************)
EXTENDS Pki

CONSTANTS
  Run,             \* runs of the TTP, numbered in the order they are started
  Client, Server,  \* runs of the other two programs
  Falsifying,      \* servers with --falsify-certificate
  HexId,           \* HexId[p]: what hashToHex makes of the id of p
  GarbageId,       \* what it makes of an id that was not generated
  TtpName, FakeName, \* the subjects of self-signed certificates
  None

Participant == Client \cup Server
Key == Run \cup Participant
Text == Seq(Nat)
Certificate == CertificateOf(Text, Key)
TtpData == [certificate : Certificate, key : Key]

ASSUME RegistrationAssumption ==
  /\ Run \subseteq Nat
  /\ Client \cap Server = {} /\ Run \cap Participant = {}
  /\ Falsifying \subseteq Server
  /\ HexId \in [Participant -> Text] /\ GarbageId \in Text
  /\ TtpName \in Text /\ FakeName \in Text
  /\ None \notin Text \cup Certificate \cup TtpData
\* Two hexadecimal digits for each of the 32 bytes: at most 64.
ASSUME IdFits ==
  \A p \in Participant : /\ Len(HexId[p]) <= MaxCommonName
                         /\ Len(GarbageId) <= MaxCommonName

VARIABLES
  ttp,          \* state of each run of the TTP
  file,         \* content of ttp.cert in the TTP's directory
  copy,         \* copy[p]: the file that p loads
  stage,        \* how far p is
  id,           \* the client's or server's id, once it is generated
  ttpData,      \* the TTP's certificate and key, once they are loaded
  link,         \* connection of p to a TTP
  certificate   \* the certificate p shows

vars == <<ttp, file, copy, stage, id, ttpData, link, certificate>>

NoLink == [to |-> None, request |-> <<>>, response |-> <<>>, open |-> FALSE]
Linked(t) == [to |-> t, request |-> <<>>, response |-> <<>>, open |-> TRUE]

Init ==
  /\ ttp = [t \in Run |-> "no"]
  /\ file = <<>>
  /\ copy = [p \in Participant |-> <<>>]
  /\ stage = [p \in Participant |-> "start"]
  /\ id = [p \in Participant |-> None]
  /\ ttpData = [p \in Participant |-> None]
  /\ link = [p \in Participant |-> NoLink]
  /\ certificate = [p \in Participant |-> None]

Alive(t) == ttp[t] \in {"started", "writing", "saved", "listening"}
OwnCertificate(t) == createSelfSignedCA(TtpName, t)

-----------------------------------------------------------------------------
(* Starting and stopping a TTP *)

Become(t, from, to) == ttp[t] = from /\ ttp' = [ttp EXCEPT ![t] = to]
others == <<copy, stage, id, ttpData, certificate>>

\* The key and the certificate are made.  A second TTP may be started while
\* another runs.
TtpStart(t) ==
  /\ \A u \in Run : u < t => ttp[u] # "no"
  /\ Become(t, "no", "started")
  /\ UNCHANGED <<file, link, others>>

\* saveToFile: the file is emptied first, whoever wrote it.
TtpOpensFile(t) ==
  /\ Become(t, "started", "writing") /\ file' = <<>>
  /\ UNCHANGED <<link, others>>

\* What the run leaves there: saveToFile ignores whether the text it buffers
\* reaches the disk, and on a full one the file holds no certificate.
SavedBy(t) == {toPem(OwnCertificate(t)), <<>>}

TtpWritesFile(t) ==
  /\ Become(t, "writing", "saved") /\ file' \in SavedBy(t)
  /\ UNCHANGED <<link, others>>

PortTaken == \E t \in Run : ttp[t] = "listening"

\* Defective variant that no specification uses: the port first, then the file.
ListenBeforeSaving(t) ==
  /\ ttp[t] \in {"started", "writing", "saved"}
  /\ ttp' = [ttp EXCEPT ![t] = IF PortTaken THEN "ended" ELSE "listening"]
  /\ UNCHANGED <<file, link, others>>

\* The port is taken if another TTP listens.
TtpListen(t) ==
  /\ Become(t, "saved", IF PortTaken THEN "ended" ELSE "listening")
  /\ UNCHANGED <<file, link, others>>

\* The process ends, by a failure at its start or later; its connections end.
TtpEnd(t) ==
  /\ Alive(t) /\ ttp' = [ttp EXCEPT ![t] = "ended"]
  /\ link' = [p \in Participant |->
                IF link[p].to = t THEN [link[p] EXCEPT !.open = FALSE, !.request = <<>>]
                ELSE link[p]]
  /\ UNCHANGED <<file, others>>

\* cp, docker cp, or the shared directory
CopyFile(p) ==
  /\ copy[p] # file /\ copy' = [copy EXCEPT ![p] = file]
  /\ UNCHANGED <<ttp, file, stage, id, ttpData, link, certificate>>

-----------------------------------------------------------------------------
(* What both programs do *)

Goto(p, from, to) == stage[p] = from /\ stage' = [stage EXCEPT ![p] = to]

\* Any failure the server does not recover from, or the user closes the program.
Exit(p) ==
  /\ stage[p] # "exited" /\ stage' = [stage EXCEPT ![p] = "exited"]
  /\ link' = [link EXCEPT ![p] = NoLink]
  /\ UNCHANGED <<ttp, file, copy, id, ttpData, certificate>>

\* connectTo
Connect(p, t, from, to) ==
  /\ Goto(p, from, to)
  /\ ttp[t] = "listening"
  /\ link' = [link EXCEPT ![p] = Linked(t)]
  /\ UNCHANGED <<ttp, file, copy, id, ttpData, certificate>>

\* What is made of a file: nothing, if it holds no certificate
LoadedFrom(text) ==
  [certificate |-> fromPem(text), key |-> getPublicKey(fromPem(text))]

loadTtpData(p, from, to) ==
  /\ IsPem(copy[p])
  /\ Goto(p, from, to)
  /\ ttpData' = [ttpData EXCEPT ![p] = LoadedFrom(copy[p])]
  /\ UNCHANGED <<ttp, file, copy, id, link, certificate>>

\* obtainCertificate, up to the answer
RequestFor(p) ==
  [id |-> encryptAndEncode(id[p], ttpData[p].key), publicKeyPem |-> toPem(p)]

SendRequest(p, from, to) ==
  /\ Goto(p, from, to) /\ link[p].open
  /\ link' = [link EXCEPT ![p].request = <<RequestFor(p)>>]
  /\ UNCHANGED <<ttp, file, copy, id, ttpData, certificate>>

\* The answer: a certificate that the TTP of ttpData signed, or a failure
ObtainedFrom(p, response) ==
  /\ response # <<>> /\ response[1].type = "CertificateResponse"
  /\ verify(ttpData[p].certificate, fromPem(response[1].certificatePem))

Answered(p) == link[p].response # <<>> \/ ~link[p].open

Obtained(p, to) ==
  /\ ObtainedFrom(p, link[p].response)
  /\ stage' = [stage EXCEPT ![p] = to]
  /\ certificate' = [certificate EXCEPT
       ![p] = IF p \in Falsifying THEN createSelfSignedCA(FakeName, p)
              ELSE fromPem(link[p].response[1].certificatePem)]

-----------------------------------------------------------------------------
(* The client: a button for each step, and a failed one may be tried again *)

ClientLoad(c) == loadTtpData(c, "start", "GeneratingID")

\* Defective variant that no specification uses: the id is not kept.
GenerateIdForgets(c) ==
  /\ Goto(c, "GeneratingID", "ObtainCertificate")
  /\ UNCHANGED <<ttp, file, copy, id, ttpData, link, certificate>>

\* When random bytes are missing the id that was not generated is used.
GenerateId(c) ==
  /\ Goto(c, "GeneratingID", "ObtainCertificate")
  /\ \E name \in {HexId[c], GarbageId} : id' = [id EXCEPT ![c] = name]
  /\ UNCHANGED <<ttp, file, copy, ttpData, link, certificate>>

ClientConnect(c, t) == Connect(c, t, "ObtainCertificate", "connected")
ClientRequest(c) == SendRequest(c, "connected", "waiting")

ClientObtains(c) ==
  /\ stage[c] = "waiting" /\ Obtained(c, "Registered")
  /\ link' = [link EXCEPT ![c] = NoLink]
  /\ UNCHANGED <<ttp, file, copy, id, ttpData>>

\* An error, the end of the connection, a certificate that does not verify, or
\* a failure of OpenSSL
ClientFails(c) ==
  /\ stage[c] \in {"connected", "waiting"}
  /\ stage[c] = "waiting" => Answered(c)
  /\ stage' = [stage EXCEPT ![c] = "ObtainCertificate"]
  /\ link' = [link EXCEPT ![c] = NoLink]
  /\ UNCHANGED <<ttp, file, copy, id, ttpData, certificate>>

-----------------------------------------------------------------------------
(* The server: everything once, at its start; a failure is the end *)

\* main up to connectTo; the program has a TTP to connect to or exits
ServerConnect(s, t) ==
  /\ Goto(s, "start", "connected") /\ ttp[t] = "listening"
  /\ id' = [id EXCEPT ![s] = HexId[s]]
  /\ link' = [link EXCEPT ![s] = Linked(t)]
  /\ UNCHANGED <<ttp, file, copy, ttpData, certificate>>

ServerLoad(s) == loadTtpData(s, "connected", "loaded")
ServerRequest(s) == SendRequest(s, "loaded", "waiting")

\* registerAndGetCertificate
ServerObtains(s) ==
  /\ stage[s] = "waiting" /\ Obtained(s, "Registered")
  /\ UNCHANGED <<ttp, file, copy, id, ttpData, link>>

ServerFails(s) ==
  /\ stage[s] \in {"loaded", "waiting"}
  /\ stage[s] = "waiting" => Answered(s)
  /\ IF s \in Falsifying
     THEN /\ stage' = [stage EXCEPT ![s] = "Registered"]
          /\ certificate' = [certificate EXCEPT ![s] = createSelfSignedCA(FakeName, s)]
          /\ UNCHANGED link
     ELSE /\ stage' = [stage EXCEPT ![s] = "exited"]
          /\ link' = [link EXCEPT ![s] = NoLink]
          /\ UNCHANGED certificate
  /\ UNCHANGED <<ttp, file, copy, id, ttpData>>

ServerListen(s) ==
  /\ Goto(s, "Registered", "listening")
  /\ UNCHANGED <<ttp, file, copy, id, ttpData, link, certificate>>

-----------------------------------------------------------------------------
(* The TTP's thread of the connection of p *)

\* parseRegisterPayload, issue and the answer, or an error
AnswerTo(request, t) ==
  IF Decrypts(request.id, t)
  THEN [type |-> "CertificateResponse",
        certificatePem |-> toPem(issue(fromPem(request.publicKeyPem),
                                       decodeAndDecrypt(request.id, t), t))]
  ELSE [type |-> "ErrorMessage", certificatePem |-> <<>>]

\* Defective variant that no specification uses: an undecryptable request is
\* skipped and the connection kept.
SkipWhatFails(p) ==
  /\ link[p].open /\ link[p].request # <<>>
  /\ LET answer == AnswerTo(link[p].request[1], link[p].to) IN
     link' = [link EXCEPT ![p] =
               IF answer.type = "ErrorMessage" THEN [@ EXCEPT !.request = <<>>]
               ELSE [@ EXCEPT !.request = <<>>, !.response = <<answer>>, !.open = FALSE]]
  /\ UNCHANGED <<ttp, file, others>>

\* certificateRequest; a CertificateRequest ends the connection.
handleObtainCertificate(p) ==
  /\ link[p].open /\ link[p].request # <<>>
  /\ \E answer \in {AnswerTo(link[p].request[1], link[p].to),
                    [type |-> "ErrorMessage", certificatePem |-> <<>>]} :
       link' = [link EXCEPT ![p].request = <<>>, ![p].response = <<answer>>,
                            ![p].open = FALSE]
  /\ UNCHANGED <<ttp, file, others>>

\* The connection breaks, or the thread ends without an answer.
LinkEnds(p) ==
  /\ link[p].open
  /\ link' = [link EXCEPT ![p].open = FALSE, ![p].request = <<>>]
  /\ UNCHANGED <<ttp, file, others>>

-----------------------------------------------------------------------------

Ttp(t) == TtpStart(t) \/ TtpOpensFile(t) \/ TtpWritesFile(t) \/ TtpListen(t) \/ TtpEnd(t)
Waiting(p) ==
  IF p \in Client THEN ClientObtains(p) \/ ClientFails(p)
  ELSE ServerObtains(p) \/ ServerFails(p)

Next ==
  \/ \E t \in Run : Ttp(t)
  \/ \E p \in Participant : CopyFile(p) \/ Exit(p) \/ LinkEnds(p)
                            \/ handleObtainCertificate(p)
  \/ \E c \in Client : ClientLoad(c) \/ GenerateId(c) \/ ClientRequest(c)
                       \/ ClientObtains(c) \/ ClientFails(c)
                       \/ \E t \in Run : ClientConnect(c, t)
  \/ \E s \in Server : ServerLoad(s) \/ ServerRequest(s)
                       \/ ServerObtains(s) \/ ServerFails(s) \/ ServerListen(s)
                       \/ \E t \in Run : ServerConnect(s, t)

Spec == Init /\ [][Next]_vars

\* The TTP's threads run, and so do the two programs while they wait.
Fairness ==
  \A p \in Participant : WF_vars(handleObtainCertificate(p)) /\ WF_vars(Waiting(p))
FairSpec == Spec /\ Fairness
-----------------------------------------------------------------------------
(* Properties *)

Request == [id : [base64 : [plain : Text, to : Key]], publicKeyPem : Seq(Key)]
Answer == [type : {"CertificateResponse", "ErrorMessage"}, certificatePem : Seq(Certificate)]
Link == [to : Run \cup {None}, request : Seq(Request), response : Seq(Answer), open : BOOLEAN]

Stages == {"start", "GeneratingID", "ObtainCertificate", "connected", "loaded",
           "waiting", "Registered", "listening", "exited"}

\* A program has an id and the TTP's certificate before it asks for its own.
TypeOK ==
  /\ ttp \in [Run -> {"no", "started", "writing", "saved", "listening", "ended"}]
  /\ file \in Seq(Certificate)
  /\ copy \in [Participant -> Seq(Certificate)]
  /\ stage \in [Participant -> Stages]
  /\ id \in [Participant -> Text \cup {None}]
  /\ ttpData \in [Participant -> TtpData \cup {None}]
  /\ link \in [Participant -> Link]
  /\ certificate \in [Participant -> Certificate \cup {None}]
  /\ \A p \in Participant : stage[p] \in {"ObtainCertificate", "loaded", "waiting"} =>
       id[p] # None /\ ttpData[p] # None

\* A certificate that a TTP signed is about its holder: it has the holder's
\* key, and the whole id as its name, the name under which the TTP keeps
\* connections and sessions.
CertificateOfOwner ==
  \A p \in Participant :
    certificate[p] # None /\ certificate[p].signer \in Run =>
      getCommonName(certificate[p]) = id[p] /\ getPublicKey(certificate[p]) = p

\* handleInitiateAuthentication's verdict on the certificate of p
Accepts(t, p) ==
  ttp[t] = "listening" /\ certificate[p] # None /\ verify(OwnCertificate(t), certificate[p])

Ticket(t, p) == signPayload(t, [client_cn |-> getCommonName(certificate[p])])

\* Whatever was restarted and however old the copies are, a TTP accepts only
\* those who loaded its own certificate: the tickets it signs for them verify.
AcceptedIsCurrent ==
  \A t \in Run, p \in Participant : Accepts(t, p) =>
    /\ ttpData[p].certificate = OwnCertificate(t)
    /\ verifyPayload(ttpData[p].key, Ticket(t, p))

\* Whoever can connect to a TTP finds in the file what that run has saved, its own
\* certificate or none, never that of another run or one still to be written, if
\* the earlier ones had ended when it was started, until another is started.
\* (Two that are started together may leave the file of the one that then finds
\* the port taken.)
Before(t) == {u \in Run : u < t}
After(t) == {u \in Run : u > t}
FileOfListener ==
  \A t \in Run :
    [](ttp[t] = "no" /\ (\A u \in Before(t) : ttp[u] = "ended") =>
         [](ttp[t] = "listening" /\ (\A u \in After(t) : ttp[u] = "no") =>
              file \in SavedBy(t)))

\* Nobody is left waiting on a connection on which nothing will come: an open one
\* is to a TTP that still runs, and has the request on it.  So a wait needs no
\* time limit, which the programs do not set, as long as that TTP's thread runs.
AwaitsTtp ==
  \A p \in Participant : stage[p] = "waiting" /\ ~Answered(p) =>
    ttp[link[p].to] = "listening" /\ link[p].request # <<>>

\* Nobody waits for a certificate forever, even when the TTP cannot decrypt
\* the request or ends.
WaitEnds == \A p \in Participant : stage[p] = "waiting" ~> stage[p] # "waiting"
=============================================================================
