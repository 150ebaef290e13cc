-------------------------- MODULE Registration_proofs --------------------------
(***************************************************************************)
(* Theorems of Registration, for any programs, any number of restarts of   *)
(* the TTP and any names.                                                  *)
(***************************************************************************)
EXTENDS Registration, TLAPS

(* What p has of the TTP it loaded the file of, and what a TTP may answer *)
Fetched(t) == LoadedFrom(toPem(OwnCertificate(t)))
Refusal == [type |-> "ErrorMessage", certificatePem |-> <<>>]
Grant(p, t) ==
  [type |-> "CertificateResponse", certificatePem |-> toPem(issue(p, id[p], t))]
FakeOf(p) == createSelfSignedCA(FakeName, p)

Ready(p) == id[p] # None /\ ttpData[p] # None
Asked == {"waiting", "Registered", "listening"}
Finished == {"Registered", "listening", "exited"}

IdOK(p) == id[p] \in {None, HexId[p], GarbageId}
TtpDataOK(p) == ttpData[p] = None \/ \E t \in Run : ttpData[p] = Fetched(t)
StageOK(p) ==
  /\ stage[p] \in {"ObtainCertificate", "loaded", "waiting", "Registered", "listening"} => Ready(p)
  /\ stage[p] = "connected" => id[p] # None
  /\ stage[p] = "connected" /\ p \in Client => Ready(p)
  /\ stage[p] = "GeneratingID" => ttpData[p] # None
RequestOK(p) ==
  /\ link[p].open => link[p].to \in Run
  /\ link[p].request # <<>> =>
       stage[p] \in Asked /\ link[p].to \in Run /\ link[p].request = <<RequestFor(p)>>
ResponseOK(p) ==
  link[p].response # <<>> =>
    /\ stage[p] \in Asked
    /\ \/ link[p].response = <<Refusal>>
       \/ /\ link[p].to \in Run /\ ttpData[p] = Fetched(link[p].to)
          /\ link[p].response = <<Grant(p, link[p].to)>>
CertificateOK(p) ==
  certificate[p] # None =>
    /\ stage[p] \in Finished
    /\ \/ certificate[p] = FakeOf(p)
       \/ /\ id[p] # None
          /\ \E t \in Run : /\ ttpData[p] = Fetched(t)
                            /\ certificate[p] = issue(p, id[p], t)

Own(p) ==
  /\ IdOK(p) /\ TtpDataOK(p) /\ StageOK(p)
  /\ RequestOK(p) /\ ResponseOK(p) /\ CertificateOK(p)

\* ttp.cert and every copy of it: nothing, or what one TTP saved
Files == {<<>>} \cup {toPem(OwnCertificate(t)) : t \in Run}
FilesOK == file \in Files /\ \A p \in Participant : copy[p] \in Files

IInv == TypeOK /\ FilesOK /\ \A p \in Participant : Own(p)

-----------------------------------------------------------------------------
(* What is signed, loaded and sent *)

\* What a TTP signs for itself is a certificate, and loading it gives its key.
LEMMA TtpCertificate ==
  ASSUME NEW t \in Run
  PROVE  /\ OwnCertificate(t) = [cn |-> TtpName, key |-> t, signer |-> t]
         /\ OwnCertificate(t) \in Certificate
         /\ Fetched(t) = [certificate |-> OwnCertificate(t), key |-> t]
         /\ Fetched(t) \in TtpData /\ Fetched(t) # None
         /\ toPem(OwnCertificate(t)) = <<OwnCertificate(t)>>
<1>1. t \in Key /\ TtpName \in Text
  BY RegistrationAssumption DEF Key
<1>2. OwnCertificate(t) = [cn |-> TtpName, key |-> t, signer |-> t]
  BY DEF OwnCertificate, createSelfSignedCA
<1>3. OwnCertificate(t) \in Certificate
  BY <1>1, <1>2 DEF Certificate, CertificateOf
<1>4. toPem(OwnCertificate(t)) = <<OwnCertificate(t)>> /\ fromPem(toPem(OwnCertificate(t))) = OwnCertificate(t)
  BY DEF toPem, fromPem
<1>5. Fetched(t) = [certificate |-> OwnCertificate(t), key |-> t]
  BY <1>2, <1>4 DEF Fetched, LoadedFrom, getPublicKey
<1>6. Fetched(t) \in TtpData
  BY <1>1, <1>3, <1>5 DEF TtpData
<1>7. Fetched(t) # None
  BY <1>6, RegistrationAssumption
<1> QED BY <1>2, <1>3, <1>4, <1>5, <1>6, <1>7

\* An id fits into a common name: a certificate that a TTP issues has all of it.
LEMMA WholeName ==
  ASSUME NEW p \in Participant, NEW t \in Run, NEW name \in {HexId[p], GarbageId}
  PROVE  /\ issue(p, name, t) = [cn |-> name, key |-> p, signer |-> t]
         /\ issue(p, name, t) \in Certificate
<1>1. name \in Text /\ p \in Key /\ t \in Key
  BY RegistrationAssumption DEF Key
<1>2. ~(Len(name) > MaxCommonName)
  BY <1>1, IdFits, PkiAssumption DEF Text
<1>3. issue(p, name, t) = [cn |-> name, key |-> p, signer |-> t]
  BY <1>2 DEF issue, Truncated
<1> QED BY <1>1, <1>3 DEF Certificate, CertificateOf

\* The certificate that a false server or client makes itself
LEMMA FakeCertificate ==
  ASSUME NEW p \in Participant
  PROVE  /\ FakeOf(p) = [cn |-> FakeName, key |-> p, signer |-> p]
         /\ FakeOf(p) \in Certificate /\ p \notin Run
  BY RegistrationAssumption DEF FakeOf, createSelfSignedCA, Key, Certificate, CertificateOf

\* Every file is a text of certificates.
LEMMA FileType ==
  ASSUME NEW text \in Files
  PROVE  text \in Seq(Certificate)
<1>1. CASE text = <<>>
  BY <1>1
<1>2. ASSUME NEW t \in Run, text = toPem(OwnCertificate(t)) PROVE text \in Seq(Certificate)
  <2>1. text = <<OwnCertificate(t)>> /\ OwnCertificate(t) \in Certificate
    BY <1>2, TtpCertificate
  <2> HIDE DEF Certificate
  <2> QED BY <2>1
<1> QED BY <1>1, <1>2 DEF Files

\* What a client or server sends, and what it is sent
LEMMA RequestType ==
  ASSUME NEW p \in Participant, IdOK(p), TtpDataOK(p), Ready(p)
  PROVE  <<RequestFor(p)>> \in Seq(Request)
<1>1. id[p] \in Text
  BY RegistrationAssumption DEF IdOK, Ready
<1>2. PICK t \in Run : ttpData[p] = Fetched(t)
  BY DEF TtpDataOK, Ready
<1>3. ttpData[p].key = t /\ t \in Key
  BY <1>2, TtpCertificate DEF Key
<1>4. RequestFor(p) = [id |-> [base64 |-> [plain |-> id[p], to |-> t]], publicKeyPem |-> <<p>>]
  BY <1>3 DEF RequestFor, encryptAndEncode, base64Encode, encryptPublic, toPem
<1>5. <<p>> \in Seq(Key)
  BY DEF Key
<1>6. RequestFor(p) \in Request
  BY <1>1, <1>3, <1>4, <1>5 DEF Request
<1> QED BY <1>6

LEMMA AnswerType ==
  ASSUME NEW p \in Participant, NEW t \in Run, id[p] \in {HexId[p], GarbageId}
  PROVE  <<Refusal>> \in Seq(Answer) /\ <<Grant(p, t)>> \in Seq(Answer)
<1>1. issue(p, id[p], t) \in Certificate
  BY WholeName
<1>2. <<issue(p, id[p], t)>> \in Seq(Certificate) /\ <<>> \in Seq(Certificate)
  BY <1>1
<1>3. Refusal \in Answer /\ Grant(p, t) \in Answer
  BY <1>2 DEF Refusal, Grant, Answer, toPem
<1> QED BY <1>3

-----------------------------------------------------------------------------
(* The invariant is inductive *)

\* What holds of p depends on p's variables only.
LEMMA Unchanged ==
  ASSUME NEW p \in Participant, Own(p),
         stage'[p] = stage[p], id'[p] = id[p], ttpData'[p] = ttpData[p],
         link'[p] = link[p], certificate'[p] = certificate[p]
  PROVE  Own(p)'
<1>1. IdOK(p)' BY DEF Own, IdOK
<1>2. TtpDataOK(p)' BY DEF Own, TtpDataOK, Fetched, OwnCertificate
<1>3. StageOK(p)' BY DEF Own, StageOK, Ready
<1>4. RequestOK(p)' BY DEF Own, RequestOK, RequestFor
<1>5. ResponseOK(p)' BY DEF Own, ResponseOK, Grant, Fetched, OwnCertificate
<1>6. CertificateOK(p)' BY DEF Own, CertificateOK, Fetched, OwnCertificate
<1> QED BY <1>1, <1>2, <1>3, <1>4, <1>5, <1>6 DEF Own

\* A step of p alone, or of p's thread at the TTP, that leaves the files alone
Others(p) ==
  \A q \in Participant \ {p} :
    /\ stage'[q] = stage[q] /\ id'[q] = id[q] /\ ttpData'[q] = ttpData[q]
    /\ link'[q] = link[q] /\ certificate'[q] = certificate[q]

LEMMA StepOf ==
  ASSUME IInv, NEW p \in Participant, Own(p)', Others(p),
         UNCHANGED <<ttp, file, copy>>,
         stage' \in [Participant -> Stages],
         id' \in [Participant -> Text \cup {None}],
         ttpData' \in [Participant -> TtpData \cup {None}],
         link' \in [Participant -> Link],
         certificate' \in [Participant -> Certificate \cup {None}]
  PROVE  IInv'
<1>1. \A q \in Participant : Own(q)'
  <2> TAKE q \in Participant
  <2>1. CASE q = p BY <2>1
  <2>2. CASE q # p BY <2>2, Unchanged DEF IInv, Others
  <2> QED BY <2>1, <2>2
<1>2. FilesOK'
  BY DEF IInv, FilesOK, Files, OwnCertificate
<1>3. \A q \in Participant : StageOK(q)'
  BY <1>1 DEF Own
<1>4. TypeOK'
  BY <1>3 DEF IInv, TypeOK, StageOK, Ready
<1> QED BY <1>1, <1>2, <1>4 DEF IInv

\* The three kinds of connection that a step leaves behind
LEMMA LinkType ==
  ASSUME NEW t \in Run
  PROVE  /\ NoLink \in Link /\ Linked(t) \in Link
         /\ NoLink.request = <<>> /\ NoLink.response = <<>>
         /\ Linked(t).request = <<>> /\ Linked(t).response = <<>>
         /\ ~NoLink.open /\ Linked(t).to = t
<1>1. <<>> \in Seq(Request) /\ <<>> \in Seq(Answer)
  OBVIOUS
<1> QED BY <1>1 DEF Link, NoLink, Linked

Ended(t, answers) == [to |-> t, request |-> <<>>, response |-> answers, open |-> FALSE]

LEMMA EndedType ==
  ASSUME NEW t \in Run \cup {None}, NEW answers \in Seq(Answer)
  PROVE  /\ Ended(t, answers) \in Link /\ Ended(t, answers).request = <<>>
         /\ Ended(t, answers).response = answers /\ Ended(t, answers).to = t
         /\ ~Ended(t, answers).open
<1>1. <<>> \in Seq(Request)
  OBVIOUS
<1> QED BY <1>1 DEF Link, Ended

LEMMA ExitStep ==
  ASSUME IInv, NEW p \in Participant, Exit(p)
  PROVE  IInv'
<1> USE DEF Exit
<1>1. stage'[p] = "exited" /\ link'[p] = NoLink
  BY DEF IInv, TypeOK
<1>2. NoLink \in Link /\ NoLink.request = <<>> /\ NoLink.response = <<>> /\ ~NoLink.open
  BY DEF Link, NoLink
<1>3. Others(p)
  BY DEF Others, IInv, TypeOK
<1>4. Own(p)
  BY DEF IInv
<1>5. IdOK(p)' /\ TtpDataOK(p)'
  BY <1>4 DEF Own, IdOK, TtpDataOK, Fetched, OwnCertificate
<1>6. StageOK(p)' /\ RequestOK(p)' /\ ResponseOK(p)'
  BY <1>1, <1>2 DEF StageOK, RequestOK, ResponseOK
<1>7. CertificateOK(p)'
  BY <1>1, <1>4 DEF Own, CertificateOK, Finished, Fetched, OwnCertificate
<1>8. Own(p)'
  BY <1>5, <1>6, <1>7 DEF Own
<1>9. link' \in [Participant -> Link]
  BY <1>2 DEF IInv, TypeOK
<1> QED
  BY <1>3, <1>8, <1>9, StepOf DEF IInv, TypeOK, Stages

LEMMA ClientConnectStep ==
  ASSUME IInv, NEW c \in Client, NEW t \in Run, ClientConnect(c, t)
  PROVE  IInv'
<1> USE DEF ClientConnect, Connect, Goto
<1>0. c \in Participant
  BY DEF Participant
<1>1. stage[c] = "ObtainCertificate" /\ stage'[c] = "connected" /\ link'[c] = Linked(t)
  BY <1>0 DEF IInv, TypeOK
<1>3. Others(c)
  BY <1>0 DEF Others, IInv, TypeOK
<1>4. Own(c)
  BY <1>0 DEF IInv
<1>5. IdOK(c)' /\ TtpDataOK(c)'
  BY <1>4 DEF Own, IdOK, TtpDataOK, Fetched, OwnCertificate
<1>6. StageOK(c)' /\ RequestOK(c)' /\ ResponseOK(c)'
  BY <1>1, <1>4, LinkType DEF Own, StageOK, Ready, RequestOK, ResponseOK
<1>7. CertificateOK(c)'
  BY <1>1, <1>4 DEF Own, CertificateOK, Finished
<1>8. Own(c)'
  BY <1>5, <1>6, <1>7 DEF Own
<1>9. link' \in [Participant -> Link]
  BY LinkType DEF IInv, TypeOK
<1> QED
  BY <1>0, <1>3, <1>8, <1>9, StepOf DEF IInv, TypeOK, Stages

LEMMA ServerConnectStep ==
  ASSUME IInv, NEW s \in Server, NEW t \in Run, ServerConnect(s, t)
  PROVE  IInv'
<1> USE DEF ServerConnect, Goto
<1>0. s \in Participant /\ s \notin Client
  BY RegistrationAssumption DEF Participant
<1>1. /\ stage[s] = "start" /\ stage'[s] = "connected" /\ link'[s] = Linked(t)
      /\ id'[s] = HexId[s]
  BY <1>0 DEF IInv, TypeOK
<1>2. HexId[s] \in Text /\ HexId[s] # None
  BY <1>0, RegistrationAssumption
<1>3. Others(s)
  BY <1>0 DEF Others, IInv, TypeOK
<1>4. Own(s)
  BY <1>0 DEF IInv
<1>5. IdOK(s)' /\ TtpDataOK(s)'
  BY <1>1, <1>4 DEF Own, IdOK, TtpDataOK, Fetched, OwnCertificate
<1>6. StageOK(s)' /\ RequestOK(s)' /\ ResponseOK(s)'
  BY <1>0, <1>1, <1>2, LinkType DEF StageOK, Ready, RequestOK, ResponseOK
<1>7. CertificateOK(s)'
  BY <1>1, <1>4 DEF Own, CertificateOK, Finished
<1>8. Own(s)'
  BY <1>5, <1>6, <1>7 DEF Own
<1>9. link' \in [Participant -> Link] /\ id' \in [Participant -> Text \cup {None}]
  BY <1>2, LinkType DEF IInv, TypeOK
<1> QED
  BY <1>0, <1>3, <1>8, <1>9, StepOf DEF IInv, TypeOK, Stages

\* A certificate file is loaded by a program that has sent nothing yet.
LEMMA LoadStep ==
  ASSUME IInv, NEW p \in Participant,
         \/ p \in Client /\ loadTtpData(p, "start", "GeneratingID")
         \/ p \in Server /\ loadTtpData(p, "connected", "loaded")
  PROVE  IInv'
<1> USE DEF loadTtpData, Goto
<1>1. PICK t \in Run : copy[p] = toPem(OwnCertificate(t))
  BY DEF IInv, FilesOK, Files, IsPem
<1>2. ttpData'[p] = Fetched(t)
  BY <1>1 DEF Fetched, IInv, TypeOK
<1>3. Fetched(t) \in TtpData /\ Fetched(t) # None
  BY TtpCertificate
<1>4. \/ stage[p] = "start" /\ stage'[p] = "GeneratingID"
      \/ stage[p] = "connected" /\ stage'[p] = "loaded" /\ id[p] # None
  BY DEF IInv, TypeOK, Own, StageOK
<1>5. Others(p)
  BY DEF Others, IInv, TypeOK
<1>6. Own(p) /\ id'[p] = id[p]
  BY DEF IInv
<1>7. IdOK(p)' /\ TtpDataOK(p)'
  BY <1>2, <1>6 DEF Own, IdOK, TtpDataOK, Fetched, OwnCertificate
<1>8. StageOK(p)' /\ RequestOK(p)' /\ ResponseOK(p)'
  BY <1>2, <1>3, <1>4, <1>6 DEF Own, StageOK, Ready, RequestOK, ResponseOK, Asked
<1>9. CertificateOK(p)'
  BY <1>4, <1>6 DEF Own, CertificateOK, Finished
<1>10. Own(p)'
  BY <1>7, <1>8, <1>9 DEF Own
<1>11. ttpData' \in [Participant -> TtpData \cup {None}]
  <2>1. ttpData' = [ttpData EXCEPT ![p] = Fetched(t)] BY <1>1 DEF Fetched
  <2> QED BY <1>3, <2>1 DEF IInv, TypeOK
<1> QED
  BY <1>5, <1>10, <1>11, StepOf DEF IInv, TypeOK, Stages

LEMMA RequestStep ==
  ASSUME IInv, NEW p \in Participant,
         \/ p \in Client /\ SendRequest(p, "connected", "waiting")
         \/ p \in Server /\ SendRequest(p, "loaded", "waiting")
  PROVE  IInv'
<1> USE DEF SendRequest, Goto
<1>1. Own(p) /\ link[p] \in Link
  BY DEF IInv, TypeOK
<1>2. Ready(p) /\ stage[p] \in {"connected", "loaded"} /\ stage'[p] = "waiting"
  BY <1>1 DEF IInv, TypeOK, Own, StageOK
<1>3. <<RequestFor(p)>> \in Seq(Request)
  BY <1>1, <1>2, RequestType DEF Own
<1>4. link' = [link EXCEPT ![p] = [link[p] EXCEPT !.request = <<RequestFor(p)>>]]
  BY DEF IInv, TypeOK
<1>5. /\ link'[p].request = <<RequestFor(p)>> /\ link'[p].response = link[p].response
      /\ link'[p].to = link[p].to /\ link'[p] \in Link
  BY <1>1, <1>3, <1>4 DEF IInv, TypeOK, Link
<1>6. link[p].response = <<>> /\ link[p].to \in Run
  BY <1>1, <1>2 DEF Own, RequestOK, ResponseOK, Asked
<1>7. Others(p)
  BY DEF Others, IInv, TypeOK
<1>8. IdOK(p)' /\ TtpDataOK(p)'
  BY <1>1 DEF Own, IdOK, TtpDataOK, Fetched, OwnCertificate
<1>9. StageOK(p)' /\ RequestOK(p)' /\ ResponseOK(p)'
  BY <1>2, <1>5, <1>6 DEF StageOK, Ready, RequestOK, ResponseOK, RequestFor, Asked
<1>10. CertificateOK(p)'
  BY <1>1, <1>2 DEF Own, CertificateOK, Finished
<1>11. Own(p)'
  BY <1>8, <1>9, <1>10 DEF Own
<1>12. link' \in [Participant -> Link]
  BY <1>4, <1>5 DEF IInv, TypeOK
<1> QED
  BY <1>7, <1>11, <1>12, StepOf DEF IInv, TypeOK, Stages

LEMMA GenerateIdStep ==
  ASSUME IInv, NEW c \in Client, GenerateId(c)
  PROVE  IInv'
<1> USE DEF GenerateId, Goto
<1>0. c \in Participant
  BY DEF Participant
<1>1. PICK name \in {HexId[c], GarbageId} : id' = [id EXCEPT ![c] = name]
  OBVIOUS
<1>2. name \in Text /\ name # None
  BY <1>0, RegistrationAssumption
<1>3. stage[c] = "GeneratingID" /\ stage'[c] = "ObtainCertificate" /\ id'[c] = name
  BY <1>0, <1>1 DEF IInv, TypeOK
<1>4. Others(c)
  BY <1>0, <1>1 DEF Others, IInv, TypeOK
<1>5. Own(c)
  BY <1>0 DEF IInv
<1>6. IdOK(c)' /\ TtpDataOK(c)'
  BY <1>1, <1>3, <1>5 DEF Own, IdOK, TtpDataOK, Fetched, OwnCertificate
<1>7. StageOK(c)' /\ RequestOK(c)' /\ ResponseOK(c)'
  BY <1>2, <1>3, <1>5 DEF Own, StageOK, Ready, RequestOK, ResponseOK, Asked
<1>8. CertificateOK(c)'
  BY <1>3, <1>5 DEF Own, CertificateOK, Finished
<1>9. Own(c)'
  BY <1>6, <1>7, <1>8 DEF Own
<1>10. id' \in [Participant -> Text \cup {None}]
  BY <1>1, <1>2 DEF IInv, TypeOK
<1> QED
  BY <1>0, <1>4, <1>9, <1>10, StepOf DEF IInv, TypeOK, Stages

\* A certificate is only taken from the TTP that was loaded.
LEMMA ObtainedCertificate ==
  ASSUME IInv, NEW p \in Participant, stage[p] = "waiting", ObtainedFrom(p, link[p].response)
  PROVE  /\ link[p].to \in Run /\ ttpData[p] = Fetched(link[p].to)
         /\ fromPem(link[p].response[1].certificatePem) = issue(p, id[p], link[p].to)
         /\ issue(p, id[p], link[p].to) \in Certificate
<1>1. Own(p) /\ link[p].response # <<>>
  BY DEF IInv, ObtainedFrom
<1>2. link[p].response # <<Refusal>>
  BY DEF ObtainedFrom, Refusal
<1>3. /\ link[p].to \in Run /\ ttpData[p] = Fetched(link[p].to)
      /\ link[p].response = <<Grant(p, link[p].to)>>
  BY <1>1, <1>2 DEF Own, ResponseOK
<1>4. fromPem(link[p].response[1].certificatePem) = issue(p, id[p], link[p].to)
  BY <1>3 DEF Grant, toPem, fromPem
<1>5. id[p] \in {HexId[p], GarbageId}
  BY <1>1 DEF Own, StageOK, Ready, IdOK
<1>6. issue(p, id[p], link[p].to) \in Certificate
  BY <1>3, <1>5, WholeName
<1> QED BY <1>3, <1>4, <1>6

LEMMA ObtainStep ==
  ASSUME IInv, NEW p \in Participant,
         \/ p \in Client /\ ClientObtains(p)
         \/ p \in Server /\ ServerObtains(p)
  PROVE  IInv'
<1> USE DEF ClientObtains, ServerObtains, Obtained
<1>1. stage[p] = "waiting" /\ stage'[p] = "Registered"
  BY DEF IInv, TypeOK
<1>2. /\ link[p].to \in Run /\ ttpData[p] = Fetched(link[p].to)
      /\ fromPem(link[p].response[1].certificatePem) = issue(p, id[p], link[p].to)
      /\ issue(p, id[p], link[p].to) \in Certificate
  BY <1>1, ObtainedCertificate
<1>3. PICK shown \in {FakeOf(p), issue(p, id[p], link[p].to)} :
        certificate' = [certificate EXCEPT ![p] = shown]
  BY <1>2 DEF FakeOf
<1>4. shown \in Certificate /\ certificate'[p] = shown
  BY <1>2, <1>3, FakeCertificate DEF IInv, TypeOK
<1>5. Own(p)
  BY DEF IInv
<1>6. link'[p] = link[p] \/ link'[p] = NoLink
  BY DEF IInv, TypeOK
<1>7. NoLink.request = <<>> /\ NoLink.response = <<>> /\ ~NoLink.open /\ NoLink \in Link
  BY <1>2, LinkType
<1>8. Others(p)
  BY <1>3 DEF Others, IInv, TypeOK
<1>9. id'[p] = id[p] /\ ttpData'[p] = ttpData[p] /\ id[p] # None /\ ttpData[p] # None
  BY <1>1, <1>5 DEF Own, StageOK, Ready
<1>10. IdOK(p)' /\ TtpDataOK(p)'
  BY <1>5, <1>9 DEF Own, IdOK, TtpDataOK, Fetched, OwnCertificate
<1>11. StageOK(p)'
  BY <1>1, <1>9 DEF StageOK, Ready
<1>12. RequestOK(p)'
  BY <1>1, <1>5, <1>6, <1>7, <1>9 DEF Own, RequestOK, RequestFor, Asked
<1>13. ResponseOK(p)'
  BY <1>1, <1>5, <1>6, <1>7, <1>9 DEF Own, ResponseOK, Grant, Fetched, OwnCertificate, Asked
<1>14. CertificateOK(p)'
  BY <1>1, <1>2, <1>3, <1>4, <1>9 DEF CertificateOK, Finished, FakeOf, Fetched, OwnCertificate
<1>15. Own(p)'
  BY <1>10, <1>11, <1>12, <1>13, <1>14 DEF Own
<1>16. certificate' \in [Participant -> Certificate \cup {None}]
  BY <1>3, <1>4 DEF IInv, TypeOK
<1>17. link' \in [Participant -> Link]
  <2>1. CASE UNCHANGED link BY <2>1 DEF IInv, TypeOK
  <2>2. CASE link' = [link EXCEPT ![p] = NoLink] BY <1>7, <2>2 DEF IInv, TypeOK
  <2> QED BY <2>1, <2>2
<1> QED
  BY <1>8, <1>15, <1>16, <1>17, StepOf DEF IInv, TypeOK, Stages

LEMMA ClientFailsStep ==
  ASSUME IInv, NEW c \in Client, ClientFails(c)
  PROVE  IInv'
<1> USE DEF ClientFails
<1>0. c \in Participant
  BY DEF Participant
<1>1. /\ stage[c] \in {"connected", "waiting"} /\ stage'[c] = "ObtainCertificate"
      /\ link'[c] = NoLink
  BY <1>0 DEF IInv, TypeOK
<1>2. NoLink \in Link /\ NoLink.request = <<>> /\ NoLink.response = <<>> /\ ~NoLink.open
  BY DEF Link, NoLink
<1>3. Others(c)
  BY <1>0 DEF Others, IInv, TypeOK
<1>4. Own(c)
  BY <1>0 DEF IInv
<1>5. IdOK(c)' /\ TtpDataOK(c)'
  BY <1>4 DEF Own, IdOK, TtpDataOK, Fetched, OwnCertificate
<1>6. StageOK(c)' /\ RequestOK(c)' /\ ResponseOK(c)'
  BY <1>1, <1>2, <1>4 DEF Own, StageOK, Ready, RequestOK, ResponseOK
<1>7. CertificateOK(c)'
  BY <1>1, <1>4 DEF Own, CertificateOK, Finished
<1>8. Own(c)'
  BY <1>5, <1>6, <1>7 DEF Own
<1>9. link' \in [Participant -> Link]
  BY <1>2 DEF IInv, TypeOK
<1> QED
  BY <1>0, <1>3, <1>8, <1>9, StepOf DEF IInv, TypeOK, Stages

LEMMA ServerFailsStep ==
  ASSUME IInv, NEW s \in Server, ServerFails(s)
  PROVE  IInv'
<1> USE DEF ServerFails
<1>0. s \in Participant
  BY DEF Participant
<1>1. stage[s] \in {"loaded", "waiting"} /\ Own(s)
  BY <1>0 DEF IInv
<1>2. Ready(s) /\ Ready(s)'
  BY <1>1 DEF Own, StageOK, Ready
<1>3. IdOK(s)' /\ TtpDataOK(s)'
  BY <1>1 DEF Own, IdOK, TtpDataOK, Fetched, OwnCertificate
<1>4. Others(s)
  BY <1>0 DEF Others, IInv, TypeOK
<1>5. CASE s \in Falsifying
  <2>1. /\ stage'[s] = "Registered" /\ link'[s] = link[s]
        /\ certificate' = [certificate EXCEPT ![s] = FakeOf(s)]
    BY <1>0, <1>5 DEF IInv, TypeOK, FakeOf
  <2>2. certificate'[s] = FakeOf(s) /\ FakeOf(s) \in Certificate
    BY <1>0, <2>1, FakeCertificate DEF IInv, TypeOK
  <2>3. StageOK(s)'
    BY <1>2, <2>1 DEF StageOK
  <2>4. RequestOK(s)' /\ ResponseOK(s)'
    BY <1>1, <2>1 DEF Own, RequestOK, RequestFor, ResponseOK, Grant, Fetched, OwnCertificate, Asked
  <2>5. CertificateOK(s)'
    BY <2>1, <2>2 DEF CertificateOK, Finished, FakeOf
  <2>6. Own(s)'
    BY <1>3, <2>3, <2>4, <2>5 DEF Own
  <2>7. certificate' \in [Participant -> Certificate \cup {None}]
    BY <2>1, <2>2 DEF IInv, TypeOK
  <2>8. stage' \in [Participant -> Stages]
    <3>1. stage' = [stage EXCEPT ![s] = "Registered"] BY <1>5
    <3> QED BY <3>1 DEF IInv, TypeOK, Stages
  <2>9. UNCHANGED <<ttp, file, copy, id, ttpData, link>>
    BY <1>5
  <2> QED
    BY <1>0, <1>4, <2>6, <2>8, <2>9, <2>7, StepOf DEF IInv, TypeOK, Stages
<1>6. CASE s \notin Falsifying
  <2>1. NoLink \in Link /\ NoLink.request = <<>> /\ NoLink.response = <<>> /\ ~NoLink.open
    BY DEF Link, NoLink
  <2>2. stage'[s] = "exited" /\ link'[s] = NoLink /\ UNCHANGED certificate
    BY <1>0, <1>6 DEF IInv, TypeOK
  <2>3. StageOK(s)' /\ RequestOK(s)' /\ ResponseOK(s)'
    BY <2>1, <2>2 DEF StageOK, RequestOK, ResponseOK
  <2>4. CertificateOK(s)'
    BY <1>1, <2>2 DEF Own, CertificateOK, Finished
  <2>5. Own(s)'
    BY <1>3, <2>3, <2>4 DEF Own
  <2>6. link' \in [Participant -> Link]
    BY <1>6, <2>1 DEF IInv, TypeOK
  <2>7. stage' \in [Participant -> Stages]
    <3>1. stage' = [stage EXCEPT ![s] = "exited"] BY <1>6
    <3> QED BY <3>1 DEF IInv, TypeOK, Stages
  <2>8. UNCHANGED <<ttp, file, copy, id, ttpData, certificate>>
    BY <1>6
  <2> QED
    BY <1>0, <1>4, <2>5, <2>6, <2>7, <2>8, StepOf DEF IInv, TypeOK, Stages
<1> QED BY <1>5, <1>6

LEMMA ServerListenStep ==
  ASSUME IInv, NEW s \in Server, ServerListen(s)
  PROVE  IInv'
<1> USE DEF ServerListen, Goto
<1>0. s \in Participant
  BY DEF Participant
<1>1. stage[s] = "Registered" /\ stage'[s] = "listening" /\ Own(s)
  BY <1>0 DEF IInv, TypeOK
<1>2. Others(s)
  BY <1>0 DEF Others, IInv, TypeOK
<1>3. IdOK(s)' /\ TtpDataOK(s)'
  BY <1>1 DEF Own, IdOK, TtpDataOK, Fetched, OwnCertificate
<1>4. StageOK(s)'
  BY <1>1 DEF Own, StageOK, Ready
<1>5. RequestOK(s)' /\ ResponseOK(s)'
  BY <1>1 DEF Own, RequestOK, RequestFor, ResponseOK, Grant, Fetched, OwnCertificate, Asked
<1>6. CertificateOK(s)'
  BY <1>1 DEF Own, CertificateOK, Finished, FakeOf, Fetched, OwnCertificate
<1>7. Own(s)'
  BY <1>3, <1>4, <1>5, <1>6 DEF Own
<1> QED
  BY <1>0, <1>2, <1>7, StepOf DEF IInv, TypeOK, Stages

\* The TTP's thread can only decrypt what was encrypted for it, so a certificate
\* goes to programs that have loaded this TTP's.
LEMMA AnswerStep ==
  ASSUME IInv, NEW p \in Participant, handleObtainCertificate(p)
  PROVE  IInv'
<1> DEFINE t == link[p].to
           request == link[p].request[1]
<1> USE DEF handleObtainCertificate, others
<1>1. Own(p) /\ link[p] \in Link
  BY DEF IInv, TypeOK
<1>2. t \in Run /\ request = RequestFor(p) /\ stage[p] \in Asked
  BY <1>1 DEF Own, RequestOK
<1>3. Ready(p)
  BY <1>1, <1>2 DEF Own, StageOK, Asked
<1>4. PICK u \in Run : ttpData[p] = Fetched(u)
  BY <1>1, <1>3 DEF Own, TtpDataOK, Ready
<1>5. request.id.base64.to = u /\ request.id.base64.plain = id[p] /\ request.publicKeyPem = <<p>>
  BY <1>2, <1>4, TtpCertificate
  DEF RequestFor, encryptAndEncode, base64Encode, encryptPublic, toPem
<1>6. AnswerTo(request, t) = Refusal \/ (u = t /\ AnswerTo(request, t) = Grant(p, t))
  BY <1>5 DEF AnswerTo, Refusal, Grant, Decrypts, decodeAndDecrypt, base64Decode, toPem, fromPem
<1>7. PICK answer \in {AnswerTo(request, t), Refusal} :
        link' = [link EXCEPT ![p].request = <<>>, ![p].response = <<answer>>, ![p].open = FALSE]
  BY DEF Refusal
<1>8. id[p] \in {HexId[p], GarbageId}
  BY <1>1, <1>3 DEF Own, IdOK, Ready
<1>9. <<answer>> \in Seq(Answer)
  BY <1>2, <1>6, <1>7, <1>8, AnswerType
<1>10. /\ link'[p].request = <<>> /\ link'[p].response = <<answer>>
       /\ link'[p].to = t /\ ~link'[p].open /\ link'[p] \in Link
  <2> DEFINE e == Ended(t, <<answer>>)
  <2>1. link'[p] = e
    BY <1>1, <1>7 DEF IInv, TypeOK, Link, Ended
  <2>2. /\ e \in Link /\ e.request = <<>> /\ e.response = <<answer>> /\ e.to = t /\ ~e.open
    <3>1. t \in Run \cup {None} BY <1>2
    <3> HIDE DEF t
    <3> QED BY <1>9, <3>1, EndedType
  <2> HIDE DEF e
  <2> QED BY <2>1, <2>2, Zenon
<1>11. Others(p)
  BY <1>7 DEF Others, IInv, TypeOK
<1>12. IdOK(p)' /\ TtpDataOK(p)' /\ StageOK(p)'
  BY <1>1 DEF Own, IdOK, TtpDataOK, Fetched, OwnCertificate, StageOK, Ready
<1>13. RequestOK(p)'
  BY <1>10 DEF RequestOK
<1>14. ResponseOK(p)'
  BY <1>2, <1>4, <1>6, <1>7, <1>10 DEF ResponseOK, Grant, Refusal, Fetched, OwnCertificate
<1>15. CertificateOK(p)'
  BY <1>1 DEF Own, CertificateOK, FakeOf, Fetched, OwnCertificate
<1>16. Own(p)'
  BY <1>12, <1>13, <1>14, <1>15 DEF Own
<1>17. link' \in [Participant -> Link]
  BY <1>7, <1>10 DEF IInv, TypeOK
<1> QED
  BY <1>11, <1>16, <1>17, StepOf DEF IInv, TypeOK, Stages

LEMMA LinkEndsStep ==
  ASSUME IInv, NEW p \in Participant, LinkEnds(p)
  PROVE  IInv'
<1> USE DEF LinkEnds, others
<1>1. Own(p) /\ link[p] \in Link
  BY DEF IInv, TypeOK
<1>2. /\ link'[p].request = <<>> /\ link'[p].response = link[p].response
      /\ link'[p].to = link[p].to /\ ~link'[p].open /\ link'[p] \in Link
  <2> DEFINE e == Ended(link[p].to, link[p].response)
  <2>1. link'[p] = e
    BY <1>1 DEF IInv, TypeOK, Link, Ended
  <2>2. link[p].to \in Run \cup {None} /\ link[p].response \in Seq(Answer)
    BY <1>1 DEF Link
  <2>3. /\ e \in Link /\ e.request = <<>> /\ e.response = link[p].response
        /\ e.to = link[p].to /\ ~e.open
    BY <2>2, EndedType
  <2> HIDE DEF e
  <2> QED BY <2>1, <2>3, Zenon
<1>3. Others(p)
  BY DEF Others, IInv, TypeOK
<1>4. IdOK(p)' /\ TtpDataOK(p)' /\ StageOK(p)'
  BY <1>1 DEF Own, IdOK, TtpDataOK, Fetched, OwnCertificate, StageOK, Ready
<1>5. RequestOK(p)'
  BY <1>2 DEF RequestOK
<1>6. ResponseOK(p)'
  BY <1>1, <1>2 DEF Own, ResponseOK, Grant, Fetched, OwnCertificate
<1>7. CertificateOK(p)'
  BY <1>1 DEF Own, CertificateOK, FakeOf, Fetched, OwnCertificate
<1>8. Own(p)'
  BY <1>4, <1>5, <1>6, <1>7 DEF Own
<1>9. link' \in [Participant -> Link]
  BY <1>2 DEF IInv, TypeOK
<1> QED
  BY <1>3, <1>8, <1>9, StepOf DEF IInv, TypeOK, Stages

\* A step of a TTP or of a copying script leaves every program as it is, but
\* for connections that end.
LEMMA FileStep ==
  ASSUME IInv, FilesOK', ttp' \in [Run -> {"no", "started", "writing", "saved", "listening", "ended"}],
         copy' \in [Participant -> Files],
         UNCHANGED <<stage, id, ttpData, link, certificate>>
  PROVE  IInv'
<1>1. \A p \in Participant : Own(p)'
  BY Unchanged DEF IInv
<1>2. file' \in Seq(Certificate) /\ copy' \in [Participant -> Seq(Certificate)]
  <2>1. file' \in Files
    BY DEF FilesOK, Files, OwnCertificate
  <2> HIDE DEF Files, Certificate
  <2> QED BY <2>1, FileType
<1>3. TypeOK'
  BY <1>2 DEF IInv, TypeOK
<1> QED BY <1>1, <1>3 DEF IInv

LEMMA CopiesTyped ==
  ASSUME IInv
  PROVE  copy \in [Participant -> Files] /\ file \in Files
  BY DEF IInv, TypeOK, FilesOK

LEMMA CopyStep ==
  ASSUME IInv, NEW p \in Participant, CopyFile(p)
  PROVE  IInv'
<1>1. copy' = [copy EXCEPT ![p] = file] /\ UNCHANGED <<ttp, file, stage, id, ttpData, link, certificate>>
  BY DEF CopyFile
<1>2. copy' \in [Participant -> Files] /\ file' \in Files
  BY <1>1, CopiesTyped
<1>3. FilesOK'
  BY <1>2 DEF FilesOK, Files, OwnCertificate
<1> QED BY <1>1, <1>2, <1>3, FileStep DEF IInv, TypeOK

LEMMA TtpStep ==
  ASSUME IInv, NEW t \in Run,
         TtpStart(t) \/ TtpOpensFile(t) \/ TtpWritesFile(t) \/ TtpListen(t)
  PROVE  IInv'
<1> USE DEF TtpStart, TtpOpensFile, TtpWritesFile, TtpListen, Become, others, SavedBy
<1>1. UNCHANGED <<copy, stage, id, ttpData, link, certificate>>
  OBVIOUS
<1>2. ttp' \in [Run -> {"no", "started", "writing", "saved", "listening", "ended"}]
  BY DEF IInv, TypeOK
<1>3. file' = file \/ file' = <<>> \/ file' = toPem(OwnCertificate(t))
  OBVIOUS
<1>4. file' \in Files
  BY <1>3, CopiesTyped DEF Files
<1>5. copy' \in [Participant -> Files]
  BY <1>1, CopiesTyped
<1>6. FilesOK'
  BY <1>4, <1>5 DEF FilesOK, Files, OwnCertificate
<1> QED BY <1>1, <1>2, <1>5, <1>6, FileStep

\* The end of a TTP is the end of each of its connections.
LEMMA TtpEndStep ==
  ASSUME IInv, NEW t \in Run, TtpEnd(t)
  PROVE  IInv'
<1> USE DEF TtpEnd, others
<1>1. UNCHANGED <<file, copy, stage, id, ttpData, certificate>>
  OBVIOUS
<1>2. \A p \in Participant :
        /\ link'[p].to = link[p].to /\ link'[p].response = link[p].response
        /\ link'[p].request \in {<<>>, link[p].request}
        /\ link'[p].open => link[p].open
  <2> TAKE p \in Participant
  <2>1. link[p] \in Link
    BY DEF IInv, TypeOK
  <2>2. CASE link[p].to # t
    BY <2>2
  <2>3. CASE link[p].to = t
    <3>1. link'[p] = Ended(link[p].to, link[p].response)
      BY <2>1, <2>3 DEF Link, Ended
    <3>2. link[p].to \in Run \cup {None} /\ link[p].response \in Seq(Answer)
      BY <2>1 DEF Link
    <3> DEFINE e == Ended(link[p].to, link[p].response)
    <3>3. e.request = <<>> /\ e.response = link[p].response /\ e.to = link[p].to /\ ~e.open
      BY <3>2, EndedType
    <3> HIDE DEF e
    <3>4. link'[p] = e
      BY <3>1 DEF e
    <3>5. link'[p].to = link[p].to /\ link'[p].response = link[p].response
          /\ link'[p].request = <<>> /\ ~link'[p].open
      BY <3>3, <3>4, Zenon
    <3> QED BY <3>5
  <2> QED BY <2>2, <2>3
<1>3. link' \in [Participant -> Link]
  <2>1. ASSUME NEW p \in Participant PROVE link'[p] \in Link
    <3>1. link[p] \in Link
      BY DEF IInv, TypeOK
    <3>2. CASE link[p].to # t
      BY <3>1, <3>2
    <3>3. CASE link[p].to = t
      <4>1. link'[p] = Ended(link[p].to, link[p].response)
        BY <3>1, <3>3 DEF Link, Ended
      <4>2. link[p].to \in Run \cup {None} /\ link[p].response \in Seq(Answer)
        BY <3>1 DEF Link
      <4>3. Ended(link[p].to, link[p].response) \in Link
        BY <4>2, EndedType
      <4> QED BY <4>1, <4>3, Zenon
    <3> QED BY <3>2, <3>3
  <2> QED BY <2>1
<1>4. \A p \in Participant : Own(p)'
  <2> TAKE p \in Participant
  <2>1. Own(p)
    BY DEF IInv
  <2>2. IdOK(p)' /\ TtpDataOK(p)' /\ StageOK(p)'
    BY <1>1, <2>1 DEF Own, IdOK, TtpDataOK, Fetched, OwnCertificate, StageOK, Ready
  <2>3. RequestOK(p)'
    BY <1>1, <1>2, <2>1 DEF Own, RequestOK, RequestFor
  <2>4. ResponseOK(p)'
    BY <1>1, <1>2, <2>1 DEF Own, ResponseOK, Grant, Fetched, OwnCertificate
  <2>5. CertificateOK(p)'
    BY <1>1, <2>1 DEF Own, CertificateOK, FakeOf, Fetched, OwnCertificate
  <2> QED BY <2>2, <2>3, <2>4, <2>5 DEF Own
<1>5. ttp' \in [Run -> {"no", "started", "writing", "saved", "listening", "ended"}]
  BY DEF IInv, TypeOK
<1>6. FilesOK'
  BY <1>1 DEF IInv, FilesOK, Files, OwnCertificate
<1>7. TypeOK'
  BY <1>1, <1>3, <1>5 DEF IInv, TypeOK
<1> QED BY <1>4, <1>6, <1>7 DEF IInv

LEMMA RegistrationInit ==
  ASSUME Init
  PROVE  IInv
<1>1. NoLink \in Link /\ NoLink.request = <<>> /\ NoLink.response = <<>> /\ ~NoLink.open
  BY DEF Link, NoLink
<1>2. \A p \in Participant :
        /\ stage[p] = "start" /\ id[p] = None /\ ttpData[p] = None
        /\ link[p] = NoLink /\ certificate[p] = None
  BY DEF Init
<1>3. \A p \in Participant : Own(p)
  <2> TAKE p \in Participant
  <2>1. link[p].request = <<>> /\ link[p].response = <<>> /\ ~link[p].open
    BY <1>1, <1>2, Zenon
  <2> QED
    BY <1>2, <2>1
    DEF Own, IdOK, TtpDataOK, StageOK, RequestOK, ResponseOK, CertificateOK
<1>4. FilesOK
  BY DEF Init, FilesOK, Files
<1>5. TypeOK
  <2>1. link \in [Participant -> Link]
    BY <1>1 DEF Init
  <2>2. <<>> \in Seq(Certificate)
    OBVIOUS
  <2>3. \A p \in Participant : stage[p] = "start"
    BY <1>2
  <2> QED BY <2>1, <2>2, <2>3 DEF Init, TypeOK, Stages
<1> QED BY <1>3, <1>4, <1>5 DEF IInv

LEMMA RegistrationNext ==
  ASSUME IInv, [Next]_vars
  PROVE  IInv'
<1>1. CASE UNCHANGED vars
  <2>1. \A p \in Participant : Own(p)'
    BY <1>1, Unchanged DEF IInv, vars
  <2>2. FilesOK' /\ TypeOK'
    BY <1>1 DEF IInv, FilesOK, Files, OwnCertificate, TypeOK, vars
  <2> QED BY <2>1, <2>2 DEF IInv
<1>2. ASSUME NEW t \in Run, Ttp(t) PROVE IInv'
  BY <1>2, TtpStep, TtpEndStep DEF Ttp
<1>3. ASSUME NEW p \in Participant,
             CopyFile(p) \/ Exit(p) \/ LinkEnds(p) \/ handleObtainCertificate(p)
      PROVE IInv'
  BY <1>3, CopyStep, ExitStep, LinkEndsStep, AnswerStep
<1>4. ASSUME NEW c \in Client,
             \/ ClientLoad(c) \/ GenerateId(c) \/ ClientRequest(c)
             \/ ClientObtains(c) \/ ClientFails(c)
             \/ \E t \in Run : ClientConnect(c, t)
      PROVE IInv'
  <2>1. c \in Participant
    BY DEF Participant
  <2> QED
    BY <1>4, <2>1, LoadStep, GenerateIdStep, RequestStep, ObtainStep, ClientFailsStep,
       ClientConnectStep
    DEF ClientLoad, ClientRequest
<1>5. ASSUME NEW s \in Server,
             \/ ServerLoad(s) \/ ServerRequest(s)
             \/ ServerObtains(s) \/ ServerFails(s) \/ ServerListen(s)
             \/ \E t \in Run : ServerConnect(s, t)
      PROVE IInv'
  <2>1. s \in Participant
    BY DEF Participant
  <2> QED
    BY <1>5, <2>1, LoadStep, RequestStep, ObtainStep, ServerFailsStep, ServerListenStep,
       ServerConnectStep
    DEF ServerLoad, ServerRequest
<1> QED BY <1>1, <1>2, <1>3, <1>4, <1>5 DEF Next

-----------------------------------------------------------------------------
(* The theorems *)

\* Registration keeps its types; nobody asks for a certificate without an id and
\* the certificate of a TTP.
THEOREM RegistrationTypeCorrect == Spec => []TypeOK
<1>1. IInv => TypeOK
  BY DEF IInv
<1> QED BY <1>1, RegistrationInit, RegistrationNext, PTL DEF Spec

\* What a TTP signed is about its holder, however often TTPs are restarted.
THEOREM CertificatesAreOwn == Spec => []CertificateOfOwner
<1>1. IInv => CertificateOfOwner
  <2> SUFFICES ASSUME IInv, NEW p \in Participant, certificate[p] # None, certificate[p].signer \in Run
               PROVE  getCommonName(certificate[p]) = id[p] /\ getPublicKey(certificate[p]) = p
    BY DEF CertificateOfOwner
  <2>1. Own(p)
    BY DEF IInv
  <2>2. certificate[p] # FakeOf(p)
    BY FakeCertificate
  <2>3. PICK t \in Run : certificate[p] = issue(p, id[p], t) /\ id[p] # None
    BY <2>1, <2>2 DEF Own, CertificateOK
  <2>4. certificate[p] = [cn |-> id[p], key |-> p, signer |-> t]
    BY <2>1, <2>3, WholeName DEF Own, IdOK
  <2> QED BY <2>4 DEF getCommonName, getPublicKey
<1> QED BY <1>1, RegistrationInit, RegistrationNext, PTL DEF Spec

\* A TTP accepts only those who loaded its own certificate, so they can verify
\* what it signs for them.
THEOREM AcceptedAreCurrent == Spec => []AcceptedIsCurrent
<1>1. IInv => AcceptedIsCurrent
  <2> SUFFICES ASSUME IInv, NEW t \in Run, NEW p \in Participant, Accepts(t, p)
               PROVE  /\ ttpData[p].certificate = OwnCertificate(t)
                      /\ verifyPayload(ttpData[p].key, Ticket(t, p))
    BY DEF AcceptedIsCurrent
  <2>1. Own(p) /\ certificate[p] # None
    BY DEF IInv, Accepts
  <2>2. certificate[p].signer = t
    BY TtpCertificate DEF Accepts, verify
  <2>3. certificate[p] # FakeOf(p)
    BY <2>2, FakeCertificate
  <2>4. PICK u \in Run : /\ certificate[p] = issue(p, id[p], u) /\ id[p] # None
                         /\ ttpData[p] = Fetched(u)
    BY <2>1, <2>3 DEF Own, CertificateOK
  <2>5. certificate[p].signer = u
    <3>1. id[p] \in {HexId[p], GarbageId}
      BY <2>1, <2>4 DEF Own, IdOK
    <3>2. issue(p, id[p], u) = [cn |-> id[p], key |-> p, signer |-> u]
      BY <3>1, WholeName
    <3> QED BY <2>4, <3>2
  <2>6. ttpData[p].certificate = OwnCertificate(t) /\ ttpData[p].key = t
    BY <2>2, <2>4, <2>5, TtpCertificate
  <2>7. verifyPayload(t, Ticket(t, p))
    BY DEF verifyPayload, Ticket, signPayload, sign
  <2> QED BY <2>6, <2>7
<1> QED BY <1>1, RegistrationInit, RegistrationNext, PTL DEF Spec

-----------------------------------------------------------------------------
(* The file of the TTP that listens *)

\* What stays true once the TTPs before t have ended: they never write again, and
\* t writes the file before it listens.
FileKept(t) ==
  /\ \A u \in Before(t) : ttp[u] = "ended"
  /\ ttp[t] \in {"saved", "listening"} /\ (\A u \in After(t) : ttp[u] = "no") =>
       file \in SavedBy(t)

\* A step of a TTP, as far as it matters for the file
LEMMA TtpMoves ==
  ASSUME TypeOK, [Next]_vars
  PROVE  \/ UNCHANGED <<ttp, file>>
         \/ \E u \in Run :
              /\ ttp[u] # "ended" /\ ttp'[u] # "no"
              /\ \A x \in Run \ {u} : ttp'[x] = ttp[x]
              /\ \/ ttp'[u] \notin {"saved", "listening"}
                 \/ ttp'[u] = "saved" /\ file' \in SavedBy(u)
                 \/ ttp[u] = "saved" /\ file' = file
              /\ ttp[u] = "no" => file' = file
<1>1. ASSUME NEW u \in Run, Ttp(u)
      PROVE  /\ ttp[u] # "ended" /\ ttp'[u] # "no"
             /\ \A x \in Run \ {u} : ttp'[x] = ttp[x]
             /\ \/ ttp'[u] \notin {"saved", "listening"}
                \/ ttp'[u] = "saved" /\ file' \in SavedBy(u)
                \/ ttp[u] = "saved" /\ file' = file
             /\ ttp[u] = "no" => file' = file
  BY <1>1 DEF Ttp, TtpStart, TtpOpensFile, TtpWritesFile, TtpListen, TtpEnd, Become, Alive, TypeOK
<1>2. ASSUME NEW p \in Participant,
             CopyFile(p) \/ Exit(p) \/ LinkEnds(p) \/ handleObtainCertificate(p)
      PROVE  UNCHANGED <<ttp, file>>
  BY <1>2 DEF CopyFile, Exit, LinkEnds, handleObtainCertificate
<1>3. ASSUME NEW c \in Client,
             \/ ClientLoad(c) \/ GenerateId(c) \/ ClientRequest(c)
             \/ ClientObtains(c) \/ ClientFails(c)
             \/ \E t \in Run : ClientConnect(c, t)
      PROVE  UNCHANGED <<ttp, file>>
  BY <1>3 DEF ClientLoad, GenerateId, ClientRequest, ClientObtains, ClientFails, ClientConnect,
       loadTtpData, SendRequest, Connect
<1>4. ASSUME NEW s \in Server,
             \/ ServerLoad(s) \/ ServerRequest(s)
             \/ ServerObtains(s) \/ ServerFails(s) \/ ServerListen(s)
             \/ \E t \in Run : ServerConnect(s, t)
      PROVE  UNCHANGED <<ttp, file>>
  BY <1>4 DEF ServerLoad, ServerRequest, ServerObtains, ServerFails, ServerListen, ServerConnect,
       loadTtpData, SendRequest
<1>5. CASE UNCHANGED vars
  BY <1>5 DEF vars
<1> QED BY <1>1, <1>2, <1>3, <1>4, <1>5 DEF Next

LEMMA FileKeptNext ==
  ASSUME NEW t \in Run
  PROVE  TypeOK /\ FileKept(t) /\ [Next]_vars => FileKept(t)'
<1> SUFFICES ASSUME TypeOK, FileKept(t), [Next]_vars PROVE FileKept(t)'
  OBVIOUS
<1>1. CASE UNCHANGED <<ttp, file>>
  BY <1>1 DEF FileKept
<1>2. ASSUME NEW u \in Run,
             ttp[u] # "ended", ttp'[u] # "no",
             \A x \in Run \ {u} : ttp'[x] = ttp[x],
             \/ ttp'[u] \notin {"saved", "listening"}
             \/ ttp'[u] = "saved" /\ file' \in SavedBy(u)
             \/ ttp[u] = "saved" /\ file' = file
      PROVE  FileKept(t)'
  <2>1. u \notin Before(t) /\ Before(t) \subseteq Run /\ t \notin Before(t)
    BY <1>2, RegistrationAssumption DEF FileKept, Before
  <2>2. \A x \in Before(t) : ttp'[x] = "ended"
    BY <1>2, <2>1 DEF FileKept
  <2>3. CASE u = t
    BY <1>2, <2>2, <2>3 DEF FileKept, After
  <2>4. CASE u # t
    <3>1. u \in After(t)
      BY <2>1, <2>4, RegistrationAssumption DEF Before, After
    <3> QED BY <1>2, <2>2, <3>1 DEF FileKept
  <2> QED BY <2>3, <2>4
<1> QED BY <1>1, <1>2, TtpMoves

\* Who can connect to a TTP finds in the file what that run has saved, if the
\* earlier ones had ended when it was started, until another is started.
THEOREM FileIsListeners == Spec => FileOfListener
<1> SUFFICES ASSUME NEW t \in Run
             PROVE  Spec =>
                      [](ttp[t] = "no" /\ (\A u \in Before(t) : ttp[u] = "ended") =>
                           [](ttp[t] = "listening" /\ (\A u \in After(t) : ttp[u] = "no") =>
                                file \in SavedBy(t)))
  BY DEF FileOfListener
<1>1. ttp[t] = "no" /\ (\A u \in Before(t) : ttp[u] = "ended") => FileKept(t)
  BY DEF FileKept
<1>2. TypeOK /\ FileKept(t) /\ [Next]_vars => FileKept(t)'
  BY FileKeptNext
<1>3. FileKept(t) =>
        (ttp[t] = "listening" /\ (\A u \in After(t) : ttp[u] = "no") =>
           file \in SavedBy(t))
  BY DEF FileKept
<1> QED BY <1>1, <1>2, <1>3, RegistrationTypeCorrect, PTL DEF Spec

(***************************************************************************)
(* Waiting                                                                 *)
(***************************************************************************)

\* The connections of a TTP end with it; who waits on an open one has asked.
Attended ==
  \A p \in Participant : link[p].open =>
    /\ link[p].to \in Run /\ ttp[link[p].to] = "listening"
    /\ stage[p] = "waiting" => link[p].request # <<>>

LEMMA AttendedNext == TypeOK /\ Attended /\ [Next]_vars => Attended'
<1> SUFFICES ASSUME TypeOK, Attended, [Next]_vars PROVE Attended'
  OBVIOUS
<1> USE DEF Attended, TypeOK
<1>n. NoLink.open = FALSE
  BY DEF NoLink
<1>1. ASSUME NEW t \in Run, Ttp(t) PROVE Attended'
  <2>1. CASE TtpEnd(t)
    <3>1. UNCHANGED stage /\ ttp' = [ttp EXCEPT ![t] = "ended"]
      BY <2>1 DEF TtpEnd, others
    <3>2. ASSUME NEW p \in Participant, link'[p].open
          PROVE  link'[p] = link[p] /\ link[p].to # t
      <4>1. CASE link[p].to = t
        <5>1. link'[p] = [link[p] EXCEPT !.open = FALSE, !.request = <<>>]
          BY <2>1, <4>1 DEF TtpEnd
        <5>2. link'[p].open = FALSE
          BY <5>1 DEF Link
        <5> QED BY <3>2, <5>2
      <4>2. CASE link[p].to # t
        BY <2>1, <4>2 DEF TtpEnd
      <4> QED BY <4>1, <4>2
    <3> QED BY <3>1, <3>2
  <2>2. CASE ~TtpEnd(t)
    <3>1. UNCHANGED <<link, stage>> /\ ttp[t] # "listening"
          /\ \A u \in Run \ {t} : ttp'[u] = ttp[u]
      BY <1>1, <2>2 DEF Ttp, TtpStart, TtpOpensFile, TtpWritesFile, TtpListen, Become, others
    <3> QED BY <3>1
  <2> QED BY <2>1, <2>2
<1>2. ASSUME NEW p \in Participant, NEW t \in Run,
             ttp[t] = "listening", UNCHANGED ttp,
             link' = [link EXCEPT ![p] = Linked(t)],
             stage' = [stage EXCEPT ![p] = "connected"]
      PROVE  Attended'
  <2>1. link'[p] = Linked(t) /\ stage'[p] = "connected"
    BY <1>2
  <2>2. \A q \in Participant \ {p} : link'[q] = link[q] /\ stage'[q] = stage[q]
    BY <1>2
  <2> QED BY <1>2, <2>1, <2>2 DEF Linked
<1>3. ASSUME NEW p \in Participant, NEW step, step # "waiting",
             UNCHANGED ttp,
             link' = link \/ link' = [link EXCEPT ![p] = NoLink],
             stage' = [stage EXCEPT ![p] = step]
      PROVE  Attended'
  <2>1. stage'[p] = step /\ link'[p] \in {link[p], NoLink}
    BY <1>3
  <2>2. \A q \in Participant \ {p} : link'[q] = link[q] /\ stage'[q] = stage[q]
    BY <1>3
  <2> QED BY <1>3, <1>n, <2>1, <2>2
<1>4. ASSUME NEW p \in Participant, NEW from, SendRequest(p, from, "waiting") PROVE Attended'
  <2>1. /\ UNCHANGED ttp /\ link[p].open
        /\ stage' = [stage EXCEPT ![p] = "waiting"]
        /\ link' = [link EXCEPT ![p] = [link[p] EXCEPT !.request = <<RequestFor(p)>>]]
    BY <1>4 DEF SendRequest, Goto
  <2>2. link'[p].request = <<RequestFor(p)>> /\ link'[p].to = link[p].to
    BY <2>1 DEF Link
  <2>3. <<RequestFor(p)>> # <<>>
    OBVIOUS
  <2> QED BY <2>1, <2>2, <2>3
<1>5. ASSUME NEW p \in Participant, handleObtainCertificate(p) \/ LinkEnds(p) PROVE Attended'
  <2>1. UNCHANGED <<ttp, stage>> /\ \A q \in Participant \ {p} : link'[q] = link[q]
    BY <1>5 DEF handleObtainCertificate, LinkEnds, others
  <2>2. link'[p].open = FALSE
    BY <1>5 DEF handleObtainCertificate, LinkEnds, Link
  <2> QED BY <2>1, <2>2
<1>6. ASSUME NEW c \in Client,
             \/ ClientLoad(c) \/ GenerateId(c) \/ ClientRequest(c)
             \/ ClientObtains(c) \/ ClientFails(c)
             \/ \E t \in Run : ClientConnect(c, t)
      PROVE  Attended'
  <2>0. c \in Participant
    BY DEF Participant
  <2>1. CASE ClientRequest(c)
    BY <1>4, <2>0, <2>1 DEF ClientRequest
  <2>2. CASE \E t \in Run : ClientConnect(c, t)
    BY <1>2, <2>0, <2>2 DEF ClientConnect, Connect, Goto
  <2>3. CASE ClientLoad(c) \/ GenerateId(c)
    BY <1>3, <2>0, <2>3 DEF ClientLoad, GenerateId, loadTtpData, Goto
  <2>4. CASE ClientObtains(c) \/ ClientFails(c)
    BY <1>3, <2>0, <2>4 DEF ClientObtains, ClientFails, Obtained
  <2> QED BY <1>6, <2>1, <2>2, <2>3, <2>4
<1>7. ASSUME NEW s \in Server,
             \/ ServerLoad(s) \/ ServerRequest(s)
             \/ ServerObtains(s) \/ ServerFails(s) \/ ServerListen(s)
             \/ \E t \in Run : ServerConnect(s, t)
      PROVE  Attended'
  <2>0. s \in Participant
    BY DEF Participant
  <2>1. CASE ServerRequest(s)
    BY <1>4, <2>0, <2>1 DEF ServerRequest
  <2>2. CASE \E t \in Run : ServerConnect(s, t)
    BY <1>2, <2>0, <2>2 DEF ServerConnect, Goto
  <2>3. CASE ServerLoad(s) \/ ServerListen(s)
    BY <1>3, <2>0, <2>3 DEF ServerLoad, ServerListen, loadTtpData, Goto
  <2>4. CASE ServerObtains(s) \/ ServerFails(s)
    BY <1>3, <2>0, <2>4 DEF ServerObtains, ServerFails, Obtained
  <2> QED BY <1>7, <2>1, <2>2, <2>3, <2>4
<1>8. ASSUME NEW p \in Participant, Exit(p) PROVE Attended'
  BY <1>3, <1>8 DEF Exit
<1>9. CASE UNCHANGED <<ttp, link, stage>>
  BY <1>9
<1> QED BY <1>1, <1>5, <1>6, <1>7, <1>8, <1>9 DEF Next, CopyFile, vars

\* Who waits for a certificate has asked a TTP that still runs, or is answered, or
\* told that its connection has ended.
THEOREM WaitsAreAttended == Spec => []AwaitsTtp
<1>1. Init => Attended
  BY DEF Init, Attended, NoLink
<1>2. TypeOK /\ Attended => AwaitsTtp
  BY DEF Attended, AwaitsTtp, Answered, TypeOK, Link
<1> QED BY <1>1, <1>2, AttendedNext, RegistrationTypeCorrect, PTL DEF Spec
=============================================================================
