--------------------------------- MODULE Pki ---------------------------------
(***************************************************************************)
(* What the programs use of OpenSSL, symbolically: src/src/crypto.  A key  *)
(* pair is its name; who knows the name of a private key is up to the      *)
(* module that uses this one.  Calls that may fail for lack of memory or   *)
(* randomness are failures of the operation that makes them.               *)
(***************************************************************************)
EXTENDS Naturals, Sequences

CONSTANT MaxCommonName   \* issue's maxCommonNameLength

ASSUME PkiAssumption == MaxCommonName \in Nat

-----------------------------------------------------------------------------
(* Certificates *)

CertificateOf(Name, Key) == [cn : Name, key : Key, signer : Key]

createSelfSignedCA(name, caKey) == [cn |-> name, key |-> caKey, signer |-> caKey]

\* Defective variant that no specification uses: one character is cut off.
TruncatedEarly(subjectName) == SubSeq(subjectName, 1, MaxCommonName - 1)

Truncated(subjectName) ==
  IF Len(subjectName) > MaxCommonName
  THEN SubSeq(subjectName, 1, MaxCommonName) ELSE subjectName

issue(subjectKey, subjectName, caKey) ==
  [cn |-> Truncated(subjectName), key |-> subjectKey, signer |-> caKey]

\* Defective variant that no specification uses: an error of X509_verify is
\* taken for a yes.
VerifiesAny(ca, toVerify) == TRUE

\* Only the signature counts: no name, date or revocation is looked at.
verify(ca, toVerify) == toVerify.signer = ca.key

getCommonName(certificate) == certificate.cn
getPublicKey(certificate) == certificate.key

-----------------------------------------------------------------------------
(* A PEM text, or the content of a file: <<x>> when it holds the object x,   *)
(* <<>> when it is missing, empty or cut.                                    *)

toPem(x) == <<x>>
IsPem(text) == text # <<>>
fromPem(text) == text[1]

-----------------------------------------------------------------------------
(* Encryption for the owner of a key, and signatures *)

base64Encode(bytes) == [base64 |-> bytes]
base64Decode(text) == text.base64

encryptPublic(plain, key) == [plain |-> plain, to |-> key]
encryptAndEncode(data, key) == base64Encode(encryptPublic(data, key))

\* decryptPrivate succeeds with the private key of the public key used, only.
Decrypts(text, key) == base64Decode(text).to = key
decodeAndDecrypt(text, key) == base64Decode(text).plain

sign(data, key) == [over |-> data, by |-> key]
signPayload(key, payload) == [payload |-> payload, signature |-> sign(payload, key)]

\* The signature is taken out and the rest dumped again: the same text, since
\* the fields of a JSON object are sorted.
verifyPayload(key, signed) == signed.signature = sign(signed.payload, key)
=============================================================================
