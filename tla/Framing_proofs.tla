--------------------------- MODULE Framing_proofs ---------------------------
(***************************************************************************)
(* Proofs about Framing: for any set of senders, any texts of less than    *)
(* 2^32 bytes and any way the kernel cuts them, the reader gets the        *)
(* packets that were sent.  The argument is Aligned: the packets lie one   *)
(* after the other in the stream, and the reader's position is that of the *)
(* packet after those it returned.                                         *)
(***************************************************************************)
EXTENDS Framing, SequenceTheorems, TLAPS

USE DEF HeaderSize

-----------------------------------------------------------------------------
(* Encoding *)

\* Where the elements of a concatenation are.
LEMMA ConcatAt ==
  ASSUME NEW S, NEW a \in Seq(S), NEW b \in Seq(S)
  PROVE  /\ a \o b \in Seq(S)
         /\ Len(a \o b) = Len(a) + Len(b)
         /\ \A k \in 1..Len(a) : (a \o b)[k] = a[k]
         /\ \A k \in 1..Len(b) : (a \o b)[Len(a) + k] = b[k]
<1>1. a \o b \in Seq(S) /\ Len(a \o b) = Len(a) + Len(b)
  BY ConcatProperties
<1>2. \A i \in 1..Len(a) + Len(b) :
        (a \o b)[i] = IF i <= Len(a) THEN a[i] ELSE b[i - Len(a)]
  BY ConcatProperties
<1>3. Len(a) \in Nat /\ Len(b) \in Nat
  OBVIOUS
<1>4. ASSUME NEW k \in 1..Len(a) PROVE (a \o b)[k] = a[k]
  BY <1>2, <1>3
<1>5. ASSUME NEW k \in 1..Len(b) PROVE (a \o b)[Len(a) + k] = b[k]
  BY <1>2, <1>3
<1> QED BY <1>1, <1>4, <1>5

\* Decoding undoes encoding for every length that fits 32 bits.
LEMMA LengthRoundTrip ==
  ASSUME NEW n \in Nat, FitsLength(n)
  PROVE  /\ LengthBytes(n) \in Seq(Byte) /\ Len(LengthBytes(n)) = 4
         /\ \A k \in 1..4 : LengthBytes(n)[k] \in Byte
         /\ spanToUint32(LengthBytes(n)) = n
<1>1. n % 256 \in Byte /\ (n \div 256) % 256 \in Byte
      /\ (n \div 65536) % 256 \in Byte /\ (n \div 16777216) % 256 \in Byte
  BY DEF Byte
<1>2. (n % 256) + 256 * ((n \div 256) % 256) + 65536 * ((n \div 65536) % 256)
        + 16777216 * ((n \div 16777216) % 256) = n
  BY DEF FitsLength
<1> QED BY <1>1, <1>2 DEF LengthBytes, spanToUint32

\* The parts of an encoded packet.
LEMMA EncodeParts ==
  ASSUME NEW p \in Packet
  PROVE  /\ encode(p) \in Seq(Byte)
         /\ Dump[p.payload] \in Seq(Byte)
         /\ Len(encode(p)) = HeaderSize + Len(Dump[p.payload])
         /\ encode(p)[1] = p.type
         /\ \A k \in 1..4 : encode(p)[1 + k] = LengthBytes(Len(Dump[p.payload]))[k]
         /\ \A k \in 1..Len(Dump[p.payload]) :
              encode(p)[HeaderSize + k] = Dump[p.payload][k]
<1> DEFINE d == Dump[p.payload]
           l == LengthBytes(Len(d))
<1>1. d \in Seq(Byte) /\ FitsLength(Len(d))
  BY FramingAssumption DEF Packet
<1>2. p.type \in Byte
  <2>0. PICK t : t = p.type
    OBVIOUS
  <2>1. t \in Types
    BY <2>0 DEF Packet
  <2>2. Types \subseteq 0..(SizeGuard - 1) /\ SizeGuard \in 0..255
    BY FramingAssumption DEF Byte
  <2>3. t \in Byte
    BY <2>1, <2>2 DEF Byte
  <2> QED BY <2>0, <2>3
<1>3. l \in Seq(Byte) /\ Len(l) = 4
  BY <1>1, LengthRoundTrip
<1>4. encode(p) = <<p.type>> \o l \o d
  BY DEF encode
<1> HIDE DEF l, d
<1>5. /\ encode(p) \in Seq(Byte)
      /\ Len(encode(p)) = HeaderSize + Len(d)
      /\ encode(p)[1] = p.type
      /\ \A k \in 1..4 : encode(p)[1 + k] = l[k]
      /\ \A k \in 1..Len(d) : encode(p)[HeaderSize + k] = d[k]
  <2> DEFINE t == <<p.type>>
             e == t \o l
  <2>0. t \in Seq(Byte)
    BY <1>2
  <2>1. Len(t) = 1 /\ t[1] = p.type
    OBVIOUS
  <2>2. l \in Seq(Byte)
    BY <1>3
  <2> HIDE DEF t
  <2>3. /\ e \in Seq(Byte)
        /\ Len(e) = Len(t) + Len(l)
        /\ \A k \in 1..Len(t) : e[k] = t[k]
        /\ \A k \in 1..Len(l) : e[Len(t) + k] = l[k]
    BY <2>0, <2>2, ConcatAt
  <2> HIDE DEF e
  <2>4. encode(p) = e \o d
    BY <1>4 DEF e, t
  <2>5. e \in Seq(Byte) /\ d \in Seq(Byte)
    BY <2>3, <1>1
  <2>6. /\ e \o d \in Seq(Byte)
        /\ Len(e \o d) = Len(e) + Len(d)
        /\ \A k \in 1..Len(e) : (e \o d)[k] = e[k]
        /\ \A k \in 1..Len(d) : (e \o d)[Len(e) + k] = d[k]
    BY <2>5, ConcatAt
  <2>7. Len(e) = 5 /\ e[1] = t[1] /\ \A k \in 1..4 : e[1 + k] = l[k]
    BY <2>1, <2>3, <1>3
  <2> QED BY <2>1, <2>4, <2>6, <2>7, <1>1
<1> QED BY <1>1, <1>5 DEF l, d

\* The piece of a sequence that begins after position m.
LEMMA PieceOf ==
  ASSUME NEW S, NEW s \in Seq(S), NEW m \in Nat, NEW n \in Nat, m + n <= Len(s)
  PROVE  /\ SubSeq(s, m + 1, m + n) \in Seq(S)
         /\ Len(SubSeq(s, m + 1, m + n)) = n
         /\ \A k \in 1..n : SubSeq(s, m + 1, m + n)[k] = s[m + k]
<1>1. \A i \in m + 1..m + n : s[i] \in S
  OBVIOUS
<1>2. /\ SubSeq(s, m + 1, m + n) \in Seq(S)
      /\ Len(SubSeq(s, m + 1, m + n)) =
           IF m + 1 <= m + n THEN (m + n) - (m + 1) + 1 ELSE 0
      /\ \A i \in 1..(m + n) - (m + 1) + 1 :
           SubSeq(s, m + 1, m + n)[i] = s[(m + 1) + i - 1]
  BY <1>1, SubSeqProperties
<1>3. (m + n) - (m + 1) + 1 = n
  OBVIOUS
<1>4. ASSUME NEW k \in 1..n PROVE SubSeq(s, m + 1, m + n)[k] = s[m + k]
  <2>1. (m + 1) + k - 1 = m + k
    OBVIOUS
  <2> QED BY <1>2, <1>3, <2>1
<1> QED BY <1>2, <1>3, <1>4

\* What ::send wrote and what it left are the two parts of the bytes.
LEMMA Parts ==
  ASSUME NEW bytes \in Seq(Byte), NEW n \in Nat, n <= Len(bytes)
  PROVE  /\ SubSeq(bytes, 1, n) \in Seq(Byte) /\ Len(SubSeq(bytes, 1, n)) = n
         /\ \A k \in 1..n : SubSeq(bytes, 1, n)[k] = bytes[k]
         /\ LeftOver(bytes, n) \in Seq(Byte)
         /\ Len(LeftOver(bytes, n)) = Len(bytes) - n
         /\ \A k \in 1..Len(bytes) - n : LeftOver(bytes, n)[k] = bytes[n + k]
<1>1. /\ SubSeq(bytes, 0 + 1, 0 + n) \in Seq(Byte)
      /\ Len(SubSeq(bytes, 0 + 1, 0 + n)) = n
      /\ \A k \in 1..n : SubSeq(bytes, 0 + 1, 0 + n)[k] = bytes[0 + k]
  BY PieceOf
<1>2. PICK r \in Nat : r = Len(bytes) - n
  OBVIOUS
<1>3. /\ SubSeq(bytes, n + 1, n + r) \in Seq(Byte)
      /\ Len(SubSeq(bytes, n + 1, n + r)) = r
      /\ \A k \in 1..r : SubSeq(bytes, n + 1, n + r)[k] = bytes[n + k]
  BY <1>2, PieceOf
<1>4. n + r = Len(bytes)
  BY <1>2
<1>5. LeftOver(bytes, n) = SubSeq(bytes, n + 1, n + r)
  BY <1>4 DEF LeftOver
<1>6. 0 + 1 = 1 /\ 0 + n = n /\ \A k \in 1..n : 0 + k = k
  OBVIOUS
<1>7. /\ SubSeq(bytes, 1, n) \in Seq(Byte) /\ Len(SubSeq(bytes, 1, n)) = n
      /\ \A k \in 1..n : SubSeq(bytes, 1, n)[k] = bytes[k]
  BY <1>1, <1>6
<1>8. /\ LeftOver(bytes, n) \in Seq(Byte)
      /\ Len(LeftOver(bytes, n)) = Len(bytes) - n
      /\ \A k \in 1..Len(bytes) - n : LeftOver(bytes, n)[k] = bytes[n + k]
  BY <1>2, <1>3, <1>5
<1> QED BY <1>7, <1>8
-----------------------------------------------------------------------------
(* Types *)

LEMMA SpanType ==
  ASSUME NEW s, \A k \in 1..4 : s[k] \in Byte
  PROVE  spanToUint32(s) \in Nat
<1>1. PICK a \in Byte, b \in Byte, c \in Byte, d \in Byte :
        s[1] = a /\ s[2] = b /\ s[3] = c /\ s[4] = d
  <2>1. s[1] \in Byte /\ s[2] \in Byte /\ s[3] \in Byte /\ s[4] \in Byte
    OBVIOUS
  <2> QED BY <2>1
<1>2. a + 256 * b + 65536 * c + 16777216 * d \in Nat
  BY DEF Byte
<1>3. spanToUint32(s) = a + 256 * b + 65536 * c + 16777216 * d
  BY <1>1 DEF spanToUint32
<1> QED BY <1>2, <1>3

LEMMA NoHeaderType == NoHeader \in [type : Byte, length : Nat]
BY DEF NoHeader, Byte

LEMMA InitTypeOK == Init => TypeOK
<1> SUFFICES ASSUME Init PROVE TypeOK
  OBVIOUS
<1>1. sent \in Seq([packet : Packet, at : Nat]) /\ got \in Seq([type : Byte, payload : Payloads])
  BY DEF Init
<1>2. left \in [Writer -> Seq(Byte)] /\ stream \in Seq(Byte) /\ buffer \in Seq(Byte)
  BY DEF Init
<1>3. taken \in Nat /\ taken <= Len(stream) /\ Len(buffer) <= ToRead
  BY DEF Init, ToRead
<1>4. header \in [type : Byte, length : Nat]
  BY NoHeaderType DEF Init
<1> QED BY <1>1, <1>2, <1>3, <1>4 DEF Init, TypeOK

\* A ::send keeps the types of what it changes.
LEMMA WriteTypes ==
  ASSUME TypeOK, NEW w \in Writer, NEW bytes \in Seq(Byte),
         NEW n \in Nat, n <= Len(bytes), Write(w, bytes, n)
  PROVE  /\ stream' \in Seq(Byte) /\ Len(stream') = Len(stream) + n
         /\ left' \in [Writer -> Seq(Byte)]
         /\ damaged' \in BOOLEAN
         /\ \A k \in 1..Len(stream) : stream'[k] = stream[k]
         /\ \A k \in 1..n : stream'[Len(stream) + k] = bytes[k]
         /\ left'[w] = LeftOver(bytes, n)
         /\ \A v \in Writer \ {w} : left'[v] = left[v]
<1> DEFINE now == SubSeq(bytes, 1, n)
<1>1. now \in Seq(Byte) /\ Len(now) = n /\ \A k \in 1..n : now[k] = bytes[k]
  BY Parts
<1>2. LeftOver(bytes, n) \in Seq(Byte)
  BY Parts
<1>3. stream' = stream \o now /\ left' = [left EXCEPT ![w] = LeftOver(bytes, n)]
      /\ damaged' \in BOOLEAN
  BY DEF Write, TypeOK
<1>4. stream \in Seq(Byte) /\ left \in [Writer -> Seq(Byte)]
  BY DEF TypeOK
<1> HIDE DEF now
<1>5. /\ stream \o now \in Seq(Byte)
      /\ Len(stream \o now) = Len(stream) + Len(now)
      /\ \A k \in 1..Len(stream) : (stream \o now)[k] = stream[k]
      /\ \A k \in 1..Len(now) : (stream \o now)[Len(stream) + k] = now[k]
  <2>1. now \in Seq(Byte)
    BY <1>1
  <2> QED BY <2>1, <1>4, ConcatAt
<1>6. /\ left' \in [Writer -> Seq(Byte)] /\ left'[w] = LeftOver(bytes, n)
      /\ \A v \in Writer \ {w} : left'[v] = left[v]
  BY <1>2, <1>3, <1>4
<1> QED BY <1>1, <1>3, <1>5, <1>6

LEMMA TypeStep == TypeOK /\ [Next]_vars => TypeOK'
<1> SUFFICES ASSUME TypeOK, [Next]_vars PROVE TypeOK'
  OBVIOUS
<1> USE DEF TypeOK
<1>1. ASSUME NEW w \in Writer, NEW p \in Packet, NEW n \in Pieces, Send(w, p, n)
      PROVE  TypeOK'
  <2>1. encode(p) \in Seq(Byte) /\ n \in Nat /\ n <= Len(encode(p))
    BY <1>1, EncodeParts, FramingAssumption DEF Send
  <2>2. /\ stream' \in Seq(Byte) /\ Len(stream') = Len(stream) + n
        /\ left' \in [Writer -> Seq(Byte)] /\ damaged' \in BOOLEAN
    BY <1>1, <2>1, WriteTypes DEF Send
  <2>3. sent' \in Seq([packet : Packet, at : Nat])
    <3> DEFINE E == [packet : Packet, at : Nat]
               e == [packet |-> p, at |-> Len(stream)]
    <3>1. e \in E /\ sent \in Seq(E)
      OBVIOUS
    <3>2. sent' = Append(sent, e)
      BY <1>1 DEF Send
    <3> HIDE DEF E, e
    <3>3. sent' \in Seq(E)
      BY <3>1, <3>2
    <3> QED BY <3>3 DEF E
  <2>4. UNCHANGED <<ended, receiving>>
    BY <1>1 DEF Send
  <2> QED BY <2>1, <2>2, <2>3, <2>4 DEF receiving, ToRead
<1>2. ASSUME NEW w \in Writer, NEW n \in Pieces, SendRest(w, n) PROVE TypeOK'
  <2>1. left[w] \in Seq(Byte) /\ n \in Nat /\ n <= Len(left[w])
    BY <1>2, FramingAssumption DEF SendRest
  <2>2. /\ stream' \in Seq(Byte) /\ Len(stream') = Len(stream) + n
        /\ left' \in [Writer -> Seq(Byte)] /\ damaged' \in BOOLEAN
    BY <1>2, <2>1, WriteTypes DEF SendRest
  <2>3. UNCHANGED <<sent, ended, receiving>>
    BY <1>2 DEF SendRest
  <2> QED BY <2>1, <2>2, <2>3 DEF receiving, ToRead
<1>3. CASE Close \/ Reset
  BY <1>3 DEF Close, Reset, sending, receiving, ToRead
<1>4. ASSUME NEW n \in Pieces, Recv(n) PROVE TypeOK'
  <2>1. n \in Nat /\ n <= ToRead - Len(buffer) /\ taken + n <= Len(stream)
    BY <1>4, FramingAssumption DEF Recv, ReadMax, ToRead
  <2>2. UNCHANGED <<sending, ended, step, header, got, outcome, damaged>>
    BY <1>4 DEF Recv
  <2> DEFINE s == SubSeq(stream, taken + 1, taken + n)
  <2>3. s \in Seq(Byte) /\ Len(s) = n
    BY <2>1, PieceOf
  <2>4. buffer' = buffer \o s /\ taken' = taken + n
    BY <1>4 DEF Recv
  <2> HIDE DEF s
  <2>5. buffer \o s \in Seq(Byte) /\ Len(buffer \o s) = Len(buffer) + Len(s)
    BY <2>3, ConcatAt
  <2>6. ToRead' = ToRead /\ ToRead \in Nat
    BY <2>2 DEF ToRead
  <2> QED BY <2>1, <2>2, <2>3, <2>4, <2>5, <2>6 DEF sending
<1>5. CASE decodeHeader
  <2>1. UNCHANGED <<sending, ended, taken, got, damaged>>
    BY <1>5 DEF decodeHeader
  <2>2. CASE isValidType(buffer[1])
    <3>1. Len(buffer) = 5
      <4>1. step = "header" /\ ~(Len(buffer) < ToRead)
        BY <1>5 DEF decodeHeader, Reading
      <4>2. Len(buffer) <= 5 /\ ~(Len(buffer) < 5)
        BY <4>1 DEF ToRead
      <4>3. buffer \in Seq(Byte)
        OBVIOUS
      <4>4. PICK b \in Nat : b = Len(buffer)
        BY <4>3, LenProperties
      <4> QED BY <4>2, <4>4
    <3>2. \A k \in 1..5 : buffer[k] \in Byte
      <4>1. buffer \in Seq(Byte)
        OBVIOUS
      <4> QED BY <3>1, <4>1, ElementOfSeq
    <3>3. spanToUint32(SubSeq(buffer, 2, HeaderSize)) \in Nat
      <4>1. \A k \in 1..4 : SubSeq(buffer, 2, HeaderSize)[k] = buffer[1 + k]
        BY <3>1, PieceOf
      <4>2. \A k \in 1..4 : SubSeq(buffer, 2, HeaderSize)[k] \in Byte
        BY <3>2, <4>1
      <4> QED BY <4>2, SpanType
    <3>4. /\ step' = "payload" /\ buffer' = <<>> /\ outcome' = outcome
          /\ header' = [type |-> buffer[1],
                        length |-> spanToUint32(SubSeq(buffer, 2, HeaderSize))]
      BY <1>5, <2>2 DEF decodeHeader
    <3>5. header' \in [type : Byte, length : Nat]
      BY <3>2, <3>3, <3>4
    <3>6. buffer' \in Seq(Byte) /\ Len(buffer') <= ToRead'
      BY <3>4, <3>5 DEF ToRead
    <3> QED BY <2>1, <3>4, <3>5, <3>6 DEF sending
  <2>3. CASE ~isValidType(buffer[1])
    BY <1>5, <2>1, <2>3, NoHeaderType DEF decodeHeader, Return, sending, ToRead
  <2> QED BY <2>2, <2>3
<1>6. CASE decodePayload
  <2>1. UNCHANGED <<sending, ended, taken, damaged>>
    BY <1>6 DEF decodePayload
  <2>2. Return("packet") \/ Return("error")
    BY <1>6 DEF decodePayload
  <2>3. got' \in Seq([type : Byte, payload : Payloads])
    <3>1. CASE Parses(buffer)
      <4> DEFINE E == [type : Byte, payload : Payloads]
                 e == [type |-> header.type, payload |-> Parse(buffer)]
      <4>1. Parse(buffer) \in Payloads
        BY <3>1 DEF Parses, Parse
      <4>2. e \in E /\ got \in Seq(E)
        BY <4>1
      <4>3. got' = Append(got, e)
        BY <1>6, <3>1 DEF decodePayload
      <4> HIDE DEF E, e
      <4>4. got' \in Seq(E)
        BY <4>2, <4>3
      <4> QED BY <4>4 DEF E
    <3>2. CASE ~Parses(buffer)
      BY <1>6, <3>2 DEF decodePayload
    <3> QED BY <3>1, <3>2
  <2>4. step' = "header" /\ buffer' = <<>> /\ header' = NoHeader
        /\ outcome' \in {"packet", "error"}
    BY <2>2 DEF Return
  <2> QED BY <2>1, <2>3, <2>4, NoHeaderType DEF sending, ToRead
<1>7. CASE RecvEnd \/ RecvFails \/ RecvTimesOut
  <2>1. UNCHANGED <<sending, taken, got>>
    BY <1>7 DEF RecvEnd, RecvFails, RecvTimesOut
  <2>2. ended' \in {"open", "shut", "reset", "broken"} /\ damaged' \in BOOLEAN
    BY <1>7 DEF RecvEnd, RecvFails, RecvTimesOut
  <2>3. step' = "header" /\ buffer' = <<>> /\ header' = NoHeader
        /\ outcome' \in {"CloseConnection", "TimedOut", "error"}
    BY <1>7 DEF RecvEnd, RecvFails, RecvTimesOut, Return
  <2> QED BY <2>1, <2>2, <2>3, NoHeaderType DEF sending, ToRead
<1>8. CASE UNCHANGED vars
  BY <1>8 DEF vars, receiving, ToRead
<1> QED
  BY <1>1, <1>2, <1>3, <1>4, <1>5, <1>6, <1>7, <1>8 DEF Next, Sender, Receive

\* Every variable has its type: whatever the peer and the kernel do, receive()
\* never reads past what it asked for.
THEOREM FramingTypeCorrect == Spec => []TypeOK
BY InitTypeOK, TypeStep, PTL DEF Spec

-----------------------------------------------------------------------------
(* Where the packets are *)

\* What the invariants say of a packet that was sent.
LEMMA SentFacts ==
  ASSUME TypeOK, NEW i \in DOMAIN sent
  PROVE  /\ Pkt(i) \in Packet /\ sent[i].at \in Nat
         /\ encode(Pkt(i)) \in Seq(Byte) /\ Len(encode(Pkt(i))) \in Nat
         /\ DOMAIN encode(Pkt(i)) = 1..Len(encode(Pkt(i)))
         /\ Len(encode(Pkt(i))) >= HeaderSize
         /\ After(i) = sent[i].at + Len(encode(Pkt(i))) /\ After(i) \in Nat
<1>1. sent[i] \in [packet : Packet, at : Nat]
  <2> DEFINE E == [packet : Packet, at : Nat]
  <2>1. sent \in Seq(E)
    BY DEF TypeOK
  <2> HIDE DEF E
  <2>2. sent[i] \in E
    BY <2>1, ElementOfSeq
  <2> QED BY <2>2 DEF E
<1>2. Pkt(i) \in Packet /\ sent[i].at \in Nat
  BY <1>1 DEF Pkt
<1>3. /\ encode(Pkt(i)) \in Seq(Byte) /\ Dump[Pkt(i).payload] \in Seq(Byte)
      /\ Len(encode(Pkt(i))) = HeaderSize + Len(Dump[Pkt(i).payload])
  BY <1>2, EncodeParts
<1>4. PICK r \in Nat : r = Len(Dump[Pkt(i).payload])
  BY <1>3
<1>5. DOMAIN encode(Pkt(i)) = 1..Len(encode(Pkt(i)))
  BY <1>3
<1>6. Len(encode(Pkt(i))) = HeaderSize + r
  BY <1>3, <1>4
<1> QED BY <1>2, <1>3, <1>5, <1>6 DEF After

\* A connection that is not damaged after a step was not damaged before.
LEMMA NeverRepaired ==
  ASSUME TypeOK, [Next]_vars, ~damaged'
  PROVE  ~damaged
BY DEF TypeOK, Next, Sender, Send, SendRest, Write, Close, Reset, Receive, Recv,
       decodeHeader, decodePayload, RecvEnd, RecvFails, RecvTimesOut, vars

LEMMA InitAligned == Init => Aligned
<1> SUFFICES ASSUME Init PROVE Aligned
  OBVIOUS
<1>1. sent = <<>> /\ got = <<>> /\ stream = <<>> /\ buffer = <<>> /\ taken = 0
      /\ step = "header" /\ Sending = {} /\ DOMAIN sent = {} /\ DOMAIN got = {}
  BY DEF Init, Sending
<1>2. PacketsInOrder
  BY <1>1 DEF PacketsInOrder
<1>3. LeftCompletes
  BY <1>1 DEF LeftCompletes
<1>4. ReaderAligned
  BY <1>1 DEF ReaderAligned, Complete
<1> QED BY <1>2, <1>3, <1>4 DEF Aligned

-----------------------------------------------------------------------------
(* The sender's steps *)

LEMMA SendAligned ==
  ASSUME TypeOK, TypeOK', Aligned, ~damaged, ~damaged',
         NEW w \in Writer, NEW p \in Packet, NEW n \in Pieces, Send(w, p, n)
  PROVE  /\ PacketsInOrder' /\ LeftCompletes' /\ ReaderAligned'
         /\ Sending = {} /\ Len(sent') = Len(sent) + 1
         /\ \A i \in DOMAIN sent : sent'[i] = sent[i]
<1> DEFINE bytes == encode(p)
<1>0. PICK m \in Nat, here \in Nat : m = Len(sent) /\ here = Len(stream)
  BY DEF TypeOK
<1>1. n \in Nat \ {0} /\ n <= Len(bytes) /\ bytes \in Seq(Byte)
  BY EncodeParts, FramingAssumption DEF Send
<1>2. /\ Len(stream') = here + n
      /\ \A k \in 1..here : stream'[k] = stream[k]
      /\ \A k \in 1..n : stream'[here + k] = bytes[k]
      /\ left'[w] = LeftOver(bytes, n)
      /\ \A v \in Writer \ {w} : left'[v] = left[v]
  BY <1>0, <1>1, WriteTypes DEF Send
<1>3. Sending = {}
  BY DEF Send, Write, Sending
<1>4. PacketsInOrder /\ LeftCompletes /\ ReaderAligned
  BY DEF Aligned
<1>5. here = IF sent = <<>> THEN 0 ELSE After(m)
  BY <1>0, <1>3, <1>4 DEF LeftCompletes
<1>6. /\ DOMAIN sent = 1..m /\ DOMAIN sent' = 1..m + 1 /\ Len(sent') = m + 1
      /\ \A i \in 1..m : sent'[i] = sent[i]
      /\ sent'[m + 1] = [packet |-> p, at |-> here]
  <2> DEFINE E == [packet : Packet, at : Nat]
             e == [packet |-> p, at |-> here]
  <2>1. sent \in Seq(E) /\ e \in E
    BY <1>0 DEF TypeOK
  <2>2. sent' = Append(sent, e)
    BY <1>0 DEF Send
  <2> HIDE DEF E, e
  <2>3. /\ Len(sent') = m + 1 /\ sent'[m + 1] = e
        /\ \A i \in 1..m : sent'[i] = sent[i]
        /\ DOMAIN sent = 1..m /\ DOMAIN sent' = 1..m + 1
    BY <1>0, <2>1, <2>2
  <2> QED BY <2>3 DEF e
<1>7. \A i \in 1..m : Pkt(i)' = Pkt(i) /\ After(i)' = After(i)
  BY <1>6 DEF Pkt, After
<1>8. sent'[m + 1].packet = p /\ sent'[m + 1].at = here
  BY <1>6
<1>9. Pkt(m + 1)' = p /\ After(m + 1)' = here + Len(bytes)
  <2>1. Pkt(m + 1)' = p
    BY <1>8 DEF Pkt
  <2>2. After(m + 1)' = sent'[m + 1].at + Len(encode(Pkt(m + 1)'))
    BY DEF After
  <2> QED BY <1>8, <2>1, <2>2
<1>18. Len(bytes) \in Nat
  BY <1>1
<1>10. ASSUME NEW i \in 1..m
       PROVE  /\ After(i) <= here /\ sent[i].at \in Nat /\ After(i) \in Nat
              /\ After(i) = sent[i].at + Len(encode(Pkt(i)))
              /\ Len(encode(Pkt(i))) \in Nat
              /\ DOMAIN encode(Pkt(i)) = 1..Len(encode(Pkt(i)))
  <2>1. /\ sent[i].at \in Nat /\ After(i) \in Nat /\ Len(encode(Pkt(i))) \in Nat
        /\ After(i) = sent[i].at + Len(encode(Pkt(i)))
        /\ DOMAIN encode(Pkt(i)) = 1..Len(encode(Pkt(i)))
    BY <1>6, SentFacts
  <2>2. m \in DOMAIN sent /\ here = After(m)
    BY <1>5, <1>6
  <2>3. After(m) = sent[m].at + Len(encode(Pkt(m))) /\ sent[m].at \in Nat
        /\ Len(encode(Pkt(m))) \in Nat
    BY <2>2, SentFacts
  <2>4. i < m => After(i) <= sent[m].at
    BY <1>4, <1>6, <2>2 DEF PacketsInOrder
  <2> QED BY <2>1, <2>2, <2>3, <2>4, <1>6
<1>11. PacketsInOrder'
  <2>1. sent' # <<>> => sent'[1].at = 0
    BY <1>4, <1>5, <1>6, <1>8 DEF PacketsInOrder
  <2>2. ASSUME NEW i \in 1..m + 1, NEW j \in 1..m + 1, i < j
        PROVE  After(i)' <= sent'[j].at /\ (j = i + 1 => After(i)' = sent'[j].at)
    <3>1. i \in 1..m
      BY <2>2, <1>6
    <3>2. CASE j \in 1..m
      <4>1. i \in DOMAIN sent /\ j \in DOMAIN sent /\ sent'[j] = sent[j]
        BY <3>1, <3>2, <1>6
      <4>2. After(i) <= sent[j].at /\ (j = i + 1 => After(i) = sent[j].at)
        BY <4>1, <2>2, <1>4 DEF PacketsInOrder
      <4> QED BY <4>1, <4>2, <3>1, <1>7
    <3>3. CASE j = m + 1
      <4>1. After(i)' <= here /\ sent'[j].at = here
        BY <3>1, <3>3, <1>7, <1>8, <1>10
      <4>2. j = i + 1 => i = m
        BY <3>1, <3>3, <1>18
      <4>3. i = m => After(i)' = here
        BY <3>1, <1>5, <1>6, <1>7
      <4> QED BY <4>1, <4>2, <4>3
    <3> QED BY <2>2, <3>2, <3>3, <1>6
  <2>3. ASSUME NEW i \in 1..m + 1, NEW k \in DOMAIN encode(Pkt(i)'),
               sent'[i].at + k <= Len(stream')
        PROVE  stream'[sent'[i].at + k] = encode(Pkt(i)')[k]
    <3>1. CASE i \in 1..m
      <4>1. k \in 1..Len(encode(Pkt(i))) /\ sent'[i].at = sent[i].at
        BY <3>1, <2>3, <1>6, <1>7, <1>10
      <4>2. sent[i].at + k \in 1..here
        BY <3>1, <4>1, <1>10, <1>2
      <4>3. stream[sent[i].at + k] = encode(Pkt(i))[k]
        <5>1. i \in DOMAIN sent /\ k \in DOMAIN encode(Pkt(i))
          BY <3>1, <4>1, <1>6, <1>10
        <5>2. sent[i].at + k <= Len(stream)
          BY <4>2, <1>0
        <5> QED BY <5>1, <5>2, <1>4 DEF PacketsInOrder
      <4> QED BY <3>1, <4>1, <4>2, <4>3, <1>2, <1>7
    <3>2. CASE i = m + 1
      <4>1. k \in DOMAIN bytes /\ here + k <= here + n
        BY <3>2, <2>3, <1>2, <1>8, <1>9
      <4>2. k \in 1..Len(bytes)
        BY <4>1, <1>1
      <4>3. k \in 1..n
        BY <4>1, <4>2, <1>1, <1>18
      <4>4. sent'[i].at = here /\ encode(Pkt(i)') = bytes
        BY <3>2, <1>8, <1>9
      <4> HIDE DEF bytes
      <4> QED BY <4>3, <4>4, <1>2
    <3> QED BY <3>1, <3>2, <1>6
  <2> QED BY <2>1, <2>2, <2>3, <1>6 DEF PacketsInOrder
<1>12. /\ LeftOver(bytes, n) \in Seq(Byte) /\ Len(LeftOver(bytes, n)) = Len(bytes) - n
       /\ \A k \in 1..Len(bytes) - n : LeftOver(bytes, n)[k] = bytes[n + k]
  BY <1>1, Parts
<1>13. \A v \in Sending' : v = w
  BY <1>2, <1>3 DEF Sending
<1>14. w \in Sending' <=> n # Len(bytes)
  <2>1. w \in Sending' <=> LeftOver(bytes, n) # <<>>
    BY <1>2 DEF Sending
  <2> QED BY <2>1, <1>1, <1>12
<1>15. LeftCompletes'
  <2>1. \A v, x \in Sending' : v = x
    BY <1>13
  <2>2. Sending' = {} => Len(stream') = IF sent' = <<>> THEN 0 ELSE After(m + 1)'
    <3>1. Sending' = {} => n = Len(bytes)
      BY <1>14
    <3>2. sent' # <<>>
      BY <1>6
    <3> QED BY <3>1, <3>2, <1>2, <1>9
  <2>3. ASSUME NEW v \in Sending'
        PROVE  /\ sent' # <<>>
               /\ Len(stream') > sent'[m + 1].at
               /\ Len(stream') + Len(left'[v]) = After(m + 1)'
               /\ \A k \in DOMAIN left'[v] :
                    left'[v][k] = bytes[Len(bytes) - Len(left'[v]) + k]
    <3>1. v = w /\ n < Len(bytes) /\ left'[v] = LeftOver(bytes, n)
      BY <1>1, <1>2, <1>13, <1>14, <1>18
    <3>2. Len(bytes) - Len(left'[v]) = n /\ DOMAIN left'[v] = 1..Len(bytes) - n
      BY <3>1, <1>1, <1>12
    <3>3. sent' # <<>> /\ Len(stream') > sent'[m + 1].at
      BY <1>1, <1>2, <1>6, <1>8, <1>0
    <3>4. Len(stream') + Len(left'[v]) = After(m + 1)'
      BY <3>1, <1>1, <1>2, <1>9, <1>12, <1>0, <1>18
    <3> HIDE DEF bytes
    <3>5. \A k \in DOMAIN left'[v] :
            left'[v][k] = bytes[Len(bytes) - Len(left'[v]) + k]
      BY <3>1, <3>2, <1>12
    <3> QED BY <3>3, <3>4, <3>5
  <2>4. Len(sent)' = m + 1
    BY <1>6
  <2> QED BY <2>1, <2>2, <2>3, <2>4, <1>9 DEF LeftCompletes
<1>16. ReaderAligned'
  <2>1. UNCHANGED <<taken, step, buffer, header, got, ended>> /\ ended = "open"
    BY DEF Send, receiving
  <2>0. PICK g \in Nat : g = Len(got)
    BY DEF TypeOK
  <2>2. g <= m /\ DOMAIN got = 1..g
    BY <2>0, <1>0, <1>3, <1>4 DEF ReaderAligned, Complete, TypeOK
  <2>3. Len(got)' <= Complete'
    BY <2>0, <2>1, <2>2, <1>0, <1>6 DEF Complete
  <2>4. \A i \in DOMAIN got' : got'[i] = Pkt(i)'
    <3>1. ASSUME NEW i \in DOMAIN got PROVE got'[i] = Pkt(i)'
      <4>1. i \in 1..m
        BY <2>2, <1>0
      <4>2. got[i] = Pkt(i)
        BY <1>4 DEF ReaderAligned
      <4> QED BY <4>1, <4>2, <2>1, <1>7
    <3> QED BY <3>1, <2>1
  <2>5. CASE g = m
    <3>1. taken = here /\ step = "header" /\ buffer = <<>>
      BY <2>0, <2>5, <1>0, <1>4 DEF ReaderAligned
    <3>2. InsideComing'
      <4>1. Offset' = 0 /\ Len(buffer') = 0 /\ DOMAIN buffer' = {} /\ taken' = here
        BY <2>1, <3>1 DEF Offset
      <4>2. Len(got)' + 1 = m + 1 /\ step' = "header"
        BY <2>0, <2>1, <2>5, <3>1
      <4> QED BY <4>1, <4>2, <1>8 DEF InsideComing
    <3>3. Len(got)' # Len(sent)'
      BY <2>0, <2>1, <2>5, <1>6
    <3> QED BY <2>3, <2>4, <3>2, <3>3 DEF ReaderAligned
  <2>6. CASE g < m
    <3>1. InsideComing
      BY <2>0, <2>1, <2>6, <1>0, <1>4 DEF ReaderAligned, AfterEnd
    <3>2. g + 1 \in 1..m
      BY <2>6
    <3>3. Coming' = Coming /\ sent'[g + 1] = sent[g + 1]
      BY <2>0, <3>2, <2>1, <1>6, <1>7 DEF Coming
    <3>4. InsideComing'
      BY <2>0, <2>1, <3>1, <3>2, <3>3 DEF InsideComing, Offset
    <3>5. Len(got)' # Len(sent)'
      BY <2>0, <2>1, <2>6, <1>6
    <3> QED BY <2>3, <2>4, <3>4, <3>5 DEF ReaderAligned
  <2> QED BY <2>2, <2>5, <2>6
<1> QED BY <1>0, <1>3, <1>6, <1>11, <1>15, <1>16

LEMMA SendRestAligned ==
  ASSUME TypeOK, TypeOK', Aligned, ~damaged, ~damaged',
         NEW w \in Writer, NEW n \in Pieces, SendRest(w, n)
  PROVE  PacketsInOrder' /\ LeftCompletes' /\ ReaderAligned' /\ Sending # {}
<1> DEFINE rest == left[w]
<1>0. PICK m \in Nat, here \in Nat, l \in Nat :
        m = Len(sent) /\ here = Len(stream) /\ l = Len(rest)
  BY DEF TypeOK
<1>1. n \in Nat \ {0} /\ n <= l /\ rest \in Seq(Byte) /\ rest # <<>>
  BY <1>0, FramingAssumption DEF SendRest, TypeOK
<1>2. /\ Len(stream') = here + n
      /\ \A k \in 1..here : stream'[k] = stream[k]
      /\ \A k \in 1..n : stream'[here + k] = rest[k]
      /\ left'[w] = LeftOver(rest, n)
      /\ \A v \in Writer \ {w} : left'[v] = left[v]
  BY <1>0, <1>1, WriteTypes DEF SendRest
<1>3. w \in Sending /\ \A v \in Writer \ {w} : left[v] = <<>>
  BY <1>1 DEF SendRest, Write, Sending
<1>4. PacketsInOrder /\ LeftCompletes /\ ReaderAligned
  BY DEF Aligned
<1>5. UNCHANGED <<sent, ended, taken, step, buffer, header, got>> /\ ended = "open"
  BY DEF SendRest, receiving
<1>6. m \in 1..m /\ DOMAIN sent = 1..m
  <2>1. sent # <<>>
    BY <1>3, <1>4 DEF LeftCompletes
  <2>2. sent \in Seq([packet : Packet, at : Nat])
    BY DEF TypeOK
  <2>3. m # 0 /\ DOMAIN sent = 1..m
    BY <2>1, <2>2, <1>0, EmptySeq, LenProperties
  <2> QED BY <2>3
<1> DEFINE bytes == encode(Pkt(m))
<1>7. PICK b \in Nat, at \in Nat : b = Len(bytes) /\ at = sent[m].at
  BY <1>6, SentFacts
<1>8. After(m) = at + b /\ here + l = at + b /\ here > at
  BY <1>0, <1>3, <1>4, <1>6, <1>7, SentFacts DEF LeftCompletes
<1>9. \A k \in 1..l : rest[k] = bytes[b - l + k]
  <2>1. \A k \in DOMAIN rest : rest[k] = bytes[Len(bytes) - Len(rest) + k]
    BY <1>0, <1>3, <1>4 DEF LeftCompletes
  <2>2. DOMAIN rest = 1..l
    BY <1>0, <1>1
  <2> QED BY <2>1, <2>2, <1>0, <1>7
<1>10. ASSUME NEW i \in 1..m
       PROVE  /\ Pkt(i)' = Pkt(i) /\ After(i)' = After(i) /\ sent'[i] = sent[i]
              /\ sent[i].at \in Nat /\ Len(encode(Pkt(i))) \in Nat
              /\ After(i) = sent[i].at + Len(encode(Pkt(i)))
              /\ DOMAIN encode(Pkt(i)) = 1..Len(encode(Pkt(i)))
              /\ i # m => After(i) <= at
  <2>1. i \in DOMAIN sent
    BY <1>6
  <2>2. i # m => After(i) <= at
    BY <2>1, <1>4, <1>6, <1>7 DEF PacketsInOrder
  <2> QED BY <2>1, <2>2, <1>5, SentFacts DEF Pkt, After
<1>11. PacketsInOrder'
  <2>1. sent' # <<>> => sent'[1].at = 0
    BY <1>4, <1>5 DEF PacketsInOrder
  <2>2. ASSUME NEW i \in 1..m, NEW j \in 1..m, i < j
        PROVE  After(i)' <= sent'[j].at /\ (j = i + 1 => After(i)' = sent'[j].at)
    <3>1. After(i) <= sent[j].at /\ (j = i + 1 => After(i) = sent[j].at)
      BY <2>2, <1>4, <1>6 DEF PacketsInOrder
    <3> QED BY <3>1, <1>10
  <2>3. ASSUME NEW i \in 1..m, NEW k \in DOMAIN encode(Pkt(i)'),
               sent'[i].at + k <= Len(stream')
        PROVE  stream'[sent'[i].at + k] = encode(Pkt(i)')[k]
    <3>1. PICK a \in Nat : a = sent[i].at
      BY <1>10
    <3>2. k \in DOMAIN encode(Pkt(i)) /\ k \in 1..Len(encode(Pkt(i))) /\ sent'[i].at = a
      BY <2>3, <3>1, <1>10
    <3>3. CASE a + k <= here
      <4>1. stream[a + k] = encode(Pkt(i))[k]
        BY <3>1, <3>2, <3>3, <1>0, <1>4, <1>6 DEF PacketsInOrder
      <4>2. a + k \in 1..here
        BY <3>1, <3>2, <3>3, <1>10
      <4> QED BY <3>2, <4>1, <4>2, <1>2, <1>10
    <3>4. CASE a + k > here
      <4>1. i = m
        BY <3>1, <3>2, <3>4, <1>8, <1>10
      <4>2. a = at /\ k \in 1..b
        BY <3>1, <3>2, <4>1, <1>7
      <4>3. a + k - here \in 1..n
        BY <2>3, <3>2, <3>4, <4>2, <1>1, <1>2
      <4>4. stream'[here + (a + k - here)] = rest[a + k - here]
        BY <4>3, <1>2
      <4>5. b - l + (a + k - here) = k /\ here + (a + k - here) = a + k
        BY <4>2, <1>8, <3>1
      <4> HIDE DEF rest, bytes
      <4>6. rest[a + k - here] = bytes[k]
        <5>1. PICK j \in 1..n : j = a + k - here
          BY <4>3
        <5>2. j \in 1..l /\ b - l + j = k
          BY <4>5, <5>1, <1>1
        <5> QED BY <5>1, <5>2, <1>9
      <4>7. stream'[a + k] = bytes[k]
        BY <4>4, <4>5, <4>6
      <4> USE DEF bytes
      <4> QED BY <3>2, <4>1, <4>7, <1>10
    <3> QED BY <3>2, <3>3, <3>4
  <2> QED BY <2>1, <2>2, <2>3, <1>5, <1>6 DEF PacketsInOrder
<1>12. /\ LeftOver(rest, n) \in Seq(Byte) /\ Len(LeftOver(rest, n)) = l - n
       /\ \A k \in 1..l - n : LeftOver(rest, n)[k] = rest[n + k]
  BY <1>0, <1>1, Parts
<1>13. \A v \in Sending' : v = w
  BY <1>2, <1>3 DEF Sending
<1>14. w \in Sending' <=> n # l
  <2>1. w \in Sending' <=> LeftOver(rest, n) # <<>>
    BY <1>2 DEF Sending
  <2> QED BY <2>1, <1>1, <1>12
<1>15. LeftCompletes'
  <2>1. Sending' = {} => Len(stream') = After(m)'
    <3>1. Sending' = {} => n = l
      BY <1>14
    <3> QED BY <3>1, <1>2, <1>6, <1>8, <1>10
  <2>2. ASSUME NEW v \in Sending'
        PROVE  /\ Len(stream') > sent'[m].at
               /\ Len(stream') + Len(left'[v]) = After(m)'
               /\ \A k \in DOMAIN left'[v] :
                    left'[v][k] = bytes[Len(bytes) - Len(left'[v]) + k]
    <3>1. v = w /\ n < l /\ left'[v] = LeftOver(rest, n)
      BY <1>1, <1>2, <1>13, <1>14
    <3>2. Len(left'[v]) = l - n /\ DOMAIN left'[v] = 1..l - n
      BY <3>1, <1>12
    <3>3. Len(stream') > sent'[m].at
      BY <1>1, <1>2, <1>5, <1>7, <1>8
    <3>4. Len(stream') + Len(left'[v]) = After(m)'
      BY <3>2, <1>1, <1>2, <1>6, <1>8, <1>10
    <3>5. ASSUME NEW k \in 1..l - n
          PROVE  left'[v][k] = bytes[b - (l - n) + k]
      <4>1. n + k \in 1..l /\ b - l + (n + k) = b - (l - n) + k
        BY <1>1
      <4>2. rest[n + k] = bytes[b - l + (n + k)]
        BY <4>1, <1>9
      <4>3. left'[v][k] = rest[n + k]
        BY <3>1, <1>12
      <4> HIDE DEF bytes, rest
      <4> QED BY <4>1, <4>2, <4>3
    <3> QED BY <3>2, <3>3, <3>4, <3>5, <1>7
  <2>3. sent' # <<>> /\ Len(sent)' = m
    BY <1>0, <1>4, <1>3, <1>5 DEF LeftCompletes
  <2>4. encode(Pkt(m))' = bytes
    BY <1>5 DEF Pkt
  <2> QED BY <2>1, <2>2, <2>3, <2>4, <1>13 DEF LeftCompletes
<1>16. ReaderAligned'
  <2>1. PICK g \in Nat : g = Len(got)
    BY DEF TypeOK
  <2>2. g < m /\ \A i \in DOMAIN got : got[i] = Pkt(i)
    BY <2>1, <1>0, <1>3, <1>4 DEF ReaderAligned, Complete
  <2>3. InsideComing
    BY <2>1, <2>2, <1>0, <1>4, <1>5 DEF ReaderAligned, AfterEnd
  <2>4. InsideComing'
    BY <2>3, <1>5 DEF InsideComing, Offset, Coming, Pkt
  <2>5. Len(got)' <= Complete' /\ Len(got)' # Len(sent)'
    BY <2>1, <2>2, <1>0, <1>5 DEF Complete
  <2>6. \A i \in DOMAIN got' : got'[i] = Pkt(i)'
    BY <2>2, <1>5 DEF Pkt
  <2> QED BY <2>4, <2>5, <2>6 DEF ReaderAligned
<1> QED BY <1>3, <1>11, <1>15, <1>16

\* A step that leaves the sender alone keeps the sender's half.
LEMMA SenderHalf ==
  ASSUME UNCHANGED sending, PacketsInOrder, LeftCompletes
  PROVE  /\ PacketsInOrder' /\ LeftCompletes' /\ Sending' = Sending
         /\ Complete' = Complete /\ Len(sent)' = Len(sent)
         /\ \A i : Pkt(i)' = Pkt(i) /\ After(i)' = After(i)
<1>1. sent' = sent /\ left' = left /\ stream' = stream
  BY DEF sending
<1>2. Sending' = Sending /\ Complete' = Complete
  BY <1>1 DEF Sending, Complete
<1>3. \A i : Pkt(i)' = Pkt(i) /\ After(i)' = After(i)
  BY <1>1 DEF Pkt, After
<1>4. PacketsInOrder'
  BY <1>1 DEF PacketsInOrder, Pkt, After
<1>5. LeftCompletes'
  BY <1>1 DEF LeftCompletes, Sending, Pkt, After
<1> QED BY <1>1, <1>2, <1>3, <1>4, <1>5

-----------------------------------------------------------------------------
(* The reader's steps *)

\* All bytes of a packet are in the stream when, and only when, it is complete.
LEMMA Positions ==
  ASSUME TypeOK, PacketsInOrder, LeftCompletes, NEW i \in DOMAIN sent
  PROVE  After(i) <= Len(stream) <=> i <= Complete
<1>1. PICK m \in Nat, here \in Nat : m = Len(sent) /\ here = Len(stream)
  BY DEF TypeOK
<1>2. DOMAIN sent = 1..m /\ m \in 1..m /\ i \in 1..m
  BY <1>1 DEF TypeOK
<1>3. PICK ai \in Nat, am \in Nat, at \in Nat :
        ai = After(i) /\ am = After(m) /\ at = sent[m].at /\ at <= am
  BY <1>2, SentFacts
<1>4. i # m => ai <= at
  BY <1>2, <1>3 DEF PacketsInOrder
<1>5. CASE Sending = {}
  <2>1. Complete = m
    BY <1>1, <1>5 DEF Complete
  <2>2. here = am
    BY <1>1, <1>2, <1>3, <1>5 DEF LeftCompletes
  <2>3. i = m => ai = am
    BY <1>3
  <2>4. ai <= here /\ i <= m
    BY <2>2, <2>3, <1>2, <1>3, <1>4
  <2> QED BY <2>1, <2>4, <1>1, <1>3
<1>6. CASE Sending # {}
  <2>1. PICK w \in Sending : TRUE
    BY <1>6
  <2>2. Complete = m - 1
    BY <1>1, <1>6 DEF Complete
  <2>3. PICK l \in Nat : l = Len(left[w]) /\ l # 0
    <3>1. left[w] \in Seq(Byte) /\ left[w] # <<>>
      BY <2>1 DEF Sending, TypeOK
    <3> QED BY <3>1
  <2>4. here > at /\ here + l = am
    BY <2>1, <2>3, <1>1, <1>3 DEF LeftCompletes
  <2> QED BY <2>2, <2>3, <2>4, <1>1, <1>2, <1>3, <1>4
<1> QED BY <1>5, <1>6

\* Where a reader inside a packet is.
LEMMA Inside ==
  ASSUME TypeOK, InsideComing, Len(got) < Len(sent)
  PROVE  /\ Len(got) + 1 \in DOMAIN sent /\ Coming = Pkt(Len(got) + 1)
         /\ Coming \in Packet /\ Dump[Coming.payload] \in Seq(Byte)
         /\ sent[Len(got) + 1].at \in Nat /\ Offset \in Nat /\ ToRead \in Nat
         /\ Offset + ToRead <= Len(encode(Coming))
         /\ step = "payload" => Offset + ToRead = Len(encode(Coming))
         /\ Len(encode(Coming)) = HeaderSize + Len(Dump[Coming.payload])
         /\ DOMAIN encode(Coming) = 1..Len(encode(Coming))
         /\ After(Len(got) + 1) = sent[Len(got) + 1].at + Len(encode(Coming))
<1>1. PICK g \in Nat, m \in Nat : g = Len(got) /\ m = Len(sent)
  BY DEF TypeOK
<1>2. g + 1 \in DOMAIN sent
  <2>1. sent \in Seq([packet : Packet, at : Nat])
    BY DEF TypeOK
  <2>2. DOMAIN sent = 1..m
    BY <2>1, <1>1, LenProperties
  <2> QED BY <2>2, <1>1
<1>3. Coming = Pkt(g + 1)
  BY <1>1 DEF Coming
<1>4. /\ Pkt(g + 1) \in Packet /\ sent[g + 1].at \in Nat
      /\ DOMAIN encode(Pkt(g + 1)) = 1..Len(encode(Pkt(g + 1)))
      /\ After(g + 1) = sent[g + 1].at + Len(encode(Pkt(g + 1)))
  BY <1>2, SentFacts
<1>5. /\ Dump[Coming.payload] \in Seq(Byte)
      /\ Len(encode(Coming)) = HeaderSize + Len(Dump[Coming.payload])
  BY <1>3, <1>4, EncodeParts
<1>6. PICK d \in Nat : d = Len(Dump[Coming.payload])
  BY <1>5
<1>7. /\ Offset \in Nat /\ ToRead \in Nat /\ Offset + ToRead <= 5 + d
      /\ step = "payload" => Offset + ToRead = 5 + d
  <2>1. CASE step = "header"
    BY <2>1, <1>6 DEF Offset, ToRead
  <2>2. CASE step = "payload"
    <3>1. header = [type |-> Coming.type, length |-> Len(Dump[Coming.payload])]
      BY <2>2 DEF InsideComing
    <3>2. header.length = d
      BY <3>1, <1>6
    <3> QED BY <2>2, <3>2 DEF Offset, ToRead
  <2> QED BY <2>1, <2>2 DEF TypeOK
<1> QED BY <1>1, <1>2, <1>3, <1>4, <1>5, <1>6, <1>7

LEMMA EndAligned ==
  ASSUME TypeOK, Aligned, ~damaged, Close \/ Reset
  PROVE  PacketsInOrder' /\ LeftCompletes' /\ ReaderAligned'
<1>1. PacketsInOrder /\ LeftCompletes /\ ReaderAligned
  BY DEF Aligned
<1>2. UNCHANGED <<sending, receiving>> /\ ended' # "open"
  BY DEF Close, Reset
<1>3. PacketsInOrder' /\ LeftCompletes' /\ Complete' = Complete
  BY <1>1, <1>2, SenderHalf
<1>4. ReaderAligned'
  <2>1. AfterEnd => AfterEnd'
    <3>1. AfterEnd => ended # "broken"
      BY DEF Close, Reset
    <3> QED BY <3>1, <1>2, <1>3 DEF AfterEnd, receiving, sending
  <2>2. InsideComing => InsideComing'
    BY <1>2 DEF InsideComing, Offset, Coming, Pkt, receiving, sending
  <2>3. UNCHANGED <<sent, stream, got, taken, step, buffer>>
    BY <1>2 DEF receiving, sending
  <2>4. \A i \in DOMAIN got' : got'[i] = Pkt(i)'
    BY <1>1, <2>3 DEF ReaderAligned, Pkt
  <2> QED BY <1>1, <1>3, <2>1, <2>2, <2>3, <2>4 DEF ReaderAligned
<1> QED BY <1>3, <1>4

\* A reader that reads, or has read something, is inside the coming packet.
LEMMA Within ==
  ASSUME TypeOK, ReaderAligned,
         \/ ended # "broken" /\ taken < Len(stream)
         \/ step = "payload"
         \/ Len(buffer) > 0
  PROVE  Len(got) < Len(sent) /\ InsideComing
<1>1. PICK g \in Nat, m \in Nat, here \in Nat :
        g = Len(got) /\ m = Len(sent) /\ here = Len(stream)
  BY DEF TypeOK
<1>2. ~AfterEnd
  <2>1. AfterEnd => Len(buffer) = 0 /\ step = "header"
    BY DEF AfterEnd
  <2>2. AfterEnd => ended = "broken" \/ taken = Len(stream)
    BY DEF AfterEnd
  <2> QED BY <2>1, <2>2, <1>1 DEF TypeOK
<1>3. g # m
  <2>1. g = m => taken = here /\ step = "header" /\ Len(buffer) = 0
    BY <1>1 DEF ReaderAligned
  <2> QED BY <2>1, <1>1 DEF TypeOK
<1>4. g <= m
  <2>1. Len(got) <= Complete
    BY DEF ReaderAligned
  <2> QED BY <2>1, <1>1 DEF Complete
<1>5. g < m
  BY <1>3, <1>4
<1> QED BY <1>1, <1>2, <1>5 DEF ReaderAligned

LEMMA RecvAligned ==
  ASSUME TypeOK, Aligned, ~damaged, NEW n \in Pieces, Recv(n)
  PROVE  PacketsInOrder' /\ LeftCompletes' /\ ReaderAligned'
<1>1. PacketsInOrder /\ LeftCompletes /\ ReaderAligned
  BY DEF Aligned
<1>2. UNCHANGED <<sending, ended, step, header, got>>
  BY DEF Recv
<1>3. PacketsInOrder' /\ LeftCompletes' /\ Complete' = Complete
  BY <1>1, <1>2, SenderHalf
<1>4. PICK t \in Nat, here \in Nat, b \in Nat, g \in Nat, r \in Nat :
        t = taken /\ here = Len(stream) /\ b = Len(buffer) /\ g = Len(got) /\ r = ToRead
  <2>1. header.length \in Nat
    BY DEF TypeOK
  <2>2. ToRead \in Nat
    BY <2>1 DEF ToRead
  <2>3. taken \in Nat /\ Len(stream) \in Nat /\ Len(buffer) \in Nat /\ Len(got) \in Nat
    BY DEF TypeOK
  <2> QED BY <2>2, <2>3
<1>5. n \in Nat \ {0} /\ b + n <= r /\ t + n <= here
  BY <1>4, FramingAssumption DEF Recv, ReadMax
<1>6. Len(got) < Len(sent) /\ InsideComing
  BY <1>1, <1>4, <1>5, Within DEF Recv
<1>7. PICK at \in Nat, o \in Nat, e \in Nat :
        at = sent[g + 1].at /\ o = Offset /\ e = Len(encode(Coming))
  BY <1>4, <1>6, Inside
<1>8. o + r <= e /\ t = at + o + b
  BY <1>4, <1>6, <1>7, Inside DEF InsideComing
<1> DEFINE s == SubSeq(stream, taken + 1, taken + n)
<1>9. s \in Seq(Byte) /\ Len(s) = n /\ \A k \in 1..n : s[k] = stream[t + k]
  BY <1>4, <1>5, PieceOf DEF TypeOK
<1>10. buffer' = buffer \o s /\ taken' = t + n
  BY <1>4 DEF Recv
<1> HIDE DEF s
<1>11. buffer \in Seq(Byte)
  BY DEF TypeOK
<1>12. /\ buffer \o s \in Seq(Byte)
       /\ Len(buffer \o s) = Len(buffer) + Len(s)
       /\ \A k \in 1..Len(buffer) : (buffer \o s)[k] = buffer[k]
       /\ \A k \in 1..Len(s) : (buffer \o s)[Len(buffer) + k] = s[k]
  <2>1. s \in Seq(Byte)
    BY <1>9
  <2> QED BY <2>1, <1>11, ConcatAt
<1>13. Len(buffer') = b + n /\ DOMAIN buffer' = 1..b + n
  BY <1>4, <1>9, <1>10, <1>12
<1>14. ASSUME NEW k \in 1..b + n PROVE buffer'[k] = encode(Coming)[o + k]
  <2>1. CASE k <= b
    <3>1. k \in 1..b
      BY <2>1
    <3>2. k \in DOMAIN buffer
      BY <3>1, <1>4, <1>11
    <3>3. buffer[k] = encode(Coming)[o + k]
      BY <3>2, <1>6, <1>7 DEF InsideComing
    <3> QED BY <3>1, <3>3, <1>4, <1>10, <1>12
  <2>2. CASE k > b
    <3>1. PICK j \in 1..n : k = b + j
      <4>1. k - b \in 1..n /\ k = b + (k - b)
        BY <2>2, <1>5
      <4> QED BY <4>1
    <3>2. buffer'[k] = stream[t + j]
      BY <3>1, <1>4, <1>9, <1>10, <1>12
    <3>3. t + j = at + (o + k) /\ t + j <= here /\ o + k \in 1..e
      BY <3>1, <1>5, <1>8
    <3>4. stream[at + (o + k)] = encode(Coming)[o + k]
      <4>1. g + 1 \in DOMAIN sent /\ Coming = Pkt(g + 1) /\ DOMAIN encode(Coming) = 1..e
        BY <1>4, <1>6, <1>7, Inside
      <4>2. o + k \in DOMAIN encode(Pkt(g + 1)) /\ sent[g + 1].at + (o + k) <= Len(stream)
        BY <4>1, <3>3, <1>4, <1>7
      <4> QED BY <4>1, <4>2, <1>1, <1>7 DEF PacketsInOrder
    <3> QED BY <3>2, <3>3, <3>4
  <2> QED BY <2>1, <2>2
<1>15. /\ Coming' = Coming /\ Offset' = Offset /\ sent' = sent
       /\ Len(got)' = g /\ Len(sent)' = Len(sent)
  BY <1>2, <1>4 DEF Coming, Pkt, Offset, sending
<1>16. InsideComing'
  <2>1. taken' = sent'[Len(got)' + 1].at + Offset' + Len(buffer')
    <3>1. sent'[Len(got)' + 1].at = at
      BY <1>7, <1>15
    <3>2. Offset' = o /\ Len(buffer') = b + n
      BY <1>7, <1>13, <1>15
    <3>3. t + n = at + o + (b + n)
      BY <1>5, <1>8
    <3> QED BY <3>1, <3>2, <3>3, <1>10
  <2>2. \A k \in DOMAIN buffer' : buffer'[k] = encode(Coming')[Offset' + k]
    BY <1>7, <1>13, <1>14, <1>15
  <2>3. step' = "payload" =>
          header' = [type |-> Coming'.type, length |-> Len(Dump[Coming'.payload])]
    BY <1>2, <1>6, <1>15 DEF InsideComing
  <2> QED BY <2>1, <2>2, <2>3 DEF InsideComing
<1>17. ReaderAligned'
  <2>1. \A i \in DOMAIN got' : got'[i] = Pkt(i)'
    BY <1>1, <1>2 DEF ReaderAligned, Pkt, sending
  <2>2. Len(got)' <= Complete' /\ Len(got)' # Len(sent)'
    BY <1>1, <1>3, <1>4, <1>6, <1>15 DEF ReaderAligned
  <2> QED BY <2>1, <2>2, <1>16 DEF ReaderAligned
<1> QED BY <1>3, <1>17

LEMMA HeaderAligned ==
  ASSUME TypeOK, Aligned, ~damaged, decodeHeader
  PROVE  PacketsInOrder' /\ LeftCompletes' /\ ReaderAligned' /\ outcome' = outcome
<1>1. PacketsInOrder /\ LeftCompletes /\ ReaderAligned
  BY DEF Aligned
<1>2. UNCHANGED <<sending, ended, taken, got>>
  BY DEF decodeHeader
<1>3. PacketsInOrder' /\ LeftCompletes' /\ Complete' = Complete
  BY <1>1, <1>2, SenderHalf
<1>4. Len(buffer) = 5 /\ step = "header" /\ buffer \in Seq(Byte)
  <2>1. PICK b \in Nat : b = Len(buffer)
    BY DEF TypeOK
  <2> QED BY <2>1 DEF decodeHeader, Reading, ToRead, TypeOK
<1>5. Len(got) < Len(sent) /\ InsideComing
  BY <1>1, <1>4, Within
<1>6. PICK g \in Nat, at \in Nat, d \in Nat, t \in Nat :
        /\ g = Len(got) /\ at = sent[g + 1].at /\ d = Len(Dump[Coming.payload])
        /\ t = taken
  <2>1. PICK g \in Nat, t \in Nat : g = Len(got) /\ t = taken
    BY DEF TypeOK
  <2>2. sent[g + 1].at \in Nat /\ Dump[Coming.payload] \in Seq(Byte)
    BY <2>1, <1>5, Inside
  <2>3. Len(Dump[Coming.payload]) \in Nat
    BY <2>2
  <2> QED BY <2>1, <2>2, <2>3
<1>7. Offset = 0 /\ t = at + 5 /\ \A k \in 1..5 : buffer[k] = encode(Coming)[k]
  <2>1. Offset = 0
    BY <1>4 DEF Offset
  <2>2. DOMAIN buffer = 1..5
    BY <1>4
  <2>3. \A k \in 1..5 : 0 + k = k
    OBVIOUS
  <2> QED BY <2>1, <2>2, <2>3, <1>4, <1>5, <1>6 DEF InsideComing
<1>8. /\ Coming \in Packet /\ encode(Coming)[1] = Coming.type
      /\ \A k \in 1..4 : encode(Coming)[1 + k] = LengthBytes(d)[k]
      /\ FitsLength(d)
  <2>1. Coming \in Packet
    BY <1>5, Inside
  <2>2. FitsLength(d)
    BY <2>1, <1>6, FramingAssumption DEF Packet
  <2> QED BY <2>1, <2>2, <1>6, EncodeParts
<1>9. isValidType(buffer[1]) /\ buffer[1] = Coming.type
  <2>1. PICK ty : ty = Coming.type
    OBVIOUS
  <2>2. ty \in Types /\ Types \subseteq 0..(SizeGuard - 1) /\ SizeGuard \in 0..255
    BY <2>1, <1>8, FramingAssumption DEF Packet, Byte
  <2>3. ty < SizeGuard
    BY <2>2
  <2>4. buffer[1] = ty
    BY <2>1, <1>7, <1>8
  <2> QED BY <2>1, <2>3, <2>4 DEF isValidType
<1>10. spanToUint32(SubSeq(buffer, 2, HeaderSize)) = d
  <2>1. \A k \in 1..4 : SubSeq(buffer, 2, HeaderSize)[k] = buffer[1 + k]
    BY <1>4, PieceOf
  <2>2. \A k \in 1..4 : SubSeq(buffer, 2, HeaderSize)[k] = LengthBytes(d)[k]
    BY <2>1, <1>7, <1>8
  <2>3. spanToUint32(SubSeq(buffer, 2, HeaderSize)) = spanToUint32(LengthBytes(d))
    BY <2>2 DEF spanToUint32
  <2> QED BY <2>3, <1>8, LengthRoundTrip
<1>11. /\ step' = "payload" /\ buffer' = <<>> /\ outcome' = outcome
       /\ header' = [type |-> Coming.type, length |-> d]
  BY <1>9, <1>10 DEF decodeHeader
<1>12. /\ Coming' = Coming /\ sent' = sent
       /\ Len(got)' = g /\ Len(sent)' = Len(sent)
  BY <1>2, <1>6 DEF Coming, Pkt, sending
<1>13. InsideComing'
  <2>1. Offset' = 5 /\ Len(buffer') = 0 /\ DOMAIN buffer' = {}
    BY <1>11 DEF Offset
  <2>2. taken' = sent'[Len(got)' + 1].at + Offset' + Len(buffer')
    BY <2>1, <1>2, <1>6, <1>7, <1>12
  <2>3. header' = [type |-> Coming'.type, length |-> Len(Dump[Coming'.payload])]
    BY <1>6, <1>11, <1>12
  <2> QED BY <2>1, <2>2, <2>3 DEF InsideComing
<1>14. ReaderAligned'
  <2>1. \A i \in DOMAIN got' : got'[i] = Pkt(i)'
    BY <1>1, <1>2 DEF ReaderAligned, Pkt, sending
  <2>2. Len(got)' <= Complete' /\ Len(got)' # Len(sent)'
    BY <1>1, <1>3, <1>5, <1>6, <1>12 DEF ReaderAligned
  <2> QED BY <2>1, <2>2, <1>13 DEF ReaderAligned
<1> QED BY <1>3, <1>11, <1>14

\* Reading a payload to its end returns the coming packet.
LEMMA PayloadAligned ==
  ASSUME TypeOK, Aligned, ~damaged, decodePayload
  PROVE  /\ PacketsInOrder' /\ LeftCompletes' /\ ReaderAligned'
         /\ Len(got) < Complete
         /\ got' = Append(got, Pkt(Len(got) + 1)) /\ outcome' = "packet"
<1>1. PacketsInOrder /\ LeftCompletes /\ ReaderAligned
  BY DEF Aligned
<1>2. UNCHANGED <<sending, ended, taken>> /\ step = "payload" /\ ~Reading
  BY DEF decodePayload
<1>3. PacketsInOrder' /\ LeftCompletes' /\ Complete' = Complete /\ Len(sent)' = Len(sent)
  BY <1>1, <1>2, SenderHalf
<1>4. Len(got) < Len(sent) /\ InsideComing
  BY <1>1, <1>2, Within
<1>5. PICK g \in Nat, m \in Nat, here \in Nat, t \in Nat :
        g = Len(got) /\ m = Len(sent) /\ here = Len(stream) /\ t = taken
  BY DEF TypeOK
<1>6. /\ g + 1 \in DOMAIN sent /\ Coming = Pkt(g + 1) /\ Coming \in Packet
      /\ Dump[Coming.payload] \in Seq(Byte)
      /\ Len(encode(Coming)) = HeaderSize + Len(Dump[Coming.payload])
      /\ After(g + 1) = sent[g + 1].at + Len(encode(Coming))
      /\ sent[g + 1].at \in Nat
  BY <1>4, <1>5, Inside
<1>7. PICK at \in Nat, d \in Nat : at = sent[g + 1].at /\ d = Len(Dump[Coming.payload])
  <2>1. Len(Dump[Coming.payload]) \in Nat
    BY <1>6
  <2> QED BY <2>1, <1>6
<1>8. header = [type |-> Coming.type, length |-> d]
  BY <1>2, <1>4, <1>7 DEF InsideComing
<1>9. Len(buffer) = d /\ buffer \in Seq(Byte)
  <2>1. ToRead = d
    BY <1>2, <1>8 DEF ToRead
  <2>2. PICK b \in Nat : b = Len(buffer)
    BY DEF TypeOK
  <2> QED BY <2>1, <2>2, <1>2 DEF Reading, TypeOK
<1>10. buffer = Dump[Coming.payload]
  <2>1. ASSUME NEW k \in 1..d PROVE buffer[k] = Dump[Coming.payload][k]
    <3>1. k \in DOMAIN buffer
      BY <1>9
    <3>2. buffer[k] = encode(Coming)[5 + k]
      BY <3>1, <1>2, <1>4 DEF InsideComing, Offset
    <3> QED BY <3>2, <1>6, <1>7, EncodeParts
  <2>2. DOMAIN buffer = 1..d /\ DOMAIN Dump[Coming.payload] = 1..d
    BY <1>6, <1>7, <1>9
  <2>3. PICK x : x = Dump[Coming.payload]
    OBVIOUS
  <2>4. x \in Seq(Byte) /\ Len(x) = d /\ \A k \in 1..d : buffer[k] = x[k]
    BY <2>1, <2>3, <1>6, <1>7
  <2>5. x = buffer
    BY <2>4, <1>9, SeqEqual
  <2> QED BY <2>3, <2>5
<1>11. PICK y \in Payloads : y = Coming.payload
  BY <1>6 DEF Packet
<1>12. Parses(buffer) /\ Parse(buffer) = y
  <2>1. Dump[y] = buffer
    BY <1>10, <1>11
  <2>2. \A x \in Payloads : Dump[x] = buffer => x = y
    BY <2>1, FramingAssumption
  <2> QED BY <2>1, <2>2 DEF Parses, Parse
<1>13. /\ got' = Append(got, Coming) /\ outcome' = "packet"
       /\ step' = "header" /\ buffer' = <<>>
  <2>1. Coming = [type |-> Coming.type, payload |-> Coming.payload]
    BY <1>6 DEF Packet
  <2>2. got' = Append(got, [type |-> header.type, payload |-> Parse(buffer)])
        /\ Return("packet")
    BY <1>12 DEF decodePayload
  <2>3. header.type = Coming.type
    BY <1>8
  <2> QED BY <2>1, <2>2, <2>3, <1>11, <1>12 DEF Return
<1>14. After(g + 1) = t /\ t <= here
  <2>1. taken = sent[g + 1].at + 5 + Len(buffer)
    BY <1>2, <1>4, <1>5 DEF InsideComing, Offset
  <2>2. t = at + 5 + d /\ After(g + 1) = at + (5 + d)
    BY <2>1, <1>5, <1>6, <1>7, <1>9
  <2> QED BY <2>2, <1>5 DEF TypeOK
<1>15. g + 1 <= Complete /\ g < Complete
  <2>1. After(g + 1) <= Len(stream)
    BY <1>5, <1>14
  <2>2. g + 1 <= Complete
    BY <2>1, <1>1, <1>6, Positions
  <2>3. Complete \in {m, m - 1}
    BY <1>5 DEF Complete
  <2> QED BY <2>2, <2>3
<1>16. /\ Len(got') = g + 1 /\ DOMAIN got' = 1..g + 1 /\ got'[g + 1] = Coming
       /\ \A i \in 1..g : got'[i] = got[i]
       /\ DOMAIN got = 1..g
  <2> DEFINE E == [type : Byte, payload : Payloads]
  <2>1. got \in Seq(E) /\ got' = Append(got, Coming)
    BY <1>13 DEF TypeOK
  <2> HIDE DEF E
  <2> QED BY <2>1, <1>5
<1>17. ReaderAligned'
  <2>1. \A i \in DOMAIN got' : got'[i] = Pkt(i)'
    <3>1. sent' = sent
      BY <1>2 DEF sending
    <3>2. \A i \in DOMAIN got : got[i] = Pkt(i)
      BY <1>1 DEF ReaderAligned
    <3>3. ASSUME NEW i \in 1..g + 1 PROVE got'[i] = sent[i].packet
      <4>1. CASE i \in 1..g
        BY <4>1, <3>2, <1>16 DEF Pkt
      <4>2. CASE i = g + 1
        BY <4>2, <1>6, <1>16 DEF Pkt
      <4> QED BY <4>1, <4>2
    <3> QED BY <3>1, <3>3, <1>16 DEF Pkt
  <2>2. Len(got)' <= Complete'
    BY <1>3, <1>15, <1>16
  <2>3. CASE g + 1 = m
    <3>1. Sending = {}
      BY <2>3, <1>5, <1>15 DEF Complete
    <3>2. here = After(m)
      BY <3>1, <1>1, <1>4, <1>5 DEF LeftCompletes
    <3>3. taken' = Len(stream)'
      BY <3>2, <2>3, <1>2, <1>5, <1>14 DEF sending
    <3> QED BY <3>3, <2>1, <2>2, <2>3, <1>3, <1>5, <1>13, <1>16 DEF ReaderAligned
  <2>4. CASE g + 1 # m
    <3>1. g + 2 \in DOMAIN sent /\ (g + 2) = (g + 1) + 1
      <4>1. sent \in Seq([packet : Packet, at : Nat])
        BY DEF TypeOK
      <4>2. DOMAIN sent = 1..m
        BY <4>1, <1>5, LenProperties
      <4>3. g < m
        BY <1>4, <1>5
      <4>4. g + 2 \in 1..m /\ g + 2 = (g + 1) + 1
        BY <4>3, <2>4
      <4> QED BY <4>2, <4>4
    <3>2. sent[g + 2].at = t
      BY <3>1, <1>1, <1>6, <1>14 DEF PacketsInOrder
    <3>3. taken' = sent'[Len(got)' + 1].at + Offset' + Len(buffer')
      <4>1. Offset' = 0 /\ Len(buffer') = 0
        BY <1>13 DEF Offset
      <4>2. sent'[Len(got)' + 1].at = t
        <5>1. Len(got)' + 1 = g + 2
          BY <1>16
        <5> QED BY <5>1, <3>2, <1>2 DEF sending
      <4> QED BY <4>1, <4>2, <1>2, <1>5
    <3>4. InsideComing'
      BY <3>3, <1>13 DEF InsideComing
    <3>5. Len(got)' # Len(sent)'
      BY <2>4, <1>3, <1>5, <1>16
    <3> QED BY <3>4, <3>5, <2>1, <2>2 DEF ReaderAligned
  <2> QED BY <2>3, <2>4
<1> QED BY <1>3, <1>5, <1>6, <1>13, <1>15, <1>17

\* An end, a failure or a timeout leaves what was received as it is; an end
\* comes after everything that is complete.
LEMMA StopAligned ==
  ASSUME TypeOK, Aligned, ~damaged, ~damaged', RecvEnd \/ RecvFails \/ RecvTimesOut
  PROVE  /\ PacketsInOrder' /\ LeftCompletes' /\ ReaderAligned'
         /\ RecvEnd => Len(got) = Complete
<1>1. PacketsInOrder /\ LeftCompletes /\ ReaderAligned
  BY DEF Aligned
<1>2. UNCHANGED <<sending, taken, got>>
  BY DEF RecvEnd, RecvFails, RecvTimesOut
<1>3. PacketsInOrder' /\ LeftCompletes' /\ Complete' = Complete /\ Len(sent)' = Len(sent)
  BY <1>1, <1>2, SenderHalf
<1>4. step' = "header" /\ buffer' = <<>> /\ Reading
  BY DEF RecvEnd, RecvFails, RecvTimesOut, Return
<1>5. \A i \in DOMAIN got' : got'[i] = Pkt(i)'
  BY <1>1, <1>2 DEF ReaderAligned, Pkt, sending
<1>6. PICK g \in Nat, m \in Nat, here \in Nat, t \in Nat :
        g = Len(got) /\ m = Len(sent) /\ here = Len(stream) /\ t = taken
  BY DEF TypeOK
<1>7. g <= Complete /\ Complete \in {m, m - 1}
  BY <1>1, <1>6 DEF ReaderAligned, Complete
<1>8. g = m => t = here
  BY <1>1, <1>6 DEF ReaderAligned
<1>9. g = m \/ g < m
  BY <1>7
<1>10. RecvEnd => g = Complete
  <2>1. SUFFICES ASSUME RecvEnd, g < m, g # Complete PROVE FALSE
    BY <1>7, <1>9
  <2>2. t = here /\ ended = "shut"
    BY <2>1, <1>6 DEF RecvEnd
  <2>3. InsideComing
    BY <2>1, <2>2, <1>1, <1>6 DEF ReaderAligned, AfterEnd
  <2>4. PICK at \in Nat, o \in Nat, r \in Nat, e \in Nat :
          /\ at = sent[g + 1].at /\ o = Offset /\ r = ToRead /\ e = Len(encode(Coming))
          /\ o + r <= e /\ After(g + 1) = at + e /\ g + 1 \in DOMAIN sent
    <3>1. Len(encode(Coming)) = HeaderSize + Len(Dump[Coming.payload])
          /\ Dump[Coming.payload] \in Seq(Byte)
      BY <2>1, <2>3, <1>6, Inside
    <3>2. Len(encode(Coming)) \in Nat
      BY <3>1
    <3>3. /\ sent[g + 1].at \in Nat /\ Offset \in Nat /\ ToRead \in Nat
          /\ Offset + ToRead <= Len(encode(Coming)) /\ g + 1 \in DOMAIN sent
          /\ After(g + 1) = sent[g + 1].at + Len(encode(Coming))
      BY <2>1, <2>3, <1>6, Inside
    <3> QED BY <3>2, <3>3
  <2>5. PICK b \in Nat : b = Len(buffer) /\ b < r
    BY <2>4, <1>4 DEF Reading, TypeOK
  <2>6. t = at + o + b
    BY <2>3, <2>4, <2>5, <1>6 DEF InsideComing
  <2>7. After(g + 1) > Len(stream)
    <3>1. at + e > at + o + b
      BY <2>4, <2>5
    <3> QED BY <3>1, <2>2, <2>4, <2>6, <1>6
  <2>8. g + 1 <= Complete
    BY <2>1, <1>7
  <2>9. After(g + 1) <= Len(stream)
    BY <2>4, <2>8, <1>1, Positions
  <2> QED BY <2>7, <2>9, <2>4, <1>6
<1>11. g < m => InsideComing' \/ AfterEnd'
  <2>1. SUFFICES ASSUME g < m PROVE InsideComing' \/ AfterEnd'
    OBVIOUS
  <2>2. CASE RecvEnd
    <3>1. ended' # "open" /\ taken' = Len(stream)'
      BY <2>2, <1>2 DEF RecvEnd, sending
    <3>2. Len(got)' = Complete'
      BY <2>2, <1>2, <1>3, <1>6, <1>10
    <3> QED BY <3>1, <3>2, <1>4 DEF AfterEnd
  <2>3. CASE RecvFails
    BY <2>3, <1>4 DEF RecvFails, AfterEnd
  <2>4. CASE RecvTimesOut
    <3>1. step = "header" /\ buffer = <<>> /\ ended = "open"
      BY <2>4 DEF RecvTimesOut, TypeOK
    <3>2. InsideComing
      BY <2>1, <3>1, <1>1, <1>6 DEF ReaderAligned, AfterEnd
    <3>3. Offset' = Offset /\ buffer' = buffer
      BY <3>1, <1>4 DEF Offset
    <3>4. Coming' = Coming /\ sent' = sent /\ taken' = taken /\ got' = got
      BY <1>2 DEF Coming, Pkt, sending
    <3> QED BY <3>2, <3>3, <3>4, <1>4 DEF InsideComing
  <2> QED BY <2>2, <2>3, <2>4
<1>12. ReaderAligned'
  <2>1. Len(got)' = g /\ Len(sent)' = m
    BY <1>2, <1>3, <1>6
  <2>2. g = m => taken' = Len(stream)'
    BY <1>2, <1>6, <1>8 DEF sending
  <2> QED BY <2>1, <2>2, <1>3, <1>4, <1>5, <1>7, <1>11 DEF ReaderAligned
<1> QED BY <1>3, <1>6, <1>10, <1>12

-----------------------------------------------------------------------------
(* The invariant *)

LEMMA AlignedStep ==
  ASSUME TypeOK, TypeOK', Aligned, [Next]_vars
  PROVE  Aligned'
<1> SUFFICES ASSUME ~damaged' PROVE PacketsInOrder' /\ LeftCompletes' /\ ReaderAligned'
  BY DEF Aligned
<1>1. ~damaged
  BY NeverRepaired
<1>2. ASSUME NEW w \in Writer, NEW p \in Packet, NEW n \in Pieces, Send(w, p, n)
      PROVE  PacketsInOrder' /\ LeftCompletes' /\ ReaderAligned'
  BY <1>1, <1>2, SendAligned
<1>3. ASSUME NEW w \in Writer, NEW n \in Pieces, SendRest(w, n)
      PROVE  PacketsInOrder' /\ LeftCompletes' /\ ReaderAligned'
  BY <1>1, <1>3, SendRestAligned
<1>4. CASE Close \/ Reset
  BY <1>1, <1>4, EndAligned
<1>5. ASSUME NEW n \in Pieces, Recv(n)
      PROVE  PacketsInOrder' /\ LeftCompletes' /\ ReaderAligned'
  BY <1>1, <1>5, RecvAligned
<1>6. CASE decodeHeader
  BY <1>1, <1>6, HeaderAligned
<1>7. CASE decodePayload
  BY <1>1, <1>7, PayloadAligned
<1>8. CASE RecvEnd \/ RecvFails \/ RecvTimesOut
  BY <1>1, <1>8, StopAligned
<1>9. CASE UNCHANGED vars
  <2>1. UNCHANGED <<sending, receiving, ended>>
    BY <1>9 DEF vars, sending
  <2>2. PacketsInOrder /\ LeftCompletes /\ ReaderAligned
    BY <1>1 DEF Aligned
  <2>3. PacketsInOrder' /\ LeftCompletes' /\ Complete' = Complete
    BY <2>1, <2>2, SenderHalf
  <2>4. AfterEnd' <=> AfterEnd
    BY <2>1, <2>3 DEF AfterEnd, sending, receiving
  <2>5. InsideComing' <=> InsideComing
    BY <2>1 DEF InsideComing, Offset, Coming, Pkt, sending, receiving
  <2>6. UNCHANGED <<sent, stream, got, taken, step, buffer>>
    BY <2>1 DEF sending, receiving
  <2>7. \A i \in DOMAIN got' : got'[i] = Pkt(i)'
    BY <2>2, <2>6 DEF ReaderAligned, Pkt
  <2> QED BY <2>2, <2>3, <2>4, <2>5, <2>6, <2>7 DEF ReaderAligned
<1> QED
  BY <1>2, <1>3, <1>4, <1>5, <1>6, <1>7, <1>8, <1>9 DEF Next, Sender, Receive

\* As long as no two packets overlap and no timeout cuts one, both ends agree
\* on where the packets begin, however the kernel cuts the bytes.
THEOREM FramingInvariance == Spec => []Aligned
<1>1. TypeOK /\ Aligned /\ [Next]_vars => TypeOK' /\ Aligned'
  BY TypeStep, AlignedStep
<1> QED BY <1>1, InitTypeOK, InitAligned, PTL DEF Spec

-----------------------------------------------------------------------------
(* The refinement *)

\* A reader that was told of a broken connection has forgotten what it had read.
BrokenIdle == ended = "broken" => step = "header" /\ buffer = <<>>

LEMMA BrokenIdleStep ==
  ASSUME BrokenIdle, [Next]_vars
  PROVE  BrokenIdle'
<1>1. CASE Sender \/ Close \/ Reset
  BY <1>1 DEF Sender, Send, SendRest, Close, Reset, BrokenIdle, receiving
<1>2. CASE Receive
  <2>1. ended' = ended
    BY <1>2 DEF Receive, Recv, decodeHeader, decodePayload
  <2>2. ended # "broken"
    <3>1. ended = "broken" => Reading
      BY DEF BrokenIdle, Reading, ToRead
    <3> QED BY <3>1, <1>2 DEF Receive, Recv, decodeHeader, decodePayload, BrokenIdle
  <2> QED BY <2>1, <2>2 DEF BrokenIdle
<1>3. CASE RecvEnd \/ RecvFails \/ RecvTimesOut
  BY <1>3 DEF RecvEnd, RecvFails, RecvTimesOut, Return, BrokenIdle
<1>4. CASE UNCHANGED vars
  BY <1>4 DEF vars, receiving, BrokenIdle
<1> QED BY <1>1, <1>2, <1>3, <1>4 DEF Next

Packets == [i \in DOMAIN sent |-> sent[i].packet]

LEMMA PacketsFacts ==
  ASSUME TypeOK
  PROVE  /\ Len(Packets) = Len(sent) /\ DOMAIN Packets = 1..Len(sent)
         /\ \A i \in DOMAIN sent : Packets[i] = Pkt(i)
         /\ Queue!Complete = Complete
<1>1. PICK m \in Nat : m = Len(sent) /\ DOMAIN sent = 1..m
  BY DEF TypeOK
<1>2. Packets = [i \in 1..m |-> sent[i].packet]
  BY <1>1 DEF Packets
<1>3. Len(Packets) = m /\ DOMAIN Packets = 1..m
  BY <1>2
<1>4. Queue!Complete = IF Sending = {} THEN Len(Packets) ELSE Len(Packets) - 1
  BY DEF Queue!Complete, Packets
<1> QED BY <1>1, <1>2, <1>3, <1>4 DEF Pkt, Complete

LEMMA QueueStep ==
  ASSUME TypeOK, TypeOK', Aligned, BrokenIdle, [Next]_vars
  PROVE  [Queue!Next]_(Queue!vars)
<1> USE DEF Queue!Next
<1>1. ASSUME NEW w \in Writer, NEW p \in Packet, NEW n \in Pieces, Send(w, p, n)
      PROVE  Queue!Send
  <2> DEFINE E == [packet : Packet, at : Nat]
             e == [packet |-> p, at |-> Len(stream)]
  <2>1. sent \in Seq(E) /\ sent' = Append(sent, e)
    BY <1>1 DEF Send, TypeOK
  <2> HIDE DEF E, e
  <2>2. PICK m \in Nat : m = Len(sent)
    BY <2>1
  <2>3. Len(sent') = m + 1 /\ \A i \in 1..m : sent'[i] = sent[i]
    BY <2>1, <2>2
  <2>4. /\ Packets = [i \in 1..m |-> sent[i].packet]
        /\ Packets' = [i \in 1..m + 1 |-> sent'[i].packet]
    <3>1. DOMAIN sent = 1..m /\ DOMAIN sent' = 1..m + 1
      BY <2>1, <2>2
    <3> QED BY <3>1 DEF Packets
  <2>5. Len(Packets') = Len(Packets) + 1
    BY <2>4
  <2>6. Packets = SubSeq(Packets', 1, Len(Packets))
    <3>1. SubSeq(Packets', 1, Len(Packets)) = [i \in 1..m |-> Packets'[i]]
      BY <2>4
    <3>2. \A i \in 1..m : Packets'[i] = Packets[i]
      BY <2>3, <2>4
    <3> QED BY <3>1, <3>2, <2>4
  <2>7. /\ Sending = {} => damaged' = damaged
        /\ Sending # {} => damaged'
    BY <1>1 DEF Send, Write, Sending, TypeOK
  <2>8. ended = "open" /\ UNCHANGED <<got, outcome, ended>>
    BY <1>1 DEF Send, receiving
  <2> QED BY <2>5, <2>6, <2>7, <2>8 DEF Queue!Send, Packets
<1>2. ASSUME NEW w \in Writer, NEW n \in Pieces, SendRest(w, n)
      PROVE  Queue!GoOn
  <2>1. Sending # {}
    BY <1>2 DEF SendRest, Sending
  <2>2. damaged => damaged'
    BY <1>2 DEF SendRest, Write
  <2>3. ended = "open" /\ UNCHANGED <<sent, got, outcome, ended>>
    BY <1>2 DEF SendRest, receiving
  <2> QED BY <2>1, <2>2, <2>3 DEF Queue!GoOn
<1>3. CASE Close
  BY <1>3 DEF Close, Queue!Close, sending, receiving, Sending
<1>4. CASE Reset
  BY <1>4 DEF Reset, Queue!Reset, sending, receiving, Sending
<1>5. ASSUME NEW n \in Pieces, Recv(n)
      PROVE  UNCHANGED Queue!vars
  BY <1>5 DEF Recv, Queue!vars, sending, Sending
<1>6. CASE decodeHeader
  <2>1. UNCHANGED <<sending, ended, got, damaged>>
    BY <1>6 DEF decodeHeader
  <2>2. ~damaged => outcome' = outcome
    BY <1>6, HeaderAligned
  <2>3. CASE damaged
    BY <2>1, <2>3 DEF Queue!Anything, sending, Sending
  <2>4. CASE ~damaged
    BY <2>1, <2>2, <2>4 DEF Queue!vars, sending, Sending
  <2> QED BY <2>3, <2>4
<1>7. CASE decodePayload
  <2>1. UNCHANGED <<sending, ended, damaged>>
    BY <1>7 DEF decodePayload
  <2>2. CASE damaged
    BY <2>1, <2>2 DEF Queue!Anything, sending, Sending
  <2>3. CASE ~damaged
    <3>1. Len(got) < Complete /\ outcome' = "packet"
          /\ got' = Append(got, Pkt(Len(got) + 1))
      BY <1>7, <2>3, PayloadAligned
    <3>2. ended # "broken"
      BY <1>7 DEF decodePayload, BrokenIdle
    <3>3. Pkt(Len(got) + 1) = Packets[Len(got) + 1]
      <4>1. PICK g \in Nat, m \in Nat : g = Len(got) /\ m = Len(sent) /\ DOMAIN sent = 1..m
        BY DEF TypeOK
      <4>2. g + 1 \in 1..m
        BY <3>1, <4>1 DEF Complete
      <4> QED BY <4>1, <4>2, PacketsFacts
    <3>4. Queue!Complete = Complete
      BY PacketsFacts
    <3> QED BY <2>1, <3>1, <3>2, <3>3, <3>4
            DEF Queue!Receive, Packets, sending, Sending
  <2> QED BY <2>2, <2>3
<1>8. CASE RecvEnd
  <2>1. UNCHANGED <<sending, ended, got, damaged>> /\ ended = "shut"
        /\ outcome' = "CloseConnection"
    BY <1>8 DEF RecvEnd, Return
  <2>2. CASE damaged
    BY <2>1, <2>2 DEF Queue!Anything, sending, Sending
  <2>3. CASE ~damaged
    <3>1. Len(got) = Queue!Complete
      BY <1>8, <2>1, <2>3, StopAligned, PacketsFacts
    <3> QED BY <2>1, <3>1 DEF Queue!End, sending, Sending
  <2> QED BY <2>2, <2>3
<1>9. CASE RecvFails
  BY <1>9 DEF RecvFails, Return, Queue!Fail, sending, Sending
<1>10. CASE RecvTimesOut
  BY <1>10 DEF RecvTimesOut, Return, Queue!TimeOut, sending, Sending
<1>11. CASE UNCHANGED vars
  BY <1>11 DEF vars, receiving, Queue!vars, Sending
<1> QED
  BY <1>1, <1>2, <1>3, <1>4, <1>5, <1>6, <1>7, <1>8, <1>9, <1>10, <1>11
  DEF Next, Sender, Receive

\* Sockets deliver packets in order, whole and once, and an end only after the
\* last of them: for any senders, texts and pieces.
THEOREM ImplementsQueue == Spec => QueueSpec
<1>1. Init => Queue!Init
  <2> SUFFICES ASSUME Init PROVE Queue!Init
    OBVIOUS
  <2>1. sent = <<>> /\ Sending = {}
    BY DEF Init, Sending
  <2>2. [i \in DOMAIN sent |-> sent[i].packet] = <<>>
    BY <2>1
  <2> QED BY <2>1, <2>2 DEF Init, Queue!Init
<1>2. Init => BrokenIdle
  BY DEF Init, BrokenIdle
<1>3. BrokenIdle /\ [Next]_vars => BrokenIdle'
  BY BrokenIdleStep
<1>4. TypeOK /\ TypeOK' /\ Aligned /\ BrokenIdle /\ [Next]_vars
        => [Queue!Next]_(Queue!vars)
  BY QueueStep
<1> QED
  BY <1>1, <1>2, <1>3, <1>4, FramingTypeCorrect, FramingInvariance, PTL
  DEF Spec, QueueSpec, Queue!Spec
=============================================================================
