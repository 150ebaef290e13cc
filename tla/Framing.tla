------------------------------- MODULE Framing -------------------------------
(***************************************************************************)
(* One direction of a TCP connection between two TcpSockets: encode and    *)
(* the ::send loop of TcpSocket::send on one end, the recv loop of         *)
(* readExact and the two halves of TcpSocket::receive on the other         *)
(* (src/src/network/socket.cpp, packet.cpp).                               *)
(*                                                                         *)
(* A packet is a type byte, four bytes of length and the text of a JSON    *)
(* value.  The kernel accepts and delivers the bytes in pieces of any      *)
(* size.  Several threads may send on one socket: at the TTP a requester's *)
(* thread and the threads of services write to the same client.            *)
(***************************************************************************)
EXTENDS Naturals, Sequences

CONSTANTS
  Writer,      \* the threads that may send on this end
  Payloads,    \* JSON values
  Dump,        \* Dump[x]: the bytes of the text of x (nlohmann::json::dump)
  Types,       \* the packet types in use
  SizeGuard,   \* PacketType::__SizeGuard
  BufferSize,  \* the size of readExact's buffer
  Pieces,      \* bound: how many bytes one ::send or recv may carry
  MaxPackets,  \* bound: packets sent
  MaxDamaged,  \* bound: length of a stream on which packets overlap
  Timeouts     \* whether setTimeout was called on the reader's socket

Byte == 0..255
HeaderSize == 5
FitsLength(n) == n \div 16777216 < 256    \* n < 2^32

ASSUME FramingAssumption ==
  /\ Dump \in [Payloads -> Seq(Byte)]
  /\ \A x \in Payloads : FitsLength(Len(Dump[x]))
  /\ \A x, y \in Payloads : Dump[x] = Dump[y] => x = y
  /\ SizeGuard \in Byte
  /\ Types \subseteq 0..(SizeGuard - 1)
  /\ Pieces \subseteq Nat \ {0}
  /\ BufferSize \in Nat \ {0}
  /\ MaxPackets \in Nat /\ MaxDamaged \in Nat
  /\ Timeouts \in BOOLEAN

Packet == [type : Types, payload : Payloads]

VARIABLES
  sent,     \* history: each packet of which a byte was written, with the
            \* position of its first byte
  left,     \* left[w]: the rest of the packet that w is sending
  stream,   \* every byte the kernel accepted, in order
  ended,    \* "open", "shut" by the sender's close(), "reset" by the network,
            \* or "broken" once the reader was told
  taken,    \* how many bytes of the stream the reader took
  step,     \* which part of a packet receive() is reading
  buffer,   \* readExact's output so far
  header,   \* the decoded header, in step "payload"
  got,      \* history: packets that receive() returned
  outcome,  \* what receive() returned last
  damaged   \* history: two packets overlapped, or a timeout cut one

sending == <<sent, left, stream>>
receiving == <<taken, step, buffer, header, got, outcome>>
vars == <<sent, left, stream, ended, receiving, damaged>>

NoHeader == [type |-> 0, length |-> 0]

Init ==
  /\ sent = <<>>
  /\ left = [w \in Writer |-> <<>>]
  /\ stream = <<>>
  /\ ended = "open"
  /\ taken = 0
  /\ step = "header"
  /\ buffer = <<>>
  /\ header = NoHeader
  /\ got = <<>>
  /\ outcome = "none"
  /\ damaged = FALSE

-----------------------------------------------------------------------------
(* Defective variants, one bug each, that no specification uses *)

\* The length is written with its most significant byte first.
LengthBytesSwapped(n) ==
  <<(n \div 16777216) % 256, (n \div 65536) % 256, (n \div 256) % 256, n % 256>>

\* send() does not look at how much ::send accepted.
RestForgotten(bytes, n) == <<>>

\* readExact always asks for a full buffer.
FullBuffer(missing) == BufferSize

-----------------------------------------------------------------------------
(* Encoding *)

\* memcpy of a 32-bit unsigned number, least significant byte first
LengthBytes(n) ==
  <<n % 256, (n \div 256) % 256, (n \div 65536) % 256, (n \div 16777216) % 256>>

spanToUint32(bytes) ==
  bytes[1] + 256 * bytes[2] + 65536 * bytes[3] + 16777216 * bytes[4]

encode(p) == <<p.type>> \o LengthBytes(Len(Dump[p.payload])) \o Dump[p.payload]

isValidType(byte) == byte < SizeGuard

\* json::parse: undoes dump, and fails on a text that is none.  (On a damaged
\* stream it may accept a piece of a text; no property speaks of it.)
Parses(bytes) == \E x \in Payloads : Dump[x] = bytes
Parse(bytes) == CHOOSE x \in Payloads : Dump[x] = bytes

-----------------------------------------------------------------------------
(* TcpSocket::send *)

\* What the loop has still to send once n of the bytes are written
LeftOver(bytes, n) == SubSeq(bytes, n + 1, Len(bytes))

\* One ::send by w that writes n of the bytes
Write(w, bytes, n) ==
  /\ stream' = stream \o SubSeq(bytes, 1, n)
  /\ left' = [left EXCEPT ![w] = LeftOver(bytes, n)]
  /\ damaged' = (damaged \/ \E v \in Writer \ {w} : left[v] # <<>>)
  /\ damaged' => Len(stream') <= MaxDamaged

Send(w, p, n) ==
  /\ ended = "open"
  /\ left[w] = <<>> /\ Len(sent) < MaxPackets
  /\ n <= Len(encode(p))
  /\ sent' = Append(sent, [packet |-> p, at |-> Len(stream)])
  /\ Write(w, encode(p), n)
  /\ UNCHANGED <<ended, receiving>>

SendRest(w, n) ==
  /\ ended = "open"
  /\ left[w] # <<>> /\ n <= Len(left[w])
  /\ Write(w, left[w], n)
  /\ UNCHANGED <<sent, ended, receiving>>

\* close() or the destructor, or the end of the process: the bytes already
\* accepted are delivered, then the end.  A ::send after it fails, and what is
\* left of a packet is never written.
Close ==
  /\ ended = "open" /\ ended' = "shut"
  /\ UNCHANGED <<sending, receiving, damaged>>

\* The connection breaks: the reader may get what has arrived, or an error.
Reset ==
  /\ ended \in {"open", "shut"} /\ ended' = "reset"
  /\ UNCHANGED <<sending, receiving, damaged>>

-----------------------------------------------------------------------------
(* TcpSocket::receive.  A call follows the last one at once: a call not made  *)
(* yet is one that has read nothing.                                          *)

\* The number of bytes readExact has to read
ToRead == IF step = "header" THEN HeaderSize ELSE header.length

Reading == Len(buffer) < ToRead

\* currentReadMaxBytes
ReadMax(missing) == IF missing < BufferSize THEN missing ELSE BufferSize

Return(result) ==
  /\ outcome' = result
  /\ step' = "header" /\ buffer' = <<>> /\ header' = NoHeader

\* One recv that returns n bytes
Recv(n) ==
  /\ Reading /\ ended # "broken"
  /\ n <= ReadMax(ToRead - Len(buffer)) /\ taken + n <= Len(stream)
  /\ buffer' = buffer \o SubSeq(stream, taken + 1, taken + n)
  /\ taken' = taken + n
  /\ UNCHANGED <<sending, ended, step, header, got, outcome, damaged>>

decodeHeader ==
  /\ step = "header" /\ ~Reading
  /\ IF isValidType(buffer[1])
     THEN /\ step' = "payload"
          /\ header' = [type |-> buffer[1],
                        length |-> spanToUint32(SubSeq(buffer, 2, HeaderSize))]
          /\ buffer' = <<>>
          /\ UNCHANGED outcome
     ELSE Return("error")
  /\ UNCHANGED <<sending, ended, taken, got, damaged>>

decodePayload ==
  /\ step = "payload" /\ ~Reading
  /\ IF Parses(buffer)
     THEN /\ got' = Append(got, [type |-> header.type, payload |-> Parse(buffer)])
          /\ Return("packet")
     ELSE Return("error") /\ UNCHANGED got
  /\ UNCHANGED <<sending, ended, taken, damaged>>

\* recv returns 0
RecvEnd ==
  /\ Reading /\ ended = "shut" /\ taken = Len(stream)
  /\ Return("CloseConnection")
  /\ UNCHANGED <<sending, ended, taken, got, damaged>>

\* recv reports the error, or 0 when it was reported before (the SO_ERROR of
\* isHealthy takes it, too), and what has not been read is lost.
RecvFails ==
  /\ Reading /\ ended \in {"reset", "broken"}
  /\ \E result \in {"error", "CloseConnection"} : Return(result)
  /\ ended' = "broken"
  /\ UNCHANGED <<sending, taken, got, damaged>>

\* recv reports EAGAIN: what was read of the packet is forgotten.
RecvTimesOut ==
  /\ Timeouts /\ Reading /\ ended = "open" /\ taken = Len(stream)
  /\ Return("TimedOut")
  /\ damaged' = (damaged \/ step = "payload" \/ buffer # <<>>)
  /\ UNCHANGED <<sending, ended, taken, got>>

-----------------------------------------------------------------------------

Sender ==
  \E w \in Writer, n \in Pieces : SendRest(w, n) \/ \E p \in Packet : Send(w, p, n)

Receive == (\E n \in Pieces : Recv(n)) \/ decodeHeader \/ decodePayload

Next ==
  \/ Sender \/ Close \/ Reset
  \/ Receive \/ RecvEnd \/ RecvFails \/ RecvTimesOut

Spec == Init /\ [][Next]_vars

\* A ::send that blocks goes on when the reader makes room, and the threads
\* that receive keep calling receive().
Fairness ==
  /\ \A w \in Writer : WF_vars(\E n \in Pieces : SendRest(w, n))
  /\ WF_vars(Receive)
FairSpec == Spec /\ Fairness
-----------------------------------------------------------------------------
(* Properties *)

TypeOK ==
  /\ sent \in Seq([packet : Packet, at : Nat])
  /\ left \in [Writer -> Seq(Byte)]
  /\ stream \in Seq(Byte)
  /\ ended \in {"open", "shut", "reset", "broken"}
  /\ taken \in Nat /\ taken <= Len(stream)
  /\ step \in {"header", "payload"}
  /\ buffer \in Seq(Byte) /\ Len(buffer) <= ToRead
  /\ header \in [type : Byte, length : Nat]
  /\ got \in Seq([type : Byte, payload : Payloads])
  /\ outcome \in {"none", "packet", "CloseConnection", "TimedOut", "error"}
  /\ damaged \in BOOLEAN

Sending == {w \in Writer : left[w] # <<>>}

-----------------------------------------------------------------------------
(* As long as the connection is not damaged, both ends know where the packets  *)
(* begin.  This is the invariant behind QueueSpec.                             *)

Pkt(i) == sent[i].packet
After(i) == sent[i].at + Len(encode(Pkt(i)))

\* The packets lie one after the other in the stream.
PacketsInOrder ==
  /\ sent # <<>> => sent[1].at = 0
  /\ \A i, j \in DOMAIN sent : i < j => After(i) <= sent[j].at
  /\ \A i, j \in DOMAIN sent : j = i + 1 => After(i) = sent[j].at
  /\ \A i \in DOMAIN sent : \A k \in DOMAIN encode(Pkt(i)) :
       sent[i].at + k <= Len(stream) => stream[sent[i].at + k] = encode(Pkt(i))[k]

\* What is left to send completes the last packet.
LeftCompletes ==
  /\ \A v, w \in Sending : v = w
  /\ Sending = {} => Len(stream) = IF sent = <<>> THEN 0 ELSE After(Len(sent))
  /\ \A w \in Sending :
       LET bytes == encode(Pkt(Len(sent))) IN
       /\ sent # <<>>
       /\ Len(stream) > sent[Len(sent)].at
       /\ Len(stream) + Len(left[w]) = After(Len(sent))
       /\ \A k \in DOMAIN left[w] : left[w][k] = bytes[Len(bytes) - Len(left[w]) + k]

\* The reader is inside the packet that comes after those it returned, or
\* after the end of a connection that cut this packet.
Complete == IF Sending = {} THEN Len(sent) ELSE Len(sent) - 1
Offset == IF step = "payload" THEN HeaderSize ELSE 0
Coming == Pkt(Len(got) + 1)

AfterEnd ==
  /\ ended # "open" /\ step = "header" /\ buffer = <<>>
  /\ \/ ended = "broken"
     \/ taken = Len(stream) /\ Len(got) = Complete

InsideComing ==
  /\ taken = sent[Len(got) + 1].at + Offset + Len(buffer)
  /\ \A k \in DOMAIN buffer : buffer[k] = encode(Coming)[Offset + k]
  /\ step = "payload" =>
       header = [type |-> Coming.type, length |-> Len(Dump[Coming.payload])]

ReaderAligned ==
  /\ Len(got) <= Complete
  /\ \A i \in DOMAIN got : got[i] = Pkt(i)
  /\ Len(got) = Len(sent) => taken = Len(stream) /\ step = "header" /\ buffer = <<>>
  /\ Len(got) < Len(sent) => InsideComing \/ AfterEnd

Aligned == ~damaged => PacketsInOrder /\ LeftCompletes /\ ReaderAligned
-----------------------------------------------------------------------------

\* However send and recv cut the bytes, receive() returns the packets sent: in
\* order, whole, once; a connection that ends inside a packet never yields one,
\* its end is reported after everything that was written whole, and an error
\* only after the connection broke.  See PacketQueue.tla.
Queue == INSTANCE PacketQueue WITH
  sent <- [i \in DOMAIN sent |-> sent[i].packet],
  whole <- Sending = {}

QueueSpec == Queue!Spec

\* A packet that was written whole is received in the end, unless the
\* connection is damaged or breaks.
AllArrive ==
  \A i \in 1..MaxPackets :
    Len(sent) >= i /\ Sending = {} ~> Len(got) >= i \/ damaged \/ ended \in {"reset", "broken"}
=============================================================================
