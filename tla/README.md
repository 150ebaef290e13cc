# trust-connect: a TLA+ model

trust-connect lets a client program and a server program that do not know each
other obtain one AES session key through a trusted third party (TTP). This
directory holds TLA+ modules translated from the C++ under `src/src`, the TLC
configurations that check them, and machine-checked proofs about them. File and
line references such as `ttp/main.cpp:130` are relative to `src/src`.

## 1. The system

Six parts keep state; they run in three programs.

| Part | Code | State | Operations |
|---|---|---|---|
| TTP session broker | `ttp/main.cpp`, TTP half of `common/protocol.cpp` | `TtpState`: the maps `connectedClients` (name -> weak socket) and `pendingSessions` (user -> shared socket) and their mutex; one detached thread per connection | accept, receive loop, `initiateAuth`, `requesterAuthenticate`, `serviceAuthenticate`, cleanup |
| Server program | `server/main.cpp`, `serverHandshake` | one detached thread per client connection, its TTP socket, the session key | accept, `handleConnection`, `clientSession`, `handleDataRequest` |
| Client program | `client/main.cpp`, `clientHandshake` | `AppState`: stage, certificate, server socket, session key, sent messages and responses; one thread, the UI loop | Connect, Generate ID, Obtain certificate, Request service, Send |
| Certificate registration | `obtainCertificate`, `handleObtainCertificate`, the start of the three `main`s, `crypto/x509.cpp` | the TTP's key and the file `ttp.cert`, everybody's copy of it, ids, certificates | start, save, listen, stop; copy, load, generate id, connect, request, answer, verify |
| Packet framing | `network/packet.cpp`, `send`, `receive`, `readExact` | the byte stream of one direction of a connection, what a thread has still to send, how far the reader is | `::send`, `recv`, decode header, decode payload, close, reset, timeout |
| Sockets | `network/socket.cpp`, the accept loops | who owns which descriptor, the descriptor tables | connect, accept, move, destroy |

The first two use certificate registration (a client or server is registered
before it does anything else); all use packet framing, and packet framing uses
sockets. The OpenSSL wrappers (`crypto/`) keep no state between calls.

Interaction. The client opens a connection to the TTP per handshake attempt and
keeps one connection ("link") to the server. A server thread opens its own
connection to the TTP when the client sends `ServiceRequest`. Inside the TTP the
two connections are two threads that meet only through the two maps: the
service's thread looks up the client's socket and writes the ticket and the
redirect to it; the client's thread extracts both sockets and writes the key to
both.

What is hard about it:

* any number of attempts of one user are alive at once, and all map entries are
  keyed by name, so one attempt's cleanup acts on another's entries;
* four of the map accesses are made outside the mutex (`ttp/main.cpp:60`, `252`,
  `331`, `335`);
* `InitiateAuthOk` is written before the connection is registered, so the
  service's thread may look before the client is there;
* the client's socket is held weakly, the service's strongly: a service whose
  thread has ended can still be matched;
* the client waits without a time limit (`poll(..., -1)`, `recv`), the TTP waits
  five seconds in one place and without limit elsewhere;
* the key is sent in two separate writes, either of which can fail;
* TCP cuts packets anywhere, and two threads of the TTP may write to one client
  at the same time;
* a TTP that is started again has a new key: certificates, and copies of
  `ttp.cert`, may be of any age, and the file is replaced before the port is bound;
* a socket is moved three times on its way into a session, its old variables are
  destroyed while it is read from, and its descriptor is never given back.

What makes each part correct:

* **Broker**: a key is shared by exactly one requester and one service that asked
  for it; nobody gets two keys; nobody who was told "ok" is left waiting; the
  maps never hold a dead requester; each peer sees packets in the order its
  program expects.
* **Server and client programs**: a client that is authenticated and the server
  thread behind its link hold the same key; every handshake returns; a request
  is answered or refused.
* **Registration**: a certificate that a TTP signed names its holder, and a TTP
  accepts only those who hold its own certificate, whatever was restarted; whoever
  can reach the TTP finds its certificate in the file; nobody waits for ever.
* **Framing**: the receiver reads exactly the packets sent, in order, however TCP
  cuts the bytes; a broken connection is never taken for a packet.
* **Sockets**: no program shuts down a connection that one of its threads reads
  from; whoever reads from a connection that the other end has lost learns of it;
  a failed accept is not the last.

## 2. Modules

```
KeyBroker     abstract: who may be given which key
    ^  refined by (property BrokerSpec)
Ttp           the TTP: threads, maps, sockets; the peers are an environment
    ^  EXTENDS              ^  EXTENDS
TtpInvariant                Handshake    client and server programs around Ttp
    ^  EXTENDS                  ^  EXTENDS          DataSession  the data exchange
Ttp_proofs <--EXTENDS--  Handshake_proofs                        of one client, where
                            ^  EXTENDS                           Handshake ends
                         KeyBroker_proofs
                            ^  EXTENDS
                         PeerOrder_proofs

PacketQueue   abstract: a queue of whole packets
    ^  refined by (property QueueSpec)
Framing       bytes on a connection           Pki           certificates, signatures
    ^  EXTENDS                                    ^  EXTENDS
Framing_proofs                                Registration  TTPs, files, programs
                                                  ^  EXTENDS
Sockets       objects and descriptors         Registration_proofs
    ^  EXTENDS
Sockets_proofs                                DataSession <--EXTENDS--  DataSession_proofs

MCTtp, MCHandshake, MCTwoKeys, MCDataSession, MCFraming, MCRegistration, MCSockets
                                         instances for TLC
```

How they fit together. `Ttp`, `Handshake`, `DataSession` and `Registration` exchange
whole packets; that a connection delivers those is what `Framing` shows. They start
programs with certificates that `Registration` hands out: what `Ttp` takes for a
certificate of a name is one for which `AcceptedIsCurrent` and `CertificateOfOwner`
hold. They let connections end with the threads that hold them; that this is so is
what `Sockets` shows.

### Ttp

One thread per connection `c`; `pc[c]` names the function (or the place in it)
the thread is about to execute.

| State | Code |
|---|---|
| `pc`, `name`, `clientCn`, `session` | locals of `handleClientConnection`, `serviceAuthenticate`, `requesterAuthenticate` |
| `connectedClients`, `pendingSessions` | the maps of `TtpState`; `None` is "no entry" |
| `inbox`, `sent`, `peerClosed` | the TCP connection: packets to read, every packet written, the peer's end |
| `up` | the process runs |

What is one action. A section under `TtpState::mutex` is one action
(`Register`, `MatchSession`, `AddPending`). A map access outside it is an action of
its own (`FailPending`, `FindClient`, `EraseClient`, `ErasePending`), because another
thread may come between. The two packets of `FAIL_CLIENTSIDE_AUTH` are two actions,
`Fail` and `FailPending`. Every packet written to another thread's peer is an
action of its own (`SendTicket`, `SendRedirect`, `SendClientKey`,
`SendServiceKey`). Receiving a packet, verifying it and answering on the own
connection is one action: nobody else sees the middle.

Data races. Two accesses of one map of which one writes, made by two threads of
which at least one holds no lock, are undefined behaviour (`Races`). While such a
pair exists a lookup may miss the entry (`Lookup`) or the process may die
(`Crash`). `Crash` has two other causes: an exception that no thread catches (JSON of
another type makes `value()` throw, `protocol.cpp:85`, `730`; peers of the connections in
`Faulty` may cause one at any time), and the undefined behaviour when `InitiateAuthOk` cannot be sent and
the name is asked for an error it does not hold (`protocol.cpp:141`). After a crash
no map, no thread and no connection is left.

Sockets. `connectedClients` holds a weak pointer and `pendingSessions` a shared one;
`SocketOpen(c)` says whether any owner is left. When none is, the destructor shuts
the connection down and the peer reads its end.

Errors of OpenSSL and of key generation are a disjunct of the step they occur in,
possible on the connections in `Faulty`. `send` fails only towards a peer that is gone.

Peers. `Sends[c]` is the set of packets the peer of `c` may send, in any order; it
may close at any time. The instances use what the programs send (`Programs`) or
every packet there is (`Anything`).

### KeyBroker

The promise of `src/README.md` without threads, maps and packets: a connection
identifies itself once; a service says once which user it serves; a fresh key is
given to a connection of a user, then to at most one service that asked for that
user; nobody is given a second one. Property `BrokerSpec` of `Ttp` is this
specification under the mapping `who <- name, asks <- clientCn, key <-` the key
packet in `sent`.

### Handshake

`Ttp` with its environment replaced by the two programs. A client (one per user,
as each process registers a random identifier) is its UI thread: `cpc[k]`. It opens a
connection of `Attempts` per attempt. The server's thread for the client connection
(link) `l` is `spc[l]`; the connection it opens to the TTP is also called `l`. Each
step of a program that sends to, connects to or closes a connection to the TTP is a
conjunction with the action of `Ttp`'s environment that does it (`PeerSends`,
`Accept`, `PeerClose`), so `Handshake` is `Ttp` with a smaller environment: theorem
`ImplementsTtp`.

A link of `Breakable` may be reset or lost at any time (`LinkBreaks`): it is then in `broken`, what is on its way
arrives up to some packet, and nothing more does. A thread that reads from the link learns of it, and so
does the client; a server's thread in `serverHandshake` reads from the TTP only and goes on, to a
session even, while the client may be on another link already. That a program which reads from a broken
link notices it in the end is an assumption: keep-alive is off, so one that only reads might wait for ever after a
silent loss. A reset, or the end of the other process, is always noticed.

`Healthy` is `isHealthy`: one peeked byte. Buttons of the user interface are actions
without fairness (`Connect`, `RequestService`, `Exit`); everything else a program
does is fair.

### DataSession

`sendData` and `handleDataRequest`. It starts where `Handshake` ends, with the server's thread
still waiting for its copy of the key, because the TTP writes the client's copy
first; what `handshake_half_open` shows makes the failing branch
(`ServerFails`) a state of the real system. That `Handshake` leaves every link like this is
`ReadyForData`: the thread behind it has the client's request, or has it to read, and nothing is to be read on the
link but the error of a thread that closes it. (`receiveSessionKey` of `DataSession` stands for all of
`serverHandshake`: the thread reads no data before it is over. Requests for service that
are left in front of it are read or skipped, and the client sees neither.) Using the payload of a response that is an
error is undefined behaviour: the process dies or finds nothing
(`UseMissingResponse`). Links break here as in `Handshake`: a thread in its session then returns
(`ServerReturns`), one that waits for its key does not. The server program may
end at any time (`ServerEnds`), among other things because a failed decryption is logged with a value that is not
there (`server/main.cpp:43`).

### Framing

One direction of a connection, byte by byte. `encode` is a function on packets;
`Send` and `SendRest` are one `::send` each, with any number of bytes from `Pieces`;
`Recv` is one `recv` in `readExact`. `decodeHeader` and `decodePayload` are the two
halves of `receive`, and every way out of it is an action: a packet, the end
(`RecvEnd`), an error (`RecvFails`), a timeout (`RecvTimesOut`). Several threads may
send: `Writer`.

Two things break the stream for good, and `damaged` records them: a packet that a second
thread starts in the middle of another, and a timeout inside a packet (no program
calls `setTimeout`). `Aligned` and `QueueSpec` speak of streams that are not damaged.
Two threads of the TTP do write to one client without a lock, so the damage can
happen. Blocking `::send` cuts a packet only when the send buffer is nearly full. What the
TTP writes to one client (`sent` of `Ttp`) is short and read one by one: an answer, a ticket, a redirect, a key, errors. More
piles up only if services of abandoned attempts write their tickets to a client that has stopped
reading; that this never fills a buffer is not proved, and `damaged` says what follows if it does.

Lengths stay below 2^32 (`FramingAssumption`): `encode` casts `size_t` to
`uint32_t`, and no program makes a text of four gigabytes.

### PacketQueue

What users of a `TcpSocket` rely on: packets come in the order they were sent,
whole, once, and the end comes after the last. Property `QueueSpec` of `Framing`
under the mapping `sent <-` the packets without their positions,
`whole <- Sending = {}`.

### Pki and Registration

`Pki` says what certificates, RSA encryption and signatures are for the other
modules, symbolically: a key pair is a name, a text is readable by the owner of
the key it is encrypted for, a certificate verifies under the key that signed
it. `verify` looks at nothing but the signature, as `X509_verify` does. `issue` cuts
the name at 64 bytes as `x509.cpp:163` does.

`Registration` has any number of runs of the TTP (`Run`), each with its own key, and
any number of clients and servers; a program that is started again is another
one, since none of them keeps anything but `ttp.cert`. A run of the TTP is `started`,
empties the file (`writing`), fills it (`saved`) and tries the port (`listening`); it may
end at any point. Filling may fail unnoticed, because the text is flushed when the file is freed and that error is
ignored (`x509.cpp:473`); the file is empty then (`SavedBy`). Several may be started while one runs.
`CopyFile` puts whatever the file holds into a participant's directory at any time, so a
copy may be old, empty or half-written (empty: PEM without its last line does not
parse). The client's steps are buttons and may be repeated; the server's happen
once, and a failure ends the program unless it falsifies its certificate.

Two of the client's errors are part of the model: the id is used when generating it
failed (`client/main.cpp:152`, `GarbageId`), and it keeps the TTP's certificate
of its start for as long as it runs.

### Sockets

Objects, not packets: every local variable and member of type `TcpSocket` is an
element of `Object`, and an action is a move, a destruction, an accept or a connect.
`Close` is `closeSocket`: `shutdown`, and the descriptor is forgotten, so `table` only
grows. `Abort` is what `server/main.cpp:238` may do: the result of `accept` is
dereferenced before it is tested, and a libstdc++ with assertions aborts.

A thread's sockets go when it ends. At the TTP the socket of a service outlives its thread while
`pendingSessions` holds it, which `Ttp` models and `Sockets` does not: nobody reads from it
there any more, and the peer's wake-up is `ServerAnswers` of `Handshake`.

The table of each program is small (`MaxFd`), so that the runs reach the full one.

## 3. Runs

| Run | Instance | Question |
|---|---|---|
| `ttp_attempts` | two attempts of one user, one service | stale entries, duplicate names, one attempt's cleanup against the other's; the inductive invariant |
| `ttp_inputs` | one requester, one service, any packets | guards of the handlers, order of packets; with fairness: threads end, services are answered |
| `handshake_users` | two users, two attempts, two links | no key reaches a third party; a key binds the pair that asked for each other; a session with a client's key is on that client's link, or on a broken one that nobody else has; the two ends of a link have one key unless the TTP gave keys to two connections of the user; the programs read what they wait for; a link is ready for data when the key comes; `KeyBroker` is implemented |
| `handshake_fair` | one user, two attempts, two links that may break, library calls that fail on one of the client's connections | every handshake ends, on both sides, unless the server's thread is in a session already and skips the request |
| `data_answers` | two texts and the empty one, one reconnection | links break, the server ends, library calls fail: a response belongs to the message just sent; messages and responses agree row by row until a response is missing; `sendData` returns |
| `framing` | two threads, two packets, texts of one and of six bytes, a buffer of five | the reader stays aligned; the bytes are a queue of packets; what was sent arrives |
| `registration` | two runs of the TTP, a client, a server that falsifies | certificates are their holders'; a TTP accepts its own; the file is the listener's; who waits has a TTP that runs and a request on its way; waiting ends |
| `sockets` | two descriptors per program, three connections | moves and destructors never cut off a reader; readers of lost connections wake; accept goes on |
| `handshake_half_open` | one user, two attempts, two links | **violated**: authenticated client, server without key |
| `handshake_wedge` | one link, two attempts, failing library calls | **violated**: the client waits forever |
| `handshake_two_keys` | one user, six attempts, five links, slow threads | **violated**: the two ends of a link hold different keys |
| `sockets_leak` | as `sockets` | **violated**: a closed socket keeps its descriptor |

The violated properties state what `src/README.md`, a header's comment or a label of
the user interface says; `findings` in `PROJECT.json` quotes it.

`handshake_two_keys`. The instance is far too large to explore, so `MCTwoKeys` conjoins a schedule to
`HandshakeNext`: the order of the user's buttons, eleven places where a thread of the TTP
waits, and that servers reach the TTP. It only removes behaviours, so the steps (about 120) TLC finds are steps of `Handshake`. In smaller
instances (two attempts with everything that can fail; three attempts on two
links without failing library calls) TLC found no violation. What has to come together:
a thread of an abandoned attempt with its `UserAuthDataSubmit` still to read (`r3`, because two services
sent it a ticket each), a connection told `InitiateAuthOk` and not registered yet (`r5`), and a
service in `pendingSessions` whose server thread has gone (`s4`, told of a failure by the slow
thread of yet another attempt). The last attempt (`r6`) is matched with `s4`, and its client is
authenticated; then `r5` registers, the live service `s5` is inserted, and `r3`'s thread gives these two
a key of their own. `KeyOfTwo`, which is proved, still holds: a key
is never held by a third party, it is just not the same at both ends. That this is the only way to
end up so is proved too: `SameKeyUnlessTwo` says that the ends of a link hold one key unless the
TTP has given keys to two connections of the same user (`KeyedTwice`).

Bounds. Connections are never reused, so a set of `n` of them bounds the number of
attempts and of service threads. Three or four are enough for every pair of
threads to meet: two of the same user, two services that want the
same user, a user's and a service's. They are not enough for every story:
`handshake_two_keys` needs eleven. What a passing run says of larger instances is
therefore what section 4 proves; the liveness properties are checked for these
bounds only. `ClientAnswered` allows for what `handshake_wedge` shows, and that is not an excuse
for other things: it asks that the thread is in a session for good. Attempts and links are
interchangeable: `ttp_attempts` and `handshake_users` say so with SYMMETRY, and `handshake_fair` takes
them in order (`NextInOrder`), which only cuts what users decide and no fair step. Its faults are on
a client's connection; with faults on one service's too TLC found the same, in more time.
Links that break multiply the ways attempts overlap. The two passing runs therefore restrict when one does:
in `handshake_users` one link breaks, while only its user is connected, and service is asked
for again when the TTP's threads have ended (`OneBreak`); in `handshake_fair` links break before the
second attempt begins (`NextInOrder`). Both only remove steps of users and of the network; what is proved in section 4 has
no such bound.
`MaxInbox = 1` because no program sends a
second packet before it has read an answer to the first; for peers that do, a
second packet unread behaves as one that is sent later. `MaxSent = 3` puts a
shifted pair behind a correct one.

`framing`: the texts have lengths below and above `BufferSize`, so that a payload is read in
one and in several rounds; `Pieces` holds one byte, two, the buffer, the short packet and the
long one, which cuts packets before, in and after the header and writes them at once;
two packets are enough for one that overlaps another. `registration`: two runs of the TTP have every
overlap of starts and every order of restart; names are two digits with
`MaxCommonName = 2`, the longest that is not cut, as 64 is in the code. `sockets`: with two
descriptors a server's thread can just serve one client (its link and its connection to the
TTP), the TTP can have two threads, and the client can replace its link once; the third
connection finds full tables. Deadlock checking is off in all runs: when the
connections of the instance are used up the system stops.

Fairness. Weak fairness of each thread of the TTP and of the server, and of the client between
two buttons: the operating system runs every thread that can run, and no step of
these threads depends on being offered infinitely often. The five seconds of
`waitForSessionData` are a step that is always possible (`WaitExpires`); fairness only
says that it happens in the end. Nothing is assumed about users, peers or data races.
`framing`: a thread in `send` goes on as long as the connection lives, and threads that receive
call `recv` again. `registration`: the TTP's thread answers, and who waits for an answer
runs; nothing is assumed about starting, stopping or copying. `sockets`: threads that the kernel has
woken run (weak), the accept loops run (weak), and `accept` does not fail for ever
while a connection waits and a descriptor is left (strong, because it may fail
now and then, and the loop is between two calls in between).

## 4. Proofs

`Ttp_proofs.tla` proves for any sets of connections, users and services and any
behaviour of the peers:

| Theorem | |
|---|---|
| `TypeCorrect` | `Spec => []TypeOK` |
| `Invariance` | `Spec => []Inductive` |
| `RegisteredAreLive` | `Spec => []ConnectedLive` |
| `OneKey` | `Spec => []OneKeyPerConnection` |
| `KeysBindPairs` | `Spec => []KeyBinding` |
| `OrphansAreSeen` | `Spec => []NoSilentOrphan` |

Assumptions: `TtpAssumption` (the two kinds of names are disjoint, `Forged` and
`None` are none of them) and `SendsAssumption` (peers send packets).

Why an inductive invariant. That nobody is given two keys does not follow from the
maps alone: between `MatchSession` and the second send the two sockets are in no map
but in one thread's hands. `TtpInvariant` therefore says where a socket may be:
`ThreadKnows` (the program counter determines what a thread knows),
`PendingListed` and `ConnectedLive` (what an entry says about its thread),
`PairMatches` and `PairExclusive` (a socket is in a map or in one pair, never in
two places), `KeyFree` (whoever can still be given a key has none) and `KeyHolders`
(who holds a key, relative to the thread that generated it). `KeyBinding` follows from the
last. `NoSilentOrphan` is preserved because a service inserts before it looks and a requester
erases its own entry before the pending one.

`Handshake_proofs.tla` proves of the closed system, for any sets of users, services,
attempts and links, forged certificates and failing OpenSSL calls included:

| Theorem | |
|---|---|
| `ImplementsTtp` | `HandshakeSpec => Spec`: all of the above holds with the two programs around the TTP |
| `HandshakeInvariance` | `HandshakeSpec => []HandshakeInductive` |
| `HandshakeTypeCorrect` | `HandshakeSpec => []HandshakeTypeOK` |
| `KeyIsOfTwo` | `HandshakeSpec => []KeyOfTwo` |
| `SessionIsOnOwnLink` | `HandshakeSpec => []SessionOnOwnLink` |

Further assumption: `HandshakeAssumption` (links are connections, a server has a
service's certificate or a forged one). The argument for `ImplementsTtp`: a client
has a connection to the TTP exactly while its handshake runs (`TtpHeld`), so each
of its steps is a step of `Ttp`'s environment on that connection, or touches
nothing of the TTP. For `KeyOfTwo` two things come together. `KeyBinding`, of the
TTP, says which two connections may share a key. `Introduced` and `KeysReceived`,
of the programs, say whose connections those are: a connection is used by one
client (`Owned`), only that client's `InitiateAuth` ever reaches it, so a key read
on it came on a connection whose `name` is that client's; and connections outlive
the attempts that opened them, which is why `KeysReceived` speaks of some
connection of that name and not of `ttp[k]`. `SessionOnOwnLink` adds the links: a server's
thread asks for the user whose certificate it was sent (`Asked`), and only a client that holds a
certificate presents it, over the link it has then (`PresentedByHolder`). The Connect button is there when the
link is down: its thread has returned, or it broke, and both are for good. So who presented a certificate
over a link still has that link or the link is in `broken`, and a link, broken or not, is never another client's
(`LinksOwned`). That a session
always has a key (`SessionHasKey`) makes the key lead back, by `KeyOfTwo`, to the user and so to the link.
The broken link is a case of its own because it occurs: a client whose link breaks during its
handshake may go on to another link while the old link's thread begins a session with the client's key.

`KeyBroker_proofs.tla` proves, under the same assumptions:

| Theorem | |
|---|---|
| `ImplementsBroker` | `Spec => BrokerSpec`: the TTP implements `KeyBroker`, whatever its peers send |
| `HandshakeImplementsBroker` | `HandshakeSpec => BrokerSpec`: so does the TTP between the two programs |
| `SameKeyForOne` | `HandshakeSpec => []SameKeyUnlessTwo` |

`InitiateAuthAccepted` maps to `Identify`, `ServiceAuthenticated` to `AskFor`, the two
sends of a key to `GiveRequester` and `GiveService`, and every other action to a stutter:
either it sends no key (`PostErrors` only adds error packets), or it is a send to a lost peer. `OneKeyPerConnection`
makes the mapping well defined: the key of the first key packet is the only
one. That a key is fresh when the requester gets it, and that the requester is who the
service asked for when the service gets it, is what `KeyHolders` and `PairMatches` say; that the requester's
connection has the key before the service's does is a further invariant, `FirstSent`.
`SameKeyForOne` uses `FirstSent`: a server's thread has a key only if a requester's connection
of the user it asked for has that key (`KeySource`). The client's own key is on a connection of that user as well
(`KeysReceived`), a link is one client's (`LinksOwned`), and a connection has one key; so
two different keys are on two connections of one user.

`PeerOrder_proofs.tla` proves, under the same assumptions:

| Theorem | |
|---|---|
| `PeersInOrder` | `Spec => []PeerOrder` |
| `ProgramsReadInOrder` | `HandshakeSpec => []ReadsInOrder` |
| `LinkIsReadyForData` | `HandshakeSpec => []ReadyForData` |

`PeerOrder` is not inductive: it says what `sent` holds and not who will write next. `Written` adds
that. Nobody writes to a connection that has not introduced itself (`Unwritten`), because other
threads know it from the maps only. A thread that is about to send a ticket or a redirect holds a user's
connection (`Notified`), so services are spared those. `InitiateAuthOk` is the first packet of whoever has a name, and comes
once (`Greeted`). As long as no error was written, the number of packets a service was sent is what its
thread knows: one when it has introduced itself, two when it has asked, three with its key
(`ServiceCount`), which puts `ServerAuthOk` second and the key third. What an action may
write to whom is said once, by `Writes`, and shown for every action in `StepWrites`. An error may be followed by
anything, since threads of other attempts do not know of it; therefore `PeerOrder`
speaks of the packets up to the first.

`ReadsInOrder` is the same seen by the programs. The server's thread reads one packet in each of its
waits and goes on only if it is no error, so where it is says how many packets without an error it has read
(`ServerRead`). Before its connection has a name it is told of errors only (`StrangerTold`), and
nobody registers for a certificate over it (`NoRegistration`). For the client this holds in its first wait only:
`client/main.cpp` takes a ticket and a redirect by position, and two services of different attempts may
write theirs in between; what it then reads is refused, and the attempt fails.

`ReadyForData` holds because a handshake runs over a link (`Linked`) that is this client's alone (`LinksOwned`) and that it
does not replace meanwhile. The client puts its request there, or the link is down for good, or it broke and lost it; only the thread
takes it, and then it is past waiting for one (`RequestSeen`). What the thread writes to the link before
its session is one error, its last step but one (`LinkQuiet`).

`Framing_proofs.tla` proves for any set of threads, payloads and texts, any way the
bytes are cut and any number of packets:

| Theorem | |
|---|---|
| `FramingTypeCorrect` | `Spec => []TypeOK` |
| `FramingInvariance` | `Spec => []Aligned` |
| `ImplementsQueue` | `Spec => QueueSpec` |

Assumption: `FramingAssumption` (texts are bytes, shorter than 2^32, and different for
different values; types are below `SizeGuard`; a piece is at least one byte).
`Aligned` is inductive together with `TypeOK`. Its three parts are about the stream
(`PacketsInOrder`: where each packet begins, and that its bytes are there as far as they
are written), the sender (`LeftCompletes`: at most one thread is inside a packet, and what it has left
is the end of the last one) and the reader (`ReaderAligned`: it is at a known offset
of the packet after those it returned, and what it has buffered is the beginning of it).
`LengthRoundTrip` is the arithmetic behind it: the four bytes of a length below 2^32 give the
length back. For `ImplementsQueue` each action maps to one of `PacketQueue` or a
stutter; that a reader which was told of an error is not inside a packet
(`ended = "broken"`) is a further invariant.

`Registration_proofs.tla` proves for any number of runs, clients and servers and any ids:

| Theorem | |
|---|---|
| `RegistrationTypeCorrect` | `Spec => []TypeOK` |
| `CertificatesAreOwn` | `Spec => []CertificateOfOwner` |
| `AcceptedAreCurrent` | `Spec => []AcceptedIsCurrent` |
| `FileIsListeners` | `Spec => FileOfListener` |
| `WaitsAreAttended` | `Spec => []AwaitsTtp` |

Assumptions: `RegistrationAssumption` (keys of TTPs and of others differ), `PkiAssumption` and
`IdFits`: an id, in hexadecimal, is no longer than a common name may be. `IdFits` is where 32 bytes
of hash meet the 64 of `x509.cpp:163`, and it relies on `std::format` treating `char` as
unsigned, which it does in the compiler the project asks for (earlier libraries print a sign). The
invariant `IInv` says of every file and copy that it is empty or what one TTP saved
(`FilesOK`), and of every participant what its request (`RequestOK`), the answer to it
(`ResponseOK`) and its certificate (`CertificateOK`) contain, relative to the TTP whose
certificate it loaded. The step that matters is `ObtainedCertificate`: an answer is accepted
when it verifies under the certificate loaded, so it was given by the TTP
that certificate belongs to, even if the connection was to another. `FileOfListener` is of
the form "from then on": `FileIsListeners` shows by the steps of one TTP (`TtpMoves`) that once all earlier ones have ended, and
while no later one is started, the file is what this one has made of it so far (`FileKept`).
`AwaitsTtp` is what `WaitEnds` rests on, and fairness adds the rest: the connections of a TTP end with it, also those
of programs that have not asked yet, and who waits has asked (`Attended`).

`DataSession_proofs.tla` proves for any texts, links and number of messages:

| Theorem | |
|---|---|
| `DataTypeCorrect` | `Spec => []TypeOK` |
| `AnswersAreLast` | `Spec => AnswersLast` |
| `RowsAreRight` | `Spec => []RowsMatch` |

Assumption: `DataAssumption`. That a response is of the message just sent needs to be known
while the client waits, and before: nobody is left on a link the client
replaced (`OtherLinks`), between two messages at most the error of a thread that closed the
link is on the way (`BetweenMessages`), and while the client waits the link has the request,
or its response, or neither (`WaitingForAnswer`). A broken link is not open, and what may still be read from it is the last response or an
error, because it loses the end of what was on its way and takes nothing new. `RowsMatch` follows step by step from the same invariant: a message makes the
list of messages longer and the client wait, a response is of the last message and stands in its row unless one was
missing before. The case that needs the argument is a
request the server drops: nothing is on the way then, and only a closed link ends the wait.

`Sockets_proofs.tla` proves for tables of any size and any number of connections:

| Theorem | |
|---|---|
| `SocketsTypeCorrect` | `Spec => []TypeOK` |
| `ReadersKeepConnection` | `Spec => []NotShutUnderReader` |
| `ForgottenAreDown` | `Spec => []ForgottenIsDown` |

Assumption: `SocketsAssumption`. The invariant has two halves. `Ownership` is about objects: a
descriptor is of a connection its program made or accepted, there is one descriptor for it
(`OneDescriptor`) and one object that holds it (`OneOwner`), what is held was not shut down by
its own program (`HeldIsUp`). Each operation of `TcpSocket` keeps it, under a condition:
`MoveOwned` requires that the target of an assignment holds nothing or what is down, because its
descriptor is forgotten. `Control` shows that the programs meet the condition: which
objects are free where a thread is (`MainOK`, `ThreadOK`), that a new descriptor belongs to no
thread yet, and that the server socket is not healthy when it is overwritten (`ClientOK`),
which stays so because what is down stays down (`Grows`). An abort is the one step that takes
a table away; nothing of the program is left to rely on it.

Only model-checked: all liveness (fairness and `ENABLED` are beyond the prover): `ThreadEnds`,
`ServiceAnswered`, `ClientAnswered`, `ServerAnswers`, `SendReturns`, `AllArrive`, `WaitEnds`,
`ReadersWake`, `StillAccepts`. Every other property of a passing run is a theorem. The four violated
properties are not invariants and need no proof.

## 5. What is abstracted, and what is left out

* A certificate is the name it certifies, or `Forged`. Users and services are disjoint:
  the code does not tell the two kinds of certificate apart, and one name used in both
  roles is not modelled.
* A session key is named after the thread that generated it; 32 random bytes are fresh.
* JSON and PEM parsing: a payload that does not parse is one that is refused; at the TTP, one whose fields have the
  wrong type is a `Crash`. The programs send neither.
* A packet that arrives when no `receive` lies ahead of the thread is never read and
  not modelled.
* A program's read of a packet and its next send are one action.
* In all modules but `Sockets` a descriptor is never missing: opening a connection
  succeeds or fails, and why is left open. `sockets_leak` shows that after enough connections `accept` of a
  long-lived TTP fails for ever; `WaitEnds` and `ClientAnswered` are about a TTP that still accepts.
* `SO_ERROR` is not modelled: after a reset it makes one call of `isHealthy` false,
  the next sees the unread data again. In `Sockets`, which has no packets, unread data
  does not count at all, so the client connects more often than in the code.
* `RequestService` of `Sockets` stands for the two buttons that open a connection to the TTP
  and close it again before the next event.
* Name resolution and the options of sockets are part of connecting.
* AES, hashes and the handles of OpenSSL: pure functions. A call that can fail
  (no memory, no random bytes, a wrong key or tag) is a failure of the step that makes it.
* Not modelled: command line (its effects are the constants), rendering.
  `test/` contains no tests.

Seen while modelling, part of the models, and shown by no run of their own: an answer that is an error is dereferenced by the client
(`client/main.cpp:90`, `UseMissingResponse`); the empty message is sent and its answer
read but not shown (`client/main.cpp:92`), and so is a response that cannot be decrypted. From then on the rows
under "Messages that server responded to" (`client/main.cpp:264`), which pair the two lists by index, show responses beside the
wrong messages. That is a defect of the code: `RowsMatch` states only what is kept, which is that the rows
are right until a response is missing. `isHealthy` calls a dead link healthy while there is unread
data (`socket.cpp:251`); an id that could not be generated is used
(`client/main.cpp:152`).

## 6. Plan

1. `Registration` composed with `Handshake`: certificates of different ages in one run.
2. Proofs of what more of the liveness rests on, as `AwaitsTtp`, `NoSilentOrphan` and `ForgottenIsDown` are for
   `WaitEnds`, `ServiceAnswered` and `ReadersWake`: for `ServerAnswers`, who can still answer a server's thread that waits.
3. An abstract specification of the data exchange (messages and the answers to them, without links), with
   `DataSession` shown to implement it.
