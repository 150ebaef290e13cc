---------------------------- MODULE Sockets_proofs ----------------------------
(***************************************************************************)
(* Theorems of Sockets, for descriptor tables of any size and any number   *)
(* of connections.                                                         *)
(***************************************************************************)
EXTENDS Sockets, SequenceTheorems, TLAPS

(* Ownership: what holds of tables, objects and connections *)

OwnTypes ==
  /\ conn \in Seq(Connection) /\ Len(conn) <= MaxConn
  /\ table \in [Program -> Seq(0..MaxConn)]
  /\ \A p \in Program : Len(table[p]) <= MaxFd
  /\ object \in [Object -> {INVALID_SOCKET} \cup Fd]
  /\ \A o \in Object : object[o] <= Len(table[o[1]])

\* A descriptor is of a connection that the program made or accepted.
PartyTo(p, k) == p = conn[k].from \/ (p = conn[k].to /\ conn[k].accepted)
EntriesOK ==
  /\ \A k \in 1..Len(conn) : conn[k].from # conn[k].to
  /\ \A p \in Program : \A fd \in 1..Len(table[p]) :
       table[p][fd] # 0 => table[p][fd] <= Len(conn) /\ PartyTo(p, table[p][fd])

\* A program has one descriptor of a connection, and one object holds it.
OneDescriptor ==
  \A p \in Program : \A f, g \in 1..Len(table[p]) :
    table[p][f] = table[p][g] /\ table[p][f] # 0 => f = g
OneOwner ==
  \A n, o \in Object : n[1] = o[1] /\ object[n] = object[o] /\ object[n] # INVALID_SOCKET => n = o

\* A program that has shut a connection down holds it no longer.
HeldIsUp == \A o \in Object : Of(o) # 0 => o[1] \notin conn[Of(o)].downBy

\* A program does not shut down what it has not accepted, unless it dies.
NotYetShut ==
  \A k \in 1..Len(conn) :
    conn[k].to \in conn[k].downBy /\ running[conn[k].to] => conn[k].accepted

Ownership ==
  /\ OwnTypes /\ EntriesOK /\ OneDescriptor /\ OneOwner
  /\ HeldIsUp /\ NotYetShut /\ ForgottenIsDown

-----------------------------------------------------------------------------
(* Control: which objects are in use where a thread is *)

MainObject(p) == <<p, 0, "accepted">>
Argument(p, t) == <<p, t, "argument">>
Session(p, t) == <<p, t, "own">>
TtpSocket(t) == <<"server", t, "ttpSocket">>
IsFree(o) == object[o] = INVALID_SOCKET

MainOK(p) ==
  /\ pc[p][0] # "accepted" => IsFree(MainObject(p))
  /\ pc[p][0] = "accepted" =>
       object[MainObject(p)] \in Fd /\ pc[p][object[MainObject(p)]] = "none"

ClientOK ==
  /\ pc["client"][0] # "assigning" => IsFree(newSocket)
  /\ pc["client"][0] # "handshake" => IsFree(clientTtpSocket)
  /\ pc["client"][0] = "assigning" => ~isHealthy(serverSocket)

ThreadOK(p, t) ==
  /\ pc[p][t] \in Active \cup {"none", "ended"}
  /\ pc[p][t] = "none" => IsFree(Argument(p, t))
  /\ pc[p][t] \in {"none", "started", "handshake"} => IsFree(Session(p, t))
  /\ p = "server" /\ pc[p][t] \in {"none", "started"} => IsFree(TtpSocket(t))
  /\ pc[p][t] = "handshake" => p = "server"
  /\ running[p] /\ pc[p][t] # "none" => t <= Len(table[p])

Control ==
  /\ pc \in [Program -> [0..MaxFd -> Places]]
  /\ running \in [Program -> BOOLEAN]
  /\ ClientOK
  /\ \A p \in Acceptor : MainOK(p) /\ \A t \in Fd : ThreadOK(p, t)

IInv == Ownership /\ Control

-----------------------------------------------------------------------------
(* Objects and sequences *)

LEMMA ObjectNames ==
  /\ \A o \in Object : o[1] \in Program
  /\ \A p \in Acceptor : MainObject(p) \in Object
  /\ \A p \in Acceptor, t \in Fd : Argument(p, t) \in Object /\ Session(p, t) \in Object
  /\ \A t \in Fd : TtpSocket(t) \in Object
  /\ serverSocket \in Object /\ newSocket \in Object /\ clientTtpSocket \in Object
  /\ Acceptor \subseteq Program /\ "client" \in Program
<1> USE DEF Object, MainObject, Argument, Session, TtpSocket, serverSocket, newSocket,
            clientTtpSocket, Acceptor, Program
<1>1. \A o \in Object : o[1] \in Program
  OBVIOUS
<1>2. /\ \A p \in Acceptor : MainObject(p) \in Object
      /\ \A p \in Acceptor, t \in Fd : Argument(p, t) \in Object /\ Session(p, t) \in Object
      /\ \A t \in Fd : TtpSocket(t) \in Object
  OBVIOUS
<1> QED BY <1>1, <1>2

LEMMA Differ ==
  ASSUME NEW p, NEW t, NEW q, NEW u
  PROVE  /\ MainObject(p)[1] = p /\ Argument(p, t)[1] = p /\ Session(p, t)[1] = p
         /\ TtpSocket(t)[1] = "server" /\ serverSocket[1] = "client"
         /\ newSocket[1] = "client" /\ clientTtpSocket[1] = "client"
         /\ MainObject(p) # Argument(q, t) /\ MainObject(p) # Session(q, t)
         /\ MainObject(p) # TtpSocket(t) /\ Argument(p, t) # Session(q, u)
         /\ Argument(p, t) # TtpSocket(u) /\ Session(p, t) # TtpSocket(u)
         /\ serverSocket # newSocket /\ serverSocket # clientTtpSocket
         /\ newSocket # clientTtpSocket
         /\ Argument(p, t) = Argument(q, u) => p = q /\ t = u
         /\ Session(p, t) = Session(q, u) => p = q /\ t = u
         /\ TtpSocket(t) = TtpSocket(u) => t = u
         /\ MainObject(p) = MainObject(q) => p = q
  BY DEF MainObject, Argument, Session, TtpSocket, serverSocket, newSocket, clientTtpSocket

\* What is appended is the last element, and the others stay where they are.
LEMMA Appended ==
  ASSUME NEW S, NEW s \in Seq(S), NEW x \in S
  PROVE  /\ Append(s, x) \in Seq(S) /\ Len(Append(s, x)) = Len(s) + 1
         /\ \A i \in 1..Len(s) : Append(s, x)[i] = s[i]
         /\ Append(s, x)[Len(s) + 1] = x
  OBVIOUS

\* A sequence with changed elements
LEMMA Mapped ==
  ASSUME NEW S, NEW n \in Nat, NEW f \in [1..n -> S]
  PROVE  f \in Seq(S) /\ Len(f) = n
  OBVIOUS

LEMMA ElementType ==
  ASSUME NEW S, NEW s \in Seq(S), NEW i \in 1..Len(s)
  PROVE  s[i] \in S
  OBVIOUS

-----------------------------------------------------------------------------
(* Ownership is kept by what sockets do *)

\* Tables grow, and what is down stays down.
Grows ==
  /\ \A p \in Program :
       /\ Len(table'[p]) \in Nat /\ Len(table'[p]) >= Len(table[p])
       /\ \A fd \in 1..Len(table[p]) : table'[p][fd] = table[p][fd]
  /\ Len(conn') >= Len(conn)
  /\ \A k \in 1..Len(conn) : conn[k].downBy # {} => conn'[k].downBy # {}

\* A held descriptor is in the table.
LEMMA HeldEntry ==
  ASSUME Ownership, NEW o \in Object, ~IsFree(o)
  PROVE  /\ object[o] \in 1..Len(table[o[1]])
         /\ Of(o) = table[o[1]][object[o]] /\ Of(o) \in 0..MaxConn
         /\ Of(o) # 0 => Of(o) \in 1..Len(conn)
<1>1. o[1] \in Program /\ table[o[1]] \in Seq(0..MaxConn)
  BY ObjectNames DEF Ownership, OwnTypes
<1>2. object[o] \in 1..Len(table[o[1]])
  BY <1>1 DEF Ownership, OwnTypes, IsFree, INVALID_SOCKET, Fd
<1>3. Of(o) = table[o[1]][object[o]]
  BY DEF Of, IsFree
<1>4. Of(o) \in 0..MaxConn
  BY <1>1, <1>2, <1>3, ElementType
<1>5. Of(o) # 0 => Of(o) <= Len(conn)
  BY <1>1, <1>2, <1>3 DEF Ownership, EntriesOK
<1> QED BY <1>2, <1>3, <1>4, <1>5, SocketsAssumption DEF Ownership, OwnTypes

\* A socket is moved within a program into one that holds nothing, or whose
\* connection is down.
LEMMA MoveOwned ==
  ASSUME Ownership, NEW from \in Object, NEW to \in Object, from # to, from[1] = to[1],
         Of(to) = 0 \/ Down(Of(to)), object' = Moved(from, to),
         UNCHANGED <<table, conn, running>>
  PROVE  Ownership'
<1>1. /\ object' \in [Object -> {INVALID_SOCKET} \cup Fd]
      /\ object'[to] = object[from] /\ object'[from] = INVALID_SOCKET
      /\ \A o \in Object \ {from, to} : object'[o] = object[o]
  BY DEF Moved, Ownership, OwnTypes
<1>2. OwnTypes'
  <2>1. ASSUME NEW o \in Object PROVE object'[o] <= Len(table[o[1]])
    <3>1. o[1] \in Program /\ table[o[1]] \in Seq(0..MaxConn)
      BY ObjectNames DEF Ownership, OwnTypes
    <3>2. Len(table[o[1]]) >= 0
      BY <3>1
    <3>3. object[from] <= Len(table[from[1]]) /\ object[o] <= Len(table[o[1]])
      BY DEF Ownership, OwnTypes
    <3>4. CASE o = from
      BY <1>1, <3>2, <3>4 DEF INVALID_SOCKET
    <3>5. CASE o = to
      BY <1>1, <3>3, <3>5
    <3>6. CASE o \notin {from, to}
      BY <1>1, <3>3, <3>6
    <3> QED BY <3>4, <3>5, <3>6
  <2> QED BY <1>1, <2>1 DEF Ownership, OwnTypes
<1>3. EntriesOK' /\ OneDescriptor'
  BY DEF Ownership, EntriesOK, OneDescriptor, PartyTo
<1>4. OneOwner'
  BY <1>1 DEF Ownership, OneOwner
<1>5. HeldIsUp'
  <2> SUFFICES ASSUME NEW o \in Object, Of(o)' # 0 PROVE o[1] \notin conn[Of(o)'].downBy
    BY DEF HeldIsUp
  <2>1. CASE o = to
    BY <1>1, <2>1 DEF Of, Ownership, HeldIsUp
  <2>2. CASE o = from
    BY <1>1, <2>2 DEF Of
  <2>3. CASE o \notin {from, to}
    BY <1>1, <2>3 DEF Of, Ownership, HeldIsUp
  <2> QED BY <2>1, <2>2, <2>3
<1>6. ForgottenIsDown'
  <2> SUFFICES ASSUME NEW p \in Program, NEW fd \in 1..Len(table[p]), table[p][fd] # 0,
                      ~Held(p, fd)'
               PROVE  Down(table[p][fd])
    BY DEF ForgottenIsDown, Down
  <2>1. CASE ~Held(p, fd)
    BY <2>1 DEF Ownership, ForgottenIsDown
  <2>2. CASE Held(p, fd)
    <3>1. PICK o \in Object : o[1] = p /\ object[o] = fd
      BY <2>2 DEF Held, ObjectsIn
    <3>2. \A n \in Object : n[1] = p => object'[n] # fd
      BY ObjectNames DEF Held, ObjectsIn
    <3>3. o = to
      BY <1>1, <3>1, <3>2
    <3>4. Of(to) = table[p][fd]
      BY <3>1, <3>3 DEF Of, INVALID_SOCKET
    <3> QED BY <3>4
  <2> QED BY <2>1, <2>2
<1>7. NotYetShut'
  BY DEF Ownership, NotYetShut
<1> QED BY <1>2, <1>3, <1>4, <1>5, <1>6, <1>7 DEF Ownership

\* What closing does to the connections
LEMMA ClosedConns ==
  ASSUME Ownership, NEW p \in Program, NEW objects \in SUBSET Object,
         \A o \in objects : o[1] = p, Close(objects)
  PROVE  /\ conn' \in Seq(Connection) /\ Len(conn') = Len(conn)
         /\ \A k \in 1..Len(conn) :
              /\ conn'[k].from = conn[k].from /\ conn'[k].to = conn[k].to
              /\ conn'[k].accepted <=> conn[k].accepted
              /\ conn[k].downBy \subseteq conn'[k].downBy
              /\ conn'[k].downBy \subseteq conn[k].downBy \cup {p}
              /\ (\E o \in objects : Of(o) = k) => p \in conn'[k].downBy
              /\ p \in conn'[k].downBy =>
                   p \in conn[k].downBy \/ \E o \in objects : Of(o) = k
<1>1. conn \in Seq(Connection) /\ DOMAIN conn = 1..Len(conn) /\ Len(conn) \in Nat
  BY DEF Ownership, OwnTypes
<1>2. ASSUME NEW k \in 1..Len(conn)
      PROVE  /\ conn[k] \in Connection
             /\ conn'[k] = [conn[k] EXCEPT !.downBy = DownAfter(objects, k)]
             /\ DownAfter(objects, k) \subseteq conn[k].downBy \cup {p}
             /\ conn[k].downBy \subseteq DownAfter(objects, k)
             /\ (\E o \in objects : Of(o) = k) => p \in DownAfter(objects, k)
             /\ p \in DownAfter(objects, k) =>
                  p \in conn[k].downBy \/ \E o \in objects : Of(o) = k
  <2>1. conn[k] \in Connection
    BY <1>1, ElementType
  <2>2. conn'[k] = [conn[k] EXCEPT !.downBy = DownAfter(objects, k)]
    BY <1>1 DEF Close
  <2> QED BY <2>1, <2>2 DEF DownAfter
<1>3. ASSUME NEW k \in 1..Len(conn)
      PROVE  /\ conn'[k] \in Connection
             /\ conn'[k].from = conn[k].from /\ conn'[k].to = conn[k].to
             /\ conn'[k].accepted <=> conn[k].accepted
             /\ conn'[k].downBy = DownAfter(objects, k)
  <2>1. PICK c \in Connection : c = conn[k]
    BY <1>2
  <2>2. PICK d \in SUBSET (Program \cup {"network"}) : d = DownAfter(objects, k)
    <3>1. conn[k].downBy \subseteq Program \cup {"network"}
      BY <1>2 DEF Connection
    <3>2. DownAfter(objects, k) \subseteq conn[k].downBy \cup {p}
      BY <1>2
    <3>3. DownAfter(objects, k) \in SUBSET (Program \cup {"network"})
      BY <3>1, <3>2
    <3> QED BY <3>3
  <2>3. conn'[k] = [c EXCEPT !.downBy = d]
    BY <1>2, <2>1, <2>2
  <2>4. [c EXCEPT !.downBy = d] \in Connection
    BY DEF Connection
  <2>5. /\ [c EXCEPT !.downBy = d].from = c.from /\ [c EXCEPT !.downBy = d].to = c.to
        /\ [c EXCEPT !.downBy = d].downBy = d
        /\ [c EXCEPT !.downBy = d].accepted = c.accepted
    BY DEF Connection
  <2> QED BY <2>1, <2>2, <2>3, <2>4, <2>5
<1>4. conn' \in Seq(Connection) /\ Len(conn') = Len(conn)
  <2>1. conn' = [k \in 1..Len(conn) |-> conn'[k]]
    BY <1>1 DEF Close
  <2>2. conn' \in [1..Len(conn) -> Connection]
    BY <1>3, <2>1
  <2> QED BY <1>1, <2>2, Mapped
<1> QED BY <1>2, <1>3, <1>4

\* No descriptor, or one that was never connected, is added to one table.
SpentIn(p) == table' = table \/ table' = [table EXCEPT ![p] = Append(@, 0)]

LEMMA SpentTable ==
  ASSUME Ownership, NEW p \in Program, SpentIn(p), ~Full(p) \/ table' = table
  PROVE  /\ table' \in [Program -> Seq(0..MaxConn)]
         /\ \A q \in Program :
              /\ Len(table'[q]) <= MaxFd /\ Len(table'[q]) >= Len(table[q])
              /\ \A fd \in 1..Len(table[q]) : fd \in 1..Len(table'[q]) /\ table'[q][fd] = table[q][fd]
              /\ \A fd \in 1..Len(table'[q]) : fd \notin 1..Len(table[q]) => table'[q][fd] = 0
<1>1. /\ table \in [Program -> Seq(0..MaxConn)]
      /\ \A q \in Program : table[q] \in Seq(0..MaxConn) /\ Len(table[q]) \in Nat /\ Len(table[q]) <= MaxFd
  BY DEF Ownership, OwnTypes
<1>2. CASE table' = table
  BY <1>1, <1>2
<1>3. CASE ~Full(p) /\ table' = [table EXCEPT ![p] = Append(@, 0)]
  <2>1. 0 \in 0..MaxConn /\ Len(table[p]) < MaxFd
    BY <1>1, <1>3, SocketsAssumption DEF Full
  <2>2. /\ Append(table[p], 0) \in Seq(0..MaxConn)
        /\ Len(Append(table[p], 0)) = Len(table[p]) + 1
        /\ \A i \in 1..Len(table[p]) : Append(table[p], 0)[i] = table[p][i]
        /\ Append(table[p], 0)[Len(table[p]) + 1] = 0
    BY <1>1, <2>1, Appended
  <2>3. /\ table' \in [Program -> Seq(0..MaxConn)]
        /\ table'[p] = Append(table[p], 0) /\ \A q \in Program \ {p} : table'[q] = table[q]
    BY <1>1, <1>3, <2>2
  <2>4. ASSUME NEW q \in Program
        PROVE  /\ Len(table'[q]) <= MaxFd /\ Len(table'[q]) >= Len(table[q])
               /\ \A fd \in 1..Len(table[q]) : fd \in 1..Len(table'[q]) /\ table'[q][fd] = table[q][fd]
               /\ \A fd \in 1..Len(table'[q]) : fd \notin 1..Len(table[q]) => table'[q][fd] = 0
    <3>1. CASE q = p
      <4>1. PICK m \in Nat : m = Len(table[p])
        BY <1>1
      <4>2. /\ Len(table'[q]) = m + 1 /\ m < MaxFd
            /\ \A fd \in 1..m : table'[q][fd] = table[q][fd]
            /\ table'[q][m + 1] = 0
        BY <2>1, <2>2, <2>3, <3>1, <4>1
      <4>3. \A fd \in 1..(m + 1) : fd \notin 1..m => fd = m + 1
        OBVIOUS
      <4> QED BY <3>1, <4>1, <4>2, <4>3, SocketsAssumption
    <3>2. CASE q # p
      BY <1>1, <2>3, <3>2
    <3> QED BY <3>1, <3>2
  <2> QED BY <2>3, <2>4
<1> QED BY <1>2, <1>3 DEF SpentIn

\* Sockets of a program are closed, and a descriptor may be spent.
LEMMA CloseOwned ==
  ASSUME Ownership, NEW p \in Program, NEW objects \in SUBSET Object,
         \A o \in objects : o[1] = p, Close(objects),
         SpentIn(p), ~Full(p) \/ table' = table, running' = running
  PROVE  Ownership' /\ Grows
<1>1. /\ object' \in [Object -> {INVALID_SOCKET} \cup Fd]
      /\ \A o \in objects : object'[o] = INVALID_SOCKET
      /\ \A o \in Object \ objects : object'[o] = object[o]
  BY DEF Close, Ownership, OwnTypes
<1>2. /\ conn' \in Seq(Connection) /\ Len(conn') = Len(conn)
      /\ \A k \in 1..Len(conn) :
           /\ conn'[k].from = conn[k].from /\ conn'[k].to = conn[k].to
           /\ conn'[k].accepted <=> conn[k].accepted
           /\ conn[k].downBy \subseteq conn'[k].downBy
           /\ conn'[k].downBy \subseteq conn[k].downBy \cup {p}
           /\ (\E o \in objects : Of(o) = k) => p \in conn'[k].downBy
           /\ p \in conn'[k].downBy =>
                p \in conn[k].downBy \/ \E o \in objects : Of(o) = k
  BY ClosedConns
<1>3. /\ table' \in [Program -> Seq(0..MaxConn)]
      /\ \A q \in Program :
           /\ Len(table'[q]) <= MaxFd /\ Len(table'[q]) >= Len(table[q])
           /\ \A fd \in 1..Len(table[q]) : fd \in 1..Len(table'[q]) /\ table'[q][fd] = table[q][fd]
           /\ \A fd \in 1..Len(table'[q]) : fd \notin 1..Len(table[q]) => table'[q][fd] = 0
  BY SpentTable
<1>4. ASSUME NEW o \in Object
      PROVE  /\ o[1] \in Program /\ Len(table[o[1]]) \in Nat /\ Len(table'[o[1]]) \in Nat
             /\ object[o] <= Len(table[o[1]]) /\ object[o] \in Nat
  <2>1. o[1] \in Program /\ table[o[1]] \in Seq(0..MaxConn) /\ table'[o[1]] \in Seq(0..MaxConn)
    BY <1>3, ObjectNames DEF Ownership, OwnTypes
  <2>2. object[o] \in {0} \cup 1..MaxFd
    BY DEF Ownership, OwnTypes, INVALID_SOCKET, Fd
  <2>3. object[o] <= Len(table[o[1]]) /\ object[o] \in Nat
    BY <2>2, SocketsAssumption DEF Ownership, OwnTypes
  <2> QED BY <2>1, <2>3
<1>5. OwnTypes'
  <2>1. ASSUME NEW o \in Object PROVE object'[o] <= Len(table'[o[1]])
    <3>1. object'[o] = object[o] \/ object'[o] = 0
      BY <1>1 DEF INVALID_SOCKET
    <3>2. Len(table'[o[1]]) >= Len(table[o[1]])
      BY <1>3, <1>4
    <3> QED BY <1>4, <3>1, <3>2
  <2>2. Len(conn') <= MaxConn
    BY <1>2 DEF Ownership, OwnTypes
  <2> QED BY <1>1, <1>2, <1>3, <2>1, <2>2 DEF OwnTypes
<1>6. EntriesOK'
  <2>1. \A k \in 1..Len(conn') : conn'[k].from # conn'[k].to
    BY <1>2 DEF Ownership, EntriesOK
  <2>2. ASSUME NEW q \in Program, NEW fd \in 1..Len(table'[q]), table'[q][fd] # 0
        PROVE  /\ table'[q][fd] <= Len(conn')
               /\ \/ q = conn'[table'[q][fd]].from
                  \/ q = conn'[table'[q][fd]].to /\ conn'[table'[q][fd]].accepted
    <3>1. fd \in 1..Len(table[q]) /\ table'[q][fd] = table[q][fd]
      BY <1>3, <2>2
    <3>2. table[q][fd] <= Len(conn) /\ PartyTo(q, table[q][fd])
      BY <2>2, <3>1 DEF Ownership, EntriesOK
    <3>3. table[q][fd] \in 1..Len(conn)
      <4>1. table[q] \in Seq(0..MaxConn)
        BY DEF Ownership, OwnTypes
      <4>2. table[q][fd] \in 0..MaxConn
        BY <3>1, <4>1, ElementType
      <4> QED BY <2>2, <3>1, <3>2, <4>2, SocketsAssumption
    <3> QED BY <1>2, <3>1, <3>2, <3>3 DEF PartyTo
  <2> QED BY <2>1, <2>2 DEF EntriesOK, PartyTo
<1>7. OneDescriptor'
  <2> SUFFICES ASSUME NEW q \in Program, NEW f \in 1..Len(table'[q]), NEW g \in 1..Len(table'[q]),
                      table'[q][f] = table'[q][g], table'[q][f] # 0
               PROVE  f = g
    BY DEF OneDescriptor
  <2>1. /\ f \in 1..Len(table[q]) /\ g \in 1..Len(table[q])
        /\ table'[q][f] = table[q][f] /\ table'[q][g] = table[q][g]
    BY <1>3
  <2> QED BY <2>1 DEF Ownership, OneDescriptor
<1>8. OneOwner'
  BY <1>1 DEF Ownership, OneOwner
<1>9. ASSUME NEW o \in Object, Of(o)' # 0
      PROVE  o \notin objects /\ Of(o) # 0 /\ Of(o)' = Of(o) /\ ~IsFree(o)
  <2>1. o \notin objects
    BY <1>1, <1>9 DEF Of
  <2>2. object'[o] = object[o] /\ object[o] # INVALID_SOCKET
    BY <1>1, <1>9, <2>1 DEF Of
  <2>3. object[o] \in 1..Len(table[o[1]])
    BY <2>2, HeldEntry DEF IsFree
  <2>4. table'[o[1]][object[o]] = table[o[1]][object[o]]
    BY <1>3, <1>4, <2>3
  <2> QED BY <1>9, <2>1, <2>2, <2>4 DEF Of, IsFree
<1>10. HeldIsUp'
  <2> SUFFICES ASSUME NEW o \in Object, Of(o)' # 0 PROVE o[1] \notin conn'[Of(o)'].downBy
    BY DEF HeldIsUp
  <2>1. /\ o \notin objects /\ Of(o) # 0 /\ Of(o)' = Of(o) /\ ~IsFree(o)
        /\ Of(o) \in 1..Len(conn) /\ o[1] \notin conn[Of(o)].downBy
    BY <1>9, HeldEntry DEF Ownership, HeldIsUp
  <2>2. ASSUME o[1] = p, NEW x \in objects, Of(x) = Of(o) PROVE FALSE
    <3>1. x[1] = p /\ ~IsFree(x)
      BY <2>1, <2>2 DEF Of, IsFree
    <3>2. /\ object[x] \in 1..Len(table[p]) /\ Of(x) = table[p][object[x]]
          /\ object[o] \in 1..Len(table[p]) /\ Of(o) = table[p][object[o]]
      BY <2>1, <2>2, <3>1, HeldEntry
    <3>3. object[x] = object[o]
      BY <2>1, <2>2, <3>2 DEF Ownership, OneDescriptor
    <3>4. x = o
      BY <2>2, <3>1, <3>3 DEF Ownership, OneOwner, IsFree
    <3> QED BY <2>1, <3>4
  <2>3. CASE o[1] = p
    BY <1>2, <2>1, <2>2, <2>3
  <2>4. CASE o[1] # p
    BY <1>2, <2>1, <2>4
  <2> QED BY <2>3, <2>4
<1>11. ForgottenIsDown'
  <2> SUFFICES ASSUME NEW q \in Program, NEW fd \in 1..Len(table'[q]), table'[q][fd] # 0, ~Held(q, fd)'
               PROVE  conn'[table'[q][fd]].downBy # {}
    BY DEF ForgottenIsDown, Down
  <2>1. /\ fd \in 1..Len(table[q]) /\ table'[q][fd] = table[q][fd]
        /\ table[q][fd] \in 1..Len(conn)
    <3>1. fd \in 1..Len(table[q]) /\ table'[q][fd] = table[q][fd]
      BY <1>3
    <3>2. table[q] \in Seq(0..MaxConn)
      BY DEF Ownership, OwnTypes
    <3>3. table[q][fd] \in 0..MaxConn /\ table[q][fd] <= Len(conn)
      BY <3>1, <3>2, ElementType DEF Ownership, EntriesOK
    <3> QED BY <3>1, <3>3, SocketsAssumption
  <2>2. CASE ~Held(q, fd)
    <3>1. Down(table[q][fd])
      BY <2>1, <2>2 DEF Ownership, ForgottenIsDown
    <3> QED BY <1>2, <2>1, <3>1 DEF Down
  <2>3. CASE Held(q, fd)
    <3>1. PICK o \in Object : o[1] = q /\ object[o] = fd
      BY <2>3 DEF Held, ObjectsIn
    <3>2. \A n \in Object : n[1] = q => object'[n] # fd
      BY DEF Held, ObjectsIn
    <3>3. o \in objects
      BY <1>1, <3>1, <3>2
    <3>4. Of(o) = table[q][fd]
      BY <2>1, <3>1 DEF Of, INVALID_SOCKET
    <3> QED BY <1>2, <2>1, <3>3, <3>4 DEF Down
  <2> QED BY <2>2, <2>3
<1>12. NotYetShut'
  <2> SUFFICES ASSUME NEW k \in 1..Len(conn'), conn'[k].to \in conn'[k].downBy, running[conn'[k].to]
               PROVE  conn'[k].accepted
    BY DEF NotYetShut
  <2>1. k \in 1..Len(conn) /\ conn'[k].to = conn[k].to
    BY <1>2
  <2>2. conn[k].accepted
    <3>1. CASE conn[k].to \in conn[k].downBy
      BY <2>1, <3>1 DEF Ownership, NotYetShut
    <3>2. CASE conn[k].to \notin conn[k].downBy
      <4>1. conn[k].to = p
        BY <1>2, <2>1, <3>2
      <4>2. PICK o \in objects : Of(o) = k
        BY <1>2, <2>1, <3>2, <4>1
      <4>3. o[1] = p /\ ~IsFree(o) /\ k # 0
        BY <2>1, <4>2 DEF Of, IsFree
      <4>4. object[o] \in 1..Len(table[p]) /\ table[p][object[o]] = k
        BY <4>2, <4>3, HeldEntry
      <4>5. PartyTo(p, k) /\ conn[k].from # conn[k].to
        BY <2>1, <4>3, <4>4 DEF Ownership, EntriesOK
      <4> QED BY <4>1, <4>5 DEF PartyTo
    <3> QED BY <3>1, <3>2
  <2> QED BY <1>2, <2>1, <2>2
<1>13. Grows
  <2>1. \A q \in Program : Len(table'[q]) \in Nat
    BY <1>3
  <2>2. Len(conn') >= Len(conn)
    BY <1>2 DEF Ownership, OwnTypes
  <2>3. \A k \in 1..Len(conn) : conn[k].downBy # {} => conn'[k].downBy # {}
    BY <1>2
  <2> QED BY <1>3, <2>1, <2>2, <2>3 DEF Grows
<1> QED BY <1>5, <1>6, <1>7, <1>8, <1>10, <1>11, <1>12, <1>13 DEF Ownership

\* A connection is added, which one new descriptor of p is for, held by o.
LEMMA OpenOwned ==
  ASSUME Ownership, NEW p \in Program, NEW o \in Object, o[1] = p, IsFree(o), ~Full(p),
         NEW k \in 1..MaxConn,
         table' = [table EXCEPT ![p] = Append(@, k)],
         object' = [object EXCEPT ![o] = OpenedNext(p)],
         conn' \in Seq(Connection), k <= Len(conn'),
         Len(conn) <= Len(conn'), Len(conn') <= MaxConn,
         \A j \in 1..Len(conn) :
           /\ conn'[j].from = conn[j].from /\ conn'[j].to = conn[j].to
           /\ conn'[j].downBy = conn[j].downBy
           /\ conn[j].accepted => conn'[j].accepted,
         \A j \in 1..Len(conn') : conn'[j].from # conn'[j].to,
         p = conn'[k].from \/ (p = conn'[k].to /\ conn'[k].accepted),
         p \notin conn'[k].downBy, NotYetShut',
         \A fd \in 1..Len(table[p]) : table[p][fd] # k
  PROVE  Ownership' /\ Grows
<1>1. /\ table \in [Program -> Seq(0..MaxConn)]
      /\ \A q \in Program : table[q] \in Seq(0..MaxConn) /\ Len(table[q]) \in Nat
                            /\ Len(table[q]) <= MaxFd
      /\ conn \in Seq(Connection) /\ Len(conn) \in Nat /\ Len(conn') \in Nat
      /\ MaxFd \in Nat /\ MaxConn \in Nat
  BY SocketsAssumption DEF Ownership, OwnTypes
<1>2. PICK m \in Nat : m = Len(table[p])
  BY <1>1
<1>3. m < MaxFd /\ OpenedNext(p) = m + 1 /\ m + 1 \in Fd
  BY <1>1, <1>2 DEF Full, OpenedNext, Fd
<1>4. /\ table' \in [Program -> Seq(0..MaxConn)]
      /\ Len(table'[p]) = m + 1 /\ table'[p][m + 1] = k
      /\ \A fd \in 1..m : table'[p][fd] = table[p][fd]
      /\ \A q \in Program \ {p} : table'[q] = table[q]
  <2>1. k \in 0..MaxConn
    OBVIOUS
  <2>2. /\ Append(table[p], k) \in Seq(0..MaxConn) /\ Len(Append(table[p], k)) = m + 1
        /\ \A i \in 1..m : Append(table[p], k)[i] = table[p][i]
        /\ Append(table[p], k)[m + 1] = k
    BY <1>1, <1>2, <2>1, Appended
  <2> QED BY <1>1, <2>2
<1>5. /\ object' \in [Object -> {INVALID_SOCKET} \cup Fd] /\ object'[o] = m + 1
      /\ \A n \in Object \ {o} : object'[n] = object[n]
  BY <1>3 DEF Ownership, OwnTypes
<1>6. ASSUME NEW n \in Object
      PROVE  n[1] \in Program /\ object[n] <= Len(table[n[1]]) /\ object[n] \in Nat
  BY <1>1, ObjectNames DEF Ownership, OwnTypes, INVALID_SOCKET, Fd
<1>7. \A fd \in 1..(m + 1) : fd \in 1..m \/ fd = m + 1
  OBVIOUS
<1>8. OwnTypes'
  <2>1. ASSUME NEW q \in Program PROVE Len(table'[q]) <= MaxFd /\ Len(table'[q]) >= Len(table[q])
    BY <1>1, <1>2, <1>3, <1>4
  <2>2. ASSUME NEW n \in Object PROVE object'[n] <= Len(table'[n[1]])
    <3>1. CASE n = o
      BY <1>4, <1>5, <3>1
    <3>2. CASE n # o
      <4>1. table'[n[1]] \in Seq(0..MaxConn)
        BY <1>4, <1>6
      <4> QED BY <1>1, <1>5, <1>6, <2>1, <3>2, <4>1
    <3> QED BY <3>1, <3>2
  <2> QED BY <1>4, <1>5, <2>1, <2>2 DEF OwnTypes
<1>9. ASSUME NEW q \in Program, NEW fd \in 1..Len(table[q]), table[q][fd] # 0
      PROVE  table[q][fd] \in 1..Len(conn) /\ PartyTo(q, table[q][fd])
  <2>1. table[q][fd] \in 0..MaxConn
    BY <1>1, ElementType
  <2> QED BY <1>1, <1>9, <2>1 DEF Ownership, EntriesOK
<1>10. ASSUME NEW q \in Program, NEW fd \in 1..Len(table'[q])
       PROVE  \/ q = p /\ fd = m + 1 /\ table'[q][fd] = k
              \/ fd \in 1..Len(table[q]) /\ table'[q][fd] = table[q][fd]
  BY <1>2, <1>4, <1>7
<1>11. EntriesOK'
  <2>1. ASSUME NEW q \in Program, NEW fd \in 1..Len(table'[q]), table'[q][fd] # 0
        PROVE  /\ table'[q][fd] <= Len(conn')
               /\ \/ q = conn'[table'[q][fd]].from
                  \/ q = conn'[table'[q][fd]].to /\ conn'[table'[q][fd]].accepted
    <3>1. CASE q = p /\ table'[q][fd] = k
      BY <3>1
    <3>2. CASE fd \in 1..Len(table[q]) /\ table'[q][fd] = table[q][fd]
      <4>1. table[q][fd] \in 1..Len(conn) /\ PartyTo(q, table[q][fd])
        BY <1>9, <2>1, <3>2
      <4>2. PICK j \in 1..Len(conn) : j = table[q][fd]
        BY <4>1
      <4>3. j <= Len(conn')
        BY <1>1
      <4>4. CASE q = conn[j].from
        BY <3>2, <4>2, <4>3, <4>4
      <4>5. CASE q = conn[j].to /\ conn[j].accepted
        <5>1. q = conn'[j].to /\ conn'[j].accepted
          BY <4>5
        <5> QED BY <3>2, <4>2, <4>3, <5>1
      <4> QED BY <4>1, <4>2, <4>4, <4>5 DEF PartyTo
    <3> QED BY <1>10, <3>1, <3>2
  <2> QED BY <2>1 DEF EntriesOK, PartyTo
<1>12. OneDescriptor'
  <2> SUFFICES ASSUME NEW q \in Program, NEW f \in 1..Len(table'[q]), NEW g \in 1..Len(table'[q]),
                      table'[q][f] = table'[q][g], table'[q][f] # 0
               PROVE  f = g
    BY DEF OneDescriptor
  <2>1. CASE f \in 1..Len(table[q]) /\ g \in 1..Len(table[q])
             /\ table'[q][f] = table[q][f] /\ table'[q][g] = table[q][g]
    BY <2>1 DEF Ownership, OneDescriptor
  <2> QED BY <1>10, <2>1
<1>13. OneOwner'
  <2> SUFFICES ASSUME NEW n \in Object, NEW x \in Object, n[1] = x[1], object'[n] = object'[x],
                      object'[n] # INVALID_SOCKET
               PROVE  n = x
    BY DEF OneOwner
  <2>1. \A y \in Object : y[1] = p => object[y] # m + 1
    BY <1>2, <1>6
  <2> QED BY <1>5, <2>1 DEF Ownership, OneOwner
<1>14. ASSUME NEW n \in Object, n # o
       PROVE  Of(n)' = Of(n) /\ (Of(n) # 0 => Of(n) \in 1..Len(conn))
  <2>1. CASE IsFree(n)
    BY <1>5, <1>14, <2>1 DEF Of, IsFree
  <2>2. CASE ~IsFree(n)
    <3>1. object[n] \in 1..Len(table[n[1]]) /\ (Of(n) # 0 => Of(n) \in 1..Len(conn))
      BY <2>2, HeldEntry
    <3>2. table'[n[1]][object[n]] = table[n[1]][object[n]]
      BY <1>2, <1>4, <1>6, <3>1
    <3> QED BY <1>5, <1>14, <2>2, <3>1, <3>2 DEF Of, IsFree
  <2> QED BY <2>1, <2>2
<1>15. HeldIsUp'
  <2> SUFFICES ASSUME NEW n \in Object, Of(n)' # 0 PROVE n[1] \notin conn'[Of(n)'].downBy
    BY DEF HeldIsUp
  <2>1. CASE n = o
    <3>1. Of(o)' = k
      BY <1>4, <1>5 DEF Of, INVALID_SOCKET
    <3> QED BY <2>1, <3>1
  <2>2. CASE n # o
    BY <1>14, <2>2 DEF Ownership, HeldIsUp
  <2> QED BY <2>1, <2>2
<1>16. ForgottenIsDown'
  <2> SUFFICES ASSUME NEW q \in Program, NEW fd \in 1..Len(table'[q]), table'[q][fd] # 0, ~Held(q, fd)'
               PROVE  conn'[table'[q][fd]].downBy # {}
    BY DEF ForgottenIsDown, Down
  <2>1. \A n \in Object : n[1] = q => object'[n] # fd
    BY DEF Held, ObjectsIn
  <2>2. fd \in 1..Len(table[q]) /\ table'[q][fd] = table[q][fd]
    BY <1>5, <1>10, <2>1
  <2>3. \A n \in Object : n[1] = q => object[n] # fd
    BY <1>5, <2>1, <2>2 DEF IsFree, INVALID_SOCKET
  <2>4. ~Held(q, fd)
    BY <2>3 DEF Held, ObjectsIn
  <2>5. conn[table[q][fd]].downBy # {}
    BY <2>2, <2>4 DEF Ownership, ForgottenIsDown, Down
  <2> QED BY <1>9, <2>2, <2>5
<1>17. Grows
  <2>1. \A q \in Program :
          /\ Len(table'[q]) \in Nat /\ Len(table'[q]) >= Len(table[q])
          /\ \A fd \in 1..Len(table[q]) : table'[q][fd] = table[q][fd]
    BY <1>1, <1>2, <1>4
  <2> QED BY <1>1, <2>1 DEF Grows
<1> QED BY <1>8, <1>11, <1>12, <1>13, <1>15, <1>16, <1>17 DEF Ownership

\* A new connection has no descriptor yet.
LEMMA ConnectOwned ==
  ASSUME Ownership, NEW o \in Object, NEW q \in Acceptor, o[1] # q, IsFree(o), Connects(q, o),
         running' = running
  PROVE  Ownership' /\ Grows
<1>1. /\ o[1] \in Program /\ q \in Program
      /\ table[o[1]] \in Seq(0..MaxConn) /\ conn \in Seq(Connection) /\ Len(conn) \in Nat
  BY ObjectNames DEF Ownership, OwnTypes
<1>2. PICK k \in Nat : k = Len(conn) + 1
  BY <1>1
<1>3. /\ k \in 1..MaxConn /\ ~Full(o[1])
      /\ table' = [table EXCEPT ![o[1]] = Append(@, k)]
      /\ object' = [object EXCEPT ![o] = OpenedNext(o[1])]
      /\ conn' = Append(conn, NewConn(o[1], q))
  BY <1>1, <1>2, SocketsAssumption DEF Connects
<1>4. /\ NewConn(o[1], q) \in Connection
      /\ NewConn(o[1], q).from = o[1] /\ NewConn(o[1], q).to = q
      /\ NewConn(o[1], q).downBy = {}
  BY <1>1 DEF NewConn, Connection
<1>5. /\ conn' \in Seq(Connection) /\ Len(conn') = k
      /\ \A j \in 1..Len(conn) : conn'[j] = conn[j]
      /\ conn'[k] = NewConn(o[1], q)
  BY <1>1, <1>2, <1>3, <1>4, Appended
<1>6. \A j \in 1..Len(conn') : conn'[j].from # conn'[j].to
  <2>1. \A j \in 1..k : j \in 1..Len(conn) \/ j = k
    BY <1>1, <1>2
  <2> QED BY <1>4, <1>5, <2>1 DEF Ownership, EntriesOK
<1>7. \A fd \in 1..Len(table[o[1]]) : table[o[1]][fd] # k
  <2> SUFFICES ASSUME NEW fd \in 1..Len(table[o[1]]), table[o[1]][fd] = k PROVE FALSE
    OBVIOUS
  <2>1. k # 0 /\ ~(k <= Len(conn))
    BY <1>1, <1>2
  <2> QED BY <1>1, <2>1 DEF Ownership, EntriesOK
<1>8. /\ k <= Len(conn') /\ Len(conn) <= Len(conn') /\ Len(conn') <= MaxConn
  BY <1>1, <1>2, <1>3, <1>5
<1>9. Ownership' /\ Grows
  <2>1. o[1] = conn'[k].from /\ o[1] \notin conn'[k].downBy
    BY <1>4, <1>5
  <2>2. \A j \in 1..Len(conn) :
           /\ conn'[j].from = conn[j].from /\ conn'[j].to = conn[j].to
           /\ conn'[j].downBy = conn[j].downBy
           /\ conn[j].accepted => conn'[j].accepted
    BY <1>5
  <2>3. NotYetShut'
    <3>1. \A j \in 1..k : j \in 1..Len(conn) \/ j = k
      BY <1>1, <1>2
    <3> QED BY <1>4, <1>5, <3>1 DEF Ownership, NotYetShut
  <2> QED BY <1>1, <1>3, <1>5, <1>6, <1>7, <1>8, <2>1, <2>2, <2>3, OpenOwned
<1> QED BY <1>9

\* An acceptor has no descriptor yet of a connection that waits.
LEMMA AcceptOwned ==
  ASSUME Ownership, NEW p \in Acceptor, IsFree(MainObject(p)), Accept(p)
  PROVE  /\ Ownership' /\ Grows /\ object'[MainObject(p)] = Len(table[p]) + 1
         /\ Len(table[p]) + 1 \in Fd /\ Len(table'[p]) = Len(table[p]) + 1
<1> DEFINE o == MainObject(p)
<1>1. /\ p \in Program /\ o \in Object /\ o[1] = p
      /\ table \in [Program -> Seq(0..MaxConn)]
      /\ table[p] \in Seq(0..MaxConn) /\ conn \in Seq(Connection) /\ Len(conn) \in Nat
      /\ Len(conn) <= MaxConn /\ object \in [Object -> {INVALID_SOCKET} \cup Fd]
  <2>1. p \in Program /\ o \in Object
    BY ObjectNames
  <2>2. o[1] = p
    BY Differ
  <2> QED BY <2>1, <2>2 DEF Ownership, OwnTypes
<1>2. PICK k \in 1..Len(conn) :
        /\ ~Full(p) /\ Oldest(p, k)
        /\ conn' = [conn EXCEPT ![k].accepted = TRUE]
        /\ table' = [table EXCEPT ![p] = Append(@, k)]
        /\ object' = [object EXCEPT ![o] = OpenedNext(p)]
  <2>1. DOMAIN conn = 1..Len(conn)
    BY <1>1
  <2> QED BY <2>1, Zenon DEF Accept, MainObject
<1>3. conn[k].to = p /\ ~conn[k].accepted
  BY <1>2 DEF Oldest, Waiting
<1>4. conn[k] \in Connection
  BY <1>1, ElementType
<1>5. PICK c \in Connection : c = [conn[k] EXCEPT !.accepted = TRUE]
  BY <1>4 DEF Connection
<1>6. c.from = conn[k].from /\ c.to = conn[k].to /\ c.downBy = conn[k].downBy
  BY <1>4, <1>5 DEF Connection
<1>7. c.accepted
  BY <1>4, <1>5 DEF Connection
<1>8. conn' = [conn EXCEPT ![k] = c]
  BY <1>2, <1>5
<1>9. /\ conn' \in Seq(Connection) /\ Len(conn') = Len(conn) /\ conn'[k] = c
      /\ \A j \in 1..Len(conn) : j # k => conn'[j] = conn[j]
  BY <1>1, <1>8
<1>10. \A j \in 1..Len(conn) :
         /\ conn'[j].from = conn[j].from /\ conn'[j].to = conn[j].to
         /\ conn'[j].downBy = conn[j].downBy
  BY <1>6, <1>9
<1>11. \A j \in 1..Len(conn) : conn[j].accepted => conn'[j].accepted
  BY <1>7, <1>9
<1>12. \A j \in 1..Len(conn') : conn'[j].from # conn'[j].to
  BY <1>9, <1>10 DEF Ownership, EntriesOK
<1>13. \A fd \in 1..Len(table[p]) : table[p][fd] # k
  <2> SUFFICES ASSUME NEW fd \in 1..Len(table[p]), table[p][fd] = k PROVE FALSE
    OBVIOUS
  <2>1. PartyTo(p, k)
    BY <1>1 DEF Ownership, EntriesOK
  <2>2. conn[k].from # conn[k].to
    BY DEF Ownership, EntriesOK
  <2> QED BY <1>3, <2>1, <2>2 DEF PartyTo
<1>14. p \notin conn'[k].downBy /\ running[p]
  <2>1. running[p]
    BY DEF Accept
  <2> QED BY <1>3, <1>10, <2>1 DEF Ownership, NotYetShut
<1>15. NotYetShut'
  <2>1. running' = running
    BY DEF Accept
  <2> QED BY <1>9, <1>10, <1>11, <2>1 DEF Ownership, NotYetShut
<1>16. Ownership' /\ Grows
  <2>1. k \in 1..MaxConn /\ k <= Len(conn') /\ Len(conn) <= Len(conn') /\ Len(conn') <= MaxConn
    BY <1>1, <1>9, SocketsAssumption
  <2>2. conn'[k].to = p /\ conn'[k].accepted
    BY <1>3, <1>7, <1>9, <1>10
  <2>3. \A j \in 1..Len(conn) :
           /\ conn'[j].from = conn[j].from /\ conn'[j].to = conn[j].to
           /\ conn'[j].downBy = conn[j].downBy
           /\ conn[j].accepted => conn'[j].accepted
    BY <1>10, <1>11
  <2> QED BY <1>1, <1>2, <1>9, <1>12, <1>13, <1>14, <1>15, <2>1, <2>2, <2>3, OpenOwned
<1>17. /\ object'[o] = Len(table[p]) + 1
       /\ Len(table[p]) + 1 \in Fd /\ Len(table'[p]) = Len(table[p]) + 1
  <2>1. Len(table[p]) < MaxFd /\ Len(table[p]) \in Nat
    BY <1>1, <1>2, SocketsAssumption DEF Full, Ownership, OwnTypes
  <2>2. table' = [table EXCEPT ![p] = Append(table[p], k)] /\ k \in 0..MaxConn
    BY <1>1, <1>2, SocketsAssumption
  <2>3. Len(table'[p]) = Len(table[p]) + 1
    BY <1>1, <2>2, Appended
  <2> QED BY <1>1, <1>2, <2>1, <2>3, SocketsAssumption DEF OpenedNext, Fd
<1> QED BY <1>16, <1>17

\* A connection breaks.
LEMMA BreakOwned ==
  ASSUME Ownership, NEW k \in DOMAIN conn, LinkBreaks(k)
  PROVE  Ownership' /\ Grows
<1>1. /\ conn \in Seq(Connection) /\ DOMAIN conn = 1..Len(conn) /\ k \in 1..Len(conn)
      /\ Len(conn) \in Nat /\ conn[k] \in Connection
  <2>1. conn \in Seq(Connection) /\ DOMAIN conn = 1..Len(conn) /\ k \in 1..Len(conn)
    BY DEF Ownership, OwnTypes
  <2> QED BY <2>1, ElementType
<1>2. PICK c \in Connection : c = [conn[k] EXCEPT !.downBy = {"network"}]
  BY <1>1 DEF Connection
<1>3. c.from = conn[k].from /\ c.to = conn[k].to /\ c.downBy = {"network"}
  BY <1>1, <1>2 DEF Connection
<1>4. c.accepted = conn[k].accepted
  BY <1>1, <1>2 DEF Connection
<1>5. conn' = [conn EXCEPT ![k] = c] /\ UNCHANGED <<table, object, running>>
  BY <1>2 DEF LinkBreaks
<1>6. /\ conn' \in Seq(Connection) /\ Len(conn') = Len(conn) /\ conn'[k] = c
      /\ \A j \in 1..Len(conn) : j # k => conn'[j] = conn[j]
  BY <1>1, <1>5
<1>7. "network" \notin Program
  BY DEF Program, Acceptor
<1>8. ASSUME NEW j \in 1..Len(conn)
      PROVE  /\ conn'[j].from = conn[j].from /\ conn'[j].to = conn[j].to
             /\ conn[j].downBy # {} => conn'[j].downBy # {}
             /\ \A p \in Program : p \in conn'[j].downBy => p \in conn[j].downBy
  BY <1>3, <1>6, <1>7
<1>9. ASSUME NEW j \in 1..Len(conn) PROVE conn'[j].accepted = conn[j].accepted
  BY <1>4, <1>6
<1>10. OwnTypes' /\ OneDescriptor' /\ OneOwner'
  BY <1>5, <1>6 DEF Ownership, OwnTypes, OneDescriptor, OneOwner
<1>11. ASSUME NEW p \in Program, NEW fd \in 1..Len(table[p]), table[p][fd] # 0
       PROVE  table[p][fd] \in 1..Len(conn)
  <2>1. table[p] \in Seq(0..MaxConn)
    BY DEF Ownership, OwnTypes
  <2>2. table[p][fd] \in 0..MaxConn /\ table[p][fd] <= Len(conn)
    BY <1>11, <2>1, ElementType DEF Ownership, EntriesOK
  <2> QED BY <1>11, <2>2, SocketsAssumption
<1>12. EntriesOK'
  BY <1>5, <1>6, <1>8, <1>9, <1>11 DEF Ownership, EntriesOK, PartyTo
<1>13. HeldIsUp'
  <2> SUFFICES ASSUME NEW o \in Object, Of(o) # 0 PROVE o[1] \notin conn'[Of(o)].downBy
    BY <1>5 DEF HeldIsUp, Of
  <2>1. ~IsFree(o) /\ o[1] \in Program
    BY ObjectNames DEF Of, IsFree
  <2>2. Of(o) \in 1..Len(conn)
    BY <2>1, HeldEntry
  <2> QED BY <1>8, <2>1, <2>2 DEF Ownership, HeldIsUp
<1>14. NotYetShut'
  <2> SUFFICES ASSUME NEW j \in 1..Len(conn), conn'[j].to \in conn'[j].downBy, running[conn'[j].to]
               PROVE  conn'[j].accepted
    BY <1>5, <1>6 DEF NotYetShut
  <2>1. conn[j].to \in Program
    <3>1. PICK d \in Connection : d = conn[j]
      BY <1>1, ElementType
    <3> QED BY <3>1, ObjectNames DEF Connection
  <2> QED BY <1>8, <1>9, <2>1 DEF Ownership, NotYetShut
<1>15. ForgottenIsDown'
  BY <1>5, <1>8, <1>11 DEF Ownership, ForgottenIsDown, Down, Held
<1>16. Grows
  <2>1. \A p \in Program : Len(table[p]) \in Nat
    BY DEF Ownership, OwnTypes
  <2> QED BY <1>1, <1>5, <1>6, <1>8, <2>1 DEF Grows
<1> QED BY <1>10, <1>12, <1>13, <1>14, <1>15, <1>16 DEF Ownership

\* The server dies: all it had is shut down, and nothing is left of it.
LEMMA AbortOwned ==
  ASSUME Ownership, running \in [Program -> BOOLEAN], Abort
  PROVE  Ownership'
<1>1. /\ conn \in Seq(Connection) /\ DOMAIN conn = 1..Len(conn) /\ Len(conn) \in Nat
      /\ table \in [Program -> Seq(0..MaxConn)] /\ "server" \in Program
      /\ object \in [Object -> {INVALID_SOCKET} \cup Fd]
      /\ \A p \in Program : table[p] \in Seq(0..MaxConn)
  BY ObjectNames DEF Ownership, OwnTypes, Acceptor
<1>2. /\ table' = [table EXCEPT !["server"] = <<>>]
      /\ object' = [o \in Object |-> IF o[1] = "server" THEN INVALID_SOCKET ELSE object[o]]
      /\ running' = [running EXCEPT !["server"] = FALSE]
      /\ conn' = [k \in 1..Len(conn) |->
                   IF "server" \in {conn[k].from, conn[k].to}
                   THEN [conn[k] EXCEPT !.downBy = @ \cup {"server"}] ELSE conn[k]]
  BY <1>1 DEF Abort
<1>3. ASSUME NEW k \in 1..Len(conn)
      PROVE  /\ conn'[k] \in Connection
             /\ conn'[k].from = conn[k].from /\ conn'[k].to = conn[k].to
             /\ conn'[k].accepted = conn[k].accepted
             /\ conn[k].downBy \subseteq conn'[k].downBy
             /\ \A p \in Program : p # "server" /\ p \in conn'[k].downBy => p \in conn[k].downBy
  <2>1. PICK c \in Connection : c = conn[k]
    BY <1>1, ElementType
  <2>2. PICK d \in SUBSET (Program \cup {"network"}) : d = c.downBy \cup {"server"}
    BY <1>1 DEF Connection
  <2>3. PICK e \in Connection : e = [c EXCEPT !.downBy = d]
    BY DEF Connection
  <2>4. e.from = c.from /\ e.to = c.to /\ e.downBy = d
    BY <2>3 DEF Connection
  <2>5. e.accepted = c.accepted
    BY <2>3 DEF Connection
  <2>6. conn'[k] = e \/ conn'[k] = c
    BY <1>2, <2>1, <2>2, <2>3
  <2> QED BY <2>1, <2>2, <2>4, <2>5, <2>6
<1>4. conn' \in Seq(Connection) /\ Len(conn') = Len(conn)
  <2>1. conn' = [k \in 1..Len(conn) |-> conn'[k]]
    BY <1>2
  <2>2. conn' \in [1..Len(conn) -> Connection]
    BY <1>3, <2>1
  <2> QED BY <1>1, <2>2, Mapped
<1>5. /\ table' \in [Program -> Seq(0..MaxConn)] /\ table'["server"] = <<>> /\ Len(table'["server"]) = 0
      /\ \A p \in Program : p # "server" => table'[p] = table[p]
  BY <1>1, <1>2
<1>6. /\ object' \in [Object -> {INVALID_SOCKET} \cup Fd]
      /\ \A o \in Object : o[1] = "server" => object'[o] = INVALID_SOCKET
      /\ \A o \in Object : o[1] # "server" => object'[o] = object[o]
  BY <1>1, <1>2
<1>7. ASSUME NEW p \in Program, NEW fd \in 1..Len(table'[p])
      PROVE  /\ p # "server" /\ table'[p] = table[p]
             /\ table[p][fd] # 0 => table[p][fd] \in 1..Len(conn)
  <2>1. p # "server" /\ table'[p] = table[p]
    BY <1>5
  <2>2. table[p][fd] \in 0..MaxConn
    BY <1>1, <2>1, ElementType
  <2>3. table[p][fd] # 0 => table[p][fd] <= Len(conn)
    BY <2>1 DEF Ownership, EntriesOK
  <2> QED BY <2>1, <2>2, <2>3, SocketsAssumption
<1>8. OwnTypes'
  <2>1. ASSUME NEW o \in Object PROVE object'[o] <= Len(table'[o[1]])
    BY <1>5, <1>6, ObjectNames DEF Ownership, OwnTypes, INVALID_SOCKET
  <2>2. ASSUME NEW p \in Program PROVE Len(table'[p]) <= MaxFd
    <3>1. CASE p = "server"
      BY <1>5, <3>1, SocketsAssumption
    <3>2. CASE p # "server"
      BY <1>5, <3>2 DEF Ownership, OwnTypes
    <3> QED BY <3>1, <3>2
  <2> QED BY <1>4, <1>5, <1>6, <2>1, <2>2 DEF Ownership, OwnTypes
<1>9. EntriesOK'
  <2>1. ASSUME NEW p \in Program, NEW fd \in 1..Len(table'[p]), table'[p][fd] # 0
        PROVE  /\ table'[p][fd] <= Len(conn')
               /\ \/ p = conn'[table'[p][fd]].from
                  \/ p = conn'[table'[p][fd]].to /\ conn'[table'[p][fd]].accepted
    <3>1. table'[p] = table[p] /\ table[p][fd] \in 1..Len(conn)
      BY <1>7, <2>1
    <3>2. table[p][fd] <= Len(conn) /\ PartyTo(p, table[p][fd])
      BY <2>1, <3>1 DEF Ownership, EntriesOK
    <3> QED BY <1>3, <1>4, <3>1, <3>2 DEF PartyTo
  <2>2. \A k \in 1..Len(conn') : conn'[k].from # conn'[k].to
    BY <1>3, <1>4 DEF Ownership, EntriesOK
  <2> QED BY <2>1, <2>2 DEF EntriesOK, PartyTo
<1>10. OneDescriptor'
  BY <1>7 DEF Ownership, OneDescriptor
<1>11. OneOwner'
  BY <1>6 DEF Ownership, OneOwner
<1>12. HeldIsUp'
  <2> SUFFICES ASSUME NEW o \in Object, Of(o)' # 0 PROVE o[1] \notin conn'[Of(o)'].downBy
    BY DEF HeldIsUp
  <2>1. o[1] # "server" /\ object'[o] = object[o] /\ ~IsFree(o) /\ o[1] \in Program
    BY <1>6, ObjectNames DEF Of, IsFree
  <2>2. Of(o)' = Of(o)
    BY <1>5, <2>1 DEF Of, IsFree
  <2>3. Of(o) \in 1..Len(conn)
    BY <2>1, <2>2, HeldEntry
  <2> QED BY <1>3, <2>1, <2>2, <2>3 DEF Ownership, HeldIsUp
<1>13. NotYetShut'
  <2> SUFFICES ASSUME NEW k \in 1..Len(conn), conn'[k].to \in conn'[k].downBy, running'[conn'[k].to]
               PROVE  conn'[k].accepted
    BY <1>4 DEF NotYetShut
  <2>1. conn[k].to \in Program
    <3>1. PICK d \in Connection : d = conn[k]
      BY <1>1, ElementType
    <3> QED BY <3>1, ObjectNames DEF Connection
  <2>2. conn'[k].to = conn[k].to
    BY <1>3
  <2>3. ~running'["server"] /\ \A p \in Program \ {"server"} : running'[p] = running[p]
    BY <1>1, <1>2
  <2>4. conn[k].to # "server" /\ running[conn[k].to]
    BY <2>1, <2>2, <2>3
  <2> QED BY <1>3, <2>1, <2>4 DEF Ownership, NotYetShut
<1>14. ForgottenIsDown'
  <2> SUFFICES ASSUME NEW p \in Program, NEW fd \in 1..Len(table'[p]), table'[p][fd] # 0, ~Held(p, fd)'
               PROVE  conn'[table'[p][fd]].downBy # {}
    BY DEF ForgottenIsDown, Down
  <2>1. p # "server" /\ table'[p] = table[p] /\ table[p][fd] \in 1..Len(conn)
    BY <1>7
  <2>2. ~Held(p, fd)
    BY <1>6, <2>1 DEF Held, ObjectsIn
  <2>3. conn[table[p][fd]].downBy # {}
    BY <2>1, <2>2 DEF Ownership, ForgottenIsDown, Down
  <2> QED BY <1>3, <2>1, <2>3
<1> QED BY <1>8, <1>9, <1>10, <1>11, <1>12, <1>13, <1>14 DEF Ownership

-----------------------------------------------------------------------------
(* Every step *)

LEMMA PcTypes ==
  /\ 0 \in 0..MaxFd /\ \A t \in Fd : t \in 0..MaxFd /\ t # 0
  /\ Active \subseteq Places /\ {"none", "ended", "accepting", "failed", "accepted",
       "spawned", "idle", "assigning", "handshake", "running", "session", "started"} \subseteq Places
  /\ "client" \notin Acceptor /\ "server" \in Acceptor /\ "ttp" \in Acceptor
  /\ "server" # "ttp"
  BY SocketsAssumption DEF Fd, Active, Places, Acceptor

\* The place of one thread changes.
LEMMA PcStep ==
  ASSUME pc \in [Program -> [0..MaxFd -> Places]], NEW p \in Program, NEW t \in 0..MaxFd,
         NEW to \in Places, pc' = [pc EXCEPT ![p][t] = to]
  PROVE  /\ pc' \in [Program -> [0..MaxFd -> Places]]
         /\ pc'[p][t] = to
         /\ \A u \in 0..MaxFd : u # t => pc'[p][u] = pc[p][u]
         /\ \A q \in Program : q # p => pc'[q] = pc[q]
  OBVIOUS

\* A socket that is not healthy does not recover.
LEMMA UnhealthyStays ==
  ASSUME Ownership, Grows, object'[serverSocket] = object[serverSocket], ~isHealthy(serverSocket)
  PROVE  ~isHealthy(serverSocket)'
<1>1. serverSocket \in Object /\ serverSocket[1] = "client" /\ "client" \in Program
  BY ObjectNames, Differ
<1>2. CASE IsFree(serverSocket)
  BY <1>2 DEF IsFree, isHealthy, Of
<1>3. CASE ~IsFree(serverSocket)
  <2>1. /\ object[serverSocket] \in 1..Len(table["client"])
        /\ Of(serverSocket) = table["client"][object[serverSocket]]
        /\ Of(serverSocket) # 0 => Of(serverSocket) \in 1..Len(conn)
    BY <1>1, <1>3, HeldEntry
  <2>2. Of(serverSocket)' = Of(serverSocket)
    BY <1>1, <1>3, <2>1 DEF Grows, Of, IsFree
  <2> QED BY <2>1, <2>2 DEF isHealthy, Grows, Down
<1> QED BY <1>2, <1>3

\* Where objects belong
LEMMA Places2 ==
  ASSUME NEW p, NEW t
  PROVE  /\ MainObject(p)[2] = 0 /\ Argument(p, t)[2] = t /\ Session(p, t)[2] = t
         /\ TtpSocket(t)[2] = t /\ serverSocket[2] = 0 /\ newSocket[2] = 0
         /\ clientTtpSocket[2] = 0
  BY DEF MainObject, Argument, Session, TtpSocket, serverSocket, newSocket, clientTtpSocket

\* A step takes thread t of p from a place to another and changes no other
\* thread's objects.
Steps(p, t, to) ==
  /\ pc' = [pc EXCEPT ![p][t] = to] /\ pc[p][t] # "none" /\ running' = running
  /\ \A o \in Object : o[1] # p \/ o[2] # t => object'[o] = object[o]

\* A step of one thread that changes only its own objects keeps what holds of the
\* other threads.
LEMMA Frame ==
  ASSUME IInv, Grows, NEW p \in Program, NEW t \in 0..MaxFd, NEW to \in Places,
         Steps(p, t, to)
  PROVE  /\ pc' \in [Program -> [0..MaxFd -> Places]] /\ pc'[p][t] = to
         /\ running' \in [Program -> BOOLEAN]
         /\ p # "client" => ClientOK'
         /\ \A q \in Acceptor : q # p \/ t # 0 => MainOK(q)'
         /\ \A q \in Acceptor, u \in Fd : q # p \/ u # t => ThreadOK(q, u)'
<1>1. /\ pc \in [Program -> [0..MaxFd -> Places]]
      /\ running \in [Program -> BOOLEAN]
      /\ ClientOK /\ \A q \in Acceptor : MainOK(q) /\ \A u \in Fd : ThreadOK(q, u)
      /\ pc' = [pc EXCEPT ![p][t] = to] /\ pc[p][t] # "none" /\ running' = running
      /\ \A o \in Object : o[1] # p \/ o[2] # t => object'[o] = object[o]
  BY DEF IInv, Control, Steps
<1>2. /\ pc' \in [Program -> [0..MaxFd -> Places]] /\ pc'[p][t] = to
      /\ \A u \in 0..MaxFd : u # t => pc'[p][u] = pc[p][u]
      /\ \A q \in Program : q # p => pc'[q] = pc[q]
  BY <1>1, PcStep
<1>3. p # "client" => ClientOK'
  <2> SUFFICES ASSUME p # "client" PROVE ClientOK'
    OBVIOUS
  <2>1. /\ object'[serverSocket] = object[serverSocket] /\ object'[newSocket] = object[newSocket]
        /\ object'[clientTtpSocket] = object[clientTtpSocket] /\ pc'["client"] = pc["client"]
    BY <1>1, <1>2, ObjectNames, Differ, Places2
  <2>2. ~isHealthy(serverSocket) => ~isHealthy(serverSocket)'
    BY <2>1, UnhealthyStays DEF IInv
  <2> QED BY <1>1, <2>1, <2>2 DEF ClientOK, IsFree
<1>4. ASSUME NEW q \in Acceptor, q # p \/ t # 0 PROVE MainOK(q)'
  <2>1. q \in Program /\ MainObject(q) \in Object
    BY ObjectNames
  <2>2. object'[MainObject(q)] = object[MainObject(q)]
    <3>1. MainObject(q)[1] = q /\ MainObject(q)[2] = 0
      BY DEF MainObject
    <3> QED BY <1>1, <1>4, <2>1, <3>1
  <2>3. pc'[q][0] = pc[q][0]
    BY <1>2, <1>4, <2>1, PcTypes
  <2>4. ASSUME NEW u \in Fd, pc[q][u] = "none" PROVE pc'[q][u] = "none"
    BY <1>1, <1>2, <2>1, <2>4, PcTypes
  <2> QED BY <1>1, <2>2, <2>3, <2>4 DEF MainOK, IsFree
<1>5. ASSUME NEW q \in Acceptor, NEW u \in Fd, q # p \/ u # t PROVE ThreadOK(q, u)'
  <2>1. q \in Program /\ u \in 0..MaxFd /\ u \in Nat
    BY ObjectNames, PcTypes DEF Fd
  <2>2. pc'[q][u] = pc[q][u]
    BY <1>2, <1>5, <2>1
  <2>3. /\ object'[Argument(q, u)] = object[Argument(q, u)]
        /\ object'[Session(q, u)] = object[Session(q, u)]
    <3>1. Argument(q, u)[1] = q /\ Argument(q, u)[2] = u /\ Session(q, u)[1] = q /\ Session(q, u)[2] = u
      BY DEF Argument, Session
    <3> QED BY <1>1, <1>5, <3>1, ObjectNames
  <2>4. q = "server" => object'[TtpSocket(u)] = object[TtpSocket(u)]
    <3>1. TtpSocket(u)[1] = "server" /\ TtpSocket(u)[2] = u
      BY DEF TtpSocket
    <3> QED BY <1>1, <1>5, <3>1, ObjectNames
  <2>5. /\ Len(table'[q]) \in Nat /\ Len(table[q]) \in Nat
        /\ Len(table'[q]) >= Len(table[q])
    BY <2>1 DEF Grows, IInv, Ownership, OwnTypes
  <2>6. ThreadOK(q, u) /\ running' = running
    BY <1>1
  <2> QED BY <2>1, <2>2, <2>3, <2>4, <2>5, <2>6 DEF ThreadOK, IsFree
<1> QED BY <1>1, <1>2, <1>3, <1>4, <1>5

LEMMA ClientStep ==
  ASSUME IInv, Ownership', Grows, NEW to \in Places, Steps("client", 0, to),
         ClientOK'
  PROVE  IInv'
<1>1. "client" \in Program /\ 0 \in 0..MaxFd /\ "client" \notin Acceptor
  BY ObjectNames, PcTypes
<1>2. /\ pc' \in [Program -> [0..MaxFd -> Places]] /\ pc'["client"][0] = to
      /\ running' \in [Program -> BOOLEAN]
      /\ "client" # "client" => ClientOK'
      /\ \A q \in Acceptor : q # "client" \/ 0 # 0 => MainOK(q)'
      /\ \A q \in Acceptor, u \in Fd : q # "client" \/ u # 0 => ThreadOK(q, u)'
  BY <1>1, Frame
<1> QED BY <1>1, <1>2 DEF IInv, Control

LEMMA MainStep ==
  ASSUME IInv, Ownership', Grows, NEW p \in Acceptor, NEW to \in Places, Steps(p, 0, to),
         MainOK(p)'
  PROVE  IInv'
<1>1. p \in Program /\ 0 \in 0..MaxFd /\ p # "client" /\ \A u \in Fd : u # 0
  BY ObjectNames, PcTypes
<1>2. /\ pc' \in [Program -> [0..MaxFd -> Places]] /\ running' \in [Program -> BOOLEAN]
      /\ ClientOK'
      /\ \A q \in Acceptor : q # p => MainOK(q)'
      /\ \A q \in Acceptor, u \in Fd : ThreadOK(q, u)'
  BY <1>1, Frame
<1>3. \A q \in Acceptor : MainOK(q)'
  BY <1>2
<1> QED BY <1>2, <1>3 DEF IInv, Control

LEMMA ThreadStep ==
  ASSUME IInv, Ownership', Grows, NEW p \in Acceptor, NEW t \in Fd, NEW to \in Places,
         Steps(p, t, to), ThreadOK(p, t)'
  PROVE  IInv'
<1>1. p \in Program /\ t \in 0..MaxFd /\ p # "client" /\ t # 0
  BY ObjectNames, PcTypes
<1>2. /\ pc' \in [Program -> [0..MaxFd -> Places]] /\ running' \in [Program -> BOOLEAN]
      /\ ClientOK'
      /\ \A q \in Acceptor : MainOK(q)'
      /\ \A q \in Acceptor, u \in Fd : q # p \/ u # t => ThreadOK(q, u)'
  BY <1>1, Frame
<1>3. \A q \in Acceptor, u \in Fd : ThreadOK(q, u)'
  BY <1>2
<1> QED BY <1>2, <1>3 DEF IInv, Control

LEMMA ObjectsTyped ==
  ASSUME Ownership
  PROVE  /\ object \in [Object -> {INVALID_SOCKET} \cup Fd]
         /\ DOMAIN object = Object
         /\ \A p \in Program : Len(table[p]) \in Nat
  BY DEF Ownership, OwnTypes

LEMMA SameGrows == ASSUME Ownership, UNCHANGED <<table, conn>> PROVE Grows
<1>1. conn \in Seq(Connection) /\ Len(conn) \in Nat
  BY DEF Ownership, OwnTypes
<1> QED BY <1>1, ObjectsTyped DEF Grows

LEMMA NothingClosed == ASSUME Ownership, UNCHANGED <<object, conn>> PROVE Close({})
<1>1. conn \in Seq(Connection) /\ DOMAIN conn = 1..Len(conn)
      /\ conn = [k \in DOMAIN conn |-> conn[k]]
  BY DEF Ownership, OwnTypes
<1>2. ASSUME NEW k \in DOMAIN conn
      PROVE  [conn[k] EXCEPT !.downBy = DownAfter({}, k)] = conn[k]
  <2>1. DownAfter({}, k) = conn[k].downBy
    BY DEF DownAfter
  <2>2. PICK c \in Connection : c = conn[k]
    BY <1>1, ElementType
  <2>3. [c EXCEPT !.downBy = c.downBy] = c
    BY DEF Connection
  <2> QED BY <2>1, <2>2, <2>3
<1>3. conn' = [k \in DOMAIN conn |-> [conn[k] EXCEPT !.downBy = DownAfter({}, k)]]
  BY <1>1, <1>2
<1>4. object = [o \in Object |-> object[o]]
  BY ObjectsTyped
<1> QED BY <1>3, <1>4 DEF Close

LEMMA ConnectToServerStep == ASSUME IInv, ConnectToServer PROVE IInv'
<1>1. /\ ~isHealthy(serverSocket) /\ pc["client"][0] = "idle" /\ running' = running
      /\ pc' = [pc EXCEPT !["client"][0] = "assigning"] /\ Connects("server", newSocket)
  BY DEF ConnectToServer, Goto
<1>2. Ownership /\ ClientOK /\ pc \in [Program -> [0..MaxFd -> Places]]
  BY DEF IInv, Control
<1>3. /\ newSocket \in Object /\ newSocket[1] = "client" /\ newSocket[2] = 0 /\ IsFree(newSocket)
      /\ serverSocket \in Object /\ clientTtpSocket \in Object
      /\ newSocket # serverSocket /\ newSocket # clientTtpSocket
      /\ "server" \in Acceptor /\ "client" # "server" /\ IsFree(clientTtpSocket)
      /\ "client" \in Program /\ 0 \in 0..MaxFd /\ "assigning" \in Places
  BY <1>1, <1>2, ObjectNames, Differ, Places2, PcTypes DEF ClientOK
<1>4. Ownership' /\ Grows
  BY <1>1, <1>2, <1>3, ConnectOwned
<1>5. \A o \in Object : o # newSocket => object'[o] = object[o]
  BY <1>1, <1>2, ObjectsTyped DEF Connects
<1>6. ~isHealthy(serverSocket)'
  BY <1>1, <1>2, <1>3, <1>4, <1>5, UnhealthyStays
<1>7. pc'["client"][0] = "assigning"
  BY <1>1, <1>2, <1>3
<1>8. ClientOK'
  BY <1>3, <1>5, <1>6, <1>7 DEF ClientOK, IsFree
<1> QED BY <1>1, <1>3, <1>4, <1>5, <1>8, ClientStep DEF Steps

LEMMA ConnectFailsStep == ASSUME IInv, ConnectToServerFails PROVE IInv'
<1>1. /\ ConnectFails("client") /\ UNCHANGED <<object, conn, pc, running>>
      /\ Ownership /\ Control
  BY DEF ConnectToServerFails, IInv
<1>2. Ownership' /\ Grows
  <2>1. Close({}) /\ "client" \in Program /\ {} \in SUBSET Object
    BY <1>1, NothingClosed, ObjectNames
  <2>2. SpentIn("client") /\ (~Full("client") \/ table' = table)
    BY <1>1 DEF ConnectFails, SpentIn
  <2> QED BY <1>1, <2>1, <2>2, CloseOwned
<1>3. ClientOK'
  <2>1. ~isHealthy(serverSocket) => ~isHealthy(serverSocket)'
    BY <1>1, <1>2, UnhealthyStays
  <2> QED BY <1>1, <2>1 DEF Control, ClientOK, IsFree
<1>4. ASSUME NEW p \in Acceptor PROVE MainOK(p)' /\ \A t \in Fd : ThreadOK(p, t)'
  <2>1. p \in Program /\ Len(table'[p]) \in Nat /\ Len(table[p]) \in Nat
        /\ Len(table'[p]) >= Len(table[p])
    BY <1>1, <1>2, ObjectNames, ObjectsTyped DEF Grows
  <2>2. ASSUME NEW t \in Fd PROVE ThreadOK(p, t)'
    <3>1. ThreadOK(p, t) /\ t \in Nat
      BY <1>1 DEF Control, Fd
    <3> QED BY <1>1, <2>1, <3>1 DEF ThreadOK, IsFree
  <2>3. MainOK(p)'
    BY <1>1 DEF Control, MainOK, IsFree
  <2> QED BY <2>2, <2>3
<1> QED BY <1>1, <1>2, <1>3, <1>4 DEF IInv, Control

LEMMA AssignStep == ASSUME IInv, AssignServerSocket PROVE IInv'
<1>1. /\ pc["client"][0] = "assigning" /\ UNCHANGED <<table, conn, running>>
      /\ pc' = [pc EXCEPT !["client"][0] = "idle"]
      /\ object' = Moved(newSocket, serverSocket)
  BY DEF AssignServerSocket, Goto
<1>2. Ownership /\ ClientOK /\ pc \in [Program -> [0..MaxFd -> Places]]
  BY DEF IInv, Control
<1>3. /\ newSocket \in Object /\ newSocket[1] = "client" /\ newSocket[2] = 0
      /\ serverSocket \in Object /\ serverSocket[1] = "client" /\ serverSocket[2] = 0
      /\ clientTtpSocket \in Object
      /\ newSocket # serverSocket /\ newSocket # clientTtpSocket /\ serverSocket # clientTtpSocket
      /\ "client" \in Program /\ 0 \in 0..MaxFd /\ "idle" \in Places
  BY ObjectNames, Differ, Places2, PcTypes
<1>4. Of(serverSocket) = 0 \/ Down(Of(serverSocket))
  BY <1>1, <1>2 DEF ClientOK, isHealthy
<1>5. Ownership' /\ Grows
  BY <1>1, <1>2, <1>3, <1>4, MoveOwned, SameGrows
<1>6. /\ \A o \in Object \ {newSocket, serverSocket} : object'[o] = object[o]
      /\ object'[newSocket] = INVALID_SOCKET
  BY <1>1, <1>2, <1>3, ObjectsTyped DEF Moved
<1>7. pc'["client"][0] = "idle"
  BY <1>1, <1>2, <1>3
<1>8. ClientOK'
  BY <1>1, <1>2, <1>3, <1>6, <1>7 DEF ClientOK, IsFree
<1> QED BY <1>1, <1>3, <1>5, <1>6, <1>8, ClientStep DEF Steps

LEMMA RequestStep == ASSUME IInv, RequestService PROVE IInv'
<1>1. /\ pc["client"][0] = "idle" /\ running' = running
      /\ pc' = [pc EXCEPT !["client"][0] = "handshake"] /\ Connects("ttp", clientTtpSocket)
  BY DEF RequestService, Goto
<1>2. Ownership /\ ClientOK /\ pc \in [Program -> [0..MaxFd -> Places]]
  BY DEF IInv, Control
<1>3. /\ clientTtpSocket \in Object /\ clientTtpSocket[1] = "client" /\ clientTtpSocket[2] = 0
      /\ IsFree(clientTtpSocket) /\ newSocket \in Object /\ newSocket # clientTtpSocket
      /\ "ttp" \in Acceptor /\ "client" # "ttp" /\ IsFree(newSocket)
      /\ "client" \in Program /\ 0 \in 0..MaxFd /\ "handshake" \in Places
  BY <1>1, <1>2, ObjectNames, Differ, Places2, PcTypes DEF ClientOK
<1>4. Ownership' /\ Grows
  BY <1>1, <1>2, <1>3, ConnectOwned
<1>5. \A o \in Object : o # clientTtpSocket => object'[o] = object[o]
  BY <1>1, <1>2, ObjectsTyped DEF Connects
<1>6. pc'["client"][0] = "handshake"
  BY <1>1, <1>2, <1>3
<1>7. ClientOK'
  BY <1>3, <1>5, <1>6 DEF ClientOK, IsFree
<1> QED BY <1>1, <1>3, <1>4, <1>5, <1>7, ClientStep DEF Steps

LEMMA RequestEndStep == ASSUME IInv, RequestServiceEnds PROVE IInv'
<1>1. /\ pc["client"][0] = "handshake" /\ UNCHANGED <<table, running>>
      /\ pc' = [pc EXCEPT !["client"][0] = "idle"] /\ Close({clientTtpSocket})
  BY DEF RequestServiceEnds, Goto
<1>2. Ownership /\ ClientOK /\ pc \in [Program -> [0..MaxFd -> Places]]
  BY DEF IInv, Control
<1>3. /\ clientTtpSocket \in Object /\ clientTtpSocket[1] = "client" /\ clientTtpSocket[2] = 0
      /\ newSocket \in Object /\ newSocket # clientTtpSocket
      /\ "client" \in Program /\ 0 \in 0..MaxFd /\ "idle" \in Places
  BY ObjectNames, Differ, Places2, PcTypes
<1>4. Ownership' /\ Grows
  <2>1. {clientTtpSocket} \in SUBSET Object /\ \A o \in {clientTtpSocket} : o[1] = "client"
    BY <1>3
  <2> QED BY <1>1, <1>2, <1>3, <2>1, CloseOwned DEF SpentIn
<1>5. /\ \A o \in Object : o # clientTtpSocket => object'[o] = object[o]
      /\ object'[clientTtpSocket] = INVALID_SOCKET
  BY <1>1, <1>3 DEF Close
<1>6. pc'["client"][0] = "idle"
  BY <1>1, <1>2, <1>3
<1>7. ClientOK'
  BY <1>1, <1>2, <1>3, <1>5, <1>6 DEF ClientOK, IsFree
<1> QED BY <1>1, <1>3, <1>4, <1>5, <1>7, ClientStep DEF Steps

-----------------------------------------------------------------------------
(* The steps of accept loops *)

LEMMA AcceptStep == ASSUME IInv, NEW p \in Acceptor, Accept(p) PROVE IInv'
<1>1. /\ pc[p][0] = "accepting" /\ running[p] /\ running' = running
      /\ pc' = [pc EXCEPT ![p][0] = "accepted"]
  BY DEF Accept, Goto
<1>2. Ownership /\ Control /\ pc \in [Program -> [0..MaxFd -> Places]]
  BY DEF IInv, Control
<1>3. /\ p \in Program /\ 0 \in 0..MaxFd /\ "accepted" \in Places
      /\ MainObject(p) \in Object /\ MainObject(p)[1] = p /\ MainObject(p)[2] = 0
      /\ IsFree(MainObject(p))
  BY <1>1, <1>2, ObjectNames, Differ, Places2, PcTypes DEF Control, MainOK
<1>4. PICK k \in DOMAIN conn :
        /\ Oldest(p, k) /\ conn' = [conn EXCEPT ![k].accepted = TRUE]
        /\ table' = [table EXCEPT ![p] = Append(@, k)]
        /\ object' = [object EXCEPT ![MainObject(p)] = OpenedNext(p)]
  BY DEF Accept, MainObject
<1>5. /\ Ownership' /\ Grows /\ object'[MainObject(p)] = Len(table[p]) + 1
      /\ Len(table[p]) + 1 \in Fd
  BY <1>2, <1>3, AcceptOwned
<1>6. \A o \in Object : o # MainObject(p) => object'[o] = object[o]
  BY <1>2, <1>4, ObjectsTyped
<1>7. /\ pc'[p][0] = "accepted"
      /\ \A t \in Fd : pc'[p][t] = pc[p][t]
  BY <1>1, <1>2, <1>3, PcTypes
<1>8. pc[p][Len(table[p]) + 1] = "none"
  <2>1. ThreadOK(p, Len(table[p]) + 1) /\ Len(table[p]) \in Nat
    BY <1>2, <1>3, <1>5, ObjectsTyped DEF Control
  <2> QED BY <1>1, <2>1 DEF ThreadOK
<1>9. MainOK(p)'
  BY <1>5, <1>7, <1>8 DEF MainOK, IsFree
<1> QED BY <1>1, <1>3, <1>5, <1>6, <1>9, MainStep DEF Steps

\* A step of an accept loop that only changes where it is
LEMMA LoopStep ==
  ASSUME IInv, NEW p \in Acceptor, NEW to \in Places, to # "accepted",
         pc[p][0] \notin {"accepted", "none"}, pc' = [pc EXCEPT ![p][0] = to],
         UNCHANGED <<table, object, conn, running>>
  PROVE  IInv'
<1>1. Ownership /\ Control /\ pc \in [Program -> [0..MaxFd -> Places]]
  BY DEF IInv, Control
<1>2. p \in Program /\ 0 \in 0..MaxFd /\ {} \in SUBSET Object
  BY ObjectNames, PcTypes
<1>3. Ownership' /\ Grows
  <2>1. Close({}) /\ SpentIn(p)
    BY <1>1, NothingClosed DEF SpentIn
  <2> QED BY <1>1, <1>2, <2>1, CloseOwned
<1>4. pc'[p][0] = to
  BY <1>1, <1>2
<1>5. MainOK(p)'
  BY <1>1, <1>4 DEF Control, MainOK, IsFree
<1>6. \A o \in Object : object'[o] = object[o]
  OBVIOUS
<1> QED BY <1>3, <1>5, <1>6, MainStep DEF Steps

LEMMA AcceptFailsStep == ASSUME IInv, NEW p \in Acceptor, AcceptFails(p) PROVE IInv'
<1>1. "failed" \in Places
  BY PcTypes
<1> QED BY <1>1, LoopStep DEF AcceptFails, Goto

LEMMA AcceptAgainStep == ASSUME IInv, NEW p \in Acceptor, AcceptAgain(p) PROVE IInv'
<1>1. "accepting" \in Places
  BY PcTypes
<1> QED BY <1>1, LoopStep DEF AcceptAgain, Goto

LEMMA EndOfIterationStep == ASSUME IInv, NEW p \in Acceptor, EndOfIteration(p) PROVE IInv'
<1>1. /\ pc[p][0] = "spawned" /\ UNCHANGED <<table, running>>
      /\ pc' = [pc EXCEPT ![p][0] = "accepting"] /\ Close({MainObject(p)})
  BY DEF EndOfIteration, Goto, MainObject
<1>2. Ownership /\ pc \in [Program -> [0..MaxFd -> Places]]
  BY DEF IInv, Control
<1>3. /\ MainObject(p) \in Object /\ MainObject(p)[1] = p /\ MainObject(p)[2] = 0
      /\ p \in Program /\ 0 \in 0..MaxFd /\ "accepting" \in Places
  BY ObjectNames, Differ, Places2, PcTypes
<1>4. Ownership' /\ Grows
  <2>1. {MainObject(p)} \in SUBSET Object /\ \A o \in {MainObject(p)} : o[1] = p
    BY <1>3
  <2> QED BY <1>1, <1>2, <1>3, <2>1, CloseOwned DEF SpentIn
<1>5. /\ \A o \in Object : o # MainObject(p) => object'[o] = object[o]
      /\ object'[MainObject(p)] = INVALID_SOCKET
  BY <1>1, <1>3 DEF Close
<1>6. pc'[p][0] = "accepting"
  BY <1>1, <1>2, <1>3
<1>7. MainOK(p)'
  BY <1>5, <1>6 DEF MainOK, IsFree
<1> QED BY <1>1, <1>3, <1>4, <1>5, <1>7, MainStep DEF Steps

\* A thread is started: the socket moves from the loop into its arguments.
LEMMA SpawnStep == ASSUME IInv, NEW p \in Acceptor, Spawn(p) PROVE IInv'
<1> DEFINE t == object[MainObject(p)]
<1>1. /\ pc[p][0] = "accepted" /\ UNCHANGED <<table, conn, running>>
      /\ object' = Moved(MainObject(p), Argument(p, t))
      /\ pc' = [pc EXCEPT ![p][0] = "spawned", ![p][t] = "started"]
  BY DEF Spawn, MainObject, Argument
<1>2. /\ Ownership /\ Control /\ pc \in [Program -> [0..MaxFd -> Places]]
      /\ t \in Fd /\ pc[p][t] = "none" /\ ThreadOK(p, t)
  BY <1>1 DEF IInv, Control, MainOK
<1> HIDE DEF t
<1>3. /\ p \in Program /\ 0 \in 0..MaxFd /\ t \in 0..MaxFd /\ t # 0
      /\ "spawned" \in Places /\ "started" \in Places
      /\ MainObject(p) \in Object /\ Argument(p, t) \in Object
      /\ MainObject(p) # Argument(p, t) /\ MainObject(p)[1] = p /\ Argument(p, t)[1] = p
  BY <1>2, ObjectNames, Differ, PcTypes
<1>4. Ownership' /\ Grows
  <2>1. Of(Argument(p, t)) = 0
    BY <1>2 DEF ThreadOK, IsFree, Of
  <2> QED BY <1>1, <1>2, <1>3, <2>1, MoveOwned, SameGrows
<1>5. /\ object'[MainObject(p)] = INVALID_SOCKET
      /\ \A o \in Object : o # MainObject(p) /\ o # Argument(p, t) => object'[o] = object[o]
  BY <1>1, <1>2, <1>3, ObjectsTyped DEF Moved
<1>6. /\ pc' \in [Program -> [0..MaxFd -> Places]]
      /\ pc'[p][0] = "spawned" /\ pc'[p][t] = "started"
      /\ \A u \in 0..MaxFd : u # t /\ u # 0 => pc'[p][u] = pc[p][u]
      /\ \A q \in Program : q # p => pc'[q] = pc[q]
  BY <1>1, <1>2, <1>3
<1>7. ClientOK'
  <2>1. /\ object'[serverSocket] = object[serverSocket] /\ object'[newSocket] = object[newSocket]
        /\ object'[clientTtpSocket] = object[clientTtpSocket] /\ pc'["client"] = pc["client"]
    BY <1>3, <1>5, <1>6, ObjectNames, Differ, PcTypes
  <2>2. ~isHealthy(serverSocket) => ~isHealthy(serverSocket)'
    BY <1>2, <1>4, <2>1, UnhealthyStays
  <2> QED BY <1>2, <2>1, <2>2 DEF Control, ClientOK, IsFree
<1>8. ASSUME NEW q \in Acceptor PROVE MainOK(q)'
  <2>1. q \in Program /\ MainObject(q) \in Object /\ MainOK(q)
    BY <1>2, ObjectNames DEF Control
  <2>2. CASE q = p
    BY <1>5, <1>6, <2>2 DEF MainOK, IsFree
  <2>3. CASE q # p
    <3>1. MainObject(q) # MainObject(p) /\ MainObject(q) # Argument(p, t)
      BY <2>3, Differ
    <3>2. object'[MainObject(q)] = object[MainObject(q)] /\ pc'[q] = pc[q]
      BY <1>5, <1>6, <2>1, <2>3, <3>1
    <3> QED BY <2>1, <3>2 DEF MainOK, IsFree
  <2> QED BY <2>2, <2>3
<1>9. ASSUME NEW q \in Acceptor, NEW u \in Fd PROVE ThreadOK(q, u)'
  <2>1. q \in Program /\ u \in 0..MaxFd /\ u # 0 /\ ThreadOK(q, u)
    BY <1>2, ObjectNames, PcTypes DEF Control
  <2>2. /\ object'[Session(q, u)] = object[Session(q, u)]
        /\ q = "server" => object'[TtpSocket(u)] = object[TtpSocket(u)]
    BY <1>5, ObjectNames, Differ
  <2>3. CASE q = p /\ u = t
    <3>1. pc'[q][u] = "started" /\ pc[q][u] = "none"
      BY <1>2, <1>6, <2>3
    <3>2. u <= Len(table'[q])
      <4>1. object[MainObject(p)] <= Len(table[p])
        BY <1>2, <1>3 DEF Ownership, OwnTypes
      <4> QED BY <1>1, <2>3, <4>1 DEF t
    <3> QED BY <1>1, <2>1, <2>2, <3>1, <3>2 DEF ThreadOK, IsFree, Active
  <2>4. CASE q # p \/ u # t
    <3>1. pc'[q][u] = pc[q][u]
      BY <1>6, <2>1, <2>4
    <3>2. object'[Argument(q, u)] = object[Argument(q, u)]
      <4>1. Argument(q, u) # MainObject(p) /\ Argument(q, u) # Argument(p, t)
        BY <2>4, Differ
      <4> QED BY <1>5, <4>1, ObjectNames
    <3> QED BY <1>1, <2>1, <2>2, <3>1, <3>2 DEF ThreadOK, IsFree
  <2> QED BY <2>3, <2>4
<1>10. running' \in [Program -> BOOLEAN]
  BY <1>1, <1>2 DEF Control
<1> QED BY <1>4, <1>6, <1>7, <1>8, <1>9, <1>10 DEF IInv, Control

-----------------------------------------------------------------------------
(* The steps of threads *)

LEMMA ClosedObjects ==
  ASSUME NEW p \in Acceptor, NEW t \in Fd, Ownership, Close(ObjectsOf(p, t))
  PROVE  /\ ObjectsOf(p, t) \in SUBSET Object /\ \A o \in ObjectsOf(p, t) : o[1] = p
         /\ \A o \in Object : o[1] # p \/ o[2] # t => object'[o] = object[o]
         /\ \A o \in Object : o[1] = p /\ o[2] = t => object'[o] = INVALID_SOCKET
<1>1. p \in Program
  BY ObjectNames
<1>2. ObjectsOf(p, t) = {o \in Object : o[1] = p /\ o[2] = t}
  BY <1>1 DEF ObjectsOf, ObjectsIn
<1> QED BY <1>2 DEF Close

LEMMA HandleStep ==
  ASSUME IInv, NEW t \in Fd, handleClientConnection(t) PROVE IInv'
<1>1. /\ pc["ttp"][t] = "started" /\ UNCHANGED <<table, conn, running>>
      /\ pc' = [pc EXCEPT !["ttp"][t] = "running"]
      /\ object' = Moved(Argument("ttp", t), Session("ttp", t))
  BY DEF handleClientConnection, Goto, Argument, Session
<1>2. "ttp" \in Acceptor
  BY PcTypes
<1>3. /\ Ownership /\ ThreadOK("ttp", t) /\ pc \in [Program -> [0..MaxFd -> Places]]
  BY <1>2 DEF IInv, Control
<1>4. /\ "ttp" \in Program /\ t \in 0..MaxFd /\ "running" \in Places
      /\ Argument("ttp", t) \in Object /\ Argument("ttp", t)[1] = "ttp" /\ Argument("ttp", t)[2] = t
      /\ Session("ttp", t) \in Object /\ Session("ttp", t)[1] = "ttp" /\ Session("ttp", t)[2] = t
      /\ Argument("ttp", t) # Session("ttp", t)
  BY <1>2, ObjectNames, Differ, Places2, PcTypes
<1>5. Ownership' /\ Grows
  <2>1. Of(Session("ttp", t)) = 0
    BY <1>1, <1>3 DEF ThreadOK, IsFree, Of
  <2> QED BY <1>1, <1>3, <1>4, <2>1, MoveOwned, SameGrows
<1>6. \A o \in Object : o # Argument("ttp", t) /\ o # Session("ttp", t) => object'[o] = object[o]
  BY <1>1, <1>3, ObjectsTyped DEF Moved
<1>7. pc'["ttp"][t] = "running"
  BY <1>1, <1>3, <1>4
<1>8. ThreadOK("ttp", t)'
  BY <1>1, <1>3, <1>7 DEF ThreadOK, IsFree, Active
<1> QED BY <1>1, <1>2, <1>4, <1>5, <1>6, <1>8, ThreadStep DEF Steps

LEMMA SessionStep ==
  ASSUME IInv, NEW t \in Fd, clientSession(t) PROVE IInv'
<1>1. /\ pc["server"][t] = "handshake" /\ UNCHANGED <<table, conn, running>>
      /\ pc' = [pc EXCEPT !["server"][t] = "session"]
      /\ object' = Moved(Argument("server", t), Session("server", t))
  BY DEF clientSession, Goto, Argument, Session
<1>2. "server" \in Acceptor
  BY PcTypes
<1>3. /\ Ownership /\ ThreadOK("server", t) /\ pc \in [Program -> [0..MaxFd -> Places]]
  BY <1>2 DEF IInv, Control
<1>4. /\ "server" \in Program /\ t \in 0..MaxFd /\ "session" \in Places
      /\ Argument("server", t) \in Object /\ Argument("server", t)[1] = "server"
      /\ Argument("server", t)[2] = t
      /\ Session("server", t) \in Object /\ Session("server", t)[1] = "server"
      /\ Session("server", t)[2] = t
      /\ Argument("server", t) # Session("server", t)
  BY <1>2, ObjectNames, Differ, Places2, PcTypes
<1>5. Ownership' /\ Grows
  <2>1. Of(Session("server", t)) = 0
    BY <1>1, <1>3 DEF ThreadOK, IsFree, Of
  <2> QED BY <1>1, <1>3, <1>4, <2>1, MoveOwned, SameGrows
<1>6. /\ \A o \in Object : o # Argument("server", t) /\ o # Session("server", t)
                          => object'[o] = object[o]
  BY <1>1, <1>3, ObjectsTyped DEF Moved
<1>7. pc'["server"][t] = "session"
  BY <1>1, <1>3, <1>4
<1>8. ThreadOK("server", t)'
  BY <1>1, <1>3, <1>7 DEF ThreadOK, IsFree, Active
<1> QED BY <1>1, <1>2, <1>4, <1>5, <1>6, <1>8, ThreadStep DEF Steps

LEMMA ServerConnectsStep ==
  ASSUME IInv, NEW t \in Fd, ServerConnects(t) PROVE IInv'
<1>1. /\ pc["server"][t] = "started" /\ running' = running
      /\ pc' = [pc EXCEPT !["server"][t] = "handshake"] /\ Connects("ttp", TtpSocket(t))
  BY DEF ServerConnects, Goto, TtpSocket
<1>2. "server" \in Acceptor /\ "ttp" \in Acceptor /\ "server" # "ttp"
  BY PcTypes
<1>3. /\ Ownership /\ ThreadOK("server", t) /\ pc \in [Program -> [0..MaxFd -> Places]]
  BY <1>2 DEF IInv, Control
<1>4. /\ "server" \in Program /\ t \in 0..MaxFd /\ "handshake" \in Places
      /\ TtpSocket(t) \in Object /\ TtpSocket(t)[1] = "server" /\ TtpSocket(t)[2] = t
      /\ Session("server", t) \in Object /\ Session("server", t) # TtpSocket(t)
  BY <1>2, ObjectNames, Differ, Places2, PcTypes
<1>5. Ownership' /\ Grows
  <2>1. IsFree(TtpSocket(t))
    BY <1>1, <1>3 DEF ThreadOK
  <2> QED BY <1>1, <1>2, <1>3, <1>4, <2>1, ConnectOwned
<1>6. \A o \in Object : o # TtpSocket(t) => object'[o] = object[o]
  BY <1>1, <1>3, ObjectsTyped DEF Connects
<1>7. pc'["server"][t] = "handshake"
  BY <1>1, <1>3, <1>4
<1>8. ThreadOK("server", t)'
  <2>1. t <= Len(table["server"]) \/ ~running["server"]
    BY <1>1, <1>3 DEF ThreadOK
  <2>2. t \in Nat /\ Len(table["server"]) \in Nat
    BY <1>3, <1>4, ObjectsTyped DEF Fd
  <2>3. Len(table'["server"]) \in Nat /\ Len(table'["server"]) >= Len(table["server"])
    BY <1>4, <1>5 DEF Grows
  <2>4. /\ IsFree(Session("server", t))
        /\ Session("server", t) \in Object /\ Session("server", t) # TtpSocket(t)
    BY <1>1, <1>3, <1>4 DEF ThreadOK
  <2>5. IsFree(Session("server", t))'
    BY <1>6, <2>4 DEF IsFree
  <2>6. running'["server"] => t <= Len(table'["server"])
    BY <1>1, <2>1, <2>2, <2>3
  <2> QED BY <1>7, <2>5, <2>6 DEF ThreadOK, IsFree, Active
<1>9. Steps("server", t, "handshake")
  BY <1>1, <1>4, <1>6 DEF Steps
<1> QED BY <1>2, <1>4, <1>5, <1>8, <1>9, ThreadStep

\* A thread that ends leaves no object behind.
LEMMA EndStep ==
  ASSUME IInv, NEW p \in Acceptor, NEW t \in Fd, pc[p][t] \in Active,
         pc' = [pc EXCEPT ![p][t] = "ended"], Close(ObjectsOf(p, t)), running' = running,
         SpentIn(p), ~Full(p) \/ table' = table
  PROVE  IInv'
<1>1. /\ Ownership /\ ThreadOK(p, t) /\ pc \in [Program -> [0..MaxFd -> Places]]
  BY DEF IInv, Control
<1>2. /\ p \in Program /\ t \in 0..MaxFd /\ "ended" \in Places
  BY ObjectNames, PcTypes
<1>3. Ownership' /\ Grows
  BY <1>1, <1>2, ClosedObjects, CloseOwned
<1>4. /\ \A o \in Object : o[1] # p \/ o[2] # t => object'[o] = object[o]
  BY <1>1, ClosedObjects
<1>5. pc'[p][t] = "ended" /\ pc[p][t] # "none"
  BY <1>1, <1>2 DEF Active
<1>6. ThreadOK(p, t)'
  <2>1. t <= Len(table[p]) \/ ~running[p]
    BY <1>1, <1>5 DEF ThreadOK
  <2>2. t \in Nat /\ Len(table[p]) \in Nat
    BY <1>1, <1>2, ObjectsTyped DEF Fd
  <2>3. Len(table'[p]) \in Nat /\ Len(table'[p]) >= Len(table[p])
    BY <1>2, <1>3 DEF Grows
  <2> QED BY <1>5, <2>1, <2>2, <2>3 DEF ThreadOK
<1> QED BY <1>2, <1>3, <1>4, <1>5, <1>6, ThreadStep DEF Steps

LEMMA ThreadEndsStep ==
  ASSUME IInv, NEW p \in Acceptor, NEW t \in Fd, ThreadEnds(p, t) PROVE IInv'
  BY EndStep DEF ThreadEnds, SpentIn

LEMMA ServerConnectFailsStep ==
  ASSUME IInv, NEW t \in Fd, ServerConnectFails(t) PROVE IInv'
<1>1. "server" \in Acceptor /\ pc["server"][t] \in Active
  BY PcTypes DEF ServerConnectFails, Goto, Active
<1>2. SpentIn("server") /\ (~Full("server") \/ table' = table)
  BY DEF ServerConnectFails, ConnectFails, SpentIn
<1> QED BY <1>1, <1>2, EndStep DEF ServerConnectFails, Goto

-----------------------------------------------------------------------------
(* The network, the end of the server, and all steps *)

LEMMA BreakStep == ASSUME IInv, NEW k \in DOMAIN conn, LinkBreaks(k) PROVE IInv'
<1>1. Ownership /\ Control /\ UNCHANGED <<table, object, pc, running>>
  BY DEF IInv, LinkBreaks
<1>2. Ownership' /\ Grows
  BY <1>1, BreakOwned
<1>3. ~isHealthy(serverSocket) => ~isHealthy(serverSocket)'
  BY <1>1, <1>2, UnhealthyStays
<1>4. ClientOK'
  BY <1>1, <1>3 DEF Control, ClientOK, IsFree
<1>5. \A p \in Acceptor : MainOK(p)' /\ \A t \in Fd : ThreadOK(p, t)'
  BY <1>1 DEF Control, MainOK, ThreadOK, IsFree
<1> QED BY <1>1, <1>2, <1>4, <1>5 DEF IInv, Control

LEMMA AbortStep == ASSUME IInv, Abort PROVE IInv'
<1>1. /\ Ownership /\ Control
      /\ running' = [running EXCEPT !["server"] = FALSE]
      /\ pc' = [pc EXCEPT !["server"] = [t \in 0..MaxFd |-> "ended"]]
      /\ object' = [o \in Object |-> IF o[1] = "server" THEN INVALID_SOCKET ELSE object[o]]
      /\ table' = [table EXCEPT !["server"] = <<>>]
      /\ conn \in Seq(Connection) /\ DOMAIN conn = 1..Len(conn)
      /\ pc \in [Program -> [0..MaxFd -> Places]] /\ running \in [Program -> BOOLEAN]
      /\ table \in [Program -> Seq(0..MaxConn)]
  BY DEF IInv, Abort, Control, Ownership, OwnTypes
<1>2. Ownership'
  BY <1>1, AbortOwned
<1>3. "server" \in Program /\ "client" \in Program /\ "client" # "server" /\ "ended" \in Places
  BY ObjectNames, PcTypes
<1>4. /\ pc' \in [Program -> [0..MaxFd -> Places]] /\ running' \in [Program -> BOOLEAN]
      /\ \A t \in 0..MaxFd : pc'["server"][t] = "ended"
      /\ ~running'["server"]
      /\ \A p \in Program : p # "server" =>
           pc'[p] = pc[p] /\ running'[p] = running[p] /\ table'[p] = table[p]
  BY <1>1, <1>3
<1>5. /\ \A o \in Object : o[1] = "server" => object'[o] = INVALID_SOCKET
      /\ \A o \in Object : o[1] # "server" => object'[o] = object[o]
  BY <1>1
<1>6. \A k \in 1..Len(conn) : k \in DOMAIN conn' /\ (Down(k) => conn'[k].downBy # {})
  <2> SUFFICES ASSUME NEW k \in 1..Len(conn)
               PROVE  k \in DOMAIN conn' /\ (Down(k) => conn'[k].downBy # {})
    OBVIOUS
  <2>1. PICK c \in Connection : c = conn[k]
    BY <1>1, ElementType
  <2>2. [c EXCEPT !.downBy = @ \cup {"server"}].downBy = c.downBy \cup {"server"}
    BY DEF Connection
  <2>3. conn' = [j \in DOMAIN conn |->
                  IF "server" \in {conn[j].from, conn[j].to}
                  THEN [conn[j] EXCEPT !.downBy = @ \cup {"server"}] ELSE conn[j]]
    BY DEF Abort
  <2> QED BY <1>1, <2>1, <2>2, <2>3 DEF Down
<1>7. ClientOK'
  <2>1. /\ object'[serverSocket] = object[serverSocket] /\ object'[newSocket] = object[newSocket]
        /\ object'[clientTtpSocket] = object[clientTtpSocket] /\ pc'["client"] = pc["client"]
        /\ table'["client"] = table["client"]
    BY <1>3, <1>4, <1>5, ObjectNames, Differ
  <2>2. ~isHealthy(serverSocket) => ~isHealthy(serverSocket)'
    <3> SUFFICES ASSUME ~isHealthy(serverSocket) PROVE ~isHealthy(serverSocket)'
      OBVIOUS
    <3>1. Of(serverSocket)' = Of(serverSocket)
      BY <2>1, Differ DEF Of
    <3>2. Of(serverSocket) # 0 => Of(serverSocket) \in 1..Len(conn)
      BY <1>1, <1>3, ObjectNames, HeldEntry DEF Of, IsFree
    <3> QED BY <1>6, <3>1, <3>2 DEF isHealthy, Down
  <2> QED BY <1>1, <2>1, <2>2 DEF Control, ClientOK, IsFree
<1>8. ASSUME NEW p \in Acceptor PROVE MainOK(p)' /\ \A t \in Fd : ThreadOK(p, t)'
  <2>1. /\ p \in Program /\ MainObject(p) \in Object /\ MainObject(p)[1] = p
        /\ MainOK(p) /\ 0 \in 0..MaxFd
    BY <1>1, ObjectNames, Differ, PcTypes DEF Control
  <2>2. CASE p = "server"
    <3>1. MainOK(p)'
      BY <1>4, <1>5, <2>1, <2>2 DEF MainOK, IsFree
    <3>2. ASSUME NEW t \in Fd PROVE ThreadOK(p, t)'
      <4>1. pc'[p][t] = "ended" /\ ~running'[p]
        BY <1>4, <2>2, PcTypes
      <4> QED BY <4>1 DEF ThreadOK
    <3> QED BY <3>1, <3>2
  <2>3. CASE p # "server"
    <3>1. pc'[p] = pc[p] /\ running'[p] = running[p] /\ table'[p] = table[p]
      BY <1>4, <2>1, <2>3
    <3>2. MainOK(p)'
      BY <1>5, <2>1, <2>3, <3>1 DEF MainOK, IsFree
    <3>3. ASSUME NEW t \in Fd PROVE ThreadOK(p, t)'
      <4>1. /\ object'[Argument(p, t)] = object[Argument(p, t)]
            /\ object'[Session(p, t)] = object[Session(p, t)]
        BY <1>5, <2>3, ObjectNames, Differ
      <4>2. ThreadOK(p, t)
        BY <1>1 DEF Control
      <4> QED BY <2>3, <3>1, <4>1, <4>2 DEF ThreadOK, IsFree
    <3> QED BY <3>2, <3>3
  <2> QED BY <2>2, <2>3
<1> QED BY <1>2, <1>4, <1>7, <1>8 DEF IInv, Control

LEMMA StutterStep == ASSUME IInv, UNCHANGED vars PROVE IInv'
<1>1. UNCHANGED <<table, object, conn, pc, running>>
  BY DEF vars
<1>2. Ownership'
  BY <1>1 DEF IInv, Ownership, OwnTypes, EntriesOK, PartyTo, OneDescriptor, OneOwner, HeldIsUp,
       Of, NotYetShut, ForgottenIsDown, Held, Down
<1>3. Control'
  BY <1>1 DEF IInv, Control, ClientOK, MainOK, ThreadOK, IsFree, isHealthy, Of, Down
<1> QED BY <1>2, <1>3 DEF IInv

LEMMA SocketsInit == Init => IInv
<1> SUFFICES ASSUME Init PROVE IInv
  OBVIOUS
<1>1. /\ table = [p \in Program |-> <<>>] /\ object = [o \in Object |-> INVALID_SOCKET]
      /\ conn = <<>> /\ running = [p \in Program |-> TRUE]
      /\ pc = [p \in Program |-> [t \in 0..MaxFd |->
                IF t > 0 THEN "none" ELSE IF p \in Acceptor THEN "accepting" ELSE "idle"]]
  BY DEF Init
<1>2. /\ \A p \in Program : table[p] = <<>> /\ Len(table[p]) = 0
      /\ Len(conn) = 0
  BY <1>1
<1>3. OwnTypes
  <2>1. \A o \in Object : object[o] = 0 /\ o[1] \in Program
    BY <1>1, ObjectNames DEF INVALID_SOCKET
  <2>2. table \in [Program -> Seq(0..MaxConn)] /\ conn \in Seq(Connection)
    BY <1>1
  <2>3. object \in [Object -> {INVALID_SOCKET} \cup Fd]
    BY <1>1
  <2> QED BY <1>2, <2>1, <2>2, <2>3, SocketsAssumption DEF OwnTypes
<1>4. Ownership
  BY <1>1, <1>2, <1>3
     DEF Ownership, EntriesOK, OneDescriptor, OneOwner, HeldIsUp, Of, NotYetShut, ForgottenIsDown
<1>5. /\ pc \in [Program -> [0..MaxFd -> Places]]
      /\ \A p \in Acceptor : pc[p][0] = "accepting" /\ \A t \in Fd : pc[p][t] = "none"
      /\ pc["client"][0] = "idle"
  <2>1. "none" \in Places /\ "accepting" \in Places /\ "idle" \in Places
    BY PcTypes
  <2>2. \A t \in Fd : t > 0 /\ t \in 0..MaxFd
    BY SocketsAssumption DEF Fd
  <2>3. ASSUME NEW p \in Program
        PROVE  /\ pc[p] \in [0..MaxFd -> Places]
               /\ pc[p][0] = IF p \in Acceptor THEN "accepting" ELSE "idle"
               /\ \A t \in Fd : pc[p][t] = "none"
    <3>1. pc[p] = [t \in 0..MaxFd |->
                    IF t > 0 THEN "none" ELSE IF p \in Acceptor THEN "accepting" ELSE "idle"]
      BY <1>1
    <3>2. DOMAIN pc[p] = 0..MaxFd /\ pc[p][0] = IF p \in Acceptor THEN "accepting" ELSE "idle"
      BY <3>1, PcTypes
    <3>3. ASSUME NEW t \in 0..MaxFd, t > 0 PROVE pc[p][t] = "none"
      BY <3>1, <3>3
    <3>4. pc[p][0] \in Places
      BY <2>1, <3>2
    <3>5. \A t \in 0..MaxFd : t = 0 \/ t > 0
      BY SocketsAssumption
    <3>6. \A t \in 0..MaxFd : pc[p][t] \in Places
      BY <2>1, <3>3, <3>4, <3>5
    <3> QED BY <2>2, <3>1, <3>2, <3>3, <3>6
  <2>4. pc = [p \in Program |-> pc[p]]
    BY <1>1
  <2> QED BY <2>3, <2>4, ObjectNames, PcTypes
<1>6. \A o \in Object : IsFree(o)
  BY <1>1 DEF IsFree
<1>7. Control
  <2>1. ClientOK
    BY <1>5, <1>6, ObjectNames DEF ClientOK
  <2>2. running \in [Program -> BOOLEAN]
    BY <1>1
  <2>3. ASSUME NEW p \in Acceptor PROVE MainOK(p) /\ \A t \in Fd : ThreadOK(p, t)
    BY <1>5, <1>6, ObjectNames DEF MainOK, ThreadOK, Active
  <2> QED BY <1>5, <2>1, <2>2, <2>3 DEF Control
<1> QED BY <1>4, <1>7 DEF IInv

LEMMA SocketsNext == IInv /\ [Next]_vars => IInv'
<1> SUFFICES ASSUME IInv, [Next]_vars PROVE IInv'
  OBVIOUS
<1>1. CASE ConnectToServer BY <1>1, ConnectToServerStep
<1>2. CASE ConnectToServerFails BY <1>2, ConnectFailsStep
<1>3. CASE AssignServerSocket BY <1>3, AssignStep
<1>4. CASE RequestService BY <1>4, RequestStep
<1>5. CASE RequestServiceEnds BY <1>5, RequestEndStep
<1>6. CASE Abort BY <1>6, AbortStep
<1>7. ASSUME NEW p \in Acceptor, Accept(p) PROVE IInv' BY <1>7, AcceptStep
<1>8. ASSUME NEW p \in Acceptor, AcceptFails(p) PROVE IInv' BY <1>8, AcceptFailsStep
<1>9. ASSUME NEW p \in Acceptor, AcceptAgain(p) PROVE IInv' BY <1>9, AcceptAgainStep
<1>10. ASSUME NEW p \in Acceptor, Spawn(p) PROVE IInv' BY <1>10, SpawnStep
<1>11. ASSUME NEW p \in Acceptor, EndOfIteration(p) PROVE IInv' BY <1>11, EndOfIterationStep
<1>12. ASSUME NEW t \in Fd, handleClientConnection(t) PROVE IInv' BY <1>12, HandleStep
<1>13. ASSUME NEW t \in Fd, ServerConnects(t) PROVE IInv' BY <1>13, ServerConnectsStep
<1>14. ASSUME NEW t \in Fd, ServerConnectFails(t) PROVE IInv' BY <1>14, ServerConnectFailsStep
<1>15. ASSUME NEW t \in Fd, clientSession(t) PROVE IInv' BY <1>15, SessionStep
<1>16. ASSUME NEW p \in Acceptor, NEW t \in Fd, ThreadEnds(p, t) PROVE IInv'
  BY <1>16, ThreadEndsStep
<1>17. ASSUME NEW k \in DOMAIN conn, LinkBreaks(k) PROVE IInv' BY <1>17, BreakStep
<1>18. CASE UNCHANGED vars BY <1>18, StutterStep
<1> QED BY <1>1, <1>2, <1>3, <1>4, <1>5, <1>6, <1>7, <1>8, <1>9, <1>10, <1>11, <1>12, <1>13,
           <1>14, <1>15, <1>16, <1>17, <1>18 DEF Next

-----------------------------------------------------------------------------

\* Everything keeps its type, the table of a program stays within RLIMIT_NOFILE,
\* no object holds a descriptor that its program has not opened, and a thread is
\* only started with a socket that has one (the check of accept's result).
THEOREM SocketsTypeCorrect == Spec => []TypeOK
<1>1. IInv => TypeOK
  BY ObjectNames DEF IInv, Ownership, OwnTypes, Control, MainOK, TypeOK, MainObject
<1> QED BY <1>1, SocketsInit, SocketsNext, PTL DEF Spec

\* However often a socket is moved, from the accept loop into the arguments of a
\* thread and into its session, a program does not shut down what one of its
\* threads still reads.
THEOREM ReadersKeepConnection == Spec => []NotShutUnderReader
<1>1. IInv => NotShutUnderReader
  <2> SUFFICES ASSUME IInv, NEW p \in Acceptor, NEW t \in Fd, NEW k \in DOMAIN conn, Reads(p, t, k)
               PROVE  p \notin conn[k].downBy
    BY DEF NotShutUnderReader
  <2>1. Ownership /\ ThreadOK(p, t) /\ conn \in Seq(Connection) /\ k # 0
    BY DEF IInv, Control, Ownership, OwnTypes
  <2>2. pc[p][t] \in Active /\ Of(Read(p, t)) = k
    BY DEF Reads
  <2>3. Read(p, t) \in Object /\ Read(p, t)[1] = p
    <3>1. CASE pc[p][t] = "started"
      BY <3>1, ObjectNames, Differ DEF Read, Argument
    <3>2. CASE pc[p][t] = "handshake"
      BY <2>1, <3>2, ObjectNames, Differ DEF Read, TtpSocket, ThreadOK
    <3>3. CASE pc[p][t] \notin {"started", "handshake"}
      BY <3>3, ObjectNames, Differ DEF Read, Session
    <3> QED BY <3>1, <3>2, <3>3
  <2> QED BY <2>1, <2>2, <2>3 DEF Ownership, HeldIsUp
<1> QED BY <1>1, SocketsInit, SocketsNext, PTL DEF Spec

\* A connection whose descriptor no object of a program holds any more is down:
\* the destructor of every TcpSocket, and the Connect button that is only there
\* when the serverSocket it overwrites is not healthy.
THEOREM ForgottenAreDown == Spec => []ForgottenIsDown
<1>1. IInv => ForgottenIsDown
  BY DEF IInv, Ownership
<1> QED BY <1>1, SocketsInit, SocketsNext, PTL DEF Spec

=============================================================================
