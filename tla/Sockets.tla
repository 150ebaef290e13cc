-------------------------------- MODULE Sockets --------------------------------
(***************************************************************************)
(* Sockets as C++ objects: who owns a file descriptor, when a connection   *)
(* is shut down, and what is left in the kernel's table                    *)
(* (src/src/network/socket.cpp and the accept loops, threads and local     *)
(* variables of the three programs).                                       *)
(*                                                                         *)
(* A TcpSocket holds a descriptor or INVALID_SOCKET.  Moving it hands the  *)
(* descriptor over; its destructor and close() shut the connection down    *)
(* and forget the descriptor.  Nothing calls ::close, so the descriptors   *)
(* of a program are numbered 1, 2, ... in the order they were opened, and  *)
(* the table of a program is a sequence that only grows.                   *)
(***************************************************************************)
EXTENDS Naturals, Sequences

CONSTANTS
  MaxFd,     \* RLIMIT_NOFILE
  MaxConn    \* bound on the connections that are made

ASSUME SocketsAssumption == MaxFd \in Nat /\ MaxConn \in Nat

Acceptor == {"server", "ttp"}
Program == Acceptor \cup {"client"}
INVALID_SOCKET == 0
Fd == 1..MaxFd

\* The socket objects: local variables and members.  A thread is known by the
\* descriptor it is started with; 0 is the main thread.
Object ==
  {<<"client", 0, "serverSocket">>, <<"client", 0, "newSocket">>, <<"client", 0, "ttpSocket">>}
  \cup Acceptor \X {0} \X {"accepted"}
  \cup Acceptor \X Fd \X {"argument", "own"}
  \cup {"server"} \X Fd \X {"ttpSocket"}
ObjectsIn == [p \in Program |-> {o \in Object : o[1] = p}]
serverSocket == <<"client", 0, "serverSocket">>
newSocket == <<"client", 0, "newSocket">>

VARIABLES
  table,    \* table[p][fd]: the connection open as descriptor fd in program p,
            \* 0 for a socket that never was connected
  object,   \* object[o]: the descriptor of o
  conn,     \* the connections, in the order they are made
  pc,       \* pc[p][t]: where thread t of program p is
  running   \* running[p]: p has not aborted

vars == <<table, object, conn, pc, running>>

\* downBy: who has shut it down, "network" for a connection that broke
NewConn(p, q) == [from |-> p, to |-> q, accepted |-> FALSE, downBy |-> {}]

Init ==
  /\ table = [p \in Program |-> <<>>]
  /\ object = [o \in Object |-> INVALID_SOCKET]
  /\ conn = <<>>
  /\ pc = [p \in Program |-> [t \in 0..MaxFd |->
             IF t > 0 THEN "none" ELSE IF p \in Acceptor THEN "accepting" ELSE "idle"]]
  /\ running = [p \in Program |-> TRUE]

Down(k) == conn[k].downBy # {}
Full(p) == Len(table[p]) = MaxFd
OpenedNext(p) == Len(table[p]) + 1
\* The connection of an object, 0 if there is none
Of(o) == IF object[o] = INVALID_SOCKET THEN 0 ELSE table[o[1]][object[o]]
Goto(p, t, from, to) == pc[p][t] = from /\ pc' = [pc EXCEPT ![p][t] = to]

-----------------------------------------------------------------------------
(* TcpSocket *)

\* Defective variant that no specification uses: a moved-from socket keeps its
\* descriptor.
MovedKeeping(from, to) == [object EXCEPT ![to] = object[from]]

\* The move constructor, and move assignment to a socket that was not closed:
\* its descriptor is forgotten.
Moved(from, to) == [object EXCEPT ![to] = object[from], ![from] = INVALID_SOCKET]

\* Defective variant that no specification uses: close() only forgets.
DownWithout(objects, k) == conn[k].downBy

\* closeSocket for each of some objects of one program
DownAfter(objects, k) ==
  conn[k].downBy \cup {o[1] : o \in {x \in objects : Of(x) = k}}
Close(objects) ==
  /\ object' = [o \in Object |-> IF o \in objects THEN INVALID_SOCKET ELSE object[o]]
  /\ conn' = [k \in DOMAIN conn |-> [conn[k] EXCEPT !.downBy = DownAfter(objects, k)]]

\* TcpSocket::connect into o
Connects(q, o) ==
  /\ ~Full(o[1]) /\ running[q] /\ Len(conn) < MaxConn
  /\ conn' = Append(conn, NewConn(o[1], q))
  /\ table' = [table EXCEPT ![o[1]] = Append(@, Len(conn) + 1)]
  /\ object' = [object EXCEPT ![o] = OpenedNext(o[1])]

\* No descriptor is left, or one is spent in vain.
ConnectFails(p) ==
  \/ Full(p) /\ UNCHANGED table
  \/ ~Full(p) /\ table' = [table EXCEPT ![p] = Append(@, 0)]

-----------------------------------------------------------------------------
(* The client: one thread, the user interface *)

isHealthy(o) == Of(o) # 0 /\ ~Down(Of(o))

\* Defective variant that no specification uses: the button is always there.
ConnectAlways ==
  /\ Goto("client", 0, "idle", "assigning") /\ Connects("server", newSocket)
  /\ UNCHANGED running

\* The Connect button
ConnectToServer ==
  /\ ~isHealthy(serverSocket)
  /\ Goto("client", 0, "idle", "assigning") /\ Connects("server", newSocket)
  /\ UNCHANGED running

ConnectToServerFails ==
  /\ ~isHealthy(serverSocket) /\ pc["client"][0] = "idle" /\ ConnectFails("client")
  /\ table' # table
  /\ UNCHANGED <<object, conn, pc, running>>

AssignServerSocket ==
  /\ Goto("client", 0, "assigning", "idle")
  /\ object' = Moved(newSocket, serverSocket)
  /\ UNCHANGED <<table, conn, running>>

clientTtpSocket == <<"client", 0, "ttpSocket">>

\* The Request service button, or Obtain certificate
RequestService ==
  /\ Goto("client", 0, "idle", "handshake") /\ Connects("ttp", clientTtpSocket)
  /\ UNCHANGED running

RequestServiceEnds ==
  /\ Goto("client", 0, "handshake", "idle") /\ Close({clientTtpSocket})
  /\ UNCHANGED <<table, running>>

-----------------------------------------------------------------------------
(* The accept loops *)

\* The oldest connection that waits to be accepted
Waiting(k) == ~conn[k].accepted
Oldest(p, k) ==
  /\ conn[k].to = p /\ Waiting(k)
  /\ \A j \in 1..(k - 1) : conn[j].to = p => ~Waiting(j)

Accept(p) ==
  /\ running[p] /\ ~Full(p) /\ Goto(p, 0, "accepting", "accepted")
  /\ \E k \in DOMAIN conn :
       /\ Oldest(p, k)
       /\ conn' = [conn EXCEPT ![k].accepted = TRUE]
       /\ table' = [table EXCEPT ![p] = Append(@, k)]
       /\ object' = [object EXCEPT ![<<p, 0, "accepted">>] = OpenedNext(p)]
  /\ UNCHANGED running

\* The table is full, or the kernel is short of memory.
AcceptFails(p) ==
  /\ running[p] /\ Goto(p, 0, "accepting", "failed")
  /\ UNCHANGED <<table, object, conn, running>>

\* Defective variant that no specification uses: a failure ends the loop.
AcceptGivesUp(p) ==
  /\ running[p] /\ Goto(p, 0, "failed", "ended")
  /\ UNCHANGED <<table, object, conn, running>>

\* Defective variant that no specification uses: the result is not tested.
AcceptedAnyway(p) ==
  /\ running[p] /\ Goto(p, 0, "failed", "accepted")
  /\ UNCHANGED <<table, object, conn, running>>

\* It is logged, and the next one accepted.
AcceptAgain(p) ==
  /\ running[p] /\ Goto(p, 0, "failed", "accepting")
  /\ UNCHANGED <<table, object, conn, running>>

\* The server asks the socket it has not got for its descriptor, to log it:
\* undefined behaviour, which prints a number, or aborts where libstdc++ is
\* built with assertions (the default of the Dockerfile's compiler without -O).
Abort ==
  /\ running["server"] /\ pc["server"][0] = "failed"
  /\ running' = [running EXCEPT !["server"] = FALSE]
  /\ pc' = [pc EXCEPT !["server"] = [t \in 0..MaxFd |-> "ended"]]
  /\ object' = [o \in Object |-> IF o[1] = "server" THEN INVALID_SOCKET ELSE object[o]]
  /\ conn' = [k \in DOMAIN conn |->
                IF "server" \in {conn[k].from, conn[k].to}
                THEN [conn[k] EXCEPT !.downBy = @ \cup {"server"}] ELSE conn[k]]
  /\ table' = [table EXCEPT !["server"] = <<>>]

\* The thread is started with the accepted socket moved into its arguments ...
Spawn(p) ==
  /\ running[p] /\ pc[p][0] = "accepted"
  /\ LET t == object[<<p, 0, "accepted">>] IN
       /\ object' = Moved(<<p, 0, "accepted">>, <<p, t, "argument">>)
       /\ pc' = [pc EXCEPT ![p][0] = "spawned", ![p][t] = "started"]
  /\ UNCHANGED <<table, conn, running>>

\* ... and the variable of the loop goes out of scope.
EndOfIteration(p) ==
  /\ running[p] /\ Goto(p, 0, "spawned", "accepting")
  /\ Close({<<p, 0, "accepted">>})
  /\ UNCHANGED <<table, running>>

-----------------------------------------------------------------------------
(* The threads of connections *)

ObjectsOf(p, t) == {o \in ObjectsIn[p] : o[2] = t}

\* The TTP puts the socket behind a shared_ptr.
handleClientConnection(t) ==
  /\ Goto("ttp", t, "started", "running")
  /\ object' = Moved(<<"ttp", t, "argument">>, <<"ttp", t, "own">>)
  /\ UNCHANGED <<table, conn, running>>

\* The server's thread has a ServiceRequest and connects to the TTP.
ServerConnects(t) ==
  /\ Goto("server", t, "started", "handshake") /\ Connects("ttp", <<"server", t, "ttpSocket">>)
  /\ UNCHANGED running

\* It cannot: the thread ends.
ServerConnectFails(t) ==
  /\ Goto("server", t, "started", "ended") /\ ConnectFails("server")
  /\ Close(ObjectsOf("server", t))
  /\ UNCHANGED running

\* The handshake succeeds: the socket is moved into clientSession.
clientSession(t) ==
  /\ Goto("server", t, "handshake", "session")
  /\ object' = Moved(<<"server", t, "argument">>, <<"server", t, "own">>)
  /\ UNCHANGED <<table, conn, running>>

\* A thread ends, by an error or because it is done: its sockets are destroyed.
\* (At the TTP the socket of a service outlives its thread while pendingSessions
\* holds it, and that of a requester while such a service's thread writes to it.
\* Nobody reads from it there any more; Ttp.tla models how long it stays open.)
Active == {"started", "running", "handshake", "session"}
ThreadEnds(p, t) ==
  /\ pc[p][t] \in Active /\ pc' = [pc EXCEPT ![p][t] = "ended"]
  /\ Close(ObjectsOf(p, t))
  /\ UNCHANGED <<table, running>>

LinkBreaks(k) ==
  /\ ~Down(k) /\ conn' = [conn EXCEPT ![k].downBy = {"network"}]
  /\ UNCHANGED <<table, object, pc, running>>

-----------------------------------------------------------------------------

Next ==
  \/ ConnectToServer \/ ConnectToServerFails \/ AssignServerSocket
  \/ RequestService \/ RequestServiceEnds \/ Abort
  \/ \E p \in Acceptor :
       Accept(p) \/ AcceptFails(p) \/ AcceptAgain(p) \/ Spawn(p) \/ EndOfIteration(p)
  \/ \E t \in Fd : handleClientConnection(t) \/ ServerConnects(t)
                   \/ ServerConnectFails(t) \/ clientSession(t)
  \/ \E p \in Acceptor, t \in Fd : ThreadEnds(p, t)
  \/ \E k \in DOMAIN conn : LinkBreaks(k)

Spec == Init /\ [][Next]_vars

\* The object that thread t of p reads from, in receive() without a time limit
Read(p, t) ==
  IF pc[p][t] = "started" THEN <<p, t, "argument">>
  ELSE IF pc[p][t] = "handshake" THEN <<p, t, "ttpSocket">> ELSE <<p, t, "own">>
Reads(p, t, k) == pc[p][t] \in Active /\ Of(Read(p, t)) = k

\* receive() returns CloseConnection or an error: all threads end then.
Woken(p, t) == (\E k \in DOMAIN conn : Reads(p, t, k) /\ Down(k)) /\ ThreadEnds(p, t)

\* Threads run; accept does not fail for ever while there is a descriptor left.
Fairness ==
  /\ \A p \in Acceptor :
       SF_vars(Accept(p)) /\ WF_vars(AcceptAgain(p) \/ Spawn(p) \/ EndOfIteration(p))
  /\ \A p \in Acceptor, t \in Fd : WF_vars(Woken(p, t))
FairSpec == Spec /\ Fairness

-----------------------------------------------------------------------------
(* Properties *)

Connection ==
  [from : Program, to : Acceptor, accepted : BOOLEAN,
   downBy : SUBSET (Program \cup {"network"})]
Places == Active \cup {"none", "ended", "accepting", "failed", "accepted", "spawned",
                       "idle", "assigning"}

\* A descriptor that an object holds is in the table of its program, and a
\* thread is only started with a socket that has one.
TypeOK ==
  /\ conn \in Seq(Connection) /\ Len(conn) <= MaxConn
  /\ table \in [Program -> Seq(0..MaxConn)]
  /\ \A p \in Program : Len(table[p]) <= MaxFd
  /\ object \in [Object -> {INVALID_SOCKET} \cup Fd]
  /\ pc \in [Program -> [0..MaxFd -> Places]]
  /\ running \in [Program -> BOOLEAN]
  /\ \A o \in Object : object[o] <= Len(table[o[1]])
  /\ \A p \in Acceptor : pc[p][0] = "accepted" => object[<<p, 0, "accepted">>] \in Fd

\* However often a socket is moved, from the accept loop into the thread and on
\* into the session, no variable that it left behind shuts it down: a program
\* never shuts down what one of its threads still reads.
NotShutUnderReader ==
  \A p \in Acceptor, t \in Fd, k \in DOMAIN conn :
    Reads(p, t, k) => p \notin conn[k].downBy

Held(p, fd) == \E o \in ObjectsIn[p] : object[o] = fd

\* A connection that no object of a program holds any more is down, so the
\* program at the other end learns of it; the serverSocket that the Connect
\* button overwrites without closing it is no exception.
ForgottenIsDown ==
  \A p \in Program : \A fd \in 1..Len(table[p]) :
    table[p][fd] # 0 /\ ~Held(p, fd) => Down(table[p][fd])

\* Nobody reads on from a connection that the other program was given and no
\* longer has.  (One that it never accepted, its table being full, is another
\* matter.)
Abandoned(p, k) ==
  /\ conn[k].accepted
  /\ \A q \in Program \ {p} : \A fd \in 1..Len(table[q]) : table[q][fd] = k => ~Held(q, fd)
ReadsInVain(p, t) == \E k \in DOMAIN conn : Reads(p, t, k) /\ Abandoned(p, k)
ReadersWake == \A p \in Acceptor, t \in Fd : ReadsInVain(p, t) ~> ~ReadsInVain(p, t)

\* A failed accept is not the last: whoever waits is accepted while the program
\* has a descriptor left.
StillAccepts ==
  \A k \in 1..MaxConn :
    (k \in DOMAIN conn /\ Waiting(k))
      ~> (k \in DOMAIN conn =>
            conn[k].accepted \/ Full(conn[k].to) \/ ~running[conn[k].to])

\* What close() is documented to do ("closes the socket and makes it invalid"):
\* no descriptor outlives the objects that held it.
NoLeak == \A p \in Program : \A fd \in 1..Len(table[p]) : Held(p, fd)
=============================================================================
