------------------------------ MODULE MCTwoKeys ------------------------------
(***************************************************************************)
(* One instance of Handshake that is too large for TLC to explore, cut     *)
(* down to some of its behaviours: one user makes six attempts over five   *)
(* links, and some threads of the TTP are slow.  Every behaviour of        *)
(* ScheduledSpec is one of HandshakeSpec, so what goes wrong here goes     *)
(* wrong there; nothing is shown by what goes right.                       *)
(*                                                                         *)
(* The TTP matches a user's connection and a user's service by name.  The  *)
(* schedule leaves threads of abandoned attempts behind until there are    *)
(* two connections and two services of the user to be matched, and a       *)
(* thread each to do it.                                                   *)
(***************************************************************************)
EXTENDS Handshake, TLC

CONSTANTS r1, r2, r3, r4, r5, r6   \* the attempts
CONSTANTS s1, s2, s3, s4, s5       \* the links
CONSTANTS s, u                     \* the names of the server and of the user

ProgramPackets ==
  [c \in Conn |->
     IF c \in Links
     THEN {InitiateAuth(s)} \cup {ServerAuthRequest(n, s) : n \in Users \cup {Forged}}
     ELSE {InitiateAuth(u), UserAuthDataSubmit(u)}]

Registered == [l \in Links |-> s]

\* The user's buttons: which attempt is made over which link.  The false
\* certificate of the first makes it fail.
LinkOf == r1 :> s1 @@ r2 :> s2 @@ r3 :> s3 @@ r4 :> s3 @@ r5 :> s4 @@ r6 :> s5
LinksInOrder == <<s1, s2, s3, s4, s5>>

UserInOrder ==
  /\ cpc'[u] # "exited"
  /\ \A c \in Attempts :
       ttp[u] # c /\ ttp'[u] = c =>
         link[u] = LinkOf[c] /\ cert'[u] = IF c = r1 THEN Forged ELSE u
  /\ link'[u] # link[u] =>
       \E i \in DOMAIN LinksInOrder :
         /\ link'[u] = LinksInOrder[i]
         /\ link[u] = IF i = 1 THEN None ELSE LinksInOrder[i - 1]

\* The slow threads: where each of them stops, and what it stops for
Resumes ==
  {\* These two report failures to the services of later attempts.
   <<r1, "findPending", pendingSessions[u] = s2>>,
   <<r2, "findPending", pendingSessions[u] = s4>>,
   <<r2, "erasePending", FALSE>>,
   \* s3 sends a second ticket, which the client does not expect, so r3's thread
   \* is left behind with UserAuthDataSubmit to read.
   <<s2, "findClient", connectedClients[u] = r3>>,
   <<s3, "findClient", cpc[u] = "receiveSessionKey">>,
   <<r3, "authenticateClient", pendingSessions[u] = s5 /\ connectedClients[u] = r5>>,
   \* Told InitiateAuthOk, and not registered yet
   <<r4, "register", FALSE>>,
   <<r5, "register", clientKey[u] # None>>,
   \* s4, whose server's thread has gone, is matched with r6, and s5 with r5.
   <<s4, "findClient", connectedClients[u] = r6>>,
   <<s5, "findClient", FALSE>>,
   <<r6, "eraseClient", FALSE>>}

Waits(c) == \E w \in Resumes : w[1] = c /\ w[2] = pc[c] /\ ~w[3]

\* A server's thread always reaches the TTP.
Connects == \A l \in Links : spc[l] = "connectTo" => spc'[l] # "return"

Schedule ==
  /\ up'
  /\ UserInOrder
  /\ Connects
  /\ \A c \in Conn : Waits(c) => pc'[c] = pc[c]

ScheduledSpec == HandshakeInit /\ [][HandshakeNext /\ Schedule]_allVars
=============================================================================
