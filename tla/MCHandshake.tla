---------------------------- MODULE MCHandshake ----------------------------
(***************************************************************************)
(* Small instances of Handshake for TLC: one user who tries again, on the  *)
(* same link or on a new one, and two users of one server.                 *)
(***************************************************************************)
EXTENDS Handshake, TLC

CONSTANTS r1, r2, s1, s2   \* connections of clients and of server threads
CONSTANT s                 \* the server's name

\* Every packet the two programs can write to the TTP
ProgramPackets ==
  [c \in Conn |->
     IF c \in Links
     THEN {InitiateAuth(ServerCert[c])}
            \cup {ServerAuthRequest(n, ServerCert[c]) : n \in Users \cup {Forged}}
     ELSE {InitiateAuth(n) : n \in Users}
            \cup {UserAuthDataSubmit(n) : n \in Users \cup {Forged}}]

Registered == [l \in Links |-> s]
CONSTANTS u, v   \* users

Retries == Permutations({r1, r2} \cap Conn) \cup Permutations({s1, s2} \cap Conn)
             \cup Permutations(Users)

\* Links that break let attempts overlap in many more ways than TLC can explore.
\* Here one link breaks, while nobody else is connected, and its user asks for
\* service again when the threads of the TTP have ended.
Settled == broken # {} => \A c \in Conn : ~Live(c)

NextOneBreak ==
  \/ \E k \in Users :
       \/ \E l \in Links : Connect(k, l) /\ (broken # {} => link[k] # None)
       \/ \E c \in Attempts : RequestService(k, c) /\ Settled
       \/ Exit(k) /\ link[k] # None
  \/ /\ broken = {} /\ \A k, n \in Users : link[k] # None /\ link[n] # None => k = n
     /\ \E l \in Links : LinkBreaks(l)
  \/ Unattended

OneBreak == HandshakeInit /\ [][NextOneBreak]_allVars

\* Where SYMMETRY is not sound, under fairness, the buttons take attempts and
\* links in order.  Links break before the second attempt, the window stays.
NextInOrder ==
  \/ \E k \in Users :
       \/ \E l \in Links : Connect(k, l) /\ (l = s2 => spc[s1] # "free")
       \/ \E c \in Attempts :
            RequestService(k, c) /\ (c = r2 => pc[r1] # "free") /\ Settled
  \/ pc[r2] = "free" /\ \E l \in Links : LinkBreaks(l)
  \/ Unattended

FairInOrder == HandshakeInit /\ [][NextInOrder]_allVars /\ HandshakeFairness
=============================================================================
