------------------------------- MODULE MCTtp -------------------------------
(***************************************************************************)
(* Small instances of Ttp for TLC.  Two kinds of instance: peers that send *)
(* what the client and server programs send (Programs), where the          *)
(* interleavings of the threads are the point, and peers that send any     *)
(* packet (Anything), where the handlers' guards are.                      *)
(***************************************************************************)
EXTENDS TtpInvariant, TLC

CONSTANTS r1, r2, s1, s2   \* connections of requesters and of services

RequesterConn == {r1, r2}
ServiceConn == {s1, s2}

\* One user: every connection of r1 and r2 is one more attempt of it.
RequesterPackets == {InitiateAuth(n) : n \in Users}
                      \cup {UserAuthDataSubmit(n) : n \in Users}
ServicePackets == {InitiateAuth(n) : n \in Services}
                    \cup {ServerAuthRequest(n, m) : n \in Users, m \in Services}
Programs == [c \in Conn |-> IF c \in RequesterConn THEN RequesterPackets
                                                   ELSE ServicePackets]

\* Peers that ignore the protocol
Anything == [c \in Conn |-> PeerPackets]

Symmetry == Permutations(RequesterConn \cap Conn)
              \cup Permutations(ServiceConn \cap Conn)
=============================================================================
