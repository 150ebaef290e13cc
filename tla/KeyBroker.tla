------------------------------ MODULE KeyBroker ------------------------------
(***************************************************************************)
(* What the TTP promises about session keys, without threads, maps or      *)
(* packets (src/README.md: "distributing a freshly generated AES-256       *)
(* session key to both parties").                                          *)
(*                                                                         *)
(* A connection identifies itself once.  A service says once which user it *)
(* serves.  A key is first given to a connection of a user, then to at     *)
(* most one service that asked for that user.  No connection is given a    *)
(* second key.                                                             *)
(***************************************************************************)
CONSTANTS Conn, Users, Services, None

VARIABLES
  who,    \* who[c]: the name the connection proved
  asks,   \* asks[c]: the user a service's connection asked for
  key     \* key[c]: the session key it was given (named by a thread)

vars == <<who, asks, key>>

Init ==
  /\ who = [c \in Conn |-> None]
  /\ asks = [c \in Conn |-> None]
  /\ key = [c \in Conn |-> None]

Identify(c, n) ==
  /\ who[c] = None
  /\ who' = [who EXCEPT ![c] = n]
  /\ UNCHANGED <<asks, key>>

AskFor(c, u) ==
  /\ who[c] \in Services /\ asks[c] = None
  /\ asks' = [asks EXCEPT ![c] = u]
  /\ UNCHANGED <<who, key>>

\* The first half: k is fresh and goes to a requester.
GiveRequester(c) ==
  /\ who[c] \in Users /\ key[c] = None
  /\ \E k \in Conn :
       /\ key'[c] = k
       /\ \A d \in Conn : key[d] # k
       /\ key' = [key EXCEPT ![c] = k]
  /\ UNCHANGED <<who, asks>>

\* The second half: the same key goes to one service that asked for it.
GiveService(d) ==
  /\ who[d] \in Services /\ key[d] = None
  /\ \E k \in Conn :
       /\ key'[d] = k
       /\ \E c \in Conn : key[c] = k /\ who[c] = asks[d] /\ who[c] \in Users
       /\ \A s \in Conn : key[s] = k => who[s] \notin Services
       /\ key' = [key EXCEPT ![d] = k]
  /\ UNCHANGED <<who, asks>>

Next ==
  \E c \in Conn :
    \/ \E n \in Users \cup Services : Identify(c, n)
    \/ \E u \in Users : AskFor(c, u)
    \/ GiveRequester(c)
    \/ GiveService(c)

Spec == Init /\ [][Next]_vars
=============================================================================
