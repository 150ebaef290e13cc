---------------------------- MODULE MCRegistration ----------------------------
(***************************************************************************)
(* A small instance of Registration for TLC: names of two digits, which is *)
(* the longest common name.                                                *)
(***************************************************************************)
EXTENDS Registration

CONSTANTS c, s   \* a run of the client, a run of the server

Ids == [p \in Participant |-> IF p = c THEN <<1, 1>> ELSE <<2, 1>>]
Garbage == <<3, 3>>
Authority == <<0>>
Fake == <<9>>
=============================================================================
