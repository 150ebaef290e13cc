------------------------------ MODULE MCSockets ------------------------------
(* A small instance of Sockets for TLC: the constants are in the cfg. *)
EXTENDS Sockets
=============================================================================
