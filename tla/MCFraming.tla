------------------------------ MODULE MCFraming ------------------------------
(* A small instance of Framing for TLC: texts of one and of six bytes. *)
EXTENDS Framing

CONSTANTS short, long   \* the JSON values 7 and "Ok\n"

Texts == [x \in {short, long} |-> IF x = short THEN <<55>> ELSE <<34, 79, 107, 92, 110, 34>>]
=============================================================================
