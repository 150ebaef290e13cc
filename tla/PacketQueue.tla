----------------------------- MODULE PacketQueue -----------------------------
(***************************************************************************)
(* What one direction of a TcpSocket promises its users, without bytes:    *)
(* receive() returns the packets in the order send() was called, each of   *)
(* them whole, none twice and none left out; an end of connection is       *)
(* reported only after the last of them (src/src/network/socket.hpp,       *)
(* send, receive and close).                                               *)
(*                                                                         *)
(* The promise lasts until the connection is damaged: by two threads that  *)
(* send at the same time, or by a receive timeout inside a packet.         *)
(***************************************************************************)
EXTENDS Naturals, Sequences

VARIABLES
  sent,     \* the packets of which send() has written something, in order
  whole,    \* send() has written the last of them completely
  got,      \* the packets receive() returned
  outcome,  \* what receive() did last
  ended,    \* how the sender's end is: "open", "shut", "reset",
            \* or "broken" once the reader was told
  damaged   \* the reader cannot tell packets apart any more

vars == <<sent, whole, got, outcome, ended, damaged>>

Init ==
  /\ sent = <<>> /\ got = <<>> /\ whole = TRUE
  /\ outcome = "none" /\ ended = "open" /\ damaged = FALSE

\* The packets that can be read
Complete == IF whole THEN Len(sent) ELSE Len(sent) - 1

Send ==
  /\ ended = "open"
  /\ Len(sent') = Len(sent) + 1 /\ sent = SubSeq(sent', 1, Len(sent))
  /\ whole => (damaged' = damaged)
  /\ ~whole => damaged'
  /\ UNCHANGED <<got, outcome, ended>>

GoOn ==
  /\ ended = "open" /\ ~whole
  /\ damaged => damaged'
  /\ UNCHANGED <<sent, got, outcome, ended>>

Close == ended = "open" /\ ended' = "shut" /\ UNCHANGED <<sent, whole, got, outcome, damaged>>
Reset == ended \in {"open", "shut"} /\ ended' = "reset" /\ UNCHANGED <<sent, whole, got, outcome, damaged>>

Receive ==
  /\ Len(got) < Complete /\ ended # "broken"
  /\ got' = Append(got, sent[Len(got) + 1])
  /\ outcome' = "packet"
  /\ UNCHANGED <<sent, whole, ended, damaged>>

\* Nothing that arrives is lost before an orderly end.
End ==
  /\ ended = "shut" /\ Len(got) = Complete
  /\ outcome' = "CloseConnection"
  /\ UNCHANGED <<sent, whole, got, ended, damaged>>

Fail ==
  /\ ended \in {"reset", "broken"} /\ ended' = "broken"
  /\ outcome' \in {"error", "CloseConnection"}
  /\ UNCHANGED <<sent, whole, got, damaged>>

TimeOut ==
  /\ ended = "open"
  /\ outcome' = "TimedOut"
  /\ damaged => damaged'
  /\ UNCHANGED <<sent, whole, got, ended>>

Anything == damaged /\ UNCHANGED <<sent, whole, ended, damaged>>

Next == Send \/ GoOn \/ Close \/ Reset \/ Receive \/ End \/ Fail \/ TimeOut \/ Anything

Spec == Init /\ [][Next]_vars
=============================================================================
