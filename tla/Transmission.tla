----------------------------- MODULE Transmission -----------------------------
(***************************************************************************)
(* What sancus_write() and sancus_writev() promise: the bytes of a message *)
(* go out in order, each once; the call succeeds only when all have, and   *)
(* whenever it fails some first part of them has.                          *)
(***************************************************************************)
EXTENDS Sequences, Naturals

CONSTANT Messages

VARIABLES
  msg,    \* the message of the last call
  out,    \* what went out of it
  state   \* of the call

tvars == <<msg, out, state>>

Init == msg = <<>> /\ out = <<>> /\ state = "idle"

Begin(m) ==
  /\ state # "sending"
  /\ msg' = m /\ out' = <<>> /\ state' = "sending"

Send ==
  /\ state = "sending"
  /\ \E k \in Len(out) + 1..Len(msg) : out' = SubSeq(msg, 1, k)
  /\ UNCHANGED <<msg, state>>

Succeed ==
  /\ state = "sending" /\ out = msg
  /\ state' = "sent"
  /\ UNCHANGED <<msg, out>>

Fail ==
  /\ state = "sending"
  /\ state' = "failed"
  /\ UNCHANGED <<msg, out>>

Next == (\E m \in Messages : Begin(m)) \/ Send \/ Succeed \/ Fail

Spec == Init /\ [][Next]_tvars
=============================================================================
