-------------------------------- MODULE FdIO --------------------------------
(***************************************************************************)
(* sancus_fd.h: sancus_write() and sancus_writev(), which call write(2)    *)
(* and writev(2) until everything has gone out, against a kernel that may  *)
(* take any part of what it is offered, be interrupted, or refuse.         *)
(*                                                                         *)
(* A byte is named by its vector and its offset there. sancus_write() has  *)
(* its data and size in iov, as one vector. One thread, one call at a      *)
(* time. The counts stay within an int.                                    *)
(***************************************************************************)
EXTENDS Integers, SequencesExt

CONSTANTS
  MaxVecs, MaxLen,  (* bounds on iovcnt, and on the length of a vector     *)
  EmptyTail         (* does a caller pass a vector list that ends in an    *)
                    (* empty one? log.c:99 ends its list with "\n"         *)

ASSUME BoundsAssumption ==
  MaxVecs \in Nat \ {0} /\ MaxLen \in Nat /\ EmptyTail \in BOOLEAN

VARIABLES
  op,     \* the function that is running
  at,     \* before its loop test, before the system call, in the inner loop
  iov,    \* what is left, iovcnt of them
  wc, wt, \* the locals
  errno,
  ret,    \* what the last call returned
  msg,    \* history: the bytes it was given
  out     \* the bytes the kernel took from it

vars == <<op, at, iov, wc, wt, errno, ret, msg, out>>

NoRet == -2
MaxCount == MaxVecs * MaxLen

Vector(i, l) == [vec |-> i, off |-> 0, len |-> l]
Bytes(v) == [j \in 1..v.len |-> <<v.vec, v.off + j>>]
Gather(s) == FlattenSeq([i \in 1..Len(s) |-> Bytes(s[i])])

(* iov_base += n, iov_len -= n *)
Advance(v, n) == [v EXCEPT !.off = @ + n, !.len = @ - n]

EndsEmpty(lens) == lens # <<>> /\ lens[Len(lens)] = 0

VectorLists ==
  {[i \in DOMAIN lens |-> Vector(i, lens[i])] :
     lens \in {l \in BoundedSeq(0..MaxLen, MaxVecs) : EndsEmpty(l) => EmptyTail}}

Buffers == {<<Vector(1, l)>> : l \in 0..MaxLen}

Messages == {Gather(v) : v \in VectorLists \cup Buffers}

TypeOK ==
  /\ op \in {"none", "write", "writev"}
  /\ at \in {"test", "call", "consume"}
  /\ iov \in Seq([vec : 1..MaxVecs, off : 0..MaxLen, len : 0..MaxLen])
  /\ wc \in 0..MaxCount
  /\ wt \in 0..MaxCount
  /\ errno \in {"none", "EINTR", "other"}
  /\ ret \in {NoRet, -1} \cup 0..MaxCount
  /\ msg \in Messages

Init ==
  /\ op = "none" /\ at = "test"
  /\ iov = <<>> /\ wc = 0 /\ wt = 0
  /\ errno = "none" /\ ret = NoRet
  /\ msg = <<>> /\ out = <<>>

Call(f, v) ==
  /\ op = "none"
  /\ op' = f /\ at' = "test"
  /\ iov' = v /\ wc' = 0 /\ wt' = 0
  /\ msg' = Gather(v) /\ out' = <<>>
  /\ UNCHANGED <<errno, ret>>

Return(r) == op' = "none" /\ ret' = r

(* The condition of the outer while: size, or iovcnt. *)
Done == IF op = "write" THEN iov[1].len = 0 ELSE iov = <<>>

LoopTest ==
  /\ op # "none" /\ at = "test"
  /\ \/ Done /\ Return(wt) /\ UNCHANGED at
     \/ ~Done /\ at' = "call" /\ UNCHANGED <<op, ret>>
  /\ UNCHANGED <<iov, wc, wt, errno, msg, out>>

(* The kernel takes n bytes, at least one if it is offered any. *)
Take(n) ==
  LET rest == Gather(iov) IN
  /\ n \in 0..Len(rest) /\ (rest # <<>> => n > 0)
  /\ out' = out \o SubSeq(rest, 1, n)

(* Slip: wt is what the last write(2) took. *)
WriteForgets(n) ==
  /\ op = "write" /\ at = "call"
  /\ Take(n)
  /\ wt' = n
  /\ iov' = <<Advance(iov[1], n)>>
  /\ at' = "test"
  /\ UNCHANGED <<op, wc, errno, ret, msg>>

(* write(2) in sancus_write(): wt, size and data move. *)
Write(n) ==
  /\ op = "write" /\ at = "call"
  /\ Take(n)
  /\ wt' = wt + n
  /\ iov' = <<Advance(iov[1], n)>>
  /\ at' = "test"
  /\ UNCHANGED <<op, wc, errno, ret, msg>>

(* writev(2) in sancus_writev() *)
Writev(n) ==
  /\ op = "writev" /\ at = "call"
  /\ Take(n)
  /\ wc' = n /\ wt' = wt + n
  /\ at' = "consume"
  /\ UNCHANGED <<op, iov, errno, ret, msg>>

(* EINTR: goto try_write, past the loop test. *)
Interrupted ==
  /\ op # "none" /\ at = "call"
  /\ errno' = "EINTR"
  /\ UNCHANGED <<op, at, iov, wc, wt, ret, msg, out>>

(* Any other error, EAGAIN included, is returned at once, and with it the  *)
(* knowledge of what went out is lost.                                     *)
Refused ==
  /\ op # "none" /\ at = "call"
  /\ errno' = "other"
  /\ Return(-1)
  /\ UNCHANGED <<at, iov, wc, wt, msg, out>>

(* Slips: the base stays; a vector that is used up exactly is kept, empty; *)
(* no vector is ever used up.                                              *)
ConsumeKeepsBase ==
  /\ op = "writev" /\ at = "consume"
  /\ \/ wc = 0 /\ at' = "test" /\ UNCHANGED <<iov, wc>>
     \/ /\ wc > 0 /\ UNCHANGED at
        /\ IF wc >= iov[1].len
           THEN wc' = wc - iov[1].len /\ iov' = Tail(iov)
           ELSE wc' = 0 /\ iov' = [iov EXCEPT ![1].len = @ - wc]
  /\ UNCHANGED <<op, wt, errno, ret, msg, out>>

ConsumeKeepsEmpty ==
  /\ op = "writev" /\ at = "consume"
  /\ \/ wc = 0 /\ at' = "test" /\ UNCHANGED <<iov, wc>>
     \/ /\ wc > 0 /\ UNCHANGED at
        /\ IF wc > iov[1].len
           THEN wc' = wc - iov[1].len /\ iov' = Tail(iov)
           ELSE wc' = 0 /\ iov' = [iov EXCEPT ![1] = Advance(@, wc)]
  /\ UNCHANGED <<op, wt, errno, ret, msg, out>>

ConsumeOne ==
  /\ op = "writev" /\ at = "consume"
  /\ \/ wc = 0 /\ at' = "test" /\ UNCHANGED <<iov, wc>>
     \/ /\ wc > 0 /\ UNCHANGED at
        /\ wc' = 0 /\ iov' = [iov EXCEPT ![1] = Advance(@, wc)]
  /\ UNCHANGED <<op, wt, errno, ret, msg, out>>

(* while (wc): vectors that have gone out are dropped, the first that has  *)
(* not is advanced.                                                        *)
Consume ==
  /\ op = "writev" /\ at = "consume"
  /\ \/ wc = 0 /\ at' = "test" /\ UNCHANGED <<iov, wc>>
     \/ /\ wc > 0 /\ UNCHANGED at
        /\ IF wc >= iov[1].len
           THEN wc' = wc - iov[1].len /\ iov' = Tail(iov)
           ELSE wc' = 0 /\ iov' = [iov EXCEPT ![1] = Advance(@, wc)]
  /\ UNCHANGED <<op, wt, errno, ret, msg, out>>

Calls ==
  \/ \E b \in Buffers : Call("write", b)
  \/ \E v \in VectorLists : Call("writev", v)

(* What makes progress: everything but interruptions and refusals. *)
Runs ==
  \/ LoopTest
  \/ \E n \in 0..MaxCount : Write(n) \/ Writev(n)
  \/ Consume

Next == Calls \/ Runs \/ Interrupted \/ Refused

Spec == Init /\ [][Next]_vars

(* The process runs, and is not interrupted for ever. *)
FairSpec == Spec /\ WF_vars(Runs)

-----------------------------------------------------------------------------
(* Properties.                                                             *)

(* What has gone out and what is left make up the message whenever the     *)
(* kernel is asked, wherever in whichever vector it stopped before; and in *)
(* between, wt counts what has gone out.                                   *)
RestIsUnsent ==
  op # "none" =>
    /\ at # "consume" => out \o Gather(iov) = msg
    /\ out = SubSeq(msg, 1, wt)

(* The calls implement Transmission: in order, once, and success only when *)
(* everything went out and is what was counted.                            *)
State ==
  IF op # "none" THEN "sending"
  ELSE IF ret = NoRet THEN "idle"
  ELSE IF ret = -1 THEN "failed"
  ELSE IF ret = Len(msg) THEN "sent" ELSE "miscounted"

Transmitting == INSTANCE Transmission WITH state <- State

TransmissionSpec == Transmitting!Spec

(* A call returns, also when vectors in the list are empty, as long as the *)
(* last one is not.                                                        *)
Returns == op # "none" ~> op = "none"
=============================================================================
