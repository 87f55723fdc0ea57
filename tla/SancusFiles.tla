------------------------------ MODULE SancusFiles ------------------------------
(***************************************************************************)
(* Descriptors from birth to death: sancus_socket() of socket.c,           *)
(* sancus_open() and sancus_close() of sancus_fd.h, and                    *)
(* sancus_sanitize_files() of security.c, system call by system call, each *)
(* of which may fail.                                                      *)
(*                                                                         *)
(* One thread. Of the flags of a descriptor only close-on-exec and         *)
(* O_NONBLOCK are kept.                                                    *)
(***************************************************************************)
EXTENDS Naturals, FiniteSets

CONSTANTS
  Fds,           (* the numbers the kernel may hand out: 0..n              *)
  NoFd,          (* -1                                                     *)
  Limits,        (* the soft limits RLIMIT_NOFILE the process may have     *)
  Systems        (* what it may be built for and run on, see Kinds         *)

ASSUME NumbersAssumption ==
  /\ Fds \subseteq Nat /\ 0..2 \subseteq Fds /\ NoFd \notin Fds
  /\ Limits \subseteq Nat

(* birth: SOCK_CLOEXEC, SOCK_NONBLOCK and O_CLOEXEC are defined. keeps: a  *)
(* close(2) that is interrupted may leave the number open, as POSIX allows *)
(* and Linux never does.                                                   *)
Kinds == [birth : BOOLEAN, keeps : BOOLEAN]

ASSUME SystemsAssumption == Systems \subseteq Kinds

VARIABLES
  system, \* the one this is
  fdt,    \* the flags of each open descriptor
  limit,  \* RLIMIT_NOFILE, which getdtablesize() returns
  call,   \* the call that is running, NoCall
  held,   \* history: who answers for each number, and what was asked of it
  last    \* history: of the call that has just returned: did it fail to
          \* get a descriptor, had the kernel refused it anything, and was
          \* it a socket asked for with neither flag?

vars == <<system, fdt, limit, call, held, last>>
surroundings == <<system, limit>>   \* nothing but a new process changes them

Flags == [cloexec : BOOLEAN, nonblock : BOOLEAN]
Plain == [cloexec |-> FALSE, nonblock |-> FALSE]
Asked(c, n) == [cloexec |-> c, nonblock |-> n]

File(flags) == [open |-> TRUE, flags |-> flags]
Free == [open |-> FALSE, flags |-> Plain]
Held(who, flags) == [who |-> who, flags |-> flags]
Nobody == Held("nobody", Plain)

Frame(fn, at, f, flags, wronly) ==
  [fn |-> fn, at |-> at, fd |-> f, flags |-> flags, wronly |-> wronly,
   refused |-> FALSE]
NoCall == Frame("none", "none", NoFd, Plain, FALSE)

TypeOK ==
  /\ system \in Systems
  /\ fdt \in [Fds -> [open : BOOLEAN, flags : Flags]]
  /\ limit \in Limits
  /\ call \in [fn : {"none", "socket", "open", "close", "sanitize", "abort"},
               at : {"none", "birth", "getfl", "setfl", "failed", "close", "std"},
               fd : Fds \cup {NoFd}, flags : Flags, wronly : BOOLEAN,
               refused : BOOLEAN]
  /\ call.at \in {"getfl", "setfl", "failed"} \/ call.fn = "close" => call.fd \in Fds
  /\ held \in [Fds -> [who : {"nobody", "parent", "caller", "null"},
                       flags : Flags]]
  /\ last \in [failed : BOOLEAN, refused : BOOLEAN, plain : BOOLEAN]

IsOpen(f) == fdt[f].open

(* A process starts with whatever its parent left open.                    *)
Starts(t, h, l) ==
  /\ \E I \in SUBSET Fds :
       /\ t = [f \in Fds |-> IF f \in I THEN File(Plain) ELSE Free]
       /\ h = [f \in Fds |-> IF f \in I THEN Held("parent", Plain) ELSE Nobody]
  /\ l \in Limits

NoResult == [failed |-> FALSE, refused |-> FALSE, plain |-> FALSE]

Init ==
  /\ system \in Systems
  /\ Starts(fdt, held, limit)
  /\ call = NoCall
  /\ last = NoResult

(* The number a system call that makes a descriptor returns.               *)
Born(f) ==
  /\ f < limit /\ ~IsOpen(f)
  /\ \A g \in Fds : g < f => IsOpen(g)

At(fn, at) == call.fn = fn /\ call.at = at
Go(at) == call' = [call EXCEPT !.at = at] /\ UNCHANGED <<held, last>>
Fails(at) ==
  call' = [call EXCEPT !.at = at, !.refused = TRUE] /\ UNCHANGED <<held, last>>
Result(failed, refused) ==
  [failed |-> failed, refused |-> refused,
   plain |-> call.fn = "socket" /\ call.flags = Plain]
ReturnFd(f) ==
  /\ call' = NoCall
  /\ held' = IF f \in Fds THEN [held EXCEPT ![f] = Held("caller", call.flags)] ELSE held
  /\ last' = Result(f = NoFd, call.refused)

-----------------------------------------------------------------------------
(* sancus_socket(), sancus_open()                                          *)

CallSocket(c, n) ==
  /\ call = NoCall
  /\ call' = Frame("socket", "birth", NoFd, Asked(c, n), FALSE)
  /\ last' = NoResult
  /\ UNCHANGED <<fdt, surroundings, held>>

CallOpen(c, wronly) ==
  /\ call = NoCall
  /\ call' = Frame("open", "birth", NoFd, Asked(c, FALSE), wronly)
  /\ last' = NoResult
  /\ UNCHANGED <<fdt, surroundings, held>>

(* What socket(2) or open(2) makes of the flags it is given.               *)
BirthFlags == IF system.birth THEN call.flags ELSE Plain

(* Slip, as further ones below: nothing refers to it, it shows that a      *)
(* property notices. The flag that is missing is forgotten.                *)
AfterBirthCloexec ==
  IF call.flags.cloexec THEN "getfl"
  ELSE IF call.fn = "socket" THEN "failed" ELSE "return"

(* Is fcntl() called next? sancus_socket() that was asked for neither flag *)
(* goes where its errors go, with a socket that has nothing wrong.         *)
AfterBirth ==
  IF call.flags.cloexec \/ call.flags.nonblock THEN "getfl"
  ELSE IF call.fn = "socket" THEN "failed" ELSE "return"

(* Slip: there is no number yet to give up.                                *)
BirthGivesUp ==
  /\ call.fn \in {"socket", "open"} /\ call.at = "birth"
  /\ Fails("failed")
  /\ UNCHANGED <<fdt, surroundings>>

(* socket(2), open(2); an open(2) that is interrupted is called again.     *)
Birth ==
  /\ call.fn \in {"socket", "open"} /\ call.at = "birth"
  /\ \/ \E f \in Fds :
          /\ Born(f)
          /\ fdt' = [fdt EXCEPT ![f] = File(BirthFlags)]
          /\ IF AfterBirth = "return" THEN ReturnFd(f)
             ELSE /\ call' = [call EXCEPT !.fd = f, !.at = AfterBirth]
                  /\ UNCHANGED <<held, last>>
     \/ /\ call' = NoCall /\ last' = Result(TRUE, TRUE)
        /\ UNCHANGED <<fdt, held>>
  /\ UNCHANGED surroundings

(* Are there flags fcntl(F_SETFL) should add to those F_GETFL returned?    *)
(* FD_CLOEXEC is not one of them: its bit is that of O_WRONLY there.       *)
SetsFlags ==
  IF call.fn = "socket"
  THEN call.flags.cloexec \/ (call.flags.nonblock /\ ~fdt[call.fd].flags.nonblock)
  ELSE ~system.birth \/ ~call.wronly

GetFlags ==
  /\ call.at = "getfl"
  /\ \/ ~SetsFlags /\ ReturnFd(call.fd)
     \/ SetsFlags /\ Go("setfl")
     \/ Fails("failed")
  /\ UNCHANGED <<fdt, surroundings>>

(* Slip: O_NONBLOCK is not among the flags that are set.                   *)
SetFlagsForgets ==
  /\ call.at = "setfl"
  /\ ReturnFd(call.fd) \/ Fails("failed")
  /\ UNCHANGED <<fdt, surroundings>>

(* F_SETFL sets O_NONBLOCK and ignores the bits of the access mode.        *)
SetFlags ==
  /\ call.at = "setfl"
  /\ \/ /\ ReturnFd(call.fd)
        /\ fdt' = [fdt EXCEPT ![call.fd].flags.nonblock = @ \/ call.flags.nonblock]
     \/ Fails("failed") /\ UNCHANGED fdt
  /\ UNCHANGED surroundings

(* Slip: nothing is closed.                                                *)
GiveUpOpen ==
  /\ call.at = "failed"
  /\ ReturnFd(NoFd)
  /\ UNCHANGED <<fdt, surroundings>>

(* socket_failed, open_failed: close(fd), whatever comes of it.            *)
GiveUp ==
  /\ call.at = "failed"
  /\ \/ fdt' = [fdt EXCEPT ![call.fd] = Free]
     \/ system.keeps /\ UNCHANGED fdt
  /\ ReturnFd(NoFd)
  /\ UNCHANGED surroundings

-----------------------------------------------------------------------------
(* sancus_close() of a descriptor the program answers for.                 *)
CallClose(f) ==
  /\ call = NoCall /\ held[f] # Nobody
  /\ call' = Frame("close", "close", f, Plain, FALSE)
  /\ last' = NoResult
  /\ UNCHANGED <<fdt, surroundings, held>>

CloseReturns ==
  /\ call' = NoCall
  /\ held' = [held EXCEPT ![call.fd] = Nobody]
  /\ UNCHANGED <<surroundings, last>>

(* Slips: no retry; a retry whatever the error.                            *)
CloseOnce ==
  /\ At("close", "close")
  /\ \/ fdt' = [fdt EXCEPT ![call.fd] = Free]
     \/ system.keeps /\ UNCHANGED fdt
  /\ CloseReturns

CloseAgain ==
  /\ At("close", "close")
  /\ \/ IsOpen(call.fd) /\ fdt' = [fdt EXCEPT ![call.fd] = Free] /\ CloseReturns
     \/ ~IsOpen(call.fd) /\ UNCHANGED <<fdt, surroundings, call, held, last>>

(* close(2) is done, or fails with an error that does not keep the number: *)
(* EBADF, if an attempt that was interrupted has released it already.      *)
Close ==
  /\ At("close", "close")
  /\ fdt' = [fdt EXCEPT ![call.fd] = Free]
  /\ CloseReturns

(* EINTR: goto try_open, goto try_close.                                   *)
Interrupted ==
  /\ \/ At("open", "birth") /\ UNCHANGED fdt
     \/ /\ At("close", "close") /\ IsOpen(call.fd)
        /\ fdt' = [fdt EXCEPT ![call.fd] = IF system.keeps THEN @ ELSE Free]
  /\ UNCHANGED <<surroundings, call, held, last>>

-----------------------------------------------------------------------------
(* sancus_sanitize_files(); the program keeps none of its descriptors.     *)
CallSanitize ==
  /\ call = NoCall
  /\ call' = Frame("sanitize", "close", NoFd, Plain, FALSE)
  /\ last' = NoResult
  /\ UNCHANGED <<fdt, surroundings, held>>

(* Slip: one too many.                                                     *)
SweptFromTwo == {f \in Fds : 2 <= f /\ f < limit}

(* for (fd=3; fd<fds; fd++) close(fd), with fds the limit. The fallback to *)
(* OPEN_MAX, should getdtablesize() return -1, is left out: where it is    *)
(* getrlimit() of a resource that exists, it returns a number.             *)
Swept == {f \in Fds : 3 <= f /\ f < limit}

Sweep ==
  /\ At("sanitize", "close")
  /\ \E K \in SUBSET Swept :
       /\ K # {} => system.keeps
       /\ fdt' = [f \in Fds |-> IF f \in Swept \ K THEN Free ELSE fdt[f]]
  /\ held' = [f \in Fds |-> IF f \in Swept THEN Nobody ELSE held[f]]
  /\ call' = [call EXCEPT !.at = "std", !.fd = 0]
  /\ UNCHANGED <<surroundings, last>>

NextStd ==
  IF call.fd = 2 THEN call' = NoCall ELSE call' = [call EXCEPT !.fd = @ + 1]

Abort == call' = [NoCall EXCEPT !.fn = "abort"]

(* for (fd=0; fd<3; fd++): fstat(2), and reopen_devnull(), which demands   *)
(* that the stream gets the number it had.                                 *)
Standard ==
  /\ At("sanitize", "std")
  /\ \/ IsOpen(call.fd) /\ NextStd /\ UNCHANGED <<fdt, held>>
     \/ /\ ~IsOpen(call.fd)
        /\ \E f \in Fds :
             /\ Born(f)
             /\ fdt' = [fdt EXCEPT ![f] = File(Plain)]
             /\ held' = [held EXCEPT ![f] = Held("null", Plain)]
             /\ IF f = call.fd THEN NextStd ELSE Abort
     \/ Abort /\ UNCHANGED <<fdt, held>>
  /\ UNCHANGED <<surroundings, last>>

(* abort(): another process starts.                                        *)
Restart ==
  /\ call.fn = "abort"
  /\ call' = NoCall
  /\ Starts(fdt', held', limit')
  /\ last' = NoResult
  /\ UNCHANGED system

-----------------------------------------------------------------------------
Calls ==
  \/ \E c, n \in BOOLEAN : CallSocket(c, n) \/ CallOpen(c, n)
  \/ \E f \in Fds : CallClose(f)
  \/ CallSanitize

Runs == Birth \/ GetFlags \/ SetFlags \/ GiveUp \/ Close \/ Sweep \/ Standard

Next == Calls \/ Runs \/ Interrupted \/ Restart

Spec == Init /\ [][Next]_vars

(* The process runs, and is not interrupted for ever.                      *)
FairSpec == Spec /\ WF_vars(Runs)

-----------------------------------------------------------------------------
(* Properties.                                                             *)

(* Every open descriptor was handed to somebody, except the one a running  *)
(* call is still working on; and what was handed out is open. No failure   *)
(* of fcntl() after socket() or open() leaks the number, unless the system *)
(* keeps it when close(2) is interrupted.                                  *)
NothingLeaks ==
  \A f \in Fds : f # call.fd =>
    /\ held[f] # Nobody => IsOpen(f)
    /\ IsOpen(f) /\ ~system.keeps => held[f] # Nobody

(* A descriptor is blocking or not as was asked, on a system that has the  *)
(* flags at birth and on one that has not.                                 *)
NonblockAsAsked ==
  \A f \in Fds : held[f].who = "caller" /\ f # call.fd =>
    fdt[f].flags.nonblock = held[f].flags.nonblock

(* What the parameter cloexec of sancus_socket.h:32 and sancus_fd.h:33     *)
(* says: the descriptor is closed on exec exactly if that was asked.       *)
CloexecAsAsked ==
  \A f \in Fds : held[f].who = "caller" /\ f # call.fd =>
    fdt[f].flags.cloexec = held[f].flags.cloexec

(* What the two calls do keep of that: O_NONBLOCK on every system,         *)
(* close-on-exec where the flags exist at birth.                           *)
FlagsAsAsked == NonblockAsAsked /\ (system.birth => CloexecAsAsked)

(* sancus_socket() and sancus_open() return -1 exactly if the kernel       *)
(* refused something on the way, with one exception: a socket asked for    *)
(* with neither flag, which sancus_socket.h:32 offers like any other       *)
(* choice and which socket.c:78 closes and reports as a failure every time.*)
FailsForACause == last.failed <=> last.refused \/ last.plain

(* sancus_close() is done with the number when it returns, on a kernel     *)
(* that releases it when interrupted as on one that does not.              *)
CloseReleases ==
  [][call.fn = "close" /\ call'.fn = "none" => ~fdt'[call.fd].open]_vars

(* When sancus_sanitize_files() returns, the standard descriptors are open *)
(* and nothing else is, as far as the limit reaches and close(2) releases; *)
(* those that were open already are what they were.                        *)
Sanitized ==
  [][call.fn = "sanitize" =>
       \A f \in Fds :
         /\ call'.fn = "none" /\ f < 3 => fdt'[f].open
         /\ call'.fn = "none" /\ 3 <= f /\ f < limit /\ ~system.keeps => ~fdt'[f].open
         /\ f < 3 /\ IsOpen(f) => fdt'[f] = fdt[f]]_vars

(* A call returns, or aborts.                                              *)
CallsReturn == call.fn # "none" ~> call.fn \in {"none", "abort"}
=============================================================================
