----------------------------- MODULE FdOwnership -----------------------------
(***************************************************************************)
(* What the TCP server promises about descriptors, without loop, watchers, *)
(* lists or error paths: every open descriptor has exactly one owner that  *)
(* will answer for it, an owner has at most one, and a descriptor changes  *)
(* hands only along the path  free -> port -> free  or                     *)
(* free -> callback -> connection | free.  A connection keeps its          *)
(* descriptor for the life of the process.                                 *)
(***************************************************************************)
EXTENDS FiniteSets

CONSTANTS Fds, Ports, Conns, NoOwner, Callback

Owners == Ports \cup Conns \cup {Callback, NoOwner}

VARIABLE owner   \* owner[f]: who answers for descriptor f

OwnsNone(w) == \A f \in Fds : owner[f] # w

Init == owner = [f \in Fds |-> NoOwner]

(* A port acquires a listening socket. *)
Listen(p, f) ==
  /\ owner[f] = NoOwner /\ OwnsNone(p)
  /\ owner' = [owner EXCEPT ![f] = p]

(* One port, or all the ports of the server, give theirs back. *)
Release(P) ==
  owner' = [f \in Fds |-> IF owner[f] \in P THEN NoOwner ELSE owner[f]]

Accept(f) ==
  /\ owner[f] = NoOwner /\ OwnsNone(Callback)
  /\ owner' = [owner EXCEPT ![f] = Callback]

HandOver(f, c) ==
  /\ owner[f] = Callback /\ OwnsNone(c)
  /\ owner' = [owner EXCEPT ![f] = c]

Refuse(f) ==
  /\ owner[f] = Callback
  /\ owner' = [owner EXCEPT ![f] = NoOwner]

Restart == owner' = [f \in Fds |-> NoOwner]

Next ==
  \/ \E f \in Fds, p \in Ports : Listen(p, f)
  \/ \E p \in Ports : Release({p})
  \/ Release(Ports)
  \/ \E f \in Fds : Accept(f) \/ Refuse(f)
  \/ \E f \in Fds, c \in Conns : HandOver(f, c)
  \/ Restart

Spec == Init /\ [][Next]_owner
=============================================================================
