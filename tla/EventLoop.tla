------------------------------ MODULE EventLoop ------------------------------
(***************************************************************************)
(* What sancus-core relies on below it: the file descriptors of the        *)
(* process as the kernel keeps them, and the ev_io half of a libev loop.   *)
(* Neither is in the repository; both are modelled from how server.c,      *)
(* server_port.c and server_connection.c use them.                         *)
(*                                                                         *)
(* Three facts of that environment decide whether the code above it works: *)
(*   - socket(2) and accept(2) return the LOWEST free descriptor, so a     *)
(*     number that was closed is reused at once;                           *)
(*   - a watcher names a descriptor by number: libev learns nothing of a   *)
(*     close(2), the kernel forgets the registration, and libev notices    *)
(*     only when it next (re)registers that number;                        *)
(*   - libev collects the ready watchers of an iteration first and calls   *)
(*     them one by one afterwards, so that a callback may invalidate what  *)
(*     was collected for the watchers that come after it.                  *)
(***************************************************************************)
EXTENDS Naturals, FiniteSets

CONSTANTS
  Watchers,  (* the ev_io structures of the program                        *)
  Fds,       (* descriptor numbers the process may use: its rlimit         *)
  NoFd,      (* -1                                                         *)
  Addrs,     (* addresses sockets are bound to                             *)
  NoAddr,    (* the address field of a socket that is not listening        *)
  MaxQueue   (* bound on what waits, unaccepted or unread, on a socket     *)

VARIABLES
  sock,     (* kernel: what each descriptor number refers to               *)
  epoll,    (* kernel: the numbers registered for readiness events         *)
  io,       (* ev_io: descriptor and ev_is_active() of each watcher        *)
  changes,  (* ev_loop: descriptors to (re)register, libev's fdchanges     *)
  pending   (* ev_loop: watchers collected and not yet called              *)

loopVars == <<sock, epoll, io, changes, pending>>

Kinds == {"free", "listen", "stream"}

Sockets == [kind : Kinds, addr : Addrs \cup {NoAddr}, queue : 0..MaxQueue,
            eof : BOOLEAN, nonblock : BOOLEAN]

Free == [kind |-> "free", addr |-> NoAddr, queue |-> 0, eof |-> FALSE,
         nonblock |-> FALSE]

EventLoopTypeOK ==
  /\ sock \in [Fds -> Sockets]
  /\ epoll \subseteq Fds
  /\ io \in [Watchers -> [fd : Fds \cup {NoFd}, active : BOOLEAN]]
  /\ changes \subseteq Fds
  /\ pending \subseteq Watchers

EventLoopInit ==
  /\ sock = [f \in Fds |-> Free]
  /\ epoll = {}
  /\ io = [w \in Watchers |-> [fd |-> NoFd, active |-> FALSE]]
  /\ changes = {}
  /\ pending = {}

-----------------------------------------------------------------------------
(* The kernel.                                                             *)

IsOpen(f) == f \in Fds /\ sock[f].kind # "free"

FreeFds == {f \in Fds : ~IsOpen(f)}

LowestFree(f) == f \in FreeFds /\ \A g \in FreeFds : f <= g

(* read(2) or accept(2) on f would return at once. *)
Readable(f) == IsOpen(f) /\ (sock[f].queue > 0 \/ sock[f].eof)

ListensOn(f, a) == IsOpen(f) /\ sock[f].kind = "listen" /\ sock[f].addr = a

(* close(2) of every descriptor of F: the kernel drops the registrations.  *)
CloseFds(F) ==
  /\ sock' = [f \in Fds |-> IF f \in F THEN Free ELSE sock[f]]
  /\ epoll' = epoll \ F

-----------------------------------------------------------------------------
(* ev_io, on a value i of the watchers so that calls can be chained.       *)

EvIoInit(i, w, f) == [i EXCEPT ![w] = [fd |-> f, active |-> FALSE]]

EvIoStart(i, W) ==
  /\ io' = [w \in Watchers |-> IF w \in W THEN [i[w] EXCEPT !.active = TRUE]
                                          ELSE i[w]]
  /\ changes' = changes \cup {i[w].fd : w \in {v \in W : ~i[v].active}}

EvIoStop(W) ==
  /\ io' = [w \in Watchers |-> IF w \in W THEN [io[w] EXCEPT !.active = FALSE]
                                          ELSE io[w]]
  /\ changes' = changes \cup {io[w].fd : w \in {v \in W : io[v].active}}
  /\ pending' = pending \ W

-----------------------------------------------------------------------------
(* One iteration of ev_run(). The changed descriptors are registered; a    *)
(* changed descriptor that turns out to be closed has its watchers stopped *)
(* and called with EV_ERROR|EV_READ|EV_WRITE; then the ready ones are      *)
(* collected.                                                              *)

ActiveOn(f) == {w \in Watchers : io[w].active /\ io[w].fd = f}

Killed == UNION {ActiveOn(f) : f \in {g \in changes : ~IsOpen(g)}}

Registered ==
  (epoll \ changes) \cup {f \in changes : IsOpen(f) /\ ActiveOn(f) # {}}

Ready == UNION {ActiveOn(f) : f \in {g \in Registered : Readable(g)}}

Poll ==
  /\ pending = {}
  /\ changes # {} \/ Ready # {}
  /\ pending' = Killed \cup Ready
  /\ io' = [w \in Watchers |-> IF w \in Killed
                               THEN [io[w] EXCEPT !.active = FALSE]
                               ELSE io[w]]
  /\ epoll' = Registered
  /\ changes' = {}
  /\ UNCHANGED sock

-----------------------------------------------------------------------------
(* The peers.                                                              *)

RemoteSend(f) ==
  /\ IsOpen(f) /\ sock[f].kind = "stream"
  /\ ~sock[f].eof /\ sock[f].queue < MaxQueue
  /\ sock' = [sock EXCEPT ![f].queue = @ + 1]
  /\ UNCHANGED <<epoll, io, changes, pending>>

RemoteClose(f) ==
  /\ IsOpen(f) /\ sock[f].kind = "stream" /\ ~sock[f].eof
  /\ sock' = [sock EXCEPT ![f].eof = TRUE]
  /\ UNCHANGED <<epoll, io, changes, pending>>

(* A connection gives up before it is accepted. *)
RemoteAbort(f) ==
  /\ IsOpen(f) /\ sock[f].kind = "listen" /\ sock[f].queue > 0
  /\ sock' = [sock EXCEPT ![f].queue = @ - 1]
  /\ UNCHANGED <<epoll, io, changes, pending>>

RemoteConnect(f) ==
  /\ IsOpen(f) /\ sock[f].kind = "listen" /\ sock[f].queue < MaxQueue
  /\ sock' = [sock EXCEPT ![f].queue = @ + 1]
  /\ UNCHANGED <<epoll, io, changes, pending>>
=============================================================================
