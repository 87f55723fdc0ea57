------------------------------ MODULE TcpServer ------------------------------
(***************************************************************************)
(* The TCP server of sancus-core: server.c, server_port.c/.h and           *)
(* server_connection.c/.h. One server, its listening ports and the         *)
(* connections it accepts, on one libev loop.                              *)
(*                                                                         *)
(* The process is single threaded. What interleaves is the program that    *)
(* uses the library (it may call into it before ev_run(), from another     *)
(* watcher's callback, or from inside on_connect, which the library calls  *)
(* in the middle of connect_callback), the loop, and the peers.            *)
(*                                                                         *)
(* The intrusive lists server->ports and server->connections are sets      *)
(* here: nothing in the server depends on their order.                     *)
(***************************************************************************)
EXTENDS Naturals, FiniteSets

CONSTANTS
  Ports,        (* the struct sancus_tcp_port of the program               *)
  Conns,        (* the struct sancus_tcp_server_connection of the program  *)
  InetAddrs,    (* ipv4 and ipv6 address:port pairs                        *)
  LocalPaths,   (* paths of AF_LOCAL sockets                               *)
  NoAddr, Fds, NoFd, NoWatcher, MaxQueue,
  ClosesRunningPorts,    (* may the program call sancus_tcp_port_close()   *)
                         (* on a port of a started server?                 *)
  ReinitsWithConnections (* may it call sancus_tcp_server_init() again     *)
                         (* while a connection is alive?                   *)

ASSUME FdsAssumption == Fds \subseteq Nat /\ NoFd \notin Fds
ASSUME QueueAssumption == MaxQueue \in Nat \ {0}
ASSUME StructAssumption == Ports \cap Conns = {} /\ NoWatcher \notin Ports \cup Conns
ASSUME AddrsAssumption ==
  /\ InetAddrs \cap LocalPaths = {}
  /\ NoAddr \notin InetAddrs \cup LocalPaths
ASSUME DisciplineAssumption ==
  ClosesRunningPorts \in BOOLEAN /\ ReinitsWithConnections \in BOOLEAN

Watchers == Ports \cup Conns

(* The callback that was given a descriptor is no watcher: OwnerOf, below. *)
ASSUME CallbackAssumption == "callback" \notin Watchers \cup {NoWatcher}

Addrs == InetAddrs \cup LocalPaths

VARIABLES
  sock, epoll, io, changes, pending,  (* see EventLoop                     *)
  started,      (* server->loop # NULL                                     *)
  ports,        (* server->ports                                           *)
  connections,  (* server->connections                                     *)
  call,         (* what the callback that is running holds                 *)
  files         (* file system: the descriptor that bound each socket file *)

INSTANCE EventLoop

serverVars == <<started, ports, connections>>
vars == <<sock, epoll, io, changes, pending, started, ports, connections,
          call, files>>

(* call: nothing; port p's connect_callback is inside on_connect, holding  *)
(* the accepted descriptor f; or watcher w's callback sleeps in a system   *)
(* call on f, and the loop with it.                                        *)
NoCall == [in |-> "none", by |-> NoWatcher, fd |-> NoFd]
OnConnect(p, f) == [in |-> "on_connect", by |-> p, fd |-> f]
Blocked(w, f) == [in |-> "blocked", by |-> w, fd |-> f]

ActiveConns == {c \in Conns : io[c].active}

(* Who is answerable for a descriptor: a listed port or a live connection. *)
Holders == ports \cup ActiveConns

TypeOK ==
  /\ EventLoopTypeOK
  /\ started \in BOOLEAN
  /\ ports \subseteq Ports
  /\ connections \subseteq Conns
  /\ call \in [in : {"none", "on_connect", "blocked"},
              by : Watchers \cup {NoWatcher}, fd : Fds \cup {NoFd}]
  /\ files \in [LocalPaths -> Fds \cup {NoFd}]

(* sancus_tcp_server_init() has been called and on_connect is set. *)
ProcessInit ==
  /\ EventLoopInit
  /\ started = FALSE
  /\ ports = {}
  /\ connections = {}
  /\ call = NoCall

Init ==
  /\ ProcessInit
  /\ files = [a \in LocalPaths |-> NoFd]

(* Code of the program runs: inside on_connect or between two callbacks.   *)
ClientRuns == call.in # "blocked"

-----------------------------------------------------------------------------
(* server.c                                                                *)

(* A server that was closed is initialised again: server->loop can only    *)
(* become NULL again this way, and sancus_tcp_server_start() demands it.   *)
SancusTcpServerInit ==
  /\ ClientRuns
  /\ ports = {}
  /\ ReinitsWithConnections \/ (ActiveConns = {} /\ call = NoCall)
  /\ started' = FALSE
  /\ connections' = {}
  /\ UNCHANGED <<sock, epoll, io, changes, pending, ports, call, files>>

SancusTcpServerStart ==
  /\ ClientRuns
  /\ ~started
  /\ started' = TRUE
  /\ EvIoStart(io, ports)
  /\ UNCHANGED <<sock, epoll, pending, ports, connections, call, files>>

(* Variants with a slip, here and below, show that a property notices it;  *)
(* nothing refers to them. Here: close without stop; close that forgets    *)
(* the loop, which looks like the way to make a server startable again.    *)
SancusTcpServerCloseUnstopped ==
  /\ ClientRuns
  /\ CloseFds({io[p].fd : p \in ports})
  /\ ports' = {}
  /\ UNCHANGED <<io, changes, pending, started, connections, call, files>>

SancusTcpServerCloseForgets ==
  /\ ClientRuns
  /\ EvIoStop(IF started THEN ports ELSE {})
  /\ CloseFds({io[p].fd : p \in ports})
  /\ ports' = {}
  /\ started' = FALSE
  /\ UNCHANGED <<connections, call, files>>

SancusTcpServerClose ==
  /\ ClientRuns
  /\ EvIoStop(IF started THEN ports ELSE {})
  /\ CloseFds({io[p].fd : p \in ports})
  /\ ports' = {}
  /\ UNCHANGED <<started, connections, call, files>>

(* What the file system may be after unlink(path) of                       *)
(* sancus_tcp_local_port(), which removes whatever is there before it asks *)
(* for a socket, and does not look whether that was refused.               *)
Unlinked(a) ==
  IF a \in LocalPaths THEN {files, [files EXCEPT ![a] = NoFd]} ELSE {files}

(* bind(2) finds the address taken: by a socket that listens on it, or, in *)
(* the file system as the unlink left it, by any file at all.              *)
InUse(a, fs) == IF a \in LocalPaths THEN fs[a] # NoFd
                                    ELSE \E f \in Fds : ListensOn(f, a)

Bind(a, f, fs) == IF a \in LocalPaths THEN [fs EXCEPT ![a] = f] ELSE fs

(* Slip: the listening socket is left blocking. *)
ListeningSocketBlocking(a) == [kind |-> "listen", addr |-> a, queue |-> 0,
                               eof |-> FALSE, nonblock |-> FALSE]

(* sancus_socket() as init_tcp() calls it, followed by bind and listen.    *)
ListeningSocket(a) == [kind |-> "listen", addr |-> a, queue |-> 0,
                       eof |-> FALSE, nonblock |-> TRUE]

PortFails(fs) == files' = fs /\ UNCHANGED <<sock, epoll, io, changes, ports>>

(* Slips: started before the descriptor is set; never started.             *)
SancusTcpPortPrepareTooLate(p, f) ==
  /\ ports' = ports \cup {p}
  /\ io' = [io EXCEPT ![p] = [fd |-> f, active |-> started]]
  /\ changes' = IF started THEN changes \cup {io[p].fd} ELSE changes

SancusTcpPortPrepareOnly(p, f) ==
  /\ ports' = ports \cup {p}
  /\ io' = EvIoInit(io, p, f)
  /\ UNCHANGED changes

(* sancus_tcp_port_prepare(): the port is listed, and started if the       *)
(* server already runs.                                                    *)
SancusTcpPortPrepare(p, f) ==
  /\ ports' = ports \cup {p}
  /\ EvIoStart(EvIoInit(io, p, f), IF started THEN {p} ELSE {})

(* init_tcp(): socket() or bind() fail for whatever reason; listen() does; *)
(* or the port listens. Every failure after socket() closes the            *)
(* descriptor, so that nothing but a file can tell that there was one.     *)
(* port_sockopts, which runs before bind(), is taken to make no call into  *)
(* the library and to leave its descriptor open and non-blocking.          *)
InitTcp(p, a, fs) ==
  \/ PortFails(fs)
  \/ \E f \in Fds :
       /\ LowestFree(f) /\ ~InUse(a, fs)
       /\ \/ PortFails(Bind(a, f, fs))
          \/ /\ sock' = [sock EXCEPT ![f] = ListeningSocket(a)]
             /\ files' = Bind(a, f, fs)
             /\ SancusTcpPortPrepare(p, f)
             /\ UNCHANGED epoll

(* sancus_tcp_ipv4_port(), sancus_tcp_ipv6_port(), sancus_tcp_local_port().*)
(* The program passes a struct that is not in use: not listed, and not     *)
(* active in the loop (ev_io_init() may not be given an active watcher).   *)
(* An address init_*() rejects is one before anything is touched.          *)
SancusTcpPort(p, a) ==
  /\ ClientRuns
  /\ p \notin ports /\ ~io[p].active
  /\ PortFails(files) \/ \E fs \in Unlinked(a) : InitTcp(p, a, fs)
  /\ UNCHANGED <<pending, started, connections, call>>

-----------------------------------------------------------------------------
(* server_port.c                                                           *)

(* Slip: unlisted, not closed. *)
SancusTcpPortCloseUnlists(p) ==
  /\ ClientRuns
  /\ p \in ports
  /\ started => ClosesRunningPorts
  /\ ports' = ports \ {p}
  /\ UNCHANGED <<sock, epoll, io, changes, pending, started, connections, call,
                 files>>

(* Slip: a port that is closed takes the file of its path with it.         *)
SancusTcpPortCloseUnlinks(p) ==
  /\ ClientRuns
  /\ p \in ports
  /\ started => ClosesRunningPorts
  /\ CloseFds({io[p].fd})
  /\ ports' = ports \ {p}
  /\ files' = [a \in LocalPaths |->
                IF a = sock[io[p].fd].addr THEN NoFd ELSE files[a]]
  /\ UNCHANGED <<io, changes, pending, started, connections, call>>

(* The public sancus_tcp_port_close() closes and unlists; it does not stop *)
(* the watcher, sancus_tcp_port_stop() is private to the library.          *)
SancusTcpPortClose(p) ==
  /\ ClientRuns
  /\ p \in ports
  /\ started => ClosesRunningPorts
  /\ CloseFds({io[p].fd})
  /\ ports' = ports \ {p}
  /\ UNCHANGED <<io, changes, pending, started, connections, call, files>>

(* The socket accept(2) returns: it inherits no O_NONBLOCK. *)
AcceptedSocket == [kind |-> "stream", addr |-> NoAddr, queue |-> 0,
                   eof |-> FALSE, nonblock |-> FALSE]

(* accept(2) on the descriptor of p returns a connection; waits for one,   *)
(* on a socket without O_NONBLOCK; or fails: with EAGAIN when the          *)
(* connection that was reported has gone, with EMFILE, on a descriptor     *)
(* that does not listen, or with any error that passes (ENFILE, EINTR).    *)
AcceptReturns(p) ==
  /\ IsOpen(io[p].fd) /\ sock[io[p].fd].kind = "listen"
  /\ sock[io[p].fd].queue > 0
  /\ \E f \in Fds :
       /\ LowestFree(f)
       /\ sock' = [sock EXCEPT ![io[p].fd].queue = @ - 1, ![f] = AcceptedSocket]
       /\ call' = OnConnect(p, f)

AcceptWaits(p) ==
  /\ IsOpen(io[p].fd) /\ sock[io[p].fd].kind = "listen"
  /\ sock[io[p].fd].queue = 0 /\ ~sock[io[p].fd].nonblock
  /\ FreeFds # {}
  /\ call' = Blocked(p, io[p].fd)
  /\ UNCHANGED sock

AcceptFails == UNCHANGED <<sock, call>>

(* connect_callback() up to the call of on_connect. *)
ConnectCallback(p) ==
  /\ call = NoCall
  /\ p \in pending
  /\ pending' = pending \ {p}
  /\ AcceptReturns(p) \/ AcceptWaits(p) \/ AcceptFails
  /\ UNCHANGED <<epoll, io, changes, started, ports, connections, files>>

(* Slip: the connection watches the port's descriptor, not the accepted.   *)
ConnectCallbackKeepsListener(c) ==
  /\ call.in = "on_connect"
  /\ ~io[c].active /\ c \notin connections
  /\ connections' = connections \cup {c}
  /\ EvIoStart(EvIoInit(io, c, io[call.by].fd), {c})
  /\ call' = NoCall
  /\ UNCHANGED <<sock, epoll, pending, started, ports, files>>

(* on_connect returned a connection: it is prepared, listed and started in *)
(* the loop connect_callback was called with.                              *)
ConnectCallbackKeeps(c) ==
  /\ call.in = "on_connect"
  /\ ~io[c].active /\ c \notin connections
  /\ connections' = connections \cup {c}
  /\ EvIoStart(EvIoInit(io, c, call.fd), {c})
  /\ call' = NoCall
  /\ UNCHANGED <<sock, epoll, pending, started, ports, files>>

(* Slip: the refused descriptor is not closed. *)
ConnectCallbackDropsOpen ==
  /\ call.in = "on_connect"
  /\ call' = NoCall
  /\ UNCHANGED <<sock, epoll, io, changes, pending, started, ports, connections,
                 files>>

(* on_connect returned NULL. *)
ConnectCallbackDrops ==
  /\ call.in = "on_connect"
  /\ CloseFds({call.fd})
  /\ call' = NoCall
  /\ UNCHANGED <<io, changes, pending, started, ports, connections, files>>

-----------------------------------------------------------------------------
(* server_connection.c                                                     *)

(* read_callback(): one read(2). Data is dropped, and at the end of file   *)
(* or on an error nothing is done: the watcher stays active and the        *)
(* descriptor open. On a socket without O_NONBLOCK read(2) waits for data. *)
ReadCallback(c) ==
  LET f == io[c].fd IN
  /\ call = NoCall
  /\ c \in pending
  /\ pending' = pending \ {c}
  /\ \/ /\ IsOpen(f) /\ sock[f].queue > 0
        /\ sock' = [sock EXCEPT ![f].queue = @ - 1]
        /\ UNCHANGED call
     \/ ~IsOpen(f) /\ UNCHANGED <<sock, call>>
     \/ IsOpen(f) /\ sock[f].queue = 0 /\ sock[f].eof /\ UNCHANGED <<sock, call>>
     \/ /\ IsOpen(f) /\ sock[f].queue = 0 /\ ~sock[f].eof
        /\ call' = IF sock[f].nonblock THEN call ELSE Blocked(c, f)
        /\ UNCHANGED sock
  /\ UNCHANGED <<epoll, io, changes, started, ports, connections, files>>

-----------------------------------------------------------------------------
Client ==
  \/ SancusTcpServerInit
  \/ SancusTcpServerStart
  \/ SancusTcpServerClose
  \/ \E p \in Ports : SancusTcpPortClose(p)
  \/ \E p \in Ports, a \in Addrs : SancusTcpPort(p, a)

LoopPoll ==
  /\ call = NoCall
  /\ Poll
  /\ UNCHANGED <<started, ports, connections, call, files>>

Loop ==
  \/ LoopPoll
  \/ \E p \in Ports : ConnectCallback(p)
  \/ \E c \in Conns : ConnectCallbackKeeps(c)
  \/ ConnectCallbackDrops
  \/ \E c \in Conns : ReadCallback(c)

(* A peer reaches a local port through the file that bears its path. *)
PeerConnects(f) ==
  /\ sock[f].addr \in LocalPaths => files[sock[f].addr] = f
  /\ RemoteConnect(f)

Peers ==
  /\ \E f \in Fds :
       PeerConnects(f) \/ RemoteAbort(f) \/ RemoteSend(f) \/ RemoteClose(f)
  /\ UNCHANGED <<started, ports, connections, call, files>>

(* The process dies and is started again; the socket files survive it.     *)
(* What bound them is gone: no number of the new process is the old one's. *)
Crash ==
  /\ sock' = [f \in Fds |-> Free]
  /\ epoll' = {}
  /\ io' = [w \in Watchers |-> [fd |-> NoFd, active |-> FALSE]]
  /\ changes' = {}
  /\ pending' = {}
  /\ started' = FALSE
  /\ ports' = {}
  /\ connections' = {}
  /\ call' = NoCall
  /\ UNCHANGED files

Next == Client \/ Loop \/ Peers \/ Crash

Spec == Init /\ [][Next]_vars

(* The loop keeps running and the program's on_connect returns; and        *)
(* accept(2) does not fail at every single attempt when it could succeed.  *)
ConnectCallbackAccepts(p) ==
  ConnectCallback(p) /\ call'.in = "on_connect"

FairSpec ==
  /\ Spec
  /\ WF_vars(Loop)
  /\ \A p \in Ports : SF_vars(ConnectCallbackAccepts(p))

-----------------------------------------------------------------------------
(* Properties.                                                             *)

(* Every descriptor the process has open is answered for by exactly one    *)
(* listed port or live connection, or is the one on_connect was just       *)
(* given; and what a holder answers for is open. No error path of          *)
(* init_tcp(), no refusal in connect_callback and no order of close and    *)
(* accept leaks a descriptor, or lets two structs share a reused number.   *)
FdAccounting ==
  /\ \A f \in Fds : IsOpen(f) =>
       \/ call.in = "on_connect" /\ call.fd = f
       \/ \E w \in Holders : io[w].fd = f
  /\ \A w \in Holders : IsOpen(io[w].fd)
  /\ \A v, w \in Holders : io[v].fd = io[w].fd => v = w
  /\ call.in = "on_connect" =>
       IsOpen(call.fd) /\ \A w \in Holders : io[w].fd # call.fd

(* A holder's descriptor is a socket of the kind its callback expects:     *)
(* connect_callback accepts on a listening socket, read_callback reads a   *)
(* stream, however often the numbers were recycled in between.             *)
KindsMatch ==
  /\ \A p \in ports : sock[io[p].fd].kind = "listen"
  /\ \A c \in ActiveConns : sock[io[c].fd].kind = "stream"

(* No event is lost: whatever was started and is still answered for is     *)
(* registered with the kernel, or will be in the next iteration, also when *)
(* its number was closed and reopened since the last one.                  *)
NoEventLost ==
  \A w \in Holders : io[w].active => io[w].fd \in epoll \cup changes

(* A port is active in the loop exactly while it is listed in a started    *)
(* server, whichever of start and *_port() came first and whatever was     *)
(* closed: the loop never refers to a port the server has forgotten.       *)
ActiveIffServed == \A p \in Ports : io[p].active <=> (p \in ports /\ started)

(* The assertion of connect_callback, server_port.c:56, for every port     *)
(* callback the loop has already collected.                                *)
ConnectCallbackAssert == \A p \in pending \cap Ports : started

(* The assertion of read_callback, server_connection.c:61, likewise.       *)
ReadCallbackAssert == \A c \in pending \cap Conns : started

(* The loop never sleeps in accept() or read(): a connection that was      *)
(* reported may have gone (listening sockets are non-blocking for that),   *)
(* and an accepted socket, which is blocking, is only read when reported.  *)
NeverBlocks == call.in # "blocked"

(* A connection is accepted only for a port that is listed and started at  *)
(* that moment: what the loop collected for a port before the server was   *)
(* closed is not delivered after it.                                       *)
OnlyServedPortsAccept ==
  [][call = NoCall /\ call'.in = "on_connect" =>
       call'.by \in ports /\ io[call'.by].active /\ started]_vars

(* A local port is reached through the file that bears its path. *)
Reached(p) ==
  LET a == sock[io[p].fd].addr IN a \in LocalPaths => files[a] = io[p].fd

(* A local port can be reached when it is opened, whatever a crash or      *)
(* another port left at its path, and until the program asks for the same  *)
(* path again, also with a call that fails: neither the end of an earlier  *)
(* port of that path nor the reuse of a number takes it away.              *)
LocalPortsReached ==
  [][/\ \A p \in ports' \ ports : Reached(p)'
     /\ \A p \in ports \cap ports' : Reached(p) /\ ~Reached(p)' =>
          \E q \in Ports : SancusTcpPort(q, sock[io[p].fd].addr)]_vars

(* A connection that waits on a served port is accepted, or the port stops *)
(* being served, or nobody waits any more, or the process is out of        *)
(* descriptors: no other port, no busy connection and no failure of        *)
(* accept() that passes starves it.                                        *)
Waiting(p) == p \in ports /\ started /\ sock[io[p].fd].queue > 0

WaitingIsAccepted ==
  \A p \in Ports :
    Waiting(p) ~> (call.by = p \/ ~Waiting(p) \/ FreeFds = {})

(* The server as an implementation of FdOwnership. A descriptor that is    *)
(* open and nobody's is no owner at all, which FdOwnership does not allow. *)
Leaked == "leaked"
OwnerOf(f) ==
  IF ~IsOpen(f) THEN NoWatcher
  ELSE IF call.in = "on_connect" /\ call.fd = f THEN "callback"
  ELSE IF \E w \in Holders : io[w].fd = f
       THEN CHOOSE w \in Holders : io[w].fd = f
       ELSE Leaked

Ownership == INSTANCE FdOwnership WITH
  NoOwner <- NoWatcher, Callback <- "callback",
  owner <- [f \in Fds |-> OwnerOf(f)]

(* Descriptors change hands as FdOwnership says and in no other way. *)
OwnershipSpec == Ownership!Spec
=============================================================================
