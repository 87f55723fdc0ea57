--------------------------- MODULE TcpServerProofs ---------------------------
(***************************************************************************)
(* Proofs about TcpServer, for any number of ports, connections,           *)
(* descriptors and addresses, and whatever calls the program is allowed.   *)
(***************************************************************************)
EXTENDS TcpServer, TLAPS

Watching == [Watchers -> [fd : Fds \cup {NoFd}, active : BOOLEAN]]

(* A free descriptor, a listening and an accepted socket are sockets. *)
LEMMA SocketTypes ==
  /\ Free \in Sockets
  /\ AcceptedSocket \in Sockets
  /\ \A a \in Addrs : ListeningSocket(a) \in Sockets
<1> 0 \in 0..MaxQueue
  BY QueueAssumption
<1> QED
  BY DEF Free, AcceptedSocket, ListeningSocket, Sockets, Kinds

(* ev_io_start() of watchers that have a descriptor. *)
LEMMA EvIoStartType ==
  ASSUME NEW i \in Watching, NEW W \in SUBSET Watchers, changes \subseteq Fds,
         EvIoStart(i, W), \A w \in W : i[w].fd \in Fds
  PROVE  io' \in Watching /\ changes' \subseteq Fds
  BY DEF EvIoStart, Watching

(* ev_io_stop() of watchers that have a descriptor. *)
LEMMA EvIoStopType ==
  ASSUME io \in Watching, NEW W \in SUBSET Watchers, changes \subseteq Fds,
         pending \subseteq Watchers,
         EvIoStop(W), \A w \in W : io[w].fd \in Fds
  PROVE  io' \in Watching /\ changes' \subseteq Fds /\ pending' \subseteq Watchers
  BY DEF EvIoStop, Watching

(* close(2). *)
LEMMA CloseFdsType ==
  ASSUME sock \in [Fds -> Sockets], epoll \subseteq Fds, NEW F, CloseFds(F)
  PROVE  sock' \in [Fds -> Sockets] /\ epoll' \subseteq Fds
  BY SocketTypes DEF CloseFds

(* One ev_run() iteration. *)
LEMMA PollType ==
  ASSUME EventLoopTypeOK, Poll
  PROVE  EventLoopTypeOK'
<1>1. Killed \cup Ready \subseteq Watchers
  BY DEF Killed, Ready, ActiveOn
<1>2. Registered \subseteq Fds
  BY DEF EventLoopTypeOK, Registered
<1>3. io' \in Watching
  BY DEF EventLoopTypeOK, Poll, Watching
<1> QED
  BY <1>1, <1>2, <1>3 DEF EventLoopTypeOK, Poll, Watching

(* The peers only change what waits on a socket, within its bound. *)
LEMMA RemoteType ==
  ASSUME EventLoopTypeOK, NEW f \in Fds,
         RemoteConnect(f) \/ RemoteAbort(f) \/ RemoteSend(f) \/ RemoteClose(f)
  PROVE  EventLoopTypeOK'
<1>1. sock[f] \in Sockets
  BY DEF EventLoopTypeOK
<1>2. CASE RemoteConnect(f) \/ RemoteSend(f)
  <2>1. sock[f].queue + 1 \in 0..MaxQueue
    BY <1>1, <1>2, QueueAssumption DEF Sockets, RemoteConnect, RemoteSend
  <2>2. [sock[f] EXCEPT !.queue = @ + 1] \in Sockets
    BY <1>1, <2>1 DEF Sockets
  <2> QED
    BY <1>2, <2>2 DEF EventLoopTypeOK, RemoteConnect, RemoteSend
<1>3. CASE RemoteAbort(f)
  <2>1. sock[f].queue - 1 \in 0..MaxQueue
    BY <1>1, <1>3, QueueAssumption DEF Sockets, RemoteAbort
  <2>2. [sock[f] EXCEPT !.queue = @ - 1] \in Sockets
    BY <1>1, <2>1 DEF Sockets
  <2> QED
    BY <1>3, <2>2 DEF EventLoopTypeOK, RemoteAbort
<1>4. CASE RemoteClose(f)
  <2>1. [sock[f] EXCEPT !.eof = TRUE] \in Sockets
    BY <1>1 DEF Sockets
  <2> QED
    BY <1>4, <2>1 DEF EventLoopTypeOK, RemoteClose
<1> QED
  BY <1>2, <1>3, <1>4

-----------------------------------------------------------------------------
(* Type correctness is not inductive: ev_io_start() and ev_io_stop() of a  *)
(* listed port put its descriptor on libev's list of changes, and that it  *)
(* is one, and not -1, is what FdAccounting knows. The two are proved      *)
(* together.                                                               *)
Inv == TypeOK /\ FdAccounting

(* Initially every variable has its type, and nothing is open.             *)
LEMMA InvInit == Init => Inv
<1> SUFFICES ASSUME Init PROVE Inv
  OBVIOUS
<1>1. TypeOK
  BY SocketTypes
  DEF Init, ProcessInit, EventLoopInit, TypeOK, EventLoopTypeOK, NoCall
<1>2. Holders = {}
  BY DEF Init, ProcessInit, EventLoopInit, Holders, ActiveConns, Watchers
<1>3. \A f \in Fds : ~IsOpen(f)
  BY DEF Init, ProcessInit, EventLoopInit, IsOpen, Free
<1>4. call.in # "on_connect"
  BY DEF Init, ProcessInit, NoCall
<1> QED
  BY <1>1, <1>2, <1>3, <1>4 DEF Inv, FdAccounting

(* Every step of the library, its caller, the loop, the peers, or a crash  *)
(* keeps the types.                                                        *)
LEMMA TypeNext == Inv /\ [Next]_vars => TypeOK'
<1> SUFFICES ASSUME Inv, [Next]_vars PROVE TypeOK'
  OBVIOUS
<1>0. /\ io \in Watching /\ sock \in [Fds -> Sockets]
      /\ epoll \subseteq Fds /\ changes \subseteq Fds
      /\ pending \subseteq Watchers
      /\ ports \subseteq Ports /\ ports \subseteq Watchers
      /\ call \in [in : {"none", "on_connect", "blocked"},
                   by : Watchers \cup {NoWatcher}, fd : Fds \cup {NoFd}]
  BY DEF Inv, TypeOK, EventLoopTypeOK, Watching, Watchers
<1>00. \A p \in ports : io[p].fd \in Fds
  BY DEF Inv, FdAccounting, Holders, IsOpen
<1>1. CASE SancusTcpServerInit
  BY <1>1 DEF SancusTcpServerInit, Inv, TypeOK, EventLoopTypeOK
<1>2. CASE SancusTcpServerStart
  <2>1. io' \in Watching /\ changes' \subseteq Fds
    BY <1>0, <1>00, <1>2, EvIoStartType DEF SancusTcpServerStart
  <2> QED
    BY <1>2, <2>1
    DEF SancusTcpServerStart, Inv, TypeOK, EventLoopTypeOK, Watching
<1>3. CASE SancusTcpServerClose
  <2>1. sock' \in [Fds -> Sockets] /\ epoll' \subseteq Fds
    BY <1>0, <1>3, CloseFdsType DEF SancusTcpServerClose
  <2>2. io' \in Watching /\ changes' \subseteq Fds /\ pending' \subseteq Watchers
    BY <1>0, <1>00, <1>3, EvIoStopType DEF SancusTcpServerClose
  <2> QED
    BY <1>3, <2>1, <2>2
    DEF SancusTcpServerClose, Inv, TypeOK, EventLoopTypeOK, Watching
<1>4. ASSUME NEW p \in Ports, SancusTcpPortClose(p) PROVE TypeOK'
  <2>1. sock' \in [Fds -> Sockets] /\ epoll' \subseteq Fds
    BY <1>0, <1>4, CloseFdsType DEF SancusTcpPortClose
  <2> QED
    BY <1>4, <2>1 DEF SancusTcpPortClose, Inv, TypeOK, EventLoopTypeOK
<1>5. ASSUME NEW p \in Ports, NEW a \in Addrs, SancusTcpPort(p, a)
      PROVE  TypeOK'
  <2> DEFINE FileSystem == [LocalPaths -> Fds \cup {NoFd}]
  <2>1. ASSUME NEW fs \in FileSystem, PortFails(fs) PROVE TypeOK'
    BY <1>5, <2>1
    DEF SancusTcpPort, PortFails, Inv, TypeOK, EventLoopTypeOK
  <2>2. files \in FileSystem /\ \A fs \in Unlinked(a) : fs \in FileSystem
    BY DEF Inv, TypeOK, Unlinked
  <2>3. ASSUME NEW fs \in FileSystem, NEW f \in Fds
        PROVE  Bind(a, f, fs) \in FileSystem
    BY <2>3 DEF Bind
  <2>4. ASSUME NEW fs \in FileSystem, NEW f \in Fds,
               sock' = [sock EXCEPT ![f] = ListeningSocket(a)],
               files' = Bind(a, f, fs),
               SancusTcpPortPrepare(p, f), UNCHANGED epoll
        PROVE  TypeOK'
    <3>1. EvIoInit(io, p, f) \in Watching /\ EvIoInit(io, p, f)[p].fd \in Fds
      BY <1>0 DEF EvIoInit, Watching, Watchers
    <3>2. io' \in Watching /\ changes' \subseteq Fds
      BY <1>0, <2>4, <3>1, EvIoStartType DEF SancusTcpPortPrepare, Watchers
    <3>3. sock' \in [Fds -> Sockets]
      BY <1>0, <2>4, SocketTypes
    <3>4. ports' \subseteq Ports /\ files' \in FileSystem
      BY <1>0, <2>3, <2>4 DEF SancusTcpPortPrepare
    <3> QED
      BY <1>0, <1>5, <2>4, <3>2, <3>3, <3>4
      DEF SancusTcpPort, Inv, TypeOK, EventLoopTypeOK, Watching
  <2>5. PortFails(files) \/ \E fs \in Unlinked(a) : InitTcp(p, a, fs)
    BY <1>5 DEF SancusTcpPort
  <2>6. ASSUME NEW fs \in FileSystem, InitTcp(p, a, fs) PROVE TypeOK'
    BY <2>1, <2>3, <2>4, <2>6 DEF InitTcp
  <2> QED
    BY <2>1, <2>2, <2>5, <2>6
<1>6. ASSUME NEW p \in Ports, ConnectCallback(p) PROVE TypeOK'
  <2>1. io[p].fd \in Fds \cup {NoFd}
    BY <1>0 DEF Watching, Watchers
  <2>2. call' \in [in : {"none", "on_connect", "blocked"},
                  by : Watchers \cup {NoWatcher}, fd : Fds \cup {NoFd}]
    BY <1>0, <1>6, <2>1
    DEF ConnectCallback, AcceptReturns, AcceptWaits, AcceptFails, OnConnect,
        Blocked, Watchers
  <2>3. CASE sock' = sock
    BY <1>6, <2>2, <2>3
    DEF ConnectCallback, AcceptReturns, AcceptWaits, AcceptFails, Inv, TypeOK,
        EventLoopTypeOK
  <2>4. ASSUME NEW f \in Fds, IsOpen(io[p].fd), sock[io[p].fd].queue > 0,
               sock' = [sock EXCEPT ![io[p].fd].queue = @ - 1,
                                    ![f] = AcceptedSocket]
        PROVE  TypeOK'
    <3>1. io[p].fd \in Fds /\ sock[io[p].fd] \in Sockets
      BY <1>0, <2>4 DEF IsOpen
    <3>2. sock[io[p].fd].queue - 1 \in 0..MaxQueue
      BY <2>4, <3>1, QueueAssumption DEF Sockets
    <3>3. [sock[io[p].fd] EXCEPT !.queue = @ - 1] \in Sockets
      BY <3>1, <3>2 DEF Sockets
    <3>4. sock' \in [Fds -> Sockets]
      BY <1>0, <2>4, <3>3, SocketTypes
    <3> QED
      BY <1>6, <2>2, <3>4
      DEF ConnectCallback, AcceptReturns, AcceptWaits, AcceptFails, Inv,
          TypeOK, EventLoopTypeOK
  <2> QED
    BY <1>6, <2>3, <2>4
    DEF ConnectCallback, AcceptReturns, AcceptWaits, AcceptFails
<1>7. ASSUME NEW c \in Conns, ConnectCallbackKeeps(c) PROVE TypeOK'
  <2>1. call.fd \in Fds
    BY <1>7 DEF ConnectCallbackKeeps, Inv, FdAccounting, IsOpen
  <2>2. EvIoInit(io, c, call.fd) \in Watching
        /\ EvIoInit(io, c, call.fd)[c].fd \in Fds
    BY <1>0, <2>1 DEF EvIoInit, Watching, Watchers
  <2>3. io' \in Watching /\ changes' \subseteq Fds
    BY <1>0, <1>7, <2>2, EvIoStartType DEF ConnectCallbackKeeps, Watchers
  <2> QED
    BY <1>7, <2>3
    DEF ConnectCallbackKeeps, NoCall, Inv, TypeOK, EventLoopTypeOK, Watching
<1>8. CASE ConnectCallbackDrops
  <2>1. sock' \in [Fds -> Sockets] /\ epoll' \subseteq Fds
    BY <1>0, <1>8, CloseFdsType DEF ConnectCallbackDrops
  <2> QED
    BY <1>8, <2>1
    DEF ConnectCallbackDrops, NoCall, Inv, TypeOK, EventLoopTypeOK
<1>9. ASSUME NEW c \in Conns, ReadCallback(c) PROVE TypeOK'
  <2>1. io[c].fd \in Fds \cup {NoFd}
    BY <1>0 DEF Watching, Watchers
  <2>2. call' \in [in : {"none", "on_connect", "blocked"},
                  by : Watchers \cup {NoWatcher}, fd : Fds \cup {NoFd}]
    BY <1>0, <1>9, <2>1 DEF ReadCallback, Blocked, Watchers
  <2>3. CASE sock' = sock
    BY <1>9, <2>2, <2>3 DEF ReadCallback, Inv, TypeOK, EventLoopTypeOK
  <2>4. CASE /\ IsOpen(io[c].fd) /\ sock[io[c].fd].queue > 0
             /\ sock' = [sock EXCEPT ![io[c].fd].queue = @ - 1]
    <3>1. io[c].fd \in Fds /\ sock[io[c].fd] \in Sockets
      BY <1>0, <2>4 DEF IsOpen
    <3>2. sock[io[c].fd].queue - 1 \in 0..MaxQueue
      BY <2>4, <3>1, QueueAssumption DEF Sockets
    <3>3. [sock[io[c].fd] EXCEPT !.queue = @ - 1] \in Sockets
      BY <3>1, <3>2 DEF Sockets
    <3>4. sock' \in [Fds -> Sockets]
      BY <1>0, <2>4, <3>3
    <3> QED
      BY <1>9, <2>2, <3>4 DEF ReadCallback, Inv, TypeOK, EventLoopTypeOK
  <2> QED
    BY <1>9, <2>3, <2>4 DEF ReadCallback
<1>10. CASE LoopPoll
  BY <1>10, PollType DEF LoopPoll, Inv, TypeOK
<1>11. CASE Peers
  <2>1. EventLoopTypeOK'
    BY <1>11, RemoteType DEF Peers, PeerConnects, Inv, TypeOK
  <2> QED
    BY <1>11, <2>1 DEF Peers, Inv, TypeOK
<1>12. CASE Crash
  BY <1>12, SocketTypes
  DEF Crash, Inv, TypeOK, EventLoopTypeOK, NoCall
<1>13. CASE UNCHANGED vars
  BY <1>13 DEF vars, Inv, TypeOK, EventLoopTypeOK
<1> QED
  BY <1>1, <1>2, <1>3, <1>4, <1>5, <1>6, <1>7, <1>8, <1>9, <1>10, <1>11, <1>12,
     <1>13
  DEF Next, Client, Loop

-----------------------------------------------------------------------------
(* FdAccounting speaks of the descriptors that are open, the structs that  *)
(* hold one, which one, and the running callback, and of nothing else.     *)
OpenFds == {f \in Fds : IsOpen(f)}

Accounted(open, holders, i, k) ==
  /\ \A f \in open : \/ k.in = "on_connect" /\ k.fd = f
                     \/ \E w \in holders : i[w].fd = f
  /\ \A w \in holders : i[w].fd \in open
  /\ \A v, w \in holders : i[v].fd = i[w].fd => v = w
  /\ k.in = "on_connect" =>
       k.fd \in open /\ \A w \in holders : i[w].fd # k.fd

(* The two say the same, before and after a step. *)
LEMMA AccountedDef ==
  /\ FdAccounting <=> Accounted(OpenFds, Holders, io, call)
  /\ FdAccounting' <=> Accounted(OpenFds', Holders', io', call')
  BY DEF FdAccounting, Accounted, OpenFds, IsOpen

(* What a step may do to those.                                            *)
HoldersKeep == \A w \in Holders : io'[w].fd = io[w].fd
CallbackKeeps ==
  /\ call'.in = "on_connect" <=> call.in = "on_connect"
  /\ call.in = "on_connect" => call'.fd = call.fd

StaysPut ==
  OpenFds' = OpenFds /\ Holders' = Holders /\ HoldersKeep /\ CallbackKeeps

Releases(P) ==
  /\ P \subseteq ports /\ Holders' = Holders \ P
  /\ OpenFds' = OpenFds \ {io[p].fd : p \in P}
  /\ HoldersKeep /\ CallbackKeeps

Listens(p, f) ==
  /\ f \in Fds \ OpenFds /\ OpenFds' = OpenFds \cup {f}
  /\ p \notin Holders /\ Holders' = Holders \cup {p} /\ io'[p].fd = f
  /\ HoldersKeep /\ CallbackKeeps

Accepts(f) ==
  /\ f \in Fds \ OpenFds /\ OpenFds' = OpenFds \cup {f}
  /\ Holders' = Holders /\ HoldersKeep
  /\ call.in # "on_connect" /\ call'.in = "on_connect" /\ call'.fd = f

HandsOver(c) ==
  /\ OpenFds' = OpenFds
  /\ c \notin Holders /\ Holders' = Holders \cup {c} /\ io'[c].fd = call.fd
  /\ HoldersKeep
  /\ call.in = "on_connect" /\ call'.in # "on_connect"

Refuses ==
  /\ OpenFds' = OpenFds \ {call.fd}
  /\ Holders' = Holders /\ HoldersKeep
  /\ call.in = "on_connect" /\ call'.in # "on_connect"

Restarts == OpenFds' = {} /\ Holders' = {} /\ call'.in # "on_connect"

Effect ==
  \/ StaysPut
  \/ Releases(ports)
  \/ \E p \in Ports : Releases({p})
  \/ \E p \in Ports, f \in Fds : Listens(p, f)
  \/ \E f \in Fds : Accepts(f)
  \/ \E c \in Conns : HandsOver(c)
  \/ Refuses
  \/ Restarts

(* Every step is one of these.                                             *)
LEMMA StepEffect == Inv /\ [Next]_vars => Effect
<1> SUFFICES ASSUME Inv, [Next]_vars PROVE Effect
  OBVIOUS
<1>0. /\ FdAccounting /\ TypeOK
      /\ io \in Watching /\ sock \in [Fds -> Sockets]
      /\ ports \subseteq Ports /\ ports \cap Conns = {}
  BY StructAssumption DEF Inv, TypeOK, EventLoopTypeOK, Watching
<1> USE DEF HoldersKeep, CallbackKeeps
<1>1. CASE SancusTcpServerInit
  <2> StaysPut
    BY <1>1
    DEF SancusTcpServerInit, OpenFds, IsOpen, Holders, ActiveConns, StaysPut
  <2> QED
    BY DEF Effect
<1>2. CASE SancusTcpServerStart
  <2>1. \A w \in Watchers : io'[w].fd = io[w].fd
    BY <1>0, <1>2 DEF SancusTcpServerStart, EvIoStart, Watching
  <2>2. \A c \in Conns : io'[c] = io[c]
    BY <1>0, <1>2 DEF SancusTcpServerStart, EvIoStart, Watchers
  <2>3. Holders' = Holders /\ Holders \subseteq Watchers
    BY <1>0, <1>2, <2>2
    DEF SancusTcpServerStart, Holders, ActiveConns, Watchers
  <2>4. StaysPut
    BY <1>2, <2>1, <2>3 DEF SancusTcpServerStart, OpenFds, IsOpen, StaysPut
  <2> QED
    BY <2>4 DEF Effect
<1>3. CASE SancusTcpServerClose
  <2>1. \A w \in Watchers : io'[w].fd = io[w].fd
    BY <1>0, <1>3 DEF SancusTcpServerClose, EvIoStop, Watching
  <2>2. \A c \in Conns : io'[c] = io[c]
    BY <1>0, <1>3 DEF SancusTcpServerClose, EvIoStop, Watchers
  <2>3. Holders' = Holders \ ports /\ Holders \subseteq Watchers
    BY <1>0, <1>3, <2>2
    DEF SancusTcpServerClose, Holders, ActiveConns, Watchers
  <2>4. OpenFds' = OpenFds \ {io[p].fd : p \in ports}
    BY <1>0, <1>3 DEF SancusTcpServerClose, CloseFds, OpenFds, IsOpen, Free
  <2>5. Releases(ports)
    BY <1>3, <2>1, <2>3, <2>4 DEF SancusTcpServerClose, Releases
  <2> QED
    BY <2>5 DEF Effect
<1>4. ASSUME NEW p \in Ports, SancusTcpPortClose(p) PROVE Effect
  <2>1. Holders' = Holders \ {p}
    BY <1>0, <1>4, StructAssumption
    DEF SancusTcpPortClose, Holders, ActiveConns
  <2>2. OpenFds' = OpenFds \ {io[v].fd : v \in {p}}
    BY <1>0, <1>4 DEF SancusTcpPortClose, CloseFds, OpenFds, IsOpen, Free
  <2>3. Releases({p})
    BY <1>4, <2>1, <2>2 DEF SancusTcpPortClose, Releases
  <2> QED
    BY <2>3 DEF Effect
<1>5. ASSUME NEW p \in Ports, NEW a \in Addrs, SancusTcpPort(p, a)
      PROVE  Effect
  <2>1. ASSUME NEW fs, PortFails(fs) PROVE Effect
    <3> StaysPut
      BY <1>5, <2>1
     
      DEF SancusTcpPort, PortFails, OpenFds, IsOpen, Holders, ActiveConns,
          StaysPut
    <3> QED
      BY DEF Effect
  <2>2. ASSUME NEW f \in Fds, LowestFree(f),
               sock' = [sock EXCEPT ![f] = ListeningSocket(a)],
               SancusTcpPortPrepare(p, f)
        PROVE  Effect
    <3>1. /\ io'[p].fd = f
          /\ \A w \in Watchers \ {p} : io'[w] = io[w]
      BY <1>0, <2>2
      DEF SancusTcpPortPrepare, EvIoInit, EvIoStart, Watching, Watchers
    <3>2. Holders' = Holders \cup {p} /\ p \notin Holders
          /\ Holders \subseteq Watchers
      BY <1>0, <1>5, <2>2, <3>1, StructAssumption
      DEF SancusTcpPort, SancusTcpPortPrepare, Holders, ActiveConns, Watchers
    <3>3. OpenFds' = OpenFds \cup {f} /\ f \notin OpenFds
      BY <1>0, <2>2
      DEF LowestFree, FreeFds, OpenFds, IsOpen, ListeningSocket
    <3>4. Listens(p, f)
      BY <1>5, <3>1, <3>2, <3>3 DEF SancusTcpPort, Listens
    <3> QED
      BY <3>4 DEF Effect
  <2> QED
    BY <1>5, <2>1, <2>2 DEF SancusTcpPort, InitTcp
<1>6. ASSUME NEW p \in Ports, ConnectCallback(p) PROVE Effect
  <2>1. Holders' = Holders /\ io' = io /\ call.in # "on_connect"
    BY <1>6
    DEF ConnectCallback, AcceptReturns, AcceptWaits, AcceptFails, Holders,
        ActiveConns, NoCall
  <2>2. CASE sock' = sock /\ call'.in # "on_connect"
    <3> StaysPut
      BY <2>1, <2>2 DEF OpenFds, IsOpen, StaysPut
    <3> QED
      BY DEF Effect
  <2>3. ASSUME NEW f \in Fds, LowestFree(f), IsOpen(io[p].fd),
               sock' = [sock EXCEPT ![io[p].fd].queue = @ - 1,
                                    ![f] = AcceptedSocket],
               call' = OnConnect(p, f)
        PROVE  Effect
    <3>1. OpenFds' = OpenFds \cup {f} /\ f \notin OpenFds
      BY <1>0, <2>3
      DEF LowestFree, FreeFds, OpenFds, IsOpen, AcceptedSocket, Sockets
    <3>2. Accepts(f)
      BY <2>1, <2>3, <3>1 DEF OnConnect, Accepts
    <3> QED
      BY <3>2 DEF Effect
  <2> QED
    BY <1>6, <2>2, <2>3
    DEF ConnectCallback, AcceptReturns, AcceptWaits, AcceptFails, NoCall,
        Blocked
<1>7. ASSUME NEW c \in Conns, ConnectCallbackKeeps(c) PROVE Effect
  <2>1. /\ io'[c] = [fd |-> call.fd, active |-> TRUE]
        /\ \A w \in Watchers \ {c} : io'[w] = io[w]
    BY <1>0, <1>7
    DEF ConnectCallbackKeeps, EvIoInit, EvIoStart, Watching, Watchers
  <2>2. Holders' = Holders \cup {c} /\ c \notin Holders
        /\ Holders \subseteq Watchers
    BY <1>0, <1>7, <2>1
    DEF ConnectCallbackKeeps, Holders, ActiveConns, Watchers
  <2>3. OpenFds' = OpenFds /\ call.in = "on_connect" /\ call'.in = "none"
    BY <1>7 DEF ConnectCallbackKeeps, OpenFds, IsOpen, NoCall
  <2>4. HandsOver(c)
    BY <2>1, <2>2, <2>3 DEF HandsOver
  <2> QED
    BY <2>4 DEF Effect
<1>8. CASE ConnectCallbackDrops
  <2>1. OpenFds' = OpenFds \ {call.fd}
    BY <1>0, <1>8 DEF ConnectCallbackDrops, CloseFds, OpenFds, IsOpen, Free
  <2>2. Refuses
    BY <1>8, <2>1
    DEF ConnectCallbackDrops, Holders, ActiveConns, NoCall, Refuses
  <2> QED
    BY <2>2 DEF Effect
<1>9. ASSUME NEW c \in Conns, ReadCallback(c) PROVE Effect
  <2>1. Holders' = Holders /\ io' = io
    BY <1>9 DEF ReadCallback, Holders, ActiveConns
  <2>2. OpenFds' = OpenFds
    BY <1>0, <1>9 DEF ReadCallback, OpenFds, IsOpen, Sockets
  <2>3. call.in # "on_connect" /\ call'.in # "on_connect"
    BY <1>9 DEF ReadCallback, NoCall, Blocked
  <2> QED
    BY <2>1, <2>2, <2>3 DEF StaysPut, Effect
<1>10. CASE LoopPoll
  <2>1. \A w \in Watchers : io'[w].fd = io[w].fd
    BY <1>0, <1>10 DEF LoopPoll, Poll, Watching
  <2>2. \A c \in ActiveConns : c \notin Killed
    BY <1>0 DEF FdAccounting, Holders, Killed, ActiveOn
  <2>3. ActiveConns' = ActiveConns
    BY <1>0, <1>10, <2>2 DEF LoopPoll, Poll, ActiveConns, Watching, Watchers
  <2>4. Holders' = Holders /\ Holders \subseteq Watchers
    BY <1>0, <1>10, <2>3 DEF LoopPoll, Holders, ActiveConns, Watchers
  <2>5. StaysPut
    BY <1>10, <2>1, <2>4 DEF LoopPoll, Poll, OpenFds, IsOpen, StaysPut
  <2> QED
    BY <2>5 DEF Effect
<1>11. CASE Peers
  <2>1. OpenFds' = OpenFds
    BY <1>0, <1>11
    DEF Peers, PeerConnects, RemoteConnect, RemoteAbort, RemoteSend,
        RemoteClose, OpenFds, IsOpen, Sockets
  <2>2. io' = io
    BY <1>11
   
    DEF Peers, PeerConnects, RemoteConnect, RemoteAbort, RemoteSend,
        RemoteClose
  <2>3. StaysPut
    BY <1>11, <2>1, <2>2 DEF Peers, Holders, ActiveConns, StaysPut
  <2> QED
    BY <2>3 DEF Effect
<1>12. CASE Crash
  <2>1. Restarts
    BY <1>12
    DEF Crash, OpenFds, IsOpen, Free, Holders, ActiveConns, NoCall, Watchers,
        Restarts
  <2> QED
    BY <2>1 DEF Effect
<1>13. CASE UNCHANGED vars
  <2>1. StaysPut
    BY <1>13 DEF vars, OpenFds, IsOpen, Holders, ActiveConns, StaysPut
  <2> QED
    BY <2>1 DEF Effect
<1> QED
  BY <1>1, <1>2, <1>3, <1>4, <1>5, <1>6, <1>7, <1>8, <1>9, <1>10, <1>11, <1>12,
     <1>13
  DEF Next, Client, Loop

(* Every step keeps the accounts. *)
LEMMA AccountingNext == Inv /\ [Next]_vars => FdAccounting'
<1> SUFFICES ASSUME Accounted(OpenFds, Holders, io, call), Effect
             PROVE  Accounted(OpenFds', Holders', io', call')
  BY StepEffect, AccountedDef DEF Inv
<1> USE DEF Accounted, HoldersKeep, CallbackKeeps
<1>1. CASE StaysPut
  BY <1>1 DEF StaysPut
<1>2. ASSUME NEW P, Releases(P) PROVE Accounted(OpenFds', Holders', io', call')
  BY <1>2 DEF Releases, Holders
<1>3. ASSUME NEW p \in Ports, NEW f \in Fds, Listens(p, f)
      PROVE  Accounted(OpenFds', Holders', io', call')
  BY <1>3 DEF Listens
<1>4. ASSUME NEW f \in Fds, Accepts(f)
      PROVE  Accounted(OpenFds', Holders', io', call')
  BY <1>4 DEF Accepts
<1>5. ASSUME NEW c \in Conns, HandsOver(c)
      PROVE  Accounted(OpenFds', Holders', io', call')
  BY <1>5 DEF HandsOver
<1>6. CASE Refuses
  BY <1>6 DEF Refuses
<1>7. CASE Restarts
  BY <1>7 DEF Restarts
<1> QED
  BY <1>1, <1>2, <1>3, <1>4, <1>5, <1>6, <1>7 DEF Effect

(* The inductive invariant. *)
THEOREM Invariance == Spec => []Inv
<1>1. Inv /\ [Next]_vars => Inv'
  BY TypeNext, AccountingNext DEF Inv
<1> QED
  BY <1>1, InvInit, PTL DEF Spec

(* Types: in particular libev is never asked to watch descriptor -1.       *)
THEOREM TypeCorrect == Spec => []TypeOK
  BY Invariance, PTL DEF Inv

(* No descriptor leaks and none is shared, whatever order the program      *)
(* calls the server in, on_connect included, whatever fails and however    *)
(* numbers are reused.                                                     *)
THEOREM DescriptorsAccounted == Spec => []FdAccounting
  BY Invariance, PTL DEF Inv

-----------------------------------------------------------------------------
(* The server implements FdOwnership. The owner of a descriptor is known   *)
(* from the same accounts, whatever CHOOSE does in OwnerOf.                *)
Owners == [f \in Fds |-> OwnerOf(f)]

OwnersAre(open, holders, i, k, o) ==
  /\ \A f \in Fds \ open : o[f] = NoWatcher
  /\ k.in = "on_connect" => o[k.fd] = "callback"
  /\ \A w \in holders : o[i[w].fd] = w

(* As long as the accounts are right, before and after a step.             *)
LEMMA OwnersDef ==
  /\ FdAccounting => OwnersAre(OpenFds, Holders, io, call, Owners)
  /\ FdAccounting' => OwnersAre(OpenFds', Holders', io', call', Owners')
<1>1. ASSUME FdAccounting PROVE OwnersAre(OpenFds, Holders, io, call, Owners)
  <2>1. ASSUME NEW w \in Holders PROVE Owners[io[w].fd] = w
    BY <1>1 DEF FdAccounting, Owners, OwnerOf, IsOpen
  <2> QED
    BY <1>1, <2>1 DEF FdAccounting, Owners, OwnerOf, OwnersAre, OpenFds, IsOpen
<1>2. ASSUME FdAccounting'
      PROVE  OwnersAre(OpenFds', Holders', io', call', Owners')
  <2>1. ASSUME NEW w \in Holders' PROVE Owners'[io'[w].fd] = w
    BY <1>2 DEF FdAccounting, Owners, OwnerOf, IsOpen
  <2> QED
    BY <1>2, <2>1 DEF FdAccounting, Owners, OwnerOf, OwnersAre, OpenFds, IsOpen
<1> QED
  BY <1>1, <1>2

(* Every step is a step of FdOwnership, or leaves the owners alone.        *)
LEMMA OwnershipNext ==
  Inv /\ Inv' /\ [Next]_vars => [Ownership!Next]_Owners
<1> SUFFICES ASSUME Inv, Inv', Effect PROVE Ownership!Next \/ Owners' = Owners
  BY StepEffect
<1>0. /\ Accounted(OpenFds, Holders, io, call)
      /\ Accounted(OpenFds', Holders', io', call')
      /\ OwnersAre(OpenFds, Holders, io, call, Owners)
      /\ OwnersAre(OpenFds', Holders', io', call', Owners')
      /\ OpenFds \subseteq Fds /\ OpenFds' \subseteq Fds
      /\ Holders \subseteq Watchers /\ ports \subseteq Ports
      /\ ports \subseteq Holders /\ Holders \cap Ports = ports
  BY AccountedDef, OwnersDef, StructAssumption
  DEF Inv, TypeOK, OpenFds, Holders, ActiveConns, Watchers
<1>00. DOMAIN Owners = Fds /\ DOMAIN Owners' = Fds
  BY DEF Owners
<1> USE DEF Accounted, OwnersAre, HoldersKeep, CallbackKeeps
<1>1. CASE StaysPut
  <2>1. \A f \in Fds : Owners'[f] = Owners[f]
    BY <1>0, <1>1 DEF StaysPut
  <2> QED
    BY <2>1 DEF Owners
<1>2. ASSUME NEW P, Releases(P)
      PROVE  Owners' = [f \in Fds |-> IF Owners[f] \in P THEN NoWatcher ELSE Owners[f]]
  <2>1. \A f \in Fds :
           Owners'[f] = IF Owners[f] \in P THEN NoWatcher ELSE Owners[f]
    BY <1>0, <1>2, CallbackAssumption, StructAssumption DEF Releases, Watchers
  <2> QED
    BY <2>1 DEF Owners
<1>3. CASE Releases(ports)
  <2>1. \A f \in Fds : Owners[f] \in Ports <=> Owners[f] \in ports
    BY <1>0, CallbackAssumption, StructAssumption DEF Watchers
  <2>2. Ownership!Release(Ports)
    BY <1>2, <1>3, <2>1 DEF Owners, Ownership!Release
  <2> QED
    BY <2>2 DEF Ownership!Next
<1>4. ASSUME NEW p \in Ports, Releases({p}) PROVE Ownership!Next
  <2>1. Ownership!Release({p})
    BY <1>2, <1>4 DEF Owners, Ownership!Release
  <2> QED
    BY <2>1 DEF Ownership!Next
<1>5. ASSUME NEW p \in Ports, NEW f \in Fds, Listens(p, f) PROVE Ownership!Next
  <2>1. Owners[f] = NoWatcher /\ \A g \in Fds : Owners[g] # p
    BY <1>0, <1>5, CallbackAssumption, StructAssumption DEF Listens, Watchers
  <2>2. \A g \in Fds : Owners'[g] = IF g = f THEN p ELSE Owners[g]
    BY <1>0, <1>5 DEF Listens
  <2>3. Owners' = [Owners EXCEPT ![f] = p]
    BY <2>2 DEF Owners
  <2>4. Ownership!Listen(p, f)
    BY <2>1, <2>3 DEF Owners, Ownership!Listen, Ownership!OwnsNone
  <2> QED
    BY <2>4 DEF Ownership!Next
<1>6. ASSUME NEW f \in Fds, Accepts(f) PROVE Ownership!Next
  <2>1. Owners[f] = NoWatcher /\ \A g \in Fds : Owners[g] # "callback"
    BY <1>0, <1>6, CallbackAssumption DEF Accepts, Watchers
  <2>2. \A g \in Fds : Owners'[g] = IF g = f THEN "callback" ELSE Owners[g]
    BY <1>0, <1>6 DEF Accepts
  <2>3. Owners' = [Owners EXCEPT ![f] = "callback"]
    BY <2>2 DEF Owners
  <2>4. Ownership!Accept(f)
    BY <2>1, <2>3 DEF Owners, Ownership!Accept, Ownership!OwnsNone
  <2> QED
    BY <2>4 DEF Ownership!Next
<1>7. ASSUME NEW c \in Conns, HandsOver(c) PROVE Ownership!Next
  <2>1. call.fd \in Fds /\ Owners[call.fd] = "callback"
    BY <1>0, <1>7 DEF HandsOver
  <2>2. \A g \in Fds : Owners[g] # c
    BY <1>0, <1>7, CallbackAssumption, StructAssumption DEF HandsOver, Watchers
  <2>3. \A g \in Fds : Owners'[g] = IF g = call.fd THEN c ELSE Owners[g]
    BY <1>0, <1>7 DEF HandsOver
  <2>4. Owners' = [Owners EXCEPT ![call.fd] = c]
    BY <2>1, <2>3 DEF Owners
  <2>5. Ownership!HandOver(call.fd, c)
    BY <2>1, <2>2, <2>4 DEF Owners, Ownership!HandOver, Ownership!OwnsNone
  <2> QED
    BY <2>1, <2>5 DEF Ownership!Next
<1>8. CASE Refuses
  <2>1. call.fd \in Fds /\ Owners[call.fd] = "callback"
    BY <1>0, <1>8 DEF Refuses
  <2>2. \A g \in Fds : Owners'[g] = IF g = call.fd THEN NoWatcher ELSE Owners[g]
    BY <1>0, <1>8 DEF Refuses
  <2>3. Owners' = [Owners EXCEPT ![call.fd] = NoWatcher]
    BY <2>1, <2>2 DEF Owners
  <2>4. Ownership!Refuse(call.fd)
    BY <2>1, <2>3 DEF Owners, Ownership!Refuse
  <2> QED
    BY <2>1, <2>4 DEF Ownership!Next
<1>9. CASE Restarts
  <2>1. \A f \in Fds : Owners'[f] = NoWatcher
    BY <1>0, <1>9 DEF Restarts
  <2>2. Ownership!Restart
    BY <2>1 DEF Owners, Ownership!Restart
  <2> QED
    BY <2>2 DEF Ownership!Next
<1> QED
  BY <1>1, <1>3, <1>4, <1>5, <1>6, <1>7, <1>8, <1>9 DEF Effect

(* Descriptors change hands along the path of FdOwnership and no other,    *)
(* whatever the program calls and whatever fails: every step of the server *)
(* is a step of FdOwnership on OwnerOf(), or changes no owner.             *)
THEOREM ImplementsOwnership == Spec => OwnershipSpec
<1>1. Init => Ownership!Init
  <2> SUFFICES ASSUME Init PROVE Ownership!Init
    OBVIOUS
  <2>1. \A f \in Fds : OwnerOf(f) = NoWatcher
    BY DEF Init, ProcessInit, EventLoopInit, OwnerOf, IsOpen, Free
  <2> QED
    BY <2>1 DEF Ownership!Init
<1>2. Inv /\ Inv' /\ [Next]_vars =>
        [Ownership!Next]_[f \in Fds |-> OwnerOf(f)]
  BY OwnershipNext DEF Owners
<1> QED
  BY <1>1, <1>2, Invariance, PTL DEF Spec, OwnershipSpec, Ownership!Spec

-----------------------------------------------------------------------------
(* What the loop has collected is still active, and what is active is      *)
(* served: true as long as the program does not close single ports of a    *)
(* running server.                                                         *)
Served == ActiveIffServed /\ \A w \in pending : io[w].active

(* libev never finds a descriptor closed behind its back. *)
LEMMA NothingKilled == Inv /\ ActiveIffServed => Killed = {}
<1> SUFFICES ASSUME Inv, ActiveIffServed,
                    NEW f \in changes, ~IsOpen(f), NEW w \in ActiveOn(f)
             PROVE  FALSE
  BY DEF Killed
<1>1. w \in Watchers /\ io[w].active /\ io[w].fd = f
  BY DEF ActiveOn
<1>2. w \in Holders
  BY <1>1 DEF ActiveIffServed, Holders, ActiveConns, Watchers
<1> QED
  BY <1>1, <1>2 DEF Inv, FdAccounting

(* Every step keeps Served, if the program closes no single port of a     *)
(* running server.                                                         *)
LEMMA ServedNext ==
  ASSUME ~ClosesRunningPorts, Inv, Served, [Next]_vars
  PROVE  Served'
<1>0. /\ io \in Watching /\ ports \subseteq Ports /\ Ports \cap Conns = {}
      /\ pending \subseteq Watchers /\ started \in BOOLEAN
  BY StructAssumption DEF Inv, TypeOK, EventLoopTypeOK, Watching
<1> USE DEF Served, ActiveIffServed
<1>1. CASE SancusTcpServerInit
  BY <1>1 DEF SancusTcpServerInit
<1>2. CASE SancusTcpServerStart
  <2>1. \A w \in Watchers : io'[w].active = (w \in ports \/ io[w].active)
    BY <1>0, <1>2 DEF SancusTcpServerStart, EvIoStart, Watching
  <2> QED
    BY <1>0, <1>2, <2>1 DEF SancusTcpServerStart, Watchers
<1>3. CASE SancusTcpServerClose
  <2> DEFINE W == IF started THEN ports ELSE {}
  <2>1. /\ \A w \in Watchers : io'[w].active = (w \notin W /\ io[w].active)
        /\ pending' = pending \ W
    BY <1>0, <1>3 DEF SancusTcpServerClose, EvIoStop, Watching
  <2> QED
    BY <1>0, <1>3, <2>1 DEF SancusTcpServerClose, Watchers
<1>4. ASSUME NEW p \in Ports, SancusTcpPortClose(p) PROVE Served'
  BY <1>0, <1>4 DEF SancusTcpPortClose
<1>5. ASSUME NEW p \in Ports, NEW a \in Addrs, SancusTcpPort(p, a)
      PROVE  Served'
  <2>1. ASSUME NEW fs, PortFails(fs) PROVE Served'
    BY <1>5, <2>1 DEF SancusTcpPort, PortFails
  <2>2. ASSUME NEW f \in Fds, SancusTcpPortPrepare(p, f) PROVE Served'
    <3>1. /\ io'[p].active = started
          /\ \A w \in Watchers \ {p} : io'[w] = io[w]
      BY <1>0, <2>2
      DEF SancusTcpPortPrepare, EvIoInit, EvIoStart, Watching, Watchers
    <3> QED
      BY <1>0, <1>5, <2>2, <3>1
      DEF SancusTcpPort, SancusTcpPortPrepare, Watchers
  <2> QED
    BY <1>5, <2>1, <2>2 DEF SancusTcpPort, InitTcp
<1>6. ASSUME NEW p \in Ports, ConnectCallback(p) PROVE Served'
  BY <1>6 DEF ConnectCallback, AcceptReturns, AcceptWaits, AcceptFails
<1>7. ASSUME NEW c \in Conns, ConnectCallbackKeeps(c) PROVE Served'
  <2>1. io'[c].active /\ \A w \in Watchers \ {c} : io'[w] = io[w]
    BY <1>0, <1>7
    DEF ConnectCallbackKeeps, EvIoInit, EvIoStart, Watching, Watchers
  <2> QED
    BY <1>0, <1>7, <2>1 DEF ConnectCallbackKeeps, Watchers
<1>8. CASE ConnectCallbackDrops
  BY <1>8 DEF ConnectCallbackDrops
<1>9. ASSUME NEW c \in Conns, ReadCallback(c) PROVE Served'
  BY <1>9 DEF ReadCallback
<1>10. CASE LoopPoll
  <2>1. pending' = Ready /\ \A w \in Watchers : io'[w] = io[w]
    BY <1>10, NothingKilled DEF LoopPoll, Poll
  <2>2. \A w \in Ready : w \in Watchers /\ io[w].active
    BY DEF Ready, ActiveOn
  <2> QED
    BY <1>10, <2>1, <2>2 DEF LoopPoll, Watchers
<1>11. CASE Peers
  BY <1>11
  DEF Peers, PeerConnects, RemoteConnect, RemoteAbort, RemoteSend, RemoteClose
<1>12. CASE Crash
  BY <1>12 DEF Crash, Watchers
<1>13. CASE UNCHANGED vars
  BY <1>13 DEF vars
<1> QED
  BY <1>1, <1>2, <1>3, <1>4, <1>5, <1>6, <1>7, <1>8, <1>9, <1>10, <1>11, <1>12,
     <1>13
  DEF Next, Client, Loop

(* Hence Served always holds in such a program.                            *)
LEMMA ServedInvariant == ASSUME ~ClosesRunningPorts PROVE Spec => []Served
<1>1. Init => Served
  BY DEF Init, ProcessInit, EventLoopInit, Served, ActiveIffServed, Watchers
<1>2. Inv /\ Served /\ [Next]_vars => Served'
  BY ServedNext
<1> QED
  BY <1>1, <1>2, Invariance, PTL DEF Spec

(* In a program that closes no single port of a running server the loop    *)
(* never refers to a port the server has forgotten, nor misses one.        *)
THEOREM PortsActiveWhileServed ==
  ASSUME ~ClosesRunningPorts PROVE Spec => []ActiveIffServed
<1>1. Served => ActiveIffServed
  BY DEF Served
<1> QED
  BY <1>1, ServedInvariant, PTL

(* The assertion of connect_callback, server_port.c:56, can only fail in a *)
(* program that closes a single port of a running server.                  *)
THEOREM PortsAssertHolds ==
  ASSUME ~ClosesRunningPorts PROVE Spec => []ConnectCallbackAssert
<1>1. Served => ConnectCallbackAssert
  BY DEF Served, ActiveIffServed, ConnectCallbackAssert
<1> QED
  BY <1>1, ServedInvariant, PTL

(* Under the same condition, what libev collected for a port before it was *)
(* closed is never delivered: a connection is accepted only for a port     *)
(* that is listed and started at that moment.                              *)
THEOREM NoStaleAccept ==
  ASSUME ~ClosesRunningPorts PROVE Spec => OnlyServedPortsAccept
<1>1. ASSUME Served, [Next]_vars, call = NoCall, call'.in = "on_connect"
      PROVE  call'.by \in ports /\ io[call'.by].active /\ started
  <2>1. call' # NoCall
    BY <1>1 DEF NoCall
  <2>2. PICK p \in Ports : ConnectCallback(p)
    <3>1. ~Client
      BY <1>1, <2>1
      DEF Client, SancusTcpServerInit, SancusTcpServerStart,
          SancusTcpServerClose, SancusTcpPort, SancusTcpPortClose
    <3>2. ~(Peers \/ Crash \/ LoopPoll \/ UNCHANGED vars)
      BY <1>1, <2>1 DEF Peers, Crash, LoopPoll, vars
    <3>3. ~ConnectCallbackDrops /\ \A c \in Conns : ~ConnectCallbackKeeps(c)
      BY <1>1, <2>1 DEF ConnectCallbackDrops, ConnectCallbackKeeps
    <3>4. \A c \in Conns : ~ReadCallback(c)
      BY <1>1, <2>1 DEF ReadCallback, Blocked
    <3> QED
      BY <1>1, <3>1, <3>2, <3>3, <3>4 DEF Next, Loop
  <2>3. call'.by = p /\ p \in pending
    BY <1>1, <2>1, <2>2
    DEF ConnectCallback, AcceptReturns, AcceptWaits, AcceptFails, OnConnect,
        Blocked
  <2> QED
    BY <1>1, <2>3 DEF Served, ActiveIffServed
<1>2. Served /\ [Next]_vars =>
        [call = NoCall /\ call'.in = "on_connect" =>
           call'.by \in ports /\ io[call'.by].active /\ started]_vars
  BY <1>1
<1> QED
  BY <1>2, ServedInvariant, PTL DEF Spec, OnlyServedPortsAccept

-----------------------------------------------------------------------------
(* A live connection, and one in the making, have a server with a loop:    *)
(* true as long as, besides, the program does not initialise a server      *)
(* again while a connection lives.                                         *)
Looped ==
  /\ \A c \in ActiveConns : started
  /\ call.in = "on_connect" => started

(* Every step keeps Looped, if the program also lets connections end       *)
(* before it initialises the server again.                                 *)
LEMMA LoopedNext ==
  ASSUME ~ClosesRunningPorts, ~ReinitsWithConnections, Inv, Served, Looped,
         [Next]_vars
  PROVE  Looped'
<1>0. /\ io \in Watching /\ ports \subseteq Ports /\ Ports \cap Conns = {}
      /\ pending \subseteq Watchers
  BY StructAssumption DEF Inv, TypeOK, EventLoopTypeOK, Watching
<1> USE DEF Looped, ActiveConns
<1>1. CASE SancusTcpServerInit
  BY <1>1 DEF SancusTcpServerInit, NoCall
<1>2. CASE SancusTcpServerStart
  BY <1>2 DEF SancusTcpServerStart
<1>3. CASE SancusTcpServerClose
  <2>1. \A c \in Conns : io'[c] = io[c]
    BY <1>0, <1>3 DEF SancusTcpServerClose, EvIoStop, Watchers
  <2> QED
    BY <1>3, <2>1 DEF SancusTcpServerClose
<1>4. ASSUME NEW p \in Ports, SancusTcpPortClose(p) PROVE Looped'
  BY <1>4 DEF SancusTcpPortClose
<1>5. ASSUME NEW p \in Ports, NEW a \in Addrs, SancusTcpPort(p, a)
      PROVE  Looped'
  <2>1. ASSUME NEW fs, PortFails(fs) PROVE Looped'
    BY <1>5, <2>1 DEF SancusTcpPort, PortFails
  <2>2. ASSUME NEW f \in Fds, SancusTcpPortPrepare(p, f) PROVE Looped'
    <3>1. \A w \in Watchers \ {p} : io'[w] = io[w]
      BY <1>0, <2>2
      DEF SancusTcpPortPrepare, EvIoInit, EvIoStart, Watching, Watchers
    <3> QED
      BY <1>0, <1>5, <3>1 DEF SancusTcpPort, Watchers
  <2> QED
    BY <1>5, <2>1, <2>2 DEF SancusTcpPort, InitTcp
<1>6. ASSUME NEW p \in Ports, ConnectCallback(p) PROVE Looped'
  <2>1. started
    BY <1>0, <1>6
    DEF ConnectCallback, AcceptReturns, AcceptWaits, AcceptFails, Served,
        ActiveIffServed
  <2> QED
    BY <1>6, <2>1 DEF ConnectCallback, AcceptReturns, AcceptWaits, AcceptFails
<1>7. ASSUME NEW c \in Conns, ConnectCallbackKeeps(c) PROVE Looped'
  BY <1>7 DEF ConnectCallbackKeeps, NoCall
<1>8. CASE ConnectCallbackDrops
  BY <1>8 DEF ConnectCallbackDrops, NoCall
<1>9. ASSUME NEW c \in Conns, ReadCallback(c) PROVE Looped'
  BY <1>9 DEF ReadCallback, NoCall, Blocked
<1>10. CASE LoopPoll
  <2>1. \A w \in Watchers : io'[w] = io[w]
    BY <1>10, NothingKilled DEF LoopPoll, Poll, Served
  <2> QED
    BY <1>10, <2>1 DEF LoopPoll, Watchers
<1>11. CASE Peers
  BY <1>11
  DEF Peers, PeerConnects, RemoteConnect, RemoteAbort, RemoteSend, RemoteClose
<1>12. CASE Crash
  BY <1>12 DEF Crash, Watchers, NoCall
<1>13. CASE UNCHANGED vars
  BY <1>13 DEF vars
<1> QED
  BY <1>1, <1>2, <1>3, <1>4, <1>5, <1>6, <1>7, <1>8, <1>9, <1>10, <1>11, <1>12,
     <1>13
  DEF Next, Client, Loop

(* The assertion of read_callback, server_connection.c:61, can only fail   *)
(* in a program with one of the two habits.                                *)
THEOREM ConnectionsAssertHolds ==
  ASSUME ~ClosesRunningPorts, ~ReinitsWithConnections
  PROVE  Spec => []ReadCallbackAssert
<1>1. Init => Looped
  BY
  DEF Init, ProcessInit, EventLoopInit, Looped, ActiveConns, NoCall, Watchers
<1>2. Inv /\ Served /\ Looped /\ [Next]_vars => Looped'
  BY LoopedNext
<1>3. Served /\ Looped => ReadCallbackAssert
  BY DEF Served, Looped, ReadCallbackAssert, ActiveConns
<1> QED
  BY <1>1, <1>2, <1>3, Invariance, ServedInvariant, PTL DEF Spec

-----------------------------------------------------------------------------
(* The descriptor that on_connect is given is the stream that accept(2)    *)
(* returned, for as long as the callback holds it.                         *)
Handed == call.in = "on_connect" => sock[call.fd].kind = "stream"

(* Nobody but the callback itself may close, or reuse, what it holds.      *)
LEMMA HandedNext ==
  ASSUME Inv, Handed, Inv', [Next]_vars
  PROVE  Handed'
<1>0. /\ sock \in [Fds -> Sockets]
      /\ call.in = "on_connect" => call.fd \in Fds /\ sock[call.fd].kind # "free"
      /\ call'.in = "on_connect" =>
           call'.fd \in Fds /\ sock'[call'.fd].kind # "free"
  BY DEF Inv, TypeOK, EventLoopTypeOK, FdAccounting, IsOpen
<1>1. ASSUME call' = call,
             \A f \in Fds : sock[f].kind # "free" =>
                sock'[f].kind \in {"free", sock[f].kind}
      PROVE  Handed'
  BY <1>0, <1>1 DEF Handed
<1>2. ASSUME call'.in # "on_connect" PROVE Handed'
  BY <1>2 DEF Handed
<1>3. CASE SancusTcpServerInit
  BY <1>1, <1>3 DEF SancusTcpServerInit
<1>4. CASE SancusTcpServerStart
  BY <1>1, <1>4 DEF SancusTcpServerStart
<1>5. CASE SancusTcpServerClose
  BY <1>1, <1>5 DEF SancusTcpServerClose, CloseFds, Free
<1>6. ASSUME NEW p \in Ports, SancusTcpPortClose(p) PROVE Handed'
  BY <1>1, <1>6 DEF SancusTcpPortClose, CloseFds, Free
<1>7. ASSUME NEW p \in Ports, NEW a \in Addrs, SancusTcpPort(p, a)
      PROVE  Handed'
  <2>1. ASSUME NEW fs, PortFails(fs) PROVE Handed'
    BY <1>1, <1>7, <2>1 DEF SancusTcpPort, PortFails
  <2>2. ASSUME NEW f \in Fds, LowestFree(f),
               sock' = [sock EXCEPT ![f] = ListeningSocket(a)]
        PROVE  Handed'
    <3>1. sock[f].kind = "free" /\ \A g \in Fds \ {f} : sock'[g] = sock[g]
      BY <1>0, <2>2 DEF LowestFree, FreeFds, IsOpen
    <3> QED
      BY <1>1, <1>7, <3>1 DEF SancusTcpPort
  <2> QED
    BY <1>7, <2>1, <2>2 DEF SancusTcpPort, InitTcp
<1>8. ASSUME NEW p \in Ports, ConnectCallback(p) PROVE Handed'
  <2>1. ASSUME NEW f \in Fds, call' = OnConnect(p, f),
               sock' = [sock EXCEPT ![io[p].fd].queue = @ - 1,
                                    ![f] = AcceptedSocket]
        PROVE  Handed'
    BY <1>0, <2>1 DEF Handed, OnConnect, AcceptedSocket
  <2>2. call = NoCall
    BY <1>8 DEF ConnectCallback, AcceptReturns, AcceptWaits, AcceptFails
  <2> QED
    BY <1>2, <1>8, <2>1, <2>2
    DEF ConnectCallback, AcceptReturns, AcceptWaits, AcceptFails, Blocked,
        NoCall
<1>9. ASSUME NEW c \in Conns, ConnectCallbackKeeps(c) PROVE Handed'
  BY <1>2, <1>9 DEF ConnectCallbackKeeps, NoCall
<1>10. CASE ConnectCallbackDrops
  BY <1>2, <1>10 DEF ConnectCallbackDrops, NoCall
<1>11. ASSUME NEW c \in Conns, ReadCallback(c) PROVE Handed'
  BY <1>2, <1>11 DEF ReadCallback, NoCall, Blocked
<1>12. CASE LoopPoll
  BY <1>1, <1>12 DEF LoopPoll, Poll
<1>13. CASE Peers
  <2>1. \A f \in Fds : sock'[f].kind = sock[f].kind
    BY <1>0, <1>13
    DEF Peers, PeerConnects, RemoteConnect, RemoteAbort, RemoteSend,
        RemoteClose, Sockets
  <2> QED
    BY <1>1, <1>13, <2>1 DEF Peers
<1>14. CASE Crash
  BY <1>2, <1>14 DEF Crash, NoCall
<1>15. CASE UNCHANGED vars
  BY <1>1, <1>15 DEF vars
<1> QED
  BY <1>3, <1>4, <1>5, <1>6, <1>7, <1>8, <1>9, <1>10, <1>11, <1>12, <1>13, <1>14,
     <1>15
  DEF Next, Client, Loop

(* Why the loop never sleeps in accept() or read(): listening sockets are  *)
(* non-blocking, and a connection whose callback is due can be read until  *)
(* that callback reads it, since nobody else reads or closes it.           *)
Awake ==
  /\ KindsMatch
  /\ \A f \in Fds : sock[f].kind = "listen" => sock[f].nonblock
  /\ \A c \in pending \cap Conns : io[c].active /\ Readable(io[c].fd)
  /\ NeverBlocks

(* What a step must leave alone for that: the sockets of the connections,  *)
(* except that data may arrive, and that the one that is read from is not  *)
(* due any more.                                                           *)
Unread(s, t) == t.queue >= s.queue /\ (s.eof => t.eof)

(* Such a step keeps Awake.                                                *)
LEMMA AwakeFrame ==
  ASSUME Inv, Awake, Inv',
         call'.in # "blocked",
         \A f \in Fds : sock'[f].kind = "listen" => sock'[f].nonblock,
         \A p \in ports' : sock'[io'[p].fd].kind = "listen",
         pending' \cap Conns \subseteq pending,
         \A c \in ActiveConns' : c \notin ActiveConns =>
            sock'[io'[c].fd].kind = "stream",
         \A c \in ActiveConns' : c \in ActiveConns =>
            sock'[io'[c].fd].kind = sock[io[c].fd].kind,
         \A c \in pending' \cap Conns :
            c \in ActiveConns' /\ io'[c] = io[c]
            /\ Unread(sock[io[c].fd], sock'[io[c].fd])
  PROVE  Awake'
<1>1. KindsMatch'
  BY DEF Awake, KindsMatch
<1>2. ASSUME NEW c \in pending' \cap Conns
      PROVE  io'[c].active /\ IsOpen(io[c].fd)'
             /\ (sock'[io'[c].fd].queue > 0 \/ sock'[io'[c].fd].eof)
  <2>1. io[c].active /\ Readable(io[c].fd)
    BY DEF Awake
  <2>2. io[c].fd \in Fds /\ sock[io[c].fd].queue \in Nat
        /\ sock'[io[c].fd].queue \in Nat
    BY <2>1, QueueAssumption
    DEF Readable, IsOpen, Inv, TypeOK, EventLoopTypeOK, Sockets
  <2>3. io'[c].active /\ io'[c].fd = io[c].fd /\ IsOpen(io[c].fd)'
    BY <2>1, <2>2 DEF Inv, FdAccounting, Holders, ActiveConns, IsOpen
  <2> QED
    BY <2>1, <2>2, <2>3 DEF Readable, Unread
<1> QED
  BY <1>1, <1>2 DEF Awake, NeverBlocks, Readable, IsOpen

(* Most steps leave the connections and their sockets alone. *)
LEMMA AwakeSame ==
  ASSUME Inv, Awake, Inv',
         call'.in # "blocked",
         \A f \in Fds : sock'[f].kind = "listen" => sock'[f].nonblock,
         \A p \in ports' : sock'[io'[p].fd].kind = "listen",
         pending' \cap Conns \subseteq pending,
         \A c \in Conns : io'[c] = io[c],
         \A c \in ActiveConns : sock'[io[c].fd] = sock[io[c].fd]
  PROVE  Awake'
<1>1. ActiveConns' = ActiveConns
  BY DEF ActiveConns
<1>2. \A c \in ActiveConns : sock[io[c].fd].queue \in Nat
  BY QueueAssumption
  DEF Inv, FdAccounting, Holders, IsOpen, TypeOK, EventLoopTypeOK, Sockets
<1>3. \A c \in pending' \cap Conns : c \in ActiveConns
  BY DEF Awake, ActiveConns
<1>4. \A c \in ActiveConns : Unread(sock[io[c].fd], sock'[io[c].fd])
  BY <1>2 DEF Unread
<1> QED
  BY <1>1, <1>3, <1>4, AwakeFrame DEF ActiveConns

(* Awake is preserved by every step: the connections' sockets are changed  *)
(* by their peers, who only add to them, and by their own callbacks.       *)
LEMMA AwakeNext ==
  ASSUME Inv, Handed, Awake, Inv', [Next]_vars
  PROVE  Awake'
<1>0. /\ io \in Watching /\ sock \in [Fds -> Sockets]
      /\ ports \subseteq Ports /\ Ports \cap Conns = {}
      /\ pending \subseteq Watchers
      /\ \A f \in Fds : sock[f].queue \in Nat
  BY StructAssumption, QueueAssumption
  DEF Inv, TypeOK, EventLoopTypeOK, Watching, Sockets
<1>00. \A c \in ActiveConns :
         /\ c \in Conns /\ c \in Watchers /\ io[c].fd \in Fds
         /\ sock[io[c].fd].kind = "stream"
         /\ \A p \in ports : io[p].fd # io[c].fd
         /\ call.in = "on_connect" => io[c].fd # call.fd
  BY <1>0
 
  DEF Inv, FdAccounting, Holders, ActiveConns, Awake, KindsMatch, IsOpen,
      Watchers
<1>000. /\ call.in # "blocked"
        /\ \A f \in Fds : sock[f].kind = "listen" => sock[f].nonblock
        /\ \A p \in ports : io[p].fd \in Fds /\ sock[io[p].fd].kind = "listen"
        /\ \A v, w \in ports : io[v].fd = io[w].fd => v = w
        /\ \A c \in pending \cap Conns : c \in ActiveConns
  BY DEF Inv, FdAccounting, Holders, Awake, KindsMatch, NeverBlocks, IsOpen,
         ActiveConns
<1>1. CASE SancusTcpServerInit
  BY <1>0, <1>000, <1>1, AwakeSame DEF SancusTcpServerInit
<1>2. CASE SancusTcpServerStart
  <2>1. /\ \A c \in Conns : io'[c] = io[c]
        /\ \A p \in Ports : io'[p].fd = io[p].fd
    BY <1>0, <1>2 DEF SancusTcpServerStart, EvIoStart, Watching, Watchers
  <2> QED
    BY <1>0, <1>000, <1>2, <2>1, AwakeSame DEF SancusTcpServerStart
<1>3. CASE SancusTcpServerClose
  <2>1. \A c \in Conns : io'[c] = io[c]
    BY <1>0, <1>3 DEF SancusTcpServerClose, EvIoStop, Watchers
  <2>2. \A f \in Fds : sock'[f] = sock[f] \/ sock'[f].kind = "free"
    BY <1>3 DEF SancusTcpServerClose, CloseFds, Free
  <2>3. \A c \in ActiveConns : sock'[io[c].fd] = sock[io[c].fd]
    BY <1>00, <1>3 DEF SancusTcpServerClose, CloseFds
  <2>4. ports' = {} /\ pending' \subseteq pending /\ call' = call
    BY <1>3 DEF SancusTcpServerClose, EvIoStop
  <2> QED
    BY <1>000, <2>1, <2>2, <2>3, <2>4, AwakeSame
<1>4. ASSUME NEW p \in Ports, SancusTcpPortClose(p) PROVE Awake'
  <2>1. \A f \in Fds : sock'[f] = sock[f] \/ sock'[f].kind = "free"
    BY <1>4 DEF SancusTcpPortClose, CloseFds, Free
  <2>2. \A c \in ActiveConns : sock'[io[c].fd] = sock[io[c].fd]
    BY <1>00, <1>4 DEF SancusTcpPortClose, CloseFds
  <2>3. /\ \A q \in ports' : q \in ports /\ sock'[io'[q].fd].kind = "listen"
        /\ pending' = pending /\ io' = io /\ call' = call
    BY <1>000, <1>4 DEF SancusTcpPortClose, CloseFds
  <2> QED
    BY <1>000, <2>1, <2>2, <2>3, AwakeSame
<1>5. ASSUME NEW p \in Ports, NEW a \in Addrs, SancusTcpPort(p, a)
      PROVE  Awake'
  <2>1. ASSUME NEW fs, PortFails(fs) PROVE Awake'
    BY <1>000, <1>5, <2>1, AwakeSame DEF SancusTcpPort, PortFails
  <2>2. ASSUME NEW f \in Fds, LowestFree(f),
               sock' = [sock EXCEPT ![f] = ListeningSocket(a)],
               SancusTcpPortPrepare(p, f)
        PROVE  Awake'
    <3>1. /\ io'[p].fd = f
          /\ \A w \in Watchers \ {p} : io'[w] = io[w]
          /\ ports' = ports \cup {p}
      BY <1>0, <2>2
      DEF SancusTcpPortPrepare, EvIoInit, EvIoStart, Watching, Watchers
    <3>2. sock[f].kind = "free" /\ sock'[f].kind = "listen" /\ sock'[f].nonblock
          /\ \A g \in Fds \ {f} : sock'[g] = sock[g]
      BY <1>0, <2>2 DEF LowestFree, FreeFds, IsOpen, ListeningSocket
    <3>3. \A c \in ActiveConns : sock'[io[c].fd] = sock[io[c].fd]
      BY <1>00, <3>2
    <3>4. \A q \in ports' : sock'[io'[q].fd].kind = "listen"
      BY <1>0, <1>000, <3>1, <3>2 DEF Watchers
    <3>5. pending' = pending /\ call' = call
      BY <1>5 DEF SancusTcpPort
    <3>6. \A c \in Conns : io'[c] = io[c]
      BY <1>0, <3>1 DEF Watchers
    <3> QED
      BY <1>000, <3>2, <3>3, <3>4, <3>5, <3>6, AwakeSame
  <2> QED
    BY <1>5, <2>1, <2>2 DEF SancusTcpPort, InitTcp
<1>6. ASSUME NEW p \in Ports, ConnectCallback(p) PROVE Awake'
  <2>1. io' = io /\ ports' = ports /\ pending' \subseteq pending
    BY <1>6 DEF ConnectCallback, AcceptReturns, AcceptWaits, AcceptFails
  <2>2. CASE sock' = sock /\ call' = call
    BY <1>000, <2>1, <2>2, AwakeSame
  <2>3. ASSUME NEW f \in Fds, LowestFree(f), IsOpen(io[p].fd),
               sock[io[p].fd].kind = "listen",
               sock' = [sock EXCEPT ![io[p].fd].queue = @ - 1,
                                    ![f] = AcceptedSocket],
               call' = OnConnect(p, f)
        PROVE  Awake'
    <3>1. sock[f].kind = "free" /\ io[p].fd \in Fds /\ f # io[p].fd
      BY <2>3 DEF LowestFree, FreeFds, IsOpen
    <3>2. /\ sock'[f].kind = "stream"
          /\ sock'[io[p].fd].kind = "listen"
          /\ sock'[io[p].fd].nonblock = sock[io[p].fd].nonblock
          /\ \A g \in Fds \ {f, io[p].fd} : sock'[g] = sock[g]
      BY <1>0, <2>3, <3>1 DEF AcceptedSocket, Sockets
    <3>3. \A c \in ActiveConns : sock'[io[c].fd] = sock[io[c].fd]
      BY <1>00, <2>3, <3>1, <3>2
    <3>4. \A q \in ports' : sock'[io'[q].fd].kind = "listen"
      BY <1>000, <2>1, <3>1, <3>2
    <3>5. call'.in # "blocked"
      BY <2>3 DEF OnConnect
    <3>6. \A g \in Fds : sock'[g].kind = "listen" => sock'[g].nonblock
      BY <1>000, <2>3, <3>1, <3>2
    <3> QED
      BY <2>1, <3>3, <3>4, <3>5, <3>6, AwakeSame
  <2>4. io[p].fd \in Fds /\ sock[io[p].fd].kind = "listen" =>
          sock[io[p].fd].nonblock
    BY <1>000
  <2> QED
    BY <1>6, <2>2, <2>3, <2>4
    DEF ConnectCallback, AcceptReturns, AcceptWaits, AcceptFails, IsOpen
<1>7. ASSUME NEW c \in Conns, ConnectCallbackKeeps(c) PROVE Awake'
  <2>1. /\ io'[c] = [fd |-> call.fd, active |-> TRUE]
        /\ \A w \in Watchers \ {c} : io'[w] = io[w]
        /\ call.in = "on_connect" /\ c \notin ActiveConns
        /\ sock' = sock /\ ports' = ports /\ pending' = pending
        /\ call'.in = "none"
    BY <1>0, <1>7
    DEF ConnectCallbackKeeps, EvIoInit, EvIoStart, Watching, Watchers,
        ActiveConns, NoCall
  <2>2. \A d \in pending' \cap Conns : d \in ActiveConns /\ io'[d] = io[d]
    BY <1>000, <2>1 DEF ActiveConns, Watchers
  <2>3. \A d \in ActiveConns : Unread(sock[io[d].fd], sock'[io[d].fd])
    BY <1>0, <1>00, <2>1 DEF Unread
  <2>4. \A q \in ports' : sock'[io'[q].fd].kind = "listen"
    BY <1>0, <1>000, <2>1 DEF Watchers
  <2>5. \A d \in ActiveConns' : \/ d = c
                                \/ d \in ActiveConns /\ io'[d] = io[d]
    BY <2>1 DEF ActiveConns, Watchers
  <2>6. sock[call.fd].kind = "stream"
    BY <2>1 DEF Handed
  <2> QED
    BY <1>000, <2>1, <2>2, <2>3, <2>4, <2>5, <2>6, AwakeFrame DEF ActiveConns
<1>8. CASE ConnectCallbackDrops
  <2>1. /\ \A f \in Fds : sock'[f] = IF f = call.fd THEN Free ELSE sock[f]
        /\ io' = io /\ ports' = ports /\ pending' = pending
        /\ call'.in = "none" /\ call.in = "on_connect"
    BY <1>8 DEF ConnectCallbackDrops, CloseFds, NoCall
  <2>2. \A p \in ports : io[p].fd # call.fd
    BY <2>1 DEF Inv, FdAccounting, Holders
  <2>3. \A c \in ActiveConns : sock'[io[c].fd] = sock[io[c].fd]
    BY <1>00, <2>1
  <2>4. \A p \in ports' : sock'[io'[p].fd].kind = "listen"
    BY <1>000, <2>1, <2>2
  <2>5. \A f \in Fds : sock'[f].kind = "listen" => sock'[f].nonblock
    BY <1>000, <2>1 DEF Free
  <2> QED
    BY <2>1, <2>3, <2>4, <2>5, AwakeSame
<1>9. ASSUME NEW c \in Conns, ReadCallback(c) PROVE Awake'
  <2>1. c \in ActiveConns /\ (sock[io[c].fd].queue > 0 \/ sock[io[c].fd].eof)
    BY <1>000, <1>9 DEF ReadCallback, Awake, Readable
  <2>2. IsOpen(io[c].fd)
    BY <2>1 DEF Inv, FdAccounting, Holders
  <2>3. /\ io' = io /\ ports' = ports /\ pending' = pending \ {c}
        /\ call' = call
        /\ \/ sock' = sock
           \/ sock' = [sock EXCEPT ![io[c].fd].queue = @ - 1]
    BY <1>0, <1>00, <1>9, <2>1, <2>2 DEF ReadCallback
  <2>4. /\ \A f \in Fds : /\ sock'[f].kind = sock[f].kind
                         /\ sock'[f].nonblock = sock[f].nonblock
        /\ \A f \in Fds : f # io[c].fd => sock'[f] = sock[f]
    BY <1>0, <2>3 DEF Sockets
  <2>5. \A d \in ActiveConns : d # c => io[d].fd # io[c].fd
    BY <2>1 DEF Inv, FdAccounting, Holders
  <2>6. \A d \in pending' \cap Conns :
          d \in ActiveConns /\ Unread(sock[io[d].fd], sock'[io[d].fd])
    BY <1>0, <1>00, <1>000, <2>3, <2>4, <2>5 DEF Unread
  <2> QED
    BY <1>00, <1>000, <2>3, <2>4, <2>6, AwakeFrame DEF ActiveConns
<1>10. CASE LoopPoll
  <2>1. \A c \in ActiveConns : c \notin Killed
    BY DEF Inv, FdAccounting, Holders, Killed, ActiveOn
  <2>2. /\ \A w \in Watchers : io'[w].fd = io[w].fd
        /\ \A c \in Conns : io'[c].active = io[c].active
        /\ sock' = sock /\ ports' = ports /\ call' = call
        /\ pending' = Killed \cup Ready
    BY <1>0, <1>10, <2>1 DEF LoopPoll, Poll, Watching, ActiveConns, Watchers
  <2>3. \A c \in Killed \cap Conns : c \in ActiveConns
    BY DEF Killed, ActiveOn, ActiveConns
  <2>4. \A c \in Ready : io[c].active /\ c \in Watchers
            /\ IsOpen(io[c].fd)
            /\ (sock[io[c].fd].queue > 0 \/ sock[io[c].fd].eof)
    BY DEF Ready, ActiveOn, Readable
  <2>5. \A c \in pending' \cap Conns :
          io'[c].active /\ IsOpen(io[c].fd)'
          /\ (sock'[io'[c].fd].queue > 0 \/ sock'[io'[c].fd].eof)
    BY <1>0, <2>1, <2>2, <2>3, <2>4 DEF IsOpen, Watchers
  <2>6. KindsMatch'
    BY <1>0, <2>2 DEF Awake, KindsMatch, ActiveConns, Watchers
  <2>7. \A c \in pending' \cap Conns : Readable(io[c].fd)' /\ io'[c].active
                                      /\ io'[c].fd = io[c].fd
    BY <1>0, <2>2, <2>5 DEF Readable, IsOpen, Watchers
  <2>8. \A c \in pending' \cap Conns : (io[c].active /\ Readable(io[c].fd))'
    BY <2>7 DEF Readable, IsOpen
  <2> QED
    BY <1>000, <2>2, <2>6, <2>8 DEF Awake, NeverBlocks
<1>11. CASE Peers
  <2>1. /\ io' = io /\ ports' = ports /\ call' = call /\ pending' = pending
        /\ \A f \in Fds : /\ sock'[f].kind = sock[f].kind
                        /\ sock'[f].nonblock = sock[f].nonblock
                        /\ (sock[f].kind = "stream" => Unread(sock[f], sock'[f]))
    BY <1>0, <1>11
    DEF Peers, PeerConnects, RemoteConnect, RemoteAbort, RemoteSend,
        RemoteClose, Sockets, Unread
  <2>2. \A c \in ActiveConns : Unread(sock[io[c].fd], sock'[io[c].fd])
    BY <1>00, <2>1
  <2> QED
    BY <1>00, <1>000, <2>1, <2>2, AwakeFrame DEF ActiveConns
<1>12. CASE Crash
  BY <1>12
 
  DEF Crash, Awake, KindsMatch, NeverBlocks, ActiveConns, NoCall, Free,
      Watchers
<1>13. CASE UNCHANGED vars
  BY <1>000, <1>13, AwakeSame DEF vars
<1> QED
  BY <1>1, <1>2, <1>3, <1>4, <1>5, <1>6, <1>7, <1>8, <1>9, <1>10, <1>11, <1>12,
     <1>13
  DEF Next, Client, Loop

LEMMA AwakeInvariant == Spec => []Awake
<1>1. Init => Handed /\ Awake
  BY DEF Init, ProcessInit, EventLoopInit, Handed, Awake, KindsMatch,
         NeverBlocks, ActiveConns, NoCall, Free, Watchers
<1>2. Inv /\ Handed /\ Inv' /\ [Next]_vars => Handed'
  BY HandedNext
<1>3. Inv /\ Handed /\ Awake /\ Inv' /\ [Next]_vars => Awake'
  BY AwakeNext
<1> QED
  BY <1>1, <1>2, <1>3, Invariance, PTL DEF Spec

(* accept() and read() never put the loop to sleep, whatever the program,  *)
(* the peers and the loop do.                                              *)
THEOREM NeverSleeps == Spec => []NeverBlocks
<1>1. Awake => NeverBlocks
  BY DEF Awake
<1> QED
  BY <1>1, AwakeInvariant, PTL

(* A holder's descriptor always is a socket of the kind its callback       *)
(* expects, however often its number was closed and reopened before.       *)
THEOREM KindsAlwaysMatch == Spec => []KindsMatch
<1>1. Awake => KindsMatch
  BY DEF Awake
<1> QED
  BY <1>1, AwakeInvariant, PTL
-----------------------------------------------------------------------------
(* Why no event is lost: the kernel forgets a registration only when the   *)
(* descriptor is closed, and then nobody who answers for it is left.       *)
LEMMA EventsNext ==
  ASSUME Inv, NoEventLost, Inv', [Next]_vars
  PROVE  NoEventLost'
<1>0. /\ io \in Watching /\ ports \subseteq Ports /\ Ports \cap Conns = {}
      /\ \A w \in Holders : w \in Watchers /\ IsOpen(io[w].fd)
  BY StructAssumption
 
  DEF Inv, TypeOK, EventLoopTypeOK, Watching, FdAccounting, Holders,
      ActiveConns,
      Watchers
<1>1. ASSUME \A w \in Holders' : w \in Holders /\ io'[w].fd = io[w].fd,
             \A w \in Holders' :
               io'[w].active => io[w].active \/ io[w].fd \in changes',
             \A w \in Holders' :
               io[w].fd \in epoll \cup changes => io[w].fd \in epoll' \cup changes'
      PROVE  NoEventLost'
  BY <1>1 DEF NoEventLost
<1>2. ASSUME Holders' \subseteq Holders, io' = io, changes' = changes,
             epoll' = epoll
      PROVE  NoEventLost'
  BY <1>1, <1>2
<1>3. CASE SancusTcpServerInit
  BY <1>2, <1>3 DEF SancusTcpServerInit, Holders, ActiveConns
<1>4. CASE SancusTcpServerStart
  <2>1. /\ \A w \in Watchers : io'[w].fd = io[w].fd
        /\ \A w \in Watchers :
             io'[w].active => io[w].active \/ io[w].fd \in changes'
        /\ \A c \in Conns : io'[c] = io[c]
        /\ ports' = ports /\ epoll' = epoll /\ changes \subseteq changes'
    BY <1>0, <1>4 DEF SancusTcpServerStart, EvIoStart, Watching, Watchers
  <2>2. Holders' = Holders
    BY <2>1 DEF Holders, ActiveConns
  <2> QED
    BY <1>0, <1>1, <2>1, <2>2
<1>5. CASE SancusTcpServerClose
  <2>1. /\ \A w \in Watchers : io'[w].fd = io[w].fd
        /\ \A w \in Watchers : io'[w].active => io[w].active
        /\ \A c \in Conns : io'[c] = io[c]
        /\ ports' = {} /\ changes \subseteq changes'
        /\ epoll' = epoll \ {io[p].fd : p \in ports}
    BY <1>0, <1>5
    DEF SancusTcpServerClose, EvIoStop, CloseFds, Watching, Watchers
  <2>2. \A w \in Holders' : w \in Holders /\ w \in ActiveConns
    BY <2>1 DEF Holders, ActiveConns
  <2>3. \A w \in Holders' : io[w].fd \notin {io[p].fd : p \in ports}
    BY <1>0, <2>2 DEF Inv, FdAccounting, Holders, ActiveConns
  <2> QED
    BY <1>0, <1>1, <2>1, <2>2, <2>3
<1>6. ASSUME NEW p \in Ports, SancusTcpPortClose(p) PROVE NoEventLost'
  <2>1. /\ io' = io /\ changes' = changes /\ ports' = ports \ {p} /\ p \in ports
        /\ epoll' = epoll \ {io[p].fd}
    BY <1>6 DEF SancusTcpPortClose, CloseFds
  <2>2. \A w \in Holders' : w \in Holders /\ w # p
    BY <1>0, <2>1 DEF Holders, ActiveConns
  <2>3. \A w \in Holders' : io[w].fd # io[p].fd
    BY <2>1, <2>2 DEF Inv, FdAccounting, Holders
  <2> QED
    BY <1>1, <2>1, <2>2, <2>3
<1>7. ASSUME NEW p \in Ports, NEW a \in Addrs, SancusTcpPort(p, a)
      PROVE  NoEventLost'
  <2>1. ASSUME NEW fs, PortFails(fs) PROVE NoEventLost'
    BY <1>2, <2>1 DEF PortFails, Holders, ActiveConns
  <2>2. ASSUME NEW f \in Fds, SancusTcpPortPrepare(p, f), epoll' = epoll
        PROVE  NoEventLost'
    <3>1. /\ io'[p].fd = f /\ (io'[p].active => f \in changes')
          /\ \A w \in Watchers \ {p} : io'[w] = io[w]
          /\ ports' = ports \cup {p} /\ changes \subseteq changes'
      BY <1>0, <2>2
      DEF SancusTcpPortPrepare, EvIoInit, EvIoStart, Watching, Watchers
    <3>2. \A w \in Holders' :
            w = p \/ (w \in Holders /\ w \in Watchers \ {p})
      BY <1>0, <3>1 DEF Holders, ActiveConns, Watchers
    <3> QED
      BY <2>2, <3>1, <3>2 DEF NoEventLost
  <2> QED
    BY <1>7, <2>1, <2>2 DEF SancusTcpPort, InitTcp
<1>8. ASSUME NEW p \in Ports, ConnectCallback(p) PROVE NoEventLost'
  BY <1>2, <1>8
  DEF ConnectCallback, AcceptReturns, AcceptWaits, AcceptFails, Holders,
      ActiveConns
<1>9. ASSUME NEW c \in Conns, ConnectCallbackKeeps(c) PROVE NoEventLost'
  <2>1. /\ io'[c].fd = call.fd /\ call.fd \in changes'
        /\ \A w \in Watchers \ {c} : io'[w] = io[w]
        /\ ports' = ports /\ changes \subseteq changes' /\ epoll' = epoll
    BY <1>0, <1>9
    DEF ConnectCallbackKeeps, EvIoInit, EvIoStart, Watching, Watchers
  <2>2. \A w \in Holders' :
          w = c \/ (w \in Holders /\ w \in Watchers \ {c})
    BY <1>0, <2>1 DEF Holders, ActiveConns, Watchers
  <2> QED
    BY <2>1, <2>2 DEF NoEventLost
<1>10. CASE ConnectCallbackDrops
  <2>1. /\ io' = io /\ changes' = changes /\ ports' = ports
        /\ epoll' = epoll \ {call.fd} /\ call.in = "on_connect"
    BY <1>10 DEF ConnectCallbackDrops, CloseFds
  <2>2. Holders' = Holders
    BY <2>1 DEF Holders, ActiveConns
  <2>3. \A w \in Holders : io[w].fd # call.fd
    BY <2>1 DEF Inv, FdAccounting
  <2> QED
    BY <1>1, <2>1, <2>2, <2>3
<1>11. ASSUME NEW c \in Conns, ReadCallback(c) PROVE NoEventLost'
  BY <1>2, <1>11 DEF ReadCallback, Holders, ActiveConns
<1>12. CASE LoopPoll
  <2>1. /\ \A w \in Watchers : io'[w].fd = io[w].fd
        /\ \A w \in Watchers : io'[w].active => io[w].active
        /\ ports' = ports /\ epoll' = Registered
    BY <1>0, <1>12 DEF LoopPoll, Poll, Watching
  <2>2. \A w \in Holders' : w \in Holders
    BY <2>1 DEF Holders, ActiveConns, Watchers
  <2>3. \A w \in Holders : io[w].active => w \in ActiveOn(io[w].fd)
    BY <1>0 DEF ActiveOn
  <2> QED
    BY <1>0, <2>1, <2>2, <2>3 DEF NoEventLost, Registered
<1>13. CASE Peers
  BY <1>2, <1>13
  DEF Peers, PeerConnects, RemoteConnect, RemoteAbort, RemoteSend, RemoteClose,
      Holders, ActiveConns
<1>14. CASE Crash
  BY <1>14 DEF Crash, NoEventLost, Holders, ActiveConns, Watchers
<1>15. CASE UNCHANGED vars
  BY <1>2, <1>15 DEF vars, Holders, ActiveConns
<1> QED
  BY <1>3, <1>4, <1>5, <1>6, <1>7, <1>8, <1>9, <1>10, <1>11, <1>12, <1>13, <1>14,
     <1>15
  DEF Next, Client, Loop

(* What was started and is answered for is registered, or will be, also    *)
(* after its number was closed and reopened between two iterations.        *)
THEOREM EventsKept == Spec => []NoEventLost
<1>1. Init => NoEventLost
  BY DEF Init, ProcessInit, EventLoopInit, NoEventLost, Holders, ActiveConns,
         Watchers
<1>2. Inv /\ NoEventLost /\ Inv' /\ [Next]_vars => NoEventLost'
  BY EventsNext
<1> QED
  BY <1>1, <1>2, Invariance, PTL DEF Spec

(* What makes a local port unreachable: a call for its path, and nothing   *)
(* else. What names a listed port is its number, which is open as long as  *)
(* the port is listed, so that nobody else can get it.                     *)
LEMMA ReachedNext ==
  ASSUME Inv, [Next]_vars
  PROVE  /\ \A p \in ports' \ ports : Reached(p)'
         /\ \A p \in ports \cap ports' : Reached(p) /\ ~Reached(p)' =>
              \E q \in Ports : SancusTcpPort(q, sock[io[p].fd].addr)
<1> DEFINE Goal ==
      /\ \A p \in ports' \ ports : Reached(p)'
      /\ \A p \in ports \cap ports' : Reached(p) /\ ~Reached(p)' =>
           \E q \in Ports : SancusTcpPort(q, sock[io[p].fd].addr)
<1> SUFFICES Goal
  OBVIOUS
<1>0. /\ io \in Watching /\ sock \in [Fds -> Sockets]
      /\ ports \subseteq Ports /\ Ports \cap Conns = {}
      /\ files \in [LocalPaths -> Fds \cup {NoFd}]
      /\ \A p \in ports : IsOpen(io[p].fd)
      /\ \A v, w \in ports : io[v].fd = io[w].fd => v = w
      /\ call.in = "on_connect" => \A p \in ports : io[p].fd # call.fd
  BY StructAssumption
  DEF Inv, TypeOK, EventLoopTypeOK, Watching, FdAccounting, Holders
<1>1. ASSUME ports' \subseteq ports, files' = files,
             \A p \in ports' : io'[p].fd = io[p].fd,
             \A p \in ports' : sock'[io[p].fd].addr = sock[io[p].fd].addr
      PROVE  Goal
  BY <1>1 DEF Reached
<1>2. CASE SancusTcpServerInit
  BY <1>1, <1>2 DEF SancusTcpServerInit
<1>3. CASE SancusTcpServerStart
  <2>1. \A w \in Watchers : io'[w].fd = io[w].fd
    BY <1>0, <1>3 DEF SancusTcpServerStart, EvIoStart, Watching
  <2> QED
    BY <1>0, <1>1, <1>3, <2>1 DEF SancusTcpServerStart, Watchers
<1>4. CASE SancusTcpServerClose
  <2>1. files' = files /\ ports' = {}
    BY <1>4 DEF SancusTcpServerClose
  <2> QED
    BY <1>1, <2>1
<1>5. ASSUME NEW p \in Ports, SancusTcpPortClose(p) PROVE Goal
  <2>1. \A q \in ports' : q \in ports /\ io[q].fd # io[p].fd
    BY <1>0, <1>5 DEF SancusTcpPortClose
  <2> QED
    BY <1>0, <1>1, <1>5, <2>1 DEF SancusTcpPortClose, CloseFds, IsOpen
<1>6. ASSUME NEW p \in Ports, NEW a \in Addrs, SancusTcpPort(p, a) PROVE Goal
  <2> DEFINE Elsewhere(fs) ==
        DOMAIN fs = LocalPaths /\ \A b \in LocalPaths \ {a} : fs[b] = files[b]
  <2>1. ASSUME ports' \ ports \subseteq {p}, Elsewhere(files'),
               p \in ports' => Reached(p)',
               \A q \in ports : io'[q].fd = io[q].fd,
               \A q \in ports : sock'[io[q].fd].addr = sock[io[q].fd].addr
        PROVE  Goal
    <3>1. ASSUME NEW q \in ports, Reached(q), ~Reached(q)'
          PROVE  SancusTcpPort(p, sock[io[q].fd].addr)
      <4>1. sock[io[q].fd].addr = a
        BY <2>1, <3>1 DEF Reached
      <4> QED
        BY <1>6, <4>1
    <3> QED
      BY <2>1, <3>1
  <2>2. p \notin ports
    BY <1>6 DEF SancusTcpPort
  <2>3. Elsewhere(files) /\ \A fs \in Unlinked(a) : Elsewhere(fs)
    BY <1>0 DEF Unlinked
  <2>4. ASSUME NEW fs, Elsewhere(fs), NEW f \in Fds PROVE Elsewhere(Bind(a, f, fs))
    BY <2>4 DEF Bind
  <2>5. ASSUME NEW fs, Elsewhere(fs), PortFails(fs) PROVE Goal
    BY <2>1, <2>2, <2>5 DEF PortFails
  <2>6. ASSUME NEW fs, Elsewhere(fs), NEW f \in Fds, LowestFree(f),
               sock' = [sock EXCEPT ![f] = ListeningSocket(a)],
               files' = Bind(a, f, fs), SancusTcpPortPrepare(p, f)
        PROVE  Goal
    <3>1. /\ io'[p].fd = f
          /\ \A w \in Watchers \ {p} : io'[w] = io[w]
          /\ ports' = ports \cup {p}
      BY <1>0, <2>6
      DEF SancusTcpPortPrepare, EvIoInit, EvIoStart, Watching, Watchers
    <3>2. \A q \in ports : io[q].fd \in Fds \ {f}
      BY <1>0, <2>6 DEF LowestFree, FreeFds, IsOpen
    <3>3. sock'[f].addr = a
      BY <1>0, <2>6 DEF ListeningSocket
    <3>4. Reached(p)'
      BY <2>6, <3>1, <3>3 DEF Reached, Bind
    <3>5. \A q \in ports : sock'[io[q].fd] = sock[io[q].fd]
      BY <1>0, <2>6, <3>2
    <3>6. \A q \in ports : q \in Watchers \ {p}
      BY <1>0, <2>2 DEF Watchers
    <3> QED
      BY <2>1, <2>4, <2>6, <3>1, <3>4, <3>5, <3>6
  <2> QED
    BY <1>6, <2>3, <2>4, <2>5, <2>6 DEF SancusTcpPort, InitTcp
<1>7. ASSUME NEW p \in Ports, ConnectCallback(p) PROVE Goal
  <2>1. /\ ports' = ports /\ files' = files /\ io' = io
        /\ \/ sock' = sock
           \/ \E f \in Fds :
                /\ LowestFree(f)
                /\ sock' = [sock EXCEPT ![io[p].fd].queue = @ - 1,
                                       ![f] = AcceptedSocket]
    BY <1>7 DEF ConnectCallback, AcceptReturns, AcceptWaits, AcceptFails
  <2>2. \A q \in ports : sock'[io[q].fd].addr = sock[io[q].fd].addr
    BY <1>0, <2>1 DEF LowestFree, FreeFds, IsOpen, Sockets
  <2> QED
    BY <1>1, <2>1, <2>2
<1>8. ASSUME NEW c \in Conns, ConnectCallbackKeeps(c) PROVE Goal
  <2>1. \A w \in Watchers \ {c} : io'[w] = io[w]
    BY <1>0, <1>8
    DEF ConnectCallbackKeeps, EvIoInit, EvIoStart, Watching, Watchers
  <2> QED
    BY <1>0, <1>1, <1>8, <2>1 DEF ConnectCallbackKeeps, Watchers
<1>9. CASE ConnectCallbackDrops
  BY <1>0, <1>1, <1>9 DEF ConnectCallbackDrops, CloseFds, IsOpen
<1>10. ASSUME NEW c \in Conns, ReadCallback(c) PROVE Goal
  <2>1. /\ ports' = ports /\ files' = files /\ io' = io
        /\ \/ sock' = sock
           \/ sock' = [sock EXCEPT ![io[c].fd].queue = @ - 1]
    BY <1>10 DEF ReadCallback
  <2>2. \A q \in ports : sock'[io[q].fd].addr = sock[io[q].fd].addr
    BY <1>0, <2>1 DEF IsOpen, Sockets
  <2> QED
    BY <1>1, <2>1, <2>2
<1>11. CASE LoopPoll
  <2>1. \A w \in Watchers : io'[w].fd = io[w].fd
    BY <1>0, <1>11 DEF LoopPoll, Poll, Watching
  <2> QED
    BY <1>0, <1>1, <1>11, <2>1 DEF LoopPoll, Poll, Watchers
<1>12. CASE Peers
  <2>1. /\ ports' = ports /\ files' = files /\ io' = io
        /\ \A f \in Fds : sock'[f].addr = sock[f].addr
    BY <1>0, <1>12
    DEF Peers, PeerConnects, RemoteConnect, RemoteAbort, RemoteSend,
        RemoteClose, Sockets
  <2> QED
    BY <1>0, <1>1, <2>1 DEF IsOpen
<1>13. CASE Crash
  BY <1>13 DEF Crash
<1>14. CASE UNCHANGED vars
  BY <1>1, <1>14 DEF vars
<1> QED
  BY <1>2, <1>3, <1>4, <1>5, <1>6, <1>7, <1>8, <1>9, <1>10, <1>11, <1>12, <1>13,
     <1>14
  DEF Next, Client, Loop

(* A local port is reached through its path when it is opened, and until   *)
(* the program asks for that path again, however many ports, paths and     *)
(* numbers there are and whatever unlink(2) and bind(2) refuse.            *)
THEOREM LocalPortsStayReached == Spec => LocalPortsReached
<1>1. Inv /\ [Next]_vars =>
        [/\ \A p \in ports' \ ports : Reached(p)'
         /\ \A p \in ports \cap ports' : Reached(p) /\ ~Reached(p)' =>
              \E q \in Ports : SancusTcpPort(q, sock[io[p].fd].addr)]_vars
  BY ReachedNext
<1> QED
  BY <1>1, Invariance, PTL DEF Spec, LocalPortsReached
=============================================================================
