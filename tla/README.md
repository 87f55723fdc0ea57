# Verification of sancus-core

sancus-core is a small C library on top of libev: TCP servers, signal
handling, and helpers for descriptors, sockets and logging. It is single
threaded. What makes it hard is not threads but re-entrancy and staleness:
callbacks of the program call back into the library in the middle of its own
loops; watchers refer to descriptors by number, and numbers are reused; libev
collects events first and delivers them later.

Paths below are relative to the repository (`src/server.c`,
`include/sancus_list.h`).

## The system

| part | state | operations | talks to |
|---|---|---|---|
| TCP server (`server.c`) | `loop`, lists `ports` and `connections` | `sancus_tcp_server_init`, `_start`, `_close`, `sancus_tcp_ipv4_port`, `_ipv6_port`, `_local_port` | opens ports, starts and stops their watchers |
| listening port (`server_port.c`, `.h`) | its `ev_io` (descriptor, active), its node in `ports` | prepare, start, stop (private), `sancus_tcp_port_close`, `connect_callback` | called by the loop; accepts; calls `on_connect` of the program |
| connection (`server_connection.c`) | its `ev_io`, its node in `connections` | prepare, start, `read_callback` | called by the loop; reads and drops |
| signals (`signal.c`) | watchers with an `ev_signal` and a list of handlers; handlers | `sancus_signal_watcher_add2`, `_close`, `sancus_signal_handler_add`, `_add2`, `signal_callback` | called by the loop; calls handlers of the program |
| state (`state.c`) | `loop`, list of watchers | `sancus_state_init`, `_close`, `_run` | walks the watchers, runs the loop |
| default state (`sancus.c`) | one state, watchers for SIGINT and SIGTERM | `sancus_init`, `sancus_run`, `_stop` | state, signals |
| list (`sancus_list.h`) | nodes with `prev` and `next` | init, insert, append, del, foreach, foreach2 | used by all of the above |
| descriptor I/O (`sancus_fd.h`) | none | open, close, write, writev | kernel |
| sockets (`socket.c`) | none | `sancus_socket`, `sancus_socket_ntop` | kernel |
| logging (`log.c`) | none | `sancus_log_*`, through `_write` | `sancus_writev` |
| sanitising (`security.c`) | descriptor table | `sancus_sanitize_files` | kernel |

What makes each correct:

- server, port, connection: every open descriptor has exactly one struct that
  answers for it; the loop calls a port only while it is served; no event is
  lost when numbers are reused; the loop never sleeps in a system call; a
  waiting connection is accepted; a local port is reached through the file of
  its path, whatever was left there.
- signals, state: the list of watchers is what libev has active; one active
  watcher per signal; walks survive callbacks that change the list; each
  handler is called once per signal; closing closes everything, and ends.
- descriptor I/O, logging: all bytes go out once and in order, or an error is
  reported; loops end.
- sockets: flags are what was asked for; no leak on an error path; a failure has
  a cause; text fits its buffer.
- sanitising: afterwards 0, 1 and 2 are open and nothing else below the limit.

## Modules

| module | models | kind |
|---|---|---|
| `EventLoop` | descriptor table, epoll registrations and the `ev_io` half of libev, as the server uses them (external) | component, instantiated by `TcpServer` |
| `TcpServer` | `server.c`, `server_port.c/.h`, `server_connection.c`, with `sancus_socket()` as they call it | component |
| `FdOwnership` | what the server promises about descriptors | abstract specification |
| `TcpServerProofs` | theorems about `TcpServer` | proofs |
| `SancusList` | `sancus_list.h`, pointer by pointer | operators |
| `SancusListProofs` | rings: what the operators of `SancusList` do to them, and walks through them | proofs |
| `SignalState` | `signal.c`, `state.c`, `sancus.c`, and the `ev_signal` half of libev | component |
| `SignalStateProofs` | theorems about `SignalState` | proofs |
| `FdIO` | `sancus_write()` and `sancus_writev()` of `sancus_fd.h` | component |
| `Transmission` | what the two, and the logging calls, promise about the bytes of a message | abstract specification |
| `FdIOProofs` | theorems about `FdIO` and its lists of vectors | proofs |
| `SancusLog` | `log.c` and the macros of `sancus_log.h`, over an instance of `FdIO` | component, composed with `FdIO` |
| `SancusLogProofs` | theorems about `SancusLog`, from those about the loops of `FdIO` | proofs |
| `SancusFiles` | `sancus_socket()`, `sancus_open()`, `sancus_close()` and `sancus_sanitize_files()`, system call by system call | component |
| `SancusFilesProofs` | theorems about `SancusFiles` | proofs |
| `SancusAddress` | `init_ipv4()`, `init_ipv6()`, `init_local()` of `server.c`, `sancus_socket_ntop()` of `socket.c` | component |
| `SancusAddressProofs` | theorems about `SancusAddress` | proofs |
| `NatSets` | induction over the natural numbers | lemmas |
| `MCTcpServer`, `MCSignalState`, `MCFdIO`, `MCSancusLog`, `MCSancusFiles`, `MCSancusAddress` | instances for TLC | model checking |

### EventLoop and TcpServer

`sock` is the kernel's descriptor table, `epoll` its readiness registrations;
`io`, `changes` (libev's `fdchanges`) and `pending` are libev's. Three facts
about them carry the model: new descriptors get the lowest free number; close
removes a registration without libev's knowledge, which notices only when it
next registers that number (`fd_kill`: the watcher is stopped and called); and
`Poll` fills `pending` at once, while callbacks run one at a time afterwards.

`started` is `server->loop != NULL`; `ports` and `connections` are the lists,
as sets, since nothing in the server depends on their order. Each public call
is one action. `connect_callback` is two: up to the call of `on_connect`
(`ConnectCallback`), and what is done with the answer (`ConnectCallbackKeeps`,
`ConnectCallbackDrops`); in between, every call of the program may happen.
`SancusTcpPort` is the three `*_port()` calls: an address that does not parse
fails; a local path is unlinked, or `unlink(2)` is refused, which the code does
not look at (`Unlinked`); and then `InitTcp` runs with every way it may fail, a
`bind(2)` that meets the file among them. `init_tcp()` is one step although
it calls `port_sockopts` of the program between `socket(2)` and `bind(2)`: that
callback is taken to make no call into the library, and to leave its descriptor
open and non-blocking. `accept(2)` (`AcceptReturns`, `AcceptFails`) may fail
although a connection waits, for want of a number or with an error that passes.
`Crash` restarts the process and keeps the files.

The header does not say in which order calls may be made. The model lets the
program make every call whose assertions hold, with structs that are not in
use, and names two habits that turned out to matter as constants:
`ClosesRunningPorts` (the program calls `sancus_tcp_port_close()` on a port of
a started server) and `ReinitsWithConnections` (it initialises a server again
while a connection is alive).

### SancusList and SignalState

A heap is a pair of functions, `prev` and `next`; the operators are the
assignments of the macros in their order, so that the pointers a deleted node
keeps are there: `sancus_state_close()` reads the successor from a node it has
just unlinked. `wl` is the heap of watcher nodes, `hl` that of handler nodes.
`signal_callback()` is `SignalCallback`, `HandlerReturns` and `OwnReturns`,
with a frame `cb` that holds the cursor and the successor
`sancus_list_foreach2` read beforehand; between them the program may unhook,
hook, close, add, and close the state. `sancus_state_close()` goes one watcher
at a time (`CloseStep`). The ghost `hooked` is what the program thinks it did;
`calls` and `kept` record one dispatch for `EachHandlerOnce`.

The library has no call to unhook a handler; `HandlerDel` is the
`sancus_list_del()` a program would use. It is not allowed on the handler
that `signal_callback()` goes to next: `sancus_list_foreach2` does not survive
that, and `CursorInRing`, `EachHandlerOnce` and `CallbackReturns` hold under this
guard only. A running watcher is not initialised again by its own handlers.

### FdIO and Transmission

`op` and `at` say where in which function control is: before the loop test,
before the system call, in the inner loop over the vectors. `iov` holds the
vectors that are left (their number is `iovcnt`), `wc` and `wt` are the locals.
The kernel's part is `Take`: any non-empty first part of what it is offered;
`Interrupted` and `Refused` may come instead, any number of times. `msg` and
`out` are histories: what the call was given and what the kernel took.
`Transmission` is the promise: the bytes go out in order, each once, and a call
succeeds only when all have. Since `out` only ever grows by what follows in
`msg`, a refused call too has sent a first part and nothing else.

`EmptyTail` says whether a caller passes a list of vectors that ends in an empty
one. The only caller, `_write()` of `log.c`, ends its list with a newline. With
an empty last vector `sancus_writev()` calls `writev(2)` for ever: the count 0
consumes nothing, and `iovcnt` stays at one.

### SancusLog

`Log(r)` is a logging macro down to the call of `sancus_writev()`, whose every
step is `FdIO`'s: a record `r` has the arguments of `_write()` after formatting,
cut to the two buffers (`Args`, `Cut`). `Vectors` fills `v[]` as `_write()` does.
`FdIO` deals in places of vectors; `Char` says which character a place holds,
and so `Written` is what a reader of descriptor 2 sees. `Line` is what that
should be, defined from the parts and not from the vectors, and `LineSpec` says
that the calls implement `Transmission` of it. The four characters that are
trimmed are one here, and the two literals and the level are definitions of their
own (`LevelText`, `Separator`, `Newline`), so that a proof need not look at their
letters. Names and texts are strings or missing, names no longer than texts
(`StringsAssumption`, a bound and no restriction, since `MaxText` is any number).
`err()` expands to the level of an information
(`sancus_log.h:64`), and does so here.

### SancusFiles

`fdt` has the flags of each open descriptor, `limit` is what `getdtablesize()`
returns; a process starts with any set of inherited descriptors. `call` is the
frame of the function that is running and the system call it is about to make,
each of which may fail. `held` and `last` are histories: who answers for a
number and what was asked of it; and of the call that has just returned, whether
it failed to get a descriptor, whether the kernel had refused it anything, and
whether it was a socket asked for with neither flag. That last call is one
`sancus_socket()` makes fail every time (`socket.c:78`): `FailsForACause` says
that it is the only one which fails for no cause.

`system` is what the library was built for and runs on, chosen at the start and
never changed: `birth` says that `SOCK_CLOEXEC`, `SOCK_NONBLOCK` and `O_CLOEXEC`
are defined; `keeps` says that a `close(2)` that is interrupted may leave the
number open, as POSIX allows. Without `birth`, the fallback adds `FD_CLOEXEC`
to the file status flags; that bit belongs to the access mode there and
`F_SETFL` ignores it, so the model keeps only what becomes of `O_NONBLOCK`.
Where a system keeps numbers, `NothingLeaks` and `Sanitized` say nothing of
leaks: the `close(2)` of `socket.c:79` and of the sweep are not tried again.

### SancusAddress

`init_*()` turn what the program asks for into a sockaddr, `sa`, or fail;
`sancus_socket_ntop()` writes one into a buffer of `size` bytes. `mem` is the
memory from the buffer's start on, some of it beyond its end, so that what is
written there is seen. Names are those the functions tell apart: NULL, the
empty string, the wildcards, an address, nonsense; a path is its length.
`SizeMod` is where a `size_t` wraps around: of a buffer of size 0, `size-1` bytes
are left for an IPv6 text (`socket.c:106`), more than any needs, and the text is
written to memory that was not given. The call returns -1 all the same.
`WritesInside` names this as its one exception. Names and texts are spelt out
because the lengths are what the properties are about.

## Runs

| run | cfg | question | result |
|---|---|---|---|
| `server_safety` | `MCTcpServer` | all safety properties and the refinement of `FdOwnership`, without the two habits | pass |
| `server_live` | `MCTcpServerLive` | is a waiting connection accepted | pass |
| `server_reinit` | `MCTcpServerReinit` | the assertion of `read_callback` with `ReinitsWithConnections` | violated |
| `server_port_close` | `MCTcpServerPortClose` | the assertion of `connect_callback` with `ClosesRunningPorts` | violated |
| `signal_state` | `MCSignalState` | both lists, the walk and `sancus_state_close()`: three watchers, two signals, two handlers | pass |
| `signal_live` | `MCSignalLive` | walks end, signals are delivered, the run returns | pass |
| `signal_stop` | `MCSignalStop` | does `_stop()` stop the run | violated |
| `fd_io` | `MCFdIO` | is everything sent once and in order, and do the calls return | pass |
| `files` | `MCSancusFiles` | flags, leaks, closing, sanitising, on all four systems | pass |
| `files_cloexec` | `MCSancusFilesCloexec` | close-on-exec as asked on every system | violated |
| `log` | `MCSancusLog` | does every macro send exactly its line, and return | pass |
| `address` | `MCSancusAddress` | is nothing written outside (but for size 0), and is the text what was asked for | pass |

The two habits together are not a run: what holds with them (`FdAccounting`,
`NoEventLost`, `OwnershipSpec`, `NeverBlocks`) is proved, see below.

### Bounds

Server: two ports make one port's callback able to invalidate what was
collected for the other, and compete for an address or a number; two
connections do the same for accepted descriptors; three descriptors for four
structs make numbers scarce and reused at once (and EMFILE reachable); a queue
of one is enough to tell "something waits" from "nothing waits". One internet
address is enough for conflicts; two paths tell what a call does to its own file
from what it does to another's. `server_live` has four descriptors, so that the
other port and a connection can be served while one waits, and numbers are left.

Signals: three watchers put one that is not a default one in competition for a
signal, with the default watcher open or closed (nothing adds it again: see the
second `sancus_init()` among the hazards); two handlers already stand before, at
and after the cursor of each other, and a handler that moves behind the cursor
is called twice by a walk that reads its successor late. `calls` is capped at 2,
which is enough to tell once from more.

Descriptor I/O: up to three vectors of nought to three bytes: a short write can
stop before, in and between vectors, with an empty one in front, between and
several in a row, and a first, middle and last vector are distinct.

Logging: texts of up to two characters are empty, blank, trimmed or not; a text
buffer of 2 and a trace buffer of 4 cut one of them each; with a name that is
missing, blank and untrimmed every combination of parts occurs, the full six
vectors among them.

Files: four numbers are the three standard ones and one to be swept, or to
collide with; the limit is below the standard ones in one case and above all
numbers in the other; every set of inherited descriptors is tried, and every
choice of the flags.

Addresses: sizes from 0 to one more than the longest text needs, so that every
text fits exactly, lacks one place, or has its port cut off; ports of one to
five digits, the largest and two beyond; paths up to two longer than fit.

### Fairness

`TcpServer`: `WF(Loop)`: `ev_run()` goes on and `on_connect` returns; nothing
is assumed of the program or the peers. Weak fairness of the loop as a whole
suffices because everything collected is called before the next `Poll`. And
`SF(ConnectCallbackAccepts(p))`: `accept(2)` does not fail at every single
attempt at which it could succeed. It has to be strong because each failure ends
the callback, which stays over until the next `Poll`; the loop itself comes back
as often as one likes, since the listening socket stays readable.

`SignalState`: weak fairness for `CloseStep`, the next round of a for
statement; strong fairness for the return of callbacks and for the loop, since
a call under way (`sancus_state_close()` called over and over by a callback or
between two of them) disables these for its duration: a callback makes
finitely many calls. `CallbackReturns`, `Delivered` and `RunEnds` suppose that
handlers settle, because a handler that hooks itself again each time it is
called does keep `signal_callback()` going for ever.

`FdIO`: `WF(Runs)`: the process runs, and it is not interrupted at every single
attempt, so that the kernel takes something in the end. A refusal ends the call
and needs no fairness. `SancusLog` and `SancusFiles` have the same, for the same
reason: `EINTR` at every attempt for ever would keep `sancus_writev()`,
`sancus_open()` and, where the number is kept, `sancus_close()` from returning.

### What the violated runs show

- A server that is closed cannot be started again without
  `sancus_tcp_server_init()`, and that, while a connection lives, makes
  `read_callback` meet its assertion (`server_connection.c:61`): closing the
  server leaves the connections running and nothing in the library closes them.
- `sancus_tcp_port_close()` is public, but does not stop the watcher;
  the stop is private. The callback runs later for a port that was closed, and
  meets its assertion (`server_port.c:56`) once the server was initialised
  again. As long as single ports are not closed in a running server,
  `ActiveIffServed` and the rest hold.
- SIGTERM and SIGINT reach `_stop()`, whose answer nobody looks at. The run
  goes on.
- Where `SOCK_CLOEXEC` or `O_CLOEXEC` is missing, a descriptor asked to be
  close-on-exec is not, and the call succeeds: `FD_CLOEXEC` is handed to
  `F_SETFL`, not `F_SETFD` (`socket.c:69`, `sancus_fd.h:51`). `FlagsAsAsked` is
  what holds: `O_NONBLOCK` everywhere, close-on-exec where they exist.

## Proofs

Every safety property that a run of a component checks, and that the code has,
is a theorem, for every value of the constants. What a theorem supposes are the
assumptions named in its component's module, which TLC evaluates in the runs,
and in four cases a habit of the program:

| theorem | states | supposes of the program |
|---|---|---|
| **TcpServerProofs** | | |
| `TypeCorrect` | `[]TypeOK` | nothing |
| `DescriptorsAccounted` | `[]FdAccounting` | nothing |
| `ImplementsOwnership` | `OwnershipSpec` | nothing |
| `EventsKept` | `[]NoEventLost` | nothing |
| `NeverSleeps` | `[]NeverBlocks` | nothing |
| `KindsAlwaysMatch` | `[]KindsMatch` | nothing |
| `LocalPortsStayReached` | `LocalPortsReached` | nothing |
| `PortsActiveWhileServed` | `[]ActiveIffServed` | `~ClosesRunningPorts` |
| `PortsAssertHolds` | `[]ConnectCallbackAssert` | `~ClosesRunningPorts` |
| `NoStaleAccept` | `OnlyServedPortsAccept` | `~ClosesRunningPorts` |
| `ConnectionsAssertHolds` | `[]ReadCallbackAssert` | neither habit |
| **SancusListProofs** | | |
| `RingAppend`, `RingDel` | append and del keep a ring and its order | |
| `WalkEnds`, `WalkVisits` | a walk through a ring ends, and visits its nodes | |
| **SignalStateProofs** | | |
| `SignalInvariant` | `[]IInv` | nothing |
| `SignalTypeCorrect` | `[]TypeOK` | nothing |
| `WatchersListed` | `[]ListedAreActive` | nothing |
| `HandlersHooked` | `[]HandlersAreHooked` | nothing |
| `FirstWatcherOnly` | `[]OneWatcherPerSignal` | nothing |
| `CursorStays` | `[]CursorInRing` | no handler unhooks the next one (guard of `HandlerDel`) |
| `HandlersCalledOnce` | `EachHandlerOnce` | the same |
| `CloseClosesAll` | `StateCloseClosesAll` | nothing |
| **SancusFilesProofs** | | |
| `FilesInvariant` | `[]IInv` | nothing |
| `FilesTypeCorrect` | `[]TypeOK` | nothing |
| `NoNumberLeaks` | `[]NothingLeaks` (leaks: where `~system.keeps`) | nothing |
| `FlagsKept` | `[]FlagsAsAsked` | nothing |
| `FailuresHaveCause` | `[]FailsForACause` | nothing |
| `CloseDone` | `CloseReleases` | nothing |
| `SanitizeDone` | `Sanitized` (below the limit, where `~system.keeps`) | nothing |
| **FdIOProofs** | | |
| `SendingInvariant` | `[]IInv` | nothing |
| `FdIOTypeCorrect` | `[]TypeOK` | nothing |
| `NothingLostOrTwice` | `[]RestIsUnsent` | nothing |
| `ImplementsTransmission` | `TransmissionSpec` | nothing |
| **SancusLogProofs** | | |
| `LogInvariant` | `[]IInv` | nothing |
| `LogTypeCorrect` | `[]TypeOK` | nothing |
| `LinesSent` | `LineSpec` | nothing |
| **SancusAddressProofs** | | |
| `AddressInvariant` | `[]IInv` | nothing |
| `AddressTypeCorrect` | `[]TypeOK` | nothing |
| `NoWriteOutside` | `[]WritesInside` (but for IPv6 and size 0) | nothing |
| `TextComesOut` | `TextAsAsked` | nothing |

"Nothing" is nothing beyond what the component's module lets the program do.
Each inductive invariant was an invariant of a TLC run of its component before
it was proved.

### TcpServer

The assumptions: descriptors are naturals and -1 is none, queues are bounded by
a positive number, structs are disjoint and none is the running callback,
internet addresses and paths are disjoint.

*Types and accounts.* Neither `TypeOK` nor `FdAccounting` is inductive alone:
starting or stopping a listed port puts its descriptor on `changes`, which is
well typed only if listed ports have descriptors, a consequence of
`FdAccounting`; and `FdAccounting` needs the types. `Inv` is their conjunction,
and inductive. The step lemmas are about four values only (what is open, who
holds, which number, the running callback), collected in `Accounted`. Every
action has one of seven effects on them (`StepEffect`): nothing changes hands, a
set of ports releases, a port listens, a descriptor is accepted, handed over or
refused, the process restarts; `AccountingNext` keeps `FdAccounting` through
each. The step that is not obvious is the loop's: libev deactivates the watchers
of descriptors it finds closed, and no connection is among these, because what
it holds is open.

*Ownership.* The refinement mapping gives each descriptor to whoever holds its
number; that it is a function of the state is `FdAccounting`. `OwnersDef` turns
it into something first-order, and then each effect is one action of
`FdOwnership`, or a stutter (`OwnershipNext`).

*Assertions.* `Served` strengthens `ActiveIffServed` by what libev has
collected: every pending watcher is still active. `NothingKilled` is the heart:
what is active is served, what is served holds an open descriptor, so libev
never finds one closed. Closing a single port of a running server breaks it,
and `server_port_close` shows where that leads. `Looped` says that a connection,
or one being accepted, means a started server; `SancusTcpServerInit` is the one
step that could undo that, when the program initialises a server again under a
live connection.

*No sleep.* `Handed` (what `on_connect` holds is a stream) and `Awake` are
inductive on top of `Inv`: listening sockets are non-blocking, and a connection
whose callback is due can be read. Between the time it is collected and the time
it is called, only its peer touches that socket, and only adds to it. Accepted
sockets are blocking, so that this is what keeps `read_callback` from stopping
the loop.

*Events.* The kernel forgets a registration only on close, and by `FdAccounting`
a closed descriptor is no holder's; a number that is reused is on `changes`
again, because whoever gets it starts a watcher on it.

*Paths.* `files` changes in `SancusTcpPort` and nowhere else, and there only at
the path that was asked for, whatever was unlinked, bound or refused
(`ReachedNext`). That a listed port goes on naming the same path needs more: its
descriptor stays open and is nobody else's, so no close and no reuse of the
number puts another socket behind it (`FdAccounting`).

### SancusList and SignalState

*Rings.* TLC follows the pointers of a heap of a few nodes. For any number of
them, "the list is a ring of these nodes" has to be said without walking:
`Ring(l, h, M, r)` says that `next` and `prev` of the nodes `M` stay in `M` and
undo each other, and that a rank `r` rises along `next` to the next higher rank
there is, until the head `h`. The first half alone is true of two rings side by
side, too. A new node gets the rank of the last one plus one (`RingAppend`);
deleting one leaves the other ranks as they are (`RingDel`). That a walk comes
back to the head is a pigeonhole argument: ranks rise all the way, and there
are only so many nodes (`WalkEnds`). `HeapOf` keeps what a deleted node
remembers within the heap, since the pointers it keeps may be read again.

*Invariant.* `ListedAreActive` and `HandlersAreHooked` are about walks, and not
inductive as they stand: a walk says where it leads, not what an append at its
end does to the others. `IInv` says instead that there are ranks for which the
watchers' list is a ring of the state and the active watchers, and for which
each initialised watcher has a ring of what the program hooked to it. In the
middle of `sancus_state_close()` the cursor is the first of the ring
(`WatcherInv`): the node the walk has left is out of it, and its `next`, which
the code reads after unlinking it, was the first of what is left.

*Dispatch.* `Dispatched` ties the counts of one walk to the ranks: a handler
that has been hooked throughout has been called once if its rank is below that
of the successor, and not at all if it is not. Handlers that are added go to
the end, which is never below the successor; that no handler unhooks the
successor, which `sancus_list_foreach2` would not survive, is the guard of
`HandlerDel` and is needed here. `EachHandlerOnce` is this invariant where the
successor is the watcher itself.

### SancusFiles

The assumption on numbers is that they are naturals, the standard three among
them. `NothingLeaks` and `FlagsAsAsked` do not speak of the number the call at
hand is about; `IInv` says of each other number that it is open if somebody
answers for it, with the flags asked for, and, where close always releases, only
then (`Accounted`), and of that one what it is until the call returns: newborn,
with the flags of its birth, or on its way to be closed (`Newborn`,
`Unfinished`). `Sanitizing` is the loop invariant of `sancus_sanitize_files()`:
all below the descriptor it is at are open, all above the standard ones and
below the limit are not, where close always releases. For `FailsForACause`,
`Frames` says that a call that was refused something is where its errors go, and
that a socket asked for with neither flag is there too.

### FdIO

`Gather` is a fold over the list of vectors. Its lemmas say that the bytes of a
list are those of its first vector and then those of its tail, that advancing a
vector takes bytes off their front, and that no list has more bytes than
`MaxCount` (`GatherTail`, `GatherAdvance`, `MessageIs`). `RestIsUnsent` says
nothing while the inner loop is under way, which is where things could go
wrong. `Sending` does: what went out, and what the list holds without its first
`wc` bytes, make up the message. Each round of the inner loop takes as much off
`wc` as off the list. That `out` is the first `wt` bytes of the message, and the
refinement, follow: a system call is a `Send`, a loop test that ends the call is
`Succeed` because an empty list leaves nothing unsent, and the rest stutters.
`Sends(V)` and its lemmas are about vectors named by any set `V`: places of the
list here, the parts of a line in `SancusLog`.

### SancusLog

`SancusLogProofs` instantiates `FdIOProofs` (`Loops`) and cites its lemmas: only
the call is another. Three things are its own. `TrimIs`: the recursion of
`strlen_trimmed()` leaves the length up to the last character that is no blank,
for a string of any length, by induction on the length. `VectorsHold`: a reader
of what the vectors of a record hold sees its line; `Holds(v, r, t)` is that for
any list `v` and text `t`, true of one vector (`HoldsText`), of one that is only
pushed if there is something to say (`HoldsPushed`), and of two lists in a row
(`HoldsBoth`), which gives it for the six. And a first part of the bytes shows
the first characters (`ShownTake`), so that each step of `FdIO`'s refinement is
one of `LineSpec`'s. `IInv` says which record the message belongs to (`Asked`):
the line of `rec` once a macro was called, before that nothing.

### SancusAddress

The digits of a port, the text of an address and what `inet_ntop()`, the bracket
and the port leave in memory are put together place by place: `PutIs` and
`StrlenIs` say what a write leaves and where the text then ends, `AppendPortIs`
that the port is appended when text, port and NUL fit, to the last place, and
that memory behind is as it was. `DigitsLonger` bounds a port by five digits,
which is why the texts fit their memory. `WritesInside` is then inductive by
itself; for an IPv6 address and size 0 (`Wraps`) nothing is claimed of the
memory, and the call still returns -1, because the port then does not fit.
`TextAsAsked` needs `Kept`, that the sockaddr in hand is what was asked for,
with the port modulo 2^16.

### Induction, and what is only model-checked

The prover cannot instantiate induction rules over a predicate. It can use one
over a set of numbers, and `NatSets` has these, from the least-number principle
(`NatSetInduction`, `IntervalInduction`); the folds, walks and digits above are
proved with them.

Only model-checked: all liveness (`WaitingIsAccepted`, `StateCloseReturns`,
`CallbackReturns`, `Delivered`, `RunEnds`, `Returns`, `CallsReturn`,
`LogReturns`), which is out of reach of the prover.

## Not modelled, and the plan

Left out for good: the formatting of messages, which comes expanded; the macros
of `sancus_common.h`; build files. Within the modelled parts: `port_sockopts` is
taken to make no call into the library and to leave its descriptor open and
non-blocking; `getdtablesize()` does not fail, so that the fallback to
`OPEN_MAX` (`security.c:78`) is never taken; signal numbers out of range and
NULL arguments, which assertions reject; a nested `ev_run()`; a NULL path given
to `sancus_tcp_local_port()`, which binds an address of the kernel's choice;
messages of more than `INT_MAX` bytes, which `wt` and `wc` of `sancus_fd.h`
cannot count; a failure of `vsnprintf()`. Threads, of which the library starts
none: with several, `sancus_close()` that tries again after `EINTR` may close a
number that is somebody else's by then.

Behaviours that are in the models and that no property forbids, since nothing in
the repository says what should be, are listed with the hazards: what
`sancus_tcp_local_port()` unlinks before it fails, connections at end of file,
signals whose losing watcher never becomes active, a second `sancus_init()`,
handlers that hook themselves again for ever. Two more are exceptions that a
property states: the socket asked for with neither flag (`FailsForACause`) and
the buffer of size 0 (`WritesInside`).

What is left, in this order:

1. `SequenceList`: the list as a sequence, implemented by `SancusList`. The
   ghost `hooked` and `HandlersAreHooked` are that for the handlers.
2. `System`: server and signals on one loop: when does the run end.
