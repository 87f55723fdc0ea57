----------------------------- MODULE SignalState -----------------------------
(***************************************************************************)
(* Signals in sancus-core: the state with its list of signal watchers      *)
(* (state.c), watchers and the handlers hooked to them (signal.c), and the *)
(* default state with its watchers for SIGINT and SIGTERM (sancus.c).      *)
(*                                                                         *)
(* The lists are modelled pointer by pointer (SancusList), because what    *)
(* can go wrong here is a list that changes under somebody who walks it:   *)
(* signal_callback() calls code of the program between two steps of        *)
(* sancus_list_foreach2, and sancus_state_close() unlinks the very node    *)
(* its sancus_list_foreach stands on. There is one heap per list member:   *)
(* wl holds the `watchers' nodes and their head in the state, hl the       *)
(* `handlers' nodes of the handlers and their heads in the watchers.       *)
(*                                                                         *)
(* One state on one loop; a nested ev_run() is left out.                   *)
(***************************************************************************)
EXTENDS SancusList, FiniteSets

CONSTANTS
  Watchers,     (* the struct sancus_signal_watcher of the program         *)
  Handlers,     (* the struct sancus_signal_handler of the program         *)
  Signals,      (* signal numbers                                          *)
  SIGINT, SIGTERM,
  IntWatcher, TermWatcher,  (* default_signal_watchers[0] and [1]          *)
  State,        (* the head of the list of watchers, in the state          *)
  NULL, NoSignal

Defaults == {IntWatcher, TermWatcher}

ASSUME NodesAssumption ==
  /\ IsFiniteSet(Watchers) /\ IsFiniteSet(Handlers)
  /\ Watchers \cap Handlers = {}
  /\ State \notin Watchers
  /\ NULL \notin Watchers \cup Handlers \cup {State}
ASSUME DefaultsAssumption ==
  /\ Defaults \subseteq Watchers /\ IntWatcher # TermWatcher
  /\ {SIGINT, SIGTERM} \subseteq Signals /\ SIGINT # SIGTERM
  /\ NoSignal \notin Signals

WNodes == Watchers \cup {State}
HNodes == Watchers \cup Handlers

VARIABLES
  loop,     \* state->loop # NULL
  wl, hl,   \* the heaps of `watchers' and of `handlers' nodes
  sig,      \* each watcher's ev_signal (signum, ev_is_active) and has-own-h
  raised,   \* libev: signals caught and not yet dispatched
  pending,  \* libev: watchers collected and not yet called
  running,  \* sancus_state_run() is inside ev_run()
  cb,       \* the frame of signal_callback()
  closing,  \* the cursor of sancus_state_close(), NULL outside it
  hooked,   \* for the program to know: the watcher it hooked a handler to
  calls,    \* history: how often this signal_callback() called a handler
  kept      \* history: hooked when it began, and left alone since

lists == <<wl, hl>>
history == <<calls, kept>>
vars == <<loop, wl, hl, sig, raised, pending, running, cb, closing, hooked,
          calls, kept>>

Heap(N) == [prev : [N -> N \cup {NULL}], next : [N -> N \cup {NULL}]]
ZeroHeap(N) == [prev |-> [n \in N |-> NULL], next |-> [n \in N |-> NULL]]

NoCall == [at |-> "none", watcher |-> NULL, item |-> NULL, next |-> NULL]

TypeOK ==
  /\ loop \in BOOLEAN /\ running \in BOOLEAN
  /\ wl \in Heap(WNodes)
  /\ hl \in Heap(HNodes)
  /\ sig \in [Watchers -> [signum : Signals \cup {NoSignal},
                           active : BOOLEAN, h : BOOLEAN]]
  /\ raised \subseteq Signals
  /\ pending \subseteq {w \in Watchers : sig[w].active}
  /\ cb \in [at : {"none", "handler", "own"}, watcher : Watchers \cup {NULL},
             item : HNodes \cup {NULL}, next : HNodes \cup {NULL}]
  /\ closing \in WNodes \cup {NULL}
  /\ hooked \in [Handlers -> Watchers \cup {NULL}]
  /\ calls \in [Handlers -> 0..2]
  /\ kept \subseteq Handlers

(* Static storage is zero; nothing was initialised. *)
Init ==
  /\ loop = FALSE /\ running = FALSE
  /\ wl = ZeroHeap(WNodes)
  /\ hl = ZeroHeap(HNodes)
  /\ sig = [w \in Watchers |->
              [signum |-> NoSignal, active |-> FALSE, h |-> FALSE]]
  /\ raised = {} /\ pending = {}
  /\ cb = NoCall /\ closing = NULL
  /\ hooked = [h \in Handlers |-> NULL]
  /\ calls = [h \in Handlers |-> 0] /\ kept = {}

Active == {w \in Watchers : sig[w].active}
Listed == ListItems(wl, State, Cardinality(WNodes))
HandlersOf(w) == ListItems(hl, w, Cardinality(HNodes))
Initialised(w) == sig[w].signum # NoSignal

(* Code of the program runs: outside ev_run(), between two callbacks, in a *)
(* handler, or in the h of a watcher of its own. The h of the default      *)
(* watchers is _stop(), which does nothing but return 1.                   *)
ClientRuns ==
  /\ closing = NULL
  /\ cb.at = "own" => cb.watcher \notin Defaults

Idle == closing = NULL /\ cb.at = "none"

-----------------------------------------------------------------------------
(* sancus.c                                                                *)

(* sancus_init(), the first time: sancus_state_init() and two              *)
(* sancus_signal_watcher_add2(), neither of which finds a watcher.         *)
SancusInit ==
  /\ ClientRuns /\ ~loop
  /\ loop' = TRUE
  /\ wl' = ListAppend(ListAppend(ListInit(wl, State), State, IntWatcher),
                      State, TermWatcher)
  /\ hl' = ListInit(ListInit(hl, IntWatcher), TermWatcher)
  /\ sig' = [sig EXCEPT
       ![IntWatcher] = [signum |-> SIGINT, active |-> TRUE, h |-> TRUE],
       ![TermWatcher] = [signum |-> SIGTERM, active |-> TRUE, h |-> TRUE]]
  /\ UNCHANGED <<raised, pending, running, cb, closing, hooked, history>>

(* sancus_run(), sancus_state_run() *)
SancusRun ==
  /\ Idle /\ loop /\ ~running
  /\ running' = TRUE
  /\ UNCHANGED <<loop, lists, sig, raised, pending, cb, closing, hooked, history>>

-----------------------------------------------------------------------------
(* signal.c: watchers                                                      *)

(* Slips, here and below, show that a property notices them; nothing       *)
(* refers to them. Here: only the first of the list is looked at.          *)
FindWatcherFirst(n) == {w \in Listed : w = wl.next[State] /\ sig[w].signum = n}

(* _find_watcher(); at most one is active, see OneWatcherPerSignal.        *)
FindWatcher(n) == {w \in Listed : sig[w].signum = n}

(* sancus_signal_watcher_add2(). The program passes a watcher that is not  *)
(* active, and not the one whose callback is running: the struct is        *)
(* overwritten. Handlers hooked to it earlier are forgotten, not unhooked. *)
SancusSignalWatcherAdd(w, n, h) ==
  /\ ClientRuns /\ loop
  /\ ~sig[w].active /\ w # cb.watcher
  /\ hl' = ListInit(hl, w)
  /\ hooked' = [x \in Handlers |-> IF hooked[x] = w THEN NULL ELSE hooked[x]]
  /\ \/ /\ FindWatcher(n) # {}
        /\ wl' = ListInit(wl, w)
        /\ sig' = [sig EXCEPT ![w] = [signum |-> n, active |-> FALSE, h |-> h]]
     \/ /\ FindWatcher(n) = {}
        /\ wl' = ListAppend(ListInit(wl, w), State, w)
        /\ sig' = [sig EXCEPT ![w] = [signum |-> n, active |-> TRUE, h |-> h]]
  /\ kept' = {x \in kept : hooked[x] # w}
  /\ UNCHANGED <<loop, raised, pending, running, cb, closing, calls>>

(* Slips: stopped and left in the list; the struct cleared, not stopped.   *)
WatcherCloseStopsOnly(w) ==
  IF sig[w].active
  THEN /\ sig' = [sig EXCEPT ![w].active = FALSE]
       /\ pending' = pending \ {w}
       /\ UNCHANGED wl
  ELSE UNCHANGED <<wl, sig, pending>>

WatcherCloseClears(w) ==
  IF sig[w].active
  THEN /\ wl' = ListDel(wl, w)
       /\ sig' = [sig EXCEPT ![w].active = FALSE]
       /\ UNCHANGED pending
  ELSE UNCHANGED <<wl, sig, pending>>

(* sancus_signal_watcher_close(), with ev_signal_stop(). *)
WatcherClose(w) ==
  IF sig[w].active
  THEN /\ wl' = ListDel(wl, w)
       /\ sig' = [sig EXCEPT ![w].active = FALSE]
       /\ pending' = pending \ {w}
  ELSE UNCHANGED <<wl, sig, pending>>

SancusSignalWatcherClose(w) ==
  /\ ClientRuns
  /\ WatcherClose(w)
  /\ UNCHANGED <<loop, hl, raised, running, cb, closing, hooked, history>>

-----------------------------------------------------------------------------
(* signal.c: handlers                                                      *)

(* sancus_signal_handler_add2() of a handler that is not hooked. *)
Hook(h, w) ==
  /\ hl' = ListAppend(hl, w, h)
  /\ hooked' = [hooked EXCEPT ![h] = w]
  /\ kept' = kept \ {h}

SancusSignalHandlerAdd2(h, w) ==
  /\ ClientRuns
  /\ hooked[h] = NULL /\ Initialised(w)
  /\ Hook(h, w)
  /\ UNCHANGED <<loop, wl, sig, raised, pending, running, cb, closing, calls>>

(* sancus_signal_handler_add(): to the active watcher of the signal, or    *)
(* nowhere. It returns 0 either way.                                       *)
SancusSignalHandlerAdd(h, n) ==
  /\ ClientRuns /\ loop
  /\ hooked[h] = NULL
  /\ \/ \E w \in FindWatcher(n) : Hook(h, w)
     \/ FindWatcher(n) = {} /\ hl' = ListInit(hl, h) /\ UNCHANGED <<hooked, kept>>
  /\ UNCHANGED <<loop, wl, sig, raised, pending, running, cb, closing, calls>>

(* The library has no call to unhook a handler: a program uses             *)
(* sancus_list_del(). From inside a callback it may take out any handler   *)
(* but the one signal_callback() will go to next.                          *)
HandlerDel(h) ==
  /\ ClientRuns
  /\ hooked[h] # NULL
  /\ cb.at = "handler" => h # cb.next
  /\ hl' = ListDel(hl, h)
  /\ hooked' = [hooked EXCEPT ![h] = NULL]
  /\ kept' = kept \ {h}
  /\ UNCHANGED <<loop, wl, sig, raised, pending, running, cb, closing, calls>>

(* signal_callback(): the head of the for statement decides what runs. The *)
(* successor was read before the handler ran.                              *)
Dispatch(w, item) ==
  IF item # w
  THEN /\ cb' = [at |-> "handler", watcher |-> w, item |-> item,
                 next |-> hl.next[item]]
       /\ calls' = [h \in Handlers |-> IF h = item /\ calls[h] < 2
                                       THEN calls[h] + 1 ELSE calls[h]]
  ELSE /\ cb' = IF sig[w].h THEN [NoCall EXCEPT !.at = "own", !.watcher = w]
                            ELSE NoCall
       /\ calls' = [h \in Handlers |-> 0]

SignalCallback(w) ==
  /\ Idle /\ running
  /\ w \in pending
  /\ pending' = pending \ {w}
  /\ Dispatch(w, hl.next[w])
  /\ kept' = IF hl.next[w] # w THEN {h \in Handlers : hooked[h] = w} ELSE {}
  /\ UNCHANGED <<loop, lists, sig, raised, running, closing, hooked>>

(* Slip: sancus_list_foreach, which reads the successor afterwards.        *)
HandlerReturnsForeach ==
  /\ closing = NULL /\ cb.at = "handler"
  /\ Dispatch(cb.watcher, hl.next[cb.item])
  /\ kept' = IF hl.next[cb.item] # cb.watcher THEN kept ELSE {}
  /\ UNCHANGED <<loop, lists, sig, raised, pending, running, closing, hooked>>

HandlerReturns ==
  /\ closing = NULL /\ cb.at = "handler"
  /\ Dispatch(cb.watcher, cb.next)
  /\ kept' = IF cb.next # cb.watcher THEN kept ELSE {}
  /\ UNCHANGED <<loop, lists, sig, raised, pending, running, closing, hooked>>

(* The h of the watcher returns; signal_callback() drops what it returned. *)
OwnReturns ==
  /\ closing = NULL /\ cb.at = "own"
  /\ cb' = NoCall
  /\ UNCHANGED <<loop, lists, sig, raised, pending, running, closing, hooked,
                 history>>

-----------------------------------------------------------------------------
(* state.c                                                                 *)

(* sancus_state_close(): sancus_list_foreach over the watchers, closing    *)
(* each. The successor is read from the node that was just unlinked.       *)
SancusStateClose ==
  /\ ClientRuns /\ loop
  /\ closing' = wl.next[State]
  /\ UNCHANGED <<loop, lists, sig, raised, pending, running, cb, hooked, history>>

(* Slip: the walk ends one watcher early.                                  *)
CloseStepStopsEarly ==
  /\ closing # NULL
  /\ IF closing = State \/ wl.next[closing] = State
     THEN closing' = NULL /\ UNCHANGED <<wl, sig, pending>>
     ELSE WatcherClose(closing) /\ closing' = wl'.next[closing]
  /\ UNCHANGED <<loop, hl, raised, running, cb, hooked, history>>

CloseStep ==
  /\ closing # NULL
  /\ IF closing = State
     THEN closing' = NULL /\ UNCHANGED <<wl, sig, pending>>
     ELSE WatcherClose(closing) /\ closing' = wl'.next[closing]
  /\ UNCHANGED <<loop, hl, raised, running, cb, hooked, history>>

-----------------------------------------------------------------------------
(* libev                                                                   *)

(* A signal somebody watches arrives: libev's handler notes it, once. A    *)
(* signal nobody watches has its default action and is not modelled.       *)
Raise(n) ==
  /\ \E w \in Active : sig[w].signum = n
  /\ raised' = raised \cup {n}
  /\ UNCHANGED <<loop, lists, sig, pending, running, cb, closing, hooked, history>>

(* ev_run() collects the watchers of the signals it was told of. *)
Poll ==
  /\ Idle /\ running
  /\ pending = {} /\ raised # {}
  /\ pending' = {w \in Active : sig[w].signum \in raised}
  /\ raised' = {}
  /\ UNCHANGED <<loop, lists, sig, running, cb, closing, hooked, history>>

(* ev_run() returns when no watcher is active. *)
RunReturns ==
  /\ Idle /\ running
  /\ pending = {} /\ Active = {}
  /\ running' = FALSE
  /\ UNCHANGED <<loop, lists, sig, raised, pending, cb, closing, hooked, history>>

-----------------------------------------------------------------------------
Client ==
  \/ SancusInit \/ SancusRun \/ SancusStateClose
  \/ \E w \in Watchers \ Defaults, n \in Signals, h \in BOOLEAN :
       SancusSignalWatcherAdd(w, n, h)
  \/ \E w \in Watchers : SancusSignalWatcherClose(w)
  \/ \E h \in Handlers, w \in Watchers : SancusSignalHandlerAdd2(h, w)
  \/ \E h \in Handlers, n \in Signals : SancusSignalHandlerAdd(h, n)
  \/ \E h \in Handlers : HandlerDel(h)

Library ==
  \/ \E w \in Watchers : SignalCallback(w)
  \/ HandlerReturns \/ OwnReturns \/ CloseStep
  \/ Poll \/ RunReturns

Next == Client \/ Library \/ \E n \in Signals : Raise(n)

Spec == Init /\ [][Next]_vars

(* A for statement goes on; a callback that calls into the library returns *)
(* after finitely many calls; and ev_run() goes on when they have. The     *)
(* last two are strong, since a call that is under way disables them for   *)
(* its duration.                                                           *)
CallbackEnds == HandlerReturns \/ OwnReturns
LoopGoesOn == (\E w \in Watchers : SignalCallback(w)) \/ Poll \/ RunReturns

FairSpec ==
  Spec /\ WF_vars(CloseStep) /\ SF_vars(CallbackEnds) /\ SF_vars(LoopGoesOn)

-----------------------------------------------------------------------------
(* Properties.                                                             *)

(* The list of the state is the set of watchers libev has active: what     *)
(* _find_watcher() and sancus_state_close() walk is what gets signals,     *)
(* also in the middle of sancus_state_close().                             *)
ListedAreActive ==
  loop => /\ Listed = Active
          /\ ListEnds(wl, State, Cardinality(WNodes))
          /\ \A w \in Active \cup {State} : Linked(wl, w)

(* The ring of every initialised watcher holds exactly the handlers the    *)
(* program has hooked to it, is sound in both directions, and a walk ends: *)
(* no add, delete, close or re-initialisation, from a handler or elsewhere,*)
(* makes one list run into another.                                        *)
HandlersAreHooked ==
  \A w \in Watchers : Initialised(w) =>
    /\ HandlersOf(w) = {h \in Handlers : hooked[h] = w}
    /\ ListEnds(hl, w, Cardinality(HNodes))
    /\ \A n \in HandlersOf(w) \cup {w} : Linked(hl, n)

(* "activate if it's the first", signal.c:97: a signal has one active      *)
(* watcher, whatever order watchers are added and closed in.               *)
OneWatcherPerSignal ==
  \A v, w \in Active : sig[v].signum = sig[w].signum => v = w

(* The cursor of signal_callback() stays in the ring it walks: it is about *)
(* to go to the head or to a handler that is hooked to this very watcher,  *)
(* although handlers may unhook and rehook themselves, close the watcher,  *)
(* or close the whole state while it stands on them.                       *)
CursorInRing ==
  cb.at = "handler" =>
    /\ cb.item \in Handlers
    /\ \/ cb.next = cb.watcher
       \/ cb.next \in Handlers /\ hooked[cb.next] = cb.watcher

(* A signal calls every handler that was hooked when it was dispatched and *)
(* that nobody touched since, exactly once.                                *)
EachHandlerOnce ==
  [][cb.at = "handler" /\ cb'.at # "handler" =>
       \A h \in kept : calls[h] = 1]_vars

(* "close all signal watchers", state.c:61: when sancus_state_close()      *)
(* returns, none is active, pending or listed.                             *)
StateCloseClosesAll ==
  [][closing # NULL /\ closing' = NULL =>
       Active = {} /\ pending = {} /\ ListIsEmpty(wl, State)]_vars

(* sancus_state_close() returns, although it walks a list it takes apart.  *)
StateCloseReturns == closing # NULL ~> closing = NULL

(* The handlers settle: nobody keeps hooking them again, which could keep  *)
(* signal_callback() going for ever, each time behind its cursor.          *)
Settles == <>[][FALSE]_hooked

(* A signal callback comes to its end: the ring it walks is finite.        *)
CallbackReturns ==
  Settles => [](cb.at = "handler" => <>(cb.at # "handler"))

(* A signal that arrives is delivered: the callback of its watcher runs,   *)
(* unless the watcher is closed or the loop is not run any longer. No      *)
(* other signal, however often it arrives, keeps it waiting.               *)
Delivered ==
  Settles =>
    \A w \in Watchers :
      (running /\ sig[w].active /\ sig[w].signum \in raised)
        ~> (cb.watcher = w \/ ~sig[w].active \/ ~running)

(* sancus_run() returns once there is no signal left to wait for. *)
RunEnds ==
  Settles => ((running /\ Active = {}) ~> (~running \/ Active # {}))

(* What the name of _stop(), sancus.c:44, which sancus.c:62 and :64 give   *)
(* SIGINT and SIGTERM, says of it, and with it the int that handlers       *)
(* return, sancus_signal.h:38: once it is called, the run it is in ends.   *)
StopStops == (cb.at = "own" /\ cb.watcher = TermWatcher) ~> ~running
=============================================================================
