--------------------------- MODULE SignalStateProofs ---------------------------
(***************************************************************************)
(* The safety properties of SignalState, for any number of watchers,       *)
(* handlers and signals. TLC follows the pointers of small heaps; here the *)
(* argument is that the lists are rings, and that every ring has a rank    *)
(* that tells its order.                                                   *)
(***************************************************************************)
EXTENDS SignalState, SancusListProofs

-----------------------------------------------------------------------------
(* The inductive invariant.                                                *)

Hooked(w) == {h \in Handlers : hooked[h] = w}

(* The list of the state is one ring, of the active watchers. The cursor   *)
(* of sancus_state_close() is its first.                                   *)
WatcherInv ==
  /\ loop => \E r \in Ranks(WNodes) : Ring(wl, State, Active \cup {State}, r)
  /\ closing # NULL => loop /\ closing = wl.next[State]
  /\ \A w \in Watchers : sig[w].active => Initialised(w)
  /\ ~loop => \A w \in Watchers : ~Initialised(w)
  /\ OneWatcherPerSignal

(* The dispatch has called what comes before its cursor, and nothing that  *)
(* comes after: its place in the ring tells how often a handler was called.*)
Dispatched(r) ==
  cb.at = "handler" =>
    \A h \in kept :
      /\ hooked[h] = cb.watcher
      /\ calls[h] = IF cb.next = cb.watcher \/ r[h] < r[cb.next] THEN 1 ELSE 0

HandlerRings ==
  \E r \in Ranks(HNodes) :
    /\ \A w \in Watchers : Initialised(w) => Ring(hl, w, {w} \cup Hooked(w), r)
    /\ Dispatched(r)

HooksInitialised ==
  \A h \in Handlers : hooked[h] # NULL => Initialised(hooked[h])

DispatchInitialised ==
  /\ cb.at = "handler" => cb.watcher \in Watchers /\ Initialised(cb.watcher)
  /\ cb.at # "handler" => calls = [h \in Handlers |-> 0]

HandlerInv ==
  /\ HooksInitialised
  /\ DispatchInitialised
  /\ CursorInRing
  /\ HandlerRings

IInv == TypeOK /\ WatcherInv /\ HandlerInv

-----------------------------------------------------------------------------
(* What the invariant says of walks.                                       *)

LEMMA FiniteNodes == IsFiniteSet(WNodes) /\ IsFiniteSet(HNodes)
  BY NodesAssumption, FS_Union, FS_Singleton DEF WNodes, HNodes

(* _find_watcher() and sancus_state_close() walk the active watchers.      *)
LEMMA ListedIsActive ==
  ASSUME TypeOK, WatcherInv, loop
  PROVE  Listed = Active /\ ListEnds(wl, State, Cardinality(WNodes))
<1>1. PICK r \in Ranks(WNodes) : Ring(wl, State, Active \cup {State}, r)
  BY DEF WatcherInv
<1>2. Active \cup {State} \in SUBSET WNodes /\ State \notin Active
  BY NodesAssumption DEF Active, WNodes
<1>3. Listed = (Active \cup {State}) \ {State}
  BY <1>1, <1>2, FiniteNodes, WalkVisits DEF Listed
<1>4. ListEnds(wl, State, Cardinality(WNodes))
  BY <1>1, <1>2, FiniteNodes, WalkEnds
<1> QED
  BY <1>2, <1>3, <1>4

(* signal_callback() walks the handlers hooked to its watcher.             *)
LEMMA HandlersOfIsHooked ==
  ASSUME TypeOK, HandlerInv, NEW w \in Watchers, Initialised(w)
  PROVE  HandlersOf(w) = Hooked(w) /\ ListEnds(hl, w, Cardinality(HNodes))
<1>1. PICK r \in Ranks(HNodes) : Ring(hl, w, {w} \cup Hooked(w), r)
  BY DEF HandlerInv, HandlerRings
<1>2. {w} \cup Hooked(w) \in SUBSET HNodes /\ w \notin Hooked(w)
  BY NodesAssumption DEF Hooked, HNodes
<1>3. HandlersOf(w) = ({w} \cup Hooked(w)) \ {w}
  BY <1>1, <1>2, FiniteNodes, WalkVisits DEF HandlersOf
<1>4. ListEnds(hl, w, Cardinality(HNodes))
  BY <1>1, <1>2, FiniteNodes, WalkEnds
<1> QED
  BY <1>2, <1>3, <1>4

-----------------------------------------------------------------------------
(* The initial state.                                                      *)

LEMMA InitInv == Init => IInv
<1> SUFFICES ASSUME Init PROVE IInv
  OBVIOUS
<1>1. TypeOK
  <2>1. wl \in Heap(WNodes) /\ hl \in Heap(HNodes)
    BY DEF Init, Heap, ZeroHeap
  <2>2. cb \in [at : {"none", "handler", "own"}, watcher : Watchers \cup {NULL},
                item : HNodes \cup {NULL}, next : HNodes \cup {NULL}]
    BY DEF Init, NoCall
  <2>3. sig \in [Watchers -> [signum : Signals \cup {NoSignal},
                              active : BOOLEAN, h : BOOLEAN]]
    BY DEF Init
  <2>4. /\ hooked \in [Handlers -> Watchers \cup {NULL}]
        /\ calls \in [Handlers -> 0..2]
    BY DEF Init
  <2> QED
    BY <2>1, <2>2, <2>3, <2>4 DEF Init, TypeOK
<1>2. WatcherInv
  BY DEF Init, WatcherInv, Initialised, OneWatcherPerSignal, Active
<1>3. HandlerInv
  <2>1. [n \in HNodes |-> 0] \in Ranks(HNodes)
    BY DEF Ranks
  <2>2. \A w \in Watchers : ~Initialised(w)
    BY DEF Init, Initialised
  <2>3. cb.at = "none"
    BY DEF Init, NoCall
  <2>4. HandlerRings
    BY <2>1, <2>2, <2>3 DEF HandlerRings, Dispatched
  <2> QED
    BY <2>3, <2>4
    DEF Init, HandlerInv, HooksInitialised, DispatchInitialised, CursorInRing
<1> QED
  BY <1>1, <1>2, <1>3 DEF IInv

-----------------------------------------------------------------------------
(* What a step that leaves one of the lists alone does not disturb.        *)

LEMMA WatcherSame ==
  ASSUME WatcherInv, UNCHANGED <<loop, wl, sig, closing>>
  PROVE  WatcherInv'
  BY DEF WatcherInv, OneWatcherPerSignal, Initialised, Active

LEMMA HandlerSame ==
  ASSUME TypeOK, HandlerInv, UNCHANGED <<hl, hooked, kept, calls, cb>>,
         \A w \in Watchers : sig'[w].signum = sig[w].signum
  PROVE  HandlerInv'
<1>1. \A w \in Watchers : Initialised(w)' <=> Initialised(w)
  BY DEF Initialised
<1>2. HandlerRings'
  BY <1>1 DEF HandlerInv, HandlerRings, Hooked, Dispatched
<1> QED
  BY <1>1, <1>2
  DEF TypeOK, HandlerInv, HooksInitialised, DispatchInitialised, CursorInRing


(* The heaps of the state are the heaps of the lemmas about lists.         *)
LEMMA HeapIsHeapOf == \A N : Heap(N) = HeapOf(N, N \cup {NULL})
  BY DEF Heap, HeapOf

-----------------------------------------------------------------------------
(* sancus.c                                                                *)

(* The lists start as a ring of two watchers, and as two empty ones.       *)
LEMMA SancusInitInv ==
  ASSUME IInv, SancusInit
  PROVE  IInv'
<1> DEFINE l0 == ListInit(wl, State)
           l1 == ListAppend(l0, State, IntWatcher)
           k1 == ListInit(hl, IntWatcher)
           W  == WNodes \cup {NULL}
           H  == HNodes \cup {NULL}
<1>1. /\ {IntWatcher, TermWatcher} \subseteq Watchers /\ IntWatcher # TermWatcher
      /\ State \notin Watchers /\ Watchers \subseteq WNodes /\ State \in WNodes
      /\ Watchers \subseteq HNodes /\ SIGINT # SIGTERM
      /\ {SIGINT, SIGTERM} \subseteq Signals /\ NoSignal \notin Signals
  BY NodesAssumption, DefaultsAssumption DEF Defaults, WNodes, HNodes
<1>2. wl \in HeapOf(WNodes, W) /\ hl \in HeapOf(HNodes, H)
  BY HeapIsHeapOf DEF IInv, TypeOK
<1>3. \A w \in Watchers : ~Initialised(w) /\ ~sig[w].active
  BY DEF IInv, WatcherInv, SancusInit
<1>4. \A h \in Handlers : hooked[h] = NULL
  BY <1>3 DEF IInv, TypeOK, HandlerInv, HooksInitialised
<1>5. /\ wl' = ListAppend(l1, State, TermWatcher) /\ hl' = ListInit(k1, TermWatcher)
      /\ closing = NULL /\ loop'
      /\ UNCHANGED <<raised, pending, running, cb, closing, hooked, calls, kept>>
      /\ sig' = [sig EXCEPT
           ![IntWatcher] = [signum |-> SIGINT, active |-> TRUE, h |-> TRUE],
           ![TermWatcher] = [signum |-> SIGTERM, active |-> TRUE, h |-> TRUE]]
  BY DEF SancusInit, ClientRuns, history
<1>6. /\ sig' \in [Watchers -> [signum : Signals \cup {NoSignal},
                                active : BOOLEAN, h : BOOLEAN]]
      /\ sig'[IntWatcher].active /\ sig'[IntWatcher].signum = SIGINT
      /\ sig'[TermWatcher].active /\ sig'[TermWatcher].signum = SIGTERM
      /\ \A w \in Watchers \ {IntWatcher, TermWatcher} : sig'[w] = sig[w]
  BY <1>1, <1>5 DEF IInv, TypeOK
<1>7. Active' = {IntWatcher, TermWatcher}
  BY <1>1, <1>3, <1>6 DEF Active
<1>8. PICK r0 : r0 \in Ranks(WNodes) /\ r0 = [n \in WNodes |-> 0]
  BY DEF Ranks
<1>9. l0 \in HeapOf(WNodes, W) /\ Ring(l0, State, {State}, r0)
  BY <1>1, <1>2, <1>8, InitPointers, RingInit
<1>10. PICK r1 \in Ranks(WNodes) :
         l1 \in HeapOf(WNodes, W) /\ Ring(l1, State, {State} \cup {IntWatcher}, r1)
  <2> HIDE DEF l0
  <2> DEFINE r1 == [r0 EXCEPT ![IntWatcher] = r0[l0.prev[State]] + 1]
  <2>1. l0.prev[State] = State
    BY <1>9 DEF Ring
  <2>2. r1 \in Ranks(WNodes)
    BY <1>1, <1>8, <2>1 DEF Ranks
  <2> QED
    BY <1>1, <1>8, <1>9, <2>2, RingAppend
<1>11. PICK r2 \in Ranks(WNodes) :
         /\ wl' \in HeapOf(WNodes, W)
         /\ Ring(wl', State, {State, IntWatcher} \cup {TermWatcher}, r2)
  <2> HIDE DEF l1
  <2> DEFINE r2 == [r1 EXCEPT ![TermWatcher] = r1[l1.prev[State]] + 1]
  <2>1. l1.prev[State] \in {State, IntWatcher}
    BY <1>10 DEF Ring
  <2>2. r2 \in Ranks(WNodes)
    BY <1>1, <1>10, <2>1 DEF Ranks
  <2>3. Ring(l1, State, {State, IntWatcher}, r1)
    BY <1>10
  <2> QED
    BY <1>1, <1>5, <1>10, <2>2, <2>3, RingAppend
<1>12. PICK r \in Ranks(HNodes) : r = [n \in HNodes |-> 0]
  BY DEF Ranks
<1>13. k1 \in HeapOf(HNodes, H) /\ Ring(k1, IntWatcher, {IntWatcher}, r)
  BY <1>1, <1>2, InitPointers, RingInit
<1>14. /\ hl' \in HeapOf(HNodes, H)
       /\ Ring(hl', TermWatcher, {TermWatcher}, r)
       /\ Ring(hl', IntWatcher, {IntWatcher}, r)
  <2> HIDE DEF k1
  <2>1. /\ hl' \in HeapOf(HNodes, H)
        /\ hl'.next[IntWatcher] = k1.next[IntWatcher]
        /\ hl'.prev[IntWatcher] = k1.prev[IntWatcher]
    BY <1>1, <1>5, <1>13, InitPointers
  <2>2. Ring(hl', TermWatcher, {TermWatcher}, r)
    BY <1>1, <1>5, <1>13, RingInit
  <2>3. Ring(hl', IntWatcher, {IntWatcher}, r)
    BY <1>13, <2>1, RingSame
  <2> QED
    BY <2>1, <2>2, <2>3
<1>15. TypeOK'
  <2>1. wl' \in Heap(WNodes) /\ hl' \in Heap(HNodes)
    BY <1>11, <1>14, HeapIsHeapOf
  <2>2. pending' \subseteq {w \in Watchers : sig'[w].active}
    BY <1>3, <1>5 DEF IInv, TypeOK
  <2> QED
    BY <1>5, <1>6, <2>1, <2>2 DEF IInv, TypeOK
<1>16. WatcherInv'
  <2>1. Active' \cup {State} = {State, IntWatcher} \cup {TermWatcher}
    BY <1>7
  <2>2. Ring(wl', State, Active' \cup {State}, r2)
    BY <1>11, <2>1
  <2>3. \A w \in Watchers : sig'[w].active => Initialised(w)'
    BY <1>1, <1>3, <1>6 DEF Initialised
  <2>4. OneWatcherPerSignal'
    BY <1>1, <1>6, <1>7 DEF OneWatcherPerSignal
  <2> QED
    BY <1>5, <2>2, <2>3, <2>4 DEF WatcherInv
<1>17. HandlerInv'
  <2>1. \A w \in Watchers : Initialised(w)' => w = IntWatcher \/ w = TermWatcher
    BY <1>1, <1>3, <1>6 DEF Initialised
  <2>2. \A w \in Watchers : {w} \cup Hooked(w)' = {w}
    BY <1>4, <1>5, NodesAssumption DEF Hooked
  <2>3. cb.at # "handler"
    BY <1>3 DEF IInv, HandlerInv, DispatchInitialised
  <2>4. HandlerRings'
    BY <1>5, <1>14, <2>1, <2>2, <2>3 DEF HandlerRings, Dispatched
  <2> QED
    BY <1>4, <1>5, <2>3, <2>4
    DEF IInv, HandlerInv, HooksInitialised, DispatchInitialised, CursorInRing
<1> QED
  BY <1>15, <1>16, <1>17 DEF IInv

-----------------------------------------------------------------------------
(* signal.c: watchers                                                      *)

(* A watcher that is not active is in no list, so that it may be           *)
(* initialised again; the handlers of the others keep their rings.         *)
LEMMA SancusSignalWatcherAddInv ==
  ASSUME IInv, NEW w \in Watchers, NEW n \in Signals, NEW h \in BOOLEAN,
         SancusSignalWatcherAdd(w, n, h)
  PROVE  IInv'
<1> DEFINE l0 == ListInit(wl, w)
           W  == WNodes \cup {NULL}
           H  == HNodes \cup {NULL}
           M  == Active \cup {State}
<1>1. /\ w \in WNodes /\ State \in WNodes /\ w # State /\ w \in HNodes
      /\ w \notin Handlers /\ n # NoSignal /\ State \notin Watchers
      /\ \A x \in Handlers : x \notin Watchers
      /\ NULL \notin Watchers
  BY NodesAssumption, DefaultsAssumption DEF WNodes, HNodes
<1>2. wl \in HeapOf(WNodes, W) /\ hl \in HeapOf(HNodes, H)
  BY HeapIsHeapOf DEF IInv, TypeOK
<1>3. /\ closing = NULL /\ loop /\ ~sig[w].active /\ w # cb.watcher
      /\ hl' = ListInit(hl, w)
      /\ hooked' = [x \in Handlers |-> IF hooked[x] = w THEN NULL ELSE hooked[x]]
      /\ kept' = {x \in kept : hooked[x] # w}
      /\ UNCHANGED <<loop, raised, pending, running, cb, closing, calls>>
  BY DEF SancusSignalWatcherAdd, ClientRuns
<1>4. PICK a \in BOOLEAN :
        /\ sig' = [sig EXCEPT ![w] = [signum |-> n, active |-> a, h |-> h]]
        /\ a = (FindWatcher(n) = {})
        /\ wl' = IF a THEN ListAppend(l0, State, w) ELSE l0
  BY DEF SancusSignalWatcherAdd
<1>5. /\ sig' \in [Watchers -> [signum : Signals \cup {NoSignal},
                                active : BOOLEAN, h : BOOLEAN]]
      /\ sig'[w].active = a /\ sig'[w].signum = n
      /\ \A v \in Watchers \ {w} : sig'[v] = sig[v]
  BY <1>4 DEF IInv, TypeOK
<1>6. /\ w \notin M /\ M \in SUBSET WNodes /\ State \in M
      /\ Active' = IF a THEN Active \cup {w} ELSE Active
  BY <1>1, <1>3, <1>5 DEF Active, WNodes
<1>7. PICK r \in Ranks(WNodes) : Ring(wl, State, M, r)
  BY <1>3 DEF IInv, WatcherInv
<1>8. l0 \in HeapOf(WNodes, W) /\ Ring(l0, State, M, r)
  <2>1. /\ l0 \in HeapOf(WNodes, W)
        /\ \A m \in M : l0.next[m] = wl.next[m] /\ l0.prev[m] = wl.prev[m]
    BY <1>1, <1>2, <1>6, InitPointers
  <2> HIDE DEF l0, M
  <2> QED
    BY <1>7, <2>1, RingSame
<1>9. /\ wl' \in HeapOf(WNodes, W)
      /\ \E s \in Ranks(WNodes) : Ring(wl', State, Active' \cup {State}, s)
  <2>1. CASE ~a
    BY <1>4, <1>6, <1>7, <1>8, <2>1
  <2>2. CASE a
    <3> HIDE DEF l0
    <3> DEFINE s == [r EXCEPT ![w] = r[l0.prev[State]] + 1]
    <3>1. l0.prev[State] \in WNodes
      BY <1>6, <1>8 DEF Ring
    <3>2. s \in Ranks(WNodes)
      BY <1>1, <1>7, <3>1 DEF Ranks
    <3>3. wl' \in HeapOf(WNodes, W) /\ Ring(wl', State, M \cup {w}, s)
      <4> HIDE DEF M
      <4> QED
        BY <1>1, <1>4, <1>6, <1>7, <1>8, <2>2, RingAppend
    <3>4. Active' \cup {State} = M \cup {w}
      BY <1>6, <2>2
    <3> QED
      BY <3>2, <3>3, <3>4
  <2> QED
    BY <2>1, <2>2
<1>10. /\ hl' \in HeapOf(HNodes, H)
       /\ \A m \in HNodes : m # w => hl'.next[m] = hl.next[m] /\ hl'.prev[m] = hl.prev[m]
  BY <1>1, <1>2, <1>3, InitPointers
<1>11. TypeOK'
  <2>1. wl' \in Heap(WNodes) /\ hl' \in Heap(HNodes)
    BY <1>9, <1>10, HeapIsHeapOf
  <2>2. pending' \subseteq {v \in Watchers : sig'[v].active}
    BY <1>3, <1>5 DEF IInv, TypeOK
  <2>3. hooked' \in [Handlers -> Watchers \cup {NULL}] /\ kept' \subseteq Handlers
    BY <1>3 DEF IInv, TypeOK
  <2> QED
    BY <1>3, <1>5, <2>1, <2>2, <2>3 DEF IInv, TypeOK
<1>12. WatcherInv'
  <2>1. \A v \in Watchers : sig'[v].active => Initialised(v)'
    BY <1>1, <1>5 DEF IInv, WatcherInv, Initialised
  <2>2. OneWatcherPerSignal'
    <3>1. a => \A v \in Active : sig[v].signum # n
      BY <1>3, <1>4, ListedIsActive DEF IInv, FindWatcher
    <3> QED
      BY <1>1, <1>5, <1>6, <3>1 DEF IInv, WatcherInv, OneWatcherPerSignal, Active
  <2> QED
    BY <1>3, <1>9, <2>1, <2>2 DEF WatcherInv
<1>13. HandlerInv'
  <2>1. \A v \in Watchers \ {w} : Initialised(v)' = Initialised(v)
    BY <1>5 DEF Initialised
  <2>2. /\ \A v \in Watchers \ {w} : Hooked(v)' = Hooked(v) /\ w \notin {v} \cup Hooked(v)
        /\ Hooked(w)' = {}
    BY <1>1, <1>3 DEF Hooked
  <2>3. PICK q \in Ranks(HNodes) :
          /\ \A v \in Watchers : Initialised(v) => Ring(hl, v, {v} \cup Hooked(v), q)
          /\ Dispatched(q)
    BY DEF IInv, HandlerInv, HandlerRings
  <2>4. ASSUME NEW v \in Watchers, Initialised(v)'
        PROVE  Ring(hl', v, {v} \cup Hooked(v)', q)
    <3>1. CASE v = w
      BY <1>1, <1>2, <1>3, <2>2, <3>1, RingInit
    <3>2. CASE v # w
      <4>1. {v} \cup Hooked(v) \subseteq HNodes
        BY DEF Hooked, HNodes
      <4>2. Ring(hl, v, {v} \cup Hooked(v), q)
        BY <2>1, <2>3, <2>4, <3>2
      <4> QED
        BY <1>10, <2>2, <3>2, <4>1, <4>2, RingSame
    <3> QED
      BY <3>1, <3>2
  <2>5. Dispatched(q)'
    BY <1>3, <2>3 DEF Dispatched, IInv, TypeOK
  <2>6. HandlerRings'
    BY <2>3, <2>4, <2>5 DEF HandlerRings
  <2>7. HooksInitialised'
    BY <1>1, <1>3, <1>5
    DEF IInv, TypeOK, HandlerInv, HooksInitialised, Initialised
  <2>8. DispatchInitialised'
    BY <1>3, <1>5 DEF IInv, HandlerInv, DispatchInitialised, Initialised
  <2>9. CursorInRing'
    BY <1>3 DEF IInv, HandlerInv, CursorInRing
  <2> QED
    BY <2>6, <2>7, <2>8, <2>9 DEF HandlerInv
<1> QED
  BY <1>11, <1>12, <1>13 DEF IInv

(* sancus_signal_watcher_close() takes an active watcher out of the list.  *)
(* At the first of the list, what that first was pointing at becomes it.   *)
LEMMA WatcherCloseInv ==
  ASSUME IInv, NEW w \in Watchers, WatcherClose(w), loop' = loop,
         closing' = NULL \/ (closing = w /\ closing' = wl'.next[w])
  PROVE  /\ WatcherInv'
         /\ wl' \in Heap(WNodes)
         /\ sig' \in [Watchers -> [signum : Signals \cup {NoSignal},
                                   active : BOOLEAN, h : BOOLEAN]]
         /\ pending' \subseteq {v \in Watchers : sig'[v].active}
         /\ \A v \in Watchers : sig'[v].signum = sig[v].signum
<1> DEFINE W == WNodes \cup {NULL}
           M == Active \cup {State}
<1>1. /\ w \in WNodes /\ State \in WNodes /\ w # State /\ State \notin Watchers
      /\ NULL \notin WNodes
  BY NodesAssumption DEF WNodes
<1>2. wl \in HeapOf(WNodes, W)
  BY HeapIsHeapOf DEF IInv, TypeOK
<1>3. CASE ~sig[w].active
  <2>1. UNCHANGED <<wl, sig, pending>>
    BY <1>3 DEF WatcherClose
  <2>2. ~(closing # NULL /\ closing = w)
    <3> SUFFICES ASSUME closing # NULL, closing = w PROVE FALSE
      OBVIOUS
    <3>1. PICK r \in Ranks(WNodes) : Ring(wl, State, M, r)
      BY DEF IInv, WatcherInv
    <3>2. closing \in M
      BY <3>1 DEF IInv, WatcherInv, Ring
    <3> QED
      BY <1>1, <1>3, <3>2 DEF Active
  <2>3. closing' = NULL
    BY <1>1, <2>2 DEF WNodes
  <2>4. WatcherInv'
    BY <2>1, <2>3 DEF IInv, WatcherInv, OneWatcherPerSignal, Initialised, Active
  <2> QED
    BY <2>1, <2>4 DEF IInv, TypeOK
<1>4. CASE sig[w].active
  <2>1. /\ wl' = ListDel(wl, w)
        /\ sig' = [sig EXCEPT ![w].active = FALSE]
        /\ pending' = pending \ {w}
    BY <1>4 DEF WatcherClose
  <2>2. /\ sig' \in [Watchers -> [signum : Signals \cup {NoSignal},
                                  active : BOOLEAN, h : BOOLEAN]]
        /\ \A v \in Watchers : /\ sig'[v].signum = sig[v].signum
                               /\ sig'[v].active = (sig[v].active /\ v # w)
    BY <2>1 DEF IInv, TypeOK
  <2>3. /\ Active' \cup {State} = M \ {w} /\ w \in M \ {State}
        /\ M \in SUBSET WNodes
    BY <1>1, <1>4, <2>2 DEF Active, WNodes
  <2>4. loop
    BY <1>4 DEF IInv, WatcherInv
  <2>5. PICK r \in Ranks(WNodes) : Ring(wl, State, M, r)
    BY <2>4 DEF IInv, WatcherInv
  <2>6. wl' \in HeapOf(WNodes, W) /\ Ring(wl', State, M \ {w}, r)
    <3> HIDE DEF M
    <3> QED
      BY <1>1, <1>2, <2>1, <2>3, <2>5, RingDel
  <2>7. closing' # NULL => closing' = wl'.next[State]
    <3> SUFFICES ASSUME closing' # NULL PROVE closing' = wl'.next[State]
      OBVIOUS
    <3>1. closing = w /\ closing' = wl'.next[w] /\ w = wl.next[State]
      BY <1>1 DEF IInv, WatcherInv, WNodes
    <3>2. wl.prev[w] = State /\ wl.next[w] \in WNodes
      BY <2>3, <2>5, <3>1 DEF Ring, Linked
    <3> QED
      BY <1>1, <1>2, <2>1, <3>1, <3>2, DelPointers
  <2>8. OneWatcherPerSignal'
    BY <2>2 DEF IInv, WatcherInv, OneWatcherPerSignal, Active
  <2>9. WatcherInv'
    BY <2>2, <2>3, <2>4, <2>6, <2>7, <2>8
    DEF IInv, WatcherInv, Initialised
  <2>10. pending' \subseteq {v \in Watchers : sig'[v].active}
    BY <2>1, <2>2 DEF IInv, TypeOK
  <2> QED
    BY <2>2, <2>6, <2>9, <2>10, HeapIsHeapOf
<1> QED
  BY <1>3, <1>4

LEMMA SancusSignalWatcherCloseInv ==
  ASSUME IInv, NEW w \in Watchers, SancusSignalWatcherClose(w)
  PROVE  IInv'
<1>1. /\ closing = NULL /\ WatcherClose(w)
      /\ UNCHANGED <<loop, hl, raised, running, cb, closing, hooked, calls, kept>>
  BY DEF SancusSignalWatcherClose, ClientRuns, history
<1>2. /\ WatcherInv'
      /\ wl' \in Heap(WNodes)
      /\ sig' \in [Watchers -> [signum : Signals \cup {NoSignal},
                                active : BOOLEAN, h : BOOLEAN]]
      /\ pending' \subseteq {v \in Watchers : sig'[v].active}
      /\ \A v \in Watchers : sig'[v].signum = sig[v].signum
  BY <1>1, WatcherCloseInv
<1>3. TypeOK'
  BY <1>1, <1>2 DEF IInv, TypeOK
<1>4. HandlerInv'
  BY <1>1, <1>2, HandlerSame DEF IInv
<1> QED
  BY <1>2, <1>3, <1>4 DEF IInv

-----------------------------------------------------------------------------
(* state.c                                                                 *)

(* A step of sancus_state_close() closes the first of the list.            *)
LEMMA CloseStepInv ==
  ASSUME IInv, CloseStep
  PROVE  IInv'
<1>1. /\ closing # NULL
      /\ UNCHANGED <<loop, hl, raised, running, cb, hooked, calls, kept>>
  BY DEF CloseStep, history
<1>2. CASE closing = State
  <2>1. closing' = NULL /\ UNCHANGED <<wl, sig, pending>>
    BY <1>2 DEF CloseStep
  <2>2. TypeOK'
    BY <1>1, <2>1 DEF IInv, TypeOK
  <2>3. WatcherInv'
    BY <1>1, <2>1 DEF IInv, WatcherInv, OneWatcherPerSignal, Initialised, Active
  <2>4. HandlerInv'
    BY <1>1, <2>1, HandlerSame DEF IInv
  <2> QED
    BY <2>2, <2>3, <2>4 DEF IInv
<1>3. CASE closing # State
  <2>1. WatcherClose(closing) /\ closing' = wl'.next[closing]
    BY <1>3 DEF CloseStep
  <2>2. closing \in Watchers
    BY <1>1, <1>3 DEF IInv, TypeOK, WNodes
  <2>3. /\ WatcherInv'
        /\ wl' \in Heap(WNodes)
        /\ sig' \in [Watchers -> [signum : Signals \cup {NoSignal},
                                  active : BOOLEAN, h : BOOLEAN]]
        /\ pending' \subseteq {v \in Watchers : sig'[v].active}
        /\ \A v \in Watchers : sig'[v].signum = sig[v].signum
    BY <1>1, <2>1, <2>2, WatcherCloseInv
  <2>4. closing' \in WNodes \cup {NULL}
    BY <2>1, <2>2, <2>3 DEF Heap, WNodes
  <2>5. TypeOK'
    BY <1>1, <2>3, <2>4 DEF IInv, TypeOK
  <2>6. HandlerInv'
    BY <1>1, <2>3, HandlerSame DEF IInv
  <2> QED
    BY <2>3, <2>5, <2>6 DEF IInv
<1> QED
  BY <1>2, <1>3

LEMMA SancusStateCloseInv ==
  ASSUME IInv, SancusStateClose
  PROVE  IInv'
<1>1. /\ loop /\ closing' = wl.next[State]
      /\ UNCHANGED <<loop, wl, hl, sig, raised, pending, running, cb, hooked,
                     calls, kept>>
  BY DEF SancusStateClose, lists, history
<1>2. wl.next[State] \in WNodes \cup {NULL}
  BY DEF IInv, TypeOK, Heap, WNodes
<1>3. TypeOK'
  BY <1>1, <1>2 DEF IInv, TypeOK
<1>4. WatcherInv'
  BY <1>1 DEF IInv, WatcherInv, OneWatcherPerSignal, Initialised, Active
<1>5. HandlerInv'
  BY <1>1, HandlerSame DEF IInv
<1> QED
  BY <1>3, <1>4, <1>5 DEF IInv

-----------------------------------------------------------------------------
(* signal.c: handlers                                                      *)

(* A handler is added at the end of a ring: behind the cursor of a         *)
(* dispatch, if that is the ring it walks. No other ring is touched.       *)
LEMMA HookInv ==
  ASSUME TypeOK, HandlerInv, NEW h \in Handlers, NEW w \in Watchers,
         hooked[h] = NULL, Initialised(w), Hook(h, w), UNCHANGED <<sig, cb, calls>>
  PROVE  /\ HandlerInv'
         /\ hl' \in Heap(HNodes)
         /\ hooked' \in [Handlers -> Watchers \cup {NULL}]
         /\ kept' \subseteq Handlers
<1> DEFINE H == HNodes \cup {NULL}
           M(v) == {v} \cup Hooked(v)
<1>1. /\ w \in HNodes /\ h \in HNodes /\ w # h /\ NULL \notin Watchers
      /\ \A v \in Watchers : v \notin Handlers
      /\ \A v \in Watchers : M(v) \subseteq HNodes
  BY NodesAssumption DEF HNodes, Hooked
<1>2. hl \in HeapOf(HNodes, H)
  BY HeapIsHeapOf DEF TypeOK
<1>3. /\ hl' = ListAppend(hl, w, h)
      /\ hooked' = [hooked EXCEPT ![h] = w]
      /\ kept' = kept \ {h}
      /\ UNCHANGED <<sig, cb, calls>>
  BY DEF Hook
<1>4. PICK r \in Ranks(HNodes) :
        /\ \A v \in Watchers : Initialised(v) => Ring(hl, v, M(v), r)
        /\ Dispatched(r)
  BY DEF HandlerInv, HandlerRings
<1>5. /\ hooked' \in [Handlers -> Watchers \cup {NULL}]
      /\ hooked'[h] = w
      /\ \A x \in Handlers \ {h} : hooked'[x] = hooked[x]
  BY <1>3 DEF TypeOK
<1>6. /\ \A v \in Watchers \ {w} : M(v)' = M(v)
      /\ M(w)' = M(w) \cup {h}
      /\ \A v \in Watchers : h \notin M(v)
  BY <1>1, <1>5 DEF Hooked
<1>7. PICK p \in HNodes : p = hl.prev[w] /\ p \in M(w)
  BY <1>1, <1>4 DEF Ring
<1>8. PICK s \in Ranks(HNodes) :
        /\ s = [r EXCEPT ![h] = r[p] + 1]
        /\ \A x \in HNodes \ {h} : s[x] = r[x]
  <2> DEFINE s == [r EXCEPT ![h] = r[p] + 1]
  <2>1. s \in Ranks(HNodes) /\ \A x \in HNodes \ {h} : s[x] = r[x]
    BY <1>1, <1>4 DEF Ranks
  <2> QED
    BY <2>1
<1>9. hl' \in HeapOf(HNodes, H) /\ Ring(hl', w, M(w)', s)
  <2>1. Ring(hl, w, M(w), r) /\ M(w) \in SUBSET HNodes
    BY <1>1, <1>4
  <2>2. h \in HNodes \ M(w)
    BY <1>1, <1>6
  <2>3. /\ hl' \in HeapOf(HNodes, H)
        /\ Ring(hl', w, M(w) \cup {h}, [r EXCEPT ![h] = r[hl.prev[w]] + 1])
    <3> HIDE DEF M
    <3> QED
      BY <1>2, <1>3, <1>4, <2>1, <2>2, RingAppend
  <2>4. Ring(hl', w, M(w) \cup {h}, s)
    BY <1>7, <1>8, <2>3
  <2> QED
    BY <1>6, <2>3, <2>4
<1>10. \A x \in HNodes :
         /\ hl'.next[x] = IF x = p THEN h ELSE IF x = h THEN w ELSE hl.next[x]
         /\ hl'.prev[x] = IF x = w THEN h ELSE IF x = h THEN p ELSE hl.prev[x]
  <2>1. p # h
    BY <1>6, <1>7
  <2> QED
    BY <1>1, <1>2, <1>3, <1>7, <2>1, AppendPointers
<1>11. ASSUME NEW v \in Watchers \ {w}, Initialised(v)
       PROVE  Ring(hl', v, M(v)', s)
  <2>1. M(v) \cap M(w) = {}
    BY <1>1 DEF Hooked
  <2>2. \A x \in M(v) : x # p /\ x # h /\ x # w /\ x \in HNodes
    BY <1>1, <1>6, <1>7, <2>1
  <2>3. Ring(hl, v, M(v), r)
    BY <1>4, <1>11
  <2>4. \A x \in M(v) :
          hl'.next[x] = hl.next[x] /\ hl'.prev[x] = hl.prev[x] /\ s[x] = r[x]
    BY <1>8, <1>10, <2>2
  <2>5. Ring(hl', v, M(v), s)
    <3> HIDE DEF M
    <3> QED
      BY <2>3, <2>4, RingSame
  <2> QED
    BY <1>6, <2>5
<1>12. \A v \in Watchers : Initialised(v)' <=> Initialised(v)
  BY <1>3 DEF Initialised
<1>13. CursorInRing'
  BY <1>1, <1>3, <1>5 DEF HandlerInv, CursorInRing, DispatchInitialised
<1>14. Dispatched(s)'
  <2> SUFFICES ASSUME cb.at = "handler", NEW x \in kept \ {h}
               PROVE  /\ hooked'[x] = cb.watcher
                      /\ calls[x] = IF cb.next = cb.watcher \/ s[x] < s[cb.next]
                                    THEN 1 ELSE 0
    BY <1>3 DEF Dispatched
  <2>1. /\ x \in Handlers /\ x \in HNodes /\ hooked[x] = cb.watcher
        /\ calls[x] = IF cb.next = cb.watcher \/ r[x] < r[cb.next] THEN 1 ELSE 0
    BY <1>4 DEF Dispatched, TypeOK, HNodes
  <2>2. cb.next = cb.watcher \/ (cb.next # h /\ cb.next \in HNodes)
    BY <1>1 DEF HandlerInv, CursorInRing, DispatchInitialised, HNodes
  <2>3. hooked'[x] = hooked[x] /\ s[x] = r[x]
    BY <1>5, <1>8, <2>1
  <2>4. cb.next # cb.watcher => s[cb.next] = r[cb.next]
    BY <1>8, <2>2
  <2> QED
    BY <2>1, <2>3, <2>4
<1>15. HandlerRings'
  BY <1>8, <1>9, <1>11, <1>12, <1>14 DEF HandlerRings
<1>16. HooksInitialised'
  BY <1>3, <1>5 DEF HandlerInv, HooksInitialised, Initialised
<1>17. DispatchInitialised'
  BY <1>3 DEF HandlerInv, DispatchInitialised, Initialised
<1>18. kept' \subseteq Handlers
  BY <1>3 DEF TypeOK
<1>19. hl' \in Heap(HNodes)
  BY <1>9, HeapIsHeapOf
<1>20. HandlerInv'
  BY <1>13, <1>15, <1>16, <1>17 DEF HandlerInv
<1> QED
  BY <1>5, <1>18, <1>19, <1>20

LEMMA SancusSignalHandlerAdd2Inv ==
  ASSUME IInv, NEW h \in Handlers, NEW w \in Watchers, SancusSignalHandlerAdd2(h, w)
  PROVE  IInv'
<1>1. /\ hooked[h] = NULL /\ Initialised(w) /\ Hook(h, w)
      /\ UNCHANGED <<loop, wl, sig, raised, pending, running, cb, closing, calls>>
  BY DEF SancusSignalHandlerAdd2
<1>2. /\ HandlerInv'
      /\ hl' \in Heap(HNodes)
      /\ hooked' \in [Handlers -> Watchers \cup {NULL}]
      /\ kept' \subseteq Handlers
  BY <1>1, HookInv DEF IInv
<1>3. TypeOK'
  BY <1>1, <1>2 DEF IInv, TypeOK
<1>4. WatcherInv'
  BY <1>1, WatcherSame DEF IInv
<1> QED
  BY <1>2, <1>3, <1>4 DEF IInv

(* Hooked nowhere, the handler is alone in a ring nobody walks.            *)
LEMMA SancusSignalHandlerAddInv ==
  ASSUME IInv, NEW h \in Handlers, NEW n \in Signals, SancusSignalHandlerAdd(h, n)
  PROVE  IInv'
<1>1. /\ hooked[h] = NULL /\ loop
      /\ UNCHANGED <<loop, wl, sig, raised, pending, running, cb, closing, calls>>
  BY DEF SancusSignalHandlerAdd
<1>2. /\ HandlerInv'
      /\ hl' \in Heap(HNodes)
      /\ hooked' \in [Handlers -> Watchers \cup {NULL}]
      /\ kept' \subseteq Handlers
  <2>1. CASE \E w \in FindWatcher(n) : Hook(h, w)
    <3>1. PICK w \in FindWatcher(n) : Hook(h, w)
      BY <2>1
    <3>2. w \in Watchers /\ Initialised(w)
      BY <1>1, ListedIsActive DEF IInv, FindWatcher, WatcherInv, Active
    <3> QED
      BY <1>1, <3>1, <3>2, HookInv DEF IInv
  <2>2. CASE hl' = ListInit(hl, h) /\ UNCHANGED <<hooked, kept>>
    <3> DEFINE H == HNodes \cup {NULL}
    <3>1. /\ h \in HNodes
          /\ \A v \in Watchers :
               h \notin {v} \cup Hooked(v) /\ {v} \cup Hooked(v) \subseteq HNodes
      BY <1>1, NodesAssumption DEF HNodes, Hooked
    <3>2. hl \in HeapOf(HNodes, H)
      BY HeapIsHeapOf DEF IInv, TypeOK
    <3>3. /\ hl' \in HeapOf(HNodes, H)
          /\ \A x \in HNodes : x # h => /\ hl'.next[x] = hl.next[x]
                                        /\ hl'.prev[x] = hl.prev[x]
      BY <2>2, <3>1, <3>2, InitPointers
    <3>4. PICK r \in Ranks(HNodes) :
            /\ \A v \in Watchers : Initialised(v) => Ring(hl, v, {v} \cup Hooked(v), r)
            /\ Dispatched(r)
      BY DEF IInv, HandlerInv, HandlerRings
    <3>5. \A v \in Watchers : /\ Initialised(v)' <=> Initialised(v)
                              /\ Hooked(v)' = Hooked(v)
      BY <1>1, <2>2 DEF Initialised, Hooked
    <3>6. ASSUME NEW v \in Watchers, Initialised(v)
          PROVE  Ring(hl', v, {v} \cup Hooked(v), r)
      <4>1. Ring(hl, v, {v} \cup Hooked(v), r)
        BY <3>4, <3>6
      <4>2. \A x \in {v} \cup Hooked(v) :
              hl'.next[x] = hl.next[x] /\ hl'.prev[x] = hl.prev[x]
        BY <3>1, <3>3
      <4> QED
        BY <4>1, <4>2, RingSame
    <3>7. Dispatched(r)'
      BY <1>1, <2>2, <3>4 DEF Dispatched
    <3>8. HandlerRings'
      BY <3>4, <3>5, <3>6, <3>7 DEF HandlerRings
    <3>9. HandlerInv'
      BY <1>1, <2>2, <3>8
      DEF IInv, HandlerInv, HooksInitialised, DispatchInitialised, CursorInRing,
          Initialised
    <3> QED
      BY <1>1, <2>2, <3>3, <3>9, HeapIsHeapOf DEF IInv, TypeOK
  <2> QED
    BY <2>1, <2>2 DEF SancusSignalHandlerAdd
<1>3. TypeOK'
  BY <1>1, <1>2 DEF IInv, TypeOK
<1>4. WatcherInv'
  BY <1>1, WatcherSame DEF IInv
<1> QED
  BY <1>2, <1>3, <1>4 DEF IInv

(* sancus_list_del() of a handler that is not under the cursor.            *)
LEMMA HandlerDelInv ==
  ASSUME IInv, NEW h \in Handlers, HandlerDel(h)
  PROVE  IInv'
<1> DEFINE H == HNodes \cup {NULL}
           M(v) == {v} \cup Hooked(v)
           p == hl.prev[h]
           x == hl.next[h]
<1>1. /\ hooked[h] # NULL
      /\ cb.at = "handler" => h # cb.next
      /\ hl' = ListDel(hl, h)
      /\ hooked' = [hooked EXCEPT ![h] = NULL]
      /\ kept' = kept \ {h}
      /\ UNCHANGED <<loop, wl, sig, raised, pending, running, cb, closing, calls>>
  BY DEF HandlerDel
<1>0. PICK w \in Watchers : w = hooked[h]
  BY <1>1 DEF IInv, TypeOK
<1>2. /\ Initialised(w) /\ h \in HNodes /\ NULL \notin Watchers
      /\ \A v \in Watchers : v \notin Handlers
      /\ \A v \in Watchers : M(v) \subseteq HNodes
      /\ h \in M(w) \ {w}
  BY <1>0, <1>1, NodesAssumption
  DEF IInv, TypeOK, HandlerInv, HooksInitialised, HNodes, Hooked
<1>3. hl \in HeapOf(HNodes, H)
  BY HeapIsHeapOf DEF IInv, TypeOK
<1>4. PICK r \in Ranks(HNodes) :
        /\ \A v \in Watchers : Initialised(v) => Ring(hl, v, M(v), r)
        /\ Dispatched(r)
  BY DEF IInv, HandlerInv, HandlerRings
<1>5. /\ hooked' \in [Handlers -> Watchers \cup {NULL}]
      /\ hooked'[h] = NULL
      /\ \A y \in Handlers \ {h} : hooked'[y] = hooked[y]
  BY <1>1 DEF IInv, TypeOK
<1>6. /\ \A v \in Watchers \ {w} : M(v)' = M(v)
      /\ M(w)' = M(w) \ {h}
  BY <1>0, <1>2, <1>5 DEF Hooked
<1>7. p \in M(w) /\ x \in M(w) /\ p \in HNodes /\ x \in HNodes
  BY <1>2, <1>4 DEF Ring
<1>8. hl' \in HeapOf(HNodes, H) /\ Ring(hl', w, M(w)', r)
  <2>1. Ring(hl, w, M(w), r) /\ M(w) \in SUBSET HNodes
    BY <1>2, <1>4
  <2> HIDE DEF M
  <2> QED
    BY <1>1, <1>2, <1>3, <1>4, <1>6, <2>1, RingDel
<1>9. \A y \in HNodes : /\ hl'.next[y] = IF y = p THEN x ELSE hl.next[y]
                        /\ hl'.prev[y] = IF y = x THEN p ELSE hl.prev[y]
  BY <1>1, <1>2, <1>3, <1>7, DelPointers
<1> HIDE DEF p, x
<1>10. ASSUME NEW v \in Watchers \ {w}, Initialised(v)
       PROVE  Ring(hl', v, M(v)', r)
  <2>1. M(v) \cap M(w) = {}
    BY <1>2 DEF Hooked
  <2>2. \A y \in M(v) : y # p /\ y # x /\ y \in HNodes
    BY <1>2, <1>7, <2>1
  <2>3. Ring(hl, v, M(v), r)
    BY <1>4, <1>10
  <2>4. Ring(hl', v, M(v), r)
    <3> HIDE DEF M
    <3> QED
      BY <1>9, <2>2, <2>3, RingSame
  <2> QED
    BY <1>6, <2>4
<1>11. \A v \in Watchers : Initialised(v)' <=> Initialised(v)
  BY <1>1 DEF Initialised
<1>12. Dispatched(r)'
  BY <1>1, <1>4, <1>5 DEF Dispatched, IInv, TypeOK
<1>13. HandlerRings'
  BY <1>4, <1>8, <1>10, <1>11, <1>12 DEF HandlerRings
<1>14. HooksInitialised'
  BY <1>1, <1>5 DEF IInv, HandlerInv, HooksInitialised, Initialised
<1>15. DispatchInitialised'
  BY <1>1 DEF IInv, HandlerInv, DispatchInitialised, Initialised
<1>16. CursorInRing'
  BY <1>1, <1>5 DEF IInv, HandlerInv, CursorInRing
<1>17. TypeOK'
  <2>1. hl' \in Heap(HNodes)
    BY <1>8, HeapIsHeapOf
  <2>2. kept' \subseteq Handlers
    BY <1>1 DEF IInv, TypeOK
  <2> QED
    BY <1>1, <1>5, <2>1, <2>2 DEF IInv, TypeOK
<1>18. WatcherInv'
  BY <1>1, WatcherSame DEF IInv
<1> QED
  BY <1>13, <1>14, <1>15, <1>16, <1>17, <1>18 DEF IInv, HandlerInv

-----------------------------------------------------------------------------
(* signal.c: signal_callback()                                             *)

(* One step of its for statement, from a node of the ring: item, the next  *)
(* one to stand on, is the watcher or a handler hooked to it, and what     *)
(* comes before it has been called.                                        *)
LEMMA DispatchInv ==
  ASSUME TypeOK, HandlerInv, NEW w \in Watchers, Initialised(w),
         NEW item, item = w \/ item \in Hooked(w),
         NEW K \in SUBSET Hooked(w), kept' = IF item # w THEN K ELSE {},
         NEW r \in Ranks(HNodes),
         \A v \in Watchers : Initialised(v) => Ring(hl, v, {v} \cup Hooked(v), r),
         \A h \in K : calls[h] = IF item = w \/ r[h] < r[item] THEN 1 ELSE 0,
         Dispatch(w, item), UNCHANGED <<hl, sig, hooked>>
  PROVE  /\ HandlerInv'
         /\ cb' \in [at : {"none", "handler", "own"}, watcher : Watchers \cup {NULL},
                     item : HNodes \cup {NULL}, next : HNodes \cup {NULL}]
         /\ calls' \in [Handlers -> 0..2]
         /\ kept' \subseteq Handlers
<1>1. /\ w \notin Handlers /\ w \in HNodes /\ Hooked(w) \subseteq Handlers
      /\ Handlers \subseteq HNodes /\ \A h \in Hooked(w) : hooked[h] = w
  BY NodesAssumption DEF HNodes, Hooked
<1>2. /\ \A v \in Watchers : Initialised(v)' <=> Initialised(v)
      /\ \A v \in Watchers : Hooked(v)' = Hooked(v)
  BY DEF Initialised, Hooked
<1>3. HooksInitialised'
  BY DEF HandlerInv, HooksInitialised, Initialised
<1>4. CASE item = w
  <2>1. /\ cb' = IF sig[w].h THEN [NoCall EXCEPT !.at = "own", !.watcher = w]
                 ELSE NoCall
        /\ calls' = [h \in Handlers |-> 0] /\ kept' = {}
    BY <1>4 DEF Dispatch
  <2>2. /\ cb' \in [at : {"none", "handler", "own"}, watcher : Watchers \cup {NULL},
                    item : HNodes \cup {NULL}, next : HNodes \cup {NULL}]
        /\ cb'.at # "handler"
    BY <2>1 DEF NoCall
  <2>3. calls' \in [Handlers -> 0..2]
    BY <2>1
  <2>4. Dispatched(r)'
    BY <2>2 DEF Dispatched
  <2>5. HandlerRings'
    BY <1>2, <2>4 DEF HandlerRings
  <2>6. DispatchInitialised' /\ CursorInRing'
    BY <2>1, <2>2 DEF DispatchInitialised, CursorInRing
  <2> QED
    BY <1>3, <2>1, <2>2, <2>3, <2>5, <2>6 DEF HandlerInv
<1>5. CASE item # w
  <2>1. /\ cb' = [at |-> "handler", watcher |-> w, item |-> item,
                  next |-> hl.next[item]]
        /\ calls' = [h \in Handlers |-> IF h = item /\ calls[h] < 2
                                        THEN calls[h] + 1 ELSE calls[h]]
        /\ kept' = K
    BY <1>5 DEF Dispatch
  <2>2. item \in Hooked(w) /\ item \in Handlers
    BY <1>1, <1>5
  <2>3. PICK x \in {w} \cup Hooked(w) : x = hl.next[item]
    BY <2>2 DEF Ring
  <2>4. cb' \in [at : {"none", "handler", "own"}, watcher : Watchers \cup {NULL},
                 item : HNodes \cup {NULL}, next : HNodes \cup {NULL}]
    BY <1>1, <2>1, <2>2, <2>3
  <2>5. calls' \in [Handlers -> 0..2]
    <3>1. \A h \in Handlers : calls[h] \in 0..2
      BY DEF TypeOK
    <3>2. \A h \in Handlers :
            (IF h = item /\ calls[h] < 2 THEN calls[h] + 1 ELSE calls[h]) \in 0..2
      BY <3>1
    <3> QED
      BY <2>1, <3>2
  <2>6. kept' \subseteq Handlers
    BY <1>1, <2>1
  <2>7. ASSUME NEW h \in K
        PROVE  calls'[h] = IF x = w \/ r[h] < r[x] THEN 1 ELSE 0
    <3> DEFINE M == {w} \cup Hooked(w)
    <3>1. /\ h \in Handlers /\ h \in M /\ item \in M /\ Ring(hl, w, M, r)
          /\ \A n \in M : r[n] \in Nat
      BY <1>1, <2>2 DEF Ranks
    <3>2. calls[h] = IF r[h] < r[item] THEN 1 ELSE 0
      BY <1>5
    <3>3. CASE h = item
      <4>1. calls'[h] = 1
        BY <2>1, <3>1, <3>2, <3>3
      <4>2. x = w \/ r[h] < r[x]
        BY <2>3, <3>1, <3>3 DEF Ring
      <4> QED
        BY <4>1, <4>2
    <3>4. CASE h # item
      <4>1. calls'[h] = calls[h]
        BY <2>1, <3>1, <3>4
      <4>2. r[h] # r[item]
        BY <3>1, <3>4 DEF Ring
      <4>3. CASE r[h] < r[item]
        <5>1. x = w \/ r[item] < r[x]
          BY <2>3, <3>1 DEF Ring
        <5>2. x = w \/ r[h] < r[x]
          BY <2>3, <3>1, <4>3, <5>1
        <5> QED
          BY <3>2, <4>1, <4>3, <5>2
      <4>4. CASE r[item] < r[h]
        <5>1. x # w /\ r[x] <= r[h]
          BY <2>3, <3>1, <4>4 DEF Ring
        <5>2. ~(r[h] < r[x]) /\ ~(r[h] < r[item])
          BY <2>3, <3>1, <4>4, <5>1
        <5> QED
          BY <3>2, <4>1, <5>1, <5>2
      <4> QED
        BY <3>1, <4>2, <4>3, <4>4
    <3> QED
      BY <3>3, <3>4
  <2>8. Dispatched(r)'
    BY <1>1, <2>1, <2>3, <2>7 DEF Dispatched
  <2>9. HandlerRings'
    BY <1>2, <2>8 DEF HandlerRings
  <2>10. DispatchInitialised'
    BY <2>1 DEF DispatchInitialised, Initialised
  <2>11. CursorInRing'
    BY <1>1, <2>1, <2>2, <2>3 DEF CursorInRing
  <2> QED
    BY <1>3, <2>4, <2>5, <2>6, <2>9, <2>10, <2>11 DEF HandlerInv
<1> QED
  BY <1>4, <1>5

(* It starts at the first of the ring, before which there is nothing.      *)
LEMMA SignalCallbackInv ==
  ASSUME IInv, NEW w \in Watchers, SignalCallback(w)
  PROVE  IInv'
<1> DEFINE M == {w} \cup Hooked(w)
<1>1. /\ cb.at # "handler" /\ w \in pending /\ pending' = pending \ {w}
      /\ Dispatch(w, hl.next[w])
      /\ kept' = IF hl.next[w] # w THEN Hooked(w) ELSE {}
      /\ UNCHANGED <<loop, wl, hl, sig, raised, running, closing, hooked>>
  BY DEF SignalCallback, Idle, lists, Hooked
<1>2. Initialised(w)
  BY <1>1 DEF IInv, TypeOK, WatcherInv
<1>3. PICK r \in Ranks(HNodes) :
        \A v \in Watchers : Initialised(v) => Ring(hl, v, {v} \cup Hooked(v), r)
  BY DEF IInv, HandlerInv, HandlerRings
<1>4. PICK item \in M : item = hl.next[w]
  BY <1>2, <1>3 DEF Ring
<1>5. \A h \in Hooked(w) : calls[h] = 0
  BY <1>1 DEF IInv, HandlerInv, DispatchInitialised, Hooked
<1>6. \A h \in Hooked(w) : item # w /\ ~(r[h] < r[item])
  <2> TAKE h \in Hooked(w)
  <2>1. h # w /\ M \subseteq HNodes
    BY NodesAssumption DEF Hooked, HNodes
  <2>2. r[w] < r[h]
    BY <1>2, <1>3, <2>1 DEF Ring
  <2>3. item # w /\ r[item] <= r[h]
    BY <1>2, <1>3, <1>4, <2>2 DEF Ring
  <2>4. r[item] \in Nat /\ r[h] \in Nat
    BY <1>4, <2>1 DEF Ranks
  <2> QED
    BY <2>3, <2>4
<1>7. \A h \in Hooked(w) : calls[h] = IF item = w \/ r[h] < r[item] THEN 1 ELSE 0
  BY <1>5, <1>6
<1>8. Dispatch(w, item) /\ kept' = IF item # w THEN Hooked(w) ELSE {}
  BY <1>1, <1>4
<1>9. /\ HandlerInv'
      /\ cb' \in [at : {"none", "handler", "own"}, watcher : Watchers \cup {NULL},
                  item : HNodes \cup {NULL}, next : HNodes \cup {NULL}]
      /\ calls' \in [Handlers -> 0..2]
      /\ kept' \subseteq Handlers
  BY <1>1, <1>2, <1>3, <1>4, <1>7, <1>8, DispatchInv DEF IInv
<1>10. TypeOK'
  BY <1>1, <1>9 DEF IInv, TypeOK
<1>11. WatcherInv'
  BY <1>1, WatcherSame DEF IInv
<1> QED
  BY <1>9, <1>10, <1>11 DEF IInv

LEMMA HandlerReturnsInv ==
  ASSUME IInv, HandlerReturns
  PROVE  IInv'
<1>1. PICK w \in Watchers : w = cb.watcher /\ Initialised(w)
  BY DEF IInv, HandlerInv, DispatchInitialised, HandlerReturns
<1>2. PICK item : item = cb.next
  OBVIOUS
<1>3. /\ cb.at = "handler" /\ Dispatch(w, item)
      /\ kept' = IF item # w THEN kept ELSE {}
      /\ UNCHANGED <<loop, wl, hl, sig, raised, pending, running, closing, hooked>>
  BY <1>1, <1>2 DEF HandlerReturns, lists
<1>4. item = w \/ item \in Hooked(w)
  BY <1>1, <1>2, <1>3 DEF IInv, HandlerInv, CursorInRing, Hooked
<1>5. PICK r \in Ranks(HNodes) :
        /\ \A v \in Watchers : Initialised(v) => Ring(hl, v, {v} \cup Hooked(v), r)
        /\ Dispatched(r)
  BY DEF IInv, HandlerInv, HandlerRings
<1>6. PICK K \in SUBSET Hooked(w) : K = kept
  BY <1>1, <1>3, <1>5 DEF Dispatched, Hooked, IInv, TypeOK
<1>7. \A h \in K : calls[h] = IF item = w \/ r[h] < r[item] THEN 1 ELSE 0
  BY <1>1, <1>2, <1>3, <1>5, <1>6 DEF Dispatched
<1>8. kept' = IF item # w THEN K ELSE {}
  BY <1>3, <1>6
<1>9. /\ HandlerInv'
      /\ cb' \in [at : {"none", "handler", "own"}, watcher : Watchers \cup {NULL},
                  item : HNodes \cup {NULL}, next : HNodes \cup {NULL}]
      /\ calls' \in [Handlers -> 0..2]
      /\ kept' \subseteq Handlers
  BY <1>1, <1>3, <1>4, <1>5, <1>7, <1>8, DispatchInv DEF IInv
<1>10. TypeOK'
  BY <1>3, <1>9 DEF IInv, TypeOK
<1>11. WatcherInv'
  BY <1>3, WatcherSame DEF IInv
<1> QED
  BY <1>9, <1>10, <1>11 DEF IInv

LEMMA OwnReturnsInv ==
  ASSUME IInv, OwnReturns
  PROVE  IInv'
<1>1. /\ cb.at = "own" /\ cb' = NoCall
      /\ UNCHANGED <<loop, wl, hl, sig, raised, pending, running, closing, hooked,
                     calls, kept>>
  BY DEF OwnReturns, lists, history
<1>2. TypeOK'
  <2>1. cb' \in [at : {"none", "handler", "own"}, watcher : Watchers \cup {NULL},
                 item : HNodes \cup {NULL}, next : HNodes \cup {NULL}]
    BY <1>1 DEF NoCall
  <2> QED
    BY <1>1, <2>1 DEF IInv, TypeOK
<1>3. HandlerInv'
  <2>1. cb'.at # "handler"
    BY <1>1 DEF NoCall
  <2>2. \A w \in Watchers : (Initialised(w)' <=> Initialised(w)) /\ Hooked(w)' = Hooked(w)
    BY <1>1 DEF Initialised, Hooked
  <2>3. HandlerRings'
    BY <1>1, <2>1, <2>2 DEF IInv, HandlerInv, HandlerRings, Dispatched
  <2> QED
    BY <1>1, <2>1, <2>3
    DEF IInv, HandlerInv, HooksInitialised, DispatchInitialised, CursorInRing,
        Initialised
<1>4. WatcherInv'
  BY <1>1, WatcherSame DEF IInv
<1> QED
  BY <1>2, <1>3, <1>4 DEF IInv

-----------------------------------------------------------------------------
(* sancus_run() and libev: these write neither list.                       *)

LEMMA LoopInv ==
  ASSUME IInv, SancusRun \/ Poll \/ RunReturns \/ \E n \in Signals : Raise(n)
  PROVE  IInv'
<1>1. UNCHANGED <<loop, wl, hl, sig, cb, closing, hooked, calls, kept>>
  BY DEF SancusRun, Poll, RunReturns, Raise, lists, history
<1>2. running' \in BOOLEAN /\ raised' \subseteq Signals
  BY DEF IInv, TypeOK, SancusRun, Poll, RunReturns, Raise
<1>3. pending' \subseteq {w \in Watchers : sig'[w].active}
  BY <1>1 DEF IInv, TypeOK, SancusRun, Poll, RunReturns, Raise, Active
<1>4. TypeOK'
  BY <1>1, <1>2, <1>3 DEF IInv, TypeOK
<1>5. WatcherInv' /\ HandlerInv'
  BY <1>1, WatcherSame, HandlerSame DEF IInv
<1> QED
  BY <1>4, <1>5 DEF IInv

LEMMA StutterInv ==
  ASSUME IInv, UNCHANGED vars
  PROVE  IInv'
<1>1. UNCHANGED <<loop, wl, hl, sig, raised, pending, running, cb, closing, hooked,
                  calls, kept>>
  BY DEF vars
<1>2. TypeOK'
  BY <1>1 DEF IInv, TypeOK
<1>3. WatcherInv' /\ HandlerInv'
  BY <1>1, WatcherSame, HandlerSame DEF IInv
<1> QED
  BY <1>2, <1>3 DEF IInv

-----------------------------------------------------------------------------
(* The invariant holds in every reachable state.                           *)

LEMMA NextInv == IInv /\ [Next]_vars => IInv'
<1> SUFFICES ASSUME IInv, [Next]_vars PROVE IInv'
  OBVIOUS
<1>1. CASE Client
  BY <1>1, DefaultsAssumption, SancusInitInv, LoopInv, SancusStateCloseInv,
     SancusSignalWatcherAddInv, SancusSignalWatcherCloseInv,
     SancusSignalHandlerAdd2Inv, SancusSignalHandlerAddInv, HandlerDelInv
  DEF Client
<1>2. CASE Library
  BY <1>2, SignalCallbackInv, HandlerReturnsInv, OwnReturnsInv, CloseStepInv,
     LoopInv
  DEF Library
<1>3. CASE \E n \in Signals : Raise(n)
  BY <1>3, LoopInv
<1>4. CASE UNCHANGED vars
  BY <1>4, StutterInv
<1> QED
  BY <1>1, <1>2, <1>3, <1>4 DEF Next

(* The inductive invariant of SignalState: the lists are rings of the      *)
(* watchers that are active and of the handlers that are hooked.           *)
THEOREM SignalInvariant == Spec => []IInv
  BY InitInv, NextInv, PTL DEF Spec

-----------------------------------------------------------------------------
(* What follows for the program.                                           *)

(* Every variable keeps its type; in particular only active watchers are   *)
(* collected by libev, never one that was stopped since.                   *)
THEOREM SignalTypeCorrect == Spec => []TypeOK
<1>1. IInv => TypeOK
  BY DEF IInv
<1> QED
  BY <1>1, SignalInvariant, PTL

(* What _find_watcher() and sancus_state_close() walk is what libev has    *)
(* active, the walk ends, and both links of every node agree, also in the  *)
(* middle of sancus_state_close().                                         *)
THEOREM WatchersListed == Spec => []ListedAreActive
<1>1. IInv => ListedAreActive
  <2> SUFFICES ASSUME IInv, loop PROVE ListedAreActive
    BY DEF ListedAreActive
  <2>1. Listed = Active /\ ListEnds(wl, State, Cardinality(WNodes))
    BY ListedIsActive DEF IInv
  <2>2. \A w \in Active \cup {State} : Linked(wl, w)
    BY DEF IInv, WatcherInv, Ring
  <2> QED
    BY <2>1, <2>2 DEF ListedAreActive
<1> QED
  BY <1>1, SignalInvariant, PTL

(* The ring of an initialised watcher holds exactly the handlers hooked to *)
(* it, whatever was added, deleted, closed and initialised again, from a   *)
(* handler or elsewhere.                                                   *)
THEOREM HandlersHooked == Spec => []HandlersAreHooked
<1>1. IInv => HandlersAreHooked
  <2> SUFFICES ASSUME IInv, NEW w \in Watchers, Initialised(w)
               PROVE  /\ HandlersOf(w) = {h \in Handlers : hooked[h] = w}
                      /\ ListEnds(hl, w, Cardinality(HNodes))
                      /\ \A n \in HandlersOf(w) \cup {w} : Linked(hl, n)
    BY DEF HandlersAreHooked
  <2>1. HandlersOf(w) = Hooked(w) /\ ListEnds(hl, w, Cardinality(HNodes))
    BY HandlersOfIsHooked DEF IInv
  <2>2. \A n \in {w} \cup Hooked(w) : Linked(hl, n)
    BY DEF IInv, HandlerInv, HandlerRings, Ring
  <2> QED
    BY <2>1, <2>2 DEF Hooked
<1> QED
  BY <1>1, SignalInvariant, PTL

(* Two active watchers never watch the same signal.                        *)
THEOREM FirstWatcherOnly == Spec => []OneWatcherPerSignal
<1>1. IInv => OneWatcherPerSignal
  BY DEF IInv, WatcherInv
<1> QED
  BY <1>1, SignalInvariant, PTL

(* The cursor of signal_callback() stays in the ring of its watcher,       *)
(* whatever the handler does but for one thing: unhook the handler that is *)
(* next, which the guard of HandlerDel excludes.                           *)
THEOREM CursorStays == Spec => []CursorInRing
<1>1. IInv => CursorInRing
  BY DEF IInv, HandlerInv
<1> QED
  BY <1>1, SignalInvariant, PTL

(* When the dispatch of a signal leaves its last handler, each handler     *)
(* that was hooked when it began, and that nobody touched since, has been  *)
(* called exactly once: under the same guard.                              *)
THEOREM HandlersCalledOnce == Spec => EachHandlerOnce
<1>1. IInv /\ [Next]_vars =>
        [cb.at = "handler" /\ cb'.at # "handler" => \A h \in kept : calls[h] = 1]_vars
  <2> SUFFICES ASSUME IInv, [Next]_vars, cb.at = "handler", cb'.at # "handler",
                      NEW h \in kept
               PROVE  calls[h] = 1
    OBVIOUS
  <2>1. cb' # cb
    OBVIOUS
  <2>2. HandlerReturns
    BY <2>1
    DEF Next, Client, Library, vars, history, lists, SancusInit, SancusRun,
        SancusStateClose, SancusSignalWatcherAdd, SancusSignalWatcherClose,
        SancusSignalHandlerAdd2, SancusSignalHandlerAdd, HandlerDel,
        SignalCallback, Idle, OwnReturns, CloseStep, Poll, RunReturns, Raise
  <2>3. cb.next = cb.watcher
    BY <2>2 DEF HandlerReturns, Dispatch
  <2> QED
    BY <2>3 DEF IInv, HandlerInv, HandlerRings, Dispatched
<1> QED
  BY <1>1, SignalInvariant, PTL DEF Spec, EachHandlerOnce

(* When sancus_state_close() returns, no watcher is active, pending or     *)
(* listed, although the walk unlinks every node it stands on.              *)
THEOREM CloseClosesAll == Spec => StateCloseClosesAll
<1>1. IInv /\ [Next]_vars =>
        [closing # NULL /\ closing' = NULL =>
           Active = {} /\ pending = {} /\ ListIsEmpty(wl, State)]_vars
  <2> SUFFICES ASSUME IInv, [Next]_vars, closing # NULL, closing' = NULL
               PROVE  Active = {} /\ pending = {} /\ ListIsEmpty(wl, State)
    OBVIOUS
  <2>1. closing' # closing
    OBVIOUS
  <2>2. CloseStep
    BY <2>1
    DEF Next, Client, Library, vars, history, lists, SancusInit, SancusRun,
        ClientRuns, SancusStateClose, SancusSignalWatcherAdd,
        SancusSignalWatcherClose, SancusSignalHandlerAdd2,
        SancusSignalHandlerAdd, HandlerDel, SignalCallback, Idle,
        HandlerReturns, OwnReturns, Poll, RunReturns, Raise
  <2>3. PICK r \in Ranks(WNodes) : Ring(wl, State, Active \cup {State}, r)
    BY DEF IInv, WatcherInv
  <2>4. closing = State
    <3> SUFFICES ASSUME closing # State PROVE FALSE
      OBVIOUS
    <3>1. /\ WatcherClose(closing) /\ closing' = wl'.next[closing]
          /\ closing \in Watchers /\ loop' = loop
      BY <2>2 DEF CloseStep, IInv, TypeOK, WNodes
    <3>2. sig[closing].active
      BY <2>3, <3>1, NodesAssumption DEF IInv, WatcherInv, Ring, Active
    <3>3. wl' = ListDel(wl, closing)
      BY <3>1, <3>2 DEF WatcherClose
    <3>4. /\ closing \in Active /\ wl.next[closing] \in Active \cup {State}
          /\ wl.prev[closing] \in Active \cup {State}
      BY <2>3, <3>1, <3>2 DEF Active, Ring
    <3>5. /\ wl \in HeapOf(WNodes, WNodes \cup {NULL}) /\ closing \in WNodes
          /\ wl.next[closing] \in WNodes /\ wl.prev[closing] \in WNodes
      BY <3>1, <3>4, HeapIsHeapOf DEF IInv, TypeOK, WNodes, Active
    <3>6. wl'.next[closing] = wl.next[closing]
      BY <3>3, <3>5, DelPointers
    <3> QED
      BY <3>1, <3>5, <3>6, NodesAssumption DEF WNodes
  <2>5. wl.next[State] = State
    BY <2>4 DEF IInv, WatcherInv
  <2>6. Active = {}
    BY <2>3, <2>5, NodesAssumption DEF Ring, Active, Ranks, WNodes
  <2>7. pending = {}
    BY <2>6 DEF IInv, TypeOK, Active
  <2> QED
    BY <2>5, <2>6, <2>7 DEF ListIsEmpty
<1> QED
  BY <1>1, SignalInvariant, PTL DEF Spec, StateCloseClosesAll
=============================================================================
