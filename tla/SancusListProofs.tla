--------------------------- MODULE SancusListProofs ---------------------------
(***************************************************************************)
(* What the operators of SancusList do to a ring, and that a walk through  *)
(* one visits what is in it and ends. For heaps of any size.               *)
(***************************************************************************)
EXTENDS SancusList, NatSets, FiniteSetTheorems

(* The heaps of nodes N whose pointers are in V.                           *)
HeapOf(N, V) == [prev : [N -> V], next : [N -> V]]

(* The nodes M are a ring with head h. What says that it is one ring, and  *)
(* not several, is a rank: following next, the ranks of M rise, to the     *)
(* next higher one there is, until h.                                      *)
Ring(l, h, M, r) ==
  /\ h \in M
  /\ \A n \in M : l.next[n] \in M /\ l.prev[n] \in M /\ Linked(l, n)
  /\ \A n \in M : l.next[n] # h => r[n] < r[l.next[n]]
  /\ \A m, n \in M : r[m] < r[n] => l.next[m] # h /\ r[l.next[m]] <= r[n]
  /\ \A n \in M : n # h => r[h] < r[n]
  /\ \A m, n \in M : r[m] = r[n] => m = n

Ranks(N) == [N -> Nat]

-----------------------------------------------------------------------------
(* The operators, pointer by pointer.                                      *)

LEMMA InitPointers ==
  ASSUME NEW N, NEW V, N \subseteq V, NEW l \in HeapOf(N, V), NEW n \in N
  PROVE  /\ ListInit(l, n) \in HeapOf(N, V)
         /\ \A m \in N : /\ ListInit(l, n).next[m] = IF m = n THEN n ELSE l.next[m]
                         /\ ListInit(l, n).prev[m] = IF m = n THEN n ELSE l.prev[m]
  BY DEF HeapOf, ListInit

LEMMA AppendPointers ==
  ASSUME NEW N, NEW V, N \subseteq V, NEW l \in HeapOf(N, V), NEW n \in N, NEW h \in N,
         l.prev[h] \in N, n # h, l.prev[h] # n
  PROVE  /\ ListAppend(l, h, n) \in HeapOf(N, V)
         /\ \A m \in N :
              /\ ListAppend(l, h, n).next[m] =
                   IF m = l.prev[h] THEN n ELSE IF m = n THEN h ELSE l.next[m]
              /\ ListAppend(l, h, n).prev[m] =
                   IF m = h THEN n ELSE IF m = n THEN l.prev[h] ELSE l.prev[m]
  BY DEF HeapOf, ListAppend, ListInject

LEMMA DelPointers ==
  ASSUME NEW N, NEW V, N \subseteq V, NEW l \in HeapOf(N, V), NEW n \in N,
         l.prev[n] \in N, l.next[n] \in N
  PROVE  /\ ListDel(l, n) \in HeapOf(N, V)
         /\ \A m \in N :
              /\ ListDel(l, n).next[m] =
                   IF m = l.prev[n] THEN l.next[n] ELSE l.next[m]
              /\ ListDel(l, n).prev[m] =
                   IF m = l.next[n] THEN l.prev[n] ELSE l.prev[m]
  BY DEF HeapOf, ListDel, ListDelBetween

-----------------------------------------------------------------------------
(* Rings.                                                                  *)

(* A ring is a ring in every heap that agrees about its nodes.             *)
LEMMA RingSame ==
  ASSUME NEW l, NEW k, NEW h, NEW M, NEW r, NEW s, Ring(l, h, M, r),
         \A n \in M : k.next[n] = l.next[n] /\ k.prev[n] = l.prev[n] /\ s[n] = r[n]
  PROVE  Ring(k, h, M, s)
  BY DEF Ring, Linked

(* sancus_list_init makes a ring of one.                                   *)
LEMMA RingInit ==
  ASSUME NEW N, NEW V, N \subseteq V, NEW l \in HeapOf(N, V), NEW h \in N,
         NEW r \in Ranks(N)
  PROVE  Ring(ListInit(l, h), h, {h}, r)
  BY InitPointers DEF Ring, Linked, Ranks

(* sancus_list_append adds a node that is not in the ring.                 *)
THEOREM RingAppend ==
  ASSUME NEW N, NEW V, N \subseteq V, NEW l \in HeapOf(N, V), NEW M \in SUBSET N,
         NEW h, NEW r \in Ranks(N), Ring(l, h, M, r), NEW n \in N \ M
  PROVE  /\ ListAppend(l, h, n) \in HeapOf(N, V)
         /\ Ring(ListAppend(l, h, n), h, M \cup {n},
                 [r EXCEPT ![n] = r[l.prev[h]] + 1])
<1> DEFINE k == ListAppend(l, h, n)
           p == l.prev[h]
           s == [r EXCEPT ![n] = r[p] + 1]
<1>1. /\ h \in M /\ p \in M /\ h \in N /\ p \in N /\ n # h /\ p # n
      /\ l.next[p] = h
  BY DEF Ring, Linked
<1>2. /\ k \in HeapOf(N, V)
      /\ \A m \in N : /\ k.next[m] = IF m = p THEN n ELSE IF m = n THEN h ELSE l.next[m]
                      /\ k.prev[m] = IF m = h THEN n ELSE IF m = n THEN p ELSE l.prev[m]
  BY <1>1, AppendPointers
<1>3. /\ \A m \in M : s[m] = r[m] /\ r[m] \in Nat /\ r[m] <= r[p]
      /\ s[n] = r[p] + 1
  BY <1>1 DEF Ring, Ranks
<1> HIDE DEF k, s, p
<1>4. \A m \in M : l.next[m] = h => m = p
  BY <1>1 DEF Ring, Linked, p
<1>5. \A m \in M \cup {n} :
        k.next[m] \in M \cup {n} /\ k.prev[m] \in M \cup {n} /\ Linked(k, m)
  BY <1>1, <1>2, <1>4 DEF Ring, Linked, p
<1>6. \A m \in M \cup {n} : k.next[m] # h => s[m] < s[k.next[m]]
  BY <1>1, <1>2, <1>3, <1>4 DEF Ring
<1>7. \A m, x \in M \cup {n} : s[m] < s[x] => k.next[m] # h /\ s[k.next[m]] <= s[x]
  BY <1>1, <1>2, <1>3, <1>4 DEF Ring
<1>8. \A x \in M \cup {n} : x # h => s[h] < s[x]
  BY <1>1, <1>3 DEF Ring
<1>9. \A m, x \in M \cup {n} : s[m] = s[x] => m = x
  BY <1>1, <1>3 DEF Ring
<1> QED
  BY <1>1, <1>2, <1>5, <1>6, <1>7, <1>8, <1>9 DEF Ring, k, s, p

(* sancus_list_del takes a node out.                                       *)
THEOREM RingDel ==
  ASSUME NEW N, NEW V, N \subseteq V, NEW l \in HeapOf(N, V), NEW M \in SUBSET N,
         NEW h, NEW r \in Ranks(N), Ring(l, h, M, r), NEW n \in M \ {h}
  PROVE  /\ ListDel(l, n) \in HeapOf(N, V)
         /\ Ring(ListDel(l, n), h, M \ {n}, r)
<1> DEFINE k == ListDel(l, n)
           p == l.prev[n]
           x == l.next[n]
<1>1. /\ h \in M /\ p \in M /\ x \in M /\ l.next[p] = n /\ l.prev[x] = n
      /\ \A m \in M : r[m] \in Nat
  BY DEF Ring, Linked, Ranks
<1>2. /\ k \in HeapOf(N, V)
      /\ \A m \in N : /\ k.next[m] = IF m = p THEN x ELSE l.next[m]
                      /\ k.prev[m] = IF m = x THEN p ELSE l.prev[m]
  BY <1>1, DelPointers
<1>3. p # n /\ x # n
  BY <1>1 DEF Ring
<1> HIDE DEF k, p, x
<1>4. \A m \in M : (l.next[m] = n => m = p) /\ (l.prev[m] = n => m = x)
  BY <1>1 DEF Ring, Linked, p, x
<1>5. \A m \in M \ {n} :
        k.next[m] \in M \ {n} /\ k.prev[m] \in M \ {n} /\ Linked(k, m)
  BY <1>1, <1>2, <1>3, <1>4 DEF Ring, Linked
<1>6. \A m \in M \ {n} : k.next[m] # h => r[m] < r[k.next[m]]
  BY <1>1, <1>2 DEF Ring, x
<1>7. ASSUME NEW m \in M \ {n}, NEW y \in M \ {n}, r[m] < r[y]
      PROVE  k.next[m] # h /\ r[k.next[m]] <= r[y]
  <2>1. l.next[m] # h /\ r[l.next[m]] <= r[y]
    BY <1>7 DEF Ring
  <2>2. CASE m # p
    BY <1>2, <2>1, <2>2
  <2>3. CASE m = p
    <3>1. r[n] <= r[y] /\ r[n] \in Nat /\ r[y] \in Nat
      BY <1>1, <2>1, <2>3
    <3>2. r[n] # r[y]
      BY DEF Ring
    <3>3. r[n] < r[y]
      BY <3>1, <3>2
    <3>4. x # h /\ r[x] <= r[y]
      BY <3>3 DEF Ring, x
    <3> QED
      BY <1>2, <2>3, <3>4
  <2> QED
    BY <2>2, <2>3
<1> QED
  BY <1>1, <1>2, <1>5, <1>6, <1>7 DEF Ring, k

-----------------------------------------------------------------------------
(* sancus_list_foreach.                                                    *)

(* A walk starts at the head and follows next.                             *)
LEMMA WalkSteps ==
  ASSUME NEW l, NEW h, NEW k \in Nat
  PROVE  /\ ListWalk(l, h, k)[0] = h
         /\ \A i \in 1..k : ListWalk(l, h, k)[i] = l.next[ListWalk(l, h, k)[i - 1]]
<1> DEFINE IsWalk(f, j) ==
             f = [i \in 0..j |-> IF i = 0 THEN h ELSE l.next[f[i - 1]]]
           S == {j \in Nat : \E f : IsWalk(f, j)}
<1>1. 0 \in S
  <2>1. IsWalk([i \in 0..0 |-> h], 0)
    OBVIOUS
  <2> QED
    BY <2>1
<1>2. \A j \in S : j + 1 \in S
  <2> TAKE j \in S
  <2>1. PICK f : IsWalk(f, j)
    OBVIOUS
  <2> DEFINE g == [i \in 0..(j + 1) |-> IF i = j + 1 THEN l.next[f[j]] ELSE f[i]]
  <2>2. \A i \in 0..(j + 1) : g[i] = IF i = 0 THEN h ELSE l.next[g[i - 1]]
    <3> TAKE i \in 0..(j + 1)
    <3>1. CASE i = j + 1
      BY <3>1
    <3>2. CASE i \in 0..j
      BY <2>1, <3>2
    <3> QED
      BY <3>1, <3>2
  <2>3. IsWalk(g, j + 1)
    BY <2>2
  <2>4. \E f2 : IsWalk(f2, j + 1)
    <3> HIDE DEF IsWalk, g
    <3> QED
      BY <2>3
  <2> QED
    BY <2>4
<1>3. k \in S
  <2> HIDE DEF S
  <2>1. S \subseteq Nat
    BY DEF S
  <2> QED
    BY <1>1, <1>2, <2>1, NatSetInduction
<1>4. \E f : IsWalk(f, k)
  BY <1>3
<1>5. IsWalk(ListWalk(l, h, k), k)
  BY <1>4 DEF ListWalk
<1> QED
  BY <1>5

(* In a ring, it does not leave the ring.                                  *)
LEMMA WalkInRing ==
  ASSUME NEW l, NEW h, NEW M, NEW r, Ring(l, h, M, r), NEW k \in Nat
  PROVE  \A i \in 0..k : ListWalk(l, h, k)[i] \in M
<1> DEFINE at == ListWalk(l, h, k)
           S == {i \in Nat : i <= k => at[i] \in M}
<1>1. at[0] = h /\ \A i \in 1..k : at[i] = l.next[at[i - 1]]
  BY WalkSteps
<1> HIDE DEF at
<1>2. 0 \in S
  BY <1>1 DEF Ring
<1>3. \A i \in S : i + 1 \in S
  BY <1>1 DEF Ring
<1>4. S = Nat
  <2> HIDE DEF S
  <2>1. S \subseteq Nat
    BY DEF S
  <2> QED
    BY <1>2, <1>3, <2>1, NatSetInduction
<1> QED
  BY <1>4 DEF at

(* A walk meets the head again: if it did not, the ranks would rise all    *)
(* the way, and a heap has only so many nodes.                             *)
THEOREM WalkEnds ==
  ASSUME NEW N, IsFiniteSet(N), NEW l, NEW h, NEW M \in SUBSET N,
         NEW r \in Ranks(N), Ring(l, h, M, r)
  PROVE  ListEnds(l, h, Cardinality(N))
<1> DEFINE k == Cardinality(N)
           at == ListWalk(l, h, k)
<1>0. k \in Nat
  BY FS_CardinalityType
<1> HIDE DEF k
<1> SUFFICES ASSUME \A i \in 1..k : at[i] # h PROVE FALSE
  BY DEF ListEnds, k
<1>1. \A i \in 1..k : at[i] = l.next[at[i - 1]]
  BY <1>0, WalkSteps
<1>2. \A i \in 0..k : at[i] \in M /\ r[at[i]] \in Nat
  BY <1>0, WalkInRing DEF Ranks
<1> HIDE DEF at
<1>3. \A i \in 1..k : r[at[i - 1]] < r[at[i]]
  BY <1>0, <1>1, <1>2 DEF Ring
<1> DEFINE S == {j \in Nat : \A i \in 0..k : i < j /\ j <= k => r[at[i]] < r[at[j]]}
<1>4. 0 \in S
  OBVIOUS
<1>5. \A j \in S : j + 1 \in S
  <2> SUFFICES ASSUME NEW j \in S, j + 1 <= k, NEW i \in 0..k, i < j + 1
               PROVE  r[at[i]] < r[at[j + 1]]
    OBVIOUS
  <2>1. r[at[j]] < r[at[j + 1]]
    BY <1>0, <1>3
  <2>2. r[at[i]] <= r[at[j]]
    BY <1>0, <1>2
  <2> QED
    BY <1>0, <1>2, <2>1, <2>2
<1>6. S = Nat
  <2> HIDE DEF S
  <2>1. S \subseteq Nat
    BY DEF S
  <2> QED
    BY <1>4, <1>5, <2>1, NatSetInduction
<1>7. \A i, j \in 0..k : i < j => at[i] # at[j]
  BY <1>0, <1>2, <1>6
<1> DEFINE f == [i \in 0..k |-> at[i]]
<1>8. f \in [0..k -> N]
  BY <1>2
<1>9. IsFiniteSet(0..k) /\ Cardinality(0..k) = k + 1
  BY <1>0, FS_Interval
<1>10. \E i, j \in 0..k : i # j /\ f[i] = f[j]
  <2> HIDE DEF f
  <2>1. Cardinality(N) < Cardinality(0..k)
    BY <1>0, <1>9 DEF k
  <2> QED
    BY <1>8, <1>9, <2>1, FS_PigeonHole
<1> QED
  BY <1>0, <1>7, <1>10

(* What it visits before is the ring without the head.                     *)
THEOREM WalkVisits ==
  ASSUME NEW N, IsFiniteSet(N), NEW l, NEW h, NEW M \in SUBSET N,
         NEW r \in Ranks(N), Ring(l, h, M, r)
  PROVE  ListItems(l, h, Cardinality(N)) = M \ {h}
<1> DEFINE k == Cardinality(N)
           at == ListWalk(l, h, k)
           W == {at[i] : i \in {j \in 1..k : \A m \in 1..j : at[m] # h}}
<1>0. k \in Nat
  BY FS_CardinalityType
<1>1. PICK e \in 1..k : at[e] = h
  BY WalkEnds DEF ListEnds
<1> HIDE DEF k
<1>2. at[0] = h /\ \A i \in 1..k : at[i] = l.next[at[i - 1]]
  BY <1>0, WalkSteps
<1>3. \A i \in 0..k : at[i] \in M
  BY <1>0, WalkInRing
<1>4. ListItems(l, h, Cardinality(N)) = W
  BY DEF ListItems, k
<1> HIDE DEF at
<1>5. W \subseteq M \ {h}
  BY <1>0, <1>3
<1>6. ASSUME NEW i \in 0..k, \A m \in 1..i : at[m] # h, l.next[at[i]] # h
      PROVE  l.next[at[i]] \in W
  <2>1. i < e
    BY <1>0, <1>1, <1>6
  <2>2. i + 1 \in 1..k /\ at[i + 1] = l.next[at[i]]
    BY <1>0, <1>2, <2>1
  <2>3. \A m \in 1..(i + 1) : at[m] # h
    BY <1>0, <1>6, <2>2
  <2> QED
    BY <2>2, <2>3
<1>7. ASSUME NEW p \in W \cup {h}, l.next[p] # h
      PROVE  l.next[p] \in W
  <2>1. CASE p = h
    BY <1>0, <1>2, <1>6, <1>7, <2>1
  <2>2. CASE p \in W
    <3>1. PICK i \in 1..k : p = at[i] /\ \A m \in 1..i : at[m] # h
      BY <2>2
    <3> QED
      BY <1>0, <1>6, <1>7, <3>1
  <2> QED
    BY <2>1, <2>2
<1> HIDE DEF W
<1>8. ASSUME NEW n \in M \ {h}, n \notin W
      PROVE  FALSE
  <2> DEFINE U == {m \in M \ {h} : m \notin W}
             T == {r[m] : m \in U}
  <2>1. T \in SUBSET Nat /\ T # {}
    BY <1>8 DEF Ranks
  <2>2. PICK t \in T : \A q \in T : t <= q
    <3> HIDE DEF T
    <3> QED
      BY <2>1, LeastNumber
  <2>3. PICK u \in U : r[u] = t
    OBVIOUS
  <2>4. \A m \in U : r[u] <= r[m]
    BY <2>2, <2>3
  <2> DEFINE p == l.prev[u]
  <2>5. p \in M /\ l.next[p] = u /\ u # h
    BY <2>3 DEF Ring, Linked
  <2>6. r[p] < r[u] /\ r[p] \in Nat /\ r[u] \in Nat
    BY <2>3, <2>5 DEF Ring, Ranks
  <2>7. p \notin U
    BY <2>4, <2>6
  <2>8. p \in W \cup {h}
    BY <2>5, <2>7
  <2>9. u \in W
    BY <1>7, <2>5, <2>8
  <2> QED
    BY <2>3, <2>9
<1> QED
  BY <1>4, <1>5, <1>8
=============================================================================
