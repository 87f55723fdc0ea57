------------------------------ MODULE FdIOProofs ------------------------------
(***************************************************************************)
(* sancus_write() and sancus_writev() send a message in order and once, in *)
(* as many parts as the kernel likes, for any number of vectors of any     *)
(* length; and that they implement Transmission.                           *)
(***************************************************************************)
EXTENDS FdIO, NatSets, SequenceTheorems

-----------------------------------------------------------------------------
(* Sequences without their first elements.                                 *)

Drop(s, n) == SubSeq(s, n + 1, Len(s))

(* Dropping takes as many elements as it says off the front.               *)
LEMMA DropIs ==
  ASSUME NEW S, NEW s \in Seq(S), NEW n \in 0..Len(s)
  PROVE  /\ Drop(s, n) \in Seq(S)
         /\ Len(Drop(s, n)) = Len(s) - n
         /\ \A i \in 1..Len(s) - n : Drop(s, n)[i] = s[n + i]
<1>1. Len(s) \in Nat /\ n + 1 \in Int /\ Len(s) \in Int
  BY LenProperties
<1>2. \A i \in n + 1..Len(s) : s[i] \in S
  BY <1>1, ElementOfSeq
<1>3. /\ SubSeq(s, n + 1, Len(s)) \in Seq(S)
      /\ Len(SubSeq(s, n + 1, Len(s))) =
           IF n + 1 <= Len(s) THEN Len(s) - (n + 1) + 1 ELSE 0
      /\ \A i \in 1..Len(s) - (n + 1) + 1 :
           SubSeq(s, n + 1, Len(s))[i] = s[n + 1 + i - 1]
  BY <1>1, <1>2, SubSeqProperties
<1> QED
  BY <1>1, <1>3 DEF Drop

(* What the kernel takes and what is left make up what it was offered.     *)
LEMMA TakeAndDrop ==
  ASSUME NEW S, NEW s \in Seq(S), NEW n \in 0..Len(s)
  PROVE  /\ SubSeq(s, 1, n) \in Seq(S)
         /\ Len(SubSeq(s, 1, n)) = n
         /\ SubSeq(s, 1, n) \o Drop(s, n) = s
<1>1. Len(s) \in Nat
  BY LenProperties
<1>2. 1 \in 1..Len(s) + 1 /\ n \in 1 - 1..Len(s) /\ Len(s) \in n..Len(s)
  BY <1>1
<1>3. SubSeq(s, 1, n) \o SubSeq(s, n + 1, Len(s)) = SubSeq(s, 1, Len(s))
  BY <1>2, ConcatAdjacentSubSeq
<1>4. SubSeq(s, 1, Len(s)) = s
  BY SubSeqFull
<1>5. \A i \in 1..n : s[i] \in S
  BY <1>1, ElementOfSeq
<1>6. /\ SubSeq(s, 1, n) \in Seq(S)
      /\ Len(SubSeq(s, 1, n)) = IF 1 <= n THEN n - 1 + 1 ELSE 0
  BY <1>5, SubSeqProperties
<1>7. (IF 1 <= n THEN n - 1 + 1 ELSE 0) = n
  OBVIOUS
<1>8. Len(SubSeq(s, 1, n)) = n
  BY <1>6, <1>7
<1> QED
  BY <1>3, <1>4, <1>6, <1>8 DEF Drop

(* Dropping nothing changes nothing.                                       *)
LEMMA DropNone ==
  ASSUME NEW S, NEW s \in Seq(S)
  PROVE  Drop(s, 0) = s
  BY SubSeqFull DEF Drop

(* The first part of a whole is that part.                                 *)
LEMMA TakeOfConcat ==
  ASSUME NEW S, NEW s \in Seq(S), NEW t \in Seq(S)
  PROVE  SubSeq(s \o t, 1, Len(s)) = s
<1> DEFINE w == s \o t
<1>1. /\ w \in Seq(S) /\ Len(w) = Len(s) + Len(t)
      /\ \A i \in 1..Len(s) + Len(t) :
           w[i] = IF i <= Len(s) THEN s[i] ELSE t[i - Len(s)]
  BY ConcatProperties
<1>2. Len(s) \in Nat /\ Len(t) \in Nat
  BY LenProperties
<1> HIDE DEF w
<1>3. /\ SubSeq(w, 1, Len(s)) \in Seq(S)
      /\ Len(SubSeq(w, 1, Len(s))) = IF 1 <= Len(s) THEN Len(s) - 1 + 1 ELSE 0
      /\ \A i \in 1..Len(s) - 1 + 1 : SubSeq(w, 1, Len(s))[i] = w[1 + i - 1]
  <2>1. \A i \in 1..Len(s) : w[i] \in S
    BY <1>1, <1>2, ElementOfSeq
  <2> QED
    BY <1>2, <2>1, SubSeqProperties
<1>4. SubSeq(w, 1, Len(s)) = s
  <2>1. Len(SubSeq(w, 1, Len(s))) = Len(s)
    BY <1>2, <1>3
  <2>2. \A i \in 1..Len(s) : SubSeq(w, 1, Len(s))[i] = s[i]
    BY <1>1, <1>2, <1>3
  <2> QED
    BY <1>3, <2>1, <2>2, SeqEqual
<1> QED
  BY <1>4 DEF w

(* Dropping less than the first part, and more than it.                    *)
LEMMA DropOfConcat ==
  ASSUME NEW S, NEW s \in Seq(S), NEW t \in Seq(S), NEW n \in 0..Len(s) + Len(t)
  PROVE  Drop(s \o t, n) =
           IF n <= Len(s) THEN Drop(s, n) \o t ELSE Drop(t, n - Len(s))
<1> DEFINE w == s \o t
<1>1. /\ w \in Seq(S) /\ Len(w) = Len(s) + Len(t)
      /\ \A i \in 1..Len(s) + Len(t) :
           w[i] = IF i <= Len(s) THEN s[i] ELSE t[i - Len(s)]
  BY ConcatProperties
<1>2. Len(s) \in Nat /\ Len(t) \in Nat
  BY LenProperties
<1> HIDE DEF w
<1>3. /\ Drop(w, n) \in Seq(S)
      /\ Len(Drop(w, n)) = Len(s) + Len(t) - n
      /\ \A i \in 1..Len(s) + Len(t) - n : Drop(w, n)[i] = w[n + i]
  <2>1. n \in 0..Len(w)
    BY <1>1
  <2>2. /\ Drop(w, n) \in Seq(S)
        /\ Len(Drop(w, n)) = Len(w) - n
        /\ \A i \in 1..Len(w) - n : Drop(w, n)[i] = w[n + i]
    BY <1>1, <2>1, DropIs
  <2> QED
    BY <1>1, <2>2
<1>4. CASE n <= Len(s)
  <2> DEFINE d == Drop(s, n)
  <2>1. /\ d \in Seq(S) /\ Len(d) = Len(s) - n
        /\ \A i \in 1..Len(s) - n : d[i] = s[n + i]
    BY <1>2, <1>4, DropIs
  <2> HIDE DEF d
  <2>2. /\ d \o t \in Seq(S) /\ Len(d \o t) = Len(s) - n + Len(t)
        /\ \A i \in 1..Len(s) - n + Len(t) :
             (d \o t)[i] = IF i <= Len(s) - n THEN d[i] ELSE t[i - (Len(s) - n)]
    <3>1. /\ d \o t \in Seq(S) /\ Len(d \o t) = Len(d) + Len(t)
          /\ \A i \in 1..Len(d) + Len(t) :
               (d \o t)[i] = IF i <= Len(d) THEN d[i] ELSE t[i - Len(d)]
      BY <2>1, ConcatProperties
    <3> QED
      BY <2>1, <3>1
  <2>3. ASSUME NEW i \in 1..Len(s) + Len(t) - n
        PROVE  Drop(w, n)[i] = (d \o t)[i]
    <3>1. Drop(w, n)[i] = IF n + i <= Len(s) THEN s[n + i] ELSE t[n + i - Len(s)]
      <4>1. n + i \in 1..Len(s) + Len(t)
        BY <1>2
      <4>2. Drop(w, n)[i] = w[n + i]
        BY <1>3
      <4> QED
        BY <1>1, <4>1, <4>2
    <3>2. (d \o t)[i] = IF i <= Len(s) - n THEN s[n + i] ELSE t[i - (Len(s) - n)]
      BY <1>2, <2>1, <2>2
    <3>3. i - (Len(s) - n) = n + i - Len(s)
      BY <1>2
    <3> QED
      BY <1>2, <3>1, <3>2, <3>3
  <2>4. Len(Drop(w, n)) = Len(d \o t)
    BY <1>2, <1>3, <2>2
  <2>5. Drop(w, n) = d \o t
    BY <1>3, <2>2, <2>3, <2>4, SeqEqual
  <2> QED
    BY <1>4, <2>5 DEF w, d
<1>5. CASE ~(n <= Len(s))
  <2> DEFINE d == Drop(t, n - Len(s))
  <2>1. /\ d \in Seq(S) /\ Len(d) = Len(t) - (n - Len(s))
        /\ \A i \in 1..Len(t) - (n - Len(s)) : d[i] = t[n - Len(s) + i]
    <3>1. n - Len(s) \in 0..Len(t)
      BY <1>2, <1>5
    <3> QED
      BY <3>1, DropIs
  <2> HIDE DEF d
  <2>2. ASSUME NEW i \in 1..Len(s) + Len(t) - n
        PROVE  Drop(w, n)[i] = d[i]
    <3>1. Drop(w, n)[i] = t[n + i - Len(s)]
      <4>1. n + i \in 1..Len(s) + Len(t) /\ ~(n + i <= Len(s))
        BY <1>2, <1>5
      <4>2. Drop(w, n)[i] = w[n + i]
        BY <1>3
      <4> QED
        BY <1>1, <4>1, <4>2
    <3>2. n + i - Len(s) = n - Len(s) + i
      BY <1>2
    <3> QED
      BY <1>2, <2>1, <3>1, <3>2
  <2>3. Len(Drop(w, n)) = Len(d)
    BY <1>2, <1>3, <2>1
  <2>4. Drop(w, n) = d
    BY <1>3, <2>1, <2>2, <2>3, SeqEqual
  <2> QED
    BY <1>5, <2>4 DEF w, d
<1> QED
  BY <1>4, <1>5
-----------------------------------------------------------------------------
(* What FlattenSeq computes: partial sums of its argument.                 *)

LEMMA FlattenIs ==
  ASSUME NEW S, NEW q \in Seq(Seq(S)), q # <<>>
  PROVE  \E f \in [1..Len(q) -> Seq(S)] :
           /\ f[1] = q[1]
           /\ \A i \in 2..Len(q) : f[i] = f[i - 1] \o q[i]
           /\ FlattenSeq(q) = f[Len(q)]
<1> DEFINE N == Len(q)
           IsSum(f, j) == f = [i \in 1..j |-> IF i = 1 THEN q[i] ELSE f[i - 1] \o q[i]]
           P == {j \in Nat : \E f : IsSum(f, j)}
<1>1. N \in Nat \ {0} /\ \A i \in 1..N : q[i] \in Seq(S)
  BY EmptySeq, ElementOfSeq
<1>2. 0 \in P
  <2>1. IsSum([i \in 1..0 |-> <<>>], 0)
    OBVIOUS
  <2> QED
    BY <2>1
<1>3. \A j \in P : j + 1 \in P
  <2> TAKE j \in P
  <2>1. PICK f : IsSum(f, j)
    OBVIOUS
  <2>2. \A i \in 1..j : f[i] = IF i = 1 THEN q[i] ELSE f[i - 1] \o q[i]
    BY <2>1
  <2> DEFINE new == IF j + 1 = 1 THEN q[j + 1] ELSE f[j] \o q[j + 1]
             g == [i \in 1..(j + 1) |-> IF i = j + 1 THEN new ELSE f[i]]
  <2>3. ASSUME NEW i \in 1..(j + 1)
        PROVE  g[i] = IF i = 1 THEN q[i] ELSE g[i - 1] \o q[i]
    <3>1. CASE i = j + 1 /\ i # 1
      <4>1. j \in 1..(j + 1) /\ j # j + 1 /\ i - 1 = j
        BY <3>1
      <4>2. g[i - 1] = f[j]
        BY <4>1
      <4>3. g[i] = f[j] \o q[i]
        BY <3>1
      <4> QED
        BY <3>1, <4>2, <4>3
    <3>2. CASE i = j + 1 /\ i = 1
      BY <3>2
    <3>3. CASE i \in 1..j /\ i # 1
      <4>1. i - 1 \in 1..(j + 1) /\ i - 1 # j + 1 /\ i # j + 1
        BY <3>3
      <4>2. g[i - 1] = f[i - 1] /\ g[i] = f[i]
        BY <4>1
      <4> QED
        BY <2>2, <3>3, <4>2
    <3>4. CASE i \in 1..j /\ i = 1
      <4>1. g[i] = f[i]
        BY <3>4
      <4> QED
        BY <2>2, <3>4, <4>1
    <3> QED
      BY <3>1, <3>2, <3>3, <3>4
  <2>4. g = [i \in 1..(j + 1) |-> g[i]]
    OBVIOUS
  <2>5. \E h : IsSum(h, j + 1)
    <3> HIDE DEF g
    <3>1. IsSum(g, j + 1)
      BY <2>3, <2>4
    <3> HIDE DEF IsSum
    <3> QED
      BY <3>1
  <2>6. j + 1 \in Nat
    OBVIOUS
  <2> HIDE DEF IsSum
  <2> QED
    BY <2>5, <2>6
<1>4. N \in P
  <2> HIDE DEF P
  <2>1. P \subseteq Nat
    BY DEF P
  <2> QED
    BY <1>1, <1>2, <1>3, <2>1, NatSetInduction
<1> DEFINE f == CHOOSE g : IsSum(g, N)
<1>5. IsSum(f, N)
  BY <1>4
<1>6. FlattenSeq(q) = f[N]
  BY <1>1 DEF FlattenSeq
<1> HIDE DEF f
<1>7. f[1] = q[1] /\ \A i \in 2..N : f[i] = f[i - 1] \o q[i]
  <2>1. 1 \in 1..N /\ \A i \in 2..N : i \in 1..N /\ i # 1
    BY <1>1
  <2>2. \A i \in 1..N : f[i] = IF i = 1 THEN q[i] ELSE f[i - 1] \o q[i]
    BY <1>5
  <2> QED
    BY <2>1, <2>2
<1> DEFINE T == {i \in 1..N : f[i] \in Seq(S)}
<1>8. 1 \in T
  BY <1>1, <1>7
<1>9. \A i \in 2..N : i - 1 \in T => i \in T
  <2> SUFFICES ASSUME NEW i \in 2..N, i - 1 \in T PROVE i \in T
    OBVIOUS
  <2>1. i \in 1..N /\ f[i - 1] \in Seq(S) /\ q[i] \in Seq(S)
    BY <1>1
  <2>2. f[i] = f[i - 1] \o q[i]
    BY <1>7
  <2>3. f[i] \in Seq(S)
    BY <2>1, <2>2, ConcatProperties
  <2> QED
    BY <2>1, <2>3
<1>10. 1..N \subseteq T
  <2> HIDE DEF T
  <2> QED
    BY <1>1, <1>8, <1>9, IntervalInduction
<1>11. f \in [1..N -> Seq(S)]
  BY <1>5, <1>10
<1> QED
  BY <1>6, <1>7, <1>11

(* Joining sequences makes one of the same elements.                       *)
LEMMA FlattenType ==
  ASSUME NEW S, NEW q \in Seq(Seq(S))
  PROVE  FlattenSeq(q) \in Seq(S)
<1>1. CASE q = <<>>
  <2>1. <<>> \in Seq(S) /\ Len(q) = 0
    BY <1>1, EmptySeq
  <2> QED
    BY <1>1, <2>1 DEF FlattenSeq
<1>2. CASE q # <<>>
  <2>1. Len(q) \in Nat \ {0}
    BY <1>2, EmptySeq
  <2>2. Len(q) \in 1..Len(q)
    BY <2>1
  <2>3. PICK f \in [1..Len(q) -> Seq(S)] : FlattenSeq(q) = f[Len(q)]
    BY <1>2, FlattenIs
  <2> QED
    BY <2>2, <2>3
<1> QED
  BY <1>1, <1>2

(* The first of the sequences, and then the others.                        *)
LEMMA FlattenTail ==
  ASSUME NEW S, NEW q \in Seq(Seq(S)), q # <<>>
  PROVE  FlattenSeq(q) = q[1] \o FlattenSeq(Tail(q))
<1> DEFINE N == Len(q)
           t == Tail(q)
<1>0. \A x, y, z \in Seq(S) : (x \o y) \o z = x \o (y \o z)
  BY ConcatAssociative
<1>1. N \in Nat \ {0} /\ \A i \in 1..N : q[i] \in Seq(S)
  BY EmptySeq, ElementOfSeq
<1>2. /\ t \in Seq(Seq(S)) /\ Len(t) = N - 1
      /\ \A i \in 1..N - 1 : t[i] = q[i + 1]
  BY HeadTailProperties
<1>3. PICK f \in [1..N -> Seq(S)] :
         /\ f[1] = q[1]
         /\ \A i \in 2..N : f[i] = f[i - 1] \o q[i]
         /\ FlattenSeq(q) = f[N]
  BY FlattenIs
<1> HIDE DEF t, N
<1>4. CASE N = 1
  <2>1. t = <<>>
    BY <1>2, <1>4, EmptySeq
  <2>2. FlattenSeq(t) = <<>>
    BY <2>1, EmptySeq DEF FlattenSeq
  <2>3. q[1] \o <<>> = q[1]
    BY <1>1, ConcatEmptySeq
  <2> QED
    BY <1>3, <1>4, <2>2, <2>3 DEF t
<1>5. CASE N # 1
  <2> DEFINE n == N - 1
  <2>0. n \in Nat /\ n # 0 /\ Len(t) = n /\ n + 1 = N
    BY <1>1, <1>2, <1>5
  <2>1. t # <<>>
    BY <2>0, EmptySeq
  <2>2. PICK g \in [1..n -> Seq(S)] :
           /\ g[1] = t[1]
           /\ \A i \in 2..n : g[i] = g[i - 1] \o t[i]
           /\ FlattenSeq(t) = g[n]
    <3>1. \E g \in [1..Len(t) -> Seq(S)] :
            /\ g[1] = t[1]
            /\ \A i \in 2..Len(t) : g[i] = g[i - 1] \o t[i]
            /\ FlattenSeq(t) = g[Len(t)]
      BY <1>2, <2>1, FlattenIs
    <3> QED
      BY <2>0, <3>1
  <2> HIDE DEF n
  <2>3. \A i \in 1..n : i + 1 \in 2..N /\ i + 1 - 1 = i /\ i + 1 \in 1..N
    BY <2>0
  <2>4. \A i \in 1..n : f[i + 1] = f[i] \o q[i + 1] /\ t[i] = q[i + 1]
    <3> TAKE i \in 1..n
    <3>1. f[i + 1] = f[i] \o q[i + 1]
      <4> DEFINE k == i + 1
      <4>1. k \in 2..N /\ k - 1 = i
        BY <2>3
      <4> HIDE DEF k
      <4>2. f[k] = f[k - 1] \o q[k]
        BY <1>3, <4>1
      <4> QED
        BY <4>1, <4>2 DEF k
    <3> QED
      BY <1>2, <2>3, <3>1 DEF n
  <2> DEFINE T == {i \in 1..n : f[i + 1] = q[1] \o g[i]}
  <2>5. 1 \in T
    <3>1. 1 \in 1..n
      BY <2>0
    <3>2. f[1 + 1] = f[1] \o q[1 + 1] /\ t[1] = q[1 + 1]
      BY <2>4, <3>1
    <3> QED
      BY <1>3, <2>2, <3>1, <3>2
  <2>6. \A i \in 2..n : i - 1 \in T => i \in T
    <3> SUFFICES ASSUME NEW i \in 2..n, i - 1 \in T PROVE i \in T
      OBVIOUS
    <3>1. i \in 1..n /\ i - 1 \in 1..n /\ i - 1 + 1 = i
      BY <2>0
    <3>2. f[i] = q[1] \o g[i - 1]
      BY <3>1
    <3>3. g[i] = g[i - 1] \o q[i + 1] /\ f[i + 1] = f[i] \o q[i + 1]
      BY <2>2, <2>4, <3>1
    <3>4. q[1] \in Seq(S) /\ g[i - 1] \in Seq(S) /\ q[i + 1] \in Seq(S)
      <4>1. 1 \in 1..N
        BY <1>1
      <4> QED
        BY <1>1, <2>2, <2>3, <3>1, <4>1
    <3>5. (q[1] \o g[i - 1]) \o q[i + 1] = q[1] \o (g[i - 1] \o q[i + 1])
      <4> DEFINE a == q[1]
                 b == g[i - 1]
                 c == q[i + 1]
      <4>1. a \in Seq(S) /\ b \in Seq(S) /\ c \in Seq(S)
        BY <3>4
      <4> HIDE DEF a, b, c
      <4>2. (a \o b) \o c = a \o (b \o c)
        BY <1>0, <4>1, Zenon
      <4> QED
        BY <4>2 DEF a, b, c
    <3>6. f[i + 1] = q[1] \o g[i]
      BY <3>2, <3>3, <3>5
    <3> QED
      BY <3>1, <3>6
  <2>7. 1..n \subseteq T
    <3> HIDE DEF T
    <3> QED
      BY <2>0, <2>5, <2>6, IntervalInduction
  <2>8. n \in 1..n
    BY <2>0
  <2>9. f[n + 1] = q[1] \o g[n]
    BY <2>7, <2>8
  <2> QED
    BY <1>3, <2>0, <2>2, <2>9 DEF t
<1> QED
  BY <1>4, <1>5

(* It is no longer than the longest of them allows.                        *)
LEMMA FlattenLength ==
  ASSUME NEW S, NEW q \in Seq(Seq(S)), NEW m \in Nat,
         \A i \in 1..Len(q) : Len(q[i]) <= m
  PROVE  Len(FlattenSeq(q)) <= Len(q) * m
<1>0. Len(q) \in Nat
  BY LenProperties
<1>1. CASE q = <<>>
  <2>1. FlattenSeq(q) = <<>> /\ Len(q) = 0
    BY <1>1, EmptySeq DEF FlattenSeq
  <2> QED
    BY <2>1, EmptySeq
<1>2. CASE q # <<>>
  <2> DEFINE N == Len(q)
  <2>1. PICK f \in [1..N -> Seq(S)] :
           /\ f[1] = q[1]
           /\ \A i \in 2..N : f[i] = f[i - 1] \o q[i]
           /\ FlattenSeq(q) = f[N]
    BY <1>2, FlattenIs
  <2>2. N \in Nat \ {0} /\ \A i \in 1..N : q[i] \in Seq(S) /\ Len(q[i]) \in Nat
    BY <1>2, EmptySeq, ElementOfSeq, LenProperties
  <2>3. \A i \in 1..N : Len(q[i]) <= m
    OBVIOUS
  <2> HIDE DEF N
  <2> DEFINE T == {i \in 1..N : Len(f[i]) <= i * m}
  <2>4. 1 \in T
    <3>1. 1 \in 1..N /\ 1 * m = m
      BY <2>2
    <3> QED
      BY <2>1, <2>3, <3>1
  <2>5. \A i \in 2..N : i - 1 \in T => i \in T
    <3> SUFFICES ASSUME NEW i \in 2..N, i - 1 \in T PROVE i \in T
      OBVIOUS
    <3>1. i \in 1..N /\ i - 1 \in 1..N
      BY <2>2
    <3>2. Len(f[i - 1]) <= (i - 1) * m /\ Len(q[i]) <= m
      BY <2>3, <3>1
    <3>3. f[i - 1] \in Seq(S) /\ q[i] \in Seq(S) /\ f[i] = f[i - 1] \o q[i]
      BY <2>1, <2>2, <3>1
    <3>4. Len(f[i]) = Len(f[i - 1]) + Len(q[i])
      BY <3>3, ConcatProperties
    <3>5. Len(f[i - 1]) \in Nat /\ Len(q[i]) \in Nat
      BY <3>3, LenProperties
    <3>6. (i - 1) * m + m = i * m /\ (i - 1) * m \in Nat /\ i * m \in Nat
      BY <2>2
    <3>7. Len(f[i]) <= i * m
      <4> DEFINE x == (i - 1) * m
                 y == i * m
                 a == Len(f[i - 1])
                 b == Len(q[i])
      <4>1. /\ a \in Nat /\ b \in Nat /\ x \in Nat /\ y \in Nat
            /\ a <= x /\ b <= m /\ x + m = y
        BY <3>2, <3>5, <3>6
      <4> HIDE DEF x, y, a, b
      <4>2. a + b <= y
        BY <4>1
      <4> QED
        BY <3>4, <4>2 DEF y, a, b
    <3> QED
      BY <3>1, <3>7
  <2>6. 1..N \subseteq T
    <3> HIDE DEF T
    <3> QED
      BY <2>2, <2>4, <2>5, IntervalInduction
  <2>7. N \in 1..N
    BY <2>2
  <2>8. Len(f[N]) <= N * m
    BY <2>6, <2>7
  <2> QED
    BY <2>1, <2>8 DEF N
<1> QED
  BY <1>1, <1>2

(* A function from 1 to n is a sequence.                                   *)
LEMMA FunctionSeq ==
  ASSUME NEW S, NEW n \in Nat, NEW f \in [1..n -> S]
  PROVE  f \in Seq(S) /\ Len(f) = n
  BY SeqDef

-----------------------------------------------------------------------------
(* Vectors and the bytes they stand for.                                   *)

(* vec names the vector: its place, here; what it holds, in SancusLog.     *)
Vec(V) == {v \in [vec : V, off : 0..MaxLen, len : 0..MaxLen] :
             v.off + v.len <= MaxLen}

Byte(V) == V \X Nat

(* A vector stands for len bytes behind its offset.                        *)
LEMMA BytesIs ==
  ASSUME NEW V, NEW v \in Vec(V)
  PROVE  /\ Bytes(v) \in Seq(Byte(V))
         /\ Len(Bytes(v)) = v.len
         /\ \A j \in 1..v.len : Bytes(v)[j] = <<v.vec, v.off + j>>
<1>1. v.len \in Nat /\ v.vec \in V /\ v.off \in Nat
  BY BoundsAssumption DEF Vec
<1>2. Bytes(v) \in [1..v.len -> Byte(V)]
  BY <1>1 DEF Bytes, Byte
<1>3. \A j \in 1..v.len : Bytes(v)[j] = <<v.vec, v.off + j>>
  BY DEF Bytes
<1> QED
  BY <1>1, <1>2, <1>3, FunctionSeq

(* Advancing a vector drops its first bytes.                               *)
LEMMA BytesAdvance ==
  ASSUME NEW V, NEW v \in Vec(V), NEW n \in 0..v.len
  PROVE  /\ Advance(v, n) \in Vec(V)
         /\ Advance(v, n).len = v.len - n
         /\ Bytes(Advance(v, n)) = Drop(Bytes(v), n)
<1> DEFINE a == Advance(v, n)
<1>1. /\ v \in [vec : V, off : 0..MaxLen, len : 0..MaxLen]
      /\ v.len \in 0..MaxLen /\ v.off \in 0..MaxLen /\ v.off + v.len <= MaxLen
      /\ v.vec \in V
  BY DEF Vec
<1>2. a.off = v.off + n /\ a.len = v.len - n /\ a.vec = v.vec
  BY <1>1 DEF Advance
<1>3. a \in [vec : V, off : 0..MaxLen, len : 0..MaxLen]
  <2>1. v.off + n \in 0..MaxLen /\ v.len - n \in 0..MaxLen
    BY <1>1, BoundsAssumption
  <2> QED
    BY <1>1, <2>1 DEF Advance
<1>4. a \in Vec(V)
  <2>1. a.off + a.len <= MaxLen
    BY <1>1, <1>2, BoundsAssumption
  <2> QED
    BY <1>3, <2>1 DEF Vec
<1> HIDE DEF a
<1>5. /\ Bytes(v) \in Seq(Byte(V)) /\ Len(Bytes(v)) = v.len
      /\ \A j \in 1..v.len : Bytes(v)[j] = <<v.vec, v.off + j>>
  BY BytesIs
<1>6. /\ Bytes(a) \in Seq(Byte(V)) /\ Len(Bytes(a)) = a.len
      /\ \A j \in 1..a.len : Bytes(a)[j] = <<a.vec, a.off + j>>
  BY <1>4, BytesIs
<1>7. /\ Drop(Bytes(v), n) \in Seq(Byte(V))
      /\ Len(Drop(Bytes(v), n)) = v.len - n
      /\ \A j \in 1..v.len - n : Drop(Bytes(v), n)[j] = Bytes(v)[n + j]
  <2>1. n \in 0..Len(Bytes(v))
    BY <1>5
  <2>2. /\ Drop(Bytes(v), n) \in Seq(Byte(V))
        /\ Len(Drop(Bytes(v), n)) = Len(Bytes(v)) - n
        /\ \A j \in 1..Len(Bytes(v)) - n : Drop(Bytes(v), n)[j] = Bytes(v)[n + j]
    BY <1>5, <2>1, DropIs
  <2> QED
    BY <1>5, <2>2
<1>8. ASSUME NEW j \in 1..a.len PROVE Bytes(a)[j] = Drop(Bytes(v), n)[j]
  <2>1. j \in 1..v.len - n /\ n + j \in 1..v.len /\ a.off + j = v.off + (n + j)
    BY <1>1, <1>2
  <2>2. Bytes(a)[j] = <<a.vec, a.off + j>>
    BY <1>6
  <2>3. Drop(Bytes(v), n)[j] = <<v.vec, v.off + (n + j)>>
    BY <1>5, <1>7, <2>1
  <2> QED
    BY <1>2, <2>1, <2>2, <2>3
<1>9. Bytes(a) = Drop(Bytes(v), n)
  BY <1>2, <1>6, <1>7, <1>8, SeqEqual
<1> QED
  BY <1>2, <1>4, <1>9 DEF a

(* A list of vectors, its first vector and the others.                     *)
LEMMA GatherIs ==
  ASSUME NEW V, NEW s \in Seq(Vec(V))
  PROVE  /\ Gather(s) \in Seq(Byte(V))
         /\ Len(Gather(s)) <= Len(s) * MaxLen
         /\ s = <<>> => Gather(s) = <<>>
         /\ s # <<>> => Gather(s) = Bytes(s[1]) \o Gather(Tail(s))
<1> DEFINE q == [i \in 1..Len(s) |-> Bytes(s[i])]
<1>1. Len(s) \in Nat /\ \A i \in 1..Len(s) : s[i] \in Vec(V)
  BY LenProperties, ElementOfSeq
<1>2. \A i \in 1..Len(s) : Bytes(s[i]) \in Seq(Byte(V)) /\ Len(Bytes(s[i])) <= MaxLen
  <2> TAKE i \in 1..Len(s)
  <2>1. s[i] \in Vec(V)
    BY <1>1
  <2>2. s[i].len <= MaxLen
    BY <2>1, BoundsAssumption DEF Vec
  <2> QED
    BY <2>1, <2>2, BytesIs
<1>3. q \in [1..Len(s) -> Seq(Byte(V))]
  BY <1>2
<1>4. \A i \in 1..Len(s) : q[i] = Bytes(s[i])
  OBVIOUS
<1>5. Gather(s) = FlattenSeq(q)
  BY DEF Gather
<1> HIDE DEF q
<1>6. q \in Seq(Seq(Byte(V))) /\ Len(q) = Len(s)
  BY <1>1, <1>3, FunctionSeq
<1>7. Gather(s) \in Seq(Byte(V))
  BY <1>5, <1>6, FlattenType
<1>8. Len(Gather(s)) <= Len(s) * MaxLen
  <2>1. \A i \in 1..Len(q) : Len(q[i]) <= MaxLen
    BY <1>2, <1>4, <1>6
  <2>2. Len(FlattenSeq(q)) <= Len(q) * MaxLen
    BY <1>6, <2>1, BoundsAssumption, FlattenLength
  <2> QED
    BY <1>5, <1>6, <2>2
<1>9. ASSUME s = <<>> PROVE Gather(s) = <<>>
  <2>1. Len(q) = 0
    BY <1>6, <1>9, EmptySeq
  <2>2. q = <<>>
    BY <1>6, <2>1, EmptySeq
  <2> QED
    BY <1>5, <2>1, <2>2 DEF FlattenSeq
<1>10. ASSUME s # <<>> PROVE Gather(s) = Bytes(s[1]) \o Gather(Tail(s))
  <2>1. /\ Tail(s) \in Seq(Vec(V)) /\ Len(Tail(s)) = Len(s) - 1
        /\ \A i \in 1..Len(Tail(s)) : Tail(s)[i] = s[i + 1]
    BY <1>10, HeadTailProperties
  <2>2. Len(s) \in Nat \ {0}
    BY <1>10, EmptySeq
  <2>3. q # <<>>
    BY <1>6, <2>2, EmptySeq
  <2>4. /\ Tail(q) \in Seq(Seq(Byte(V))) /\ Len(Tail(q)) = Len(s) - 1
        /\ \A i \in 1..Len(Tail(q)) : Tail(q)[i] = q[i + 1]
    BY <1>6, <2>3, HeadTailProperties
  <2> DEFINE t == [i \in 1..Len(Tail(s)) |-> Bytes(Tail(s)[i])]
             n == Len(s) - 1
  <2>5. \A i \in 1..n : Tail(q)[i] = Bytes(Tail(s)[i])
    <3> TAKE i \in 1..n
    <3>1. i + 1 \in 1..Len(s)
      BY <1>1
    <3> QED
      BY <1>4, <2>1, <2>4, <3>1
  <2>6. Tail(q) \in [1..n -> Seq(Byte(V))]
    BY <2>4, LenProperties
  <2>7. t = Tail(q)
    BY <2>1, <2>5, <2>6
  <2>8. Gather(Tail(s)) = FlattenSeq(Tail(q))
    BY <2>7 DEF Gather
  <2>9. q[1] = Bytes(s[1])
    <3>1. 1 \in 1..Len(s)
      BY <2>2
    <3> QED
      BY <1>4, <3>1
  <2>10. FlattenSeq(q) = q[1] \o FlattenSeq(Tail(q))
    BY <1>6, <2>3, FlattenTail
  <2> QED
    BY <1>5, <2>8, <2>9, <2>10
<1> QED
  BY <1>7, <1>8, <1>9, <1>10

(* The rest of a whole is what follows the first element.                  *)
LEMMA TailOfConcat ==
  ASSUME NEW S, NEW s \in Seq(S), NEW t \in Seq(S), s # <<>>
  PROVE  /\ s \o t \in Seq(S) /\ s \o t # <<>>
         /\ (s \o t)[1] = s[1] /\ Tail(s \o t) = Tail(s) \o t
<1> DEFINE w == s \o t
<1>1. /\ Len(s) \in Nat \ {0} /\ Len(t) \in Nat
      /\ w \in Seq(S) /\ Len(w) = Len(s) + Len(t)
      /\ \A i \in 1..Len(s) + Len(t) :
           w[i] = IF i <= Len(s) THEN s[i] ELSE t[i - Len(s)]
  BY EmptySeq, LenProperties, ConcatProperties
<1> HIDE DEF w
<1>2. w # <<>> /\ w[1] = s[1]
  BY <1>1, EmptySeq
<1>3. /\ Tail(s) \in Seq(S) /\ Len(Tail(s)) = Len(s) - 1
      /\ \A i \in 1..Len(s) - 1 : Tail(s)[i] = s[i + 1]
  BY HeadTailProperties
<1>4. /\ Tail(w) \in Seq(S) /\ Len(Tail(w)) = Len(w) - 1
      /\ \A i \in 1..Len(w) - 1 : Tail(w)[i] = w[i + 1]
  BY <1>1, <1>2, HeadTailProperties
<1> DEFINE u == Tail(s) \o t
<1>5. /\ u \in Seq(S) /\ Len(u) = Len(s) - 1 + Len(t)
      /\ \A i \in 1..Len(s) - 1 + Len(t) :
           u[i] = IF i <= Len(s) - 1 THEN Tail(s)[i] ELSE t[i - (Len(s) - 1)]
  BY <1>1, <1>3, ConcatProperties
<1> HIDE DEF u
<1>6. ASSUME NEW i \in 1..Len(w) - 1 PROVE Tail(w)[i] = u[i]
  <2>1. /\ i + 1 \in 1..Len(s) + Len(t) /\ i \in 1..Len(s) - 1 + Len(t)
        /\ i + 1 - Len(s) = i - (Len(s) - 1)
    BY <1>1
  <2>2. Tail(w)[i] = w[i + 1]
    BY <1>4
  <2>3. CASE i <= Len(s) - 1
    <3>1. i + 1 <= Len(s) /\ i \in 1..Len(s) - 1
      BY <1>1, <2>3
    <3>2. w[i + 1] = s[i + 1]
      BY <1>1, <2>1, <3>1
    <3>3. u[i] = Tail(s)[i]
      BY <1>5, <2>1, <2>3
    <3> QED
      BY <1>3, <2>2, <3>1, <3>2, <3>3
  <2>4. CASE ~(i <= Len(s) - 1)
    <3>1. ~(i + 1 <= Len(s))
      BY <1>1, <2>4
    <3>2. w[i + 1] = t[i + 1 - Len(s)]
      BY <1>1, <2>1, <3>1
    <3>3. u[i] = t[i - (Len(s) - 1)]
      BY <1>5, <2>1, <2>4
    <3> QED
      BY <2>1, <2>2, <3>2, <3>3
  <2> QED
    BY <2>3, <2>4
<1>7. Tail(w) = u
  BY <1>1, <1>4, <1>5, <1>6, SeqEqual
<1> QED
  BY <1>1, <1>2, <1>7 DEF w, u

(* Two lists, one after the other.                                         *)
LEMMA GatherConcat ==
  ASSUME NEW V, NEW s \in Seq(Vec(V)), NEW t \in Seq(Vec(V))
  PROVE  Gather(s \o t) = Gather(s) \o Gather(t)
<1> DEFINE S == {n \in Nat : \A w \in Seq(Vec(V)) :
                   Len(w) = n => Gather(w \o t) = Gather(w) \o Gather(t)}
<1>1. Gather(t) \in Seq(Byte(V))
  BY GatherIs
<1>2. 0 \in S
  <2> SUFFICES ASSUME NEW w \in Seq(Vec(V)), Len(w) = 0
               PROVE  Gather(w \o t) = Gather(w) \o Gather(t)
    OBVIOUS
  <2>1. w = <<>>
    BY EmptySeq
  <2>2. w \o t = t /\ Gather(w) = <<>>
    BY <2>1, ConcatEmptySeq, GatherIs
  <2> QED
    BY <1>1, <2>2, ConcatEmptySeq
<1>3. \A n \in S : n + 1 \in S
  <2> SUFFICES ASSUME NEW n \in S, NEW w \in Seq(Vec(V)), Len(w) = n + 1
               PROVE  Gather(w \o t) = Gather(w) \o Gather(t)
    <3>1. \A n \in S : n \in Nat /\ n + 1 \in Nat
      OBVIOUS
    <3> QED
      BY <3>1
  <2>1. n \in Nat /\ w # <<>>
    BY EmptySeq
  <2>2. w[1] \in Vec(V) /\ Tail(w) \in Seq(Vec(V)) /\ Len(Tail(w)) = n
    BY <2>1, ElementOfSeq, HeadTailProperties
  <2>3. Gather(Tail(w) \o t) = Gather(Tail(w)) \o Gather(t)
    BY <2>2
  <2>4. /\ w \o t \in Seq(Vec(V)) /\ w \o t # <<>>
        /\ (w \o t)[1] = w[1] /\ Tail(w \o t) = Tail(w) \o t
    BY <2>1, TailOfConcat
  <2>5. /\ Gather(w) = Bytes(w[1]) \o Gather(Tail(w))
        /\ Gather(w \o t) = Bytes(w[1]) \o Gather(Tail(w) \o t)
    BY <2>1, <2>4, GatherIs
  <2>6. Bytes(w[1]) \in Seq(Byte(V)) /\ Gather(Tail(w)) \in Seq(Byte(V))
    BY <2>2, BytesIs, GatherIs
  <2>7. \A x, y, z \in Seq(Byte(V)) : (x \o y) \o z = x \o (y \o z)
    BY ConcatAssociative
  <2>8. (Bytes(w[1]) \o Gather(Tail(w))) \o Gather(t)
          = Bytes(w[1]) \o (Gather(Tail(w)) \o Gather(t))
    BY <1>1, <2>6, <2>7, Zenon
  <2> QED
    BY <2>3, <2>5, <2>8
<1>4. S = Nat
  <2> HIDE DEF S
  <2>1. S \subseteq Nat
    BY DEF S
  <2> QED
    BY <1>2, <1>3, <2>1, NatSetInduction
<1>5. Len(s) \in S
  BY <1>4, LenProperties
<1> QED
  BY <1>5

(* Advancing the first vector of a list drops the first bytes of the list. *)
LEMMA GatherAdvance ==
  ASSUME NEW V, NEW s \in Seq(Vec(V)), s # <<>>, NEW n \in 0..s[1].len
  PROVE  /\ n \in 0..Len(Gather(s))
         /\ [s EXCEPT ![1] = Advance(@, n)] \in Seq(Vec(V))
         /\ Len([s EXCEPT ![1] = Advance(@, n)]) = Len(s)
         /\ Gather([s EXCEPT ![1] = Advance(@, n)]) = Drop(Gather(s), n)
<1> DEFINE a == Advance(s[1], n)
           w == [s EXCEPT ![1] = a]
           b == Bytes(s[1])
           t == Gather(Tail(s))
<1>1. Len(s) \in Nat \ {0} /\ 1 \in 1..Len(s)
  BY EmptySeq
<1>2. s[1] \in Vec(V) /\ Tail(s) \in Seq(Vec(V)) /\ Len(Tail(s)) = Len(s) - 1
  BY <1>1, ElementOfSeq, HeadTailProperties
<1>3. a \in Vec(V) /\ Bytes(a) = Drop(b, n)
  BY <1>2, BytesAdvance
<1>4. b \in Seq(Byte(V)) /\ Len(b) = s[1].len
  BY <1>2, BytesIs
<1>5. t \in Seq(Byte(V)) /\ Len(t) \in Nat
  BY <1>2, GatherIs, LenProperties
<1>6. Gather(s) = b \o t
  BY GatherIs
<1>7. [s EXCEPT ![1] = Advance(@, n)] = w
  OBVIOUS
<1> HIDE DEF a
<1>8. /\ w \in Seq(Vec(V)) /\ Len(w) = Len(s)
      /\ \A j \in 1..Len(s) : w[j] = IF j = 1 THEN a ELSE s[j]
  BY <1>1, <1>3, ExceptSeq
<1> HIDE DEF w, b, t
<1>9. w # <<>>
  BY <1>1, <1>8, EmptySeq
<1>10. Tail(w) = Tail(s)
  <2>1. /\ Tail(w) \in Seq(Vec(V)) /\ Len(Tail(w)) = Len(s) - 1
        /\ \A i \in 1..Len(s) - 1 : Tail(w)[i] = w[i + 1]
    BY <1>8, <1>9, HeadTailProperties
  <2>2. \A i \in 1..Len(s) - 1 : Tail(s)[i] = s[i + 1]
    BY <1>2, HeadTailProperties
  <2>3. \A i \in 1..Len(s) - 1 : Tail(w)[i] = Tail(s)[i]
    <3> TAKE i \in 1..Len(s) - 1
    <3>1. i + 1 \in 1..Len(s) /\ i + 1 # 1
      BY <1>1
    <3> QED
      BY <1>8, <2>1, <2>2, <3>1
  <2> QED
    BY <1>2, <2>1, <2>3, SeqEqual
<1>11. Gather(w) = Drop(b, n) \o t
  <2>1. Gather(w) = Bytes(w[1]) \o Gather(Tail(w))
    BY <1>8, <1>9, GatherIs
  <2>2. w[1] = a
    BY <1>1, <1>8
  <2> QED
    BY <1>3, <1>10, <2>1, <2>2 DEF t
<1>12. n \in 0..Len(b) + Len(t) /\ n <= Len(b)
  BY <1>4, <1>5
<1>13. Drop(b \o t, n) = Drop(b, n) \o t
  BY <1>4, <1>5, <1>12, DropOfConcat
<1>14. Len(b \o t) = Len(b) + Len(t)
  BY <1>4, <1>5, ConcatProperties
<1> QED
  BY <1>6, <1>7, <1>8, <1>11, <1>12, <1>13, <1>14

(* Dropping the whole of the first vector, or more, leaves the others.     *)
LEMMA GatherTail ==
  ASSUME NEW V, NEW s \in Seq(Vec(V)), s # <<>>,
         NEW n \in 0..Len(Gather(s)), s[1].len <= n
  PROVE  /\ n - s[1].len \in 0..Len(Gather(Tail(s)))
         /\ Drop(Gather(s), n) = Drop(Gather(Tail(s)), n - s[1].len)
<1> DEFINE b == Bytes(s[1])
           t == Gather(Tail(s))
<1>1. s[1] \in Vec(V) /\ Tail(s) \in Seq(Vec(V))
  <2>1. Len(s) \in Nat \ {0}
    BY EmptySeq
  <2> QED
    BY <2>1, ElementOfSeq, HeadTailProperties
<1>2. b \in Seq(Byte(V)) /\ Len(b) = s[1].len /\ Len(b) \in Nat
  BY <1>1, BytesIs, LenProperties
<1>3. t \in Seq(Byte(V)) /\ Len(t) \in Nat
  BY <1>1, GatherIs, LenProperties
<1>4. Gather(s) = b \o t
  BY GatherIs
<1> HIDE DEF b, t
<1>5. Len(Gather(s)) = Len(b) + Len(t)
  BY <1>2, <1>3, <1>4, ConcatProperties
<1>6. n \in 0..Len(b) + Len(t) /\ n - Len(b) \in 0..Len(t)
  BY <1>2, <1>3, <1>5
<1>7. CASE n = Len(b)
  <2>1. Drop(b \o t, n) = Drop(b, n) \o t
    BY <1>2, <1>3, <1>6, <1>7, DropOfConcat
  <2>2. Drop(b, n) = <<>>
    <3>1. n \in 0..Len(b)
      BY <1>2, <1>7
    <3>2. Drop(b, n) \in Seq(Byte(V)) /\ Len(Drop(b, n)) = Len(b) - n
      BY <1>2, <3>1, DropIs
    <3>3. Len(b) - n = 0
      BY <1>2, <1>7
    <3> QED
      BY <3>2, <3>3, EmptySeq
  <2>3. <<>> \o t = t /\ Drop(t, 0) = t
    BY <1>3, ConcatEmptySeq, DropNone
  <2>4. n - Len(b) = 0
    BY <1>2, <1>7
  <2>5. Drop(Gather(s), n) = Drop(t, n - Len(b))
    BY <1>4, <2>1, <2>2, <2>3, <2>4
  <2> QED
    BY <1>2, <1>6, <2>5 DEF t
<1>8. CASE n # Len(b)
  <2>1. ~(n <= Len(b))
    BY <1>2, <1>8
  <2>2. Drop(b \o t, n) = Drop(t, n - Len(b))
    BY <1>2, <1>3, <1>6, <2>1, DropOfConcat
  <2> QED
    BY <1>2, <1>4, <1>6, <2>2 DEF t
<1> QED
  BY <1>7, <1>8

(* What callers pass.                                                      *)
Places == 1..MaxVecs

(* What callers pass: lists within the bounds, and a single vector.        *)
LEMMA CallerLists ==
  ASSUME NEW v \in VectorLists \cup Buffers
  PROVE  v \in Seq(Vec(Places)) /\ Len(v) <= MaxVecs /\ (v \in Buffers => Len(v) = 1)
<1>1. \A i \in 1..MaxVecs, l \in 0..MaxLen : Vector(i, l) \in Vec(Places)
  BY BoundsAssumption DEF Vec, Vector, Places
<1>2. ASSUME NEW w \in VectorLists
      PROVE  w \in Seq(Vec(Places)) /\ Len(w) <= MaxVecs
  <2>1. PICK lens \in BoundedSeq(0..MaxLen, MaxVecs) :
               w = [i \in DOMAIN lens |-> Vector(i, lens[i])]
    BY DEF VectorLists
  <2>2. PICK m \in 0..MaxVecs : lens \in [1..m -> 0..MaxLen]
    BY DEF BoundedSeq, SeqOf
  <2>3. \A i \in 1..m : i \in 1..MaxVecs
    BY <2>2, BoundsAssumption
  <2>4. w \in [1..m -> Vec(Places)]
    BY <1>1, <2>1, <2>2, <2>3
  <2>5. m \in Nat /\ m <= MaxVecs
    BY BoundsAssumption
  <2> QED
    BY <2>4, <2>5, FunctionSeq
<1>3. ASSUME NEW w \in Buffers
      PROVE  w \in Seq(Vec(Places)) /\ Len(w) = 1
  <2>1. PICK l \in 0..MaxLen : w = <<Vector(1, l)>>
    BY DEF Buffers
  <2>2. Vector(1, l) \in Vec(Places)
    BY <1>1, BoundsAssumption
  <2> QED
    BY <2>1, <2>2
<1>4. \A k : k = 1 => k <= MaxVecs
  BY BoundsAssumption
<1>5. CASE v \in Buffers
  <2>1. v \in Seq(Vec(Places)) /\ Len(v) = 1
    BY <1>3, <1>5
  <2> QED
    BY <1>4, <2>1
<1>6. CASE v \notin Buffers
  BY <1>2, <1>6
<1> QED
  BY <1>5, <1>6

(* A message has no more bytes than MaxCount.                              *)
LEMMA MessageIs ==
  /\ <<>> \in Messages
  /\ \A m \in Messages : m \in Seq(Byte(Places)) /\ Len(m) <= MaxCount
<1>1. <<>> \in Messages
  <2>1. <<>> \in [1..0 -> 0..MaxLen] /\ 0 \in 0..MaxVecs
    BY BoundsAssumption
  <2>2. <<>> \in BoundedSeq(0..MaxLen, MaxVecs)
    BY <2>1 DEF BoundedSeq, SeqOf
  <2>3. [i \in DOMAIN <<>> |-> Vector(i, <<>>[i])] = <<>>
    OBVIOUS
  <2>4. <<>> \in VectorLists
    BY <2>2, <2>3 DEF VectorLists, EndsEmpty
  <2>5. Gather(<<>>) = <<>>
    BY EmptySeq, GatherIs
  <2> QED
    BY <2>4, <2>5 DEF Messages
<1>2. ASSUME NEW m \in Messages
      PROVE  m \in Seq(Byte(Places)) /\ Len(m) <= MaxCount
  <2>1. PICK v \in VectorLists \cup Buffers : m = Gather(v)
    BY DEF Messages
  <2>2. v \in Seq(Vec(Places)) /\ Len(v) <= MaxVecs /\ Len(v) \in Nat
    BY CallerLists, LenProperties
  <2>3. Gather(v) \in Seq(Byte(Places)) /\ Len(Gather(v)) <= Len(v) * MaxLen
    BY <2>2, GatherIs
  <2>4. Len(Gather(v)) \in Nat
    BY <2>3, LenProperties
  <2>5. \A j, k, x \in Nat : j <= k => j * x <= k * x
    OBVIOUS
  <2>6. Len(v) * MaxLen <= MaxVecs * MaxLen /\ Len(v) * MaxLen \in Nat
        /\ MaxVecs * MaxLen \in Nat
    BY <2>2, <2>5, BoundsAssumption
  <2> QED
    BY <2>1, <2>3, <2>4, <2>6 DEF MaxCount
<1> QED
  BY <1>1, <1>2

-----------------------------------------------------------------------------
(* The inductive invariant. RestIsUnsent says nothing of the list while    *)
(* the inner loop is taking what went out off it: then, what went out and  *)
(* the list without its first wc bytes make up the message.                *)

Unsent == IF at = "consume" THEN Drop(Gather(iov), wc) ELSE Gather(iov)

Sending ==
  /\ op = "write" => at # "consume" /\ Len(iov) = 1
  /\ op # "none" /\ at = "consume" => wc <= Len(Gather(iov))
  /\ op # "none" => out \o Unsent = msg /\ Len(out) = wt

(* Two loops that send a list of vectors, whatever V their vectors are of. *)
Sends(V) ==
  /\ op \in {"none", "write", "writev"}
  /\ at \in {"test", "call", "consume"}
  /\ iov \in Seq(Vec(V))
  /\ wc \in 0..MaxCount
  /\ wt \in 0..MaxCount
  /\ ret \in {NoRet, -1} \cup 0..MaxCount
  /\ msg \in Seq(Byte(V)) /\ Len(msg) <= MaxCount
  /\ out \in Seq(Byte(V))
  /\ Sending

IInv == TypeOK /\ Sends(Places)

(* What follows from the loops' invariant between two steps.               *)
LEMMA SendsTypes ==
  ASSUME NEW V, Sends(V)
  PROVE  /\ Gather(iov) \in Seq(Byte(V)) /\ Len(Gather(iov)) \in Nat
         /\ Len(msg) \in Nat /\ Len(out) \in Nat
         /\ MaxCount \in Nat /\ wc \in Nat /\ wt \in Nat
         /\ op # "none" => Unsent \in Seq(Byte(V))
         /\ op # "none" => SubSeq(msg, 1, wt) = out
         /\ op # "none" /\ at # "consume" =>
              /\ out \o Gather(iov) = msg
              /\ Len(out) + Len(Gather(iov)) = Len(msg)
<1>1. Gather(iov) \in Seq(Byte(V)) /\ Len(Gather(iov)) \in Nat
  BY GatherIs, LenProperties DEF Sends
<1>2. Len(msg) \in Nat /\ Len(out) \in Nat
  BY LenProperties DEF Sends
<1>4. MaxCount \in Nat
  BY BoundsAssumption DEF MaxCount
<1>5. wc \in Nat /\ wt \in Nat
  BY <1>4 DEF Sends
<1>6. op # "none" => Unsent \in Seq(Byte(V))
  <2>1. CASE op # "none" /\ at = "consume"
    <3>1. wc \in 0..Len(Gather(iov))
      BY <1>1, <1>5, <2>1 DEF Sends, Sending
    <3> QED
      BY <1>1, <2>1, <3>1, DropIs DEF Unsent
  <2> QED
    BY <1>1, <2>1 DEF Unsent
<1>7. ASSUME op # "none" PROVE SubSeq(msg, 1, wt) = out
  BY <1>6, <1>7, TakeOfConcat DEF Sends, Sending
<1>8. ASSUME op # "none", at # "consume"
      PROVE  /\ out \o Gather(iov) = msg
             /\ Len(out) + Len(Gather(iov)) = Len(msg)
  <2>1. out \o Gather(iov) = msg
    BY <1>8 DEF Sends, Sending, Unsent
  <2> QED
    BY <1>1, <2>1, ConcatProperties DEF Sends
<1> QED
  BY <1>1, <1>2, <1>4, <1>5, <1>6, <1>7, <1>8

(* What a system call does to the message.                                 *)
LEMMA TakeStep ==
  ASSUME NEW V, Sends(V), NEW n \in Nat, op # "none", at = "call", Take(n)
  PROVE  /\ n \in 0..Len(Gather(iov)) /\ wt + n \in 0..MaxCount
         /\ n \in 0..MaxCount
         /\ out' \in Seq(Byte(V))
         /\ Len(out') = wt + n
         /\ out' \o Drop(Gather(iov), n) = msg
<1> DEFINE g == Gather(iov)
           s == SubSeq(g, 1, n)
           d == Drop(g, n)
<1>0. \A x, y, z \in Seq(Byte(V)) : (x \o y) \o z = x \o (y \o z)
  BY ConcatAssociative
<1>1. /\ g \in Seq(Byte(V)) /\ Len(g) \in Nat /\ Len(msg) <= MaxCount
      /\ Len(out) \in Nat /\ MaxCount \in Nat /\ Len(msg) \in Nat
      /\ out \o g = msg /\ Len(out) + Len(g) = Len(msg)
  BY SendsTypes DEF Sends
<1>2. n \in 0..Len(g) /\ out' = out \o s
  BY DEF Take
<1>3. out \in Seq(Byte(V)) /\ Len(out) = wt
  BY DEF Sends, Sending
<1> HIDE DEF g
<1>4. s \in Seq(Byte(V)) /\ Len(s) = n /\ s \o d = g
  BY <1>1, <1>2, TakeAndDrop
<1>5. d \in Seq(Byte(V))
  BY <1>1, <1>2, DropIs
<1> HIDE DEF s, d
<1>6. out \o s \in Seq(Byte(V)) /\ Len(out \o s) = Len(out) + Len(s)
  BY <1>3, <1>4, ConcatProperties
<1>7. (out \o s) \o d = out \o (s \o d)
  BY <1>0, <1>3, <1>4, <1>5, Zenon
<1>8. wt + n \in 0..MaxCount /\ n \in 0..MaxCount
  BY <1>1, <1>2, <1>3
<1> QED
  BY <1>1, <1>2, <1>3, <1>4, <1>6, <1>7, <1>8 DEF g, d

(* Nothing was sent.                                                       *)
LEMMA SendsInit ==
  ASSUME NEW V, Init
  PROVE  Sends(V)
<1>1. <<>> \in Seq(Vec(V)) /\ <<>> \in Seq(Byte(V)) /\ Len(<<>>) = 0
  BY EmptySeq
<1>2. MaxCount \in Nat
  BY BoundsAssumption DEF MaxCount
<1> QED
  BY <1>1, <1>2 DEF Init, Sends, Sending

(* A call begins with all of the message unsent.                           *)
LEMMA CallSends ==
  ASSUME NEW V, Sends(V), NEW f \in {"write", "writev"}, NEW v \in Seq(Vec(V)),
         f = "write" => Len(v) = 1, Len(Gather(v)) <= MaxCount, Call(f, v)
  PROVE  Sends(V)'
<1>1. Gather(v) \in Seq(Byte(V))
  BY GatherIs
<1>2. /\ op' = f /\ at' = "test" /\ iov' = v /\ wc' = 0 /\ wt' = 0
      /\ msg' = Gather(v) /\ out' = <<>> /\ UNCHANGED ret
  BY DEF Call
<1>3. 0 \in 0..MaxCount
  BY SendsTypes
<1>4. <<>> \o Gather(v) = Gather(v) /\ <<>> \in Seq(Byte(V)) /\ Len(<<>>) = 0
  BY <1>1, ConcatEmptySeq, EmptySeq
<1>5. Sending'
  BY <1>2, <1>4 DEF Sending, Unsent
<1> QED
  BY <1>1, <1>2, <1>3, <1>4, <1>5 DEF Sends

(* The loop test moves no bytes.                                           *)
LEMMA TestSends ==
  ASSUME NEW V, Sends(V), LoopTest
  PROVE  Sends(V)'
<1>1. /\ op # "none" /\ at = "test" /\ UNCHANGED <<iov, wc, wt, errno, msg, out>>
      /\ \/ op' = "none" /\ ret' = wt /\ at' = at
         \/ at' = "call" /\ UNCHANGED <<op, ret>>
  BY DEF LoopTest, Return
<1>2. Sending'
  BY <1>1 DEF Sends, Sending, Unsent
<1> QED
  BY <1>1, <1>2 DEF Sends

(* write(2) in sancus_write(): base, size and count move together.         *)
LEMMA WriteSends ==
  ASSUME NEW V, Sends(V), NEW n \in 0..MaxCount, Write(n)
  PROVE  Sends(V)'
<1>1. /\ op = "write" /\ at = "call" /\ Take(n)
      /\ wt' = wt + n /\ iov' = <<Advance(iov[1], n)>> /\ at' = "test"
      /\ UNCHANGED <<op, wc, errno, ret, msg>>
  BY DEF Write
<1>2. n \in Nat
  BY SendsTypes
<1>3. /\ n \in 0..Len(Gather(iov)) /\ wt + n \in 0..MaxCount
      /\ out' \in Seq(Byte(V)) /\ Len(out') = wt + n
      /\ out' \o Drop(Gather(iov), n) = msg
  BY <1>1, <1>2, TakeStep
<1>4. iov \in Seq(Vec(V)) /\ Len(iov) = 1
  BY <1>1 DEF Sends, Sending
<1>5. iov # <<>> /\ iov[1] \in Vec(V)
  BY <1>4, EmptySeq, ElementOfSeq
<1>6. Len(Gather(iov)) = iov[1].len
  <2>1. Tail(iov) \in Seq(Vec(V)) /\ Len(Tail(iov)) = 0
    BY <1>4, <1>5, HeadTailProperties
  <2>2. Gather(Tail(iov)) = <<>>
    BY <2>1, EmptySeq, GatherIs
  <2>3. Gather(iov) = Bytes(iov[1]) \o <<>>
    BY <1>4, <1>5, <2>2, GatherIs
  <2>4. Bytes(iov[1]) \in Seq(Byte(V)) /\ Len(Bytes(iov[1])) = iov[1].len
    BY <1>5, BytesIs
  <2>5. Bytes(iov[1]) \o <<>> = Bytes(iov[1])
    BY <2>4, ConcatEmptySeq
  <2> QED
    BY <2>3, <2>4, <2>5
<1>7. n \in 0..iov[1].len
  BY <1>3, <1>6
<1>8. /\ [iov EXCEPT ![1] = Advance(@, n)] \in Seq(Vec(V))
      /\ Len([iov EXCEPT ![1] = Advance(@, n)]) = 1
      /\ Gather([iov EXCEPT ![1] = Advance(@, n)]) = Drop(Gather(iov), n)
  BY <1>4, <1>5, <1>7, GatherAdvance
<1>9. iov' = [iov EXCEPT ![1] = Advance(@, n)]
  <2>1. iov \in [1..1 -> Vec(V)]
    BY <1>4, LenProperties
  <2>2. [iov EXCEPT ![1] = Advance(@, n)] = <<Advance(iov[1], n)>>
    BY <2>1
  <2> QED
    BY <1>1, <2>2
<1>10. Sending'
  BY <1>1, <1>3, <1>8, <1>9 DEF Sending, Unsent
<1> QED
  BY <1>1, <1>3, <1>8, <1>9, <1>10 DEF Sends

(* writev(2): what it took is on the list until the inner loop.            *)
LEMMA WritevSends ==
  ASSUME NEW V, Sends(V), NEW n \in 0..MaxCount, Writev(n)
  PROVE  Sends(V)'
<1>1. /\ op = "writev" /\ at = "call" /\ Take(n)
      /\ wc' = n /\ wt' = wt + n /\ at' = "consume"
      /\ UNCHANGED <<op, iov, errno, ret, msg>>
  BY DEF Writev
<1>2. n \in Nat
  BY SendsTypes
<1>3. /\ n \in 0..Len(Gather(iov)) /\ wt + n \in 0..MaxCount
      /\ out' \in Seq(Byte(V)) /\ Len(out') = wt + n
      /\ out' \o Drop(Gather(iov), n) = msg
  BY <1>1, <1>2, TakeStep
<1>4. n <= Len(Gather(iov))
  BY <1>3
<1>5. Sending'
  BY <1>1, <1>3, <1>4 DEF Sending, Unsent
<1> QED
  BY <1>1, <1>3, <1>5 DEF Sends

(* The inner loop never looks past the end of the list.                    *)
LEMMA SomeLeft ==
  ASSUME NEW V, Sends(V), op # "none", at = "consume", wc > 0
  PROVE  iov # <<>> /\ iov[1] \in Vec(V) /\ iov[1].len \in Nat
<1>1. /\ iov \in Seq(Vec(V)) /\ Gather(iov) \in Seq(Byte(V))
      /\ wc \in Nat /\ Len(Gather(iov)) \in Nat /\ wc <= Len(Gather(iov))
  BY SendsTypes DEF Sends, Sending
<1>2. Gather(iov) # <<>>
  <2>1. Len(Gather(iov)) # 0
    BY <1>1
  <2> QED
    BY <2>1, EmptySeq
<1>3. iov # <<>>
  BY <1>1, <1>2, GatherIs
<1>4. 1 \in 1..Len(iov)
  BY <1>1, <1>3, EmptySeq
<1> QED
  BY <1>1, <1>3, <1>4, ElementOfSeq, BoundsAssumption DEF Vec

(* A round of the inner loop takes as much off the list as off wc.         *)
LEMMA ConsumeSends ==
  ASSUME NEW V, Sends(V), Consume
  PROVE  Sends(V)'
<1>1. op = "writev" /\ at = "consume" /\ UNCHANGED <<op, wt, errno, ret, msg, out>>
  BY DEF Consume
<1>2. /\ iov \in Seq(Vec(V)) /\ Gather(iov) \in Seq(Byte(V))
      /\ wc \in 0..Len(Gather(iov))
      /\ out \o Drop(Gather(iov), wc) = msg /\ Len(out) = wt
  BY <1>1, SendsTypes DEF Sends, Sending, Unsent
<1>3. CASE wc = 0 /\ at' = "test" /\ UNCHANGED <<iov, wc>>
  <2>1. Drop(Gather(iov), wc) = Gather(iov)
    BY <1>2, <1>3, DropNone
  <2>2. Sending'
    BY <1>1, <1>2, <1>3, <2>1 DEF Sending, Unsent
  <2> QED
    BY <1>1, <1>3, <2>2 DEF Sends
<1>4. ASSUME wc > 0 PROVE iov # <<>> /\ iov[1] \in Vec(V) /\ iov[1].len \in Nat
  BY <1>1, <1>4, SomeLeft
<1>5. CASE /\ wc > 0 /\ UNCHANGED at /\ wc >= iov[1].len
           /\ wc' = wc - iov[1].len /\ iov' = Tail(iov)
  <2>1. iov[1].len <= wc /\ iov # <<>> /\ iov[1].len \in Nat /\ wc \in Nat
    BY <1>2, <1>4, <1>5, SendsTypes
  <2>2. /\ wc - iov[1].len \in 0..Len(Gather(Tail(iov)))
        /\ Drop(Gather(iov), wc) = Drop(Gather(Tail(iov)), wc - iov[1].len)
    BY <1>2, <2>1, GatherTail
  <2>3. Tail(iov) \in Seq(Vec(V))
    BY <1>2, <2>1, HeadTailProperties
  <2>4. Len(Gather(Tail(iov))) \in Nat
    BY <2>3, GatherIs, LenProperties
  <2>5. wc' <= Len(Gather(iov'))
    BY <1>5, <2>2, <2>4
  <2>6. wc' \in 0..MaxCount
    <3>1. wc \in 0..MaxCount
      BY DEF Sends
    <3> QED
      BY <1>5, <2>1, <3>1, SendsTypes
  <2>7. Sending'
    BY <1>1, <1>2, <1>5, <2>2, <2>5 DEF Sending, Unsent
  <2> QED
    BY <1>1, <1>5, <2>3, <2>6, <2>7 DEF Sends
<1>6. CASE /\ wc > 0 /\ UNCHANGED at /\ ~(wc >= iov[1].len)
           /\ wc' = 0 /\ iov' = [iov EXCEPT ![1] = Advance(@, wc)]
  <2>1. wc \in 0..iov[1].len /\ iov # <<>>
    BY <1>2, <1>4, <1>6, SendsTypes
  <2>2. iov' \in Seq(Vec(V)) /\ Gather(iov') = Drop(Gather(iov), wc)
    BY <1>2, <1>6, <2>1, GatherAdvance
  <2>3. Gather(iov') \in Seq(Byte(V))
    BY <2>2, GatherIs
  <2>4. Drop(Gather(iov'), 0) = Gather(iov') /\ Len(Gather(iov')) \in Nat
    BY <2>3, DropNone, LenProperties
  <2>5. 0 \in 0..MaxCount /\ 0 <= Len(Gather(iov'))
    BY <2>4, SendsTypes
  <2>6. Sending'
    BY <1>1, <1>2, <1>6, <2>2, <2>4, <2>5 DEF Sending, Unsent
  <2> QED
    BY <1>1, <1>6, <2>2, <2>5, <2>6 DEF Sends
<1> QED
  BY <1>3, <1>5, <1>6 DEF Consume

(* Every step but the call of a function.                                  *)
LEMMA StepKeepsSends ==
  ASSUME NEW V, Sends(V), [Runs \/ Interrupted \/ Refused]_vars
  PROVE  Sends(V)'
<1>1. ASSUME Interrupted PROVE Sends(V)'
  BY <1>1 DEF Interrupted, Sends, Sending, Unsent
<1>2. ASSUME Refused PROVE Sends(V)'
  BY <1>2 DEF Refused, Return, Sends, Sending, Unsent
<1>3. ASSUME UNCHANGED vars PROVE Sends(V)'
  BY <1>3 DEF vars, Sends, Sending, Unsent
<1> QED
  BY <1>1, <1>2, <1>3, TestSends, WriteSends, WritevSends, ConsumeSends DEF Runs

(* No step makes the list longer.                                          *)
LEMMA StepShortens ==
  ASSUME NEW V, Sends(V), [Runs \/ Interrupted \/ Refused]_vars
  PROVE  Len(iov') <= Len(iov)
<1>1. iov \in Seq(Vec(V)) /\ Len(iov) \in Nat
  BY LenProperties DEF Sends
<1>2. ASSUME NEW n \in 0..MaxCount, Write(n) PROVE Len(iov') <= Len(iov)
  <2>1. iov' = <<Advance(iov[1], n)>> /\ Len(iov) = 1
    BY <1>2 DEF Write, Sends, Sending
  <2> QED
    BY <2>1
<1>3. ASSUME Consume PROVE Len(iov') <= Len(iov)
  <2>1. op # "none" /\ at = "consume"
    BY <1>3 DEF Consume
  <2>2. CASE UNCHANGED iov
    BY <1>1, <2>2
  <2>3. CASE wc > 0 /\ iov' = Tail(iov)
    BY <1>1, <2>1, <2>3, SomeLeft, HeadTailProperties
  <2>4. CASE wc > 0 /\ iov' = [iov EXCEPT ![1] = Advance(@, wc)]
    <3>1. iov \in [1..Len(iov) -> Vec(V)]
      BY <1>1, LenProperties
    <3>2. iov' \in [1..Len(iov) -> UNION {Vec(V), {Advance(iov[1], wc)}}]
      BY <2>4, <3>1
    <3>3. Len(iov') = Len(iov)
      BY <1>1, <3>2, FunctionSeq
    <3> QED
      BY <1>1, <3>3
  <2> QED
    BY <1>3, <2>2, <2>3, <2>4 DEF Consume
<1>4. ASSUME LoopTest \/ (\E n \in 0..MaxCount : Writev(n))
             \/ Interrupted \/ Refused \/ UNCHANGED vars
      PROVE  UNCHANGED iov
  BY <1>4 DEF LoopTest, Writev, Interrupted, Refused, vars
<1> QED
  BY <1>1, <1>2, <1>3, <1>4 DEF Runs

(* Nothing was called.                                                     *)
LEMMA InvInit ==
  ASSUME Init
  PROVE  IInv
<1>1. Sends(Places)
  BY SendsInit
<1>2. iov \in Seq([vec : 1..MaxVecs, off : 0..MaxLen, len : 0..MaxLen])
  BY EmptySeq DEF Init
<1>3. TypeOK
  BY <1>1, <1>2, MessageIs DEF Init, Sends, TypeOK
<1> QED
  BY <1>1, <1>3 DEF IInv

(* Every step keeps the invariant.                                         *)
LEMMA InvNext ==
  ASSUME IInv, [Next]_vars
  PROVE  IInv'
<1>1. ASSUME Calls
      PROVE  Sends(Places)' /\ msg' \in Messages /\ errno' = errno
  <2>1. PICK f \in {"write", "writev"}, v \in VectorLists \cup Buffers :
             Call(f, v) /\ (f = "write" => v \in Buffers)
    BY <1>1 DEF Calls
  <2>2. v \in Seq(Vec(Places)) /\ (f = "write" => Len(v) = 1)
    BY <2>1, CallerLists
  <2>3. Gather(v) \in Messages
    BY DEF Messages
  <2>4. Len(Gather(v)) <= MaxCount
    BY <2>3, MessageIs
  <2>5. Sends(Places)'
    BY <2>1, <2>2, <2>4, CallSends DEF IInv
  <2> QED
    BY <2>1, <2>3, <2>5 DEF Call
<1>2. ASSUME Runs \/ Interrupted \/ Refused \/ UNCHANGED vars
      PROVE  Sends(Places)' /\ msg' = msg /\ errno' \in {errno, "EINTR", "other"}
  <2>1. Sends(Places)'
    BY <1>2, StepKeepsSends DEF IInv
  <2>2. msg' = msg /\ errno' \in {errno, "EINTR", "other"}
    BY <1>2 DEF Runs, LoopTest, Write, Writev, Consume, Interrupted, Refused, vars
  <2> QED
    BY <2>1, <2>2
<1>3. /\ Sends(Places)' /\ msg' \in Messages
      /\ errno' \in {"none", "EINTR", "other"}
  BY <1>1, <1>2 DEF Next, IInv, TypeOK
<1>4. Vec(Places) \subseteq [vec : 1..MaxVecs, off : 0..MaxLen, len : 0..MaxLen]
  BY DEF Vec, Places
<1>5. iov' \in Seq([vec : 1..MaxVecs, off : 0..MaxLen, len : 0..MaxLen])
  BY <1>3, <1>4, SeqMonotonic DEF Sends
<1>6. TypeOK'
  BY <1>3, <1>5 DEF Sends, TypeOK
<1> QED
  BY <1>3, <1>6 DEF IInv

-----------------------------------------------------------------------------
(* Theorems.                                                               *)

(* The invariant holds for every number and length of vectors, however     *)
(* the kernel takes them.                                                  *)
THEOREM SendingInvariant == Spec => []IInv
<1>1. Init => IInv
  BY InvInit
<1>2. IInv /\ [Next]_vars => IInv'
  BY InvNext
<1> QED
  BY <1>1, <1>2, PTL DEF Spec

(* The counts of sancus_writev() stay within what it was given, and the    *)
(* vectors within their buffers' lengths.                                  *)
THEOREM FdIOTypeCorrect == Spec => []TypeOK
<1>1. IInv => TypeOK
  BY DEF IInv
<1> QED
  BY <1>1, SendingInvariant, PTL

(* After any number of partial writes, in whichever vector they stopped,   *)
(* what is left to send is what has not gone out, and the count is what    *)
(* has.                                                                    *)
THEOREM NothingLostOrTwice == Spec => []RestIsUnsent
<1>1. IInv => RestIsUnsent
  <2> SUFFICES ASSUME IInv PROVE RestIsUnsent
    OBVIOUS
  <2> QED
    BY SendsTypes DEF IInv, RestIsUnsent
<1> QED
  BY <1>1, SendingInvariant, PTL

(* The loop test lets a call succeed only when nothing is left.            *)
LEMMA DoneIsAll ==
  ASSUME NEW V, Sends(V), op # "none", at = "test", Done
  PROVE  out = msg
<1>1. iov \in Seq(Vec(V)) /\ out \in Seq(Byte(V)) /\ out \o Gather(iov) = msg
  BY DEF Sends, Sending, Unsent
<1>2. Gather(iov) = <<>>
  <2>1. CASE iov = <<>>
    BY <2>1, EmptySeq, GatherIs
  <2>2. CASE iov # <<>>
    <3>1. op = "write" /\ iov[1].len = 0 /\ Len(iov) = 1
      BY <2>2 DEF Done, Sends, Sending
    <3>2. iov[1] \in Vec(V)
      <4>1. 1 \in 1..Len(iov)
        BY <3>1
      <4> QED
        BY <1>1, <4>1, ElementOfSeq
    <3>3. Bytes(iov[1]) \in Seq(Byte(V)) /\ Len(Bytes(iov[1])) = 0
      BY <3>1, <3>2, BytesIs
    <3>4. Bytes(iov[1]) = <<>>
      BY <3>3, EmptySeq
    <3>5. Tail(iov) \in Seq(Vec(V)) /\ Len(Tail(iov)) = 0
      BY <1>1, <2>2, <3>1, HeadTailProperties
    <3>6. Gather(Tail(iov)) = <<>>
      BY <3>5, EmptySeq, GatherIs
    <3>7. Gather(iov) = <<>> \o <<>>
      BY <1>1, <2>2, <3>4, <3>6, GatherIs
    <3> QED
      BY <3>7, EmptySeq, ConcatEmptySeq
  <2> QED
    BY <2>1, <2>2
<1> QED
  BY <1>1, <1>2, ConcatEmptySeq

(* A system call is a step of Transmission, or nothing if the kernel had   *)
(* nothing to take.                                                        *)
LEMMA TakeSends ==
  ASSUME NEW V, Sends(V), NEW n \in 0..MaxCount, op # "none", at = "call", Take(n),
         UNCHANGED <<op, msg>>
  PROVE  Transmitting!Send \/ UNCHANGED <<msg, out, State>>
<1>1. n \in Nat
  BY SendsTypes
<1>2. /\ n \in 0..Len(Gather(iov)) /\ out' \in Seq(Byte(V)) /\ Len(out') = wt + n
      /\ out' \o Drop(Gather(iov), n) = msg
  BY <1>1, TakeStep
<1>3. /\ Gather(iov) \in Seq(Byte(V)) /\ Len(Gather(iov)) \in Nat
      /\ Len(out) \in Nat /\ Len(msg) \in Nat
      /\ Len(out) + Len(Gather(iov)) = Len(msg)
  BY SendsTypes
<1>4. out \in Seq(Byte(V)) /\ Len(out) = wt
  BY DEF Sends, Sending
<1>5. State = "sending" /\ State' = "sending"
  BY DEF State
<1>6. Drop(Gather(iov), n) \in Seq(Byte(V))
  BY <1>2, <1>3, DropIs
<1>7. SubSeq(msg, 1, Len(out')) = out'
  BY <1>2, <1>6, TakeOfConcat
<1>8. CASE n = 0
  <2>1. SubSeq(Gather(iov), 1, 0) = <<>>
    BY SubSeqEmpty
  <2>2. out' = out \o <<>>
    BY <1>8, <2>1 DEF Take
  <2>3. out' = out
    BY <1>4, <2>2, ConcatEmptySeq
  <2> QED
    BY <1>5, <2>3
<1>9. CASE n > 0
  <2>1. Len(out') \in Len(out) + 1..Len(msg)
    BY <1>2, <1>3, <1>4, <1>9
  <2>2. \E k \in Len(out) + 1..Len(msg) : out' = SubSeq(msg, 1, k)
    BY <1>7, <2>1
  <2> QED
    BY <1>5, <2>2 DEF Transmitting!Send
<1> QED
  BY <1>1, <1>8, <1>9

(* Every step but the call of a function.                                  *)
LEMMA StepSends ==
  ASSUME NEW V, Sends(V), [Runs \/ Interrupted \/ Refused]_vars
  PROVE  \/ Transmitting!Send \/ Transmitting!Succeed \/ Transmitting!Fail
         \/ UNCHANGED <<msg, out, State>>
<1>1. ASSUME LoopTest
      PROVE  Transmitting!Succeed \/ UNCHANGED <<msg, out, State>>
  <2>1. op # "none" /\ at = "test" /\ UNCHANGED <<msg, out>>
    BY <1>1 DEF LoopTest
  <2>2. CASE Done /\ op' = "none" /\ ret' = wt
    <3>1. out = msg /\ Len(out) = wt /\ wt \in Nat
      BY <2>1, <2>2, DoneIsAll, SendsTypes DEF Sends, Sending
    <3>2. State = "sending"
      BY <2>1 DEF State
    <3>3. ret' = Len(msg') /\ ret' # NoRet /\ ret' # -1
      BY <2>1, <2>2, <3>1 DEF NoRet
    <3>4. State' = "sent"
      BY <2>2, <3>3 DEF State
    <3> QED
      BY <2>1, <3>1, <3>2, <3>4 DEF Transmitting!Succeed
  <2>3. CASE UNCHANGED <<op, ret>>
    BY <2>1, <2>3 DEF State
  <2> QED
    BY <1>1, <2>2, <2>3 DEF LoopTest, Return
<1>2. ASSUME NEW n \in 0..MaxCount, Write(n) \/ Writev(n)
      PROVE  Transmitting!Send \/ UNCHANGED <<msg, out, State>>
  <2>1. op # "none" /\ at = "call" /\ Take(n) /\ UNCHANGED <<op, msg>>
    BY <1>2 DEF Write, Writev
  <2> QED
    BY <2>1, TakeSends
<1>3. ASSUME Consume \/ Interrupted \/ UNCHANGED vars
      PROVE  UNCHANGED <<msg, out, State>>
  BY <1>3 DEF Consume, Interrupted, vars, State
<1>4. ASSUME Refused PROVE Transmitting!Fail
  <2>1. /\ op # "none" /\ op' = "none" /\ ret' = -1 /\ UNCHANGED <<msg, out>>
    BY <1>4 DEF Refused, Return
  <2>2. State = "sending" /\ State' = "failed"
    BY <2>1 DEF State, NoRet
  <2> QED
    BY <2>1, <2>2 DEF Transmitting!Fail
<1> QED
  BY <1>1, <1>2, <1>3, <1>4 DEF Runs

(* Every step is one of Transmission, or a stutter.                        *)
LEMMA NextSends ==
  ASSUME IInv, [Next]_vars
  PROVE  [Transmitting!Next]_(Transmitting!tvars)
<1>1. ASSUME Calls PROVE Transmitting!Next
  <2>1. PICK f \in {"write", "writev"}, v \in VectorLists \cup Buffers : Call(f, v)
    BY <1>1 DEF Calls
  <2>2. op = "none" /\ op' = f /\ msg' = Gather(v) /\ out' = <<>>
    BY <2>1 DEF Call
  <2>3. State # "sending" /\ State' = "sending"
    BY <2>2 DEF State
  <2>4. Gather(v) \in Messages
    BY DEF Messages
  <2> QED
    BY <2>2, <2>3, <2>4 DEF Transmitting!Next, Transmitting!Begin
<1>2. CASE [Runs \/ Interrupted \/ Refused]_vars
  BY <1>2, StepSends DEF IInv, Transmitting!Next, Transmitting!tvars
<1> QED
  BY <1>1, <1>2 DEF Next

(* sancus_write() and sancus_writev() implement Transmission: the bytes of *)
(* a message go out in order and once, and a call that reports success has *)
(* sent, and counted, all of them.                                         *)
THEOREM ImplementsTransmission == Spec => TransmissionSpec
<1>1. Init => Transmitting!Init
  BY DEF Init, Transmitting!Init, State
<1>2. IInv /\ [Next]_vars => [Transmitting!Next]_(Transmitting!tvars)
  BY NextSends
<1> QED
  BY <1>1, <1>2, SendingInvariant, PTL DEF Spec, TransmissionSpec, Transmitting!Spec
=============================================================================
