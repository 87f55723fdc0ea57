------------------------- MODULE SancusAddressProofs -------------------------
(***************************************************************************)
(* Addresses in and out, for every port, every buffer and every length of  *)
(* a path: nothing is written past an end, unless an IPv6 address goes to  *)
(* a buffer of size 0, and what was asked for comes out again.             *)
(***************************************************************************)
EXTENDS SancusAddress, NatSets, SequenceTheorems

-----------------------------------------------------------------------------
(* The digits of a number.                                                 *)

LEMMA DivTen ==
  ASSUME NEW n \in Nat, n >= 10
  PROVE  n \div 10 \in Nat /\ n \div 10 < n /\ n % 10 \in 0..9
  OBVIOUS

(* The recursion stops for every number, whatever its size: there are      *)
(* tables of the digits of the first numbers, they agree, and make one.    *)
LEMMA DigitsAre ==
  /\ \A n \in Nat : n < 10 => Digits[n] = <<n>>
  /\ \A n \in Nat : n >= 10 => Digits[n] = Append(Digits[n \div 10], n % 10)
<1> DEFINE Row(f, n) == IF n < 10 THEN <<n>> ELSE Append(f[n \div 10], n % 10)
           IsTable(f, k) == f = [n \in 0..k |-> Row(f, n)]
           P == {k \in Nat : \E f : IsTable(f, k)}
           table(k) == CHOOSE f : IsTable(f, k)
<1>1. 0 \in P
  <2>1. IsTable([n \in 0..0 |-> <<n>>], 0)
    <3>1. \A n \in 0..0 : n < 10
      OBVIOUS
    <3> QED
      BY <3>1
  <2> QED
    BY <2>1
<1>2. \A k \in P : k + 1 \in P
  <2> TAKE k \in P
  <2>1. PICK f : IsTable(f, k)
    OBVIOUS
  <2>2. \A n \in 0..k : f[n] = Row(f, n)
    BY <2>1
  <2> DEFINE g == [n \in 0..(k + 1) |-> IF n = k + 1 THEN Row(f, n) ELSE f[n]]
  <2>3. ASSUME NEW n \in 0..(k + 1), n >= 10
        PROVE  n \div 10 \in 0..k /\ g[n \div 10] = f[n \div 10]
    <3>1. n \div 10 \in Nat /\ n \div 10 < n
      BY <2>3, DivTen
    <3> DEFINE d == n \div 10
    <3> HIDE DEF d
    <3>2. d \in 0..k /\ d # k + 1 /\ d \in 0..(k + 1)
      BY <3>1 DEF d
    <3> QED
      BY <3>2 DEF d
  <2>4. \A n \in 0..(k + 1) : g[n] = Row(g, n)
    <3> TAKE n \in 0..(k + 1)
    <3>1. Row(f, n) = Row(g, n)
      BY <2>3
    <3>2. g[n] = IF n = k + 1 THEN Row(f, n) ELSE f[n]
      OBVIOUS
    <3>3. n # k + 1 => n \in 0..k
      OBVIOUS
    <3> HIDE DEF g, Row
    <3> QED
      BY <2>2, <3>1, <3>2, <3>3
  <2>5. g = [n \in 0..(k + 1) |-> g[n]]
    OBVIOUS
  <2>6. IsTable(g, k + 1)
    <3> HIDE DEF g, Row
    <3> QED
      BY <2>4, <2>5
  <2>7. k + 1 \in Nat
    OBVIOUS
  <2> HIDE DEF IsTable, g
  <2> QED
    BY <2>6, <2>7
<1>3. P = Nat
  <2> HIDE DEF P
  <2>1. P \subseteq Nat
    BY DEF P
  <2> QED
    BY <1>1, <1>2, <2>1, NatSetInduction
<1>4. \A k \in Nat : IsTable(table(k), k)
  <2> TAKE k \in Nat
  <2>1. \E f : IsTable(f, k)
    BY <1>3
  <2> HIDE DEF IsTable
  <2> QED
    BY <2>1
<1> HIDE DEF table
<1>5. \A k \in Nat : \A n \in 0..k : table(k)[n] = Row(table(k), n)
  BY <1>4
<1> DEFINE T == {n \in Nat : \A m \in 0..n, j \in Nat, k \in Nat :
                              m <= j /\ m <= k => table(j)[m] = table(k)[m]}
<1>6. 0 \in T
  <2> SUFFICES ASSUME NEW j \in Nat, NEW k \in Nat
               PROVE  table(j)[0] = table(k)[0]
    OBVIOUS
  <2>1. 0 \in 0..j /\ 0 \in 0..k
    OBVIOUS
  <2>2. table(j)[0] = Row(table(j), 0) /\ table(k)[0] = Row(table(k), 0)
    BY <1>5, <2>1
  <2>3. \A f : Row(f, 0) = <<0>>
    OBVIOUS
  <2> HIDE DEF Row
  <2> QED
    BY <2>2, <2>3
<1>7. \A n \in T : n + 1 \in T
  <2> SUFFICES ASSUME NEW n \in T, NEW m \in 0..n + 1, NEW j \in Nat, NEW k \in Nat,
                      m <= j, m <= k
               PROVE  table(j)[m] = table(k)[m]
    OBVIOUS
  <2>1. m \in 0..j /\ m \in 0..k /\ m \in Nat
    OBVIOUS
  <2>2. table(j)[m] = Row(table(j), m) /\ table(k)[m] = Row(table(k), m)
    BY <1>5, <2>1
  <2>3. m >= 10 => table(j)[m \div 10] = table(k)[m \div 10]
    <3> SUFFICES ASSUME m >= 10 PROVE table(j)[m \div 10] = table(k)[m \div 10]
      OBVIOUS
    <3> DEFINE d == m \div 10
    <3>1. d \in Nat /\ d < m
      BY <2>1, DivTen
    <3> HIDE DEF d
    <3>2. d \in 0..n /\ d <= j /\ d <= k
      BY <2>1, <3>1
    <3> QED
      BY <3>2 DEF d
  <2> QED
    BY <2>1, <2>2, <2>3
<1>8. T = Nat
  <2> HIDE DEF T
  <2>1. T \subseteq Nat
    BY DEF T
  <2> QED
    BY <1>6, <1>7, <2>1, NatSetInduction
<1>9. \A m, j, k \in Nat : m <= j /\ m <= k => table(j)[m] = table(k)[m]
  <2> TAKE m, j, k \in Nat
  <2>1. m \in T /\ m \in 0..m
    BY <1>8
  <2> QED
    BY <2>1
<1> DEFINE all == [n \in Nat |-> table(n)[n]]
<1>10. \A n \in Nat : all[n] = Row(all, n)
  <2> TAKE n \in Nat
  <2>1. n \in 0..n
    OBVIOUS
  <2>2. table(n)[n] = Row(table(n), n)
    BY <1>5, <2>1
  <2>3. n >= 10 => table(n)[n \div 10] = all[n \div 10]
    <3> SUFFICES ASSUME n >= 10 PROVE table(n)[n \div 10] = all[n \div 10]
      OBVIOUS
    <3> DEFINE d == n \div 10
    <3>1. d \in Nat /\ d < n
      BY DivTen
    <3> HIDE DEF d
    <3>2. table(n)[d] = table(d)[d] /\ all[d] = table(d)[d]
      BY <1>9, <3>1
    <3> QED
      BY <3>2 DEF d
  <2>4. all[n] = table(n)[n]
    OBVIOUS
  <2>5. n < 10 \/ n >= 10
    OBVIOUS
  <2> HIDE DEF all
  <2> QED
    BY <2>2, <2>3, <2>4, <2>5
<1> DEFINE IsAll(f) == f = [n \in Nat |-> Row(f, n)]
<1>11. \E f : IsAll(f)
  <2>1. all = [n \in Nat |-> all[n]]
    OBVIOUS
  <2> HIDE DEF all, Row
  <2>2. IsAll(all)
    BY <1>10, <2>1
  <2> HIDE DEF IsAll
  <2> QED
    BY <2>2
<1>12. IsAll(Digits)
  BY <1>11 DEF Digits
<1>13. \A n \in Nat : Digits[n] = Row(Digits, n)
  BY <1>12
<1>14. \A n \in Nat : (n < 10 => Row(Digits, n) = <<n>>)
                     /\ (n >= 10 => Row(Digits, n) = Append(Digits[n \div 10], n % 10))
  OBVIOUS
<1> HIDE DEF Row
<1>15. \A n \in Nat : n < 10 => Digits[n] = <<n>>
  BY <1>13, <1>14
<1>16. \A n \in Nat : n >= 10 => Digits[n] = Append(Digits[n \div 10], n % 10)
  BY <1>13, <1>14
<1> QED
  BY <1>15, <1>16

(* What texts of addresses and ports are made of; NUL is none of them.     *)
Chars == {"0", "1", "2", "3", "4", "5", "6", "7", "8", "9",
          "e", "f", ".", ":", "[", "]"}

LEMMA FunctionSeq ==
  ASSUME NEW S, NEW n \in Nat, NEW f \in [1..n -> S]
  PROVE  f \in Seq(S) /\ Len(f) = n
  BY SeqDef

LEMMA DigitsType ==
  \A n \in Nat : Digits[n] \in Seq(0..9)
<1> DEFINE B == {n \in Nat : Digits[n] \notin Seq(0..9)}
<1>1. \A n \in 0..9 : <<n>> \in Seq(0..9)
  OBVIOUS
<1>2. ASSUME B # {} PROVE FALSE
  <2>1. B \subseteq Nat
    OBVIOUS
  <2>2. PICK m \in B : \A k \in B : m <= k
    <3> HIDE DEF B
    <3> QED
      BY <1>2, <2>1, LeastNumber
  <2>3. m \in Nat /\ Digits[m] \notin Seq(0..9)
    OBVIOUS
  <2>4. CASE m < 10
    <3>1. Digits[m] = <<m>> /\ m \in 0..9
      BY <2>3, <2>4, DigitsAre
    <3> QED
      BY <1>1, <2>3, <3>1
  <2>5. CASE m >= 10
    <3> DEFINE d == m \div 10
               r == m % 10
    <3>1. d \in Nat /\ d < m /\ r \in 0..9
      BY <2>3, <2>5, DivTen
    <3>2. Digits[m] = Append(Digits[d], r)
      BY <2>3, <2>5, DigitsAre
    <3> HIDE DEF d, r
    <3>3. d \notin B
      BY <2>2, <2>3, <3>1
    <3>4. Digits[d] \in Seq(0..9)
      BY <3>1, <3>3
    <3> HIDE DEF B
    <3> QED
      BY <2>3, <3>1, <3>2, <3>4, AppendProperties
  <2> QED
    BY <2>3, <2>4, <2>5
<1> QED
  BY <1>2

(* One digit more for each power of ten.                                   *)
AtMost(b, l) == \A n \in Nat : n < b => Len(Digits[n]) \in 1..l

LEMMA DigitsLonger ==
  ASSUME NEW b \in Nat, NEW l \in Nat \ {0}, AtMost(b, l)
  PROVE  AtMost(10 * b, l + 1)
<1> SUFFICES ASSUME NEW n \in Nat, n < 10 * b
             PROVE  Len(Digits[n]) \in 1..l + 1
  BY DEF AtMost
<1>1. CASE n < 10
  <2>1. Digits[n] = <<n>>
    BY <1>1, DigitsAre
  <2>2. Len(Digits[n]) = 1
    BY <2>1
  <2> QED
    BY <2>2
<1>2. CASE n >= 10
  <2> DEFINE d == n \div 10
             r == n % 10
  <2>1. d \in Nat /\ d < b /\ r \in 0..9
    BY <1>2
  <2>2. Digits[n] = Append(Digits[d], r)
    BY <1>2, DigitsAre
  <2> HIDE DEF d, r
  <2>3. Digits[d] \in Seq(0..9) /\ Len(Digits[d]) \in 1..l
    BY <2>1, DigitsType DEF AtMost
  <2>4. Len(Digits[n]) = Len(Digits[d]) + 1
    BY <2>1, <2>2, <2>3, AppendProperties
  <2> QED
    BY <2>3, <2>4
<1> QED
  BY <1>1, <1>2

(* A port in a sockaddr has one to five digits: with the colon, no text of *)
(* one is longer than six characters.                                      *)
LEMMA PortTextIs ==
  ASSUME NEW p \in Nat, p < PortMod
  PROVE  /\ PortText(p) \in Seq(Chars)
         /\ Len(PortText(p)) \in Nat
         /\ 2 <= Len(PortText(p)) /\ Len(PortText(p)) <= 6
<1>1. AtMost(10, 1)
  <2> SUFFICES ASSUME NEW n \in Nat, n < 10 PROVE Len(Digits[n]) \in 1..1
    BY DEF AtMost
  <2>1. Digits[n] = <<n>>
    BY DigitsAre
  <2> QED
    BY <2>1
<1>2. AtMost(100, 2)
  <2>1. AtMost(10 * 10, 1 + 1)
    BY <1>1, DigitsLonger
  <2> QED
    BY <2>1
<1>3. AtMost(1000, 3)
  <2>1. AtMost(10 * 100, 2 + 1)
    BY <1>2, DigitsLonger
  <2> QED
    BY <2>1
<1>4. AtMost(10000, 4)
  <2>1. AtMost(10 * 1000, 3 + 1)
    BY <1>3, DigitsLonger
  <2> QED
    BY <2>1
<1>5. AtMost(100000, 5)
  <2>1. AtMost(10 * 10000, 4 + 1)
    BY <1>4, DigitsLonger
  <2> QED
    BY <2>1
<1> DEFINE d == Digits[p]
           c == [i \in DOMAIN d |-> DigitChar[d[i] + 1]]
           colon == <<":">>
<1>6. d \in Seq(0..9) /\ Len(d) \in Nat /\ 1 <= Len(d) /\ Len(d) <= 5
  <2>1. p < 100000
    BY DEF PortMod
  <2>2. Len(d) \in 1..5
    BY <1>5, <2>1 DEF AtMost
  <2>3. \A k \in 1..5 : k \in Nat /\ 1 <= k /\ k <= 5
    OBVIOUS
  <2> HIDE DEF d
  <2> QED
    BY <2>2, <2>3, DigitsType DEF d
<1>7. \A k \in 0..9 : DigitChar[k + 1] \in Chars
  BY DEF DigitChar, Chars
<1>8. colon \in Seq(Chars) /\ Len(colon) = 1
  BY DEF Chars
<1>9. PortText(p) = colon \o c
  BY DEF PortText
<1> HIDE DEF d, colon
<1>10. DOMAIN d = 1..Len(d) /\ \A i \in 1..Len(d) : d[i] \in 0..9
  BY <1>6, LenProperties, ElementOfSeq
<1>11. \A i \in 1..Len(d) : DigitChar[d[i] + 1] \in Chars
  BY <1>7, <1>10
<1>12. c \in [1..Len(d) -> Chars]
  BY <1>10, <1>11
<1> HIDE DEF c
<1>13. c \in Seq(Chars) /\ Len(c) = Len(d)
  BY <1>6, <1>12, FunctionSeq
<1>14. colon \o c \in Seq(Chars) /\ Len(colon \o c) = Len(colon) + Len(c)
  BY <1>8, <1>13, ConcatProperties
<1>15. Len(PortText(p)) = 1 + Len(d)
  BY <1>8, <1>9, <1>13, <1>14
<1> QED
  BY <1>6, <1>9, <1>14, <1>15

-----------------------------------------------------------------------------
(* Memory and what is written there.                                       *)

IsMemory(m) == DOMAIN m = 0..Room - 1 /\ m = [i \in 0..Room - 1 |-> m[i]]

StaleFrom(m, n) == \A i \in 0..Room - 1 : i >= n => m[i] = Stale

LEMMA RoomIs == Room \in Nat /\ Room > 32
  BY DEF Room

LEMMA CellsDiffer == NUL \notin Chars /\ Stale # NUL
  BY DEF NUL, Stale, Chars

LEMMA UntouchedIs ==
  IsMemory(Untouched) /\ \A i \in 0..Room - 1 : Untouched[i] = Stale
  BY DEF Untouched, IsMemory

LEMMA PutIs ==
  ASSUME NEW m, IsMemory(m), NEW at \in Nat, NEW S, NEW s \in Seq(S)
  PROVE  /\ IsMemory(Put(m, at, s))
         /\ \A i \in 0..Room - 1 :
              Put(m, at, s)[i] =
                IF at <= i /\ i < at + Len(s) THEN s[i - at + 1] ELSE m[i]
<1>1. Len(s) \in Nat /\ DOMAIN s = 1..Len(s)
  BY LenProperties
<1>2. DOMAIN m = 0..Room - 1
  BY DEF IsMemory
<1>3. Put(m, at, s) = [i \in 0..Room - 1 |->
                         IF i - at + 1 \in DOMAIN s THEN s[i - at + 1] ELSE m[i]]
  BY <1>2 DEF Put
<1>4. \A i \in 0..Room - 1 : i - at + 1 \in DOMAIN s <=> at <= i /\ i < at + Len(s)
  BY <1>1, RoomIs
<1>5. \A i \in 0..Room - 1 :
        Put(m, at, s)[i] =
          IF at <= i /\ i < at + Len(s) THEN s[i - at + 1] ELSE m[i]
  BY <1>3, <1>4
<1>6. IsMemory(Put(m, at, s))
  BY <1>3 DEF IsMemory
<1> QED
  BY <1>5, <1>6

LEMMA StrlenIs ==
  ASSUME NEW m, NEW at \in Nat, NEW l \in 0..Room,
         m[at + l] = NUL, \A k \in 0..l - 1 : m[at + k] # NUL
  PROVE  Strlen(m, at) = l
<1> DEFINE Ends(n) == m[at + n] = NUL /\ \A k \in 0..n - 1 : m[at + k] # NUL
<1>1. Ends(l)
  OBVIOUS
<1>2. ASSUME NEW n \in 0..Room, Ends(n) PROVE n = l
  <2>1. n \in Nat /\ l \in Nat
    BY RoomIs
  <2>2. ~(n < l)
    <3> SUFFICES ASSUME n < l PROVE FALSE
      OBVIOUS
    <3>1. n \in 0..l - 1
      BY <2>1
    <3> QED
      BY <1>2, <3>1
  <2>3. ~(l < n)
    <3> SUFFICES ASSUME l < n PROVE FALSE
      OBVIOUS
    <3>1. l \in 0..n - 1
      BY <2>1
    <3> QED
      BY <1>2, <3>1
  <2> QED
    BY <2>1, <2>2, <2>3
<1>3. Strlen(m, at) = CHOOSE n \in 0..Room : Ends(n)
  BY DEF Strlen
<1> HIDE DEF Ends
<1> QED
  BY <1>1, <1>2, <1>3

(* How the addresses read                                                  *)
Families == {"ipv4", "ipv6"}
AddrText == Text[sa.family][sa.addr]

LEMMA TextIs ==
  ASSUME NEW f \in Families, NEW a \in {"any", "host"}
  PROVE  /\ Text[f][a] \in Seq(Chars)
         /\ Len(Text[f][a]) \in Nat
         /\ Len(Text[f][a]) <= 9
<1>1. CASE f = "ipv4" /\ a = "any"
  <2>1. Text[f][a] = <<"0", ".", "0", ".", "0", ".", "0">>
    BY <1>1 DEF Text
  <2> QED
    BY <2>1 DEF Chars
<1>2. CASE f = "ipv4" /\ a = "host"
  <2>1. Text[f][a] = <<"1", "0", ".", "0", ".", "0", ".", "4", "2">>
    BY <1>2 DEF Text
  <2> QED
    BY <2>1 DEF Chars
<1>3. CASE f = "ipv6" /\ a = "any"
  <2>1. Text[f][a] = <<":", ":">>
    BY <1>3 DEF Text
  <2> QED
    BY <2>1 DEF Chars
<1>4. CASE f = "ipv6" /\ a = "host"
  <2>1. Text[f][a] = <<"f", "e", "8", "0", ":", ":", "1">>
    BY <1>4 DEF Text
  <2> QED
    BY <2>1 DEF Chars
<1> QED
  BY <1>1, <1>2, <1>3, <1>4 DEF Families

LEMMA BracketedIs ==
  ASSUME NEW s \in Seq(Chars)
  PROVE  /\ Bracketed(s) \in Seq(Chars)
         /\ Len(Bracketed(s)) = Len(s) + 2
         /\ Bracketed(s)[1] = "["
         /\ Bracketed(s)[Len(s) + 2] = "]"
         /\ \A i \in 1..Len(s) : Bracketed(s)[i + 1] = s[i]
<1> DEFINE o == <<"[">>
           c == <<"]">>
           u == o \o s
<1>1. o \in Seq(Chars) /\ Len(o) = 1 /\ o[1] = "["
  BY DEF Chars
<1>2. c \in Seq(Chars) /\ Len(c) = 1 /\ c[1] = "]"
  BY DEF Chars
<1>3. Bracketed(s) = u \o c
  BY DEF Bracketed
<1>4. Len(s) \in Nat
  BY LenProperties
<1> HIDE DEF o, c
<1>5. /\ u \in Seq(Chars) /\ Len(u) = Len(o) + Len(s)
      /\ \A i \in 1..Len(o) + Len(s) : u[i] = IF i <= Len(o) THEN o[i] ELSE s[i - Len(o)]
  BY <1>1, ConcatProperties
<1> HIDE DEF u
<1>6. /\ u \o c \in Seq(Chars) /\ Len(u \o c) = Len(u) + Len(c)
      /\ \A i \in 1..Len(u) + Len(c) :
           (u \o c)[i] = IF i <= Len(u) THEN u[i] ELSE c[i - Len(u)]
  <2>1. u \in Seq(Chars) /\ c \in Seq(Chars)
    BY <1>2, <1>5
  <2> QED
    BY <2>1, ConcatProperties
<1>7. Len(u) = Len(s) + 1 /\ Len(u \o c) = Len(s) + 2
  BY <1>1, <1>2, <1>4, <1>5, <1>6
<1>8. (u \o c)[1] = "["
  <2>1. 1 \in 1..Len(o) + Len(s) /\ 1 \in 1..Len(u) + Len(c) /\ 1 <= Len(u)
    BY <1>1, <1>2, <1>4, <1>7
  <2>2. (u \o c)[1] = u[1]
    BY <1>6, <2>1
  <2>3. u[1] = o[1]
    BY <1>1, <1>5, <2>1
  <2> QED
    BY <1>1, <2>2, <2>3
<1>9. (u \o c)[Len(s) + 2] = "]"
  <2> DEFINE k == Len(s) + 2
  <2>1. k \in 1..Len(u) + Len(c) /\ ~(k <= Len(u)) /\ k - Len(u) = 1
    BY <1>2, <1>4, <1>7
  <2> HIDE DEF k
  <2>2. (u \o c)[k] = c[k - Len(u)]
    BY <1>6, <2>1
  <2>3. (u \o c)[k] = "]"
    BY <1>2, <2>1, <2>2
  <2> QED
    BY <2>3 DEF k
<1>10. ASSUME NEW i \in 1..Len(s) PROVE (u \o c)[i + 1] = s[i]
  <2> DEFINE k == i + 1
  <2>1. /\ k \in 1..Len(u) + Len(c) /\ k <= Len(u) /\ k \in 1..Len(o) + Len(s)
        /\ ~(k <= Len(o)) /\ k - Len(o) = i
    BY <1>1, <1>2, <1>4, <1>7
  <2> HIDE DEF k
  <2>2. (u \o c)[k] = u[k] /\ u[k] = s[k - Len(o)]
    BY <1>5, <1>6, <2>1
  <2> QED
    BY <2>1, <2>2 DEF k
<1> QED
  BY <1>3, <1>6, <1>7, <1>8, <1>9, <1>10

(* The address, in memory from at on                                       *)
LEMMA InetNtopIs ==
  ASSUME sa.family \in Families, sa.addr \in {"any", "host"}, NEW at \in {0, 1}
  PROVE  /\ IsMemory(InetNtop(at))
         /\ \A i \in 0..Room - 1 : i < at => InetNtop(at)[i] = Stale
         /\ \A i \in 1..Len(AddrText) : InetNtop(at)[at + i - 1] = AddrText[i]
         /\ StaleFrom(InetNtop(at), at + Len(AddrText) + 1)
         /\ Strlen(InetNtop(at), at) = Len(AddrText)
<1> DEFINE t == AddrText
           s == Append(t, NUL)
           m == Put(Untouched, at, s)
           Cells == Chars \cup {NUL}
<1>1. t \in Seq(Chars) /\ Len(t) \in Nat /\ Len(t) <= 9
  BY TextIs DEF AddrText
<1>2. InetNtop(at) = m
  BY DEF InetNtop, AddrText
<1>3. \A i \in 1..Len(t) : t[i] # NUL
  BY <1>1, ElementOfSeq, CellsDiffer
<1>4. at \in Nat /\ at <= 1
  OBVIOUS
<1> HIDE DEF t
<1>5. /\ s \in Seq(Cells) /\ Len(s) = Len(t) + 1
      /\ \A i \in 1..Len(t) : s[i] = t[i]
      /\ s[Len(t) + 1] = NUL
  <2>1. t \in Seq(Cells)
    BY <1>1, SeqMonotonic
  <2>2. NUL \in Cells
    OBVIOUS
  <2> HIDE DEF Cells
  <2> QED
    BY <2>1, <2>2, AppendProperties
<1> HIDE DEF s
<1>6. /\ IsMemory(m)
      /\ \A i \in 0..Room - 1 :
           m[i] = IF at <= i /\ i < at + Len(s) THEN s[i - at + 1] ELSE Untouched[i]
  BY <1>4, <1>5, UntouchedIs, PutIs
<1>7. \A i \in 0..Room - 1 : Untouched[i] = Stale
  BY UntouchedIs
<1> HIDE DEF m
<1>8. \A i \in 0..Room - 1 : i < at => m[i] = Stale
  BY <1>4, <1>6, <1>7, RoomIs
<1>9. ASSUME NEW i \in 1..Len(t) PROVE m[at + i - 1] = t[i]
  <2> DEFINE j == at + i - 1
  <2>1. j \in 0..Room - 1 /\ at <= j /\ j < at + Len(s) /\ j - at + 1 = i
    BY <1>1, <1>4, <1>5, RoomIs
  <2> HIDE DEF j
  <2>2. m[j] = s[j - at + 1]
    BY <1>6, <2>1
  <2> QED
    BY <1>5, <2>1, <2>2 DEF j
<1>10. StaleFrom(m, at + Len(t) + 1)
  <2> SUFFICES ASSUME NEW i \in 0..Room - 1, i >= at + Len(t) + 1
               PROVE  m[i] = Stale
    BY DEF StaleFrom
  <2>1. ~(i < at + Len(s))
    BY <1>1, <1>4, <1>5, RoomIs
  <2> QED
    BY <1>6, <1>7, <2>1
<1>11. Strlen(m, at) = Len(t)
  <2>1. Len(t) \in 0..Room
    BY <1>1, RoomIs
  <2>2. m[at + Len(t)] = NUL
    <3> DEFINE j == at + Len(t)
    <3>1. j \in 0..Room - 1 /\ at <= j /\ j < at + Len(s) /\ j - at + 1 = Len(t) + 1
      BY <1>1, <1>4, <1>5, RoomIs
    <3> HIDE DEF j
    <3>2. m[j] = s[j - at + 1]
      BY <1>6, <3>1
    <3> QED
      BY <1>5, <3>1, <3>2 DEF j
  <2>3. ASSUME NEW k \in 0..Len(t) - 1 PROVE m[at + k] # NUL
    <3>1. k + 1 \in 1..Len(t) /\ at + (k + 1) - 1 = at + k
      BY <1>1, <1>4
    <3>2. m[at + (k + 1) - 1] = t[k + 1]
      BY <1>9, <3>1
    <3> QED
      BY <1>3, <3>1, <3>2
  <2> QED
    BY <1>4, <2>1, <2>2, <2>3, StrlenIs
<1> QED
  BY <1>2, <1>8, <1>9, <1>10, <1>11, <1>6 DEF t

(* Of a buffer of this size more than all is taken to be left behind the   *)
(* bracket.                                                                *)
Wraps(n) == n = 0 /\ sa.family = "ipv6"

(* What a call of sancus_socket_ntop() with a buffer of n leaves when it   *)
(* is to write w                                                           *)
Leaves(w, n) ==
  /\ IsMemory(mem')
  /\ Wraps(n) \/ StaleFrom(mem', n)
  /\ ret' \in {-1} \cup 0..n - 1
  /\ IF Len(w) < n
     THEN /\ ret' = Len(w)
          /\ mem'[ret'] = NUL
          /\ \A i \in DOMAIN w : mem'[i - 1] = w[i]
     ELSE ret' = -1

LEMMA AppendPortIs ==
  ASSUME sa.port \in Nat, sa.port < PortMod,
         NEW t \in Seq(Chars), Len(t) <= 11,
         NEW m, IsMemory(m), \A i \in 1..Len(t) : m[i - 1] = t[i],
         NEW n \in Nat, Wraps(n) \/ StaleFrom(m, n),
         AppendPort(m, Len(t), n)
  PROVE  Leaves(t \o PortText(sa.port), n)
<1> DEFINE p == PortText(sa.port)
           l == Len(t)
           w == t \o p
           s == Append(p, NUL)
           Cells == Chars \cup {NUL}
<1>1. p \in Seq(Chars) /\ Len(p) \in Nat /\ Len(p) <= 6
  BY PortTextIs
<1>2. l \in Nat /\ l <= 11
  BY LenProperties
<1>3. \/ l + Len(p) < n /\ mem' = Put(m, l, s) /\ ret' = l + Len(p)
      \/ ~(l + Len(p) < n) /\ mem' = m /\ ret' = -1
  BY DEF AppendPort
<1> HIDE DEF p
<1>4. /\ w \in Seq(Chars) /\ Len(w) = l + Len(p)
      /\ \A i \in 1..l + Len(p) : w[i] = IF i <= l THEN t[i] ELSE p[i - l]
  BY <1>1, ConcatProperties
<1>5. DOMAIN w = 1..l + Len(p)
  BY <1>4, LenProperties
<1> HIDE DEF w
<1>6. \A i \in 1..l : m[i - 1] = t[i]
  OBVIOUS
<1> HIDE DEF l
<1>7. /\ s \in Seq(Cells) /\ Len(s) = Len(p) + 1
      /\ \A i \in 1..Len(p) : s[i] = p[i]
      /\ s[Len(p) + 1] = NUL
  <2>1. p \in Seq(Cells)
    BY <1>1, SeqMonotonic
  <2>2. NUL \in Cells
    OBVIOUS
  <2> HIDE DEF Cells
  <2> QED
    BY <2>1, <2>2, AppendProperties
<1> HIDE DEF s
<1>8. CASE ~(l + Len(p) < n) /\ mem' = m /\ ret' = -1
  <2>1. ret' \in {-1} \cup 0..n - 1
    BY <1>8
  <2>2. Leaves(w, n)
    BY <1>4, <1>8, <2>1 DEF Leaves
  <2> QED
    BY <2>2 DEF w, p
<1>9. CASE l + Len(p) < n /\ mem' = Put(m, l, s) /\ ret' = l + Len(p)
  <2>1. /\ IsMemory(mem')
        /\ \A i \in 0..Room - 1 :
             mem'[i] = IF l <= i /\ i < l + Len(s) THEN s[i - l + 1] ELSE m[i]
    BY <1>2, <1>7, <1>9, PutIs
  <2>2. ret' \in {-1} \cup 0..n - 1
    BY <1>1, <1>2, <1>9
  <2>3. StaleFrom(mem', n)
    <3> SUFFICES ASSUME NEW i \in 0..Room - 1, i >= n PROVE mem'[i] = Stale
      BY DEF StaleFrom
    <3>0. StaleFrom(m, n)
      BY <1>1, <1>2, <1>9 DEF Wraps
    <3>1. ~(i < l + Len(s))
      BY <1>1, <1>2, <1>7, <1>9, RoomIs
    <3>2. mem'[i] = m[i]
      BY <2>1, <3>1
    <3> QED
      BY <3>0, <3>2 DEF StaleFrom
  <2>4. mem'[l + Len(p)] = NUL
    <3> DEFINE j == l + Len(p)
    <3>1. j \in 0..Room - 1 /\ l <= j /\ j < l + Len(s) /\ j - l + 1 = Len(p) + 1
      BY <1>1, <1>2, <1>7, RoomIs
    <3> HIDE DEF j
    <3>2. mem'[j] = s[j - l + 1]
      BY <2>1, <3>1
    <3> QED
      BY <1>7, <3>1, <3>2 DEF j
  <2>5. ASSUME NEW i \in 1..l + Len(p) PROVE mem'[i - 1] = w[i]
    <3> DEFINE j == i - 1
    <3>1. j \in 0..Room - 1 /\ (i <= l <=> ~(l <= j)) /\ j < l + Len(s)
      BY <1>1, <1>2, <1>7, RoomIs
    <3>2. CASE i <= l
      <4>1. ~(l <= j)
        BY <3>1, <3>2
      <4> HIDE DEF j
      <4>2. mem'[j] = m[j]
        BY <2>1, <3>1, <4>1
      <4>3. i \in 1..l
        BY <1>1, <1>2, <3>2
      <4>4. m[i - 1] = t[i] /\ w[i] = t[i]
        BY <1>4, <1>6, <3>2, <4>3
      <4> QED
        BY <4>2, <4>4 DEF j
    <3>3. CASE ~(i <= l)
      <4>1. l <= j /\ j - l + 1 = i - l /\ i - l \in 1..Len(p)
        BY <1>1, <1>2, <3>3
      <4> HIDE DEF j
      <4>2. mem'[j] = s[j - l + 1]
        BY <2>1, <3>1, <4>1
      <4>3. s[i - l] = p[i - l] /\ w[i] = p[i - l]
        BY <1>4, <1>7, <3>3, <4>1
      <4> QED
        BY <4>1, <4>2, <4>3 DEF j
    <3> QED
      BY <3>2, <3>3
  <2>6. \A i \in DOMAIN w : mem'[i - 1] = w[i]
    BY <1>5, <2>5
  <2>7. Leaves(w, n)
    BY <1>4, <1>9, <2>1, <2>2, <2>3, <2>4, <2>6 DEF Leaves
  <2> QED
    BY <2>7 DEF w, p
<1> QED
  BY <1>3, <1>8, <1>9

-----------------------------------------------------------------------------
(* sancus_socket_ntop()                                                    *)

(* What it is to write of the address it is given                          *)
SockText ==
  (IF sa.family = "ipv4" THEN AddrText ELSE Bracketed(AddrText)) \o PortText(sa.port)

(* What holds of the address between calls: it is one, and what was asked  *)
(* for.                                                                    *)
SockAddr ==
  /\ sa.addr \in {"any", "host"}
  /\ sa.port \in Nat /\ sa.port < PortMod
  /\ sa.family \in {"none", "ipv4", "ipv6", "local"}
  /\ sa.family = "none" => sa = NoAddress

LEMMA NtopIpv4Is ==
  ASSUME SockAddr, sa.family = "ipv4", NEW n \in Nat, NtopIpv4(n)
  PROVE  Leaves(SockText, n)
<1>1. sa.family \in Families /\ sa.addr \in {"any", "host"}
      /\ sa.port \in Nat /\ sa.port < PortMod
  BY DEF SockAddr, Families
<1> DEFINE t == AddrText
           m == InetNtop(0)
<1>2. t \in Seq(Chars) /\ Len(t) \in Nat /\ Len(t) <= 9
  BY <1>1, TextIs DEF AddrText
<1>3. /\ IsMemory(m) /\ \A i \in 1..Len(t) : m[0 + i - 1] = t[i]
      /\ StaleFrom(m, 0 + Len(t) + 1)
      /\ Strlen(m, 0) = Len(t)
  BY <1>1, InetNtopIs
<1>4. SockText = t \o PortText(sa.port)
  BY DEF SockText
<1>5. Fits(n) <=> Len(t) < n
  BY DEF Fits, AddrText
<1>6. \/ Fits(n) /\ AppendPort(m, Strlen(m, 0), n)
      \/ ~Fits(n) /\ mem' = Untouched /\ ret' = -1
  BY DEF NtopIpv4
<1> HIDE DEF t, m
<1>7. CASE Fits(n) /\ AppendPort(m, Strlen(m, 0), n)
  <2>1. \A i \in 1..Len(t) : m[i - 1] = t[i]
    <3>1. \A i \in 1..Len(t) : 0 + i - 1 = i - 1
      BY <1>2
    <3> QED
      BY <1>3, <3>1
  <2>2. StaleFrom(m, n)
    <3> SUFFICES ASSUME NEW i \in 0..Room - 1, i >= n PROVE m[i] = Stale
      BY DEF StaleFrom
    <3>1. i >= 0 + Len(t) + 1
      BY <1>2, <1>5, <1>7, RoomIs
    <3> QED
      BY <1>3, <3>1 DEF StaleFrom
  <2>3. AppendPort(m, Len(t), n)
    BY <1>3, <1>7
  <2>4. Len(t) <= 11
    BY <1>2
  <2>5. Leaves(t \o PortText(sa.port), n)
    BY <1>1, <1>2, <1>3, <2>1, <2>2, <2>3, <2>4, AppendPortIs
  <2> QED
    BY <1>4, <2>5
<1>8. CASE ~Fits(n) /\ mem' = Untouched /\ ret' = -1
  <2>1. /\ PortText(sa.port) \in Seq(Chars) /\ Len(PortText(sa.port)) \in Nat
    BY <1>1, PortTextIs
  <2>2. Len(SockText) = Len(t) + Len(PortText(sa.port))
    BY <1>2, <1>4, <2>1, ConcatProperties
  <2>3. ~(Len(SockText) < n)
    BY <1>2, <1>5, <1>8, <2>1, <2>2
  <2>4. StaleFrom(mem', n) /\ IsMemory(mem')
    BY <1>8, UntouchedIs DEF StaleFrom
  <2>5. ret' \in {-1} \cup 0..n - 1
    BY <1>8
  <2> QED
    BY <1>8, <2>3, <2>4, <2>5 DEF Leaves
<1> QED
  BY <1>6, <1>7, <1>8

LEMMA NtopIpv6Is ==
  ASSUME SockAddr, sa.family = "ipv6", NEW n \in 0..SizeMod - 1, NtopIpv6(n)
  PROVE  Leaves(SockText, n)
<1>1. sa.family \in Families /\ sa.addr \in {"any", "host"}
      /\ sa.port \in Nat /\ sa.port < PortMod
  BY DEF SockAddr, Families
<1> DEFINE t == AddrText
           m == InetNtop(1)
           b == Bracketed(t)
           u == [m EXCEPT ![0] = "[", ![Len(t) + 1] = "]"]
<1>2. t \in Seq(Chars) /\ Len(t) \in Nat /\ Len(t) <= 9
  BY <1>1, TextIs DEF AddrText
<1>3. /\ IsMemory(m) /\ \A i \in 1..Len(t) : m[1 + i - 1] = t[i]
      /\ StaleFrom(m, 1 + Len(t) + 1)
      /\ Strlen(m, 1) = Len(t)
  BY <1>1, InetNtopIs
<1>4. SockText = b \o PortText(sa.port)
  BY DEF SockText
<1> DEFINE r == (n - 1) % SizeMod
<1>5. /\ n \in Nat
      /\ n # 0 => r = n - 1
      /\ Fits(r) <=> Len(t) < r
  BY SizesAssumption DEF Fits, AddrText
<1>6. \/ Fits(r) /\ AppendPort(u, Len(t) + 2, n)
      \/ ~Fits(r) /\ mem' = Untouched /\ ret' = -1
  BY <1>3 DEF NtopIpv6
<1> HIDE DEF r
<1>7. /\ b \in Seq(Chars) /\ Len(b) = Len(t) + 2
      /\ b[1] = "[" /\ b[Len(t) + 2] = "]"
      /\ \A i \in 1..Len(t) : b[i + 1] = t[i]
  BY <1>2, BracketedIs
<1> HIDE DEF t, m, b
<1>8. CASE Fits(r) /\ AppendPort(u, Len(t) + 2, n)
  <2>1. /\ IsMemory(u)
        /\ \A i \in 0..Room - 1 :
             u[i] = IF i = Len(t) + 1 THEN "]" ELSE IF i = 0 THEN "[" ELSE m[i]
    <3>1. Len(t) + 1 \in 0..Room - 1 /\ 0 \in 0..Room - 1 /\ Len(t) + 1 # 0
      BY <1>2, RoomIs
    <3>2. DOMAIN m = 0..Room - 1
      BY <1>3 DEF IsMemory
    <3>3. u = [i \in 0..Room - 1 |->
                 IF i = Len(t) + 1 THEN "]" ELSE IF i = 0 THEN "[" ELSE m[i]]
      BY <3>1, <3>2
    <3> HIDE DEF u
    <3> QED
      BY <3>3 DEF IsMemory
  <2> HIDE DEF u
  <2>2. ASSUME NEW i \in 1..Len(b) PROVE u[i - 1] = b[i]
    <3> DEFINE j == i - 1
    <3>1. j \in 0..Room - 1 /\ j + 1 = i
      BY <1>2, <1>7, RoomIs
    <3>2. CASE i = 1
      <4>1. j = 0 /\ j # Len(t) + 1
        BY <1>2, <3>2
      <4> HIDE DEF j
      <4>2. u[j] = "["
        BY <2>1, <3>1, <4>1
      <4> QED
        BY <1>7, <3>2, <4>2 DEF j
    <3>3. CASE i = Len(t) + 2
      <4>1. j = Len(t) + 1
        BY <1>2, <3>3
      <4> HIDE DEF j
      <4>2. u[j] = "]"
        BY <2>1, <3>1, <4>1
      <4> QED
        BY <1>7, <3>3, <4>2 DEF j
    <3>4. CASE i # 1 /\ i # Len(t) + 2
      <4>1. j # 0 /\ j # Len(t) + 1 /\ j \in 1..Len(t) /\ 1 + j - 1 = j
        BY <1>2, <1>7, <3>4
      <4> HIDE DEF j
      <4>2. u[j] = m[j]
        BY <2>1, <3>1, <4>1
      <4>3. m[1 + j - 1] = t[j] /\ b[j + 1] = t[j]
        BY <1>3, <1>7, <4>1
      <4>4. u[j] = b[i]
        BY <3>1, <4>1, <4>2, <4>3
      <4> QED
        BY <4>4 DEF j
    <3> QED
      BY <3>2, <3>3, <3>4
  <2>3. ASSUME n # 0 PROVE StaleFrom(u, n)
    <3> SUFFICES ASSUME NEW i \in 0..Room - 1, i >= n PROVE u[i] = Stale
      BY DEF StaleFrom
    <3>1. i >= 1 + Len(t) + 1 /\ i # 0 /\ i # Len(t) + 1
      BY <1>2, <1>5, <1>8, <2>3, RoomIs
    <3>2. u[i] = m[i]
      BY <2>1, <3>1
    <3> QED
      BY <1>3, <3>1, <3>2 DEF StaleFrom
  <2>4. AppendPort(u, Len(b), n) /\ Len(b) <= 11
    BY <1>2, <1>7, <1>8
  <2>5. Wraps(n) \/ StaleFrom(u, n)
    BY <2>3 DEF Wraps
  <2>6. Leaves(b \o PortText(sa.port), n)
    BY <1>1, <1>5, <1>7, <2>1, <2>2, <2>4, <2>5, AppendPortIs
  <2> QED
    BY <1>4, <2>6
<1>9. CASE ~Fits(r) /\ mem' = Untouched /\ ret' = -1
  <2>1. /\ PortText(sa.port) \in Seq(Chars) /\ Len(PortText(sa.port)) \in Nat
    BY <1>1, PortTextIs
  <2>2. Len(SockText) = Len(b) + Len(PortText(sa.port))
    BY <1>4, <1>7, <2>1, ConcatProperties
  <2>3. ~(Len(SockText) < n)
    BY <1>2, <1>5, <1>7, <1>9, <2>1, <2>2
  <2>4. StaleFrom(mem', n) /\ IsMemory(mem')
    BY <1>9, UntouchedIs DEF StaleFrom
  <2>5. ret' \in {-1} \cup 0..n - 1
    BY <1>9
  <2> QED
    BY <1>9, <2>3, <2>4, <2>5 DEF Leaves
<1> QED
  BY <1>6, <1>8, <1>9

-----------------------------------------------------------------------------
(* The inductive invariant: the address in hand is what was asked for, but *)
(* for what a uint16_t cannot hold of the port.                            *)

Kept ==
  sa.family \in Families =>
    /\ asked.family = sa.family
    /\ asked.port \in Nat /\ sa.port = asked.port % PortMod
    /\ sa.addr = IF asked.addr = "host" THEN "host" ELSE "any"

IInv == TypeOK /\ WritesInside /\ SockAddr /\ Kept

LEMMA PortModIs == PortMod \in Nat \ {0}
  BY DEF PortMod

LEMMA HtonsIs ==
  ASSUME NEW p \in Nat
  PROVE  Htons(p) \in 0..PortMod - 1 /\ Htons(p) \in Nat /\ Htons(p) < PortMod
  BY PortModIs DEF Htons

LEMMA NoAddressIs ==
  /\ NoAddress \in [family : {"none", "ipv4", "ipv6", "local"},
                    addr : {"any", "host"}, port : 0..PortMod - 1]
  /\ NoAddress.family = "none" /\ NoAddress.addr = "any" /\ NoAddress.port = 0
<1>1. 0 \in 0..PortMod - 1
  BY PortModIs
<1> QED
  BY <1>1 DEF NoAddress, Address

LEMMA InvInit ==
  ASSUME Init
  PROVE  IInv
<1>1. asked = NoAddress /\ sa = NoAddress /\ mem = Untouched /\ size = 0 /\ ret = 0
  BY DEF Init
<1>2. TypeOK
  <2> QED
    BY <1>1, NoAddressIs DEF TypeOK
<1>3. WritesInside
  BY <1>1, UntouchedIs DEF WritesInside, IsMemory
<1>4. SockAddr
  BY <1>1, NoAddressIs, PortModIs DEF SockAddr
<1>5. Kept
  BY <1>1, NoAddressIs DEF Kept, Families
<1> QED
  BY <1>2, <1>3, <1>4, <1>5 DEF IInv

LEMMA InitInetKeeps ==
  ASSUME IInv, NEW f \in Families, NEW wild \in SUBSET Names, "host" \notin wild,
         NEW name \in Names, NEW p \in Ports, InitInet(f, wild, name, p)
  PROVE  IInv'
<1>1. p \in Nat
  BY PortsAssumption
<1> DEFINE h == Htons(p)
<1>2. h \in 0..PortMod - 1 /\ h \in Nat /\ h < PortMod
  BY <1>1, HtonsIs
<1>3. asked' = Address(f, name, p) /\ mem' = Untouched /\ size' = 0
  BY DEF InitInet
<1>4. \/ name \in wild /\ sa' = Address(f, "any", h)
      \/ name = "host" /\ sa' = Address(f, "host", h)
      \/ sa' = NoAddress
  BY DEF InitInet
<1>5. ret' \in {0, 1}
  BY DEF InitInet
<1>6. h = p % PortMod
  BY DEF Htons
<1> HIDE DEF h
<1>7. asked'.family = f /\ asked'.addr = name /\ asked'.port = p
  BY <1>3 DEF Address
<1>8. TypeOK'
  <2>1. ret' \in {-1, 0, 1} \cup 0..size' - 1
    BY <1>5
  <2>2. sa' \in [family : {"none", "ipv4", "ipv6", "local"},
                 addr : {"any", "host"}, port : 0..PortMod - 1]
    BY <1>2, <1>4, NoAddressIs DEF Address, Families
  <2>3. size' \in Sizes \cup {0, PathSize}
    BY <1>3
  <2> QED
    BY <1>7, <2>1, <2>2, <2>3 DEF TypeOK
<1>9. WritesInside'
  BY <1>3, UntouchedIs DEF WritesInside, IsMemory
<1>10. SockAddr'
  BY <1>2, <1>4, NoAddressIs, PortModIs DEF SockAddr, Address, Families
<1>11. Kept'
  <2>1. CASE sa' = NoAddress
    BY <2>1, NoAddressIs DEF Kept, Families
  <2>2. CASE name \in wild /\ sa' = Address(f, "any", h)
    <3>1. sa'.family = f /\ sa'.addr = "any" /\ sa'.port = h /\ name # "host"
      BY <2>2 DEF Address
    <3> QED
      BY <1>1, <1>6, <1>7, <3>1 DEF Kept
  <2>3. CASE name = "host" /\ sa' = Address(f, "host", h)
    <3>1. sa'.family = f /\ sa'.addr = "host" /\ sa'.port = h
      BY <2>3 DEF Address
    <3> QED
      BY <1>1, <1>6, <1>7, <2>3, <3>1 DEF Kept
  <2> QED
    BY <1>4, <2>1, <2>2, <2>3
<1> QED
  BY <1>8, <1>9, <1>10, <1>11 DEF IInv

LEMMA InitLocalKeeps ==
  ASSUME IInv, NEW l \in Paths, InitLocal(l)
  PROVE  IInv'
<1> DEFINE a == Address("local", "host", 0)
<1>1. l \in Nat /\ PathSize \in Nat
  BY PathsAssumption
<1>2. asked' = a /\ size' = PathSize
  BY DEF InitLocal
<1>3. \/ l > PathSize - 1 /\ sa' = NoAddress /\ ret' = 0 /\ mem' = Untouched
      \/ /\ ~(l > PathSize - 1) /\ sa' = a /\ ret' = 1
         /\ mem' = Put(Untouched, 0, Append([i \in 1..l |-> "p"], NUL))
  BY DEF InitLocal
<1>4. a.family = "local" /\ a.addr = "host" /\ a.port = 0
      /\ a \in [family : {"none", "ipv4", "ipv6", "local"},
                addr : {"any", "host"}, port : 0..PortMod - 1]
  <2>1. 0 \in 0..PortMod - 1
    BY PortModIs
  <2> QED
    BY <2>1 DEF Address
<1> HIDE DEF a
<1>5. TypeOK'
  <2>1. ret' \in {-1, 0, 1} \cup 0..size' - 1
    BY <1>3
  <2>2. asked'.addr \in Names
    BY <1>2, <1>4 DEF Names
  <2>3. sa' \in [family : {"none", "ipv4", "ipv6", "local"},
                 addr : {"any", "host"}, port : 0..PortMod - 1]
    BY <1>3, <1>4, NoAddressIs
  <2> QED
    BY <1>2, <2>1, <2>2, <2>3 DEF TypeOK
<1>6. WritesInside'
  <2>1. CASE mem' = Untouched
    BY <2>1, UntouchedIs DEF WritesInside, IsMemory
  <2>2. CASE /\ ~(l > PathSize - 1)
             /\ mem' = Put(Untouched, 0, Append([i \in 1..l |-> "p"], NUL))
    <3> DEFINE Cells == {"p", NUL}
               s == [i \in 1..l |-> "p"]
               t == Append(s, NUL)
    <3>1. s \in [1..l -> Cells]
      OBVIOUS
    <3> HIDE DEF s
    <3>2. s \in Seq(Cells) /\ Len(s) = l
      BY <1>1, <3>1, FunctionSeq
    <3>3. NUL \in Cells
      OBVIOUS
    <3> HIDE DEF Cells
    <3>4. t \in Seq(Cells) /\ Len(t) = l + 1
      BY <3>2, <3>3, AppendProperties
    <3>5. mem' = Put(Untouched, 0, t)
      BY <2>2 DEF s
    <3> HIDE DEF t
    <3>6. /\ IsMemory(mem')
          /\ \A i \in 0..Room - 1 :
               mem'[i] = IF 0 <= i /\ i < 0 + Len(t) THEN t[i - 0 + 1] ELSE Untouched[i]
      <4>1. 0 \in Nat /\ t \in Seq(Cells) /\ IsMemory(Untouched)
        BY <3>4, UntouchedIs
      <4>2. /\ IsMemory(Put(Untouched, 0, t))
            /\ \A i \in 0..Room - 1 :
                 Put(Untouched, 0, t)[i] =
                   IF 0 <= i /\ i < 0 + Len(t) THEN t[i - 0 + 1] ELSE Untouched[i]
        BY <4>1, PutIs, Zenon
      <4> QED
        BY <3>5, <4>2, Zenon
    <3>7. ASSUME NEW i \in 0..Room - 1, i >= PathSize PROVE mem'[i] = Stale
      <4>1. ~(i < 0 + Len(t))
        BY <1>1, <2>2, <3>4, <3>7, RoomIs
      <4>2. mem'[i] = Untouched[i]
        BY <3>6, <4>1
      <4> QED
        BY <4>2, UntouchedIs
    <3>8. \A i \in 0..Room - 1 : mem'[i] # Stale => i < PathSize
      BY <1>1, <3>7, RoomIs
    <3> QED
      BY <1>2, <3>6, <3>8 DEF WritesInside, IsMemory
  <2> QED
    BY <1>3, <2>1, <2>2
<1>7. SockAddr'
  BY <1>3, <1>4, NoAddressIs, PortModIs DEF SockAddr
<1>8. Kept'
  BY <1>3, <1>4, NoAddressIs DEF Kept, Families
<1> QED
  BY <1>5, <1>6, <1>7, <1>8 DEF IInv

LEMMA NtopKeeps ==
  ASSUME IInv, NEW n \in Sizes, SancusSocketNtop(n)
  PROVE  IInv'
<1>1. /\ n \in Nat /\ n \in 0..SizeMod - 1
      /\ size' = n /\ UNCHANGED <<asked, sa>>
  BY SizesAssumption DEF SancusSocketNtop
<1>2. /\ Wraps(n) \/ StaleFrom(mem', n)
      /\ IsMemory(mem') /\ ret' \in {-1} \cup 0..n - 1
  <2>1. CASE sa.family = "ipv4" /\ NtopIpv4(n)
    BY <1>1, <2>1, NtopIpv4Is DEF IInv, Leaves
  <2>2. CASE sa.family = "ipv6" /\ NtopIpv6(n)
    BY <1>1, <2>2, NtopIpv6Is DEF IInv, Leaves
  <2>3. CASE mem' = Untouched /\ ret' = -1
    BY <2>3, UntouchedIs DEF StaleFrom
  <2> QED
    BY <2>1, <2>2, <2>3 DEF SancusSocketNtop
<1>3. WritesInside'
  <2> SUFFICES ASSUME ~Wraps(n), NEW i \in 0..Room - 1, mem'[i] # Stale
               PROVE  i < n
    BY <1>1, <1>2 DEF WritesInside, Wraps, IsMemory
  <2> QED
    BY <1>1, <1>2, RoomIs DEF StaleFrom
<1>4. TypeOK'
  BY <1>1, <1>2 DEF IInv, TypeOK
<1>5. SockAddr' /\ Kept'
  BY <1>1 DEF IInv, SockAddr, Kept
<1> QED
  BY <1>3, <1>4, <1>5 DEF IInv

LEMMA InvNext ==
  ASSUME IInv, [Next]_vars
  PROVE  IInv'
<1>1. ASSUME NEW name \in Names, NEW p \in Ports, InitIpv4(name, p) PROVE IInv'
  <2>1. InitInet("ipv4", {"NULL", "", "0", "*"}, name, p)
    BY <1>1 DEF InitIpv4
  <2>2. {"NULL", "", "0", "*"} \in SUBSET Names /\ "host" \notin {"NULL", "", "0", "*"}
    BY DEF Names
  <2>3. "ipv4" \in Families
    BY DEF Families
  <2> QED
    BY <2>1, <2>2, <2>3, InitInetKeeps
<1>2. ASSUME NEW name \in Names, NEW p \in Ports, InitIpv6(name, p) PROVE IInv'
  <2>1. InitInet("ipv6", {"NULL", "", "*", "::"}, name, p)
    BY <1>2 DEF InitIpv6
  <2>2. {"NULL", "", "*", "::"} \in SUBSET Names /\ "host" \notin {"NULL", "", "*", "::"}
    BY DEF Names
  <2>3. "ipv6" \in Families
    BY DEF Families
  <2> QED
    BY <2>1, <2>2, <2>3, InitInetKeeps
<1>3. ASSUME UNCHANGED vars PROVE IInv'
  BY <1>3 DEF vars, IInv, TypeOK, WritesInside, SockAddr, Kept
<1> QED
  BY <1>1, <1>2, <1>3, InitLocalKeeps, NtopKeeps DEF Next

-----------------------------------------------------------------------------
(* Theorems.                                                               *)

(* The invariant holds whatever ports, buffers and paths a program has:    *)
(* the exception of WritesInside, an IPv6 address that is written to a     *)
(* buffer of size 0, is part of it.                                        *)
THEOREM AddressInvariant == Spec => []IInv
<1>1. Init => IInv
  BY InvInit
<1>2. IInv /\ [Next]_vars => IInv'
  BY InvNext
<1> QED
  BY <1>1, <1>2, PTL DEF Spec

(* Every variable keeps its type: a length that sancus_socket_ntop()       *)
(* returns is one the buffer it was given can hold with a NUL behind.      *)
THEOREM AddressTypeCorrect == Spec => []TypeOK
<1>1. IInv => TypeOK
  BY DEF IInv
<1> QED
  BY <1>1, AddressInvariant, PTL

(* Neither sun_path nor the caller's buffer is written past its end, in    *)
(* calls that succeed as in calls that fail, unless the buffer has size 0  *)
(* and the address is one of IPv6 (socket.c:106).                          *)
THEOREM NoWriteOutside == Spec => []WritesInside
<1>1. IInv => WritesInside
  BY DEF IInv
<1> QED
  BY <1>1, AddressInvariant, PTL

(* A port and an address that were accepted come out as they went in, in   *)
(* every buffer that has room for them, and in no other.                   *)
THEOREM TextComesOut == Spec => TextAsAsked
<1>1. ASSUME IInv, NEW n \in Sizes, SancusSocketNtop(n),
             sa.family # "local", asked.port < PortMod
      PROVE  Leaves(AskedText, n)
  <2>1. n \in Nat /\ n \in 0..SizeMod - 1
    BY SizesAssumption
  <2>2. sa.family \in Families
    BY <1>1 DEF IInv, SockAddr, SancusSocketNtop, Families
  <2>3. Leaves(SockText, n)
    BY <1>1, <2>1, <2>2, NtopIpv4Is, NtopIpv6Is DEF IInv, SancusSocketNtop, Families
  <2>4. /\ asked.family = sa.family /\ sa.port = asked.port % PortMod
        /\ asked.port \in Nat
        /\ sa.addr = IF asked.addr = "host" THEN "host" ELSE "any"
    BY <1>1, <2>2 DEF IInv, Kept
  <2>5. sa.port = asked.port
    BY <1>1, <2>4, PortModIs
  <2>6. SockText = AskedText
    BY <2>4, <2>5 DEF SockText, AskedText, AddrText
  <2> QED
    BY <2>3, <2>6
<1>2. IInv /\ [Next]_vars =>
        [\A n \in Sizes :
           SancusSocketNtop(n) /\ sa.family # "local" /\ asked.port < PortMod =>
             IF Len(AskedText) < n
             THEN /\ ret' = Len(AskedText)
                  /\ mem'[ret'] = NUL
                  /\ \A i \in DOMAIN AskedText : mem'[i - 1] = AskedText[i]
             ELSE ret' = -1]_vars
  BY <1>1 DEF Leaves
<1> QED
  BY <1>2, AddressInvariant, PTL DEF Spec, TextAsAsked
=============================================================================
