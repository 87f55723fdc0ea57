---------------------------- MODULE SancusLogProofs ----------------------------
(***************************************************************************)
(* Every logging macro sends exactly its line, for any names, texts and    *)
(* sizes of the buffers. What sancus_writev() does to any list of vectors  *)
(* is shown in FdIOProofs; here it sends vectors that are named by what    *)
(* they hold.                                                              *)
(***************************************************************************)
EXTENDS SancusLog, NatSets, SequenceTheorems

Loops == INSTANCE FdIOProofs WITH MaxVecs <- 1, MaxLen <- MaxLine, EmptyTail <- FALSE

-----------------------------------------------------------------------------
(* Trimming.                                                               *)

(* The bounds are numbers.                                                 *)
LEMMA LineSizes ==
  /\ MaxLine \in Nat /\ MaxText \in Nat
  /\ STR_BUFSIZE \in Nat \ {0} /\ TRACE_STR_BUFSIZE \in Nat \ {0}
  /\ MaxLine = 2 * MaxText + TRACE_STR_BUFSIZE + 7
  BY SizesAssumption DEF MaxLine

(* What FdIOProofs assumes of the bounds of FdIO.                          *)
LEMMA LoopBounds == 1 \in Nat \ {0} /\ MaxLine \in Nat /\ FALSE \in BOOLEAN
  BY LineSizes

(* The loop of strlen_trimmed() ends, and leaves the length without the    *)
(* blanks at the end.                                                      *)
LEMMA TrimIs ==
  ASSUME NEW s \in Strings
  PROVE  /\ StrlenTrimmed(s) \in 0..Len(s)
         /\ Trimmed(s) = SubSeq(s, 1, StrlenTrimmed(s))
<1> DEFINE IsEnd(l, m) ==
             /\ m \in Nat /\ m <= l /\ (m = 0 \/ s[m] # Blank)
             /\ \A i \in Nat : m < i /\ i <= l => s[i] = Blank
           E == {l \in Nat : \E m : IsEnd(l, m)}
<1>1. 0 \in E
  <2>1. IsEnd(0, 0)
    OBVIOUS
  <2> HIDE DEF IsEnd
  <2> QED
    BY <2>1
<1>2. \A l \in E : l + 1 \in E
  <2> TAKE l \in E
  <2>1. PICK m : IsEnd(l, m)
    OBVIOUS
  <2>2. l \in Nat /\ l + 1 \in Nat /\ l + 1 # 0
    OBVIOUS
  <2>3. \A i \in Nat : i <= l + 1 => i <= l \/ i = l + 1
    BY <2>2
  <2>4. CASE s[l + 1] = Blank
    <3>1. IsEnd(l + 1, m)
      BY <2>1, <2>2, <2>3, <2>4
    <3> HIDE DEF IsEnd
    <3> QED
      BY <2>2, <3>1
  <2>5. CASE s[l + 1] # Blank
    <3>1. IsEnd(l + 1, l + 1)
      BY <2>2, <2>5
    <3> HIDE DEF IsEnd
    <3> QED
      BY <2>2, <3>1
  <2> QED
    BY <2>4, <2>5
<1>3. E = Nat
  <2> HIDE DEF E
  <2>1. E \subseteq Nat
    BY DEF E
  <2> QED
    BY <1>1, <1>2, <2>1, NatSetInduction
<1>4. ASSUME NEW l \in Nat, NEW m, NEW n, IsEnd(l, m), IsEnd(l, n) PROVE m = n
  BY <1>4
<1> DEFINE end == [l \in Nat |-> CHOOSE m : IsEnd(l, m)]
<1>5. \A l \in Nat : IsEnd(l, end[l])
  <2> TAKE l \in Nat
  <2>1. \E m : IsEnd(l, m)
    BY <1>3
  <2>2. end[l] = CHOOSE m : IsEnd(l, m)
    OBVIOUS
  <2> HIDE DEF IsEnd, end
  <2> QED
    BY <2>1, <2>2
<1> HIDE DEF end
<1> DEFINE Row(f, l) == IF l > 0 /\ s[l] = Blank THEN f[l - 1] ELSE l
<1>6. \A l \in Nat : end[l] = Row(end, l)
  <2> TAKE l \in Nat
  <2>1. IsEnd(l, end[l])
    BY <1>5
  <2>2. CASE l > 0 /\ s[l] = Blank
    <3>1. l - 1 \in Nat /\ IsEnd(l - 1, end[l - 1])
      BY <1>5, <2>2
    <3>2. \A i \in Nat : i <= l => i <= l - 1 \/ i = l
      OBVIOUS
    <3>3. IsEnd(l, end[l - 1])
      BY <2>2, <3>1, <3>2
    <3>4. end[l] = end[l - 1]
      BY <1>4, <2>1, <3>3
    <3> QED
      BY <2>2, <3>4
  <2>3. CASE ~(l > 0 /\ s[l] = Blank)
    <3>1. IsEnd(l, l)
      BY <2>3
    <3>2. end[l] = l
      BY <1>4, <2>1, <3>1
    <3> QED
      BY <2>3, <3>2
  <2> QED
    BY <2>2, <2>3
<1> DEFINE IsTrim(f) == f = [l \in Nat |-> Row(f, l)]
           trim == CHOOSE f : IsTrim(f)
<1>7. \E f : IsTrim(f)
  <2>1. end = [l \in Nat |-> end[l]]
    BY DEF end
  <2>2. IsTrim(end)
    <3> HIDE DEF Row
    <3> QED
      BY <1>6, <2>1
  <2> HIDE DEF IsTrim
  <2> QED
    BY <2>2
<1>8. IsTrim(trim)
  <2> HIDE DEF IsTrim
  <2> QED
    BY <1>7
<1>9. StrlenTrimmed(s) = trim[Len(s)]
  BY StringsAssumption DEF StrlenTrimmed
<1> HIDE DEF trim
<1>10. \A l \in Nat : trim[l] = Row(trim, l)
  BY <1>8
<1> DEFINE T == {l \in Nat : trim[l] = end[l]}
<1>11. 0 \in T
  BY <1>6, <1>10
<1>12. \A l \in T : l + 1 \in T
  <2> TAKE l \in T
  <2>1. l \in Nat /\ l + 1 \in Nat /\ l + 1 - 1 = l
    OBVIOUS
  <2> QED
    BY <1>6, <1>10, <2>1
<1>13. T = Nat
  <2> HIDE DEF T
  <2>1. T \subseteq Nat
    BY DEF T
  <2> QED
    BY <1>11, <1>12, <2>1, NatSetInduction
<1> DEFINE n == Len(s)
           m == StrlenTrimmed(s)
<1>14. n \in Nat /\ DOMAIN s = 1..n
  BY LenProperties DEF Strings
<1>15. IsEnd(n, m)
  <2>1. n \in T
    BY <1>13, <1>14
  <2>2. trim[n] = end[n]
    BY <2>1
  <2>3. IsEnd(n, end[n])
    BY <1>5, <1>14
  <2> HIDE DEF IsEnd
  <2> QED
    BY <1>9, <2>2, <2>3
<1> HIDE DEF m, n
<1>16. m \in 0..n
  BY <1>14, <1>15
<1> DEFINE D == {0} \cup {i \in DOMAIN s : s[i] # Blank}
<1>17. m \in D /\ \A y \in D : m >= y /\ y \in Nat
  <2>1. m \in D
    BY <1>14, <1>15
  <2>2. ASSUME NEW y \in D PROVE m >= y /\ y \in Nat
    <3>1. y \in Nat /\ y <= n /\ (y = 0 \/ s[y] # Blank)
      BY <1>14
    <3> QED
      BY <1>15, <3>1
  <2> QED
    BY <2>1, <2>2
<1>18. Max(D) = m
  <2> HIDE DEF D
  <2>1. \A x \in D : (\A y \in D : x >= y) => x = m
    BY <1>17
  <2> QED
    BY <1>17, <2>1 DEF Max
<1>19. Trimmed(s) = SubSeq(s, 1, m)
  BY <1>18, StringsAssumption DEF Trimmed
<1> QED
  BY <1>16, <1>19 DEF m, n

-----------------------------------------------------------------------------
(* The instances of FdIO in SancusLog and in FdIOProofs are the same.      *)

(* What SancusLog gathers is what FdIOProofs speaks of.                    *)
LEMMA SameGather == ASSUME NEW s PROVE IO!Gather(s) = Loops!Gather(s)
  BY Zenon
  DEF IO!Gather, Loops!Gather, IO!Bytes, Loops!Bytes, IO!FlattenSeq, Loops!FlattenSeq

(* So is a vector as the caller fills it,                                  *)
LEMMA SameVector == ASSUME NEW f, NEW l PROVE IO!Vector(f, l) = Loops!Vector(f, l)
  BY DEF IO!Vector, Loops!Vector

(* one that was sent in part,                                              *)
LEMMA SameAdvance ==
  ASSUME NEW v, NEW n PROVE IO!Advance(v, n) = Loops!Advance(v, n)
  BY DEF IO!Advance, Loops!Advance

(* the call of a function,                                                 *)
LEMMA SameCall ==
  ASSUME NEW f, NEW v PROVE IO!Call(f, v) <=> Loops!Call(f, v)
  BY SameGather DEF IO!Call, Loops!Call

(* and the steps of its loops.                                             *)
LEMMA SameSteps ==
  (IO!Runs \/ IO!Interrupted \/ IO!Refused)
    <=> (Loops!Runs \/ Loops!Interrupted \/ Loops!Refused)
<1>1. IO!MaxCount = Loops!MaxCount
  BY DEF IO!MaxCount, Loops!MaxCount
<1>2. \A n : IO!Take(n) <=> Loops!Take(n)
  BY SameGather DEF IO!Take, Loops!Take
<1>3. IO!LoopTest <=> Loops!LoopTest
  BY DEF IO!LoopTest, Loops!LoopTest, IO!Done, Loops!Done, IO!Return, Loops!Return
<1>4. \A n : (IO!Write(n) \/ IO!Writev(n)) <=> (Loops!Write(n) \/ Loops!Writev(n))
  BY <1>2, SameAdvance DEF IO!Write, Loops!Write, IO!Writev, Loops!Writev
<1>5. IO!Consume <=> Loops!Consume
  BY SameAdvance DEF IO!Consume, Loops!Consume
<1>6. IO!Interrupted <=> Loops!Interrupted
  BY DEF IO!Interrupted, Loops!Interrupted
<1>7. IO!Refused <=> Loops!Refused
  BY DEF IO!Refused, Loops!Refused, IO!Return, Loops!Return
<1> QED
  BY <1>1, <1>3, <1>4, <1>5, <1>6, <1>7 DEF IO!Runs, Loops!Runs

-----------------------------------------------------------------------------
(* What is logged.                                                         *)

Parts == {"level", "name", "sep", "trace", "str", "newline"}
Vecs == Seq(Loops!Vec(Parts))
Bytes == Seq(Loops!Byte(Parts))

IsText(s) == s = Null \/ (s \in Strings /\ Len(s) <= MaxText)

(* vsnprintf() leaves room for the NUL of its buffer.                      *)
LEMMA CutIs ==
  ASSUME NEW s \in Strings, NEW n \in Nat \ {0}
  PROVE  Cut(s, n) \in Strings /\ Len(Cut(s, n)) < n /\ Len(Cut(s, n)) <= Len(s)
<1> DEFINE k == IF Len(s) < n THEN Len(s) ELSE n - 1
<1>1. Len(s) \in Nat /\ s \in Seq(Letters)
  BY LenProperties DEF Strings
<1>2. k \in 0..Len(s) /\ k < n /\ k \in Nat
  BY <1>1
<1>3. Cut(s, n) = SubSeq(s, 1, k)
  BY DEF Cut
<1> HIDE DEF k
<1>4. \A i \in 1..k : s[i] \in Letters
  BY <1>1, <1>2, ElementOfSeq
<1>5. /\ SubSeq(s, 1, k) \in Seq(Letters)
      /\ Len(SubSeq(s, 1, k)) = IF 1 <= k THEN k - 1 + 1 ELSE 0
  BY <1>2, <1>4, SubSeqProperties
<1>6. Len(SubSeq(s, 1, k)) = k
  BY <1>2, <1>5
<1> QED
  BY <1>1, <1>2, <1>3, <1>5, <1>6 DEF Strings

(* A text of the program is a short string, or missing.                    *)
LEMMA TextIs ==
  ASSUME NEW s \in Texts \cup {Null}
  PROVE  IsText(s)
<1>1. CASE s \in Texts
  <2>1. PICK n \in 0..MaxText : s \in [1..n -> Letters]
    BY <1>1 DEF Texts, BoundedSeq, SeqOf
  <2>2. s \in Seq(Letters) /\ Len(s) = n /\ n <= MaxText
    BY <2>1, LineSizes, SeqDef
  <2> QED
    BY <2>2 DEF IsText, Strings
<1> QED
  BY <1>1 DEF IsText

(* What _write() is given: the formatted parts are no longer than before.  *)
LEMMA RecordIs ==
  ASSUME NEW r \in Records
  PROVE  /\ r.macro \in DOMAIN Macro
         /\ IsText(r.name) /\ IsText(r.str)
         /\ r.trace = Null \/ (r.trace \in Strings /\ Len(r.trace) < TRACE_STR_BUFSIZE)
<1>1. PICK m \in DOMAIN Macro, name \in Names, text \in Texts \cup {Null},
           trace \in TraceTexts :
             r = Args(m, name, text, trace) /\ (m \in Formats => text \in Texts)
  BY DEF Records
<1>2. IsText(name) /\ IsText(text) /\ trace \in Strings
  BY StringsAssumption, TextIs
<1>3. /\ r.macro = m /\ r.name = name
      /\ r.str = IF m \in Formats THEN Cut(text, STR_BUFSIZE) ELSE text
      /\ r.trace = IF m \in Debugs THEN Cut(trace, TRACE_STR_BUFSIZE) ELSE Null
  BY <1>1 DEF Args
<1>4. IsText(r.str)
  <2>1. CASE m \in Formats
    <3>1. text \in Strings /\ Len(text) <= MaxText
      <4>1. text # Null
        BY <1>1, <2>1, StringsAssumption DEF Texts, BoundedSeq, SeqOf, Strings
      <4> QED
        BY <1>2, <4>1 DEF IsText
    <3>2. Cut(text, STR_BUFSIZE) \in Strings /\ Len(Cut(text, STR_BUFSIZE)) <= Len(text)
      BY <3>1, CutIs, LineSizes
    <3>3. Len(text) \in Nat /\ Len(Cut(text, STR_BUFSIZE)) \in Nat
      BY <3>1, <3>2, LenProperties DEF Strings
    <3> QED
      BY <1>3, <2>1, <3>1, <3>2, <3>3, LineSizes DEF IsText
  <2> QED
    BY <1>2, <1>3, <2>1
<1>5. r.trace = Null \/ (r.trace \in Strings /\ Len(r.trace) < TRACE_STR_BUFSIZE)
  BY <1>2, <1>3, CutIs, LineSizes
<1> QED
  BY <1>1, <1>2, <1>3, <1>4, <1>5

-----------------------------------------------------------------------------
(* What a reader sees of bytes.                                            *)

Shown(r, s) == [i \in DOMAIN s |-> Char(r, s[i])]
Values(r) == {Char(r, b) : b \in Loops!Byte(Parts)}

(* A reader sees one character for each byte.                              *)
LEMMA ShownIs ==
  ASSUME NEW r, NEW s \in Bytes
  PROVE  /\ Shown(r, s) \in Seq(Values(r))
         /\ Len(Shown(r, s)) = Len(s) /\ Len(s) \in Nat
         /\ \A i \in 1..Len(s) : Shown(r, s)[i] = Char(r, s[i])
<1>1. Len(s) \in Nat /\ DOMAIN s = 1..Len(s)
  BY LenProperties DEF Bytes
<1>2. \A i \in 1..Len(s) : s[i] \in Loops!Byte(Parts)
  BY ElementOfSeq DEF Bytes
<1>3. \A i \in 1..Len(s) : Char(r, s[i]) \in Values(r)
  BY <1>2 DEF Values
<1>4. Shown(r, s) = [i \in 1..Len(s) |-> Char(r, s[i])]
  BY <1>1 DEF Shown
<1>5. Shown(r, s) \in [1..Len(s) -> Values(r)]
  BY <1>3, <1>4
<1>6. Shown(r, s) \in Seq(Values(r)) /\ Len(Shown(r, s)) = Len(s)
  BY <1>1, <1>5, Loops!FunctionSeq, LoopBounds
<1> QED
  BY <1>1, <1>4, <1>6

(* What is sent in two parts reads like the whole.                         *)
LEMMA ShownConcat ==
  ASSUME NEW r, NEW s \in Bytes, NEW t \in Bytes
  PROVE  s \o t \in Bytes /\ Shown(r, s \o t) = Shown(r, s) \o Shown(r, t)
<1> DEFINE w == s \o t
           a == Shown(r, s)
           b == Shown(r, t)
           c == Shown(r, w)
<1>0. s \in Seq(Loops!Byte(Parts)) /\ t \in Seq(Loops!Byte(Parts))
  BY DEF Bytes
<1>1. /\ w \in Bytes /\ Len(w) = Len(s) + Len(t)
      /\ \A i \in 1..Len(s) + Len(t) :
           w[i] = IF i <= Len(s) THEN s[i] ELSE t[i - Len(s)]
  BY ConcatProperties DEF Bytes
<1>2. /\ a \in Seq(Values(r)) /\ Len(a) = Len(s) /\ Len(s) \in Nat
      /\ \A i \in 1..Len(s) : a[i] = Char(r, s[i])
  BY ShownIs
<1>3. /\ b \in Seq(Values(r)) /\ Len(b) = Len(t) /\ Len(t) \in Nat
      /\ \A i \in 1..Len(t) : b[i] = Char(r, t[i])
  BY ShownIs
<1> HIDE DEF w, a, b
<1>4. /\ c \in Seq(Values(r)) /\ Len(c) = Len(w)
      /\ \A i \in 1..Len(w) : c[i] = Char(r, w[i])
  BY <1>1, ShownIs
<1>5. /\ a \o b \in Seq(Values(r)) /\ Len(a \o b) = Len(s) + Len(t)
      /\ \A i \in 1..Len(s) + Len(t) :
           (a \o b)[i] = IF i <= Len(s) THEN a[i] ELSE b[i - Len(s)]
  <2>1. /\ a \o b \in Seq(Values(r)) /\ Len(a \o b) = Len(a) + Len(b)
        /\ \A i \in 1..Len(a) + Len(b) :
             (a \o b)[i] = IF i <= Len(a) THEN a[i] ELSE b[i - Len(a)]
    <3> DEFINE C == Values(r)
    <3>1. a \in Seq(C) /\ b \in Seq(C)
      BY <1>2, <1>3
    <3> HIDE DEF C
    <3>2. /\ a \o b \in Seq(C) /\ Len(a \o b) = Len(a) + Len(b)
          /\ \A i \in 1..Len(a) + Len(b) :
               (a \o b)[i] = IF i <= Len(a) THEN a[i] ELSE b[i - Len(a)]
      BY <3>1, ConcatProperties
    <3> QED
      BY <3>2 DEF C
  <2> QED
    BY <1>2, <1>3, <2>1
<1> HIDE DEF c
<1>6. ASSUME NEW i \in 1..Len(s) + Len(t) PROVE c[i] = (a \o b)[i]
  <2>1. c[i] = Char(r, w[i])
    BY <1>1, <1>4
  <2>2. CASE i <= Len(s)
    <3>1. i \in 1..Len(s)
      BY <1>2, <1>3, <2>2
    <3>2. w[i] = s[i] /\ (a \o b)[i] = a[i]
      BY <1>1, <1>5, <2>2
    <3> QED
      BY <1>2, <2>1, <3>1, <3>2
  <2>3. CASE ~(i <= Len(s))
    <3> DEFINE j == i - Len(s)
    <3>1. j \in 1..Len(t)
      BY <1>2, <1>3, <2>3
    <3>2. w[i] = t[j] /\ (a \o b)[i] = b[j]
      BY <1>1, <1>5, <2>3
    <3> HIDE DEF j
    <3> QED
      BY <1>3, <2>1, <3>1, <3>2
  <2> QED
    BY <2>2, <2>3
<1>7. c = a \o b
  BY <1>1, <1>4, <1>5, <1>6, SeqEqual
<1> QED
  BY <1>1, <1>7 DEF a, b, c, w

(* The first bytes show the first characters.                              *)
LEMMA ShownTake ==
  ASSUME NEW r, NEW s \in Bytes, NEW k \in 0..Len(s)
  PROVE  /\ SubSeq(s, 1, k) \in Bytes
         /\ Shown(r, SubSeq(s, 1, k)) = SubSeq(Shown(r, s), 1, k)
<1> DEFINE h == SubSeq(s, 1, k)
           d == Loops!Drop(s, k)
<1>1. h \in Bytes /\ Len(h) = k /\ h \o d = s /\ d \in Bytes
  BY Loops!TakeAndDrop, Loops!DropIs, LoopBounds DEF Bytes
<1> HIDE DEF h, d
<1>2. Shown(r, s) = Shown(r, h) \o Shown(r, d)
  BY <1>1, ShownConcat
<1>3. /\ Shown(r, h) \in Seq(Values(r)) /\ Len(Shown(r, h)) = k
      /\ Shown(r, d) \in Seq(Values(r))
  BY <1>1, ShownIs
<1>4. SubSeq(Shown(r, s), 1, k) = Shown(r, h)
  BY <1>2, <1>3, Loops!TakeOfConcat, LoopBounds
<1> QED
  BY <1>1, <1>4 DEF h

-----------------------------------------------------------------------------
(* The vectors and the line.                                               *)

(* A reader of what the list v holds of the record r sees the text t.      *)
Holds(v, r, t) ==
  /\ v \in Vecs
  /\ Loops!Gather(v) \in Bytes
  /\ Shown(r, Loops!Gather(v)) = t

(* No vectors, no text.                                                    *)
LEMMA HoldsNone == ASSUME NEW r PROVE Holds(<<>>, r, <<>>)
<1>1. <<>> \in Vecs /\ <<>> \in Bytes
  BY EmptySeq DEF Vecs, Bytes
<1>2. Loops!Gather(<<>>) = <<>>
  BY <1>1, Loops!GatherIs, LoopBounds DEF Vecs
<1>3. Shown(r, <<>>) \in Seq(Values(r)) /\ Len(Shown(r, <<>>)) = 0
  BY <1>1, ShownIs
<1>4. Shown(r, <<>>) = <<>>
  BY <1>3, EmptySeq
<1> QED
  BY <1>1, <1>2, <1>4 DEF Holds

(* Lists that follow each other hold one text after the other.             *)
LEMMA HoldsBoth ==
  ASSUME NEW r, NEW v, NEW w, NEW t, NEW u, Holds(v, r, t), Holds(w, r, u)
  PROVE  Holds(v \o w, r, t \o u)
<1>1. v \in Vecs /\ w \in Vecs /\ v \o w \in Vecs
  BY ConcatProperties DEF Holds, Vecs
<1>2. Loops!Gather(v \o w) = Loops!Gather(v) \o Loops!Gather(w)
  BY <1>1, Loops!GatherConcat, LoopBounds DEF Vecs
<1>3. /\ Loops!Gather(v) \in Bytes /\ Shown(r, Loops!Gather(v)) = t
      /\ Loops!Gather(w) \in Bytes /\ Shown(r, Loops!Gather(w)) = u
  BY DEF Holds
<1>4. /\ Loops!Gather(v) \o Loops!Gather(w) \in Bytes
      /\ Shown(r, Loops!Gather(v) \o Loops!Gather(w)) = t \o u
  BY <1>3, ShownConcat
<1> QED
  BY <1>1, <1>2, <1>4 DEF Holds

(* One vector.                                                             *)
LEMMA HoldsText ==
  ASSUME NEW r, NEW f \in Parts, NEW S, NEW t \in Seq(S), Len(t) <= MaxLine,
         \A i \in 1..Len(t) : Char(r, <<f, i>>) = t[i]
  PROVE  Holds(<<IO!Vector(f, Len(t))>>, r, t)
<1> DEFINE n == Len(t)
           v == Loops!Vector(f, n)
           g == Loops!Bytes(v)
<1>1. n \in Nat /\ n <= MaxLine
  BY LenProperties
<1> HIDE DEF n
<1>2. v = [vec |-> f, off |-> 0, len |-> n]
  BY DEF Loops!Vector
<1>3. v \in Loops!Vec(Parts)
  BY <1>1, <1>2, LoopBounds DEF Loops!Vec
<1>4. v.vec = f /\ v.off = 0 /\ v.len = n
  BY <1>2
<1> HIDE DEF v
<1>5. /\ g \in Bytes /\ Len(g) = n
      /\ \A j \in 1..n : g[j] = <<f, 0 + j>>
  BY <1>3, <1>4, Loops!BytesIs, LoopBounds DEF Bytes
<1> HIDE DEF g
<1>6. \A j \in 1..n : g[j] = <<f, j>>
  BY <1>1, <1>5
<1> DEFINE q == <<v>>
<1>7. q \in Vecs /\ q # <<>> /\ q[1] = v /\ Len(q) = 1
  BY <1>3 DEF Vecs
<1> HIDE DEF q
<1>8. Loops!Gather(q) = g
  <2>1. Tail(q) \in Vecs /\ Len(Tail(q)) = 0
    BY <1>7, HeadTailProperties DEF Vecs
  <2>2. Loops!Gather(Tail(q)) = <<>>
    BY <2>1, EmptySeq, Loops!GatherIs, LoopBounds DEF Vecs
  <2>3. Loops!Gather(q) = g \o Loops!Gather(Tail(q))
    BY <1>7, Loops!GatherIs, LoopBounds DEF Vecs, g
  <2> QED
    BY <1>5, <2>2, <2>3, ConcatEmptySeq DEF Bytes
<1>9. Shown(r, g) = t
  <2>1. /\ Shown(r, g) \in Seq(Values(r)) /\ Len(Shown(r, g)) = n
        /\ \A i \in 1..n : Shown(r, g)[i] = Char(r, g[i])
    BY <1>5, ShownIs
  <2>2. \A i \in 1..n : Shown(r, g)[i] = t[i]
    BY <1>6, <2>1 DEF n
  <2> QED
    BY <2>1, <2>2, SeqEqual DEF n
<1>10. <<IO!Vector(f, n)>> = q
  BY SameVector DEF q, v
<1> QED
  BY <1>5, <1>7, <1>8, <1>9, <1>10 DEF Holds, n

(* The same if a vector is only filled when there is something to say.     *)
LEMMA HoldsPushed ==
  ASSUME NEW r, NEW f \in Parts, NEW S, NEW t \in Seq(S), Len(t) <= MaxLine,
         \A i \in 1..Len(t) : Char(r, <<f, i>>) = t[i]
  PROVE  /\ Holds(Pushed(f, Len(t)), r, t)
         /\ Len(Pushed(f, Len(t))) = IF Len(t) > 0 THEN 1 ELSE 0
<1>1. CASE Len(t) > 0
  <2>1. Holds(<<IO!Vector(f, Len(t))>>, r, t)
    BY HoldsText
  <2>2. Pushed(f, Len(t)) = <<IO!Vector(f, Len(t))>>
    BY <1>1 DEF Pushed
  <2> QED
    BY <1>1, <2>1, <2>2
<1>2. CASE ~(Len(t) > 0)
  <2>1. Len(t) = 0 /\ t = <<>>
    <3>1. Len(t) \in Nat
      BY LenProperties
    <3>2. Len(t) = 0
      BY <1>2, <3>1
    <3> QED
      BY <3>2, EmptySeq
  <2>2. Pushed(f, Len(t)) = <<>> /\ Len(<<>>) = 0
    BY <1>2 DEF Pushed
  <2> QED
    BY <1>2, <2>1, <2>2, HoldsNone
<1> QED
  BY <1>1, <1>2

(* strlen_trimmed() counts the characters that are left, NULL has none.    *)
LEMMA TrimmedIs ==
  ASSUME NEW s, IsText(s)
  PROVE  /\ Trimmed(s) \in Strings
         /\ Len(Trimmed(s)) = StrlenTrimmed(s)
         /\ StrlenTrimmed(s) \in Nat /\ StrlenTrimmed(s) <= MaxText
         /\ \A i \in 1..Len(Trimmed(s)) : Trimmed(s)[i] = s[i]
<1>1. CASE s = Null
  <2>1. Trimmed(s) = <<>> /\ StrlenTrimmed(s) = 0
    BY <1>1 DEF Trimmed, StrlenTrimmed
  <2>2. <<>> \in Seq(Letters) /\ Len(<<>>) = 0
    BY EmptySeq
  <2> QED
    BY <2>1, <2>2, LineSizes DEF Strings
<1>2. CASE s # Null
  <2> DEFINE m == StrlenTrimmed(s)
             t == Trimmed(s)
  <2>1. s \in Strings /\ Len(s) <= MaxText
    BY <1>2 DEF IsText
  <2>2. m \in 0..Len(s) /\ t = SubSeq(s, 1, m)
    BY <2>1, TrimIs
  <2>3. Len(s) \in Nat /\ s \in Seq(Letters)
    BY <2>1, LenProperties DEF Strings
  <2> HIDE DEF m, t
  <2>4. m \in Nat /\ m <= MaxText
    BY <2>1, <2>2, <2>3, LineSizes
  <2>5. \A i \in 1..m : s[i] \in Letters
    BY <2>2, <2>3, ElementOfSeq
  <2>6. /\ t \in Seq(Letters)
        /\ Len(t) = IF 1 <= m THEN m - 1 + 1 ELSE 0
        /\ \A i \in 1..m - 1 + 1 : t[i] = s[1 + i - 1]
    BY <2>2, <2>4, <2>5, SubSeqProperties
  <2>7. Len(t) = m
    BY <2>4, <2>6
  <2>8. \A i \in 1..m : t[i] = s[i]
    <3> TAKE i \in 1..m
    <3>1. i \in 1..m - 1 + 1 /\ 1 + i - 1 = i
      BY <2>4
    <3> QED
      BY <2>6, <3>1
  <2> QED
    BY <2>4, <2>6, <2>7, <2>8 DEF m, t, Strings
<1> QED
  BY <1>1, <1>2

(* Which character a byte of each vector is.                               *)
LEMMA CharIs ==
  ASSUME NEW r, NEW i
  PROVE  /\ Char(r, <<"level", i>>) = LevelText(r)[i]
         /\ Char(r, <<"name", i>>) = r.name[i]
         /\ Char(r, <<"sep", i>>) = Separator[i]
         /\ Char(r, <<"trace", i>>) = r.trace[i]
         /\ Char(r, <<"str", i>>) = r.str[i]
         /\ Char(r, <<"newline", i>>) = Newline[i]
  BY DEF Char

(* How long the fixed parts are.                                           *)
LEMMA LiteralsAre ==
  ASSUME NEW r
  PROVE  /\ \E S : LevelText(r) \in Seq(S) /\ Len(LevelText(r)) = 4
         /\ \E S : Separator \in Seq(S) /\ Len(Separator) = 2
         /\ \E S : Newline \in Seq(S) /\ Len(Newline) = 1
<1>1. \A a, b, c, d : <<a, b, c, d>> \in Seq({a, b, c, d}) /\ Len(<<a, b, c, d>>) = 4
  OBVIOUS
<1>2. \A a, b : <<a, b>> \in Seq({a, b}) /\ Len(<<a, b>>) = 2
  OBVIOUS
<1>3. \A a : <<a>> \in Seq({a}) /\ Len(<<a>>) = 1
  OBVIOUS
<1>4. \E S : LevelText(r) \in Seq(S) /\ Len(LevelText(r)) = 4
  BY <1>1, Zenon DEF LevelText
<1>5. \E S : Separator \in Seq(S) /\ Len(Separator) = 2
  BY <1>2, Zenon DEF Separator
<1>6. \E S : Newline \in Seq(S) /\ Len(Newline) = 1
  BY <1>3, Zenon DEF Newline
<1> QED
  BY <1>4, <1>5, <1>6

(* A list has as many bytes as its text has characters.                    *)
LEMMA HoldsLength ==
  ASSUME NEW v, NEW r, NEW t, Holds(v, r, t)
  PROVE  t \in Seq(Values(r)) /\ Len(t) \in Nat /\ Len(Loops!Gather(v)) = Len(t)
  BY ShownIs DEF Holds

(* The vectors of a record hold its line, and fit into v[6].               *)
LEMMA VectorsHold ==
  ASSUME NEW r \in Records
  PROVE  /\ Holds(Vectors(r), r, Line(r))
         /\ Len(Vectors(r)) \in 0..6
         /\ Len(Line(r)) <= MaxLine
<1> DEFINE C == Values(r)
           l2 == StrlenTrimmed(r.name)
           N == Trimmed(r.name)
           T == IF r.trace = Null THEN <<>> ELSE r.trace
           X == Trimmed(r.str)
           P == IF N = <<>> THEN <<>> ELSE Separator
           vL == <<IO!Vector("level", 4)>>
           vN == Pushed("name", l2)
           vP == IF l2 > 0 THEN Pushed("sep", 2) ELSE <<>>
           vT == IF r.trace = Null THEN <<>> ELSE Pushed("trace", Len(r.trace))
           vX == Pushed("str", StrlenTrimmed(r.str))
           vE == <<IO!Vector("newline", 1)>>
<1>1. /\ IsText(r.name) /\ IsText(r.str)
      /\ r.trace = Null \/ (r.trace \in Strings /\ Len(r.trace) < TRACE_STR_BUFSIZE)
  BY RecordIs
<1>2. /\ MaxLine \in Nat /\ MaxText \in Nat /\ TRACE_STR_BUFSIZE \in Nat
      /\ MaxLine = MaxText + MaxText + TRACE_STR_BUFSIZE + 7
      /\ 1 <= MaxLine /\ 2 <= MaxLine /\ 4 <= MaxLine
  BY LineSizes
<1>3. Holds(vL, r, LevelText(r)) /\ Len(LevelText(r)) = 4 /\ Len(vL) = 1
  <2>1. PICK S : LevelText(r) \in Seq(S) /\ Len(LevelText(r)) = 4
    BY LiteralsAre
  <2>2. Holds(<<IO!Vector("level", Len(LevelText(r)))>>, r, LevelText(r))
    BY <1>2, <2>1, CharIs, HoldsText DEF Parts
  <2> QED
    BY <2>1, <2>2
<1>4. Holds(vE, r, Newline) /\ Len(Newline) = 1 /\ Len(vE) = 1
  <2>1. PICK S : Newline \in Seq(S) /\ Len(Newline) = 1
    BY LiteralsAre
  <2>2. Holds(<<IO!Vector("newline", Len(Newline))>>, r, Newline)
    BY <1>2, <2>1, CharIs, HoldsText DEF Parts
  <2> QED
    BY <2>1, <2>2
<1>5. /\ Holds(vN, r, N) /\ Len(N) = l2 /\ l2 \in Nat /\ l2 <= MaxText
      /\ Len(vN) <= 1 /\ Len(vN) \in Nat /\ N \in Seq(Letters)
  <2>1. /\ N \in Strings /\ Len(N) = l2 /\ l2 \in Nat /\ l2 <= MaxText
        /\ \A i \in 1..Len(N) : N[i] = r.name[i]
    BY <1>1, TrimmedIs
  <2> HIDE DEF N, l2
  <2>2. N \in Seq(Letters) /\ Len(N) <= MaxLine
    BY <1>2, <2>1 DEF Strings
  <2>3. \A i \in 1..Len(N) : Char(r, <<"name", i>>) = N[i]
    BY <2>1, CharIs
  <2>4. "name" \in Parts
    BY DEF Parts
  <2>5. vN = Pushed("name", Len(N))
    BY <2>1
  <2> HIDE DEF vN
  <2>6. Holds(vN, r, N) /\ Len(vN) = IF Len(N) > 0 THEN 1 ELSE 0
    BY <2>2, <2>3, <2>4, <2>5, HoldsPushed
  <2>7. Len(vN) <= 1 /\ Len(vN) \in Nat
    BY <2>6
  <2> QED
    BY <2>1, <2>2, <2>6, <2>7
<1>6. /\ Holds(vX, r, X) /\ Len(X) \in Nat /\ Len(X) <= MaxText
      /\ Len(vX) <= 1 /\ Len(vX) \in Nat
  <2>1. /\ X \in Strings /\ Len(X) = StrlenTrimmed(r.str)
        /\ StrlenTrimmed(r.str) \in Nat /\ StrlenTrimmed(r.str) <= MaxText
        /\ \A i \in 1..Len(X) : X[i] = r.str[i]
    BY <1>1, TrimmedIs
  <2> HIDE DEF X
  <2>2. X \in Seq(Letters) /\ Len(X) <= MaxLine
    BY <1>2, <2>1 DEF Strings
  <2>3. \A i \in 1..Len(X) : Char(r, <<"str", i>>) = X[i]
    BY <2>1, CharIs
  <2>4. /\ Holds(Pushed("str", Len(X)), r, X)
        /\ Len(Pushed("str", Len(X))) = IF Len(X) > 0 THEN 1 ELSE 0
    BY <2>2, <2>3, HoldsPushed DEF Parts
  <2> QED
    BY <2>1, <2>4
<1>7. /\ Holds(vP, r, P) /\ Len(P) \in Nat /\ Len(P) <= 2
      /\ Len(vP) <= 1 /\ Len(vP) \in Nat
  <2>1. l2 > 0 <=> N # <<>>
    BY <1>5, EmptySeq
  <2>2. PICK S : Separator \in Seq(S) /\ Len(Separator) = 2
    BY LiteralsAre
  <2>3. /\ Holds(Pushed("sep", 2), r, Separator)
        /\ Len(Pushed("sep", 2)) = 1
    <3>1. "sep" \in Parts /\ Len(Separator) <= MaxLine
      BY <1>2, <2>2 DEF Parts
    <3>2. \A i \in 1..Len(Separator) : Char(r, <<"sep", i>>) = Separator[i]
      BY CharIs
    <3>3. /\ Holds(Pushed("sep", Len(Separator)), r, Separator)
          /\ Len(Pushed("sep", Len(Separator))) = IF Len(Separator) > 0 THEN 1 ELSE 0
      BY <2>2, <3>1, <3>2, HoldsPushed
    <3> QED
      BY <2>2, <3>3
  <2>4. Holds(<<>>, r, <<>>) /\ Len(<<>>) = 0
    BY HoldsNone
  <2> HIDE DEF N, l2
  <2>5. CASE l2 > 0
    <3>1. P = Separator /\ vP = Pushed("sep", 2)
      BY <2>1, <2>5
    <3> HIDE DEF P, vP
    <3>2. Holds(vP, r, P)
      BY <2>3, <3>1
    <3>3. Len(P) = 2 /\ Len(vP) = 1
      BY <2>2, <2>3, <3>1
    <3> QED
      BY <3>2, <3>3
  <2>6. CASE ~(l2 > 0)
    <3>1. P = <<>> /\ vP = <<>>
      BY <2>1, <2>6
    <3> QED
      BY <2>4, <3>1
  <2> QED
    BY <2>5, <2>6
<1>8. /\ Holds(vT, r, T) /\ Len(T) \in Nat /\ Len(T) <= TRACE_STR_BUFSIZE - 1
      /\ Len(vT) <= 1 /\ Len(vT) \in Nat
  <2>1. CASE r.trace = Null
    <3>1. T = <<>> /\ vT = <<>>
      BY <2>1
    <3>2. 0 <= TRACE_STR_BUFSIZE - 1
      BY LineSizes
    <3>3. Holds(<<>>, r, <<>>) /\ Len(<<>>) = 0
      BY HoldsNone
    <3> QED
      BY <3>1, <3>2, <3>3
  <2>2. CASE r.trace # Null
    <3>1. T = r.trace /\ vT = Pushed("trace", Len(r.trace))
      BY <2>2
    <3>2. T \in Seq(Letters) /\ Len(T) < TRACE_STR_BUFSIZE
      BY <1>1, <2>2, <3>1 DEF Strings
    <3>3. Len(T) \in Nat
      BY <3>2, LenProperties
    <3> HIDE DEF T
    <3>4. Len(T) <= MaxLine /\ Len(T) <= TRACE_STR_BUFSIZE - 1
      BY <1>2, <3>2, <3>3
    <3>5. \A i \in 1..Len(T) : Char(r, <<"trace", i>>) = T[i]
      BY <3>1, CharIs
    <3>6. /\ Holds(Pushed("trace", Len(T)), r, T)
          /\ Len(Pushed("trace", Len(T))) = IF Len(T) > 0 THEN 1 ELSE 0
      BY <3>2, <3>4, <3>5, HoldsPushed DEF Parts
    <3> QED
      BY <3>1, <3>3, <3>4, <3>6
  <2> QED
    BY <2>1, <2>2
<1>9. Vectors(r) = vL \o vN \o vP \o vT \o vX \o vE
  BY DEF Vectors
<1>10. Line(r) = LevelText(r) \o (IF N = <<>> THEN <<>> ELSE N \o Separator)
                   \o T \o X \o Newline
  BY DEF Line
<1> DEFINE A == LevelText(r)
<1> HIDE DEF C, l2, N, T, X, P, vL, vN, vP, vT, vX, vE, A
<1>11. /\ A \in Seq(C) /\ N \in Seq(C) /\ P \in Seq(C) /\ T \in Seq(C)
       /\ X \in Seq(C) /\ Newline \in Seq(C)
  BY <1>3, <1>4, <1>5, <1>6, <1>7, <1>8, HoldsLength DEF A, C
<1>12. (IF N = <<>> THEN <<>> ELSE N \o Separator) = N \o P
  <2>1. CASE N = <<>>
    BY <2>1, ConcatEmptySeq DEF P
  <2>2. CASE N # <<>>
    BY <2>2 DEF P
  <2> QED
    BY <2>1, <2>2
<1>13. A \o (N \o P) = (A \o N) \o P
  <2>1. \A x, y, z \in Seq(C) : (x \o y) \o z = x \o (y \o z)
    BY ConcatAssociative
  <2> QED
    BY <1>11, <2>1, Zenon
<1>14. Line(r) = A \o N \o P \o T \o X \o Newline
  BY <1>10, <1>12, <1>13, Zenon DEF A
<1>15. Holds(vL \o vN \o vP \o vT \o vX \o vE, r, A \o N \o P \o T \o X \o Newline)
  <2>1. Holds(vL \o vN, r, A \o N)
    BY <1>3, <1>5, HoldsBoth DEF A
  <2>2. Holds(vL \o vN \o vP, r, A \o N \o P)
    BY <1>7, <2>1, HoldsBoth
  <2>3. Holds(vL \o vN \o vP \o vT, r, A \o N \o P \o T)
    BY <1>8, <2>2, HoldsBoth
  <2>4. Holds(vL \o vN \o vP \o vT \o vX, r, A \o N \o P \o T \o X)
    BY <1>6, <2>3, HoldsBoth
  <2> QED
    BY <1>4, <2>4, HoldsBoth
<1>16. \A S : \A x, y \in Seq(S) : x \o y \in Seq(S) /\ Len(x \o y) = Len(x) + Len(y)
  BY ConcatProperties
<1>17. Len(A \o N \o P \o T \o X \o Newline)
         = Len(A) + Len(N) + Len(P) + Len(T) + Len(X) + Len(Newline)
  <2>1. A \o N \in Seq(C) /\ Len(A \o N) = Len(A) + Len(N)
    BY <1>11, <1>16
  <2>2. A \o N \o P \in Seq(C) /\ Len(A \o N \o P) = Len(A \o N) + Len(P)
    BY <1>11, <1>16, <2>1
  <2>3. /\ A \o N \o P \o T \in Seq(C)
        /\ Len(A \o N \o P \o T) = Len(A \o N \o P) + Len(T)
    BY <1>11, <1>16, <2>2
  <2>4. /\ A \o N \o P \o T \o X \in Seq(C)
        /\ Len(A \o N \o P \o T \o X) = Len(A \o N \o P \o T) + Len(X)
    BY <1>11, <1>16, <2>3
  <2>5. Len(A \o N \o P \o T \o X \o Newline) = Len(A \o N \o P \o T \o X) + Len(Newline)
    BY <1>11, <1>16, <2>4
  <2> QED
    BY <2>1, <2>2, <2>3, <2>4, <2>5
<1>18. Len(Line(r)) <= MaxLine
  <2>1. Len(A) = 4
    BY <1>3 DEF A
  <2> QED
    BY <1>2, <1>4, <1>5, <1>6, <1>7, <1>8, <1>14, <1>17, <2>1
<1>19. Len(vL \o vN \o vP \o vT \o vX \o vE) \in 0..6
  <2>0. /\ vL \in Vecs /\ vN \in Vecs /\ vP \in Vecs /\ vT \in Vecs
        /\ vX \in Vecs /\ vE \in Vecs
    BY <1>3, <1>4, <1>5, <1>6, <1>7, <1>8 DEF Holds
  <2>1. vL \o vN \in Vecs /\ Len(vL \o vN) = Len(vL) + Len(vN)
    BY <1>16, <2>0 DEF Vecs
  <2>2. vL \o vN \o vP \in Vecs /\ Len(vL \o vN \o vP) = Len(vL \o vN) + Len(vP)
    BY <1>16, <2>0, <2>1 DEF Vecs
  <2>3. /\ vL \o vN \o vP \o vT \in Vecs
        /\ Len(vL \o vN \o vP \o vT) = Len(vL \o vN \o vP) + Len(vT)
    BY <1>16, <2>0, <2>2 DEF Vecs
  <2>4. /\ vL \o vN \o vP \o vT \o vX \in Vecs
        /\ Len(vL \o vN \o vP \o vT \o vX) = Len(vL \o vN \o vP \o vT) + Len(vX)
    BY <1>16, <2>0, <2>3 DEF Vecs
  <2>5. Len(vL \o vN \o vP \o vT \o vX \o vE) = Len(vL \o vN \o vP \o vT \o vX) + Len(vE)
    BY <1>16, <2>0, <2>4 DEF Vecs
  <2>6. Len(vL \o vN) \in 0..2
    BY <1>3, <1>5, <2>1
  <2>7. Len(vL \o vN \o vP) \in 0..3
    BY <1>7, <2>2, <2>6
  <2>8. Len(vL \o vN \o vP \o vT) \in 0..4
    BY <1>8, <2>3, <2>7
  <2>9. Len(vL \o vN \o vP \o vT \o vX) \in 0..5
    BY <1>6, <2>4, <2>8
  <2> QED
    BY <1>4, <2>5, <2>9
<1> QED
  BY <1>9, <1>14, <1>15, <1>18, <1>19


(* What sancus_writev() is asked to send is the line, byte for byte.       *)
LEMMA LineFits ==
  ASSUME NEW r \in Records
  PROVE  /\ Vectors(r) \in Vecs /\ Len(Vectors(r)) \in 0..6
         /\ Loops!Gather(Vectors(r)) \in Bytes
         /\ Shown(r, Loops!Gather(Vectors(r))) = Line(r)
         /\ Len(Loops!Gather(Vectors(r))) = Len(Line(r))
         /\ Len(Line(r)) \in Nat /\ Len(Line(r)) <= MaxLine
  BY VectorsHold, HoldsLength DEF Holds

-----------------------------------------------------------------------------
(* The inductive invariant: the two loops of FdIO, on vectors named by     *)
(* what they hold, and once a macro was called, the line of its record as  *)
(* the message.                                                            *)

Asked ==
  IF Loops!State = "idle"
  THEN rec = NoRecord /\ msg = <<>> /\ out = <<>>
  ELSE rec \in Records /\ msg = Loops!Gather(Vectors(rec))

IInv == TypeOK /\ Loops!Sends(Parts) /\ Asked

Steps == Loops!Runs \/ Loops!Interrupted \/ Loops!Refused

(* A step calls sancus_writev() with the vectors of a record, or is its    *)
(* own.                                                                    *)
LEMMA NextIs ==
  ASSUME [Next]_vars
  PROVE  \/ \E r \in Records : rec' = r /\ Loops!Call("writev", Vectors(r))
         \/ [Steps]_(Loops!vars) /\ UNCHANGED rec
<1>1. ASSUME NEW r \in Records, Log(r)
      PROVE  rec' = r /\ Loops!Call("writev", Vectors(r))
  BY <1>1, SameCall DEF Log
<1>2. ASSUME IO!Runs \/ IO!Interrupted \/ IO!Refused PROVE Steps
  BY <1>2, SameSteps DEF Steps
<1>3. ASSUME UNCHANGED vars PROVE UNCHANGED <<rec, Loops!vars>>
  BY <1>3 DEF vars, Loops!vars
<1> QED
  BY <1>1, <1>2, <1>3 DEF Next

(* The results of the two instances are the same numbers.                  *)
LEMMA ReturnsAre ==
  IO!NoRet = -2 /\ Loops!NoRet = -2 /\ Loops!MaxCount = MaxLine
  BY LineSizes DEF IO!NoRet, Loops!NoRet, Loops!MaxCount

(* Nothing was logged.                                                     *)
LEMMA InvInit ==
  ASSUME Init
  PROVE  IInv
<1>1. Loops!Init
  BY ReturnsAre DEF Init, IO!Init, Loops!Init
<1>2. Loops!Sends(Parts)
  BY <1>1, Loops!SendsInit, LoopBounds
<1>3. TypeOK
  BY EmptySeq DEF Init, IO!Init, TypeOK
<1>4. Asked
  BY <1>1 DEF Init, Asked, Loops!Init, Loops!State
<1> QED
  BY <1>2, <1>3, <1>4 DEF IInv

(* A macro asks for the line of its record.                                *)
LEMMA LogKeeps ==
  ASSUME IInv, NEW r \in Records, rec' = r, Loops!Call("writev", Vectors(r))
  PROVE  IInv'
<1>1. /\ op = "none" /\ op' = "writev" /\ iov' = Vectors(r) /\ ret' = ret
      /\ msg' = Loops!Gather(Vectors(r)) /\ out' = <<>>
  BY DEF Loops!Call
<1>2. Vectors(r) \in Seq(Loops!Vec(Parts)) /\ Len(Loops!Gather(Vectors(r))) <= MaxLine
  BY LineFits DEF Vecs
<1>3. Loops!Sends(Parts)'
  BY <1>2, Loops!CallSends, LoopBounds, ReturnsAre DEF IInv
<1>4. TypeOK'
  BY <1>1, LineFits DEF IInv, TypeOK
<1>5. Asked'
  BY <1>1 DEF Asked, Loops!State
<1> QED
  BY <1>3, <1>4, <1>5 DEF IInv

(* The loops neither change what they were asked to send, nor forget that  *)
(* they were asked.                                                        *)
LEMMA LoopKeeps ==
  ASSUME IInv, [Steps]_(Loops!vars), UNCHANGED rec
  PROVE  IInv'
<1>1. Loops!Sends(Parts) /\ [Loops!Runs \/ Loops!Interrupted \/ Loops!Refused]_(Loops!vars)
  BY DEF IInv, Steps
<1>2. Loops!Sends(Parts)'
  BY <1>1, Loops!StepKeepsSends, LoopBounds
<1>3. Len(iov') <= Len(iov)
  BY <1>1, Loops!StepShortens, LoopBounds
<1>4. Len(iov') \in 0..6
  <2>1. Len(iov') \in Nat
    BY <1>2, LenProperties DEF Loops!Sends
  <2>2. Len(iov) \in 0..6
    BY DEF IInv, TypeOK
  <2>3. \A j \in Nat : \A k \in 0..6 : j <= k => j \in 0..6
    OBVIOUS
  <2> QED
    BY <1>3, <2>1, <2>2, <2>3, Zenon
<1>5. TypeOK'
  BY <1>2, <1>4, ReturnsAre DEF IInv, TypeOK, Loops!Sends
<1>6. Asked'
  <2>1. \/ UNCHANGED <<msg, out, Loops!State>>
        \/ /\ Loops!State = "sending" /\ Loops!State' # "idle" /\ UNCHANGED msg
    BY <1>1, Loops!StepSends, LoopBounds
    DEF Loops!Transmitting!Send, Loops!Transmitting!Succeed, Loops!Transmitting!Fail
  <2> QED
    BY <2>1 DEF IInv, Asked
<1> QED
  BY <1>2, <1>5, <1>6 DEF IInv

-----------------------------------------------------------------------------
(* The refinement.                                                         *)

(* The line of the record is the message for Transmission, and what a      *)
(* reader sees of the bytes that went out is what went out.                *)
LEMMA AbstractIs ==
  ASSUME IInv
  PROVE  /\ State = Loops!State
         /\ Written = Shown(rec, out)
         /\ (IF rec = NoRecord /\ State = "idle" THEN <<>> ELSE Line(rec))
              = IF State = "idle" THEN <<>> ELSE Line(rec)
<1>1. State = Loops!State
  <2>1. CASE Loops!State = "idle"
    BY <2>1, ReturnsAre DEF State, Loops!State
  <2>2. CASE Loops!State # "idle"
    <3>1. Len(Line(rec)) = Len(msg)
      BY <2>2, LineFits DEF IInv, Asked
    <3> QED
      BY <3>1, ReturnsAre DEF State, Loops!State
  <2> QED
    BY <2>1, <2>2
<1>2. Written = Shown(rec, out)
  BY DEF Written, Shown
<1>3. State = "idle" => rec = NoRecord
  BY <1>1 DEF IInv, Asked
<1> QED
  BY <1>1, <1>2, <1>3

SameState == State = Loops!State

(* A macro begins to send its line.                                        *)
LEMMA LogBegins ==
  ASSUME IInv, NEW r \in Records, rec' = r, Loops!Call("writev", Vectors(r))
  PROVE  Transmitting!Next
<1>1. op = "none" /\ op' = "writev" /\ out' = <<>>
  BY DEF Loops!Call
<1>2. State # "sending" /\ State' = "sending"
  BY <1>1 DEF State
<1>3. Written' = <<>>
  BY <1>1 DEF Written
<1>4. (IF rec = NoRecord /\ State = "idle" THEN <<>> ELSE Line(rec))' = Line(r)
  BY <1>2
<1>5. Line(r) \in Lines
  BY DEF Lines
<1> QED
  BY <1>2, <1>3, <1>4, <1>5 DEF Transmitting!Next, Transmitting!Begin

(* What the loops do to the bytes, a reader sees of the characters.        *)
LEMMA LoopSends ==
  ASSUME IInv, IInv', [Steps]_(Loops!vars), UNCHANGED rec,
         SameState'
  PROVE  [Transmitting!Next]_(Transmitting!tvars)
<1> DEFINE told == IF rec = NoRecord /\ State = "idle" THEN <<>> ELSE Line(rec)
<1>1. /\ State = Loops!State /\ Written = Shown(rec, out)
      /\ told = IF State = "idle" THEN <<>> ELSE Line(rec)
  BY AbstractIs
<1>0. State' = Loops!State'
  BY DEF SameState
<1>2. Written' = Shown(rec, out')
  BY DEF Written, Shown
<1>3. told' = IF rec = NoRecord /\ State' = "idle" THEN <<>> ELSE Line(rec)
  OBVIOUS
<1> HIDE DEF told
<1>4. ASSUME State = "sending"
      PROVE  /\ told = Line(rec) /\ msg \in Bytes /\ out \in Bytes
             /\ Shown(rec, msg) = Line(rec) /\ Len(msg) = Len(Line(rec))
             /\ Len(Written) = Len(out)
  <2>1. rec \in Records /\ msg = Loops!Gather(Vectors(rec))
    BY <1>1, <1>4 DEF IInv, Asked
  <2>2. out \in Bytes
    BY DEF IInv, Loops!Sends, Bytes
  <2>3. Len(Shown(rec, out)) = Len(out)
    BY <2>2, ShownIs
  <2> QED
    BY <1>1, <1>4, <2>1, <2>2, <2>3, LineFits
<1>5. ASSUME State = "sending", State' # "idle" PROVE told' = told
  BY <1>1, <1>3, <1>5
<1>6. ASSUME Loops!Transmitting!Send PROVE Transmitting!Send
  <2>1. PICK k \in Len(out) + 1..Len(msg) : out' = SubSeq(msg, 1, k)
    BY <1>6 DEF Loops!Transmitting!Send
  <2>2. State = "sending" /\ State' = "sending"
    BY <1>0, <1>1, <1>6 DEF Loops!Transmitting!Send
  <2>3. Len(out) \in Nat /\ Len(msg) \in Nat
    BY <1>4, <2>2, ShownIs
  <2>4. k \in 0..Len(msg)
    BY <2>1, <2>3
  <2>5. Shown(rec, SubSeq(msg, 1, k)) = SubSeq(Shown(rec, msg), 1, k)
    BY <1>4, <2>2, <2>4, ShownTake
  <2>6. Written' = SubSeq(told, 1, k) /\ k \in Len(Written) + 1..Len(told)
    BY <1>2, <1>4, <2>1, <2>2, <2>5
  <2>7. told' = told
    BY <1>5, <2>2
  <2> QED
    BY <2>2, <2>6, <2>7 DEF Transmitting!Send, told
<1>7. ASSUME Loops!Transmitting!Succeed PROVE Transmitting!Succeed
  <2>1. State = "sending" /\ State' = "sent" /\ out = msg /\ out' = out
    BY <1>0, <1>1, <1>7 DEF Loops!Transmitting!Succeed
  <2>2. Written = told /\ Written' = Written /\ told' = told
    BY <1>1, <1>2, <1>4, <1>5, <2>1
  <2> QED
    BY <2>1, <2>2 DEF Transmitting!Succeed, told
<1>8. ASSUME Loops!Transmitting!Fail PROVE Transmitting!Fail
  <2>1. State = "sending" /\ State' = "failed" /\ out' = out
    BY <1>0, <1>1, <1>8 DEF Loops!Transmitting!Fail
  <2>2. Written' = Written /\ told' = told
    BY <1>1, <1>2, <1>5, <2>1
  <2> QED
    BY <2>1, <2>2 DEF Transmitting!Fail, told
<1>9. ASSUME UNCHANGED <<msg, out, Loops!State>>
      PROVE  UNCHANGED Transmitting!tvars
  <2>1. State' = State /\ Written' = Written /\ told' = told
    BY <1>0, <1>1, <1>2, <1>9 DEF told
  <2> QED
    BY <2>1 DEF Transmitting!tvars, told
<1>10. \/ Loops!Transmitting!Send \/ Loops!Transmitting!Succeed
       \/ Loops!Transmitting!Fail \/ UNCHANGED <<msg, out, Loops!State>>
  BY Loops!StepSends, LoopBounds DEF IInv, Steps
<1> QED
  BY <1>6, <1>7, <1>8, <1>9, <1>10 DEF Transmitting!Next

-----------------------------------------------------------------------------
(* Theorems.                                                               *)

(* The invariant holds for any names, texts and sizes of the buffers.      *)
THEOREM LogInvariant == Spec => []IInv
<1>1. Init => IInv
  BY InvInit
<1>2. IInv /\ [Next]_vars => IInv'
  BY NextIs, LogKeeps, LoopKeeps
<1> QED
  BY <1>1, <1>2, PTL DEF Spec

(* _write() never fills more than the six places of v[], and what it is    *)
(* told of the descriptor is at most the longest line.                     *)
THEOREM LogTypeCorrect == Spec => []TypeOK
<1>1. IInv => TypeOK
  BY DEF IInv
<1> QED
  BY <1>1, LogInvariant, PTL

(* Every logging call sends its line: each character once and in order,    *)
(* the text cut to its buffer and trimmed, wherever the kernel stops.      *)
THEOREM LinesSent == Spec => LineSpec
<1>1. Init => Transmitting!Init
  <2> SUFFICES ASSUME Init PROVE Transmitting!Init
    OBVIOUS
  <2>1. rec = NoRecord /\ op = "none" /\ ret = IO!NoRet /\ out = <<>>
    BY DEF Init, IO!Init
  <2>2. State = "idle"
    BY <2>1 DEF State
  <2>3. Written = <<>>
    BY <2>1 DEF Written
  <2> QED
    BY <2>1, <2>2, <2>3 DEF Transmitting!Init
<1>2. IInv => SameState
  BY AbstractIs DEF SameState
<1>3. IInv' => SameState'
  BY <1>2, PTL
<1>4. IInv /\ IInv' /\ [Next]_vars => [Transmitting!Next]_(Transmitting!tvars)
  BY <1>3, NextIs, LogBegins, LoopSends
<1> QED
  BY <1>1, <1>4, LogInvariant, PTL DEF Spec, LineSpec, Transmitting!Spec
=============================================================================
