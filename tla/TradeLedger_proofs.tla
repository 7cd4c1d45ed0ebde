------------------------- MODULE TradeLedger_proofs -------------------------
(***************************************************************************)
(* The ledger of lots is a queue of single shares, for any number of rows   *)
(* and shares: the proof that TradeLedger implements ShareQueue, and its    *)
(* two invariants.  The ledger's operators are recursive functions over     *)
(* sequences; what they do is shown by induction over a set of sequences:   *)
(* one that holds the empty sequence and is closed under Append holds all.  *)
(***************************************************************************)
EXTENDS TradeLedger, SequenceTheorems, WellFoundedInduction, TLAPS

-----------------------------------------------------------------------------
(* Induction.  Stated for a set, so that it can be used without a formula as parameter. *)

\* A set of naturals has a least element.
LEMMA NatMin ==
  ASSUME NEW T \in SUBSET Nat, T # {}
  PROVE  \E m \in T : \A n \in T : m <= n
<1>1. PICK m \in T : \A y \in T : ~ (<<y, m>> \in OpToRel(<, Nat))
  BY NatLessThanWellFounded, WFMin, Zenon
<1>2. \A y \in T : ~ (y < m)
  BY <1>1 DEF OpToRel
<1> QED
  BY <1>2

\* Induction, over a set instead of a formula.
LEMMA NatInd ==
  ASSUME NEW S \in SUBSET Nat, 0 \in S, \A n \in S : n + 1 \in S
  PROVE  S = Nat
<1>1. SUFFICES ASSUME Nat \ S # {} PROVE FALSE
  OBVIOUS
<1>2. PICK m \in Nat \ S : \A n \in Nat \ S : m <= n
  BY <1>1, NatMin, Nat \ S \in SUBSET Nat
<1>3. m - 1 \in S
  BY <1>2
<1> QED
  BY <1>2, <1>3

\* A sequence without its last element.
LEMMA Unappend ==
  ASSUME NEW E, NEW s \in Seq(E), NEW n \in Nat, Len(s) = n + 1
  PROVE  /\ SubSeq(s, 1, n) \in Seq(E) /\ Len(SubSeq(s, 1, n)) = n /\ s[n + 1] \in E
         /\ s = Append(SubSeq(s, 1, n), s[n + 1])
<1>1. SubSeq(s, 1, n) \in Seq(E) /\ Len(SubSeq(s, 1, n)) = n
      /\ \A i \in 1 .. n : SubSeq(s, 1, n)[i] = s[i]
  BY SubSeqProperties
<1>2. s[n + 1] \in E
  BY ElementOfSeq
<1>3. /\ Append(SubSeq(s, 1, n), s[n + 1]) \in Seq(E)
      /\ Len(Append(SubSeq(s, 1, n), s[n + 1])) = n + 1
      /\ \A i \in 1 .. n : Append(SubSeq(s, 1, n), s[n + 1])[i] = s[i]
      /\ Append(SubSeq(s, 1, n), s[n + 1])[n + 1] = s[n + 1]
  BY <1>1, <1>2, AppendProperties
<1>4. s = Append(SubSeq(s, 1, n), s[n + 1])
  BY <1>3, SeqEqual
<1> QED
  BY <1>1, <1>2, <1>4

\* A function on 1 .. n is a sequence.
LEMMA FunctionSeq ==
  ASSUME NEW E, NEW n \in Nat, NEW s \in [1 .. n -> E]
  PROVE  s \in Seq(E) /\ Len(s) = n
<1>1. s \in Seq(E)
  BY SeqDef
<1> QED
  BY <1>1, LenProperties

\* Induction over sequences, from the front.
LEMMA SeqInd ==
  ASSUME NEW E, NEW T \in SUBSET Seq(E), << >> \in T,
         \A s \in T, x \in E : Append(s, x) \in T
  PROVE  T = Seq(E)
<1> DEFINE S == {n \in Nat : \A s \in Seq(E) : Len(s) = n => s \in T}
<1>1. 0 \in S
  BY EmptySeq
<1>2. ASSUME NEW n \in S PROVE n + 1 \in S
  <2>1. ASSUME NEW s \in Seq(E), Len(s) = n + 1 PROVE s \in T
    <3>1. /\ SubSeq(s, 1, n) \in Seq(E) /\ Len(SubSeq(s, 1, n)) = n /\ s[n + 1] \in E
          /\ s = Append(SubSeq(s, 1, n), s[n + 1])
      BY <2>1, Unappend
    <3>2. SubSeq(s, 1, n) \in T
      BY <1>2, <3>1
    <3> QED
      BY <3>1, <3>2
  <2> QED
    BY <2>1
<1>3. S = Nat
  <2> HIDE DEF S
  <2>1. S \in SUBSET Nat
    BY DEF S
  <2> QED
    BY <1>1, <1>2, <2>1, NatInd
<1>4. ASSUME NEW s \in Seq(E) PROVE s \in T
  <2>1. Len(s) \in S
    BY <1>3, LenProperties
  <2> QED
    BY <2>1
<1> QED
  BY <1>4

\* A larger set of elements.
LEMMA SeqWiden ==
  ASSUME NEW E, NEW G, E \subseteq G, NEW q \in Seq(E)
  PROVE  q \in Seq(G)
<1> DEFINE n == Len(q)
<1>1. n \in Nat /\ q \in [1 .. n -> E]
  BY LenProperties
<1> HIDE DEF n
<1>2. q \in [1 .. n -> G]
  BY <1>1
<1> QED
  BY <1>1, <1>2, FunctionSeq

\* No sequence of length zero but the empty one.
LEMMA NoneLeft ==
  ASSUME NEW E, NEW q \in Seq(E), Len(q) = 0
  PROVE  q = << >>
BY EmptySeq

-----------------------------------------------------------------------------
(* Folds: what a recursive function over the elements computes. *)

\* A value folded along a sequence: from b, the step function g applied to the value so
\* far and the next element.
Steps(D, E) == [D \X E -> D]
Trace(D, b, g, q, f) ==
  /\ f \in [0 .. Len(q) -> D]
  /\ f[0] = b
  /\ \A i \in 1 .. Len(q) : f[i] = g[<<f[i - 1], q[i]>>]
Folded(D, b, g, q) == CHOOSE v : \E f : Trace(D, b, g, q, f) /\ v = f[Len(q)]

\* There is such a trace.
LEMMA FoldExists ==
  ASSUME NEW D, NEW E, NEW b \in D, NEW g \in Steps(D, E), NEW q \in Seq(E)
  PROVE  \E f : Trace(D, b, g, q, f)
<1> DEFINE T == {s \in Seq(E) : \E f : Trace(D, b, g, s, f)}
<1>1. << >> \in T
  <2>1. Trace(D, b, g, << >>, [i \in {0} |-> b])
    BY EmptySeq DEF Trace
  <2> QED
    BY <2>1, EmptySeq
<1>2. ASSUME NEW s \in T, NEW x \in E PROVE Append(s, x) \in T
  <2>1. PICK f : Trace(D, b, g, s, f)
    BY <1>2
  <2> DEFINE n == Len(s)
             a == Append(s, x)
             h == [i \in 0 .. n + 1 |-> IF i = n + 1 THEN g[<<f[n], x>>] ELSE f[i]]
  <2>2. n \in Nat /\ s \in Seq(E) /\ a \in Seq(E) /\ Len(a) = n + 1 /\ a[n + 1] = x
        /\ \A i \in 1 .. n : a[i] = s[i]
    BY AppendProperties, LenProperties
  <2> HIDE DEF n, a
  <2>3. f \in [0 .. n -> D] /\ f[n] \in D /\ g[<<f[n], x>>] \in D
    <3>1. f \in [0 .. n -> D]
      BY <2>1 DEF n, Trace
    <3>2. f[n] \in D
      BY <2>2, <3>1
    <3>3. <<f[n], x>> \in D \X E
      BY <3>2
    <3> QED
      BY <3>1, <3>2, <3>3 DEF Steps
  <2>4. h \in [0 .. n + 1 -> D] /\ h[0] = b /\ h[n + 1] = g[<<f[n], x>>]
        /\ \A i \in 0 .. n : h[i] = f[i]
    BY <2>1, <2>2, <2>3 DEF Trace
  <2> HIDE DEF h
  <2>5. ASSUME NEW i \in 1 .. n + 1 PROVE h[i] = g[<<h[i - 1], a[i]>>]
    <3>1. CASE i = n + 1
      <4>1. h[i - 1] = f[n]
        BY <2>2, <2>4, <3>1
      <4>2. h[i] = g[<<f[n], x>>] /\ a[i] = x
        BY <2>2, <2>4, <3>1
      <4> QED
        BY <4>1, <4>2
    <3>2. CASE i # n + 1
      <4>1. i \in 1 .. n /\ i \in 0 .. n /\ i - 1 \in 0 .. n
        BY <2>2, <3>2
      <4>2. f[i] = g[<<f[i - 1], s[i]>>]
        BY <2>1, <4>1 DEF n, Trace
      <4>3. h[i] = f[i] /\ h[i - 1] = f[i - 1] /\ a[i] = s[i]
        BY <2>2, <2>4, <4>1
      <4> QED
        BY <4>2, <4>3
    <3> QED
      BY <3>1, <3>2
  <2>6. Trace(D, b, g, a, h)
    BY <2>2, <2>4, <2>5 DEF Trace
  <2> QED
    BY <2>2, <2>6 DEF a
<1> HIDE DEF T
<1>3. T \in SUBSET Seq(E)
  BY DEF T
<1>4. q \in T
  BY <1>1, <1>2, <1>3, SeqInd
<1> QED
  BY <1>4 DEF T

\* Every trace ends there, and so does whatever satisfies its equations.
LEMMA FoldEnd ==
  ASSUME NEW D, NEW E, NEW b \in D, NEW g \in Steps(D, E), NEW q \in Seq(E)
  PROVE  /\ \E f : Trace(D, b, g, q, f) /\ Folded(D, b, g, q) = f[Len(q)]
         /\ Folded(D, b, g, q) \in D
<1>1. PICK e : Trace(D, b, g, q, e)
  BY FoldExists
<1>2. \E v : \E f : Trace(D, b, g, q, f) /\ v = f[Len(q)]
  BY <1>1, Zenon
<1> DEFINE Is(v) == \E f : Trace(D, b, g, q, f) /\ v = f[Len(q)]
<1>3. Is(CHOOSE v : Is(v))
  BY <1>2, Zenon
<1>5. \E f : Trace(D, b, g, q, f) /\ Folded(D, b, g, q) = f[Len(q)]
  BY <1>3, Zenon DEF Folded
<1>4. Len(q) \in 0 .. Len(q)
  BY LenProperties
<1> QED
  BY <1>4, <1>5 DEF Trace

\* A fold has the type of its steps.
LEMMA FoldType ==
  ASSUME NEW D, NEW E, NEW b \in D, NEW g \in Steps(D, E), NEW q \in Seq(E)
  PROVE  Folded(D, b, g, q) \in D
BY FoldEnd

\* What satisfies the equations of a trace has its values, and ends with the fold.
Follows(D, b, g, q, h) ==
  h[0] = b /\ \A i \in 1 .. Len(q) : h[i - 1] \in D => h[i] = g[<<h[i - 1], q[i]>>]

\* Any function that follows the steps ends with the fold.
LEMMA FoldIs ==
  ASSUME NEW D, NEW E, NEW b \in D, NEW g \in Steps(D, E), NEW q \in Seq(E), NEW h,
         Follows(D, b, g, q, h)
  PROVE  h[Len(q)] = Folded(D, b, g, q)
<1>1. PICK f : Trace(D, b, g, q, f) /\ Folded(D, b, g, q) = f[Len(q)]
  BY FoldEnd
<1> DEFINE n == Len(q)
           S == {m \in Nat : m <= n => f[m] = h[m]}
<1>2. n \in Nat
  BY LenProperties
<1>3. /\ f[0] = b
      /\ \A i \in 1 .. n : f[i] = g[<<f[i - 1], q[i]>>]
      /\ \A i \in 0 .. n : f[i] \in D
  BY <1>1 DEF Trace
<1>4. h[0] = b /\ \A i \in 1 .. n : h[i - 1] \in D => h[i] = g[<<h[i - 1], q[i]>>]
  BY DEF Follows
<1> HIDE DEF n
<1>5. 0 \in S
  BY <1>3, <1>4
<1>6. ASSUME NEW m \in S PROVE m + 1 \in S
  <2>1. SUFFICES ASSUME m + 1 <= n PROVE f[m + 1] = h[m + 1]
    OBVIOUS
  <2>2. m \in Nat /\ m + 1 \in 1 .. n /\ m \in 0 .. n /\ (m + 1) - 1 = m /\ f[m] = h[m]
    BY <1>2, <1>6, <2>1
  <2>3. f[m] \in D
    BY <1>3, <2>2
  <2>4. f[m + 1] = g[<<f[m], q[m + 1]>>] /\ h[m + 1] = g[<<h[m], q[m + 1]>>]
    BY <1>3, <1>4, <2>2, <2>3
  <2> QED
    BY <2>2, <2>4
<1> HIDE DEF S
<1>7. S \in SUBSET Nat
  BY DEF S
<1>8. n \in S
  BY <1>2, <1>5, <1>6, <1>7, NatInd
<1>9. f[n] = h[n]
  BY <1>2, <1>8 DEF S
<1> QED
  BY <1>1, <1>9 DEF n

\* The empty sequence leaves the beginning; one more element is one more step.
LEMMA FoldEmpty ==
  ASSUME NEW D, NEW E, NEW b \in D, NEW g \in Steps(D, E)
  PROVE  Folded(D, b, g, << >>) = b
<1>1. << >> \in Seq(E) /\ Len(<< >>) = 0
  BY EmptySeq
<1>2. PICK f : Trace(D, b, g, << >>, f) /\ Folded(D, b, g, << >>) = f[Len(<< >>)]
  BY <1>1, FoldEnd, Zenon
<1> QED
  BY <1>1, <1>2, Zenon DEF Trace

\* One more element is one more step of the fold.
LEMMA FoldAppend ==
  ASSUME NEW D, NEW E, NEW b \in D, NEW g \in Steps(D, E), NEW q \in Seq(E), NEW x \in E
  PROVE  Folded(D, b, g, Append(q, x)) = g[<<Folded(D, b, g, q), x>>]
<1> DEFINE a == Append(q, x)
           n == Len(q)
<1>1. n \in Nat /\ a \in Seq(E) /\ Len(a) = n + 1 /\ a[n + 1] = x /\ \A i \in 1 .. n : a[i] = q[i]
  BY AppendProperties, LenProperties
<1> HIDE DEF a
<1>2. PICK f : Trace(D, b, g, a, f) /\ Folded(D, b, g, a) = f[Len(a)]
  BY <1>1, FoldEnd, Zenon
<1>3. /\ f[0] = b
      /\ \A i \in 1 .. n + 1 : f[i] = g[<<f[i - 1], a[i]>>]
  BY <1>1, <1>2 DEF Trace
<1>4. ASSUME NEW i \in 1 .. n PROVE f[i] = g[<<f[i - 1], q[i]>>]
  <2>1. i \in 1 .. n + 1
    BY <1>1
  <2> QED
    BY <1>1, <1>3, <2>1
<1>5. Follows(D, b, g, q, f)
  BY <1>3, <1>4 DEF Follows
<1>7. f[n] = Folded(D, b, g, q)
  BY <1>5, FoldIs
<1>6. f[n + 1] = g[<<f[(n + 1) - 1], a[n + 1]>>] /\ (n + 1) - 1 = n
  BY <1>1, <1>3
<1> QED
  BY <1>1, <1>2, <1>6, <1>7 DEF a

-----------------------------------------------------------------------------
(* Sequences changed element by element, and one behind the other. *)

\* A change of every element of a sequence, one by one.
Maps(E, G) == [E -> G]
Mapped(g, q) == [i \in DOMAIN q |-> g[q[i]]]

\* A map keeps the length and gives the elements their new type.
LEMMA MappedParts ==
  ASSUME NEW E, NEW G, NEW g \in Maps(E, G), NEW q \in Seq(E)
  PROVE  /\ Mapped(g, q) \in Seq(G) /\ Len(Mapped(g, q)) = Len(q)
         /\ \A i \in 1 .. Len(q) : Mapped(g, q)[i] = g[q[i]]
<1> DEFINE n == Len(q)
           f == Mapped(g, q)
<1>1. n \in Nat /\ DOMAIN q = 1 .. n
  BY LenProperties
<1>2. \A i \in 1 .. n : q[i] \in E
  BY ElementOfSeq
<1>3. f = [i \in 1 .. n |-> g[q[i]]]
  BY <1>1 DEF Mapped
<1> HIDE DEF n, f
<1>4. f \in [1 .. n -> G] /\ \A i \in 1 .. n : f[i] = g[q[i]]
  BY <1>2, <1>3 DEF Maps
<1>5. f \in Seq(G) /\ Len(f) = n
  BY <1>1, <1>4, FunctionSeq
<1> QED
  BY <1>4, <1>5 DEF n, f

\* A map of nothing is nothing.
LEMMA MappedEmpty ==
  ASSUME NEW g
  PROVE  Mapped(g, << >>) = << >>
<1>1. DOMAIN << >> = {}
  OBVIOUS
<1> QED
  BY <1>1 DEF Mapped

\* A map of one more element ends with its image.
LEMMA MappedAppend ==
  ASSUME NEW E, NEW G, NEW g \in Maps(E, G), NEW q \in Seq(E), NEW x \in E
  PROVE  Mapped(g, Append(q, x)) = Append(Mapped(g, q), g[x])
<1> DEFINE n == Len(q)
           a == Append(q, x)
           f == Mapped(g, q)
           l == Mapped(g, a)
           y == g[x]
           r == Append(f, y)
<1>1. /\ a \in Seq(E) /\ Len(a) = n + 1 /\ a[n + 1] = x
      /\ \A i \in 1 .. n : a[i] = q[i]
  BY AppendProperties
<1>2. n \in Nat
  BY LenProperties
<1>3. y \in G
  BY DEF Maps
<1>4. f \in Seq(G) /\ Len(f) = n /\ \A i \in 1 .. n : f[i] = g[q[i]]
  BY MappedParts
<1> HIDE DEF a
<1>5. l \in Seq(G) /\ Len(l) = n + 1 /\ \A i \in 1 .. n + 1 : l[i] = g[a[i]]
  BY <1>1, MappedParts
<1> HIDE DEF n, f, l
<1>6. /\ r \in Seq(G) /\ Len(r) = n + 1 /\ r[n + 1] = y
      /\ \A i \in 1 .. n : r[i] = f[i]
  BY <1>3, <1>4, AppendProperties
<1> HIDE DEF r
<1>7. ASSUME NEW i \in 1 .. n + 1 PROVE l[i] = r[i]
  <2>1. CASE i = n + 1
    BY <1>1, <1>2, <1>5, <1>6, <2>1
  <2>2. CASE i # n + 1
    <3>1. i \in 1 .. n
      BY <1>2, <2>2
    <3> QED
      BY <1>1, <1>4, <1>5, <1>6, <3>1
  <2> QED
    BY <2>1, <2>2
<1>8. l = r
  BY <1>5, <1>6, <1>7, SeqEqual
<1> QED
  BY <1>8 DEF l, r, a, f

\* The elements of a concatenation, and how to recognise one.
LEMMA ConcatParts ==
  ASSUME NEW E, NEW a \in Seq(E), NEW b \in Seq(E)
  PROVE  /\ a \o b \in Seq(E) /\ Len(a \o b) = Len(a) + Len(b)
         /\ \A i \in 1 .. Len(a) : (a \o b)[i] = a[i]
         /\ \A i \in 1 .. Len(b) : (a \o b)[Len(a) + i] = b[i]
<1>1. /\ a \o b \in Seq(E) /\ Len(a \o b) = Len(a) + Len(b)
      /\ \A i \in 1 .. Len(a) + Len(b) : (a \o b)[i] = IF i <= Len(a) THEN a[i] ELSE b[i - Len(a)]
  BY ConcatProperties
<1> DEFINE m == Len(a)
           k == Len(b)
           c == a \o b
<1>2. m \in Nat /\ k \in Nat
  BY LenProperties
<1>3. \A i \in 1 .. m + k : c[i] = IF i <= m THEN a[i] ELSE b[i - m]
  BY <1>1
<1> HIDE DEF m, k, c
<1>4. \A i \in 1 .. m : c[i] = a[i]
  BY <1>2, <1>3
<1>5. ASSUME NEW i \in 1 .. k PROVE c[m + i] = b[i]
  <2>1. m + i \in 1 .. m + k /\ ~ (m + i <= m) /\ (m + i) - m = i
    BY <1>2
  <2> QED
    BY <1>3, <2>1
<1> QED
  BY <1>1, <1>4, <1>5 DEF m, k, c

\* A sequence that agrees with one and then with the other is their concatenation.
LEMMA IsConcat ==
  ASSUME NEW E, NEW x \in Seq(E), NEW y \in Seq(E), NEW z \in Seq(E),
         Len(x) = Len(y) + Len(z),
         \A i \in 1 .. Len(y) : x[i] = y[i],
         \A i \in 1 .. Len(z) : x[Len(y) + i] = z[i]
  PROVE  x = y \o z
<1>1. /\ y \o z \in Seq(E) /\ Len(y \o z) = Len(y) + Len(z)
      /\ \A i \in 1 .. Len(y) : (y \o z)[i] = y[i]
      /\ \A i \in 1 .. Len(z) : (y \o z)[Len(y) + i] = z[i]
  BY ConcatParts
<1> DEFINE m == Len(y)
           k == Len(z)
           c == y \o z
<1>2. m \in Nat /\ k \in Nat
  BY LenProperties
<1>3. /\ \A i \in 1 .. m : x[i] = c[i]
      /\ \A i \in 1 .. k : x[m + i] = c[m + i]
  BY <1>1
<1> HIDE DEF m, k, c
<1>4. ASSUME NEW i \in 1 .. m + k PROVE x[i] = c[i]
  <2>1. CASE i <= m
    BY <1>2, <1>3, <2>1
  <2>2. CASE i > m
    <3>1. i - m \in 1 .. k /\ m + (i - m) = i
      BY <1>2, <2>2
    <3> QED
      BY <1>3, <3>1
  <2> QED
    BY <1>2, <2>1, <2>2
<1>5. c \in Seq(E) /\ Len(c) = m + k /\ Len(x) = m + k
  BY <1>1 DEF c, m, k
<1>6. x = c
  BY <1>4, <1>5, SeqEqual
<1> QED
  BY <1>6 DEF c

-----------------------------------------------------------------------------
(* The arithmetic of splits. *)

\* Twice as many shares: each lot doubles.
LEMMA DoubleShare ==
  ASSUME NEW r \in Nat, NEW o \in Nat, o > 0
  PROVE  (r * (2 * o)) \div o = 2 * r
<1>1. r * (2 * o) = (2 * r) * o
  OBVIOUS
<1>2. 2 * r \in Nat
  OBVIOUS
<1> DEFINE k == 2 * r
<1>3. k * o \in Nat
  OBVIOUS
<1> HIDE DEF k
<1>4. k \in Nat
  BY <1>2 DEF k
<1>5. (k * o) \div o = k
  BY <1>4
<1> QED
  BY <1>1, <1>5 DEF k

\* Half as many: a lot that comes out whole was even, and halves.
LEMMA HalveShare ==
  ASSUME NEW r \in Nat, NEW h \in Nat, h > 0, (r * h) % (2 * h) = 0
  PROVE  r % 2 = 0 /\ (r * h) \div (2 * h) = r \div 2
<1> DEFINE o == 2 * h
           k == (r * h) \div o
<1>1. r * h \in Nat /\ o \in Nat /\ o > 0
  OBVIOUS
<1> DEFINE x == r * h
<1>2. k \in Nat /\ r * h = (o * k) + ((r * h) % o)
  <2>1. x \in Nat /\ o \in Nat /\ o > 0
    BY <1>1
  <2> HIDE DEF x, o
  <2>2. x \div o \in Nat /\ x = (o * (x \div o)) + (x % o)
    BY <2>1
  <2> QED
    BY <2>2 DEF x
<1>3. r * h = o * k
  BY <1>2
<1>4. r * h = (2 * k) * h
  BY <1>2, <1>3
<1> HIDE DEF k
<1>5. r = 2 * k
  BY <1>2, <1>4
<1> QED
  BY <1>2, <1>5 DEF k, o

-----------------------------------------------------------------------------
(* The operators of the queue, on one queue and on two, one behind the other. *)

\* How many shares go, and how many stay.
LEMMA TakenBounds ==
  ASSUME NEW E, NEW q \in Seq(E), NEW n \in Nat
  PROVE  /\ Shares!Taken(q, n) \in 0 .. Len(q) /\ Shares!Taken(q, n) <= n
         /\ n - Shares!Taken(q, n) \in Nat /\ Len(q) - Shares!Taken(q, n) \in Nat
         /\ Shares!Taken(q, n) < n => Shares!Taken(q, n) = Len(q)
BY LenProperties DEF Shares!Taken

\* The oldest shares, and the rest.
LEMMA OldestParts ==
  ASSUME NEW E, NEW q \in Seq(E), NEW n \in Nat
  PROVE  /\ Shares!Oldest(q, n) \in Seq(E) /\ Len(Shares!Oldest(q, n)) = Shares!Taken(q, n)
         /\ \A i \in 1 .. Shares!Taken(q, n) : Shares!Oldest(q, n)[i] = q[i]
<1> DEFINE t == Shares!Taken(q, n)
           f == Shares!Oldest(q, n)
<1>1. t \in 0 .. Len(q) /\ t \in Nat /\ Len(q) \in Nat
  <2>1. t \in 0 .. Len(q)
    BY TakenBounds
  <2>2. Len(q) \in Nat
    BY LenProperties
  <2> QED
    BY <2>1, <2>2
<1> HIDE DEF t
<1>2. \A i \in 1 .. t : q[i] \in E
  BY <1>1, ElementOfSeq
<1>3. f \in [1 .. t -> E] /\ \A i \in 1 .. t : f[i] = q[i]
  BY <1>2 DEF Shares!Oldest, t
<1> HIDE DEF f
<1>4. f \in Seq(E) /\ Len(f) = t
  BY <1>1, <1>3, FunctionSeq
<1> QED
  BY <1>3, <1>4 DEF t, f

\* The rest, when the oldest shares are gone.
LEMMA LeftParts ==
  ASSUME NEW E, NEW q \in Seq(E), NEW n \in Nat
  PROVE  /\ Shares!Left(q, n) \in Seq(E) /\ Len(Shares!Left(q, n)) = Len(q) - Shares!Taken(q, n)
         /\ \A i \in 1 .. Len(q) - Shares!Taken(q, n) :
              Shares!Left(q, n)[i] = q[Shares!Taken(q, n) + i]
<1> DEFINE t == Shares!Taken(q, n)
           f == Shares!Left(q, n)
           m == Len(q) - t
<1>1. t \in 0 .. Len(q) /\ t \in Nat /\ Len(q) \in Nat /\ m \in Nat
  <2>1. t \in 0 .. Len(q)
    BY TakenBounds
  <2>2. Len(q) \in Nat
    BY LenProperties
  <2> QED
    BY <2>1, <2>2
<1> HIDE DEF t
<1>2. ASSUME NEW i \in 1 .. m PROVE q[t + i] \in E
  <2>1. t + i \in 1 .. Len(q)
    BY <1>1
  <2> QED
    BY <2>1, ElementOfSeq
<1>3. f \in [1 .. m -> E] /\ \A i \in 1 .. m : f[i] = q[t + i]
  BY <1>2 DEF Shares!Left, t
<1> HIDE DEF f, m
<1>4. f \in Seq(E) /\ Len(f) = m
  BY <1>1, <1>3, FunctionSeq
<1> QED
  BY <1>3, <1>4 DEF t, f, m

\* The oldest shares of two queues, one behind the other.
LEMMA TakenConcat ==
  ASSUME NEW E, NEW a \in Seq(E), NEW b \in Seq(E), NEW n \in Nat
  PROVE  Shares!Taken(a \o b, n) = Shares!Taken(a, n) + Shares!Taken(b, n - Shares!Taken(a, n))
<1>1. Len(a \o b) = Len(a) + Len(b)
  BY ConcatProperties
<1>2. Len(a) \in Nat /\ Len(b) \in Nat
  BY LenProperties
<1> DEFINE m == Len(a)
           k == Len(b)
<1> HIDE DEF m, k
<1>3. m \in Nat /\ k \in Nat
  BY <1>2 DEF m, k
<1>4. (IF n < m + k THEN n ELSE m + k)
        = (IF n < m THEN n ELSE m)
          + (IF n - (IF n < m THEN n ELSE m) < k THEN n - (IF n < m THEN n ELSE m) ELSE k)
  <2>1. CASE n < m
    BY <1>3, <2>1
  <2>2. CASE ~ (n < m)
    BY <1>3, <2>2
  <2> QED
    BY <2>1, <2>2
<1> QED
  BY <1>1, <1>4 DEF Shares!Taken, m, k

\* The oldest of two queues, one behind the other: those of the first come first.
LEMMA OldestConcat ==
  ASSUME NEW E, NEW a \in Seq(E), NEW b \in Seq(E), NEW n \in Nat
  PROVE  Shares!Oldest(a \o b, n) = Shares!Oldest(a, n) \o Shares!Oldest(b, n - Shares!Taken(a, n))
<1> DEFINE t == Shares!Taken(a, n)
           r == n - t
           v == Shares!Taken(b, r)
           c == a \o b
           x == Shares!Oldest(c, n)
           y == Shares!Oldest(a, n)
           z == Shares!Oldest(b, r)
           m == Len(a)
           k == Len(b)
<1>1. /\ c \in Seq(E) /\ Len(c) = m + k
      /\ \A i \in 1 .. m : c[i] = a[i]
      /\ \A i \in 1 .. k : c[m + i] = b[i]
  BY ConcatParts
<1>2. m \in Nat /\ k \in Nat
  BY LenProperties
<1>3. t \in 0 .. m /\ r \in Nat /\ (t < n => t = m) /\ t <= n
  BY TakenBounds
<1> HIDE DEF r
<1>4. v \in 0 .. k /\ v <= r
  BY <1>3, TakenBounds
<1>5. Shares!Taken(c, n) = t + v
  BY TakenConcat DEF r
<1> HIDE DEF c
<1>6. x \in Seq(E) /\ Len(x) = t + v /\ \A i \in 1 .. t + v : x[i] = c[i]
  <2>0. c \in Seq(E)
    BY <1>1
  <2>1. /\ x \in Seq(E) /\ Len(x) = Shares!Taken(c, n)
        /\ \A i \in 1 .. Shares!Taken(c, n) : x[i] = c[i]
    BY <2>0, OldestParts
  <2> HIDE DEF t, v, x
  <2> QED
    BY <1>5, <2>1
<1>7. y \in Seq(E) /\ Len(y) = t /\ \A i \in 1 .. t : y[i] = a[i]
  BY OldestParts
<1>8. z \in Seq(E) /\ Len(z) = v /\ \A i \in 1 .. v : z[i] = b[i]
  BY <1>3, OldestParts
<1> HIDE DEF t, v, x, y, z, m, k
<1>9. ASSUME NEW i \in 1 .. t PROVE x[i] = y[i]
  <2>1. i \in 1 .. t + v /\ i \in 1 .. m
    BY <1>2, <1>3, <1>4
  <2> QED
    BY <1>1, <1>6, <1>7, <2>1
<1>10. ASSUME NEW i \in 1 .. v PROVE x[t + i] = z[i]
  <2>1. t + i \in 1 .. t + v /\ i \in 1 .. k /\ t = m
    BY <1>2, <1>3, <1>4 DEF r
  <2>2. c[m + i] = b[i]
    BY <1>1, <2>1
  <2> QED
    BY <1>6, <1>8, <2>1, <2>2
<1>11. x = y \o z
  BY <1>6, <1>7, <1>8, <1>9, <1>10, IsConcat
<1> QED
  BY <1>11 DEF x, y, z, r, t, c

\* What is left of two queues is left of each.
LEMMA LeftConcat ==
  ASSUME NEW E, NEW a \in Seq(E), NEW b \in Seq(E), NEW n \in Nat
  PROVE  Shares!Left(a \o b, n) = Shares!Left(a, n) \o Shares!Left(b, n - Shares!Taken(a, n))
<1> DEFINE t == Shares!Taken(a, n)
           r == n - t
           v == Shares!Taken(b, r)
           c == a \o b
           x == Shares!Left(c, n)
           y == Shares!Left(a, n)
           z == Shares!Left(b, r)
           m == Len(a)
           k == Len(b)
<1>1. /\ c \in Seq(E) /\ Len(c) = m + k
      /\ \A i \in 1 .. m : c[i] = a[i]
      /\ \A i \in 1 .. k : c[m + i] = b[i]
  BY ConcatParts
<1>2. m \in Nat /\ k \in Nat
  BY LenProperties
<1>3. t \in 0 .. m /\ r \in Nat /\ (t < n => t = m) /\ t <= n
  BY TakenBounds
<1> HIDE DEF r
<1>4. v \in 0 .. k /\ v <= r
  BY <1>3, TakenBounds
<1>5. Shares!Taken(c, n) = t + v
  BY TakenConcat DEF r
<1> HIDE DEF c
<1>6. /\ x \in Seq(E) /\ Len(x) = m + k - (t + v)
      /\ \A i \in 1 .. m + k - (t + v) : x[i] = c[t + v + i]
  <2>0. c \in Seq(E)
    BY <1>1
  <2>1. /\ x \in Seq(E) /\ Len(x) = Len(c) - Shares!Taken(c, n)
        /\ \A i \in 1 .. Len(c) - Shares!Taken(c, n) : x[i] = c[Shares!Taken(c, n) + i]
    BY <2>0, LeftParts
  <2> HIDE DEF t, v, x, m, k
  <2>2. Len(c) - Shares!Taken(c, n) = m + k - (t + v)
    BY <1>1, <1>2, <1>3, <1>4, <1>5
  <2>3. \A i \in 1 .. m + k - (t + v) : x[i] = c[(t + v) + i]
    BY <1>5, <2>1, <2>2
  <2>4. \A i \in 1 .. m + k - (t + v) : (t + v) + i = t + v + i
    OBVIOUS
  <2> QED
    BY <2>1, <2>2, <2>3, <2>4
<1>7. y \in Seq(E) /\ Len(y) = m - t /\ \A i \in 1 .. m - t : y[i] = a[t + i]
  BY LeftParts
<1>8. z \in Seq(E) /\ Len(z) = k - v /\ \A i \in 1 .. k - v : z[i] = b[v + i]
  BY <1>3, LeftParts
<1> HIDE DEF t, v, x, y, z, m, k
<1>9. m + k - (t + v) = (m - t) + (k - v)
  BY <1>2, <1>3, <1>4
<1>10. ASSUME NEW i \in 1 .. m - t PROVE x[i] = y[i]
  <2>1. i \in 1 .. m + k - (t + v) /\ t + i \in 1 .. m /\ v = 0 /\ t + v + i = t + i
    BY <1>2, <1>3, <1>4 DEF r
  <2> QED
    BY <1>1, <1>6, <1>7, <2>1
<1>11. ASSUME NEW i \in 1 .. k - v PROVE x[(m - t) + i] = z[i]
  <2>1. /\ (m - t) + i \in 1 .. m + k - (t + v) /\ v + i \in 1 .. k
        /\ t + v + ((m - t) + i) = m + (v + i)
    BY <1>2, <1>3, <1>4
  <2>2. x[(m - t) + i] = c[m + (v + i)]
    BY <1>6, <2>1
  <2>3. c[m + (v + i)] = b[v + i]
    BY <1>1, <2>1
  <2> QED
    BY <1>8, <2>2, <2>3
<1>12. Len(x) = Len(y) + Len(z)
  BY <1>6, <1>7, <1>8, <1>9
<1>13. /\ \A i \in 1 .. Len(y) : x[i] = y[i]
       /\ \A i \in 1 .. Len(z) : x[Len(y) + i] = z[i]
  BY <1>7, <1>8, <1>10, <1>11
<1>14. x = y \o z
  BY <1>6, <1>7, <1>8, <1>12, <1>13, IsConcat
<1> QED
  BY <1>14 DEF x, y, z, r, t, c

\* Every share twice.
LEMMA DoubledParts ==
  ASSUME NEW E, NEW q \in Seq(E)
  PROVE  /\ Shares!Doubled(q) \in Seq(E) /\ Len(Shares!Doubled(q)) = 2 * Len(q)
         /\ \A i \in 1 .. 2 * Len(q) : Shares!Doubled(q)[i] = q[(i + 1) \div 2]
<1> DEFINE n == Len(q)
           f == Shares!Doubled(q)
<1>1. n \in Nat
  BY LenProperties
<1>2. \A i \in 1 .. n : q[i] \in E
  BY ElementOfSeq
<1> HIDE DEF n
<1>3. \A i \in 1 .. 2 * n : (i + 1) \div 2 \in 1 .. n
  BY <1>1
<1>4. f = [i \in 1 .. 2 * n |-> q[(i + 1) \div 2]]
  BY DEF Shares!Doubled, n
<1> HIDE DEF f
<1>5. f \in [1 .. 2 * n -> E] /\ \A i \in 1 .. 2 * n : f[i] = q[(i + 1) \div 2]
  BY <1>2, <1>3, <1>4
<1>6. 2 * n \in Nat
  BY <1>1
<1>7. f \in Seq(E) /\ Len(f) = 2 * n
  BY <1>5, <1>6, FunctionSeq
<1> QED
  BY <1>5, <1>7 DEF n, f

\* Of two queues, one behind the other.
LEMMA DoubledConcat ==
  ASSUME NEW E, NEW a \in Seq(E), NEW b \in Seq(E)
  PROVE  Shares!Doubled(a \o b) = Shares!Doubled(a) \o Shares!Doubled(b)
<1> DEFINE c == a \o b
           m == Len(a)
           k == Len(b)
           x == Shares!Doubled(c)
           y == Shares!Doubled(a)
           z == Shares!Doubled(b)
<1>1. /\ c \in Seq(E) /\ Len(c) = m + k
      /\ \A i \in 1 .. m : c[i] = a[i]
      /\ \A i \in 1 .. k : c[m + i] = b[i]
  BY ConcatParts
<1>2. m \in Nat /\ k \in Nat
  BY LenProperties
<1> HIDE DEF c
<1>3. x \in Seq(E) /\ Len(x) = 2 * (m + k) /\ \A i \in 1 .. 2 * (m + k) : x[i] = c[(i + 1) \div 2]
  BY <1>1, DoubledParts
<1>4. y \in Seq(E) /\ Len(y) = 2 * m /\ \A i \in 1 .. 2 * m : y[i] = a[(i + 1) \div 2]
  BY DoubledParts
<1>5. z \in Seq(E) /\ Len(z) = 2 * k /\ \A i \in 1 .. 2 * k : z[i] = b[(i + 1) \div 2]
  BY DoubledParts
<1> HIDE DEF m, k, x, y, z
<1>6. ASSUME NEW i \in 1 .. 2 * m PROVE x[i] = y[i]
  <2>1. i \in 1 .. 2 * (m + k) /\ (i + 1) \div 2 \in 1 .. m
    BY <1>2
  <2> QED
    BY <1>1, <1>3, <1>4, <2>1
<1>7. ASSUME NEW i \in 1 .. 2 * k PROVE x[2 * m + i] = z[i]
  <2>1. 2 * m + i \in 1 .. 2 * (m + k) /\ (i + 1) \div 2 \in 1 .. k
    BY <1>2
  <2>2. ((2 * m + i) + 1) \div 2 = m + ((i + 1) \div 2)
    BY <1>2
  <2>3. x[2 * m + i] = c[m + ((i + 1) \div 2)]
    BY <1>3, <2>1, <2>2
  <2>4. c[m + ((i + 1) \div 2)] = b[(i + 1) \div 2]
    BY <1>1, <2>1
  <2> QED
    BY <1>5, <2>3, <2>4
<1>8. Len(x) = Len(y) + Len(z)
  BY <1>2, <1>3, <1>4, <1>5
<1>9. /\ \A i \in 1 .. Len(y) : x[i] = y[i]
      /\ \A i \in 1 .. Len(z) : x[Len(y) + i] = z[i]
  BY <1>4, <1>5, <1>6, <1>7
<1>10. x = y \o z
  BY <1>3, <1>4, <1>5, <1>8, <1>9, IsConcat
<1> QED
  BY <1>10 DEF x, y, z, c

\* A queue of pairs has an even length.
LEMMA PairedEven ==
  ASSUME NEW E, NEW q \in Seq(E), Shares!Paired(q)
  PROVE  \E n \in Nat : Len(q) = 2 * n
<1> DEFINE n == Len(q)
<1>1. n \in Nat
  BY LenProperties
<1>2. \A i \in 1 .. n : i % 2 = 1 => i < n
  BY DEF Shares!Paired
<1> HIDE DEF n
<1>3. n % 2 = 0
  BY <1>1, <1>2
<1>4. n \div 2 \in Nat /\ n = 2 * (n \div 2)
  BY <1>1, <1>3
<1> QED
  BY <1>4 DEF n

\* The second of each pair of shares.
LEMMA HalvedParts ==
  ASSUME NEW E, NEW q \in Seq(E), NEW n \in Nat, Len(q) = 2 * n
  PROVE  /\ Shares!Halved(q) \in Seq(E) /\ Len(Shares!Halved(q)) = n
         /\ \A i \in 1 .. n : Shares!Halved(q)[i] = q[2 * i]
<1> DEFINE f == Shares!Halved(q)
<1>1. \A i \in 1 .. 2 * n : q[i] \in E
  BY ElementOfSeq
<1>2. \A i \in 1 .. n : 2 * i \in 1 .. 2 * n
  OBVIOUS
<1>3. Len(q) \div 2 = n
  OBVIOUS
<1>4. f = [i \in 1 .. n |-> q[2 * i]]
  BY <1>3 DEF Shares!Halved
<1> HIDE DEF f
<1>5. f \in [1 .. n -> E] /\ \A i \in 1 .. n : f[i] = q[2 * i]
  BY <1>1, <1>2, <1>4
<1>6. f \in Seq(E) /\ Len(f) = n
  BY <1>5, FunctionSeq
<1> QED
  BY <1>5, <1>6 DEF f

\* Two queues of pairs, one behind the other, are one; each halves on its own.
LEMMA HalvedConcat ==
  ASSUME NEW E, NEW a \in Seq(E), NEW b \in Seq(E), Shares!Paired(a), Shares!Paired(b)
  PROVE  /\ Shares!Paired(a \o b)
         /\ Shares!Halved(a \o b) = Shares!Halved(a) \o Shares!Halved(b)
<1> DEFINE c == a \o b
           x == Shares!Halved(c)
           y == Shares!Halved(a)
           z == Shares!Halved(b)
<1>1. PICK m \in Nat : Len(a) = 2 * m
  BY PairedEven
<1>2. PICK k \in Nat : Len(b) = 2 * k
  BY PairedEven
<1>3. /\ c \in Seq(E) /\ Len(c) = 2 * (m + k)
      /\ \A i \in 1 .. 2 * m : c[i] = a[i]
      /\ \A i \in 1 .. 2 * k : c[2 * m + i] = b[i]
  <2>1. /\ c \in Seq(E) /\ Len(c) = Len(a) + Len(b)
        /\ \A i \in 1 .. Len(a) : c[i] = a[i]
        /\ \A i \in 1 .. Len(b) : c[Len(a) + i] = b[i]
    BY ConcatParts
  <2> HIDE DEF c
  <2> QED
    BY <1>1, <1>2, <2>1
<1> HIDE DEF c
<1>4. Shares!Paired(c)
  <2>1. /\ \A i \in 1 .. 2 * m : i % 2 = 1 => i < 2 * m /\ a[i] = a[i + 1]
        /\ \A i \in 1 .. 2 * k : i % 2 = 1 => i < 2 * k /\ b[i] = b[i + 1]
    BY <1>1, <1>2 DEF Shares!Paired
  <2>2. ASSUME NEW i \in 1 .. 2 * (m + k), i % 2 = 1 PROVE i < 2 * (m + k) /\ c[i] = c[i + 1]
    <3>1. CASE i <= 2 * m
      <4>1. i \in 1 .. 2 * m /\ i < 2 * m
        BY <2>1, <2>2, <3>1
      <4>2. i + 1 \in 1 .. 2 * m
        BY <4>1
      <4> QED
        BY <1>3, <2>1, <2>2, <4>1, <4>2
    <3>2. CASE ~ (i <= 2 * m)
      <4> DEFINE j == i - 2 * m
      <4>1. j \in 1 .. 2 * k /\ j % 2 = 1 /\ 2 * m + j = i
        BY <2>2, <3>2
      <4> HIDE DEF j
      <4>2. j < 2 * k /\ b[j] = b[j + 1]
        BY <2>1, <4>1
      <4>3. j + 1 \in 1 .. 2 * k /\ 2 * m + (j + 1) = i + 1
        BY <4>1, <4>2
      <4>4. c[i] = b[j] /\ c[i + 1] = b[j + 1]
        BY <1>3, <4>1, <4>3
      <4> QED
        BY <4>1, <4>2, <4>4
    <3> QED
      BY <3>1, <3>2
  <2> QED
    BY <1>3, <2>2 DEF Shares!Paired
<1>5. x \in Seq(E) /\ Len(x) = m + k /\ \A i \in 1 .. m + k : x[i] = c[2 * i]
  <2>1. m + k \in Nat
    OBVIOUS
  <2> QED
    BY <1>3, <2>1, HalvedParts
<1>6. y \in Seq(E) /\ Len(y) = m /\ \A i \in 1 .. m : y[i] = a[2 * i]
  BY <1>1, HalvedParts
<1>7. z \in Seq(E) /\ Len(z) = k /\ \A i \in 1 .. k : z[i] = b[2 * i]
  BY <1>2, HalvedParts
<1> HIDE DEF x, y, z
<1>8. ASSUME NEW i \in 1 .. m PROVE x[i] = y[i]
  <2>1. i \in 1 .. m + k /\ 2 * i \in 1 .. 2 * m
    OBVIOUS
  <2> QED
    BY <1>3, <1>5, <1>6, <2>1
<1>9. ASSUME NEW i \in 1 .. k PROVE x[m + i] = z[i]
  <2>1. m + i \in 1 .. m + k /\ 2 * i \in 1 .. 2 * k /\ 2 * (m + i) = 2 * m + 2 * i
    OBVIOUS
  <2>2. x[m + i] = c[2 * m + 2 * i]
    BY <1>5, <2>1
  <2>3. c[2 * m + 2 * i] = b[2 * i]
    BY <1>3, <2>1
  <2> QED
    BY <1>7, <2>2, <2>3
<1>10. x = y \o z
  BY <1>5, <1>6, <1>7, <1>8, <1>9, IsConcat
<1> QED
  BY <1>4, <1>10 DEF x, y, z, c

-----------------------------------------------------------------------------
(* Lots: the operators of the ledger as folds. *)

\* Lots of the cycles C, single shares, and what a row has done to some lots.
LotSet(C) == [id : Nat, remaining : Nat \ {0}, known : BOOLEAN, cycle : C]
Share == [from : Nat, known : BOOLEAN]
Passes(C) == [left : Nat, kept : Seq(LotSet(C)), taken : Seq(LotSet(C))]

\* The steps of the three folds of the ledger.
AddLot(C)   == [p \in Nat \X LotSet(C) |-> p[1] + p[2].remaining]
ListLot(C)  == [p \in Seq(Share) \X LotSet(C) |-> p[1] \o SharesOf(p[2])]
ServeLot(C) == [p \in Passes(C) \X LotSet(C) |-> Served(p[1], p[2])]

\* The fields of a lot.
LEMMA LotParts ==
  ASSUME NEW C, NEW lot \in LotSet(C)
  PROVE  /\ lot.id \in Nat /\ lot.remaining \in Nat /\ lot.remaining > 0
         /\ lot.known \in BOOLEAN /\ lot.cycle \in C
BY DEF LotSet

\* What is held is the fold of the lots' shares.
LEMMA HeldIsFold ==
  ASSUME NEW C, NEW ls \in Seq(LotSet(C))
  PROVE  /\ AddLot(C) \in Steps(Nat, LotSet(C))
         /\ Held(ls) = Folded(Nat, 0, AddLot(C), ls)
<1> DEFINE g == AddLot(C)
           n == Len(ls)
           Sum(f) == f = [i \in 0 .. n |-> IF i = 0 THEN 0 ELSE f[i - 1] + ls[i].remaining]
           h == CHOOSE f : Sum(f)
<1>1. g \in Steps(Nat, LotSet(C))
  BY LotParts DEF AddLot, Steps
<1>2. n \in Nat /\ \A i \in 1 .. n : ls[i] \in LotSet(C)
  BY LenProperties, ElementOfSeq
<1>3. PICK f : Trace(Nat, 0, g, ls, f)
  BY <1>1, FoldExists
<1>4. Sum(f)
  <2>1. f \in [0 .. n -> Nat] /\ f[0] = 0 /\ \A i \in 1 .. n : f[i] = g[<<f[i - 1], ls[i]>>]
    BY <1>3 DEF Trace
  <2>2. ASSUME NEW i \in 1 .. n PROVE f[i] = f[i - 1] + ls[i].remaining
    <3>1. f[i - 1] \in Nat /\ ls[i] \in LotSet(C) /\ f[i] = g[<<f[i - 1], ls[i]>>]
      BY <1>2, <2>1
    <3> QED
      BY <3>1 DEF AddLot
  <2> QED
    BY <1>2, <2>1, <2>2
<1>5. Sum(h)
  BY <1>4, Zenon
<1>6. Held(ls) = h[n]
  BY Zenon DEF Held
<1> HIDE DEF h, n
<1>7. h[0] = 0 /\ \A i \in 1 .. n : h[i] = h[i - 1] + ls[i].remaining
  <2>1. \A i \in 0 .. n : h[i] = IF i = 0 THEN 0 ELSE h[i - 1] + ls[i].remaining
    BY <1>5, Zenon
  <2> QED
    BY <1>2, <2>1
<1>8. Follows(Nat, 0, g, ls, h)
  <2>1. ASSUME NEW i \in 1 .. n, h[i - 1] \in Nat PROVE h[i] = g[<<h[i - 1], ls[i]>>]
    BY <1>2, <1>7, <2>1 DEF AddLot
  <2> QED
    BY <1>7, <2>1 DEF Follows, n
<1> HIDE DEF g
<1>9. h[Len(ls)] = Folded(Nat, 0, g, ls)
  BY <1>1, <1>8, FoldIs
<1> QED
  BY <1>1, <1>6, <1>9 DEF n, g

\* Nothing held without lots; one more lot adds its shares.
LEMMA HeldEmpty == Held(<< >>) = 0
<1> DEFINE g == AddLot(Nat)
<1>1. << >> \in Seq(LotSet(Nat)) /\ 0 \in Nat
  BY EmptySeq
<1>2. g \in Steps(Nat, LotSet(Nat)) /\ Held(<< >>) = Folded(Nat, 0, g, << >>)
  BY <1>1, HeldIsFold
<1> HIDE DEF g
<1>3. Folded(Nat, 0, g, << >>) = 0
  BY <1>1, <1>2, FoldEmpty, Zenon
<1> QED
  BY <1>2, <1>3

\* One more lot adds its shares.
LEMMA HeldAppend ==
  ASSUME NEW C, NEW ls \in Seq(LotSet(C)), NEW lot \in LotSet(C)
  PROVE  Held(ls) \in Nat /\ Held(Append(ls, lot)) = Held(ls) + lot.remaining
<1> DEFINE g == AddLot(C)
<1>1. g \in Steps(Nat, LotSet(C)) /\ Held(ls) = Folded(Nat, 0, g, ls)
  BY HeldIsFold
<1>2. Append(ls, lot) \in Seq(LotSet(C))
  BY AppendProperties
<1>3. Held(Append(ls, lot)) = Folded(Nat, 0, g, Append(ls, lot))
  BY <1>2, HeldIsFold
<1> HIDE DEF g
<1>4. Held(ls) \in Nat
  BY <1>1, FoldType
<1>5. g[<<Held(ls), lot>>] = Held(ls) + lot.remaining
  BY <1>4 DEF AddLot, g
<1>6. Folded(Nat, 0, g, Append(ls, lot)) = g[<<Folded(Nat, 0, g, ls), lot>>]
  BY <1>1, FoldAppend
<1> QED
  BY <1>1, <1>3, <1>4, <1>5, <1>6

\* What is held is a number.
LEMMA HeldType == ASSUME NEW C, NEW ls \in Seq(LotSet(C)) PROVE Held(ls) \in Nat
<1> DEFINE g == AddLot(C)
<1>1. g \in Steps(Nat, LotSet(C)) /\ Held(ls) = Folded(Nat, 0, g, ls) /\ 0 \in Nat
  BY HeldIsFold
<1> HIDE DEF g
<1> QED
  BY <1>1, FoldType

\* The shares of a lot.
LEMMA SharesOfLot ==
  ASSUME NEW C, NEW lot \in LotSet(C)
  PROVE  /\ SharesOf(lot) \in Seq(Share) /\ Len(SharesOf(lot)) = lot.remaining
         /\ \A k \in 1 .. lot.remaining : SharesOf(lot)[k] = [from |-> lot.id, known |-> lot.known]
<1>1. lot.remaining \in Nat /\ [from |-> lot.id, known |-> lot.known] \in Share
  BY LotParts DEF Share
<1>2. /\ SharesOf(lot) \in [1 .. lot.remaining -> Share]
      /\ \A k \in 1 .. lot.remaining : SharesOf(lot)[k] = [from |-> lot.id, known |-> lot.known]
  BY <1>1 DEF SharesOf
<1> QED
  BY <1>1, <1>2, FunctionSeq

\* The single shares are the fold of the lots' shares.
LEMMA UnitsIsFold ==
  ASSUME NEW C, NEW ls \in Seq(LotSet(C))
  PROVE  /\ ListLot(C) \in Steps(Seq(Share), LotSet(C))
         /\ Units(ls) = Folded(Seq(Share), << >>, ListLot(C), ls)
<1> DEFINE g == ListLot(C)
           n == Len(ls)
           List(f) == f = [i \in 0 .. n |-> IF i = 0 THEN << >> ELSE f[i - 1] \o SharesOf(ls[i])]
           h == CHOOSE f : List(f)
           D == Seq(Share)
           b == << >>
<1>0. b \in D
  BY EmptySeq
<1>1. g \in Steps(Seq(Share), LotSet(C))
  <2>1. ASSUME NEW q \in Seq(Share), NEW lot \in LotSet(C) PROVE q \o SharesOf(lot) \in Seq(Share)
    BY SharesOfLot, ConcatProperties
  <2> QED
    BY <2>1 DEF ListLot, Steps
<1>2. n \in Nat /\ \A i \in 1 .. n : ls[i] \in LotSet(C)
  BY LenProperties, ElementOfSeq
<1> HIDE DEF D, b, n
<1>3. PICK f : Trace(D, b, g, ls, f)
  BY <1>0, <1>1, FoldExists DEF D
<1>4. List(f)
  <2>1. /\ f \in [0 .. n -> D] /\ f[0] = b
        /\ \A i \in 1 .. n : f[i] = g[<<f[i - 1], ls[i]>>]
    BY <1>3 DEF Trace, n
  <2>2. ASSUME NEW i \in 1 .. n PROVE f[i] = f[i - 1] \o SharesOf(ls[i])
    <3>1. f[i - 1] \in D /\ ls[i] \in LotSet(C) /\ f[i] = g[<<f[i - 1], ls[i]>>]
      BY <1>2, <2>1
    <3> QED
      BY <3>1 DEF ListLot, D
  <2>3. f = [i \in 0 .. n |-> IF i = 0 THEN b ELSE f[i - 1] \o SharesOf(ls[i])]
    BY <1>2, <2>1, <2>2
  <2> QED
    BY <2>3 DEF b
<1>5. List(h)
  BY <1>4, Zenon
<1>6. Units(ls) = h[n]
  BY Zenon DEF Units, n
<1> HIDE DEF h
<1>7. h[0] = b /\ \A i \in 1 .. n : h[i] = h[i - 1] \o SharesOf(ls[i])
  <2>1. \A i \in 0 .. n : h[i] = IF i = 0 THEN b ELSE h[i - 1] \o SharesOf(ls[i])
    BY <1>5, Zenon DEF b
  <2>2. h[0] = b
    BY <1>2, <2>1
  <2>3. ASSUME NEW i \in 1 .. n PROVE h[i] = h[i - 1] \o SharesOf(ls[i])
    <3>1. i \in 0 .. n /\ i # 0
      BY <1>2
    <3> QED
      BY <2>1, <3>1, Zenon
  <2> QED
    BY <2>2, <2>3
<1>8. Follows(D, b, g, ls, h)
  <2>1. ASSUME NEW i \in 1 .. n, h[i - 1] \in D PROVE h[i] = g[<<h[i - 1], ls[i]>>]
    BY <1>2, <1>7, <2>1 DEF ListLot, D
  <2> QED
    BY <1>7, <2>1 DEF Follows, n
<1> HIDE DEF g
<1>9. h[Len(ls)] = Folded(D, b, g, ls)
  BY <1>0, <1>1, <1>8, FoldIs DEF D
<1> QED
  BY <1>1, <1>6, <1>9 DEF n, g, D, b

\* No shares without lots; one more lot comes last.
LEMMA UnitsEmpty == Units(<< >>) = << >>
<1> DEFINE g == ListLot(Nat)
<1>1. << >> \in Seq(LotSet(Nat)) /\ << >> \in Seq(Share)
  BY EmptySeq
<1>2. g \in Steps(Seq(Share), LotSet(Nat)) /\ Units(<< >>) = Folded(Seq(Share), << >>, g, << >>)
  BY <1>1, UnitsIsFold
<1> HIDE DEF g
<1>3. Folded(Seq(Share), << >>, g, << >>) = << >>
  BY <1>1, <1>2, FoldEmpty, Zenon
<1> QED
  BY <1>2, <1>3

\* The shares of one more lot come last.
LEMMA UnitsAppend ==
  ASSUME NEW C, NEW ls \in Seq(LotSet(C)), NEW lot \in LotSet(C)
  PROVE  Units(ls) \in Seq(Share) /\ Units(Append(ls, lot)) = Units(ls) \o SharesOf(lot)
<1> DEFINE g == ListLot(C)
           D == Seq(Share)
           b == << >>
<1>0. b \in D
  BY EmptySeq
<1>1. g \in Steps(D, LotSet(C)) /\ Units(ls) = Folded(D, b, g, ls)
  BY UnitsIsFold
<1>2. Append(ls, lot) \in Seq(LotSet(C))
  BY AppendProperties
<1>3. Units(Append(ls, lot)) = Folded(D, b, g, Append(ls, lot))
  BY <1>2, UnitsIsFold
<1> HIDE DEF g, D, b
<1>4. Units(ls) \in D
  BY <1>0, <1>1, FoldType
<1>5. g[<<Units(ls), lot>>] = Units(ls) \o SharesOf(lot)
  BY <1>4 DEF ListLot, D, g
<1>6. Folded(D, b, g, Append(ls, lot)) = g[<<Folded(D, b, g, ls), lot>>]
  BY <1>0, <1>1, FoldAppend
<1> QED
  BY <1>1, <1>3, <1>4, <1>5, <1>6 DEF D

\* The units of lots have a type.
LEMMA UnitsType ==
  ASSUME NEW C, NEW ls \in Seq(LotSet(C))
  PROVE  Units(ls) \in Seq(Share)
<1>1. << >> \in Seq(Share)
  BY EmptySeq
<1>2. /\ ListLot(C) \in Steps(Seq(Share), LotSet(C))
      /\ Units(ls) = Folded(Seq(Share), << >>, ListLot(C), ls)
  BY UnitsIsFold
<1> DEFINE D == Seq(Share)
           b == << >>
<1> HIDE DEF D, b
<1>3. Folded(D, b, ListLot(C), ls) \in D
  BY <1>1, <1>2, FoldType DEF D, b
<1> QED
  BY <1>2, <1>3 DEF D, b

\* The shares one by one are as many as are held.
LEMMA HeldUnits ==
  ASSUME NEW C, NEW ls \in Seq(LotSet(C))
  PROVE  Held(ls) = Len(Units(ls))
<1> DEFINE E == LotSet(C)
           T == {q \in Seq(E) : Held(q) = Len(Units(q))}
<1>1. << >> \in T
  <2>1. << >> \in Seq(E) /\ Len(<< >>) = 0
    BY EmptySeq
  <2> QED
    BY <2>1, HeldEmpty, UnitsEmpty
<1>2. ASSUME NEW q \in T, NEW lot \in E PROVE Append(q, lot) \in T
  <2> DEFINE a == Append(q, lot)
  <2>1. q \in Seq(E) /\ a \in Seq(E) /\ Held(q) = Len(Units(q))
    BY AppendProperties
  <2>2. Held(a) = Held(q) + lot.remaining
    BY <2>1, HeldAppend
  <2>3. Units(q) \in Seq(Share) /\ Units(a) = Units(q) \o SharesOf(lot)
    BY <2>1, UnitsAppend
  <2>4. SharesOf(lot) \in Seq(Share) /\ Len(SharesOf(lot)) = lot.remaining
    BY SharesOfLot
  <2>5. Len(Units(q) \o SharesOf(lot)) = Len(Units(q)) + Len(SharesOf(lot))
    BY <2>3, <2>4, ConcatProperties
  <2> HIDE DEF a
  <2>6. Held(a) = Len(Units(a))
    BY <2>1, <2>2, <2>3, <2>4, <2>5
  <2> QED
    BY <2>1, <2>6 DEF a
<1> HIDE DEF T
<1>3. T \in SUBSET Seq(E)
  BY DEF T
<1>4. ls \in T
  BY <1>1, <1>2, <1>3, SeqInd
<1> QED
  BY <1>4 DEF T

\* A row before its first lot.
Whole(n) == [left |-> n, kept |-> << >>, taken |-> << >>]

\* The fields of a pass over lots.
LEMMA PassParts ==
  ASSUME NEW C, NEW p \in Passes(C)
  PROVE  p.left \in Nat /\ p.kept \in Seq(LotSet(C)) /\ p.taken \in Seq(LotSet(C))
BY DEF Passes

\* Part of a lot, as a sequence of one or none.
PartOf(lot, n) == IF n > 0 THEN << [lot EXCEPT !.remaining = n] >> ELSE << >>

\* A part is a lot.
LEMMA PartTyped ==
  ASSUME NEW C, NEW lot \in LotSet(C), NEW n \in Nat
  PROVE  PartOf(lot, n) \in Seq(LotSet(C))
<1>1. CASE n > 0
  <2>1. [lot EXCEPT !.remaining = n] \in LotSet(C)
    BY <1>1 DEF LotSet
  <2> QED
    BY <1>1, <2>1 DEF PartOf
<1>2. CASE ~ (n > 0)
  BY <1>2, EmptySeq DEF PartOf
<1> QED
  BY <1>1, <1>2

\* What one lot serves.
LEMMA ServedParts ==
  ASSUME NEW C, NEW p \in Passes(C), NEW lot \in LotSet(C)
  PROVE  LET consumed == Least(lot.remaining, p.left)
         IN  /\ consumed \in 0 .. lot.remaining
             /\ Served(p, lot) \in Passes(C)
             /\ Served(p, lot).left = p.left - consumed
             /\ Served(p, lot).kept = p.kept \o PartOf(lot, lot.remaining - consumed)
             /\ Served(p, lot).taken = p.taken \o PartOf(lot, consumed)
<1> DEFINE consumed == Least(lot.remaining, p.left)
           kept == p.kept \o PartOf(lot, lot.remaining - consumed)
           taken == p.taken \o PartOf(lot, consumed)
<1>1. /\ lot.remaining \in Nat /\ p.left \in Nat
      /\ p.kept \in Seq(LotSet(C)) /\ p.taken \in Seq(LotSet(C))
  BY LotParts, PassParts
<1>2. /\ consumed \in Nat /\ consumed \in 0 .. lot.remaining
      /\ lot.remaining - consumed \in Nat /\ p.left - consumed \in Nat
  BY <1>1 DEF Least
<1>3. Served(p, lot) = [left |-> p.left - consumed, kept |-> kept, taken |-> taken]
  BY DEF Served, PartOf
<1> HIDE DEF consumed
<1>4. kept \in Seq(LotSet(C)) /\ taken \in Seq(LotSet(C))
  BY <1>1, <1>2, PartTyped, ConcatProperties
<1> HIDE DEF kept, taken
<1>5. Served(p, lot) \in Passes(C)
  BY <1>2, <1>3, <1>4 DEF Passes
<1>6. /\ Served(p, lot).left = p.left - consumed
      /\ Served(p, lot).kept = kept
      /\ Served(p, lot).taken = taken
  BY <1>3
<1> QED
  BY <1>2, <1>5, <1>6 DEF consumed, kept, taken

\* Nothing is served before the first lot.
LEMMA WholeTyped == ASSUME NEW C, NEW n \in Nat PROVE Whole(n) \in Passes(C)
BY EmptySeq DEF Whole, Passes

\* What a row consumes is the fold of what each lot serves.
LEMMA ConsumptionIsFold ==
  ASSUME NEW C, NEW ls \in Seq(LotSet(C)), NEW m \in Nat
  PROVE  /\ ServeLot(C) \in Steps(Passes(C), LotSet(C))
         /\ Consumption(m, ls) = Folded(Passes(C), Whole(m), ServeLot(C), ls)
<1> DEFINE g == ServeLot(C)
           n == Len(ls)
           Pass(f) == f = [i \in 0 .. n |->
                             IF i = 0 THEN [left |-> m, kept |-> << >>, taken |-> << >>]
                                      ELSE Served(f[i - 1], ls[i])]
           h == CHOOSE f : Pass(f)
           D == Passes(C)
           b == Whole(m)
<1>0. b \in D
  BY WholeTyped
<1>1. g \in Steps(Passes(C), LotSet(C))
  BY ServedParts DEF ServeLot, Steps
<1>2. n \in Nat /\ \A i \in 1 .. n : ls[i] \in LotSet(C)
  BY LenProperties, ElementOfSeq
<1> HIDE DEF D, b, n
<1>3. PICK f : Trace(D, b, g, ls, f)
  BY <1>0, <1>1, FoldExists DEF D
<1>4. Pass(f)
  <2>1. /\ f \in [0 .. n -> D] /\ f[0] = b
        /\ \A i \in 1 .. n : f[i] = g[<<f[i - 1], ls[i]>>]
    BY <1>3 DEF Trace, n
  <2>2. ASSUME NEW i \in 1 .. n PROVE f[i] = Served(f[i - 1], ls[i])
    <3>1. f[i - 1] \in D /\ ls[i] \in LotSet(C) /\ f[i] = g[<<f[i - 1], ls[i]>>]
      BY <1>2, <2>1
    <3> QED
      BY <3>1 DEF ServeLot, D
  <2>3. f = [i \in 0 .. n |-> IF i = 0 THEN b ELSE Served(f[i - 1], ls[i])]
    BY <1>2, <2>1, <2>2
  <2> QED
    BY <2>3, Zenon DEF b, Whole
<1>5. Pass(h)
  BY <1>4, Zenon
<1>6. Consumption(m, ls) = h[n]
  BY Zenon DEF Consumption, n
<1> HIDE DEF h
<1>7. h[0] = b /\ \A i \in 1 .. n : h[i] = Served(h[i - 1], ls[i])
  <2>1. \A i \in 0 .. n : h[i] = IF i = 0 THEN b ELSE Served(h[i - 1], ls[i])
    BY <1>5, Zenon DEF b, Whole
  <2>2. h[0] = b
    BY <1>2, <2>1
  <2>3. ASSUME NEW i \in 1 .. n PROVE h[i] = Served(h[i - 1], ls[i])
    <3>1. i \in 0 .. n /\ i # 0
      BY <1>2
    <3> QED
      BY <2>1, <3>1, Zenon
  <2> QED
    BY <2>2, <2>3
<1>8. Follows(D, b, g, ls, h)
  <2>1. ASSUME NEW i \in 1 .. n, h[i - 1] \in D PROVE h[i] = g[<<h[i - 1], ls[i]>>]
    BY <1>2, <1>7, <2>1 DEF ServeLot, D
  <2> QED
    BY <1>7, <2>1 DEF Follows, n
<1> HIDE DEF g
<1>9. h[Len(ls)] = Folded(D, b, g, ls)
  BY <1>0, <1>1, <1>8, FoldIs DEF D
<1> QED
  BY <1>1, <1>6, <1>9 DEF n, g, D, b

\* Without lots all is left; one more lot serves what is left.
LEMMA ConsumptionEmpty == ASSUME NEW n \in Nat PROVE Consumption(n, << >>) = Whole(n)
<1> DEFINE g == ServeLot(Nat)
           D == Passes(Nat)
           b == Whole(n)
<1>1. << >> \in Seq(LotSet(Nat)) /\ b \in D
  BY EmptySeq, WholeTyped
<1>2. g \in Steps(D, LotSet(Nat)) /\ Consumption(n, << >>) = Folded(D, b, g, << >>)
  BY <1>1, ConsumptionIsFold
<1> HIDE DEF g, D, b
<1>3. Folded(D, b, g, << >>) = b
  BY <1>1, <1>2, FoldEmpty, Zenon
<1> QED
  BY <1>2, <1>3 DEF b

\* One more lot serves what the others left.
LEMMA ConsumptionAppend ==
  ASSUME NEW C, NEW ls \in Seq(LotSet(C)), NEW lot \in LotSet(C), NEW n \in Nat
  PROVE  /\ Consumption(n, ls) \in Passes(C)
         /\ Consumption(n, Append(ls, lot)) = Served(Consumption(n, ls), lot)
<1> DEFINE g == ServeLot(C)
           D == Passes(C)
           b == Whole(n)
<1>0. b \in D
  BY WholeTyped
<1>1. g \in Steps(D, LotSet(C)) /\ Consumption(n, ls) = Folded(D, b, g, ls)
  BY ConsumptionIsFold
<1>2. Append(ls, lot) \in Seq(LotSet(C))
  BY AppendProperties
<1>3. Consumption(n, Append(ls, lot)) = Folded(D, b, g, Append(ls, lot))
  BY <1>2, ConsumptionIsFold
<1> HIDE DEF g, D, b
<1>4. Consumption(n, ls) \in D
  BY <1>0, <1>1, FoldType
<1>5. g[<<Consumption(n, ls), lot>>] = Served(Consumption(n, ls), lot)
  BY <1>4 DEF ServeLot, D, g
<1>6. Folded(D, b, g, Append(ls, lot)) = g[<<Folded(D, b, g, ls), lot>>]
  BY <1>0, <1>1, FoldAppend
<1> QED
  BY <1>1, <1>3, <1>4, <1>5, <1>6 DEF D

-----------------------------------------------------------------------------
(* What a row takes from the lots is what it takes from their shares. *)

\* Some shares of a lot.
Block(lot, n) == [k \in 1 .. n |-> [from |-> lot.id, known |-> lot.known]]

\* They are shares, all alike.
LEMMA BlockParts ==
  ASSUME NEW C, NEW lot \in LotSet(C), NEW n \in Nat
  PROVE  /\ Block(lot, n) \in Seq(Share) /\ Len(Block(lot, n)) = n
         /\ \A k \in 1 .. n : Block(lot, n)[k] = [from |-> lot.id, known |-> lot.known]
<1>1. [from |-> lot.id, known |-> lot.known] \in Share
  BY LotParts DEF Share
<1>2. /\ Block(lot, n) \in [1 .. n -> Share]
      /\ \A k \in 1 .. n : Block(lot, n)[k] = [from |-> lot.id, known |-> lot.known]
  BY <1>1 DEF Block
<1> QED
  BY <1>2, FunctionSeq

\* A part of a lot adds that many shares.
LEMMA PartUnits ==
  ASSUME NEW C, NEW q \in Seq(LotSet(C)), NEW lot \in LotSet(C), NEW n \in Nat
  PROVE  Units(q \o PartOf(lot, n)) = Units(q) \o Block(lot, n)
<1>1. CASE n > 0
  <2> DEFINE x == [lot EXCEPT !.remaining = n]
  <2>1. x \in LotSet(C) /\ x.remaining = n /\ x.id = lot.id /\ x.known = lot.known
    BY <1>1 DEF LotSet
  <2>2. SharesOf(x) = Block(lot, n)
    BY <2>1 DEF SharesOf, Block
  <2>3. PartOf(lot, n) = << x >>
    BY <1>1 DEF PartOf
  <2> HIDE DEF x
  <2>4. q \o << x >> = Append(q, x)
    BY <2>1, AppendIsConcat
  <2>5. Units(Append(q, x)) = Units(q) \o SharesOf(x)
    BY <2>1, UnitsAppend
  <2> QED
    BY <2>2, <2>3, <2>4, <2>5
<1>2. CASE ~ (n > 0)
  <2>1. PartOf(lot, n) = << >>
    BY <1>2 DEF PartOf
  <2>2. Block(lot, n) \in Seq(Share) /\ Len(Block(lot, n)) = 0
    <3>1. n = 0
      BY <1>2
    <3> QED
      BY <3>1, BlockParts
  <2>3. Block(lot, n) = << >>
    BY <2>2, EmptySeq
  <2>4. q \o << >> = q
    BY ConcatEmptySeq
  <2>5. Units(q) \o << >> = Units(q)
    BY UnitsType, ConcatEmptySeq
  <2> QED
    BY <2>1, <2>3, <2>4, <2>5
<1> QED
  BY <1>1, <1>2

\* What a row takes from the shares of one lot.
LEMMA LotTaken ==
  ASSUME NEW C, NEW lot \in LotSet(C), NEW n \in Nat
  PROVE  LET consumed == Least(lot.remaining, n)
         IN  /\ Shares!Taken(SharesOf(lot), n) = consumed
             /\ Shares!Oldest(SharesOf(lot), n) = Block(lot, consumed)
             /\ Shares!Left(SharesOf(lot), n) = Block(lot, lot.remaining - consumed)
<1> DEFINE s == SharesOf(lot)
           c == Least(lot.remaining, n)
           r == lot.remaining
           x == [from |-> lot.id, known |-> lot.known]
<1>1. s \in Seq(Share) /\ Len(s) = r /\ \A k \in 1 .. r : s[k] = x
  BY SharesOfLot
<1>2. r \in Nat /\ c \in 0 .. r /\ r - c \in Nat
  BY LotParts DEF Least
<1>3. Shares!Taken(s, n) = c
  BY <1>1, <1>2 DEF Shares!Taken, Least
<1> HIDE DEF s, c, r, x
<1>4. /\ Shares!Oldest(s, n) = [i \in 1 .. c |-> s[i]]
      /\ Shares!Left(s, n) = [i \in 1 .. r - c |-> s[c + i]]
  BY <1>1, <1>3 DEF Shares!Oldest, Shares!Left
<1>5. (\A i \in 1 .. c : s[i] = x) /\ (\A i \in 1 .. r - c : s[c + i] = x)
  BY <1>1, <1>2
<1>6. /\ [i \in 1 .. c |-> s[i]] = [i \in 1 .. c |-> x]
      /\ [i \in 1 .. r - c |-> s[c + i]] = [i \in 1 .. r - c |-> x]
  BY <1>5
<1>7. Block(lot, c) = [i \in 1 .. c |-> x] /\ Block(lot, r - c) = [i \in 1 .. r - c |-> x]
  BY DEF Block, x
<1> QED
  BY <1>3, <1>4, <1>6, <1>7 DEF s, c, r

\* A row takes the oldest shares of the lots, leaves the others and misses the rest.
LEMMA ConsumptionUnits ==
  ASSUME NEW C, NEW ls \in Seq(LotSet(C)), NEW n \in Nat
  PROVE  /\ Consumption(n, ls) \in Passes(C)
         /\ Consumption(n, ls).left = n - Shares!Taken(Units(ls), n)
         /\ Units(Consumption(n, ls).kept) = Shares!Left(Units(ls), n)
         /\ Units(Consumption(n, ls).taken) = Shares!Oldest(Units(ls), n)
<1> DEFINE Right(q) == /\ Consumption(n, q) \in Passes(C)
                       /\ Consumption(n, q).left = n - Shares!Taken(Units(q), n)
                       /\ Units(Consumption(n, q).kept) = Shares!Left(Units(q), n)
                       /\ Units(Consumption(n, q).taken) = Shares!Oldest(Units(q), n)
           T == {q \in Seq(LotSet(C)) : Right(q)}
<1>1. << >> \in T
  <2>1. << >> \in Seq(LotSet(C)) /\ << >> \in Seq(Share) /\ Len(<< >>) = 0
    BY EmptySeq
  <2>2. Consumption(n, << >>) = Whole(n) /\ Whole(n) \in Passes(C)
    BY ConsumptionEmpty, WholeTyped
  <2>3. Whole(n).left = n /\ Whole(n).kept = << >> /\ Whole(n).taken = << >>
    BY DEF Whole
  <2>4. Shares!Taken(<< >>, n) = 0
    BY <2>1 DEF Shares!Taken
  <2> DEFINE z == << >>
  <2>5. z \in Seq(Share) /\ Len(z) = 0 /\ Shares!Taken(z, n) = 0
    BY <2>1, <2>4
  <2> HIDE DEF z
  <2>6. Shares!Left(z, n) \in Seq(Share) /\ Len(Shares!Left(z, n)) = 0
    <3>1. Shares!Left(z, n) \in Seq(Share) /\ Len(Shares!Left(z, n)) = Len(z) - Shares!Taken(z, n)
      BY <2>5, LeftParts
    <3> QED
      BY <2>5, <3>1
  <2>7. Shares!Oldest(z, n) \in Seq(Share) /\ Len(Shares!Oldest(z, n)) = 0
    BY <2>5, OldestParts
  <2>8. Shares!Left(<< >>, n) = << >> /\ Shares!Oldest(<< >>, n) = << >>
    BY <2>6, <2>7, EmptySeq DEF z
  <2> QED
    BY <2>1, <2>2, <2>3, <2>4, <2>8, UnitsEmpty
<1>2. ASSUME NEW q \in T, NEW lot \in LotSet(C) PROVE Append(q, lot) \in T
  <2> DEFINE p == Consumption(n, q)
             u == Units(q)
             s == SharesOf(lot)
             t == Shares!Taken(u, n)
             m == n - t
             c == Least(lot.remaining, m)
             e == Served(p, lot)
  <2>1. /\ q \in Seq(LotSet(C)) /\ Append(q, lot) \in Seq(LotSet(C))
        /\ u \in Seq(Share) /\ s \in Seq(Share)
    BY AppendProperties, UnitsType, SharesOfLot
  <2>2. /\ p \in Passes(C) /\ p.left = m
        /\ Units(p.kept) = Shares!Left(u, n) /\ Units(p.taken) = Shares!Oldest(u, n)
    OBVIOUS
  <2>3. Consumption(n, Append(q, lot)) = e
    BY <2>1, ConsumptionAppend
  <2>4. Units(Append(q, lot)) = u \o s
    BY <2>1, UnitsAppend
  <2>5. p.kept \in Seq(LotSet(C)) /\ p.taken \in Seq(LotSet(C)) /\ m \in Nat /\ t \in Nat
    BY <2>1, <2>2, PassParts, TakenBounds
  <2> HIDE DEF p, u, s, t
  <2>6. /\ e \in Passes(C) /\ c \in 0 .. lot.remaining
        /\ e.left = m - c
        /\ e.kept = p.kept \o PartOf(lot, lot.remaining - c)
        /\ e.taken = p.taken \o PartOf(lot, c)
    BY <2>2, ServedParts
  <2>7. /\ Shares!Taken(s, m) = c
        /\ Shares!Oldest(s, m) = Block(lot, c)
        /\ Shares!Left(s, m) = Block(lot, lot.remaining - c)
    BY <2>5, LotTaken DEF s
  <2>8. lot.remaining - c \in Nat /\ c \in Nat
    BY <2>6, LotParts
  <2> HIDE DEF c, e, m
  <2>9. Units(e.kept) = Shares!Left(u, n) \o Shares!Left(s, m)
    <3>1. Units(p.kept \o PartOf(lot, lot.remaining - c))
            = Units(p.kept) \o Block(lot, lot.remaining - c)
      BY <2>5, <2>8, PartUnits
    <3> QED
      BY <2>2, <2>6, <2>7, <3>1
  <2>10. Units(e.taken) = Shares!Oldest(u, n) \o Shares!Oldest(s, m)
    <3>1. Units(p.taken \o PartOf(lot, c)) = Units(p.taken) \o Block(lot, c)
      BY <2>5, <2>8, PartUnits
    <3> QED
      BY <2>2, <2>6, <2>7, <3>1
  <2>11. /\ Shares!Left(u \o s, n) = Shares!Left(u, n) \o Shares!Left(s, m)
         /\ Shares!Oldest(u \o s, n) = Shares!Oldest(u, n) \o Shares!Oldest(s, m)
         /\ Shares!Taken(u \o s, n) = t + Shares!Taken(s, m)
    BY <2>1, LeftConcat, OldestConcat, TakenConcat DEF m, t
  <2>12. e.left = n - Shares!Taken(u \o s, n)
    BY <2>5, <2>6, <2>7, <2>8, <2>11 DEF m
  <2>13. Right(Append(q, lot))
    BY <2>3, <2>4, <2>6, <2>9, <2>10, <2>11, <2>12
  <2> QED
    BY <2>1, <2>13
<1> HIDE DEF T
<1>3. T \in SUBSET Seq(LotSet(C))
  BY DEF T
<1>4. ls \in T
  BY <1>1, <1>2, <1>3, SeqInd
<1> QED
  BY <1>4 DEF T

-----------------------------------------------------------------------------
(* What changes all lots changes all shares alike. *)

\* A lot, or a share, of unknown cost.
Uncosted(x) == [x EXCEPT !.known = FALSE]

\* Shares lose their explanation one by one.
LEMMA UnexplainedParts ==
  ASSUME NEW q \in Seq(Share)
  PROVE  /\ Shares!Unexplained(q) \in Seq(Share) /\ Len(Shares!Unexplained(q)) = Len(q)
         /\ \A i \in 1 .. Len(q) : Shares!Unexplained(q)[i] = Uncosted(q[i])
<1> DEFINE n == Len(q)
           f == Shares!Unexplained(q)
<1>1. n \in Nat
  BY LenProperties
<1>2. \A i \in 1 .. n : q[i] \in Share
  BY ElementOfSeq
<1>3. \A i \in 1 .. n : Uncosted(q[i]) \in Share
  BY <1>2 DEF Share, Uncosted
<1>4. f \in [1 .. n -> Share] /\ \A i \in 1 .. n : f[i] = Uncosted(q[i])
  BY <1>3 DEF Shares!Unexplained, Uncosted
<1> HIDE DEF n, f
<1>5. f \in Seq(Share) /\ Len(f) = n
  BY <1>1, <1>4, FunctionSeq
<1> QED
  BY <1>4, <1>5 DEF n, f

\* Of two queues, one behind the other.
LEMMA UnexplainedConcat ==
  ASSUME NEW a \in Seq(Share), NEW b \in Seq(Share)
  PROVE  Shares!Unexplained(a \o b) = Shares!Unexplained(a) \o Shares!Unexplained(b)
<1> DEFINE c == a \o b
           m == Len(a)
           k == Len(b)
           x == Shares!Unexplained(c)
           y == Shares!Unexplained(a)
           z == Shares!Unexplained(b)
<1>1. /\ c \in Seq(Share) /\ Len(c) = m + k
      /\ \A i \in 1 .. m : c[i] = a[i]
      /\ \A i \in 1 .. k : c[m + i] = b[i]
  BY ConcatParts
<1>2. m \in Nat /\ k \in Nat
  BY LenProperties
<1> HIDE DEF c
<1>3. x \in Seq(Share) /\ Len(x) = m + k /\ \A i \in 1 .. m + k : x[i] = Uncosted(c[i])
  BY <1>1, UnexplainedParts
<1>4. y \in Seq(Share) /\ Len(y) = m /\ \A i \in 1 .. m : y[i] = Uncosted(a[i])
  BY UnexplainedParts
<1>5. z \in Seq(Share) /\ Len(z) = k /\ \A i \in 1 .. k : z[i] = Uncosted(b[i])
  BY UnexplainedParts
<1> HIDE DEF m, k, x, y, z
<1>6. \A i \in 1 .. m : x[i] = y[i]
  BY <1>1, <1>2, <1>3, <1>4
<1>7. ASSUME NEW i \in 1 .. k PROVE x[m + i] = z[i]
  <2>1. m + i \in 1 .. m + k
    BY <1>2
  <2> QED
    BY <1>1, <1>3, <1>5, <2>1
<1>8. x = y \o z
  BY <1>3, <1>4, <1>5, <1>6, <1>7, IsConcat
<1> QED
  BY <1>8 DEF x, y, z, c

\* What is left is unexplained, or the unexplained is left: the same.
LEMMA UnexplainedLeft ==
  ASSUME NEW q \in Seq(Share), NEW n \in Nat
  PROVE  Shares!Left(Shares!Unexplained(q), n) = Shares!Unexplained(Shares!Left(q, n))
<1> DEFINE u == Shares!Unexplained(q)
           t == Shares!Taken(q, n)
           l == Shares!Left(q, n)
           m == Len(q) - t
           x == Shares!Left(u, n)
           y == Shares!Unexplained(l)
<1>1. u \in Seq(Share) /\ Len(u) = Len(q) /\ \A i \in 1 .. Len(q) : u[i] = Uncosted(q[i])
  BY UnexplainedParts
<1>2. t \in 0 .. Len(q) /\ Len(q) \in Nat /\ m \in Nat
  BY TakenBounds, LenProperties
<1>3. l \in Seq(Share) /\ Len(l) = m /\ \A i \in 1 .. m : l[i] = q[t + i]
  BY LeftParts
<1> HIDE DEF u, l
<1>4. Shares!Taken(u, n) = t
  BY <1>1 DEF Shares!Taken
<1>5. x \in Seq(Share) /\ Len(x) = m /\ \A i \in 1 .. m : x[i] = u[t + i]
  <2>1. /\ x \in Seq(Share) /\ Len(x) = Len(u) - Shares!Taken(u, n)
        /\ \A i \in 1 .. Len(u) - Shares!Taken(u, n) : x[i] = u[Shares!Taken(u, n) + i]
    BY <1>1, LeftParts
  <2> HIDE DEF x, t
  <2> QED
    BY <1>1, <1>4, <2>1
<1>6. y \in Seq(Share) /\ Len(y) = m /\ \A i \in 1 .. m : y[i] = Uncosted(l[i])
  BY <1>3, UnexplainedParts
<1> HIDE DEF x, y, t
<1>7. ASSUME NEW i \in 1 .. m PROVE x[i] = y[i]
  <2>1. t + i \in 1 .. Len(q)
    BY <1>2
  <2> QED
    BY <1>1, <1>3, <1>5, <1>6, <2>1
<1> HIDE DEF m
<1>8. x = y
  BY <1>5, <1>6, <1>7, SeqEqual
<1> QED
  BY <1>8 DEF x, y, u, l

\* It has the same shares, unexplained.
LEMMA UncostedParts ==
  ASSUME NEW C, NEW lot \in LotSet(C)
  PROVE  /\ Uncosted(lot) \in LotSet(C)
         /\ SharesOf(Uncosted(lot)) = Shares!Unexplained(SharesOf(lot))
<1> DEFINE x == Uncosted(lot)
           r == lot.remaining
           s == SharesOf(lot)
<1>1. x \in LotSet(C) /\ x.id = lot.id /\ x.remaining = r /\ x.known = FALSE
  BY DEF LotSet, Uncosted
<1>2. Len(s) = r /\ \A k \in 1 .. r : s[k] = [from |-> lot.id, known |-> lot.known]
  BY SharesOfLot
<1> HIDE DEF x, r, s
<1>3. SharesOf(x) = [k \in 1 .. r |-> [from |-> lot.id, known |-> FALSE]]
  BY <1>1 DEF SharesOf
<1>4. Uncosted([from |-> lot.id, known |-> lot.known]) = [from |-> lot.id, known |-> FALSE]
  <2> DEFINE u == [from |-> lot.id, known |-> lot.known]
             v == Uncosted(u)
  <2>1. u \in Share /\ u.from = lot.id
    BY LotParts DEF Share
  <2> HIDE DEF u
  <2>2. v \in Share /\ v.from = lot.id /\ v.known = FALSE
    BY <2>1 DEF Share, Uncosted
  <2> HIDE DEF v
  <2>3. v = [from |-> lot.id, known |-> FALSE]
    BY <2>2 DEF Share
  <2> QED
    BY <2>3 DEF u, v
<1>5. Shares!Unexplained(s) = [k \in 1 .. r |-> Uncosted(s[k])]
  BY <1>2 DEF Shares!Unexplained, Uncosted
<1>6. SharesOf(x) = Shares!Unexplained(s)
  BY <1>2, <1>3, <1>4, <1>5
<1> QED
  BY <1>1, <1>6 DEF x, s

\* A change h of queues, for the queues of P, that works on each part of a queue.
Piecewise(P, h) ==
  /\ P \subseteq Seq(Share) /\ h \in Maps(P, Seq(Share))
  /\ << >> \in P /\ h[<< >>] = << >>
  /\ \A a, b \in P : a \o b \in P /\ h[a \o b] = h[a] \o h[b]

\* The change g of the lots of E is the change h of their shares.
Mirrors(E, C, g, P, h) ==
  /\ E \subseteq LotSet(C) /\ g \in Maps(E, LotSet(C))
  /\ \A lot \in E : SharesOf(lot) \in P /\ SharesOf(g[lot]) = h[SharesOf(lot)]

\* Then the change of all lots is the change of all shares.
LEMMA MirroredUnits ==
  ASSUME NEW E, NEW C, NEW g, NEW P, NEW h, Piecewise(P, h), Mirrors(E, C, g, P, h),
         NEW ls \in Seq(E)
  PROVE  /\ ls \in Seq(LotSet(C)) /\ Mapped(g, ls) \in Seq(LotSet(C))
         /\ Units(ls) \in P /\ Units(Mapped(g, ls)) = h[Units(ls)]
<1> DEFINE L == LotSet(C)
           T == {q \in Seq(E) : Units(q) \in P /\ Units(Mapped(g, q)) = h[Units(q)]}
<1>1. /\ P \subseteq Seq(Share) /\ << >> \in P /\ h[<< >>] = << >>
      /\ \A a, b \in P : a \o b \in P /\ h[a \o b] = h[a] \o h[b]
  BY DEF Piecewise
<1>2. /\ E \subseteq L /\ g \in Maps(E, L)
      /\ \A lot \in E : g[lot] \in L /\ SharesOf(lot) \in P /\ SharesOf(g[lot]) = h[SharesOf(lot)]
  BY DEF Mirrors, Maps
<1>3. << >> \in T
  <2>1. << >> \in Seq(E)
    BY EmptySeq
  <2>2. Mapped(g, << >>) = << >> /\ Units(<< >>) = << >>
    BY MappedEmpty, UnitsEmpty
  <2> QED
    BY <1>1, <2>1, <2>2
<1>4. ASSUME NEW q \in T, NEW lot \in E PROVE Append(q, lot) \in T
  <2> DEFINE a == Append(q, lot)
             m == Mapped(g, q)
             u == Units(q)
             s == SharesOf(lot)
  <2>1. q \in Seq(E) /\ a \in Seq(E) /\ u \in P /\ Units(m) = h[u]
    BY AppendProperties
  <2>2. q \in Seq(L) /\ lot \in L /\ g[lot] \in L
    BY <1>2, <2>1, SeqWiden
  <2>3. m \in Seq(L)
    BY <1>2, <2>1, MappedParts
  <2>4. Mapped(g, a) = Append(m, g[lot])
    BY <1>2, <2>1, MappedAppend
  <2>5. Units(a) = u \o s
    BY <2>2, UnitsAppend
  <2>6. Units(Append(m, g[lot])) = Units(m) \o SharesOf(g[lot])
    BY <2>2, <2>3, UnitsAppend
  <2>7. s \in P /\ SharesOf(g[lot]) = h[s]
    BY <1>2
  <2>8. u \o s \in P /\ h[u \o s] = h[u] \o h[s]
    BY <1>1, <2>1, <2>7
  <2> HIDE DEF a, m, u, s
  <2>9. Units(a) \in P /\ Units(Mapped(g, a)) = h[Units(a)]
    BY <2>1, <2>4, <2>5, <2>6, <2>7, <2>8
  <2> QED
    BY <2>1, <2>9 DEF a
<1> HIDE DEF T
<1>5. T \in SUBSET Seq(E)
  BY DEF T
<1>6. ls \in T
  BY <1>3, <1>4, <1>5, SeqInd
<1>7. ls \in Seq(L) /\ Mapped(g, ls) \in Seq(L)
  BY <1>2, SeqWiden, MappedParts
<1> QED
  BY <1>6, <1>7 DEF T

\* Lots of unknown cost are lots, and their shares are unexplained.
LEMMA UnknownUnits ==
  ASSUME NEW C, NEW ls \in Seq(LotSet(C))
  PROVE  Unknown(ls) \in Seq(LotSet(C)) /\ Units(Unknown(ls)) = Shares!Unexplained(Units(ls))
<1> DEFINE E == LotSet(C)
           g == [x \in E |-> Uncosted(x)]
           P == Seq(Share)
           h == [q \in P |-> Shares!Unexplained(q)]
<1>1. g \in Maps(E, E) /\ \A x \in E : g[x] = Uncosted(x)
  BY UncostedParts DEF Maps
<1>2. Unknown(ls) = Mapped(g, ls)
  <2>1. DOMAIN ls = 1 .. Len(ls) /\ \A i \in 1 .. Len(ls) : ls[i] \in E
    BY LenProperties, ElementOfSeq
  <2> QED
    BY <1>1, <2>1 DEF Unknown, Mapped, Uncosted
<1>3. h \in Maps(P, P) /\ \A q \in P : h[q] = Shares!Unexplained(q)
  BY UnexplainedParts DEF Maps
<1> HIDE DEF g, h
<1>4. Piecewise(P, h)
  <2> DEFINE z == << >>
  <2>1. z \in P /\ Len(z) = 0
    BY EmptySeq
  <2> HIDE DEF z
  <2>2. h[z] \in P /\ Len(h[z]) = 0
    BY <1>3, <2>1, UnexplainedParts
  <2>3. h[z] = << >>
    BY <2>2, NoneLeft
  <2>4. ASSUME NEW a \in P, NEW b \in P PROVE a \o b \in P /\ h[a \o b] = h[a] \o h[b]
    <3>1. a \o b \in P
      BY ConcatParts
    <3>2. Shares!Unexplained(a \o b) = Shares!Unexplained(a) \o Shares!Unexplained(b)
      BY UnexplainedConcat
    <3> QED
      BY <1>3, <3>1, <3>2
  <2> QED
    BY <1>3, <2>1, <2>3, <2>4 DEF Piecewise, z
<1>5. Mirrors(E, C, g, P, h)
  <2>1. ASSUME NEW lot \in E PROVE SharesOf(lot) \in P /\ SharesOf(g[lot]) = h[SharesOf(lot)]
    <3>1. SharesOf(lot) \in P
      BY SharesOfLot
    <3>2. SharesOf(Uncosted(lot)) = Shares!Unexplained(SharesOf(lot))
      BY UncostedParts
    <3> QED
      BY <1>1, <1>3, <3>1, <3>2
  <2> QED
    BY <1>1, <2>1 DEF Mirrors
<1>6. /\ Mapped(g, ls) \in Seq(LotSet(C))
      /\ Units(ls) \in P /\ Units(Mapped(g, ls)) = h[Units(ls)]
  BY <1>4, <1>5, MirroredUnits
<1> QED
  BY <1>2, <1>3, <1>6

\* A lot of twice, or half, as many shares.
Twice(lot) == [lot EXCEPT !.remaining = 2 * @]
Half(lot)  == [lot EXCEPT !.remaining = @ \div 2]
EvenLots(C) == {lot \in LotSet(C) : lot.remaining % 2 = 0}

\* Twice the shares of a lot is every share twice.
LEMMA TwiceParts ==
  ASSUME NEW C, NEW lot \in LotSet(C)
  PROVE  /\ Twice(lot) \in LotSet(C) /\ SharesOf(Twice(lot)) = Shares!Doubled(SharesOf(lot))
<1> DEFINE t == Twice(lot)
           r == lot.remaining
           s == SharesOf(lot)
           e == [from |-> lot.id, known |-> lot.known]
<1>1. r \in Nat /\ r > 0
  BY LotParts
<1>2. t \in LotSet(C) /\ t.id = lot.id /\ t.remaining = 2 * r /\ t.known = lot.known
  BY <1>1 DEF LotSet, Twice
<1>3. s \in Seq(Share) /\ Len(s) = r /\ \A k \in 1 .. r : s[k] = e
  BY SharesOfLot
<1> HIDE DEF t, r, s
<1>4. SharesOf(t) = [k \in 1 .. 2 * r |-> e]
  BY <1>2 DEF SharesOf
<1> HIDE DEF e
<1>5. Shares!Doubled(s) = [k \in 1 .. 2 * r |-> s[(k + 1) \div 2]]
  BY <1>3 DEF Shares!Doubled
<1>6. ASSUME NEW k \in 1 .. 2 * r PROVE s[(k + 1) \div 2] = e
  <2>1. (k + 1) \div 2 \in 1 .. r
    BY <1>1
  <2> QED
    BY <1>3, <2>1
<1>7. SharesOf(t) = Shares!Doubled(s)
  BY <1>4, <1>5, <1>6
<1> QED
  BY <1>2, <1>7 DEF t, s

\* Half the shares of an even lot is the second of each pair.
LEMMA HalfParts ==
  ASSUME NEW C, NEW lot \in EvenLots(C)
  PROVE  /\ Half(lot) \in LotSet(C)
         /\ Shares!Paired(SharesOf(lot))
         /\ SharesOf(Half(lot)) = Shares!Halved(SharesOf(lot))
<1> DEFINE t == Half(lot)
           r == lot.remaining
           s == SharesOf(lot)
           e == [from |-> lot.id, known |-> lot.known]
<1>0. lot \in LotSet(C) /\ r % 2 = 0
  BY DEF EvenLots
<1>1. r \in Nat /\ r > 0
  BY <1>0, LotParts
<1>2. t.id = lot.id /\ t.remaining = r \div 2 /\ t.known = lot.known
  BY <1>0 DEF LotSet, Half
<1>3. s \in Seq(Share) /\ Len(s) = r /\ \A k \in 1 .. r : s[k] = e
  BY <1>0, SharesOfLot
<1> HIDE DEF r
<1>4. PICK h \in Nat \ {0} : r = 2 * h /\ r \div 2 = h
  BY <1>0, <1>1
<1>5. t \in LotSet(C)
  <2>1. r \div 2 \in Nat \ {0}
    BY <1>4
  <2> QED
    BY <1>0, <2>1 DEF LotSet, Half, r
<1> HIDE DEF t, s
<1>6. SharesOf(t) = [k \in 1 .. h |-> e]
  BY <1>2, <1>4 DEF SharesOf
<1> HIDE DEF e
<1>7. Shares!Paired(s)
  <2>1. ASSUME NEW i \in 1 .. 2 * h, i % 2 = 1 PROVE i < 2 * h
    BY <2>1
  <2>2. ASSUME NEW i \in 1 .. 2 * h, i % 2 = 1 PROVE i < 2 * h /\ s[i] = s[i + 1]
    <3>1. i < 2 * h /\ i + 1 \in 1 .. 2 * h
      BY <2>1, <2>2
    <3> QED
      BY <1>3, <1>4, <3>1
  <2> QED
    BY <1>3, <1>4, <2>2 DEF Shares!Paired
<1>8. Shares!Halved(s) = [k \in 1 .. h |-> s[2 * k]]
  BY <1>3, <1>4 DEF Shares!Halved
<1>9. ASSUME NEW k \in 1 .. h PROVE s[2 * k] = e
  <2>1. 2 * k \in 1 .. 2 * h
    OBVIOUS
  <2> QED
    BY <1>3, <1>4, <2>1
<1>10. SharesOf(t) = Shares!Halved(s)
  BY <1>6, <1>8, <1>9
<1> QED
  BY <1>5, <1>7, <1>10 DEF t, s

\* All lots doubled: all shares doubled.
LEMMA DoubledUnits ==
  ASSUME NEW C, NEW ls \in Seq(LotSet(C)), NEW g, g = [x \in LotSet(C) |-> Twice(x)]
  PROVE  Mapped(g, ls) \in Seq(LotSet(C)) /\ Units(Mapped(g, ls)) = Shares!Doubled(Units(ls))
<1> DEFINE E == LotSet(C)
           P == Seq(Share)
           h == [q \in P |-> Shares!Doubled(q)]
<1>1. g \in Maps(E, E) /\ \A x \in E : g[x] = Twice(x)
  BY TwiceParts DEF Maps
<1>2. h \in Maps(P, P) /\ \A q \in P : h[q] = Shares!Doubled(q)
  BY DoubledParts DEF Maps
<1> HIDE DEF h
<1>3. Piecewise(P, h)
  <2> DEFINE z == << >>
  <2>1. z \in P /\ Len(z) = 0
    BY EmptySeq
  <2> HIDE DEF z
  <2>2. Shares!Doubled(z) \in P /\ Len(Shares!Doubled(z)) = 2 * Len(z)
    BY <2>1, DoubledParts
  <2>3. h[z] \in P /\ Len(h[z]) = 0
    BY <1>2, <2>1, <2>2
  <2>4. h[z] = << >>
    BY <2>3, NoneLeft
  <2>5. ASSUME NEW a \in P, NEW b \in P PROVE a \o b \in P /\ h[a \o b] = h[a] \o h[b]
    <3>1. a \o b \in P
      BY ConcatParts
    <3>2. Shares!Doubled(a \o b) = Shares!Doubled(a) \o Shares!Doubled(b)
      BY DoubledConcat
    <3> QED
      BY <1>2, <3>1, <3>2
  <2> QED
    BY <1>2, <2>1, <2>4, <2>5 DEF Piecewise, z
<1>4. Mirrors(E, C, g, P, h)
  <2>1. ASSUME NEW lot \in E PROVE SharesOf(lot) \in P /\ SharesOf(g[lot]) = h[SharesOf(lot)]
    <3>1. SharesOf(lot) \in P
      BY SharesOfLot
    <3>2. SharesOf(Twice(lot)) = Shares!Doubled(SharesOf(lot))
      BY TwiceParts
    <3> QED
      BY <1>1, <1>2, <3>1, <3>2
  <2> QED
    BY <1>1, <2>1 DEF Mirrors
<1>5. /\ Mapped(g, ls) \in Seq(LotSet(C))
      /\ Units(ls) \in P /\ Units(Mapped(g, ls)) = h[Units(ls)]
  BY <1>3, <1>4, MirroredUnits
<1> QED
  BY <1>2, <1>5

\* All lots, all even, halved: the shares are pairs, and one of each pair is left.
LEMMA HalvedUnits ==
  ASSUME NEW C, NEW ls \in Seq(EvenLots(C)), NEW g, g = [x \in EvenLots(C) |-> Half(x)]
  PROVE  /\ Mapped(g, ls) \in Seq(LotSet(C))
         /\ Shares!Paired(Units(ls)) /\ Units(Mapped(g, ls)) = Shares!Halved(Units(ls))
<1> DEFINE E == EvenLots(C)
           P == {q \in Seq(Share) : Shares!Paired(q)}
           h == [q \in P |-> Shares!Halved(q)]
<1>1. E \subseteq LotSet(C) /\ g \in Maps(E, LotSet(C)) /\ \A x \in E : g[x] = Half(x)
  BY HalfParts DEF Maps, EvenLots
<1>2. h \in Maps(P, Seq(Share)) /\ \A q \in P : h[q] = Shares!Halved(q)
  <2>1. ASSUME NEW q \in P PROVE Shares!Halved(q) \in Seq(Share)
    <3>1. PICK n \in Nat : Len(q) = 2 * n
      BY PairedEven
    <3> QED
      BY <3>1, HalvedParts
  <2> QED
    BY <2>1 DEF Maps
<1> HIDE DEF h
<1>3. Piecewise(P, h)
  <2> DEFINE z == << >>
  <2>1. z \in Seq(Share) /\ Len(z) = 0
    BY EmptySeq
  <2> HIDE DEF z
  <2>2. z \in P
    BY <2>1 DEF Shares!Paired
  <2>3. 0 \in Nat /\ Len(z) = 2 * 0
    BY <2>1
  <2>4. Shares!Halved(z) \in Seq(Share) /\ Len(Shares!Halved(z)) = 0
    BY <2>1, <2>3, HalvedParts
  <2>5. h[z] = << >>
    BY <1>2, <2>2, <2>4, NoneLeft
  <2>6. ASSUME NEW a \in P, NEW b \in P PROVE a \o b \in P /\ h[a \o b] = h[a] \o h[b]
    <3>1. a \o b \in Seq(Share)
      BY ConcatParts
    <3>2. /\ Shares!Paired(a \o b)
          /\ Shares!Halved(a \o b) = Shares!Halved(a) \o Shares!Halved(b)
      BY HalvedConcat
    <3> QED
      BY <1>2, <3>1, <3>2
  <2> QED
    BY <1>2, <2>2, <2>5, <2>6 DEF Piecewise, z
<1>4. Mirrors(E, C, g, P, h)
  <2>1. ASSUME NEW lot \in E PROVE SharesOf(lot) \in P /\ SharesOf(g[lot]) = h[SharesOf(lot)]
    <3>1. SharesOf(lot) \in Seq(Share)
      BY <1>1, SharesOfLot
    <3>2. Shares!Paired(SharesOf(lot)) /\ SharesOf(Half(lot)) = Shares!Halved(SharesOf(lot))
      BY HalfParts
    <3> QED
      BY <1>1, <1>2, <3>1, <3>2
  <2> QED
    BY <1>1, <2>1 DEF Mirrors
<1>5. /\ Mapped(g, ls) \in Seq(LotSet(C))
      /\ Units(ls) \in P /\ Units(Mapped(g, ls)) = h[Units(ls)]
  BY <1>3, <1>4, MirroredUnits
<1> QED
  BY <1>2, <1>5

\* The cost of every element is known.
AllKnown(q) == \A i \in 1 .. Len(q) : q[i].known = TRUE

\* It is of two sequences, one behind the other, if it is of both.
LEMMA AllKnownConcat ==
  ASSUME NEW E, NEW a \in Seq(E), NEW b \in Seq(E)
  PROVE  AllKnown(a \o b) <=> AllKnown(a) /\ AllKnown(b)
<1> DEFINE c == a \o b
           m == Len(a)
           k == Len(b)
<1>1. /\ c \in Seq(E) /\ Len(c) = m + k
      /\ \A i \in 1 .. m : c[i] = a[i]
      /\ \A i \in 1 .. k : c[m + i] = b[i]
  BY ConcatParts
<1>2. m \in Nat /\ k \in Nat
  BY LenProperties
<1> HIDE DEF c, m, k
<1>3. ASSUME \A i \in 1 .. m + k : c[i].known = TRUE
      PROVE  (\A i \in 1 .. m : a[i].known = TRUE) /\ (\A i \in 1 .. k : b[i].known = TRUE)
  <2>1. ASSUME NEW i \in 1 .. m PROVE a[i].known = TRUE
    <3>1. i \in 1 .. m + k
      BY <1>2
    <3> QED
      BY <1>1, <1>3, <3>1
  <2>2. ASSUME NEW i \in 1 .. k PROVE b[i].known = TRUE
    <3>1. m + i \in 1 .. m + k
      BY <1>2
    <3> QED
      BY <1>1, <1>3, <3>1
  <2> QED
    BY <2>1, <2>2
<1>4. ASSUME \A i \in 1 .. m : a[i].known = TRUE, \A i \in 1 .. k : b[i].known = TRUE,
             NEW i \in 1 .. m + k
      PROVE  c[i].known = TRUE
  <2>1. CASE i <= m
    <3>1. i \in 1 .. m
      BY <1>2, <2>1
    <3> QED
      BY <1>1, <1>4, <3>1
  <2>2. CASE ~ (i <= m)
    <3>1. i - m \in 1 .. k /\ m + (i - m) = i
      BY <1>2, <2>2
    <3> QED
      BY <1>1, <1>4, <3>1
  <2> QED
    BY <2>1, <2>2
<1>5. AllKnown(c) <=> AllKnown(a) /\ AllKnown(b)
  BY <1>1, <1>3, <1>4 DEF AllKnown, m, k
<1> QED
  BY <1>5 DEF c

\* The cost of all lots is known exactly when that of all their shares is.
LEMMA KnownUnits ==
  ASSUME NEW C, NEW ls \in Seq(LotSet(C))
  PROVE  AllKnown(ls) <=> AllKnown(Units(ls))
<1> DEFINE E == LotSet(C)
           T == {q \in Seq(E) : AllKnown(q) <=> AllKnown(Units(q))}
<1>1. << >> \in T
  <2>1. << >> \in Seq(E)
    BY EmptySeq
  <2>2. Units(<< >>) = << >>
    BY UnitsEmpty
  <2> QED
    BY <2>1, <2>2
<1>2. ASSUME NEW q \in T, NEW lot \in E PROVE Append(q, lot) \in T
  <2> DEFINE a == Append(q, lot)
             o == << lot >>
             s == SharesOf(lot)
  <2>1. q \in Seq(E) /\ a \in Seq(E) /\ (AllKnown(q) <=> AllKnown(Units(q)))
    BY AppendProperties
  <2>2. o \in Seq(E) /\ Len(o) = 1 /\ o[1] = lot
    OBVIOUS
  <2>3. a = q \o o
    BY <2>1, AppendIsConcat
  <2>4. Units(q) \in Seq(Share) /\ Units(a) = Units(q) \o s
    BY <2>1, UnitsAppend
  <2>5. s \in Seq(Share) /\ Len(s) = lot.remaining
        /\ \A k \in 1 .. lot.remaining : s[k] = [from |-> lot.id, known |-> lot.known]
    BY SharesOfLot
  <2>6. lot.remaining \in Nat /\ lot.remaining > 0
    BY LotParts
  <2> HIDE DEF o, s, a
  <2>7. AllKnown(o) <=> lot.known = TRUE
    BY <2>2 DEF AllKnown
  <2>8. AllKnown(s) <=> lot.known = TRUE
    BY <2>5, <2>6 DEF AllKnown
  <2>9. AllKnown(a) <=> AllKnown(q) /\ AllKnown(o)
    BY <2>1, <2>2, <2>3, AllKnownConcat
  <2>10. AllKnown(Units(a)) <=> AllKnown(Units(q)) /\ AllKnown(s)
    BY <2>4, <2>5, AllKnownConcat
  <2>11. AllKnown(a) <=> AllKnown(Units(a))
    BY <2>1, <2>7, <2>8, <2>9, <2>10
  <2> QED
    BY <2>1, <2>11 DEF a
<1> HIDE DEF T
<1>3. T \in SUBSET Seq(E)
  BY DEF T
<1>4. ls \in T
  BY <1>1, <1>2, <1>3, SeqInd
<1> QED
  BY <1>4 DEF T

-----------------------------------------------------------------------------
(* The rows: each keeps the invariant and is a step of the queue. *)

\* The invariant: what the variables hold, that the open lots belong to the current group
\* or to none, and that the last event shows what is held.
LedgerInv ==
  /\ row \in 0 .. MaxRowCount
  /\ group \in 0 .. row
  /\ lots \in Seq(LotSet({0, group}))
  /\ last \in [id : Nat, group : Nat, remaining : Nat]
  /\ LastEventShowsHolding

\* A row that reads on has an id the ledger knows.
LEMMA RowId ==
  ASSUME LedgerInv, NextRow
  PROVE  /\ row + 1 \in 1 .. MaxRowCount /\ row' \in 0 .. MaxRowCount
         /\ row \in Nat /\ row + 1 \in Nat /\ row' = row + 1
BY LedgerAssumption DEF LedgerInv, NextRow

\* The group of an event is that of the open lots, or one of its own when there are none.
LEMMA GroupOfEvent ==
  ASSUME LedgerInv, NextRow
  PROVE  /\ Group(row + 1) \in 0 .. row' /\ Group(row + 1) \in Nat
         /\ lots \in Seq(LotSet({0, Group(row + 1)}))
<1> DEFINE g == Group(row + 1)
<1>1. /\ row \in Nat /\ row' = row + 1 /\ group \in 0 .. row
      /\ lots \in Seq(LotSet({0, group}))
  BY RowId DEF LedgerInv
<1>2. g \in 0 .. row' /\ g \in Nat
  BY <1>1 DEF Group
<1>3. lots = << >> \/ group = 0 \/ group = g
  BY DEF Group
<1> HIDE DEF g
<1>4. lots \in Seq(LotSet({0, g}))
  <2>1. CASE lots = << >>
    BY <2>1, EmptySeq
  <2>2. CASE group = 0
    <3>1. LotSet({0, group}) \subseteq LotSet({0, g})
      BY <2>2 DEF LotSet
    <3> QED
      BY <1>1, <3>1, SeqWiden
  <2>3. CASE group = g
    BY <1>1, <2>3
  <2> QED
    BY <1>3, <2>1, <2>2, <2>3
<1> QED
  BY <1>2, <1>4 DEF g

\* A new lot, and its shares.
LEMMA NewLot ==
  ASSUME NEW C, NEW ls \in Seq(LotSet(C)), NEW id \in Nat, NEW n \in 1 .. MaxQuantity,
         NEW known \in BOOLEAN, NEW g \in C
  PROVE  /\ Append(ls, Lot(id, n, known, g)) \in Seq(LotSet(C))
         /\ Units(Append(ls, Lot(id, n, known, g))) = Units(ls) \o Shares!Shares(id, n, known)
<1> DEFINE x == Lot(id, n, known, g)
<1>1. n \in Nat \ {0}
  OBVIOUS
<1>2. x \in LotSet(C)
  BY <1>1 DEF LotSet, Lot
<1>3. x.id = id /\ x.remaining = n /\ x.known = known
  BY DEF Lot
<1>4. SharesOf(x) = Shares!Shares(id, n, known)
  BY <1>3 DEF SharesOf, Shares!Shares
<1> HIDE DEF x
<1>5. Append(ls, x) \in Seq(LotSet(C))
  BY <1>2, AppendProperties
<1>6. Units(Append(ls, x)) = Units(ls) \o SharesOf(x)
  BY <1>2, UnitsAppend
<1> QED
  BY <1>4, <1>5, <1>6 DEF x

\* A buy keeps the invariant and puts its shares behind the others.
LEMMA BuyStep ==
  ASSUME LedgerInv, NEW n \in 1 .. MaxQuantity, NEW priced \in BOOLEAN, BuyRow(n, priced)
  PROVE  LedgerInv' /\ row + 1 \in 1 .. MaxRowCount /\ Shares!Buy(row + 1, n, priced)
<1> DEFINE g == Group(row + 1)
           after == Append(lots, Lot(row + 1, n, priced, g))
<1>1. NextRow /\ lots' = after /\ group' = g /\ UNCHANGED outcome
      /\ last' = [id |-> row + 1, group |-> g, remaining |-> Held(after)]
  BY DEF BuyRow
<1>2. row + 1 \in 1 .. MaxRowCount /\ row' \in 0 .. MaxRowCount /\ row + 1 \in Nat
  BY <1>1, RowId
<1>3. g \in 0 .. row' /\ g \in Nat /\ lots \in Seq(LotSet({0, g}))
  BY <1>1, GroupOfEvent
<1>4. /\ after \in Seq(LotSet({0, g}))
      /\ Units(after) = Units(lots) \o Shares!Shares(row + 1, n, priced)
  <2> DEFINE C == {0, g}
             id == row + 1
  <2>1. id \in Nat /\ g \in C /\ lots \in Seq(LotSet(C))
    BY <1>2, <1>3
  <2> HIDE DEF C, id, g
  <2>2. /\ Append(lots, Lot(id, n, priced, g)) \in Seq(LotSet(C))
        /\ Units(Append(lots, Lot(id, n, priced, g))) = Units(lots) \o Shares!Shares(id, n, priced)
    BY <2>1, NewLot
  <2> QED
    BY <2>2 DEF C, id
<1>5. Held(after) \in Nat
  BY <1>4, HeldType
<1> HIDE DEF after, g
<1>6. LedgerInv'
  BY <1>1, <1>2, <1>3, <1>4, <1>5 DEF LedgerInv, LastEventShowsHolding
<1>7. Shares!Buy(row + 1, n, priced)
  BY <1>1, <1>4 DEF Shares!Buy
<1> QED
  BY <1>2, <1>6, <1>7

\* A sale keeps the invariant, takes the oldest shares and says which, and what is missing,
\* and states a profit exactly when all it sold is explained.
LEMMA SellStep ==
  ASSUME LedgerInv, NEW n \in 1 .. MaxQuantity, NEW priced \in BOOLEAN, SellRow(n, priced)
  PROVE  LedgerInv' /\ Shares!Sell(n, priced)
<1> DEFINE g == Group(row + 1)
           done == Consumption(n, lots)
           pnl == /\ priced /\ done.left = 0
                  /\ \A i \in DOMAIN done.taken : done.taken[i].known
           queue == Units(lots)
           t == Shares!Taken(queue, n)
           C == {0, g}
<1>1. /\ NextRow /\ lots' = done.kept /\ group' = g
      /\ outcome' = [allocations |-> done.taken, unallocated |-> done.left, pnl |-> pnl]
      /\ last' = [id |-> row + 1, group |-> g, remaining |-> Held(lots')]
  BY DEF SellRow
<1>2. row' \in 0 .. MaxRowCount /\ row + 1 \in Nat
  BY <1>1, RowId
<1>3. g \in 0 .. row' /\ g \in Nat /\ lots \in Seq(LotSet(C))
  BY <1>1, GroupOfEvent
<1>4. n \in Nat
  OBVIOUS
<1> HIDE DEF g, C
<1>5. /\ done \in Passes(C) /\ done.left = n - t
      /\ Units(done.kept) = Shares!Left(queue, n) /\ Units(done.taken) = Shares!Oldest(queue, n)
  BY <1>3, <1>4, ConsumptionUnits
<1>6. done.kept \in Seq(LotSet(C)) /\ done.taken \in Seq(LotSet(C))
  BY <1>5, PassParts
<1>7. queue \in Seq(Share)
  BY <1>3, UnitsType
<1> HIDE DEF queue, done
<1>8. Held(done.kept) \in Nat
  BY <1>6, HeldType
<1>9. LedgerInv'
  BY <1>1, <1>2, <1>3, <1>6, <1>8 DEF LedgerInv, LastEventShowsHolding, C
<1>10. pnl <=> priced /\ t = n /\ \A i \in 1 .. n : queue[i].known
  <2>1. t \in Nat /\ t <= n
    BY <1>4, <1>7, TakenBounds, LenProperties
  <2>2. done.left = 0 <=> t = n
    BY <1>4, <1>5, <2>1
  <2>3. (\A i \in DOMAIN done.taken : done.taken[i].known) <=> AllKnown(done.taken)
    <3>1. DOMAIN done.taken = 1 .. Len(done.taken)
      BY <1>6, LenProperties
    <3>2. \A i \in 1 .. Len(done.taken) : done.taken[i].known \in BOOLEAN
      BY <1>6, ElementOfSeq, LotParts
    <3> QED
      BY <3>1, <3>2 DEF AllKnown
  <2>4. AllKnown(done.taken) <=> AllKnown(Shares!Oldest(queue, n))
    BY <1>5, <1>6, KnownUnits
  <2>5. ASSUME t = n
        PROVE  AllKnown(Shares!Oldest(queue, n)) <=> \A i \in 1 .. n : queue[i].known
    <3>1. /\ Len(Shares!Oldest(queue, n)) = n
          /\ \A i \in 1 .. n : Shares!Oldest(queue, n)[i] = queue[i]
      BY <1>4, <1>7, <2>5, OldestParts
    <3>2. \A i \in 1 .. n : queue[i].known \in BOOLEAN
      <4>1. n <= Len(queue) /\ Len(queue) \in Nat
        BY <1>4, <1>7, <2>5, TakenBounds, LenProperties
      <4>2. \A i \in 1 .. n : i \in 1 .. Len(queue)
        BY <1>4, <4>1
      <4>3. \A i \in 1 .. n : queue[i] \in Share
        BY <1>7, <4>2, ElementOfSeq
      <4> QED
        BY <4>3 DEF Share
    <3> QED
      BY <3>1, <3>2 DEF AllKnown
  <2> QED
    BY <2>2, <2>3, <2>4, <2>5
<1>11. Shares!Sell(n, priced)
  <2> HIDE DEF pnl, t
  <2>1. pnl = (priced /\ t = n /\ \A i \in 1 .. n : queue[i].known)
    BY <1>10 DEF pnl
  <2>2. /\ Units(outcome'.allocations) = Shares!Oldest(queue, n)
        /\ outcome'.unallocated = n - t
        /\ outcome'.pnl = (priced /\ t = n /\ \A i \in 1 .. n : queue[i].known)
    BY <1>1, <1>5, <2>1
  <2>3. Units(lots') = Shares!Left(queue, n)
    BY <1>1, <1>5
  <2> QED
    BY <2>2, <2>3 DEF Shares!Sell, queue, t
<1> QED
  BY <1>9, <1>11

\* A corporate action keeps the invariant, whatever lots it leaves in the group.
LEMMA MovedStep ==
  ASSUME LedgerInv, NEW after \in Seq(LotSet({0, group})), Moved(after)
  PROVE  LedgerInv' /\ lots' = after /\ UNCHANGED outcome /\ row + 1 \in 1 .. MaxRowCount
<1>1. /\ NextRow /\ lots' = after /\ group' = group /\ UNCHANGED outcome
      /\ last' = IF group # 0 THEN [last EXCEPT !.remaining = Held(after)] ELSE last
  BY DEF Moved, Restated
<1>2. row + 1 \in 1 .. MaxRowCount /\ row' \in 0 .. MaxRowCount /\ row' = row + 1 /\ row \in Nat
  BY <1>1, RowId
<1>3. group \in 0 .. row' /\ last \in [id : Nat, group : Nat, remaining : Nat]
      /\ (group # 0 => last.group = group)
  BY <1>2 DEF LedgerInv, LastEventShowsHolding
<1>4. Held(after) \in Nat
  BY HeldType
<1>5. last' \in [id : Nat, group : Nat, remaining : Nat]
      /\ (group # 0 => last'.group = group /\ last'.remaining = Held(after))
  BY <1>1, <1>3, <1>4
<1>6. LedgerInv'
  BY <1>1, <1>2, <1>3, <1>5 DEF LedgerInv, LastEventShowsHolding
<1> QED
  BY <1>1, <1>2, <1>6

\* Shares that come from elsewhere.
LEMMA InStep ==
  ASSUME LedgerInv, NEW n \in 1 .. MaxQuantity, InRow(n)
  PROVE  LedgerInv' /\ row + 1 \in 1 .. MaxRowCount /\ Shares!Arrive(row + 1, n)
<1> DEFINE before == Unknown(lots)
           after == Append(before, Lot(row + 1, n, FALSE, 0))
           C == {0, group}
<1>1. Moved(after) /\ NextRow
  BY DEF InRow, Moved
<1>2. row + 1 \in Nat /\ lots \in Seq(LotSet(C)) /\ 0 \in C
  BY <1>1, RowId DEF LedgerInv
<1>3. before \in Seq(LotSet(C)) /\ Units(before) = Shares!Unexplained(Units(lots))
  BY <1>2, UnknownUnits
<1> HIDE DEF before, C
<1>4. /\ after \in Seq(LotSet(C))
      /\ Units(after) = Units(before) \o Shares!Shares(row + 1, n, FALSE)
  <2> DEFINE id == row + 1
             known == FALSE
             none == 0
  <2>1. id \in Nat /\ known \in BOOLEAN /\ none \in C
    BY <1>2
  <2> HIDE DEF id, known, none
  <2>2. /\ Append(before, Lot(id, n, known, none)) \in Seq(LotSet(C))
        /\ Units(Append(before, Lot(id, n, known, none)))
             = Units(before) \o Shares!Shares(id, n, known)
    BY <1>3, <2>1, NewLot
  <2> QED
    BY <2>2 DEF id, known, none
<1> HIDE DEF after
<1>5. LedgerInv' /\ lots' = after /\ UNCHANGED outcome /\ row + 1 \in 1 .. MaxRowCount
  BY <1>1, <1>4, MovedStep DEF C
<1> QED
  BY <1>3, <1>4, <1>5 DEF Shares!Arrive

\* Shares that go elsewhere: the oldest, and what is left is not explained.
LEMMA OutStep ==
  ASSUME LedgerInv, NEW n \in 1 .. MaxQuantity, OutRow(n)
  PROVE  LedgerInv' /\ Shares!Depart(n)
<1> DEFINE before == Unknown(lots)
           after == Consumption(n, before).kept
           C == {0, group}
           u == Units(lots)
<1>1. Moved(after)
  BY DEF OutRow
<1>2. lots \in Seq(LotSet(C)) /\ n \in Nat
  BY DEF LedgerInv
<1>3. before \in Seq(LotSet(C)) /\ Units(before) = Shares!Unexplained(u) /\ u \in Seq(Share)
  BY <1>2, UnknownUnits, UnitsType
<1> HIDE DEF before, C
<1>4. Consumption(n, before) \in Passes(C) /\ Units(after) = Shares!Left(Units(before), n)
  BY <1>2, <1>3, ConsumptionUnits
<1>5. after \in Seq(LotSet(C))
  BY <1>4, PassParts
<1> HIDE DEF after
<1>6. LedgerInv' /\ lots' = after /\ UNCHANGED outcome
  BY <1>1, <1>5, MovedStep DEF C
<1>7. Shares!Left(Shares!Unexplained(u), n) = Shares!Unexplained(Shares!Left(u, n))
  BY <1>2, <1>3, UnexplainedLeft
<1> QED
  BY <1>3, <1>4, <1>6, <1>7 DEF Shares!Depart

\* A split into twice as many shares.
LEMMA DoubleStep ==
  ASSUME LedgerInv, SplitRow(2 * Held(lots))
  PROVE  LedgerInv' /\ Shares!Double
<1> DEFINE old == Held(lots)
           C == {0, group}
           E == LotSet(C)
           g == [x \in E |-> Twice(x)]
           after == [i \in DOMAIN lots |-> [lots[i] EXCEPT !.remaining = (@ * (2 * old)) \div old]]
<1>1. old > 0 /\ Moved(after)
  BY DEF SplitRow
<1>2. lots \in Seq(E)
  BY DEF LedgerInv
<1>3. old \in Nat
  BY <1>2, HeldType
<1>4. DOMAIN lots = 1 .. Len(lots) /\ \A i \in 1 .. Len(lots) : lots[i] \in E
  BY <1>2, LenProperties, ElementOfSeq
<1> HIDE DEF old, C
<1>5. ASSUME NEW i \in DOMAIN lots
      PROVE  [lots[i] EXCEPT !.remaining = (@ * (2 * old)) \div old] = Twice(lots[i])
  <2>1. lots[i].remaining \in Nat
    BY <1>4, LotParts
  <2>2. (lots[i].remaining * (2 * old)) \div old = 2 * lots[i].remaining
    BY <1>1, <1>3, <2>1, DoubleShare
  <2> QED
    BY <2>2 DEF Twice
<1>6. after = [i \in DOMAIN lots |-> Twice(lots[i])]
  BY <1>5
<1>7. after = Mapped(g, lots)
  BY <1>4, <1>6 DEF Mapped
<1> HIDE DEF after
<1>8. after \in Seq(E) /\ Units(after) = Shares!Doubled(Units(lots))
  BY <1>2, <1>7, DoubledUnits
<1>9. LedgerInv' /\ lots' = after /\ UNCHANGED outcome
  BY <1>1, <1>8, MovedStep DEF C
<1> QED
  BY <1>8, <1>9 DEF Shares!Double

\* A split into half as many shares: only when every lot comes out whole.
LEMMA HalveStep ==
  ASSUME LedgerInv, Held(lots) % 2 = 0, SplitRow(Held(lots) \div 2)
  PROVE  LedgerInv' /\ Shares!Halve
<1> DEFINE old == Held(lots)
           h == old \div 2
           C == {0, group}
           E == EvenLots(C)
           g == [x \in E |-> Half(x)]
           after == [i \in DOMAIN lots |-> [lots[i] EXCEPT !.remaining = (@ * h) \div old]]
<1>1. /\ old > 0 /\ Moved(after)
      /\ \A i \in DOMAIN lots : (lots[i].remaining * h) % old = 0
  BY DEF SplitRow
<1>2. lots \in Seq(LotSet(C))
  BY DEF LedgerInv
<1>3. h \in Nat /\ h > 0 /\ old = 2 * h
  <2>1. old \in Nat /\ old % 2 = 0
    BY <1>2, HeldType
  <2> HIDE DEF old
  <2> QED
    BY <1>1, <2>1
<1>4. DOMAIN lots = 1 .. Len(lots) /\ \A i \in 1 .. Len(lots) : lots[i] \in LotSet(C)
  BY <1>2, LenProperties, ElementOfSeq
<1> HIDE DEF old, h, C
<1>5. ASSUME NEW i \in DOMAIN lots
      PROVE  /\ lots[i] \in E
             /\ [lots[i] EXCEPT !.remaining = (@ * h) \div old] = Half(lots[i])
  <2> DEFINE r == lots[i].remaining
  <2>1. r \in Nat /\ lots[i] \in LotSet(C)
    BY <1>4, LotParts
  <2>2. (r * h) % (2 * h) = 0
    BY <1>1, <1>3
  <2> HIDE DEF r
  <2>3. r % 2 = 0 /\ (r * h) \div (2 * h) = r \div 2
    BY <1>3, <2>1, <2>2, HalveShare
  <2> QED
    BY <1>3, <2>1, <2>3 DEF Half, EvenLots, r
<1>6. lots \in Seq(E)
  <2> DEFINE n == Len(lots)
  <2>1. n \in Nat /\ lots \in [1 .. n -> LotSet(C)]
    BY <1>2, LenProperties
  <2>2. \A i \in 1 .. n : lots[i] \in E
    BY <1>4, <1>5
  <2> HIDE DEF n, E
  <2>3. lots \in [1 .. n -> E]
    BY <2>1, <2>2
  <2> QED
    BY <2>1, <2>3, FunctionSeq
<1>7. after = [i \in DOMAIN lots |-> Half(lots[i])]
  BY <1>5
<1>8. after = Mapped(g, lots)
  BY <1>5, <1>7 DEF Mapped
<1> HIDE DEF after
<1>9. /\ after \in Seq(LotSet(C))
      /\ Shares!Paired(Units(lots)) /\ Units(after) = Shares!Halved(Units(lots))
  BY <1>6, <1>8, HalvedUnits
<1>10. LedgerInv' /\ lots' = after /\ UNCHANGED outcome
  BY <1>1, <1>9, MovedStep DEF C
<1> QED
  BY <1>9, <1>10 DEF Shares!Halve

\* What the sale of the queue stands for.
sale == [shares |-> Units(outcome.allocations), missing |-> outcome.unallocated,
         explained |-> outcome.pnl]

\* Every row keeps the invariant and is a step of the queue; a stuttering step is one too.
LEMMA LedgerStep ==
  ASSUME LedgerInv, [LedgerNext]_ledgerVars
  PROVE  LedgerInv' /\ [Shares!QueueNext]_<<Units(lots), sale>>
<1>1. ASSUME NEW n \in 1 .. MaxQuantity, NEW priced \in BOOLEAN, BuyRow(n, priced)
      PROVE  LedgerInv' /\ Shares!QueueNext
  BY <1>1, BuyStep DEF Shares!QueueNext
<1>2. ASSUME NEW n \in 1 .. MaxQuantity, NEW priced \in BOOLEAN, SellRow(n, priced)
      PROVE  LedgerInv' /\ Shares!QueueNext
  BY <1>2, SellStep DEF Shares!QueueNext
<1>3. ASSUME NEW n \in 1 .. MaxQuantity, InRow(n)
      PROVE  LedgerInv' /\ Shares!QueueNext
  BY <1>3, InStep DEF Shares!QueueNext
<1>4. ASSUME NEW n \in 1 .. MaxQuantity, OutRow(n)
      PROVE  LedgerInv' /\ Shares!QueueNext
  BY <1>4, OutStep DEF Shares!QueueNext
<1>5. CASE SplitRow(2 * Held(lots))
  BY <1>5, DoubleStep DEF Shares!QueueNext
<1>6. CASE Held(lots) % 2 = 0 /\ SplitRow(Held(lots) \div 2)
  BY <1>6, HalveStep DEF Shares!QueueNext
<1>7. CASE UNCHANGED ledgerVars
  BY <1>7 DEF ledgerVars, LedgerInv, LastEventShowsHolding, sale
<1> QED
  BY <1>1, <1>2, <1>3, <1>4, <1>5, <1>6, <1>7 DEF LedgerNext

\* The empty ledger satisfies the invariant and is the empty queue.
LEMMA LedgerStart ==
  ASSUME LedgerInit
  PROVE  LedgerInv /\ Shares!QueueInit
<1>1. /\ row = 0 /\ lots = << >> /\ group = 0
      /\ last = [id |-> 0, group |-> 0, remaining |-> 0]
      /\ outcome = [allocations |-> << >>, unallocated |-> 0, pnl |-> FALSE]
  BY DEF LedgerInit
<1>2. << >> \in Seq(LotSet({0, group}))
  BY EmptySeq
<1>3. LedgerInv
  BY <1>1, <1>2, LedgerAssumption DEF LedgerInv, LastEventShowsHolding
<1>4. Shares!QueueInit
  BY <1>1, UnitsEmpty DEF Shares!QueueInit, Shares!NoSale
<1> QED
  BY <1>3, <1>4

-----------------------------------------------------------------------------
(* The theorems. *)

\* In every state the invariant holds.
THEOREM LedgerInvariant == LedgerSpec => []LedgerInv
<1>1. LedgerInit => LedgerInv
  BY LedgerStart
<1>2. LedgerInv /\ [LedgerNext]_ledgerVars => LedgerInv'
  BY LedgerStep
<1> QED
  BY <1>1, <1>2, PTL DEF LedgerSpec

\* The last event of the current group always shows what is held: what the journal
\* reads to tell whether a cycle is over (trade_ledger.py).
THEOREM HoldingShown == LedgerSpec => []LastEventShowsHolding
<1>1. LedgerInv => LastEventShowsHolding
  BY DEF LedgerInv
<1> QED
  BY <1>1, LedgerInvariant, PTL

\* Together with the refinement: the last event shows the length of the queue.
THEOREM HoldingIsQueue == LedgerSpec => [](group # 0 => last.remaining = Len(Units(lots)))
<1>1. LedgerInv => (group # 0 => last.remaining = Len(Units(lots)))
  <2> SUFFICES ASSUME LedgerInv, group # 0 PROVE last.remaining = Len(Units(lots))
    OBVIOUS
  <2>1. lots \in Seq(LotSet({0, group})) /\ last.remaining = Held(lots)
    BY DEF LedgerInv, LastEventShowsHolding
  <2> QED
    BY <2>1, HeldUnits
<1> QED
  BY <1>1, LedgerInvariant, PTL

\* The open lots that were bought belong to the current group, so that a sale never uses
\* a buy of another cycle.
THEOREM CyclesSeparated == LedgerSpec => []CyclesAreSeparate
<1>1. LedgerInv => CyclesAreSeparate
  <2> SUFFICES ASSUME LedgerInv PROVE CyclesAreSeparate
    OBVIOUS
  <2>1. lots \in Seq(LotSet({0, group}))
    BY DEF LedgerInv
  <2>2. DOMAIN lots = 1 .. Len(lots) /\ \A i \in 1 .. Len(lots) : lots[i] \in LotSet({0, group})
    BY <2>1, LenProperties, ElementOfSeq
  <2> QED
    BY <2>2 DEF CyclesAreSeparate, LotSet
<1> QED
  BY <1>1, LedgerInvariant, PTL

\* The ledger of lots is a queue of single shares, for every number of rows, shares and
\* splits: every row of allocate_trades is one step of the queue.
THEOREM LedgerIsAQueue == LedgerSpec => ImplementsShareQueue
<1>1. LedgerInit => Shares!QueueInit
  BY LedgerStart
<1>2. LedgerInv /\ [LedgerNext]_ledgerVars => [Shares!QueueNext]_<<Units(lots), sale>>
  BY LedgerStep
<1> QED
  BY <1>1, <1>2, LedgerInvariant, PTL DEF LedgerSpec, ImplementsShareQueue, Shares!QueueSpec, sale
=============================================================================
