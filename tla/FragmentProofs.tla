--------------------------- MODULE FragmentProofs ---------------------------
(***************************************************************************)
(* Proofs about Fragment, for any texts, sizes, damages and bounds.        *)
(***************************************************************************)
EXTENDS Fragment, SequenceTheorems, FiniteSetTheorems, WellFoundedInduction, TLAPS

(***************************************************************************)
(* Induction, as a statement about sets: the least number outside S would  *)
(* follow one inside it.                                                   *)
(***************************************************************************)

LEMMA SetInduction ==
  ASSUME NEW S, 0 \in S, \A n \in Nat : n \in S => n + 1 \in S
  PROVE  Nat \subseteq S
<1> DEFINE T == Nat \ S
           R == OpToRel(<, Nat)
<1> SUFFICES ASSUME T # {} PROVE FALSE
  OBVIOUS
<1>1. PICK x \in T : \A y \in T : ~(<<y, x>> \in R)
  BY NatLessThanWellFounded, WFMin, T \subseteq Nat
<1>2. \A y \in T : ~(y < x)
  BY <1>1 DEF OpToRel
<1>3. x \in Nat /\ x # 0 /\ x - 1 \in Nat /\ x - 1 < x
  OBVIOUS
<1>4. x - 1 \in S
  BY <1>2, <1>3
<1>5. x \in S
  BY <1>3, <1>4
<1> QED
  BY <1>5

LEMMA IntervalInduction ==
  ASSUME NEW n \in Nat, NEW S, 1 \in S, \A i \in 1 .. n - 1 : i \in S => i + 1 \in S
  PROVE  1 .. n \subseteq S
<1> DEFINE T == {m \in Nat : m \in 1 .. n => m \in S}
<1>1. 0 \in T
  OBVIOUS
<1>2. ASSUME NEW m \in Nat, m \in T PROVE m + 1 \in T
  <2>1. CASE m = 0
    BY <2>1
  <2>2. CASE m \in 1 .. n - 1
    BY <1>2, <2>2
  <2>3. CASE m >= n
    BY <2>3
  <2> QED
    BY <2>1, <2>2, <2>3
<1> HIDE DEF T
<1>3. Nat \subseteq T
  BY <1>1, <1>2, SetInduction
<1> QED
  BY <1>3 DEF T

-----------------------------------------------------------------------------
(***************************************************************************)
(* join_fragments: what FlattenSeq computes.                               *)
(***************************************************************************)

\* f is the sequence of the partial results.
Flattens(f, s, n) == f = [i \in 1 .. n |-> IF i = 1 THEN s[i] ELSE f[i - 1] \o s[i]]

LEMMA FlattensExists ==
  ASSUME NEW s, NEW n \in Nat
  PROVE  \E f : Flattens(f, s, n)
<1> DEFINE S == {m \in Nat : \E f : Flattens(f, s, m)}
<1>1. 0 \in S
  <2>1. Flattens([i \in 1 .. 0 |-> 0], s, 0)
    BY DEF Flattens
  <2> QED
    BY <2>1
<1>2. ASSUME NEW m \in Nat, m \in S PROVE m + 1 \in S
  <2>1. PICK f : Flattens(f, s, m)
    BY <1>2
  <2> DEFINE g == [i \in 1 .. m + 1 |->
                     IF i \in 1 .. m THEN f[i] ELSE IF i = 1 THEN s[i] ELSE f[m] \o s[i]]
             h == [i \in 1 .. m + 1 |-> IF i = 1 THEN s[i] ELSE g[i - 1] \o s[i]]
  <2>2. ASSUME NEW i \in 1 .. m + 1 PROVE g[i] = h[i]
    <3>1. CASE i \in 1 .. m
      <4>1. g[i] = f[i] /\ (i # 1 => g[i - 1] = f[i - 1])
        BY <3>1
      <4>2. f[i] = IF i = 1 THEN s[i] ELSE f[i - 1] \o s[i]
        BY <2>1, <3>1 DEF Flattens
      <4> QED
        BY <4>1, <4>2
    <3>2. CASE i = m + 1
      BY <3>2
    <3> QED
      BY <3>1, <3>2
  <2>3. g = [i \in 1 .. m + 1 |-> g[i]] /\ h = [i \in 1 .. m + 1 |-> h[i]]
    OBVIOUS
  <2>4. g = h
    <3> HIDE DEF g, h
    <3> QED
      BY <2>2, <2>3, Zenon
  <2>5. Flattens(g, s, m + 1)
    <3> HIDE DEF g
    <3> QED
      BY <2>4 DEF Flattens
  <2>6. \E x : Flattens(x, s, m + 1)
    <3> HIDE DEF g
    <3> QED
      BY <2>5
  <2> QED
    BY <2>6
<1> HIDE DEF S
<1>3. n \in S
  BY <1>1, <1>2, SetInduction
<1> QED
  BY <1>3 DEF S

\* The partial results, and the last one.
LEMMA FlattenSteps ==
  ASSUME NEW s \in Seq(Seq(Chars)), s # <<>>
  PROVE  \E g \in [1 .. Len(s) -> Seq(Chars)] :
           /\ g[1] = s[1]
           /\ \A i \in 1 .. Len(s) - 1 : g[i + 1] = g[i] \o s[i + 1]
           /\ FlattenSeq(s) = g[Len(s)]
<1> DEFINE n == Len(s)
<1>1. n \in Nat /\ n > 0 /\ \A i \in 1 .. n : s[i] \in Seq(Chars)
  OBVIOUS
<1> DEFINE g == CHOOSE f : Flattens(f, s, n)
<1>2. Flattens(g, s, n)
  BY <1>1, FlattensExists
<1>3. FlattenSeq(s) = g[n]
  BY <1>1 DEF FlattenSeq, Flattens
<1> HIDE DEF g, n
<1>4. /\ g[1] = s[1]
      /\ \A i \in 1 .. n - 1 : g[i + 1] = g[i] \o s[i + 1]
  <2>1. \A k \in 1 .. n : g[k] = IF k = 1 THEN s[k] ELSE g[k - 1] \o s[k]
    BY <1>2, Zenon DEF Flattens
  <2>2. g[1] = s[1]
    BY <1>1, <2>1
  <2>3. ASSUME NEW i \in 1 .. n - 1 PROVE g[i + 1] = g[i] \o s[i + 1]
    <3>1. i + 1 \in 1 .. n /\ i + 1 # 1 /\ (i + 1) - 1 = i
      BY <1>1
    <3> QED
      BY <2>1, <3>1
  <2> QED
    BY <2>2, <2>3
<1> DEFINE S == {i \in 1 .. n : g[i] \in Seq(Chars)}
<1>5. 1 \in S
  BY <1>1, <1>4
<1>6. ASSUME NEW i \in 1 .. n - 1, i \in S PROVE i + 1 \in S
  <2>1. i + 1 \in 1 .. n /\ i \in 1 .. n
    BY <1>1
  <2>2. g[i] \in Seq(Chars) /\ s[i + 1] \in Seq(Chars)
    BY <1>1, <1>6, <2>1
  <2>3. g[i] \o s[i + 1] \in Seq(Chars)
    BY <2>2, ConcatProperties, Zenon
  <2> QED
    BY <1>4, <2>1, <2>3
<1>7. 1 .. n \subseteq S
  <2> HIDE DEF S
  <2> QED
    BY <1>1, <1>5, <1>6, IntervalInduction
<1>8. g \in [1 .. n -> Seq(Chars)]
  BY <1>2, <1>7 DEF Flattens
<1> QED
  BY <1>3, <1>4, <1>8 DEF n

\* a are the partial sums of x.
Sums(a, x, n) ==
  /\ x \in [1 .. n -> Nat] /\ a \in [1 .. n -> Nat]
  /\ a[1] = x[1]
  /\ \A i \in 1 .. n - 1 : a[i + 1] = a[i] + x[i + 1]

DifferOnlyAt(j, x, y, n) == \A i \in 1 .. n : i # j => y[i] = x[i]

\* Partial sums of which one summand is missing.
LEMMA PartialSums ==
  ASSUME NEW n \in Nat, NEW j \in 1 .. n, NEW x, NEW y, NEW a, NEW b,
         Sums(a, x, n), Sums(b, y, n),
         x[j] = 0, DifferOnlyAt(j, x, y, n)
  PROVE  b[n] = a[n] + y[j]
<1> USE DEF Sums, DifferOnlyAt
<1> DEFINE S == {i \in 1 .. n : b[i] = IF i < j THEN a[i] ELSE a[i] + y[j]}
<1>1. 1 \in S
  OBVIOUS
<1>2. ASSUME NEW i \in 1 .. n - 1, i \in S PROVE i + 1 \in S
  <2>1. i \in 1 .. n /\ i + 1 \in 1 .. n
    OBVIOUS
  <2>2. a[i] \in Nat /\ x[i + 1] \in Nat /\ y[j] \in Nat /\ y[i + 1] \in Nat /\ b[i] \in Nat
    BY <2>1
  <2>3. a[i + 1] = a[i] + x[i + 1] /\ b[i + 1] = b[i] + y[i + 1]
    OBVIOUS
  <2>4. b[i] = IF i < j THEN a[i] ELSE a[i] + y[j]
    BY <1>2
  <2>5. CASE i + 1 = j
    <3>1. i < j /\ ~(i + 1 < j) /\ x[i + 1] = 0 /\ y[i + 1] = y[j]
      BY <2>5
    <3>2. b[i + 1] = a[i + 1] + y[j]
      BY <2>2, <2>3, <2>4, <3>1
    <3>3. b[i + 1] = IF i + 1 < j THEN a[i + 1] ELSE a[i + 1] + y[j]
      BY <3>1, <3>2, Zenon
    <3> QED
      BY <2>1, <3>3, Zenon
  <2>6. CASE i + 1 # j
    <3>1. y[i + 1] = x[i + 1]
      BY <2>1, <2>6
    <3>2. CASE i + 1 < j
      <4>1. b[i] = a[i]
        BY <2>4, <3>2
      <4>2. b[i + 1] = a[i + 1]
        BY <2>2, <2>3, <3>1, <4>1
      <4> QED
        BY <2>1, <3>2, <4>2
    <3>3. CASE ~(i + 1 < j)
      <4>1. b[i] = a[i] + y[j]
        BY <2>4, <2>6, <3>3
      <4>2. b[i + 1] = a[i + 1] + y[j]
        BY ONLY <2>2, <2>3, <3>1, <4>1
      <4> QED
        BY <2>1, <3>3, <4>2, Zenon
    <3> QED
      BY <3>2, <3>3
  <2> QED
    BY <2>5, <2>6
<1>3. 1 .. n \subseteq S
  <2> HIDE DEF S
  <2> QED
    BY <1>1, <1>2, IntervalInduction
<1> QED
  BY <1>3

\* The lengths of the partial results are the partial sums of the lengths.
LEMMA FlattenLengths ==
  ASSUME NEW s \in Seq(Seq(Chars)), s # <<>>, NEW n, n = Len(s)
  PROVE  LET x == [i \in 1 .. n |-> Len(s[i])]
         IN  \E a : Sums(a, x, n) /\ Len(FlattenSeq(s)) = a[n]
<1> DEFINE x == [i \in 1 .. n |-> Len(s[i])]
<1>1. n \in Nat /\ n > 0
  OBVIOUS
<1>2. \A i \in 1 .. n : s[i] \in Seq(Chars) /\ Len(s[i]) \in Nat
  BY LenProperties
<1>3. PICK g \in [1 .. n -> Seq(Chars)] :
        /\ g[1] = s[1]
        /\ \A i \in 1 .. n - 1 : g[i + 1] = g[i] \o s[i + 1]
        /\ FlattenSeq(s) = g[n]
  BY FlattenSteps
<1> DEFINE a == [i \in 1 .. n |-> Len(g[i])]
<1>4. x \in [1 .. n -> Nat]
  BY <1>2
<1>5. a \in [1 .. n -> Nat]
  BY LenProperties
<1>6. a[1] = x[1]
  BY <1>1, <1>3
<1>7. ASSUME NEW i \in 1 .. n - 1 PROVE a[i + 1] = a[i] + x[i + 1]
  <2>1. i \in 1 .. n /\ i + 1 \in 1 .. n
    BY <1>1
  <2>2. g[i] \in Seq(Chars) /\ s[i + 1] \in Seq(Chars)
    BY <1>2, <2>1
  <2>3. Len(g[i] \o s[i + 1]) = Len(g[i]) + Len(s[i + 1])
    BY <2>2, ConcatProperties, Zenon
  <2>4. a[i + 1] = Len(g[i + 1]) /\ a[i] = Len(g[i]) /\ x[i + 1] = Len(s[i + 1])
    BY <2>1
  <2>5. g[i + 1] = g[i] \o s[i + 1]
    BY <1>3
  <2> QED
    BY <2>3, <2>4, <2>5, Zenon
<1>8. Len(FlattenSeq(s)) = a[n]
  BY <1>1, <1>3
<1> HIDE DEF a, x
<1>9. Sums(a, x, n)
  BY <1>4, <1>5, <1>6, <1>7 DEF Sums
<1> QED
  BY <1>8, <1>9, Zenon DEF x

\* A piece more makes the text longer by this piece.
LEMMA FlattenLonger ==
  ASSUME NEW s \in Seq(Seq(Chars)), NEW t \in Seq(Seq(Chars)),
         NEW j \in 1 .. Len(s), Len(t) = Len(s), s[j] = <<>>,
         \A i \in 1 .. Len(s) : i # j => t[i] = s[i]
  PROVE  Len(FlattenSeq(t)) = Len(FlattenSeq(s)) + Len(t[j])
<1> DEFINE n == Len(s)
           x == [i \in 1 .. n |-> Len(s[i])]
           y == [i \in 1 .. n |-> Len(t[i])]
<1>1. n \in Nat /\ j \in 1 .. n
  BY LenProperties
<1>2. s # <<>> /\ t # <<>>
  BY <1>1, EmptySeq
<1>3. PICK a : Sums(a, x, n) /\ Len(FlattenSeq(s)) = a[n]
  BY <1>2, FlattenLengths, Zenon
<1>4. PICK b : Sums(b, y, n) /\ Len(FlattenSeq(t)) = b[n]
  BY <1>2, FlattenLengths, Zenon
<1>5. x[j] = 0 /\ y[j] = Len(t[j])
  BY <1>1, EmptySeq
<1>6. DifferOnlyAt(j, x, y, n)
  BY DEF DifferOnlyAt
<1> HIDE DEF n, x, y
<1>7. n \in Nat
  BY <1>1
<1>8. j \in 1 .. n
  BY <1>1
<1>9. Sums(a, x, n)
  BY <1>3
<1>10. Sums(b, y, n)
  BY <1>4
<1>11. x[j] = 0
  BY <1>5
<1>12. b[n] = a[n] + y[j]
  BY ONLY <1>7, <1>8, <1>9, <1>10, <1>11, <1>6, PartialSums
<1> QED
  BY <1>3, <1>4, <1>5, <1>12

\* A context without pieces has no text.
LEMMA FlattenNothing ==
  ASSUME NEW s \in Seq(Seq(Chars)), \A i \in 1 .. Len(s) : s[i] = <<>>
  PROVE  Len(FlattenSeq(s)) = 0
<1>1. CASE s = <<>>
  BY <1>1, EmptySeq DEF FlattenSeq
<1>2. CASE s # <<>>
  <2> DEFINE n == Len(s)
  <2>1. n \in Nat /\ n > 0 /\ \A i \in 1 .. n : s[i] = <<>>
    BY <1>2
  <2>2. PICK g \in [1 .. n -> Seq(Chars)] :
          /\ g[1] = s[1]
          /\ \A i \in 1 .. n - 1 : g[i + 1] = g[i] \o s[i + 1]
          /\ FlattenSeq(s) = g[n]
    BY <1>2, FlattenSteps
  <2> HIDE DEF n
  <2> DEFINE S == {i \in 1 .. n : g[i] = <<>>}
  <2>3. 1 \in S
    BY <2>1, <2>2
  <2>4. ASSUME NEW i \in 1 .. n - 1, i \in S PROVE i + 1 \in S
    <3>1. i + 1 \in 1 .. n
      BY <2>1
    <3>2. g[i + 1] = <<>> \o <<>>
      BY <2>1, <2>2, <2>4, <3>1
    <3>3. <<>> \o <<>> = <<>>
      BY ConcatEmptySeq, EmptySeq, Zenon
    <3> QED
      BY <3>1, <3>2, <3>3
  <2>5. 1 .. n \subseteq S
    <3> HIDE DEF S
    <3> QED
      BY <2>1, <2>3, <2>4, IntervalInduction
  <2>6. FlattenSeq(s) = <<>>
    BY <2>1, <2>2, <2>5
  <2> QED
    BY <2>6, EmptySeq
<1> QED
  BY <1>1, <1>2

-----------------------------------------------------------------------------
(***************************************************************************)
(* otrng_fragment_message: no piece is empty, and together they are the    *)
(* text.                                                                   *)
(***************************************************************************)

LEMMA Quotient ==
  ASSUME NEW a \in Nat, NEW b \in Nat, b > 0
  PROVE  /\ a \div b \in Nat
         /\ (a \div b) * b <= a
         /\ a < (a \div b) * b + b
  OBVIOUS

LEMMA TimesMonotonic ==
  ASSUME NEW a \in Nat, NEW b \in Nat, NEW c \in Nat, a <= b
  PROVE  a * c <= b * c
<1>1. (b - a) * c >= 0 /\ b * c = a * c + (b - a) * c
  OBVIOUS
<1> QED
  BY <1>1

Total(max_size, text) == (Len(text) - 1) \div Limit(max_size, Len(text)) + 1

Start(max_size, text, i) == (i - 1) * Limit(max_size, Len(text))

\* Piece i begins behind Start(i) and ends where the next one begins.
LEMMA Cuts ==
  ASSUME NEW size \in Sizes, NEW text \in Texts
  PROVE  LET n == Total(size, text)
             c(i) == Start(size, text, i)
             limit == Limit(size, Len(text))
         IN  /\ n \in Nat \ {0} /\ limit \in Nat \ {0}
             /\ c(1) = 0
             /\ \A i \in 1 .. n : c(i) \in Nat /\ c(i) < Len(text) /\ c(i) < c(i + 1)
             /\ \A i \in 1 .. n : c(i + 1) = i * limit
             /\ \A i \in 1 .. n - 1 : c(i + 1) < Len(text)
             /\ c(n + 1) >= Len(text)
<1> DEFINE len == Len(text)
           limit == Limit(size, len)
           n == Total(size, text)
           c(i) == Start(size, text, i)
<1>1. len \in Nat \ {0}
  BY TextsAssumption
<1>2. limit \in Nat \ {0}
  BY <1>1, SizesAssumption DEF Limit, HeaderLen
<1>3. n = (len - 1) \div limit + 1 /\ \A i : c(i) = (i - 1) * limit
  BY DEF Total, Start
<1> HIDE DEF len, limit, n, c
<1> DEFINE q == (len - 1) \div limit
<1>4. q \in Nat /\ q * limit <= len - 1 /\ len - 1 < q * limit + limit
  BY <1>1, <1>2, Quotient
<1> HIDE DEF q
<1>5. n = q + 1
  BY <1>3 DEF q
<1>6. c(1) = 0
  BY <1>2, <1>3
<1>7. ASSUME NEW i \in 1 .. n
      PROVE  /\ c(i) \in Nat /\ c(i + 1) = i * limit /\ c(i + 1) = c(i) + limit
             /\ c(i) < len
  <2>1. i \in Nat /\ i - 1 \in Nat /\ i - 1 <= q
    BY <1>4, <1>5
  <2>2. (i - 1) * limit <= q * limit
    BY <1>2, <1>4, <2>1, TimesMonotonic
  <2>3. (i - 1) * limit \in Nat /\ i * limit = (i - 1) * limit + limit /\ (i + 1) - 1 = i
    BY <1>2, <2>1
  <2>4. q * limit \in Nat
    BY <1>2, <1>4
  <2> QED
    BY <1>1, <1>3, <1>4, <2>2, <2>3, <2>4
<1>8. \A i \in 1 .. n - 1 : i + 1 \in 1 .. n
  BY <1>4, <1>5
<1>9. c(n + 1) >= len
  <2>1. c(n + 1) = (q + 1) * limit
    BY <1>3, <1>4, <1>5
  <2>2. (q + 1) * limit = q * limit + limit /\ q * limit \in Nat
    BY <1>2, <1>4
  <2> QED
    BY <1>1, <1>2, <1>4, <2>1, <2>2
<1>10. n \in Nat \ {0}
  BY <1>4, <1>5
<1>11. \A i \in 1 .. n : c(i) \in Nat /\ c(i) < len /\ c(i) < c(i + 1) /\ c(i + 1) = i * limit
  BY <1>2, <1>7
<1>12. \A i \in 1 .. n - 1 : c(i + 1) < len
  BY <1>8, <1>11
<1> QED
  BY <1>2, <1>6, <1>9, <1>10, <1>11, <1>12 DEF len, limit, n, c

\* Where piece i ends.
End(max_size, text, i) ==
  IF i * Limit(max_size, Len(text)) < Len(text)
    THEN i * Limit(max_size, Len(text)) ELSE Len(text)

LEMMA PiecesType ==
  ASSUME NEW size \in Sizes, NEW text \in Texts
  PROVE  LET P == Pieces(size, text)
         IN  /\ P \in Seq(Seq(Chars))
             /\ Len(P) = Total(size, text)
             /\ Len(P) \in Nat \ {0}
             /\ \A i \in 1 .. Len(P) :
                  /\ P[i] = SubSeq(text, Start(size, text, i) + 1, End(size, text, i))
                  /\ P[i] \in Seq(Chars)
                  /\ P[i] # <<>>
                  /\ \A n \in 1 .. Len(P[i]) : \E m \in DOMAIN text : P[i][n] = text[m]
<1> DEFINE n == Total(size, text)
           c(i) == Start(size, text, i)
           e(i) == End(size, text, i)
           P == Pieces(size, text)
<1>1. P = [i \in 1 .. n |-> SubSeq(text, c(i) + 1, e(i))]
  BY DEF Pieces, Total, Start, End
<1>2. Len(text) \in Nat \ {0} /\ text \in Seq(Chars)
  BY TextsAssumption
<1>3. /\ n \in Nat \ {0}
      /\ \A i \in 1 .. n : /\ c(i) \in Nat /\ c(i) < Len(text) /\ e(i) \in Nat
                           /\ c(i) < e(i) /\ e(i) <= Len(text)
  BY <1>2, Cuts DEF End
<1> HIDE DEF n, c, e, P
<1>4. ASSUME NEW i \in 1 .. n
      PROVE  /\ P[i] = SubSeq(text, c(i) + 1, e(i))
             /\ P[i] \in Seq(Chars)
             /\ P[i] # <<>>
             /\ \A k \in 1 .. Len(P[i]) : \E m \in DOMAIN text : P[i][k] = text[m]
  <2>1. P[i] = SubSeq(text, c(i) + 1, e(i))
    BY <1>1
  <2>2. c(i) + 1 \in Int /\ e(i) \in Int /\ c(i) + 1 <= e(i)
        /\ c(i) + 1 \in Nat \ {0}
    BY <1>3
  <2>3. \A k \in c(i) + 1 .. e(i) : k \in DOMAIN text /\ text[k] \in Chars
    BY <1>2, <1>3
  <2>4. /\ P[i] \in Seq(Chars)
        /\ Len(P[i]) = e(i) - (c(i) + 1) + 1
        /\ \A k \in 1 .. e(i) - (c(i) + 1) + 1 : P[i][k] = text[c(i) + 1 + k - 1]
    BY <2>1, <2>2, <2>3, SubSeqProperties
  <2>5. P[i] # <<>>
    BY <2>2, <2>4, EmptySeq
  <2>6. ASSUME NEW k \in 1 .. Len(P[i]) PROVE \E m \in DOMAIN text : P[i][k] = text[m]
    <3>1. c(i) + 1 + k - 1 \in c(i) + 1 .. e(i)
      BY <2>2, <2>4
    <3>2. P[i][k] = text[c(i) + 1 + k - 1]
      BY <2>4
    <3> QED
      BY <2>3, <3>1, <3>2
  <2> QED
    BY <2>1, <2>4, <2>5, <2>6
<1>5. P \in Seq(Seq(Chars)) /\ Len(P) = n
  <2>1. P \in [1 .. n -> Seq(Chars)]
    BY <1>1, <1>4
  <2>2. n \in Nat
    BY <1>3
  <2> QED
    BY ONLY <2>1, <2>2
<1> QED
  BY <1>3, <1>4, <1>5 DEF n, c, e, P

LEMMA PiecesJoined ==
  ASSUME NEW size \in Sizes, NEW text \in Texts
  PROVE  FlattenSeq(Pieces(size, text)) = text
<1> DEFINE n == Total(size, text)
           c(i) == Start(size, text, i)
           e(i) == End(size, text, i)
           P == Pieces(size, text)
<1>1. /\ P \in Seq(Seq(Chars)) /\ Len(P) = n /\ n \in Nat \ {0}
      /\ \A i \in 1 .. n : P[i] = SubSeq(text, c(i) + 1, e(i)) 
  BY PiecesType
<1>2. Len(text) \in Nat \ {0} /\ text \in Seq(Chars)
  BY TextsAssumption
<1>3. /\ c(1) = 0
      /\ \A i \in 1 .. n : /\ c(i) \in Nat /\ c(i) < Len(text) /\ e(i) \in Nat
                           /\ c(i) < e(i) /\ e(i) <= Len(text)
      /\ \A i \in 1 .. n - 1 : e(i) = c(i + 1)
      /\ e(n) = Len(text)
  <2> DEFINE limit == Limit(size, Len(text))
  <2>1. /\ limit \in Nat \ {0}
        /\ c(1) = 0
        /\ \A i \in 1 .. n : c(i) \in Nat /\ c(i) < Len(text) /\ c(i) < c(i + 1)
        /\ \A i \in 1 .. n : c(i + 1) = i * limit
        /\ \A i \in 1 .. n - 1 : c(i + 1) < Len(text)
        /\ c(n + 1) >= Len(text)
    BY Cuts
  <2>2. \A i : e(i) = IF i * limit < Len(text) THEN i * limit ELSE Len(text)
    BY DEF End
  <2> HIDE DEF limit, c, e, n
  <2>3. \A i \in 1 .. n : e(i) = IF c(i + 1) < Len(text) THEN c(i + 1) ELSE Len(text)
    BY <2>1, <2>2
  <2>4. n \in 1 .. n /\ \A i \in 1 .. n - 1 : i \in 1 .. n /\ i + 1 \in 1 .. n
    BY <1>1
  <2>5. \A i \in 1 .. n - 1 : e(i) = c(i + 1)
    BY <2>1, <2>3, <2>4
  <2>6. e(n) = Len(text)
    BY <1>2, <2>1, <2>3, <2>4
  <2>7. ASSUME NEW i \in 1 .. n
        PROVE  /\ c(i) \in Nat /\ c(i) < Len(text) /\ e(i) \in Nat
               /\ c(i) < e(i) /\ e(i) <= Len(text)
    <3>1. CASE i = n
      BY <1>2, <2>1, <2>6, <3>1
    <3>2. CASE i # n
      <4>1. i \in 1 .. n - 1
        BY <1>1, <3>2
      <4> QED
        BY <1>2, <2>1, <2>4, <2>5, <4>1
    <3> QED
      BY <3>1, <3>2
  <2> QED
    BY <2>1, <2>5, <2>6, <2>7
<1> HIDE DEF n, c, e, P
<1>4. P # <<>>
  BY <1>1, EmptySeq
<1>5. PICK g \in [1 .. n -> Seq(Chars)] :
        /\ g[1] = P[1]
        /\ \A i \in 1 .. n - 1 : g[i + 1] = g[i] \o P[i + 1]
        /\ FlattenSeq(P) = g[n]
  BY <1>1, <1>4, FlattenSteps
<1> DEFINE S == {i \in 1 .. n : g[i] = SubSeq(text, 1, e(i))}
<1>6. 1 \in S
  <2>1. 1 \in 1 .. n /\ c(1) + 1 = 1
    BY <1>1, <1>3
  <2>2. g[1] = SubSeq(text, 1, e(1))
    BY <1>1, <1>5, <2>1
  <2> QED
    BY <2>1, <2>2
<1>7. ASSUME NEW i \in 1 .. n - 1, i \in S PROVE i + 1 \in S
  <2>1. i \in 1 .. n /\ i + 1 \in 1 .. n
    BY <1>1
  <2>2. g[i + 1] = SubSeq(text, 1, e(i)) \o SubSeq(text, e(i) + 1, e(i + 1))
    BY <1>1, <1>3, <1>5, <1>7, <2>1
  <2>3. /\ 1 \in 1 .. Len(text) + 1
        /\ e(i) \in 1 - 1 .. Len(text)
        /\ e(i + 1) \in e(i) .. Len(text)
    BY <1>2, <1>3, <2>1
  <2>4. g[i + 1] = SubSeq(text, 1, e(i + 1))
    BY <1>2, <2>2, <2>3, ConcatAdjacentSubSeq
  <2> QED
    BY <2>1, <2>4
<1>8. 1 .. n \subseteq S
  <2> HIDE DEF S
  <2> QED
    BY <1>1, <1>6, <1>7, IntervalInduction
<1>9. g[n] = SubSeq(text, 1, Len(text))
  BY <1>1, <1>3, <1>8
<1>10. SubSeq(text, 1, Len(text)) = text
  BY <1>2, SubSeqFull, Zenon
<1> QED
  BY <1>5, <1>9, <1>10 DEF P

-----------------------------------------------------------------------------
(***************************************************************************)
(* Reading a piece up to its first comma.                                  *)
(***************************************************************************)

LEMMA First ==
  ASSUME NEW T, T \subseteq Nat, T # {}
  PROVE  \E n \in T : \A k \in T : n <= k
<1>1. PICK n \in T : \A y \in T : ~(<<y, n>> \in OpToRel(<, Nat))
  BY NatLessThanWellFounded, WFMin
<1>2. \A y \in T : ~(y < n)
  BY <1>1 DEF OpToRel
<1> QED
  BY <1>2

LEMMA ParsedType ==
  ASSUME NEW text \in Seq(Chars)
  PROVE  Parsed(text) \in Seq(Chars) /\ Len(Parsed(text)) \in Nat
<1>1. CASE \E n \in DOMAIN text : text[n] = Comma
  <2> DEFINE T == {n \in DOMAIN text : text[n] = Comma}
             IsFirst(n) == text[n] = Comma /\ \A k \in 1 .. n - 1 : text[k] # Comma
             m == CHOOSE n \in DOMAIN text : IsFirst(n)
  <2>1. DOMAIN text = 1 .. Len(text) /\ Len(text) \in Nat
    BY LenProperties
  <2>2. T \subseteq Nat /\ T # {}
    BY <1>1, <2>1
  <2>3. PICK n \in T : \A k \in T : n <= k
    <3> HIDE DEF T
    <3> QED
      BY <2>2, First
  <2>4. IsFirst(n) /\ n \in DOMAIN text
    BY <2>1, <2>3
  <2>5. m \in DOMAIN text
    <3> HIDE DEF IsFirst
    <3> QED
      BY <2>4, Zenon
  <2>6. Parsed(text) = SubSeq(text, 1, m - 1)
    BY <1>1 DEF Parsed
  <2> HIDE DEF m
  <2>7. \A k \in 1 .. m - 1 : text[k] \in Chars
    BY <2>1, <2>5
  <2>8. SubSeq(text, 1, m - 1) \in Seq(Chars)
    BY <2>1, <2>5, <2>7, SubSeqProperties
  <2> QED
    BY <2>6, <2>8, LenProperties
<1>2. CASE ~\E n \in DOMAIN text : text[n] = Comma
  <2>1. Parsed(text) = <<>>
    BY <1>2 DEF Parsed, NoPiece
  <2> QED
    BY <2>1, EmptySeq
<1> QED
  BY <1>1, <1>2

\* A piece without a comma is read whole.
LEMMA ParsedPiece ==
  ASSUME NEW p \in Seq(Chars), \A n \in 1 .. Len(p) : p[n] # Comma
  PROVE  Parsed(Append(p, Comma)) = p
<1> DEFINE t == Append(p, Comma)
           l == Len(p)
           IsFirst(n) == t[n] = Comma /\ \A k \in 1 .. n - 1 : t[k] # Comma
           m == CHOOSE n \in DOMAIN t : IsFirst(n)
<1>1. /\ t \in Seq(Chars) /\ Len(t) = l + 1 /\ l \in Nat
      /\ \A i \in 1 .. l : t[i] = p[i]
      /\ t[l + 1] = Comma
  <2>1. Comma \in Chars
    BY CharsAssumption
  <2>2. l \in Nat
    BY LenProperties
  <2> QED
    BY <2>1, <2>2, AppendProperties, ZenonT(40)
<1>2. DOMAIN t = 1 .. l + 1
  BY <1>1, LenProperties
<1>3. \A n \in 1 .. l : p[n] # Comma
  OBVIOUS
<1> HIDE DEF t, l
<1>4. l + 1 \in DOMAIN t /\ IsFirst(l + 1)
  BY <1>1, <1>2, <1>3
<1>5. m \in DOMAIN t /\ IsFirst(m)
  <2> HIDE DEF IsFirst
  <2> QED
    BY <1>4, Zenon
<1>6. Parsed(t) = SubSeq(t, 1, m - 1)
  BY <1>4 DEF Parsed
<1> HIDE DEF m
<1>7. m = l + 1
  BY <1>1, <1>2, <1>3, <1>5
<1>8. m - 1 = l
  BY <1>1, <1>7
<1>9. \A i \in 1 .. l : t[i] \in Chars
  BY <1>1, <1>2
<1>10. /\ SubSeq(t, 1, l) \in Seq(Chars)
       /\ Len(SubSeq(t, 1, l)) = l
       /\ \A i \in 1 .. l : SubSeq(t, 1, l)[i] = t[i]
  BY <1>1, <1>9, SubSeqProperties
<1>11. SubSeq(t, 1, l) = p
  BY <1>1, <1>10, SeqEqual DEF l
<1> QED
  BY <1>6, <1>8, <1>11 DEF t

-----------------------------------------------------------------------------
(***************************************************************************)
(* The inductive invariant.  Its parts take the state they speak about as  *)
(* parameters: S the messages sent, W the wire, C the contexts.            *)
(***************************************************************************)

SentMessage == [text : Texts, to : Tags, total : Nat \ {0}]

\* The pieces that a context has.
Got(c) == {i \in DOMAIN c.fragments : c.fragments[i] # NoPiece}

\* The contexts of message x.
Of(C, x) == {C[k] : k \in {j \in DOMAIN C : C[j].identifier = x}}

Unique(C) ==
  \A j, k \in DOMAIN C :
    C[j].identifier = C[k].identifier /\ C[j].identifier # 0 => j = k

\* What damage may do to a piece.
PieceOK(f, S) ==
  /\ f \in Piece
  /\ f.identifier \in DOMAIN S
  /\ f.receiver_tag = S[f.identifier].to
  /\ f.damage = "cut" => f.text = NoPiece
  /\ f.damage # "cut" => Len(f.text) > 1
  /\ f.damage = "index" => f.index > f.total
  /\ f.damage # "index" => f.index \in 1 .. S[f.identifier].total
  /\ f.total = IF f.damage = "total" THEN S[f.identifier].total + 1
                                     ELSE S[f.identifier].total

\* A context counts its pieces and their bytes, and waits for at least one more.
ContextOK(c, S) ==
  /\ c.total_message_len = Len(Joined(c))
  /\ c.count = Cardinality(Got(c))
  /\ c.identifier = 0 => c = InitContext
  /\ c.identifier # 0 =>
       /\ c.identifier \in DOMAIN S
       /\ Len(c.fragments) = c.total
       /\ c.total \in {S[c.identifier].total, S[c.identifier].total + 1}
       /\ Got(c) \subseteq 1 .. S[c.identifier].total
       /\ c.count \in 1 .. c.total - 1

\* The texts on the wire and in the contexts are those of the message cut up
\* for this size.
CutFor(x, size, S, W, C) ==
  LET P == Pieces(size, S[x].text)
  IN  /\ S[x].total = Len(P)
      /\ \A f \in W : f.identifier = x /\ f.damage \in {"none", "total"}
                        => f.text = Append(P[f.index], Comma)
      /\ \A c \in Of(C, x) : \A i \in Got(c) :
           c.fragments[i] = Parsed(Append(P[i], Comma))

\* Nothing of message x was lost: what has arrived waits in a context with the
\* right total, or the message was handed up.
KeptAt(x, S, C, H, A) ==
  /\ \A c \in Of(C, x) : c.total = S[x].total
  /\ \/ \E n \in DOMAIN H : H[n].id = x
     \/ \A i \in Nat : <<x, i>> \in A => \E c \in Of(C, x) : i \in Got(c)

Expected(x, S, Sp) == S[x].to # "other" /\ IsEncoded(S[x].text) /\ x \notin Sp

SentInv == sent \in Seq(SentMessage) /\ Len(sent) <= MaxSent

ClockInv == now \in 0 .. MaxTime /\ faults \in 0 .. MaxFaults

WireInv == \A f \in wire : PieceOK(f, sent)

ContextsInv ==
  /\ contexts \in Seq(FragmentContext)
  /\ Unique(contexts)
  /\ \A k \in DOMAIN contexts : ContextOK(contexts[k], sent)

TextsInv == \A x \in DOMAIN sent : \E size \in Sizes : CutFor(x, size, sent, wire, contexts)

Handed(S) == [id : DOMAIN S, text : Seq(Chars)]

HistoryInv ==
  /\ handed \in Seq(Handed(sent))
  /\ arrived \subseteq (DOMAIN sent) \X Nat

LostInv ==
  \A x \in DOMAIN sent : Expected(x, sent, spoiled) => KeptAt(x, sent, contexts, handed, arrived)

Inv ==
  SentInv /\ ClockInv /\ WireInv /\ ContextsInv /\ TextsInv /\ HistoryInv /\ LostInv

-----------------------------------------------------------------------------
(***************************************************************************)
(* The list of contexts: what opening, replacing and removing one does to  *)
(* the contexts of each message.                                           *)
(***************************************************************************)

LEMMA RemoveAtProperties ==
  ASSUME NEW X, NEW s \in Seq(X), NEW k \in 1 .. Len(s)
  PROVE  /\ RemoveAt(s, k) \in Seq(X)
         /\ Len(RemoveAt(s, k)) = Len(s) - 1
         /\ \A i \in 1 .. Len(s) - 1 :
              RemoveAt(s, k)[i] = IF i < k THEN s[i] ELSE s[i + 1]
<1> DEFINE n == Len(s)
           a == SubSeq(s, 1, k - 1)
           b == SubSeq(s, k + 1, n)
<1>1. n \in Nat /\ k \in 1 .. n /\ \A i \in 1 .. n : s[i] \in X
  BY LenProperties, ElementOfSeq
<1> HIDE DEF n
<1>2. /\ a \in Seq(X) /\ Len(a) = k - 1
      /\ \A i \in 1 .. k - 1 : a[i] = s[i]
  <2>1. 1 \in Int /\ k - 1 \in Int /\ \A i \in 1 .. k - 1 : s[i] \in X
    BY <1>1
  <2>2. /\ a \in Seq(X) /\ Len(a) = IF 1 <= k - 1 THEN k - 1 - 1 + 1 ELSE 0
        /\ \A i \in 1 .. k - 1 - 1 + 1 : a[i] = s[1 + i - 1]
    BY <2>1, SubSeqProperties
  <2> HIDE DEF a
  <2> QED
    BY <1>1, <2>2
<1>3. /\ b \in Seq(X) /\ Len(b) = n - k
      /\ \A i \in 1 .. n - k : b[i] = s[k + i]
  <2>1. k + 1 \in Int /\ n \in Int /\ \A i \in k + 1 .. n : s[i] \in X
    BY <1>1
  <2>2. /\ b \in Seq(X) /\ Len(b) = IF k + 1 <= n THEN n - (k + 1) + 1 ELSE 0
        /\ \A i \in 1 .. n - (k + 1) + 1 : b[i] = s[k + 1 + i - 1]
    BY <2>1, SubSeqProperties
  <2> HIDE DEF b
  <2> QED
    BY <1>1, <2>2
<1>4. RemoveAt(s, k) = a \o b
  BY DEF RemoveAt, n
<1> HIDE DEF a, b
<1>5. /\ a \o b \in Seq(X) /\ Len(a \o b) = Len(a) + Len(b)
      /\ \A i \in 1 .. Len(a) + Len(b) : (a \o b)[i] = IF i <= Len(a) THEN a[i] ELSE b[i - Len(a)]
  BY <1>2, <1>3, ConcatProperties, Zenon
<1>6. Len(a) + Len(b) = n - 1
  BY <1>1, <1>2, <1>3
<1>7. ASSUME NEW i \in 1 .. n - 1
      PROVE  (a \o b)[i] = IF i < k THEN s[i] ELSE s[i + 1]
  <2>1. CASE i < k
    <3>1. i <= Len(a) /\ i \in 1 .. k - 1 /\ i \in 1 .. Len(a) + Len(b)
      BY <1>1, <1>2, <1>6, <2>1
    <3>2. (a \o b)[i] = a[i] /\ a[i] = s[i]
      BY <1>2, <1>5, <3>1
    <3> QED
      BY <2>1, <3>2
  <2>2. CASE ~(i < k)
    <3>1. ~(i <= Len(a)) /\ i - (k - 1) \in 1 .. n - k /\ k + (i - (k - 1)) = i + 1
          /\ i \in 1 .. Len(a) + Len(b)
      BY <1>1, <1>2, <1>6, <2>2
    <3>2. (a \o b)[i] = b[i - Len(a)]
      BY <1>5, <3>1
    <3>3. b[i - (k - 1)] = s[i + 1]
      BY <1>3, <3>1
    <3> QED
      BY <1>2, <2>2, <3>2, <3>3
  <2> QED
    BY <2>1, <2>2
<1> QED
  BY <1>4, <1>5, <1>6, <1>7 DEF n

LEMMA RemovedContext ==
  ASSUME NEW C \in Seq(FragmentContext), Unique(C), NEW k \in 1 .. Len(C)
  PROVE  LET D == RemoveAt(C, k)
         IN  /\ D \in Seq(FragmentContext) /\ Unique(D)
             /\ \A i \in DOMAIN D : \E j \in DOMAIN C : D[i] = C[j]
             /\ \A x : x # C[k].identifier => Of(D, x) = Of(C, x)
             /\ C[k].identifier # 0 => Of(D, C[k].identifier) = {}
<1> DEFINE n == Len(C)
           D == RemoveAt(C, k)
           At(i) == IF i < k THEN i ELSE i + 1
<1>1. n \in Nat /\ k \in 1 .. n /\ DOMAIN C = 1 .. n
  BY LenProperties
<1>2. /\ D \in Seq(FragmentContext) /\ Len(D) = n - 1
      /\ \A i \in 1 .. n - 1 : D[i] = IF i < k THEN C[i] ELSE C[i + 1]
  BY RemoveAtProperties, Zenon
<1>3. DOMAIN D = 1 .. n - 1
  BY <1>2, LenProperties
<1> HIDE DEF n, D
<1>4. \A i \in 1 .. n - 1 : At(i) \in 1 .. n /\ At(i) # k /\ D[i] = C[At(i)]
  BY <1>1, <1>2
<1>5. \A i, j \in 1 .. n - 1 : At(i) = At(j) => i = j
  BY <1>1
<1>6. \A j \in 1 .. n : j # k => \E i \in 1 .. n - 1 : At(i) = j
  <2> SUFFICES ASSUME NEW j \in 1 .. n, j # k PROVE \E i \in 1 .. n - 1 : At(i) = j
    OBVIOUS
  <2>1. CASE j < k
    <3>1. j \in 1 .. n - 1 /\ At(j) = j
      BY <1>1, <2>1
    <3> QED
      BY <3>1
  <2>2. CASE ~(j < k)
    <3>1. j - 1 \in 1 .. n - 1 /\ At(j - 1) = j
      BY <1>1, <2>2
    <3> QED
      BY <3>1
  <2> QED
    BY <2>1, <2>2
<1> HIDE DEF At
<1>7. Unique(D)
  <2> SUFFICES ASSUME NEW i \in 1 .. n - 1, NEW j \in 1 .. n - 1,
                      D[i].identifier = D[j].identifier, D[i].identifier # 0
               PROVE  i = j
    BY <1>3 DEF Unique
  <2>1. At(i) \in 1 .. n /\ At(j) \in 1 .. n /\ D[i] = C[At(i)] /\ D[j] = C[At(j)]
    BY <1>4
  <2>2. At(i) = At(j)
    BY <1>1, <2>1 DEF Unique
  <2> QED
    BY <1>5, <2>2
<1>8. ASSUME NEW x, x # C[k].identifier PROVE Of(D, x) = Of(C, x)
  <2>1. ASSUME NEW c, c \in Of(D, x) PROVE c \in Of(C, x)
    <3>1. PICK i \in 1 .. n - 1 : c = D[i] /\ D[i].identifier = x
      BY <1>3, <2>1 DEF Of
    <3> QED
      BY <1>1, <1>4, <3>1 DEF Of
  <2>2. ASSUME NEW c, c \in Of(C, x) PROVE c \in Of(D, x)
    <3>1. PICK j \in 1 .. n : c = C[j] /\ C[j].identifier = x
      BY <1>1, <2>2 DEF Of
    <3>2. j # k
      BY <1>8, <3>1
    <3>3. PICK i \in 1 .. n - 1 : At(i) = j
      BY <1>6, <3>2
    <3>4. D[i] = c /\ i \in DOMAIN D
      BY <1>3, <1>4, <3>1, <3>3
    <3> QED
      BY <3>1, <3>4 DEF Of
  <2> QED
    BY <2>1, <2>2
<1>9. ASSUME C[k].identifier # 0 PROVE Of(D, C[k].identifier) = {}
  <2> SUFFICES ASSUME NEW i \in 1 .. n - 1, D[i].identifier = C[k].identifier
               PROVE  FALSE
    BY <1>3 DEF Of
  <2>1. At(i) \in DOMAIN C /\ At(i) # k /\ C[At(i)].identifier = C[k].identifier /\ k \in DOMAIN C
    BY <1>1, <1>4
  <2> QED
    BY <1>9, <2>1 DEF Unique
<1>10. \A i \in DOMAIN D : \E j \in DOMAIN C : D[i] = C[j]
  BY <1>1, <1>3, <1>4
<1> QED
  BY <1>2, <1>7, <1>8, <1>9, <1>10 DEF D

\* D is C with the context at k updated or reset.
Replaces(D, C, k, c) ==
  /\ C \in Seq(FragmentContext) /\ Unique(C)
  /\ k \in 1 .. Len(C) /\ C[k].identifier # 0
  /\ c \in FragmentContext /\ c.identifier \in {0, C[k].identifier}
  /\ D = [C EXCEPT ![k] = c]

LEMMA ReplacedContext ==
  ASSUME NEW C, NEW k, NEW c, NEW D, Replaces(D, C, k, c)
  PROVE  /\ D \in Seq(FragmentContext) /\ Unique(D)
         /\ \A i \in DOMAIN D : D[i] = c \/ \E j \in DOMAIN C : j # k /\ D[i] = C[j]
         /\ \A x : x # C[k].identifier /\ x # 0 => Of(D, x) = Of(C, x)
         /\ c.identifier = 0 => Of(D, C[k].identifier) = {}
         /\ c.identifier # 0 => Of(D, C[k].identifier) = {c}
<1> USE DEF Replaces
<1>1. Len(C) \in Nat /\ DOMAIN C = 1 .. Len(C)
  BY LenProperties
<1>2. /\ D \in Seq(FragmentContext) /\ Len(D) = Len(C)
      /\ \A j \in 1 .. Len(C) : D[j] = IF j = k THEN c ELSE C[j]
  BY ExceptSeq
<1>3. DOMAIN D = DOMAIN C
  BY <1>1, <1>2, LenProperties
<1>4. D[k] = c /\ \A j \in DOMAIN C : j # k => D[j] = C[j]
  BY <1>1, <1>2
<1>5. k \in DOMAIN C
  BY <1>1
<1>6. \A j \in DOMAIN C : C[j].identifier = C[k].identifier => j = k
  BY <1>5 DEF Unique
<1>7. Unique(D)
  <2> SUFFICES ASSUME NEW i \in DOMAIN C, NEW j \in DOMAIN C,
                      D[i].identifier = D[j].identifier, D[i].identifier # 0
               PROVE  i = j
    BY <1>3 DEF Unique
  <2>1. CASE i # k /\ j # k
    BY <1>4, <2>1 DEF Unique
  <2>2. CASE i = k /\ j # k
    BY <1>4, <1>6, <2>2
  <2>3. CASE i # k /\ j = k
    BY <1>4, <1>6, <2>3
  <2> QED
    BY <2>1, <2>2, <2>3
<1>8. ASSUME NEW x, x # C[k].identifier, x # 0 PROVE Of(D, x) = Of(C, x)
  <2>1. \A j \in DOMAIN C : D[j].identifier = x \/ C[j].identifier = x => j # k /\ D[j] = C[j]
    BY <1>4, <1>8
  <2> QED
    BY <1>3, <2>1 DEF Of
<1>9. \A j \in DOMAIN D : D[j].identifier = C[k].identifier => j = k /\ D[j] = c
  BY <1>3, <1>4, <1>6
<1>10. c.identifier = 0 => Of(D, C[k].identifier) = {}
  BY <1>9 DEF Of
<1>11. c.identifier # 0 => Of(D, C[k].identifier) = {c}
  BY <1>3, <1>4, <1>5, <1>9 DEF Of
<1>12. \A i \in DOMAIN D : D[i] = c \/ \E j \in DOMAIN C : j # k /\ D[i] = C[j]
  BY <1>3, <1>4
<1> QED
  BY <1>2, <1>7, <1>8, <1>10, <1>11, <1>12

NewContext(id) == [InitContext EXCEPT !.identifier = id]

LEMMA NewContextType ==
  ASSUME NEW id \in 0 .. MaxSent
  PROVE  /\ NewContext(id) \in FragmentContext
         /\ NewContext(id).identifier = id
         /\ NewContext(id).total = 0 /\ NewContext(id).count = 0
         /\ NewContext(id).total_message_len = 0
         /\ NewContext(id).fragments = <<>>
<1>1. MaxTime \in Nat
  BY BoundsAssumption
<1>2. <<>> \in Seq(Seq(Chars))
  BY EmptySeq, Zenon
<1>3. 0 \in Nat /\ 0 \in 0 .. MaxTime
  BY <1>1
<1>4. NewContext(id) = [identifier |-> id, total |-> 0, count |-> 0,
                        last_fragment_received_at |-> 0,
                        total_message_len |-> 0, fragments |-> <<>>]
  BY DEF NewContext, InitContext
<1>5. NewContext(id) \in FragmentContext
  BY ONLY <1>2, <1>3, <1>4, id \in 0 .. MaxSent DEF FragmentContext
<1> QED
  BY <1>4, <1>5

LEMMA OpenedContext ==
  ASSUME contexts \in Seq(FragmentContext), Unique(contexts),
         NEW f, f.identifier \in 1 .. MaxSent
  PROVE  LET W == WithContext(f)
             k == ContextOf(f)
         IN  /\ W \in Seq(FragmentContext) /\ Unique(W)
             /\ k \in 1 .. Len(W) /\ W[k].identifier = f.identifier
             /\ \A x : x # f.identifier => Of(W, x) = Of(contexts, x)
             /\ \A i \in DOMAIN W : i = k \/ \E j \in DOMAIN contexts : W[i] = contexts[j]
             /\ \/ /\ Of(contexts, f.identifier) = {W[k]}
                   /\ k \in DOMAIN contexts /\ W = contexts
                \/ /\ Of(contexts, f.identifier) = {}
                   /\ W[k] = NewContext(f.identifier)
<1> DEFINE W == WithContext(f)
           k == ContextOf(f)
           n == Len(contexts)
           IsFirst(i) == /\ W[i].identifier = f.identifier
                         /\ \A j \in 1 .. i - 1 : W[j].identifier # f.identifier
<1>1. n \in Nat /\ DOMAIN contexts = 1 .. n /\ f.identifier # 0 /\ f.identifier \in 0 .. MaxSent
  BY LenProperties, BoundsAssumption
<1>2. k = CHOOSE i \in DOMAIN W : IsFirst(i)
  BY DEF ContextOf
<1>3. CASE \E j \in DOMAIN contexts : contexts[j].identifier = f.identifier
  <2>1. W = contexts
    BY <1>3 DEF WithContext
  <2>2. PICK j \in DOMAIN contexts : contexts[j].identifier = f.identifier
    BY <1>3
  <2>3. \A i \in DOMAIN contexts : contexts[i].identifier = f.identifier => i = j
    BY <1>1, <2>2 DEF Unique
  <2> HIDE DEF W, k
  <2>4. IsFirst(j)
    BY <1>1, <2>1, <2>2, <2>3
  <2>5. k \in DOMAIN W /\ IsFirst(k)
    <3> HIDE DEF IsFirst
    <3> QED
      BY <1>2, <2>1, <2>4, Zenon
  <2>6. k = j
    BY <2>1, <2>3, <2>5
  <2>7. Of(contexts, f.identifier) = {W[k]}
    BY <2>1, <2>2, <2>3, <2>6 DEF Of
  <2> QED
    BY <1>1, <2>1, <2>2, <2>6, <2>7, LenProperties DEF W, k
<1>4. CASE ~\E j \in DOMAIN contexts : contexts[j].identifier = f.identifier
  <2> DEFINE c == NewContext(f.identifier)
  <2>1. W = Append(contexts, c)
    BY <1>4 DEF WithContext, NewContext
  <2>2. c \in FragmentContext /\ c.identifier = f.identifier
    BY <1>1, NewContextType
  <2> HIDE DEF W, k, c
  <2>3. /\ W \in Seq(FragmentContext) /\ Len(W) = n + 1
        /\ \A i \in 1 .. n : W[i] = contexts[i]
        /\ W[n + 1] = c
    BY <2>1, <2>2, AppendProperties
  <2>4. DOMAIN W = 1 .. n + 1
    BY <2>3, LenProperties
  <2>5. \A i \in 1 .. n : W[i].identifier # f.identifier
    BY <1>1, <1>4, <2>3
  <2>6. IsFirst(n + 1) /\ n + 1 \in DOMAIN W
    BY <1>1, <2>2, <2>3, <2>4, <2>5
  <2>7. k \in DOMAIN W /\ IsFirst(k)
    <3> HIDE DEF IsFirst
    <3> QED
      BY <1>2, <2>6, Zenon
  <2>8. k = n + 1
    BY <1>1, <2>4, <2>5, <2>7
  <2>9. Of(contexts, f.identifier) = {}
    BY <1>4 DEF Of
  <2>10. ASSUME NEW x, x # f.identifier PROVE Of(W, x) = Of(contexts, x)
    <3>1. W[n + 1].identifier # x
      BY <2>2, <2>3, <2>10
    <3>2. \A i \in DOMAIN W : i \in 1 .. n \/ i = n + 1
      BY <1>1, <2>4
    <3>3. ASSUME NEW y, y \in Of(W, x) PROVE y \in Of(contexts, x)
      <4>1. PICK i \in DOMAIN W : y = W[i] /\ W[i].identifier = x
        BY <3>3 DEF Of
      <4>2. i \in 1 .. n
        BY <3>1, <3>2, <4>1
      <4> QED
        BY <1>1, <2>3, <4>1, <4>2 DEF Of
    <3>4. ASSUME NEW y, y \in Of(contexts, x) PROVE y \in Of(W, x)
      <4>1. PICK i \in 1 .. n : y = contexts[i] /\ contexts[i].identifier = x
        BY <1>1, <3>4 DEF Of
      <4>2. i \in DOMAIN W /\ W[i] = contexts[i]
        BY <1>1, <2>3, <2>4
      <4> QED
        BY <4>1, <4>2 DEF Of
    <3> QED
      BY <3>3, <3>4
  <2>11. Unique(W)
    <3> SUFFICES ASSUME NEW i \in DOMAIN W, NEW j \in DOMAIN W,
                        W[i].identifier = W[j].identifier, W[i].identifier # 0
                 PROVE  i = j
      BY DEF Unique
    <3>1. \A l \in DOMAIN W : l \in 1 .. n \/ l = n + 1
      BY <1>1, <2>4
    <3>2. CASE i \in 1 .. n /\ j \in 1 .. n
      BY <1>1, <2>3, <3>2 DEF Unique
    <3>3. CASE i = n + 1 \/ j = n + 1
      BY <2>2, <2>3, <2>5, <3>1, <3>3
    <3> QED
      BY <3>1, <3>2, <3>3
  <2>12. \A i \in DOMAIN W : i = k \/ \E j \in DOMAIN contexts : W[i] = contexts[j]
    BY <1>1, <2>3, <2>4, <2>8
  <2>13. k \in 1 .. Len(W) /\ W[k] = c
    BY <1>1, <2>3, <2>8
  <2> QED
    BY <2>2, <2>3, <2>9, <2>10, <2>11, <2>12, <2>13 DEF W, k, c
<1> QED
  BY <1>3, <1>4

LEMMA StoredContext ==
  ASSUME SentInv, ClockInv, NEW f, PieceOK(f, sent),
         ~IsMalformed(f), Parsed(f.text) # NoPiece,
         NEW c \in FragmentContext, c.identifier = f.identifier,
         c = NewContext(f.identifier) \/ ContextOK(c, sent),
         ~Conflicts(f, c)
  PROVE  LET d == Stored(c, f)
             t == sent[f.identifier].total
         IN  /\ d \in FragmentContext /\ d.identifier = f.identifier
             /\ d.total = f.total /\ Len(d.fragments) = f.total
             /\ d.total_message_len = Len(Joined(d))
             /\ f.index \in 1 .. t /\ f.index \notin Got(c) /\ Got(c) \subseteq 1 .. t
             /\ Got(d) = Got(c) \cup {f.index}
             /\ d.count = Cardinality(Got(d)) /\ d.count \in Nat \ {0}
             /\ d.fragments[f.index] = Parsed(f.text)
             /\ \A i \in Got(c) : d.fragments[i] = c.fragments[i]
             /\ c = NewContext(f.identifier) \/ c.total = f.total
<1> DEFINE d == Stored(c, f)
           t == sent[f.identifier].total
           p == Parsed(f.text)
           F == IF c.fragments = <<>> THEN [i \in 1 .. f.total |-> NoPiece] ELSE c.fragments
           G == [F EXCEPT ![f.index] = p]
<1>1. /\ f.identifier \in 1 .. MaxSent /\ f.index \in Nat \ {0} /\ f.total \in Nat \ {0}
      /\ f.text \in Seq(Chars)
  BY DEF PieceOK, Piece
<1>2. t \in Nat \ {0} /\ f.identifier \in DOMAIN sent
  <2>1. f.identifier \in DOMAIN sent
    BY DEF PieceOK
  <2>2. sent[f.identifier] \in SentMessage
    BY <2>1, ElementOfSeq, LenProperties DEF SentInv
  <2> QED
    BY <2>1, <2>2 DEF SentMessage
<1>3. f.index <= f.total
  BY <1>1 DEF IsMalformed
<1>4. f.damage # "index"
  BY <1>1, <1>3 DEF PieceOK
<1>5. f.index \in 1 .. t /\ f.total \in {t, t + 1}
  BY <1>4 DEF PieceOK
<1>6. p \in Seq(Chars) /\ Len(p) \in Nat /\ p # <<>>
  BY <1>1, ParsedType DEF NoPiece
<1>7. /\ F \in Seq(Seq(Chars)) /\ Len(F) = f.total
      /\ Len(FlattenSeq(F)) = c.total_message_len
      /\ Got(c) = {i \in 1 .. f.total : F[i] # NoPiece}
      /\ Got(c) \subseteq 1 .. t
      /\ c.count = Cardinality(Got(c))
      /\ F[f.index] = NoPiece
      /\ c = NewContext(f.identifier) \/ c.total = f.total
  <2>1. CASE c = NewContext(f.identifier)
    <3>1. c.fragments = <<>> /\ c.total_message_len = 0 /\ c.count = 0
      BY <1>1, <2>1, NewContextType, BoundsAssumption
    <3>2. F = [i \in 1 .. f.total |-> <<>>]
      BY <3>1 DEF NoPiece
    <3> HIDE DEF F
    <3>3. \A i \in 1 .. f.total : F[i] = <<>>
      BY <3>2
    <3>4. F \in [1 .. f.total -> Seq(Chars)]
      BY <3>2, EmptySeq
    <3>5. F \in Seq(Seq(Chars)) /\ Len(F) = f.total
      <4>1. f.total \in Nat
        BY <1>1
      <4> QED
        BY ONLY <3>4, <4>1
    <3>6. Len(FlattenSeq(F)) = 0
      BY <3>3, <3>5, FlattenNothing
    <3>7. Got(c) = {}
      BY <3>1 DEF Got
    <3>8. Cardinality({}) = 0
      BY FS_EmptySet, Zenon
    <3> QED
      BY <1>1, <1>3, <2>1, <3>1, <3>3, <3>5, <3>6, <3>7, <3>8 DEF NoPiece
  <2>2. CASE c # NewContext(f.identifier)
    <3>1. /\ c.total_message_len = Len(FlattenSeq(c.fragments))
          /\ c.count = Cardinality(Got(c))
          /\ Len(c.fragments) = c.total
          /\ c.total \in {t, t + 1}
          /\ Got(c) \subseteq 1 .. t
      BY <1>1, <2>2 DEF ContextOK, Joined
    <3>2. c.fragments \in Seq(Seq(Chars)) /\ DOMAIN c.fragments = 1 .. c.total
      BY <3>1, LenProperties DEF FragmentContext
    <3>3. c.fragments # <<>> /\ c.total = f.total
      BY <1>2, <3>1, EmptySeq DEF Conflicts
    <3>4. F = c.fragments
      BY <3>3
    <3>5. F[f.index] = NoPiece
      BY <3>3, <3>4 DEF Conflicts
    <3>6. Got(c) = {i \in 1 .. f.total : F[i] # NoPiece}
      BY <3>2, <3>3, <3>4 DEF Got
    <3> HIDE DEF F
    <3> QED
      BY <3>1, <3>2, <3>3, <3>4, <3>5, <3>6
  <2> QED
    BY <2>1, <2>2
<1>8. d = [c EXCEPT !.total = f.total, !.fragments = G,
                    !.total_message_len = @ + Len(p), !.count = @ + 1,
                    !.last_fragment_received_at = now]
  BY DEF Stored
<1> HIDE DEF F, p, d
<1>9. DOMAIN F = 1 .. f.total /\ f.index \in 1 .. f.total /\ f.index \in 1 .. Len(F)
  BY <1>1, <1>3, <1>7, LenProperties
<1>10. /\ G \in Seq(Seq(Chars)) /\ Len(G) = Len(F)
       /\ \A j \in 1 .. Len(F) : G[j] = IF j = f.index THEN p ELSE F[j]
  BY <1>6, <1>7, <1>9, ExceptSeq
<1> HIDE DEF G
<1>11. DOMAIN G = 1 .. f.total
  BY <1>7, <1>10, LenProperties
<1>12. Len(FlattenSeq(G)) = c.total_message_len + Len(p)
  <2>1. G[f.index] = p /\ F[f.index] = <<>>
    BY <1>7, <1>9, <1>10 DEF NoPiece
  <2>2. \A i \in 1 .. Len(F) : i # f.index => G[i] = F[i]
    BY <1>10
  <2>3. F \in Seq(Seq(Chars)) /\ G \in Seq(Seq(Chars)) /\ Len(G) = Len(F)
    BY <1>7, <1>10
  <2>4. Len(FlattenSeq(G)) = Len(FlattenSeq(F)) + Len(G[f.index])
    BY <1>9, <2>1, <2>2, <2>3, FlattenLonger, Zenon
  <2>5. Len(FlattenSeq(F)) = c.total_message_len
    BY <1>7
  <2> QED
    BY <2>1, <2>4, <2>5
<1>13. /\ d.identifier = c.identifier /\ d.total = f.total /\ d.fragments = G
       /\ d.total_message_len = c.total_message_len + Len(p) /\ d.count = c.count + 1
       /\ d.last_fragment_received_at = now
  BY <1>8 DEF FragmentContext
<1>14. d \in FragmentContext
  <2>1. /\ c.identifier \in 0 .. MaxSent /\ c.count + 1 \in Nat
        /\ c.total_message_len + Len(p) \in Nat /\ f.total \in Nat /\ now \in 0 .. MaxTime
    BY <1>1, <1>6, SMTT(30) DEF FragmentContext, ClockInv
  <2> QED
    BY ONLY <1>8, <1>10, <2>1, c \in FragmentContext DEF FragmentContext
<1>15. Got(d) = Got(c) \cup {f.index}
  <2>1. Got(d) = {i \in 1 .. f.total : G[i] # NoPiece}
    BY <1>11, <1>13 DEF Got
  <2>2. \A i \in 1 .. f.total : G[i] = IF i = f.index THEN p ELSE F[i]
    BY <1>7, <1>10
  <2> QED
    BY ONLY <1>6, <1>7, <1>9, <2>1, <2>2 DEF NoPiece
<1>16. f.index \notin Got(c)
  BY <1>7
<1>17. IsFiniteSet(Got(c)) /\ Cardinality(Got(c)) \in Nat
  <2>1. IsFiniteSet(1 .. t)
    <3>1. 1 \in Int /\ t \in Int
      BY <1>2
    <3> HIDE DEF t
    <3> QED
      BY <3>1, FS_Interval, Zenon
  <2> QED
    BY <1>7, <2>1, FS_Subset, FS_CardinalityType
<1>18. d.count = Cardinality(Got(d)) /\ d.count \in Nat \ {0}
  <2>1. Cardinality(Got(c) \cup {f.index}) = Cardinality(Got(c)) + 1
    BY <1>16, <1>17, FS_AddElement
  <2> QED
    BY <1>7, <1>13, <1>15, <1>17, <2>1
<1>19. \A i \in Got(c) : d.fragments[i] = c.fragments[i]
  <2> SUFFICES ASSUME NEW i \in Got(c) PROVE G[i] = c.fragments[i]
    BY <1>13
  <2>1. c.fragments # <<>>
    BY DEF Got
  <2>2. F = c.fragments
    BY <2>1 DEF F
  <2>3. i # f.index /\ i \in 1 .. Len(F)
    BY <1>7, <1>16
  <2> QED
    BY <1>10, <2>2, <2>3
<1>20. d.fragments[f.index] = p
  BY <1>9, <1>10, <1>13
<1>21. d.total_message_len = Len(Joined(d)) /\ Len(d.fragments) = f.total
  BY <1>7, <1>10, <1>12, <1>13 DEF Joined
<1> QED
  BY <1>5, <1>7, <1>13, <1>14, <1>15, <1>16, <1>18, <1>19, <1>20, <1>21 DEF d, p

-----------------------------------------------------------------------------
(***************************************************************************)
(* Every step keeps the invariant.                                         *)
(***************************************************************************)

LEMMA SentFacts ==
  ASSUME SentInv, NEW x \in DOMAIN sent
  PROVE  /\ x \in 1 .. MaxSent /\ x # 0
         /\ sent[x].text \in Texts /\ sent[x].to \in Tags /\ sent[x].total \in Nat \ {0}
<1>1. sent \in Seq(SentMessage) /\ DOMAIN sent = 1 .. Len(sent) /\ Len(sent) \in Nat
  BY LenProperties DEF SentInv
<1>2. sent[x] \in SentMessage
  BY <1>1, ElementOfSeq
<1>3. x \in 1 .. MaxSent /\ x # 0
  BY <1>1, BoundsAssumption DEF SentInv
<1> QED
  BY <1>2, <1>3 DEF SentMessage

LEMMA InvInit == Init => Inv
<1> SUFFICES ASSUME Init PROVE Inv
  OBVIOUS
<1> USE DEF Init
<1>1. SentInv
  BY BoundsAssumption, EmptySeq DEF SentInv
<1>2. ClockInv
  BY BoundsAssumption DEF ClockInv
<1>3. WireInv
  BY DEF WireInv
<1>4. ContextsInv
  BY EmptySeq DEF ContextsInv, Unique
<1>5. TextsInv
  BY DEF TextsInv
<1>6. HistoryInv
  <2>1. <<>> \in Seq(Handed(sent))
    BY EmptySeq, Zenon
  <2> QED
    BY <2>1 DEF HistoryInv
<1>7. LostInv
  BY DEF LostInv
<1> QED
  BY <1>1, <1>2, <1>3, <1>4, <1>5, <1>6, <1>7 DEF Inv

\* Pieces leave the wire, and what a context has comes from the wire or was
\* there before.
LEMMA TextsKept ==
  ASSUME TextsInv, sent' = sent, wire' \subseteq wire,
         \A x \in DOMAIN sent : \A c \in Of(contexts', x) : \A i \in Got(c) :
           \/ \E b \in Of(contexts, x) : i \in Got(b) /\ b.fragments[i] = c.fragments[i]
           \/ \E g \in wire : /\ g.identifier = x /\ g.damage \in {"none", "total"}
                              /\ g.index = i /\ c.fragments[i] = Parsed(g.text)
  PROVE  TextsInv'
<1> SUFFICES ASSUME NEW x \in DOMAIN sent
             PROVE  \E size \in Sizes : CutFor(x, size, sent, wire', contexts')
  BY DEF TextsInv
<1>1. PICK size \in Sizes : CutFor(x, size, sent, wire, contexts)
  BY DEF TextsInv
<1> DEFINE P == Pieces(size, sent[x].text)
<1>2. /\ sent[x].total = Len(P)
      /\ \A f \in wire : f.identifier = x /\ f.damage \in {"none", "total"}
                           => f.text = Append(P[f.index], Comma)
      /\ \A c \in Of(contexts, x) : \A i \in Got(c) :
           c.fragments[i] = Parsed(Append(P[i], Comma))
  BY <1>1, Zenon DEF CutFor
<1> HIDE DEF P
<1>3. ASSUME NEW c \in Of(contexts', x), NEW i \in Got(c)
      PROVE  c.fragments[i] = Parsed(Append(P[i], Comma))
  <2>1. CASE \E b \in Of(contexts, x) : i \in Got(b) /\ b.fragments[i] = c.fragments[i]
    BY <1>2, <2>1, ZenonT(40)
  <2>2. CASE \E g \in wire : /\ g.identifier = x /\ g.damage \in {"none", "total"}
                             /\ g.index = i /\ c.fragments[i] = Parsed(g.text)
    <3>1. PICK g \in wire : /\ g.identifier = x /\ g.damage \in {"none", "total"}
                            /\ g.index = i /\ c.fragments[i] = Parsed(g.text)
      BY <2>2
    <3>2. g.text = Append(P[g.index], Comma)
      BY <1>2, <3>1, Zenon
    <3> QED
      BY <3>1, <3>2
  <2> QED
    BY <1>3, <2>1, <2>2
<1>4. \A f \in wire' : f.identifier = x /\ f.damage \in {"none", "total"}
                         => f.text = Append(P[f.index], Comma)
  BY <1>2, Zenon
<1>5. CutFor(x, size, sent, wire', contexts')
  BY <1>2, <1>3, <1>4, Zenon DEF CutFor, P
<1> QED
  BY <1>5

\* A message whose contexts stay as they are is kept.
LEMMA KeptElsewhere ==
  ASSUME LostInv, HistoryInv, sent' = sent, spoiled \subseteq spoiled',
         NEW x \in DOMAIN sent, Expected(x, sent, spoiled'),
         Of(contexts', x) = Of(contexts, x),
         \A i \in Nat : <<x, i>> \in arrived' => <<x, i>> \in arrived,
         handed' = handed \/ \E h \in Handed(sent) : handed' = Append(handed, h)
  PROVE  KeptAt(x, sent, contexts', handed', arrived')
<1>1. Expected(x, sent, spoiled)
  BY DEF Expected
<1>2. KeptAt(x, sent, contexts, handed, arrived)
  BY <1>1 DEF LostInv
<1>3. ASSUME NEW n \in DOMAIN handed, handed[n].id = x
      PROVE  \E m \in DOMAIN handed' : handed'[m].id = x
  <2>1. CASE handed' = handed
    BY <1>3, <2>1
  <2>2. CASE \E h \in Handed(sent) : handed' = Append(handed, h)
    <3>1. PICK h \in Handed(sent) : handed' = Append(handed, h)
      BY <2>2
    <3>2. handed \in Seq(Handed(sent))
      BY DEF HistoryInv
    <3>3. DOMAIN handed = 1 .. Len(handed) /\ Len(handed) \in Nat
      BY <3>2, LenProperties
    <3>4. /\ handed' \in Seq(Handed(sent)) /\ Len(handed') = Len(handed) + 1
          /\ \A i \in 1 .. Len(handed) : handed'[i] = handed[i]
      BY <3>1, <3>2, AppendProperties
    <3>5. n \in DOMAIN handed' /\ handed'[n] = handed[n]
      BY <3>3, <3>4, LenProperties
    <3> QED
      BY <1>3, <3>5
  <2> QED
    BY <2>1, <2>2
<1> QED
  BY <1>2, <1>3 DEF KeptAt

\* More messages change nothing for those that were sent.
LEMMA SentGrows ==
  ASSUME NEW S, NEW T, DOMAIN S \subseteq DOMAIN T, \A x \in DOMAIN S : T[x] = S[x]
  PROVE  /\ \A f : PieceOK(f, S) => PieceOK(f, T)
         /\ \A c : ContextOK(c, S) => ContextOK(c, T)
<1>1. \A f : PieceOK(f, S) => PieceOK(f, T)
  BY DEF PieceOK
<1>2. \A c : ContextOK(c, S) => ContextOK(c, T)
  BY DEF ContextOK
<1> QED
  BY <1>1, <1>2

\* A message that was not sent has no context.
LEMMA NoContext ==
  ASSUME ContextsInv, NEW x, x \notin DOMAIN sent, x # 0
  PROVE  Of(contexts, x) = {}
  BY DEF ContextsInv, ContextOK, Of

LEMMA InvSend ==
  ASSUME Inv, NEW text \in Texts, NEW size \in Sizes, NEW to \in Tags,
         SendFragments(text, size, to)
  PROVE  Inv'
<1> DEFINE P == Pieces(size, text)
           id == Len(sent) + 1
           m == [text |-> text, to |-> to, total |-> Len(P)]
           g(i) == [identifier |-> id, receiver_tag |-> to, index |-> i,
                    total |-> Len(P), text |-> Append(P[i], Comma),
                    copy |-> 0, damage |-> "none"]
<1>1. /\ Len(sent) < MaxSent /\ sent' = Append(sent, m)
      /\ wire' = wire \cup {g(i) : i \in 1 .. Len(P)}
      /\ UNCHANGED <<contexts, handed, now, faults, arrived, spoiled>>
  BY DEF SendFragments
<1>2. /\ P \in Seq(Seq(Chars)) /\ Len(P) \in Nat \ {0}
      /\ \A i \in 1 .. Len(P) : P[i] \in Seq(Chars) /\ P[i] # <<>>
  BY PiecesType
<1>3. SentInv /\ ClockInv /\ WireInv /\ ContextsInv /\ TextsInv /\ HistoryInv /\ LostInv
  BY DEF Inv
<1>4. m \in SentMessage
  BY <1>2 DEF SentMessage
<1>5. sent \in Seq(SentMessage) /\ DOMAIN sent = 1 .. Len(sent) /\ Len(sent) \in Nat
  BY <1>3, LenProperties DEF SentInv
<1> HIDE DEF m, P
<1>6. /\ sent' \in Seq(SentMessage) /\ Len(sent') = id
      /\ \A x \in 1 .. Len(sent) : sent'[x] = sent[x]
      /\ sent'[id] = m
  BY <1>1, <1>4, <1>5, AppendProperties
<1>7. DOMAIN sent' = 1 .. id
  BY <1>6, LenProperties
<1>8. /\ DOMAIN sent \subseteq DOMAIN sent'
      /\ \A x \in DOMAIN sent : sent'[x] = sent[x]
      /\ \A x \in DOMAIN sent' : x \in DOMAIN sent \/ x = id
      /\ id \notin DOMAIN sent /\ id # 0 /\ id \in DOMAIN sent' /\ id \in 1 .. MaxSent
  BY <1>1, <1>5, <1>6, <1>7, BoundsAssumption
<1>9. sent'[id].text = text /\ sent'[id].to = to /\ sent'[id].total = Len(P)
  BY <1>6 DEF m
<1> HIDE DEF id
<1>10. SentInv'
  <2>1. Len(sent') <= MaxSent
    BY <1>6, <1>8, BoundsAssumption
  <2> QED
    BY <1>6, <2>1 DEF SentInv
<1>11. ClockInv'
  BY <1>1, <1>3 DEF ClockInv
<1>12. WireInv'
  <2>1. ASSUME NEW i \in 1 .. Len(P) PROVE PieceOK(g(i), sent')
    <3>1. Append(P[i], Comma) \in Seq(Chars) /\ Len(Append(P[i], Comma)) = Len(P[i]) + 1
      BY <1>2, CharsAssumption, AppendProperties
    <3>2. Len(P[i]) \in Nat \ {0}
      BY <1>2, EmptySeq
    <3>3. g(i) \in Piece
      <4>1. id \in 1 .. MaxSent /\ i \in Nat \ {0} /\ Len(P) \in Nat \ {0}
        BY <1>2, <1>8
      <4> QED
        BY ONLY <3>1, <4>1, to \in Tags DEF Piece
    <3>4. /\ g(i).identifier = id /\ g(i).receiver_tag = to /\ g(i).index = i
          /\ g(i).total = Len(P) /\ g(i).text = Append(P[i], Comma) /\ g(i).damage = "none"
      OBVIOUS
    <3> HIDE DEF g
    <3>5. Len(Append(P[i], Comma)) > 1
      BY <3>1, <3>2
    <3> QED
      BY <1>8, <1>9, <3>3, <3>4, <3>5 DEF PieceOK
  <2> HIDE DEF g
  <2>2. \A f \in wire : PieceOK(f, sent')
    BY <1>3, <1>8, SentGrows, Zenon DEF WireInv
  <2> QED
    BY <1>1, <2>1, <2>2 DEF WireInv
<1>13. ContextsInv'
  <2>1. \A c : ContextOK(c, sent) => ContextOK(c, sent')
    BY <1>8, SentGrows, Zenon
  <2> QED
    BY <1>1, <1>3, <2>1 DEF ContextsInv
<1>14. Of(contexts, id) = {}
  BY <1>3, <1>8, NoContext
<1>15. ASSUME NEW x \in DOMAIN sent'
       PROVE  \E sz \in Sizes : CutFor(x, sz, sent', wire', contexts)
  <2>1. CASE x = id
    <3>1. Pieces(size, sent'[id].text) = P
      BY <1>9 DEF P
    <3>2. ASSUME NEW f \in wire', f.identifier = id PROVE f.text = Append(P[f.index], Comma)
      <4>1. f \notin wire
        BY <1>3, <1>8, <3>2 DEF WireInv, PieceOK
      <4>2. PICK i \in 1 .. Len(P) : f = g(i)
        BY <1>1, <4>1
      <4> QED
        BY <4>2
    <3>3. CutFor(id, size, sent', wire', contexts)
      BY <1>9, <1>14, <3>1, <3>2 DEF CutFor
    <3> QED
      BY <2>1, <3>3
  <2>2. CASE x \in DOMAIN sent
    <3>1. PICK sz \in Sizes : CutFor(x, sz, sent, wire, contexts)
      BY <1>3, <2>2 DEF TextsInv
    <3>2. \A f \in wire' : f.identifier = x => f \in wire
      <4>1. \A i : g(i).identifier = id
        OBVIOUS
      <4> HIDE DEF g
      <4> QED
        BY <1>1, <1>8, <2>2, <4>1
    <3>3. sent'[x] = sent[x]
      BY <1>8, <2>2
    <3>4. CutFor(x, sz, sent', wire', contexts)
      BY <3>1, <3>2, <3>3, Zenon DEF CutFor
    <3> QED
      BY <3>4
  <2> QED
    BY <1>8, <2>1, <2>2
<1>16. TextsInv'
  BY <1>1, <1>15 DEF TextsInv
<1>17. HistoryInv'
  <2>1. Handed(sent) \subseteq Handed(sent')
    BY <1>8 DEF Handed
  <2>2. handed \in Seq(Handed(sent'))
    BY <1>3, <2>1, SeqMonotonic, Zenon DEF HistoryInv
  <2>3. arrived \subseteq (DOMAIN sent') \X Nat
    BY <1>3, <1>8 DEF HistoryInv
  <2> QED
    BY <1>1, <2>2, <2>3 DEF HistoryInv
<1>18. LostInv'
  <2> SUFFICES ASSUME NEW x \in DOMAIN sent', Expected(x, sent', spoiled)
               PROVE  KeptAt(x, sent', contexts, handed, arrived)
    BY <1>1 DEF LostInv
  <2>1. CASE x = id
    <3>1. \A i : <<id, i>> \notin arrived
      BY <1>3, <1>8 DEF HistoryInv
    <3> QED
      BY <1>14, <2>1, <3>1 DEF KeptAt
  <2>2. CASE x \in DOMAIN sent
    <3>1. sent'[x] = sent[x]
      BY <1>8, <2>2
    <3>2. Expected(x, sent, spoiled)
      BY <3>1 DEF Expected
    <3>3. KeptAt(x, sent, contexts, handed, arrived)
      BY <1>3, <2>2, <3>2 DEF LostInv
    <3> QED
      BY <3>1, <3>3 DEF KeptAt
  <2> QED
    BY <1>8, <2>1, <2>2
<1> QED
  BY <1>10, <1>11, <1>12, <1>13, <1>16, <1>17, <1>18 DEF Inv

\* The network puts one piece on the wire that says what another one says.
LEMMA InvWire ==
  ASSUME Inv, UNCHANGED <<sent, contexts, handed, arrived, spoiled>>, ClockInv',
         NEW h, wire' \subseteq wire \cup {h}, PieceOK(h, sent),
         h.damage \in {"none", "total"} =>
           \E f \in wire : /\ f.damage \in {"none", "total"} /\ f.identifier = h.identifier
                           /\ f.index = h.index /\ f.text = h.text
  PROVE  Inv'
<1>1. SentInv /\ WireInv /\ ContextsInv /\ TextsInv /\ HistoryInv /\ LostInv
  BY DEF Inv
<1>2. SentInv' /\ ContextsInv' /\ HistoryInv' /\ LostInv'
  BY <1>1 DEF SentInv, ContextsInv, HistoryInv, LostInv
<1>3. WireInv'
  BY <1>1 DEF WireInv
<1>4. TextsInv'
  <2> SUFFICES ASSUME NEW x \in DOMAIN sent
               PROVE  \E size \in Sizes : CutFor(x, size, sent, wire', contexts)
    BY DEF TextsInv
  <2>1. PICK size \in Sizes : CutFor(x, size, sent, wire, contexts)
    BY <1>1 DEF TextsInv
  <2> DEFINE P == Pieces(size, sent[x].text)
  <2>2. /\ sent[x].total = Len(P)
        /\ \A f \in wire : f.identifier = x /\ f.damage \in {"none", "total"}
                             => f.text = Append(P[f.index], Comma)
        /\ \A c \in Of(contexts, x) : \A i \in Got(c) :
             c.fragments[i] = Parsed(Append(P[i], Comma))
    BY <2>1, Zenon DEF CutFor
  <2> HIDE DEF P
  <2>3. ASSUME NEW f \in wire', f.identifier = x, f.damage \in {"none", "total"}
        PROVE  f.text = Append(P[f.index], Comma)
    <3>1. CASE f \in wire
      BY <2>2, <2>3, <3>1
    <3>2. CASE f = h
      <4>1. PICK e \in wire : /\ e.damage \in {"none", "total"} /\ e.identifier = h.identifier
                              /\ e.index = h.index /\ e.text = h.text
        BY <2>3, <3>2
      <4>2. e.text = Append(P[e.index], Comma)
        BY <2>2, <2>3, <3>2, <4>1
      <4> QED
        BY <3>2, <4>1, <4>2
    <3> QED
      BY <3>1, <3>2
  <2>4. CutFor(x, size, sent, wire', contexts)
    BY <2>2, <2>3, Zenon DEF CutFor, P
  <2> QED
    BY <2>4
<1> QED
  BY <1>2, <1>3, <1>4 DEF Inv

LEMMA InvRepeat ==
  ASSUME Inv, NEW f \in wire, Repeat(f)
  PROVE  Inv'
<1> DEFINE h == [f EXCEPT !.copy = 1]
<1>1. PieceOK(f, sent) /\ ClockInv
  BY DEF Inv, WireInv
<1>2. f \in Piece
  BY <1>1 DEF PieceOK
<1>3. /\ h.identifier = f.identifier /\ h.receiver_tag = f.receiver_tag /\ h.index = f.index
      /\ h.total = f.total /\ h.text = f.text /\ h.damage = f.damage
  BY <1>2 DEF Piece
<1>4. h \in Piece
  BY <1>2 DEF Piece
<1>5. wire' = wire \cup {h} /\ UNCHANGED <<sent, contexts, handed, arrived, spoiled>>
  BY DEF Repeat
<1>6. ClockInv'
  BY <1>1, BoundsAssumption DEF ClockInv, Repeat
<1> HIDE DEF h
<1>7. PieceOK(h, sent)
  BY <1>1, <1>3, <1>4 DEF PieceOK
<1> QED
  BY <1>3, <1>5, <1>6, <1>7, InvWire

LEMMA InvDamage ==
  ASSUME Inv, NEW f \in wire, NEW kind \in Damages, Damage(f, kind)
  PROVE  Inv'
<1> DEFINE h == Damaged(f, kind)
<1>1. PieceOK(f, sent) /\ ClockInv /\ SentInv
  BY DEF Inv, WireInv
<1>2. f \in Piece /\ f.damage = "none" /\ kind \in {"cut", "index", "total"}
  BY <1>1, DamagesAssumption DEF PieceOK, Damage, DamageKinds
<1>3. f.identifier \in DOMAIN sent /\ f.total = sent[f.identifier].total
      /\ f.index \in 1 .. sent[f.identifier].total /\ Len(f.text) > 1
      /\ f.receiver_tag = sent[f.identifier].to
  BY <1>1, <1>2 DEF PieceOK
<1>4. sent[f.identifier].total \in Nat \ {0}
  BY <1>1, <1>3, SentFacts
<1>5. wire' \subseteq wire \cup {h} /\ UNCHANGED <<sent, contexts, handed, arrived, spoiled>>
  BY DEF Damage
<1>6. ClockInv'
  BY <1>1, BoundsAssumption DEF ClockInv, Damage
<1>7. kind \in Damages \cup {"none"}
  OBVIOUS
<1>8. CASE kind = "cut"
  <2>1. h = [f EXCEPT !.damage = "cut", !.text = NoPiece]
    BY <1>8 DEF Damaged
  <2>2. NoPiece \in Seq(Chars)
    BY EmptySeq DEF NoPiece
  <2>3. h \in Piece
    BY ONLY <1>2, <1>7, <1>8, <2>1, <2>2 DEF Piece
  <2>4. /\ h.identifier = f.identifier /\ h.receiver_tag = f.receiver_tag
        /\ h.index = f.index /\ h.total = f.total /\ h.text = NoPiece /\ h.damage = "cut"
    BY <1>2, <2>1 DEF Piece
  <2> HIDE DEF h
  <2>5. PieceOK(h, sent)
    BY <1>3, <2>3, <2>4 DEF PieceOK
  <2> QED
    BY <1>5, <1>6, <2>4, <2>5, InvWire
<1>9. CASE kind = "index"
  <2>1. h = [f EXCEPT !.damage = "index", !.index = f.total + 1]
    BY <1>9 DEF Damaged
  <2>2. f.total + 1 \in Nat \ {0} /\ f.total + 1 > f.total
    BY <1>3, <1>4
  <2>3. h \in Piece
    BY ONLY <1>2, <1>7, <1>9, <2>1, <2>2 DEF Piece
  <2>4. /\ h.identifier = f.identifier /\ h.receiver_tag = f.receiver_tag
        /\ h.index = f.total + 1 /\ h.total = f.total /\ h.text = f.text /\ h.damage = "index"
    BY <1>2, <2>1 DEF Piece
  <2> HIDE DEF h
  <2>5. PieceOK(h, sent)
    BY <1>3, <2>2, <2>3, <2>4 DEF PieceOK
  <2> QED
    BY <1>5, <1>6, <2>4, <2>5, InvWire
<1>10. CASE kind = "total"
  <2>1. h = [f EXCEPT !.damage = "total", !.total = f.total + 1]
    BY <1>10 DEF Damaged
  <2>2. f.total + 1 \in Nat \ {0}
    BY <1>3, <1>4
  <2>3. h \in Piece
    BY ONLY <1>2, <1>7, <1>10, <2>1, <2>2 DEF Piece
  <2>4. /\ h.identifier = f.identifier /\ h.receiver_tag = f.receiver_tag
        /\ h.index = f.index /\ h.total = f.total + 1 /\ h.text = f.text /\ h.damage = "total"
    BY <1>2, <2>1 DEF Piece
  <2> HIDE DEF h
  <2>5. PieceOK(h, sent)
    BY <1>3, <2>3, <2>4 DEF PieceOK
  <2> QED
    BY <1>2, <1>5, <1>6, <2>4, <2>5, InvWire
<1> QED
  BY <1>2, <1>8, <1>9, <1>10

LEMMA InvTick ==
  ASSUME Inv, Tick
  PROVE  Inv'
<1>1. ClockInv'
  BY BoundsAssumption DEF Inv, ClockInv, Tick
<1>2. UNCHANGED <<sent, wire, contexts, handed, arrived, spoiled>>
  BY DEF Tick
<1> QED
  BY <1>1, <1>2 DEF Inv, SentInv, WireInv, ContextsInv, TextsInv, HistoryInv, LostInv

LEMMA Taken ==
  ASSUME Inv, NEW f \in wire, Take(f)
  PROVE  /\ SentInv' /\ ClockInv' /\ WireInv' /\ wire' \subseteq wire /\ sent' = sent
         /\ PieceOK(f, sent) /\ f.identifier \in DOMAIN sent /\ f.identifier \in 1 .. MaxSent
         /\ f.index \in Nat
         /\ arrived' \subseteq (DOMAIN sent) \X Nat
         /\ \A x, i : <<x, i>> \in arrived' =>
              <<x, i>> \in arrived \/ (x = f.identifier /\ i = f.index /\ f.damage = "none")
<1>1. PieceOK(f, sent)
  BY DEF Inv, WireInv
<1>2. f.identifier \in DOMAIN sent /\ f.index \in Nat /\ f.identifier \in 1 .. MaxSent
  BY <1>1 DEF PieceOK, Piece
<1>3. sent' = sent /\ now' = now /\ faults' = faults /\ wire' = wire \ {f}
  BY DEF Take
<1>4. SentInv' /\ ClockInv' /\ WireInv'
  BY <1>3 DEF Inv, SentInv, ClockInv, WireInv
<1>5. arrived \subseteq (DOMAIN sent) \X Nat
  BY DEF Inv, HistoryInv
<1>6. arrived' = IF f.damage = "none" THEN arrived \cup {<<f.identifier, f.index>>} ELSE arrived
  BY DEF Take
<1>7. arrived' \subseteq (DOMAIN sent) \X Nat
  BY <1>2, <1>5, <1>6
<1>8. \A x, i : <<x, i>> \in arrived' =>
        <<x, i>> \in arrived \/ (x = f.identifier /\ i = f.index /\ f.damage = "none")
  BY <1>6
<1> QED
  BY <1>1, <1>2, <1>3, <1>4, <1>7, <1>8

\* An undamaged piece of an encoded message is read whole.
LEMMA Readable ==
  ASSUME Inv, NEW f \in wire, f.damage = "none", IsEncoded(sent[f.identifier].text)
  PROVE  Parsed(f.text) # NoPiece
<1> DEFINE x == f.identifier
<1>1. x \in DOMAIN sent /\ f.index \in 1 .. sent[x].total
  BY DEF Inv, WireInv, PieceOK
<1>2. sent[x].text \in Texts
  BY <1>1, SentFacts DEF Inv
<1>3. PICK size \in Sizes : CutFor(x, size, sent, wire, contexts)
  BY <1>1 DEF Inv, TextsInv
<1> DEFINE P == Pieces(size, sent[x].text)
<1>4. sent[x].total = Len(P) /\ f.text = Append(P[f.index], Comma)
  BY <1>3 DEF CutFor
<1>5. /\ P[f.index] \in Seq(Chars) /\ P[f.index] # <<>>
      /\ \A n \in 1 .. Len(P[f.index]) : \E m \in DOMAIN sent[x].text : P[f.index][n] = sent[x].text[m]
  <2>1. \A i \in 1 .. Len(P) :
          /\ P[i] \in Seq(Chars) /\ P[i] # <<>>
          /\ \A n \in 1 .. Len(P[i]) : \E m \in DOMAIN sent[x].text : P[i][n] = sent[x].text[m]
    BY <1>2, PiecesType, ZenonT(40)
  <2>2. f.index \in 1 .. Len(P)
    BY <1>1, <1>4
  <2> QED
    BY <2>1, <2>2, Zenon
<1>6. \A n \in 1 .. Len(P[f.index]) : P[f.index][n] # Comma
  BY <1>5 DEF IsEncoded
<1> HIDE DEF P
<1>7. Parsed(Append(P[f.index], Comma)) = P[f.index]
  BY <1>5, <1>6, ParsedPiece
<1> QED
  BY <1>4, <1>5, <1>7 DEF NoPiece

\* A cut piece is not readable.
LEMMA NotCut ==
  ASSUME NEW f, PieceOK(f, sent), Parsed(f.text) # NoPiece
  PROVE  f.damage # "cut"
<1>1. DOMAIN <<>> = {}
  BY EmptySeq, LenProperties
<1>2. Parsed(<<>>) = NoPiece
  BY <1>1 DEF Parsed
<1> QED
  BY <1>2 DEF PieceOK, NoPiece

LEMMA InvIgnored ==
  ASSUME Inv, NEW f \in wire, ReceiveIgnored(f)
  PROVE  Inv'
<1>1. Take(f) /\ UNCHANGED <<contexts, handed, spoiled>>
  BY DEF ReceiveIgnored
<1>2. /\ SentInv' /\ ClockInv' /\ WireInv' /\ wire' \subseteq wire /\ sent' = sent
      /\ PieceOK(f, sent) /\ arrived' \subseteq (DOMAIN sent) \X Nat
      /\ \A x, i : <<x, i>> \in arrived' =>
           <<x, i>> \in arrived \/ (x = f.identifier /\ i = f.index /\ f.damage = "none")
  BY <1>1, Taken
<1>3. ContextsInv /\ TextsInv /\ HistoryInv /\ LostInv
  BY DEF Inv
<1>4. ContextsInv' /\ HistoryInv'
  BY <1>1, <1>2, <1>3 DEF ContextsInv, HistoryInv
<1>5. TextsInv'
  <2>1. Of(contexts', 0) = Of(contexts, 0) /\ \A x : Of(contexts', x) = Of(contexts, x)
    BY <1>1
  <2> QED
    BY <1>2, <1>3, <2>1, TextsKept
<1>6. LostInv'
  <2> SUFFICES ASSUME NEW x \in DOMAIN sent, Expected(x, sent, spoiled)
               PROVE  KeptAt(x, sent, contexts', handed', arrived')
    BY <1>1, <1>2 DEF LostInv
  <2>1. ~(x = f.identifier /\ f.damage = "none")
    <3> SUFFICES ASSUME x = f.identifier, f.damage = "none" PROVE FALSE
      OBVIOUS
    <3>1. Parsed(f.text) # NoPiece
      BY Readable DEF Expected
    <3>2. IsForUs(f)
      BY <1>2 DEF IsForUs, PieceOK, Expected
    <3> QED
      BY <3>1, <3>2 DEF ReceiveIgnored
  <2>2. \A i \in Nat : <<x, i>> \in arrived' => <<x, i>> \in arrived
    BY <1>2, <2>1
  <2>3. Of(contexts', x) = Of(contexts, x) /\ handed' = handed /\ spoiled \subseteq spoiled'
        /\ Expected(x, sent, spoiled')
    BY <1>1
  <2> QED
    BY <1>2, <1>3, <2>2, <2>3, KeptElsewhere
<1> QED
  BY <1>2, <1>4, <1>5, <1>6 DEF Inv

LEMMA InvConflicting ==
  ASSUME Inv, NEW f \in wire, ReceiveConflicting(f)
  PROVE  Inv'
<1> DEFINE id == f.identifier
           W == WithContext(f)
           k == ContextOf(f)
<1>1. Take(f) /\ UNCHANGED <<contexts, handed, spoiled>> /\ ~IsMalformed(f) /\ Conflicts(f, W[k])
  BY DEF ReceiveConflicting
<1>2. /\ SentInv' /\ ClockInv' /\ WireInv' /\ wire' \subseteq wire /\ sent' = sent
      /\ PieceOK(f, sent) /\ id \in DOMAIN sent /\ id \in 1 .. MaxSent
      /\ arrived' \subseteq (DOMAIN sent) \X Nat
      /\ \A x, i : <<x, i>> \in arrived' =>
           <<x, i>> \in arrived \/ (x = id /\ i = f.index /\ f.damage = "none")
  BY <1>1, Taken
<1>3. SentInv /\ ContextsInv /\ TextsInv /\ HistoryInv /\ LostInv
  BY DEF Inv
<1>4. ContextsInv' /\ HistoryInv'
  BY <1>1, <1>2, <1>3 DEF ContextsInv, HistoryInv
<1>5. TextsInv'
  <2>1. Of(contexts', 0) = Of(contexts, 0) /\ \A x : Of(contexts', x) = Of(contexts, x)
    BY <1>1
  <2> QED
    BY <1>2, <1>3, <2>1, TextsKept
<1>6. LostInv'
  <2> SUFFICES ASSUME NEW x \in DOMAIN sent, Expected(x, sent, spoiled)
               PROVE  KeptAt(x, sent, contexts', handed', arrived')
    BY <1>1, <1>2 DEF LostInv
  <2>1. CASE ~(x = id /\ f.damage = "none")
    <3>1. \A i \in Nat : <<x, i>> \in arrived' => <<x, i>> \in arrived
      BY <1>2, <2>1
    <3>2. Of(contexts', x) = Of(contexts, x) /\ handed' = handed /\ spoiled \subseteq spoiled'
          /\ Expected(x, sent, spoiled')
      BY <1>1
    <3> QED
      BY <1>2, <1>3, <3>1, <3>2, KeptElsewhere
  <2>2. CASE x = id /\ f.damage = "none"
    <3>1. KeptAt(id, sent, contexts, handed, arrived)
      BY <1>3, <2>2 DEF LostInv
    <3>2. \/ Of(contexts, id) = {W[k]} /\ k \in DOMAIN contexts /\ W = contexts
          \/ Of(contexts, id) = {} /\ W[k] = NewContext(id)
      BY <1>2, <1>3, OpenedContext DEF ContextsInv
    <3>3. f.total = sent[id].total /\ f.index \in 1 .. sent[id].total /\ sent[id].total \in Nat
      BY <1>2, <1>3, <2>2, SentFacts DEF PieceOK
    <3> HIDE DEF W, k
    <3>4. W[k] # NewContext(id)
      <4>1. id \in 0 .. MaxSent
        BY <1>2
      <4> HIDE DEF id
      <4>2. NewContext(id).total = 0 /\ NewContext(id).fragments = <<>>
        BY <4>1, NewContextType
      <4> QED
        BY <1>1, <4>2 DEF Conflicts
    <3>5. Of(contexts, id) = {W[k]} /\ k \in DOMAIN contexts /\ W = contexts
      BY <3>2, <3>4
    <3>6. W[k].total = sent[id].total
      BY <3>1, <3>5 DEF KeptAt
    <3>7. W[k] \in FragmentContext /\ ContextOK(W[k], sent) /\ W[k].identifier = id
      <4>1. W[k] \in Of(contexts, id)
        BY <3>5
      <4>2. W[k].identifier = id
        BY <4>1 DEF Of
      <4>3. contexts[k] \in FragmentContext
        BY <1>3, <3>5, ElementOfSeq, LenProperties DEF ContextsInv
      <4> QED
        BY <1>3, <3>5, <4>2, <4>3 DEF ContextsInv
    <3>8. DOMAIN W[k].fragments = 1 .. sent[id].total
      <4>1. W[k].fragments \in Seq(Seq(Chars))
        BY <3>7 DEF FragmentContext
      <4>2. Len(W[k].fragments) = sent[id].total
        BY <1>2, <3>6, <3>7 DEF ContextOK
      <4> QED
        BY <4>1, <4>2, LenProperties
    <3>9. W[k].fragments[f.index] # NoPiece
      BY <1>1, <3>3, <3>6 DEF Conflicts
    <3>10. f.index \in Got(W[k])
      BY <3>3, <3>8, <3>9 DEF Got
    <3>11. \/ \E n \in DOMAIN handed : handed[n].id = id
           \/ \A i \in Nat : <<id, i>> \in arrived' => \E c \in Of(contexts, id) : i \in Got(c)
      BY <1>2, <3>1, <3>5, <3>10 DEF KeptAt
    <3> QED
      BY <1>1, <2>2, <3>1, <3>11 DEF KeptAt
  <2> QED
    BY <2>1, <2>2
<1> QED
  BY <1>2, <1>4, <1>5, <1>6 DEF Inv

LEMMA InitContextOK ==
  ASSUME NEW S
  PROVE  InitContext \in FragmentContext /\ InitContext.identifier = 0
         /\ ContextOK(InitContext, S)
<1>1. 0 \in 0 .. MaxSent
  BY BoundsAssumption
<1>2. NewContext(0) = InitContext
  BY DEF NewContext, InitContext
<1>3. /\ InitContext \in FragmentContext /\ InitContext.identifier = 0
      /\ InitContext.count = 0 /\ InitContext.total_message_len = 0
      /\ InitContext.fragments = <<>>
  BY <1>1, <1>2, NewContextType
<1>4. Len(FlattenSeq(<<>>)) = 0
  BY EmptySeq DEF FlattenSeq
<1>5. Got(InitContext) = {} /\ Cardinality({}) = 0
  BY <1>3, FS_EmptySet DEF Got
<1> QED
  BY <1>3, <1>4, <1>5 DEF ContextOK, Joined

\* Dropping the context of a message, which is spoiled by it.
LEMMA InvDropped ==
  ASSUME Inv, SentInv', ClockInv', WireInv', wire' \subseteq wire, sent' = sent,
         arrived' \subseteq (DOMAIN sent) \X Nat, handed' = handed,
         NEW id, spoiled' = spoiled \cup {id},
         \A x, i : x # id /\ <<x, i>> \in arrived' => <<x, i>> \in arrived,
         contexts' \in Seq(FragmentContext), Unique(contexts'),
         \A i \in DOMAIN contexts' :
           contexts'[i] = InitContext \/ \E j \in DOMAIN contexts : contexts'[i] = contexts[j],
         \A x : x # id /\ x # 0 => Of(contexts', x) = Of(contexts, x),
         id # 0 => Of(contexts', id) = {}
  PROVE  Inv'
<1>1. SentInv /\ ContextsInv /\ TextsInv /\ HistoryInv /\ LostInv
  BY DEF Inv
<1>2. ContextsInv'
  BY <1>1, InitContextOK DEF ContextsInv
<1>3. \A x \in DOMAIN sent : x # 0
  BY <1>1, SentFacts
<1>4. TextsInv'
  <2>1. \A x \in DOMAIN sent : \A c \in Of(contexts', x) : c \in Of(contexts, x)
    BY <1>3
  <2> QED
    BY <1>1, <2>1, TextsKept
<1>5. HistoryInv'
  BY <1>1 DEF HistoryInv
<1>6. LostInv'
  <2> SUFFICES ASSUME NEW x \in DOMAIN sent, Expected(x, sent, spoiled')
               PROVE  KeptAt(x, sent, contexts', handed', arrived')
    BY DEF LostInv
  <2>1. x # id /\ x # 0
    BY <1>3 DEF Expected
  <2>2. \A i \in Nat : <<x, i>> \in arrived' => <<x, i>> \in arrived
    BY <2>1
  <2>3. Of(contexts', x) = Of(contexts, x) /\ spoiled \subseteq spoiled'
    BY <2>1
  <2> QED
    BY <1>1, <2>2, <2>3, KeptElsewhere
<1> QED
  BY <1>2, <1>4, <1>5, <1>6 DEF Inv

LEMMA MalformedEffect ==
  ASSUME Inv, NEW f \in wire, ReceiveMalformed(f)
  PROVE  /\ contexts' \in Seq(FragmentContext) /\ Unique(contexts')
         /\ \A i \in DOMAIN contexts' :
              contexts'[i] = InitContext \/ \E j \in DOMAIN contexts : contexts'[i] = contexts[j]
         /\ \A x : x # f.identifier /\ x # 0 => Of(contexts', x) = Of(contexts, x)
         /\ Of(contexts', f.identifier) = {}
<1> DEFINE id == f.identifier
           W == WithContext(f)
           k == ContextOf(f)
           D == [W EXCEPT ![k] = InitContext]
<1>1. contexts' = D /\ Take(f)
  BY DEF ReceiveMalformed
<1>2. id \in 1 .. MaxSent /\ id # 0
  BY <1>1, Taken, BoundsAssumption
<1>3. /\ W \in Seq(FragmentContext) /\ Unique(W) /\ k \in 1 .. Len(W) /\ W[k].identifier = id
      /\ \A x : x # id => Of(W, x) = Of(contexts, x)
      /\ \A i \in DOMAIN W : i = k \/ \E j \in DOMAIN contexts : W[i] = contexts[j]
  BY <1>2, OpenedContext DEF Inv, ContextsInv
<1>4. InitContext \in FragmentContext /\ InitContext.identifier = 0
  BY InitContextOK
<1>5. D = [W EXCEPT ![k] = InitContext]
  OBVIOUS
<1> HIDE DEF W, k, D
<1>6. Replaces(D, W, k, InitContext)
  BY <1>2, <1>3, <1>4, <1>5 DEF Replaces
<1>7. /\ D \in Seq(FragmentContext) /\ Unique(D)
      /\ \A i \in DOMAIN D : D[i] = InitContext \/ \E j \in DOMAIN W : j # k /\ D[i] = W[j]
      /\ \A x : x # W[k].identifier /\ x # 0 => Of(D, x) = Of(W, x)
      /\ InitContext.identifier = 0 => Of(D, W[k].identifier) = {}
  <2>1. D \in Seq(FragmentContext) /\ Unique(D)
    BY ONLY <1>6, ReplacedContext
  <2>2. \A i \in DOMAIN D : D[i] = InitContext \/ \E j \in DOMAIN W : j # k /\ D[i] = W[j]
    BY ONLY <1>6, ReplacedContext
  <2>3. \A x : x # W[k].identifier /\ x # 0 => Of(D, x) = Of(W, x)
    BY ONLY <1>6, ReplacedContext
  <2>4. InitContext.identifier = 0 => Of(D, W[k].identifier) = {}
    BY ONLY <1>6, ReplacedContext
  <2> QED
    BY <2>1, <2>2, <2>3, <2>4
<1>8. \A i \in DOMAIN D : D[i] = InitContext \/ \E j \in DOMAIN contexts : D[i] = contexts[j]
  BY <1>3, <1>7
<1> QED
  BY <1>1, <1>3, <1>4, <1>7, <1>8

LEMMA InvMalformed ==
  ASSUME Inv, NEW f \in wire, ReceiveMalformed(f)
  PROVE  Inv'
<1>1. Take(f) /\ handed' = handed /\ spoiled' = spoiled \cup {f.identifier}
  BY DEF ReceiveMalformed
<1> DEFINE id == f.identifier
<1>2. /\ SentInv' /\ ClockInv' /\ WireInv' /\ wire' \subseteq wire /\ sent' = sent
      /\ arrived' \subseteq (DOMAIN sent) \X Nat
      /\ \A x, i : x # id /\ <<x, i>> \in arrived' => <<x, i>> \in arrived
  BY <1>1, Taken
<1>3. /\ contexts' \in Seq(FragmentContext) /\ Unique(contexts')
      /\ \A i \in DOMAIN contexts' :
           contexts'[i] = InitContext \/ \E j \in DOMAIN contexts : contexts'[i] = contexts[j]
      /\ \A x : x # id /\ x # 0 => Of(contexts', x) = Of(contexts, x)
      /\ Of(contexts', id) = {}
  BY MalformedEffect
<1> HIDE DEF id
<1> QED
  BY <1>1, <1>2, <1>3, InvDropped DEF id

LEMMA ExpireEffect ==
  ASSUME Inv, Expire
  PROVE  \E id : /\ spoiled' = spoiled \cup {id}
                 /\ contexts' \in Seq(FragmentContext) /\ Unique(contexts')
                 /\ \A i \in DOMAIN contexts' :
                      \E j \in DOMAIN contexts : contexts'[i] = contexts[j]
                 /\ \A x : x # id => Of(contexts', x) = Of(contexts, x)
                 /\ id # 0 => Of(contexts', id) = {} /\ id \in DOMAIN sent
<1>1. PICK k \in DOMAIN contexts : /\ contexts' = RemoveAt(contexts, k)
                                   /\ spoiled' = spoiled \cup {contexts[k].identifier}
  BY DEF Expire
<1>2. contexts \in Seq(FragmentContext) /\ Unique(contexts) /\ ContextOK(contexts[k], sent)
  BY DEF Inv, ContextsInv
<1>3. k \in 1 .. Len(contexts)
  BY <1>2, LenProperties
<1>4. contexts[k].identifier # 0 => contexts[k].identifier \in DOMAIN sent
  BY <1>2 DEF ContextOK
<1> DEFINE id == contexts[k].identifier
<1>5. /\ contexts' \in Seq(FragmentContext) /\ Unique(contexts')
      /\ \A i \in DOMAIN contexts' : \E j \in DOMAIN contexts : contexts'[i] = contexts[j]
      /\ \A x : x # id => Of(contexts', x) = Of(contexts, x)
      /\ id # 0 => Of(contexts', id) = {}
  BY <1>1, <1>2, <1>3, RemovedContext, Zenon
<1> QED
  BY <1>1, <1>4, <1>5, Zenon

LEMMA InvExpire ==
  ASSUME Inv, Expire
  PROVE  Inv'
<1>1. UNCHANGED <<sent, wire, handed, now, faults, arrived>>
  BY DEF Expire
<1>2. SentInv' /\ ClockInv' /\ WireInv' /\ arrived' \subseteq (DOMAIN sent) \X Nat
  BY <1>1 DEF Inv, SentInv, ClockInv, WireInv, HistoryInv
<1>3. PICK id : /\ spoiled' = spoiled \cup {id}
                /\ contexts' \in Seq(FragmentContext) /\ Unique(contexts')
                /\ \A i \in DOMAIN contexts' :
                     \E j \in DOMAIN contexts : contexts'[i] = contexts[j]
                /\ \A x : x # id => Of(contexts', x) = Of(contexts, x)
                /\ id # 0 => Of(contexts', id) = {} /\ id \in DOMAIN sent
  BY ExpireEffect
<1> QED
  BY <1>1, <1>2, <1>3, InvDropped

LEMMA FlattenType ==
  ASSUME NEW s \in Seq(Seq(Chars))
  PROVE  FlattenSeq(s) \in Seq(Chars)
<1>1. CASE s = <<>>
  BY <1>1, EmptySeq DEF FlattenSeq
<1>2. CASE s # <<>>
  <2>1. Len(s) \in 1 .. Len(s)
    BY <1>2
  <2>2. PICK g \in [1 .. Len(s) -> Seq(Chars)] : FlattenSeq(s) = g[Len(s)]
    BY <1>2, FlattenSteps
  <2> QED
    BY <2>1, <2>2
<1> QED
  BY <1>1, <1>2

\* What ReceivePiece does: f is stored into b, the context of its message or a
\* new one, and gives c; a complete c is joined and removed.
Stores(f, b, c) ==
  LET id == f.identifier
      t == sent[id].total
  IN  /\ f.damage \in {"none", "total"} /\ f.index \in 1 .. t /\ f.index \notin Got(b)
      /\ f.total = IF f.damage = "total" THEN t + 1 ELSE t
      /\ \/ Of(contexts, id) = {b} /\ b.total = f.total
         \/ Of(contexts, id) = {} /\ Got(b) = {}
      /\ c \in FragmentContext /\ c.total = f.total /\ Len(c.fragments) = f.total
      /\ Got(c) = Got(b) \cup {f.index} /\ Got(c) \subseteq 1 .. t
      /\ c.fragments[f.index] = Parsed(f.text)
      /\ \A i \in Got(b) : c.fragments[i] = b.fragments[i]
      /\ contexts' \in Seq(FragmentContext) /\ Unique(contexts')
      /\ \A x : x # id /\ x # 0 => Of(contexts', x) = Of(contexts, x)
      /\ \/ /\ f.total = t /\ Got(c) = 1 .. t
            /\ handed' = Append(handed, [id |-> id, text |-> Joined(c)])
            /\ Of(contexts', id) = {}
            /\ \A i \in DOMAIN contexts' : \E j \in DOMAIN contexts : contexts'[i] = contexts[j]
         \/ /\ Got(c) # 1 .. f.total /\ ContextOK(c, sent)
            /\ handed' = handed
            /\ Of(contexts', id) = {c}
            /\ \A i \in DOMAIN contexts' :
                 contexts'[i] = c \/ \E j \in DOMAIN contexts : contexts'[i] = contexts[j]

LEMMA PieceEffect ==
  ASSUME Inv, NEW f \in wire, ReceivePiece(f)
  PROVE  \E b, c : Stores(f, b, c)
<1> DEFINE id == f.identifier
           W == WithContext(f)
           k == ContextOf(f)
           b == W[k]
           c == Stored(b, f)
           t == sent[id].total
<1>1. /\ Take(f) /\ ~IsMalformed(f) /\ Parsed(f.text) # NoPiece /\ ~Conflicts(f, b)
      /\ \/ /\ c.count = f.total
            /\ handed' = Append(handed, [id |-> id, text |-> Joined(c)])
            /\ contexts' = RemoveAt(W, k)
         \/ /\ c.count # f.total
            /\ contexts' = [W EXCEPT ![k] = c]
            /\ handed' = handed
  BY DEF ReceivePiece
<1>2. SentInv /\ ClockInv /\ ContextsInv
  BY DEF Inv
<1>3. /\ PieceOK(f, sent) /\ id \in DOMAIN sent /\ id \in 1 .. MaxSent /\ id # 0
      /\ t \in Nat \ {0}
  BY <1>1, <1>2, Taken, SentFacts
<1>4. /\ W \in Seq(FragmentContext) /\ Unique(W)
      /\ k \in 1 .. Len(W) /\ b.identifier = id
      /\ \A x : x # id => Of(W, x) = Of(contexts, x)
      /\ \A i \in DOMAIN W : i = k \/ \E j \in DOMAIN contexts : W[i] = contexts[j]
      /\ \/ Of(contexts, id) = {b} /\ k \in DOMAIN contexts /\ W = contexts
         \/ Of(contexts, id) = {} /\ b = NewContext(id)
  BY <1>2, <1>3, OpenedContext DEF ContextsInv
<1>5. b \in FragmentContext
  BY <1>4, ElementOfSeq
<1>6. ContextOK(b, sent) \/ b = NewContext(id)
  BY <1>2, <1>4 DEF ContextsInv
<1> HIDE DEF W, k, b, id
<1>7. /\ c \in FragmentContext /\ c.identifier = id
      /\ c.total = f.total /\ Len(c.fragments) = f.total
      /\ c.total_message_len = Len(Joined(c))
      /\ f.index \in 1 .. t /\ f.index \notin Got(b) /\ Got(b) \subseteq 1 .. t
      /\ Got(c) = Got(b) \cup {f.index}
      /\ c.count = Cardinality(Got(c)) /\ c.count \in Nat \ {0}
      /\ c.fragments[f.index] = Parsed(f.text)
      /\ \A i \in Got(b) : c.fragments[i] = b.fragments[i]
      /\ b = NewContext(id) \/ b.total = f.total
  BY <1>1, <1>2, <1>3, <1>4, <1>5, <1>6, StoredContext DEF id
<1> HIDE DEF c, t
<1>8. /\ f.damage \in {"none", "total"}
      /\ f.total = IF f.damage = "total" THEN t + 1 ELSE t
  <2>1. f.damage # "cut"
    BY <1>1, <1>3, NotCut
  <2>2. f.damage # "index"
    BY <1>1, <1>3 DEF PieceOK, IsMalformed, Piece
  <2>3. f.damage \in {"none", "cut", "index", "total"}
    BY <1>3, DamagesAssumption DEF PieceOK, Piece, DamageKinds
  <2> QED
    BY <1>3, <2>1, <2>2, <2>3 DEF PieceOK, t, id
<1>9. Got(c) \subseteq 1 .. t
  BY <1>7
<1>10. \/ Of(contexts, id) = {b} /\ b.total = f.total
       \/ Of(contexts, id) = {} /\ Got(b) = {}
  <2>1. CASE Of(contexts, id) = {} /\ b = NewContext(id)
    <3>1. id \in 0 .. MaxSent
      BY <1>3
    <3>2. NewContext(id).fragments = <<>>
      BY <3>1, NewContextType
    <3>3. Got(b) = {}
      BY <2>1, <3>2 DEF Got
    <3> QED
      BY <2>1, <3>3
  <2>2. CASE Of(contexts, id) = {b} /\ k \in DOMAIN contexts /\ W = contexts
    <3>1. ContextOK(b, sent)
      BY <1>2, <2>2 DEF ContextsInv, b
    <3>2. b.total # 0
      BY <1>3, <1>4, <3>1 DEF ContextOK, t
    <3>3. b # NewContext(id)
      <4>1. id \in 0 .. MaxSent
        BY <1>3
      <4> QED
        BY <3>2, <4>1, NewContextType
    <3> QED
      BY <1>7, <2>2, <3>3
  <2> QED
    BY <1>4, <2>1, <2>2
<1>11. IsFiniteSet(1 .. t) /\ Cardinality(1 .. t) = t
  BY <1>3, FS_Interval
<1>12. c.count <= t /\ (c.count = t => Got(c) = 1 .. t)
  <2>1. Got(c) \in SUBSET (1 .. t)
    BY <1>9
  <2>2. /\ Cardinality(Got(c)) <= Cardinality(1 .. t)
        /\ Cardinality(1 .. t) = Cardinality(Got(c)) => 1 .. t = Got(c)
    BY <1>11, <2>1, FS_Subset, Zenon
  <2> QED
    BY <1>7, <1>11, <2>2
<1>13. CASE c.count = f.total
  <2>1. f.total = t /\ Got(c) = 1 .. t
    BY <1>3, <1>8, <1>12, <1>13
  <2>2. handed' = Append(handed, [id |-> id, text |-> Joined(c)]) /\ contexts' = RemoveAt(W, k)
    BY <1>1, <1>13
  <2> DEFINE D == RemoveAt(W, k)
  <2>3. /\ D \in Seq(FragmentContext) /\ Unique(D)
        /\ \A x : x # W[k].identifier => Of(D, x) = Of(W, x)
        /\ W[k].identifier # 0 => Of(D, W[k].identifier) = {}
    BY <1>4, RemovedContext, Zenon
  <2>4. W[k].identifier = id
    BY <1>4 DEF b
  <2>5. \A i \in DOMAIN D : \E j \in DOMAIN contexts : D[i] = contexts[j]
    <3>1. /\ Len(D) = Len(W) - 1
          /\ \A i \in 1 .. Len(W) - 1 : D[i] = IF i < k THEN W[i] ELSE W[i + 1]
      BY <1>4, RemoveAtProperties, Zenon
    <3>2. DOMAIN D = 1 .. Len(W) - 1 /\ DOMAIN W = 1 .. Len(W) /\ Len(W) \in Nat
      BY <1>4, <2>3, <3>1, LenProperties
    <3> SUFFICES ASSUME NEW i \in DOMAIN D PROVE \E j \in DOMAIN contexts : D[i] = contexts[j]
      OBVIOUS
    <3> HIDE DEF D
    <3>3. CASE i < k
      <4>1. i \in DOMAIN W /\ i # k /\ D[i] = W[i]
        BY <1>4, <3>1, <3>2, <3>3
      <4> QED
        BY <1>4, <4>1
    <3>4. CASE ~(i < k)
      <4>1. i + 1 \in DOMAIN W /\ i + 1 # k /\ D[i] = W[i + 1]
        BY <1>4, <3>1, <3>2, <3>4
      <4> QED
        BY <1>4, <4>1
    <3> QED
      BY <3>3, <3>4
  <2> HIDE DEF D
  <2>6. contexts' = D
    BY <2>2 DEF D
  <2>7. \A x : x # id => Of(D, x) = Of(contexts, x)
    BY <1>4, <2>3, <2>4
  <2>8. Of(D, id) = {}
    BY <1>3, <2>3, <2>4
  <2>9. Stores(f, b, c)
    BY <1>7, <1>8, <1>9, <1>10, <2>1, <2>2, <2>3, <2>5, <2>6, <2>7, <2>8 DEF Stores, id, t
  <2> QED
    BY <2>9
<1>14. CASE c.count # f.total
  <2> DEFINE D == [W EXCEPT ![k] = c]
  <2>1. contexts' = D /\ handed' = handed
    BY <1>1, <1>14
  <2>2. c.identifier = id /\ W[k].identifier = id
    BY <1>4, <1>7 DEF b
  <2>3. Replaces(D, W, k, c)
    BY <1>3, <1>4, <1>7, <2>2 DEF Replaces
  <2> HIDE DEF D
  <2>4. D \in Seq(FragmentContext) /\ Unique(D)
    BY ONLY <2>3, ReplacedContext
  <2>5. \A i \in DOMAIN D : D[i] = c \/ \E j \in DOMAIN W : j # k /\ D[i] = W[j]
    BY ONLY <2>3, ReplacedContext
  <2>6. \A x : x # W[k].identifier /\ x # 0 => Of(D, x) = Of(W, x)
    BY ONLY <2>3, ReplacedContext
  <2>7. c.identifier # 0 => Of(D, W[k].identifier) = {c}
    BY ONLY <2>3, ReplacedContext, ZenonT(40)
  <2>8. Got(c) # 1 .. f.total
    <3> SUFFICES ASSUME Got(c) = 1 .. f.total PROVE FALSE
      OBVIOUS
    <3>1. f.total \in Nat
      BY <1>3, <1>8
    <3>2. Cardinality(1 .. f.total) = f.total
      <4>1. 1 \in Int /\ f.total \in Int /\ (1 > f.total => f.total = 0) /\ f.total - 1 + 1 = f.total
        BY <3>1
      <4> QED
        BY <4>1, FS_Interval
    <3> QED
      BY <1>7, <1>14, <3>2
  <2>9. ContextOK(c, sent)
    <3>1. c.count \in 1 .. c.total - 1
      BY <1>3, <1>7, <1>8, <1>12, <1>14
    <3>2. c.total \in {t, t + 1}
      BY <1>7, <1>8
    <3> QED
      BY <1>3, <1>7, <1>9, <3>1, <3>2 DEF ContextOK, t
  <2>10. \A i \in DOMAIN D : D[i] = c \/ \E j \in DOMAIN contexts : D[i] = contexts[j]
    BY <1>4, <2>5
  <2>11. \A x : x # id /\ x # 0 => Of(D, x) = Of(contexts, x)
    BY <1>4, <2>2, <2>6
  <2>12. Of(D, id) = {c}
    BY <1>3, <2>2, <2>7
  <2>13. Stores(f, b, c)
    BY <1>7, <1>8, <1>9, <1>10, <2>1, <2>4, <2>8, <2>9, <2>10, <2>11, <2>12 DEF Stores, id, t
  <2> QED
    BY <2>13
<1> QED
  BY <1>13, <1>14

LEMMA InvPiece ==
  ASSUME Inv, NEW f \in wire, ReceivePiece(f)
  PROVE  Inv'
<1> DEFINE id == f.identifier
           t == sent[id].total
<1>1. PICK b, c : Stores(f, b, c)
  BY PieceEffect
<1>2. /\ Take(f)
      /\ spoiled' = IF f.damage = "none" THEN spoiled ELSE spoiled \cup {id}
  BY DEF ReceivePiece
<1>3. /\ SentInv' /\ ClockInv' /\ WireInv' /\ wire' \subseteq wire /\ sent' = sent
      /\ PieceOK(f, sent) /\ id \in DOMAIN sent /\ id \in 1 .. MaxSent
      /\ arrived' \subseteq (DOMAIN sent) \X Nat
      /\ \A x, i : <<x, i>> \in arrived' =>
           <<x, i>> \in arrived \/ (x = id /\ i = f.index /\ f.damage = "none")
  BY <1>2, Taken
<1>4. SentInv /\ ContextsInv /\ TextsInv /\ HistoryInv /\ LostInv
  BY DEF Inv
<1>5. \A x \in DOMAIN sent : x # 0
  BY <1>4, SentFacts
<1>6. /\ f.damage \in {"none", "total"}
      /\ f.total = IF f.damage = "total" THEN t + 1 ELSE t
      /\ \/ Of(contexts, id) = {b} /\ b.total = f.total
         \/ Of(contexts, id) = {} /\ Got(b) = {}
      /\ c \in FragmentContext /\ c.total = f.total
      /\ Got(c) = Got(b) \cup {f.index}
      /\ c.fragments[f.index] = Parsed(f.text)
      /\ \A i \in Got(b) : c.fragments[i] = b.fragments[i]
      /\ contexts' \in Seq(FragmentContext) /\ Unique(contexts')
      /\ \A x : x # id /\ x # 0 => Of(contexts', x) = Of(contexts, x)
  BY <1>1 DEF Stores
<1>7. \/ /\ handed' = Append(handed, [id |-> id, text |-> Joined(c)])
         /\ Of(contexts', id) = {}
         /\ \A i \in DOMAIN contexts' : \E j \in DOMAIN contexts : contexts'[i] = contexts[j]
      \/ /\ ContextOK(c, sent) /\ handed' = handed /\ Of(contexts', id) = {c}
         /\ \A i \in DOMAIN contexts' :
              contexts'[i] = c \/ \E j \in DOMAIN contexts : contexts'[i] = contexts[j]
  BY <1>1 DEF Stores
<1>8. [id |-> id, text |-> Joined(c)] \in Handed(sent)
  <2>1. Joined(c) \in Seq(Chars)
    BY <1>6, FlattenType DEF Joined, FragmentContext
  <2> QED
    BY <1>3, <2>1 DEF Handed
<1> HIDE DEF id, t
<1>9. ContextsInv'
  BY <1>3, <1>4, <1>6, <1>7 DEF ContextsInv
<1>10. TextsInv'
  <2>1. ASSUME NEW x \in DOMAIN sent, NEW d \in Of(contexts', x), NEW i \in Got(d)
        PROVE  \/ \E a \in Of(contexts, x) : i \in Got(a) /\ a.fragments[i] = d.fragments[i]
               \/ \E g \in wire : /\ g.identifier = x /\ g.damage \in {"none", "total"}
                                  /\ g.index = i /\ d.fragments[i] = Parsed(g.text)
    <3>1. CASE x # id
      BY <1>5, <1>6, <2>1, <3>1
    <3>2. CASE x = id
      <4>1. d = c
        BY <1>7, <2>1, <3>2
      <4>2. CASE i = f.index
        BY <1>6, <3>2, <4>1, <4>2 DEF id
      <4>3. CASE i \in Got(b)
        <5>1. Of(contexts, id) = {b}
          BY <1>6, <4>3
        <5> QED
          BY <1>6, <3>2, <4>1, <4>3, <5>1
      <4> QED
        BY <1>6, <2>1, <4>1, <4>2, <4>3
    <3> QED
      BY <3>1, <3>2
  <2> QED
    BY <1>3, <1>4, <2>1, TextsKept
<1>11. HistoryInv'
  <2>1. handed' \in Seq(Handed(sent))
    <3>1. handed \in Seq(Handed(sent))
      BY <1>4 DEF HistoryInv
    <3>2. Append(handed, [id |-> id, text |-> Joined(c)]) \in Seq(Handed(sent))
      BY <1>8, <3>1, AppendProperties, Zenon
    <3> QED
      BY <1>7, <3>1, <3>2
  <2> QED
    BY <1>3, <2>1 DEF HistoryInv
<1>12. LostInv'
  <2> SUFFICES ASSUME NEW x \in DOMAIN sent, Expected(x, sent, spoiled')
               PROVE  KeptAt(x, sent, contexts', handed', arrived')
    BY <1>3 DEF LostInv
  <2>1. spoiled \subseteq spoiled'
    BY <1>2
  <2>2. CASE x # id
    <3>1. \A i \in Nat : <<x, i>> \in arrived' => <<x, i>> \in arrived
      BY <1>3, <2>2
    <3>2. Of(contexts', x) = Of(contexts, x)
      BY <1>5, <1>6, <2>2
    <3>3. handed' = handed \/ \E h \in Handed(sent) : handed' = Append(handed, h)
      BY <1>7, <1>8
    <3> QED
      BY <1>3, <1>4, <2>1, <3>1, <3>2, <3>3, KeptElsewhere
  <2>3. CASE x = id
    <3>1. f.damage = "none" /\ f.total = t
      BY <1>2, <1>6, <2>3 DEF Expected
    <3>2. CASE Of(contexts', id) = {} /\ handed' = Append(handed, [id |-> id, text |-> Joined(c)])
      <4>1. handed \in Seq(Handed(sent))
        BY <1>4 DEF HistoryInv
      <4> DEFINE h == [id |-> id, text |-> Joined(c)]
      <4>2. h.id = id
        OBVIOUS
      <4>3. h \in Handed(sent) /\ handed' = Append(handed, h)
        BY <1>8, <3>2
      <4> HIDE DEF h
      <4>4. Len(handed) + 1 \in DOMAIN handed' /\ handed'[Len(handed) + 1] = h
        <5>1. /\ handed' \in Seq(Handed(sent)) /\ Len(handed') = Len(handed) + 1
              /\ handed'[Len(handed) + 1] = h /\ Len(handed) \in Nat
          BY <4>1, <4>3, AppendProperties, LenProperties
        <5>2. DOMAIN handed' = 1 .. Len(handed) + 1
          BY <5>1, LenProperties
        <5> QED
          BY <5>1, <5>2
      <4>5. \E n \in DOMAIN handed' : handed'[n].id = id
        BY <4>2, <4>4
      <4> QED
        BY <2>3, <3>2, <4>5 DEF KeptAt
    <3>3. CASE Of(contexts', id) = {c} /\ handed' = handed
      <4>1. Expected(id, sent, spoiled)
        BY <2>1, <2>3 DEF Expected
      <4>2. KeptAt(id, sent, contexts, handed, arrived)
        BY <1>3, <1>4, <4>1 DEF LostInv
      <4>3. \A d \in Of(contexts', id) : d.total = sent[id].total
        BY <1>6, <3>1, <3>3 DEF t
      <4>4. \/ \E n \in DOMAIN handed : handed[n].id = id
            \/ \A i \in Nat : <<id, i>> \in arrived' => \E d \in Of(contexts', id) : i \in Got(d)
        <5>1. CASE \E n \in DOMAIN handed : handed[n].id = id
          BY <5>1
        <5>2. CASE \A i \in Nat : <<id, i>> \in arrived => \E d \in Of(contexts, id) : i \in Got(d)
          <6>1. \A i \in Nat : <<id, i>> \in arrived => i \in Got(b)
            BY <1>6, <5>2
          <6>2. \A i \in Nat : <<id, i>> \in arrived' => i \in Got(c)
            BY <1>3, <1>6, <6>1
          <6> QED
            BY <3>3, <6>2
        <5> QED
          BY <4>2, <5>1, <5>2 DEF KeptAt
      <4> QED
        BY <2>3, <3>3, <4>3, <4>4 DEF KeptAt
    <3> QED
      BY <1>7, <3>2, <3>3
  <2> QED
    BY <2>2, <2>3
<1> QED
  BY <1>3, <1>9, <1>10, <1>11, <1>12 DEF Inv

LEMMA InvStep == Inv /\ [Next]_vars => Inv'
<1> SUFFICES ASSUME Inv, [Next]_vars PROVE Inv'
  OBVIOUS
<1>1. ASSUME NEW text \in Texts, NEW size \in Sizes, NEW to \in Tags,
             SendFragments(text, size, to)
      PROVE  Inv'
  BY <1>1, InvSend
<1>2. ASSUME NEW f \in wire, Repeat(f) PROVE Inv'
  BY <1>2, InvRepeat
<1>3. ASSUME NEW f \in wire, ReceiveIgnored(f) PROVE Inv'
  BY <1>3, InvIgnored
<1>4. ASSUME NEW f \in wire, ReceiveMalformed(f) PROVE Inv'
  BY <1>4, InvMalformed
<1>5. ASSUME NEW f \in wire, ReceiveConflicting(f) PROVE Inv'
  BY <1>5, InvConflicting
<1>6. ASSUME NEW f \in wire, ReceivePiece(f) PROVE Inv'
  BY <1>6, InvPiece
<1>7. ASSUME NEW f \in wire, NEW kind \in Damages, Damage(f, kind) PROVE Inv'
  BY <1>7, InvDamage
<1>8. CASE Tick
  BY <1>8, InvTick
<1>9. CASE Expire
  BY <1>9, InvExpire
<1>10. CASE UNCHANGED vars
  BY <1>10 DEF vars, Inv, SentInv, ClockInv, WireInv, ContextsInv, TextsInv, HistoryInv, LostInv
<1> QED
  BY <1>1, <1>2, <1>3, <1>4, <1>5, <1>6, <1>7, <1>8, <1>9, <1>10 DEF Next, Receive

LEMMA Invariant == Spec => []Inv
  BY InvInit, InvStep, PTL DEF Spec

-----------------------------------------------------------------------------
(***************************************************************************)
(* What the invariant gives.                                               *)
(***************************************************************************)

LEMMA InvImpliesTypeOK == Inv => TypeOK
<1> SUFFICES ASSUME Inv PROVE TypeOK
  OBVIOUS
<1>1. \A f \in wire : f \in Piece /\ (f.damage # "cut" => Len(f.text) > 1)
  BY DEF Inv, WireInv, PieceOK
<1> QED
  BY <1>1 DEF Inv, TypeOK, SentInv, ClockInv, ContextsInv

\* The state stays within its types, and every piece that is not cut has at least
\* one character: the lists and records of fragment.c for any texts and sizes.
THEOREM TypeCorrect == Spec => []TypeOK
  BY Invariant, InvImpliesTypeOK, PTL

LEMMA InvImpliesContexts == Inv => ContextsConsistent
<1> SUFFICES ASSUME Inv, NEW k \in DOMAIN contexts
             PROVE  LET c == contexts[k] IN
               /\ c.total_message_len = Len(Joined(c))
               /\ c.count = Cardinality({i \in DOMAIN c.fragments : c.fragments[i] # NoPiece})
               /\ c.identifier # 0 =>
                    /\ c.count \in 1 .. c.total - 1
                    /\ \A j \in DOMAIN contexts : contexts[j].identifier = c.identifier => j = k
  BY DEF ContextsConsistent
<1>1. ContextOK(contexts[k], sent) /\ Unique(contexts)
  BY DEF Inv, ContextsInv
<1>2. contexts[k].identifier # 0 =>
        \A j \in DOMAIN contexts : contexts[j].identifier = contexts[k].identifier => j = k
  BY <1>1 DEF Unique
<1> QED
  BY <1>1, <1>2 DEF ContextOK, Got

\* The buffer that join_fragments allocates has exactly the size of the pieces it
\* copies into it, for any texts and sizes, any order, repetition and damage; a
\* waiting context counts its pieces, is incomplete and is the only one of its
\* message.
THEOREM BuffersFit == Spec => []ContextsConsistent
  BY Invariant, InvImpliesContexts, PTL

LEMMA InvImpliesNothingLost == Inv => NothingLost
<1> SUFFICES ASSUME Inv, NEW id \in DOMAIN sent, sent[id].to # "other",
                    IsEncoded(sent[id].text), id \notin spoiled,
                    \A i \in 1 .. sent[id].total : <<id, i>> \in arrived,
                    ~\E n \in DOMAIN handed : handed[n].id = id
             PROVE  FALSE
  BY DEF NothingLost
<1> DEFINE t == sent[id].total
<1>1. t \in Nat \ {0} /\ id # 0
  BY SentFacts DEF Inv
<1>2. KeptAt(id, sent, contexts, handed, arrived)
  BY DEF Inv, LostInv, Expected
<1>3. /\ \A c \in Of(contexts, id) : c.total = t
      /\ \A i \in 1 .. t : \E c \in Of(contexts, id) : i \in Got(c)
  <2>1. /\ \A c \in Of(contexts, id) : c.total = t
        /\ \A i \in Nat : <<id, i>> \in arrived => \E c \in Of(contexts, id) : i \in Got(c)
    BY <1>2 DEF KeptAt
  <2>2. \A i \in 1 .. t : i \in Nat /\ <<id, i>> \in arrived
    BY <1>1
  <2> QED
    BY <2>1, <2>2, Zenon
<1>4. PICK c \in Of(contexts, id) : 1 \in Got(c)
  BY <1>1, <1>3
<1>5. PICK k \in DOMAIN contexts : c = contexts[k] /\ c.identifier = id
  BY <1>4 DEF Of
<1>6. ContextOK(c, sent) /\ Unique(contexts)
  BY <1>5 DEF Inv, ContextsInv
<1>7. \A d \in Of(contexts, id) : d = c
  BY <1>1, <1>5, <1>6 DEF Of, Unique
<1>8. 1 .. t \subseteq Got(c)
  BY <1>3, <1>7
<1>9. Got(c) \subseteq 1 .. t /\ c.count = Cardinality(Got(c)) /\ c.count \in 1 .. c.total - 1
  BY <1>1, <1>5, <1>6 DEF ContextOK
<1>10. Got(c) = 1 .. t
  BY <1>8, <1>9
<1>11. Cardinality(1 .. t) = t
  BY <1>1, FS_Interval
<1> QED
  BY <1>1, <1>3, <1>4, <1>9, <1>10, <1>11

\* A message for this client whose pieces have all arrived has been handed up,
\* unless its context was reset or removed (otrng_unfragment_message_generic).
THEOREM NoMessageIsLost == Spec => []NothingLost
  BY Invariant, InvImpliesNothingLost, PTL

-----------------------------------------------------------------------------
(***************************************************************************)
(* The refinement.  The abstract state as a function of the concrete one.  *)
(***************************************************************************)

PendingAt(x, C, S) ==
  UNION {{i \in DOMAIN C[k].fragments : C[k].fragments[i] # NoPiece} :
           k \in {j \in DOMAIN C : C[j].identifier = x /\ C[j].total = S[x].total}}

AbsSent(S) ==
  [x \in DOMAIN S |-> [to |-> S[x].to, total |-> S[x].total, encoded |-> IsEncoded(S[x].text)]]

AbsPending(C, S) == [x \in DOMAIN S |-> PendingAt(x, C, S)]

AbsMessage(h, S) == [id |-> h.id, whole |-> h.text = S[h.id].text]

AbsHanded(H, S) ==
  [n \in DOMAIN H |-> [id |-> H[n].id, whole |-> H[n].text = S[H[n].id].text]]

LEMMA PendingAtOf ==
  ASSUME NEW C, NEW S, NEW x
  PROVE  /\ Of(C, x) = {} => PendingAt(x, C, S) = {}
         /\ \A c : Of(C, x) = {c} =>
              PendingAt(x, C, S) = IF c.total = S[x].total THEN Got(c) ELSE {}
         /\ \A D : Of(D, x) = Of(C, x) => PendingAt(x, D, S) = PendingAt(x, C, S)
<1> DEFINE U(X) == UNION {Got(c) : c \in {d \in X : d.total = S[x].total}}
<1>1. ASSUME NEW D PROVE PendingAt(x, D, S) = U(Of(D, x))
  <2>1. ASSUME NEW i, i \in PendingAt(x, D, S) PROVE i \in U(Of(D, x))
    <3>1. PICK k \in DOMAIN D : /\ D[k].identifier = x /\ D[k].total = S[x].total
                                /\ i \in Got(D[k])
      BY <2>1 DEF PendingAt, Got
    <3>2. D[k] \in Of(D, x)
      BY <3>1 DEF Of
    <3> QED
      BY <3>1, <3>2
  <2>2. ASSUME NEW i, i \in U(Of(D, x)) PROVE i \in PendingAt(x, D, S)
    <3>1. PICK c \in Of(D, x) : c.total = S[x].total /\ i \in Got(c)
      BY <2>2
    <3>2. PICK k \in DOMAIN D : c = D[k] /\ D[k].identifier = x
      BY <3>1 DEF Of
    <3> QED
      BY <3>1, <3>2 DEF PendingAt, Got
  <2> QED
    BY <2>1, <2>2
<1>2. U({}) = {}
  OBVIOUS
<1>3. \A c : U({c}) = IF c.total = S[x].total THEN Got(c) ELSE {}
  OBVIOUS
<1> HIDE DEF U
<1> QED
  BY <1>1, <1>2, <1>3

\* A step that touches the contexts of message id only.
LEMMA PendingChange ==
  ASSUME SentInv, NEW C, NEW D, NEW id, id \in DOMAIN sent,
         \A x : x # id /\ x # 0 => Of(D, x) = Of(C, x)
  PROVE  AbsPending(D, sent) = [AbsPending(C, sent) EXCEPT ![id] = PendingAt(id, D, sent)]
<1>1. \A x \in DOMAIN sent : x # id => PendingAt(x, D, sent) = PendingAt(x, C, sent)
  BY SentFacts, PendingAtOf
<1> QED
  BY <1>1 DEF AbsPending

LEMMA AbsInit == Init => Abstract!Init
<1> SUFFICES ASSUME Init PROVE Abstract!Init
  OBVIOUS
<1>1. DOMAIN sent = {} /\ DOMAIN handed = {}
  BY DEF Init
<1>2. \A e : e \in [{} -> {}] => e = <<>>
  OBVIOUS
<1> QED
  BY <1>1, <1>2 DEF Abstract!Init

\* A step of the abstract specification, in terms of the abstract state.
LEMMA AbsDrop ==
  ASSUME NEW id \in DOMAIN sent, sent' = sent, handed' = handed,
         AbsPending(contexts', sent) = [AbsPending(contexts, sent) EXCEPT ![id] = {}]
  PROVE  Abstract!Next
<1>1. Abstract!Drop(id)
  BY DEF Abstract!Drop, AbsPending, PendingAt, PendingOf
<1> QED
  BY <1>1 DEF Abstract!Next

LEMMA AbsStutter ==
  ASSUME sent' = sent, handed' = handed,
         AbsPending(contexts', sent) = AbsPending(contexts, sent)
  PROVE  UNCHANGED Abstract!vars
  BY DEF Abstract!vars, AbsPending, PendingAt, PendingOf

LEMMA AbsSentType ==
  ASSUME NEW S \in Seq(SentMessage)
  PROVE  /\ AbsSent(S) \in Seq(Abstract!Message) /\ Len(AbsSent(S)) = Len(S)
         /\ DOMAIN AbsSent(S) = DOMAIN S
         /\ \A x \in DOMAIN S : AbsSent(S)[x] = [to |-> S[x].to, total |-> S[x].total,
                                                 encoded |-> IsEncoded(S[x].text)]
<1> DEFINE m(x) == [to |-> S[x].to, total |-> S[x].total, encoded |-> IsEncoded(S[x].text)]
<1>1. DOMAIN S = 1 .. Len(S) /\ Len(S) \in Nat
  BY LenProperties
<1>2. ASSUME NEW x \in 1 .. Len(S) PROVE m(x) \in Abstract!Message
  <2>1. S[x] \in SentMessage
    BY ElementOfSeq
  <2>2. S[x].to \in {"us", "any", "other"} /\ S[x].total \in Nat \ {0}
    BY <2>1, TagsAssumption DEF SentMessage
  <2>3. IsEncoded(S[x].text) \in BOOLEAN
    BY Zenon DEF IsEncoded
  <2> QED
    BY <2>2, <2>3, Zenon DEF Abstract!Message
<1>3. AbsSent(S) = [x \in 1 .. Len(S) |-> m(x)]
  BY <1>1, Zenon DEF AbsSent
<1> HIDE DEF m
<1>4. AbsSent(S) \in [1 .. Len(S) -> Abstract!Message]
  BY <1>2, <1>3
<1>5. AbsSent(S) \in Seq(Abstract!Message) /\ Len(AbsSent(S)) = Len(S)
  BY ONLY <1>1, <1>4
<1>6. \A x \in 1 .. Len(S) : AbsSent(S)[x] = m(x)
  BY <1>3
<1>7. DOMAIN AbsSent(S) = 1 .. Len(S)
  BY <1>3
<1> QED
  BY <1>1, <1>5, <1>6, <1>7, Zenon DEF m

LEMMA AbsSend ==
  ASSUME Inv, Inv', NEW text \in Texts, NEW size \in Sizes, NEW to \in Tags,
         SendFragments(text, size, to)
  PROVE  Abstract!Next
<1> DEFINE n == Len(sent)
<1>1. /\ sent \in Seq(SentMessage) /\ sent' \in Seq(SentMessage)
      /\ n \in Nat /\ DOMAIN sent = 1 .. n
  BY LenProperties DEF Inv, SentInv
<1>2. contexts' = contexts /\ handed' = handed
      /\ \E m : sent' = Append(sent, m)
  BY DEF SendFragments
<1>3. Len(sent') = n + 1 /\ \A x \in 1 .. n : sent'[x] = sent[x]
  BY <1>1, <1>2
<1>4. DOMAIN sent' = 1 .. n + 1
  BY <1>1, <1>3, LenProperties
<1> HIDE DEF n
<1>5. /\ AbsSent(sent) \in Seq(Abstract!Message) /\ Len(AbsSent(sent)) = n
      /\ \A x \in 1 .. n : AbsSent(sent)[x] = [to |-> sent[x].to, total |-> sent[x].total,
                                               encoded |-> IsEncoded(sent[x].text)]
  BY <1>1, AbsSentType, Zenon DEF n
<1>6. /\ AbsSent(sent') \in Seq(Abstract!Message) /\ Len(AbsSent(sent')) = n + 1
      /\ \A x \in 1 .. n + 1 : AbsSent(sent')[x] = [to |-> sent'[x].to, total |-> sent'[x].total,
                                               encoded |-> IsEncoded(sent'[x].text)]
  BY <1>1, <1>3, <1>4, AbsSentType, Zenon
<1>7. SubSeq(AbsSent(sent'), 1, Len(AbsSent(sent))) = AbsSent(sent)
  <2> DEFINE A == AbsSent(sent)
             B == AbsSent(sent')
  <2>1. \A x \in 1 .. n : x \in 1 .. n + 1
    BY <1>1
  <2>2. \A x \in 1 .. n : B[x] = A[x]
    BY <1>3, <1>5, <1>6, <2>1, Zenon
  <2>3. \A x \in 1 .. n : B[x] \in Abstract!Message
    BY <1>5, <2>2, ElementOfSeq
  <2> HIDE DEF A, B
  <2>4. /\ SubSeq(B, 1, n) \in Seq(Abstract!Message)
        /\ Len(SubSeq(B, 1, n)) = n
        /\ \A x \in 1 .. n : SubSeq(B, 1, n)[x] = B[x]
    BY <1>1, <2>3, SubSeqProperties
  <2>5. SubSeq(B, 1, n) = A
    BY <1>5, <2>2, <2>4, SeqEqual DEF A
  <2> QED
    BY <1>5, <2>5 DEF A, B
<1>8. AbsPending(contexts', sent') = Append(AbsPending(contexts, sent), {})
  <2>1. n + 1 \notin DOMAIN sent /\ n + 1 # 0
    BY <1>1
  <2>2. Of(contexts, n + 1) = {}
    BY <2>1, NoContext DEF Inv
  <2>3. PendingAt(n + 1, contexts, sent') = {}
    BY <2>2, PendingAtOf
  <2>4. \A x \in 1 .. n : PendingAt(x, contexts, sent') = PendingAt(x, contexts, sent)
    BY <1>3 DEF PendingAt
  <2> DEFINE p == AbsPending(contexts, sent)
             q == AbsPending(contexts, sent')
  <2>5. p = [x \in 1 .. n |-> PendingAt(x, contexts, sent)]
    BY <1>1 DEF AbsPending
  <2>6. q = [x \in 1 .. n + 1 |-> PendingAt(x, contexts, sent')]
    BY <1>4 DEF AbsPending
  <2> HIDE DEF p, q
  <2> DEFINE X == {PendingAt(x, contexts, sent) : x \in 1 .. n} \cup {{}}
  <2>7. p \in [1 .. n -> X]
    BY <2>5
  <2>8. q \in [1 .. n + 1 -> X]
    BY <1>1, <2>3, <2>4, <2>6
  <2> HIDE DEF X
  <2>9. {} \in X
    BY DEF X
  <2>10. p \in Seq(X) /\ Len(p) = n
    BY ONLY <1>1, <2>7
  <2>11. q \in Seq(X) /\ Len(q) = n + 1
    BY ONLY <1>1, <2>8
  <2>12. /\ Append(p, {}) \in Seq(X) /\ Len(Append(p, {})) = n + 1
         /\ \A x \in 1 .. n : Append(p, {})[x] = p[x]
         /\ Append(p, {})[n + 1] = {}
    BY <2>9, <2>10, AppendProperties
  <2>13. \A x \in 1 .. n + 1 : q[x] = Append(p, {})[x]
    BY <1>1, <2>3, <2>4, <2>5, <2>6, <2>12
  <2>14. q = Append(p, {})
    BY <2>11, <2>12, <2>13, SeqEqual
  <2> QED
    BY <1>2, <2>14 DEF p, q
<1>9. AbsHanded(handed', sent') = AbsHanded(handed, sent)
  <2>1. \A i \in DOMAIN handed : handed[i].id \in DOMAIN sent
    <3>1. handed \in Seq(Handed(sent))
      BY DEF Inv, HistoryInv
    <3>2. \A i \in DOMAIN handed : handed[i] \in Handed(sent)
      BY <3>1, ElementOfSeq, LenProperties
    <3> QED
      BY <3>2 DEF Handed
  <2>2. \A i \in DOMAIN handed : sent'[handed[i].id] = sent[handed[i].id]
    BY <1>1, <1>3, <2>1
  <2>3. \A i \in DOMAIN handed : (handed[i].text = sent'[handed[i].id].text)
                                   = (handed[i].text = sent[handed[i].id].text)
    BY <2>2, Zenon
  <2> QED
    BY <1>2, <2>2, Zenon DEF AbsHanded
<1>10. Abstract!Send
  BY <1>5, <1>6, <1>7, <1>8, <1>9
  DEF Abstract!Send, AbsSent, AbsPending, AbsHanded, PendingAt, PendingOf
<1> QED
  BY <1>10 DEF Abstract!Next

\* A complete context of an encoded message holds the message.
LEMMA JoinedIsWhole ==
  ASSUME Inv, NEW f \in wire, NEW b, NEW c, Stores(f, b, c),
         f.identifier \in DOMAIN sent,
         f.total = sent[f.identifier].total, Got(c) = 1 .. f.total,
         IsEncoded(sent[f.identifier].text)
  PROVE  Joined(c) = sent[f.identifier].text
<1> DEFINE id == f.identifier
           text == sent[id].text
           t == sent[id].total
<1>1. text \in Texts /\ t \in Nat \ {0}
  BY SentFacts DEF Inv
<1>2. PICK size \in Sizes : CutFor(id, size, sent, wire, contexts)
  BY DEF Inv, TextsInv
<1> DEFINE P == Pieces(size, text)
<1>3. /\ t = Len(P)
      /\ \A e \in wire : e.identifier = id /\ e.damage \in {"none", "total"}
                           => e.text = Append(P[e.index], Comma)
      /\ \A d \in Of(contexts, id) : \A i \in Got(d) :
           d.fragments[i] = Parsed(Append(P[i], Comma))
  BY <1>2, Zenon DEF CutFor
<1>4. /\ P \in Seq(Seq(Chars))
      /\ \A i \in 1 .. Len(P) :
           /\ P[i] \in Seq(Chars)
           /\ \A n \in 1 .. Len(P[i]) : \E m \in DOMAIN text : P[i][n] = text[m]
  BY <1>1, PiecesType, Zenon
<1>5. ASSUME NEW i \in 1 .. t PROVE Parsed(Append(P[i], Comma)) = P[i]
  <2>1. P[i] \in Seq(Chars) /\ \A n \in 1 .. Len(P[i]) : P[i][n] # Comma
    BY <1>3, <1>4 DEF IsEncoded
  <2> HIDE DEF P
  <2> QED
    BY <2>1, ParsedPiece
<1>6. /\ f.damage \in {"none", "total"} /\ c \in FragmentContext
      /\ Len(c.fragments) = f.total /\ Got(c) = Got(b) \cup {f.index}
      /\ c.fragments[f.index] = Parsed(f.text)
      /\ \A i \in Got(b) : c.fragments[i] = b.fragments[i]
      /\ Of(contexts, id) = {b} \/ Got(b) = {}
  BY DEF Stores
<1>7. FlattenSeq(P) = text
  BY <1>1, PiecesJoined, Zenon
<1>8. Got(c) = 1 .. t /\ Len(c.fragments) = t /\ IsEncoded(text)
  BY <1>6
<1> HIDE DEF P, text, t
<1>9. ASSUME NEW i \in 1 .. t PROVE c.fragments[i] = P[i]
  <2>1. CASE i = f.index
    BY <1>3, <1>5, <1>6, <2>1
  <2>2. CASE i \in Got(b)
    <3>1. b \in Of(contexts, id)
      BY <1>6, <2>2
    <3>2. b.fragments[i] = Parsed(Append(P[i], Comma))
      BY <1>3, <2>2, <3>1, Zenon
    <3> QED
      BY <1>5, <1>6, <2>2, <3>2
  <2> QED
    BY <1>6, <1>8, <2>1, <2>2
<1>10. c.fragments \in Seq(Seq(Chars))
  BY <1>6 DEF FragmentContext
<1>11. c.fragments = P
  BY <1>3, <1>4, <1>8, <1>9, <1>10, SeqEqual
<1> QED
  BY <1>7, <1>11 DEF Joined, text

LEMMA AbsHandedAppend ==
  ASSUME NEW S, NEW X, NEW H, NEW h, H \in Seq(X), h \in X
  PROVE  AbsHanded(Append(H, h), S) =
           Append(AbsHanded(H, S), AbsMessage(h, S))
<1> DEFINE n == Len(H)
           K == Append(H, h)
           r(e) == [id |-> e.id, whole |-> e.text = S[e.id].text]
           Y == {r(e) : e \in X}
           A == AbsHanded(H, S)
           B == AbsHanded(K, S)
<1>1. /\ n \in Nat /\ DOMAIN H = 1 .. n
      /\ K \in Seq(X) /\ Len(K) = n + 1 /\ K[n + 1] = h
      /\ \A i \in 1 .. n : K[i] = H[i] /\ H[i] \in X
  BY AppendProperties, LenProperties, ElementOfSeq
<1>2. DOMAIN K = 1 .. n + 1 /\ \A i \in 1 .. n + 1 : K[i] \in X
  BY <1>1, LenProperties, ElementOfSeq
<1>3. A = [i \in 1 .. n |-> r(H[i])]
  BY <1>1, Zenon DEF AbsHanded
<1> HIDE DEF K
<1>4. B = [i \in 1 .. n + 1 |-> r(K[i])]
  BY <1>2, Zenon DEF AbsHanded
<1> HIDE DEF n, r, A, B
<1>5. A \in [1 .. n -> Y]
  BY <1>1, <1>3
<1>6. B \in [1 .. n + 1 -> Y]
  BY <1>2, <1>4
<1>7. r(h) \in Y
  OBVIOUS
<1> HIDE DEF Y
<1>8. A \in Seq(Y) /\ Len(A) = n
  BY ONLY <1>1, <1>5
<1>9. B \in Seq(Y) /\ Len(B) = n + 1
  BY ONLY <1>1, <1>6
<1>10. /\ Append(A, r(h)) \in Seq(Y) /\ Len(Append(A, r(h))) = n + 1
       /\ \A i \in 1 .. n : Append(A, r(h))[i] = A[i]
       /\ Append(A, r(h))[n + 1] = r(h)
  BY <1>7, <1>8, AppendProperties
<1>11. ASSUME NEW i \in 1 .. n + 1 PROVE B[i] = Append(A, r(h))[i]
  <2>1. CASE i = n + 1
    <3>1. B[i] = r(K[i])
      BY <1>4
    <3> QED
      BY <1>1, <1>10, <2>1, <3>1
  <2>2. CASE i \in 1 .. n
    <3>1. B[i] = r(K[i])
      BY <1>4
    <3>2. A[i] = r(H[i])
      BY <1>3, <2>2
    <3>3. K[i] = H[i] /\ Append(A, r(h))[i] = A[i]
      BY <1>1, <1>10, <2>2
    <3> QED
      BY <3>1, <3>2, <3>3, Zenon
  <2>3. i = n + 1 \/ i \in 1 .. n
    <3>1. n \in Nat
      BY <1>1
    <3> QED
      BY ONLY <3>1, i \in 1 .. n + 1
  <2> QED
    BY ONLY <2>1, <2>2, <2>3
<1>12. B = Append(A, r(h))
  BY <1>9, <1>10, <1>11, SeqEqual
<1> QED
  BY <1>12, Zenon DEF A, B, K, r, AbsMessage

LEMMA AbsPiece ==
  ASSUME Inv, NEW f \in wire, ReceivePiece(f)
  PROVE  Abstract!Next
<1> DEFINE id == f.identifier
           t == sent[id].total
<1>1. PICK b, c : Stores(f, b, c)
  BY PieceEffect
<1>2. Take(f) /\ IsForUs(f)
  BY DEF ReceivePiece
<1>3. sent' = sent /\ id \in DOMAIN sent /\ PieceOK(f, sent) /\ SentInv
  BY <1>2, Taken DEF Inv
<1>4. t \in Nat \ {0}
  BY <1>3, SentFacts
<1>5. sent[id].to # "other"
  BY <1>2, <1>3 DEF IsForUs, PieceOK
<1>6. /\ f.damage \in {"none", "total"} /\ f.index \in 1 .. t /\ f.index \notin Got(b)
      /\ f.total = IF f.damage = "total" THEN t + 1 ELSE t
      /\ \/ Of(contexts, id) = {b} /\ b.total = f.total
         \/ Of(contexts, id) = {} /\ Got(b) = {}
      /\ c.total = f.total /\ Got(c) = Got(b) \cup {f.index}
      /\ \A x : x # id /\ x # 0 => Of(contexts', x) = Of(contexts, x)
      /\ \/ /\ f.total = t /\ Got(c) = 1 .. t
            /\ handed' = Append(handed, [id |-> id, text |-> Joined(c)])
            /\ Of(contexts', id) = {}
         \/ /\ Got(c) # 1 .. f.total
            /\ handed' = handed
            /\ Of(contexts', id) = {c}
  BY <1>1 DEF Stores
<1>7. AbsPending(contexts', sent) =
        [AbsPending(contexts, sent) EXCEPT ![id] = PendingAt(id, contexts', sent)]
  <2>1. \A x : x # id /\ x # 0 => Of(contexts', x) = Of(contexts, x)
    BY <1>6
  <2> HIDE DEF id
  <2> QED
    BY ONLY <1>3, <2>1, PendingChange
<1> DEFINE A == AbsSent(sent)
           p == AbsPending(contexts, sent)
           q == AbsPending(contexts', sent)
<1>8. A[id].to # "other" /\ A[id].total = t
  BY <1>3, <1>5 DEF AbsSent
<1>9. p[id] = PendingAt(id, contexts, sent)
  BY <1>3 DEF AbsPending
<1> HIDE DEF t
<1>10. CASE f.damage = "total"
  <2>1. f.total = t + 1 /\ f.total # t
    BY <1>4, <1>6, <1>10
  <2>2. handed' = handed /\ Of(contexts', id) = {c} /\ c.total # t
    BY <1>6, <2>1
  <2>3. PendingAt(id, contexts', sent) = {}
    BY <2>2, PendingAtOf DEF t
  <2> QED
    BY <1>3, <1>7, <2>2, <2>3, AbsDrop
<1>11. CASE f.damage = "none"
  <2>1. f.total = t
    BY <1>6, <1>11
  <2>2. PendingAt(id, contexts, sent) = Got(b)
    <3>1. CASE Of(contexts, id) = {b} /\ b.total = f.total
      BY <2>1, <3>1, PendingAtOf DEF t
    <3>2. CASE Of(contexts, id) = {} /\ Got(b) = {}
      BY <3>2, PendingAtOf
    <3> QED
      BY <1>6, <3>1, <3>2
  <2>3. f.index \in (1 .. A[id].total) \ p[id]
    BY <1>6, <1>8, <1>9, <2>2
  <2>4. p[id] \cup {f.index} = Got(c)
    BY <1>6, <1>9, <2>2
  <2>5. CASE Got(c) # 1 .. t /\ handed' = handed /\ Of(contexts', id) = {c}
    <3>1. PendingAt(id, contexts', sent) = Got(c)
      BY <1>6, <2>1, <2>5, PendingAtOf DEF t
    <3>2. q = [p EXCEPT ![id] = p[id] \cup {f.index}]
      BY <1>7, <2>4, <3>1
    <3>3. p[id] \cup {f.index} # 1 .. A[id].total
      BY <1>8, <2>4, <2>5
    <3> HIDE DEF id
    <3>4. Abstract!Wait(id, f.index)
      BY <1>3, <2>5, <3>2, <3>3
      DEF Abstract!Wait, A, p, q, AbsSent, AbsPending, PendingAt, PendingOf
    <3>5. Abstract!Arrive(id)
      BY <1>8, <2>3, <3>4 DEF Abstract!Arrive, A, p, AbsSent, AbsPending, PendingAt, PendingOf
    <3>6. id \in DOMAIN A
      BY <1>3 DEF AbsSent
    <3> QED
      BY <3>5, <3>6 DEF Abstract!Next, A, AbsSent
  <2>6. CASE /\ Got(c) = 1 .. t
             /\ handed' = Append(handed, [id |-> id, text |-> Joined(c)])
             /\ Of(contexts', id) = {}
    <3>1. PendingAt(id, contexts', sent) = {}
      BY <2>6, PendingAtOf
    <3>2. q = [p EXCEPT ![id] = {}]
      BY <1>7, <3>1
    <3>3. p[id] \cup {f.index} = 1 .. A[id].total
      BY <1>8, <2>4, <2>6
    <3> DEFINE h == [id |-> id, text |-> Joined(c)]
               whole == h.text = sent[h.id].text
    <3>4. A[id].encoded => whole
      <4>1. A[id].encoded = IsEncoded(sent[id].text)
        BY <1>3, Zenon DEF AbsSent
      <4>2. ASSUME IsEncoded(sent[id].text) PROVE whole
        BY <1>1, <1>3, <2>1, <2>6, <4>2, JoinedIsWhole DEF t
      <4> QED
        BY <4>1, <4>2, Zenon
    <3>5. AbsHanded(handed', sent) = Append(AbsHanded(handed, sent), [id |-> h.id, whole |-> whole])
      <4>1. handed \in Seq(Handed(sent))
        BY DEF Inv, HistoryInv
      <4> DEFINE X == Handed(sent) \cup {h}
      <4>2. handed \in Seq(X) /\ h \in X
        BY <4>1, SeqMonotonic, Zenon
      <4> HIDE DEF h, X
      <4>3. handed' = Append(handed, h)
        BY <2>6 DEF h
      <4>4. AbsHanded(Append(handed, h), sent) =
              Append(AbsHanded(handed, sent), AbsMessage(h, sent))
        BY ONLY <4>2, AbsHandedAppend
      <4> QED
        BY <4>3, <4>4, Zenon DEF AbsMessage
    <3>6. h.id = id /\ whole \in BOOLEAN
      BY Zenon
    <3> HIDE DEF id, whole, h
    <3>7. \E w \in BOOLEAN : /\ A[id].encoded => w
                             /\ AbsHanded(handed', sent) = Append(AbsHanded(handed, sent), [id |-> id, whole |-> w])
      BY <3>4, <3>5, <3>6, Zenon
    <3>8. Abstract!HandUp(id, f.index)
      <4>1. AbsSent(sent') = A /\ AbsPending(contexts', sent') = [p EXCEPT ![id] = {}]
        BY <1>3, <3>2
      <4>2. \E w \in BOOLEAN :
              /\ A[id].encoded => w
              /\ AbsHanded(handed', sent') = Append(AbsHanded(handed, sent), [id |-> id, whole |-> w])
        BY <1>3, <3>7, Zenon
      <4> QED
      BY <3>3, <4>1, <4>2, Zenon
      DEF Abstract!HandUp, A, p, q, AbsSent, AbsPending, AbsHanded, PendingAt, PendingOf
    <3>9. Abstract!Arrive(id)
      BY <1>8, <2>3, <3>8 DEF Abstract!Arrive, A, p, AbsSent, AbsPending, PendingAt, PendingOf
    <3>10. id \in DOMAIN A
      BY <1>3 DEF AbsSent
    <3> QED
      BY <3>9, <3>10 DEF Abstract!Next, A, AbsSent
  <2> QED
    BY <1>6, <2>1, <2>5, <2>6
<1> QED
  BY <1>6, <1>10, <1>11

LEMMA AbsStep == Inv /\ Inv' /\ [Next]_vars => [Abstract!Next]_Abstract!vars
<1> SUFFICES ASSUME Inv, Inv', [Next]_vars
             PROVE  Abstract!Next \/ UNCHANGED Abstract!vars
  BY Zenon
<1>1. ASSUME NEW text \in Texts, NEW size \in Sizes, NEW to \in Tags,
             SendFragments(text, size, to)
      PROVE  Abstract!Next
  BY <1>1, AbsSend
<1>2. ASSUME sent' = sent, contexts' = contexts, handed' = handed
      PROVE  UNCHANGED Abstract!vars
  BY <1>2, AbsStutter
<1>3. ASSUME NEW f \in wire, Repeat(f) \/ \E kind \in Damages : Damage(f, kind)
      PROVE  UNCHANGED Abstract!vars
  BY <1>2, <1>3 DEF Repeat, Damage
<1>4. ASSUME NEW f \in wire, ReceiveIgnored(f) \/ ReceiveConflicting(f)
      PROVE  UNCHANGED Abstract!vars
  BY <1>2, <1>4 DEF ReceiveIgnored, ReceiveConflicting, Take
<1>5. ASSUME NEW f \in wire, ReceiveMalformed(f) PROVE Abstract!Next
  <2> DEFINE id == f.identifier
  <2>1. Take(f) /\ handed' = handed
    BY <1>5 DEF ReceiveMalformed
  <2>2. sent' = sent /\ id \in DOMAIN sent /\ SentInv
    BY <2>1, Taken DEF Inv
  <2>3. /\ \A x : x # id /\ x # 0 => Of(contexts', x) = Of(contexts, x)
        /\ Of(contexts', id) = {}
    BY <1>5, MalformedEffect
  <2> HIDE DEF id
  <2>4. PendingAt(id, contexts', sent) = {}
    BY <2>3, PendingAtOf
  <2>5. AbsPending(contexts', sent) = [AbsPending(contexts, sent) EXCEPT ![id] = {}]
    BY <2>2, <2>3, <2>4, PendingChange
  <2> QED
    BY <2>1, <2>2, <2>5, AbsDrop
<1>6. ASSUME NEW f \in wire, ReceivePiece(f) PROVE Abstract!Next
  BY <1>6, AbsPiece
<1>7. CASE Tick
  BY <1>2, <1>7 DEF Tick
<1>8. CASE Expire
  <2>1. sent' = sent /\ handed' = handed /\ SentInv
    BY <1>8 DEF Expire, Inv
  <2>2. PICK id : /\ \A x : x # id => Of(contexts', x) = Of(contexts, x)
                  /\ id # 0 => Of(contexts', id) = {} /\ id \in DOMAIN sent
    BY <1>8, ExpireEffect
  <2>3. CASE id = 0
    <3>1. \A x \in DOMAIN sent : PendingAt(x, contexts', sent) = PendingAt(x, contexts, sent)
      BY <2>1, <2>2, <2>3, SentFacts, PendingAtOf
    <3>2. AbsPending(contexts', sent) = AbsPending(contexts, sent)
      BY <3>1 DEF AbsPending
    <3> QED
      BY <2>1, <3>2, AbsStutter
  <2>4. CASE id # 0
    <3>1. PendingAt(id, contexts', sent) = {}
      BY <2>2, <2>4, PendingAtOf
    <3>2. AbsPending(contexts', sent) = [AbsPending(contexts, sent) EXCEPT ![id] = {}]
      BY <2>1, <2>2, <2>4, <3>1, PendingChange
    <3> QED
      BY <2>1, <2>2, <2>4, <3>2, AbsDrop
  <2> QED
    BY <2>3, <2>4
<1>9. CASE UNCHANGED vars
  BY <1>2, <1>9 DEF vars
<1> QED
  BY <1>1, <1>3, <1>4, <1>5, <1>6, <1>7, <1>8, <1>9 DEF Next, Receive

\* fragment.c implements Reassembly, for any texts, sizes, damage and bounds:
\* whatever otrng_unfragment_message_generic hands up is whole if it was encoded,
\* is for this client, and all its pieces have arrived anew.
THEOREM FragmentsReassemble == Spec => ImplementsReassembly
<1>1. Inv /\ Inv' /\ [Next]_vars => [Abstract!Next]_Abstract!vars
  BY AbsStep
<1> QED
  BY AbsInit, <1>1, Invariant, PTL DEF Spec, ImplementsReassembly, Abstract!Spec
=============================================================================
