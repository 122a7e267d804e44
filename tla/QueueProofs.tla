------------------------------ MODULE QueueProofs ------------------------------
(***************************************************************************)
(* Lemmas about the queues of messages that SMP and Conversation keep      *)
(* between two peers: what the operations on a queue leave in it.          *)
(***************************************************************************)
EXTENDS Naturals, Sequences, TLAPS

\* The messages of a queue.
Elems(s) == {s[k] : k \in 1 .. Len(s)}

\* Taking one message out of a queue.
LEMMA WithoutElems ==
  ASSUME NEW X, NEW s \in Seq(X), NEW n \in 1 .. Len(s)
  PROVE  LET t == SubSeq(s, 1, n - 1) \o SubSeq(s, n + 1, Len(s))
         IN t \in Seq(X) /\ Elems(t) \subseteq Elems(s)
<1> DEFINE a == SubSeq(s, 1, n - 1)
           b == SubSeq(s, n + 1, Len(s))
           t == a \o b
<1>1. /\ a \in Seq(X) /\ Len(a) = n - 1
      /\ \A k \in 1 .. n - 1 : a[k] = s[k]
  OBVIOUS
<1>2. /\ b \in Seq(X) /\ Len(b) = Len(s) - n
      /\ \A k \in 1 .. Len(s) - n : b[k] = s[k + n]
  OBVIOUS
<1> HIDE DEF a, b
<1>3. t \in Seq(X) /\ Len(t) = Len(a) + Len(b)
  <2>1. a \in Seq(X) /\ b \in Seq(X)
    BY <1>1, <1>2
  <2> QED
    BY <2>1
<1>4. \A k \in 1 .. Len(t) : t[k] = IF k <= Len(a) THEN a[k] ELSE b[k - Len(a)]
  BY <1>1, <1>2
<1>5. Len(s) \in Nat /\ n \in Nat
  OBVIOUS
<1> HIDE DEF t
<1>6. ASSUME NEW k \in 1 .. Len(t) PROVE t[k] \in Elems(s)
  <2>1. CASE k < n
    <3>1. k <= Len(a) /\ k \in 1 .. n - 1 /\ k \in 1 .. Len(s)
      BY <1>1, <1>2, <1>3, <1>5, <2>1
    <3>2. t[k] = s[k]
      BY <1>1, <1>4, <3>1
    <3> QED
      BY <3>1, <3>2 DEF Elems
  <2>2. CASE ~(k < n)
    <3>1. /\ ~(k <= Len(a)) /\ k - Len(a) \in 1 .. Len(s) - n
          /\ (k - Len(a)) + n = k + 1 /\ k + 1 \in 1 .. Len(s)
      BY <1>1, <1>2, <1>3, <1>5, <2>2
    <3>2. t[k] = b[k - Len(a)]
      BY <1>4, <3>1
    <3>3. t[k] = s[k + 1]
      BY <1>2, <3>1, <3>2
    <3> QED
      BY <3>1, <3>3 DEF Elems
  <2> QED
    BY <2>1, <2>2
<1>7. Elems(t) \subseteq Elems(s)
  BY <1>6 DEF Elems
<1> QED
  BY <1>3, <1>7 DEF t, a, b

\* Appending messages to a queue.
LEMMA ConcatElems ==
  ASSUME NEW X, NEW s \in Seq(X), NEW t \in Seq(X)
  PROVE  s \o t \in Seq(X) /\ Elems(s \o t) \subseteq Elems(s) \cup Elems(t)
<1>1. s \o t \in Seq(X) /\ Len(s \o t) = Len(s) + Len(t)
  OBVIOUS
<1>2. ASSUME NEW k \in 1 .. Len(s \o t)
      PROVE  (s \o t)[k] \in Elems(s) \cup Elems(t)
  <2>1. CASE k <= Len(s)
    <3>1. (s \o t)[k] = s[k] /\ k \in 1 .. Len(s)
      BY <1>1, <2>1
    <3> QED
      BY <3>1 DEF Elems
  <2>2. CASE ~(k <= Len(s))
    <3>1. (s \o t)[k] = t[k - Len(s)] /\ k - Len(s) \in 1 .. Len(t)
      BY <1>1, <2>2
    <3> QED
      BY <3>1 DEF Elems
  <2> QED
    BY <2>1, <2>2
<1> QED
  BY <1>1, <1>2 DEF Elems

\* Losing the first message of a queue.
LEMMA TailElems ==
  ASSUME NEW X, NEW s \in Seq(X), s # <<>>
  PROVE  Tail(s) \in Seq(X) /\ Elems(Tail(s)) \subseteq Elems(s)
<1>1. Tail(s) \in Seq(X) /\ Len(Tail(s)) = Len(s) - 1
  OBVIOUS
<1>2. ASSUME NEW k \in 1 .. Len(Tail(s)) PROVE Tail(s)[k] \in Elems(s)
  <2>1. Tail(s)[k] = s[k + 1] /\ k + 1 \in 1 .. Len(s)
    BY <1>1
  <2> QED
    BY <2>1 DEF Elems
<1> QED
  BY <1>1, <1>2 DEF Elems

\* A queue of at most one message.
LEMMA FewElems ==
  /\ Elems(<<>>) = {}
  /\ \A x : Elems(<<x>>) = {x}
  BY DEF Elems
=============================================================================
