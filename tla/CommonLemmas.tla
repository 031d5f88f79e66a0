---------------------------- MODULE CommonLemmas ----------------------------
(***************************************************************************)
(* What several proofs need.  Induction over the naturals and the          *)
(* existence of functions defined by recursion over them, stated with sets *)
(* and functions instead of operator parameters, so that a prover can      *)
(* instantiate the lemmas; least and greatest members of sets of numbers;  *)
(* and what inserting into a sequence and removing from it give.           *)
(***************************************************************************)
EXTENDS Integers, SequencesExt, SequenceTheorems, WellFoundedInduction, TLAPS

-----------------------------------------------------------------------------
(* Induction and recursion over the naturals *)

\* A set of naturals that is not empty has a least member.
LEMMA LeastNat ==
  ASSUME NEW T \in SUBSET Nat, T # {} PROVE \E n \in T : \A m \in T : n <= m
<1> DEFINE R == {x \in Nat \X Nat : x[1] < x[2]}
<1>1. IsWellFoundedOn(R, Nat)
  <2>1. OpToRel(<, Nat) = R
    BY DEF OpToRel
  <2> QED BY <2>1, NatLessThanWellFounded
<1>2. \E n \in T : \A m \in T : ~(<<m, n>> \in R)
  <2> HIDE DEF R
  <2> QED BY <1>1, WFMin
<1>3. PICK n \in T : \A m \in T : ~(<<m, n>> \in R)
  BY <1>2
<1>4. \A m \in T : n <= m
  <2> SUFFICES ASSUME NEW m \in T PROVE n <= m
    OBVIOUS
  <2>1. m \in Nat /\ n \in Nat /\ ~(<<m, n>> \in R)
    BY <1>3
  <2> QED BY <2>1
<1> QED BY <1>4

\* A set of numbers between 0 and m that is not empty has a greatest member.
LEMMA Greatest ==
  ASSUME NEW m \in Nat, NEW T \in SUBSET (0..m), T # {}
  PROVE  Max(T) \in T /\ \A n \in T : n <= Max(T)
<1> DEFINE D == {m - n : n \in T}
<1>1. D \in SUBSET Nat /\ D # {}
  <2>1. \A n \in T : n \in 0..m
    OBVIOUS
  <2>2. \A n \in 0..m : m - n \in Nat
    OBVIOUS
  <2> QED BY <2>1, <2>2
<1>2. PICK d \in D : \A e \in D : d <= e
  <2> HIDE DEF D
  <2> QED BY <1>1, LeastNat
<1>3. PICK n \in T : d = m - n
  OBVIOUS
<1>4. \A k \in T : n >= k
  <2> SUFFICES ASSUME NEW k \in T PROVE n >= k
    OBVIOUS
  <2>1. m - k \in D
    OBVIOUS
  <2>2. k \in Int /\ n \in Int /\ d <= m - k
    BY <1>2, <2>1
  <2> QED BY <2>2, <1>3
<1>5. Max(T) \in T /\ \A k \in T : Max(T) >= k
  <2>1. \E x \in T : \A y \in T : x >= y
    BY <1>4
  <2> QED BY <2>1 DEF Max
<1> QED BY <1>5

\* The same for the least member of a set of naturals.
LEMMA Smallest ==
  ASSUME NEW T \in SUBSET Nat, T # {}
  PROVE  Min(T) \in T /\ \A n \in T : Min(T) <= n
BY LeastNat DEF Min

\* A set that holds 0 and every successor of its members holds every natural.
LEMMA NatInd ==
  ASSUME NEW T \in SUBSET Nat, 0 \in T, \A n \in T : n + 1 \in T
  PROVE  T = Nat
<1>1. SUFFICES ASSUME Nat \ T # {} PROVE FALSE
  OBVIOUS
<1>2. PICK n \in Nat \ T : \A m \in Nat \ T : n <= m
  BY <1>1, LeastNat
<1>3. n # 0 /\ n - 1 \in Nat
  BY <1>2
<1>4. n - 1 \in T
  BY <1>2, <1>3
<1> QED BY <1>2, <1>3, <1>4

\* There is a function for every recursion that goes from each number to the next.
Iterates(S, a, step) ==
    \E f \in [Nat -> S] : f[0] = a /\ \A n \in Nat : f[n + 1] = step[<<n, f[n]>>]

LEMMA Recursion ==
  ASSUME NEW S, NEW a \in S, NEW step \in [Nat \X S -> S]
  PROVE  Iterates(S, a, step)
<1> DEFINE Good(k) == {g \in [0..k -> S] : g[0] = a /\ \A j \in 0..(k - 1) :
                                              g[j + 1] = step[<<j, g[j]>>]}
           T == {k \in Nat : Good(k) # {}}
           U == {j \in Nat : \A k, m \in Nat : j <= k /\ j <= m =>
                               \A g \in Good(k), h \in Good(m) : g[j] = h[j]}
<1>1. ASSUME NEW k \in Nat, NEW g \in [0..k -> S], g[0] = a,
             \A j \in 0..(k - 1) : g[j + 1] = step[<<j, g[j]>>]
      PROVE  g \in Good(k)
  BY <1>1
<1>2. ASSUME NEW k \in Nat, NEW g \in Good(k)
      PROVE  /\ g \in [0..k -> S] /\ g[0] = a
             /\ \A j \in 0..(k - 1) : g[j + 1] = step[<<j, g[j]>>]
  OBVIOUS
<1> HIDE DEF Good
<1>3. 0 \in T
  <2> DEFINE g == [j \in 0..0 |-> a]
  <2>1. g \in [0..0 -> S] /\ g[0] = a /\ \A j \in 0..(0 - 1) : FALSE
    OBVIOUS
  <2> HIDE DEF g
  <2>2. g \in Good(0)
    BY <2>1, <1>1
  <2> QED BY <2>2
<1>4. ASSUME NEW k \in T PROVE k + 1 \in T
  <2>1. PICK g : g \in Good(k)
    OBVIOUS
  <2>2. k \in Nat /\ g \in [0..k -> S] /\ g[0] = a
        /\ \A j \in 0..(k - 1) : g[j + 1] = step[<<j, g[j]>>]
    BY <2>1, <1>2
  <2> DEFINE h == [j \in 0..(k + 1) |-> IF j = k + 1 THEN step[<<k, g[k]>>] ELSE g[j]]
  <2>3. step[<<k, g[k]>>] \in S
    BY <2>2
  <2>4. h \in [0..(k + 1) -> S] /\ h[0] = a /\ h[k + 1] = step[<<k, g[k]>>]
        /\ \A j \in 0..k : h[j] = g[j]
    BY <2>2, <2>3
  <2> HIDE DEF h
  <2>5. \A j \in 0..((k + 1) - 1) : h[j + 1] = step[<<j, h[j]>>]
    <3> SUFFICES ASSUME NEW j \in 0..((k + 1) - 1) PROVE h[j + 1] = step[<<j, h[j]>>]
      OBVIOUS
    <3>1. CASE j = k
      <4>1. h[j] = g[k] /\ h[j + 1] = step[<<k, g[k]>>]
        BY <3>1, <2>4, <2>2
      <4> QED BY <4>1, <3>1
    <3>2. CASE j # k
      <4>1. j \in 0..(k - 1) /\ j \in 0..k /\ j + 1 \in 0..k
        BY <3>2, <2>2
      <4>2. h[j] = g[j] /\ h[j + 1] = g[j + 1] /\ g[j + 1] = step[<<j, g[j]>>]
        BY <4>1, <2>4, <2>2
      <4> QED BY <4>2
    <3> QED BY <3>1, <3>2
  <2>6. k + 1 \in Nat
    BY <2>2
  <2>7. h \in Good(k + 1)
    BY <2>4, <2>5, <2>6, <1>1
  <2> QED BY <2>6, <2>7
<1>5. T = Nat
  <2> HIDE DEF T
  <2>1. T \subseteq Nat
    BY DEF T
  <2> QED BY <1>3, <1>4, <2>1, NatInd
<1>6. U = Nat
  <2>1. 0 \in U
    BY <1>2
  <2>2. ASSUME NEW j \in U PROVE j + 1 \in U
    <3>1. j \in Nat
      OBVIOUS
    <3>2. ASSUME NEW k \in Nat, NEW m \in Nat, j + 1 <= k, j + 1 <= m,
                 NEW g \in Good(k), NEW h \in Good(m)
          PROVE  g[j + 1] = h[j + 1]
      <4>1. j <= k /\ j <= m /\ j \in 0..(k - 1) /\ j \in 0..(m - 1)
        BY <3>1, <3>2
      <4>2. g[j] = h[j]
        BY <4>1
      <4>3. g[j + 1] = step[<<j, g[j]>>]
        BY <4>1, <1>2
      <4>4. h[j + 1] = step[<<j, h[j]>>]
        BY <4>1, <1>2
      <4> QED BY <4>2, <4>3, <4>4
    <3> QED BY <3>1, <3>2
  <2> HIDE DEF U
  <2>3. U \subseteq Nat
    BY DEF U
  <2> QED BY <2>1, <2>2, <2>3, NatInd
<1> DEFINE G(k) == CHOOSE g : g \in Good(k)
           f == [k \in Nat |-> G(k)[k]]
<1>7. ASSUME NEW k \in Nat PROVE G(k) \in Good(k)
  <2>1. Good(k) # {}
    BY <1>5
  <2> QED BY <2>1
<1>8. ASSUME NEW j \in Nat, NEW k \in Nat, NEW m \in Nat, j <= k, j <= m,
             NEW g \in Good(k), NEW h \in Good(m)
      PROVE  g[j] = h[j]
  <2>1. j \in U
    BY <1>6
  <2> QED BY <2>1, <1>8
<1> HIDE DEF G, T, U
<1>9. ASSUME NEW k \in Nat PROVE G(k) \in [0..k -> S] /\ k \in 0..k
  BY <1>7, <1>2
<1>10. f \in [Nat -> S]
  <2>1. \A k \in Nat : G(k)[k] \in S
    BY <1>9
  <2> QED BY <2>1
<1>11. f[0] = a
  BY <1>7, <1>2
<1>12. ASSUME NEW n \in Nat PROVE f[n + 1] = step[<<n, f[n]>>]
  <2>1. n + 1 \in Nat /\ n <= n + 1 /\ n <= n /\ n \in 0..((n + 1) - 1)
    OBVIOUS
  <2>2. G(n) \in Good(n) /\ G(n + 1) \in Good(n + 1)
    BY <2>1, <1>7
  <2>3. G(n)[n] = G(n + 1)[n]
    BY <2>1, <2>2, <1>8
  <2>4. G(n + 1)[n + 1] = step[<<n, G(n + 1)[n]>>]
    BY <2>1, <2>2, <1>2
  <2>5. f[n] = G(n)[n] /\ f[n + 1] = G(n + 1)[n + 1]
    BY <2>1
  <2> QED BY <2>3, <2>4, <2>5
<1> HIDE DEF f
<1> QED BY <1>10, <1>11, <1>12 DEF Iterates

-----------------------------------------------------------------------------
(* Sequences *)

\* The element e comes in front of the q-th.
LEMMA InsertAtIs ==
  ASSUME NEW S, NEW s \in Seq(S), NEW e \in S, NEW q \in 1..(Len(s) + 1)
  PROVE  /\ InsertAt(s, q, e) \in Seq(S) /\ Len(InsertAt(s, q, e)) = Len(s) + 1
         /\ \A k \in 1..(Len(s) + 1) :
               InsertAt(s, q, e)[k] = IF k < q THEN s[k] ELSE IF k = q THEN e ELSE s[k - 1]
<1> DEFINE a == SubSeq(s, 1, q - 1)
           b == SubSeq(s, q, Len(s))
<1>1. a \in Seq(S) /\ Len(a) = q - 1 /\ \A k \in 1..(q - 1) : a[k] = s[k]
  <2>1. 1 \in Int /\ q - 1 \in Int /\ \A k \in 1..(q - 1) : s[k] \in S /\ 1 + k - 1 = k
    OBVIOUS
  <2>2. /\ a \in Seq(S) /\ Len(a) = IF 1 <= q - 1 THEN q - 1 - 1 + 1 ELSE 0
        /\ \A k \in 1..(q - 1 - 1 + 1) : a[k] = s[1 + k - 1]
    BY <2>1, SubSeqProperties
  <2>3. 1..(q - 1 - 1 + 1) = 1..(q - 1) /\ (IF 1 <= q - 1 THEN q - 1 - 1 + 1 ELSE 0) = q - 1
    OBVIOUS
  <2> HIDE DEF a
  <2> QED BY <2>1, <2>2, <2>3
<1>2. b \in Seq(S) /\ Len(b) = Len(s) - q + 1 /\ \A k \in 1..(Len(s) - q + 1) : b[k] = s[q + k - 1]
  <2>1. q \in Int /\ Len(s) \in Int /\ \A k \in q..Len(s) : s[k] \in S
    OBVIOUS
  <2>2. /\ b \in Seq(S) /\ Len(b) = IF q <= Len(s) THEN Len(s) - q + 1 ELSE 0
        /\ \A k \in 1..(Len(s) - q + 1) : b[k] = s[q + k - 1]
    BY <2>1, SubSeqProperties
  <2>3. (IF q <= Len(s) THEN Len(s) - q + 1 ELSE 0) = Len(s) - q + 1
    OBVIOUS
  <2> HIDE DEF b
  <2> QED BY <2>2, <2>3
<1> DEFINE c == <<e>>
<1>3. c \in Seq(S) /\ Len(c) = 1 /\ c[1] = e
  OBVIOUS
<1> HIDE DEF a, b, c
<1>4. /\ a \o c \in Seq(S) /\ Len(a \o c) = q
      /\ \A k \in 1..q : (a \o c)[k] = IF k < q THEN s[k] ELSE e
  <2>1. Len(a) + Len(c) = q
    BY <1>1, <1>3
  <2>2. /\ a \o c \in Seq(S) /\ Len(a \o c) = q
        /\ \A k \in 1..q : (a \o c)[k] = IF k <= Len(a) THEN a[k] ELSE c[k - Len(a)]
    BY <1>1, <1>3, <2>1, ConcatProperties
  <2>3. ASSUME NEW k \in 1..q PROVE (a \o c)[k] = IF k < q THEN s[k] ELSE e
    <3>1. CASE k < q
      <4>1. k \in 1..(q - 1) /\ k <= Len(a)
        BY <3>1, <1>1
      <4> QED BY <4>1, <3>1, <1>1, <2>2
    <3>2. CASE k = q
      <4>1. ~(k <= Len(a)) /\ k - Len(a) = 1
        BY <3>2, <1>1
      <4> QED BY <4>1, <3>2, <1>3, <2>2
    <3>3. k < q \/ k = q
      OBVIOUS
    <3> QED BY <3>1, <3>2, <3>3
  <2> QED BY <2>2, <2>3
<1> DEFINE d == a \o c
<1>5. d \in Seq(S) /\ Len(d) = q /\ \A k \in 1..q : d[k] = IF k < q THEN s[k] ELSE e
  BY <1>4
<1> HIDE DEF d
<1>6. /\ d \o b \in Seq(S) /\ Len(d \o b) = Len(s) + 1
      /\ \A k \in 1..(Len(s) + 1) : (d \o b)[k] = IF k <= q THEN d[k] ELSE b[k - q]
  <2>1. Len(d) + Len(b) = Len(s) + 1 /\ Len(d) = q
    BY <1>2, <1>5
  <2>2. /\ d \o b \in Seq(S) /\ Len(d \o b) = Len(d) + Len(b)
        /\ \A k \in 1..(Len(d) + Len(b)) : (d \o b)[k] = IF k <= Len(d) THEN d[k] ELSE b[k - Len(d)]
    BY <1>2, <1>5, ConcatProperties
  <2> QED BY <2>1, <2>2
<1>7. ASSUME NEW k \in 1..(Len(s) + 1)
      PROVE  (d \o b)[k] = IF k < q THEN s[k] ELSE IF k = q THEN e ELSE s[k - 1]
  <2>1. CASE k <= q
    <3>1. k \in 1..q
      BY <2>1
    <3> QED BY <3>1, <2>1, <1>5, <1>6
  <2>2. CASE k > q
    <3>1. k - q \in 1..(Len(s) - q + 1) /\ q + (k - q) - 1 = k - 1
      BY <2>2
    <3>2. ~(k < q) /\ k # q /\ ~(k <= q)
      BY <2>2
    <3> QED BY <3>1, <3>2, <1>2, <1>6
  <2>3. k <= q \/ k > q
    OBVIOUS
  <2> QED BY <2>1, <2>2, <2>3
<1>8. InsertAt(s, q, e) = d \o b
  BY DEF InsertAt, a, b, c, d
<1> QED BY <1>6, <1>7, <1>8

LEMMA InsertAtLen ==
  ASSUME NEW S, NEW s \in Seq(S), NEW e \in S, NEW q \in 1..(Len(s) + 1)
  PROVE  InsertAt(s, q, e) \in Seq(S) /\ Len(InsertAt(s, q, e)) = Len(s) + 1
BY InsertAtIs

LEMMA InsertAtItems ==
  ASSUME NEW S, NEW s \in Seq(S), NEW e \in S, NEW q \in 1..(Len(s) + 1)
  PROVE  \A k \in 1..(Len(s) + 1) :
            InsertAt(s, q, e)[k] = IF k < q THEN s[k] ELSE IF k = q THEN e ELSE s[k - 1]
BY InsertAtIs

\* The q-th element is gone.
LEMMA RemoveAtIs ==
  ASSUME NEW S, NEW s \in Seq(S), NEW q \in 1..Len(s)
  PROVE  /\ RemoveAt(s, q) \in Seq(S) /\ Len(RemoveAt(s, q)) = Len(s) - 1
         /\ \A k \in 1..(Len(s) - 1) : RemoveAt(s, q)[k] = IF k < q THEN s[k] ELSE s[k + 1]
<1> DEFINE a == SubSeq(s, 1, q - 1)
           b == SubSeq(s, q + 1, Len(s))
<1>1. a \in Seq(S) /\ Len(a) = q - 1 /\ \A k \in 1..(q - 1) : a[k] = s[k]
  <2>1. 1 \in Int /\ q - 1 \in Int /\ \A k \in 1..(q - 1) : s[k] \in S /\ 1 + k - 1 = k
    OBVIOUS
  <2>2. /\ a \in Seq(S) /\ Len(a) = IF 1 <= q - 1 THEN q - 1 - 1 + 1 ELSE 0
        /\ \A k \in 1..(q - 1 - 1 + 1) : a[k] = s[1 + k - 1]
    BY <2>1, SubSeqProperties
  <2>3. 1..(q - 1 - 1 + 1) = 1..(q - 1) /\ (IF 1 <= q - 1 THEN q - 1 - 1 + 1 ELSE 0) = q - 1
    BY SMTT(60)
  <2> HIDE DEF a
  <2> QED BY <2>1, <2>2, <2>3
<1>2. b \in Seq(S) /\ Len(b) = Len(s) - q /\ \A k \in 1..(Len(s) - q) : b[k] = s[q + k]
  <2>1. q + 1 \in Int /\ Len(s) \in Int /\ \A k \in (q + 1)..Len(s) : s[k] \in S
    OBVIOUS
  <2>2. /\ b \in Seq(S) /\ Len(b) = IF q + 1 <= Len(s) THEN Len(s) - (q + 1) + 1 ELSE 0
        /\ \A k \in 1..(Len(s) - (q + 1) + 1) : b[k] = s[(q + 1) + k - 1]
    BY <2>1, SubSeqProperties
  <2>3. /\ Len(s) - (q + 1) + 1 = Len(s) - q
        /\ (IF q + 1 <= Len(s) THEN Len(s) - (q + 1) + 1 ELSE 0) = Len(s) - q
        /\ \A k \in 1..(Len(s) - q) : (q + 1) + k - 1 = q + k
    OBVIOUS
  <2> HIDE DEF b
  <2> QED BY <2>2, <2>3
<1> HIDE DEF a, b
<1>3. Len(a) + Len(b) = Len(s) - 1
  BY <1>1, <1>2
<1>4. /\ a \o b \in Seq(S) /\ Len(a \o b) = Len(s) - 1
      /\ \A k \in 1..(Len(s) - 1) : (a \o b)[k] = IF k <= q - 1 THEN a[k] ELSE b[k - (q - 1)]
  <2>1. /\ a \o b \in Seq(S) /\ Len(a \o b) = Len(a) + Len(b)
        /\ \A k \in 1..(Len(a) + Len(b)) : (a \o b)[k] = IF k <= Len(a) THEN a[k] ELSE b[k - Len(a)]
    BY <1>1, <1>2, ConcatProperties
  <2> QED BY <2>1, <1>1, <1>3
<1>5. ASSUME NEW k \in 1..(Len(s) - 1) PROVE (a \o b)[k] = IF k < q THEN s[k] ELSE s[k + 1]
  <2>1. CASE k < q
    <3>1. k \in 1..(q - 1) /\ k <= q - 1
      BY <2>1
    <3> QED BY <3>1, <2>1, <1>1, <1>4
  <2>2. CASE k >= q
    <3>1. k - (q - 1) \in 1..(Len(s) - q) /\ q + (k - (q - 1)) = k + 1 /\ ~(k <= q - 1)
      BY <2>2
    <3>2. ~(k < q)
      BY <2>2
    <3> QED BY <3>1, <3>2, <1>2, <1>4
  <2>3. k < q \/ k >= q
    OBVIOUS
  <2> QED BY <2>1, <2>2, <2>3
<1>6. RemoveAt(s, q) = a \o b
  BY DEF RemoveAt, a, b
<1> QED BY <1>4, <1>5, <1>6
=============================================================================
