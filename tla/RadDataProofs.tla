---------------------------- MODULE RadDataProofs ----------------------------
(***************************************************************************)
(* Theorems about radlib's data structures.  RadBuffers: for any number of *)
(* processes, any arguments of radBuffersInit and any sizes of the headers *)
(* and of the pool table.  RadList: for any finite set of nodes with any   *)
(* sort keys.  RadConffile: for any processes, entries, values and order   *)
(* of the calls.  RadDatabase: for any table descriptions, values and      *)
(* string lengths.                                                         *)
(***************************************************************************)
EXTENDS RadBuffers, RadList, RadConffile, RadDatabase, CommonLemmas, FiniteSetTheorems


------------------------------------------------------------------------------
(* The layout *)

\* What PowerOf2 computes, by the equations it is defined with.
LEMMA Powers ==
  /\ PowerOf2 \in [Nat -> Nat]
  /\ PowerOf2[0] = 16
  /\ \A k \in Nat : PowerOf2[k + 1] = 2 * PowerOf2[k]
<1> DEFINE step == [x \in Nat \X Nat |-> 2 * x[2]]
           eqn(f) == [k \in Nat |-> IF k = 0 THEN 16 ELSE 2 * f[k - 1]]
<1>1. step \in [Nat \X Nat -> Nat]
  OBVIOUS
<1>2. PICK f \in [Nat -> Nat] : f[0] = 16 /\ \A n \in Nat : f[n + 1] = step[<<n, f[n]>>]
  <2>1. 16 \in Nat
    OBVIOUS
  <2>2. Iterates(Nat, 16, step)
    <3> HIDE DEF step
    <3> QED BY <1>1, <2>1, Recursion
  <2> HIDE DEF step
  <2> QED BY <2>2 DEF Iterates
<1>3. \A n \in Nat : f[n + 1] = 2 * f[n]
  BY <1>2
<1>4. \A n \in Nat : n # 0 => f[n] = 2 * f[n - 1]
  <2> SUFFICES ASSUME NEW n \in Nat, n # 0 PROVE f[n] = 2 * f[n - 1]
    OBVIOUS
  <2>1. n - 1 \in Nat /\ (n - 1) + 1 = n
    OBVIOUS
  <2> QED BY <2>1, <1>3
<1>5. f = eqn(f)
  BY <1>2, <1>4
<1>6. PowerOf2 = eqn(PowerOf2)
  <2>1. PowerOf2 = CHOOSE g : g = eqn(g)
    BY DEF PowerOf2
  <2> HIDE DEF eqn
  <2> QED BY <1>5, <2>1
<1>7. PowerOf2 \in [Nat -> Nat]
  <2> DEFINE T == {k \in Nat : PowerOf2[k] \in Nat}
  <2>1. 0 \in T
    BY <1>6
  <2>2. ASSUME NEW k \in T PROVE k + 1 \in T
    <3>1. k \in Nat /\ PowerOf2[k] \in Nat /\ (k + 1) - 1 = k /\ k + 1 # 0 /\ k + 1 \in Nat
      OBVIOUS
    <3>2. PowerOf2[k + 1] = 2 * PowerOf2[k]
      BY <1>6, <3>1
    <3> QED BY <3>1, <3>2
  <2>3. T = Nat
    <3>1. T \subseteq Nat
      OBVIOUS
    <3> HIDE DEF T
    <3> QED BY <2>1, <2>2, <3>1, NatInd
  <2>4. \A k \in Nat : PowerOf2[k] \in Nat
    BY <2>3
  <2> HIDE DEF T
  <2> QED BY <1>6, <2>4
<1>8. PowerOf2[0] = 16
  BY <1>6
<1>9. ASSUME NEW k \in Nat PROVE PowerOf2[k + 1] = 2 * PowerOf2[k]
  <2>1. (k + 1) - 1 = k /\ k + 1 # 0 /\ k + 1 \in Nat
    OBVIOUS
  <2> QED BY <1>6, <2>1
<1> QED BY <1>7, <1>8, <1>9

\* The powers outgrow their exponent.
LEMMA PowersGrow == \A k \in Nat : PowerOf2[k] > k
<1> DEFINE T == {k \in Nat : PowerOf2[k] > k}
<1>1. 0 \in T
  BY Powers
<1>2. ASSUME NEW k \in T PROVE k + 1 \in T
  <2>1. PowerOf2[k] \in Nat /\ PowerOf2[k] > k /\ k \in Nat
    BY Powers
  <2>2. PowerOf2[k + 1] = 2 * PowerOf2[k]
    BY <2>1, Powers
  <2> QED BY <2>1, <2>2
<1>3. T = Nat
  <2>1. T \subseteq Nat
    OBVIOUS
  <2> HIDE DEF T
  <2> QED BY <1>1, <1>2, <2>1, NatInd
<1> QED BY <1>3

\* The sizes of a configuration are positive and double from pool to pool.
LEMMA SizesDouble ==
  ASSUME NEW c \in BufConfigs, NEW i \in Nat
  PROVE  /\ SizeAt(c, i) \in Nat /\ SizeAt(c, i) > 0
         /\ SizeAt(c, i + 1) = 2 * SizeAt(c, i)
<1> DEFINE T == {k \in 0..c.min : PowerOf2[k] >= c.min}
<1>1. c.min \in Nat
  BY BufAssumption
<1>2. c.min \in T
  <2>1. PowerOf2[c.min] > c.min /\ PowerOf2[c.min] \in Nat
    BY <1>1, PowersGrow, Powers
  <2> QED BY <1>1, <2>1
<1>3. T \in SUBSET Nat
  OBVIOUS
<1>4. StartsAt(c.min) \in Nat
  <2>1. Min(T) \in T
    <3> HIDE DEF T
    <3> QED BY <1>2, <1>3, Smallest
  <2>2. StartsAt(c.min) = Min(T)
    BY DEF StartsAt
  <2> QED BY <2>1, <2>2, <1>3
<1>5. StartsAt(c.min) + i \in Nat /\ StartsAt(c.min) + (i + 1) = (StartsAt(c.min) + i) + 1
  BY <1>4
<1>6. PowerOf2[StartsAt(c.min) + i] \in Nat /\ PowerOf2[StartsAt(c.min) + i] > 0
  BY <1>5, Powers, PowersGrow
<1>7. PowerOf2[(StartsAt(c.min) + i) + 1] = 2 * PowerOf2[StartsAt(c.min) + i]
  BY <1>5, Powers
<1> QED BY <1>5, <1>6, <1>7 DEF SizeAt

\* The cutting loop ends within the table, and every pool it cuts has buffers.
LEMMA PoolsCut ==
  ASSUME NEW c \in BufConfigs
  PROVE  /\ NumSizes(c) \in 0..MaxBfrSizes
         /\ \A i \in 0..(NumSizes(c) - 1) : c.each[i + 1] \in Nat /\ c.each[i + 1] > 0
<1> DEFINE T == {n \in 0 .. MaxBfrSizes :
                    \A i \in 0 .. n - 1 : /\ c.each[i + 1] > 0
                                          /\ i < n - 1 => SizeAt(c, i) < c.max}
<1>1. MaxBfrSizes \in Nat /\ c.each \in Seq(Int) /\ Len(c.each) = MaxBfrSizes
  BY BufAssumption
<1>2. 0 \in T
  BY <1>1
<1>3. T \in SUBSET (0..MaxBfrSizes)
  OBVIOUS
<1>4. NumSizes(c) = Max(T)
  BY DEF NumSizes
<1>5. Max(T) \in T
  <2> HIDE DEF T
  <2> QED BY <1>1, <1>2, <1>3, Greatest
<1>6. NumSizes(c) \in 0..MaxBfrSizes /\ \A i \in 0..(NumSizes(c) - 1) : c.each[i + 1] > 0
  BY <1>4, <1>5
<1>7. ASSUME NEW i \in 0..(NumSizes(c) - 1) PROVE c.each[i + 1] \in Int
  <2>1. i + 1 \in 1..Len(c.each)
    BY <1>1, <1>6
  <2> QED BY <1>1, <2>1
<1> QED BY <1>6, <1>7

\* A product of naturals is a natural.
LEMMA Product == \A x, y \in Nat : x * y \in Nat
OBVIOUS

\* What the offsets of the pools are: each pool starts where the one before it ends.
LaidOut(s) ==
    LET n == s.numSizes IN
    /\ n \in 0..MaxBfrSizes
    /\ s.sizes \in [Pools -> Nat] /\ s.count \in [Pools -> Nat]
    /\ s.first \in [0..n -> Nat] /\ s.first[0] = ShareBytes /\ s.end = s.first[n]
    /\ \A i \in 0..(n - 1) :
        /\ s.sizes[i] > 0
        /\ s.first[i + 1] = s.first[i] + (s.sizes[i] + HdrBytes) * s.count[i]
        /\ i + 1 < n => s.sizes[i + 1] = 2 * s.sizes[i]

\* radBuffersInit lays the segment out so.
LEMMA LayoutLaysOut ==
  ASSUME NEW c \in BufConfigs
  PROVE  LaidOut(Layout(c))
<1> DEFINE n == NumSizes(c)
           size == [i \in Pools |-> IF i < n THEN SizeAt(c, i) ELSE 0]
           count == [i \in Pools |-> IF i < n THEN c.each[i + 1] ELSE 0]
           eqn(g) == [i \in 0 .. n |-> IF i = 0 THEN ShareBytes
                                       ELSE g[i - 1] + PoolBytes(size[i - 1], c.each[i])]
           first == CHOOSE g : g = eqn(g)
           s == [numSizes |-> n, sizes |-> size, count |-> count, first |-> first,
                 end |-> first[n]]
<1>1. Layout(c) = s
  BY DEF Layout
<1>2. /\ MaxBfrSizes \in Nat /\ n \in 0..MaxBfrSizes /\ n \in Nat
      /\ ShareBytes \in Nat /\ HdrBytes \in Nat
      /\ 0..(n - 1) \subseteq Pools
  BY BufAssumption, PoolsCut DEF Pools
<1>3. ASSUME NEW i \in 0..(n - 1)
      PROVE  /\ size[i] = SizeAt(c, i) /\ size[i] \in Nat /\ size[i] > 0
             /\ count[i] = c.each[i + 1] /\ count[i] \in Nat
             /\ PoolBytes(size[i], c.each[i + 1]) \in Nat
             /\ PoolBytes(size[i], c.each[i + 1]) = (size[i] + HdrBytes) * count[i]
  <2>1. i \in Pools /\ i < n /\ i \in Nat
    BY <1>2
  <2>2. size[i] = SizeAt(c, i) /\ count[i] = c.each[i + 1]
    BY <2>1
  <2>3. size[i] \in Nat /\ size[i] > 0
    BY <2>1, <2>2, SizesDouble
  <2>4. count[i] \in Nat
    BY <2>2, PoolsCut
  <2>5. PoolBytes(size[i], c.each[i + 1]) = (size[i] + HdrBytes) * count[i]
    BY <2>2 DEF PoolBytes
  <2> HIDE DEF size, count
  <2>6. (size[i] + HdrBytes) * count[i] \in Nat
    BY <2>3, <2>4, <1>2, Product
  <2> QED BY <2>2, <2>3, <2>4, <2>5, <2>6
<1>4. size \in [Pools -> Nat] /\ count \in [Pools -> Nat]
  <2>1. ASSUME NEW i \in Pools PROVE size[i] \in Nat /\ count[i] \in Nat
    <3>1. CASE i < n
      <4>1. i \in 0..(n - 1)
        BY <3>1, <1>2 DEF Pools
      <4> HIDE DEF size, count
      <4> QED BY <4>1, <1>3
    <3>2. CASE ~(i < n)
      BY <3>2
    <3> QED BY <3>1, <3>2
  <2> QED BY <2>1
<1> DEFINE W == [i \in Nat |-> IF i < n THEN PoolBytes(size[i], c.each[i + 1]) ELSE 0]
           step == [x \in Nat \X Nat |-> x[2] + W[x[1]]]
<1>5. W \in [Nat -> Nat]
  <2>1. ASSUME NEW i \in Nat PROVE W[i] \in Nat
    <3>1. CASE i < n
      <4>1. i \in 0..(n - 1)
        BY <3>1, <1>2
      <4>2. PoolBytes(size[i], c.each[i + 1]) \in Nat
        BY <4>1, <1>3
      <4> HIDE DEF size, n
      <4> QED BY <3>1, <4>2
    <3>2. CASE ~(i < n)
      BY <3>2
    <3> QED BY <3>1, <3>2
  <2> QED BY <2>1
<1>6. PICK f \in [Nat -> Nat] : f[0] = ShareBytes /\ \A i \in Nat : f[i + 1] = step[<<i, f[i]>>]
  <2>1. step \in [Nat \X Nat -> Nat]
    <3> HIDE DEF W
    <3> QED BY <1>5
  <2>2. Iterates(Nat, ShareBytes, step)
    <3> HIDE DEF step
    <3> QED BY <1>2, <2>1, Recursion
  <2> HIDE DEF step
  <2> QED BY <2>2 DEF Iterates
<1>7. ASSUME NEW i \in 0..(n - 1)
      PROVE  f[i + 1] = f[i] + PoolBytes(size[i], c.each[i + 1])
  <2>1. i \in Nat /\ i < n
    BY <1>2
  <2>2. f[i + 1] = f[i] + W[i]
    <3> HIDE DEF W
    <3> QED BY <1>6, <2>1
  <2>3. W[i] = PoolBytes(size[i], c.each[i + 1])
    <3> HIDE DEF size
    <3> QED BY <2>1
  <2> QED BY <2>2, <2>3
<1> HIDE DEF size, count, n, W, step
<1>8. \E g : g = eqn(g)
  <2> DEFINE g == [i \in 0..n |-> f[i]]
  <2>1. ASSUME NEW i \in 0..n PROVE g[i] = eqn(g)[i]
    <3>1. CASE i = 0
      BY <3>1, <1>6
    <3>2. CASE i # 0
      <4>1. i - 1 \in 0..(n - 1) /\ (i - 1) + 1 = i /\ i - 1 \in 0..n
        BY <3>2, <1>2
      <4>2. f[i] = f[i - 1] + PoolBytes(size[i - 1], c.each[i])
        BY <4>1, <1>7
      <4> QED BY <3>2, <4>1, <4>2
    <3> QED BY <3>1, <3>2
  <2>2. g = eqn(g)
    BY <2>1
  <2> QED BY <2>2
<1>9. first = eqn(first)
  <2> HIDE DEF eqn
  <2> QED BY <1>8
<1> HIDE DEF first
<1>10. first[0] = ShareBytes
  BY <1>9, <1>2
<1>11. ASSUME NEW i \in 0..(n - 1)
       PROVE  first[i + 1] = first[i] + (size[i] + HdrBytes) * count[i]
  <2>1. i + 1 \in 0..n /\ i + 1 # 0 /\ (i + 1) - 1 = i
    BY <1>2
  <2>2. first[i + 1] = first[i] + PoolBytes(size[i], c.each[i + 1])
    BY <1>9, <2>1
  <2> QED BY <2>2, <1>3
<1>12. ASSUME NEW i \in 0..n PROVE first[i] = f[i]
  <2> DEFINE T == {k \in Nat : k <= n => first[k] = f[k]}
  <2>1. 0 \in T
    BY <1>10, <1>6
  <2>2. ASSUME NEW k \in T PROVE k + 1 \in T
    <3> SUFFICES ASSUME k + 1 <= n PROVE first[k + 1] = f[k + 1]
      OBVIOUS
    <3>1. k \in 0..(n - 1) /\ first[k] = f[k]
      BY <1>2
    <3> QED BY <3>1, <1>11, <1>7, <1>3
  <2>3. T = Nat
    <3>1. T \subseteq Nat
      OBVIOUS
    <3> HIDE DEF T
    <3> QED BY <2>1, <2>2, <3>1, NatInd
  <2>4. i \in T /\ i <= n
    BY <2>3, <1>2
  <2> QED BY <2>4
<1>13. first \in [0..n -> Nat]
  <2>1. \A i \in 0..n : first[i] \in Nat
    BY <1>12, <1>6, <1>2
  <2>2. first = [i \in 0..n |-> first[i]]
    BY <1>9
  <2> QED BY <2>1, <2>2
<1>14. ASSUME NEW i \in 0..(n - 1), i + 1 < n PROVE size[i + 1] = 2 * size[i]
  <2>1. i + 1 \in 0..(n - 1) /\ i \in Nat
    BY <1>14, <1>2
  <2> QED BY <2>1, <1>3, SizesDouble
<1>15. /\ s.numSizes = n /\ s.sizes = size /\ s.count = count
       /\ s.first = first /\ s.end = first[n]
  OBVIOUS
<1> HIDE DEF s
<1>16. LaidOut(s)
  <2>1. \A i \in 0..(n - 1) : /\ size[i] > 0
                              /\ first[i + 1] = first[i] + (size[i] + HdrBytes) * count[i]
                              /\ i + 1 < n => size[i + 1] = 2 * size[i]
    BY <1>3, <1>11, <1>14
  <2> QED BY <2>1, <1>2, <1>4, <1>10, <1>13, <1>15 DEF LaidOut
<1> QED BY <1>1, <1>16

------------------------------------------------------------------------------
(* Where the buffers lie *)

\* Products of naturals grow with each factor, by steps of the other.
LEMMA ProductGrows ==
  ASSUME NEW a \in Nat, NEW b \in Nat, NEW w \in Nat, a < b
  PROVE  /\ a * w \in Nat /\ b * w \in Nat
         /\ a * w + w = (a + 1) * w
         /\ a * w + w <= b * w
<1>1. a * w \in Nat /\ b * w \in Nat /\ (b - (a + 1)) * w \in Nat
  BY Product
<1>2. b * w = (a + 1) * w + (b - (a + 1)) * w
  OBVIOUS
<1>3. a * w + w = (a + 1) * w
  OBVIOUS
<1> QED BY <1>1, <1>2, <1>3

\* Later pools lie behind earlier ones.
LEMMA FirstGrows ==
  ASSUME NEW s, LaidOut(s), NEW i \in 0..s.numSizes
  PROVE  \A k \in 0..s.numSizes : i <= k => s.first[i] <= s.first[k]
<1> DEFINE n == s.numSizes
           T == {k \in Nat : k <= n /\ i <= k => s.first[i] <= s.first[k]}
<1>1. /\ n \in Nat /\ HdrBytes \in Nat /\ s.first \in [0..n -> Nat]
      /\ \A k \in 0..(n - 1) : k \in Pools
      /\ s.sizes \in [Pools -> Nat] /\ s.count \in [Pools -> Nat]
  BY SMTT(60), BufAssumption DEF LaidOut, Pools
<1>2. 0 \in T
  BY <1>1
<1>3. ASSUME NEW k \in T PROVE k + 1 \in T
  <2> SUFFICES ASSUME k + 1 <= n, i <= k + 1 PROVE s.first[i] <= s.first[k + 1]
    OBVIOUS
  <2>1. CASE i = k + 1
    <3>1. s.first[i] \in Nat
      BY <1>1
    <3> QED BY <3>1, <2>1
  <2>2. CASE i # k + 1
    <3>1. k \in 0..(n - 1) /\ i <= k /\ k <= n
      BY <1>1, <2>2
    <3>2. s.first[i] <= s.first[k]
      BY <3>1
    <3>3. s.first[k + 1] = s.first[k] + (s.sizes[k] + HdrBytes) * s.count[k]
      BY <3>1 DEF LaidOut
    <3>4. s.sizes[k] + HdrBytes \in Nat /\ s.count[k] \in Nat
      BY <3>1, <1>1
    <3>5. (s.sizes[k] + HdrBytes) * s.count[k] \in Nat
      BY <3>4, Product
    <3>6. s.first[i] \in Nat /\ s.first[k] \in Nat
      BY SMTT(30), <3>1, <1>1
    <3> QED BY <3>2, <3>3, <3>5, <3>6
  <2> QED BY <2>1, <2>2
<1>4. T = Nat
  <2>1. T \subseteq Nat
    OBVIOUS
  <2> HIDE DEF T
  <2> QED BY <1>2, <1>3, <2>1, NatInd
<1>5. ASSUME NEW k \in 0..n, i <= k PROVE s.first[i] <= s.first[k]
  <2>1. k \in T /\ k <= n
    BY <1>4, <1>1
  <2> QED BY <2>1, <1>5
<1> QED BY <1>5

\* The buffers of later pools are not smaller.
LEMMA SizesGrow ==
  ASSUME NEW s, LaidOut(s), NEW i \in 0..(s.numSizes - 1)
  PROVE  \A k \in 0..(s.numSizes - 1) : i <= k => s.sizes[i] <= s.sizes[k]
<1> DEFINE n == s.numSizes
           T == {k \in Nat : k < n /\ i <= k => s.sizes[i] <= s.sizes[k]}
<1>1. /\ n \in Nat /\ \A k \in 0..(n - 1) : k \in Pools
      /\ s.sizes \in [Pools -> Nat]
  BY SMTT(60), BufAssumption DEF LaidOut, Pools
<1>2. 0 \in T
  BY <1>1
<1>3. ASSUME NEW k \in T PROVE k + 1 \in T
  <2> SUFFICES ASSUME k + 1 < n, i <= k + 1 PROVE s.sizes[i] <= s.sizes[k + 1]
    OBVIOUS
  <2>1. CASE i = k + 1
    <3>1. s.sizes[i] \in Nat
      BY <1>1
    <3> QED BY <3>1, <2>1
  <2>2. CASE i # k + 1
    <3>1. k \in 0..(n - 1) /\ i <= k /\ k < n
      BY <1>1, <2>2
    <3>2. s.sizes[i] <= s.sizes[k]
      BY <3>1
    <3>3. s.sizes[k + 1] = 2 * s.sizes[k]
      BY <3>1 DEF LaidOut
    <3>4. s.sizes[i] \in Nat /\ s.sizes[k] \in Nat
      BY <3>1, <1>1
    <3> QED BY <3>2, <3>3, <3>4
  <2> QED BY <2>1, <2>2
<1>4. T = Nat
  <2>1. T \subseteq Nat
    OBVIOUS
  <2> HIDE DEF T
  <2> QED BY <1>2, <1>3, <2>1, NatInd
<1>5. ASSUME NEW k \in 0..(n - 1), i <= k PROVE s.sizes[i] <= s.sizes[k]
  <2>1. k \in T /\ k < n
    BY <1>4, <1>1
  <2> QED BY <2>1, <1>5
<1> QED BY <1>5

\* Buffer b ends, with its header, where the next one of pool i may start.
EndIn(s, i, b) == b + HdrBytes + s.sizes[i]

\* A buffer of a list is the (q + 1)-st of its pool.
LEMMA Place ==
  ASSUME NEW s, LaidOut(s), NEW i \in Pools, NEW b \in Range(InitialList(s, i))
  PROVE  /\ i \in 0..(s.numSizes - 1)
         /\ s.first[i] \in Nat /\ s.sizes[i] \in Nat /\ s.sizes[i] > 0 /\ s.count[i] \in Nat
         /\ \E q \in Nat : q < s.count[i] /\ b = s.first[i] + q * (HdrBytes + s.sizes[i])
<1>1. /\ s.numSizes \in Nat /\ i \in Nat
      /\ s.sizes[i] \in Nat /\ s.count[i] \in Nat
  BY SMTT(30), BufAssumption DEF LaidOut, Pools
<1>2. i < s.numSizes
  <2> SUFFICES ASSUME ~(i < s.numSizes) PROVE FALSE
    OBVIOUS
  <2>1. InitialList(s, i) = <<>>
    BY DEF InitialList
  <2>2. Range(<<>>) = {}
    BY DEF Range
  <2> QED BY <2>1, <2>2
<1>3. i \in 0..(s.numSizes - 1) /\ i \in 0..s.numSizes
  BY <1>1, <1>2
<1>4. s.first[i] \in Nat /\ s.sizes[i] > 0
  BY <1>3 DEF LaidOut
<1>5. InitialList(s, i) = [j \in 1..s.count[i] |-> s.first[i] + (j - 1) * (HdrBytes + s.sizes[i])]
  BY <1>2 DEF InitialList
<1>6. PICK j \in 1..s.count[i] : b = s.first[i] + (j - 1) * (HdrBytes + s.sizes[i])
  BY <1>5 DEF Range
<1>7. j - 1 \in Nat /\ j - 1 < s.count[i]
  BY <1>1
<1> QED BY <1>1, <1>3, <1>4, <1>6, <1>7

\* A buffer lies between the start of its pool and that of the next.
LEMMA Bounds ==
  ASSUME NEW s, LaidOut(s), NEW i \in Pools, NEW b \in Range(InitialList(s, i))
  PROVE  /\ b \in Nat /\ ShareBytes <= b /\ s.first[i] <= b
         /\ EndIn(s, i, b) \in Nat /\ b < EndIn(s, i, b)
         /\ EndIn(s, i, b) <= s.first[i + 1] /\ EndIn(s, i, b) <= s.end
<1> DEFINE n == s.numSizes
           w == HdrBytes + s.sizes[i]
<1>1. /\ i \in 0..(n - 1) /\ n \in Nat /\ HdrBytes \in Nat /\ ShareBytes \in Nat
      /\ s.first[i] \in Nat /\ s.sizes[i] \in Nat /\ s.sizes[i] > 0 /\ s.count[i] \in Nat
  <2>1. n \in Nat /\ HdrBytes \in Nat /\ ShareBytes \in Nat
    BY BufAssumption DEF LaidOut
  <2>2. /\ i \in 0..(n - 1)
        /\ s.first[i] \in Nat /\ s.sizes[i] \in Nat /\ s.sizes[i] > 0 /\ s.count[i] \in Nat
    BY Place
  <2> QED BY <2>1, <2>2
<1>2. PICK q \in Nat : q < s.count[i] /\ b = s.first[i] + q * w
  BY Place
<1>3. w \in Nat /\ w > 0
  BY <1>1
<1>4. q * w \in Nat /\ s.count[i] * w \in Nat /\ q * w + w <= s.count[i] * w
  <2> HIDE DEF w
  <2> QED BY <1>1, <1>2, <1>3, ProductGrows
<1>5. s.first[i + 1] = s.first[i] + s.count[i] * w
  <2>1. s.first[i + 1] = s.first[i] + (s.sizes[i] + HdrBytes) * s.count[i]
    BY <1>1 DEF LaidOut
  <2> QED BY <2>1, <1>1
<1>6. 0 \in 0..n /\ n \in 0..n /\ i \in 0..n /\ i + 1 \in 0..n /\ 0 <= i /\ i + 1 <= n
  BY <1>1
<1>7. s.first[0] <= s.first[i] /\ s.first[i + 1] <= s.first[n]
  BY <1>6, FirstGrows
<1>8. s.first[0] = ShareBytes /\ s.end = s.first[n] /\ s.first[n] \in Nat
  BY <1>6 DEF LaidOut
<1>9. EndIn(s, i, b) = b + w
  BY <1>1, <1>2, <1>4 DEF EndIn
<1> HIDE DEF w
<1> QED BY <1>1, <1>2, <1>3, <1>4, <1>5, <1>7, <1>8, <1>9

\* Two buffers of one pool do not overlap.
LEMMA SamePool ==
  ASSUME NEW s, LaidOut(s), NEW i \in Pools,
         NEW b \in Range(InitialList(s, i)), NEW c \in Range(InitialList(s, i)), b < c
  PROVE  EndIn(s, i, b) <= c
<1> DEFINE w == HdrBytes + s.sizes[i]
<1>1. HdrBytes \in Nat /\ s.first[i] \in Nat /\ s.sizes[i] \in Nat /\ s.count[i] \in Nat
  BY BufAssumption, Place
<1>2. PICK q \in Nat : q < s.count[i] /\ b = s.first[i] + q * w
  BY Place
<1>3. PICK r \in Nat : r < s.count[i] /\ c = s.first[i] + r * w
  BY Place
<1>4. w \in Nat
  BY <1>1
<1>5. EndIn(s, i, b) = b + w /\ b \in Nat /\ c \in Nat
  BY <1>1, Bounds DEF EndIn
<1> HIDE DEF w
<1>6. q * w \in Nat /\ r * w \in Nat
  BY <1>4, Product
<1>7. q < r
  <2> SUFFICES ASSUME r <= q PROVE FALSE
    OBVIOUS
  <2>1. CASE r = q
    BY <2>1, <1>2, <1>3, <1>5
  <2>2. CASE r < q
    <3>1. r * w + w <= q * w
      BY <2>2, <1>4, ProductGrows
    <3> QED BY <3>1, <1>1, <1>2, <1>3, <1>4, <1>6
  <2> QED BY <2>1, <2>2
<1>8. q * w + w <= r * w
  BY <1>7, <1>4, ProductGrows
<1> QED BY <1>1, <1>2, <1>3, <1>4, <1>5, <1>6, <1>8

\* A buffer of an earlier pool ends before one of a later pool starts.
LEMMA OtherPool ==
  ASSUME NEW s, LaidOut(s), NEW i \in Pools, NEW k \in Pools, i < k,
         NEW b \in Range(InitialList(s, i)), NEW c \in Range(InitialList(s, k))
  PROVE  EndIn(s, i, b) <= c /\ b < c
<1>1. /\ i \in 0..(s.numSizes - 1) /\ k \in 0..(s.numSizes - 1) /\ s.numSizes \in Nat
      /\ s.first \in [0..s.numSizes -> Nat]
  <2>1. s.numSizes \in Nat /\ s.first \in [0..s.numSizes -> Nat]
    BY BufAssumption DEF LaidOut
  <2>2. i \in 0..(s.numSizes - 1) /\ k \in 0..(s.numSizes - 1)
    BY Place
  <2> QED BY <2>1, <2>2
<1>2. i + 1 \in 0..s.numSizes /\ k \in 0..s.numSizes /\ i + 1 <= k
  BY <1>1
<1>3. s.first[i + 1] <= s.first[k]
  BY <1>2, FirstGrows
<1>4. /\ EndIn(s, i, b) <= s.first[i + 1] /\ EndIn(s, i, b) \in Nat /\ b < EndIn(s, i, b)
      /\ b \in Nat
  BY Bounds
<1>5. s.first[k] <= c /\ c \in Nat
  BY Bounds
<1>6. s.first[i + 1] \in Nat /\ s.first[k] \in Nat
  BY <1>1, <1>2
<1> QED BY <1>3, <1>4, <1>5, <1>6

\* Each buffer is of one pool.
LEMMA OnePool ==
  ASSUME NEW s, LaidOut(s), NEW i \in Pools, NEW k \in Pools,
         NEW b \in Range(InitialList(s, i)), b \in Range(InitialList(s, k))
  PROVE  i = k
<1>1. i \in Int /\ k \in Int /\ b \in Nat
  BY Bounds DEF Pools
<1>2. ~(i < k)
  BY <1>1, OtherPool
<1>3. ~(k < i)
  BY <1>1, OtherPool
<1> QED BY <1>1, <1>2, <1>3

\* The list a pool starts with holds each of its buffers once.
LEMMA InitialOnce ==
  ASSUME NEW s, LaidOut(s), NEW i \in Pools
  PROVE  /\ InitialList(s, i) \in Seq(Range(InitialList(s, i)))
         /\ IsInjective(InitialList(s, i))
<1> DEFINE w == HdrBytes + s.sizes[i]
           L == InitialList(s, i)
<1>1. CASE ~(i < s.numSizes)
  <2>1. L = <<>>
    BY <1>1 DEF InitialList
  <2> QED BY <2>1 DEF IsInjective
<1>2. CASE i < s.numSizes
  <2>1. L = [j \in 1..s.count[i] |-> s.first[i] + (j - 1) * w]
    BY <1>2 DEF InitialList
  <2>2. /\ i \in 0..(s.numSizes - 1) /\ i \in 0..s.numSizes /\ s.numSizes \in Nat
        /\ HdrBytes \in Nat
    BY SMTT(30), <1>2, BufAssumption DEF Pools, LaidOut
  <2>3. s.count[i] \in Nat /\ s.first[i] \in Nat /\ s.sizes[i] \in Nat /\ s.sizes[i] > 0
    BY <2>2 DEF LaidOut
  <2>4. w \in Nat /\ w > 0
    BY <2>2, <2>3
  <2>5. \A j \in 1..s.count[i] : L[j] \in Range(L)
    BY <2>1 DEF Range
  <2>6. L \in Seq(Range(L))
    <3>1. L \in [1..s.count[i] -> Range(L)]
      <4>1. L = [j \in 1..s.count[i] |-> L[j]]
        BY <2>1
      <4> HIDE DEF L
      <4> QED BY <4>1, <2>5
    <3> HIDE DEF L
    <3> QED BY <3>1, <2>3
  <2>7. ASSUME NEW j \in 1..s.count[i], NEW m \in 1..s.count[i], j < m PROVE L[j] # L[m]
    <3> HIDE DEF w
    <3>1. j - 1 \in Nat /\ m - 1 \in Nat /\ j - 1 < m - 1
      BY <2>3, <2>7
    <3>2. (j - 1) * w + w <= (m - 1) * w /\ (j - 1) * w \in Nat /\ (m - 1) * w \in Nat
      BY <3>1, <2>4, ProductGrows
    <3>3. L[j] = s.first[i] + (j - 1) * w /\ L[m] = s.first[i] + (m - 1) * w
      BY <2>1
    <3> QED BY <3>2, <3>3, <2>3, <2>4
  <2>8. IsInjective(L)
    <3> SUFFICES ASSUME NEW j \in DOMAIN L, NEW m \in DOMAIN L, L[j] = L[m] PROVE j = m
      BY DEF IsInjective
    <3>1. j \in 1..s.count[i] /\ m \in 1..s.count[i]
      BY <2>1
    <3> HIDE DEF L
    <3>2. ~(j < m) /\ ~(m < j)
      BY <3>1, <2>7
    <3> QED BY <3>1, <3>2, <2>3
  <2> QED BY <2>6, <2>8
<1> QED BY <1>1, <1>2

------------------------------------------------------------------------------
(* The inductive invariant *)

\* The buffers the segment is cut into.
Cut(s) == UNION {Range(InitialList(s, i)) : i \in Pools}

\* Before radBuffersInit there is nothing; after it the segment is laid out, and
\* each list holds buffers of its own pool only.
ShareInv ==
    /\ share = NoShare \/ LaidOut(share)
    /\ pool \in [Pools -> Seq(Cut(share))]
    /\ \A i \in Pools : Range(pool[i]) \subseteq Range(InitialList(share, i))
    /\ allocated \in [Cut(share) -> {0, 1}]

\* Where the processes are, and that a buffer somebody owns is marked, so that
\* radBufferRls never refuses it.
CallInv ==
    /\ bufPc \in [BufProcs -> {"idle", "get", "mark", "link"}]
    /\ DOMAIN bufReg = BufProcs /\ DOMAIN bufHeld = BufProcs
    /\ \A p \in BufProcs : bufPc[p] = "get" => bufReg[p] \in Requests
    /\ \A p \in BufProcs : \A b \in bufHeld[p] : allocated[b] = 1
    /\ \A p \in BufProcs : bufPc[p] = "link" => bufReg[p] \notin bufHeld[p]

BufInv == ShareInv /\ CallInv /\ OneOwner

\* A list without its head: the head is on it once.
LEMMA TakeHead ==
  ASSUME NEW S, NEW l \in Seq(S), l # <<>>, IsInjective(l)
  PROVE  /\ Head(l) \in Range(l) /\ Tail(l) \in Seq(S) /\ IsInjective(Tail(l))
         /\ Range(Tail(l)) = Range(l) \ {Head(l)}
<1>1. /\ Len(l) \in Nat /\ Len(l) >= 1 /\ DOMAIN l = 1..Len(l) /\ Head(l) = l[1]
      /\ Tail(l) \in Seq(S) /\ Len(Tail(l)) = Len(l) - 1 /\ DOMAIN Tail(l) = 1..(Len(l) - 1)
      /\ \A k \in 1..(Len(l) - 1) : Tail(l)[k] = l[k + 1]
  OBVIOUS
<1>2. \A j, k \in 1..Len(l) : l[j] = l[k] => j = k
  BY <1>1 DEF IsInjective
<1>3. IsInjective(Tail(l))
  <2> SUFFICES ASSUME NEW j \in 1..(Len(l) - 1), NEW k \in 1..(Len(l) - 1),
                      Tail(l)[j] = Tail(l)[k]
               PROVE  j = k
    BY <1>1 DEF IsInjective
  <2>1. j + 1 \in 1..Len(l) /\ k + 1 \in 1..Len(l) /\ l[j + 1] = l[k + 1]
    BY <1>1
  <2>2. j + 1 = k + 1
    BY <2>1, <1>2
  <2> QED BY <2>2
<1>4. Head(l) \in Range(l)
  BY <1>1 DEF Range
<1>5. ASSUME NEW x \in Range(Tail(l)) PROVE x \in Range(l) \ {Head(l)}
  <2>1. PICK k \in 1..(Len(l) - 1) : x = Tail(l)[k]
    BY <1>1 DEF Range
  <2>2. k + 1 \in 1..Len(l) /\ 1 \in 1..Len(l) /\ k + 1 # 1 /\ x = l[k + 1]
    BY <2>1, <1>1
  <2>3. x # l[1]
    BY <2>2, <1>2
  <2> QED BY <2>2, <2>3, <1>1 DEF Range
<1>6. ASSUME NEW x \in Range(l), x # Head(l) PROVE x \in Range(Tail(l))
  <2>1. PICK k \in 1..Len(l) : x = l[k]
    BY <1>1 DEF Range
  <2>2. k # 1
    BY <2>1, <1>6, <1>1
  <2>3. k - 1 \in 1..(Len(l) - 1) /\ x = Tail(l)[k - 1]
    BY <2>1, <2>2, <1>1
  <2> QED BY <2>3, <1>1 DEF Range
<1> QED BY <1>1, <1>3, <1>4, <1>5, <1>6

\* A list with a new head.
LEMMA PutFirst ==
  ASSUME NEW S, NEW l \in Seq(S), NEW b \in S, IsInjective(l), b \notin Range(l)
  PROVE  /\ <<b>> \o l \in Seq(S) /\ IsInjective(<<b>> \o l)
         /\ Range(<<b>> \o l) = Range(l) \cup {b}
<1> DEFINE m == <<b>> \o l
<1>1. /\ Len(l) \in Nat /\ DOMAIN l = 1..Len(l)
      /\ m \in Seq(S) /\ Len(m) = Len(l) + 1 /\ DOMAIN m = 1..(Len(l) + 1) /\ m[1] = b
      /\ \A k \in 1..Len(l) : m[k + 1] = l[k]
  OBVIOUS
<1> HIDE DEF m
<1>2. \A j, k \in 1..Len(l) : l[j] = l[k] => j = k
  BY <1>1 DEF IsInjective
<1>3. \A k \in 1..Len(l) : l[k] # b
  BY <1>1 DEF Range
<1>4. ASSUME NEW j \in 1..(Len(l) + 1), j # 1
      PROVE  j - 1 \in 1..Len(l) /\ m[j] = l[j - 1]
  <2>1. j - 1 \in 1..Len(l) /\ (j - 1) + 1 = j
    BY <1>1, <1>4
  <2> QED BY <2>1, <1>1
<1>5. IsInjective(m)
  <2> SUFFICES ASSUME NEW j \in 1..(Len(l) + 1), NEW k \in 1..(Len(l) + 1), m[j] = m[k]
               PROVE  j = k
    BY <1>1 DEF IsInjective
  <2>1. CASE j = 1
    BY <2>1, <1>1, <1>3, <1>4
  <2>2. CASE k = 1
    BY <2>2, <1>1, <1>3, <1>4
  <2>3. CASE j # 1 /\ k # 1
    <3>1. j - 1 = k - 1
      BY <2>3, <1>4, <1>2
    <3> QED BY <3>1
  <2> QED BY <2>1, <2>2, <2>3
<1>6. Range(m) = Range(l) \cup {b}
  <2>1. ASSUME NEW x \in Range(m) PROVE x \in Range(l) \cup {b}
    <3>1. PICK j \in 1..(Len(l) + 1) : x = m[j]
      BY <1>1 DEF Range
    <3>2. CASE j = 1
      BY <3>1, <3>2, <1>1
    <3>3. CASE j # 1
      BY <3>1, <3>3, <1>1, <1>4 DEF Range
    <3> QED BY <3>2, <3>3
  <2>2. ASSUME NEW x \in Range(l) PROVE x \in Range(m)
    <3>1. PICK k \in 1..Len(l) : x = l[k]
      BY <1>1 DEF Range
    <3>2. k + 1 \in 1..(Len(l) + 1) /\ x = m[k + 1]
      BY <3>1, <1>1
    <3> QED BY <3>2, <1>1 DEF Range
  <2>3. b \in Range(m)
    <3>1. 1 \in 1..(Len(l) + 1)
      BY <1>1
    <3> QED BY <3>1, <1>1 DEF Range
  <2> QED BY <2>1, <2>2, <2>3
<1> QED BY <1>1, <1>5, <1>6 DEF m

\* Before radBuffersInit there is no buffer.
LEMMA NothingCut == Cut(NoShare) = {} /\ \A i \in Pools : InitialList(NoShare, i) = <<>>
<1>1. \A i \in Pools : InitialList(NoShare, i) = <<>>
  BY BufAssumption DEF InitialList, NoShare, Pools
<1>2. \A i \in Pools : Range(InitialList(NoShare, i)) = {}
  BY <1>1 DEF Range
<1> QED BY <1>1, <1>2 DEF Cut

\* The buffers are those the segment is cut into, and each is of one pool.
LEMMA BuffersAre == ASSUME ShareInv PROVE Buffers = Cut(share)
BY DEF ShareInv, Buffers

LEMMA OfOnePool ==
  ASSUME ShareInv, NEW i \in Pools, NEW k \in Pools,
         NEW b \in Range(InitialList(share, i)), b \in Range(InitialList(share, k))
  PROVE  i = k
<1>1. CASE share = NoShare
  <2>1. Range(<<>>) = {}
    BY DEF Range
  <2> QED BY <1>1, <2>1, NothingCut
<1>2. CASE LaidOut(share)
  BY <1>2, OnePool
<1> QED BY <1>1, <1>2 DEF ShareInv

\* hdr->sizeIndex is the pool the buffer was cut for.
LEMMA SizeIndexIs ==
  ASSUME ShareInv, NEW i \in Pools, NEW b \in Range(InitialList(share, i))
  PROVE  SizeIndex(b) = i /\ LaidOut(share)
<1>1. LaidOut(share)
  <2> SUFFICES ASSUME share = NoShare PROVE FALSE
    BY DEF ShareInv
  <2>1. Range(<<>>) = {}
    BY DEF Range
  <2> QED BY <2>1, NothingCut
<1>2. i \in 0..(share.numSizes - 1) /\ \A k \in 0..(share.numSizes - 1) : k \in Pools
  <2>1. i \in 0..(share.numSizes - 1)
    BY <1>1, Place
  <2>2. \A k \in 0..(share.numSizes - 1) : k \in Pools
    BY <1>1, BufAssumption DEF LaidOut, Pools
  <2> QED BY <2>1, <2>2
<1>3. \A k \in 0..(share.numSizes - 1) : b \in Range(InitialList(share, k)) => k = i
  BY <1>2, OfOnePool
<1> QED BY <1>1, <1>2, <1>3 DEF SizeIndex

------------------------------------------------------------------------------
(* What the steps do to the buffers that are free and to those in hand *)

\* The free buffers are those on the lists, and the lists have none in common.
LEMMA FreeAre ==
  ASSUME ShareInv
  PROVE  /\ \A i \in Pools : \A b \in Range(pool[i]) : b \in FreeBuffers /\ b \in Buffers
         /\ FreeBuffers \subseteq Buffers
         /\ \A i, k \in Pools : i # k => Range(pool[i]) \cap Range(pool[k]) = {}
<1>1. \A i \in Pools : Range(pool[i]) \subseteq Range(InitialList(share, i))
  BY DEF ShareInv
<1>2. Buffers = UNION {Range(InitialList(share, i)) : i \in Pools}
  BY BuffersAre DEF Cut
<1>3. FreeBuffers = UNION {Range(pool[i]) : i \in Pools}
  BY DEF FreeBuffers
<1>4. ASSUME NEW i \in Pools, NEW k \in Pools, i # k,
             NEW b \in Range(pool[i]), b \in Range(pool[k])
      PROVE  FALSE
  BY <1>1, <1>4, OfOnePool
<1> QED BY <1>1, <1>2, <1>3, <1>4

\* radBufferGet takes the head of the first list that is long enough and has one.
Took(p, i, b) ==
    /\ i \in Pools /\ i \in Fitting(bufReg[p]) /\ pool[i] # <<>> /\ b = Head(pool[i])
    /\ \A k \in Fitting(bufReg[p]) : pool[k] # <<>> => i <= k
    /\ pool' = [pool EXCEPT ![i] = Tail(pool[i])]
    /\ bufReg' = [bufReg EXCEPT ![p] = b] /\ bufPc' = [bufPc EXCEPT ![p] = "mark"]

LEMMA ScanCases ==
  ASSUME NEW p \in BufProcs, GetScan(p)
  PROVE  /\ bufPc[p] = "get" /\ UNCHANGED <<share, allocated, bufHeld>>
         /\ \/ /\ \A k \in Fitting(bufReg[p]) : pool[k] = <<>>
               /\ bufPc' = [bufPc EXCEPT ![p] = "idle"]
               /\ bufReg' = [bufReg EXCEPT ![p] = NoBuf] /\ UNCHANGED pool
            \/ \E i, b : Took(p, i, b)
<1> DEFINE stocked == {i \in Fitting(bufReg[p]) : pool[i] # <<>>}
<1>1. bufPc[p] = "get" /\ UNCHANGED <<share, allocated, bufHeld>>
  BY DEF GetScan, BufGoto
<1>2. CASE stocked = {}
  <2>1. /\ bufPc' = [bufPc EXCEPT ![p] = "idle"]
        /\ bufReg' = [bufReg EXCEPT ![p] = NoBuf] /\ UNCHANGED pool
    BY <1>2 DEF GetScan, BufGoto
  <2>2. \A k \in Fitting(bufReg[p]) : pool[k] = <<>>
    BY <1>2
  <2> QED BY <1>1, <2>1, <2>2
<1>3. CASE stocked # {}
  <2> DEFINE i == Min(stocked)
  <2>1. /\ bufPc' = [bufPc EXCEPT ![p] = "mark"]
        /\ bufReg' = [bufReg EXCEPT ![p] = Head(pool[i])]
        /\ pool' = [pool EXCEPT ![i] = Tail(pool[i])]
    BY <1>3 DEF GetScan, BufGoto, RestOf
  <2>2. i \in stocked /\ \A k \in stocked : i <= k
    <3>1. stocked \in SUBSET Nat
      BY DEF Fitting, Pools
    <3> HIDE DEF stocked
    <3> QED BY <1>3, <3>1, Smallest
  <2>3. i \in Fitting(bufReg[p]) /\ pool[i] # <<>> /\ i \in Pools
        /\ \A k \in Fitting(bufReg[p]) : pool[k] # <<>> => i <= k
    BY <2>2 DEF Fitting
  <2> HIDE DEF i
  <2>4. Took(p, i, Head(pool[i]))
    BY <2>1, <2>3 DEF Took
  <2> QED BY <1>1, <2>4
<1> QED BY <1>2, <1>3

\* The buffer it takes is free before, and in the hands of the caller after.
LEMMA ScanMoves ==
  ASSUME BufInv, NEW p \in BufProcs, NEW i, NEW b, Took(p, i, b), bufPc[p] = "get",
         UNCHANGED <<share, allocated, bufHeld>>
  PROVE  /\ ShareInv'
         /\ b \in Range(pool[i]) /\ b \in FreeBuffers
         /\ FreeBuffers' = FreeBuffers \ {b}
         /\ \A k \in Pools : IsInjective(pool'[k])
         /\ InHand(p)' = InHand(p) \cup {b}
         /\ \A q \in BufProcs : q # p => InHand(q)' = InHand(q)
<1>1. /\ i \in Pools /\ pool[i] # <<>> /\ b = Head(pool[i])
      /\ pool' = [pool EXCEPT ![i] = Tail(pool[i])]
      /\ bufReg' = [bufReg EXCEPT ![p] = b] /\ bufPc' = [bufPc EXCEPT ![p] = "mark"]
  BY DEF Took
<1>2. pool \in [Pools -> Seq(Cut(share))] /\ \A k \in Pools : IsInjective(pool[k])
  BY DEF BufInv, ShareInv, OneOwner
<1>3. /\ Head(pool[i]) \in Range(pool[i]) /\ Tail(pool[i]) \in Seq(Cut(share))
      /\ IsInjective(Tail(pool[i])) /\ Range(Tail(pool[i])) = Range(pool[i]) \ {Head(pool[i])}
  <2>1. pool[i] \in Seq(Cut(share)) /\ IsInjective(pool[i])
    BY <1>1, <1>2
  <2> QED BY <1>1, <2>1, TakeHead
<1>4. pool' \in [Pools -> Seq(Cut(share))] /\ \A k \in Pools : IsInjective(pool'[k])
  BY <1>1, <1>2, <1>3
<1>5. \A k \in Pools : Range(pool'[k]) = Range(pool[k]) \ {b}
  <2> SUFFICES ASSUME NEW k \in Pools PROVE Range(pool'[k]) = Range(pool[k]) \ {b}
    OBVIOUS
  <2>1. CASE k = i
    BY <2>1, <1>1, <1>2, <1>3
  <2>2. CASE k # i
    <3>1. pool'[k] = pool[k]
      BY <2>2, <1>1, <1>2
    <3>2. b \notin Range(pool[k])
      BY <2>2, <1>1, <1>3, FreeAre DEF BufInv
    <3> QED BY <3>1, <3>2
  <2> QED BY <2>1, <2>2
<1>6. ShareInv'
  <2>1. \A k \in Pools : Range(pool'[k]) \subseteq Range(InitialList(share, k))
    BY <1>5 DEF BufInv, ShareInv
  <2>2. share' = share /\ allocated' = allocated
    OBVIOUS
  <2>3. share = NoShare \/ LaidOut(share)
    BY DEF BufInv, ShareInv
  <2>4. allocated \in [Cut(share) -> {0, 1}]
    BY DEF BufInv, ShareInv
  <2> QED BY <1>4, <2>1, <2>2, <2>3, <2>4 DEF ShareInv
<1>7. b \in Range(pool[i]) /\ b \in FreeBuffers
  BY <1>1, <1>3 DEF FreeBuffers
<1>8. FreeBuffers' = FreeBuffers \ {b}
  BY <1>5 DEF FreeBuffers
<1>9. InHand(p)' = InHand(p) \cup {b} /\ \A q \in BufProcs : q # p => InHand(q)' = InHand(q)
  BY <1>1 DEF InHand, BufInv, CallInv
<1> QED BY <1>4, <1>6, <1>7, <1>8, <1>9

\* radBufferRls links the buffer back into its own list.
LEMMA LinkMoves ==
  ASSUME BufInv, NEW p \in BufProcs, RlsLink(p)
  PROVE  /\ ShareInv'
         /\ bufPc[p] = "link" /\ bufReg[p] \in InHand(p)
         /\ bufReg[p] \notin bufHeld[p]
         /\ FreeBuffers' = FreeBuffers \cup {bufReg[p]}
         /\ \A k \in Pools : IsInjective(pool'[k])
         /\ InHand(p)' = InHand(p) \ {bufReg[p]}
         /\ \A q \in BufProcs : q # p => InHand(q)' = InHand(q)
<1> DEFINE b == bufReg[p]
           i == SizeIndex(b)
<1>1. /\ bufPc[p] = "link" /\ bufPc' = [bufPc EXCEPT ![p] = "idle"]
      /\ pool' = [pool EXCEPT ![i] = <<b>> \o pool[i]]
      /\ bufReg' = [bufReg EXCEPT ![p] = NoBuf]
      /\ UNCHANGED <<share, allocated, bufHeld>>
  BY DEF RlsLink, BufGoto
<1>2. b \in InHand(p) /\ b \notin bufHeld[p]
  BY <1>1 DEF InHand, BufInv, CallInv
<1>3. b \in Buffers /\ b \notin FreeBuffers
  BY <1>2 DEF BufInv, OneOwner
<1>4. PICK k \in Pools : b \in Range(InitialList(share, k))
  BY <1>3, BuffersAre DEF BufInv, Cut
<1>5. i = k
  BY <1>4, SizeIndexIs DEF BufInv
<1> HIDE DEF b, i
<1>6. i \in Pools /\ b \in Range(InitialList(share, i)) /\ b \in Cut(share)
  BY <1>4, <1>5 DEF Cut
<1>7. pool \in [Pools -> Seq(Cut(share))] /\ \A m \in Pools : IsInjective(pool[m])
  BY DEF BufInv, ShareInv, OneOwner
<1>8. /\ <<b>> \o pool[i] \in Seq(Cut(share)) /\ IsInjective(<<b>> \o pool[i])
      /\ Range(<<b>> \o pool[i]) = Range(pool[i]) \cup {b}
  <2>1. pool[i] \in Seq(Cut(share)) /\ IsInjective(pool[i])
    BY <1>6, <1>7
  <2>2. b \notin Range(pool[i])
    BY <1>3, <1>6 DEF FreeBuffers
  <2> QED BY <1>6, <2>1, <2>2, PutFirst
<1>9. pool' \in [Pools -> Seq(Cut(share))] /\ \A m \in Pools : IsInjective(pool'[m])
  BY <1>1, <1>6, <1>7, <1>8
<1>10. \A m \in Pools : Range(pool'[m]) = IF m = i THEN Range(pool[m]) \cup {b} ELSE Range(pool[m])
  BY <1>1, <1>6, <1>7, <1>8
<1>11. ShareInv'
  <2>1. \A m \in Pools : Range(pool'[m]) \subseteq Range(InitialList(share, m))
    BY <1>6, <1>10 DEF BufInv, ShareInv
  <2>2. share' = share /\ allocated' = allocated
    BY <1>1
  <2>3. share = NoShare \/ LaidOut(share)
    BY DEF BufInv, ShareInv
  <2>4. allocated \in [Cut(share) -> {0, 1}]
    BY DEF BufInv, ShareInv
  <2> QED BY <1>9, <2>1, <2>2, <2>3, <2>4 DEF ShareInv
<1>12. FreeBuffers' = FreeBuffers \cup {b}
  BY <1>6, <1>10 DEF FreeBuffers
<1>13. InHand(p)' = InHand(p) \ {b} /\ \A q \in BufProcs : q # p => InHand(q)' = InHand(q)
  <2>1. InHand(p)' = bufHeld[p] /\ InHand(p) = bufHeld[p] \cup {b}
    BY <1>1 DEF InHand, BufInv, CallInv, b
  <2>2. \A q \in BufProcs : q # p => InHand(q)' = InHand(q)
    BY <1>1 DEF InHand, BufInv, CallInv
  <2> QED BY <2>1, <2>2, <1>2
<1> QED BY <1>1, <1>2, <1>9, <1>11, <1>12, <1>13 DEF b

\* Lists of buffers of their own pools have none in common.
LEMMA Apart ==
  ASSUME NEW s, NEW lists, s = NoShare \/ LaidOut(s),
         \A i \in Pools : Range(lists[i]) \subseteq Range(InitialList(s, i))
  PROVE  \A i, k \in Pools : i # k => Range(lists[i]) \cap Range(lists[k]) = {}
<1> SUFFICES ASSUME NEW i \in Pools, NEW k \in Pools, i # k,
                    NEW b \in Range(lists[i]), b \in Range(lists[k])
             PROVE  FALSE
  OBVIOUS
<1>1. b \in Range(InitialList(s, i)) /\ b \in Range(InitialList(s, k))
  OBVIOUS
<1>2. CASE s = NoShare
  <2>1. Range(<<>>) = {}
    BY DEF Range
  <2> QED BY <1>1, <1>2, <2>1, NothingCut
<1>3. CASE LaidOut(s)
  BY <1>1, <1>3, OnePool
<1> QED BY <1>2, <1>3

\* radBuffersInit: before it nothing is in anybody's hands, after it every buffer is free.
LEMMA BuildMoves ==
  ASSUME BufInv, NEW c \in BufConfigs, BuffersInit(c)
  PROVE  /\ share = NoShare /\ Buffers = {} /\ FreeBuffers = {}
         /\ UNCHANGED <<bufLock, bufPc, bufReg, bufHeld>>
         /\ ShareInv' /\ FreeBuffers' = Buffers'
         /\ \A i \in Pools : IsInjective(pool'[i])
         /\ \A p \in BufProcs : InHand(p) = {} /\ InHand(p)' = {}
<1> DEFINE s == Layout(c)
<1>1. /\ share = NoShare /\ share' = s
      /\ pool' = [i \in Pools |-> InitialList(s, i)]
      /\ allocated' = [b \in UNION {Range(InitialList(s, i)) : i \in Pools} |-> 0]
      /\ UNCHANGED <<bufLock, bufPc, bufReg, bufHeld>>
  BY DEF BuffersInit
<1>2. LaidOut(s)
  BY LayoutLaysOut
<1> HIDE DEF s
<1>3. allocated' = [b \in Cut(s) |-> 0]
  BY <1>1 DEF Cut
<1>4. Buffers = {} /\ FreeBuffers = {}
  BY <1>1, NothingCut, BuffersAre, FreeAre DEF BufInv
<1>5. ASSUME NEW p \in BufProcs PROVE InHand(p) = {} /\ InHand(p)' = {}
  <2>1. InHand(p) = {}
    BY <1>4 DEF BufInv, OneOwner
  <2> QED BY <1>1, <2>1 DEF InHand
<1>6. \A i \in Pools : InitialList(s, i) \in Seq(Cut(s)) /\ IsInjective(InitialList(s, i))
  <2> SUFFICES ASSUME NEW i \in Pools
               PROVE  InitialList(s, i) \in Seq(Cut(s)) /\ IsInjective(InitialList(s, i))
    OBVIOUS
  <2>1. InitialList(s, i) \in Seq(Range(InitialList(s, i))) /\ IsInjective(InitialList(s, i))
    BY <1>2, InitialOnce
  <2>2. Range(InitialList(s, i)) \subseteq Cut(s)
    BY DEF Cut
  <2> QED BY <2>1, <2>2
<1>7. ShareInv' /\ \A i \in Pools : IsInjective(pool'[i])
  BY <1>1, <1>2, <1>3, <1>6 DEF ShareInv
<1>8. FreeBuffers' = Buffers'
  <2>1. Buffers' = Cut(s)
    BY <1>3 DEF Buffers
  <2>2. \A i \in Pools : Range(pool'[i]) = Range(InitialList(s, i))
    BY <1>1
  <2>3. FreeBuffers' = UNION {Range(pool'[i]) : i \in Pools}
    BY DEF FreeBuffers
  <2> QED BY <2>1, <2>2, <2>3 DEF Cut
<1> QED BY <1>1, <1>4, <1>5, <1>7, <1>8

\* A step that keeps the layout and the lists keeps what is said of them.
LEMMA ShareStays ==
  ASSUME ShareInv, share' = share, pool' = pool, allocated' \in [Cut(share) -> {0, 1}]
  PROVE  ShareInv'
<1>1. (share = NoShare \/ LaidOut(share))'
  BY DEF ShareInv
<1>2. (pool \in [Pools -> Seq(Cut(share))])'
  BY DEF ShareInv
<1>3. (\A i \in Pools : Range(pool[i]) \subseteq Range(InitialList(share, i)))'
  BY DEF ShareInv
<1>4. (allocated \in [Cut(share) -> {0, 1}])'
  OBVIOUS
<1> QED BY <1>1, <1>2, <1>3, <1>4 DEF ShareInv

\* radBufferRls never meets an unmarked buffer; the mark is its only change, and
\* as long as it is not linked the buffer stays in the caller's hands.
LEMMA TestKeeps ==
  ASSUME BufInv, NEW p \in BufProcs, NEW b \in bufHeld[p], RlsTest(p, b)
  PROVE  /\ bufPc[p] = "idle" /\ bufPc' = [bufPc EXCEPT ![p] = "link"]
         /\ bufReg' = [bufReg EXCEPT ![p] = b]
         /\ bufHeld' = [bufHeld EXCEPT ![p] = bufHeld[p] \ {b}]
         /\ allocated' = [allocated EXCEPT ![b] = 0] /\ Buffers' = Buffers
         /\ UNCHANGED <<share, pool, bufLock>>
         /\ ShareInv' /\ FreeBuffers' = FreeBuffers
         /\ \A q \in BufProcs : InHand(q)' = InHand(q)
<1>1. allocated[b] = 1
  BY DEF BufInv, CallInv
<1>2. /\ bufPc[p] = "idle" /\ bufPc' = [bufPc EXCEPT ![p] = "link"]
      /\ bufReg' = [bufReg EXCEPT ![p] = b]
      /\ bufHeld' = [bufHeld EXCEPT ![p] = bufHeld[p] \ {b}]
      /\ allocated' = [allocated EXCEPT ![b] = 0]
      /\ UNCHANGED <<share, pool, bufLock>>
  BY <1>1 DEF RlsTest, BufGoto
<1>3. allocated' \in [Cut(share) -> {0, 1}]
  BY <1>2 DEF BufInv, ShareInv
<1>4. ShareInv'
  BY <1>2, <1>3, ShareStays DEF BufInv
<1>5. FreeBuffers' = FreeBuffers /\ Buffers' = Buffers
  BY <1>2 DEF FreeBuffers, Buffers
<1>6. \A q \in BufProcs : InHand(q)' = InHand(q)
  BY <1>2 DEF InHand, BufInv, CallInv
<1> QED BY <1>2, <1>4, <1>5, <1>6

\* The mark of radBufferGet likewise.
LEMMA MarkKeeps ==
  ASSUME BufInv, NEW p \in BufProcs, GetMark(p)
  PROVE  /\ bufPc[p] = "mark" /\ bufPc' = [bufPc EXCEPT ![p] = "idle"]
         /\ bufReg' = [bufReg EXCEPT ![p] = NoBuf]
         /\ bufHeld' = [bufHeld EXCEPT ![p] = bufHeld[p] \cup {bufReg[p]}]
         /\ bufReg[p] \in Buffers
         /\ allocated' = [allocated EXCEPT ![bufReg[p]] = 1] /\ Buffers' = Buffers
         /\ UNCHANGED <<share, pool, bufLock>>
         /\ ShareInv' /\ FreeBuffers' = FreeBuffers
         /\ \A q \in BufProcs : InHand(q)' = InHand(q)
<1>1. /\ bufPc[p] = "mark" /\ bufPc' = [bufPc EXCEPT ![p] = "idle"]
      /\ bufReg' = [bufReg EXCEPT ![p] = NoBuf]
      /\ bufHeld' = [bufHeld EXCEPT ![p] = bufHeld[p] \cup {bufReg[p]}]
      /\ allocated' = [allocated EXCEPT ![bufReg[p]] = 1]
      /\ UNCHANGED <<share, pool, bufLock>>
  BY DEF GetMark, BufGoto
<1>2. bufReg[p] \in InHand(p)
  BY <1>1 DEF InHand
<1>3. bufReg[p] \in Buffers
  BY <1>2 DEF BufInv, OneOwner
<1>4. allocated' \in [Cut(share) -> {0, 1}]
  BY <1>1 DEF BufInv, ShareInv
<1>5. ShareInv'
  BY <1>1, <1>4, ShareStays DEF BufInv
<1>6. FreeBuffers' = FreeBuffers /\ Buffers' = Buffers
  BY <1>1 DEF FreeBuffers, Buffers
<1>7. \A q \in BufProcs : InHand(q)' = InHand(q)
  BY <1>1 DEF InHand, BufInv, CallInv
<1> QED BY <1>1, <1>3, <1>5, <1>6, <1>7

------------------------------------------------------------------------------
(* The invariant holds *)

LEMMA OwnersAfter ==
  ASSUME ShareInv', \A i \in Pools : IsInjective(pool'[i]),
         \A p \in BufProcs : InHand(p)' \cap FreeBuffers' = {},
         \A p, q \in BufProcs : p # q => InHand(p)' \cap InHand(q)' = {},
         \A b : b \in Buffers' <=> b \in FreeBuffers' \/ \E p \in BufProcs : b \in InHand(p)'
  PROVE  OneOwner'
<1>1. \A i, k \in Pools : i # k => Range(pool'[i]) \cap Range(pool'[k]) = {}
  <2>1. share' = NoShare \/ LaidOut(share')
    BY DEF ShareInv
  <2>2. \A i \in Pools : Range(pool'[i]) \subseteq Range(InitialList(share', i))
    BY DEF ShareInv
  <2> QED BY <2>1, <2>2, Apart
<1> DEFINE Owned == {InHand(p)' : p \in BufProcs}
<1>2. \A b : b \in UNION Owned <=> \E p \in BufProcs : b \in InHand(p)'
  OBVIOUS
<1> HIDE DEF Owned
<1>3. (UNION Owned) \cup FreeBuffers' = Buffers'
  BY <1>2
<1> USE DEF Owned
<1> QED BY <1>1, <1>3 DEF OneOwner

LEMMA InitBufInv == BufInit => BufInv
<1> SUFFICES ASSUME BufInit PROVE BufInv
  OBVIOUS
<1>1. /\ share = NoShare /\ pool = [i \in Pools |-> <<>>] /\ allocated = <<>>
      /\ bufPc = [p \in BufProcs |-> "idle"] /\ bufReg = [p \in BufProcs |-> NoBuf]
      /\ bufHeld = [p \in BufProcs |-> {}]
  BY DEF BufInit
<1>2. Range(<<>>) = {} /\ IsInjective(<<>>)
  BY DEF Range, IsInjective
<1>3. ShareInv
  <2>1. allocated \in [Cut(share) -> {0, 1}]
    BY <1>1, NothingCut
  <2>2. \A i \in Pools : Range(pool[i]) = {}
    BY <1>1, <1>2
  <2> QED BY <1>1, <2>1, <2>2 DEF ShareInv
<1>4. CallInv
  BY <1>1 DEF CallInv
<1>5. OneOwner
  <2>1. FreeBuffers = {}
    BY <1>1, <1>2 DEF FreeBuffers
  <2>2. Buffers = {}
    BY <1>1 DEF Buffers
  <2>3. \A p \in BufProcs : InHand(p) = {}
    BY <1>1 DEF InHand
  <2> QED BY <1>1, <1>2, <2>1, <2>2, <2>3 DEF OneOwner
<1> QED BY <1>3, <1>4, <1>5 DEF BufInv

LEMMA NextBufInv == BufInv /\ [BufNext]_bufVars => BufInv'
<1> SUFFICES ASSUME BufInv, [BufNext]_bufVars PROVE BufInv'
  OBVIOUS
<1>1. /\ bufPc \in [BufProcs -> {"idle", "get", "mark", "link"}]
      /\ DOMAIN bufReg = BufProcs /\ DOMAIN bufHeld = BufProcs
      /\ \A p \in BufProcs : bufPc[p] = "get" => bufReg[p] \in Requests
      /\ \A p \in BufProcs : \A b \in bufHeld[p] : allocated[b] = 1
      /\ \A p \in BufProcs : bufPc[p] = "link" => bufReg[p] \notin bufHeld[p]
  BY DEF BufInv, CallInv
<1>2. /\ \A i \in Pools : IsInjective(pool[i])
      /\ \A p \in BufProcs : InHand(p) \cap FreeBuffers = {}
      /\ \A p, q \in BufProcs : p # q => InHand(p) \cap InHand(q) = {}
      /\ \A b : b \in Buffers <=> b \in FreeBuffers \/ \E p \in BufProcs : b \in InHand(p)
  <2> DEFINE Owned == {InHand(p) : p \in BufProcs}
  <2>1. /\ \A i \in Pools : IsInjective(pool[i])
        /\ \A p \in BufProcs : InHand(p) \cap FreeBuffers = {}
        /\ \A p, q \in BufProcs : p # q => InHand(p) \cap InHand(q) = {}
    BY DEF BufInv, OneOwner
  <2>3. (UNION Owned) \cup FreeBuffers = Buffers
    BY DEF BufInv, OneOwner
  <2>2. \A b : b \in UNION Owned <=> \E p \in BufProcs : b \in InHand(p)
    OBVIOUS
  <2> HIDE DEF Owned
  <2> QED BY <2>1, <2>2, <2>3
<1>3. \A p \in BufProcs : bufHeld[p] \subseteq InHand(p)
  BY DEF InHand
<1>4. ShareInv /\ allocated \in [Cut(share) -> {0, 1}] /\ DOMAIN allocated = Buffers
  BY DEF BufInv, ShareInv, Buffers
<1>5. ASSUME NEW c \in BufConfigs, BuffersInit(c) PROVE BufInv'
  <2>1. /\ share = NoShare /\ Buffers = {} /\ FreeBuffers = {}
        /\ UNCHANGED <<bufLock, bufPc, bufReg, bufHeld>>
        /\ ShareInv' /\ FreeBuffers' = Buffers'
        /\ \A i \in Pools : IsInjective(pool'[i])
        /\ \A p \in BufProcs : InHand(p) = {} /\ InHand(p)' = {}
    BY <1>5, BuildMoves
  <2>2. OneOwner'
    <3>1. \A b : b \in Buffers' <=> b \in FreeBuffers' \/ \E p \in BufProcs : b \in InHand(p)'
      BY <2>1
    <3>2. \A p, q \in BufProcs : p # q => InHand(p)' \cap InHand(q)' = {}
      BY <2>1
    <3>3. \A p \in BufProcs : InHand(p)' \cap FreeBuffers' = {}
      BY <2>1
    <3> QED BY <2>1, <3>1, <3>2, <3>3, OwnersAfter
  <2>3. CallInv'
    BY <1>1, <1>3, <2>1 DEF CallInv
  <2> QED BY <2>1, <2>2, <2>3 DEF BufInv
<1>6. ASSUME NEW p \in BufProcs, NEW size \in Requests, GetLock(p, size) PROVE BufInv'
  <2>1. /\ bufPc[p] = "idle" /\ bufPc' = [bufPc EXCEPT ![p] = "get"]
        /\ bufReg' = [bufReg EXCEPT ![p] = size]
        /\ UNCHANGED <<share, pool, allocated, bufHeld>>
    BY <1>6 DEF GetLock, BufGoto
  <2>2. ShareInv'
    BY <2>1, <1>4, ShareStays
  <2>3. CallInv'
    BY <1>1, <2>1 DEF CallInv
  <2>4. \A q \in BufProcs : InHand(q)' = InHand(q)
    BY <1>1, <2>1 DEF InHand
  <2>5. FreeBuffers' = FreeBuffers /\ Buffers' = Buffers
    BY <2>1 DEF FreeBuffers, Buffers
  <2>6. \A i \in Pools : IsInjective(pool'[i])
    BY <2>1, <1>2
  <2>7. OneOwner'
    BY <1>2, <2>2, <2>4, <2>5, <2>6, OwnersAfter
  <2> QED BY <2>2, <2>3, <2>7 DEF BufInv
<1>7. ASSUME NEW p \in BufProcs, GetScan(p) PROVE BufInv'
  <2>1. bufPc[p] = "get" /\ UNCHANGED <<share, allocated, bufHeld>>
    BY <1>7, ScanCases
  <2>2. CASE /\ bufPc' = [bufPc EXCEPT ![p] = "idle"]
             /\ bufReg' = [bufReg EXCEPT ![p] = NoBuf] /\ UNCHANGED pool
    <3>1. ShareInv'
      BY <2>1, <2>2, <1>4, ShareStays
    <3>2. CallInv'
      BY <1>1, <2>1, <2>2 DEF CallInv
    <3>3. \A q \in BufProcs : InHand(q)' = InHand(q)
      BY <1>1, <2>1, <2>2 DEF InHand
    <3>4. FreeBuffers' = FreeBuffers /\ Buffers' = Buffers
      BY <2>1, <2>2 DEF FreeBuffers, Buffers
    <3>5. \A i \in Pools : IsInjective(pool'[i])
      BY <2>2, <1>2
    <3>6. OneOwner'
      BY <1>2, <3>1, <3>3, <3>4, <3>5, OwnersAfter
    <3> QED BY <3>1, <3>2, <3>6 DEF BufInv
  <2>3. ASSUME NEW i, NEW b, Took(p, i, b) PROVE BufInv'
    <3>1. /\ ShareInv' /\ b \in FreeBuffers
          /\ FreeBuffers' = FreeBuffers \ {b}
          /\ \A k \in Pools : IsInjective(pool'[k])
          /\ InHand(p)' = InHand(p) \cup {b}
          /\ \A q \in BufProcs : q # p => InHand(q)' = InHand(q)
      BY <2>1, <2>3, ScanMoves
    <3>2. Buffers' = Buffers
      BY <2>1 DEF Buffers
    <3>3. CallInv'
      <4>1. bufReg' = [bufReg EXCEPT ![p] = b] /\ bufPc' = [bufPc EXCEPT ![p] = "mark"]
        BY <2>3 DEF Took
      <4> QED BY <1>1, <2>1, <4>1 DEF CallInv
    <3>4. \A q \in BufProcs : InHand(q)' \cap FreeBuffers' = {}
      BY <1>2, <3>1
    <3>5. \A q, r \in BufProcs : q # r => InHand(q)' \cap InHand(r)' = {}
      BY <1>2, <3>1
    <3>6. \A d : d \in Buffers' <=> d \in FreeBuffers' \/ \E q \in BufProcs : d \in InHand(q)'
      BY <1>2, <3>1, <3>2
    <3>7. OneOwner'
      BY <3>1, <3>4, <3>5, <3>6, OwnersAfter
    <3> QED BY <3>1, <3>3, <3>7 DEF BufInv
  <2> QED BY <1>7, <2>2, <2>3, ScanCases
<1>8. ASSUME NEW p \in BufProcs, GetMark(p) PROVE BufInv'
  <2>1. /\ bufPc[p] = "mark" /\ bufPc' = [bufPc EXCEPT ![p] = "idle"]
        /\ bufReg' = [bufReg EXCEPT ![p] = NoBuf]
        /\ bufHeld' = [bufHeld EXCEPT ![p] = bufHeld[p] \cup {bufReg[p]}]
        /\ bufReg[p] \in Buffers
        /\ allocated' = [allocated EXCEPT ![bufReg[p]] = 1] /\ Buffers' = Buffers
        /\ UNCHANGED <<share, pool, bufLock>>
        /\ ShareInv' /\ FreeBuffers' = FreeBuffers
        /\ \A q \in BufProcs : InHand(q)' = InHand(q)
    BY <1>8, MarkKeeps
  <2>2. \A i \in Pools : IsInjective(pool'[i])
    BY <2>1, <1>2
  <2>3. OneOwner'
    BY <1>2, <2>1, <2>2, OwnersAfter
  <2>4. CallInv'
    BY <1>1, <1>4, <2>1 DEF CallInv
  <2> QED BY <2>1, <2>3, <2>4 DEF BufInv
<1>9. ASSUME NEW p \in BufProcs, NEW b \in bufHeld[p], RlsTest(p, b) PROVE BufInv'
  <2>1. /\ bufPc[p] = "idle" /\ bufPc' = [bufPc EXCEPT ![p] = "link"]
        /\ bufReg' = [bufReg EXCEPT ![p] = b]
        /\ bufHeld' = [bufHeld EXCEPT ![p] = bufHeld[p] \ {b}]
        /\ allocated' = [allocated EXCEPT ![b] = 0] /\ Buffers' = Buffers
        /\ UNCHANGED <<share, pool, bufLock>>
        /\ ShareInv' /\ FreeBuffers' = FreeBuffers
        /\ \A q \in BufProcs : InHand(q)' = InHand(q)
    BY <1>9, TestKeeps
  <2>2. \A i \in Pools : IsInjective(pool'[i])
    BY <2>1, <1>2
  <2>3. OneOwner'
    BY <1>2, <2>1, <2>2, OwnersAfter
  <2>4. \A q \in BufProcs : \A d \in bufHeld'[q] : d # b /\ d \in bufHeld[q]
    BY <1>1, <1>2, <1>3, <2>1
  <2>5. \A q \in BufProcs : \A d \in bufHeld'[q] : allocated'[d] = 1
    BY <1>1, <1>4, <2>1, <2>4
  <2>6. CallInv'
    BY <1>1, <2>1, <2>5 DEF CallInv
  <2> QED BY <2>1, <2>3, <2>6 DEF BufInv
<1>10. ASSUME NEW p \in BufProcs, RlsLink(p) PROVE BufInv'
  <2> DEFINE b == bufReg[p]
  <2>1. /\ ShareInv' /\ bufPc[p] = "link" /\ b \in InHand(p) /\ b \notin bufHeld[p]
        /\ FreeBuffers' = FreeBuffers \cup {b}
        /\ \A k \in Pools : IsInjective(pool'[k])
        /\ InHand(p)' = InHand(p) \ {b}
        /\ \A q \in BufProcs : q # p => InHand(q)' = InHand(q)
    BY <1>10, LinkMoves
  <2>2. /\ bufPc' = [bufPc EXCEPT ![p] = "idle"] /\ bufReg' = [bufReg EXCEPT ![p] = NoBuf]
        /\ UNCHANGED <<share, allocated, bufHeld>>
    BY <1>10 DEF RlsLink, BufGoto
  <2>3. CallInv'
    BY <1>1, <2>2 DEF CallInv
  <2>4. Buffers' = Buffers
    BY <2>2 DEF Buffers
  <2> HIDE DEF b
  <2>5. \A q \in BufProcs : InHand(q)' \cap FreeBuffers' = {}
    BY <1>2, <2>1
  <2>6. \A q, r \in BufProcs : q # r => InHand(q)' \cap InHand(r)' = {}
    BY <1>2, <2>1
  <2>7. \A d : d \in Buffers' <=> d \in FreeBuffers' \/ \E q \in BufProcs : d \in InHand(q)'
    BY <1>2, <2>1, <2>4
  <2>8. OneOwner'
    BY <2>1, <2>5, <2>6, <2>7, OwnersAfter
  <2> QED BY <2>1, <2>3, <2>8 DEF BufInv
<1>11. CASE UNCHANGED bufVars
  <2>1. UNCHANGED <<share, pool, allocated, bufPc, bufReg, bufHeld>>
    BY <1>11 DEF bufVars
  <2>2. ShareInv' /\ CallInv'
    BY <2>1, <1>1, <1>4, ShareStays DEF CallInv
  <2>3. OneOwner'
    BY SMTT(30), <2>1 DEF BufInv, OneOwner, InHand, FreeBuffers, Buffers
  <2> QED BY <2>2, <2>3 DEF BufInv
<1> QED BY <1>5, <1>6, <1>7, <1>8, <1>9, <1>10, <1>11 DEF BufNext

LEMMA BufInvHolds == BufSpec => []BufInv
BY InitBufInv, NextBufInv, PTL DEF BufSpec

------------------------------------------------------------------------------
(* The theorems *)

\* The layout keeps the buffers apart.
LEMMA NoOverlap == BufInv => BuffersDisjoint
<1> SUFFICES ASSUME BufInv PROVE BuffersDisjoint
  OBVIOUS
<1>1. ShareInv /\ Buffers = UNION {Range(InitialList(share, i)) : i \in Pools}
  BY BuffersAre DEF BufInv, Cut
<1> DEFINE EndOf(b) == b + HdrBytes + share.sizes[SizeIndex(b)]
<1>2. ASSUME NEW b \in Buffers
      PROVE  \E i \in Pools : /\ b \in Range(InitialList(share, i))
                              /\ EndOf(b) = EndIn(share, i, b) /\ LaidOut(share)
  <2>1. PICK i \in Pools : b \in Range(InitialList(share, i))
    BY <1>1
  <2>2. SizeIndex(b) = i /\ LaidOut(share)
    BY <1>1, <2>1, SizeIndexIs
  <2> QED BY <2>1, <2>2 DEF EndIn
<1> HIDE DEF EndOf
<1>3. ASSUME NEW b \in Buffers PROVE ShareBytes <= b /\ EndOf(b) <= share.end
  BY <1>2, Bounds
<1>4. ASSUME NEW b \in Buffers, NEW c \in Buffers, b < c PROVE EndOf(b) <= c
  <2>1. PICK i \in Pools : /\ b \in Range(InitialList(share, i))
                           /\ EndOf(b) = EndIn(share, i, b) /\ LaidOut(share)
    BY <1>2
  <2>2. PICK k \in Pools : c \in Range(InitialList(share, k))
    BY <1>2
  <2>3. i \in Int /\ k \in Int /\ b \in Nat /\ c \in Nat
    BY <2>1, <2>2, Bounds DEF Pools
  <2>4. CASE i < k
    BY <2>1, <2>2, <2>4, OtherPool
  <2>5. CASE i = k
    BY <1>4, <2>1, <2>2, <2>5, SamePool
  <2>6. CASE k < i
    <3>1. c < b
      BY <2>1, <2>2, <2>6, OtherPool
    <3> QED BY <1>4, <2>3, <3>1
  <2> QED BY <2>3, <2>4, <2>5, <2>6
<1> QED BY <1>3, <1>4 DEF BuffersDisjoint, EndOf

\* The buffers of radbuffers.c overlap neither in memory, whatever the minimum,
\* the maximum and the counts radBuffersInit is given, nor in ownership, however
\* the calls of the processes interleave.
THEOREM BuffersStaySound == BufSpec => []BuffersSound
<1>1. BufInv => BuffersSound
  BY NoOverlap DEF BufInv, BuffersSound
<1> QED BY BufInvHolds, <1>1, PTL

------------------------------------------------------------------------------
(* The refinement *)

\* The mapped state, as ImplementsPool has it.
SizeOf == [b \in Buffers |-> share.sizes[SizeIndex(b)]]
Asked  == [p \in BufProcs |-> IF bufPc[p] = "get" THEN bufReg[p] ELSE 0]
Lent   == [p \in BufProcs |-> InHand(p)]

\* The size of a free buffer is that of its list.
LEMMA SizeOfFree ==
  ASSUME ShareInv, NEW i \in Pools, NEW b \in Range(pool[i])
  PROVE  /\ SizeOf[b] = share.sizes[i] /\ share.sizes[i] \in Nat
         /\ LaidOut(share) /\ i \in 0..(share.numSizes - 1) /\ i < share.numSizes
         /\ pool[i] # <<>>
<1>1. b \in Range(InitialList(share, i)) /\ b \in Buffers
  BY FreeAre DEF ShareInv
<1>2. SizeIndex(b) = i /\ LaidOut(share)
  BY <1>1, SizeIndexIs
<1>3. i \in 0..(share.numSizes - 1) /\ share.sizes[i] \in Nat
  BY <1>1, <1>2, Place
<1>4. i < share.numSizes
  BY <1>2, <1>3, BufAssumption DEF LaidOut
<1>5. Range(<<>>) = {}
  BY DEF Range
<1> QED BY <1>1, <1>2, <1>3, <1>4, <1>5 DEF SizeOf

\* A free buffer that is large enough is on a list the scan looks at.
LEMMA LargeIsFitting ==
  ASSUME BufInv, NEW p \in BufProcs, bufPc[p] = "get", NEW b \in FreeBuffers, SizeOf[b] >= Asked[p]
  PROVE  \E k \in Pools : b \in Range(pool[k]) /\ k \in Fitting(bufReg[p]) /\ pool[k] # <<>>
<1>1. PICK k \in Pools : b \in Range(pool[k])
  BY DEF FreeBuffers
<1>2. SizeOf[b] = share.sizes[k] /\ k < share.numSizes /\ pool[k] # <<>>
  BY <1>1, SizeOfFree DEF BufInv
<1>3. Asked[p] = bufReg[p]
  BY DEF Asked
<1> QED BY <1>1, <1>2, <1>3 DEF Fitting

\* Nothing is asked, lent or free before radBuffersInit.
LEMMA InitPool == BufInit => Pool!PoolInit
<1> SUFFICES ASSUME BufInit PROVE Pool!PoolInit
  OBVIOUS
<1>1. /\ share = NoShare /\ pool = [i \in Pools |-> <<>>] /\ allocated = <<>>
      /\ bufPc = [p \in BufProcs |-> "idle"] /\ bufReg = [p \in BufProcs |-> NoBuf]
      /\ bufHeld = [p \in BufProcs |-> {}]
  BY DEF BufInit
<1>2. Range(<<>>) = {}
  BY DEF Range
<1>3. FreeBuffers = {}
  BY <1>1, <1>2 DEF FreeBuffers
<1>4. SizeOf = <<>>
  BY <1>1 DEF SizeOf, Buffers
<1>5. Asked = [p \in BufProcs |-> 0]
  BY <1>1 DEF Asked
<1>6. Lent = [p \in BufProcs |-> {}]
  BY <1>1 DEF Lent, InHand
<1> QED BY <1>3, <1>4, <1>5, <1>6 DEF Pool!PoolInit, SizeOf, Asked, Lent

\* The sizes stay when the layout and the set of buffers do.
LEMMA SizesStay ==
  ASSUME share' = share, Buffers' = Buffers
  PROVE  SizeOf' = SizeOf
<1>1. \A b : SizeIndex(b)' = SizeIndex(b)
  BY DEF SizeIndex
<1> QED BY <1>1 DEF SizeOf

\* Nobody's request or buffers change when everybody's hands and calls do not.
LEMMA LentStays == (\A q \in BufProcs : InHand(q)' = InHand(q)) => Lent' = Lent
BY DEF Lent

\* Each call takes the steps of the abstract pool where it takes and returns the lock.
LEMMA StepPool ==
  ASSUME BufInv, [BufNext]_bufVars
  PROVE  Pool!PoolNext \/ UNCHANGED bufVars \/ UNCHANGED <<SizeOf, FreeBuffers, Asked, Lent>>
<1>1. /\ bufPc \in [BufProcs -> {"idle", "get", "mark", "link"}] /\ DOMAIN bufReg = BufProcs
      /\ \A p \in BufProcs : bufPc[p] = "get" => bufReg[p] \in Requests
      /\ Requests \subseteq Nat \ {0}
  BY BufAssumption DEF BufInv, CallInv
<1>2. ASSUME NEW c \in BufConfigs, BuffersInit(c) PROVE Pool!PoolCreate
  <2>1. /\ Buffers = {} /\ UNCHANGED <<bufPc, bufReg>> /\ FreeBuffers' = Buffers'
        /\ \A p \in BufProcs : InHand(p) = {} /\ InHand(p)' = {}
    BY <1>2, BuildMoves
  <2>2. SizeOf = <<>>
    BY <2>1 DEF SizeOf
  <2>3. DOMAIN SizeOf' = Buffers'
    BY DEF SizeOf
  <2>4. Asked' = Asked
    BY <2>1 DEF Asked
  <2>5. Lent' = Lent
    BY <2>1, LentStays
  <2> QED BY <2>1, <2>2, <2>3, <2>4, <2>5 DEF Pool!PoolCreate, SizeOf, Asked, Lent
<1>3. ASSUME NEW p \in BufProcs, NEW size \in Requests, GetLock(p, size) PROVE Pool!PoolAsk(p)
  <2>1. /\ bufPc[p] = "idle" /\ bufPc' = [bufPc EXCEPT ![p] = "get"]
        /\ bufReg' = [bufReg EXCEPT ![p] = size]
        /\ UNCHANGED <<share, pool, allocated, bufHeld>>
    BY <1>3 DEF GetLock, BufGoto
  <2>2. Asked[p] = 0 /\ Asked' = [Asked EXCEPT ![p] = size]
    BY <1>1, <2>1 DEF Asked
  <2>3. \A q \in BufProcs : InHand(q)' = InHand(q)
    BY <1>1, <2>1 DEF InHand
  <2>4. FreeBuffers' = FreeBuffers /\ Buffers' = Buffers
    BY <2>1 DEF FreeBuffers, Buffers
  <2>5. SizeOf' = SizeOf /\ Lent' = Lent
    BY <2>1, <2>3, <2>4, SizesStay, LentStays
  <2> QED BY <2>2, <2>4, <2>5 DEF Pool!PoolAsk, SizeOf, Asked, Lent
<1>4. ASSUME NEW p \in BufProcs, GetScan(p) PROVE Pool!PoolTake(p) \/ Pool!PoolRefuse(p)
  <2>1. bufPc[p] = "get" /\ UNCHANGED <<share, allocated, bufHeld>>
    BY <1>4, ScanCases
  <2>2. Asked[p] = bufReg[p] /\ Asked[p] # 0
    BY <1>1, <2>1 DEF Asked
  <2>3. Buffers' = Buffers /\ SizeOf' = SizeOf
    <3>1. Buffers' = Buffers
      BY <2>1 DEF Buffers
    <3> QED BY <2>1, <3>1, SizesStay
  <2>4. CASE /\ \A k \in Fitting(bufReg[p]) : pool[k] = <<>>
             /\ bufPc' = [bufPc EXCEPT ![p] = "idle"]
             /\ bufReg' = [bufReg EXCEPT ![p] = NoBuf] /\ UNCHANGED pool
    <3>1. {b \in FreeBuffers : SizeOf[b] >= Asked[p]} = {}
      BY <2>1, <2>4, LargeIsFitting
    <3>2. Asked' = [Asked EXCEPT ![p] = 0]
      BY <1>1, <2>4 DEF Asked
    <3>3. \A q \in BufProcs : InHand(q)' = InHand(q)
      BY <1>1, <2>1, <2>4 DEF InHand
    <3>4. FreeBuffers' = FreeBuffers /\ Lent' = Lent
      BY <2>4, <3>3, LentStays DEF FreeBuffers
    <3>5. Pool!PoolRefuse(p)
      BY <2>2, <2>3, <3>1, <3>2, <3>4
      DEF Pool!PoolRefuse, Pool!LargeEnough, SizeOf, Asked, Lent
    <3> QED BY <3>5
  <2>5. ASSUME NEW i, NEW b, Took(p, i, b) PROVE Pool!PoolTake(p)
    <3>1. /\ b \in Range(pool[i]) /\ b \in FreeBuffers /\ FreeBuffers' = FreeBuffers \ {b}
          /\ InHand(p)' = InHand(p) \cup {b}
          /\ \A q \in BufProcs : q # p => InHand(q)' = InHand(q)
      BY <2>1, <2>5, ScanMoves
    <3>2. /\ i \in Pools /\ i \in Fitting(bufReg[p])
          /\ \A k \in Fitting(bufReg[p]) : pool[k] # <<>> => i <= k
          /\ bufReg' = [bufReg EXCEPT ![p] = b] /\ bufPc' = [bufPc EXCEPT ![p] = "mark"]
      BY <2>5 DEF Took
    <3>3. /\ SizeOf[b] = share.sizes[i] /\ LaidOut(share) /\ i \in 0..(share.numSizes - 1)
          /\ SizeOf[b] >= Asked[p]
      <4>1. SizeOf[b] = share.sizes[i] /\ LaidOut(share) /\ i \in 0..(share.numSizes - 1)
        BY <3>1, <3>2, SizeOfFree DEF BufInv
      <4> QED BY <4>1, <3>2, <2>2 DEF Fitting
    <3>4. ASSUME NEW c \in FreeBuffers, SizeOf[c] >= Asked[p] PROVE SizeOf[b] <= SizeOf[c]
      <4>1. PICK k \in Pools : c \in Range(pool[k]) /\ k \in Fitting(bufReg[p]) /\ pool[k] # <<>>
        BY <2>1, <3>4, LargeIsFitting
      <4>2. SizeOf[c] = share.sizes[k] /\ k \in 0..(share.numSizes - 1) /\ i <= k
        BY <3>2, <4>1, SizeOfFree DEF BufInv
      <4>3. share.sizes[i] <= share.sizes[k]
        BY <3>3, <4>2, SizesGrow
      <4> QED BY <3>3, <4>2, <4>3
    <3>5. Asked' = [Asked EXCEPT ![p] = 0]
      BY <1>1, <3>2 DEF Asked
    <3>6. Lent' = [Lent EXCEPT ![p] = Lent[p] \cup {b}]
      BY <3>1 DEF Lent
    <3>7. b \in Pool!LargeEnough(p)
      BY <3>1, <3>3 DEF Pool!LargeEnough, SizeOf, Asked
    <3>8. \A c \in Pool!LargeEnough(p) : SizeOf[b] <= SizeOf[c]
      BY <3>4 DEF Pool!LargeEnough, SizeOf, Asked
    <3> QED BY <2>2, <2>3, <3>1, <3>5, <3>6, <3>7, <3>8
      DEF Pool!PoolTake, SizeOf, Asked, Lent
  <2> QED BY <1>4, <2>4, <2>5, ScanCases
<1>5. ASSUME NEW p \in BufProcs, GetMark(p)
      PROVE  UNCHANGED <<SizeOf, FreeBuffers, Asked, Lent>>
  <2>1. /\ bufPc[p] = "mark" /\ bufPc' = [bufPc EXCEPT ![p] = "idle"]
        /\ bufReg' = [bufReg EXCEPT ![p] = NoBuf] /\ Buffers' = Buffers /\ share' = share
        /\ FreeBuffers' = FreeBuffers /\ \A q \in BufProcs : InHand(q)' = InHand(q)
    BY <1>5, MarkKeeps
  <2>2. Asked' = Asked
    BY <1>1, <2>1 DEF Asked
  <2> QED BY <2>1, <2>2, SizesStay, LentStays
<1>6. ASSUME NEW p \in BufProcs, NEW b \in bufHeld[p], RlsTest(p, b)
      PROVE  UNCHANGED <<SizeOf, FreeBuffers, Asked, Lent>>
  <2>1. /\ bufPc[p] = "idle" /\ bufPc' = [bufPc EXCEPT ![p] = "link"]
        /\ bufReg' = [bufReg EXCEPT ![p] = b] /\ Buffers' = Buffers /\ share' = share
        /\ FreeBuffers' = FreeBuffers /\ \A q \in BufProcs : InHand(q)' = InHand(q)
    BY <1>6, TestKeeps
  <2>2. Asked' = Asked
    BY <1>1, <2>1 DEF Asked
  <2> QED BY <2>1, <2>2, SizesStay, LentStays
<1>7. ASSUME NEW p \in BufProcs, RlsLink(p) PROVE Pool!PoolGive(p)
  <2> DEFINE b == bufReg[p]
  <2>1. /\ bufPc[p] = "link" /\ b \in InHand(p) /\ FreeBuffers' = FreeBuffers \cup {b}
        /\ InHand(p)' = InHand(p) \ {b}
        /\ \A q \in BufProcs : q # p => InHand(q)' = InHand(q)
    BY <1>7, LinkMoves
  <2>2. /\ bufPc' = [bufPc EXCEPT ![p] = "idle"] /\ bufReg' = [bufReg EXCEPT ![p] = NoBuf]
        /\ share' = share /\ Buffers' = Buffers
    BY <1>7 DEF RlsLink, BufGoto, Buffers
  <2>3. SizeOf' = SizeOf
    BY <2>2, SizesStay
  <2>4. Asked' = Asked
    BY <1>1, <2>1, <2>2 DEF Asked
  <2> HIDE DEF b
  <2>5. b \in Lent[p] /\ Lent' = [Lent EXCEPT ![p] = Lent[p] \ {b}]
    BY <2>1 DEF Lent
  <2> QED BY <2>1, <2>3, <2>4, <2>5 DEF Pool!PoolGive, SizeOf, Asked, Lent
<1> QED BY <1>2, <1>3, <1>4, <1>5, <1>6, <1>7 DEF BufNext, Pool!PoolNext

\* radbuffers.c is a pool in which a request gets the best fit that is free, is
\* refused only when nothing free is large enough, and a buffer has one owner.
THEOREM GetAndRlsImplementPool == BufSpec => ImplementsPool
<1>1. BufInit => Pool!PoolInit
  BY InitPool
<1>2. BufInv /\ [BufNext]_bufVars => [UNCHANGED bufVars \/ Pool!PoolNext]_(Pool!poolVars)
  BY StepPool DEF Pool!poolVars, SizeOf, Asked, Lent
<1> QED BY BufInvHolds, <1>1, <1>2, PTL DEF BufSpec, ImplementsPool


------------------------------------------------------------------------------
(* Lists and the stack: the inductive invariant *)

Linkable == Places \cup Dummies     \* cells with pointers of their own

ListTypes ==
    /\ next \in [Linkable -> Cells] /\ prev \in [Linkable -> Cells]
    /\ noNodes \in [Lists -> Int] /\ where \in [LNodes -> Lists \cup {"stack", "free"}]
    /\ stackNext \in [LNodes -> Places \cup {NullNode}] /\ stackHead \in Places \cup {NullNode}
    /\ stackCount \in Int /\ arrival \in [LNodes -> Nat]

\* The k-th cell of list l, which holds the nodes s, the dummies included.
At(l, s, k) == IF k = 0 THEN FirstOf(l) ELSE IF k = Len(s) + 1 THEN LastOf(l) ELSE s[k]

\* The pointers nx lead through s from one dummy to the other, and pv back.
Spells(nx, pv, l, s) ==
    \A k \in 0..Len(s) : nx[At(l, s, k)] = At(l, s, k + 1) /\ pv[At(l, s, k + 1)] = At(l, s, k)
StackSpells(head, nx, s) ==
    /\ head = IF s = <<>> THEN NullNode ELSE s[1]
    /\ \A i \in DOMAIN s : nx[s[i][2]] = IF i = Len(s) THEN NullNode ELSE s[i + 1]

\* s is what the callers put there, each node once.
Contents(s, wh, place) ==
    /\ s \in Seq(Places)
    /\ \A i, j \in DOMAIN s : s[i] = s[j] => i = j
    /\ \A n \in LNodes : wh[n] = place <=> \E i \in DOMAIN s : s[i] = Item(n)

\* Arrivals number the nodes of the sorted list without a gap at the end.
Arrivals(ar, wh) ==
    /\ \A n \in LNodes : ar[n] > 0 <=> wh[n] = "sorted"
    /\ \A n \in LNodes : ar[n] <= Cardinality({m \in LNodes : ar[m] > 0})
    /\ \A m, n \in LNodes : ar[m] = ar[n] /\ ar[m] > 0 => m = n
InKeyOrder(s, ar) ==
    \A i, j \in DOMAIN s : i < j =>
        \/ LKey[s[i][2]] < LKey[s[j][2]]
        \/ LKey[s[i][2]] = LKey[s[j][2]] /\ ar[s[i][2]] < ar[s[j][2]]

\* The lists hold q and the stack st.
Stands(q, st) ==
    /\ \A l \in Lists : Contents(q[l], where, l) /\ Spells(next, prev, l, q[l]) /\ noNodes[l] = Len(q[l])
    /\ Contents(st, where, "stack") /\ StackSpells(stackHead, stackNext, st) /\ stackCount = Len(st)
    /\ Arrivals(arrival, where) /\ InKeyOrder(q["sorted"], arrival)

ListInv == ListTypes /\ Stands([l \in Lists |-> Forward(l)], StackWalk)

------------------------------------------------------------------------------
(* Lists: their cells *)

\* Nodes, dummies and NullNode are different cells.
LEMMA CellsApart ==
  /\ NullNode \notin Linkable /\ Linkable \subseteq Cells /\ Places \subseteq Linkable
  /\ \A l \in Lists : FirstOf(l) \in Linkable \ Places /\ LastOf(l) \in Linkable \ Places
  /\ \A l, r \in Lists : /\ FirstOf(l) # LastOf(r)
                         /\ FirstOf(l) = FirstOf(r) => l = r
                         /\ LastOf(l) = LastOf(r) => l = r
<1>1. \A l \in Lists : l # "null" /\ l # "node"
  BY DEF Lists
<1> QED BY <1>1 DEF Linkable, Cells, Places, Dummies, FirstOf, LastOf, NullNode, Item

LEMMA ItemsAre ==
  /\ \A n \in LNodes : Item(n) \in Places /\ Item(n)[2] = n
  /\ \A x \in Places : x[2] \in LNodes /\ x = Item(x[2])
  /\ \A m, n \in LNodes : Item(m) = Item(n) => m = n
BY DEF Places, Item

\* The cells of a list are its own.
LEMMA AtIs ==
  ASSUME NEW l \in Lists, NEW s \in Seq(Places)
  PROVE  /\ Len(s) \in Nat /\ DOMAIN s = 1..Len(s)
         /\ At(l, s, 0) = FirstOf(l) /\ At(l, s, Len(s) + 1) = LastOf(l)
         /\ \A k \in 1..Len(s) : At(l, s, k) = s[k] /\ s[k] \in Places
         /\ \A k \in 0..(Len(s) + 1) : At(l, s, k) \in Linkable
<1>1. Len(s) \in Nat /\ DOMAIN s = 1..Len(s) /\ \A k \in 1..Len(s) : s[k] \in Places
  BY LenProperties, ElementOfSeq
<1>2. At(l, s, 0) = FirstOf(l) /\ At(l, s, Len(s) + 1) = LastOf(l)
  BY <1>1 DEF At
<1>3. \A k \in 1..Len(s) : At(l, s, k) = s[k]
  BY <1>1 DEF At
<1>4. ASSUME NEW k \in 0..(Len(s) + 1) PROVE At(l, s, k) \in Linkable
  <2>1. k = 0 \/ k = Len(s) + 1 \/ k \in 1..Len(s)
    BY <1>1
  <2> QED BY <2>1, <1>1, <1>2, <1>3, CellsApart
<1> QED BY <1>1, <1>2, <1>3, <1>4

LEMMA AtOnce ==
  ASSUME NEW l \in Lists, NEW s \in Seq(Places), \A i, j \in DOMAIN s : s[i] = s[j] => i = j
  PROVE  \A i, j \in 0..(Len(s) + 1) : At(l, s, i) = At(l, s, j) => i = j
<1> SUFFICES ASSUME NEW i \in 0..(Len(s) + 1), NEW j \in 0..(Len(s) + 1), At(l, s, i) = At(l, s, j)
             PROVE  i = j
  OBVIOUS
<1>1. \A k \in 0..(Len(s) + 1) : k = 0 \/ k = Len(s) + 1 \/ k \in 1..Len(s)
  BY AtIs
<1>2. /\ \A k \in 1..Len(s) : At(l, s, k) = s[k] /\ s[k] \in Places
      /\ At(l, s, 0) = FirstOf(l) /\ At(l, s, Len(s) + 1) = LastOf(l)
      /\ FirstOf(l) \notin Places /\ LastOf(l) \notin Places /\ FirstOf(l) # LastOf(l)
      /\ DOMAIN s = 1..Len(s)
  BY AtIs, CellsApart
<1>3. CASE i \in 1..Len(s) /\ j \in 1..Len(s)
  BY <1>2, <1>3
<1>4. CASE i \in 1..Len(s) /\ j \notin 1..Len(s)
  BY <1>1, <1>2, <1>4
<1>5. CASE i \notin 1..Len(s) /\ j \in 1..Len(s)
  BY <1>1, <1>2, <1>5
<1>6. CASE i \notin 1..Len(s) /\ j \notin 1..Len(s)
  BY <1>1, <1>2, <1>6
<1> QED BY <1>3, <1>4, <1>5, <1>6

LEMMA AtApart ==
  ASSUME NEW l \in Lists, NEW s \in Seq(Places), NEW r \in Lists, NEW u \in Seq(Places), l # r,
         \A i \in DOMAIN s, j \in DOMAIN u : s[i] # u[j]
  PROVE  \A i \in 0..(Len(s) + 1), j \in 0..(Len(u) + 1) : At(l, s, i) # At(r, u, j)
<1> SUFFICES ASSUME NEW i \in 0..(Len(s) + 1), NEW j \in 0..(Len(u) + 1)
             PROVE  At(l, s, i) # At(r, u, j)
  OBVIOUS
<1>1. (i = 0 \/ i = Len(s) + 1 \/ i \in 1..Len(s)) /\ (j = 0 \/ j = Len(u) + 1 \/ j \in 1..Len(u))
  BY AtIs
<1>2. /\ \A k \in 1..Len(s) : At(l, s, k) = s[k] /\ s[k] \in Places
      /\ At(l, s, 0) = FirstOf(l) /\ At(l, s, Len(s) + 1) = LastOf(l) /\ DOMAIN s = 1..Len(s)
      /\ \A k \in 1..Len(u) : At(r, u, k) = u[k] /\ u[k] \in Places
      /\ At(r, u, 0) = FirstOf(r) /\ At(r, u, Len(u) + 1) = LastOf(r) /\ DOMAIN u = 1..Len(u)
  BY AtIs
<1>3. /\ FirstOf(l) \notin Places /\ LastOf(l) \notin Places
      /\ FirstOf(r) \notin Places /\ LastOf(r) \notin Places
      /\ FirstOf(l) # FirstOf(r) /\ FirstOf(l) # LastOf(r)
      /\ LastOf(l) # FirstOf(r) /\ LastOf(l) # LastOf(r)
  BY CellsApart
<1>4. CASE i \in 1..Len(s)
  BY <1>1, <1>2, <1>3, <1>4
<1>5. CASE i \notin 1..Len(s)
  BY <1>1, <1>2, <1>3, <1>5
<1> QED BY <1>4, <1>5

\* A list has room for every node once.
LEMMA ContentsFew ==
  ASSUME ListAssumption, NEW s, NEW wh, NEW place, Contents(s, wh, place)
  PROVE  Len(s) <= Cardinality(LNodes) /\ Cardinality(LNodes) \in Nat
<1>1. /\ s \in Seq(Places) /\ Len(s) \in Nat /\ DOMAIN s = 1..Len(s)
      /\ \A i \in 1..Len(s) : s[i] \in Places
      /\ \A i, j \in 1..Len(s) : s[i] = s[j] => i = j
  <2>1. s \in Seq(Places) /\ \A i, j \in DOMAIN s : s[i] = s[j] => i = j
    BY DEF Contents
  <2>2. Len(s) \in Nat /\ DOMAIN s = 1..Len(s) /\ \A i \in 1..Len(s) : s[i] \in Places
    BY <2>1, LenProperties, ElementOfSeq
  <2> QED BY <2>1, <2>2
<1> DEFINE f == [i \in 1..Len(s) |-> s[i][2]]
<1>2. f \in Injection(1..Len(s), LNodes)
  <2>1. \A i \in 1..Len(s) : f[i] \in LNodes /\ s[i] = Item(f[i])
    BY <1>1, ItemsAre
  <2>2. f \in [1..Len(s) -> LNodes]
    BY <2>1
  <2>3. \A i, j \in 1..Len(s) : f[i] = f[j] => i = j
    <3> SUFFICES ASSUME NEW i \in 1..Len(s), NEW j \in 1..Len(s), f[i] = f[j] PROVE i = j
      OBVIOUS
    <3>1. s[i] = s[j]
      <4> HIDE DEF f
      <4> QED BY <2>1
    <3> QED BY <3>1, <1>1
  <2> HIDE DEF f
  <2> QED BY <2>2, <2>3 DEF Injection, IsInjective
<1>3. IsFiniteSet(LNodes) /\ Cardinality(LNodes) \in Nat
  BY FS_CardinalityType DEF ListAssumption
<1>4. Cardinality(1..Len(s)) = Len(s)
  <2>1. Cardinality(1..Len(s)) = IF 1 > Len(s) THEN 0 ELSE Len(s) - 1 + 1
    BY SMTT(30), <1>1, FS_Interval
  <2> QED BY <2>1, <1>1
<1>5. Cardinality(1..Len(s)) <= Cardinality(LNodes)
  <2> HIDE DEF f
  <2> QED BY <1>2, <1>3, FS_Injection
<1> QED BY <1>3, <1>4, <1>5

------------------------------------------------------------------------------
(* Lists: walking *)

\* A traversal along s returns s.
LEMMA TraversalIs ==
  ASSUME NEW C, NullNode \in C, NEW step \in [C -> C], NEW s \in Seq(C \ {NullNode}),
         Cardinality(LNodes) \in Nat, Len(s) <= Cardinality(LNodes),
         step[NullNode] = IF Len(s) = 0 THEN NullNode ELSE s[1],
         \A i \in 1..Len(s) : step[s[i]] = IF i = Len(s) THEN NullNode ELSE s[i + 1]
  PROVE  Traversal(step) = s
<1> DEFINE N == Cardinality(LNodes)
           m == Len(s)
           Turn(w) == LET x == step[IF w = <<>> THEN NullNode ELSE Last(w)]
                      IN  IF x = NullNode THEN w ELSE Append(w, x)
           eqn(f) == [k \in 0..(N + 1) |-> IF k = 0 THEN <<>> ELSE Turn(f[k - 1])]
           F == CHOOSE f : f = eqn(f)
           part(k) == IF k <= m THEN k ELSE m
           upTo(k) == [i \in 1..k |-> s[i]]
           G == [k \in 0..(N + 1) |-> upTo(part(k))]
<1>1. Traversal(step) = F[N + 1]
  BY DEF Traversal
<1>2. m \in Nat /\ N \in Nat /\ m <= N /\ \A i \in 1..m : s[i] \in C \ {NullNode}
  BY LenProperties, ElementOfSeq
<1>3. ASSUME NEW k \in 0..m
      PROVE  upTo(k) \in Seq(C) /\ Len(upTo(k)) = k /\ \A i \in 1..k : upTo(k)[i] = s[i]
  <2>1. k \in Nat /\ \A i \in 1..k : s[i] \in C
    BY <1>2
  <2>2. upTo(k) \in [1..k -> C] /\ DOMAIN upTo(k) = 1..k
    BY <2>1
  <2>3. upTo(k) \in Seq(C) /\ Len(upTo(k)) = k
    <3> HIDE DEF upTo
    <3> QED BY <2>1, <2>2
  <2> QED BY <2>3
<1>4. upTo(0) = <<>>
  <2>1. 0 \in 0..m
    BY <1>2
  <2> HIDE DEF upTo
  <2> QED BY <2>1, <1>3
<1>5. ASSUME NEW k \in Nat PROVE Turn(upTo(part(k))) = upTo(part(k + 1))
  <2>1. part(k) \in 0..m
    BY <1>2
  <2> DEFINE w == upTo(part(k))
  <2>2. /\ w \in Seq(C) /\ Len(w) = part(k) /\ \A i \in 1..part(k) : w[i] = s[i]
        /\ part(k) \in Nat
    <3> HIDE DEF upTo, part
    <3> QED BY <2>1, <1>2, <1>3
  <2>3. step[IF w = <<>> THEN NullNode ELSE Last(w)] =
            IF part(k) = m THEN NullNode ELSE s[part(k) + 1]
    <3>1. CASE part(k) = 0
      <4>1. w = <<>>
        <5> HIDE DEF upTo, part, w
        <5> QED BY <3>1, <2>2
      <4>2. step[NullNode] = IF part(k) = m THEN NullNode ELSE s[part(k) + 1]
        <5> HIDE DEF part
        <5> QED BY <3>1
      <4> HIDE DEF w, part
      <4> QED BY <4>1, <4>2
    <3>2. CASE part(k) # 0
      <4>1. w # <<>> /\ Last(w) = s[part(k)] /\ part(k) \in 1..m
        <5> HIDE DEF upTo, part, w
        <5>1. part(k) \in 1..part(k) /\ part(k) \in 1..m
          BY <3>2, <2>1, <2>2
        <5>2. w # <<>>
          BY <3>2, <2>2
        <5> QED BY <5>1, <5>2, <2>2 DEF Last
      <4> HIDE DEF w, part
      <4> QED BY <4>1
    <3> QED BY <3>1, <3>2
  <2>4. CASE k >= m
    <3>1. part(k) = m /\ part(k + 1) = m
      BY <2>4, <1>2
    <3> HIDE DEF part, upTo
    <3> QED BY <3>1, <2>3
  <2>5. CASE k < m
    <3>1. part(k) = k /\ part(k + 1) = k + 1 /\ k + 1 \in 1..m /\ k + 1 \in 0..m
      BY <2>5, <1>2
    <3>2. s[k + 1] \in C /\ s[k + 1] # NullNode /\ k # m
      BY <3>1, <1>2, <2>5
    <3>3. Turn(w) = Append(w, s[k + 1])
      <4> HIDE DEF w, part
      <4> QED BY <3>1, <3>2, <2>3
    <3>4. Append(w, s[k + 1]) = upTo(k + 1)
      <4> DEFINE v == Append(w, s[k + 1])
                 z == upTo(k + 1)
      <4>1. z \in Seq(C) /\ Len(z) = k + 1 /\ \A i \in 1..(k + 1) : z[i] = s[i]
        <5> HIDE DEF upTo
        <5> QED BY <3>1, <1>3
      <4>2. w \in Seq(C) /\ Len(w) = k /\ \A i \in 1..k : w[i] = s[i]
        <5> HIDE DEF upTo, w, part
        <5> QED BY <2>2, <3>1
      <4> HIDE DEF upTo, w, z
      <4>3. v \in Seq(C) /\ Len(v) = k + 1 /\ v[k + 1] = s[k + 1] /\ \A i \in 1..k : v[i] = w[i]
        BY <3>2, <4>2, AppendProperties
      <4> HIDE DEF v
      <4>4. \A i \in 1..(k + 1) : v[i] = z[i]
        <5> SUFFICES ASSUME NEW i \in 1..(k + 1) PROVE v[i] = z[i]
          OBVIOUS
        <5>1. i = k + 1 \/ i \in 1..k
          OBVIOUS
        <5> QED BY <5>1, <4>1, <4>2, <4>3
      <4>5. v = z
        BY <4>1, <4>3, <4>4, SeqEqual
      <4> QED BY <4>5 DEF v, z
    <3> HIDE DEF part, upTo, Turn
    <3> QED BY <3>1, <3>3, <3>4
  <2>6. k >= m \/ k < m
    BY <1>2
  <2> HIDE DEF w, part, upTo, Turn
  <2> QED BY <2>4, <2>5, <2>6
<1> HIDE DEF upTo, part, Turn
<1>6. part(0) = 0 /\ part(N + 1) = m
  BY <1>2 DEF part
<1>7. G = eqn(G)
  <2> SUFFICES ASSUME NEW k \in 0..(N + 1) PROVE G[k] = IF k = 0 THEN <<>> ELSE Turn(G[k - 1])
    OBVIOUS
  <2>1. CASE k = 0
    BY <2>1, <1>4, <1>6
  <2>2. CASE k # 0
    <3>1. k - 1 \in Nat /\ k - 1 \in 0..(N + 1) /\ (k - 1) + 1 = k
      BY <2>2, <1>2
    <3>2. Turn(upTo(part(k - 1))) = upTo(part((k - 1) + 1))
      BY <3>1, <1>5
    <3>3. G[k] = upTo(part(k)) /\ G[k - 1] = upTo(part(k - 1))
      BY <3>1
    <3> QED BY <3>1, <3>2, <3>3, <2>2
  <2> QED BY <2>1, <2>2
<1>8. F = eqn(F)
  <2> HIDE DEF eqn
  <2> QED BY <1>7
<1> HIDE DEF F
<1> DEFINE T == {k \in Nat : k <= N + 1 => F[k] = G[k]}
<1>9. 0 \in T
  <2> HIDE DEF G
  <2>1. 0 \in 0..(N + 1)
    BY <1>2
  <2>2. eqn(F)[0] = <<>> /\ eqn(G)[0] = <<>>
    BY <2>1
  <2> HIDE DEF eqn
  <2>3. F[0] = G[0]
    BY <2>2, <1>7, <1>8
  <2> QED BY <2>3
<1>10. ASSUME NEW k \in T PROVE k + 1 \in T
  <2> SUFFICES ASSUME k + 1 <= N + 1 PROVE F[k + 1] = G[k + 1]
    OBVIOUS
  <2> HIDE DEF G
  <2>1. k \in Nat /\ F[k] = G[k] /\ k + 1 \in 0..(N + 1) /\ k + 1 # 0 /\ (k + 1) - 1 = k
    BY <1>2
  <2>2. eqn(F)[k + 1] = Turn(F[k]) /\ eqn(G)[k + 1] = Turn(G[k])
    BY <2>1
  <2> HIDE DEF eqn
  <2>3. F[k + 1] = Turn(F[k]) /\ G[k + 1] = Turn(G[k])
    BY <2>2, <1>7, <1>8
  <2> QED BY <2>1, <2>3
<1>11. T = Nat
  <2>1. T \subseteq Nat
    OBVIOUS
  <2> HIDE DEF T
  <2> QED BY <1>9, <1>10, <2>1, NatInd
<1>12. F[N + 1] = G[N + 1]
  <2> HIDE DEF G
  <2>1. N + 1 \in T
    BY <1>2, <1>11
  <2> QED BY <2>1
<1>13. G[N + 1] = upTo(m)
  <2>1. N + 1 \in 0..(N + 1)
    BY <1>2
  <2> QED BY <2>1, <1>6
<1>14. upTo(m) = s
  <2>1. m \in 0..m
    BY <1>2
  <2>2. upTo(m) \in Seq(C) /\ Len(upTo(m)) = m /\ \A i \in 1..m : upTo(m)[i] = s[i]
    BY <2>1, <1>3
  <2>3. s \in Seq(C)
    OBVIOUS
  <2> QED BY <2>2, <2>3, SeqEqual
<1> QED BY <1>1, <1>12, <1>13, <1>14

\* What GetNext and GetPrevious return, by the pointers.
NextStep(nx, l) ==
    [n \in Cells |-> IF n = NullNode THEN IF nx[FirstOf(l)] = LastOf(l) THEN NullNode ELSE nx[FirstOf(l)]
                     ELSE IF nx[n] = LastOf(l) THEN NullNode ELSE nx[n]]
PrevStep(pv, l) ==
    [n \in Cells |-> IF n = NullNode THEN IF pv[LastOf(l)] = FirstOf(l) THEN NullNode ELSE pv[LastOf(l)]
                     ELSE IF pv[n] = FirstOf(l) THEN NullNode ELSE pv[n]]

LEMMA WalksAre ==
  ASSUME ListAssumption, NEW nx \in [Linkable -> Cells], NEW pv \in [Linkable -> Cells],
         NEW l \in Lists, NEW s, NEW wh, Contents(s, wh, l), Spells(nx, pv, l, s)
  PROVE  /\ Traversal(NextStep(nx, l)) = s
         /\ Traversal(PrevStep(pv, l)) = Reverse(s)
<1> DEFINE m == Len(s)
<1>1. s \in Seq(Places) /\ m \in Nat /\ m <= Cardinality(LNodes) /\ Cardinality(LNodes) \in Nat
  <2>1. s \in Seq(Places)
    BY DEF Contents
  <2>2. m \in Nat
    BY <2>1, LenProperties
  <2> QED BY <2>1, <2>2, ContentsFew
<1>2. /\ At(l, s, 0) = FirstOf(l) /\ At(l, s, m + 1) = LastOf(l)
      /\ \A k \in 1..m : At(l, s, k) = s[k] /\ s[k] \in Places
      /\ \A k \in 0..(m + 1) : At(l, s, k) \in Linkable
  BY <1>1, AtIs
<1>3. /\ NullNode \in Cells /\ Linkable \subseteq Cells /\ NullNode \notin Linkable
      /\ Places \subseteq Linkable /\ Cells = Linkable \cup {NullNode}
      /\ FirstOf(l) \notin Places /\ LastOf(l) \notin Places /\ FirstOf(l) # LastOf(l)
      /\ FirstOf(l) \in Linkable /\ LastOf(l) \in Linkable
  BY CellsApart DEF Cells, Linkable
<1>4. \A k \in 0..m : nx[At(l, s, k)] = At(l, s, k + 1) /\ pv[At(l, s, k + 1)] = At(l, s, k)
  BY DEF Spells
<1>5. Traversal(NextStep(nx, l)) = s
  <2> DEFINE step == NextStep(nx, l)
  <2>1. step \in [Cells -> Cells]
    BY <1>3 DEF NextStep
  <2>2. s \in Seq(Cells \ {NullNode})
    <3>1. Places \subseteq Cells \ {NullNode}
      BY <1>3
    <3> QED BY <3>1, <1>1
  <2>3. step[NullNode] = IF m = 0 THEN NullNode ELSE s[1]
    <3>1. step[NullNode] = IF nx[FirstOf(l)] = LastOf(l) THEN NullNode ELSE nx[FirstOf(l)]
      BY <1>3 DEF NextStep
    <3>2. nx[FirstOf(l)] = At(l, s, 1)
      <4>1. 0 \in 0..m /\ 0 + 1 = 1
        BY <1>1
      <4> QED BY <4>1, <1>2, <1>4
    <3>3. CASE m = 0
      BY <3>1, <3>2, <3>3, <1>2
    <3>4. CASE m # 0
      <4>1. 1 \in 1..m
        BY <3>4, <1>1
      <4>2. At(l, s, 1) = s[1] /\ s[1] # LastOf(l)
        BY <4>1, <1>2, <1>3
      <4> QED BY <4>2, <3>1, <3>2, <3>4
    <3> QED BY <3>3, <3>4
  <2>4. ASSUME NEW i \in 1..m PROVE step[s[i]] = IF i = m THEN NullNode ELSE s[i + 1]
    <3>1. step[s[i]] = IF nx[s[i]] = LastOf(l) THEN NullNode ELSE nx[s[i]]
      BY <1>2, <1>3 DEF NextStep
    <3>2. nx[s[i]] = At(l, s, i + 1)
      <4>1. i \in 0..m
        OBVIOUS
      <4> QED BY <4>1, <1>2, <1>4
    <3>3. CASE i = m
      BY <3>1, <3>2, <3>3, <1>2
    <3>4. CASE i # m
      <4>1. i + 1 \in 1..m
        BY <3>4, <1>1
      <4>2. At(l, s, i + 1) = s[i + 1] /\ s[i + 1] # LastOf(l)
        BY <4>1, <1>2, <1>3
      <4> QED BY <4>2, <3>1, <3>2, <3>4
    <3> QED BY <3>3, <3>4
  <2> HIDE DEF step
  <2>5. Traversal(step) = s
    BY <1>1, <1>3, <2>1, <2>2, <2>3, <2>4, TraversalIs
  <2> QED BY <2>5 DEF step
<1>6. Traversal(PrevStep(pv, l)) = Reverse(s)
  <2> DEFINE step == PrevStep(pv, l)
             r == Reverse(s)
  <2>1. step \in [Cells -> Cells]
    BY <1>3 DEF PrevStep
  <2>2. r \in Seq(Cells \ {NullNode}) /\ Len(r) = m /\ \A i \in 1..m : r[i] = s[(m - i) + 1]
    <3>1. \A i \in 1..m : (m - i) + 1 \in 1..m
      BY <1>1
    <3>2. \A i \in 1..m : s[(m - i) + 1] \in Cells \ {NullNode}
      BY <3>1, <1>2, <1>3
    <3>3. r = [i \in 1..m |-> s[(m - i) + 1]]
      BY DEF Reverse
    <3>4. r \in [1..m -> Cells \ {NullNode}] /\ \A i \in 1..m : r[i] = s[(m - i) + 1]
      BY <3>2, <3>3
    <3>5. DOMAIN r = 1..m
      BY <3>3
    <3> HIDE DEF r
    <3> QED BY <3>4, <3>5, <1>1
  <2>3. step[NullNode] = IF m = 0 THEN NullNode ELSE r[1]
    <3>1. step[NullNode] = IF pv[LastOf(l)] = FirstOf(l) THEN NullNode ELSE pv[LastOf(l)]
      BY <1>3 DEF PrevStep
    <3>2. pv[LastOf(l)] = At(l, s, m)
      <4>1. m \in 0..m
        BY <1>1
      <4> QED BY <4>1, <1>2, <1>4
    <3>3. CASE m = 0
      BY <3>1, <3>2, <3>3, <1>2
    <3>4. CASE m # 0
      <4>1. m \in 1..m /\ 1 \in 1..m /\ (m - 1) + 1 = m
        BY <3>4, <1>1
      <4>2. At(l, s, m) = r[1] /\ s[m] # FirstOf(l)
        <5> HIDE DEF r
        <5> QED BY <4>1, <1>2, <1>3, <2>2
      <4>3. s[m] = r[1]
        <5> HIDE DEF r
        <5> QED BY <4>1, <2>2
      <4> QED BY <4>2, <4>3, <3>1, <3>2, <3>4
    <3> QED BY <3>3, <3>4
  <2>4. ASSUME NEW i \in 1..m PROVE step[r[i]] = IF i = m THEN NullNode ELSE r[i + 1]
    <3> DEFINE k == (m - i) + 1
    <3>1. k \in 1..m /\ k - 1 \in 0..m /\ (k - 1) + 1 = k
      BY <1>1
    <3>2. r[i] = s[k]
      <4> HIDE DEF r
      <4> QED BY <2>2
    <3>3. step[s[k]] = IF pv[s[k]] = FirstOf(l) THEN NullNode ELSE pv[s[k]]
      <4> HIDE DEF k
      <4> QED BY <3>1, <1>2, <1>3 DEF PrevStep
    <3>4. pv[s[k]] = At(l, s, k - 1)
      <4> HIDE DEF k
      <4> QED BY <3>1, <1>2, <1>4
    <3>5. CASE i = m
      <4>1. k - 1 = 0
        BY <3>5, <1>1
      <4> HIDE DEF k, r, step
      <4> QED BY <4>1, <3>2, <3>3, <3>4, <3>5, <1>2
    <3>6. CASE i # m
      <4>1. i + 1 \in 1..m /\ (m - (i + 1)) + 1 = k - 1 /\ k - 1 \in 1..m
        BY <3>6, <1>1
      <4>2. r[i + 1] = s[k - 1]
        <5> HIDE DEF r, k
        <5> QED BY <4>1, <2>2
      <4>3. At(l, s, k - 1) = s[k - 1] /\ s[k - 1] # FirstOf(l)
        <5> HIDE DEF k
        <5> QED BY <4>1, <1>2, <1>3
      <4> HIDE DEF k, r, step
      <4> QED BY <4>2, <4>3, <3>2, <3>3, <3>4, <3>6
    <3> QED BY <3>5, <3>6
  <2> HIDE DEF step, r
  <2>5. Traversal(step) = r
    BY SMTT(60), <1>1, <1>3, <2>1, <2>2, <2>3, <2>4, TraversalIs
  <2> QED BY <2>5 DEF step, r
<1> QED BY <1>5, <1>6

\* What the stack's links lead through.
StackStep(head, nx) == [n \in Places \cup {NullNode} |-> IF n = NullNode THEN head ELSE nx[n[2]]]

LEMMA StackWalkIs ==
  ASSUME ListAssumption, NEW head \in Places \cup {NullNode},
         NEW nx \in [LNodes -> Places \cup {NullNode}],
         NEW s, NEW wh, NEW place, Contents(s, wh, place), StackSpells(head, nx, s)
  PROVE  Traversal(StackStep(head, nx)) = s
<1> DEFINE C == Places \cup {NullNode}
           step == StackStep(head, nx)
<1>1. s \in Seq(Places) /\ Len(s) \in Nat /\ DOMAIN s = 1..Len(s) /\ \A i \in 1..Len(s) : s[i] \in Places
  <2>1. s \in Seq(Places)
    BY DEF Contents
  <2> QED BY <2>1, LenProperties, ElementOfSeq
<1>2. Len(s) <= Cardinality(LNodes) /\ Cardinality(LNodes) \in Nat
  BY ContentsFew
<1>3. NullNode \notin Places
  BY CellsApart
<1>4. step \in [C -> C]
  BY ItemsAre DEF StackStep
<1>5. s \in Seq(C \ {NullNode})
  <2>1. Places \subseteq C \ {NullNode}
    BY <1>3
  <2> QED BY <2>1, <1>1
<1>6. step[NullNode] = IF Len(s) = 0 THEN NullNode ELSE s[1]
  <2>1. s = <<>> <=> Len(s) = 0
    BY <1>1, EmptySeq
  <2>2. step[NullNode] = head
    BY SMTT(30) DEF StackStep
  <2> QED BY <2>1, <2>2 DEF StackSpells
<1>7. \A i \in 1..Len(s) : step[s[i]] = IF i = Len(s) THEN NullNode ELSE s[i + 1]
  <2> SUFFICES ASSUME NEW i \in 1..Len(s) PROVE step[s[i]] = IF i = Len(s) THEN NullNode ELSE s[i + 1]
    OBVIOUS
  <2>1. step[s[i]] = nx[s[i][2]]
    BY <1>1, <1>3 DEF StackStep
  <2> QED BY <2>1, <1>1 DEF StackSpells
<1> HIDE DEF step, C
<1>8. NullNode \in C
  BY DEF C
<1>9. Traversal(step) = s
  BY <1>2, <1>4, <1>5, <1>6, <1>7, <1>8, TraversalIs
<1> QED BY <1>9 DEF step

------------------------------------------------------------------------------
(* Lists: a node more, a node less *)

LEMMA AtInserted ==
  ASSUME NEW l \in Lists, NEW s \in Seq(Places), NEW q \in 1..(Len(s) + 1), NEW t \in Places
  PROVE  \A i \in 0..(Len(s) + 2) :
            At(l, InsertAt(s, q, t), i) =
                IF i < q THEN At(l, s, i) ELSE IF i = q THEN t ELSE At(l, s, i - 1)
<1> DEFINE u == InsertAt(s, q, t)
           m == Len(s)
<1>1. /\ m \in Nat /\ q \in 1..(m + 1) /\ At(l, s, 0) = FirstOf(l) /\ At(l, s, m + 1) = LastOf(l)
      /\ \A i \in 1..m : At(l, s, i) = s[i]
  BY AtIs
<1>2. u \in Seq(Places) /\ Len(u) = m + 1
  BY InsertAtLen
<1>3. \A i \in 1..(m + 1) : u[i] = IF i < q THEN s[i] ELSE IF i = q THEN t ELSE s[i - 1]
  BY InsertAtItems
<1> HIDE DEF u, m
<1>4. ASSUME NEW i \in 0..(m + 2)
      PROVE  At(l, u, i) = IF i < q THEN At(l, s, i) ELSE IF i = q THEN t ELSE At(l, s, i - 1)
  <2>1. /\ At(l, u, 0) = FirstOf(l) /\ At(l, u, (m + 1) + 1) = LastOf(l)
        /\ \A j \in 1..(m + 1) : At(l, u, j) = u[j]
    BY <1>2, AtIs
  <2>2. i = 0 \/ i = m + 2 \/ (i \in 1..(m + 1) /\ i < q) \/ i = q \/ (i \in 1..(m + 1) /\ i > q)
    BY <1>1
  <2>3. CASE i = 0
    <3>1. i < q
      BY <2>3, <1>1
    <3> QED BY <3>1, <2>1, <2>3, <1>1
  <2>4. CASE i = m + 2
    <3>1. ~(i < q) /\ i # q /\ i - 1 = m + 1 /\ (m + 1) + 1 = i
      BY <2>4, <1>1
    <3> QED BY <3>1, <2>1, <1>1
  <2>5. CASE i \in 1..(m + 1) /\ i < q
    <3>1. i \in 1..m
      BY <2>5, <1>1
    <3> QED BY <3>1, <2>1, <2>5, <1>1, <1>3
  <2>6. CASE i = q
    <3>1. i \in 1..(m + 1) /\ ~(i < q)
      BY <2>6, <1>1
    <3> QED BY <3>1, <2>1, <2>6, <1>3
  <2>7. CASE i \in 1..(m + 1) /\ i > q
    <3>1. ~(i < q) /\ i # q /\ i - 1 \in 1..m
      BY <2>7, <1>1
    <3> QED BY <3>1, <2>1, <2>7, <1>1, <1>3
  <2> QED BY <2>2, <2>3, <2>4, <2>5, <2>6, <2>7
<1> QED BY <1>4 DEF u, m

\* The pointers after node t came in front of the q-th cell.
LEMMA SpellsInserted ==
  ASSUME NEW nx \in [Linkable -> Cells], NEW pv \in [Linkable -> Cells], NEW l \in Lists,
         NEW s \in Seq(Places), \A i, j \in DOMAIN s : s[i] = s[j] => i = j, Spells(nx, pv, l, s),
         NEW q \in 1..(Len(s) + 1), NEW t \in Places, \A i \in DOMAIN s : s[i] # t,
         NEW nx2, NEW pv2,
         \A x \in Linkable : nx2[x] = IF x = t THEN At(l, s, q)
                                      ELSE IF x = At(l, s, q - 1) THEN t ELSE nx[x],
         \A x \in Linkable : pv2[x] = IF x = t THEN At(l, s, q - 1)
                                      ELSE IF x = At(l, s, q) THEN t ELSE pv[x]
  PROVE  Spells(nx2, pv2, l, InsertAt(s, q, t))
<1> DEFINE u == InsertAt(s, q, t)
           m == Len(s)
<1>1. /\ m \in Nat /\ DOMAIN s = 1..m /\ q \in Int
      /\ At(l, s, 0) = FirstOf(l) /\ At(l, s, m + 1) = LastOf(l)
      /\ \A i \in 1..m : At(l, s, i) = s[i] /\ s[i] \in Places
      /\ \A i \in 0..(m + 1) : At(l, s, i) \in Linkable
  BY AtIs
<1>2. \A i, j \in 0..(m + 1) : At(l, s, i) = At(l, s, j) => i = j
  BY AtOnce
<1>3. /\ t \in Linkable /\ \A i \in 0..(m + 1) : At(l, s, i) # t
  <2>1. t \in Linkable /\ t # FirstOf(l) /\ t # LastOf(l)
    BY CellsApart
  <2>2. \A i \in 0..(m + 1) : i = 0 \/ i = m + 1 \/ i \in 1..m
    BY SMTT(60), <1>1
  <2> QED BY <2>1, <2>2, <1>1
<1>4. Len(u) = m + 1
  BY InsertAtLen
<1>5. ASSUME NEW i \in 0..(m + 2)
      PROVE  At(l, u, i) = IF i < q THEN At(l, s, i) ELSE IF i = q THEN t ELSE At(l, s, i - 1)
  BY AtInserted
<1> HIDE DEF u
<1>6. ASSUME NEW i \in 0..(m + 1)
      PROVE  nx2[At(l, u, i)] = At(l, u, i + 1) /\ pv2[At(l, u, i + 1)] = At(l, u, i)
  <2>1. /\ \A j \in 0..m : nx[At(l, s, j)] = At(l, s, j + 1) /\ pv[At(l, s, j + 1)] = At(l, s, j)
        /\ i \in 0..(m + 2) /\ i + 1 \in 0..(m + 2) /\ i \in Int
        /\ q - 1 \in 0..(m + 1) /\ q \in 0..(m + 1)
    BY <1>1 DEF Spells
  <2>2. CASE i + 1 < q
    <3>1. i \in 0..m /\ i < q /\ i # q - 1 /\ i + 1 # q /\ i \in 0..(m + 1) /\ i + 1 \in 0..(m + 1)
      BY <2>1, <2>2, <1>1
    <3>2. At(l, u, i) = At(l, s, i) /\ At(l, u, i + 1) = At(l, s, i + 1)
      BY <3>1, <2>1, <2>2, <1>5
    <3>3. At(l, s, i) # At(l, s, q - 1) /\ At(l, s, i + 1) # At(l, s, q)
      BY <3>1, <2>1, <1>2
    <3> QED BY <3>1, <3>2, <3>3, <2>1, <1>1, <1>3
  <2>3. CASE i + 1 = q
    <3>1. i < q /\ ~(i + 1 < q) /\ i = q - 1
      BY <2>1, <2>3, <1>1
    <3>2. At(l, u, i) = At(l, s, q - 1) /\ At(l, u, i + 1) = t
      BY <3>1, <2>1, <2>3, <1>5
    <3> QED BY <3>2, <2>1, <1>1, <1>3
  <2>4. CASE i = q
    <3>1. ~(i < q) /\ ~(i + 1 < q) /\ i + 1 # q /\ (i + 1) - 1 = q
      BY <2>1, <2>4, <1>1
    <3>2. At(l, u, i) = t /\ At(l, u, i + 1) = At(l, s, q)
      BY <3>1, <2>1, <2>4, <1>5
    <3> QED BY <3>2, <2>1, <1>1, <1>3
  <2>5. CASE i > q
    <3>1. /\ ~(i < q) /\ ~(i + 1 < q) /\ i # q /\ i + 1 # q /\ (i + 1) - 1 = i
          /\ i - 1 \in 0..m /\ (i - 1) + 1 = i /\ i - 1 \in 0..(m + 1) /\ i - 1 # q - 1
      BY <2>1, <2>5, <1>1
    <3>2. At(l, u, i) = At(l, s, i - 1) /\ At(l, u, i + 1) = At(l, s, i)
      BY <3>1, <2>1, <1>5
    <3>3. At(l, s, i - 1) # At(l, s, q - 1) /\ At(l, s, i) # At(l, s, q)
      BY <3>1, <2>1, <1>2
    <3>4. nx[At(l, s, i - 1)] = At(l, s, i) /\ pv[At(l, s, i)] = At(l, s, i - 1)
      BY <3>1, <2>1
    <3> QED BY <3>1, <3>2, <3>3, <3>4, <1>1, <1>3
  <2>6. i + 1 < q \/ i + 1 = q \/ i = q \/ i > q
    BY <2>1, <1>1
  <2> QED BY <2>2, <2>3, <2>4, <2>5, <2>6
<1>7. 0..Len(u) = 0..(m + 1)
  BY <1>4
<1> QED BY <1>6, <1>7 DEF Spells, u

LEMMA AtRemoved ==
  ASSUME NEW l \in Lists, NEW s \in Seq(Places), NEW k \in 1..Len(s)
  PROVE  \A i \in 0..Len(s) :
            At(l, RemoveAt(s, k), i) = IF i < k THEN At(l, s, i) ELSE At(l, s, i + 1)
<1> DEFINE u == RemoveAt(s, k)
           m == Len(s)
<1>1. /\ m \in Nat /\ k \in 1..m /\ At(l, s, 0) = FirstOf(l) /\ At(l, s, m + 1) = LastOf(l)
      /\ \A i \in 1..m : At(l, s, i) = s[i]
  BY AtIs
<1>2. /\ u \in Seq(Places) /\ Len(u) = m - 1
      /\ \A i \in 1..(m - 1) : u[i] = IF i < k THEN s[i] ELSE s[i + 1]
  BY RemoveAtIs
<1> HIDE DEF u, m
<1>3. ASSUME NEW i \in 0..m PROVE At(l, u, i) = IF i < k THEN At(l, s, i) ELSE At(l, s, i + 1)
  <2>1. /\ At(l, u, 0) = FirstOf(l) /\ At(l, u, (m - 1) + 1) = LastOf(l)
        /\ \A j \in 1..(m - 1) : At(l, u, j) = u[j]
    BY <1>2, AtIs
  <2>2. i = 0 \/ i = m \/ (i \in 1..(m - 1) /\ i < k) \/ (i \in 1..(m - 1) /\ ~(i < k))
    BY <1>1
  <2>3. CASE i = 0
    <3>1. i < k
      BY <2>3, <1>1
    <3> QED BY <3>1, <2>1, <2>3, <1>1
  <2>4. CASE i = m
    <3>1. ~(i < k) /\ (m - 1) + 1 = i
      BY <2>4, <1>1
    <3> QED BY <3>1, <2>1, <2>4, <1>1
  <2>5. CASE i \in 1..(m - 1) /\ i < k
    <3>1. i \in 1..m
      BY <2>5, <1>1
    <3> QED BY <3>1, <2>1, <2>5, <1>1, <1>2
  <2>6. CASE i \in 1..(m - 1) /\ ~(i < k)
    <3>1. i + 1 \in 1..m
      BY <2>6, <1>1
    <3> QED BY <3>1, <2>1, <2>6, <1>1, <1>2
  <2> QED BY <2>2, <2>3, <2>4, <2>5, <2>6
<1> QED BY <1>3 DEF u, m

\* The pointers after the k-th node went.
LEMMA SpellsRemoved ==
  ASSUME NEW nx \in [Linkable -> Cells], NEW pv \in [Linkable -> Cells], NEW l \in Lists,
         NEW s \in Seq(Places), \A i, j \in DOMAIN s : s[i] = s[j] => i = j, Spells(nx, pv, l, s),
         NEW k \in 1..Len(s), NEW nx2, NEW pv2,
         \A x \in Linkable : nx2[x] = IF x = At(l, s, k - 1) THEN At(l, s, k + 1) ELSE nx[x],
         \A x \in Linkable : pv2[x] = IF x = At(l, s, k + 1) THEN At(l, s, k - 1) ELSE pv[x]
  PROVE  Spells(nx2, pv2, l, RemoveAt(s, k))
<1> DEFINE u == RemoveAt(s, k)
           m == Len(s)
<1>1. /\ m \in Nat /\ DOMAIN s = 1..m /\ k \in Int
      /\ At(l, s, 0) = FirstOf(l) /\ At(l, s, m + 1) = LastOf(l)
      /\ \A i \in 1..m : At(l, s, i) = s[i] /\ s[i] \in Places
      /\ \A i \in 0..(m + 1) : At(l, s, i) \in Linkable
  BY AtIs
<1>2. \A i, j \in 0..(m + 1) : At(l, s, i) = At(l, s, j) => i = j
  BY AtOnce
<1>4. u \in Seq(Places) /\ Len(u) = m - 1
  BY RemoveAtIs
<1>5. ASSUME NEW i \in 0..m PROVE At(l, u, i) = IF i < k THEN At(l, s, i) ELSE At(l, s, i + 1)
  BY AtRemoved
<1> HIDE DEF u
<1>6. ASSUME NEW i \in 0..(m - 1)
      PROVE  nx2[At(l, u, i)] = At(l, u, i + 1) /\ pv2[At(l, u, i + 1)] = At(l, u, i)
  <2>1. /\ \A j \in 0..m : nx[At(l, s, j)] = At(l, s, j + 1) /\ pv[At(l, s, j + 1)] = At(l, s, j)
        /\ i \in 0..m /\ i + 1 \in 0..m /\ i \in Int /\ k - 1 \in 0..(m + 1) /\ k + 1 \in 0..(m + 1)
    BY <1>1 DEF Spells
  <2>2. CASE i + 1 < k
    <3>1. i < k /\ i # k - 1 /\ i + 1 # k + 1 /\ i \in 0..(m + 1) /\ i + 1 \in 0..(m + 1)
      BY <2>1, <2>2, <1>1
    <3>2. At(l, u, i) = At(l, s, i) /\ At(l, u, i + 1) = At(l, s, i + 1)
      BY <3>1, <2>1, <2>2, <1>5
    <3>3. At(l, s, i) # At(l, s, k - 1) /\ At(l, s, i + 1) # At(l, s, k + 1)
      BY <3>1, <2>1, <1>2
    <3> QED BY <3>1, <3>2, <3>3, <2>1, <1>1
  <2>3. CASE i + 1 = k
    <3>1. i < k /\ ~(i + 1 < k) /\ i = k - 1 /\ (i + 1) + 1 = k + 1
      BY <2>1, <2>3, <1>1
    <3>2. At(l, u, i) = At(l, s, k - 1) /\ At(l, u, i + 1) = At(l, s, k + 1)
      BY <3>1, <2>1, <1>5
    <3> QED BY <3>2, <2>1, <1>1
  <2>4. CASE i + 1 > k
    <3>1. /\ ~(i < k) /\ ~(i + 1 < k) /\ i + 1 # k - 1 /\ (i + 1) + 1 # k + 1
          /\ i + 1 \in 0..(m + 1) /\ (i + 1) + 1 \in 0..(m + 1)
      BY <2>1, <2>4, <1>1
    <3>2. At(l, u, i) = At(l, s, i + 1) /\ At(l, u, i + 1) = At(l, s, (i + 1) + 1)
      BY <3>1, <2>1, <1>5
    <3>3. At(l, s, i + 1) # At(l, s, k - 1) /\ At(l, s, (i + 1) + 1) # At(l, s, k + 1)
      BY <3>1, <2>1, <1>2
    <3>4. nx[At(l, s, i + 1)] = At(l, s, (i + 1) + 1) /\ pv[At(l, s, (i + 1) + 1)] = At(l, s, i + 1)
      BY <2>1
    <3> QED BY <3>1, <3>2, <3>3, <3>4, <1>1
  <2>5. i + 1 < k \/ i + 1 = k \/ i + 1 > k
    BY <2>1, <1>1
  <2> QED BY <2>2, <2>3, <2>4, <2>5
<1>7. 0..Len(u) = 0..(m - 1)
  BY <1>4
<1> QED BY <1>6, <1>7 DEF Spells, u

\* Pointers of other cells change nothing.
LEMMA SpellsKept ==
  ASSUME NEW nx, NEW pv, NEW l, NEW s, Spells(nx, pv, l, s), NEW nx2, NEW pv2, Len(s) \in Nat,
         \A i \in 0..(Len(s) + 1) : /\ nx2[At(l, s, i)] = nx[At(l, s, i)]
                                    /\ pv2[At(l, s, i)] = pv[At(l, s, i)]
  PROVE  Spells(nx2, pv2, l, s)
<1> SUFFICES ASSUME NEW k \in 0..Len(s)
             PROVE  nx2[At(l, s, k)] = At(l, s, k + 1) /\ pv2[At(l, s, k + 1)] = At(l, s, k)
  BY DEF Spells
<1>1. k \in 0..(Len(s) + 1) /\ k + 1 \in 0..(Len(s) + 1)
  OBVIOUS
<1>2. nx[At(l, s, k)] = At(l, s, k + 1) /\ pv[At(l, s, k + 1)] = At(l, s, k)
  BY DEF Spells
<1> QED BY <1>1, <1>2

------------------------------------------------------------------------------
(* Lists: contents, arrivals and order   *)

LEMMA ContentsAre ==
  ASSUME NEW s, NEW wh, NEW place, Contents(s, wh, place)
  PROVE  /\ s \in Seq(Places) /\ Len(s) \in Nat /\ DOMAIN s = 1..Len(s)
         /\ \A i \in 1..Len(s) : s[i] \in Places /\ s[i][2] \in LNodes /\ wh[s[i][2]] = place
         /\ \A i, j \in 1..Len(s) : s[i] = s[j] => i = j
         /\ \A n \in LNodes : wh[n] = place => \E i \in 1..Len(s) : s[i] = Item(n)
<1>1. s \in Seq(Places) /\ \A i, j \in DOMAIN s : s[i] = s[j] => i = j
  BY DEF Contents
<1>2. Len(s) \in Nat /\ DOMAIN s = 1..Len(s) /\ \A i \in 1..Len(s) : s[i] \in Places
  BY <1>1, LenProperties, ElementOfSeq
<1>3. ASSUME NEW i \in 1..Len(s) PROVE s[i][2] \in LNodes /\ wh[s[i][2]] = place
  <2>1. s[i][2] \in LNodes /\ s[i] = Item(s[i][2])
    BY <1>2, ItemsAre
  <2> QED BY <2>1, <1>2 DEF Contents
<1> QED BY <1>1, <1>2, <1>3 DEF Contents

LEMMA ContentsInserted ==
  ASSUME NEW wh \in [LNodes -> Lists \cup {"stack", "free"}], NEW place, NEW s, Contents(s, wh, place),
         NEW n \in LNodes, wh[n] # place, NEW q \in 1..(Len(s) + 1)
  PROVE  Contents(InsertAt(s, q, Item(n)), [wh EXCEPT ![n] = place], place)
<1> DEFINE u == InsertAt(s, q, Item(n))
           m == Len(s)
           w == [wh EXCEPT ![n] = place]
<1>1. /\ s \in Seq(Places) /\ m \in Nat /\ DOMAIN s = 1..m
      /\ \A i \in 1..m : s[i] \in Places /\ s[i] # Item(n)
      /\ \A i, j \in 1..m : s[i] = s[j] => i = j
      /\ \A p \in LNodes : wh[p] = place <=> \E i \in 1..m : s[i] = Item(p)
  <2>1. \A p \in LNodes : wh[p] = place <=> \E i \in 1..m : s[i] = Item(p)
    BY ContentsAre DEF Contents
  <2>2. \A i \in 1..m : s[i] # Item(n)
    BY <2>1
  <2> QED BY <2>1, <2>2, ContentsAre
<1>2. Item(n) \in Places /\ \A p \in LNodes : Item(p) = Item(n) => p = n
  BY ItemsAre
<1>3. u \in Seq(Places) /\ Len(u) = m + 1
  BY <1>1, <1>2, InsertAtLen
<1>4. \A i \in 1..(m + 1) : u[i] = IF i < q THEN s[i] ELSE IF i = q THEN Item(n) ELSE s[i - 1]
  BY <1>1, <1>2, InsertAtItems
<1>5. \A p \in LNodes : w[p] = IF p = n THEN place ELSE wh[p]
  OBVIOUS
<1> HIDE DEF u, w
<1>6. DOMAIN u = 1..(m + 1)
  BY <1>3
<1>7. ASSUME NEW i \in 1..(m + 1), NEW j \in 1..(m + 1), u[i] = u[j] PROVE i = j
  <2> DEFINE posOf(k) == IF k < q THEN k ELSE k - 1
  <2>1. \A k \in 1..(m + 1) : k # q => posOf(k) \in 1..m /\ u[k] = s[posOf(k)]
    <3> SUFFICES ASSUME NEW k \in 1..(m + 1), k # q PROVE posOf(k) \in 1..m /\ u[k] = s[posOf(k)]
      OBVIOUS
    <3>1. k < q \/ k > q
      BY <1>1
    <3>2. CASE k < q
      BY <3>2, <1>1, <1>4
    <3>3. CASE k > q
      BY <3>3, <1>1, <1>4
    <3> QED BY <3>1, <3>2, <3>3
  <2>2. u[q] = Item(n)
    BY <1>1, <1>4
  <2>3. CASE i = q \/ j = q
    <3> HIDE DEF posOf
    <3> QED BY <2>1, <2>2, <2>3, <1>1, <1>7
  <2>4. CASE i # q /\ j # q
    <3>1. posOf(i) = posOf(j)
      <4> HIDE DEF posOf
      <4> QED BY <2>1, <2>4, <1>1, <1>7
    <3> QED BY <3>1, <2>4, <1>1
  <2> QED BY <2>3, <2>4
<1>8. ASSUME NEW p \in LNodes PROVE w[p] = place <=> \E i \in 1..(m + 1) : u[i] = Item(p)
  <2>1. CASE p = n
    <3>1. q \in 1..(m + 1) /\ u[q] = Item(n)
      BY <1>1, <1>4
    <3> QED BY <3>1, <2>1, <1>5
  <2>2. CASE p # n
    <3>1. w[p] = wh[p] /\ Item(p) # Item(n)
      BY <2>2, <1>2, <1>5
    <3>2. ASSUME NEW i \in 1..m, s[i] = Item(p) PROVE \E j \in 1..(m + 1) : u[j] = Item(p)
      <4>1. CASE i < q
        <5>1. i \in 1..(m + 1)
          BY <1>1
        <5> QED BY <5>1, <4>1, <3>2, <1>4
      <4>2. CASE ~(i < q)
        <5>1. i + 1 \in 1..(m + 1) /\ ~(i + 1 < q) /\ i + 1 # q /\ (i + 1) - 1 = i
          BY <4>2, <1>1
        <5>2. u[i + 1] = Item(p)
          BY <5>1, <3>2, <1>4
        <5> QED BY <5>1, <5>2
      <4> QED BY <4>1, <4>2
    <3>3. ASSUME NEW i \in 1..(m + 1), u[i] = Item(p) PROVE \E j \in 1..m : s[j] = Item(p)
      <4>1. i # q
        BY <3>1, <3>3, <1>4
      <4>2. CASE i < q
        <5>1. i \in 1..m
          BY <4>2, <1>1
        <5> QED BY <5>1, <4>2, <3>3, <1>4
      <4>3. CASE i > q
        <5>1. i - 1 \in 1..m /\ ~(i < q)
          BY <4>3, <1>1
        <5>2. s[i - 1] = Item(p)
          BY <5>1, <4>1, <3>3, <1>4
        <5> QED BY <5>1, <5>2
      <4>4. i < q \/ i > q
        BY <4>1, <1>1
      <4> QED BY <4>2, <4>3, <4>4
    <3> QED BY <3>1, <3>2, <3>3, <1>1
  <2> QED BY <2>1, <2>2
<1> QED BY <1>3, <1>6, <1>7, <1>8 DEF Contents, u, w

LEMMA ContentsRemoved ==
  ASSUME NEW wh \in [LNodes -> Lists \cup {"stack", "free"}], NEW place, NEW s, Contents(s, wh, place),
         NEW n \in LNodes, NEW k \in 1..Len(s), s[k] = Item(n), place # "free"
  PROVE  Contents(RemoveAt(s, k), [wh EXCEPT ![n] = "free"], place)
<1> DEFINE u == RemoveAt(s, k)
           m == Len(s)
           w == [wh EXCEPT ![n] = "free"]
<1>1. /\ s \in Seq(Places) /\ m \in Nat /\ DOMAIN s = 1..m
      /\ \A i, j \in 1..m : s[i] = s[j] => i = j
      /\ \A p \in LNodes : wh[p] = place <=> \E i \in 1..m : s[i] = Item(p)
  BY ContentsAre DEF Contents
<1>2. \A p \in LNodes : Item(p) = Item(n) => p = n
  BY ItemsAre
<1>3. /\ u \in Seq(Places) /\ Len(u) = m - 1
      /\ \A i \in 1..(m - 1) : u[i] = IF i < k THEN s[i] ELSE s[i + 1]
  BY <1>1, RemoveAtIs
<1>4. \A p \in LNodes : w[p] = IF p = n THEN "free" ELSE wh[p]
  OBVIOUS
<1> HIDE DEF u, w
<1>5. DOMAIN u = 1..(m - 1)
  BY <1>3
<1> DEFINE posOf(i) == IF i < k THEN i ELSE i + 1
<1>6. \A i \in 1..(m - 1) : posOf(i) \in 1..m /\ u[i] = s[posOf(i)] /\ posOf(i) # k
  BY <1>1, <1>3
<1>7. ASSUME NEW i \in 1..(m - 1), NEW j \in 1..(m - 1), u[i] = u[j] PROVE i = j
  <2>1. posOf(i) = posOf(j)
    <3> HIDE DEF posOf
    <3> QED BY <1>1, <1>6, <1>7
  <2> QED BY <2>1, <1>1
<1>8. ASSUME NEW p \in LNodes PROVE w[p] = place <=> \E i \in 1..(m - 1) : u[i] = Item(p)
  <2>1. CASE p = n
    <3>1. \A i \in 1..(m - 1) : u[i] # Item(n)
      <4> HIDE DEF posOf
      <4> QED BY <1>1, <1>6
    <3> QED BY <3>1, <2>1, <1>4
  <2>2. CASE p # n
    <3>1. w[p] = wh[p] /\ Item(p) # Item(n)
      BY <2>2, <1>2, <1>4
    <3>2. ASSUME NEW i \in 1..m, s[i] = Item(p) PROVE \E j \in 1..(m - 1) : u[j] = Item(p)
      <4>1. i # k
        BY <3>1, <3>2
      <4>2. CASE i < k
        <5>1. i \in 1..(m - 1)
          BY <4>2, <1>1
        <5> QED BY <5>1, <4>2, <3>2, <1>3
      <4>3. CASE i > k
        <5>1. i - 1 \in 1..(m - 1) /\ ~(i - 1 < k) /\ (i - 1) + 1 = i
          BY <4>3, <1>1
        <5>2. u[i - 1] = Item(p)
          BY <5>1, <3>2, <1>3
        <5> QED BY <5>1, <5>2
      <4>4. i < k \/ i > k
        BY <4>1, <1>1
      <4> QED BY <4>2, <4>3, <4>4
    <3>3. ASSUME NEW i \in 1..(m - 1), u[i] = Item(p) PROVE \E j \in 1..m : s[j] = Item(p)
      <4> HIDE DEF posOf
      <4> QED BY <3>3, <1>6
    <3> QED BY <3>1, <3>2, <3>3, <1>1
  <2> QED BY <2>1, <2>2
<1> HIDE DEF posOf
<1> QED BY <1>3, <1>5, <1>7, <1>8 DEF Contents, u, w

LEMMA ContentsKept ==
  ASSUME NEW s, NEW wh, NEW wh2, NEW place, Contents(s, wh, place),
         \A n \in LNodes : wh2[n] = place <=> wh[n] = place
  PROVE  Contents(s, wh2, place)
BY DEF Contents

\* A node that comes is the last to have arrived.
LEMMA ArrivalsMore ==
  ASSUME ListAssumption, NEW ar \in [LNodes -> Nat],
         NEW wh \in [LNodes -> Lists \cup {"stack", "free"}], Arrivals(ar, wh),
         NEW n \in LNodes, wh[n] = "free", NEW ar2, NEW wh2, wh2 = [wh EXCEPT ![n] = "sorted"],
         ar2 = [ar EXCEPT ![n] = 1 + Cardinality({m \in LNodes : ar[m] > 0})]
  PROVE  ar2 \in [LNodes -> Nat] /\ Arrivals(ar2, wh2) /\ \A m \in LNodes \ {n} : ar[m] < ar2[n]
<1> DEFINE S == {m \in LNodes : ar[m] > 0}
           c == Cardinality(S)
<1>1. /\ \A m \in LNodes : ar[m] > 0 <=> wh[m] = "sorted"
      /\ \A m \in LNodes : ar[m] <= c /\ ar[m] \in Nat
      /\ \A m, p \in LNodes : ar[m] = ar[p] /\ ar[m] > 0 => m = p
  BY DEF Arrivals
<1>2. IsFiniteSet(S) /\ c \in Nat /\ n \notin S
  <2>1. IsFiniteSet(S)
    BY FS_Subset DEF ListAssumption
  <2>2. c \in Nat
    <3> HIDE DEF S
    <3> QED BY <2>1, FS_CardinalityType
  <2>3. n \notin S
    BY <1>1
  <2> QED BY <2>1, <2>2, <2>3
<1>3. \A m \in LNodes : ar2[m] = IF m = n THEN 1 + c ELSE ar[m]
  OBVIOUS
<1>4. ar2 \in [LNodes -> Nat]
  BY <1>2
<1>5. {m \in LNodes : ar2[m] > 0} = S \cup {n}
  <2> HIDE DEF c
  <2> QED BY <1>2, <1>3
<1>6. Cardinality({m \in LNodes : ar2[m] > 0}) = c + 1
  <2>1. Cardinality(S \cup {n}) = c + 1
    <3> HIDE DEF S
    <3> QED BY <1>2, FS_AddElement
  <2> QED BY <2>1, <1>5
<1> HIDE DEF c, S
<1>7. \A m \in LNodes : wh2[m] = IF m = n THEN "sorted" ELSE wh[m]
  OBVIOUS
<1>8. \A m \in LNodes : ar2[m] > 0 <=> wh2[m] = "sorted"
  BY <1>1, <1>2, <1>3, <1>7
<1>9. \A m \in LNodes : ar2[m] <= c + 1
  BY <1>1, <1>2, <1>3
<1>10. \A m, p \in LNodes : ar2[m] = ar2[p] /\ ar2[m] > 0 => m = p
  <2> SUFFICES ASSUME NEW m \in LNodes, NEW p \in LNodes, ar2[m] = ar2[p], ar2[m] > 0 PROVE m = p
    OBVIOUS
  <2>1. CASE m = n
    BY <2>1, <1>1, <1>2, <1>3
  <2>2. CASE p = n
    BY <2>2, <1>1, <1>2, <1>3
  <2>3. CASE m # n /\ p # n
    BY <2>3, <1>1, <1>3
  <2> QED BY <2>1, <2>2, <2>3
<1>11. \A m \in LNodes \ {n} : ar[m] < ar2[n]
  BY <1>1, <1>2, <1>3
<1> QED BY <1>4, <1>6, <1>8, <1>9, <1>10, <1>11 DEF Arrivals

\* When a node goes, those that came after it move up, and keep their order.
LEMMA ArrivalsFewer ==
  ASSUME ListAssumption, NEW ar \in [LNodes -> Nat],
         NEW wh \in [LNodes -> Lists \cup {"stack", "free"}], Arrivals(ar, wh),
         NEW n \in LNodes, NEW ar2 \in [LNodes -> Nat], NEW wh2, wh2 = [wh EXCEPT ![n] = "free"],
         \A m \in LNodes : ar2[m] = IF m = n THEN 0
                                    ELSE IF ar[n] > 0 /\ ar[m] > ar[n] THEN ar[m] - 1 ELSE ar[m]
  PROVE  /\ Arrivals(ar2, wh2)
         /\ \A m, p \in LNodes \ {n} : ar[m] < ar[p] => ar2[m] < ar2[p]
<1> DEFINE S == {m \in LNodes : ar[m] > 0}
           c == Cardinality(S)
<1>1. /\ \A m \in LNodes : ar[m] > 0 <=> wh[m] = "sorted"
      /\ \A m \in LNodes : ar[m] <= c /\ ar[m] \in Nat
      /\ \A m, p \in LNodes : ar[m] = ar[p] /\ ar[m] > 0 => m = p
  BY DEF Arrivals
<1>2. IsFiniteSet(S) /\ c \in Nat
  <2>1. IsFiniteSet(S)
    BY FS_Subset DEF ListAssumption
  <2> HIDE DEF S
  <2> QED BY <2>1, FS_CardinalityType
<1>3. \A m \in LNodes : ar2[m] = IF m = n THEN 0
                                 ELSE IF ar[n] > 0 /\ ar[m] > ar[n] THEN ar[m] - 1 ELSE ar[m]
  OBVIOUS
<1>4. ar2 \in [LNodes -> Nat]
  OBVIOUS
<1>5. {m \in LNodes : ar2[m] > 0} = S \ {n}
  <2>1. \A m \in LNodes : ar2[m] > 0 <=> ar[m] > 0 /\ m # n
    BY <1>1, <1>3
  <2> QED BY <2>1
<1>6. Cardinality(S \ {n}) = IF ar[n] > 0 THEN c - 1 ELSE c
  <2>1. n \in S <=> ar[n] > 0
    OBVIOUS
  <2> HIDE DEF S
  <2> QED BY <2>1, <1>2, FS_RemoveElement
<1>7. \A m \in LNodes : wh2[m] = IF m = n THEN "free" ELSE wh[m]
  OBVIOUS
<1> HIDE DEF c, S
<1>8. \A m \in LNodes : ar2[m] > 0 <=> wh2[m] = "sorted"
  BY <1>1, <1>3, <1>7
<1>9. ASSUME NEW m \in LNodes PROVE ar2[m] <= IF ar[n] > 0 THEN c - 1 ELSE c
  <2>1. CASE m = n
    BY <2>1, <1>1, <1>2, <1>3
  <2>2. CASE m # n /\ ar[n] > 0
    <3>1. ar[m] # ar[n] /\ ar[m] <= c /\ ar[n] <= c /\ ar[m] \in Nat /\ ar[n] \in Nat
      BY <2>2, <1>1
    <3>2. ar2[m] = IF ar[m] > ar[n] THEN ar[m] - 1 ELSE ar[m]
      BY <2>2, <1>3
    <3> QED BY <3>1, <3>2, <2>2, <1>2
  <2>3. CASE m # n /\ ~(ar[n] > 0)
    BY <2>3, <1>1, <1>3
  <2> QED BY <2>1, <2>2, <2>3
<1>10. \A m, p \in LNodes \ {n} : ar[m] < ar[p] => ar2[m] < ar2[p]
  <2> SUFFICES ASSUME NEW m \in LNodes \ {n}, NEW p \in LNodes \ {n}, ar[m] < ar[p] PROVE ar2[m] < ar2[p]
    OBVIOUS
  <2>1. ar[m] \in Nat /\ ar[n] \in Nat /\ ar[p] \in Nat /\ (ar[n] > 0 => ar[m] # ar[n] \/ ar[m] = 0)
    BY <1>1
  <2>2. ar[n] > 0 => ar[m] # ar[n]
    BY <1>1
  <2>3. /\ ar2[m] = IF ar[n] > 0 /\ ar[m] > ar[n] THEN ar[m] - 1 ELSE ar[m]
        /\ ar2[p] = IF ar[n] > 0 /\ ar[p] > ar[n] THEN ar[p] - 1 ELSE ar[p]
    BY <1>3
  <2> QED BY <2>1, <2>2, <2>3
<1>11. \A m, p \in LNodes : ar2[m] = ar2[p] /\ ar2[m] > 0 => m = p
  <2> SUFFICES ASSUME NEW m \in LNodes, NEW p \in LNodes, ar2[m] = ar2[p], ar2[m] > 0 PROVE m = p
    OBVIOUS
  <2>1. m # n /\ p # n
    BY <1>3
  <2>2. ar[m] \in Nat /\ ar[p] \in Nat
    BY <1>1
  <2>3. ~(ar[m] < ar[p]) /\ ~(ar[p] < ar[m])
    <3>1. ar2[m] \in Nat /\ ar2[p] \in Nat
      BY <1>4
    <3> QED BY <3>1, <2>1, <1>10
  <2>4. ar[m] = ar[p]
    BY <2>2, <2>3
  <2>5. ar[m] > 0
    BY <2>1, <2>2, <1>1, <1>7, <1>8
  <2> QED BY <2>4, <2>5, <1>1
<1>12. Cardinality({m \in LNodes : ar2[m] > 0}) = IF ar[n] > 0 THEN c - 1 ELSE c
  BY <1>5, <1>6
<1>13. \A m \in LNodes : ar2[m] <= Cardinality({p \in LNodes : ar2[p] > 0})
  BY <1>9, <1>12
<1>14. Arrivals(ar2, wh2)
  BY <1>8, <1>11, <1>13 DEF Arrivals
<1> QED BY <1>10, <1>14

\* A node goes in behind the last one whose key is not greater.
LEMMA OrderInserted ==
  ASSUME ListAssumption, NEW ar, NEW ar2, NEW s \in Seq(Places), InKeyOrder(s, ar),
         NEW n \in LNodes, NEW q \in 1..(Len(s) + 1), \A i \in DOMAIN s : s[i] # Item(n),
         \A i \in 1..Len(s) : i < q => LKey[s[i][2]] <= LKey[n],
         \A i \in 1..Len(s) : i >= q => LKey[s[i][2]] > LKey[n],
         \A m \in LNodes \ {n} : ar2[m] = ar[m] /\ ar[m] < ar2[n]
  PROVE  InKeyOrder(InsertAt(s, q, Item(n)), ar2)
<1> DEFINE u == InsertAt(s, q, Item(n))
           m == Len(s)
<1>1. /\ m \in Nat /\ DOMAIN s = 1..m
      /\ \A i \in 1..m : s[i][2] \in LNodes \ {n} /\ LKey[s[i][2]] \in Int
  <2>1. m \in Nat /\ DOMAIN s = 1..m /\ \A i \in 1..m : s[i] \in Places
    BY LenProperties, ElementOfSeq
  <2>2. \A i \in 1..m : s[i][2] \in LNodes /\ s[i] = Item(s[i][2])
    BY <2>1, ItemsAre
  <2> QED BY <2>1, <2>2 DEF ListAssumption
<1>2. Item(n) \in Places /\ Item(n)[2] = n /\ LKey[n] \in Int
  BY ItemsAre DEF ListAssumption
<1>3. u \in Seq(Places) /\ Len(u) = m + 1
  BY <1>2, InsertAtLen
<1>4. \A i \in 1..(m + 1) : u[i] = IF i < q THEN s[i] ELSE IF i = q THEN Item(n) ELSE s[i - 1]
  BY <1>2, InsertAtItems
<1> HIDE DEF u
<1>5. DOMAIN u = 1..(m + 1)
  BY <1>1, <1>3
<1>6. \A i, j \in 1..m : i < j => \/ LKey[s[i][2]] < LKey[s[j][2]]
                                  \/ LKey[s[i][2]] = LKey[s[j][2]] /\ ar[s[i][2]] < ar[s[j][2]]
  BY <1>1 DEF InKeyOrder
<1>7. ASSUME NEW i \in 1..(m + 1), NEW j \in 1..(m + 1), i < j
      PROVE  \/ LKey[u[i][2]] < LKey[u[j][2]]
             \/ LKey[u[i][2]] = LKey[u[j][2]] /\ ar2[u[i][2]] < ar2[u[j][2]]
  <2> DEFINE posOf(k) == IF k < q THEN k ELSE k - 1
  <2>1. \A k \in 1..(m + 1) : k # q => posOf(k) \in 1..m /\ u[k] = s[posOf(k)]
    <3> SUFFICES ASSUME NEW k \in 1..(m + 1), k # q PROVE posOf(k) \in 1..m /\ u[k] = s[posOf(k)]
      OBVIOUS
    <3>1. k < q \/ k > q
      BY <1>1
    <3>2. CASE k < q
      BY <3>2, <1>1, <1>4
    <3>3. CASE k > q
      BY <3>3, <1>1, <1>4
    <3> QED BY <3>1, <3>2, <3>3
  <2>2. u[q] = Item(n)
    BY <1>1, <1>4
  <2>3. CASE i = q
    <3>1. posOf(j) \in 1..m /\ u[j] = s[posOf(j)] /\ posOf(j) >= q
      BY <2>1, <2>3, <1>1, <1>7
    <3> HIDE DEF posOf
    <3> QED BY <3>1, <2>2, <2>3, <1>2
  <2>4. CASE j = q
    <3>1. posOf(i) \in 1..m /\ u[i] = s[posOf(i)] /\ posOf(i) < q
      BY <2>1, <2>4, <1>1, <1>7
    <3> HIDE DEF posOf
    <3>2. LKey[s[posOf(i)][2]] <= LKey[n] /\ LKey[s[posOf(i)][2]] \in Int
      BY <3>1, <1>1
    <3>3. ar2[s[posOf(i)][2]] < ar2[n]
      BY <3>1, <1>1
    <3> QED BY <3>1, <3>2, <3>3, <2>2, <2>4, <1>2
  <2>5. CASE i # q /\ j # q
    <3>1. posOf(i) \in 1..m /\ u[i] = s[posOf(i)] /\ posOf(j) \in 1..m /\ u[j] = s[posOf(j)]
      <4> HIDE DEF posOf
      <4> QED BY <2>1, <2>5
    <3>2. posOf(i) < posOf(j)
      BY <2>5, <1>1, <1>7
    <3> HIDE DEF posOf
    <3>3. ar2[u[i][2]] = ar[s[posOf(i)][2]] /\ ar2[u[j][2]] = ar[s[posOf(j)][2]]
      BY <3>1, <1>1
    <3> QED BY <3>1, <3>2, <3>3, <1>6
  <2> QED BY <2>3, <2>4, <2>5
<1> QED BY <1>5, <1>7 DEF InKeyOrder, u

LEMMA OrderRemoved ==
  ASSUME NEW ar, NEW ar2, NEW s \in Seq(Places), InKeyOrder(s, ar),
         \A i, j \in DOMAIN s : s[i] = s[j] => i = j, NEW k \in 1..Len(s),
         \A m, p \in LNodes \ {s[k][2]} : ar[m] < ar[p] => ar2[m] < ar2[p]
  PROVE  InKeyOrder(RemoveAt(s, k), ar2)
<1> DEFINE u == RemoveAt(s, k)
           m == Len(s)
           n == s[k][2]
<1>1. /\ m \in Nat /\ DOMAIN s = 1..m
      /\ \A i \in 1..m : i # k => s[i][2] \in LNodes \ {n}
  <2>1. m \in Nat /\ DOMAIN s = 1..m /\ \A i \in 1..m : s[i] \in Places
    BY LenProperties, ElementOfSeq
  <2>2. \A i \in 1..m : s[i][2] \in LNodes /\ s[i] = Item(s[i][2])
    BY <2>1, ItemsAre
  <2> QED BY <2>1, <2>2
<1>2. /\ u \in Seq(Places) /\ Len(u) = m - 1
      /\ \A i \in 1..(m - 1) : u[i] = IF i < k THEN s[i] ELSE s[i + 1]
  BY RemoveAtIs
<1> HIDE DEF u, n
<1>3. DOMAIN u = 1..(m - 1)
  BY <1>1, <1>2
<1>4. ASSUME NEW i \in 1..(m - 1), NEW j \in 1..(m - 1), i < j
      PROVE  \/ LKey[u[i][2]] < LKey[u[j][2]]
             \/ LKey[u[i][2]] = LKey[u[j][2]] /\ ar2[u[i][2]] < ar2[u[j][2]]
  <2> DEFINE posOf(p) == IF p < k THEN p ELSE p + 1
  <2>1. \A p \in 1..(m - 1) : posOf(p) \in 1..m /\ u[p] = s[posOf(p)] /\ posOf(p) # k
    BY SMTT(30), <1>1, <1>2
  <2>2. posOf(i) < posOf(j)
    BY <1>1, <1>4
  <2> HIDE DEF posOf
  <2>3. \/ LKey[s[posOf(i)][2]] < LKey[s[posOf(j)][2]]
        \/ LKey[s[posOf(i)][2]] = LKey[s[posOf(j)][2]] /\ ar[s[posOf(i)][2]] < ar[s[posOf(j)][2]]
    BY <2>1, <2>2, <1>1 DEF InKeyOrder
  <2>4. s[posOf(i)][2] \in LNodes \ {n} /\ s[posOf(j)][2] \in LNodes \ {n}
    BY <2>1, <1>1
  <2> QED BY <2>1, <2>3, <2>4 DEF n
<1> QED BY <1>3, <1>4 DEF InKeyOrder, u

------------------------------------------------------------------------------
(* Lists: the pointer assignments *)

LEMMA InsertAfterIs ==
  ASSUME next \in [Linkable -> Cells], prev \in [Linkable -> Cells], NEW at \in Linkable,
         NEW x \in Linkable, NEW b \in Linkable, at # x, b # x, next[at] = b, InsertAfter(at, x)
  PROVE  /\ next' \in [Linkable -> Cells] /\ prev' \in [Linkable -> Cells]
         /\ \A y \in Linkable : next'[y] = IF y = x THEN b ELSE IF y = at THEN x ELSE next[y]
         /\ \A y \in Linkable : prev'[y] = IF y = x THEN at ELSE IF y = b THEN x ELSE prev[y]
<1> DEFINE nx2 == [[next EXCEPT ![x] = next[at]] EXCEPT ![at] = x]
<1>1. Linkable \subseteq Cells
  BY CellsApart
<1>2. nx2[x] = b
  OBVIOUS
<1>3. next' = nx2
  BY DEF InsertAfter
<1>4. prev' = [[prev EXCEPT ![x] = at] EXCEPT ![b] = x]
  BY <1>2 DEF InsertAfter
<1> QED BY <1>1, <1>3, <1>4

LEMMA InsertBeforeIs ==
  ASSUME next \in [Linkable -> Cells], prev \in [Linkable -> Cells], NEW at \in Linkable,
         NEW x \in Linkable, NEW b \in Linkable, at # x, b # x, prev[at] = b, InsertBefore(at, x)
  PROVE  /\ next' \in [Linkable -> Cells] /\ prev' \in [Linkable -> Cells]
         /\ \A y \in Linkable : next'[y] = IF y = x THEN at ELSE IF y = b THEN x ELSE next[y]
         /\ \A y \in Linkable : prev'[y] = IF y = x THEN b ELSE IF y = at THEN x ELSE prev[y]
<1> DEFINE pv2 == [[prev EXCEPT ![x] = prev[at]] EXCEPT ![at] = x]
<1>1. Linkable \subseteq Cells
  BY CellsApart
<1>2. pv2[x] = b
  OBVIOUS
<1>3. prev' = pv2
  BY DEF InsertBefore
<1>4. next' = [[next EXCEPT ![x] = at] EXCEPT ![b] = x]
  BY <1>2 DEF InsertBefore
<1> QED BY <1>1, <1>3, <1>4

LEMMA UnlinkIs ==
  ASSUME next \in [Linkable -> Cells], prev \in [Linkable -> Cells], NEW x \in Linkable,
         NEW a \in Linkable, NEW b \in Linkable, b # x, prev[x] = a, next[x] = b, UnlinkNode(x)
  PROVE  /\ next' \in [Linkable -> Cells] /\ prev' \in [Linkable -> Cells]
         /\ \A y \in Linkable : next'[y] = IF y = a THEN b ELSE next[y]
         /\ \A y \in Linkable : prev'[y] = IF y = b THEN a ELSE prev[y]
<1>1. Linkable \subseteq Cells
  BY CellsApart
<1>2. prev' = [prev EXCEPT ![b] = a]
  BY DEF UnlinkNode
<1>3. next' = [next EXCEPT ![a] = b]
  BY DEF UnlinkNode
<1> QED BY <1>1, <1>2, <1>3

------------------------------------------------------------------------------
(* Lists: steps *)

\* What stands is what the traversals return, before a step and after it.
LEMMA WalksStand ==
  ASSUME ListAssumption, ListTypes, NEW qs, NEW st, Stands(qs, st)
  PROVE  /\ \A l \in Lists : Forward(l) = qs[l] /\ Backward(l) = Reverse(qs[l])
         /\ StackWalk = st
<1>1. ASSUME NEW l \in Lists PROVE Forward(l) = qs[l] /\ Backward(l) = Reverse(qs[l])
  <2>1. Forward(l) = Traversal(NextStep(next, l)) /\ Backward(l) = Traversal(PrevStep(prev, l))
    BY DEF Forward, Backward, radListGetNext, radListGetPrevious, radListGetFirst, radListGetLast,
           NextStep, PrevStep
  <2>2. Contents(qs[l], where, l) /\ Spells(next, prev, l, qs[l])
    BY DEF Stands
  <2>3. next \in [Linkable -> Cells] /\ prev \in [Linkable -> Cells]
    BY DEF ListTypes
  <2> QED BY <2>1, <2>2, <2>3, WalksAre
<1>2. StackWalk = st
  <2>1. StackWalk = Traversal(StackStep(stackHead, stackNext))
    BY DEF StackWalk, StackStep
  <2>2. Contents(st, where, "stack") /\ StackSpells(stackHead, stackNext, st)
    BY DEF Stands
  <2>3. stackHead \in Places \cup {NullNode} /\ stackNext \in [LNodes -> Places \cup {NullNode}]
    BY DEF ListTypes
  <2> QED BY <2>1, <2>2, <2>3, StackWalkIs
<1> QED BY <1>1, <1>2

LEMMA WalksStandAfter ==
  ASSUME ListAssumption, ListTypes', NEW qs, NEW st, Stands(qs, st)'
  PROVE  (\A l \in Lists : Forward(l)' = qs[l] /\ Backward(l)' = Reverse(qs[l])) /\ StackWalk' = st
<1>1. ASSUME NEW l \in Lists PROVE Forward(l)' = qs[l] /\ Backward(l)' = Reverse(qs[l])
  <2>1. Forward(l)' = Traversal(NextStep(next', l)) /\ Backward(l)' = Traversal(PrevStep(prev', l))
    BY DEF Forward, Backward, radListGetNext, radListGetPrevious, radListGetFirst, radListGetLast,
           NextStep, PrevStep
  <2>2. Contents(qs[l], where', l) /\ Spells(next', prev', l, qs[l])
    BY DEF Stands
  <2>3. next' \in [Linkable -> Cells] /\ prev' \in [Linkable -> Cells]
    BY DEF ListTypes
  <2> QED BY <2>1, <2>2, <2>3, WalksAre
<1>2. StackWalk' = st
  <2>1. StackWalk' = Traversal(StackStep(stackHead', stackNext'))
    BY DEF StackWalk, StackStep
  <2>2. Contents(st, where', "stack") /\ StackSpells(stackHead', stackNext', st)
    BY DEF Stands
  <2>3. stackHead' \in Places \cup {NullNode} /\ stackNext' \in [LNodes -> Places \cup {NullNode}]
    BY DEF ListTypes
  <2> QED BY <2>1, <2>2, <2>3, StackWalkIs
<1> QED BY <1>1, <1>2

\* A node enters a list in front of its q-th cell.
LEMMA EnterStep ==
  ASSUME ListAssumption, ListTypes, NEW qs \in [Lists -> Seq(Places)], NEW st, Stands(qs, st),
         NEW l \in Lists, NEW n \in LNodes, NEW q \in 1..(Len(qs[l]) + 1), Entered(l, n),
         next' \in [Linkable -> Cells], prev' \in [Linkable -> Cells],
         \A x \in Linkable : next'[x] = IF x = Item(n) THEN At(l, qs[l], q)
                                        ELSE IF x = At(l, qs[l], q - 1) THEN Item(n) ELSE next[x],
         \A x \in Linkable : prev'[x] = IF x = Item(n) THEN At(l, qs[l], q - 1)
                                        ELSE IF x = At(l, qs[l], q) THEN Item(n) ELSE prev[x],
         l = "sorted" =>
            \A i \in 1..Len(qs[l]) : /\ i < q => LKey[qs[l][i][2]] <= LKey[n]
                                     /\ i >= q => LKey[qs[l][i][2]] > LKey[n],
         NEW qs2, qs2 = [qs EXCEPT ![l] = InsertAt(qs[l], q, Item(n))]
  PROVE  ListTypes' /\ Stands(qs2, st)' /\ qs2 \in [Lists -> Seq(Places)]
<1> DEFINE s == qs[l]
<1>1. /\ next \in [Linkable -> Cells] /\ prev \in [Linkable -> Cells]
      /\ noNodes \in [Lists -> Int] /\ where \in [LNodes -> Lists \cup {"stack", "free"}]
      /\ arrival \in [LNodes -> Nat]
  BY DEF ListTypes
<1>2. \A r \in Lists : /\ Contents(qs[r], where, r) /\ Spells(next, prev, r, qs[r])
                       /\ noNodes[r] = Len(qs[r]) /\ qs[r] \in Seq(Places) /\ Len(qs[r]) \in Nat
  BY LenProperties DEF Stands
<1>3. /\ Contents(st, where, "stack") /\ StackSpells(stackHead, stackNext, st) /\ stackCount = Len(st)
      /\ Arrivals(arrival, where) /\ InKeyOrder(qs["sorted"], arrival)
  BY DEF Stands
<1>4. /\ where[n] = "free" /\ where' = [where EXCEPT ![n] = l]
      /\ noNodes' = [noNodes EXCEPT ![l] = @ + 1]
      /\ arrival' = [arrival EXCEPT ![n] =
                       IF l = "sorted" THEN 1 + Cardinality({m \in LNodes : arrival[m] > 0}) ELSE 0]
      /\ stackNext' = stackNext /\ stackHead' = stackHead /\ stackCount' = stackCount
  BY DEF Entered
<1>5. l # "free" /\ l # "stack" /\ "sorted" \in Lists /\ Item(n) \in Places
  BY ItemsAre DEF Lists
<1>6. s \in Seq(Places) /\ \A i \in DOMAIN s : s[i] # Item(n)
  <2>1. \A i \in DOMAIN s : s[i] # Item(n)
    BY <1>2, <1>4, <1>5 DEF Contents
  <2> QED BY <2>1, <1>2
<1>7. \A i, j \in DOMAIN s : s[i] = s[j] => i = j
  BY <1>2 DEF Contents
<1>8. InsertAt(s, q, Item(n)) \in Seq(Places) /\ Len(InsertAt(s, q, Item(n))) = Len(s) + 1
  BY <1>5, <1>6, InsertAtLen
<1>9. /\ qs2 \in [Lists -> Seq(Places)] /\ qs2[l] = InsertAt(s, q, Item(n))
      /\ \A r \in Lists \ {l} : qs2[r] = qs[r]
  BY <1>8
<1>10. Contents(qs2[l], where', l)
  <2>1. where[n] # l
    BY <1>4, <1>5
  <2> QED BY <2>1, <1>1, <1>2, <1>4, <1>9, ContentsInserted
<1>11. Spells(next', prev', l, qs2[l])
  <2>1. Spells(next, prev, l, s) /\ l \in Lists
    BY <1>2
  <2>2. /\ \A x \in Linkable : next'[x] = IF x = Item(n) THEN At(l, s, q)
                                        ELSE IF x = At(l, s, q - 1) THEN Item(n) ELSE next[x]
        /\ \A x \in Linkable : prev'[x] = IF x = Item(n) THEN At(l, s, q - 1)
                                        ELSE IF x = At(l, s, q) THEN Item(n) ELSE prev[x]
        /\ q \in 1..(Len(s) + 1)
    OBVIOUS
  <2>3. next \in [Linkable -> Cells] /\ prev \in [Linkable -> Cells] /\ Item(n) \in Places
    BY <1>1, <1>5
  <2>4. Spells(next', prev', l, InsertAt(s, q, Item(n)))
    <3> HIDE DEF s
    <3> QED BY ONLY <2>1, <2>2, <2>3, <1>6, <1>7, SpellsInserted
  <2> QED BY <2>4, <1>9
<1>12. ASSUME NEW r \in Lists, r # l
       PROVE  Contents(qs2[r], where', r) /\ Spells(next', prev', r, qs2[r])
  <2>1. Contents(qs2[r], where', r)
    <3>1. \A m \in LNodes : where'[m] = r <=> where[m] = r
      <4>1. r # "free"
        BY DEF Lists
      <4> QED BY <4>1, <1>1, <1>4, <1>12
    <3> QED BY <3>1, <1>2, <1>9, <1>12, ContentsKept
  <2>2. \A i \in 0..(Len(s) + 1), j \in 0..(Len(qs[r]) + 1) : At(l, s, i) # At(r, qs[r], j)
    <3>1. \A i \in DOMAIN s, j \in DOMAIN qs[r] : s[i] # qs[r][j]
      <4>1. \A i \in 1..Len(s) : where[s[i][2]] = l
        BY <1>2, ContentsAre
      <4>2. \A j \in 1..Len(qs[r]) : where[qs[r][j][2]] = r
        BY <1>2, ContentsAre
      <4>3. DOMAIN s = 1..Len(s) /\ DOMAIN qs[r] = 1..Len(qs[r])
        BY <1>2, <1>6
      <4> QED BY <4>1, <4>2, <4>3, <1>12
    <3> QED BY SMTT(30), <3>1, <1>2, <1>6, <1>12, AtApart
  <2>3. \A j \in 0..(Len(qs[r]) + 1) : At(r, qs[r], j) # Item(n) /\ At(r, qs[r], j) \in Linkable
    <3>1. /\ DOMAIN qs[r] = 1..Len(qs[r]) /\ At(r, qs[r], 0) = FirstOf(r)
          /\ At(r, qs[r], Len(qs[r]) + 1) = LastOf(r)
          /\ \A j \in 1..Len(qs[r]) : At(r, qs[r], j) = qs[r][j]
          /\ \A j \in 0..(Len(qs[r]) + 1) : At(r, qs[r], j) \in Linkable
      BY <1>2, AtIs
    <3>2. FirstOf(r) # Item(n) /\ LastOf(r) # Item(n)
      BY <1>5, CellsApart
    <3>3. \A j \in 1..Len(qs[r]) : qs[r][j] # Item(n)
      <4>1. \A j \in 1..Len(qs[r]) : where[qs[r][j][2]] = r
        BY <1>2, ContentsAre
      <4>2. Item(n)[2] = n /\ r # "free"
        BY ItemsAre DEF Lists
      <4> QED BY <4>1, <4>2, <1>4
    <3>4. \A j \in 0..(Len(qs[r]) + 1) : j = 0 \/ j = Len(qs[r]) + 1 \/ j \in 1..Len(qs[r])
      BY <1>2
    <3> QED BY SMTT(30), <3>1, <3>2, <3>3, <3>4
  <2>4. q \in 0..(Len(s) + 1) /\ q - 1 \in 0..(Len(s) + 1)
    BY <1>2
  <2>5. \A j \in 0..(Len(qs[r]) + 1) : /\ next'[At(r, qs[r], j)] = next[At(r, qs[r], j)]
                                       /\ prev'[At(r, qs[r], j)] = prev[At(r, qs[r], j)]
    BY <2>2, <2>3, <2>4
  <2>6. Spells(next, prev, r, qs[r]) /\ Len(qs[r]) \in Nat /\ qs2[r] = qs[r]
    BY <1>2, <1>9, <1>12
  <2>7. Spells(next', prev', r, qs[r])
    BY ONLY <2>5, <2>6, SpellsKept
  <2> QED BY <2>1, <2>6, <2>7
<1>13. \A r \in Lists : noNodes'[r] = Len(qs2[r])
  BY <1>1, <1>2, <1>4, <1>8, <1>9
<1>14. Contents(st, where', "stack")
  <2>1. \A m \in LNodes : where'[m] = "stack" <=> where[m] = "stack"
    BY <1>1, <1>4, <1>5
  <2> QED BY <2>1, <1>3, ContentsKept
<1>15. /\ arrival' \in [LNodes -> Nat] /\ Arrivals(arrival', where')
       /\ InKeyOrder(qs2["sorted"], arrival')
  <2>1. CASE l = "sorted"
    <3>1. /\ arrival' \in [LNodes -> Nat] /\ Arrivals(arrival', where')
          /\ \A m \in LNodes \ {n} : arrival[m] < arrival'[n]
      <4>1. /\ where' = [where EXCEPT ![n] = "sorted"]
            /\ arrival' = [arrival EXCEPT ![n] = 1 + Cardinality({m \in LNodes : arrival[m] > 0})]
        BY <2>1, <1>4
      <4>2. /\ arrival \in [LNodes -> Nat] /\ where \in [LNodes -> Lists \cup {"stack", "free"}]
            /\ Arrivals(arrival, where) /\ where[n] = "free"
        BY <1>1, <1>3, <1>4
      <4> QED BY ONLY ListAssumption, n \in LNodes, <4>1, <4>2, ArrivalsMore
    <3>2. \A m \in LNodes \ {n} : arrival'[m] = arrival[m]
      BY <1>1, <1>4
    <3>3. InKeyOrder(s, arrival) /\ qs2["sorted"] = InsertAt(s, q, Item(n))
      BY <2>1, <1>3, <1>9
    <3>4. /\ \A i \in 1..Len(s) : i < q => LKey[s[i][2]] <= LKey[n]
          /\ \A i \in 1..Len(s) : i >= q => LKey[s[i][2]] > LKey[n]
      BY <2>1
    <3>5. InKeyOrder(InsertAt(s, q, Item(n)), arrival')
      BY <3>1, <3>2, <3>3, <3>4, <1>6, OrderInserted
    <3> QED BY <3>1, <3>3, <3>5
  <2>2. CASE l # "sorted"
    <3>1. arrival[n] = 0
      BY <1>1, <1>3, <1>4 DEF Arrivals
    <3>2. arrival' = arrival
      BY <3>1, <2>2, <1>1, <1>4
    <3>3. qs2["sorted"] = qs["sorted"]
      BY <2>2, <1>5, <1>9
    <3>4. \A m \in LNodes : where'[m] = "sorted" <=> where[m] = "sorted"
      BY <2>2, <1>1, <1>4
    <3> QED BY <3>2, <3>3, <3>4, <1>1, <1>3 DEF Arrivals
  <2> QED BY <2>1, <2>2
<1>16. ListTypes'
  <2>1. noNodes' \in [Lists -> Int] /\ where' \in [LNodes -> Lists \cup {"stack", "free"}]
    BY <1>1, <1>4
  <2> QED BY <2>1, <1>4, <1>15 DEF ListTypes
<1>17. Stands(qs2, st)'
  <2>1. \A r \in Lists : Contents(qs2[r], where', r) /\ Spells(next', prev', r, qs2[r])
                         /\ noNodes'[r] = Len(qs2[r])
    BY <1>10, <1>11, <1>12, <1>13
  <2> QED BY <2>1, <1>3, <1>4, <1>14, <1>15 DEF Stands
<1> QED BY <1>9, <1>16, <1>17

\* The k-th node of a list leaves it.
LEMMA LeaveStep ==
  ASSUME ListAssumption, ListTypes, NEW qs \in [Lists -> Seq(Places)], NEW st, Stands(qs, st),
         NEW l \in Lists, NEW n \in LNodes, NEW k \in 1..Len(qs[l]), qs[l][k] = Item(n), Left(l, n),
         next' \in [Linkable -> Cells], prev' \in [Linkable -> Cells],
         \A x \in Linkable :
            next'[x] = IF x = At(l, qs[l], k - 1) THEN At(l, qs[l], k + 1) ELSE next[x],
         \A x \in Linkable :
            prev'[x] = IF x = At(l, qs[l], k + 1) THEN At(l, qs[l], k - 1) ELSE prev[x],
         NEW qs2, qs2 = [qs EXCEPT ![l] = RemoveAt(qs[l], k)]
  PROVE  ListTypes' /\ Stands(qs2, st)' /\ qs2 \in [Lists -> Seq(Places)]
<1> DEFINE s == qs[l]
<1>1. /\ next \in [Linkable -> Cells] /\ prev \in [Linkable -> Cells]
      /\ noNodes \in [Lists -> Int] /\ where \in [LNodes -> Lists \cup {"stack", "free"}]
      /\ arrival \in [LNodes -> Nat]
  BY DEF ListTypes
<1>2. \A r \in Lists : /\ Contents(qs[r], where, r) /\ Spells(next, prev, r, qs[r])
                       /\ noNodes[r] = Len(qs[r]) /\ qs[r] \in Seq(Places) /\ Len(qs[r]) \in Nat
  BY LenProperties DEF Stands
<1>3. /\ Contents(st, where, "stack") /\ StackSpells(stackHead, stackNext, st) /\ stackCount = Len(st)
      /\ Arrivals(arrival, where) /\ InKeyOrder(qs["sorted"], arrival)
  BY DEF Stands
<1>4. /\ where' = [where EXCEPT ![n] = "free"] /\ noNodes' = [noNodes EXCEPT ![l] = @ - 1]
      /\ arrival' = [m \in LNodes |-> IF m = n THEN 0
                                      ELSE IF arrival[n] > 0 /\ arrival[m] > arrival[n]
                                           THEN arrival[m] - 1 ELSE arrival[m]]
      /\ stackNext' = stackNext /\ stackHead' = stackHead /\ stackCount' = stackCount
  BY DEF Left
<1>5. l # "free" /\ l # "stack" /\ "sorted" \in Lists /\ Item(n)[2] = n
  BY ItemsAre DEF Lists
<1>6. s \in Seq(Places) /\ DOMAIN s = 1..Len(s) /\ where[n] = l
  BY <1>2, <1>5, ContentsAre
<1>7. \A i, j \in DOMAIN s : s[i] = s[j] => i = j
  BY SMTT(60), <1>2 DEF Contents
<1>8. RemoveAt(s, k) \in Seq(Places) /\ Len(RemoveAt(s, k)) = Len(s) - 1
  BY <1>6, RemoveAtIs
<1>9. /\ qs2 \in [Lists -> Seq(Places)] /\ qs2[l] = RemoveAt(s, k)
      /\ \A r \in Lists \ {l} : qs2[r] = qs[r]
  BY <1>8
<1>10. Contents(qs2[l], where', l)
  BY <1>1, <1>2, <1>4, <1>5, <1>9, ContentsRemoved
<1>11. Spells(next', prev', l, qs2[l])
  <2>1. Spells(next, prev, l, s) /\ l \in Lists
    BY <1>2
  <2>2. /\ \A x \in Linkable :
              next'[x] = IF x = At(l, s, k - 1) THEN At(l, s, k + 1) ELSE next[x]
        /\ \A x \in Linkable :
              prev'[x] = IF x = At(l, s, k + 1) THEN At(l, s, k - 1) ELSE prev[x]
        /\ k \in 1..Len(s)
    OBVIOUS
  <2>3. Spells(next', prev', l, RemoveAt(s, k))
    <3> HIDE DEF s
    <3>1. s \in Seq(Places) /\ \A i, j \in DOMAIN s : s[i] = s[j] => i = j
      BY <1>6, <1>7
    <3>2. next \in [Linkable -> Cells] /\ prev \in [Linkable -> Cells]
      BY <1>1
    <3> QED BY ONLY <2>1, <2>2, <3>1, <3>2, SpellsRemoved, Zenon
  <2> QED BY <2>3, <1>9
<1>12. ASSUME NEW r \in Lists, r # l
       PROVE  Contents(qs2[r], where', r) /\ Spells(next', prev', r, qs2[r])
  <2>1. Contents(qs2[r], where', r)
    <3>1. \A m \in LNodes : where'[m] = r <=> where[m] = r
      <4>1. r # "free"
        BY DEF Lists
      <4> QED BY <4>1, <1>1, <1>4, <1>6, <1>12
    <3> QED BY <3>1, <1>2, <1>9, <1>12, ContentsKept
  <2>2. \A i \in 0..(Len(s) + 1), j \in 0..(Len(qs[r]) + 1) : At(l, s, i) # At(r, qs[r], j)
    <3>1. \A i \in DOMAIN s, j \in DOMAIN qs[r] : s[i] # qs[r][j]
      <4>1. \A i \in 1..Len(s) : where[s[i][2]] = l
        BY <1>2, ContentsAre
      <4>2. \A j \in 1..Len(qs[r]) : where[qs[r][j][2]] = r
        BY <1>2, ContentsAre
      <4>3. DOMAIN s = 1..Len(s) /\ DOMAIN qs[r] = 1..Len(qs[r])
        BY <1>2, <1>6
      <4> QED BY <4>1, <4>2, <4>3, <1>12
    <3> QED BY ZenonT(60), <3>1, <1>2, <1>6, <1>12, AtApart
  <2>3. \A j \in 0..(Len(qs[r]) + 1) : At(r, qs[r], j) \in Linkable
    BY <1>2, AtIs
  <2>4. k + 1 \in 0..(Len(s) + 1) /\ k - 1 \in 0..(Len(s) + 1)
    BY <1>2
  <2>5. \A j \in 0..(Len(qs[r]) + 1) : /\ next'[At(r, qs[r], j)] = next[At(r, qs[r], j)]
                                       /\ prev'[At(r, qs[r], j)] = prev[At(r, qs[r], j)]
    BY <2>2, <2>3, <2>4
  <2>6. Spells(next, prev, r, qs[r]) /\ Len(qs[r]) \in Nat /\ qs2[r] = qs[r]
    BY <1>2, <1>9, <1>12
  <2>7. Spells(next', prev', r, qs[r])
    BY ONLY <2>5, <2>6, SpellsKept
  <2> QED BY <2>1, <2>6, <2>7
<1>13. \A r \in Lists : noNodes'[r] = Len(qs2[r])
  BY <1>1, <1>2, <1>4, <1>8, <1>9
<1>14. Contents(st, where', "stack")
  <2>1. \A m \in LNodes : where'[m] = "stack" <=> where[m] = "stack"
    BY <1>1, <1>4, <1>5, <1>6
  <2> QED BY <2>1, <1>3, ContentsKept
<1>15. /\ arrival' \in [LNodes -> Nat] /\ Arrivals(arrival', where')
       /\ \A m, p \in LNodes \ {n} : arrival[m] < arrival[p] => arrival'[m] < arrival'[p]
  <2>1. Arrivals(arrival, where)
    BY <1>3
  <2>2. where' = [where EXCEPT ![n] = "free"]
    BY <1>4
  <2>3. \A m \in LNodes : arrival'[m] = IF m = n THEN 0
                                        ELSE IF arrival[n] > 0 /\ arrival[m] > arrival[n]
                                             THEN arrival[m] - 1 ELSE arrival[m]
    BY <1>4
  <2>4. arrival' \in [LNodes -> Nat]
    <3>1. \A m \in LNodes : arrival'[m] \in Nat
      BY <2>3, <1>1
    <3> QED BY <3>1, <1>4
  <2>5. Arrivals(arrival', where')
    BY ONLY ListAssumption, n \in LNodes, <1>1, <2>1, <2>2, <2>3, <2>4, ArrivalsFewer
  <2>6. \A m, p \in LNodes \ {n} : arrival[m] < arrival[p] => arrival'[m] < arrival'[p]
    <3> SUFFICES ASSUME NEW m \in LNodes \ {n}, NEW p \in LNodes \ {n}, arrival[m] < arrival[p]
                 PROVE  arrival'[m] < arrival'[p]
      OBVIOUS
    <3> QED BY ONLY ZenonT(60), ListAssumption, n \in LNodes, m \in LNodes \ {n}, p \in LNodes \ {n},
                    arrival[m] < arrival[p], <1>1, <2>1, <2>2, <2>3, <2>4, ArrivalsFewer
  <2> QED BY <2>4, <2>5, <2>6
<1>16. InKeyOrder(qs2["sorted"], arrival')
  <2>1. CASE l = "sorted"
    <3>1. s[k][2] = n /\ InKeyOrder(s, arrival) /\ qs2["sorted"] = RemoveAt(s, k)
      BY <2>1, <1>3, <1>5, <1>9
    <3>2. \A m, p \in LNodes \ {s[k][2]} : arrival[m] < arrival[p] => arrival'[m] < arrival'[p]
      BY <3>1, <1>15
    <3>3. InKeyOrder(RemoveAt(s, k), arrival')
      BY ONLY k \in 1..Len(s), <3>1, <3>2, <1>6, <1>7, OrderRemoved
    <3> QED BY <3>1, <3>3
  <2>2. CASE l # "sorted"
    <3>1. arrival[n] = 0
      BY <2>2, <1>1, <1>3, <1>6 DEF Arrivals
    <3>2. arrival' = arrival
      BY <3>1, <1>1, <1>4
    <3>3. qs2["sorted"] = qs["sorted"]
      BY <2>2, <1>5, <1>9
    <3> QED BY <3>2, <3>3, <1>3
  <2> QED BY <2>1, <2>2
<1>17. ListTypes'
  <2>1. noNodes' \in [Lists -> Int] /\ where' \in [LNodes -> Lists \cup {"stack", "free"}]
    BY <1>1, <1>4
  <2> QED BY <2>1, <1>4, <1>15 DEF ListTypes
<1>18. Stands(qs2, st)'
  <2>1. \A r \in Lists : Contents(qs2[r], where', r) /\ Spells(next', prev', r, qs2[r])
                         /\ noNodes'[r] = Len(qs2[r])
    BY <1>10, <1>11, <1>12, <1>13
  <2> QED BY <2>1, <1>3, <1>4, <1>14, <1>15, <1>16 DEF Stands
<1> QED BY <1>9, <1>17, <1>18

\* Reset leaves the plain list empty.
LEMMA ResetStep ==
  ASSUME ListAssumption, ListTypes, NEW qs \in [Lists -> Seq(Places)], NEW st, Stands(qs, st),
         radListReset, NEW qs2, qs2 = [qs EXCEPT !["plain"] = <<>>]
  PROVE  ListTypes' /\ Stands(qs2, st)' /\ qs2 \in [Lists -> Seq(Places)]
<1> DEFINE e == << >>
<1>1. /\ next \in [Linkable -> Cells] /\ prev \in [Linkable -> Cells]
      /\ noNodes \in [Lists -> Int] /\ where \in [LNodes -> Lists \cup {"stack", "free"}]
      /\ arrival \in [LNodes -> Nat]
  BY DEF ListTypes
<1>2. \A r \in Lists : /\ Contents(qs[r], where, r) /\ Spells(next, prev, r, qs[r])
                       /\ noNodes[r] = Len(qs[r]) /\ qs[r] \in Seq(Places) /\ Len(qs[r]) \in Nat
  BY LenProperties DEF Stands
<1>3. /\ Contents(st, where, "stack") /\ StackSpells(stackHead, stackNext, st) /\ stackCount = Len(st)
      /\ Arrivals(arrival, where) /\ InKeyOrder(qs["sorted"], arrival)
  BY DEF Stands
<1>4. /\ next' = [next EXCEPT ![FirstOf("plain")] = LastOf("plain"), ![LastOf("plain")] = NullNode]
      /\ prev' = [prev EXCEPT ![FirstOf("plain")] = NullNode, ![LastOf("plain")] = FirstOf("plain")]
      /\ noNodes' = [noNodes EXCEPT !["plain"] = 0]
      /\ where' = [m \in LNodes |-> IF where[m] = "plain" THEN "free" ELSE where[m]]
      /\ stackNext' = stackNext /\ stackHead' = stackHead /\ stackCount' = stackCount
      /\ arrival' = arrival
  BY DEF radListReset
<1>5. "plain" \in Lists /\ "sorted" \in Lists /\ Lists = {"plain", "sorted"}
  BY DEF Lists
<1>6. /\ FirstOf("plain") \in Linkable /\ LastOf("plain") \in Linkable /\ NullNode \in Cells
      /\ FirstOf("plain") # LastOf("plain") /\ Linkable \subseteq Cells
  BY <1>5, CellsApart DEF Cells
<1>7. e \in Seq(Places) /\ Len(e) = 0 /\ DOMAIN e = {}
  OBVIOUS
<1> HIDE DEF e
<1>8. qs2 \in [Lists -> Seq(Places)] /\ qs2["plain"] = e /\ qs2["sorted"] = qs["sorted"]
  BY <1>5, <1>7 DEF e
<1>9. /\ At("plain", e, 0) = FirstOf("plain") /\ At("plain", e, 0 + 1) = LastOf("plain")
  BY <1>5, <1>7, AtIs
<1>10. /\ next' \in [Linkable -> Cells] /\ prev' \in [Linkable -> Cells]
       /\ next'[FirstOf("plain")] = LastOf("plain") /\ prev'[LastOf("plain")] = FirstOf("plain")
  BY <1>1, <1>4, <1>6
<1>11. Contents(e, where', "plain") /\ Spells(next', prev', "plain", e)
  <2>1. \A m \in LNodes : where'[m] # "plain"
    BY <1>4
  <2>2. Contents(e, where', "plain")
    BY <2>1, <1>7 DEF Contents
  <2>3. Spells(next', prev', "plain", e)
    <3>1. 0..Len(e) = {0}
      BY <1>7
    <3> QED BY <3>1, <1>9, <1>10 DEF Spells
  <2> QED BY <2>2, <2>3
<1>12. Contents(qs["sorted"], where', "sorted") /\ Spells(next', prev', "sorted", qs["sorted"])
  <2> DEFINE u == qs["sorted"]
  <2>1. \A m \in LNodes : where'[m] = "sorted" <=> where[m] = "sorted"
    BY <1>4
  <2>2. u \in Seq(Places) /\ Len(u) \in Nat /\ Contents(u, where, "sorted")
        /\ Spells(next, prev, "sorted", u)
    BY <1>2, <1>5
  <2> HIDE DEF u
  <2>3. Contents(u, where', "sorted")
    BY <2>1, <2>2, ContentsKept
  <2>4. \A i \in 0..(Len(e) + 1), j \in 0..(Len(u) + 1) : At("plain", e, i) # At("sorted", u, j)
    <3>1. \A i \in DOMAIN e, j \in DOMAIN u : e[i] # u[j]
      BY <1>7
    <3>2. "plain" # "sorted"
      OBVIOUS
    <3> QED BY ZenonT(60), <3>1, <3>2, <2>2, <1>5, <1>7, AtApart
  <2>5. \A j \in 0..(Len(u) + 1) : /\ At("sorted", u, j) \in Linkable
                                   /\ At("sorted", u, j) # FirstOf("plain")
                                   /\ At("sorted", u, j) # LastOf("plain")
    <3>1. 0 \in 0..(Len(e) + 1) /\ 0 + 1 \in 0..(Len(e) + 1)
      BY <1>7
    <3>2. \A j \in 0..(Len(u) + 1) : At("sorted", u, j) \in Linkable
      BY <2>2, <1>5, AtIs
    <3> QED BY <3>1, <3>2, <2>4, <1>9
  <2>6. \A j \in 0..(Len(u) + 1) : /\ next'[At("sorted", u, j)] = next[At("sorted", u, j)]
                                   /\ prev'[At("sorted", u, j)] = prev[At("sorted", u, j)]
    BY <2>5, <1>1, <1>4
  <2>7. Spells(next', prev', "sorted", u)
    BY ONLY <2>2, <2>6, SpellsKept
  <2> QED BY <2>3, <2>7 DEF u
<1>13. \A r \in Lists : /\ Contents(qs2[r], where', r) /\ Spells(next', prev', r, qs2[r])
                        /\ noNodes'[r] = Len(qs2[r])
  <2>1. noNodes'["plain"] = 0 /\ noNodes'["sorted"] = Len(qs["sorted"])
    BY <1>1, <1>2, <1>4, <1>5
  <2> QED BY <2>1, <1>5, <1>7, <1>8, <1>11, <1>12
<1>14. Contents(st, where', "stack")
  <2>1. \A m \in LNodes : where'[m] = "stack" <=> where[m] = "stack"
    BY <1>4
  <2> QED BY <2>1, <1>3, ContentsKept
<1>15. Arrivals(arrival', where')
  <2>1. \A m \in LNodes : where'[m] = "sorted" <=> where[m] = "sorted"
    BY <1>4
  <2> QED BY <2>1, <1>3, <1>4 DEF Arrivals
<1>16. ListTypes'
  <2>1. noNodes' \in [Lists -> Int]
    <3>1. noNodes' = [noNodes EXCEPT !["plain"] = 0] /\ noNodes \in [Lists -> Int]
      BY <1>1, <1>4
    <3>2. noNodes' = [r \in Lists |-> IF r = "plain" THEN 0 ELSE noNodes[r]]
      BY ONLY <3>1
    <3>3. \A r \in Lists : (IF r = "plain" THEN 0 ELSE noNodes[r]) \in Int
      BY ONLY <3>1
    <3> QED BY ONLY <3>2, <3>3
  <2>2. where' \in [LNodes -> Lists \cup {"stack", "free"}]
    <3>1. \A m \in LNodes : where[m] \in Lists \cup {"stack", "free"}
      BY <1>1
    <3> QED BY <3>1, <1>4
  <2>3. /\ stackNext' \in [LNodes -> Places \cup {NullNode}] /\ stackHead' \in Places \cup {NullNode}
        /\ stackCount' \in Int /\ arrival' \in [LNodes -> Nat]
    BY <1>4 DEF ListTypes
  <2> QED BY <2>1, <2>2, <2>3, <1>10 DEF ListTypes
<1>17. Stands(qs2, st)'
  BY <1>3, <1>4, <1>8, <1>13, <1>14, <1>15 DEF Stands
<1> QED BY <1>8, <1>16, <1>17

\* Push and pop work at the head of the stack.
LEMMA PushStep ==
  ASSUME ListAssumption, ListTypes, NEW qs, NEW st, Stands(qs, st), NEW n \in LNodes, radStackPush(n)
  PROVE  ListTypes' /\ Stands(qs, InsertAt(st, 1, Item(n)))'
<1> DEFINE u == InsertAt(st, 1, Item(n))
           m == Len(st)
<1>1. /\ next \in [Linkable -> Cells] /\ prev \in [Linkable -> Cells]
      /\ noNodes \in [Lists -> Int] /\ where \in [LNodes -> Lists \cup {"stack", "free"}]
      /\ stackNext \in [LNodes -> Places \cup {NullNode}] /\ stackHead \in Places \cup {NullNode}
      /\ stackCount \in Int
  BY DEF ListTypes
<1>2. /\ \A l \in Lists : /\ Contents(qs[l], where, l) /\ Spells(next, prev, l, qs[l])
                          /\ noNodes[l] = Len(qs[l])
      /\ Contents(st, where, "stack") /\ StackSpells(stackHead, stackNext, st) /\ stackCount = m
      /\ Arrivals(arrival, where) /\ InKeyOrder(qs["sorted"], arrival)
  BY DEF Stands
<1>3. /\ where[n] = "free" /\ where' = [where EXCEPT ![n] = "stack"]
      /\ stackNext' = [stackNext EXCEPT ![n] = stackHead] /\ stackHead' = Item(n)
      /\ stackCount' = stackCount + 1
      /\ next' = next /\ prev' = prev /\ noNodes' = noNodes /\ arrival' = arrival
  BY DEF radStackPush
<1>4. /\ st \in Seq(Places) /\ m \in Nat /\ DOMAIN st = 1..m
      /\ \A i \in 1..m : st[i] \in Places /\ st[i][2] \in LNodes /\ where[st[i][2]] = "stack"
  BY <1>2, ContentsAre
<1>5. Item(n) \in Places /\ Item(n)[2] = n /\ 1 \in 1..(m + 1)
  BY <1>4, ItemsAre
<1>6. u \in Seq(Places) /\ Len(u) = m + 1
  BY <1>4, <1>5, InsertAtLen
<1>7. \A i \in 1..(m + 1) : u[i] = IF i < 1 THEN st[i] ELSE IF i = 1 THEN Item(n) ELSE st[i - 1]
  BY <1>4, <1>5, InsertAtItems
<1>8. Contents(u, where', "stack")
  <2>1. where[n] # "stack"
    BY <1>3
  <2> QED BY ONLY <2>1, n \in LNodes, <1>1, <1>2, <1>3, <1>5, ContentsInserted
<1> HIDE DEF u, m
<1>9. StackSpells(stackHead', stackNext', u)
  <2>1. u # <<>> /\ u[1] = Item(n) /\ DOMAIN u = 1..(m + 1)
    BY <1>4, <1>5, <1>6, <1>7
  <2>2. ASSUME NEW i \in 1..(m + 1)
        PROVE  stackNext'[u[i][2]] = IF i = Len(u) THEN NullNode ELSE u[i + 1]
    <3>1. CASE i = 1
      <4>1. stackNext'[u[i][2]] = stackHead
        BY <3>1, <2>1, <1>1, <1>3, <1>5
      <4>2. CASE m = 0
        <5>1. st = <<>>
          BY <4>2, <1>4, EmptySeq DEF m
        <5> QED BY <5>1, <4>1, <4>2, <3>1, <1>2, <1>6 DEF StackSpells
      <4>3. CASE m # 0
        <5>1. st # <<>>
          BY <4>3, <1>4 DEF m
        <5>2. i + 1 \in 1..(m + 1) /\ u[i + 1] = st[1]
          <6>1. i + 1 \in 1..(m + 1) /\ ~(i + 1 < 1) /\ i + 1 # 1 /\ (i + 1) - 1 = 1
            BY <4>3, <3>1, <1>4
          <6> QED BY <6>1, <1>7
        <5>3. stackHead = st[1]
          BY <5>1, <1>2 DEF StackSpells
        <5>4. i # Len(u)
          BY <4>3, <3>1, <1>4, <1>6
        <5> QED BY <5>2, <5>3, <5>4, <4>1
      <4> QED BY <4>2, <4>3
    <3>2. CASE i # 1
      <4>1. i - 1 \in 1..m /\ u[i] = st[i - 1] /\ (i - 1 = m <=> i = Len(u))
        BY <3>2, <1>4, <1>6, <1>7
      <4>2. stackNext'[u[i][2]] = stackNext[st[i - 1][2]]
        <5>1. st[i - 1][2] \in LNodes /\ st[i - 1][2] # n
          BY <4>1, <1>3, <1>4
        <5> QED BY <5>1, <4>1, <1>1, <1>3
      <4>3. stackNext[st[i - 1][2]] = IF i - 1 = m THEN NullNode ELSE st[(i - 1) + 1]
        BY <4>1, <1>2, <1>4 DEF StackSpells, m
      <4>4. CASE i = Len(u)
        BY <4>1, <4>2, <4>3, <4>4
      <4>5. CASE i # Len(u)
        <5>1. i + 1 \in 1..(m + 1) /\ ~(i + 1 < 1) /\ i + 1 # 1 /\ (i + 1) - 1 = (i - 1) + 1
          BY <4>5, <3>2, <1>4, <1>6
        <5>2. u[i + 1] = st[(i - 1) + 1]
          BY <5>1, <1>7
        <5> QED BY <5>2, <4>1, <4>2, <4>3, <4>5
      <4> QED BY <4>4, <4>5
    <3> QED BY <3>1, <3>2
  <2> QED BY <2>1, <2>2, <1>3 DEF StackSpells
<1>10. ASSUME NEW l \in Lists
       PROVE  /\ Contents(qs[l], where', l) /\ Spells(next', prev', l, qs[l])
              /\ noNodes'[l] = Len(qs[l])
  <2>1. \A p \in LNodes : where'[p] = l <=> where[p] = l
    <3>1. l # "free" /\ l # "stack"
      BY DEF Lists
    <3> QED BY <3>1, <1>1, <1>3
  <2>2. Contents(qs[l], where', l)
    BY <2>1, <1>2, ContentsKept
  <2> QED BY <2>2, <1>2, <1>3
<1>11. Arrivals(arrival', where')
  <2>1. \A p \in LNodes : where'[p] = "sorted" <=> where[p] = "sorted"
    BY <1>1, <1>3
  <2> QED BY <2>1, <1>2, <1>3 DEF Arrivals
<1>12. ListTypes'
  <2>1. /\ where' \in [LNodes -> Lists \cup {"stack", "free"}]
        /\ stackNext' \in [LNodes -> Places \cup {NullNode}] /\ stackHead' \in Places
    BY <1>1, <1>3, <1>5
  <2>2. stackCount' \in Int
    BY <1>1, <1>3
  <2> QED BY <2>1, <2>2, <1>3 DEF ListTypes
<1>13. stackCount' = Len(u)
  BY <1>2, <1>3, <1>6
<1>14. Stands(qs, u)'
  BY <1>2, <1>3, <1>8, <1>9, <1>10, <1>11, <1>13 DEF Stands
<1> QED BY <1>12, <1>14 DEF u

LEMMA PopStep ==
  ASSUME ListAssumption, ListTypes, NEW qs, NEW st, Stands(qs, st), radStackPop
  PROVE  st # <<>> /\ ListTypes' /\ Stands(qs, RemoveAt(st, 1))'
<1> DEFINE u == RemoveAt(st, 1)
           m == Len(st)
           n == st[1][2]
<1>1. /\ next \in [Linkable -> Cells] /\ prev \in [Linkable -> Cells]
      /\ noNodes \in [Lists -> Int] /\ where \in [LNodes -> Lists \cup {"stack", "free"}]
      /\ stackNext \in [LNodes -> Places \cup {NullNode}] /\ stackHead \in Places \cup {NullNode}
      /\ stackCount \in Int
  BY DEF ListTypes
<1>2. /\ \A l \in Lists : /\ Contents(qs[l], where, l) /\ Spells(next, prev, l, qs[l])
                          /\ noNodes[l] = Len(qs[l])
      /\ Contents(st, where, "stack") /\ StackSpells(stackHead, stackNext, st) /\ stackCount = m
      /\ Arrivals(arrival, where) /\ InKeyOrder(qs["sorted"], arrival)
  BY DEF Stands
<1>3. /\ stackHead # NullNode /\ where' = [where EXCEPT ![stackHead[2]] = "free"]
      /\ stackHead' = stackNext[stackHead[2]] /\ stackCount' = stackCount - 1
      /\ stackNext' = stackNext /\ next' = next /\ prev' = prev /\ noNodes' = noNodes
      /\ arrival' = arrival
  BY DEF radStackPop
<1>4. /\ st \in Seq(Places) /\ m \in Nat /\ DOMAIN st = 1..m
      /\ \A i \in 1..m : st[i] \in Places /\ st[i][2] \in LNodes /\ where[st[i][2]] = "stack"
  BY <1>2, ContentsAre
<1>5. st # <<>> /\ stackHead = st[1] /\ 1 \in 1..m
  <2>1. st # <<>> /\ stackHead = st[1]
    BY <1>2, <1>3 DEF StackSpells
  <2>2. m # 0
    BY SMTT(60), <2>1, <1>4, EmptySeq
  <2> QED BY <2>1, <2>2, <1>4
<1>6. /\ u \in Seq(Places) /\ Len(u) = m - 1
      /\ \A i \in 1..(m - 1) : u[i] = IF i < 1 THEN st[i] ELSE st[i + 1]
  BY <1>4, <1>5, RemoveAtIs
<1>7. n \in LNodes /\ st[1] = Item(n) /\ where[n] = "stack" /\ stackHead[2] = n
  BY <1>4, <1>5, ItemsAre
<1>8. Contents(u, where', "stack")
  <2>1. where' = [where EXCEPT ![n] = "free"]
    BY <1>3, <1>7
  <2>2. "stack" # "free"
    OBVIOUS
  <2> HIDE DEF n
  <2>3. Contents(RemoveAt(st, 1), [where EXCEPT ![n] = "free"], "stack")
    BY ONLY <2>2, <1>1, <1>2, <1>5, <1>7, ContentsRemoved DEF m
  <2> QED BY <2>1, <2>3
<1> HIDE DEF u, m, n
<1>9. StackSpells(stackHead', stackNext', u)
  <2>1. DOMAIN u = 1..(m - 1) /\ Len(u) = m - 1 /\ \A i \in 1..(m - 1) : u[i] = st[i + 1]
    BY <1>4, <1>6
  <2>2. \A i \in 1..m : stackNext[st[i][2]] = IF i = m THEN NullNode ELSE st[i + 1]
    BY <1>2, <1>4 DEF StackSpells, m
  <2>3. stackHead' = IF u = <<>> THEN NullNode ELSE u[1]
    <3>1. stackHead' = IF 1 = m THEN NullNode ELSE st[1 + 1]
      BY <2>2, <1>3, <1>5
    <3>2. CASE m = 1
      <4>1. u = <<>>
        BY <3>2, <2>1, <1>6, EmptySeq
      <4> QED BY <4>1, <3>1, <3>2
    <3>3. CASE m # 1
      <4>1. 1 \in 1..(m - 1)
        BY <3>3, <1>4, <1>5
      <4>2. u # <<>>
        BY <4>1, <2>1
      <4> QED BY <4>1, <4>2, <3>1, <3>3, <2>1
    <3> QED BY <3>2, <3>3
  <2>4. ASSUME NEW i \in 1..(m - 1)
        PROVE  stackNext'[u[i][2]] = IF i = Len(u) THEN NullNode ELSE u[i + 1]
    <3>1. i + 1 \in 1..m /\ (i + 1 = m <=> i = m - 1)
      BY <1>4
    <3>2. stackNext'[u[i][2]] = IF i + 1 = m THEN NullNode ELSE st[(i + 1) + 1]
      BY <3>1, <2>1, <2>2, <1>3
    <3>3. i # m - 1 => u[i + 1] = st[(i + 1) + 1]
      <4>1. i # m - 1 => i + 1 \in 1..(m - 1)
        BY <1>4
      <4> QED BY <4>1, <2>1
    <3> QED BY <3>1, <3>2, <3>3, <2>1
  <2> QED BY <2>1, <2>3, <2>4 DEF StackSpells
<1>10. ASSUME NEW l \in Lists
       PROVE  /\ Contents(qs[l], where', l) /\ Spells(next', prev', l, qs[l])
              /\ noNodes'[l] = Len(qs[l])
  <2>1. \A p \in LNodes : where'[p] = l <=> where[p] = l
    <3>1. l # "free" /\ l # "stack"
      BY DEF Lists
    <3> QED BY <3>1, <1>1, <1>3, <1>7
  <2>2. Contents(qs[l], where', l)
    BY <2>1, <1>2, ContentsKept
  <2> QED BY <2>2, <1>2, <1>3
<1>11. Arrivals(arrival', where')
  <2>1. \A p \in LNodes : where'[p] = "sorted" <=> where[p] = "sorted"
    BY <1>1, <1>3, <1>7
  <2> QED BY <2>1, <1>2, <1>3 DEF Arrivals
<1>12. ListTypes'
  <2>1. where' \in [LNodes -> Lists \cup {"stack", "free"}] /\ stackHead' \in Places \cup {NullNode}
    BY <1>1, <1>3, <1>7
  <2>2. stackCount' \in Int
    BY <1>1, <1>3
  <2> QED BY <2>1, <2>2, <1>3 DEF ListTypes
<1>13. stackCount' = Len(u)
  BY <1>2, <1>3, <1>6
<1>14. Stands(qs, u)'
  BY <1>2, <1>3, <1>8, <1>9, <1>10, <1>11, <1>13 DEF Stands
<1> QED BY <1>5, <1>12, <1>14 DEF u

\* How sequences move: a node that is in none of them comes, one goes, or all go.
InsertedTo(qs, st, qs2) ==
    \E l \in Lists, n \in LNodes : \E q \in 1..(Len(qs[l]) + 1) :
        /\ qs2 = [qs EXCEPT ![l] = InsertAt(qs[l], q, Item(n))]
        /\ Item(n) \notin ToSet(qs[l]) /\ Item(n) \notin ToSet(st)
RemovedFrom(qs, qs2) ==
    \E l \in Lists : \E k \in 1..Len(qs[l]) : qs2 = [qs EXCEPT ![l] = RemoveAt(qs[l], k)]
Moved(qs, st, qs2, st2) ==
    \/ st2 = st /\ InsertedTo(qs, st, qs2)
    \/ st2 = st /\ RemovedFrom(qs, qs2)
    \/ st2 = st /\ qs2 = [qs EXCEPT !["plain"] = <<>>]
    \/ qs2 = qs /\ \E n \in LNodes : Item(n) \notin ToSet(st) /\ st2 = InsertAt(st, 1, Item(n))
    \/ qs2 = qs /\ st # <<>> /\ st2 = RemoveAt(st, 1)

\* The lists and the stack hold sequences again, moved by one step.
Advanced(qs, st) ==
    \E qs2 \in [Lists -> Seq(Places)] : \E st2 \in Seq(Places) :
        ListTypes' /\ Stands(qs2, st2)' /\ Moved(qs, st, qs2, st2)

\* The cells of a list and their pointers; a node that is elsewhere is none of them.
LEMMA CellsStand ==
  ASSUME ListTypes, NEW qs \in [Lists -> Seq(Places)], NEW st, Stands(qs, st), NEW l \in Lists
  PROVE  /\ qs[l] \in Seq(Places) /\ Len(qs[l]) \in Nat /\ DOMAIN qs[l] = 1..Len(qs[l])
         /\ next \in [Linkable -> Cells] /\ prev \in [Linkable -> Cells]
         /\ At(l, qs[l], 0) = FirstOf(l) /\ At(l, qs[l], Len(qs[l]) + 1) = LastOf(l)
         /\ \A k \in 1..Len(qs[l]) : At(l, qs[l], k) = qs[l][k] /\ qs[l][k] \in Places
         /\ \A k \in 0..(Len(qs[l]) + 1) : At(l, qs[l], k) \in Linkable
         /\ \A k \in 0..Len(qs[l]) : /\ next[At(l, qs[l], k)] = At(l, qs[l], k + 1)
                                     /\ prev[At(l, qs[l], k + 1)] = At(l, qs[l], k)
         /\ \A i, j \in 0..(Len(qs[l]) + 1) : At(l, qs[l], i) = At(l, qs[l], j) => i = j
         /\ \A n \in LNodes : where[n] = l => \E k \in 1..Len(qs[l]) : qs[l][k] = Item(n)
<1> DEFINE s == qs[l]
<1>1. Contents(s, where, l) /\ Spells(next, prev, l, s)
  BY DEF Stands
<1>2. /\ s \in Seq(Places) /\ Len(s) \in Nat /\ DOMAIN s = 1..Len(s)
      /\ \A i, j \in 1..Len(s) : s[i] = s[j] => i = j
      /\ \A n \in LNodes : where[n] = l => \E k \in 1..Len(s) : s[k] = Item(n)
  BY <1>1, ContentsAre
<1>3. /\ At(l, s, 0) = FirstOf(l) /\ At(l, s, Len(s) + 1) = LastOf(l)
      /\ \A k \in 1..Len(s) : At(l, s, k) = s[k] /\ s[k] \in Places
      /\ \A k \in 0..(Len(s) + 1) : At(l, s, k) \in Linkable
  BY <1>2, AtIs
<1>4. \A i, j \in 0..(Len(s) + 1) : At(l, s, i) = At(l, s, j) => i = j
  BY <1>2, AtOnce
<1>5. \A k \in 0..Len(s) : next[At(l, s, k)] = At(l, s, k + 1) /\ prev[At(l, s, k + 1)] = At(l, s, k)
  BY <1>1 DEF Spells
<1>6. next \in [Linkable -> Cells] /\ prev \in [Linkable -> Cells]
  BY DEF ListTypes
<1> QED BY <1>2, <1>3, <1>4, <1>5, <1>6

LEMMA FreeNode ==
  ASSUME ListTypes, NEW qs \in [Lists -> Seq(Places)], NEW st, Stands(qs, st), NEW l \in Lists,
         NEW n \in LNodes, where[n] = "free"
  PROVE  /\ \A k \in 0..(Len(qs[l]) + 1) : At(l, qs[l], k) # Item(n)
         /\ Item(n) \notin ToSet(qs[l]) /\ Item(n) \notin ToSet(st)
         /\ Item(n) \in Places /\ Item(n) \in Linkable
<1> DEFINE s == qs[l]
<1>1. Item(n) \in Places /\ Item(n)[2] = n /\ Item(n) \in Linkable
  BY ItemsAre DEF Linkable
<1>2. Contents(s, where, l) /\ Contents(st, where, "stack") /\ l # "free"
  BY DEF Stands, Lists
<1>3. \A k \in DOMAIN s : s[k] # Item(n)
  BY <1>2 DEF Contents
<1>4. \A k \in DOMAIN st : st[k] # Item(n)
  BY <1>2 DEF Contents
<1>5. Item(n) \notin ToSet(s) /\ Item(n) \notin ToSet(st)
  BY <1>3, <1>4 DEF ToSet
<1>6. \A k \in 0..(Len(s) + 1) : At(l, s, k) # Item(n)
  <2>1. FirstOf(l) # Item(n) /\ LastOf(l) # Item(n)
    BY <1>1, CellsApart
  <2>2. /\ Len(s) \in Nat /\ DOMAIN s = 1..Len(s)
        /\ At(l, s, 0) = FirstOf(l) /\ At(l, s, Len(s) + 1) = LastOf(l)
        /\ \A k \in 1..Len(s) : At(l, s, k) = s[k]
    BY CellsStand
  <2> HIDE DEF s
  <2>3. \A k \in 0..(Len(s) + 1) : k = 0 \/ k = Len(s) + 1 \/ k \in 1..Len(s)
    BY <2>2
  <2> QED BY <2>1, <2>2, <2>3, <1>3
<1> QED BY <1>1, <1>5, <1>6

\* What holds of a node that goes in front of the q-th cell of the sorted list.
Fits(s, q, n) ==
    \A i \in 1..Len(s) : /\ i < q => LKey[s[i][2]] <= LKey[n]
                         /\ i >= q => LKey[s[i][2]] > LKey[n]

LEMMA StackIs ==
  ASSUME NEW qs, NEW st, Stands(qs, st) PROVE st \in Seq(Places)
<1>1. Contents(st, where, "stack")
  BY DEF Stands
<1> QED BY <1>1, ContentsAre

LEMMA BeforeAdvances ==
  ASSUME ListAssumption, ListTypes, NEW qs \in [Lists -> Seq(Places)], NEW st, Stands(qs, st),
         NEW l \in Lists, NEW n \in LNodes, NEW q \in 1..(Len(qs[l]) + 1), Entered(l, n),
         l = "sorted" => Fits(qs[l], q, n),
         InsertBefore(At(l, qs[l], q), Item(n)) \/ InsertAfter(At(l, qs[l], q - 1), Item(n))
  PROVE  Advanced(qs, st)
<1> DEFINE s == qs[l]
           qs2 == [qs EXCEPT ![l] = InsertAt(s, q, Item(n))]
<1>1. where[n] = "free"
  BY DEF Entered
<1>2. /\ \A k \in 0..(Len(s) + 1) : At(l, s, k) # Item(n)
      /\ Item(n) \notin ToSet(s) /\ Item(n) \notin ToSet(st) /\ Item(n) \in Linkable
  BY <1>1, FreeNode
<1>3. /\ s \in Seq(Places) /\ Len(s) \in Nat
      /\ next \in [Linkable -> Cells] /\ prev \in [Linkable -> Cells]
      /\ \A k \in 0..(Len(s) + 1) : At(l, s, k) \in Linkable
      /\ \A k \in 0..Len(s) : next[At(l, s, k)] = At(l, s, k + 1) /\ prev[At(l, s, k + 1)] = At(l, s, k)
  BY CellsStand
<1>4. /\ q - 1 \in 0..Len(s) /\ (q - 1) + 1 = q /\ q \in 0..(Len(s) + 1) /\ q - 1 \in 0..(Len(s) + 1)
  BY <1>3
<1>5. next[At(l, s, q - 1)] = At(l, s, q) /\ prev[At(l, s, q)] = At(l, s, q - 1)
  BY <1>3, <1>4
<1> DEFINE a == At(l, s, q - 1)
           b == At(l, s, q)
<1>6. a \in Linkable /\ b \in Linkable /\ a # Item(n) /\ b # Item(n) /\ next[a] = b /\ prev[b] = a
  BY <1>2, <1>3, <1>4, <1>5
<1>7. /\ next' \in [Linkable -> Cells] /\ prev' \in [Linkable -> Cells]
      /\ \A y \in Linkable : next'[y] = IF y = Item(n) THEN b ELSE IF y = a THEN Item(n) ELSE next[y]
      /\ \A y \in Linkable : prev'[y] = IF y = Item(n) THEN a ELSE IF y = b THEN Item(n) ELSE prev[y]
  <2>1. CASE InsertBefore(b, Item(n))
    <3> HIDE DEF a, b
    <3> QED BY ONLY <2>1, <1>2, <1>3, <1>6, InsertBeforeIs
  <2>2. CASE InsertAfter(a, Item(n))
    <3> HIDE DEF a, b
    <3> QED BY ONLY <2>2, <1>2, <1>3, <1>6, InsertAfterIs
  <2> QED BY <2>1, <2>2
<1>8. /\ \A x \in Linkable : next'[x] = IF x = Item(n) THEN At(l, qs[l], q)
                                        ELSE IF x = At(l, qs[l], q - 1) THEN Item(n) ELSE next[x]
      /\ \A x \in Linkable : prev'[x] = IF x = Item(n) THEN At(l, qs[l], q - 1)
                                        ELSE IF x = At(l, qs[l], q) THEN Item(n) ELSE prev[x]
  BY <1>7
<1>9. l = "sorted" =>
            \A i \in 1..Len(qs[l]) : /\ i < q => LKey[qs[l][i][2]] <= LKey[n]
                                     /\ i >= q => LKey[qs[l][i][2]] > LKey[n]
  BY DEF Fits
<1>10. PICK q2 : q2 = [qs EXCEPT ![l] = InsertAt(qs[l], q, Item(n))]
  OBVIOUS
<1> HIDE DEF a, b, s
<1>11. ListTypes' /\ Stands(q2, st)' /\ q2 \in [Lists -> Seq(Places)]
  BY <1>7, <1>8, <1>9, <1>10, EnterStep
<1>12. InsertedTo(qs, st, q2)
  BY <1>2, <1>10 DEF InsertedTo, s
<1>13. st \in Seq(Places)
  BY StackIs
<1> QED BY <1>11, <1>12, <1>13 DEF Advanced, Moved

LEMMA LeaveAdvances ==
  ASSUME ListAssumption, ListTypes, NEW qs \in [Lists -> Seq(Places)], NEW st, Stands(qs, st),
         NEW l \in Lists, NEW k \in 1..Len(qs[l]), NEW n \in LNodes, qs[l][k] = Item(n), Left(l, n),
         NEW a, NEW b, a = At(l, qs[l], k - 1), b = At(l, qs[l], k + 1),
         next' = [next EXCEPT ![a] = b], prev' = [prev EXCEPT ![b] = a]
  PROVE  Advanced(qs, st)
<1>1. /\ Len(qs[l]) \in Nat /\ next \in [Linkable -> Cells] /\ prev \in [Linkable -> Cells]
      /\ \A i \in 0..(Len(qs[l]) + 1) : At(l, qs[l], i) \in Linkable
  BY CellsStand
<1>2. a \in Linkable /\ b \in Linkable /\ Linkable \subseteq Cells
  BY <1>1, CellsApart
<1>3. /\ next' \in [Linkable -> Cells] /\ prev' \in [Linkable -> Cells]
      /\ \A x \in Linkable : next'[x] = IF x = a THEN b ELSE next[x]
      /\ \A x \in Linkable : prev'[x] = IF x = b THEN a ELSE prev[x]
  BY <1>1, <1>2
<1>4. /\ \A x \in Linkable :
            next'[x] = IF x = At(l, qs[l], k - 1) THEN At(l, qs[l], k + 1) ELSE next[x]
      /\ \A x \in Linkable :
            prev'[x] = IF x = At(l, qs[l], k + 1) THEN At(l, qs[l], k - 1) ELSE prev[x]
  BY <1>3
<1>5. PICK q2 : q2 = [qs EXCEPT ![l] = RemoveAt(qs[l], k)]
  OBVIOUS
<1>6. ListTypes' /\ Stands(q2, st)' /\ q2 \in [Lists -> Seq(Places)]
  <2>1. next' \in [Linkable -> Cells] /\ prev' \in [Linkable -> Cells]
    BY <1>3
  <2>2. ListTypes' /\ Stands(q2, st)'
    BY ONLY ListAssumption, ListTypes, qs \in [Lists -> Seq(Places)], Stands(qs, st), l \in Lists,
            n \in LNodes, k \in 1..Len(qs[l]), qs[l][k] = Item(n), Left(l, n),
            <2>1, <1>4, <1>5, LeaveStep
  <2>3. q2 \in [Lists -> Seq(Places)]
    <3>1. RemoveAt(qs[l], k) \in Seq(Places)
      BY RemoveAtIs
    <3> QED BY <3>1, <1>5
  <2> QED BY <2>2, <2>3
<1>7. RemovedFrom(qs, q2)
  BY <1>5 DEF RemovedFrom
<1>8. st \in Seq(Places)
  BY StackIs
<1> QED BY <1>6, <1>7, <1>8 DEF Advanced, Moved

\* Unlinking joins the neighbours of the k-th node.
LEMMA UnlinkAdvances ==
  ASSUME ListAssumption, ListTypes, NEW qs \in [Lists -> Seq(Places)], NEW st, Stands(qs, st),
         NEW l \in Lists, NEW k \in 1..Len(qs[l]), NEW n \in LNodes, qs[l][k] = Item(n), Left(l, n),
         UnlinkNode(Item(n))
  PROVE  Advanced(qs, st)
<1> DEFINE s == qs[l]
           a == At(l, s, k - 1)
           b == At(l, s, k + 1)
<1>1. /\ Len(s) \in Nat /\ next \in [Linkable -> Cells] /\ prev \in [Linkable -> Cells]
      /\ \A i \in 0..(Len(s) + 1) : At(l, s, i) \in Linkable
      /\ \A i \in 0..Len(s) : next[At(l, s, i)] = At(l, s, i + 1) /\ prev[At(l, s, i + 1)] = At(l, s, i)
      /\ \A i, j \in 0..(Len(s) + 1) : At(l, s, i) = At(l, s, j) => i = j
      /\ At(l, s, k) = Item(n)
  BY CellsStand
<1>2. /\ k - 1 \in 0..Len(s) /\ (k - 1) + 1 = k /\ k \in 0..Len(s) /\ k \in 0..(Len(s) + 1)
      /\ k + 1 \in 0..(Len(s) + 1) /\ k + 1 # k
  BY <1>1
<1>3. prev[Item(n)] = a /\ next[Item(n)] = b /\ b # Item(n)
  <2> HIDE DEF s
  <2> QED BY <1>1, <1>2
<1> HIDE DEF a, b
<1>4. prev' = [prev EXCEPT ![b] = a]
  BY <1>3 DEF UnlinkNode
<1>5. next' = [next EXCEPT ![a] = b]
  <2>1. next' = [next EXCEPT ![[prev EXCEPT ![b] = a][Item(n)]] = b]
    BY <1>3 DEF UnlinkNode
  <2>2. [prev EXCEPT ![b] = a][Item(n)] = a
    <3>1. Item(n) \in Linkable
      BY ItemsAre DEF Linkable
    <3> QED BY <3>1, <1>1, <1>3
  <2> QED BY <2>1, <2>2
<1>6. a = At(l, qs[l], k - 1) /\ b = At(l, qs[l], k + 1)
  BY DEF a, b
<1> HIDE DEF s
<1>7. PICK a1, b1 : a1 = a /\ b1 = b
  OBVIOUS
<1> QED BY <1>4, <1>5, <1>6, <1>7, LeaveAdvances

\* Where a node goes in the sorted list, and where a key is found: the first
\* place with what is looked for, if any.
LEMMA FirstPlace ==
  ASSUME NEW T \in SUBSET Nat, T # {}, NEW i, i = CHOOSE x \in T : \A y \in T : x <= y
  PROVE  i \in T /\ \A y \in T : i <= y
BY LeastNat

LEMMA SortInsertAdvances ==
  ASSUME ListAssumption, ListTypes, NEW qs \in [Lists -> Seq(Places)], NEW st, Stands(qs, st),
         NEW n \in LNodes, radSortListInsert(n)
  PROVE  Advanced(qs, st)
<1> DEFINE l == "sorted"
           s == qs[l]
           greater == {i \in DOMAIN s : Greater(s[i][2], n)}
<1>1. l \in Lists /\ Forward(l) = s
  <2>1. l \in Lists
    BY DEF Lists
  <2> QED BY <2>1, WalksStand
<1>2. /\ s \in Seq(Places) /\ Len(s) \in Nat /\ DOMAIN s = 1..Len(s)
      /\ At(l, s, Len(s) + 1) = LastOf(l) /\ \A k \in 1..Len(s) : At(l, s, k) = s[k] /\ s[k] \in Places
  BY <1>1, CellsStand
<1>3. \A i \in 1..Len(s) : LKey[s[i][2]] \in Int
  <2>1. \A i \in 1..Len(s) : s[i][2] \in LNodes
    BY <1>2, ItemsAre
  <2> QED BY <2>1 DEF ListAssumption
<1>4. LKey[n] \in Int
  BY DEF ListAssumption
<1>5. \A i, j \in 1..Len(s) : i < j => LKey[s[i][2]] <= LKey[s[j][2]]
  <2>1. InKeyOrder(s, arrival)
    BY DEF Stands
  <2> SUFFICES ASSUME NEW i \in 1..Len(s), NEW j \in 1..Len(s), i < j
               PROVE  LKey[s[i][2]] <= LKey[s[j][2]]
    OBVIOUS
  <2>2. LKey[s[i][2]] < LKey[s[j][2]] \/ LKey[s[i][2]] = LKey[s[j][2]]
    BY <2>1, <1>2 DEF InKeyOrder
  <2> QED BY <2>2, <1>3
<1>6. /\ Entered(l, n)
      /\ IF greater = {} THEN InsertBefore(LastOf(l), Item(n))
         ELSE InsertBefore(s[CHOOSE i \in greater : \A j \in greater : i <= j], Item(n))
  BY <1>1 DEF radSortListInsert
<1>7. CASE greater = {}
  <2>1. Fits(s, Len(s) + 1, n)
    <3> SUFFICES ASSUME NEW i \in 1..Len(s) PROVE LKey[s[i][2]] <= LKey[n] /\ ~(i >= Len(s) + 1)
      BY DEF Fits
    <3>1. ~(LKey[s[i][2]] > LKey[n])
      BY <1>2, <1>7 DEF Greater
    <3> QED BY <3>1, <1>2, <1>3, <1>4
  <2>2. InsertBefore(At(l, s, Len(s) + 1), Item(n)) /\ Len(s) + 1 \in 1..(Len(s) + 1)
    BY <1>2, <1>6, <1>7
  <2> HIDE DEF greater
  <2> QED BY <2>1, <2>2, <1>1, <1>6, BeforeAdvances
<1>8. CASE greater # {}
  <2>1. PICK q : q = CHOOSE i \in greater : \A j \in greater : i <= j
    OBVIOUS
  <2>2. greater \in SUBSET Nat
    BY <1>2
  <2>3. q \in greater /\ \A j \in greater : q <= j
    <3> HIDE DEF greater
    <3> QED BY <2>1, <2>2, <1>8, FirstPlace
  <2>4. q \in 1..Len(s) /\ LKey[s[q][2]] > LKey[n]
    BY <2>3, <1>2 DEF Greater
  <2>5. Fits(s, q, n)
    <3> SUFFICES ASSUME NEW i \in 1..Len(s)
                 PROVE  /\ i < q => LKey[s[i][2]] <= LKey[n]
                        /\ i >= q => LKey[s[i][2]] > LKey[n]
      BY DEF Fits
    <3>1. ASSUME i < q PROVE LKey[s[i][2]] <= LKey[n]
      <4>1. i \notin greater
        <5> HIDE DEF greater
        <5> QED BY <3>1, <2>3, <2>4
      <4>2. ~(LKey[s[i][2]] > LKey[n])
        BY <4>1, <1>2 DEF Greater
      <4> QED BY <4>2, <1>3, <1>4
    <3>2. ASSUME i >= q PROVE LKey[s[i][2]] > LKey[n]
      <4>1. i = q \/ q < i
        BY <3>2, <2>4
      <4>2. LKey[s[q][2]] <= LKey[s[i][2]]
        BY <4>1, <2>4, <1>3, <1>5
      <4> QED BY <4>2, <2>4, <1>3, <1>4
    <3> QED BY <3>1, <3>2
  <2>6. InsertBefore(At(l, s, q), Item(n)) /\ q \in 1..(Len(s) + 1)
    <3>1. InsertBefore(s[q], Item(n))
      <4> HIDE DEF greater
      <4> QED BY <2>1, <1>6, <1>8
    <3> QED BY <3>1, <2>4, <1>2
  <2> HIDE DEF greater
  <2> QED BY <2>5, <2>6, <1>1, <1>6, BeforeAdvances
<1> QED BY <1>7, <1>8

LEMMA RemoveFirstAdvances ==
  ASSUME ListAssumption, ListTypes, NEW qs \in [Lists -> Seq(Places)], NEW st, Stands(qs, st),
         radListRemoveFirst
  PROVE  Advanced(qs, st)
<1> DEFINE l == "plain"
           s == qs[l]
           x == radListGetFirst(l)
<1>1. l \in Lists
  BY DEF Lists
<1>2. /\ s \in Seq(Places) /\ Len(s) \in Nat /\ DOMAIN s = 1..Len(s)
      /\ At(l, s, 0) = FirstOf(l) /\ At(l, s, Len(s) + 1) = LastOf(l)
      /\ \A k \in 1..Len(s) : At(l, s, k) = s[k] /\ s[k] \in Places
      /\ \A k \in 0..Len(s) : next[At(l, s, k)] = At(l, s, k + 1)
  BY <1>1, CellsStand
<1>3. /\ x # NullNode /\ Left(l, x[2])
      /\ next' = [next EXCEPT ![FirstOf(l)] = next[x]] /\ prev' = [prev EXCEPT ![next[x]] = FirstOf(l)]
  BY DEF radListRemoveFirst
<1> HIDE DEF s
<1>4. next[FirstOf(l)] = At(l, s, 1)
  <2>1. 0 \in 0..Len(s) /\ 0 + 1 = 1
    BY <1>2
  <2> QED BY <2>1, <1>2
<1>5. x = At(l, s, 1) /\ At(l, s, 1) # LastOf(l)
  BY <1>3, <1>4 DEF radListGetFirst
<1>6. 1 \in 1..Len(s)
  <2>1. Len(s) # 0
    BY <1>2, <1>5
  <2> QED BY <2>1, <1>2
<1>7. x = s[1] /\ x[2] \in LNodes /\ s[1] = Item(x[2])
  BY <1>2, <1>5, <1>6, ItemsAre
<1>8. next[x] = At(l, s, 1 + 1) /\ FirstOf(l) = At(l, s, 1 - 1)
  <2>1. 1 \in 0..Len(s)
    BY <1>6
  <2> QED BY <2>1, <1>2, <1>5
<1>9. PICK n, a, b : n = x[2] /\ a = At(l, s, 1 - 1) /\ b = At(l, s, 1 + 1)
  OBVIOUS
<1> HIDE DEF x
<1>10. next' = [next EXCEPT ![a] = b] /\ prev' = [prev EXCEPT ![b] = a]
  BY <1>3, <1>8, <1>9
<1>11. /\ n \in LNodes /\ qs[l][1] = Item(n) /\ Left(l, n) /\ 1 \in 1..Len(qs[l])
       /\ a = At(l, qs[l], 1 - 1) /\ b = At(l, qs[l], 1 + 1)
  BY <1>3, <1>6, <1>7, <1>9 DEF s
<1> QED BY ONLY ListAssumption, ListTypes, qs \in [Lists -> Seq(Places)], Stands(qs, st),
           <1>1, <1>10, <1>11, LeaveAdvances

LEMMA RemoveLastAdvances ==
  ASSUME ListAssumption, ListTypes, NEW qs \in [Lists -> Seq(Places)], NEW st, Stands(qs, st),
         radListRemoveLast
  PROVE  Advanced(qs, st)
<1> DEFINE l == "plain"
           s == qs[l]
           x == radListGetLast(l)
<1>1. l \in Lists
  BY DEF Lists
<1>2. /\ s \in Seq(Places) /\ Len(s) \in Nat /\ DOMAIN s = 1..Len(s)
      /\ At(l, s, 0) = FirstOf(l) /\ At(l, s, Len(s) + 1) = LastOf(l)
      /\ \A k \in 1..Len(s) : At(l, s, k) = s[k] /\ s[k] \in Places
      /\ \A k \in 0..Len(s) : prev[At(l, s, k + 1)] = At(l, s, k)
  BY <1>1, CellsStand
<1>3. /\ x # NullNode /\ Left(l, x[2])
      /\ prev' = [prev EXCEPT ![LastOf(l)] = prev[x]] /\ next' = [next EXCEPT ![prev[x]] = LastOf(l)]
  BY DEF radListRemoveLast
<1> HIDE DEF s
<1>4. prev[LastOf(l)] = At(l, s, Len(s))
  <2>1. Len(s) \in 0..Len(s)
    BY <1>2
  <2> QED BY <2>1, <1>2
<1>5. x = At(l, s, Len(s)) /\ At(l, s, Len(s)) # FirstOf(l)
  BY <1>3, <1>4 DEF radListGetLast
<1>6. Len(s) \in 1..Len(s)
  <2>1. Len(s) # 0
    BY <1>2, <1>5
  <2> QED BY <2>1, <1>2
<1>7. x = s[Len(s)] /\ x[2] \in LNodes /\ s[Len(s)] = Item(x[2])
  BY <1>2, <1>5, <1>6, ItemsAre
<1>8. prev[x] = At(l, s, Len(s) - 1) /\ LastOf(l) = At(l, s, Len(s) + 1)
  <2>1. Len(s) - 1 \in 0..Len(s) /\ (Len(s) - 1) + 1 = Len(s)
    BY <1>6, <1>2
  <2> QED BY <2>1, <1>2, <1>5
<1>9. PICK n, a, b : n = x[2] /\ a = At(l, s, Len(s) - 1) /\ b = At(l, s, Len(s) + 1)
  OBVIOUS
<1> HIDE DEF x
<1>10. next' = [next EXCEPT ![a] = b] /\ prev' = [prev EXCEPT ![b] = a]
  BY <1>3, <1>8, <1>9
<1>11. /\ n \in LNodes /\ qs[l][Len(s)] = Item(n) /\ Left(l, n) /\ Len(s) \in 1..Len(qs[l])
       /\ a = At(l, qs[l], Len(s) - 1) /\ b = At(l, qs[l], Len(s) + 1)
  BY <1>3, <1>6, <1>7, <1>9 DEF s
<1> QED BY ONLY ListAssumption, ListTypes, qs \in [Lists -> Seq(Places)], Stands(qs, st),
           <1>1, <1>10, <1>11, LeaveAdvances

\* Every operation moves the sequences by one step.
LEMMA EveryStepAdvances ==
  ASSUME ListAssumption, ListTypes, NEW qs \in [Lists -> Seq(Places)], NEW st, Stands(qs, st),
         ListNext
  PROVE  Advanced(qs, st)
<1>1. /\ "plain" \in Lists /\ "sorted" \in Lists
      /\ \A l \in Lists :
            /\ Len(qs[l]) \in Nat /\ DOMAIN qs[l] = 1..Len(qs[l])
            /\ At(l, qs[l], 0) = FirstOf(l) /\ At(l, qs[l], Len(qs[l]) + 1) = LastOf(l)
            /\ \A k \in 1..Len(qs[l]) : At(l, qs[l], k) = qs[l][k]
            /\ \A n \in LNodes : where[n] = l => \E k \in 1..Len(qs[l]) : qs[l][k] = Item(n)
  BY CellsStand DEF Lists
<1>2. /\ Len(qs["plain"]) \in Nat /\ At("plain", qs["plain"], 0) = FirstOf("plain")
      /\ At("plain", qs["plain"], Len(qs["plain"]) + 1) = LastOf("plain")
      /\ \A k \in 1..Len(qs["plain"]) : At("plain", qs["plain"], k) = qs["plain"][k]
      /\ \A n \in LNodes : where[n] = "plain" => \E k \in 1..Len(qs["plain"]) : qs["plain"][k] = Item(n)
  BY <1>1
<1>3. ASSUME NEW n \in LNodes, NEW m \in LNodes, radListInsertAfter(m, n) PROVE Advanced(qs, st)
  <2>1. where[m] = "plain" /\ Entered("plain", n) /\ InsertAfter(Item(m), Item(n))
    BY <1>3 DEF radListInsertAfter
  <2>2. PICK k \in 1..Len(qs["plain"]) : qs["plain"][k] = Item(m)
    BY <2>1, <1>2
  <2>3. PICK q : q = k + 1
    OBVIOUS
  <2>4. q \in 1..(Len(qs["plain"]) + 1) /\ q - 1 = k
    BY <2>3, <1>2
  <2>5. InsertAfter(At("plain", qs["plain"], q - 1), Item(n))
    BY <2>1, <2>2, <2>4, <1>2
  <2>6. "plain" # "sorted"
    OBVIOUS
  <2> QED BY <2>1, <2>4, <2>5, <2>6, <1>1, BeforeAdvances
<1>4. ASSUME NEW n \in LNodes, NEW m \in LNodes, radListInsertBefore(m, n) PROVE Advanced(qs, st)
  <2>1. where[m] = "plain" /\ Entered("plain", n) /\ InsertBefore(Item(m), Item(n))
    BY <1>4 DEF radListInsertBefore
  <2>2. PICK k \in 1..Len(qs["plain"]) : qs["plain"][k] = Item(m)
    BY <2>1, <1>2
  <2>3. k \in 1..(Len(qs["plain"]) + 1) /\ InsertBefore(At("plain", qs["plain"], k), Item(n))
    BY <2>1, <2>2, <1>2
  <2>4. "plain" # "sorted"
    OBVIOUS
  <2> QED BY <2>1, <2>3, <2>4, <1>1, BeforeAdvances
<1>5. ASSUME NEW n \in LNodes, radListAddToFront(n) PROVE Advanced(qs, st)
  <2>1. Entered("plain", n) /\ InsertAfter(FirstOf("plain"), Item(n))
    BY <1>5 DEF radListAddToFront
  <2>2. 1 \in 1..(Len(qs["plain"]) + 1) /\ 1 - 1 = 0
    BY <1>2
  <2>3. InsertAfter(At("plain", qs["plain"], 1 - 1), Item(n)) /\ "plain" # "sorted"
    BY <2>1, <2>2, <1>2
  <2> QED BY <2>1, <2>2, <2>3, <1>1, BeforeAdvances
<1>6. ASSUME NEW n \in LNodes, radListAddToEnd(n) PROVE Advanced(qs, st)
  <2>1. Entered("plain", n) /\ InsertBefore(LastOf("plain"), Item(n))
    BY <1>6 DEF radListAddToEnd
  <2>2. /\ Len(qs["plain"]) + 1 \in 1..(Len(qs["plain"]) + 1) /\ "plain" # "sorted"
        /\ InsertBefore(At("plain", qs["plain"], Len(qs["plain"]) + 1), Item(n))
    BY <2>1, <1>2
  <2> QED BY <2>1, <2>2, <1>1, BeforeAdvances
<1>7. ASSUME NEW n \in LNodes, radListRemove(n) PROVE Advanced(qs, st)
  <2>1. where[n] = "plain" /\ Left("plain", n) /\ UnlinkNode(Item(n))
    BY <1>7 DEF radListRemove
  <2>2. PICK k \in 1..Len(qs["plain"]) : qs["plain"][k] = Item(n)
    BY <2>1, <1>2
  <2> QED BY <2>1, <2>2, <1>1, UnlinkAdvances
<1>8. ASSUME NEW n \in LNodes, radSortListInsert(n) PROVE Advanced(qs, st)
  BY <1>8, SortInsertAdvances
<1>9. ASSUME NEW n \in LNodes, radSortListRemove(n) PROVE Advanced(qs, st)
  <2>1. Item(n) \in ToSet(Forward("sorted")) /\ Left("sorted", n) /\ UnlinkNode(Item(n))
    BY <1>9 DEF radSortListRemove
  <2>2. Forward("sorted") = qs["sorted"]
    BY <1>1, WalksStand
  <2>3. PICK k \in 1..Len(qs["sorted"]) : qs["sorted"][k] = Item(n)
    BY <2>1, <2>2, <1>1 DEF ToSet
  <2> QED BY SMTT(30), <2>1, <2>3, <1>1, UnlinkAdvances
<1>10. ASSUME NEW n \in LNodes, radStackPush(n) PROVE Advanced(qs, st)
  <2>1. ListTypes' /\ Stands(qs, InsertAt(st, 1, Item(n)))'
    BY <1>10, PushStep
  <2>2. where[n] = "free"
    BY <1>10 DEF radStackPush
  <2>3. Item(n) \notin ToSet(st)
    BY <2>2, <1>1, FreeNode
  <2>4. InsertAt(st, 1, Item(n)) \in Seq(Places)
    <3>1. st \in Seq(Places) /\ Item(n) \in Places
      BY StackIs, ItemsAre
    <3>2. 1 \in 1..(Len(st) + 1)
      BY <3>1, LenProperties
    <3> QED BY <3>1, <3>2, InsertAtLen
  <2>5. PICK s2 : s2 = InsertAt(st, 1, Item(n))
    OBVIOUS
  <2>6. Stands(qs, s2)'
    BY <2>1, <2>5
  <2>7. Moved(qs, st, qs, s2)
    BY <2>3, <2>5 DEF Moved
  <2> QED BY <2>1, <2>4, <2>5, <2>6, <2>7 DEF Advanced
<1>11. CASE radListRemoveFirst
  BY <1>11, RemoveFirstAdvances
<1>12. CASE radListRemoveLast
  BY <1>12, RemoveLastAdvances
<1>13. CASE radListReset
  <2>1. PICK q2 : q2 = [qs EXCEPT !["plain"] = <<>>]
    OBVIOUS
  <2>2. ListTypes' /\ Stands(q2, st)' /\ q2 \in [Lists -> Seq(Places)]
    BY <2>1, <1>13, ResetStep
  <2>3. st \in Seq(Places)
    BY StackIs
  <2>4. Moved(qs, st, q2, st)
    BY <2>1 DEF Moved
  <2> QED BY <2>2, <2>3, <2>4 DEF Advanced
<1>14. CASE radStackPop
  <2>1. st # <<>> /\ ListTypes' /\ Stands(qs, RemoveAt(st, 1))'
    BY <1>14, PopStep
  <2>2. RemoveAt(st, 1) \in Seq(Places)
    <3>1. st \in Seq(Places)
      BY StackIs
    <3>2. 1 \in 1..Len(st)
      BY <3>1, <2>1, LenProperties, EmptySeq
    <3> QED BY <3>1, <3>2, RemoveAtIs
  <2>3. PICK s2 : s2 = RemoveAt(st, 1)
    OBVIOUS
  <2>4. Stands(qs, s2)' /\ Moved(qs, st, qs, s2)
    BY <2>1, <2>3 DEF Moved
  <2> QED BY <2>1, <2>2, <2>3, <2>4 DEF Advanced
<1> QED BY <1>3, <1>4, <1>5, <1>6, <1>7, <1>8, <1>9, <1>10, <1>11, <1>12, <1>13, <1>14 DEF ListNext

LEMMA ListStarts == ASSUME ListAssumption, ListInit PROVE ListInv /\ NodeSeqs!SeqInit
<1> DEFINE e == << >>
<1>1. PICK qs : qs = [l \in Lists |-> << >>]
  OBVIOUS
<1>2. /\ next = [x \in Linkable |-> IF x \in {FirstOf(l) : l \in Lists} THEN LastOf(x[1]) ELSE NullNode]
      /\ prev = [x \in Linkable |-> IF x \in {LastOf(l) : l \in Lists} THEN FirstOf(x[1]) ELSE NullNode]
      /\ noNodes = [l \in Lists |-> 0]
      /\ stackNext = [n \in LNodes |-> NullNode] /\ stackHead = NullNode /\ stackCount = 0
      /\ where = [n \in LNodes |-> "free"] /\ arrival = [n \in LNodes |-> 0]
  BY DEF ListInit, Linkable
<1>3. \A l \in Lists : FirstOf(l)[1] = l /\ LastOf(l)[1] = l
  BY DEF FirstOf, LastOf
<1>4. /\ NullNode \in Cells /\ Linkable \subseteq Cells
      /\ \A l \in Lists : FirstOf(l) \in Linkable /\ LastOf(l) \in Linkable
  BY CellsApart DEF Cells
<1>5. ListTypes
  <2>1. next \in [Linkable -> Cells]
    <3>1. \A x \in Linkable : (IF x \in {FirstOf(l) : l \in Lists} THEN LastOf(x[1]) ELSE NullNode) \in Cells
      BY <1>3, <1>4
    <3> QED BY <3>1, <1>2
  <2>2. prev \in [Linkable -> Cells]
    <3>1. \A x \in Linkable : (IF x \in {LastOf(l) : l \in Lists} THEN FirstOf(x[1]) ELSE NullNode) \in Cells
      BY <1>3, <1>4
    <3> QED BY <3>1, <1>2
  <2>3. /\ noNodes \in [Lists -> Int] /\ where \in [LNodes -> Lists \cup {"stack", "free"}]
        /\ stackNext \in [LNodes -> Places \cup {NullNode}] /\ stackHead \in Places \cup {NullNode}
        /\ stackCount \in Int /\ arrival \in [LNodes -> Nat]
    BY <1>2
  <2> QED BY <2>1, <2>2, <2>3 DEF ListTypes
<1>6. e \in Seq(Places) /\ Len(e) = 0 /\ DOMAIN e = {} /\ e = <<>>
  OBVIOUS
<1> HIDE DEF e
<1>7. \A l \in Lists : qs[l] = e
  BY <1>1, <1>6
<1>8. \A p \in Lists \cup {"stack"} : Contents(e, where, p)
  <2>1. \A p \in Lists \cup {"stack"}, n \in LNodes : where[n] # p
    BY <1>2 DEF Lists
  <2> QED BY <2>1, <1>6 DEF Contents
<1>9. ASSUME NEW l \in Lists PROVE Spells(next, prev, l, e) /\ noNodes[l] = Len(e)
  <2>1. At(l, e, 0) = FirstOf(l) /\ At(l, e, 0 + 1) = LastOf(l)
    BY <1>6, AtIs
  <2>2. next[FirstOf(l)] = LastOf(l) /\ prev[LastOf(l)] = FirstOf(l)
    BY <1>2, <1>3, <1>4
  <2>3. 0..Len(e) = {0}
    BY <1>6
  <2> QED BY <2>1, <2>2, <2>3, <1>2, <1>6 DEF Spells
<1>10. StackSpells(stackHead, stackNext, e) /\ stackCount = Len(e)
  BY <1>2, <1>6 DEF StackSpells
<1>11. Arrivals(arrival, where)
  <2>1. \A n \in LNodes : arrival[n] = 0 /\ where[n] = "free"
    BY <1>2
  <2>2. {m \in LNodes : arrival[m] > 0} = {}
    BY <2>1
  <2>3. Cardinality({m \in LNodes : arrival[m] > 0}) = 0
    BY <2>2, FS_EmptySet
  <2> QED BY <2>1, <2>3 DEF Arrivals
<1>12. InKeyOrder(qs["sorted"], arrival)
  <2>1. DOMAIN qs["sorted"] = {}
    BY <1>6, <1>7 DEF Lists
  <2> QED BY <2>1 DEF InKeyOrder
<1>13. Stands(qs, e)
  BY <1>7, <1>8, <1>9, <1>10, <1>11, <1>12 DEF Stands
<1>14. (\A l \in Lists : Forward(l) = qs[l]) /\ StackWalk = e
  <2>1. PICK s : s = e
    OBVIOUS
  <2>2. Stands(qs, s)
    BY <2>1, <1>13
  <2> QED BY <2>1, <2>2, <1>5, WalksStand
<1>15. [l \in Lists |-> Forward(l)] = qs
  BY <1>1, <1>14
<1>16. Stands([l \in Lists |-> Forward(l)], StackWalk)
  BY <1>13, <1>14, <1>15
<1>17. NodeSeqs!SeqInit
  BY <1>1, <1>6, <1>14, <1>15 DEF NodeSeqs!SeqInit
<1> QED BY <1>5, <1>16, <1>17 DEF ListInv

\* The sequences of a state.
LEMMA InvStands ==
  ASSUME ListInv
  PROVE  \E qs \in [Lists -> Seq(Places)] : \E st \in Seq(Places) :
            /\ Stands(qs, st) /\ qs = [l \in Lists |-> Forward(l)] /\ st = StackWalk
<1>1. PICK qs, st : qs = [l \in Lists |-> Forward(l)] /\ st = StackWalk
  OBVIOUS
<1>2. Stands(qs, st)
  BY <1>1 DEF ListInv
<1>3. \A l \in Lists : Contents(qs[l], where, l)
  BY <1>2 DEF Stands
<1>4. qs \in [Lists -> Seq(Places)]
  <2>1. \A l \in Lists : qs[l] \in Seq(Places)
    BY <1>3 DEF Contents
  <2> QED BY <2>1, <1>1
<1>5. st \in Seq(Places)
  BY <1>2, StackIs
<1> QED BY <1>1, <1>2, <1>4, <1>5

LEMMA ListStays ==
  ASSUME ListAssumption, ListInv, ListNext
  PROVE  /\ ListInv'
         /\ \E qs \in [Lists -> Seq(Places)], qs2 \in [Lists -> Seq(Places)] :
            \E st \in Seq(Places), st2 \in Seq(Places) :
               /\ qs = [l \in Lists |-> Forward(l)] /\ st = StackWalk
               /\ qs2 = [l \in Lists |-> Forward(l)'] /\ st2 = StackWalk'
               /\ Moved(qs, st, qs2, st2)
<1>1. ListTypes
  BY DEF ListInv
<1>2. PICK qs \in [Lists -> Seq(Places)] : \E s \in Seq(Places) :
            /\ Stands(qs, s) /\ qs = [l \in Lists |-> Forward(l)] /\ s = StackWalk
  BY InvStands
<1>3. PICK st \in Seq(Places) :
            Stands(qs, st) /\ qs = [l \in Lists |-> Forward(l)] /\ st = StackWalk
  BY <1>2
<1>4. Advanced(qs, st)
  BY <1>1, <1>3, EveryStepAdvances
<1>5. PICK qs2 \in [Lists -> Seq(Places)] : \E s \in Seq(Places) :
            ListTypes' /\ Stands(qs2, s)' /\ Moved(qs, st, qs2, s)
  BY <1>4 DEF Advanced
<1>6. PICK st2 \in Seq(Places) : ListTypes' /\ Stands(qs2, st2)' /\ Moved(qs, st, qs2, st2)
  BY <1>5
<1>7. (\A l \in Lists : Forward(l)' = qs2[l]) /\ StackWalk' = st2
  BY <1>6, WalksStandAfter
<1>8. qs2 = [l \in Lists |-> Forward(l)']
  BY <1>7
<1>9. Stands([l \in Lists |-> Forward(l)], StackWalk)'
  <2>1. [l \in Lists |-> Forward(l)]' = qs2
    BY <1>8
  <2> QED BY <2>1, <1>6, <1>7 DEF Stands
<1>10. ListInv'
  BY <1>6, <1>9 DEF ListInv
<1> QED BY <1>3, <1>6, <1>7, <1>8, <1>10

LEMMA ListInductive == ListSpec => []ListInv
<1>1. ListInit => ListInv
  BY ListStarts, ListAssumption
<1>2. ListInv /\ [ListNext]_listVars => ListInv'
  <2> SUFFICES ASSUME ListInv, [ListNext]_listVars PROVE ListInv'
    OBVIOUS
  <2>1. CASE ListNext
    BY <2>1, ListStays, ListAssumption
  <2>2. CASE UNCHANGED listVars
    BY <2>2 DEF listVars, ListInv, ListTypes, Stands, StackWalk, Forward, radListGetNext, radListGetFirst
  <2> QED BY <2>1, <2>2
<1> QED BY <1>1, <1>2, PTL DEF ListSpec

LEMMA ListOrdered == ASSUME ListAssumption, ListInv PROVE ListsInOrder
<1>1. PICK qs \in [Lists -> Seq(Places)] : \E s \in Seq(Places) :
            /\ Stands(qs, s) /\ qs = [l \in Lists |-> Forward(l)] /\ s = StackWalk
  BY InvStands
<1>2. PICK st \in Seq(Places) : Stands(qs, st)
  BY <1>1
<1>3. ListTypes
  BY DEF ListInv
<1>4. /\ \A l \in Lists : Forward(l) = qs[l] /\ Backward(l) = Reverse(qs[l])
      /\ StackWalk = st
  BY <1>2, <1>3, WalksStand
<1>5. WalksAgree
  <2>1. ASSUME NEW l \in Lists
        PROVE  ToSet(Forward(l)) = {Item(n) : n \in {m \in LNodes : where[m] = l}}
    <3>1. /\ DOMAIN qs[l] = 1..Len(qs[l])
          /\ \A i \in 1..Len(qs[l]) : qs[l][i] \in Places /\ where[qs[l][i][2]] = l
          /\ \A n \in LNodes : where[n] = l => \E i \in 1..Len(qs[l]) : qs[l][i] = Item(n)
      <4>1. Contents(qs[l], where, l)
        BY <1>2 DEF Stands
      <4> QED BY <4>1, ContentsAre
    <3>2. \A x \in Places : x[2] \in LNodes /\ x = Item(x[2])
      BY ItemsAre
    <3>3. ToSet(qs[l]) \subseteq {Item(n) : n \in {m \in LNodes : where[m] = l}}
      BY <3>1, <3>2 DEF ToSet
    <3>4. {Item(n) : n \in {m \in LNodes : where[m] = l}} \subseteq ToSet(qs[l])
      BY <3>1 DEF ToSet
    <3> QED BY <3>3, <3>4, <1>4
  <2>2. (\A l \in Lists : noNodes[l] = Len(qs[l])) /\ stackCount = Len(st)
    BY <1>2 DEF Stands
  <2> QED BY <2>1, <2>2, <1>4 DEF WalksAgree
<1> DEFINE s == qs["sorted"]
<1>6. Forward("sorted") = s /\ InKeyOrder(s, arrival) /\ Contents(s, where, "sorted")
  <2>1. "sorted" \in Lists
    BY DEF Lists
  <2> QED BY <2>1, <1>2, <1>4 DEF Stands
<1>7. /\ DOMAIN s = 1..Len(s) /\ \A i \in 1..Len(s) : s[i] \in Places /\ s[i][2] \in LNodes
      /\ \A n \in LNodes : where[n] = "sorted" => \E i \in 1..Len(s) : s[i] = Item(n)
  <2> HIDE DEF s
  <2>1. DOMAIN s = 1..Len(s) /\ \A i \in 1..Len(s) : s[i] \in Places /\ s[i][2] \in LNodes
    BY <1>6, ContentsAre
  <2>2. \A n \in LNodes : where[n] = "sorted" => \E i \in 1..Len(s) : s[i] = Item(n)
    BY <1>6, ContentsAre
  <2> QED BY <2>1, <2>2
<1> HIDE DEF s
<1>8. ASSUME NEW n \in LNodes, where[n] = "sorted"
      PROVE  LET found == radSortListFind(LKey[n]) IN
             found # NullNode /\ LKey[found[2]] = LKey[n] /\ arrival[found[2]] <= arrival[n]
  <2> DEFINE w == Forward("sorted")
             hits == {i \in DOMAIN w : LKey[w[i][2]] = LKey[n]}
  <2>1. w = s
    BY <1>6
  <2>2. PICK k \in 1..Len(s) : s[k] = Item(n)
    BY <1>7, <1>8
  <2>3. s[k][2] = n /\ k \in hits
    BY <2>2, <2>1, <1>7, ItemsAre
  <2>4. PICK f : f = CHOOSE i \in hits : \A j \in hits : i <= j
    OBVIOUS
  <2>5. f \in hits /\ \A y \in hits : f <= y
    <3>1. hits \in SUBSET Nat /\ hits # {}
      BY <2>3, <2>1, <1>7
    <3> HIDE DEF hits
    <3> QED BY <3>1, <2>4, FirstPlace
  <2>6. radSortListFind(LKey[n]) = s[f]
    <3>1. radSortListFind(LKey[n]) =
             IF hits = {} THEN NullNode ELSE w[CHOOSE i \in hits : \A j \in hits : i <= j]
      BY DEF radSortListFind
    <3> HIDE DEF hits, w
    <3> QED BY <3>1, <2>3, <2>4, <2>1
  <2>7. f \in 1..Len(s) /\ LKey[s[f][2]] = LKey[n] /\ f <= k
    BY <2>3, <2>5, <2>1, <1>7
  <2>8. s[f] # NullNode
    BY <2>7, <1>7, CellsApart
  <2>9. arrival[s[f][2]] <= arrival[n]
    <3>1. arrival[n] \in Nat /\ arrival[s[f][2]] \in Nat /\ LKey[n] \in Int
      BY <2>7, <1>3, <1>7 DEF ListTypes, ListAssumption
    <3>2. CASE f = k
      BY <3>1, <3>2, <2>3
    <3>3. CASE f < k
      <4>1. arrival[s[f][2]] < arrival[s[k][2]]
        <5>1. \/ LKey[s[f][2]] < LKey[s[k][2]]
              \/ LKey[s[f][2]] = LKey[s[k][2]] /\ arrival[s[f][2]] < arrival[s[k][2]]
          BY <3>3, <2>7, <1>6, <1>7 DEF InKeyOrder
        <5> QED BY <5>1, <3>1, <2>3, <2>7
      <4> QED BY <4>1, <3>1, <2>3
    <3>4. f = k \/ f < k
      BY <2>7
    <3> QED BY <3>2, <3>3, <3>4
  <2> QED BY <2>6, <2>7, <2>8, <2>9
<1>9. SortedStable
  <2>1. \A i, j \in DOMAIN s : i < j =>
            \/ LKey[s[i][2]] < LKey[s[j][2]]
            \/ LKey[s[i][2]] = LKey[s[j][2]] /\ arrival[s[i][2]] < arrival[s[j][2]]
    BY <1>6 DEF InKeyOrder
  <2> QED BY <2>1, <1>6, <1>8 DEF SortedStable
<1> QED BY <1>5, <1>9 DEF ListsInOrder

\* However the operations of radlist.c, radsortlist.c and radstack.c follow
\* one another, a walk forwards and a walk backwards find the same nodes, the
\* counts are right, and a sorted list is in the order of its keys, equal keys
\* in the order of arrival.
THEOREM ListsStayInOrder == ListSpec => []ListsInOrder
<1>1. ListInv => ListsInOrder
  BY ListOrdered, ListAssumption
<1> QED BY <1>1, ListInductive, PTL

\* The operators that the abstract specification takes from SequencesExt are
\* those the lists take from it.
LEMMA SameOperators ==
  /\ \A s, i, e : NodeSeqs!InsertAt(s, i, e) = InsertAt(s, i, e)
  /\ \A s, i : NodeSeqs!RemoveAt(s, i) = RemoveAt(s, i)
  /\ \A s : NodeSeqs!ToSet(s) = ToSet(s)
BY DEF NodeSeqs!InsertAt, InsertAt, NodeSeqs!RemoveAt, RemoveAt, NodeSeqs!ToSet, ToSet

\* What a step of the sequences is, when the traversals return them.
LEMMA MovedIsSeqNext ==
  ASSUME NEW qs \in [Lists -> Seq(Places)], NEW qs2 \in [Lists -> Seq(Places)],
         NEW st \in Seq(Places), NEW st2 \in Seq(Places),
         qs = [l \in Lists |-> Forward(l)], st = StackWalk,
         qs2 = [l \in Lists |-> Forward(l)'], st2 = StackWalk', Moved(qs, st, qs2, st2)
  PROVE  NodeSeqs!SeqNext
<1>1. /\ [l \in Lists |-> Forward(l)] = qs /\ [l \in Lists |-> Forward(l)]' = qs2
      /\ StackWalk = st /\ StackWalk' = st2
  OBVIOUS
<1>2. \A l \in Lists : Len(qs[l]) \in Nat /\ DOMAIN qs[l] = 1..Len(qs[l]) /\ qs[l] \in Seq(Places)
  BY LenProperties
<1>3. Len(st) \in Nat /\ DOMAIN st = 1..Len(st)
  BY LenProperties
<1>4. CASE st2 = st /\ InsertedTo(qs, st, qs2)
  <2>1. PICK l \in Lists, n \in LNodes : \E q \in 1..(Len(qs[l]) + 1) :
            /\ qs2 = [qs EXCEPT ![l] = InsertAt(qs[l], q, Item(n))]
            /\ Item(n) \notin ToSet(qs[l]) /\ Item(n) \notin ToSet(st)
    BY <1>4 DEF InsertedTo
  <2>2. PICK q \in 1..(Len(qs[l]) + 1) :
            /\ qs2 = [qs EXCEPT ![l] = InsertAt(qs[l], q, Item(n))]
            /\ Item(n) \notin ToSet(qs[l]) /\ Item(n) \notin ToSet(st)
    BY <2>1
  <2>3. Item(n) \in Places
    BY ItemsAre
  <2>4. /\ qs2[l] = InsertAt(qs[l], q, Item(n)) /\ Len(qs2[l]) = Len(qs[l]) + 1
        /\ q \in DOMAIN qs2[l]
    <3>1. InsertAt(qs[l], q, Item(n)) \in Seq(Places)
          /\ Len(InsertAt(qs[l], q, Item(n))) = Len(qs[l]) + 1
      BY <2>3, <1>2, InsertAtLen
    <3>2. qs2[l] = InsertAt(qs[l], q, Item(n))
      BY <2>2
    <3>3. DOMAIN qs2[l] = 1..(Len(qs[l]) + 1)
      BY <3>1, <3>2, LenProperties
    <3> QED BY <3>1, <3>2, <3>3
  <2>5. qs2[l][q] = Item(n)
    <3>1. \A k \in 1..(Len(qs[l]) + 1) :
             InsertAt(qs[l], q, Item(n))[k] =
                IF k < q THEN qs[l][k] ELSE IF k = q THEN Item(n) ELSE qs[l][k - 1]
      BY <2>3, <1>2, InsertAtItems
    <3>2. ~(q < q)
      BY <1>2
    <3> QED BY <3>1, <3>2, <2>4
  <2>6. qs2 = [qs EXCEPT ![l] = InsertAt(@, q, qs2[l][q])]
    BY <2>2, <2>5
  <2>7. qs2[l][q] \in Places \ (ToSet(qs[l]) \cup ToSet(st))
    BY <2>2, <2>3, <2>5
  <2>8. NodeSeqs!SeqInsert(l)
    <3>1. \E i \in DOMAIN qs2[l] : /\ qs2 = [qs EXCEPT ![l] = InsertAt(@, i, qs2[l][i])]
                                   /\ qs2[l][i] \in Places \ (ToSet(qs[l]) \cup ToSet(st))
      BY <2>4, <2>6, <2>7
    <3>2. Len(qs2[l]) = Len(qs[l]) + 1 /\ st2 = st
      BY <2>4, <1>4
    <3> QED BY ONLY <3>1, <3>2, <1>1, SameOperators DEF NodeSeqs!SeqInsert
  <2> QED BY <2>8 DEF NodeSeqs!SeqNext
<1>5. CASE st2 = st /\ RemovedFrom(qs, qs2)
  <2>1. PICK l \in Lists : \E k \in 1..Len(qs[l]) : qs2 = [qs EXCEPT ![l] = RemoveAt(qs[l], k)]
    BY <1>5 DEF RemovedFrom
  <2>2. PICK k \in 1..Len(qs[l]) : qs2 = [qs EXCEPT ![l] = RemoveAt(qs[l], k)]
    BY <2>1
  <2>3. Len(qs2[l]) = Len(qs[l]) - 1 /\ k \in DOMAIN qs[l]
    <3>1. Len(RemoveAt(qs[l], k)) = Len(qs[l]) - 1
      BY <1>2, RemoveAtIs
    <3> QED BY <3>1, <2>2, <1>2
  <2>4. qs2 = [qs EXCEPT ![l] = RemoveAt(@, k)]
    BY <2>2
  <2>5. NodeSeqs!SeqRemove(l)
    <3>1. \E i \in DOMAIN qs[l] : qs2 = [qs EXCEPT ![l] = RemoveAt(@, i)]
      BY <2>3, <2>4
    <3>2. Len(qs2[l]) = Len(qs[l]) - 1 /\ st2 = st
      BY <2>3, <1>5
    <3> QED BY ONLY <3>1, <3>2, <1>1, SameOperators DEF NodeSeqs!SeqRemove
  <2> QED BY <2>5 DEF NodeSeqs!SeqNext
<1>6. CASE st2 = st /\ qs2 = [qs EXCEPT !["plain"] = <<>>]
  <2>1. NodeSeqs!SeqReset("plain")
    BY <1>1, <1>6 DEF NodeSeqs!SeqReset
  <2>2. "plain" \in Lists
    BY DEF Lists
  <2> QED BY <2>1, <2>2 DEF NodeSeqs!SeqNext
<1>7. CASE qs2 = qs /\ \E n \in LNodes : Item(n) \notin ToSet(st) /\ st2 = InsertAt(st, 1, Item(n))
  <2>1. PICK n \in LNodes : Item(n) \notin ToSet(st) /\ st2 = InsertAt(st, 1, Item(n))
    BY <1>7
  <2>2. Item(n) \in Places /\ 1 \in 1..(Len(st) + 1)
    BY <1>3, ItemsAre
  <2>3. Len(st2) = Len(st) + 1
    BY <2>1, <2>2, InsertAtLen
  <2>4. \A k \in 1..(Len(st) + 1) :
           st2[k] = IF k < 1 THEN st[k] ELSE IF k = 1 THEN Item(n) ELSE st[k - 1]
    BY <2>1, <2>2, InsertAtItems
  <2>5. st2 # <<>> /\ Head(st2) = Item(n)
    <3>1. st2[1] = Item(n)
      BY <2>2, <2>4
    <3>2. st2 # <<>>
      BY <2>3, <1>3
    <3> QED BY <3>1, <3>2
  <2>6. Tail(st2) = st
    <3>1. /\ Tail(st2) \in Seq(Places) /\ Len(Tail(st2)) = Len(st2) - 1
          /\ \A k \in 1..(Len(st2) - 1) : Tail(st2)[k] = st2[k + 1]
      BY <2>5, HeadTailProperties
    <3>2. Len(Tail(st2)) = Len(st)
      BY <3>1, <2>3, <1>3
    <3>3. \A k \in 1..Len(st) : Tail(st2)[k] = st[k]
      <4> SUFFICES ASSUME NEW k \in 1..Len(st) PROVE Tail(st2)[k] = st[k]
        OBVIOUS
      <4>1. k \in 1..(Len(st2) - 1) /\ k + 1 \in 1..(Len(st) + 1) /\ ~(k + 1 < 1) /\ k + 1 # 1
            /\ (k + 1) - 1 = k
        BY <2>3, <1>3
      <4>2. st2[k + 1] = st[k]
        BY <4>1, <2>4
      <4> QED BY <4>1, <4>2, <3>1
    <3> QED BY <3>1, <3>2, <3>3, SeqEqual
  <2>7. Head(st2) \in Places \ ToSet(st)
    BY <2>1, <2>2, <2>5
  <2>8. NodeSeqs!SeqPush
    <3>1. qs2 = qs
      BY <1>7
    <3> QED BY ONLY <2>3, <2>6, <2>7, <3>1, <1>1, SameOperators DEF NodeSeqs!SeqPush
  <2> QED BY <2>8 DEF NodeSeqs!SeqNext
<1>8. CASE qs2 = qs /\ st # <<>> /\ st2 = RemoveAt(st, 1)
  <2>1. 1 \in 1..Len(st)
    BY <1>3, <1>8, EmptySeq
  <2>2. /\ RemoveAt(st, 1) \in Seq(Places) /\ Len(RemoveAt(st, 1)) = Len(st) - 1
        /\ \A k \in 1..(Len(st) - 1) : RemoveAt(st, 1)[k] = IF k < 1 THEN st[k] ELSE st[k + 1]
    BY <2>1, RemoveAtIs
  <2>3. /\ Tail(st) \in Seq(Places) /\ Len(Tail(st)) = Len(st) - 1
        /\ \A k \in 1..(Len(st) - 1) : Tail(st)[k] = st[k + 1]
    BY <1>8, HeadTailProperties
  <2>4. RemoveAt(st, 1) = Tail(st)
    <3> DEFINE u == RemoveAt(st, 1)
               w == Tail(st)
    <3>1. \A k \in 1..(Len(st) - 1) : u[k] = w[k]
      BY <2>2, <2>3
    <3>2. u \in Seq(Places) /\ w \in Seq(Places) /\ Len(u) = Len(w) /\ Len(u) = Len(st) - 1
      BY <2>2, <2>3
    <3> HIDE DEF u, w
    <3>3. u = w
      BY <3>1, <3>2, SeqEqual
    <3> QED BY <3>3 DEF u, w
  <2>5. NodeSeqs!SeqPop
    BY <2>4, <1>1, <1>8 DEF NodeSeqs!SeqPop
  <2> QED BY <2>5 DEF NodeSeqs!SeqNext
<1> QED BY <1>4, <1>5, <1>6, <1>7, <1>8 DEF Moved

\* The pointer manipulation implements sequences: every operation is one
\* insertion, removal or reset of a sequence, or a push or pop, or leaves the
\* pointers alone.
THEOREM ListsAreSequences == ListSpec => ImplementsSequences
<1>1. ListInit => NodeSeqs!SeqInit
  BY ListStarts, ListAssumption
<1>2. ListInv /\ [ListNext]_listVars => [UNCHANGED listVars \/ NodeSeqs!SeqNext]_(NodeSeqs!seqVars)
  <2> SUFFICES ASSUME ListInv, [ListNext]_listVars
               PROVE  UNCHANGED listVars \/ NodeSeqs!SeqNext
    OBVIOUS
  <2>1. CASE UNCHANGED listVars
    BY <2>1
  <2>2. CASE ListNext
    <3>1. PICK qs \in [Lists -> Seq(Places)], qs2 \in [Lists -> Seq(Places)] :
            \E st \in Seq(Places), st2 \in Seq(Places) :
               /\ qs = [l \in Lists |-> Forward(l)] /\ st = StackWalk
               /\ qs2 = [l \in Lists |-> Forward(l)'] /\ st2 = StackWalk'
               /\ Moved(qs, st, qs2, st2)
      BY <2>2, ListStays, ListAssumption
    <3>2. PICK st \in Seq(Places), st2 \in Seq(Places) :
               /\ qs = [l \in Lists |-> Forward(l)] /\ st = StackWalk
               /\ qs2 = [l \in Lists |-> Forward(l)'] /\ st2 = StackWalk'
               /\ Moved(qs, st, qs2, st2)
      BY <3>1
    <3> QED BY <3>2, MovedIsSeqNext
  <2> QED BY <2>1, <2>2
<1> QED BY <1>1, <1>2, ListInductive, PTL DEF ListSpec, ImplementsSequences

------------------------------------------------------------------------------
(* Configuration files: the inductive invariant *)

\* The lines of the file, and of a copy: what is read of them.
CfText == CfValues \cup CfComments \cup {Blank}
CommentLine == [kind : {"comment"}, ends : BOOLEAN]
EntryLine ==
    [kind : {"entry"}, id : CfIds, inst : CfInstances \cup {NoInstance}, val : CfText, com : CfText,
     ends : BOOLEAN, torn : BOOLEAN]
CfLine == CommentLine \cup EntryLine \cup [kind : {"invalid"}, ends : BOOLEAN]
CopyLine == {l \in CfLine : l.kind = "comment" \/ (l.kind = "entry" /\ l.ends)}

\* An entry whose identifier is certain.
Keyed(l) == l.kind = "entry" /\ ~l.torn
SameKey(k, l) == Keyed(k) /\ Keyed(l) /\ k.id = l.id /\ k.inst = l.inst
KeysOnce(lines) == \A i, j \in DOMAIN lines : SameKey(lines[i], lines[j]) => i = j

\* Every entry of s has the key of one of the first n lines.
KeysFrom(s, lines, n) ==
    \A i \in DOMAIN s : Keyed(s[i]) => \E j \in 1..n : SameKey(s[i], lines[j])

CfTypes ==
    /\ disk \in Seq(CfLine) /\ cut \in BOOLEAN /\ gap \in BOOLEAN /\ (cut => disk # <<>>)
    /\ saved \in Seq(CopyLine) /\ answered \in BOOLEAN /\ dropped \in BOOLEAN
    /\ cfLock \in CfProcs \cup {NoOne} /\ overtaken \subseteq CfProcs /\ cfKilled \subseteq CfProcs
    /\ cfPc \in [CfProcs -> {"closed", "reading", "open", "locked", "writing"}]
    /\ fileData \in [CfProcs -> Seq(CopyLine)] /\ cfPos \in [CfProcs -> Nat]

\* What the last flush has brought to the file: until a write of it is lost,
\* the first lines of its copy, and the first part of the line behind them.
Begun ==
    ~dropped =>
        /\ ~gap /\ Len(WholeLines) <= Len(saved)
        /\ \A i \in 1..Len(WholeLines) : WholeLines[i] = saved[i]
        /\ cut => /\ Len(WholeLines) < Len(saved)
                  /\ Last(disk) \in FirstPart(saved[Len(WholeLines) + 1])
        /\ answered => Len(WholeLines) = Len(saved)

\* A process in radCfFlush: the whole lines in the file have keys of its own
\* lines, as far as it has come.
Written(p) ==
    cfPc[p] = "writing" =>
        /\ ~answered /\ saved = fileData[p] /\ cfPos[p] \in 1..(Len(fileData[p]) + 1)
        /\ KeysFrom(WholeLines, fileData[p], cfPos[p] - 1)
        /\ ~dropped => Len(WholeLines) = cfPos[p] - 1

CfInv ==
    /\ CfTypes /\ LockedWhileWriting /\ Begun
    /\ KeysOnce(disk) /\ \A p \in CfProcs : KeysOnce(fileData[p])
    /\ \A p \in CfProcs : Written(p)

------------------------------------------------------------------------------
(* Configuration files: lines *)

LEMMA LinesOf ==
  ASSUME NEW S, NEW q \in Seq(S)
  PROVE  Len(q) \in Nat /\ DOMAIN q = 1..Len(q) /\ \A i \in 1..Len(q) : q[i] \in S
BY LenProperties, ElementOfSeq

LEMMA LineIs ==
  ASSUME NEW l \in CfLine
  PROVE  /\ l.kind \in {"comment", "entry", "invalid"} /\ l.ends \in BOOLEAN
         /\ l.kind = "comment" => l \in CommentLine
         /\ l.kind = "entry" => l \in EntryLine
         /\ l.kind = "invalid" => l \in [kind : {"invalid"}, ends : BOOLEAN]
BY DEF CfLine, CommentLine, EntryLine

\* The lines of a copy are lines of a file.
LEMMA CopyText ==
  ASSUME NEW q \in Seq(CopyLine)
  PROVE  q \in Seq(CfLine)
<1>1. CopyLine \subseteq CfLine
  BY DEF CopyLine
<1> QED BY <1>1, SeqMonotonic

LEMMA CommentIs ==
  ASSUME NEW e \in BOOLEAN
  PROVE  Comment(e) \in CopyLine /\ Comment(e) \in CfLine /\ ~Keyed(Comment(e))
         /\ Comment(e).kind = "comment" /\ Comment(e).ends = e
BY DEF Comment, CfLine, CopyLine, CommentLine, Keyed

LEMMA AnEntryIs ==
  ASSUME NEW id \in CfIds, NEW inst \in CfInstances \cup {NoInstance}, NEW val \in CfText,
         NEW com \in CfText, NEW ends \in BOOLEAN, NEW torn \in BOOLEAN
  PROVE  AnEntry(id, inst, val, com, ends, torn) \in EntryLine
BY DEF AnEntry, EntryLine

\* Two lines with the key of a third have the same key.
LEMMA KeyOfBoth ==
  ASSUME NEW k, NEW l, NEW m, SameKey(k, l), SameKey(k, m) \/ SameKey(m, k)
  PROVE  SameKey(l, m) /\ SameKey(m, l)
BY DEF SameKey

\* The lines before the last.
LEMMA FrontLines ==
  ASSUME NEW S, NEW s \in Seq(S), s # <<>>
  PROVE  /\ Front(s) \in Seq(S) /\ Len(s) \in Nat \ {0} /\ Len(Front(s)) = Len(s) - 1
         /\ \A i \in 1..(Len(s) - 1) : Front(s)[i] = s[i]
         /\ Last(s) = s[Len(s)] /\ Last(s) \in S
<1> DEFINE t == Front(s)
<1>1. Len(s) \in Nat \ {0} /\ DOMAIN s = 1..Len(s) /\ \A i \in 1..Len(s) : s[i] \in S
  BY LinesOf, EmptySeq
<1>2. 1 \in Int /\ Len(s) - 1 \in Int /\ \A i \in 1..(Len(s) - 1) : s[i] \in S /\ 1 + i - 1 = i
  BY <1>1
<1>3. /\ t \in Seq(S) /\ Len(t) = IF 1 <= Len(s) - 1 THEN Len(s) - 1 - 1 + 1 ELSE 0
      /\ \A i \in 1..(Len(s) - 1 - 1 + 1) : t[i] = s[1 + i - 1]
  BY <1>2, SubSeqProperties DEF Front
<1>4. 1..(Len(s) - 1 - 1 + 1) = 1..(Len(s) - 1)
      /\ (IF 1 <= Len(s) - 1 THEN Len(s) - 1 - 1 + 1 ELSE 0) = Len(s) - 1
  BY <1>1
<1>5. Last(s) = s[Len(s)] /\ Len(s) \in 1..Len(s)
  BY <1>1 DEF Last
<1> HIDE DEF t
<1>6. t \in Seq(S) /\ Len(t) = Len(s) - 1 /\ \A i \in 1..(Len(s) - 1) : t[i] = s[i]
  BY <1>2, <1>3, <1>4
<1> QED BY <1>1, <1>5, <1>6 DEF t

LEMMA FrontAppend ==
  ASSUME NEW S, NEW s \in Seq(S), NEW l \in S
  PROVE  /\ Append(s, l) \in Seq(S) /\ Append(s, l) # <<>>
         /\ Front(Append(s, l)) = s /\ Last(Append(s, l)) = l
<1> DEFINE t == Append(s, l)
<1>1. /\ t \in Seq(S) /\ t # <<>> /\ Len(t) = Len(s) + 1 /\ t[Len(s) + 1] = l
      /\ \A i \in 1..Len(s) : t[i] = s[i]
  BY AppendProperties
<1> HIDE DEF t
<1>2. /\ Front(t) \in Seq(S) /\ Len(Front(t)) = Len(t) - 1 /\ Last(t) = t[Len(t)]
      /\ \A i \in 1..(Len(t) - 1) : Front(t)[i] = t[i]
  BY <1>1, FrontLines
<1>3. Len(s) \in Nat
  BY LinesOf
<1>4. Len(t) - 1 = Len(s) /\ Last(t) = l
  BY <1>1, <1>2, <1>3
<1>5. Len(Front(t)) = Len(s) /\ \A i \in 1..Len(s) : Front(t)[i] = s[i]
  BY <1>1, <1>2, <1>4
<1>6. Front(t) = s
  BY <1>2, <1>5, SeqEqual
<1> QED BY <1>1, <1>4, <1>6 DEF t

\* Some of the lines, at their places.
LEMMA FewerKeys ==
  ASSUME NEW s, NEW t, KeysOnce(s), \A i \in DOMAIN t : i \in DOMAIN s /\ t[i] = s[i]
  PROVE  /\ KeysOnce(t)
         /\ \A lines, n : KeysFrom(s, lines, n) => KeysFrom(t, lines, n)
BY DEF KeysOnce, KeysFrom

LEMMA KeysFromMore ==
  ASSUME NEW s, NEW lines, NEW n \in Nat, KeysFrom(s, lines, n)
  PROVE  KeysFrom(s, lines, n + 1)
<1>1. \A j \in 1..n : j \in 1..(n + 1)
  OBVIOUS
<1> QED BY <1>1 DEF KeysFrom

\* A line that brings no key the sequence has.
LEMMA AppendKeys ==
  ASSUME NEW S, NEW s \in Seq(S), NEW l \in S, KeysOnce(s),
         \A i \in DOMAIN s : ~SameKey(s[i], l)
  PROVE  Append(s, l) \in Seq(S) /\ KeysOnce(Append(s, l))
<1> DEFINE t == Append(s, l)
<1>1. /\ t \in Seq(S) /\ Len(t) = Len(s) + 1 /\ t[Len(s) + 1] = l
      /\ \A i \in 1..Len(s) : t[i] = s[i]
  BY AppendProperties
<1>2. Len(s) \in Nat /\ DOMAIN s = 1..Len(s) /\ DOMAIN t = 1..(Len(s) + 1)
  BY <1>1, LinesOf
<1> HIDE DEF t
<1>3. ASSUME NEW i \in DOMAIN t, NEW j \in DOMAIN t, SameKey(t[i], t[j]) PROVE i = j
  <2>1. \A k \in DOMAIN t : k \in DOMAIN s \/ k = Len(s) + 1
    BY <1>2
  <2>2. CASE i \in DOMAIN s /\ j \in DOMAIN s
    <3>1. t[i] = s[i] /\ t[j] = s[j]
      BY <1>1, <1>2, <2>2
    <3> QED BY <3>1, <1>3, <2>2 DEF KeysOnce
  <2>3. CASE i \in DOMAIN s /\ j = Len(s) + 1
    <3>1. t[i] = s[i] /\ t[j] = l
      BY <1>1, <1>2, <2>3
    <3> QED BY <3>1, <1>3, <2>3
  <2>4. CASE i = Len(s) + 1 /\ j \in DOMAIN s
    <3>1. t[i] = l /\ t[j] = s[j]
      BY <1>1, <1>2, <2>4
    <3>2. SameKey(s[j], l)
      BY <3>1, <1>3 DEF SameKey
    <3> QED BY <3>2, <2>4
  <2> QED BY <2>1, <2>2, <2>3, <2>4
<1> QED BY <1>1, <1>3 DEF KeysOnce, t

\* A line that brings the key of line n + 1 to a sequence with keys of the
\* lines before.
LEMMA AppendKeyOf ==
  ASSUME NEW R, NEW lines \in Seq(R), KeysOnce(lines), NEW n \in Nat, n + 1 \in 1..Len(lines),
         NEW S, NEW s \in Seq(S), KeysOnce(s), KeysFrom(s, lines, n),
         NEW l \in S, Keyed(l) => SameKey(l, lines[n + 1])
  PROVE  /\ Append(s, l) \in Seq(S) /\ KeysOnce(Append(s, l))
         /\ KeysFrom(Append(s, l), lines, n + 1)
<1> DEFINE t == Append(s, l)
<1>1. ASSUME NEW i \in DOMAIN s PROVE ~SameKey(s[i], l)
  <2> SUFFICES ASSUME SameKey(s[i], l) PROVE FALSE
    OBVIOUS
  <2>1. Keyed(s[i]) /\ SameKey(l, lines[n + 1])
    BY DEF SameKey
  <2>2. PICK j \in 1..n : SameKey(s[i], lines[j])
    BY <2>1 DEF KeysFrom
  <2>3. SameKey(lines[j], lines[n + 1])
    BY <2>1, <2>2 DEF SameKey
  <2>4. j \in DOMAIN lines /\ n + 1 \in DOMAIN lines /\ j # n + 1
    BY LinesOf
  <2> QED BY <2>3, <2>4 DEF KeysOnce
<1>2. t \in Seq(S) /\ KeysOnce(t)
  BY <1>1, AppendKeys
<1>3. /\ Len(t) = Len(s) + 1 /\ t[Len(s) + 1] = l
      /\ \A i \in 1..Len(s) : t[i] = s[i]
  BY AppendProperties
<1>4. Len(s) \in Nat /\ DOMAIN s = 1..Len(s) /\ DOMAIN t = 1..(Len(s) + 1)
  BY <1>2, <1>3, LinesOf
<1> HIDE DEF t
<1>5. ASSUME NEW i \in DOMAIN t, Keyed(t[i])
      PROVE  \E j \in 1..(n + 1) : SameKey(t[i], lines[j])
  <2>1. CASE i \in DOMAIN s
    <3>1. t[i] = s[i]
      BY <1>3, <1>4, <2>1
    <3>2. PICK j \in 1..n : SameKey(s[i], lines[j])
      BY <3>1, <1>5, <2>1 DEF KeysFrom
    <3>3. j \in 1..(n + 1)
      OBVIOUS
    <3> QED BY <3>1, <3>2, <3>3
  <2>2. CASE i \notin DOMAIN s
    <3>1. t[i] = l
      BY <1>3, <1>4, <2>2
    <3>2. n + 1 \in 1..(n + 1)
      OBVIOUS
    <3> QED BY <3>1, <3>2, <1>5
  <2> QED BY <2>1, <2>2
<1> QED BY <1>2, <1>5 DEF t, KeysFrom

\* Lines that are the old ones, moved or changed, and comments.
LEMMA CarryKeys ==
  ASSUME NEW old, KeysOnce(old), NEW new,
         NEW f \in [DOMAIN new -> Int], \A i, j \in DOMAIN new : f[i] = f[j] => i = j,
         \A i \in DOMAIN new : Keyed(new[i]) => f[i] \in DOMAIN old /\ SameKey(new[i], old[f[i]])
  PROVE  KeysOnce(new)
<1> SUFFICES ASSUME NEW i \in DOMAIN new, NEW j \in DOMAIN new, SameKey(new[i], new[j])
             PROVE  i = j
  BY DEF KeysOnce
<1>1. Keyed(new[i]) /\ Keyed(new[j])
  BY DEF SameKey
<1>2. /\ f[i] \in DOMAIN old /\ SameKey(new[i], old[f[i]])
      /\ f[j] \in DOMAIN old /\ SameKey(new[j], old[f[j]])
  BY <1>1
<1>3. SameKey(old[f[i]], old[f[j]])
  BY <1>2 DEF SameKey
<1>4. f[i] = f[j]
  BY <1>2, <1>3 DEF KeysOnce
<1> QED BY <1>4

------------------------------------------------------------------------------
(* Configuration files: reading *)

\* An entry is read as an entry of the same key, with the words it had.
LEMMA ReadEntryIs ==
  ASSUME NEW l \in EntryLine
  PROVE  /\ ReadEntry(l) \in EntryLine /\ ReadEntry(l) \in CopyLine
         /\ Keyed(ReadEntry(l)) => SameKey(ReadEntry(l), l)
<1> DEFINE val == IF l.val = Blank /\ l.com # Blank THEN l.com ELSE l.val
           com == IF l.val = Blank /\ l.com # Blank THEN Blank ELSE l.com
<1>1. l = [kind |-> l.kind, id |-> l.id, inst |-> l.inst, val |-> l.val, com |-> l.com,
           ends |-> l.ends, torn |-> l.torn]
  BY DEF EntryLine
<1>2. ReadEntry(l) = [kind |-> l.kind, id |-> l.id, inst |-> l.inst, val |-> val, com |-> com,
                      ends |-> TRUE, torn |-> l.torn]
  <2>1. CASE l.val = Blank /\ l.com # Blank
    BY <1>1, <2>1 DEF ReadEntry
  <2>2. CASE ~(l.val = Blank /\ l.com # Blank)
    BY <1>1, <2>2 DEF ReadEntry
  <2> QED BY <2>1, <2>2
<1>3. /\ l.kind = "entry" /\ l.id \in CfIds /\ l.inst \in CfInstances \cup {NoInstance}
      /\ l.torn \in BOOLEAN /\ val \in CfText /\ com \in CfText
  BY DEF EntryLine, CfText
<1> HIDE DEF val, com
<1>4. ReadEntry(l) \in EntryLine
  BY <1>2, <1>3 DEF EntryLine
<1>5. ReadEntry(l) \in CopyLine
  BY <1>2, <1>3, <1>4 DEF CopyLine, CfLine
<1> QED BY <1>2, <1>3, <1>4, <1>5 DEF SameKey, Keyed

\* A line that is read continues an unfinished comment, is none, or is a line
\* more.
Unfinished(s) == s # <<>> /\ Last(s).kind = "comment" /\ ~Last(s).ends
LineRead(l) == IF l.kind = "entry" THEN ReadEntry(l) ELSE l

LEMMA LineReadIs ==
  ASSUME NEW l \in CfLine, l.kind # "invalid"
  PROVE  LineRead(l) \in CopyLine /\ (Keyed(LineRead(l)) => SameKey(LineRead(l), l))
<1>1. CASE l.kind = "entry"
  BY <1>1, ReadEntryIs, LineIs DEF LineRead
<1>2. CASE l.kind = "comment"
  BY <1>2 DEF LineRead, CopyLine, Keyed
<1> QED BY <1>1, <1>2, LineIs

LEMMA ReadLineIs ==
  ASSUME NEW s \in Seq(CopyLine), NEW l \in CfLine
  PROVE  /\ ReadLine(s, l) \in Seq(CopyLine)
         /\ (~Unfinished(s) /\ l.kind = "invalid") => ReadLine(s, l) = s
         /\ (~Unfinished(s) /\ l.kind # "invalid") => ReadLine(s, l) = Append(s, LineRead(l))
         /\ Unfinished(s) => \E e \in BOOLEAN : ReadLine(s, l) = Append(Front(s), Comment(e))
<1>1. CASE ~Unfinished(s) /\ l.kind # "invalid"
  <2>1. ReadLine(s, l) = Append(s, LineRead(l))
    <3>1. l.kind = "entry" \/ l.kind = "comment"
      BY <1>1, LineIs
    <3> QED BY <1>1, <3>1 DEF ReadLine, Unfinished, LineRead
  <2> QED BY <1>1, <2>1, LineReadIs, AppendProperties
<1>2. CASE ~Unfinished(s) /\ l.kind = "invalid"
  BY <1>2 DEF ReadLine, Unfinished
<1>3. CASE Unfinished(s)
  <2>1. Front(s) \in Seq(CopyLine)
    BY <1>3, FrontLines DEF Unfinished
  <2>2. ReadLine(s, l) = Append(Front(s), Comment(l.ends)) /\ l.ends \in BOOLEAN
    BY <1>3, LineIs DEF ReadLine, Unfinished
  <2>3. PICK e \in BOOLEAN : ReadLine(s, l) = Append(Front(s), Comment(e))
    BY <2>2
  <2>4. Comment(e) \in CopyLine
    BY CommentIs
  <2>5. Append(Front(s), Comment(e)) \in Seq(CopyLine)
    BY <2>1, <2>4, AppendProperties
  <2> QED BY <1>3, <2>3, <2>5
<1> QED BY <1>1, <1>2, <1>3

\* What ReadFile computes, by the equations it is defined with.
ReadsAs(lines, read) ==
    /\ read \in [0..Len(lines) -> Seq(CopyLine)] /\ read[0] = <<>>
    /\ \A k \in 0..(Len(lines) - 1) : read[k + 1] = ReadLine(read[k], lines[k + 1])
    /\ ReadFile(lines) = read[Len(lines)]

LEMMA Reading ==
  ASSUME NEW lines \in Seq(CfLine)
  PROVE  \E read : ReadsAs(lines, read)
<1> DEFINE L == Len(lines)
           S == Seq(CopyLine)
           eqn(g) == [k \in 0..L |-> IF k = 0 THEN <<>> ELSE ReadLine(g[k - 1], lines[k])]
           Read == CHOOSE g : g = eqn(g)
           step == [x \in Nat \X S |-> IF x[1] + 1 \in 1..L THEN ReadLine(x[2], lines[x[1] + 1])
                                       ELSE x[2]]
<1>1. ReadFile(lines) = Read[L]
  BY DEF ReadFile
<1>2. L \in Nat /\ <<>> \in S /\ \A k \in 1..L : lines[k] \in CfLine
  BY LinesOf, EmptySeq
<1> HIDE DEF L
<1>3. \A s \in S, k \in 1..L : ReadLine(s, lines[k]) \in S
  BY <1>2, ReadLineIs
<1> HIDE DEF S
<1>4. PICK f \in [Nat -> S] : f[0] = <<>> /\ \A k \in Nat : f[k + 1] = step[<<k, f[k]>>]
  <2>1. step \in [Nat \X S -> S]
    BY <1>3
  <2>2. Iterates(S, <<>>, step)
    <3> HIDE DEF step
    <3> QED BY <1>2, <2>1, Recursion
  <2> HIDE DEF step
  <2> QED BY <2>2 DEF Iterates
<1>5. \A k \in 0..(L - 1) : f[k + 1] = ReadLine(f[k], lines[k + 1])
  <2> SUFFICES ASSUME NEW k \in 0..(L - 1) PROVE f[k + 1] = ReadLine(f[k], lines[k + 1])
    OBVIOUS
  <2>1. k \in Nat /\ k + 1 \in 1..L /\ f[k] \in S
    BY <1>2
  <2>2. step[<<k, f[k]>>] = ReadLine(f[k], lines[k + 1])
    BY <2>1
  <2> HIDE DEF step
  <2> QED BY <2>1, <2>2, <1>4
<1> HIDE DEF step
<1> DEFINE g == [k \in 0..L |-> f[k]]
<1>6. g = eqn(g)
  <2>1. ASSUME NEW k \in 0..L PROVE g[k] = eqn(g)[k]
    <3>1. CASE k = 0
      BY <3>1, <1>4, <1>2
    <3>2. CASE k # 0
      <4>1. k - 1 \in 0..(L - 1) /\ (k - 1) + 1 = k /\ k - 1 \in 0..L
        BY <3>2, <1>2
      <4>2. f[k] = ReadLine(f[k - 1], lines[k])
        BY <4>1, <1>5
      <4> QED BY <3>2, <4>1, <4>2
    <3> QED BY <3>1, <3>2
  <2> QED BY <2>1
<1>7. Read = eqn(Read)
  <2> HIDE DEF eqn
  <2> QED BY <1>6
<1>8. ASSUME NEW k \in 0..L PROVE Read[k] = IF k = 0 THEN <<>> ELSE ReadLine(Read[k - 1], lines[k])
  <2> HIDE DEF Read
  <2>1. eqn(Read)[k] = IF k = 0 THEN <<>> ELSE ReadLine(Read[k - 1], lines[k])
    OBVIOUS
  <2> HIDE DEF eqn
  <2> QED BY <2>1, <1>7
<1>9. DOMAIN Read = 0..L /\ Read = [k \in 0..L |-> Read[k]]
  <2> HIDE DEF Read
  <2> QED BY <1>7
<1> HIDE DEF Read
<1>10. Read[0] = <<>> /\ \A k \in 0..(L - 1) : Read[k + 1] = ReadLine(Read[k], lines[k + 1])
  <2>1. 0 \in 0..L
    BY <1>2
  <2>2. \A k \in 0..(L - 1) : k + 1 \in 0..L /\ k + 1 # 0 /\ (k + 1) - 1 = k
    BY <1>2
  <2> QED BY <2>1, <2>2, <1>8
<1>11. \A k \in 0..L : Read[k] \in S
  <2> DEFINE T == {k \in Nat : k <= L => Read[k] \in S}
  <2>1. 0 \in T
    BY <1>10, <1>2
  <2>2. ASSUME NEW k \in T PROVE k + 1 \in T
    <3>1. CASE k + 1 <= L
      <4>1. k \in 0..(L - 1) /\ k <= L /\ k + 1 \in 1..L /\ k + 1 \in Nat
        BY <3>1, <1>2
      <4>2. Read[k + 1] = ReadLine(Read[k], lines[k + 1]) /\ Read[k] \in S
        BY <4>1, <1>10
      <4> QED BY <4>1, <4>2, <1>3
    <3>2. CASE ~(k + 1 <= L)
      BY <3>2
    <3> QED BY <3>1, <3>2
  <2> HIDE DEF T
  <2>3. T \subseteq Nat
    BY DEF T
  <2>4. T = Nat
    BY <2>1, <2>2, <2>3, NatInd
  <2> QED BY <2>4, <1>2 DEF T
<1>12. Read \in [0..L -> S]
  BY <1>9, <1>11
<1> QED BY <1>1, <1>10, <1>12 DEF ReadsAs, L, S

\* Reading keeps the keys single.
LEMMA ReadFileKeys ==
  ASSUME NEW lines \in Seq(CfLine), KeysOnce(lines)
  PROVE  ReadFile(lines) \in Seq(CopyLine) /\ KeysOnce(ReadFile(lines))
<1>1. PICK read : ReadsAs(lines, read)
  BY Reading
<1> DEFINE L == Len(lines)
           Good(k) == KeysOnce(read[k]) /\ KeysFrom(read[k], lines, k)
           T == {k \in Nat : k <= L => Good(k)}
<1>2. L \in Nat /\ \A k \in 1..L : lines[k] \in CfLine
  BY LinesOf
<1>3. /\ read[0] = <<>> /\ ReadFile(lines) = read[L]
      /\ \A k \in 0..L : read[k] \in Seq(CopyLine)
      /\ \A k \in 0..(L - 1) : read[k + 1] = ReadLine(read[k], lines[k + 1])
  BY <1>1 DEF ReadsAs
<1>4. 0 \in T
  <2>1. DOMAIN read[0] = {}
    BY <1>3
  <2> QED BY <2>1 DEF KeysOnce, KeysFrom
<1>5. ASSUME NEW k \in T, k + 1 <= L PROVE Good(k + 1)
  <2> DEFINE s == read[k]
             l == lines[k + 1]
  <2>1. k \in Nat /\ k \in 0..(L - 1) /\ k \in 0..L /\ k + 1 \in 1..L /\ k <= L
    BY <1>2, <1>5
  <2>2. /\ s \in Seq(CopyLine) /\ l \in CfLine /\ read[k + 1] = ReadLine(s, l)
        /\ KeysOnce(s) /\ KeysFrom(s, lines, k)
    BY <2>1, <1>2, <1>3
  <2> HIDE DEF s
  <2>3. CASE ~Unfinished(s) /\ l.kind # "invalid"
    <3>1. read[k + 1] = Append(s, LineRead(l))
      BY <2>2, <2>3, ReadLineIs
    <3>2. LineRead(l) \in CopyLine /\ (Keyed(LineRead(l)) => SameKey(LineRead(l), lines[k + 1]))
      BY <2>2, <2>3, LineReadIs
    <3>3. KeysOnce(Append(s, LineRead(l))) /\ KeysFrom(Append(s, LineRead(l)), lines, k + 1)
      <4> HIDE DEF l
      <4> QED BY <2>1, <2>2, <3>2, AppendKeyOf
    <3> QED BY <3>1, <3>3
  <2>4. CASE ~Unfinished(s) /\ l.kind = "invalid"
    <3>1. read[k + 1] = s
      BY <2>2, <2>4, ReadLineIs
    <3>2. KeysFrom(s, lines, k + 1)
      BY <2>1, <2>2, KeysFromMore
    <3> QED BY <2>2, <3>1, <3>2
  <2>5. CASE Unfinished(s)
    <3> DEFINE t == Front(s)
    <3>1. PICK e \in BOOLEAN : read[k + 1] = Append(t, Comment(e))
      BY <2>2, <2>5, ReadLineIs
    <3>2. /\ t \in Seq(CopyLine) /\ Len(s) \in Nat \ {0} /\ Len(t) = Len(s) - 1
          /\ \A i \in 1..(Len(s) - 1) : t[i] = s[i]
      BY <2>2, <2>5, FrontLines DEF Unfinished
    <3>3. DOMAIN t = 1..(Len(s) - 1) /\ DOMAIN s = 1..Len(s)
      BY <2>2, <3>2, LinesOf
    <3> HIDE DEF t
    <3>4. \A i \in DOMAIN t : i \in DOMAIN s /\ t[i] = s[i]
      BY <3>2, <3>3
    <3>5. KeysOnce(t) /\ KeysFrom(t, lines, k)
      BY <2>2, <3>4, FewerKeys
    <3>6. Comment(e) \in CopyLine /\ ~Keyed(Comment(e))
      BY CommentIs
    <3>7. KeysOnce(Append(t, Comment(e))) /\ KeysFrom(Append(t, Comment(e)), lines, k + 1)
      <4> DEFINE c == Comment(e)
      <4> HIDE DEF c
      <4>1. c \in CopyLine /\ ~Keyed(c)
        BY <3>6 DEF c
      <4>2. KeysOnce(Append(t, c)) /\ KeysFrom(Append(t, c), lines, k + 1)
        BY <2>1, <3>2, <3>5, <4>1, AppendKeyOf
      <4> QED BY <4>2 DEF c
    <3> QED BY <3>1, <3>7
  <2> QED BY <2>3, <2>4, <2>5
<1>6. T = Nat
  <2>1. ASSUME NEW k \in T PROVE k + 1 \in T
    <3>1. k \in Nat /\ k + 1 \in Nat /\ (k + 1 <= L => Good(k + 1))
      BY <1>5
    <3> HIDE DEF Good
    <3> QED BY <3>1
  <2> HIDE DEF T
  <2>2. T \subseteq Nat
    BY DEF T
  <2> QED BY <1>4, <2>1, <2>2, NatInd
<1>7. L \in T /\ L <= L /\ L \in 0..L
  BY <1>2, <1>6
<1> QED BY <1>7, <1>3

\* Lines that end and say what they mean are read as they are; what comes
\* behind them changes them no more.
PlainLine(l) == IF l.kind = "entry" THEN l.val # Blank \/ l.com = Blank ELSE l.ends

LEMMA ReadPlain ==
  ASSUME NEW lines \in Seq(CfLine), NEW n \in Nat, n = Len(lines) \/ n + 1 = Len(lines),
         \A i \in 1..n : lines[i] \in CopyLine /\ PlainLine(lines[i])
  PROVE  /\ Len(ReadFile(lines)) \in n..Len(lines)
         /\ \A i \in 1..n : ReadFile(lines)[i] = lines[i]
<1>1. PICK read : ReadsAs(lines, read)
  BY Reading
<1> DEFINE Good(k) == Len(read[k]) = k /\ \A i \in 1..k : read[k][i] = lines[i]
           T == {k \in Nat : k <= n => Good(k)}
<1>2. Len(lines) \in Nat /\ n <= Len(lines) /\ \A k \in 1..Len(lines) : lines[k] \in CfLine
  BY LinesOf
<1>3. /\ read[0] = <<>> /\ ReadFile(lines) = read[Len(lines)]
      /\ \A k \in 0..Len(lines) : read[k] \in Seq(CopyLine)
      /\ \A k \in 0..(Len(lines) - 1) : read[k + 1] = ReadLine(read[k], lines[k + 1])
  BY <1>1 DEF ReadsAs
<1>4. 0 \in T
  BY <1>3
<1>5. ASSUME NEW k \in Nat, k <= n, Good(k) PROVE ~Unfinished(read[k])
  <2> DEFINE s == read[k]
  <2>1. SUFFICES ASSUME Unfinished(s) PROVE FALSE
    OBVIOUS
  <2>0. k \in 0..Len(lines)
    BY <1>2, <1>5
  <2>2. s \in Seq(CopyLine) /\ Len(s) = k /\ \A i \in 1..k : s[i] = lines[i]
    BY <2>0, <1>3, <1>5
  <2> HIDE DEF s
  <2>3. s # <<>> /\ Last(s).kind = "comment" /\ ~Last(s).ends
    BY <2>1 DEF Unfinished
  <2>4. k \in 1..k /\ k \in 1..n /\ Last(s) = s[k]
    <3>1. Len(s) \in Nat \ {0} /\ Last(s) = s[Len(s)]
      BY ONLY <2>2, <2>3, FrontLines
    <3>2. k \in Nat /\ k <= n /\ Len(s) = k
      BY <1>5, <2>2
    <3> QED BY <3>1, <3>2
  <2>5. Last(s) = lines[k] /\ PlainLine(lines[k])
    BY <2>2, <2>4
  <2> QED BY <2>3, <2>5 DEF PlainLine
<1>6. ASSUME NEW k \in T, k + 1 <= n PROVE Good(k + 1)
  <2> DEFINE s == read[k]
             l == lines[k + 1]
  <2>1. /\ k \in Nat /\ k \in 0..(Len(lines) - 1) /\ k \in 0..Len(lines) /\ k + 1 \in 1..n /\ k <= n
        /\ k + 1 \in 1..Len(lines)
    BY <1>2, <1>6
  <2>2. /\ s \in Seq(CopyLine) /\ l \in CfLine /\ read[k + 1] = ReadLine(s, l)
        /\ Len(s) = k /\ \A i \in 1..k : s[i] = lines[i]
    BY <2>1, <1>2, <1>3
  <2>3. ~Unfinished(s)
    BY <1>5, <2>1
  <2> HIDE DEF s
  <2>4. LineRead(l) = l /\ l.kind # "invalid"
    <3>1. l \in CopyLine /\ PlainLine(l)
      BY <2>1
    <3> HIDE DEF l
    <3>2. CASE l.kind = "entry"
      <4>1. l \in EntryLine /\ l.ends = TRUE /\ ~(l.val = Blank /\ l.com # Blank)
        BY <2>2, <3>1, <3>2, LineIs DEF CopyLine, PlainLine
      <4>2. [l EXCEPT !.ends = TRUE] = l
        BY <4>1 DEF EntryLine
      <4> QED BY <3>2, <4>1, <4>2 DEF LineRead, ReadEntry
    <3>3. CASE l.kind = "comment"
      BY <3>3 DEF LineRead
    <3> QED BY <3>1, <3>2, <3>3 DEF CopyLine
  <2>5. read[k + 1] = Append(s, l) /\ l \in CopyLine
    BY <2>1, <2>2, <2>3, <2>4, ReadLineIs
  <2>6. /\ Len(read[k + 1]) = k + 1 /\ read[k + 1][k + 1] = l
        /\ \A i \in 1..k : read[k + 1][i] = s[i]
    <3> HIDE DEF l
    <3> QED BY SMTT(30), <2>2, <2>5, AppendProperties
  <2>7. \A i \in 1..(k + 1) : i \in 1..k \/ i = k + 1
    BY <2>1
  <2> QED BY <2>2, <2>6, <2>7
<1>7. T = Nat
  <2>1. ASSUME NEW k \in T PROVE k + 1 \in T
    <3>1. k \in Nat /\ k + 1 \in Nat /\ (k + 1 <= n => Good(k + 1))
      BY <1>6
    <3> HIDE DEF Good
    <3> QED BY <3>1
  <2> HIDE DEF T
  <2>2. T \subseteq Nat
    BY DEF T
  <2> QED BY <1>4, <2>1, <2>2, NatInd
<1>8. Good(n) /\ ~Unfinished(read[n]) /\ read[n] \in Seq(CopyLine)
  <2>1. n \in T /\ n <= n /\ n \in 0..Len(lines)
    BY <1>2, <1>7
  <2>2. Good(n)
    BY <2>1
  <2> QED BY <2>1, <2>2, <1>3, <1>5
<1>9. CASE n = Len(lines)
  BY <1>3, <1>8, <1>9
<1>10. CASE n + 1 = Len(lines)
  <2> DEFINE s == read[n]
             l == lines[n + 1]
  <2>1. n \in 0..(Len(lines) - 1) /\ n + 1 \in 1..Len(lines)
    BY <1>2, <1>10
  <2>2. ReadFile(lines) = ReadLine(s, l) /\ l \in CfLine
    BY <2>1, <1>2, <1>3, <1>10
  <2>3. s \in Seq(CopyLine) /\ ~Unfinished(s) /\ Len(s) = n /\ \A i \in 1..n : s[i] = lines[i]
    BY <1>8
  <2> HIDE DEF s, l
  <2>4. CASE l.kind = "invalid"
    <3>1. ReadFile(lines) = s
      BY <2>2, <2>3, <2>4, ReadLineIs
    <3>2. n \in n..Len(lines)
      BY <1>10
    <3> QED BY <3>1, <3>2, <2>3
  <2>5. CASE l.kind # "invalid"
    <3>1. ReadFile(lines) = Append(s, LineRead(l)) /\ LineRead(l) \in CopyLine
      BY <2>2, <2>3, <2>5, ReadLineIs, LineReadIs
    <3>2. Len(ReadFile(lines)) = n + 1 /\ \A i \in 1..n : ReadFile(lines)[i] = s[i]
      BY <3>1, <2>3, AppendProperties
    <3>3. n + 1 \in n..Len(lines)
      BY <1>10
    <3> QED BY <3>2, <3>3, <2>3
  <2> QED BY <2>4, <2>5
<1> QED BY <1>9, <1>10

------------------------------------------------------------------------------
(* Configuration files: what the calls make of a copy *)

\* A line that changes its text only keeps its key.
LEMMA ChangeKeeps ==
  ASSUME NEW lines \in Seq(CopyLine), KeysOnce(lines), NEW i \in 1..Len(lines),
         NEW l \in CopyLine, Keyed(l) => SameKey(l, lines[i])
  PROVE  [lines EXCEPT ![i] = l] \in Seq(CopyLine) /\ KeysOnce([lines EXCEPT ![i] = l])
<1> DEFINE t == [lines EXCEPT ![i] = l]
           f == [j \in DOMAIN t |-> j]
<1>1. /\ t \in Seq(CopyLine) /\ Len(t) = Len(lines)
      /\ \A j \in 1..Len(lines) : t[j] = IF j = i THEN l ELSE lines[j]
  BY ExceptSeq
<1>2. Len(lines) \in Nat /\ DOMAIN lines = 1..Len(lines) /\ DOMAIN t = 1..Len(lines)
  BY <1>1, LinesOf
<1> HIDE DEF t
<1>3. f \in [DOMAIN t -> Int] /\ \A j, k \in DOMAIN t : f[j] = f[k] => j = k
  BY <1>2
<1>4. ASSUME NEW j \in DOMAIN t, Keyed(t[j])
      PROVE  f[j] \in DOMAIN lines /\ SameKey(t[j], lines[f[j]])
  <2>1. j \in DOMAIN lines /\ f[j] = j
    BY <1>2
  <2>2. CASE j = i
    <3>1. t[j] = l
      BY <1>1, <1>2, <2>1, <2>2
    <3> QED BY <2>1, <2>2, <3>1, <1>4
  <2>3. CASE j # i
    <3>1. t[j] = lines[j]
      BY <1>1, <1>2, <2>1, <2>3
    <3> QED BY <2>1, <3>1, <1>4 DEF SameKey
  <2> QED BY <2>2, <2>3
<1> HIDE DEF f
<1>5. KeysOnce(t)
  BY <1>1, <1>3, <1>4, CarryKeys
<1> QED BY <1>1, <1>5 DEF t

\* A comment more, in any place.
LEMMA InsertComment ==
  ASSUME NEW lines \in Seq(CopyLine), KeysOnce(lines), NEW q \in 1..(Len(lines) + 1), NEW e \in BOOLEAN
  PROVE  InsertAt(lines, q, Comment(e)) \in Seq(CopyLine) /\ KeysOnce(InsertAt(lines, q, Comment(e)))
<1> DEFINE c == Comment(e)
<1>1. c \in CopyLine /\ ~Keyed(c)
  BY CommentIs
<1> HIDE DEF c
<1> DEFINE t == InsertAt(lines, q, c)
           f == [j \in DOMAIN t |-> IF j < q THEN j ELSE IF j = q THEN 0 ELSE j - 1]
<1>2. t \in Seq(CopyLine) /\ Len(t) = Len(lines) + 1
  BY <1>1, InsertAtLen
<1>3. \A k \in 1..(Len(lines) + 1) :
         t[k] = IF k < q THEN lines[k] ELSE IF k = q THEN c ELSE lines[k - 1]
  BY <1>1, InsertAtItems
<1>4. Len(lines) \in Nat /\ DOMAIN lines = 1..Len(lines) /\ DOMAIN t = 1..(Len(lines) + 1)
  BY <1>2, LinesOf
<1> HIDE DEF t
<1>5. f \in [DOMAIN t -> Int] /\ \A j, k \in DOMAIN t : f[j] = f[k] => j = k
  <2>1. ASSUME NEW j \in DOMAIN t, NEW k \in DOMAIN t, f[j] = f[k] PROVE j = k
    <3>1. j \in Int /\ k \in Int /\ j >= 1 /\ k >= 1 /\ q >= 1 /\ q \in Int
      BY <1>4
    <3>2. f[j] = (IF j < q THEN j ELSE IF j = q THEN 0 ELSE j - 1)
          /\ f[k] = (IF k < q THEN k ELSE IF k = q THEN 0 ELSE k - 1)
      OBVIOUS
    <3> HIDE DEF f
    <3> QED BY <3>1, <3>2, <2>1
  <2> QED BY <2>1, <1>4
<1>6. ASSUME NEW j \in DOMAIN t, Keyed(t[j])
      PROVE  f[j] \in DOMAIN lines /\ SameKey(t[j], lines[f[j]])
  <2>1. CASE j < q
    <3>1. f[j] = j /\ t[j] = lines[j] /\ j \in DOMAIN lines
      BY <2>1, <1>3, <1>4
    <3> QED BY <3>1, <1>6 DEF SameKey
  <2>2. CASE j = q
    <3>1. t[j] = c
      BY <2>2, <1>3, <1>4
    <3> QED BY <3>1, <1>6, <1>1
  <2>3. CASE j > q
    <3>1. f[j] = j - 1 /\ t[j] = lines[j - 1] /\ j - 1 \in DOMAIN lines
      BY <2>3, <1>3, <1>4
    <3> QED BY <3>1, <1>6 DEF SameKey
  <2>4. j < q \/ j = q \/ j > q
    BY <1>4
  <2> QED BY <2>1, <2>2, <2>3, <2>4
<1> HIDE DEF f
<1>7. KeysOnce(t)
  BY <1>2, <1>5, <1>6, CarryKeys
<1> QED BY <1>2, <1>7 DEF t, c

LEMMA AppendComment ==
  ASSUME NEW lines \in Seq(CopyLine), KeysOnce(lines), NEW e \in BOOLEAN
  PROVE  Append(lines, Comment(e)) \in Seq(CopyLine) /\ KeysOnce(Append(lines, Comment(e)))
<1> DEFINE c == Comment(e)
<1>1. c \in CopyLine /\ ~Keyed(c)
  BY CommentIs
<1> HIDE DEF c
<1>2. \A i \in DOMAIN lines : ~SameKey(lines[i], c)
  BY <1>1 DEF SameKey
<1>3. Append(lines, c) \in Seq(CopyLine) /\ KeysOnce(Append(lines, c))
  BY <1>1, <1>2, AppendKeys
<1> QED BY <1>3 DEF c

LEMMA TextHdrKeeps ==
  ASSUME NEW lines \in Seq(CopyLine), KeysOnce(lines)
  PROVE  WithTextHdr(lines) \in Seq(CopyLine) /\ KeysOnce(WithTextHdr(lines))
<1> DEFINE c == Comment(TRUE)
           t == <<c>> \o lines
           f == [j \in DOMAIN t |-> j - 1]
<1>1. c \in CopyLine /\ ~Keyed(c)
  BY CommentIs
<1> HIDE DEF c
<1>2. <<c>> \in Seq(CopyLine) /\ Len(<<c>>) = 1 /\ <<c>>[1] = c
  BY <1>1
<1>3. Len(lines) \in Nat /\ DOMAIN lines = 1..Len(lines)
  BY LinesOf
<1>4. /\ t \in Seq(CopyLine) /\ Len(t) = 1 + Len(lines)
      /\ \A i \in 1..(1 + Len(lines)) : t[i] = IF i <= 1 THEN <<c>>[i] ELSE lines[i - 1]
  <2> DEFINE u == <<c>>
  <2>1. u \in Seq(CopyLine) /\ Len(u) = 1
    BY <1>2
  <2> HIDE DEF u
  <2>2. /\ u \o lines \in Seq(CopyLine) /\ Len(u \o lines) = Len(u) + Len(lines)
        /\ \A i \in 1..(Len(u) + Len(lines)) :
              (u \o lines)[i] = IF i <= Len(u) THEN u[i] ELSE lines[i - Len(u)]
    BY <2>1, ConcatProperties
  <2> QED BY <2>1, <2>2 DEF u
<1>5. DOMAIN t = 1..(1 + Len(lines))
  BY <1>3, <1>4, LinesOf
<1>6. t[1] = c /\ \A i \in 2..(1 + Len(lines)) : t[i] = lines[i - 1]
  BY <1>2, <1>3, <1>4
<1> HIDE DEF t
<1>7. f \in [DOMAIN t -> Int] /\ \A j, k \in DOMAIN t : f[j] = f[k] => j = k
  BY <1>3, <1>5
<1>8. ASSUME NEW j \in DOMAIN t, Keyed(t[j])
      PROVE  f[j] \in DOMAIN lines /\ SameKey(t[j], lines[f[j]])
  <2>1. j # 1
    BY <1>8, <1>6, <1>1
  <2>2. j \in 2..(1 + Len(lines)) /\ f[j] = j - 1 /\ j - 1 \in DOMAIN lines
    BY <2>1, <1>3, <1>5
  <2>3. t[j] = lines[f[j]]
    BY <2>2, <1>6
  <2> QED BY <2>2, <2>3, <1>8 DEF SameKey
<1> HIDE DEF f
<1>9. KeysOnce(t)
  BY <1>4, <1>7, <1>8, CarryKeys
<1> QED BY <1>4, <1>9 DEF WithTextHdr, t, c

\* The first of the entries that match, when there is one.
LEMMA FirstMatchIs ==
  ASSUME NEW lines \in Seq(CopyLine), NEW id, NEW inst, EntryMatches(lines, id, inst) # {}
  PROVE  /\ FirstMatch(EntryMatches(lines, id, inst)) \in 1..Len(lines)
         /\ lines[FirstMatch(EntryMatches(lines, id, inst))].kind = "entry"
<1> DEFINE S == EntryMatches(lines, id, inst)
<1>1. S \subseteq 1..Len(lines) /\ \A i \in S : lines[i].kind = "entry"
  BY LinesOf DEF EntryMatches
<1> HIDE DEF S
<1>2. S \subseteq Nat /\ S # {}
  BY <1>1 DEF S
<1>3. \E i \in S : \A j \in S : i <= j
  BY <1>2, LeastNat
<1>4. FirstMatch(S) \in S
  BY <1>3 DEF FirstMatch
<1> QED BY <1>1, <1>4 DEF S

LEMMA NewText ==
  ASSUME NEW l \in EntryLine, NEW val \in CfText, NEW com \in CfText
  PROVE  /\ [l EXCEPT !.val = val, !.com = com] \in EntryLine
         /\ [l EXCEPT !.val = val, !.com = com].ends = l.ends
         /\ Keyed([l EXCEPT !.val = val, !.com = com]) => SameKey([l EXCEPT !.val = val, !.com = com], l)
<1> DEFINE m == [l EXCEPT !.val = val, !.com = com]
<1>1. m = [kind |-> l.kind, id |-> l.id, inst |-> l.inst, val |-> val, com |-> com,
            ends |-> l.ends, torn |-> l.torn]
  <2>1. l = [kind |-> l.kind, id |-> l.id, inst |-> l.inst, val |-> l.val, com |-> l.com,
            ends |-> l.ends, torn |-> l.torn]
    BY DEF EntryLine
  <2> DEFINE v == [l EXCEPT !.val = val]
  <2>2. v = [kind |-> l.kind, id |-> l.id, inst |-> l.inst, val |-> val, com |-> l.com,
            ends |-> l.ends, torn |-> l.torn]
    BY ONLY <2>1
  <2>3. m = [v EXCEPT !.com = com]
    OBVIOUS
  <2> HIDE DEF v
  <2>4. [v EXCEPT !.com = com]
        = [kind |-> l.kind, id |-> l.id, inst |-> l.inst, val |-> val, com |-> com,
            ends |-> l.ends, torn |-> l.torn]
    BY ONLY <2>2
  <2> HIDE DEF m
  <2> QED BY ONLY <2>3, <2>4
<1> HIDE DEF m
<1> QED BY <1>1 DEF m, EntryLine, SameKey, Keyed

\* What radCfPutEntry makes of the copy.
PutLines(lines, id, inst, val, com) ==
    LET found == EntryMatches(lines, id, inst)
        i == FirstMatch(found)
    IN  IF found # {}
        THEN [lines EXCEPT ![i].val = val, ![i].com = IF com = Blank THEN @ ELSE com]
        ELSE Append(lines, Entry(id, inst, val, com))

LEMMA PutEntryKeeps ==
  ASSUME NEW lines \in Seq(CopyLine), KeysOnce(lines), NEW id \in CfIds, NEW inst \in CfInstances,
         NEW val \in CfValues, NEW com \in CfComments
  PROVE  /\ PutLines(lines, id, inst, val, com) \in Seq(CopyLine)
         /\ KeysOnce(PutLines(lines, id, inst, val, com))
<1> DEFINE found == EntryMatches(lines, id, inst)
           i == FirstMatch(found)
           put == PutLines(lines, id, inst, val, com)
<1>1. CASE found # {}
  <2> DEFINE old == lines[i]
             text == IF com = Blank THEN old.com ELSE com
             l == [old EXCEPT !.val = val, !.com = text]
  <2>1. i \in 1..Len(lines) /\ old.kind = "entry"
    BY <1>1, FirstMatchIs
  <2>2. put = [lines EXCEPT ![i].val = val, ![i].com = IF com = Blank THEN @ ELSE com]
    BY <1>1 DEF PutLines
  <2> HIDE DEF i, put
  <2>3. old \in CopyLine /\ old \in EntryLine /\ old.ends
    <3>1. old \in CopyLine
      BY <2>1, LinesOf
    <3> QED BY <2>1, <3>1, LineIs DEF CopyLine
  <2>4. lines \in [1..Len(lines) -> CopyLine]
    BY LenProperties
  <2>5. put = [lines EXCEPT ![i] = l]
    BY <2>1, <2>2, <2>4, <2>3 DEF EntryLine
  <2>6. text \in CfText /\ val \in CfText
    BY <2>3 DEF CfText, EntryLine
  <2>7. l \in CopyLine /\ (Keyed(l) => SameKey(l, old))
    <3> HIDE DEF text, old
    <3>1. l \in EntryLine /\ l.ends = old.ends /\ (Keyed(l) => SameKey(l, old))
      BY <2>3, <2>6, NewText
    <3> HIDE DEF l
    <3>2. l.kind = "entry"
      BY <3>1 DEF EntryLine
    <3> QED BY <2>3, <3>1, <3>2 DEF CopyLine, CfLine
  <2> HIDE DEF l
  <2>8. [lines EXCEPT ![i] = l] \in Seq(CopyLine) /\ KeysOnce([lines EXCEPT ![i] = l])
    BY <2>1, <2>7, ChangeKeeps
  <2> QED BY <2>5, <2>8 DEF put
<1>2. CASE found = {}
  <2> DEFINE l == Entry(id, inst, val, com)
  <2>1. l \in CopyLine /\ l.id = id /\ l.inst = inst
    <3>1. l = AnEntry(id, inst, val, com, TRUE, FALSE)
      BY DEF Entry
    <3>2. val \in CfText /\ com \in CfText /\ inst \in CfInstances \cup {NoInstance}
      BY DEF CfText
    <3>3. l \in EntryLine
      BY <3>1, <3>2, AnEntryIs
    <3>4. l.kind = "entry" /\ l.ends = TRUE /\ l.id = id /\ l.inst = inst
      BY <3>1 DEF AnEntry
    <3> QED BY <3>3, <3>4 DEF CopyLine, CfLine
  <2>2. put = Append(lines, l)
    BY <1>2 DEF PutLines
  <2> HIDE DEF l, put
  <2>3. ASSUME NEW j \in DOMAIN lines PROVE ~SameKey(lines[j], l)
    <3> SUFFICES ASSUME SameKey(lines[j], l) PROVE FALSE
      OBVIOUS
    <3>1. lines[j].kind = "entry" /\ lines[j].id = id /\ lines[j].inst = inst
      BY <2>1 DEF SameKey, Keyed
    <3>2. j \in found
      BY <3>1 DEF EntryMatches
    <3> QED BY <3>2, <1>2
  <2>4. put \in Seq(CopyLine) /\ KeysOnce(put)
    BY <2>1, <2>2, <2>3, AppendKeys
  <2> QED BY <2>4 DEF put
<1> QED BY <1>1, <1>2

------------------------------------------------------------------------------
(* Configuration files: what goes to the file *)

LEMMA GarbledIs ==
  ASSUME NEW e, e \in BOOLEAN, NEW l \in Garbled(e)
  PROVE  l \in CfLine /\ ~Keyed(l)
<1> DEFINE S == {AnEntry(id, inst, Blank, Blank, e, TRUE) : id \in CfIds, inst \in CfInstances}
<1>1. CASE l = Comment(e)
  <2>1. Comment(e) \in CopyLine /\ ~Keyed(Comment(e))
    BY CommentIs
  <2> QED BY <1>1, <2>1 DEF CopyLine
<1>2. CASE l = Invalid(e)
  <2>1. Invalid(e) \in [kind : {"invalid"}, ends : BOOLEAN] /\ Invalid(e).kind = "invalid"
    BY DEF Invalid
  <2> QED BY <1>2, <2>1 DEF CfLine, Keyed
<1>3. CASE l \in S
  <2>1. PICK id \in CfIds, inst \in CfInstances : l = AnEntry(id, inst, Blank, Blank, e, TRUE)
    BY <1>3 DEF AnEntry
  <2>2. Blank \in CfText /\ inst \in CfInstances \cup {NoInstance}
    BY DEF CfText
  <2>3. l \in EntryLine
    BY <2>1, <2>2, AnEntryIs
  <2>4. l.torn = TRUE
    BY <2>1 DEF AnEntry
  <2> QED BY <2>3, <2>4 DEF CfLine, Keyed
<1>4. l \in {Comment(e), Invalid(e)} \cup S
  BY DEF Garbled, AnEntry
<1> HIDE DEF S
<1> QED BY <1>1, <1>2, <1>3, <1>4

LEMMA BehindGapIs ==
  ASSUME NEW e \in BOOLEAN, NEW l \in BehindGap(e)
  PROVE  l \in CfLine /\ ~Keyed(l)
BY GarbledIs, CommentIs DEF BehindGap

LEMMA FirstPartIs ==
  ASSUME NEW l \in CopyLine, NEW t \in FirstPart(l)
  PROVE  t \in CfLine /\ (Keyed(t) => SameKey(t, l))
<1>1. l \in CfLine /\ (l.kind = "comment" \/ l.kind = "entry")
  BY DEF CopyLine
<1>2. CASE l.kind = "comment"
  <2>1. t = Comment(FALSE)
    BY <1>2 DEF FirstPart
  <2> QED BY <2>1, CommentIs
<1>3. CASE l.kind = "entry"
  <2>1. /\ l \in EntryLine /\ l.kind = "entry" /\ l.id \in CfIds
        /\ l.inst \in CfInstances \cup {NoInstance} /\ l.val \in CfText /\ l.com \in CfText
        /\ l.torn \in BOOLEAN /\ Blank \in CfText
    BY <1>1, <1>3, LineIs DEF EntryLine, CfText
  <2>2. CASE t \in {AnEntry(id, NoInstance, Blank, Blank, FALSE, TRUE) : id \in CfIds}
    <3>1. PICK id \in CfIds : t = AnEntry(id, NoInstance, Blank, Blank, FALSE, TRUE)
      BY <2>2
    <3>2. t \in EntryLine
      BY <2>1, <3>1, AnEntryIs
    <3>3. t.torn = TRUE
      BY <3>1 DEF AnEntry
    <3> QED BY <3>2, <3>3 DEF CfLine, Keyed
  <2>3. CASE t = Invalid(FALSE)
    BY <2>3 DEF Invalid, CfLine, Keyed
  <2>4. CASE t \in {AnEntry(l.id, l.inst, val, Blank, FALSE, l.torn) : val \in {Blank, l.val}}
    <3>1. PICK val \in {Blank, l.val} : t = AnEntry(l.id, l.inst, val, Blank, FALSE, l.torn)
      BY <2>4
    <3>2. t \in EntryLine
      BY <2>1, <3>1, AnEntryIs
    <3>3. t.id = l.id /\ t.inst = l.inst /\ t.torn = l.torn
      BY <3>1 DEF AnEntry
    <3> QED BY <2>1, <3>2, <3>3 DEF CfLine, Keyed, SameKey
  <2>5. CASE t = [l EXCEPT !.ends = FALSE]
    <3>1. t \in EntryLine /\ t.id = l.id /\ t.inst = l.inst /\ t.torn = l.torn
      BY <2>1, <2>5 DEF EntryLine
    <3> QED BY <2>1, <3>1 DEF CfLine, Keyed, SameKey
  <2> QED BY <1>3, <2>2, <2>3, <2>4, <2>5 DEF FirstPart
<1> QED BY <1>1, <1>2, <1>3

\* The whole lines are lines of the file, all of them or all but the last.
LEMMA WholeLinesAre ==
  ASSUME CfTypes
  PROVE  /\ WholeLines \in Seq(CfLine) /\ Len(WholeLines) \in Nat
         /\ \A i \in DOMAIN WholeLines : i \in DOMAIN disk /\ WholeLines[i] = disk[i]
         /\ ~cut => WholeLines = disk
         /\ cut => /\ Len(disk) = Len(WholeLines) + 1
                   /\ Last(disk) = disk[Len(disk)]
<1>1. disk \in Seq(CfLine) /\ (cut => disk # <<>>)
  BY DEF CfTypes
<1>2. Len(disk) \in Nat /\ DOMAIN disk = 1..Len(disk)
  BY <1>1, LinesOf
<1>3. CASE ~cut
  BY <1>1, <1>2, <1>3 DEF WholeLines
<1>4. CASE cut
  <2>1. WholeLines = Front(disk)
    BY <1>4 DEF WholeLines
  <2>2. /\ Front(disk) \in Seq(CfLine) /\ Len(disk) \in Nat \ {0} /\ Len(Front(disk)) = Len(disk) - 1
        /\ \A i \in 1..(Len(disk) - 1) : Front(disk)[i] = disk[i]
        /\ Last(disk) = disk[Len(disk)]
    BY <1>1, <1>4, FrontLines
  <2>3. DOMAIN Front(disk) = 1..(Len(disk) - 1)
    BY <2>2, LinesOf
  <2> QED BY <1>2, <1>4, <2>1, <2>2, <2>3
<1> QED BY <1>3, <1>4

\* Text behind the whole lines, of the line that is next or of no certain key.
LEMMA TextGoesOut ==
  ASSUME CfInv, NEW p \in CfProcs, Writing(p), NEW text \in CfLine,
         Keyed(text) => SameKey(text, LineOf(p))
  PROVE  /\ Append(WholeLines, text) \in Seq(CfLine) /\ Append(WholeLines, text) # <<>>
         /\ KeysOnce(Append(WholeLines, text))
         /\ KeysFrom(Append(WholeLines, text), fileData[p], cfPos[p])
         /\ Front(Append(WholeLines, text)) = WholeLines /\ Last(Append(WholeLines, text)) = text
<1> DEFINE W == WholeLines
           lines == fileData[p]
           n == cfPos[p] - 1
<1>1. /\ lines \in Seq(CopyLine) /\ KeysOnce(lines) /\ KeysOnce(disk)
      /\ cfPos[p] \in 1..(Len(lines) + 1) /\ cfPos[p] <= Len(lines) /\ KeysFrom(W, lines, n)
  BY DEF CfInv, CfTypes, Written, Writing
<1>2. Len(lines) \in Nat
  BY <1>1, LinesOf
<1>3. n \in Nat /\ n + 1 \in 1..Len(lines) /\ n + 1 = cfPos[p]
  BY <1>1, <1>2
<1>4. W \in Seq(CfLine) /\ KeysOnce(W)
  <2>1. W \in Seq(CfLine) /\ \A i \in DOMAIN W : i \in DOMAIN disk /\ W[i] = disk[i]
    BY WholeLinesAre DEF CfInv
  <2> HIDE DEF W
  <2> QED BY <1>1, <2>1, FewerKeys
<1>5. Keyed(text) => SameKey(text, lines[n + 1])
  BY <1>3 DEF LineOf
<1> HIDE DEF W, lines, n
<1>6. /\ Append(W, text) \in Seq(CfLine) /\ KeysOnce(Append(W, text))
      /\ KeysFrom(Append(W, text), lines, n + 1)
  BY <1>1, <1>3, <1>4, <1>5, AppendKeyOf
<1>7. Append(W, text) # <<>> /\ Front(Append(W, text)) = W /\ Last(Append(W, text)) = text
  BY <1>4, FrontAppend
<1> QED BY <1>3, <1>6, <1>7 DEF W, lines

------------------------------------------------------------------------------
(* Configuration files: the invariant is inductive *)

LEMMA CfStarts == ASSUME CfInit PROVE CfInv
<1>1. <<>> \in Seq(CfLine) /\ <<>> \in Seq(CopyLine) /\ DOMAIN <<>> = {} /\ Len(<<>>) = 0
  BY EmptySeq, LinesOf
<1>2. CfTypes
  BY <1>1 DEF CfInit, CfTypes
<1>3. KeysOnce(<<>>)
  BY <1>1 DEF KeysOnce
<1>4. Begun
  <2>1. WholeLines = <<>> /\ saved = <<>> /\ ~cut /\ ~gap
    BY DEF CfInit, WholeLines
  <2> QED BY <1>1, <2>1 DEF Begun
<1> QED BY <1>2, <1>3, <1>4 DEF CfInit, CfInv, LockedWhileWriting, Written

\* While one process is in radCfFlush no other is.
LEMMA OneWriter ==
  ASSUME CfTypes, LockedWhileWriting, NEW p \in CfProcs, cfPc[p] \in {"locked", "writing"}
  PROVE  \A q \in CfProcs \ {p} : cfPc[q] \notin {"locked", "writing"}
BY DEF CfTypes, LockedWhileWriting

\* What a step must show that leaves the file and what is known of the flush.
LEMMA FileStays ==
  ASSUME CfInv, UNCHANGED <<diskVars, flushVars>>, CfTypes', LockedWhileWriting',
         \A q \in CfProcs : KeysOnce(fileData'[q]),
         \A q \in CfProcs : cfPc'[q] = "writing" =>
            cfPc[q] = "writing" /\ fileData'[q] = fileData[q] /\ cfPos'[q] = cfPos[q]
  PROVE  CfInv'
<1>1. UNCHANGED <<disk, cut, gap, saved, answered, dropped>>
  BY DEF diskVars, flushVars
<1>2. WholeLines' = WholeLines
  BY <1>1 DEF WholeLines
<1>3. Begun'
  BY <1>1, <1>2 DEF CfInv, Begun
<1>4. ASSUME NEW q \in CfProcs PROVE Written(q)'
  <2>1. SUFFICES ASSUME cfPc'[q] = "writing"
                 PROVE  Written(q)'
    BY DEF Written
  <2>2. /\ cfPc[q] = "writing" /\ fileData'[q] = fileData[q] /\ cfPos'[q] = cfPos[q] /\ Written(q)
    BY <2>1 DEF CfInv
  <2> QED BY <1>1, <1>2, <2>2 DEF Written
<1> QED BY <1>1, <1>3, <1>4 DEF CfInv

\* A process gets another copy, outside of radCfFlush.
LEMMA CopyChanges ==
  ASSUME CfAssumption, CfInv, NEW p \in CfProcs, NEW lines \in Seq(CopyLine), KeysOnce(lines),
         NEW pc \in {"closed", "reading", "open"}, cfPc[p] \in {"closed", "reading", "open"},
         cfPc' = [cfPc EXCEPT ![p] = pc], fileData' = [fileData EXCEPT ![p] = lines],
         overtaken' \subseteq CfProcs, UNCHANGED <<diskVars, flushVars, cfLock, cfPos, cfKilled>>
  PROVE  CfInv'
<1>1. UNCHANGED <<disk, cut, gap, saved, answered, dropped, cfLock, cfPos, cfKilled>>
  BY DEF diskVars, flushVars
<1>2. CfTypes /\ LockedWhileWriting
  BY DEF CfInv
<1>3. /\ cfPc'[p] = pc /\ fileData'[p] = lines
      /\ \A q \in CfProcs \ {p} : cfPc'[q] = cfPc[q] /\ fileData'[q] = fileData[q]
  BY <1>2 DEF CfTypes
<1>4. CfTypes'
  BY <1>1, <1>2 DEF CfTypes
<1>5. LockedWhileWriting'
  BY <1>1, <1>2, <1>3 DEF CfTypes, LockedWhileWriting
<1>6. \A q \in CfProcs : KeysOnce(fileData'[q])
  BY <1>3 DEF CfInv
<1>7. \A q \in CfProcs : cfPc'[q] = "writing" =>
         cfPc[q] = "writing" /\ fileData'[q] = fileData[q] /\ cfPos'[q] = cfPos[q]
  BY <1>1, <1>3
<1> QED BY <1>4, <1>5, <1>6, <1>7, FileStays

\* A call that changes a copy.
LEMMA EditKeeps ==
  ASSUME CfAssumption, CfInv, NEW p \in CfProcs, Changes(p), NEW lines \in Seq(CopyLine), KeysOnce(lines),
         SetCopy(p, lines)
  PROVE  CfInv'
<1>1. /\ cfPc[p] = "open" /\ fileData' = [fileData EXCEPT ![p] = lines]
      /\ UNCHANGED <<diskVars, flushVars, cfLock, cfPc, cfPos, cfKilled, overtaken>>
  BY DEF Changes, SetCopy
<1>2. cfPc' = [cfPc EXCEPT ![p] = "open"] /\ overtaken' \subseteq CfProcs
  BY <1>1 DEF CfInv, CfTypes
<1> QED BY <1>1, <1>2, CopyChanges

LEMMA EmptyCopy == <<>> \in Seq(CopyLine) /\ <<>> \in Seq(CfLine) /\ KeysOnce(<<>>)
BY EmptySeq, LinesOf DEF KeysOnce

\* radCfOpen begins, comes to the end of the file, or reads lines of two files;
\* radCfClose.
LEMMA OpenKeeps ==
  ASSUME CfAssumption, CfInv, NEW p \in CfProcs, radCfOpen(p)
  PROVE  CfInv'
<1>1. /\ cfPc[p] = "closed" /\ cfPc' = [cfPc EXCEPT ![p] = "reading"]
      /\ UNCHANGED <<diskVars, flushVars, cfLock, fileData, cfPos, cfKilled, overtaken>>
  BY DEF radCfOpen
<1>2. /\ fileData[p] \in Seq(CopyLine) /\ KeysOnce(fileData[p]) /\ overtaken' \subseteq CfProcs
      /\ fileData' = [fileData EXCEPT ![p] = fileData[p]]
  BY <1>1 DEF CfInv, CfTypes
<1> QED BY <1>1, <1>2, CopyChanges

LEMMA ReadsEndKeeps ==
  ASSUME CfAssumption, CfInv, NEW p \in CfProcs, ReadsEnd(p)
  PROVE  CfInv'
<1>1. /\ cfPc[p] = "reading" /\ cfPc' = [cfPc EXCEPT ![p] = "open"]
      /\ fileData' = [fileData EXCEPT ![p] = ReadFile(disk)]
      /\ UNCHANGED <<diskVars, flushVars, cfLock, cfPos, cfKilled, overtaken>>
  BY DEF ReadsEnd
<1>2. disk \in Seq(CfLine) /\ KeysOnce(disk) /\ overtaken' \subseteq CfProcs
  BY <1>1 DEF CfInv, CfTypes
<1>3. ReadFile(disk) \in Seq(CopyLine) /\ KeysOnce(ReadFile(disk))
  BY <1>2, ReadFileKeys
<1> QED BY <1>1, <1>2, <1>3, CopyChanges

\* The first lines of a copy, and lines of no certain key.
LEMMA TwoFilesKeys ==
  ASSUME NEW s \in Seq(CopyLine), KeysOnce(s), NEW n \in 0..Len(s),
         NEW behind \in Seq(Garbled(TRUE))
  PROVE  SubSeq(s, 1, n) \o behind \in Seq(CfLine) /\ KeysOnce(SubSeq(s, 1, n) \o behind)
<1> DEFINE a == SubSeq(s, 1, n)
           t == a \o behind
           f == [i \in DOMAIN t |-> IF i <= n THEN i ELSE 0 - i]
<1>1. Len(s) \in Nat /\ n \in Nat /\ DOMAIN s = 1..Len(s) /\ \A i \in 1..Len(s) : s[i] \in CfLine
  BY LinesOf, CopyText
<1>2. a \in Seq(CfLine) /\ Len(a) = n /\ \A i \in 1..n : a[i] = s[i]
  <2>1. 1 \in Int /\ n \in Int /\ \A i \in 1..n : s[i] \in CfLine /\ 1 + i - 1 = i
    BY <1>1
  <2>2. /\ a \in Seq(CfLine) /\ Len(a) = IF 1 <= n THEN n - 1 + 1 ELSE 0
        /\ \A i \in 1..(n - 1 + 1) : a[i] = s[1 + i - 1]
    BY <2>1, SubSeqProperties
  <2>3. 1..(n - 1 + 1) = 1..n /\ (IF 1 <= n THEN n - 1 + 1 ELSE 0) = n
    BY <1>1
  <2> HIDE DEF a
  <2> QED BY <2>1, <2>2, <2>3
<1>3. /\ behind \in Seq(CfLine) /\ Len(behind) \in Nat
      /\ \A i \in 1..Len(behind) : ~Keyed(behind[i])
  <2>1. Garbled(TRUE) \subseteq CfLine
    BY GarbledIs
  <2>2. behind \in Seq(CfLine)
    BY <2>1, SeqMonotonic
  <2>3. Len(behind) \in Nat /\ \A i \in 1..Len(behind) : behind[i] \in Garbled(TRUE)
    BY LinesOf
  <2> QED BY <2>2, <2>3, GarbledIs
<1> HIDE DEF a
<1>4. /\ t \in Seq(CfLine) /\ Len(t) = n + Len(behind)
      /\ \A i \in 1..(n + Len(behind)) : t[i] = IF i <= n THEN a[i] ELSE behind[i - n]
  BY <1>2, <1>3, ConcatProperties
<1>5. DOMAIN t = 1..(n + Len(behind))
  BY <1>4, LinesOf
<1> HIDE DEF t
<1>6. f \in [DOMAIN t -> Int] /\ \A i, j \in DOMAIN t : f[i] = f[j] => i = j
  BY <1>1, <1>3, <1>5
<1>7. ASSUME NEW i \in DOMAIN t, Keyed(t[i])
      PROVE  f[i] \in DOMAIN s /\ SameKey(t[i], s[f[i]])
  <2>1. CASE i <= n
    <3>1. f[i] = i /\ i \in 1..n /\ i \in DOMAIN s
      BY <2>1, <1>1, <1>3, <1>5
    <3>2. t[i] = s[i]
      BY <3>1, <2>1, <1>2, <1>4, <1>5
    <3> QED BY <3>1, <3>2, <1>7 DEF SameKey
  <2>2. CASE ~(i <= n)
    <3>1. i - n \in 1..Len(behind)
      BY <2>2, <1>1, <1>3, <1>5
    <3>2. t[i] = behind[i - n]
      BY <2>2, <1>4, <1>5
    <3> QED BY <3>1, <3>2, <1>3, <1>7
  <2> QED BY <2>1, <2>2
<1> HIDE DEF f
<1>8. KeysOnce(t)
  BY <1>6, <1>7, CarryKeys
<1> QED BY <1>4, <1>8 DEF t, a

LEMMA TwoFilesKeeps ==
  ASSUME CfAssumption, CfInv, NEW p \in CfProcs, ReadsTwoFiles(p)
  PROVE  CfInv'
<1>1. /\ cfPc[p] = "reading" /\ cfPc' = [cfPc EXCEPT ![p] = "open"]
      /\ overtaken' = overtaken \ {p}
      /\ UNCHANGED <<diskVars, flushVars, cfLock, cfPos, cfKilled>>
  BY DEF ReadsTwoFiles
<1>2. PICK n \in 0..Len(fileData[p]), behind \in SeqOf(Garbled(TRUE), MaxCfLines) :
         fileData' = [fileData EXCEPT ![p] = ReadFile(SubSeq(fileData[p], 1, n) \o behind)]
  BY DEF ReadsTwoFiles
<1>3. behind \in Seq(Garbled(TRUE))
  <2>1. PICK m \in 0..MaxCfLines : behind \in [1..m -> Garbled(TRUE)]
    BY DEF SeqOf
  <2>2. m \in Nat
    BY <2>1 DEF CfAssumption
  <2> QED BY <2>1, <2>2, SeqDef
<1>4. fileData[p] \in Seq(CopyLine) /\ KeysOnce(fileData[p]) /\ overtaken' \subseteq CfProcs
  BY <1>1 DEF CfInv, CfTypes
<1> DEFINE both == SubSeq(fileData[p], 1, n) \o behind
<1>5. both \in Seq(CfLine) /\ KeysOnce(both)
  BY <1>2, <1>3, <1>4, TwoFilesKeys
<1> HIDE DEF both
<1>6. ReadFile(both) \in Seq(CopyLine) /\ KeysOnce(ReadFile(both))
  BY <1>5, ReadFileKeys
<1>7. fileData' = [fileData EXCEPT ![p] = ReadFile(both)]
  BY <1>2 DEF both
<1> QED BY <1>1, <1>4, <1>6, <1>7, CopyChanges

LEMMA CloseKeeps ==
  ASSUME CfAssumption, CfInv, NEW p \in CfProcs, radCfClose(p)
  PROVE  CfInv'
<1>1. /\ cfPc[p] = "open" /\ cfPc' = [cfPc EXCEPT ![p] = "closed"]
      /\ fileData' = [fileData EXCEPT ![p] = <<>>]
      /\ UNCHANGED <<diskVars, flushVars, cfLock, cfPos, cfKilled, overtaken>>
  BY DEF radCfClose
<1>2. overtaken' \subseteq CfProcs
  BY <1>1 DEF CfInv, CfTypes
<1> QED BY <1>1, <1>2, EmptyCopy, CopyChanges

LEMMA LockKeeps ==
  ASSUME CfAssumption, CfInv, NEW p \in CfProcs, radCfLockFile(p)
  PROVE  CfInv'
<1>1. /\ cfPc[p] = "open" /\ cfLock = NoOne /\ cfLock' = p
      /\ cfPc' = [cfPc EXCEPT ![p] = "locked"]
      /\ UNCHANGED <<diskVars, flushVars, overtaken, fileData, cfPos, cfKilled>>
  BY DEF radCfLockFile
<1>2. CfTypes /\ LockedWhileWriting
  BY DEF CfInv
<1>3. cfPc'[p] = "locked" /\ \A q \in CfProcs \ {p} : cfPc'[q] = cfPc[q]
  BY <1>1, <1>2 DEF CfTypes
<1>4. \A q \in CfProcs : cfPc[q] \notin {"locked", "writing"}
  BY <1>1, <1>2 DEF LockedWhileWriting, CfAssumption
<1>5. CfTypes'
  BY <1>1, <1>2 DEF CfTypes, diskVars, flushVars
<1>6. LockedWhileWriting'
  BY <1>1, <1>2, <1>3, <1>4 DEF CfTypes, LockedWhileWriting
<1>7. \A q \in CfProcs : KeysOnce(fileData'[q])
  BY <1>1 DEF CfInv
<1>8. \A q \in CfProcs : cfPc'[q] # "writing"
  BY <1>3, <1>4
<1> QED BY <1>1, <1>5, <1>6, <1>7, <1>8, FileStays

\* radCfFlush truncates the file; the readers have lines of it.
LEMMA FlushOpensKeeps ==
  ASSUME CfAssumption, CfInv, NEW p \in CfProcs, FlushOpens(p)
  PROVE  CfInv'
<1>1. /\ cfPc[p] = "locked" /\ disk' = <<>> /\ cut' = FALSE /\ gap' = FALSE
      /\ overtaken' = overtaken \cup Readers
      /\ fileData' = [q \in CfProcs |-> IF q = p THEN WithTextHdr(fileData[q])
                                       ELSE IF q \in Readers THEN ReadFile(disk) ELSE fileData[q]]
      /\ cfPc' = [cfPc EXCEPT ![p] = "writing"] /\ cfPos' = [cfPos EXCEPT ![p] = 1]
      /\ saved' = WithTextHdr(fileData[p]) /\ answered' = FALSE /\ dropped' = FALSE
      /\ UNCHANGED <<cfLock, cfKilled>>
  BY DEF FlushOpens
<1>2. /\ CfTypes /\ LockedWhileWriting /\ disk \in Seq(CfLine) /\ KeysOnce(disk)
      /\ \A q \in CfProcs : fileData[q] \in Seq(CopyLine) /\ KeysOnce(fileData[q])
  BY DEF CfInv, CfTypes
<1>3. WithTextHdr(fileData[p]) \in Seq(CopyLine) /\ KeysOnce(WithTextHdr(fileData[p]))
  BY <1>2, TextHdrKeeps
<1>4. ReadFile(disk) \in Seq(CopyLine) /\ KeysOnce(ReadFile(disk))
  BY <1>2, ReadFileKeys
<1>5. /\ cfPc'[p] = "writing" /\ cfPos'[p] = 1 /\ fileData'[p] = WithTextHdr(fileData[p])
      /\ \A q \in CfProcs \ {p} : cfPc'[q] = cfPc[q]
  BY <1>1, <1>2 DEF CfTypes
<1>6. \A q \in CfProcs : fileData'[q] \in Seq(CopyLine) /\ KeysOnce(fileData'[q])
  BY <1>1, <1>2, <1>3, <1>4
<1>7. CfTypes'
  <2>1. fileData' \in [CfProcs -> Seq(CopyLine)]
    BY <1>1, <1>6
  <2>2. overtaken' \subseteq CfProcs /\ cfPos' \in [CfProcs -> Nat]
        /\ cfPc' \in [CfProcs -> {"closed", "reading", "open", "locked", "writing"}]
    BY <1>1, <1>2 DEF CfTypes, Readers
  <2> QED BY <1>1, <1>2, <1>3, <2>1, <2>2, EmptyCopy DEF CfTypes
<1>8. LockedWhileWriting'
  BY <1>1, <1>2, <1>5 DEF CfTypes, LockedWhileWriting
<1>9. WholeLines' = <<>> /\ Len(<<>>) = 0 /\ DOMAIN <<>> = {} /\ Len(saved') \in Nat
  BY <1>1, <1>3, EmptyCopy, LinesOf DEF WholeLines
<1>10. Begun'
  BY <1>1, <1>9 DEF Begun
<1>11. ASSUME NEW q \in CfProcs PROVE Written(q)'
  <2>1. CASE q = p
    <3>1. cfPos'[q] \in 1..(Len(fileData'[q]) + 1) /\ Len(WholeLines') = cfPos'[q] - 1
      BY <2>1, <1>1, <1>5, <1>9
    <3>2. saved' = fileData'[q] /\ ~answered' /\ KeysFrom(WholeLines', fileData'[q], cfPos'[q] - 1)
      BY <2>1, <1>1, <1>5, <1>9 DEF KeysFrom
    <3> QED BY <3>1, <3>2 DEF Written
  <2>2. CASE q # p
    <3>1. cfPc'[q] # "writing"
      BY <1>1, <1>2, <1>5, <2>2, OneWriter
    <3> QED BY <3>1 DEF Written
  <2> QED BY <2>1, <2>2
<1>12. KeysOnce(disk)'
  BY <1>1, EmptyCopy
<1> QED BY <1>6, <1>7, <1>8, <1>10, <1>11, <1>12 DEF CfInv

\* What is common to the steps that write: the copies stay, and one process is
\* at it.
LEMMA WritingStays ==
  ASSUME CfInv, NEW p \in CfProcs, Writing(p),
         UNCHANGED <<cfLock, cfPc, overtaken, fileData, saved, answered, cfKilled>>
  PROVE  /\ CfTypes /\ fileData[p] \in Seq(CopyLine) /\ saved = fileData[p] /\ ~answered
         /\ Len(fileData[p]) \in Nat /\ cfPos[p] \in 1..Len(fileData[p])
         /\ LineOf(p) \in CopyLine /\ LineOf(p) \in CfLine /\ LineOf(p) = saved[cfPos[p]]
         /\ KeysFrom(WholeLines, fileData[p], cfPos[p] - 1)
         /\ ~dropped => Len(WholeLines) = cfPos[p] - 1
         /\ LockedWhileWriting' /\ \A q \in CfProcs : KeysOnce(fileData'[q])
         /\ \A q \in CfProcs \ {p} : Written(q)'
<1>1. /\ cfPc[p] = "writing" /\ cfPos[p] <= Len(fileData[p]) /\ CfTypes /\ LockedWhileWriting
      /\ Written(p) /\ fileData[p] \in Seq(CopyLine) /\ \A q \in CfProcs : KeysOnce(fileData[q])
  BY DEF Writing, CfInv, CfTypes
<1>2. Len(fileData[p]) \in Nat /\ \A i \in 1..Len(fileData[p]) : fileData[p][i] \in CopyLine
  BY <1>1, LinesOf
<1>3. /\ ~answered /\ saved = fileData[p] /\ cfPos[p] \in 1..(Len(fileData[p]) + 1)
      /\ KeysFrom(WholeLines, fileData[p], cfPos[p] - 1)
      /\ ~dropped => Len(WholeLines) = cfPos[p] - 1
  BY <1>1 DEF Written
<1>4. cfPos[p] \in 1..Len(fileData[p])
  BY <1>1, <1>2, <1>3
<1>5. LineOf(p) \in CopyLine /\ LineOf(p) \in CfLine /\ LineOf(p) = saved[cfPos[p]]
  BY <1>2, <1>3, <1>4 DEF LineOf, CopyLine
<1>6. LockedWhileWriting' /\ \A q \in CfProcs : KeysOnce(fileData'[q])
  BY <1>1 DEF LockedWhileWriting
<1>7. \A q \in CfProcs \ {p} : Written(q)'
  BY <1>1, OneWriter DEF Written
<1> QED BY <1>1, <1>2, <1>3, <1>4, <1>5, <1>6, <1>7

\* A line goes to the file, or the rest of one.
LEMMA LineGoesOutKeeps ==
  ASSUME CfAssumption, CfInv, NEW p \in CfProcs, LineGoesOut(p)
  PROVE  CfInv'
<1>1. /\ Writing(p) /\ cut' = FALSE /\ gap' = FALSE /\ cfPos' = [cfPos EXCEPT ![p] = cfPos[p] + 1]
      /\ UNCHANGED <<cfLock, cfPc, overtaken, fileData, saved, answered, dropped, cfKilled>>
  BY DEF LineGoesOut, flushVars
<1>2. PICK text \in (IF gap THEN BehindGap(LineOf(p).ends) ELSE {LineOf(p)}) :
         disk' = Append(WholeLines, text)
  BY DEF LineGoesOut
<1>3. /\ CfTypes /\ saved = fileData[p] /\ ~answered
      /\ Len(fileData[p]) \in Nat /\ cfPos[p] \in 1..Len(fileData[p])
      /\ LineOf(p) \in CopyLine /\ LineOf(p) \in CfLine /\ LineOf(p) = saved[cfPos[p]]
      /\ ~dropped => Len(WholeLines) = cfPos[p] - 1
      /\ LockedWhileWriting' /\ \A q \in CfProcs : KeysOnce(fileData'[q])
      /\ \A q \in CfProcs \ {p} : Written(q)'
  BY <1>1, WritingStays
<1>4. text \in CfLine /\ (Keyed(text) => SameKey(text, LineOf(p))) /\ (~gap => text = LineOf(p))
  <2>1. CASE gap
    <3>1. text \in BehindGap(LineOf(p).ends) /\ LineOf(p).ends \in BOOLEAN
      BY <1>2, <1>3, <2>1, LineIs
    <3> QED BY <2>1, <3>1, BehindGapIs
  <2>2. CASE ~gap
    BY <1>2, <1>3, <2>2 DEF SameKey
  <2> QED BY <2>1, <2>2
<1>5. /\ disk' \in Seq(CfLine) /\ KeysOnce(disk') /\ KeysFrom(disk', fileData[p], cfPos[p])
  BY <1>1, <1>2, <1>4, TextGoesOut
<1>6. WholeLines' = disk'
  BY <1>1 DEF WholeLines
<1>7. cfPos'[p] = cfPos[p] + 1 /\ cfPos' \in [CfProcs -> Nat]
  BY <1>1, <1>3 DEF CfTypes
<1>8. CfTypes'
  BY <1>1, <1>3, <1>5, <1>7 DEF CfTypes
<1>9. ASSUME ~dropped
      PROVE  /\ Len(disk') = cfPos[p] /\ \A i \in 1..Len(disk') : disk'[i] = saved[i]
  <2>1. /\ ~gap /\ text = saved[cfPos[p]] /\ Len(WholeLines) = cfPos[p] - 1
        /\ \A i \in 1..Len(WholeLines) : WholeLines[i] = saved[i]
    BY <1>3, <1>4, <1>9 DEF CfInv, Begun
  <2>2. WholeLines \in Seq(CfLine)
    BY <1>3, WholeLinesAre
  <2>3. /\ Len(disk') = Len(WholeLines) + 1 /\ disk'[Len(WholeLines) + 1] = text
        /\ \A i \in 1..Len(WholeLines) : disk'[i] = WholeLines[i]
    BY <1>2, <1>4, <2>2, AppendProperties
  <2>4. Len(disk') = cfPos[p] /\ Len(WholeLines) + 1 = cfPos[p]
    BY <1>3, <2>1, <2>3
  <2>5. \A i \in 1..cfPos[p] : i \in 1..Len(WholeLines) \/ i = cfPos[p]
    BY <1>3, <2>1
  <2> QED BY <2>1, <2>3, <2>4, <2>5
<1>10. Begun'
  BY <1>1, <1>3, <1>6, <1>9 DEF Begun
<1>11. Written(p)'
  <2>1. cfPos[p] + 1 \in 1..(Len(fileData[p]) + 1) /\ (cfPos[p] + 1) - 1 = cfPos[p]
    BY <1>3
  <2> QED BY <2>1, <1>1, <1>3, <1>5, <1>6, <1>7, <1>9 DEF Written
<1> QED BY <1>3, <1>5, <1>8, <1>10, <1>11 DEF CfInv

\* The first part of a line goes to the file.
LEMMA PartGoesOutKeeps ==
  ASSUME CfAssumption, CfInv, NEW p \in CfProcs, PartGoesOut(p)
  PROVE  CfInv'
<1>1. /\ Writing(p) /\ cut' = TRUE
      /\ UNCHANGED <<gap, cfLock, cfPc, overtaken, fileData, cfPos, saved, answered, dropped, cfKilled>>
  BY DEF PartGoesOut, flushVars
<1>2. PICK text \in (IF gap THEN BehindGap(FALSE) ELSE FirstPart(LineOf(p))) :
         disk' = Append(WholeLines, text)
  BY DEF PartGoesOut
<1>3. /\ CfTypes /\ saved = fileData[p] /\ ~answered
      /\ Len(fileData[p]) \in Nat /\ cfPos[p] \in 1..Len(fileData[p])
      /\ LineOf(p) \in CopyLine /\ LineOf(p) \in CfLine /\ LineOf(p) = saved[cfPos[p]]
      /\ KeysFrom(WholeLines, fileData[p], cfPos[p] - 1)
      /\ ~dropped => Len(WholeLines) = cfPos[p] - 1
      /\ LockedWhileWriting' /\ \A q \in CfProcs : KeysOnce(fileData'[q])
      /\ \A q \in CfProcs \ {p} : Written(q)'
  BY <1>1, WritingStays
<1>4. text \in CfLine /\ (Keyed(text) => SameKey(text, LineOf(p))) /\ (~gap => text \in FirstPart(LineOf(p)))
  <2>1. CASE gap
    BY <1>2, <2>1, BehindGapIs
  <2>2. CASE ~gap
    BY <1>2, <1>3, <2>2, FirstPartIs
  <2> QED BY <2>1, <2>2
<1>5. /\ disk' \in Seq(CfLine) /\ disk' # <<>> /\ KeysOnce(disk')
      /\ Front(disk') = WholeLines /\ Last(disk') = text
  BY <1>1, <1>2, <1>4, TextGoesOut
<1>6. WholeLines' = WholeLines
  BY <1>1, <1>5 DEF WholeLines
<1>7. CfTypes'
  BY <1>1, <1>3, <1>5 DEF CfTypes
<1>8. Begun'
  <2>1. SUFFICES ASSUME ~dropped PROVE Begun'
    BY <1>1 DEF Begun
  <2>2. /\ ~gap /\ \A i \in 1..Len(WholeLines) : WholeLines[i] = saved[i]
        /\ Len(WholeLines) = cfPos[p] - 1
    BY <1>3, <2>1 DEF CfInv, Begun
  <2>3. Len(WholeLines) < Len(saved) /\ Len(WholeLines) + 1 = cfPos[p] /\ Len(WholeLines) <= Len(saved)
    BY <1>3, <2>2
  <2>4. Last(disk') \in FirstPart(saved[Len(WholeLines) + 1])
    BY <1>3, <1>4, <1>5, <2>2, <2>3
  <2> QED BY <1>1, <1>3, <1>6, <2>2, <2>3, <2>4 DEF Begun
<1>9. Written(p)'
  BY <1>1, <1>3, <1>6 DEF Written, CfInv
<1> QED BY <1>3, <1>5, <1>7, <1>8, <1>9 DEF CfInv

\* Text is lost, and nobody notices.
LEMMA TextIsLostKeeps ==
  ASSUME CfAssumption, CfInv, NEW p \in CfProcs, TextIsLost(p)
  PROVE  CfInv'
<1>1. /\ Writing(p) /\ gap' = TRUE /\ dropped' = TRUE
      /\ UNCHANGED <<disk, cut, cfLock, cfPc, overtaken, fileData, saved, answered, cfKilled>>
  BY DEF TextIsLost
<1>2. PICK n \in {cfPos[p], cfPos[p] + 1} : cfPos' = [cfPos EXCEPT ![p] = n]
  BY DEF TextIsLost
<1>3. /\ CfTypes /\ saved = fileData[p] /\ ~answered
      /\ Len(fileData[p]) \in Nat /\ cfPos[p] \in 1..Len(fileData[p])
      /\ KeysFrom(WholeLines, fileData[p], cfPos[p] - 1)
      /\ LockedWhileWriting' /\ \A q \in CfProcs : KeysOnce(fileData'[q])
      /\ \A q \in CfProcs \ {p} : Written(q)'
  BY <1>1, WritingStays
<1>4. /\ n \in Nat /\ n \in 1..(Len(fileData[p]) + 1) /\ cfPos[p] - 1 \in Nat
      /\ n - 1 = cfPos[p] - 1 \/ n - 1 = (cfPos[p] - 1) + 1
  BY <1>2, <1>3
<1>5. cfPos'[p] = n /\ cfPos' \in [CfProcs -> Nat]
  BY <1>2, <1>3, <1>4 DEF CfTypes
<1>6. CfTypes'
  BY <1>1, <1>3, <1>5 DEF CfTypes
<1>7. WholeLines' = WholeLines
  BY <1>1 DEF WholeLines
<1>8. KeysFrom(WholeLines, fileData[p], n - 1)
  BY <1>3, <1>4, KeysFromMore
<1>9. Written(p)'
  BY <1>1, <1>3, <1>4, <1>5, <1>7, <1>8 DEF Written
<1>10. Begun' /\ KeysOnce(disk)'
  BY <1>1 DEF Begun, CfInv
<1> QED BY <1>3, <1>6, <1>9, <1>10 DEF CfInv

\* The flush returns, with everything in the file or not.
LEMMA FlushReturns ==
  ASSUME CfAssumption, CfInv, NEW p \in CfProcs,
         FlushOpenFails(p) \/ FlushCommentFails(p) \/ FlushEnds(p)
  PROVE  CfInv'
<1>1. /\ cfPc[p] \in {"locked", "writing"} /\ cfLock' = NoOne
      /\ cfPc' = [cfPc EXCEPT ![p] = "open"] /\ cfPos' = [cfPos EXCEPT ![p] = 0]
      /\ UNCHANGED <<disk, cut, gap, overtaken, fileData, saved, dropped, cfKilled>>
      /\ \/ UNCHANGED answered
         \/ /\ cfPc[p] = "writing" /\ cfPos[p] > Len(fileData[p]) /\ answered' = TRUE
  BY DEF FlushOpenFails, FlushCommentFails, FlushEnds, Writing, radCfUnlockFile, diskVars, flushVars
<1>2. CfTypes /\ LockedWhileWriting /\ fileData[p] \in Seq(CopyLine)
  BY DEF CfInv, CfTypes
<1>3. cfPc'[p] = "open" /\ \A q \in CfProcs \ {p} : cfPc'[q] = cfPc[q]
  BY <1>1, <1>2 DEF CfTypes
<1>4. CfTypes'
  BY <1>1, <1>2 DEF CfTypes
<1>5. LockedWhileWriting'
  BY <1>1, <1>2, <1>3, OneWriter DEF LockedWhileWriting
<1>6. ASSUME NEW q \in CfProcs PROVE KeysOnce(fileData'[q]) /\ Written(q)'
  <2>1. KeysOnce(fileData'[q])
    BY <1>1 DEF CfInv
  <2>2. cfPc'[q] # "writing"
    BY <1>1, <1>2, <1>3, OneWriter
  <2> QED BY <2>1, <2>2 DEF Written
<1>7. WholeLines' = WholeLines
  BY <1>1 DEF WholeLines
<1>8. Begun'
  <2>1. SUFFICES ASSUME ~dropped PROVE Begun'
    BY <1>1 DEF Begun
  <2>2. Begun
    BY DEF CfInv
  <2>3. CASE UNCHANGED answered
    BY <1>1, <1>7, <2>1, <2>2, <2>3 DEF Begun
  <2>4. CASE cfPc[p] = "writing" /\ cfPos[p] > Len(fileData[p]) /\ answered' = TRUE
    <3>1. /\ saved = fileData[p] /\ cfPos[p] \in 1..(Len(saved) + 1)
          /\ Len(WholeLines) = cfPos[p] - 1
      BY <2>1, <2>4 DEF CfInv, Written
    <3>2. Len(saved) \in Nat
      BY <1>2, <3>1, LinesOf
    <3>3. Len(WholeLines) = Len(saved)
      BY <2>4, <3>1, <3>2
    <3> QED BY <1>1, <1>7, <2>1, <2>2, <3>3 DEF Begun
  <2> QED BY <1>1, <2>3, <2>4
<1>9. KeysOnce(disk)'
  BY <1>1 DEF CfInv
<1> QED BY <1>4, <1>5, <1>6, <1>8, <1>9 DEF CfInv

LEMMA KilledKeeps ==
  ASSUME CfAssumption, CfInv, NEW p \in CfProcs, FlushKilled(p)
  PROVE  CfInv'
<1>1. /\ cfPc[p] \in {"locked", "writing"}
      /\ cfPc' = [cfPc EXCEPT ![p] = "closed"] /\ fileData' = [fileData EXCEPT ![p] = <<>>]
      /\ cfKilled' = cfKilled \cup {p} /\ cfPos' = [cfPos EXCEPT ![p] = 0]
      /\ UNCHANGED <<diskVars, flushVars, cfLock, overtaken>>
  BY DEF FlushKilled
<1>2. CfTypes /\ LockedWhileWriting
  BY DEF CfInv
<1>3. /\ fileData'[p] = <<>> /\ cfPc'[p] = "closed"
      /\ \A q \in CfProcs \ {p} : fileData'[q] = fileData[q] /\ cfPc'[q] = cfPc[q] /\ cfPos'[q] = cfPos[q]
  BY <1>1, <1>2 DEF CfTypes
<1>4. CfTypes'
  BY <1>1, <1>2, EmptyCopy DEF CfTypes, diskVars, flushVars
<1>5. LockedWhileWriting'
  BY <1>1, <1>2, <1>3 DEF CfTypes, LockedWhileWriting
<1>6. \A q \in CfProcs : KeysOnce(fileData'[q])
  BY <1>3, EmptyCopy DEF CfInv
<1>7. \A q \in CfProcs : cfPc'[q] = "writing" =>
         cfPc[q] = "writing" /\ fileData'[q] = fileData[q] /\ cfPos'[q] = cfPos[q]
  BY <1>3
<1> QED BY <1>1, <1>4, <1>5, <1>6, <1>7, FileStays

LEMMA CfNextKeeps == ASSUME CfAssumption, CfInv, [CfNext]_cfVars PROVE CfInv'
<1>1. CASE UNCHANGED cfVars
  <2>1. UNCHANGED <<diskVars, flushVars, cfLock, cfPc, overtaken, fileData, cfPos, cfKilled>>
    BY <1>1 DEF cfVars
  <2>2. CfTypes' /\ LockedWhileWriting'
    BY <2>1 DEF CfInv, CfTypes, LockedWhileWriting, diskVars, flushVars
  <2> QED BY <2>1, <2>2, FileStays DEF CfInv
<1>2. ASSUME NEW p \in CfProcs,
             \/ radCfOpen(p) \/ ReadsEnd(p) \/ ReadsTwoFiles(p) \/ radCfClose(p)
             \/ radCfLockFile(p) \/ FlushOpens(p) \/ FlushOpenFails(p)
             \/ LineGoesOut(p) \/ PartGoesOut(p) \/ TextIsLost(p)
             \/ FlushCommentFails(p) \/ FlushEnds(p) \/ FlushKilled(p)
      PROVE  CfInv'
  BY <1>2, OpenKeeps, ReadsEndKeeps, TwoFilesKeeps, CloseKeeps, LockKeeps, FlushOpensKeeps,
     LineGoesOutKeeps, PartGoesOutKeeps, TextIsLostKeeps, FlushReturns, KilledKeeps
<1>3. \A p \in CfProcs : fileData[p] \in Seq(CopyLine) /\ KeysOnce(fileData[p])
  BY DEF CfInv, CfTypes
<1>4. ASSUME NEW p \in CfProcs, NEW e \in BOOLEAN, radCfPutComment(p, e) PROVE CfInv'
  <2>1. Changes(p) /\ SetCopy(p, Append(fileData[p], Comment(e)))
    BY <1>4 DEF radCfPutComment
  <2>2. /\ Append(fileData[p], Comment(e)) \in Seq(CopyLine)
        /\ KeysOnce(Append(fileData[p], Comment(e)))
    BY <1>3, AppendComment
  <2> QED BY <2>1, <2>2, EditKeeps
<1>5. ASSUME NEW p \in CfProcs, NEW id \in CfIds, NEW inst \in CfInstances, NEW e \in BOOLEAN,
             radCfPutCommentBefore(p, id, inst, e)
      PROVE  CfInv'
  <2> DEFINE q == FirstMatch(EntryMatches(fileData[p], id, inst))
  <2>1. /\ Changes(p) /\ EntryMatches(fileData[p], id, inst) # {}
        /\ SetCopy(p, InsertAt(fileData[p], q, Comment(e)))
    BY <1>5 DEF radCfPutCommentBefore
  <2>2. q \in 1..Len(fileData[p])
    BY <2>1, <1>3, FirstMatchIs
  <2> HIDE DEF q
  <2>3. q \in 1..(Len(fileData[p]) + 1)
    BY <2>2, <1>3, LinesOf
  <2>4. /\ InsertAt(fileData[p], q, Comment(e)) \in Seq(CopyLine)
        /\ KeysOnce(InsertAt(fileData[p], q, Comment(e)))
    BY <1>3, <2>3, InsertComment
  <2> QED BY <2>1, <2>4, EditKeeps
<1>6. ASSUME NEW p \in CfProcs, NEW id \in CfIds, NEW inst \in CfInstances,
             NEW val \in CfValues, NEW com \in CfComments, radCfPutEntry(p, id, inst, val, com)
      PROVE  CfInv'
  <2> DEFINE put == PutLines(fileData[p], id, inst, val, com)
  <2>1. Changes(p) /\ SetCopy(p, put)
    BY <1>6 DEF radCfPutEntry, PutLines
  <2>2. put \in Seq(CopyLine) /\ KeysOnce(put)
    BY <1>3, PutEntryKeeps
  <2> HIDE DEF put
  <2> QED BY <2>1, <2>2, EditKeeps
<1> QED BY <1>1, <1>2, <1>4, <1>5, <1>6 DEF CfNext

\* What a reader finds, as long as no write was lost.
LEMMA FlushedIs ==
  ASSUME CfInv, ~dropped, PlainLines(saved)
  PROVE  /\ Len(ReadFile(disk)) <= Len(saved)
         /\ \A i \in DOMAIN ReadFile(disk) :
               ReadFile(disk)[i] = saved[i] \/ (cut /\ i = Len(ReadFile(disk)))
         /\ answered => ReadFile(disk) = saved
<1> DEFINE read == ReadFile(disk)
           n == Len(WholeLines)
<1>1. /\ disk \in Seq(CfLine) /\ KeysOnce(disk) /\ saved \in Seq(CopyLine) /\ CfTypes /\ Begun
  BY DEF CfInv, CfTypes
<1>2. /\ n \in Nat /\ \A i \in DOMAIN WholeLines : i \in DOMAIN disk /\ WholeLines[i] = disk[i]
      /\ (~cut => WholeLines = disk) /\ (cut => Len(disk) = n + 1) /\ WholeLines \in Seq(CfLine)
  BY <1>1, WholeLinesAre
<1>3. DOMAIN WholeLines = 1..n /\ Len(saved) \in Nat /\ DOMAIN saved = 1..Len(saved)
      /\ \A i \in 1..Len(saved) : saved[i] \in CopyLine
  BY <1>1, <1>2, LinesOf
<1>4. /\ n <= Len(saved) /\ \A i \in 1..n : disk[i] = saved[i]
      /\ cut => n < Len(saved)
      /\ answered => n = Len(saved)
  BY <1>1, <1>2, <1>3 DEF Begun
<1>5. \A i \in 1..n : disk[i] \in CopyLine /\ PlainLine(disk[i])
  <2> SUFFICES ASSUME NEW i \in 1..n PROVE disk[i] \in CopyLine /\ PlainLine(disk[i])
    OBVIOUS
  <2> HIDE DEF n
  <2>1. i \in 1..Len(saved) /\ disk[i] = saved[i]
    <3>1. n \in Nat /\ Len(saved) \in Nat /\ n <= Len(saved)
      BY <1>2, <1>3, <1>4
    <3>2. disk[i] = saved[i]
      BY <1>4
    <3> QED BY <3>1, <3>2
  <2> QED BY <2>1, <1>3 DEF PlainLines, PlainLine
<1>6. n = Len(disk) \/ n + 1 = Len(disk)
  BY <1>2
<1>7. read \in Seq(CopyLine)
  BY <1>1, ReadFileKeys
<1>8. Len(read) \in n..Len(disk) /\ \A i \in 1..n : read[i] = disk[i]
  <2> HIDE DEF n
  <2> QED BY <1>1, <1>2, <1>5, <1>6, ReadPlain
<1>9. DOMAIN read = 1..Len(read) /\ Len(read) \in Nat
  BY <1>7, LinesOf
<1>10. ~cut => Len(disk) = n
  BY <1>2
<1> HIDE DEF read, n
<1>11. Len(read) <= Len(saved)
  BY <1>2, <1>3, <1>4, <1>8, <1>9, <1>10
<1>12. ASSUME NEW i \in DOMAIN read PROVE read[i] = saved[i] \/ (cut /\ i = Len(read))
  <2>1. CASE i \in 1..n
    BY <2>1, <1>4, <1>8
  <2>2. CASE i \notin 1..n
    BY <2>2, <1>2, <1>8, <1>9, <1>10
  <2> QED BY <2>1, <2>2
<1>13. ASSUME answered PROVE read = saved
  <2>1. ~cut /\ n = Len(saved)
    <3>1. n = Len(saved) /\ n \in Nat
      BY <1>13, <1>2, <1>4
    <3>2. cut => n < Len(saved)
      BY <1>4
    <3> QED BY <3>1, <3>2
  <2>2. Len(read) = Len(saved)
    BY <2>1, <1>8, <1>9, <1>10, <1>3
  <2>3. \A i \in 1..Len(read) : read[i] = saved[i]
    BY <2>1, <1>9, <1>12
  <2> QED BY <2>2, <2>3, <1>1, <1>7, SeqEqual
<1> QED BY <1>11, <1>12, <1>13 DEF read

\* radCfOpen, the calls that change a copy and radCfFlush, by any number of
\* processes, with text that goes to the file in pieces, writes that fail, a
\* full device, readers that are overtaken and processes that are killed: until
\* a write was lost a reader finds the first lines of what was flushed, and all
\* of them after an OK, but for one line that may be cut; nobody writes but who
\* holds the link; and no copy has two entries for one identifier and instance
\* but where text was cut or lost.
THEOREM ConfigurationAlwaysSurvives == CfSpec => []ConfigurationSurvives
<1>1. CfInit => CfInv
  BY CfStarts
<1>2. CfInv /\ [CfNext]_cfVars => CfInv'
  BY CfNextKeeps, CfAssumption
<1>3. CfInv => ConfigurationSurvives
  <2> SUFFICES ASSUME CfInv PROVE ConfigurationSurvives
    OBVIOUS
  <2>1. ASSUME ~dropped, PlainLines(saved)
        PROVE  /\ Len(ReadFile(disk)) <= Len(saved)
               /\ \A i \in DOMAIN ReadFile(disk) :
                     ReadFile(disk)[i] = saved[i] \/ (cut /\ i = Len(ReadFile(disk)))
               /\ answered => ReadFile(disk) = saved
    BY <2>1, FlushedIs
  <2>2. FlushedIsReadable
    BY <2>1 DEF FlushedIsReadable
  <2>3. KeysUnique
    BY DEF CfInv, KeysUnique, KeysOnce, SameKey, Keyed
  <2> QED BY <2>2, <2>3 DEF CfInv, ConfigurationSurvives
<1> QED BY <1>1, <1>2, <1>3, PTL DEF CfSpec

------------------------------------------------------------------------------
(* The database interface: the inductive invariant *)

\* A field's buffer holds more than its recorded length, and what is not NULL
\* is a value that was set.
FieldFits(f) ==
    /\ f.cvalLength = 0 \/ f.room > f.cvalLength
    /\ ~IsNull(f) => Printed(f) \in DbVals

\* What a field says of its column.
Meaning(f) == IF IsNull(f) THEN NullValue ELSE [val |-> Printed(f), kind |-> PrintedAs(f)]

\* The table has one value per column.
TableFits ==
    table # <<>> =>
        /\ table = <<[cols |-> Columns, rows |-> Rows]>> /\ Columns \in Seq(Field)
        /\ \A r \in Rows : DOMAIN r = DOMAIN Columns /\ r = [c \in DOMAIN r |-> r[c]]

\* The row description prints what the client means.
RowMeant ==
    /\ userRow \in Seq(Field) /\ \A c \in DOMAIN userRow : FieldFits(userRow[c])
    /\ intended = [c \in DOMAIN userRow |-> Meaning(userRow[c])]

DbInv == TableFits /\ RowMeant /\ StatementsMeantAndDone

------------------------------------------------------------------------------
(* The database interface: fields *)

FieldOf(n, t, i, l, v, r, k) ==
    [name |-> n, type |-> t, ivalue |-> i, llvalue |-> l, cvalue |-> v, room |-> r, cvalLength |-> k]

LEMMA FieldIs ==
  ASSUME NEW f \in Field
  PROVE  /\ f = FieldOf(f.name, f.type, f.ivalue, f.llvalue, f.cvalue, f.room, f.cvalLength)
         /\ f.name \in STRING /\ f.type \in SUBSET Traits /\ f.ivalue \in Int /\ f.llvalue \in Int
         /\ f.cvalue \in Int /\ f.room \in Nat /\ f.cvalLength \in Nat
BY DEF Field, FieldOf

LEMMA FieldParts ==
  ASSUME NEW n, NEW t, NEW i, NEW l, NEW v, NEW r, NEW k
  PROVE  LET f == FieldOf(n, t, i, l, v, r, k)
         IN  /\ f.name = n /\ f.type = t /\ f.ivalue = i /\ f.llvalue = l /\ f.cvalue = v
             /\ f.room = r /\ f.cvalLength = k
             /\ n \in STRING /\ t \in SUBSET Traits /\ i \in Int /\ l \in Int /\ v \in Int
                /\ r \in Nat /\ k \in Nat => f \in Field
BY DEF Field, FieldOf

\* One assignment to a field at a time.
LEMMA AssignType ==
  ASSUME NEW n, NEW t, NEW i, NEW l, NEW v, NEW r, NEW k, NEW x, NEW f, f = FieldOf(n, t, i, l, v, r, k)
  PROVE  [f EXCEPT !.type = x] = FieldOf(n, x, i, l, v, r, k)
BY DEF FieldOf

LEMMA AssignInt ==
  ASSUME NEW n, NEW t, NEW i, NEW l, NEW v, NEW r, NEW k, NEW x, NEW f, f = FieldOf(n, t, i, l, v, r, k)
  PROVE  [f EXCEPT !.ivalue = x] = FieldOf(n, t, x, l, v, r, k)
BY DEF FieldOf

LEMMA AssignBigInt ==
  ASSUME NEW n, NEW t, NEW i, NEW l, NEW v, NEW r, NEW k, NEW x, NEW f, f = FieldOf(n, t, i, l, v, r, k)
  PROVE  [f EXCEPT !.llvalue = x] = FieldOf(n, t, i, x, v, r, k)
BY DEF FieldOf

LEMMA AssignText ==
  ASSUME NEW n, NEW t, NEW i, NEW l, NEW v, NEW r, NEW k, NEW x, NEW f, f = FieldOf(n, t, i, l, v, r, k)
  PROVE  [f EXCEPT !.cvalue = x] = FieldOf(n, t, i, l, x, r, k)
BY DEF FieldOf

LEMMA AssignLength ==
  ASSUME NEW n, NEW t, NEW i, NEW l, NEW v, NEW r, NEW k, NEW x, NEW f, f = FieldOf(n, t, i, l, v, r, k)
  PROVE  [f EXCEPT !.cvalLength = x] = FieldOf(n, t, i, l, v, r, x)
BY DEF FieldOf

LEMMA AssignRoom ==
  ASSUME NEW n, NEW t, NEW i, NEW l, NEW v, NEW r, NEW k, NEW x, NEW f, f = FieldOf(n, t, i, l, v, r, k)
  PROVE  [f EXCEPT !.room = x] = FieldOf(n, t, i, l, v, x, k)
BY DEF FieldOf

\* The type of a field after a setter.
TypeAfter(f, kind) == ((f.type \ {"IS_NULL"}) \cap HighByte) \cup {kind}

LEMMA SetIntIs ==
  ASSUME NEW f \in Field, NEW v
  PROVE  FieldSetIntValue(f, v)
         = FieldOf(f.name, TypeAfter(f, "INT"), v, f.llvalue, f.cvalue, f.room, f.cvalLength)
<1> DEFINE g1 == [f EXCEPT !.ivalue = v]
           g2 == [g1 EXCEPT !.type = f.type \ {"IS_NULL"}]
           g3 == [g2 EXCEPT !.type = TypeAfter(f, "INT")]
<1>1. g1 = FieldOf(f.name, f.type, v, f.llvalue, f.cvalue, f.room, f.cvalLength)
  BY FieldIs, AssignInt
<1>2. g1.type = f.type
  BY <1>1, FieldParts
<1>3. [f EXCEPT !.ivalue = v, !.type = @ \ {"IS_NULL"}] = g2
  BY <1>2
<1> HIDE DEF g1
<1>4. g2 = FieldOf(f.name, f.type \ {"IS_NULL"}, v, f.llvalue, f.cvalue, f.room, f.cvalLength)
  BY ONLY <1>1 DEF FieldOf
<1>5. g2.type = f.type \ {"IS_NULL"}
  BY <1>4, FieldParts
<1> HIDE DEF g2
<1>6. FieldSetIntValue(f, v) = g3
  BY <1>3, <1>5 DEF FieldSetIntValue, SetType, TypeAfter
<1>7. g3 = FieldOf(f.name, TypeAfter(f, "INT"), v, f.llvalue, f.cvalue, f.room, f.cvalLength)
  BY ONLY <1>4 DEF FieldOf
<1> QED BY <1>6, <1>7

LEMMA SetWideIs ==
  ASSUME NEW f \in Field, NEW v, NEW kind
  PROVE  FieldSetWide(f, v, kind)
         = FieldOf(f.name, TypeAfter(f, kind), f.ivalue, v, f.cvalue, f.room, f.cvalLength)
<1> DEFINE g1 == [f EXCEPT !.llvalue = v]
           g2 == [g1 EXCEPT !.type = f.type \ {"IS_NULL"}]
           g3 == [g2 EXCEPT !.type = TypeAfter(f, kind)]
<1>1. g1 = FieldOf(f.name, f.type, f.ivalue, v, f.cvalue, f.room, f.cvalLength)
  BY FieldIs, AssignBigInt
<1>2. g1.type = f.type
  BY <1>1, FieldParts
<1>3. [f EXCEPT !.llvalue = v, !.type = @ \ {"IS_NULL"}] = g2
  BY <1>2
<1> HIDE DEF g1
<1>4. g2 = FieldOf(f.name, f.type \ {"IS_NULL"}, f.ivalue, v, f.cvalue, f.room, f.cvalLength)
  BY ONLY <1>1 DEF FieldOf
<1>5. g2.type = f.type \ {"IS_NULL"}
  BY <1>4, FieldParts
<1> HIDE DEF g2
<1>6. FieldSetWide(f, v, kind) = g3
  BY <1>3, <1>5 DEF FieldSetWide, SetType, TypeAfter
<1>7. g3 = FieldOf(f.name, TypeAfter(f, kind), f.ivalue, v, f.cvalue, f.room, f.cvalLength)
  BY ONLY <1>4 DEF FieldOf
<1> QED BY <1>6, <1>7

LEMMA SetCharIs ==
  ASSUME NEW f \in Field, NEW v, NEW len
  PROVE  FieldSetCharValue(f, v, len)
         = FieldOf(f.name, TypeAfter(f, "STRING"), f.ivalue, f.llvalue, v, Room(f, len), len)
<1> DEFINE g1 == [f EXCEPT !.cvalue = v]
           g2 == [g1 EXCEPT !.type = f.type \ {"IS_NULL"}]
           g3 == [g2 EXCEPT !.cvalLength = len]
           g4 == [g3 EXCEPT !.room = Room(f, len)]
           g5 == [g4 EXCEPT !.type = TypeAfter(f, "STRING")]
<1>1. g1 = FieldOf(f.name, f.type, f.ivalue, f.llvalue, v, f.room, f.cvalLength)
  BY FieldIs, AssignText
<1>2. g1.type = f.type
  BY <1>1, FieldParts
<1>3. [f EXCEPT !.cvalue = v, !.type = @ \ {"IS_NULL"}, !.cvalLength = len, !.room = Room(f, len)] = g4
  BY <1>2
<1> HIDE DEF g1
<1>4. g2 = FieldOf(f.name, f.type \ {"IS_NULL"}, f.ivalue, f.llvalue, v, f.room, f.cvalLength)
  BY ONLY <1>1 DEF FieldOf
<1> HIDE DEF g2
<1>5. g3 = FieldOf(f.name, f.type \ {"IS_NULL"}, f.ivalue, f.llvalue, v, f.room, len)
  BY ONLY <1>4 DEF FieldOf
<1> HIDE DEF g3
<1>6. g4 = FieldOf(f.name, f.type \ {"IS_NULL"}, f.ivalue, f.llvalue, v, Room(f, len), len)
  BY ONLY <1>5 DEF FieldOf
<1> HIDE DEF g4
<1>7. g4.type = f.type \ {"IS_NULL"}
  BY ONLY <1>6 DEF FieldOf
<1>8. FieldSetCharValue(f, v, len) = g5
  BY <1>3, <1>7 DEF FieldSetCharValue, SetType, TypeAfter
<1>9. g5 = FieldOf(f.name, TypeAfter(f, "STRING"), f.ivalue, f.llvalue, v, Room(f, len), len)
  BY ONLY <1>6 DEF FieldOf
<1> QED BY <1>8, <1>9

LEMMA TypeAfterIs ==
  ASSUME NEW f \in Field, NEW kind \in Kinds
  PROVE  /\ TypeAfter(f, kind) \in SUBSET Traits /\ "IS_NULL" \notin TypeAfter(f, kind)
         /\ "INT" \in TypeAfter(f, kind) <=> kind = "INT"
         /\ "BIGINT" \in TypeAfter(f, kind) <=> kind = "BIGINT"
         /\ "DOUBLE" \in TypeAfter(f, kind) <=> kind = "DOUBLE"
BY FieldIs DEF TypeAfter, HighByte, Traits, Kinds

\* What a setter leaves: the value it was given, to be printed as it is.
LEMMA IntSets ==
  ASSUME NEW f \in Field, NEW v
  PROVE  /\ Meaning(FieldSetIntValue(f, v)) = [val |-> v, kind |-> "INT"]
         /\ ~IsNull(FieldSetIntValue(f, v)) /\ Printed(FieldSetIntValue(f, v)) = v
<1> DEFINE g == FieldSetIntValue(f, v)
<1>1. g.type = TypeAfter(f, "INT") /\ g.ivalue = v
  BY SetIntIs, FieldParts
<1> HIDE DEF g
<1>2. "IS_NULL" \notin g.type /\ "INT" \in g.type
  BY <1>1, TypeAfterIs DEF Kinds
<1>3. ~IsNull(g) /\ Printed(g) = v /\ PrintedAs(g) = "INT"
  BY <1>1, <1>2 DEF IsNull, Printed, PrintedAs
<1> QED BY <1>3 DEF g, Meaning

LEMMA WideSets ==
  ASSUME NEW f \in Field, NEW v, NEW kind \in {"BIGINT", "DOUBLE"}
  PROVE  /\ Meaning(FieldSetWide(f, v, kind)) = [val |-> v, kind |-> kind]
         /\ ~IsNull(FieldSetWide(f, v, kind)) /\ Printed(FieldSetWide(f, v, kind)) = v
<1> DEFINE g == FieldSetWide(f, v, kind)
<1>1. g.type = TypeAfter(f, kind) /\ g.llvalue = v
  BY SetWideIs, FieldParts
<1> HIDE DEF g
<1>2. /\ "IS_NULL" \notin g.type /\ "INT" \notin g.type
      /\ ("BIGINT" \in g.type <=> kind = "BIGINT") /\ ("DOUBLE" \in g.type <=> kind = "DOUBLE")
  BY <1>1, TypeAfterIs DEF Kinds
<1>3. ~IsNull(g) /\ Printed(g) = v /\ PrintedAs(g) = kind
  BY <1>1, <1>2 DEF IsNull, Printed, PrintedAs
<1> QED BY <1>3 DEF g, Meaning

LEMMA CharSets ==
  ASSUME NEW f \in Field, NEW v, NEW len, Room(f, len) # 0
  PROVE  /\ Meaning(FieldSetCharValue(f, v, len)) = [val |-> v, kind |-> "STRING"]
         /\ ~IsNull(FieldSetCharValue(f, v, len)) /\ Printed(FieldSetCharValue(f, v, len)) = v
<1> DEFINE g == FieldSetCharValue(f, v, len)
<1>1. g.type = TypeAfter(f, "STRING") /\ g.cvalue = v /\ g.room = Room(f, len)
  BY SetCharIs, FieldParts
<1> HIDE DEF g
<1>2. /\ "IS_NULL" \notin g.type /\ "INT" \notin g.type
      /\ "BIGINT" \notin g.type /\ "DOUBLE" \notin g.type
  BY <1>1, TypeAfterIs DEF Kinds
<1>3. ~IsNull(g) /\ Printed(g) = v /\ PrintedAs(g) = "STRING"
  BY <1>1, <1>2 DEF IsNull, Printed, PrintedAs
<1> QED BY <1>3 DEF g, Meaning

LEMMA NewFieldIs ==
  ASSUME NEW n \in STRING, NEW t \in SUBSET Traits, NEW len \in Nat
  PROVE  /\ NewField(n, t, len) \in Field /\ NewField(n, t, len).type = t
         /\ NewField(n, t, len).cvalLength = len /\ NewField(n, t, len).room = 0
<1>1. NewField(n, t, len) = FieldOf(n, t, 0, 0, -2, 0, len)
  BY DEF NewField, FieldOf, NullText
<1> QED BY <1>1, FieldParts

LEMMA SetIntKeeps ==
  ASSUME NEW f \in Field, FieldFits(f), NEW v \in DbVals, DbAssumption
  PROVE  FieldSetIntValue(f, v) \in Field /\ FieldFits(FieldSetIntValue(f, v))
<1> DEFINE g == FieldSetIntValue(f, v)
<1>1. v \in Int
  BY DEF DbAssumption
<1>2. g = FieldOf(f.name, TypeAfter(f, "INT"), v, f.llvalue, f.cvalue, f.room, f.cvalLength)
  BY SetIntIs
<1>3. ~IsNull(g) /\ Printed(g) = v
  BY IntSets
<1> HIDE DEF g
<1>4. g \in Field /\ g.room = f.room /\ g.cvalLength = f.cvalLength
  BY <1>1, <1>2, FieldIs, TypeAfterIs, FieldParts DEF Kinds
<1>5. FieldFits(g)
  BY <1>3, <1>4 DEF FieldFits
<1> QED BY <1>4, <1>5 DEF g

LEMMA SetWideKeeps ==
  ASSUME NEW f \in Field, FieldFits(f), NEW v \in DbVals, DbAssumption, NEW kind \in {"BIGINT", "DOUBLE"}
  PROVE  FieldSetWide(f, v, kind) \in Field /\ FieldFits(FieldSetWide(f, v, kind))
<1> DEFINE g == FieldSetWide(f, v, kind)
<1>1. v \in Int
  BY DEF DbAssumption
<1>2. g = FieldOf(f.name, TypeAfter(f, kind), f.ivalue, v, f.cvalue, f.room, f.cvalLength)
  BY SetWideIs
<1>3. ~IsNull(g) /\ Printed(g) = v
  BY WideSets
<1> HIDE DEF g
<1>4. g \in Field /\ g.room = f.room /\ g.cvalLength = f.cvalLength
  BY <1>1, <1>2, FieldIs, TypeAfterIs, FieldParts DEF Kinds
<1>5. FieldFits(g)
  BY <1>3, <1>4 DEF FieldFits
<1> QED BY <1>4, <1>5 DEF g

\* The buffer is long enough before the string is copied into it.
LEMMA RoomFits ==
  ASSUME NEW f \in Field, FieldFits(f), NEW len \in Nat \ {0}
  PROVE  Room(f, len) \in Nat /\ Room(f, len) > len /\ Room(f, len) # 0
<1>1. f.room \in Nat /\ f.cvalLength \in Nat /\ (f.cvalLength = 0 \/ f.room > f.cvalLength)
  BY FieldIs DEF FieldFits
<1>2. Room(f, len) = IF f.cvalLength < len THEN len + 1 ELSE f.room
  BY DEF Room
<1> QED BY <1>1, <1>2

LEMMA SetCharKeeps ==
  ASSUME NEW f \in Field, FieldFits(f), NEW v \in DbVals, NEW len \in Lengths, DbAssumption
  PROVE  /\ FieldSetCharValue(f, v, len) \in Field /\ FieldFits(FieldSetCharValue(f, v, len))
         /\ StrcpyFits(f, len)
         /\ Meaning(FieldSetCharValue(f, v, len)) = [val |-> v, kind |-> "STRING"]
<1> DEFINE g == FieldSetCharValue(f, v, len)
<1>1. v \in Int /\ len \in Nat \ {0}
  BY DEF DbAssumption
<1>2. g = FieldOf(f.name, TypeAfter(f, "STRING"), f.ivalue, f.llvalue, v, Room(f, len), len)
  BY SetCharIs
<1>3. Room(f, len) \in Nat /\ Room(f, len) > len /\ Room(f, len) # 0
  BY <1>1, RoomFits
<1>4. ~IsNull(g) /\ Printed(g) = v /\ Meaning(g) = [val |-> v, kind |-> "STRING"]
  BY <1>3, CharSets
<1> HIDE DEF g
<1>5. g \in Field /\ g.room = Room(f, len) /\ g.cvalLength = len
  BY <1>1, <1>2, <1>3, FieldIs, TypeAfterIs, FieldParts DEF Kinds
<1>6. FieldFits(g)
  BY <1>3, <1>4, <1>5 DEF FieldFits
<1> QED BY <1>3, <1>4, <1>5, <1>6 DEF g, StrcpyFits

LEMMA SetNullKeeps ==
  ASSUME NEW f \in Field, FieldFits(f)
  PROVE  /\ FieldSetToNull(f) \in Field /\ FieldFits(FieldSetToNull(f))
         /\ IsNull(FieldSetToNull(f))
<1> DEFINE g == FieldSetToNull(f)
           t == f.type \cup {"IS_NULL"}
<1>1. t \in SUBSET Traits /\ "IS_NULL" \in t
  BY FieldIs DEF Traits
<1> HIDE DEF t
<1>2. g = FieldOf(f.name, t, f.ivalue, f.llvalue, f.cvalue, f.room, f.cvalLength)
  <2>1. g = [f EXCEPT !.type = t]
    BY DEF FieldSetToNull, t
  <2> HIDE DEF g
  <2> QED BY <2>1, FieldIs, AssignType
<1> HIDE DEF g
<1>3. g \in Field /\ g.room = f.room /\ g.cvalLength = f.cvalLength /\ g.type = t
  BY <1>1, <1>2, FieldIs, FieldParts
<1>4. FieldFits(g) /\ IsNull(g)
  BY <1>1, <1>3 DEF FieldFits, IsNull
<1> QED BY <1>3, <1>4 DEF g

------------------------------------------------------------------------------
(* The database interface: rows *)

\* The generic row of a row says what the row says.
LEMMA ResultRowSays ==
  ASSUME TableFits, table # <<>>, NEW r \in Rows
  PROVE  RowSays(ResultRow(r)) = r
<1> DEFINE g == ResultRow(r)
           value(c) == IF IsNull(g[c]) THEN SqlNull ELSE Printed(g[c])
<1>1. DOMAIN r = DOMAIN Columns /\ r = [c \in DOMAIN r |-> r[c]] /\ Columns \in Seq(Field)
  BY DEF TableFits
<1>2. DOMAIN g = DOMAIN r
  BY DEF ResultRow, PgResultRow, MyResultRow
<1>3. ASSUME NEW c \in DOMAIN r PROVE value(c) = r[c]
  <2> DEFINE f == NewField(Columns[c].name, {}, 0)
             type == Columns[c].type
             number == type \cap {"INT", "BIGINT", "DOUBLE"}
             kind == IF number = {} THEN {"STRING"} ELSE number
  <2>1. Columns[c] \in Field
    BY <1>1, ElementOfSeq, LenProperties
  <2>2. f \in Field /\ f.type = {} /\ f.cvalLength = 0
    <3> DEFINE n == Columns[c].name
    <3>1. n \in STRING
      BY <2>1, FieldIs
    <3> HIDE DEF n
    <3>2. {} \in SUBSET Traits /\ 0 \in Nat
      OBVIOUS
    <3>3. NewField(n, {}, 0) \in Field /\ NewField(n, {}, 0).type = {} /\ NewField(n, {}, 0).cvalLength = 0
      BY ONLY <3>1, <3>2, NewFieldIs
    <3> QED BY <3>3 DEF n
  <2>3. /\ \/ engine = "pg" /\ g[c] = IF r[c] = SqlNull THEN [f EXCEPT !.type = {"IS_NULL"} \cup (type \cap Kinds)]
                                      ELSE IF "INT" \in type THEN FieldSetIntValue(f, r[c])
                                      ELSE IF "BIGINT" \in type THEN FieldSetWide(f, r[c], "BIGINT")
                                      ELSE IF "DOUBLE" \in type THEN FieldSetWide(f, r[c], "DOUBLE")
                                      ELSE FieldSetCharValue(f, r[c], 1)
           \/ engine # "pg" /\ g[c] = IF r[c] = SqlNull THEN [f EXCEPT !.type = {"IS_NULL"} \cup kind]
                                      ELSE IF kind = {"INT"} THEN FieldSetIntValue(f, r[c])
                                      ELSE IF kind = {"BIGINT"} THEN FieldSetWide(f, r[c], "BIGINT")
                                      ELSE IF kind = {"DOUBLE"} THEN FieldSetWide(f, r[c], "DOUBLE")
                                      ELSE FieldSetCharValue(f, r[c], 1)
    BY DEF ResultRow, PgResultRow, MyResultRow, FieldSetBigIntValue, FieldSetDoubleValue
  <2> HIDE DEF f, g
  <2>4. Room(f, 1) # 0
    BY <2>2 DEF Room
  <2>5. CASE r[c] # SqlNull
    <3>1. \/ g[c] = FieldSetIntValue(f, r[c]) \/ g[c] = FieldSetCharValue(f, r[c], 1)
          \/ \E k \in {"BIGINT", "DOUBLE"} : g[c] = FieldSetWide(f, r[c], k)
      BY <2>3, <2>5
    <3>2. ~IsNull(g[c]) /\ Printed(g[c]) = r[c]
      BY <3>1, <2>2, <2>4, IntSets, WideSets, CharSets
    <3> QED BY <3>2
  <2>6. CASE r[c] = SqlNull
    <3>1. PICK t : "IS_NULL" \in t /\ g[c] = [f EXCEPT !.type = t]
      BY <2>3, <2>6
    <3>2. g[c] = FieldOf(f.name, t, f.ivalue, f.llvalue, f.cvalue, f.room, f.cvalLength)
      BY SMTT(30), <3>1, <2>2, FieldIs, AssignType
    <3>3. g[c].type = t
      BY <3>2, FieldParts
    <3>4. IsNull(g[c])
      BY <3>1, <3>3 DEF IsNull
    <3> QED BY <3>4, <2>6
  <2> QED BY <2>5, <2>6
<1>4. RowSays(g) = [c \in DOMAIN r |-> value(c)]
  BY <1>2 DEF RowSays
<1> HIDE DEF g, value
<1>5. RowSays(g) = r
  BY <1>1, <1>3, <1>4
<1> QED BY <1>5 DEF g

LEMMA ResultsSay ==
  ASSUME TableFits, NEW found \in SUBSET Rows
  PROVE  found = {RowSays(g) : g \in {ResultRow(r) : r \in found}}
<1>1. \A r \in found : RowSays(ResultRow(r)) = r
  <2> SUFFICES ASSUME NEW r \in found PROVE RowSays(ResultRow(r)) = r
    OBVIOUS
  <2>1. table # <<>>
    BY DEF Rows
  <2> QED BY <2>1, ResultRowSays
<1> QED BY <1>1

\* A value set in the client's row description.
LEMMA EditMeans ==
  ASSUME RowMeant, NEW c \in DOMAIN userRow, NEW f \in Field, FieldFits(f), NEW i, i = Meaning(f),
         userRow' = [userRow EXCEPT ![c] = f], intended' = [intended EXCEPT ![c] = i]
  PROVE  RowMeant'
<1>1. userRow \in Seq(Field) /\ c \in 1..Len(userRow) /\ DOMAIN userRow = 1..Len(userRow)
  BY LenProperties DEF RowMeant
<1>2. userRow' \in Seq(Field) /\ Len(userRow') = Len(userRow)
      /\ \A k \in 1..Len(userRow) : userRow'[k] = IF k = c THEN f ELSE userRow[k]
  BY <1>1, ExceptSeq
<1>3. DOMAIN userRow' = 1..Len(userRow)
  BY <1>2, LenProperties
<1>4. \A k \in DOMAIN userRow' : FieldFits(userRow'[k])
  BY <1>1, <1>2, <1>3 DEF RowMeant
<1> DEFINE value(r, k) == Meaning(r[k])
<1>5. intended = [k \in 1..Len(userRow) |-> value(userRow, k)]
  BY <1>1 DEF RowMeant
<1>6. \A k \in 1..Len(userRow) : value(userRow', k) = IF k = c THEN i ELSE value(userRow, k)
  BY <1>2
<1>7. [k \in DOMAIN userRow' |-> Meaning(userRow'[k])] = [k \in 1..Len(userRow) |-> value(userRow', k)]
  BY <1>3
<1> HIDE DEF value
<1>8. intended' = [k \in 1..Len(userRow) |-> value(userRow', k)]
  BY <1>1, <1>5, <1>6
<1> QED BY <1>2, <1>4, <1>7, <1>8 DEF RowMeant, FieldFits, Meaning, IsNull, Printed, PrintedAs, NullValue

------------------------------------------------------------------------------
(* The database interface: the outcomes of a query *)

LEMMA CommandIs == ASSUME NEW t PROVE Command(t).table = t /\ Command(t).found = <<>>
BY DEF Command

\* A statement that returns no rows.
LEMMA Statement ==
  ASSUME NEW answers, \A a \in answers : a = Command(a.table), NEW o \in raddatabaseQuery(answers, FALSE)
  PROVE  /\ o.sets = sets /\ o.resSet \in {resSet, NoResults} /\ o.ret \in {"OK", "ERROR"}
         /\ \/ o.ret = "ERROR" /\ o.table = table
            \/ \E a \in answers : o.table = a.table
<1>1. \/ o \in {Outcome(table, resSet, sets, "ERROR"), Outcome(table, NoResults, sets, "ERROR")}
      \/ \E a \in answers : \/ o = Outcome(a.table, NoResults, sets, "ERROR")
                            \/ o \in Answered(a, FALSE)
  BY DEF raddatabaseQuery, PgQuery, MyQuery
<1>2. \A a \in answers : a.found = <<>>
  BY CommandIs
<1>3. \A a \in answers : Answered(a, FALSE) = {Outcome(a.table, NoResults, sets, "OK")}
  BY <1>2 DEF Answered
<1>4. \/ o \in {Outcome(table, resSet, sets, "ERROR"), Outcome(table, NoResults, sets, "ERROR")}
      \/ \E a \in answers : o \in {Outcome(a.table, NoResults, sets, "ERROR"),
                                 Outcome(a.table, NoResults, sets, "OK")}
  BY <1>1, <1>3
<1>5. \A t, ss, ret : /\ Outcome(t, ss, sets, ret).table = t /\ Outcome(t, ss, sets, ret).resSet = ss
                     /\ Outcome(t, ss, sets, ret).sets = sets /\ Outcome(t, ss, sets, ret).ret = ret
  BY DEF Outcome
<1> QED BY <1>4, <1>5

\* A query whose rows the caller wants: it leaves the table as it is, and each
\* answer holds a result set that says what its rows said.
Says(found) == found.wanted = {RowSays(g) : g \in found.rows}
SelectAnswer(a) == a.table = table /\ a.found = <<a.found[1]>> /\ Says(a.found[1])

LEMMA Question ==
  ASSUME NEW answers, \A a \in answers : SelectAnswer(a), NEW o \in raddatabaseQuery(answers, TRUE)
  PROVE  /\ o.table = table
         /\ \/ o.ret = "ERROR" /\ o.sets = sets /\ o.resSet \in {resSet, NoResults}
            \/ /\ o.ret = "OK" /\ o.resSet \notin DOMAIN sets
               /\ \E found : /\ Says(found)
                            /\ o.sets = [x \in DOMAIN sets \cup {o.resSet} |->
                                           IF x = o.resSet THEN found ELSE sets[x]]
<1>1. \/ o \in {Outcome(table, resSet, sets, "ERROR"), Outcome(table, NoResults, sets, "ERROR")}
      \/ \E a \in answers : \/ o = Outcome(a.table, NoResults, sets, "ERROR")
                            \/ o \in Answered(a, TRUE)
  BY DEF raddatabaseQuery, PgQuery, MyQuery
<1>2. CASE \/ o \in {Outcome(table, resSet, sets, "ERROR"), Outcome(table, NoResults, sets, "ERROR")}
           \/ \E a \in answers : o = Outcome(a.table, NoResults, sets, "ERROR")
  BY <1>2 DEF Outcome, SelectAnswer
<1>3. ASSUME NEW a \in answers, o \in Answered(a, TRUE),
             o # Outcome(a.table, NoResults, sets, "ERROR")
      PROVE  /\ o.table = table /\ o.ret = "OK" /\ o.resSet \notin DOMAIN sets
             /\ \E found : /\ Says(found)
                          /\ o.sets = [x \in DOMAIN sets \cup {o.resSet} |->
                                         IF x = o.resSet THEN found ELSE sets[x]]
  <2> DEFINE found == a.found[1]
             with(s) == [x \in DOMAIN sets \cup {s} |-> IF x = s THEN found ELSE sets[x]]
  <2>1. a.table = table /\ a.found = <<found>> /\ Says(found)
    BY DEF SelectAnswer
  <2>2. a.found # <<>>
    BY <2>1
  <2>3. o \in KeepResults(a.table, found)
    BY <1>3, <2>2 DEF Answered
  <2> HIDE DEF found
  <2>4. PICK s \in SetIds \ DOMAIN sets : o = Outcome(a.table, s, with(s), "OK")
    BY <1>3, <2>3 DEF KeepResults
  <2>5. o.table = a.table /\ o.resSet = s /\ o.sets = with(s) /\ o.ret = "OK"
    <3> DEFINE ss == with(s)
    <3>1. o = Outcome(a.table, s, ss, "OK")
      BY <2>4
    <3> HIDE DEF ss
    <3>2. o.table = a.table /\ o.resSet = s /\ o.sets = ss /\ o.ret = "OK"
      BY <3>1 DEF Outcome
    <3> QED BY <3>2 DEF ss
  <2> QED BY <2>1, <2>4, <2>5
<1> QED BY <1>1, <1>2, <1>3

\* What With leaves of a table that is there.
LEMMA WithIs ==
  ASSUME TableFits, table # <<>>, NEW effect
  PROVE  With(effect) = <<[cols |-> Columns, rows |-> effect]>> /\ With(Rows) = table
<1>1. table = <<[cols |-> Columns, rows |-> Rows]>>
  BY DEF TableFits
<1> DEFINE t == [cols |-> Columns, rows |-> Rows]
<1>2. table[1] = t
  BY <1>1
<1>3. \A e : [t EXCEPT !.rows = e] = [cols |-> Columns, rows |-> e]
  OBVIOUS
<1> HIDE DEF t
<1>4. \A e : With(e) = <<[t EXCEPT !.rows = e]>>
  BY <1>2 DEF With
<1> QED BY <1>1, <1>3, <1>4

\* A table of the shape it must have.
LEMMA TableNow ==
  ASSUME NEW cols \in Seq(Field), NEW rows, table' = <<[cols |-> cols, rows |-> rows]>>,
         \A r \in rows : DOMAIN r = DOMAIN cols /\ r = [c \in DOMAIN r |-> r[c]]
  PROVE  TableFits' /\ Rows' = rows /\ Columns' = cols
<1>1. table' # <<>> /\ table'[1] = [cols |-> cols, rows |-> rows]
  OBVIOUS
<1>2. Rows' = rows /\ Columns' = cols
  BY <1>1 DEF Rows, Columns
<1> QED BY <1>2 DEF TableFits

\* A step that leaves the table and the last table call alone.
LEMMA TableKept ==
  ASSUME DbInv, UNCHANGED table
  PROVE  Rows' = Rows /\ Columns' = Columns /\ TableFits'
BY DEF DbInv, TableFits, Rows, Columns

LEMMA CallKept ==
  ASSUME DbInv, UNCHANGED <<engine, table, dbLast>>
  PROVE  TableFits' /\ InsertStores' /\ DeleteExact'
<1>1. Rows' = Rows /\ Columns' = Columns /\ TableFits'
  BY TableKept
<1>2. NamesColumn(dbLast.row)' = NamesColumn(dbLast.row)
  BY <1>1 DEF NamesColumn
<1>3. InsertStores' /\ DeleteExact'
  BY <1>1, <1>2 DEF DbInv, StatementsMeantAndDone, InsertStores, DeleteExact, TakenFor, MayMean
<1> QED BY <1>1, <1>3

LEMMA RowKept ==
  ASSUME RowMeant, UNCHANGED <<userRow, intended>> PROVE RowMeant'
BY DEF RowMeant, FieldFits, Meaning, IsNull, Printed, PrintedAs, NullValue

LEMMA SetsKept ==
  ASSUME DbInv, sets' = sets, held' = held, resSet' \in {resSet, NoResults}
  PROVE  SetsOwned' /\ ResultsFaithful'
BY DEF DbInv, StatementsMeantAndDone, SetsOwned, ResultsFaithful

\* A statement leaves the result sets alone.
LEMMA StatementKeeps ==
  ASSUME DbInv, NEW answers, \A a \in answers : a = Command(a.table),
         NEW o \in raddatabaseQuery(answers, FALSE) \cup {Rejected},
         NEW op \in {"create", "drop", "truncate", "insert", "delete", "query", "modify"}, Apply(o, op),
         UNCHANGED <<held, intended, userRow, overrun>>
  PROVE  /\ RowMeant' /\ SetsOwned' /\ ResultsFaithful' /\ StringsFit'
         /\ dbLast' = [op |-> op, ret |-> o.ret, row |-> intended, before |-> Rows]
         /\ \/ o.ret = "ERROR" /\ UNCHANGED table
            \/ \E a \in answers : table' = a.table
<1>1. /\ table' = o.table /\ resSet' = o.resSet /\ sets' = o.sets
      /\ dbLast' = [op |-> op, ret |-> o.ret, row |-> intended, before |-> Rows]
  BY DEF Apply
<1>2. /\ o.sets = sets /\ o.resSet \in {resSet, NoResults}
      /\ \/ o.ret = "ERROR" /\ o.table = table
         \/ \E a \in answers : o.table = a.table
  <2>1. CASE o = Rejected
    BY <2>1 DEF Rejected, Outcome
  <2>2. CASE o \in raddatabaseQuery(answers, FALSE)
    BY <2>2, Statement
  <2> QED BY <2>1, <2>2
<1>3. SetsOwned' /\ ResultsFaithful'
  BY <1>1, <1>2, SetsKept
<1>4. RowMeant' /\ StringsFit'
  BY RowKept DEF DbInv, StatementsMeantAndDone, StringsFit
<1> QED BY <1>1, <1>2, <1>3, <1>4

\* A call of another kind says nothing of inserts and deletes.
LEMMA OtherCall ==
  ASSUME NEW op, op \notin {"insert", "delete"}, NEW ret, NEW row, NEW before,
         dbLast' = [op |-> op, ret |-> ret, row |-> row, before |-> before]
  PROVE  InsertStores' /\ DeleteExact'
<1>1. dbLast'.op = op
  OBVIOUS
<1> QED BY <1>1 DEF InsertStores, DeleteExact

LEMMA MakesInv ==
  ASSUME TableFits', RowMeant', InsertStores', DeleteExact', ResultsFaithful', SetsOwned', StringsFit'
  PROVE  DbInv'
BY DEF DbInv, StatementsMeantAndDone

------------------------------------------------------------------------------
(* The database interface: the invariant is inductive *)

LEMMA DbStarts == ASSUME DbInit PROVE DbInv
<1>1. table = <<>> /\ userRow = <<>> /\ intended = <<>> /\ sets = <<>> /\ held = {}
      /\ resSet = NoResults /\ overrun = FALSE /\ dbLast = NoCall
  BY DEF DbInit
<1>2. DOMAIN <<>> = {} /\ <<>> \in Seq(Field)
  <2>1. <<>> \in Seq(Field) /\ Len(<<>>) = 0
    BY EmptySeq
  <2> QED BY <2>1, LenProperties
<1>3. <<>> = [c \in {} |-> Meaning(userRow[c])]
  BY <1>2
<1>4. RowMeant
  BY <1>1, <1>2, <1>3 DEF RowMeant
<1>5. TableFits /\ InsertStores /\ DeleteExact
  BY <1>1 DEF TableFits, InsertStores, DeleteExact, NoCall
<1>6. ResultsFaithful /\ SetsOwned /\ StringsFit
  BY <1>1, <1>2 DEF ResultsFaithful, SetsOwned, StringsFit
<1> QED BY <1>4, <1>5, <1>6 DEF DbInv, StatementsMeantAndDone

LEMMA DbOpenKeeps ==
  ASSUME DbInv, UNCHANGED <<engine, table, resSet, sets, held, intended, userRow, overrun, dbLast>>
  PROVE  DbInv'
<1>1. TableFits' /\ InsertStores' /\ DeleteExact'
  BY CallKept
<1>2. SetsOwned' /\ ResultsFaithful'
  BY SetsKept
<1>3. RowMeant' /\ StringsFit'
  BY RowKept DEF DbInv, StatementsMeantAndDone, StringsFit
<1> QED BY <1>1, <1>2, <1>3, MakesInv

LEMMA DbCloseKeeps ==
  ASSUME DbInv, raddatabaseClose
  PROVE  DbInv'
<1>1. held = {} /\ (resSet = NoResults => UNCHANGED <<sets, resSet>>)
      /\ UNCHANGED <<engine, table, held, intended, userRow, overrun, dbLast>>
  BY DEF raddatabaseClose, PgClose, MyClose
<1>2. resSet = NoResults
  BY <1>1 DEF DbInv, StatementsMeantAndDone, SetsOwned
<1> QED BY <1>1, <1>2, DbOpenKeeps

LEMMA CreateKeeps ==
  ASSUME DbAssumption, DbInv, NEW d \in TableDescrs, raddatabaseTableCreate(d)
  PROVE  DbInv'
<1> DEFINE new == <<[cols |-> d, rows |-> {}]>>
           created == IF table # <<>> THEN {} ELSE {Command(new)}
<1>1. PICK o \in raddatabaseQuery(created, FALSE) \cup {Rejected} : Apply(o, "create")
  BY DEF raddatabaseTableCreate
<1>2. UNCHANGED <<held, intended, userRow, overrun>>
  BY DEF raddatabaseTableCreate
<1>3. \A a \in created : a = Command(a.table) /\ a.table = new
  <2> HIDE DEF new
  <2> QED BY CommandIs
<1> HIDE DEF created
<1>4. /\ RowMeant' /\ SetsOwned' /\ ResultsFaithful' /\ StringsFit'
      /\ dbLast' = [op |-> "create", ret |-> o.ret, row |-> intended, before |-> Rows]
      /\ UNCHANGED table \/ table' = new
  BY <1>1, <1>2, <1>3, StatementKeeps
<1>5. TableFits'
  <2>1. CASE table' = new
    <3>1. d \in Seq(Field)
      BY DEF DbAssumption
    <3> QED BY <2>1, <3>1, TableNow
  <2>2. CASE UNCHANGED table
    BY <2>2, TableKept
  <2> QED BY <1>4, <2>1, <2>2
<1>6. InsertStores' /\ DeleteExact'
  BY <1>4, OtherCall
<1> QED BY <1>4, <1>5, <1>6, MakesInv

LEMMA DropKeeps ==
  ASSUME DbInv, raddatabaseTableDelete
  PROVE  DbInv'
<1> DEFINE answers == IF table = <<>> THEN {} ELSE {Command(<<>>)}
<1>1. PICK o \in raddatabaseQuery(answers, FALSE) : Apply(o, "drop")
  BY DEF raddatabaseTableDelete
<1>2. UNCHANGED <<held, intended, userRow, overrun>>
  BY DEF raddatabaseTableDelete
<1>3. \A a \in answers : a = Command(a.table) /\ a.table = <<>>
  BY CommandIs
<1> HIDE DEF answers
<1>4. /\ RowMeant' /\ SetsOwned' /\ ResultsFaithful' /\ StringsFit'
      /\ dbLast' = [op |-> "drop", ret |-> o.ret, row |-> intended, before |-> Rows]
      /\ UNCHANGED table \/ table' = <<>>
  BY <1>1, <1>2, <1>3, StatementKeeps
<1>5. TableFits'
  <2>1. CASE table' = <<>>
    BY <2>1 DEF TableFits
  <2>2. CASE UNCHANGED table
    BY <2>2, TableKept
  <2> QED BY <1>4, <2>1, <2>2
<1>6. InsertStores' /\ DeleteExact'
  BY <1>4, OtherCall
<1> QED BY <1>4, <1>5, <1>6, MakesInv

LEMMA TruncateKeeps ==
  ASSUME DbInv, raddatabaseTableTruncate
  PROVE  DbInv'
<1> DEFINE emptied == IF table = <<>> THEN {} ELSE {Command(With({}))}
<1>1. PICK o \in raddatabaseQuery(emptied, FALSE) : Apply(o, "truncate")
  BY DEF raddatabaseTableTruncate
<1>2. UNCHANGED <<held, intended, userRow, overrun>>
  BY DEF raddatabaseTableTruncate
<1>3. \A a \in emptied : a = Command(a.table) /\ a.table = With({}) /\ table # <<>>
  BY CommandIs
<1> HIDE DEF emptied
<1>4. /\ RowMeant' /\ SetsOwned' /\ ResultsFaithful' /\ StringsFit'
      /\ dbLast' = [op |-> "truncate", ret |-> o.ret, row |-> intended, before |-> Rows]
      /\ UNCHANGED table \/ (table # <<>> /\ table' = With({}))
  BY <1>1, <1>2, <1>3, StatementKeeps
<1>5. TableFits'
  <2>1. CASE UNCHANGED table
    BY <2>1, TableKept
  <2>2. CASE table # <<>> /\ table' = With({})
    <3>1. table' = <<[cols |-> Columns, rows |-> {}]>> /\ Columns \in Seq(Field)
      BY <2>2, WithIs DEF DbInv, TableFits
    <3> QED BY <3>1, TableNow
  <2> QED BY <2>1, <2>2, <1>4
<1>6. InsertStores' /\ DeleteExact'
  BY <1>4, OtherCall
<1> QED BY <1>4, <1>5, <1>6, MakesInv

\* Every value of the description is NULL until it is set.
LEMMA DescriptionKeeps ==
  ASSUME DbInv, raddatabaseTableDescriptionGet
  PROVE  DbInv'
<1>1. /\ table # <<>> /\ intended' = [c \in DOMAIN Columns |-> NullValue]
      /\ resSet' \in {resSet, NoResults}
      /\ UNCHANGED <<engine, table, sets, held, overrun, dbLast>>
  BY DEF raddatabaseTableDescriptionGet
<1>2. \/ userRow' = PgDescription \/ \E w \in BOOLEAN : userRow' = MyDescription(w)
  BY DEF raddatabaseTableDescriptionGet
<1>3. Columns \in Seq(Field)
  BY <1>1 DEF DbInv, TableFits
<1>4. PICK type \in [DOMAIN Columns -> SUBSET Traits] :
         /\ userRow' = [c \in DOMAIN Columns |-> NewField(Columns[c].name, type[c], 0)]
         /\ \A c \in DOMAIN Columns : "IS_NULL" \in type[c]
  <2>1. CASE userRow' = PgDescription
    <3> DEFINE ty == [c \in DOMAIN Columns |->
                        (Columns[c].type \cap (Kinds \cup {"NOT_NULL"})) \cup {"IS_NULL"}]
    <3>1. ty \in [DOMAIN Columns -> SUBSET Traits] /\ \A c \in DOMAIN Columns : "IS_NULL" \in ty[c]
      BY DEF Kinds, Traits
    <3>2. userRow' = [c \in DOMAIN Columns |-> NewField(Columns[c].name, ty[c], 0)]
      BY <2>1 DEF PgDescription
    <3> QED BY <3>1, <3>2
  <2>2. ASSUME NEW w \in BOOLEAN, userRow' = MyDescription(w)
        PROVE  \E t \in [DOMAIN Columns -> SUBSET Traits] :
                  /\ userRow' = [c \in DOMAIN Columns |-> NewField(Columns[c].name, t[c], 0)]
                  /\ \A c \in DOMAIN Columns : "IS_NULL" \in t[c]
    <3> DEFINE ty == [c \in DOMAIN Columns |->
                        {"IS_NULL"} \cup IF w THEN {"STRING"} ELSE Columns[c].type \cap Kinds]
    <3>1. ty \in [DOMAIN Columns -> SUBSET Traits] /\ \A c \in DOMAIN Columns : "IS_NULL" \in ty[c]
      BY DEF Kinds, Traits
    <3>2. userRow' = [c \in DOMAIN Columns |-> NewField(Columns[c].name, ty[c], 0)]
      BY <2>2 DEF MyDescription
    <3> QED BY <3>1, <3>2
  <2> QED BY <1>2, <2>1, <2>2
<1>5. ASSUME NEW c \in DOMAIN Columns
      PROVE  userRow'[c] \in Field /\ FieldFits(userRow'[c]) /\ IsNull(userRow'[c])
  <2> DEFINE n == Columns[c].name
             t == type[c]
  <2>1. n \in STRING
    BY <1>3, ElementOfSeq, LenProperties, FieldIs
  <2>2. t \in SUBSET Traits /\ "IS_NULL" \in t /\ 0 \in Nat
    BY <1>4
  <2>3. userRow'[c] = NewField(n, t, 0)
    BY <1>4
  <2> HIDE DEF n, t
  <2>4. /\ NewField(n, t, 0) \in Field /\ NewField(n, t, 0).type = t
        /\ NewField(n, t, 0).cvalLength = 0
    BY ONLY <2>1, <2>2, NewFieldIs
  <2> QED BY <2>2, <2>3, <2>4 DEF FieldFits, IsNull
<1>6. RowMeant'
  <2>1. DOMAIN userRow' = DOMAIN Columns /\ DOMAIN Columns = 1..Len(Columns) /\ Len(Columns) \in Nat
    BY <1>3, <1>4, LenProperties
  <2>2. userRow' \in Seq(Field)
    <3>1. userRow' \in [1..Len(Columns) -> Field]
      BY <1>4, <1>5, <2>1
    <3> QED BY <3>1, <2>1, SeqDef
  <2>3. \A c \in DOMAIN Columns : Meaning(userRow'[c]) = NullValue
    BY <1>5 DEF Meaning
  <2>4. intended' = [c \in DOMAIN userRow' |-> Meaning(userRow'[c])]
    BY <2>1, <2>3, <1>1
  <2>5. \A c \in DOMAIN userRow' : FieldFits(userRow'[c])
    BY <2>1, <1>5
  <2> QED BY <2>2, <2>4, <2>5 DEF RowMeant, FieldFits, Meaning, IsNull, Printed, PrintedAs, NullValue
<1>7. TableFits' /\ InsertStores' /\ DeleteExact'
  BY <1>1, CallKept
<1>8. SetsOwned' /\ ResultsFaithful'
  BY <1>1, SetsKept
<1>9. StringsFit'
  BY <1>1 DEF DbInv, StatementsMeantAndDone, StringsFit
<1> QED BY <1>6, <1>7, <1>8, <1>9, MakesInv

\* The values that a server reads of what is printed of the description are
\* such as the client's may be taken for.
LEMMA TakenIs ==
  ASSUME DbAssumption, RowMeant, NEW m \in Readings(Conditions(userRow)),
         \A c \in DOMAIN m : m[c] # Unreadable
  PROVE  /\ InsertedRow(userRow, m) \in TakenFor(intended)
         /\ DOMAIN intended = DOMAIN userRow
         /\ \A c \in DOMAIN userRow : ~IsNull(userRow[c]) => m[c] \in DbVals
<1> DEFINE t == InsertedRow(userRow, m)
           conds == Conditions(userRow)
<1>1. DOMAIN intended = DOMAIN userRow
      /\ \A c \in DOMAIN userRow : intended[c] = Meaning(userRow[c]) /\ FieldFits(userRow[c])
  BY DEF RowMeant
<1>2. DOMAIN m = {k.col : k \in conds} /\ \A k \in conds : m[k.col] \in ReadAs(k)
  BY DEF Readings
<1>3. ASSUME NEW c \in DOMAIN userRow, ~IsNull(userRow[c])
      PROVE  m[c] \in DbVals /\ m[c] \in MayMean(intended[c])
  <2> DEFINE v == Printed(userRow[c])
             kind == PrintedAs(userRow[c])
             k == Clause(userRow, c)
  <2>1. k \in conds
    BY <1>3 DEF Conditions
  <2>2. k.col = c /\ k.val = v /\ k.kind = kind
    BY DEF Clause
  <2>3. v \in DbVals
    BY <1>1, <1>3 DEF FieldFits
  <2>4. intended[c] = [val |-> v, kind |-> kind]
    BY <1>1, <1>3 DEF Meaning
  <2>5. kind \in Kinds
    BY DEF PrintedAs, Kinds
  <2> HIDE DEF v, kind, k, conds
  <2>6. m[c] \in ReadAs(k) /\ c \in DOMAIN m
    BY <1>2, <2>1, <2>2
  <2>7. m[c] # Unreadable
    BY <2>6
  <2>8. ReadAs(k) = IF kind \in {"INT", "BIGINT"} THEN {v} ELSE Reads[v]
    BY <2>2, <2>3 DEF ReadAs
  <2>9. Reads[v] \subseteq DbVals \cup {Unreadable}
    BY <2>3 DEF DbAssumption
  <2>10. MayMean(intended[c]) = IF kind \in {"STRING", "DOUBLE"} THEN Reads[v] \ {Unreadable} ELSE {v}
    BY <2>4 DEF MayMean
  <2> HIDE DEF MayMean
  <2> QED BY <2>3, <2>5, <2>6, <2>7, <2>8, <2>9, <2>10 DEF Kinds
<1>4. ASSUME NEW c \in DOMAIN userRow
      PROVE  t[c] \in DbVals \cup {SqlNull} /\ t[c] \in MayMean(intended[c])
  <2>1. t[c] = IF IsNull(userRow[c]) THEN SqlNull ELSE m[c]
    BY DEF InsertedRow
  <2> HIDE DEF t
  <2>2. CASE IsNull(userRow[c])
    <3>1. intended[c] = NullValue
      BY <1>1, <2>2 DEF Meaning
    <3>2. MayMean(intended[c]) = {SqlNull}
      BY <3>1 DEF MayMean, NullValue
    <3> QED BY <2>1, <2>2, <3>2
  <2>3. CASE ~IsNull(userRow[c])
    BY <1>3, <2>1, <2>3
  <2> QED BY <2>2, <2>3
<1>5. t = [c \in DOMAIN userRow |-> t[c]]
  BY DEF InsertedRow
<1> HIDE DEF t
<1>6. t \in [DOMAIN userRow -> DbVals \cup {SqlNull}]
  BY <1>4, <1>5
<1>7. t \in TakenFor(intended)
  BY <1>1, <1>4, <1>6 DEF TakenFor
<1> QED BY <1>1, <1>3, <1>7 DEF t

LEMMA DescribedIs ==
  ASSUME Described, RowMeant, TableFits, table # <<>>
  PROVE  DOMAIN userRow = DOMAIN Columns
<1>1. DOMAIN Names(userRow) = DOMAIN userRow /\ DOMAIN Names(Columns) = DOMAIN Columns
  BY DEF Names
<1> QED BY <1>1 DEF Described

LEMMA InsertKeeps ==
  ASSUME DbAssumption, DbInv, raddatabaseTableInsertRow
  PROVE  DbInv'
<1> DEFINE stored == Inserted(userRow)
           new(m) == InsertedRow(userRow, m)
<1>1. PICK o \in raddatabaseQuery(stored, FALSE) \cup {Rejected} : Apply(o, "insert")
  BY DEF raddatabaseTableInsertRow, PgInsertRow, MyInsertRow
<1>2. Described /\ UNCHANGED <<engine, held, intended, userRow, overrun>>
  BY DEF raddatabaseTableInsertRow
<1>3. \A a \in stored :
         /\ table # <<>>
         /\ \E m \in Readings(Conditions(userRow)) : /\ \A c \in DOMAIN m : m[c] # Unreadable
                                                   /\ a = Command(With(Rows \cup {new(m)}))
  BY DEF Inserted
<1>4. \A a \in stored : a = Command(a.table)
  <2> HIDE DEF stored, new
  <2> QED BY <1>3, CommandIs
<1> HIDE DEF stored, new
<1>5. /\ RowMeant' /\ SetsOwned' /\ ResultsFaithful' /\ StringsFit'
      /\ dbLast' = [op |-> "insert", ret |-> o.ret, row |-> intended, before |-> Rows]
      /\ \/ o.ret = "ERROR" /\ UNCHANGED table
         \/ \E a \in stored : table' = a.table
  BY <1>1, <1>2, <1>4, StatementKeeps
<1>6. dbLast'.op = "insert" /\ dbLast'.ret = o.ret /\ dbLast'.row = intended /\ dbLast'.before = Rows
  BY <1>5
<1>7. DeleteExact'
  BY <1>6 DEF DeleteExact
<1>8. CASE o.ret = "ERROR" /\ UNCHANGED table
  <2>1. TableFits' /\ Rows' = Rows
    BY <1>8, TableKept
  <2>2. InsertStores'
    BY <1>6, <1>8, <2>1 DEF InsertStores
  <2> QED BY <1>5, <1>7, <2>1, <2>2, MakesInv
<1>9. ASSUME NEW a \in stored, table' = a.table PROVE DbInv'
  <2>1. PICK m \in Readings(Conditions(userRow)) : /\ \A c \in DOMAIN m : m[c] # Unreadable
                                                  /\ a = Command(With(Rows \cup {new(m)}))
    BY <1>3, <1>9
  <2>2. table # <<>> /\ TableFits /\ RowMeant
    BY <1>3, <1>9 DEF DbInv
  <2>3. Columns \in Seq(Field) /\ \A r \in Rows : DOMAIN r = DOMAIN Columns /\ r = [c \in DOMAIN r |-> r[c]]
    BY <2>2 DEF TableFits
  <2>4. DOMAIN new(m) = DOMAIN Columns /\ new(m) = [c \in DOMAIN new(m) |-> new(m)[c]]
    BY <1>2, <2>2, DescribedIs DEF InsertedRow, new
  <2>5. new(m) \in TakenFor(intended)
    BY <2>1, <2>2, TakenIs DEF new
  <2>6. table' = <<[cols |-> Columns, rows |-> Rows \cup {new(m)}]>>
    BY <1>9, <2>1, <2>2, WithIs DEF Command
  <2>7. TableFits' /\ Rows' = Rows \cup {new(m)}
    <3>1. \A r \in Rows \cup {new(m)} : DOMAIN r = DOMAIN Columns /\ r = [c \in DOMAIN r |-> r[c]]
      BY <2>3, <2>4
    <3> QED BY <2>3, <2>6, <3>1, TableNow
  <2>8. TakenFor(dbLast.row)' = TakenFor(intended)
    BY <1>6 DEF TakenFor, MayMean
  <2>9. InsertStores'
    BY <1>6, <2>5, <2>7, <2>8 DEF InsertStores
  <2> QED BY <1>5, <1>7, <2>7, <2>9, MakesInv
<1> QED BY <1>5, <1>8, <1>9

\* The rows that a condition takes are rows of a table that is there.
LEMMA MatchedIs ==
  ASSUME NEW clauses, NEW taken \in Matched(clauses)
  PROVE  /\ taken \in SUBSET Rows /\ clauses # {} /\ table # <<>>
         /\ \E m \in Readings(clauses) : /\ Accepts(clauses, m)
                                       /\ taken = {r \in Rows : RowMatches(r, clauses, m)}
<1>1. clauses # {}
  BY DEF Matched
<1>2. PICK m \in Readings(clauses) : /\ Accepts(clauses, m)
                                    /\ taken = {r \in Rows : RowMatches(r, clauses, m)}
  BY DEF Matched
<1>3. table # <<>>
  BY <1>2 DEF Accepts
<1> QED BY <1>1, <1>2, <1>3

\* A row matches what is printed of the description where the values that the
\* server reads agree with it, unless one of them is a column's name to it.
LEMMA MatchMeans ==
  ASSUME DbAssumption, RowMeant, ~NamesColumn(intended),
         NEW m \in Readings(Conditions(userRow)), Accepts(Conditions(userRow), m)
  PROVE  /\ \A c \in DOMAIN m : m[c] # Unreadable
         /\ \A r : RowMatches(r, Conditions(userRow), m)
                  <=> \A c \in DOMAIN userRow : InsertedRow(userRow, m)[c] \in {SqlNull, r[c]}
<1> DEFINE conds == Conditions(userRow)
           set == {i \in DOMAIN userRow : ~IsNull(userRow[i])}
           t == InsertedRow(userRow, m)
<1>1. conds = {Clause(userRow, c) : c \in set} /\ DOMAIN m = {k.col : k \in conds}
  BY DEF Conditions, Readings
<1>2. \A c : Clause(userRow, c).col = c
  BY DEF Clause
<1>3. ASSUME NEW c \in set
      PROVE  ~ReadsColumn(Clause(userRow, c))
  <2> DEFINE k == Clause(userRow, c)
  <2>1. SUFFICES ASSUME ReadsColumn(k) PROVE FALSE
    OBVIOUS
  <2>2. k \in conds
    BY <1>1, <1>3
  <2>3. engine = "pg" /\ k.kind = "STRING"
    BY <2>1 DEF ReadsColumn
  <2>4. Named(k) # {}
    BY <2>1, <2>2 DEF Accepts
  <2>5. PICK n \in DOMAIN Columns : Columns[n].name = TextOf[k.val]
    BY <2>4 DEF Named
  <2>6. intended[c].kind = k.kind /\ intended[c].val = k.val /\ c \in DOMAIN intended
    BY <1>3 DEF RowMeant, Meaning, Clause
  <2>7. NamesColumn(intended)
    BY <2>3, <2>5, <2>6 DEF NamesColumn
  <2> QED BY <2>7
<1>4. \A c \in set : m[c] # Unreadable
  BY <1>1, <1>2, <1>3 DEF Accepts
<1>5. \A c \in DOMAIN m : m[c] # Unreadable
  BY <1>1, <1>2, <1>4
<1>6. \A c \in set : m[c] \in DbVals /\ m[c] # SqlNull
  <2>1. \A v \in DbVals : v # SqlNull
    BY DEF DbAssumption, SqlNull
  <2> QED BY <1>5, <2>1, TakenIs
<1>7. \A c \in DOMAIN userRow : t[c] = IF c \in set THEN m[c] ELSE SqlNull
  BY DEF InsertedRow
<1>8. \A r : RowMatches(r, conds, m) <=> \A c \in set : r[c] # SqlNull /\ r[c] = m[c]
  <2> SUFFICES ASSUME NEW r
               PROVE  RowMatches(r, conds, m) <=> \A c \in set : r[c] # SqlNull /\ r[c] = m[c]
    OBVIOUS
  <2> DEFINE ok(k) == r[k.col] # SqlNull /\ r[k.col] = ValueFor(r, k, m)
  <2>1. RowMatches(r, conds, m) <=> \A c \in set : ok(Clause(userRow, c))
    BY <1>1 DEF RowMatches
  <2>2. \A c \in set : ok(Clause(userRow, c)) <=> r[c] # SqlNull /\ r[c] = m[c]
    BY <1>2, <1>3 DEF ValueFor
  <2> HIDE DEF ok, set, conds
  <2> QED BY <2>1, <2>2
<1> HIDE DEF conds, t
<1>9. set \subseteq DOMAIN userRow
  OBVIOUS
<1> HIDE DEF set
<1>10. \A r : (\A c \in set : r[c] # SqlNull /\ r[c] = m[c])
             <=> \A c \in DOMAIN userRow : t[c] \in {SqlNull, r[c]}
  BY <1>6, <1>7, <1>9
<1> QED BY <1>5, <1>8, <1>10 DEF conds, t

LEMMA DeleteKeeps ==
  ASSUME DbAssumption, DbInv, raddatabaseTableDeleteRows
  PROVE  DbInv'
<1> DEFINE conds == Conditions(userRow)
           answers == Deleted(conds)
<1>1. PICK o \in raddatabaseQuery(answers, FALSE) : Apply(o, "delete")
  BY DEF raddatabaseTableDeleteRows, PgDeleteRows, MyDeleteRows
<1>2. Described /\ UNCHANGED <<engine, held, intended, userRow, overrun>>
  BY DEF raddatabaseTableDeleteRows
<1>3. \A a \in answers : \E taken \in Matched(conds) : a = Command(With(Rows \ taken))
  BY DEF Deleted
<1>4. \A a \in answers : a = Command(a.table)
  <2> HIDE DEF answers, conds
  <2> QED BY <1>3, CommandIs
<1> HIDE DEF answers
<1>5. /\ RowMeant' /\ SetsOwned' /\ ResultsFaithful' /\ StringsFit'
      /\ dbLast' = [op |-> "delete", ret |-> o.ret, row |-> intended, before |-> Rows]
      /\ \/ o.ret = "ERROR" /\ UNCHANGED table
         \/ \E a \in answers : table' = a.table
  BY <1>1, <1>2, <1>4, StatementKeeps
<1>6. dbLast'.op = "delete" /\ dbLast'.ret = o.ret /\ dbLast'.row = intended /\ dbLast'.before = Rows
  BY <1>5
<1>7. InsertStores'
  BY <1>6 DEF InsertStores
<1>8. CASE o.ret = "ERROR" /\ UNCHANGED table
  <2>1. TableFits' /\ Rows' = Rows
    BY <1>8, TableKept
  <2>2. DeleteExact'
    BY <1>6, <1>8, <2>1 DEF DeleteExact
  <2> QED BY <1>5, <1>7, <2>1, <2>2, MakesInv
<1>9. ASSUME NEW a \in answers, table' = a.table PROVE DbInv'
  <2>1. PICK taken \in Matched(conds) : a = Command(With(Rows \ taken))
    BY <1>3, <1>9
  <2> DEFINE rest == Rows \ taken
  <2>2. /\ conds # {} /\ table # <<>>
        /\ \E m \in Readings(conds) : /\ Accepts(conds, m)
                                    /\ taken = {r \in Rows : RowMatches(r, conds, m)}
    BY <2>1, MatchedIs
  <2>3. TableFits /\ RowMeant
    BY DEF DbInv
  <2>4. table' = <<[cols |-> Columns, rows |-> rest]>>
    BY <1>9, <2>1, <2>2, <2>3, WithIs DEF Command
  <2>5. TableFits' /\ Rows' = rest /\ Columns' = Columns
    <3>1. Columns \in Seq(Field) /\ \A r \in rest : DOMAIN r = DOMAIN Columns /\ r = [c \in DOMAIN r |-> r[c]]
      BY <2>2, <2>3 DEF TableFits
    <3> HIDE DEF rest
    <3> QED BY <2>4, <3>1, TableNow
  <2>6. NamesColumn(dbLast.row)' <=> NamesColumn(intended)
    BY <1>2, <1>6, <2>5 DEF NamesColumn
  <2>7. TakenFor(dbLast.row)' = TakenFor(intended)
    BY <1>6 DEF TakenFor, MayMean
  <2>8. ASSUME ~NamesColumn(intended)
        PROVE  /\ \E c \in DOMAIN intended : intended[c].kind # "NULL"
               /\ \E t \in TakenFor(intended) :
                    rest = {r \in Rows : \E c \in DOMAIN t : t[c] \notin {SqlNull, r[c]}}
    <3>1. PICK m \in Readings(conds) : /\ Accepts(conds, m)
                                      /\ taken = {r \in Rows : RowMatches(r, conds, m)}
      BY <2>2
    <3> DEFINE t == InsertedRow(userRow, m)
    <3>2. /\ \A c \in DOMAIN m : m[c] # Unreadable
          /\ \A r : RowMatches(r, conds, m) <=> \A c \in DOMAIN userRow : t[c] \in {SqlNull, r[c]}
      BY <2>3, <2>8, <3>1, MatchMeans
    <3>3. t \in TakenFor(intended) /\ DOMAIN intended = DOMAIN userRow
      BY <2>3, <3>2, TakenIs
    <3>4. DOMAIN t = DOMAIN userRow
      BY DEF InsertedRow
    <3> HIDE DEF t
    <3>5. rest = {r \in Rows : \E c \in DOMAIN t : t[c] \notin {SqlNull, r[c]}}
      BY <3>1, <3>2, <3>4
    <3>6. PICK c \in DOMAIN userRow : ~IsNull(userRow[c])
      BY <2>2 DEF Conditions
    <3>7. intended[c].kind # "NULL"
      <4>1. intended[c].kind = PrintedAs(userRow[c])
        BY <2>3, <3>6 DEF RowMeant, Meaning
      <4> QED BY <4>1 DEF PrintedAs
    <3> QED BY <3>3, <3>5, <3>6, <3>7
  <2> HIDE DEF rest
  <2>9. DeleteExact'
    BY <1>6, <2>5, <2>6, <2>7, <2>8 DEF DeleteExact
  <2> QED BY <1>5, <1>7, <2>5, <2>9, MakesInv
<1> QED BY <1>5, <1>8, <1>9

\* A result set that is there afterwards is an old one or says what the rows
\* it was asked for say.
LEMMA SetsSay ==
  ASSUME ResultsFaithful, NEW s, NEW found, Says(found),
         DOMAIN sets' \subseteq DOMAIN sets \cup {s},
         \A x \in DOMAIN sets' : sets'[x] = found \/ (x \in DOMAIN sets /\ sets'[x] = sets[x])
  PROVE  ResultsFaithful'
<1>1. \A x \in DOMAIN sets : sets[x].wanted = {RowSays(g) : g \in sets[x].rows}
  BY DEF ResultsFaithful
<1>2. ASSUME NEW x \in DOMAIN sets'
      PROVE  sets'[x].wanted = {RowSays(g) : g \in sets'[x].rows}
  <2>1. CASE sets'[x] = found
    BY <2>1 DEF Says
  <2>2. CASE x \in DOMAIN sets /\ sets'[x] = sets[x]
    BY <1>1, <2>2
  <2> QED BY <2>1, <2>2
<1> QED BY <1>2 DEF ResultsFaithful

LEMMA ResultSetSays ==
  ASSUME TableFits, NEW clauses, NEW taken \in Matched(clauses), NEW names, NEW text
  PROVE  Says(ResultSet(names, text, taken))
<1>1. taken \in SUBSET Rows
  BY MatchedIs
<1>2. taken = {RowSays(g) : g \in {ResultRow(r) : r \in taken}}
  BY <1>1, ResultsSay
<1> QED BY <1>2 DEF ResultSet, Says

LEMMA QueryKeeps ==
  ASSUME DbInv, raddatabaseTableQueryRow
  PROVE  DbInv'
<1> DEFINE clause == WhereOf(Conditions(userRow))
           names == Names(userRow)
           answers == Selected(names, clause)
<1>1. PICK o \in raddatabaseQuery(answers, TRUE) :
         /\ Apply(o, "query")
         /\ held' = IF o.ret = "OK" THEN held \cup {o.resSet} ELSE held
  BY DEF raddatabaseTableQueryRow, PgQueryRow, MyQueryRow
<1>2. UNCHANGED <<intended, userRow, overrun>>
  BY DEF raddatabaseTableQueryRow
<1>3. ASSUME NEW a \in answers PROVE SelectAnswer(a)
  <2> HIDE DEF clause, names
  <2>1. PICK taken \in Matched(clause) : a = [table |-> table, found |-> <<ResultSet(names, clause, taken)>>]
    BY <1>3 DEF Selected
  <2>2. Says(ResultSet(names, clause, taken))
    BY <2>1, ResultSetSays DEF DbInv
  <2> HIDE DEF answers
  <2> QED BY <2>1, <2>2 DEF SelectAnswer
<1> HIDE DEF answers
<1>5. /\ o.table = table
      /\ \/ o.ret = "ERROR" /\ o.sets = sets /\ o.resSet \in {resSet, NoResults}
         \/ /\ o.ret = "OK" /\ o.resSet \notin DOMAIN sets
            /\ \E found : /\ Says(found)
                         /\ o.sets = [x \in DOMAIN sets \cup {o.resSet} |->
                                        IF x = o.resSet THEN found ELSE sets[x]]
  BY <1>1, <1>3, Question
<1>6. /\ table' = table /\ resSet' = o.resSet /\ sets' = o.sets
      /\ dbLast' = [op |-> "query", ret |-> o.ret, row |-> intended, before |-> Rows]
  BY <1>1, <1>5 DEF Apply
<1>8. TableFits' /\ InsertStores' /\ DeleteExact'
  BY <1>6, TableKept, OtherCall
<1>9. RowMeant' /\ StringsFit'
  BY <1>2, RowKept DEF DbInv, StatementsMeantAndDone, StringsFit
<1>10. SetsOwned' /\ ResultsFaithful'
  <2>1. CASE o.ret = "ERROR" /\ o.sets = sets /\ o.resSet \in {resSet, NoResults}
    <3>1. held' = held /\ sets' = sets /\ resSet' \in {resSet, NoResults}
      BY <1>1, <1>6, <2>1
    <3> QED BY <3>1, SetsKept
  <2>2. CASE /\ o.ret = "OK" /\ o.resSet \notin DOMAIN sets
             /\ \E found : /\ Says(found)
                          /\ o.sets = [x \in DOMAIN sets \cup {o.resSet} |->
                                         IF x = o.resSet THEN found ELSE sets[x]]
    <3>1. held' = held \cup {o.resSet} /\ resSet' = o.resSet
      BY <1>1, <1>6, <2>2
    <3>2. PICK found : /\ Says(found)
                       /\ o.sets = [x \in DOMAIN sets \cup {o.resSet} |->
                                      IF x = o.resSet THEN found ELSE sets[x]]
      BY <2>2
    <3>3. DOMAIN sets' = DOMAIN sets \cup {o.resSet}
          /\ \A x \in DOMAIN sets' : sets'[x] = IF x = o.resSet THEN found ELSE sets[x]
      BY <1>6, <3>2
    <3>4. SetsOwned /\ ResultsFaithful
      BY DEF DbInv, StatementsMeantAndDone
    <3>5. SetsOwned'
      BY <3>1, <3>3, <3>4 DEF SetsOwned
    <3>6. ResultsFaithful'
      BY <3>2, <3>3, <3>4, SetsSay
    <3> QED BY <3>5, <3>6
  <2> QED BY <1>5, <2>1, <2>2
<1> QED BY <1>8, <1>9, <1>10, MakesInv

LEMMA ReleaseKeeps ==
  ASSUME DbInv, NEW s \in held, raddatabaseReleaseResults(s)
  PROVE  DbInv'
<1>1. /\ sets' = Restrict(sets, DOMAIN sets \ {s}) /\ resSet' = NoResults /\ held' = held \ {s}
      /\ UNCHANGED <<engine, table, intended, userRow, overrun, dbLast>>
  BY DEF raddatabaseReleaseResults, ReleaseSet
<1>2. DOMAIN sets' = DOMAIN sets \ {s} /\ \A x \in DOMAIN sets' : sets'[x] = sets[x]
  BY <1>1 DEF Restrict
<1>3. SetsOwned /\ ResultsFaithful
  BY DEF DbInv, StatementsMeantAndDone
<1>4. SetsOwned'
  BY <1>1, <1>2, <1>3 DEF SetsOwned
<1>5. ResultsFaithful'
  BY <1>2, <1>3 DEF ResultsFaithful
<1>6. TableFits' /\ InsertStores' /\ DeleteExact'
  BY <1>1, CallKept
<1>7. RowMeant' /\ StringsFit'
  BY <1>1, RowKept DEF DbInv, StatementsMeantAndDone, StringsFit
<1> QED BY <1>4, <1>5, <1>6, <1>7, MakesInv

LEMMA RefreshKeeps ==
  ASSUME DbInv, NEW s \in held, raddatabaseRefreshResults(s)
  PROVE  DbInv'
<1> DEFINE left == Restrict(sets, DOMAIN sets \ {s})
           found(taken) == ResultSet(sets[s].names, sets[s].where, taken)
<1>1. UNCHANGED <<engine, table, intended, userRow, overrun, dbLast>>
  BY DEF raddatabaseRefreshResults
<1>2. DOMAIN left = DOMAIN sets \ {s} /\ \A x \in DOMAIN left : left[x] = sets[x]
  BY DEF Restrict
<1>3. \A taken \in Matched(sets[s].where) : Says(found(taken))
  BY ResultSetSays DEF DbInv
<1>4. \/ /\ \E taken \in Matched(sets[s].where) :
              sets' = [x \in DOMAIN left \cup {s} |-> IF x # s THEN left[x] ELSE found(taken)]
         /\ resSet' = s /\ held' = held
      \/ sets' = left /\ resSet' = NoResults /\ held' = held \ {s}
  BY DEF raddatabaseRefreshResults
<1> HIDE DEF left, found
<1>5. SetsOwned /\ ResultsFaithful /\ s \in DOMAIN sets
  BY DEF DbInv, StatementsMeantAndDone, SetsOwned
<1>6. SetsOwned' /\ ResultsFaithful'
  <2>1. ASSUME NEW taken \in Matched(sets[s].where), resSet' = s, held' = held,
               sets' = [x \in DOMAIN left \cup {s} |-> IF x # s THEN left[x] ELSE found(taken)]
        PROVE  SetsOwned' /\ ResultsFaithful'
    <3>1. DOMAIN sets' = DOMAIN sets
          /\ \A x \in DOMAIN sets' : sets'[x] = IF x # s THEN sets[x] ELSE found(taken)
      BY <1>2, <1>5, <2>1
    <3>2. SetsOwned'
      BY <1>5, <2>1, <3>1 DEF SetsOwned
    <3>3. Says(found(taken))
      BY <1>3
    <3>4. ResultsFaithful'
      BY <1>5, <3>1, <3>3, SetsSay
    <3> QED BY <3>2, <3>4
  <2>2. CASE sets' = left /\ resSet' = NoResults /\ held' = held \ {s}
    BY <1>2, <1>5, <2>2 DEF SetsOwned, ResultsFaithful
  <2> QED BY <1>4, <2>1, <2>2
<1>7. TableFits' /\ InsertStores' /\ DeleteExact'
  BY <1>1, CallKept
<1>8. RowMeant' /\ StringsFit'
  BY <1>1, RowKept DEF DbInv, StatementsMeantAndDone, StringsFit
<1> QED BY <1>6, <1>7, <1>8, MakesInv

\* An UPDATE changes values, not which columns there are.
LEMMA ModifyKeeps ==
  ASSUME DbInv, NEW old \in Rows, raddatabaseTableModifyRows(old)
  PROVE  DbInv'
<1> DEFINE clause == WhereOf(ModifyConditions(ResultRow(old)))
           set == Assignments(userRow)
           change(r, taken, m) == IF r \in taken THEN Updated(r, set, m) ELSE r
           rows(taken, m) == {change(r, taken, m) : r \in Rows}
           answers == Modified(clause, set)
<1>1. PICK given : /\ given \in {{}, answers}
                   /\ \E o \in raddatabaseQuery(given, FALSE) \cup {Rejected} : Apply(o, "modify")
  <2>1. \/ \E o \in raddatabaseQuery({}, FALSE) \cup {Rejected} : Apply(o, "modify")
        \/ \E o \in raddatabaseQuery(answers, FALSE) \cup {Rejected} : Apply(o, "modify")
    BY DEF raddatabaseTableModifyRows, PgModifyRows, MyModifyRows
  <2> HIDE DEF answers, clause, set
  <2> QED BY <2>1
<1>2. UNCHANGED <<held, intended, userRow, overrun>>
  BY DEF raddatabaseTableModifyRows
<1>3. \A a \in answers : \E taken \in Matched(clause) : \E m : a = Command(With(rows(taken, m)))
  BY DEF Modified
<1>4. \A a \in given : a = Command(a.table)
  <2> HIDE DEF answers, rows, clause
  <2> QED BY <1>1, <1>3, CommandIs
<1>5. ASSUME table # <<>>, NEW taken, NEW m
      PROVE  \A r \in rows(taken, m) : DOMAIN r = DOMAIN Columns /\ r = [c \in DOMAIN r |-> r[c]]
  <2>1. ASSUME NEW r \in Rows
        PROVE  /\ DOMAIN change(r, taken, m) = DOMAIN Columns
               /\ change(r, taken, m) = [c \in DOMAIN change(r, taken, m) |-> change(r, taken, m)[c]]
    <3>1. DOMAIN r = DOMAIN Columns /\ r = [c \in DOMAIN r |-> r[c]]
      BY <1>5 DEF DbInv, TableFits
    <3> DEFINE new == Updated(r, set, m)
    <3>2. DOMAIN new = DOMAIN r /\ new = [c \in DOMAIN new |-> new[c]]
      BY DEF Updated
    <3>3. change(r, taken, m) = new \/ change(r, taken, m) = r
      OBVIOUS
    <3> HIDE DEF new, change
    <3> QED BY <3>1, <3>2, <3>3
  <2> HIDE DEF change
  <2> QED BY <2>1
<1> HIDE DEF rows, answers
<1>6. PICK o \in raddatabaseQuery(given, FALSE) \cup {Rejected} : Apply(o, "modify")
  BY <1>1
<1>7. /\ RowMeant' /\ SetsOwned' /\ ResultsFaithful' /\ StringsFit'
      /\ dbLast' = [op |-> "modify", ret |-> o.ret, row |-> intended, before |-> Rows]
      /\ \/ o.ret = "ERROR" /\ UNCHANGED table
         \/ \E a \in given : table' = a.table
  BY <1>2, <1>4, <1>6, StatementKeeps
<1>8. TableFits'
  <2>1. CASE UNCHANGED table
    BY <2>1, TableKept
  <2>2. ASSUME NEW a \in given, table' = a.table PROVE TableFits'
    <3>1. a \in answers
      BY <1>1
    <3>6. PICK taken \in Matched(clause) : \E m : a = Command(With(rows(taken, m)))
      BY <1>3, <3>1
    <3>2. PICK m : a = Command(With(rows(taken, m)))
      BY <3>6
    <3>3. table # <<>> /\ TableFits
      BY <3>2, MatchedIs DEF DbInv
    <3>4. table' = <<[cols |-> Columns, rows |-> rows(taken, m)]>> /\ Columns \in Seq(Field)
      BY <2>2, <3>2, <3>3, WithIs DEF TableFits, Command
    <3>5. \A r \in rows(taken, m) : DOMAIN r = DOMAIN Columns /\ r = [c \in DOMAIN r |-> r[c]]
      BY <1>5, <3>3
    <3> QED BY <3>4, <3>5, TableNow
  <2> QED BY <1>7, <2>1, <2>2
<1>9. InsertStores' /\ DeleteExact'
  BY <1>7, OtherCall
<1> QED BY <1>7, <1>8, <1>9, MakesInv

LEMMA FieldEditKeeps ==
  ASSUME DbAssumption, DbInv, NEW c \in DOMAIN Columns, EditField(c)
  PROVE  DbInv'
<1> DEFINE old == userRow[c]
<1>1. PICK f, v, kind :
         /\ Edit(c, v, kind, f)
         /\ \/ v \in DbVals /\ kind = "INT" /\ f = FieldSetIntValue(old, v) /\ UNCHANGED overrun
            \/ v \in DbVals /\ kind \in {"BIGINT", "DOUBLE"} /\ f = FieldSetWide(old, v, kind)
               /\ UNCHANGED overrun
            \/ \E len \in Lengths : /\ v \in DbVals /\ kind = "STRING" /\ f = FieldSetCharValue(old, v, len)
                                    /\ overrun' = (overrun \/ ~StrcpyFits(old, len))
            \/ v = SqlNull /\ kind = "NULL" /\ f = FieldSetToNull(old) /\ UNCHANGED overrun
  BY DEF EditField, FieldSetBigIntValue, FieldSetDoubleValue
<1>2. /\ c \in DOMAIN userRow
      /\ userRow' = [userRow EXCEPT ![c] = f]
      /\ intended' = [intended EXCEPT ![c] = [val |-> v, kind |-> kind]]
      /\ UNCHANGED <<engine, table, resSet, sets, held, dbLast>>
  BY <1>1 DEF Edit
<1>3. RowMeant /\ overrun = FALSE
  BY DEF DbInv, StatementsMeantAndDone, StringsFit
<1>4. old \in Field /\ FieldFits(old)
  BY <1>2, <1>3, ElementOfSeq, LenProperties DEF RowMeant
<1> HIDE DEF old
<1>6. /\ f \in Field /\ FieldFits(f) /\ [val |-> v, kind |-> kind] = Meaning(f)
      /\ overrun' = FALSE
  <2>1. CASE v \in DbVals /\ kind = "INT" /\ f = FieldSetIntValue(old, v) /\ UNCHANGED overrun
    BY <1>3, <1>4, <2>1, SetIntKeeps, IntSets
  <2>2. CASE v \in DbVals /\ kind \in {"BIGINT", "DOUBLE"} /\ f = FieldSetWide(old, v, kind)
             /\ UNCHANGED overrun
    BY <1>3, <1>4, <2>2, SetWideKeeps, WideSets
  <2>3. ASSUME NEW len \in Lengths, v \in DbVals, kind = "STRING", f = FieldSetCharValue(old, v, len),
               overrun' = (overrun \/ ~StrcpyFits(old, len))
        PROVE  <1>6
    <3>1. /\ f \in Field /\ FieldFits(f) /\ StrcpyFits(old, len)
          /\ Meaning(f) = [val |-> v, kind |-> "STRING"]
      BY <1>4, <2>3, SetCharKeeps
    <3> QED BY <1>3, <2>3, <3>1
  <2>4. CASE v = SqlNull /\ kind = "NULL" /\ f = FieldSetToNull(old) /\ UNCHANGED overrun
    BY <1>3, <1>4, <2>4, SetNullKeeps DEF Meaning, NullValue
  <2> QED BY <1>1, <2>1, <2>2, <2>3, <2>4
<1>7. RowMeant'
  BY <1>2, <1>3, <1>6, EditMeans
<1>8. TableFits' /\ InsertStores' /\ DeleteExact' /\ SetsOwned' /\ ResultsFaithful'
  BY <1>2, CallKept, SetsKept
<1>9. StringsFit'
  BY <1>6 DEF StringsFit
<1> QED BY <1>7, <1>8, <1>9, MakesInv

\* What the table calls of raddatabase.h promise, on both engines, for every
\* table description, value, string length and way that literals are read: an
\* insert or a delete does to the table what the client's row description means
\* as far as its literals keep it (not a delete by a text that postgresql takes
\* for a column), or after a failure nothing; results say what the rows said,
\* no result set is lost or dangles, and no string overruns its buffer.
THEOREM CallsMeantAndDone == DbSpec => []StatementsMeantAndDone
<1>1. DbInit => DbInv
  BY DbStarts
<1>2. DbInv /\ [DbNext]_dbVars => DbInv'
  <2> SUFFICES ASSUME DbInv, [DbNext]_dbVars PROVE DbInv'
    OBVIOUS
  <2>1. CASE UNCHANGED dbVars
    BY <2>1, DbOpenKeeps DEF dbVars
  <2>2. CASE raddatabaseOpen
    BY <2>2, DbOpenKeeps DEF raddatabaseOpen
  <2>3. CASE raddatabaseClose
    BY <2>3, DbCloseKeeps
  <2>4. ASSUME NEW d \in TableDescrs, raddatabaseTableCreate(d) PROVE DbInv'
    BY <2>4, CreateKeeps, DbAssumption
  <2>5. CASE raddatabaseTableDelete
    BY <2>5, DropKeeps
  <2>6. CASE raddatabaseTableTruncate
    BY <2>6, TruncateKeeps
  <2>7. CASE raddatabaseTableDescriptionGet
    BY <2>7, DescriptionKeeps
  <2>8. CASE raddatabaseTableInsertRow
    BY <2>8, InsertKeeps, DbAssumption
  <2>9. CASE raddatabaseTableDeleteRows
    BY <2>9, DeleteKeeps, DbAssumption
  <2>10. CASE raddatabaseTableQueryRow
    BY <2>10, QueryKeeps
  <2>11. ASSUME NEW s \in held, raddatabaseReleaseResults(s) \/ raddatabaseRefreshResults(s)
         PROVE  DbInv'
    BY <2>11, ReleaseKeeps, RefreshKeeps
  <2>12. ASSUME NEW r \in Rows, raddatabaseTableModifyRows(r) PROVE DbInv'
    BY <2>12, ModifyKeeps
  <2>13. ASSUME NEW c \in DOMAIN Columns, EditField(c) PROVE DbInv'
    BY <2>13, FieldEditKeeps, DbAssumption
  <2> QED BY <2>1, <2>2, <2>3, <2>4, <2>5, <2>6, <2>7, <2>8, <2>9, <2>10, <2>11, <2>12, <2>13 DEF DbNext
<1>3. DbInv => StatementsMeantAndDone
  BY DEF DbInv
<1> QED BY <1>1, <1>2, <1>3, PTL DEF DbSpec

==============================================================================
