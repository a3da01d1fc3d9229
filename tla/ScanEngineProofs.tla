-------------------------- MODULE ScanEngineProofs --------------------------
(***************************************************************************)
(* Proofs about ScanEngine, for any memory, regions, page size, item size, *)
(* requests, chunk sizes, alignments, limits and budgets.                  *)
(*                                                                         *)
(* Recursion over bytes is reasoned about through Reaches: a property that *)
(* fails for some number fails for a least one.                            *)
(***************************************************************************)
EXTENDS ScanEngine, FiniteSetTheorems, FunctionTheorems, WellFoundedInduction, TLAPS

-----------------------------------------------------------------------------
(* Least and greatest numbers, and what is read.                           *)

\* Every set of numbers has a least one: what stands in for induction here.
LEMMA LeastNat ==
    ASSUME NEW T \in SUBSET Nat, T # {}
    PROVE  \E x \in T : \A y \in T : x <= y
<1> DEFINE R == OpToRel(<, Nat)
<1>1. IsWellFoundedOn(R, Nat)
  BY NatLessThanWellFounded
<1>2. \A x, y \in Nat : x < y => <<x, y>> \in R
  BY DEF OpToRel
<1> HIDE DEF R
<1>3. PICK x \in T : \A y \in T : ~ (<<y, x>> \in R)
  BY <1>1, WFMin
<1>4. \A y \in T : y \in Nat /\ x \in Nat /\ ~ (y < x)
  BY <1>2, <1>3
<1> QED
  BY <1>4

\* Induction over the numbers, for a set of those it has reached.
LEMMA Reaches ==
    ASSUME NEW Good, 0 \in Good, \A k \in Nat : k \in Good => k + 1 \in Good
    PROVE  \A k \in Nat : k \in Good
<1> DEFINE Bad == {k \in Nat : k \notin Good}
<1>1. SUFFICES ASSUME Bad # {} PROVE FALSE
  OBVIOUS
<1>2. Bad \in SUBSET Nat
  OBVIOUS
<1>3. PICK k \in Bad : \A j \in Bad : k <= j
  <2> HIDE DEF Bad
  <2> QED
    BY <1>1, <1>2, LeastNat
<1>4. k \in Nat /\ k # 0 /\ k - 1 \in Nat /\ ~ (k <= k - 1) /\ (k - 1) + 1 = k
  OBVIOUS
<1>5. k - 1 \in Good
  BY <1>3, <1>4
<1> QED
  BY <1>4, <1>5

\* Min and Max of FiniteSetsExt are what their names say.
LEMMA MinNat ==
    ASSUME NEW S \in SUBSET Nat, S # {}
    PROVE  Min(S) \in S /\ \A x \in S : Min(S) <= x
  BY LeastNat DEF Min

\* The greatest, where there is one.
LEMMA MaxNat ==
    ASSUME NEW S \in SUBSET Nat, S # {}, NEW top \in Nat, \A x \in S : x <= top
    PROVE  Max(S) \in S /\ \A x \in S : x <= Max(S)
<1> DEFINE T == {y \in Nat : \E x \in S : y = top - x}
<1>1. \A x \in S : top - x \in T
  OBVIOUS
<1>2. T \in SUBSET Nat /\ T # {}
  BY <1>1
<1>3. PICK t \in T : \A u \in T : t <= u
  <2> HIDE DEF T
  <2> QED
    BY <1>2, LeastNat
<1>4. PICK m \in S : t = top - m
  OBVIOUS
<1>5. ASSUME NEW x \in S
      PROVE  x <= m
  <2>1. top - m <= top - x
    BY <1>1, <1>3, <1>4
  <2> QED
    BY <2>1
<1> QED
  BY <1>5 DEF Max

\* What read_into returns, wherever the target has freed memory.
LEMMA ReadIntoType ==
    ASSUME NEW a \in Nat, NEW n \in Nat
    PROVE  LET c == ReadInto(a, n)
           IN  /\ c \in 0..n
               /\ \A i \in 0..(c - 1) : a + i \in mapped
               /\ c < n => a + c \notin mapped
<1> DEFINE T == {c \in 0..n : c < n => a + c \notin mapped}
<1>1. T \in SUBSET Nat /\ n \in T
  OBVIOUS
<1>2. PICK c \in T : \A d \in T : c <= d
  BY <1>1, LeastNat
<1>3. c \in 0..n /\ (c < n => a + c \notin mapped)
  OBVIOUS
<1>4. ASSUME NEW i \in 0..(c - 1)
      PROVE  a + i \in mapped
  <2>1. i \in 0..n /\ i < n /\ ~(c <= i)
    BY <1>3
  <2> QED
    BY <1>2, <2>1
<1> QED
  BY <1>3, <1>4 DEF ReadInto

-----------------------------------------------------------------------------
(* Numbers.                                                                *)

Sums(b, f) ==
    f = [i \in 1..(Len(b) + 1) |->
            IF i > Len(b) THEN 0 ELSE b[i] + Base * f[i + 1]]

\* Bytes can be summed up from the last to the first.
LEMMA SumsExist ==
    ASSUME NEW b \in Seq(Byte)
    PROVE  \E f : Sums(b, f)
<1> USE EngineAssumption
<1> DEFINE n == Len(b)
           D == 1..(n + 1)
           Ok(g, k) == g[n + 1] = 0 /\ \A i \in 1..n : n < i + k => g[i] = b[i] + Base * g[i + 1]
           Good == {k \in Nat : k <= n => \E g \in [D -> Nat] : Ok(g, k)}
<1>1. n \in Nat /\ \A i \in 1..n : b[i] \in Nat
  BY DEF Byte
<1> HIDE DEF n
<1>2. 0 \in Good
  <2> DEFINE g == [i \in D |-> 0]
  <2>1. n + 1 \in D
    BY <1>1
  <2>2. g \in [D -> Nat] /\ g[n + 1] = 0
    BY <2>1
  <2>3. \A i \in 1..n : ~ (n < i + 0)
    BY <1>1
  <2>4. Ok(g, 0)
    <3> HIDE DEF g
    <3> QED
      BY <2>2, <2>3
  <2> QED
    BY <2>2, <2>4
<1>3. ASSUME NEW k \in Nat, k \in Good
      PROVE  k + 1 \in Good
  <2>1. SUFFICES ASSUME k + 1 <= n
                 PROVE  \E g \in [D -> Nat] : Ok(g, k + 1)
    OBVIOUS
  <2>2. k <= n
    BY <1>1, <2>1
  <2>3. PICK g \in [D -> Nat] : Ok(g, k)
    BY <1>3, <2>2
  <2> DEFINE at == n - k
             h == [g EXCEPT ![at] = b[at] + Base * g[at + 1]]
  <2>4. at \in 1..n /\ at + 1 \in D /\ at \in D
    BY <1>1, <2>1
  <2>5. b[at] + Base * g[at + 1] \in Nat
    <3>1. g[at + 1] \in Nat /\ b[at] \in Nat
      BY <1>1, <2>3, <2>4
    <3>2. \A x, y, z \in Nat : x + y * z \in Nat
      OBVIOUS
    <3> QED
      BY <3>1, <3>2
  <2>6. h \in [D -> Nat] /\ h[at] = b[at] + Base * g[at + 1]
        /\ \A i \in D : i # at => h[i] = g[i]
    BY <2>3, <2>4, <2>5
  <2>7. Ok(h, k + 1)
    <3>1. h[n + 1] = 0
      BY <1>1, <2>3, <2>4, <2>6
    <3>2. ASSUME NEW i \in 1..n, n < i + (k + 1)
          PROVE  h[i] = b[i] + Base * h[i + 1]
      <4>1. i \in D /\ i + 1 \in D /\ i + 1 # at
        BY <1>1, <3>2
      <4>2. CASE i = at
        BY <2>6, <4>1, <4>2
      <4>3. CASE i # at
        <5>1. n < i + k
          BY <1>1, <3>2, <4>3
        <5>2. g[i] = b[i] + Base * g[i + 1]
          BY <2>3, <5>1
        <5> QED
          BY <2>6, <4>1, <4>3, <5>2
      <4> QED
        BY <4>2, <4>3
    <3> QED
      BY <3>1, <3>2
  <2> QED
    BY <2>6, <2>7
<1>4. n \in Good
  <2> HIDE DEF Good
  <2> QED
    BY <1>1, <1>2, <1>3, Reaches
<1>5. PICK g \in [D -> Nat] : Ok(g, n)
  BY <1>1, <1>4
<1>6. \A i \in D : g[i] = IF i > n THEN 0 ELSE b[i] + Base * g[i + 1]
  <2> TAKE i \in D
  <2>1. CASE i = n + 1
    BY <1>1, <1>5, <2>1
  <2>2. CASE i \in 1..n
    <3>1. n < i + n /\ ~ (i > n)
      BY <1>1, <2>2
    <3> QED
      BY <1>5, <2>2, <3>1
  <2> QED
    BY <1>1, <2>1, <2>2
<1>7. g = [i \in D |-> IF i > n THEN 0 ELSE b[i] + Base * g[i + 1]]
  BY <1>5, <1>6
<1> QED
  BY <1>7 DEF Sums, n

\* The value of Unsigned is the first of its partial sums.
LEMMA UnsignedSums ==
    ASSUME NEW b \in Seq(Byte)
    PROVE  \E f : Sums(b, f) /\ Unsigned(b) = f[1]
  BY SumsExist DEF Sums, Unsigned

\* A sum is a number, and its parts are those of the definition.
LEMMA SumsStep ==
    ASSUME NEW b \in Seq(Byte), NEW f, Sums(b, f)
    PROVE  /\ f[Len(b) + 1] = 0
           /\ \A i \in 1..Len(b) : f[i] = b[i] + Base * f[i + 1]
           /\ \A i \in 1..(Len(b) + 1) : f[i] \in Nat
<1> USE EngineAssumption
<1> DEFINE n == Len(b)
           Good == {k \in Nat : k <= n => f[n + 1 - k] \in Nat}
<1>1. n \in Nat /\ \A i \in 1..n : b[i] \in Nat
  BY DEF Byte
<1>2. f[n + 1] = 0 /\ \A i \in 1..n : f[i] = b[i] + Base * f[i + 1]
  <2>1. \A i \in 1..(n + 1) : f[i] = IF i > n THEN 0 ELSE b[i] + Base * f[i + 1]
    BY DEF Sums
  <2>2. n + 1 \in 1..(n + 1) /\ \A i \in 1..n : i \in 1..(n + 1) /\ ~ (i > n)
    BY <1>1
  <2>3. n + 1 > n
    BY <1>1
  <2> HIDE DEF n
  <2> QED
    BY <2>1, <2>2, <2>3
<1> HIDE DEF n
<1>3. 0 \in Good
  BY <1>1, <1>2
<1>4. ASSUME NEW k \in Nat, k \in Good
      PROVE  k + 1 \in Good
  <2>1. SUFFICES ASSUME k + 1 <= n
                 PROVE  f[n + 1 - (k + 1)] \in Nat
    OBVIOUS
  <2>2. f[n + 1 - k] \in Nat
    BY <1>1, <1>4, <2>1
  <2>3. n - k \in 1..n /\ (n - k) + 1 = n + 1 - k /\ n + 1 - (k + 1) = n - k
    BY <1>1, <2>1
  <2>4. f[n - k] = b[n - k] + Base * f[n + 1 - k] /\ b[n - k] \in Nat
    BY <1>1, <1>2, <2>3
  <2>5. \A x, y, z \in Nat : x + y * z \in Nat
    OBVIOUS
  <2> QED
    BY <2>2, <2>3, <2>4, <2>5
<1>5. \A k \in Nat : k \in Good
  <2> HIDE DEF Good
  <2> QED
    BY <1>3, <1>4, Reaches
<1>6. ASSUME NEW i \in 1..(n + 1)
      PROVE  f[i] \in Nat
  <2>1. n + 1 - i \in Nat /\ n + 1 - i <= n /\ n + 1 - (n + 1 - i) = i
    BY <1>1
  <2> QED
    BY <1>5, <2>1
<1> QED
  BY <1>2, <1>6 DEF n

\* Multiplication keeps the order.
LEMMA Product ==
    ASSUME NEW x \in Nat, NEW y \in Nat, NEW z \in Nat, x <= y
    PROVE  z * x \in Nat /\ z * y \in Nat /\ z * x <= z * y
  OBVIOUS

\* No number of that many bytes is greater than that of the greatest bytes.
LEMMA SumsBound ==
    ASSUME NEW b \in Seq(Byte), NEW m \in Seq(Byte), Len(m) = Len(b),
           \A i \in 1..Len(b) : m[i] = Base - 1,
           NEW f, Sums(b, f), NEW g, Sums(m, g)
    PROVE  f[1] <= g[1]
<1> USE EngineAssumption
<1> DEFINE n == Len(b)
           Good == {k \in Nat : k <= n => f[n + 1 - k] <= g[n + 1 - k]}
<1>1. /\ n \in Nat /\ \A i \in 1..n : b[i] \in 0..(Base - 1) /\ m[i] = Base - 1
      /\ f[n + 1] = 0 /\ g[n + 1] = 0
      /\ \A i \in 1..n : f[i] = b[i] + Base * f[i + 1] /\ g[i] = m[i] + Base * g[i + 1]
      /\ \A i \in 1..(n + 1) : f[i] \in Nat /\ g[i] \in Nat
  BY SumsStep DEF Byte
<1> HIDE DEF n
<1>2. 0 \in Good
  BY <1>1
<1>3. ASSUME NEW k \in Nat, k \in Good
      PROVE  k + 1 \in Good
  <2>1. SUFFICES ASSUME k + 1 <= n
                 PROVE  f[n + 1 - (k + 1)] <= g[n + 1 - (k + 1)]
    OBVIOUS
  <2>2. f[n + 1 - k] <= g[n + 1 - k]
    BY <1>1, <1>3, <2>1
  <2>3. n - k \in 1..n /\ (n - k) + 1 = n + 1 - k /\ n + 1 - (k + 1) = n - k
        /\ n + 1 - k \in 1..(n + 1)
    BY <1>1, <2>1
  <2>4. f[n - k] = b[n - k] + Base * f[n + 1 - k] /\ g[n - k] = m[n - k] + Base * g[n + 1 - k]
    BY <1>1, <2>3
  <2>5. b[n - k] \in Nat /\ m[n - k] \in Nat /\ b[n - k] <= m[n - k]
    BY <1>1, <2>3
  <2>6. Base * f[n + 1 - k] <= Base * g[n + 1 - k]
        /\ Base * f[n + 1 - k] \in Nat /\ Base * g[n + 1 - k] \in Nat
    BY <1>1, <2>2, <2>3, Product
  <2>7. \A x, y, u, v \in Nat : x <= y /\ u <= v => x + u <= y + v
    OBVIOUS
  <2>8. f[n - k] <= g[n - k]
    BY <2>4, <2>5, <2>6, <2>7
  <2> QED
    BY <2>3, <2>8
<1>4. n \in Good
  <2> HIDE DEF Good
  <2> QED
    BY <1>1, <1>2, <1>3, Reaches
<1> QED
  BY <1>1, <1>4

\* A number has one last digit.
LEMMA Digit ==
    ASSUME NEW x \in Byte, NEW y \in Byte, NEW p \in Nat, NEW q \in Nat,
           x + Base * p = y + Base * q
    PROVE  x = y /\ p = q
<1> USE EngineAssumption DEF Byte
<1>1. ASSUME NEW u \in Byte, NEW v \in Byte, NEW s \in Nat, NEW t \in Nat, s < t
      PROVE  u + Base * s < v + Base * t
  <2>1. Base * (s + 1) <= Base * t /\ Base * t \in Nat
    BY <1>1, Product
  <2>2. Base * (s + 1) = Base * s + Base /\ Base * s \in Nat
    OBVIOUS
  <2> QED
    BY <2>1, <2>2
<1>2. p = q
  <2>1. ~ (p < q)
    BY <1>1
  <2>2. ~ (q < p)
    BY <1>1
  <2> QED
    BY <2>1, <2>2
<1> QED
  <2>1. Base * p \in Nat
    OBVIOUS
  <2> QED
    BY <1>2, <2>1

\* Different bytes of one length are different numbers.
LEMMA SumsDiffer ==
    ASSUME NEW b \in Seq(Byte), NEW c \in Seq(Byte), Len(c) = Len(b),
           NEW f, Sums(b, f), NEW g, Sums(c, g), f[1] = g[1]
    PROVE  b = c
<1> USE EngineAssumption
<1> DEFINE n == Len(b)
           Good == {k \in Nat : k <= n => f[k + 1] = g[k + 1]}
<1>1. /\ n \in Nat /\ \A i \in 1..n : b[i] \in Byte /\ c[i] \in Byte
      /\ \A i \in 1..n : f[i] = b[i] + Base * f[i + 1] /\ g[i] = c[i] + Base * g[i + 1]
      /\ \A i \in 1..(n + 1) : f[i] \in Nat /\ g[i] \in Nat
  BY SumsStep
<1> HIDE DEF n
<1>2. ASSUME NEW i \in 1..n, f[i] = g[i]
      PROVE  b[i] = c[i] /\ f[i + 1] = g[i + 1]
  <2>1. i + 1 \in 1..(n + 1)
    BY <1>1
  <2>2. /\ b[i] \in Byte /\ c[i] \in Byte /\ f[i + 1] \in Nat /\ g[i + 1] \in Nat
        /\ b[i] + Base * f[i + 1] = c[i] + Base * g[i + 1]
    BY <1>1, <1>2, <2>1
  <2> DEFINE x == b[i]
             y == c[i]
             p == f[i + 1]
             q == g[i + 1]
  <2>3. x \in Byte /\ y \in Byte /\ p \in Nat /\ q \in Nat /\ x + Base * p = y + Base * q
    BY <2>2
  <2>4. x = y /\ p = q
    <3> HIDE DEF x, y, p, q
    <3> QED
      BY <2>3, Digit
  <2> QED
    BY <2>4
<1>3. 0 \in Good
  OBVIOUS
<1>4. ASSUME NEW k \in Nat, k \in Good
      PROVE  k + 1 \in Good
  <2>1. SUFFICES ASSUME k + 1 <= n
                 PROVE  f[(k + 1) + 1] = g[(k + 1) + 1]
    OBVIOUS
  <2>2. k + 1 \in 1..n /\ k <= n
    BY <1>1, <2>1
  <2> QED
    BY <1>2, <1>4, <2>2
<1>5. \A k \in Nat : k \in Good
  <2> HIDE DEF Good
  <2> QED
    BY <1>3, <1>4, Reaches
<1>6. ASSUME NEW i \in 1..n
      PROVE  b[i] = c[i]
  <2>1. i - 1 \in Nat /\ i - 1 <= n /\ (i - 1) + 1 = i
    BY <1>1
  <2> QED
    BY <1>2, <1>5, <2>1
<1> QED
  BY <1>6 DEF n

\* An integer item.
Item == [1..ValueSize -> Byte]
Full == Unsigned([i \in 1..ValueSize |-> Base - 1]) + 1

\* Items as unsigned numbers: below the width, and each of its own.
LEMMA Unsigneds ==
    /\ Full \in Nat \ {0}
    /\ \A b \in Item : /\ Unsigned(b) \in Nat /\ Unsigned(b) < Full
                       /\ Width(b) = Full
    /\ \A b, c \in Item : Unsigned(b) = Unsigned(c) => b = c
<1> USE EngineAssumption
<1>1. \A b \in Item : b \in Seq(Byte) /\ Len(b) = ValueSize
  BY DEF Item
<1> DEFINE m == [i \in 1..ValueSize |-> Base - 1]
<1>2. m \in Item /\ \A i \in 1..ValueSize : m[i] = Base - 1
  BY DEF Item, Byte
<1>3. Full = Unsigned(m) + 1
  BY DEF Full
<1> HIDE DEF m
<1>4. PICK g : Sums(m, g) /\ Unsigned(m) = g[1]
  BY <1>1, <1>2, UnsignedSums
<1>5. \A b \in Item : Unsigned(b) \in Nat
  <2> TAKE b \in Item
  <2>1. PICK f : Sums(b, f) /\ Unsigned(b) = f[1]
    BY <1>1, UnsignedSums
  <2>2. f[1] \in Nat
    <3>1. 1 \in 1..(Len(b) + 1)
      BY <1>1
    <3> QED
      BY <1>1, <2>1, <3>1, SumsStep
  <2> QED
    BY <2>1, <2>2
<1>6. \A b \in Item : Unsigned(b) <= Unsigned(m)
  <2> TAKE b \in Item
  <2>1. PICK f : Sums(b, f) /\ Unsigned(b) = f[1]
    BY <1>1, UnsignedSums
  <2> QED
    BY <1>1, <1>2, <1>4, <2>1, SumsBound
<1>7. \A b \in Item : Width(b) = Full
  BY <1>1 DEF Width, Full
<1>8. \A b, c \in Item : Unsigned(b) = Unsigned(c) => b = c
  <2> TAKE b, c \in Item
  <2>1. PICK f : Sums(b, f) /\ Unsigned(b) = f[1]
    BY <1>1, UnsignedSums
  <2>2. PICK h : Sums(c, h) /\ Unsigned(c) = h[1]
    BY <1>1, UnsignedSums
  <2> QED
    BY <1>1, <2>1, <2>2, SumsDiffer
<1> QED
  BY <1>2, <1>3, <1>5, <1>6, <1>7, <1>8

-----------------------------------------------------------------------------
(* Modes.                                                                  *)

\* A number within three widths of 0 is a multiple of the width when it is one
\* of the five there are.
LEMMA Multiples ==
    ASSUME NEW w \in Nat \ {0}, NEW x \in Int, x < 3 * w, -(3 * w) < x
    PROVE  (x % w) = 0 <=> x \in {0, w, -w, 2 * w, -(2 * w)}
<1>1. x = w * (x \div w) + (x % w) /\ x \div w \in Int /\ x % w \in 0..(w - 1)
  OBVIOUS
<1> DEFINE q == x \div w
           r == x % w
<1>2. x = w * q + r /\ q \in Int /\ r \in 0..(w - 1)
  BY <1>1
<1> HIDE DEF q, r
<1>3. ASSUME NEW k \in Int, k >= 3
      PROVE  w * k >= 3 * w
  BY <1>3
<1>4. ASSUME NEW k \in Int, k <= -3
      PROVE  w * k <= -(3 * w)
  BY <1>4
<1>5. ASSUME r = 0
      PROVE  x \in {0, w, -w, 2 * w, -(2 * w)}
  <2>1. q < 3 /\ -3 < q
    BY <1>2, <1>3, <1>4, <1>5
  <2>2. q \in {-2, -1, 0, 1, 2}
    BY <1>2, <2>1
  <2> QED
    BY <1>2, <1>5, <2>2
<1>6. ASSUME NEW k \in {-2, -1, 0, 1, 2}, x = w * k
      PROVE  r = 0
  <2>1. w * (k - q) = r
    BY <1>2, <1>6
  <2>2. ASSUME k - q >= 1 PROVE FALSE
    <3>1. w * (k - q) >= w
      BY <1>2, <2>2
    <3> QED
      BY <1>2, <2>1, <3>1
  <2>3. ASSUME k - q <= -1 PROVE FALSE
    <3>1. w * (k - q) <= -w
      BY <1>2, <2>3
    <3> QED
      BY <1>2, <2>1, <3>1
  <2>4. k - q = 0
    BY <1>2, <2>2, <2>3
  <2> QED
    BY <2>1, <2>4
<1>7. ASSUME x \in {0, w, -w, 2 * w, -(2 * w)}
      PROVE  r = 0
  <2>1. \E k \in {-2, -1, 0, 1, 2} : x = w * k
    BY <1>7
  <2> QED
    BY <1>6, <2>1
<1> QED
  BY <1>5, <1>7 DEF r

\* What the values of a type are in the width they share.
LEMMA Values ==
    ASSUME NEW type, NEW b \in Item
    PROVE  LET v == Number(type, b)
           IN  /\ v \in Int
               /\ v = Unsigned(b) \/ v = Unsigned(b) - Full
               /\ type # "int" => 0 <= v /\ v < Full
               /\ type = "int" => -Full <= 2 * v /\ 2 * v < Full
<1>1. Full \in Nat /\ Unsigned(b) \in Nat /\ Unsigned(b) < Full /\ Width(b) = Full
  BY Unsigneds
<1> DEFINE w == Full
           u == Unsigned(b)
<1>2. Number(type, b) = IF type = "int" /\ 2 * u >= w THEN u - w ELSE u
  BY <1>1 DEF Number
<1> HIDE DEF u, w
<1>3. w \in Nat /\ u \in Nat /\ u < w
  BY <1>1 DEF u, w
<1> DEFINE v == Number(type, b)
<1>4. v = IF type = "int" /\ 2 * u >= w THEN u - w ELSE u
  BY <1>2
<1> HIDE DEF v
<1>5. /\ v \in Int
      /\ v = u \/ v = u - w
      /\ type # "int" => 0 <= v /\ v < w
      /\ type = "int" => -w <= 2 * v /\ 2 * v < w
  BY <1>3, <1>4
<1> QED
  BY <1>5 DEF u, v, w

\* Two items of the same number are the same bytes.
LEMMA ValuesDiffer ==
    ASSUME NEW type, NEW b \in Item, NEW c \in Item, Number(type, b) = Number(type, c)
    PROVE  b = c
<1> DEFINE w == Full
           u == Unsigned(b)
           t == Unsigned(c)
           v == Number(type, b)
<1>1. /\ w \in Nat /\ u \in Nat /\ t \in Nat /\ u < w /\ t < w
      /\ v \in Int
      /\ v = u \/ v = u - w
      /\ v = t \/ v = t - w
      /\ type # "int" => 0 <= v
  <2>1. w \in Nat /\ u \in Nat /\ t \in Nat /\ u < w /\ t < w
    BY Unsigneds
  <2> QED
    BY <2>1, Values
<1>2. (u = t) => b = c
  BY Unsigneds
<1> HIDE DEF u, t, v, w
<1>3. u = t
  BY <1>1
<1> QED
  BY <1>2, <1>3

\* Adding in the width of the type is what "increased by" means.
LEMMA Increases ==
    ASSUME NEW type, NEW cur \in Item, NEW old \in Item, NEW by \in Item
    PROVE  LET c == Number(type, cur)
               o == Number(type, old)
               d == Number(type, by)
           IN  /\ ~Differs(cur, old, d) <=> c - o \in {d, d - Width(cur), d + Width(cur)}
               /\ ~Differs(cur, old, -d) <=> o - c \in {d, d - Width(cur), d + Width(cur)}
<1> DEFINE w == Full
           u == Unsigned(cur)
           t == Unsigned(old)
           c == Number(type, cur)
           o == Number(type, old)
           d == Number(type, by)
<1>1. /\ w \in Nat \ {0} /\ u \in Nat /\ t \in Nat /\ u < w /\ t < w
      /\ Width(cur) = w
  BY Unsigneds
<1>2. /\ c \in Int /\ o \in Int /\ d \in Int
      /\ c = u \/ c = u - w
      /\ o = t \/ o = t - w
  BY Values
<1>3. \/ /\ 0 <= c /\ c < w /\ 0 <= o /\ o < w /\ 0 <= d /\ d < w
      \/ /\ -w <= 2 * c /\ 2 * c < w /\ -w <= 2 * o /\ 2 * o < w
         /\ -w <= 2 * d /\ 2 * d < w
  BY Values
<1>4. /\ ~Differs(cur, old, d) <=> ((u - t - d) % w) = 0
      /\ ~Differs(cur, old, -d) <=> ((u - t + d) % w) = 0
  <2>1. Differs(cur, old, d) <=> ((u - t - d) % w) # 0
    BY <1>1 DEF Differs
  <2>2. Differs(cur, old, -d) <=> ((u - t - (-d)) % w) # 0
    BY <1>1 DEF Differs
  <2>3. u - t - (-d) = u - t + d
    BY <1>1, <1>2
  <2> QED
    BY <2>1, <2>2, <2>3
<1> HIDE DEF w, u, t, c, o, d
<1>5. /\ u - t - d \in Int /\ u - t - d < 3 * w /\ -(3 * w) < u - t - d
      /\ u - t + d \in Int /\ u - t + d < 3 * w /\ -(3 * w) < u - t + d
  BY <1>1, <1>2, <1>3
<1>6. (((u - t - d) % w) = 0) <=> u - t - d \in {0, w, -w, 2 * w, -(2 * w)}
  BY <1>1, <1>5, Multiples
<1>7. (((u - t + d) % w) = 0) <=> u - t + d \in {0, w, -w, 2 * w, -(2 * w)}
  BY <1>1, <1>5, Multiples
<1>8. (u - t - d \in {0, w, -w, 2 * w, -(2 * w)}) <=> (c - o \in {d, d - w, d + w})
  BY <1>1, <1>2, <1>3
<1>9. (u - t + d \in {0, w, -w, 2 * w, -(2 * w)}) <=> (o - c \in {d, d - w, d + w})
  BY <1>1, <1>2, <1>3
<1>10. /\ ~Differs(cur, old, d) <=> c - o \in {d, d - w, d + w}
       /\ ~Differs(cur, old, -d) <=> o - c \in {d, d - w, d + w}
  BY <1>4, <1>6, <1>7, <1>8, <1>9
<1> QED
  BY <1>1, <1>10 DEF c, o, d

\* A refinement compares as its mode says.
LEMMA ModesMean ==
    ASSUME NEW req \in ValidRequests, NEW cur, NEW old,
           req.type # "aob" => cur \in Item /\ old \in Item
    PROVE  RefineMatch(req, cur, old) <=> Expected(req, cur, old)
<1>1. CASE req.mode \notin RelativeModes
  BY <1>1 DEF RefineMatch, Expected, RelativeModes
<1>2. CASE req.mode \in RelativeModes
  <2>1. req.type # "aob" /\ Valid(req)
    BY <1>2 DEF ValidRequests, Valid, RelativeModes
  <2>2. cur \in Item /\ old \in Item
    BY <2>1
  <2>3. (cur = old) <=> (Number(req.type, cur) = Number(req.type, old))
    BY <2>2, ValuesDiffer
  <2>4. CASE req.mode \in {"increased_by", "decreased_by"}
    <3>1. PICK by \in Item : req.value = Number(req.type, by)
      BY <2>1, <2>4 DEF Valid, Fits, OperandModes, Item
    <3> QED
      BY <2>2, <2>4, <3>1, Increases DEF RefineMatch, CompareMatch, Expected, RelativeModes
  <2>5. CASE req.mode \in {"changed", "unchanged"}
    BY <2>3, <2>5 DEF RefineMatch, CompareMatch, Expected, RelativeModes
  <2>6. CASE req.mode \in {"increased", "decreased"}
    BY <2>6 DEF RefineMatch, CompareMatch, Expected, RelativeModes
  <2> QED
    BY <1>2, <2>4, <2>5, <2>6 DEF RelativeModes
<1> QED
  BY <1>1, <1>2

(* Regions.                                                                *)

Apart(R) == \A r, s \in R : r = s \/ Span(r) \cap Span(s) = {}

\* What can be read of a region falls into pieces that do not meet.
LEMMA PiecesApart ==
    ASSUME NEW r \in Region
    PROVE  /\ Pieces(r) \subseteq Region
           /\ \A p \in Pieces(r) : Span(p) \subseteq Span(r) \cap mapped
           /\ Apart(Pieces(r))
<1> DEFINE kept == Span(r) \cap mapped
           top == r.base + r.size
           End(a) == Min({b \in a..top : b \notin kept})
           At(a) == [r EXCEPT !.base = a, !.size = End(a) - a]
           A == {b \in kept : b - 1 \notin kept}
<1>1. Pieces(r) = {At(a) : a \in A}
  BY DEF Pieces
<1>2. r.base \in Nat /\ r.size \in Nat \ {0} /\ top \in Nat /\ kept \subseteq r.base..(top - 1)
  BY DEF Region, Span
<1> HIDE DEF kept
<1>3. ASSUME NEW a \in A
      PROVE  /\ End(a) \in Nat /\ a < End(a) /\ a \in Nat
             /\ \A b \in a..(End(a) - 1) : b \in kept
  <2> DEFINE T == {b \in a..top : b \notin kept}
             e == Min(T)
  <2>1. a \in kept /\ a \in Nat /\ a < top
    BY <1>2
  <2>2. T \in SUBSET Nat /\ top \in T /\ a \notin T
    BY <1>2, <2>1
  <2>3. e \in T /\ \A x \in T : e <= x
    <3> HIDE DEF T
    <3> QED
      BY <2>2, MinNat
  <2>4. e \in a..top /\ e # a
    <3> HIDE DEF e
    <3> QED
      BY <2>2, <2>3
  <2> HIDE DEF e
  <2>5. e \in Nat /\ a < e /\ e <= top
    BY <1>2, <2>1, <2>4
  <2>6. ASSUME NEW b \in a..(e - 1)
        PROVE  b \in kept
    <3>1. b \in a..top /\ ~ (e <= b)
      BY <1>2, <2>1, <2>5
    <3> QED
      BY <2>3, <3>1
  <2> QED
    BY <2>1, <2>5, <2>6 DEF e
<1> HIDE DEF End
<1>4. ASSUME NEW a \in A
      PROVE  /\ At(a) \in Region /\ At(a).base = a
             /\ Span(At(a)) = a..(End(a) - 1)
  <2> DEFINE e == End(a)
             p == At(a)
  <2>1. e - a \in Nat \ {0} /\ a \in Nat /\ e \in Nat
    BY <1>3
  <2>2. p.base = a /\ p.size = e - a /\ p.type = r.type /\ p.writable = r.writable
    BY DEF Region
  <2>3. p = [base |-> a, size |-> e - a, type |-> r.type, writable |-> r.writable]
    <3>1. r = [base |-> r.base, size |-> r.size, type |-> r.type, writable |-> r.writable]
      BY DEF Region
    <3>2. p = [r EXCEPT !.base = a, !.size = e - a]
      OBVIOUS
    <3> HIDE DEF e, p, A
    <3> QED
      BY <3>1, <3>2
  <2> HIDE DEF e, p
  <2>4. p \in Region /\ p.base = a /\ p.base + p.size - 1 = e - 1
    BY <2>1, <2>2, <2>3 DEF Region
  <2>5. Span(p) = a..(e - 1)
    BY <2>4 DEF Span
  <2> QED
    BY <2>4, <2>5 DEF p, e
<1> HIDE DEF At
<1>5. ASSUME NEW a \in A, NEW b \in A, a < b
      PROVE  Span(At(a)) \cap Span(At(b)) = {}
  <2>1. b \in kept /\ b - 1 \notin kept
    OBVIOUS
  <2> HIDE DEF A
  <2>2. a \in Nat /\ b \in Nat /\ End(a) \in Nat /\ End(b) \in Nat /\ b < End(b)
    BY <1>3
  <2>3. b - 1 \notin a..(End(a) - 1)
    BY <1>3, <2>1
  <2>4. End(a) <= b
    BY <1>5, <2>2, <2>3
  <2> QED
    BY <1>4, <2>2, <2>4
<1>6. Apart(Pieces(r))
  <2> SUFFICES ASSUME NEW a \in A, NEW b \in A, At(a) # At(b)
               PROVE  Span(At(a)) \cap Span(At(b)) = {}
    <3> HIDE DEF A
    <3> QED
      BY <1>1 DEF Apart
  <2> HIDE DEF A
  <2>1. a # b
    OBVIOUS
  <2>2. a < b \/ b < a
    BY <1>3, <2>1
  <2> QED
    BY <1>5, <2>2
<1>7. \A a \in A : At(a) \in Region /\ Span(At(a)) \subseteq kept
  <2> HIDE DEF A
  <2> QED
    BY <1>3, <1>4
<1> HIDE DEF A
<1> QED
  BY <1>1, <1>6, <1>7 DEF kept

\* A region inside the limits of a scan.
LEMMA Clipped ==
    ASSUME NEW r \in Region, NEW opts \in Option,
           \E a \in Span(r) : a \in opts.address_min..opts.address_max
    PROVE  Clip(r, opts) \in Region /\ Span(Clip(r, opts)) \subseteq Span(r)
<1> DEFINE first == Larger(r.base, opts.address_min)
           end == Smaller(r.base + r.size, opts.address_max + 1)
           c == Clip(r, opts)
<1>1. c = [r EXCEPT !.base = first, !.size = end - first]
  BY DEF Clip
<1>2. r.base \in Nat /\ r.size \in Nat \ {0} /\ opts.address_min \in Nat /\ opts.address_max \in Nat
  BY DEF Region, Option
<1>3. PICK a \in Span(r) : a \in opts.address_min..opts.address_max
  OBVIOUS
<1>4. /\ first \in Nat /\ end \in Nat /\ first < end
      /\ r.base <= first /\ end <= r.base + r.size
  BY <1>2, <1>3 DEF Larger, Smaller, Span
<1>5. c.base = first /\ c.size = end - first /\ c.type = r.type /\ c.writable = r.writable
  BY <1>1 DEF Region
<1>6. c = [base |-> first, size |-> end - first, type |-> r.type, writable |-> r.writable]
  BY <1>1 DEF Region
<1> HIDE DEF first, end, c
<1>7. c \in Region /\ c.base + c.size - 1 = end - 1
  BY <1>4, <1>5, <1>6 DEF Region
<1>8. Span(c) = c.base..(c.base + c.size - 1)
  BY DEF Span
<1>9. Span(c) \subseteq Span(r)
  <2>1. Span(r) = r.base..(r.base + r.size - 1)
    BY DEF Span
  <2>2. ASSUME NEW x \in first..(end - 1)
        PROVE  x \in r.base..(r.base + r.size - 1)
    BY <1>2, <1>4
  <2> QED
    BY <1>5, <1>7, <1>8, <2>1, <2>2
<1> QED
  BY <1>7, <1>9 DEF c

\* The regions of a job can be read when it starts, and do not meet.
LEMMA SelectedApart ==
    ASSUME NEW opts \in Option
    PROVE  /\ Selected(opts) \subseteq Region
           /\ \A r \in Selected(opts) : Span(r) \subseteq mapped
           /\ Apart(Selected(opts))
<1> DEFINE P == UNION {Pieces(r) : r \in Regions}
           Q == {p \in P :
                    /\ opts.writable_only => p.writable
                    /\ p.type = "image" => opts.include_image
                    /\ p.type = "mapped" => opts.include_mapped
                    /\ \E a \in Span(p) : a \in opts.address_min..opts.address_max}
<1>1. /\ Selected(opts) = {Clip(p, opts) : p \in Q}
      /\ Q \subseteq P
      /\ \A p \in Q : \E a \in Span(p) : a \in opts.address_min..opts.address_max
  BY Zenon DEF Selected
<1> HIDE DEF Q
<1>2. Regions \subseteq Region /\ \A r, s \in Regions : r # s => Span(r) \cap Span(s) = {}
  BY EngineAssumption
<1>3. \A p \in P : p \in Region /\ Span(p) \subseteq mapped
  BY <1>2, PiecesApart
<1>4. ASSUME NEW p \in P, NEW q \in P, p # q
      PROVE  Span(p) \cap Span(q) = {}
  <2>1. PICK r \in Regions, s \in Regions : p \in Pieces(r) /\ q \in Pieces(s)
    OBVIOUS
  <2>2. CASE r = s
    BY <1>2, <1>4, <2>1, <2>2, PiecesApart DEF Apart
  <2>3. CASE r # s
    BY <1>2, <2>1, <2>3, PiecesApart
  <2> QED
    BY <2>2, <2>3
<1> HIDE DEF P
<1>5. \A p \in Q : Clip(p, opts) \in Region /\ Span(Clip(p, opts)) \subseteq Span(p)
  BY <1>1, <1>3, Clipped
<1>6. Apart(Selected(opts))
  <2> SUFFICES ASSUME NEW p \in Q, NEW q \in Q, Clip(p, opts) # Clip(q, opts)
               PROVE  Span(Clip(p, opts)) \cap Span(Clip(q, opts)) = {}
    BY <1>1 DEF Apart
  <2>1. p # q
    OBVIOUS
  <2> QED
    BY <1>1, <1>4, <1>5, <2>1
<1>7. \A p \in Q : Clip(p, opts) \in Region /\ Span(Clip(p, opts)) \subseteq mapped
  BY <1>1, <1>3, <1>5
<1> QED
  BY <1>1, <1>6, <1>7

\* Types: `Typed` says more than TypeOK, what the steps of the worker need.
Kinds == {"scan", "capture", "refine", "refine_unknown"}
CandidateSet == UNION {[S -> Seq(Byte)] : S \in SUBSET Address}
Chunk == [base : Address, raw : Seq(Byte)]
EndType == [memory : {Empty} \cup [Address -> Byte], stable : SUBSET Address,
            regions : SUBSET Region]
JobType ==
    [phase : {"running", "done"}, kind : Kinds, req : ValidRequests,
     selected : SUBSET Region, regions : SUBSET Region, region : Region \cup {NoRegion},
     offset : Nat, left : Nat, skipped : SUBSET Region, chunks : Seq(Chunk),
     bytes : Nat, next : Nat \ {0}, old : CandidateSet, todo : SUBSET Address,
     found : CandidateSet, count : Nat, stable : SUBSET Address,
     before : EndType, end : EndType]

\* A job whose fields the invariants speak of.
Live == job.phase \in {"running", "done"}
\* Values of a numeric type are items.
Numeric(type, f) == type # "aob" => \A a \in DOMAIN f : f[a] \in Item

Typed ==
    /\ memory \in [Address -> Byte]
    /\ mapped \in SUBSET Address
    /\ pokes \in 0..MaxPokes
    /\ job.phase \in {"idle", "running", "done", "failed", "cancelled"}
    /\ Live => /\ job \in JobType /\ job.stable \subseteq mapped
               /\ Numeric(job.req.type, job.found)
    /\ result.kind \in {"none", "candidates", "snapshot"}
    /\ result.values \in CandidateSet /\ result.chunks \in Seq(Chunk)
    /\ Numeric(result.type, result.values)

\* The regions a worker has taken up: read, or being read.
Taken == job.selected \ (job.regions \cup job.skipped)

\* Where the job stands among its regions.
Placed ==
    Live =>
        /\ Apart(job.selected)
        /\ \A r \in job.selected : Span(r) \subseteq Address
        /\ job.regions \cup job.skipped \subseteq job.selected
        /\ job.regions \cap job.skipped = {}
        /\ job.region = NoRegion => job.offset = 0
        /\ job.region # NoRegion => job.region \in Taken /\ job.offset < job.region.size
        /\ job.kind = "scan" => job.skipped = {}
        /\ job.kind \in {"capture", "refine_unknown"} => job.req.type # "aob"
        /\ job.kind = "capture" => job.found = Empty

\* What a finished job leaves.
Ended ==
    job.phase = "done" =>
        /\ result.values = job.found
        /\ result.kind = IF job.kind = "capture" THEN "snapshot" ELSE "candidates"
        /\ result.type = job.req.type
        /\ job.kind \in {"scan", "capture"} => job.regions = {} /\ job.region = NoRegion
        /\ job.kind = "refine" => job.todo = {}

\* count is the number of candidates, within the limit once that is checked.
Counted ==
    Live =>
        /\ job.count = Cardinality(DOMAIN job.found)
        /\ job.kind # "refine" \/ job.phase = "done" =>
               job.count <= job.req.options.max_candidates

\* What a place in the current region says of an address.
Passed(r, a) == r = job.region => a < job.region.base + job.offset

\* A scan has found exactly the matches it has passed.
Scanned ==
    Live /\ job.kind = "scan" =>
        /\ \A a \in DOMAIN job.found :
              /\ Aligned(a, job.req)
              /\ FirstMatch(job.req, job.found[a])
              /\ Untouched(a) => job.found[a] = BytesAt(a, Size)
              /\ \E r \in Taken : Footprint(a, Size) \subseteq Span(r) /\ Passed(r, a)
        /\ \A r \in Taken : \A a \in Address :
              /\ Footprint(a, Size) \subseteq Span(r) /\ Passed(r, a)
              /\ Span(r) \subseteq mapped /\ Untouched(a)
              /\ Aligned(a, job.req) /\ FirstMatch(job.req, BytesAt(a, Size))
              => a \in DOMAIN job.found

\* The addresses of a chunk, and the items that lie in it.
Extent(c) == c.base..(c.base + Len(c.raw) - 1)
Inside(a, c) == c.base <= a /\ a + ValueSize <= c.base + Len(c.raw)
\* No item lies in two chunks.
ChunksApart(chunks) ==
    \A i, j \in 1..Len(chunks) : \A a \in Nat :
        Inside(a, chunks[i]) /\ Inside(a, chunks[j]) => i = j

Has(chunks, a) == \E c \in Range(chunks) : Inside(a, c)

\* What a stored chunk says of the regions taken so far and of untouched memory.
Stored(c) ==
    /\ \E r \in Taken : /\ Extent(c) \subseteq Span(r)
                        /\ \A a \in Nat : Inside(a, c) => Passed(r, a)
    /\ \A x \in Extent(c) \cap job.stable : c.raw[x - c.base + 1] = memory[x]

\* A capture holds the regions it has passed, and each item once.
Captured ==
    job.phase = "running" /\ job.kind = "capture" =>
        /\ ChunksApart(job.chunks)
        /\ \A c \in Range(job.chunks) : Stored(c)
        /\ \A r \in Taken : \A a \in Nat :
              Footprint(a, ValueSize) \subseteq Span(r) /\ Passed(r, a) /\ Span(r) \subseteq mapped
              => Has(job.chunks, a)

\* What a chunk says of the regions and the memory at the end of the capture.
Held(e, c) ==
    /\ \E r \in e.regions : Extent(c) \subseteq Span(r)
    /\ \A x \in Extent(c) \cap e.stable : c.raw[x - c.base + 1] = e.memory[x]

\* Chunks are what a capture read of its regions.
Snapshot(e, chunks) ==
    /\ Apart(e.regions)
    /\ ChunksApart(chunks)
    /\ \A c \in Range(chunks) : Held(e, c)
    /\ \A r \in e.regions : \A a \in Nat :
          Footprint(a, ValueSize) \subseteq Span(r) /\ Span(r) \subseteq mapped => Has(chunks, a)

\* A snapshot is there while a refinement may use it.
Kept ==
    /\ Done("capture") => Snapshot(job.end, result.chunks)
    /\ job.phase = "running" /\ job.kind = "refine_unknown" =>
          Snapshot(job.before, result.chunks)

\* The old value of an item: in its chunk, and in memory at the end of the capture.
OldAt(c, a) == SubSeq(c.raw, a - c.base + 1, a - c.base + ValueSize)
Was(a) == [i \in 1..Size |-> job.before.memory[a + i - 1]]

\* A refinement has decided the candidates no longer on its list.
Refined ==
    Live /\ job.kind = "refine" =>
        /\ job.todo \subseteq DOMAIN job.old /\ DOMAIN job.found \subseteq DOMAIN job.old
        /\ job.todo \cap DOMAIN job.found = {}
        /\ Numeric(job.req.type, job.old)
        /\ (\A a \in DOMAIN job.old : Footprint(a, Size) \subseteq mapped) =>
              \A a \in DOMAIN job.old \ job.todo :
                  Untouched(a) =>
                      (a \in DOMAIN job.found
                          <=> RefineMatch(job.req, BytesAt(a, Size), job.old[a]))

\* The refinement of a capture has decided the items of the chunks before `next`.
UnknownRefined ==
    job.phase = "running" /\ job.kind = "refine_unknown" =>
        /\ \A a \in DOMAIN job.found :
              /\ Aligned(a, job.req)
              /\ \E i \in 1..Len(result.chunks) :
                    i < job.next /\ Inside(a, result.chunks[i])
        /\ \A i \in 1..Len(result.chunks) : \A a \in Nat :
             LET c == result.chunks[i]
             IN  /\ i < job.next /\ Inside(a, c) /\ Extent(c) \subseteq mapped
                 /\ Untouched(a) /\ Aligned(a, job.req)
                 => (a \in DOMAIN job.found
                        <=> RefineMatch(job.req, BytesAt(a, Size), OldAt(c, a)))

\* And its result decides the items of all captured regions.
UnknownEnded ==
    Done("refine_unknown") =>
        /\ \A a \in DOMAIN job.found :
              Around(a, job.before.regions) # {} /\ Aligned(a, job.req)
        /\ \A a \in Address :
              /\ Untouched(a) /\ Footprint(a, Size) \subseteq job.before.stable
              /\ StillMapped(a, job.before.regions) /\ Aligned(a, job.req)
              => (a \in DOMAIN job.found
                     <=> Expected(job.req, BytesAt(a, Size), Was(a)))

\* Between two mapped addresses memory is missing by whole pages.
Holes ==
    \A b, c \in mapped : \A x \in b..c :
        x \in mapped \/ \E y \in 0..x : /\ x < y + Page
                                      /\ (y..(y + Page - 1)) \cap mapped = {}

\* The order of a capture, and its account.
First(r, s) == Precedes("capture", r, s)
Paid ==
    Live /\ job.kind = "capture" =>
        /\ job.left + Bytes(Taken) = job.req.options.budget
        /\ \A s \in job.regions : \A t \in Taken \cup job.skipped : First(t, s)
        /\ \A s \in job.skipped :
              Bytes({r \in Taken : First(r, s)}) + s.size > job.req.options.budget

-----------------------------------------------------------------------------
(* The steps of the worker.                                                *)

\* What a worker step leaves alone, and the parts of a job it leaves together.
Steady(j, k) ==
    /\ k.kind = j.kind /\ k.req = j.req /\ k.selected = j.selected
    /\ k.old = j.old /\ k.before = j.before /\ k.stable = j.stable
SamePlace(j, k) ==
    /\ k.regions = j.regions /\ k.region = j.region /\ k.offset = j.offset
    /\ k.left = j.left /\ k.skipped = j.skipped
SameFound(j, k) == k.found = j.found /\ k.count = j.count
SameChunks(j, k) == k.chunks = j.chunks /\ k.bytes = j.bytes
SameTodo(j, k) == k.next = j.next /\ k.todo = j.todo

\* What validate gives the worker: an item of at least a byte, and options in range.
LEMMA ItemSizes ==
    ASSUME NEW req \in ValidRequests
    PROVE  /\ ItemSize(req) \in Nat \ {0}
           /\ req.type # "aob" => ItemSize(req) = ValueSize
           /\ req.options \in Option
           /\ req.options.chunk_size \in Nat \ {0} /\ req.options.budget \in Nat
           /\ req.options.max_candidates \in Nat
<1> USE EngineAssumption
<1>1. req \in Request /\ Valid(req)
  BY DEF ValidRequests
<1>2. req.pattern \in Seq(Byte \cup {Wild}) /\ req.options \in Option
  BY <1>1 DEF Request
<1>3. Len(req.pattern) \in Nat
  BY <1>2
<1>4. (req.mode = "aob") <=> (req.type = "aob")
  BY <1>1 DEF Valid
<1>5. req.mode = "aob" => Len(req.pattern) > 0
  BY <1>1 DEF Valid
<1> QED
  BY <1>2, <1>3, <1>4, <1>5 DEF ItemSize, Option

\* What is read of mapped memory.
LEMMA BytesRead ==
    ASSUME memory \in [Address -> Byte], NEW a \in Nat, NEW n \in Nat,
           Footprint(a, n) \subseteq Address
    PROVE  /\ BytesAt(a, n) \in [1..n -> Byte] /\ BytesAt(a, n) \in Seq(Byte)
           /\ Len(BytesAt(a, n)) = n
           /\ \A i \in 1..n : BytesAt(a, n)[i] = memory[a + i - 1]
<1>1. \A i \in 1..n : a + i - 1 \in Address
  BY DEF Footprint
<1>2. BytesAt(a, n) \in [1..n -> Byte]
  BY <1>1 DEF BytesAt
<1>3. BytesAt(a, n) \in Seq(Byte) /\ Len(BytesAt(a, n)) = n
  BY <1>2
<1> QED
  BY <1>2, <1>3 DEF BytesAt

\* The chunk that is read next.
LEMMA ChunkFacts ==
    ASSUME Typed, Placed, Live, job.region # NoRegion
    PROVE  LET count == ReadInto(ChunkBase, ChunkRead)
               end == job.region.base + job.region.size
               size == ItemSize(job.req)
           IN  /\ job.region \in Region /\ job.region.base \in Nat
               /\ job.region.size \in Nat \ {0}
               /\ ChunkBase = job.region.base + job.offset /\ ChunkBase \in Nat
               /\ ChunkPrimary \in Nat \ {0} /\ ChunkRead \in Nat
               /\ ChunkPrimary <= ChunkRead /\ ChunkBase + ChunkRead <= end
               /\ ChunkRead < ChunkPrimary + size
               /\ ChunkBase + ChunkPrimary + size - 1 <= ChunkBase + ChunkRead
                    \/ ChunkBase + ChunkRead = end
               /\ count \in 0..ChunkRead
               /\ \A x \in ChunkBase..(ChunkBase + count - 1) : x \in mapped
               /\ count < ChunkRead => ChunkBase + count \notin mapped
               /\ job.offset + ChunkPrimary < job.region.size
                    \/ ChunkBase + ChunkPrimary = end
<1>1. job \in JobType
  BY DEF Typed
<1>2. job.region \in Taken /\ job.offset < job.region.size
  BY DEF Placed
<1>3. job.selected \subseteq Region /\ job.offset \in Nat /\ job.req \in ValidRequests
  BY <1>1 DEF JobType
<1>4. job.region \in Region /\ job.region.base \in Nat /\ job.region.size \in Nat \ {0}
  BY <1>2, <1>3 DEF Taken, Region
<1> DEFINE b == job.region.base
           n == job.region.size
           o == job.offset
           c == job.req.options.chunk_size
           s == ItemSize(job.req)
           p == ChunkPrimary
           q == ChunkRead
<1>5. c \in Nat \ {0} /\ s \in Nat \ {0} /\ b \in Nat /\ n \in Nat \ {0} /\ o \in Nat /\ o < n
  BY <1>2, <1>3, <1>4, ItemSizes
<1>6. p = Smaller(c, n - o) /\ q = Smaller(p + (s - 1), n - o) /\ ChunkBase = b + o
  BY DEF ChunkPrimary, ChunkRead, ChunkBase
<1> HIDE DEF b, n, o, c, s, p, q
<1>7. /\ b + o \in Nat
      /\ p \in Nat \ {0} /\ q \in Nat /\ p <= q /\ b + o + q <= b + n /\ q < p + s
      /\ b + o + p + s - 1 <= b + o + q \/ b + o + q = b + n
      /\ o + p < n \/ b + o + p = b + n
  BY <1>5, <1>6 DEF Smaller
<1> DEFINE k == ReadInto(ChunkBase, q)
<1>8. /\ k \in 0..q
      /\ \A i \in 0..(k - 1) : ChunkBase + i \in mapped
      /\ k < q => ChunkBase + k \notin mapped
  BY <1>6, <1>7, ReadIntoType
<1>9. \A x \in ChunkBase..(ChunkBase + k - 1) : x \in mapped
  <2> HIDE DEF k
  <2> TAKE x \in ChunkBase..(ChunkBase + k - 1)
  <2>1. x - ChunkBase \in 0..(k - 1) /\ ChunkBase + (x - ChunkBase) = x
    BY <1>6, <1>7, <1>8
  <2> QED
    BY <1>8, <2>1
<1>10. ChunkBase = job.region.base + job.offset /\ ChunkBase \in Nat
  BY <1>6, <1>7 DEF b, o
<1>11. /\ p \in Nat \ {0} /\ q \in Nat /\ p <= q /\ ChunkBase + q <= b + n /\ q < p + s
       /\ ChunkBase + p + s - 1 <= ChunkBase + q \/ ChunkBase + q = b + n
       /\ o + p < n \/ ChunkBase + p = b + n
  BY <1>6, <1>7
<1> QED
  BY <1>4, <1>8, <1>9, <1>10, <1>11 DEF b, n, o, s, p, q, k

\* A job that is over has a phase and nothing else.
LEMMA OverFacts ==
    ASSUME NEW phase
    PROVE  Over(phase).phase = phase
  BY DEF Over

\* A worker starts with the regions selected now and the values of the last result.
LEMMA StartFacts ==
    ASSUME Typed, NEW kind \in Kinds, NEW req \in ValidRequests, NEW before \in EndType,
           Start(kind, req, before, TRUE)
    PROVE  /\ job' \in JobType
           /\ job'.phase = "running" /\ job'.kind = kind /\ job'.req = req
           /\ job'.selected = Selected(req.options)
           /\ job'.regions = Selected(req.options) /\ job'.region = NoRegion
           /\ job'.offset = 0 /\ job'.left = req.options.budget /\ job'.skipped = {}
           /\ job'.chunks = <<>> /\ job'.bytes = 0 /\ job'.next = 1
           /\ job'.old = result.values /\ job'.todo = DOMAIN result.values
           /\ job'.found = Empty /\ job'.count = 0
           /\ job'.stable = mapped /\ job'.before = before
<1>1. job' = [phase |-> "running", kind |-> kind, req |-> req,
              selected |-> Selected(req.options), regions |-> Selected(req.options),
              region |-> NoRegion, offset |-> 0, left |-> req.options.budget,
              skipped |-> {}, chunks |-> <<>>, bytes |-> 0, next |-> 1,
              old |-> result.values, todo |-> DOMAIN result.values,
              found |-> Empty, count |-> 0,
              stable |-> mapped, before |-> before, end |-> NoEnd]
  BY DEF Start
<1>2. /\ job'.phase = "running" /\ job'.kind = kind /\ job'.req = req
      /\ job'.selected = Selected(req.options)
      /\ job'.regions = Selected(req.options) /\ job'.region = NoRegion
      /\ job'.offset = 0 /\ job'.left = req.options.budget /\ job'.skipped = {}
      /\ job'.chunks = <<>> /\ job'.bytes = 0 /\ job'.next = 1
      /\ job'.old = result.values /\ job'.todo = DOMAIN result.values
      /\ job'.found = Empty /\ job'.count = 0
      /\ job'.stable = mapped /\ job'.before = before
  BY <1>1
<1>3. req.options \in Option /\ req.options.budget \in Nat
  BY ItemSizes
<1>4. Selected(req.options) \in SUBSET Region
  BY <1>3, SelectedApart
<1>5. result.values \in CandidateSet /\ mapped \in SUBSET Address
  BY DEF Typed
<1>6. DOMAIN result.values \in SUBSET Address
  BY <1>5 DEF CandidateSet
<1>7. Empty \in CandidateSet
  BY DEF Empty, CandidateSet
<1>8. NoEnd \in EndType
  BY DEF NoEnd, EndType
<1>9. <<>> \in Seq(Chunk)
  OBVIOUS
<1>10. job' \in JobType
  BY <1>1, <1>3, <1>4, <1>5, <1>6, <1>7, <1>8, <1>9 DEF JobType
<1> QED
  BY <1>2, <1>10

\* A region is taken from those left, in a capture at the cost of its size.
LEMMA TakeFacts ==
    ASSUME Typed, Placed, TakeRegion
    PROVE  /\ job.phase = "running" /\ job.kind \in {"scan", "capture"}
           /\ job.region = NoRegion /\ job.offset = 0
           /\ \E r \in job.regions :
                 /\ IsNext(r) /\ RegionFits(r)
                 /\ r \in Region /\ r # NoRegion
                 /\ job' \in JobType /\ job'.phase = "running" /\ Steady(job, job')
                 /\ SameFound(job, job') /\ SameChunks(job, job') /\ SameTodo(job, job')
                 /\ job'.regions = job.regions \ {r} /\ job'.region = r
                 /\ job'.offset = 0 /\ job'.skipped = job.skipped
                 /\ job'.left = IF job.kind = "capture" THEN job.left - r.size ELSE job.left
           /\ UNCHANGED <<memory, mapped, pokes, result>>
<1>1. job.phase = "running" /\ job.kind \in {"scan", "capture"} /\ job.region = NoRegion
  BY DEF TakeRegion, Choosing, Running
<1>2. job \in JobType /\ job.offset = 0
  BY <1>1 DEF Typed, Placed, Live
<1>3. PICK r \in job.regions :
        /\ IsNext(r)
        /\ RegionFits(r)
        /\ job' = [job EXCEPT !.regions = job.regions \ {r}, !.region = r,
                              !.left = IF job.kind = "capture" THEN job.left - r.size
                                       ELSE job.left]
  BY Zenon DEF TakeRegion
<1>4. r \in Region /\ r # NoRegion /\ r.size \in Nat
  BY <1>2, <1>3 DEF JobType, Region, NoRegion
<1> DEFINE left == IF job.kind = "capture" THEN job.left - r.size ELSE job.left
<1>5. left \in Nat
  BY <1>2, <1>3, <1>4 DEF JobType, RegionFits
<1> HIDE DEF left
<1>6. job' = [job EXCEPT !.regions = job.regions \ {r}, !.region = r, !.left = left]
  BY <1>3 DEF left
<1>7. /\ job' \in JobType /\ job'.phase = "running" /\ Steady(job, job')
      /\ SameFound(job, job') /\ SameChunks(job, job') /\ SameTodo(job, job')
      /\ job'.regions = job.regions \ {r} /\ job'.region = r /\ job'.left = left
      /\ job'.offset = job.offset /\ job'.skipped = job.skipped
  BY <1>1, <1>2, <1>4, <1>5, <1>6
     DEF JobType, Steady, SameFound, SameChunks, SameTodo
<1>8. UNCHANGED <<memory, mapped, pokes, result>>
  BY DEF TakeRegion
<1> QED
  BY <1>1, <1>2, <1>3, <1>4, <1>7, <1>8 DEF left

\* Only a capture skips, and what it skips does not fit.
LEMMA SkipFacts ==
    ASSUME Typed, Placed, SkipRegion
    PROVE  /\ job.phase = "running" /\ job.kind = "capture" /\ job.region = NoRegion
           /\ \E r \in job.regions :
                 /\ IsNext(r) /\ ~RegionFits(r)
                 /\ job' \in JobType /\ job'.phase = "running" /\ Steady(job, job')
                 /\ SameFound(job, job') /\ SameChunks(job, job') /\ SameTodo(job, job')
                 /\ job'.regions = job.regions \ {r} /\ job'.skipped = job.skipped \cup {r}
                 /\ job'.region = NoRegion /\ job'.offset = job.offset /\ job'.left = job.left
           /\ UNCHANGED <<memory, mapped, pokes, result>>
<1>1. job.phase = "running" /\ job.region = NoRegion
  BY DEF SkipRegion, Choosing, Running
<1>2. job \in JobType
  BY <1>1 DEF Typed, Live
<1>3. PICK r \in job.regions :
        /\ IsNext(r)
        /\ ~RegionFits(r)
        /\ job' = [job EXCEPT !.regions = job.regions \ {r},
                              !.skipped = job.skipped \cup {r}]
  BY Zenon DEF SkipRegion
<1>4. job.kind = "capture"
  BY <1>3 DEF RegionFits
<1>5. r \in Region
  BY <1>2, <1>3 DEF JobType
<1>6. /\ job' \in JobType /\ job'.phase = "running" /\ Steady(job, job')
      /\ SameFound(job, job') /\ SameChunks(job, job') /\ SameTodo(job, job')
      /\ job'.regions = job.regions \ {r} /\ job'.skipped = job.skipped \cup {r}
      /\ job'.region = NoRegion /\ job'.offset = job.offset /\ job'.left = job.left
  BY <1>1, <1>2, <1>3, <1>5
     DEF JobType, Steady, SameFound, SameChunks, SameTodo
<1> QED
  BY <1>1, <1>3, <1>4, <1>6 DEF SkipRegion

\* Where the next chunk begins.
LEMMA NextFacts ==
    ASSUME Typed, Placed, Live, job.region # NoRegion, NEW j \in JobType,
           j.offset = job.offset
    PROVE  LET n == NextChunk(j)
           IN  /\ n \in JobType /\ n.phase = j.phase /\ Steady(j, n)
               /\ SameFound(j, n) /\ SameChunks(j, n) /\ SameTodo(j, n)
               /\ n.regions = j.regions /\ n.left = j.left /\ n.skipped = j.skipped
               /\ \/ /\ job.offset + ChunkPrimary < job.region.size
                     /\ n.region = j.region /\ n.offset = job.offset + ChunkPrimary
                  \/ /\ ChunkBase + ChunkPrimary = job.region.base + job.region.size
                     /\ n.region = NoRegion /\ n.offset = 0
<1> DEFINE n == NextChunk(j)
<1>1. ChunkPrimary \in Nat /\ job.offset \in Nat
  BY ChunkFacts DEF Typed, JobType
<1>2. CASE job.offset + ChunkPrimary < job.region.size
  <2> DEFINE o == job.offset + ChunkPrimary
  <2>1. n = [j EXCEPT !.offset = o] /\ o \in Nat
    BY <1>1, <1>2 DEF NextChunk
  <2> HIDE DEF n, o
  <2>2. /\ n \in JobType /\ n.phase = j.phase /\ Steady(j, n)
        /\ SameFound(j, n) /\ SameChunks(j, n) /\ SameTodo(j, n)
        /\ n.regions = j.regions /\ n.left = j.left /\ n.skipped = j.skipped
        /\ n.region = j.region /\ n.offset = o
    BY <2>1 DEF JobType, Steady, SameFound, SameChunks, SameTodo
  <2> QED
    BY <1>2, <2>2 DEF n, o
<1>3. CASE ~(job.offset + ChunkPrimary < job.region.size)
  <2>1. n = [j EXCEPT !.region = NoRegion, !.offset = 0]
    BY <1>3 DEF NextChunk
  <2> HIDE DEF n
  <2>2. /\ n \in JobType /\ n.phase = j.phase /\ Steady(j, n)
        /\ SameFound(j, n) /\ SameChunks(j, n) /\ SameTodo(j, n)
        /\ n.regions = j.regions /\ n.left = j.left /\ n.skipped = j.skipped
        /\ n.region = NoRegion /\ n.offset = 0
    BY <2>1 DEF JobType, Steady, SameFound, SameChunks, SameTodo
  <2>3. ChunkBase + ChunkPrimary = job.region.base + job.region.size
    BY <1>3, ChunkFacts
  <2> QED
    BY <2>2, <2>3 DEF n
<1> QED
  BY <1>2, <1>3

\* Candidates are at addresses.
LEMMA CandidateFacts ==
    /\ \A f \in CandidateSet : DOMAIN f \in SUBSET Address /\ \A a \in DOMAIN f : f[a] \in Seq(Byte)
    /\ \A S \in SUBSET Address : \A f \in [S -> Seq(Byte)] : f \in CandidateSet
  BY DEF CandidateSet

\* Candidates added to those a job has.
LEMMA AddFacts ==
    ASSUME NEW j \in JobType, NEW hits \in SUBSET Address, NEW f \in [hits -> Seq(Byte)]
    PROVE  LET n == AddFound(j, f)
           IN  /\ n \in JobType /\ n.phase = j.phase /\ Steady(j, n)
               /\ SamePlace(j, n) /\ SameChunks(j, n) /\ SameTodo(j, n)
               /\ n.count = j.count + Cardinality(hits)
               /\ DOMAIN n.found = DOMAIN j.found \cup hits
               /\ \A a \in DOMAIN n.found :
                     n.found[a] = IF a \in DOMAIN j.found THEN j.found[a] ELSE f[a]
<1> DEFINE n == AddFound(j, f)
           found == [a \in DOMAIN j.found \cup hits |->
                        IF a \in DOMAIN j.found THEN j.found[a] ELSE f[a]]
           count == j.count + Cardinality(hits)
<1>1. n = [j EXCEPT !.count = count, !.found = found]
  BY Zenon DEF AddFound
<1>2. Cardinality(hits) \in Nat
  BY EngineAssumption, FS_Subset, FS_CardinalityType
<1>3. j.count \in Nat /\ j.found \in CandidateSet
  BY DEF JobType
<1>4. count \in Nat
  BY <1>2, <1>3
<1>5. found \in [DOMAIN j.found \cup hits -> Seq(Byte)] /\ DOMAIN j.found \cup hits \in SUBSET Address
  BY <1>3, CandidateFacts
<1>6. found \in CandidateSet
  BY <1>5, CandidateFacts
<1>7. /\ DOMAIN found = DOMAIN j.found \cup hits
      /\ \A a \in DOMAIN found :
            found[a] = IF a \in DOMAIN j.found THEN j.found[a] ELSE f[a]
  OBVIOUS
<1> HIDE DEF n, found, count
<1>8. /\ n \in JobType /\ n.phase = j.phase /\ Steady(j, n)
      /\ SamePlace(j, n) /\ SameChunks(j, n) /\ SameTodo(j, n)
      /\ n.count = count /\ n.found = found
  BY <1>1, <1>4, <1>6 DEF JobType, Steady, SamePlace, SameChunks, SameTodo
<1> QED
  BY <1>7, <1>8 DEF n, count

\* The items that begin in the first `primary` bytes of a read.
LEMMA StartFactsOf ==
    ASSUME NEW base \in Nat, NEW count \in Nat, NEW primary \in Nat, primary <= count,
           NEW req \in ValidRequests,
           \A x \in base..(base + count - 1) : x \in mapped,
           mapped \in SUBSET Address
    PROVE  LET size == ItemSize(req)
           IN  /\ \A a \in Starts(base, count, primary, req) :
                    /\ a \in Address /\ a \in Nat /\ base <= a /\ a < base + primary
                    /\ a + size <= base + count
                    /\ Footprint(a, size) \subseteq mapped /\ Aligned(a, req)
               /\ \A a \in Nat :
                    base <= a /\ a < base + primary /\ a + size <= base + count /\ Aligned(a, req)
                      => a \in Starts(base, count, primary, req)
<1> DEFINE size == ItemSize(req)
<1>1. size \in Nat \ {0}
  BY ItemSizes
<1>2. Starts(base, count, primary, req) =
        {a \in base..(base + primary - 1) : a + size <= base + count /\ Aligned(a, req)}
  BY DEF Starts
<1> HIDE DEF size
<1>3. ASSUME NEW a \in Starts(base, count, primary, req)
      PROVE  /\ a \in Address /\ a \in Nat /\ base <= a /\ a < base + primary
             /\ a + size <= base + count
             /\ Footprint(a, size) \subseteq mapped /\ Aligned(a, req)
  <2>1. a \in Nat /\ base <= a /\ a < base + primary /\ a + size <= base + count /\ Aligned(a, req)
    BY <1>2
  <2>2. \A x \in a..(a + size - 1) : x \in base..(base + count - 1)
    BY <1>1, <2>1
  <2>3. a \in base..(base + count - 1)
    BY <2>1
  <2> QED
    BY <2>1, <2>2, <2>3 DEF Footprint
<1>4. ASSUME NEW a \in Nat, base <= a, a < base + primary, a + size <= base + count,
             Aligned(a, req)
      PROVE  a \in Starts(base, count, primary, req)
  <2>1. a \in base..(base + primary - 1)
    BY <1>4
  <2> QED
    BY <1>2, <1>4, <2>1
<1> QED
  BY <1>3, <1>4 DEF size

\* What the next chunk of a scan finds.
Hits ==
    LET base == ChunkBase
        count == ReadInto(base, ChunkRead)
    IN  {a \in Starts(base, count, Smaller(ChunkPrimary, count), job.req) :
            FirstMatch(job.req, BytesAt(a, ItemSize(job.req)))}

\* A chunk of a scan finds the matching items that begin in its own part, all of
\* them when the region is still mapped.
LEMMA ScanFacts ==
    ASSUME Typed, Placed, ScanChunk
    PROVE  LET end == job.region.base + job.region.size
               size == ItemSize(job.req)
           IN
           /\ job.phase = "running" /\ job.kind = "scan" /\ job.region # NoRegion
           /\ Hits \in SUBSET Address
           /\ \A a \in Hits :
                 /\ a \in Nat /\ ChunkBase <= a /\ a < ChunkBase + ChunkPrimary
                 /\ a + size <= end /\ Footprint(a, size) \subseteq mapped
                 /\ Aligned(a, job.req) /\ FirstMatch(job.req, BytesAt(a, size))
           /\ \A a \in Nat :
                 /\ ChunkBase <= a /\ a < ChunkBase + ChunkPrimary /\ a + size <= end
                 /\ Span(job.region) \subseteq mapped
                 /\ Aligned(a, job.req) /\ FirstMatch(job.req, BytesAt(a, size))
                 => a \in Hits
           /\ \/ job' = Over("failed")
              \/ /\ job' \in JobType /\ job'.phase = "running" /\ Steady(job, job')
                 /\ SameChunks(job, job') /\ SameTodo(job, job')
                 /\ job'.regions = job.regions /\ job'.skipped = job.skipped
                 /\ job'.left = job.left
                 /\ \/ /\ job.offset + ChunkPrimary < job.region.size
                       /\ job'.region = job.region /\ job'.offset = job.offset + ChunkPrimary
                    \/ /\ ChunkBase + ChunkPrimary = end
                       /\ job'.region = NoRegion /\ job'.offset = 0
                 /\ job'.count = job.count + Cardinality(Hits)
                 /\ job'.count <= job.req.options.max_candidates
                 /\ DOMAIN job'.found = DOMAIN job.found \cup Hits
                 /\ \A a \in DOMAIN job'.found :
                       job'.found[a] = IF a \in DOMAIN job.found THEN job.found[a]
                                       ELSE BytesAt(a, size)
           /\ UNCHANGED <<memory, mapped, pokes, result>>
<1> DEFINE end == job.region.base + job.region.size
           size == ItemSize(job.req)
           count == ReadInto(ChunkBase, ChunkRead)
           primary == Smaller(ChunkPrimary, count)
           S == Starts(ChunkBase, count, primary, job.req)
           f == [a \in Hits |-> BytesAt(a, size)]
<1>1. job.phase = "running" /\ job.kind = "scan" /\ job.region # NoRegion
  BY DEF ScanChunk, Running
<1>2. Live /\ job \in JobType /\ memory \in [Address -> Byte] /\ mapped \in SUBSET Address
  BY <1>1 DEF Live, Typed
<1>3. job.req \in ValidRequests /\ size \in Nat \ {0}
  BY <1>2, ItemSizes DEF JobType
<1>4. /\ ChunkBase \in Nat /\ ChunkPrimary \in Nat /\ ChunkRead \in Nat /\ end \in Nat
      /\ count \in 0..ChunkRead /\ ChunkPrimary <= ChunkRead /\ ChunkBase + ChunkRead <= end
      /\ ChunkBase + ChunkPrimary + size - 1 <= ChunkBase + ChunkRead
            \/ ChunkBase + ChunkRead = end
      /\ \A x \in ChunkBase..(ChunkBase + count - 1) : x \in mapped
      /\ count < ChunkRead => ChunkBase + count \notin mapped
      /\ Span(job.region) = job.region.base..(end - 1)
      /\ job.region.base \in Nat /\ job.region.base <= ChunkBase
  <2>1. job.region.base \in Nat /\ job.region.size \in Nat /\ job.offset \in Nat
        /\ ChunkBase = job.region.base + job.offset
    BY <1>1, <1>2, ChunkFacts DEF JobType
  <2>2. Span(job.region) = job.region.base..(end - 1)
    <3>1. job.region.base + (job.region.size - 1) = end - 1
      BY <2>1
    <3> HIDE DEF end
    <3> QED
      BY <3>1 DEF Span
  <2>3. end \in Nat /\ job.region.base <= ChunkBase
    BY <2>1
  <2> HIDE DEF end
  <2> QED
    BY <1>1, <1>2, <2>1, <2>2, <2>3, ChunkFacts DEF end
<1>5. Hits = {a \in S : FirstMatch(job.req, BytesAt(a, size))}
  BY DEF Hits
<1>6. job' = Limited(NextChunk(AddFound(job, f)))
  BY <1>5 DEF ScanChunk, Hits
<1> HIDE DEF count, size, end
<1>7. primary \in Nat /\ primary <= count /\ primary <= ChunkPrimary /\ count \in Nat
      /\ (primary = ChunkPrimary \/ primary = count)
  BY <1>4 DEF Smaller
<1> HIDE DEF primary
<1>8. /\ \A a \in S :
            /\ a \in Address /\ a \in Nat /\ ChunkBase <= a /\ a < ChunkBase + primary
            /\ a + size <= ChunkBase + count
            /\ Footprint(a, size) \subseteq mapped /\ Aligned(a, job.req)
      /\ \A a \in Nat :
            /\ ChunkBase <= a /\ a < ChunkBase + primary
            /\ a + size <= ChunkBase + count /\ Aligned(a, job.req)
            => a \in S
  BY <1>2, <1>3, <1>4, <1>7, StartFactsOf DEF size
<1> HIDE DEF S
<1>9. /\ Hits \in SUBSET Address
      /\ \A a \in Hits :
            /\ a \in Nat /\ ChunkBase <= a /\ a < ChunkBase + ChunkPrimary
            /\ a + size <= end /\ Footprint(a, size) \subseteq mapped
            /\ Aligned(a, job.req) /\ FirstMatch(job.req, BytesAt(a, size))
  <2>1. \A a \in Hits : a \in S /\ FirstMatch(job.req, BytesAt(a, size))
    BY <1>5
  <2>2. \A a \in S : a < ChunkBase + ChunkPrimary /\ a + size <= end
    BY <1>3, <1>4, <1>7, <1>8
  <2> QED
    BY <1>8, <2>1, <2>2
<1>10. ASSUME NEW a \in Nat, ChunkBase <= a, a < ChunkBase + ChunkPrimary, a + size <= end,
              Span(job.region) \subseteq mapped,
              Aligned(a, job.req), FirstMatch(job.req, BytesAt(a, size))
       PROVE  a \in Hits
  <2>1. count = ChunkRead
    <3>1. SUFFICES ASSUME count < ChunkRead PROVE FALSE
      BY <1>4
    <3>2. ChunkBase + count \in job.region.base..(end - 1)
      BY <1>4, <3>1
    <3> QED
      BY <1>4, <1>10, <3>1, <3>2
  <2>2. primary = ChunkPrimary
    BY <1>4, <1>7, <2>1
  <2>3. a + size <= ChunkBase + count
    BY <1>3, <1>4, <1>10, <2>1
  <2>4. a \in S
    BY <1>8, <1>10, <2>2, <2>3
  <2> QED
    BY <1>5, <1>10, <2>4
<1>11. f \in [Hits -> Seq(Byte)]
  <2>1. ASSUME NEW a \in Hits
        PROVE  BytesAt(a, size) \in Seq(Byte)
    <3>1. a \in Nat /\ Footprint(a, size) \subseteq Address
      BY <1>2, <1>9
    <3> QED
      BY <1>2, <1>3, <3>1, BytesRead
  <2> QED
    BY <2>1
<1>12. \A a \in Hits : f[a] = BytesAt(a, size)
  OBVIOUS
<1> DEFINE j == AddFound(job, f)
           n == NextChunk(j)
<1> HIDE DEF f
<1>13. /\ j \in JobType /\ j.phase = job.phase /\ Steady(job, j)
       /\ SamePlace(job, j) /\ SameChunks(job, j) /\ SameTodo(job, j)
       /\ j.count = job.count + Cardinality(Hits)
       /\ DOMAIN j.found = DOMAIN job.found \cup Hits
       /\ \A a \in DOMAIN j.found :
             j.found[a] = IF a \in DOMAIN job.found THEN job.found[a] ELSE f[a]
  <2>1. job \in JobType /\ Hits \in SUBSET Address
    BY <1>2, <1>9
  <2> DEFINE hits == Hits
             k == job
  <2>2. k \in JobType /\ hits \in SUBSET Address /\ f \in [hits -> Seq(Byte)]
    BY <1>11, <2>1
  <2> HIDE DEF hits, k
  <2>3. LET m == AddFound(k, f)
        IN  /\ m \in JobType /\ m.phase = k.phase /\ Steady(k, m)
            /\ SamePlace(k, m) /\ SameChunks(k, m) /\ SameTodo(k, m)
            /\ m.count = k.count + Cardinality(hits)
            /\ DOMAIN m.found = DOMAIN k.found \cup hits
            /\ \A a \in DOMAIN m.found :
                  m.found[a] = IF a \in DOMAIN k.found THEN k.found[a] ELSE f[a]
    BY <2>2, AddFacts
  <2> QED
    BY <2>3 DEF hits, k
<1> HIDE DEF j
<1>14. j.offset = job.offset
  BY <1>13 DEF SamePlace
<1>15. /\ n \in JobType /\ n.phase = j.phase /\ Steady(j, n)
       /\ SameFound(j, n) /\ SameChunks(j, n) /\ SameTodo(j, n)
       /\ n.regions = j.regions /\ n.left = j.left /\ n.skipped = j.skipped
       /\ \/ /\ job.offset + ChunkPrimary < job.region.size
             /\ n.region = j.region /\ n.offset = job.offset + ChunkPrimary
          \/ /\ ChunkBase + ChunkPrimary = job.region.base + job.region.size
             /\ n.region = NoRegion /\ n.offset = 0
  BY <1>1, <1>2, <1>13, <1>14, NextFacts
<1>16. job' = Limited(n)
  BY <1>6 DEF j
<1> HIDE DEF n
<1>17. job' = Over("failed") \/ (job' = n /\ n.count <= n.req.options.max_candidates)
  <2>1. n.count \in Nat /\ n.req.options.max_candidates \in Nat
    BY <1>15, ItemSizes DEF JobType
  <2> QED
    BY <1>16, <2>1 DEF Limited
<1>18. /\ n \in JobType /\ n.phase = "running" /\ Steady(job, n)
       /\ SameChunks(job, n) /\ SameTodo(job, n)
       /\ n.regions = job.regions /\ n.skipped = job.skipped
       /\ n.left = job.left
       /\ n.count = job.count + Cardinality(Hits)
       /\ n.req = job.req
       /\ n.found = j.found
       /\ j.region = job.region
  BY <1>1, <1>13, <1>15 DEF Steady, SamePlace, SameFound, SameChunks, SameTodo
<1>19. UNCHANGED <<memory, mapped, pokes, result>>
  BY DEF ScanChunk
<1>20. \A a \in DOMAIN n.found :
          n.found[a] = IF a \in DOMAIN job.found THEN job.found[a] ELSE BytesAt(a, size)
  BY <1>12, <1>13, <1>18
<1>21. CASE job' = Over("failed")
  BY <1>1, <1>9, <1>10, <1>19, <1>21 DEF end, size
<1>22. CASE job' = n /\ n.count <= n.req.options.max_candidates
  <2>1. /\ job' \in JobType /\ job'.phase = "running" /\ Steady(job, job')
        /\ SameChunks(job, job') /\ SameTodo(job, job')
        /\ job'.regions = job.regions /\ job'.skipped = job.skipped
        /\ job'.left = job.left
        /\ \/ /\ job.offset + ChunkPrimary < job.region.size
              /\ job'.region = job.region /\ job'.offset = job.offset + ChunkPrimary
           \/ /\ ChunkBase + ChunkPrimary = end
              /\ job'.region = NoRegion /\ job'.offset = 0
        /\ job'.count = job.count + Cardinality(Hits)
        /\ job'.count <= job.req.options.max_candidates
        /\ DOMAIN job'.found = DOMAIN job.found \cup Hits
        /\ \A a \in DOMAIN job'.found :
              job'.found[a] = IF a \in DOMAIN job.found THEN job.found[a] ELSE BytesAt(a, size)
    BY <1>13, <1>15, <1>18, <1>20, <1>22 DEF end
  <2> QED
    BY <1>1, <1>9, <1>10, <1>19, <2>1 DEF end, size
<1> QED
  BY <1>17, <1>21, <1>22

\* The chunk a capture stores, when it could read anything.
NewChunk ==
    LET base == ChunkBase
    IN  [base |-> base, raw |-> BytesAt(base, ReadInto(base, ChunkRead))]

\* A chunk of a capture holds what memory held when it was read.
LEMMA CaptureFacts ==
    ASSUME Typed, Placed, CaptureChunk
    PROVE  LET end == job.region.base + job.region.size
               count == ReadInto(ChunkBase, ChunkRead)
           IN
           /\ job.phase = "running" /\ job.kind = "capture" /\ job.region # NoRegion
           /\ count > 0 => /\ NewChunk \in Chunk /\ NewChunk.base = ChunkBase
                           /\ Len(NewChunk.raw) = count
                           /\ \A i \in 1..count : NewChunk.raw[i] = memory[ChunkBase + i - 1]
           /\ job' \in JobType /\ job'.phase = "running" /\ Steady(job, job')
           /\ SameFound(job, job') /\ SameTodo(job, job')
           /\ job'.regions = job.regions /\ job'.skipped = job.skipped
           /\ job'.left = job.left
           /\ \/ /\ job.offset + ChunkPrimary < job.region.size
                 /\ job'.region = job.region /\ job'.offset = job.offset + ChunkPrimary
              \/ /\ ChunkBase + ChunkPrimary = end
                 /\ job'.region = NoRegion /\ job'.offset = 0
           /\ job'.chunks = IF count > 0 THEN Append(job.chunks, NewChunk) ELSE job.chunks
           /\ UNCHANGED <<memory, mapped, pokes, result>>
<1> DEFINE count == ReadInto(ChunkBase, ChunkRead)
           chunks == IF count > 0 THEN Append(job.chunks, NewChunk) ELSE job.chunks
           bytes == job.bytes + Smaller(ChunkPrimary, count)
           j == [job EXCEPT !.chunks = chunks, !.bytes = bytes]
           n == NextChunk(j)
<1>1. job.phase = "running" /\ job.kind = "capture" /\ job.region # NoRegion
  BY DEF CaptureChunk, Running
<1>2. Live /\ job \in JobType /\ memory \in [Address -> Byte] /\ mapped \in SUBSET Address
  BY <1>1 DEF Live, Typed
<1>3. /\ ChunkBase \in Nat /\ ChunkPrimary \in Nat /\ ChunkRead \in Nat
      /\ count \in 0..ChunkRead
      /\ \A x \in ChunkBase..(ChunkBase + count - 1) : x \in mapped
  BY <1>1, <1>2, ChunkFacts
<1>4. job' = n
  BY DEF CaptureChunk, NewChunk
<1>5. count > 0 => /\ NewChunk \in Chunk /\ NewChunk.base = ChunkBase
                   /\ Len(NewChunk.raw) = count
                   /\ \A i \in 1..count : NewChunk.raw[i] = memory[ChunkBase + i - 1]
  <2> HAVE count > 0
  <2>1. NewChunk = [base |-> ChunkBase, raw |-> BytesAt(ChunkBase, count)]
    BY DEF NewChunk
  <2> HIDE DEF count
  <2>2. count \in Nat /\ ChunkBase \in mapped
    BY <1>3
  <2>3. Footprint(ChunkBase, count) \subseteq Address
    BY <1>2, <1>3 DEF Footprint
  <2>4. /\ BytesAt(ChunkBase, count) \in Seq(Byte)
        /\ Len(BytesAt(ChunkBase, count)) = count
        /\ \A i \in 1..count : BytesAt(ChunkBase, count)[i] = memory[ChunkBase + i - 1]
    BY <1>2, <1>3, <2>2, <2>3, BytesRead
  <2> QED
    BY <1>2, <2>1, <2>2, <2>4 DEF Chunk
<1>6. bytes \in Nat
  BY <1>2, <1>3 DEF Smaller, JobType
<1>7. chunks \in Seq(Chunk)
  <2>1. job.chunks \in Seq(Chunk)
    BY <1>2 DEF JobType
  <2> HIDE DEF count
  <2> QED
    BY <1>5, <2>1
<1> HIDE DEF bytes, chunks, count
<1>8. /\ j \in JobType /\ j.phase = job.phase /\ Steady(job, j)
      /\ SamePlace(job, j) /\ SameFound(job, j) /\ SameTodo(job, j)
      /\ j.chunks = chunks
  BY <1>2, <1>6, <1>7 DEF JobType, Steady, SamePlace, SameFound, SameTodo
<1> HIDE DEF j
<1>9. j.offset = job.offset /\ j.region = job.region
  BY <1>8 DEF SamePlace
<1>10. /\ n \in JobType /\ n.phase = j.phase /\ Steady(j, n)
       /\ SameFound(j, n) /\ SameChunks(j, n) /\ SameTodo(j, n)
       /\ n.regions = j.regions /\ n.left = j.left /\ n.skipped = j.skipped
       /\ \/ /\ job.offset + ChunkPrimary < job.region.size
             /\ n.region = j.region /\ n.offset = job.offset + ChunkPrimary
          \/ /\ ChunkBase + ChunkPrimary = job.region.base + job.region.size
             /\ n.region = NoRegion /\ n.offset = 0
  BY <1>1, <1>2, <1>8, <1>9, NextFacts
<1> HIDE DEF n
<1>11. /\ job' \in JobType /\ job'.phase = "running" /\ Steady(job, job')
       /\ SameFound(job, job') /\ SameTodo(job, job')
       /\ job'.regions = job.regions /\ job'.skipped = job.skipped
       /\ job'.left = job.left
       /\ \/ /\ job.offset + ChunkPrimary < job.region.size
             /\ job'.region = job.region /\ job'.offset = job.offset + ChunkPrimary
          \/ /\ ChunkBase + ChunkPrimary = job.region.base + job.region.size
             /\ job'.region = NoRegion /\ job'.offset = 0
       /\ job'.chunks = chunks
  BY <1>1, <1>4, <1>8, <1>9, <1>10
     DEF Steady, SamePlace, SameFound, SameChunks, SameTodo
<1> QED
  BY <1>1, <1>5, <1>11 DEF CaptureChunk, chunks, count

\* Finishing publishes what the worker found.
LEMMA FinishFacts ==
    ASSUME Typed, Live, NEW values, NEW chunks, Finish(values, chunks)
    PROVE  /\ job' \in JobType /\ job'.phase = "done" /\ Steady(job, job')
           /\ SamePlace(job, job') /\ SameFound(job, job') /\ SameTodo(job, job')
           /\ job'.end = [memory |-> memory, stable |-> job.stable,
                          regions |-> job.selected \ job.skipped]
           /\ result'.kind = (IF job.kind = "capture" THEN "snapshot" ELSE "candidates")
           /\ result'.type = job.req.type
           /\ result'.values = values /\ result'.chunks = chunks
           /\ UNCHANGED <<memory, mapped, pokes>>
<1> DEFINE end == [memory |-> memory, stable |-> job.stable,
                   regions |-> job.selected \ job.skipped]
<1>1. job \in JobType /\ memory \in [Address -> Byte]
  BY DEF Typed
<1>2. job.stable \in SUBSET Address /\ job.selected \ job.skipped \in SUBSET Region
  BY <1>1 DEF JobType
<1>3. end \in EndType
  BY <1>1, <1>2 DEF EndType
<1>4. job' = [job EXCEPT !.phase = "done", !.end = end]
  BY DEF Finish
<1> HIDE DEF end
<1>5. /\ job' \in JobType /\ job'.phase = "done" /\ Steady(job, job')
      /\ SamePlace(job, job') /\ SameFound(job, job') /\ SameTodo(job, job')
      /\ job'.end = end
  BY <1>1, <1>3, <1>4 DEF JobType, Steady, SamePlace, SameFound, SameTodo
<1>6. /\ result'.kind = (IF job.kind = "capture" THEN "snapshot" ELSE "candidates")
      /\ result'.type = job.req.type
      /\ result'.values = values /\ result'.chunks = chunks
  BY DEF Finish
<1> QED
  BY <1>5, <1>6 DEF Finish, end

\* A finite set of numbers has a bound.
LEMMA Bounded ==
    ASSUME NEW S \in SUBSET Nat, IsFiniteSet(S)
    PROVE  \E top \in Nat : \A x \in S : x <= top
<1> DEFINE Good == {k \in Nat : \A T \in SUBSET S :
                        Cardinality(T) = k => \E top \in Nat : \A x \in T : x <= top}
<1>1. \A T \in SUBSET S : IsFiniteSet(T)
  BY FS_Subset
<1>2. 0 \in Good
  <2>1. \A T \in SUBSET S : Cardinality(T) = 0 => T = {}
    BY <1>1, FS_EmptySet
  <2> QED
    BY <2>1
<1>3. ASSUME NEW k \in Nat, k \in Good
      PROVE  k + 1 \in Good
  <2>1. ASSUME NEW T \in SUBSET S, Cardinality(T) = k + 1
        PROVE  \E top \in Nat : \A x \in T : x <= top
    <3>1. T # {}
      BY <2>1, FS_EmptySet
    <3>2. PICK t \in T : TRUE
      BY <3>1
    <3>3. Cardinality(T \ {t}) = Cardinality(T) - 1
      BY <1>1, <3>2, FS_RemoveElement
    <3>4. Cardinality(T \ {t}) = k
      BY <2>1, <3>3
    <3>5. PICK top \in Nat : \A x \in T \ {t} : x <= top
      BY <1>3, <3>4
    <3>6. CASE t <= top
      BY <3>5, <3>6
    <3>7. CASE top < t
      <4>1. \A x \in T : x <= t
        BY <3>5, <3>7
      <4> QED
        BY <3>2, <4>1
    <3> QED
      BY <3>6, <3>7
  <2>2. k + 1 \in Nat
    OBVIOUS
  <2> QED
    BY <2>1, <2>2
<1>4. \A k \in Nat : k \in Good
  <2> HIDE DEF Good
  <2> QED
    BY <1>2, <1>3, Reaches
<1>5. Cardinality(S) \in Nat
  BY FS_CardinalityType
<1> QED
  BY <1>4, <1>5

\* A group is read as one piece, from its first candidate to the end of its last.
LEMMA GroupFacts ==
    ASSUME NEW todo \in SUBSET Address, todo # {}, NEW size \in Nat \ {0}
    PROVE  LET group == Group(todo, size)
               base == Min(group)
               n == Max(group) + size - base
           IN  /\ group \subseteq todo /\ Min(todo) \in group /\ base = Min(todo)
               /\ Max(group) \in group /\ base \in Nat
               /\ \A a \in group : base <= a /\ a <= Max(group)
               /\ \A a \in todo : base <= a
               /\ n \in Nat /\ base + n = Max(group) + size
<1> USE EngineAssumption
<1> DEFINE group == Group(todo, size)
           first == Min(todo)
<1>1. first \in todo /\ first \in Nat /\ \A x \in todo : first <= x
  BY MinNat
<1>2. group = {a \in todo : \A b \in {c \in todo : c # first /\ c <= a} :
                  /\ \E c \in todo : c < b /\ b - c <= GapLimit
                  /\ b + size - first <= SpanLimit}
  BY DEF Group
<1> HIDE DEF group, first
<1>3. first \in group
  BY <1>1, <1>2
<1>4. group \in SUBSET todo /\ group \in SUBSET Nat /\ group # {}
  BY <1>2, <1>3
<1>5. Min(group) \in group /\ \A x \in group : Min(group) <= x
  BY <1>4, MinNat
<1>6. Min(group) = first
  <2> DEFINE m == Min(group)
  <2>1. m \in Nat /\ m \in todo /\ first \in Nat /\ m <= first /\ first <= m
    BY <1>1, <1>3, <1>4, <1>5
  <2>2. m = first
    <3> HIDE DEF m
    <3> QED
      BY <2>1
  <2> QED
    BY <2>2
<1>7. PICK top \in Nat : \A x \in Address : x <= top
  BY Bounded
<1>8. \A x \in group : x <= top
  BY <1>4, <1>7
<1>9. Max(group) \in group /\ \A x \in group : x <= Max(group)
  BY <1>4, <1>8, MaxNat
<1> DEFINE l == Max(group)
<1>10. l \in Nat /\ first <= l
  BY <1>1, <1>4, <1>9
<1> HIDE DEF l
<1>11. l + size - first \in Nat /\ first + (l + size - first) = l + size
  BY <1>1, <1>10
<1> QED
  BY <1>1, <1>3, <1>4, <1>5, <1>6, <1>9, <1>11 DEF l, first, group

\* What the next group of a refinement keeps.
KeptOf ==
    LET size == ItemSize(job.req)
        group == Group(job.todo, size)
        base == Min(group)
        count == ReadInto(base, Max(group) + size - base)
    IN  {a \in group :
            /\ a + size - base <= count
            /\ RefineMatch(job.req, BytesAt(a, size), job.old[a])}

\* A group is taken off the list whole, and only matches of it are kept.
LEMMA GroupReadFacts ==
    ASSUME Typed, RefineGroup
    PROVE  LET size == ItemSize(job.req)
               group == Group(job.todo, size)
           IN
           /\ job.phase = "running" /\ job.kind = "refine" /\ job.todo # {}
           /\ KeptOf \subseteq group /\ group \subseteq job.todo
           /\ \A a \in KeptOf : /\ a \in Nat /\ Footprint(a, size) \subseteq Address
                                /\ RefineMatch(job.req, BytesAt(a, size), job.old[a])
           /\ job' \in JobType /\ job'.phase = "running" /\ Steady(job, job')
           /\ SamePlace(job, job') /\ SameChunks(job, job') /\ job'.next = job.next
           /\ job'.todo = job.todo \ group
           /\ job'.count = job.count + Cardinality(KeptOf)
           /\ DOMAIN job'.found = DOMAIN job.found \cup KeptOf
           /\ \A a \in DOMAIN job'.found :
                 job'.found[a] = IF a \in KeptOf THEN BytesAt(a, size) ELSE job.found[a]
           /\ UNCHANGED <<memory, mapped, pokes, result>>
<1> DEFINE size == ItemSize(job.req)
           group == Group(job.todo, size)
           base == Min(group)
           n == Max(group) + size - base
           count == ReadInto(base, n)
           found == [a \in DOMAIN job.found \cup KeptOf |->
                        IF a \in KeptOf THEN BytesAt(a, size) ELSE job.found[a]]
           total == job.count + Cardinality(KeptOf)
<1>1. job.phase = "running" /\ job.kind = "refine" /\ job.todo # {}
  BY DEF RefineGroup, Running
<1>2. job \in JobType /\ memory \in [Address -> Byte] /\ mapped \in SUBSET Address
  BY <1>1 DEF Live, Typed
<1>3. size \in Nat \ {0} /\ job.todo \in SUBSET Address
  BY <1>2, ItemSizes DEF JobType
<1>4. KeptOf = {a \in group : /\ a + size - base <= count
                              /\ RefineMatch(job.req, BytesAt(a, size), job.old[a])}
  BY DEF KeptOf
<1>5. job' = [job EXCEPT !.todo = job.todo \ group, !.found = found, !.count = total]
  BY Zenon DEF RefineGroup, KeptOf
<1> HIDE DEF size
<1>6. /\ group \subseteq job.todo /\ base \in Nat /\ n \in Nat
      /\ \A a \in group : base <= a
  BY <1>1, <1>3, GroupFacts
<1>7. count \in 0..n /\ \A i \in 0..(count - 1) : base + i \in mapped
  <2> HIDE DEF n, base
  <2> QED
    BY <1>6, ReadIntoType
<1> HIDE DEF group, base, n, count
<1>8. ASSUME NEW a \in KeptOf
      PROVE  /\ a \in Nat /\ Footprint(a, size) \subseteq Address
             /\ RefineMatch(job.req, BytesAt(a, size), job.old[a])
             /\ BytesAt(a, size) \in Seq(Byte) /\ a \in Address
  <2>1. a \in group /\ a + size - base <= count
        /\ RefineMatch(job.req, BytesAt(a, size), job.old[a])
    BY <1>4
  <2>2. a \in Address /\ a \in Nat /\ base <= a
    BY <1>3, <1>6, <2>1, EngineAssumption
  <2>3. ASSUME NEW x \in a..(a + size - 1)
        PROVE  x \in Address
    <3>1. x - base \in 0..(count - 1) /\ base + (x - base) = x
      BY <1>3, <1>6, <1>7, <2>1, <2>2
    <3> QED
      BY <1>2, <1>7, <3>1
  <2>4. Footprint(a, size) \subseteq Address
    BY <2>3 DEF Footprint
  <2>5. BytesAt(a, size) \in Seq(Byte)
    BY <1>2, <1>3, <2>2, <2>4, BytesRead
  <2> QED
    BY <2>1, <2>2, <2>4, <2>5
<1>9. KeptOf \in SUBSET Address
  BY <1>8
<1>10. Cardinality(KeptOf) \in Nat
  BY <1>9, EngineAssumption, FS_Subset, FS_CardinalityType
<1>11. job.count \in Nat /\ job.found \in CandidateSet
  BY <1>2 DEF JobType
<1>12. total \in Nat
  BY <1>10, <1>11
<1>13. found \in [DOMAIN job.found \cup KeptOf -> Seq(Byte)]
       /\ DOMAIN job.found \cup KeptOf \in SUBSET Address
  BY <1>8, <1>9, <1>11, CandidateFacts
<1>14. found \in CandidateSet
  BY <1>13, CandidateFacts
<1>15. /\ DOMAIN found = DOMAIN job.found \cup KeptOf
       /\ \A a \in DOMAIN found :
             found[a] = IF a \in KeptOf THEN BytesAt(a, size) ELSE job.found[a]
  OBVIOUS
<1> HIDE DEF found, total
<1>16. /\ job' \in JobType /\ job'.phase = "running" /\ Steady(job, job')
       /\ SamePlace(job, job') /\ SameChunks(job, job') /\ job'.next = job.next
       /\ job'.todo = job.todo \ group /\ job'.count = total /\ job'.found = found
  BY <1>1, <1>2, <1>3, <1>5, <1>12, <1>14 DEF JobType, Steady, SamePlace, SameChunks
<1>17. UNCHANGED <<memory, mapped, pokes, result>>
  BY DEF RefineGroup
<1>18. KeptOf \subseteq group
  BY <1>4
<1> QED
  BY <1>1, <1>6, <1>8, <1>15, <1>16, <1>17, <1>18 DEF total, size, group

\* What the next captured chunk leaves of its items.
UnknownHits ==
    LET chunk == result.chunks[job.next]
        usable == ReadInto(chunk.base, Len(chunk.raw))
    IN  {a \in Starts(chunk.base, usable, usable, job.req) :
            RefineMatch(job.req, BytesAt(a, ItemSize(job.req)), OldAt(chunk, a))}

\* A captured chunk finds the items of its own that match, all of them when it is
\* still mapped.
LEMMA RefineChunkFacts ==
    ASSUME Typed, Placed, RefineChunk
    PROVE  LET chunk == result.chunks[job.next]
           IN
           /\ job.phase = "running" /\ job.kind = "refine_unknown"
           /\ job.req.type # "aob"
           /\ job.next \in 1..Len(result.chunks) /\ chunk \in Chunk
           /\ UnknownHits \in SUBSET Address
           /\ \A a \in UnknownHits :
                 /\ a \in Nat /\ Inside(a, chunk) /\ Footprint(a, ValueSize) \subseteq mapped
                 /\ Aligned(a, job.req)
                 /\ RefineMatch(job.req, BytesAt(a, ValueSize), OldAt(chunk, a))
           /\ \A a \in Nat :
                 /\ Inside(a, chunk) /\ Extent(chunk) \subseteq mapped /\ Aligned(a, job.req)
                 /\ RefineMatch(job.req, BytesAt(a, ValueSize), OldAt(chunk, a))
                 => a \in UnknownHits
           /\ \/ job' = Over("failed")
              \/ /\ job' \in JobType /\ job'.phase = "running" /\ Steady(job, job')
                 /\ SamePlace(job, job') /\ SameChunks(job, job')
                 /\ job'.next = job.next + 1 /\ job'.todo = job.todo
                 /\ job'.count = job.count + Cardinality(UnknownHits)
                 /\ job'.count <= job.req.options.max_candidates
                 /\ DOMAIN job'.found = DOMAIN job.found \cup UnknownHits
                 /\ \A a \in DOMAIN job'.found :
                       job'.found[a] = IF a \in DOMAIN job.found THEN job.found[a]
                                       ELSE BytesAt(a, ValueSize)
           /\ UNCHANGED <<memory, mapped, pokes, result>>
<1> DEFINE chunk == result.chunks[job.next]
           base == chunk.base
           len == Len(chunk.raw)
           usable == ReadInto(base, len)
           size == ItemSize(job.req)
           S == Starts(base, usable, usable, job.req)
           f == [a \in UnknownHits |-> BytesAt(a, size)]
<1>1. job.phase = "running" /\ job.kind = "refine_unknown"
  <2>1. Running({"refine_unknown"})
    BY Zenon DEF RefineChunk
  <2> QED
    BY <2>1 DEF Running
<1>2. Live /\ job \in JobType /\ memory \in [Address -> Byte] /\ mapped \in SUBSET Address
      /\ result.chunks \in Seq(Chunk)
  BY <1>1 DEF Live, Typed
<1>3. job.req \in ValidRequests /\ job.req.type # "aob" /\ job.next \in Nat \ {0}
  BY <1>1, <1>2 DEF Placed, JobType
<1>4. size = ValueSize /\ size \in Nat \ {0}
  BY <1>3, ItemSizes
<1>5. job.next \in 1..Len(result.chunks)
  <2>1. job.next <= Len(result.chunks)
    BY Zenon DEF RefineChunk
  <2> QED
    BY <1>2, <1>3, <2>1
<1>6. chunk \in Chunk
  BY <1>2, <1>5
<1>7. base \in Nat /\ len \in Nat
  <2>1. chunk.base \in Address /\ chunk.raw \in Seq(Byte)
    BY <1>6 DEF Chunk
  <2>2. Address \subseteq Nat
    BY EngineAssumption
  <2>3. \A s \in Seq(Byte) : Len(s) \in Nat
    OBVIOUS
  <2> HIDE DEF chunk
  <2> QED
    BY <2>1, <2>2, <2>3
<1>8. UnknownHits = {a \in S : RefineMatch(job.req, BytesAt(a, size), OldAt(chunk, a))}
  BY DEF UnknownHits
<1>9. job' = Limited([AddFound(job, f) EXCEPT !.next = @ + 1])
  <2>1. UnknownHits =
          {a \in S : RefineMatch(job.req, BytesAt(a, size),
                         SubSeq(chunk.raw, (a - chunk.base) + 1, (a - chunk.base) + size))}
    <3>1. UnknownHits =
            {a \in S : RefineMatch(job.req, BytesAt(a, size),
                         SubSeq(chunk.raw, (a - chunk.base) + 1, (a - chunk.base) + ValueSize))}
      BY <1>8 DEF OldAt
    <3> HIDE DEF size, S, chunk
    <3> QED
      BY <1>4, <3>1
  <2> QED
    BY <2>1, Zenon DEF RefineChunk
<1>10. Extent(chunk) = base..(base + len - 1)
  BY DEF Extent
<1>11. \A a : Inside(a, chunk) <=> base <= a /\ a + size <= base + len
  BY <1>4 DEF Inside
<1> HIDE DEF size
<1>12. /\ usable \in 0..len
       /\ \A i \in 0..(usable - 1) : base + i \in mapped
       /\ usable < len => base + usable \notin mapped
  <2> HIDE DEF base, len
  <2> QED
    BY <1>7, ReadIntoType
<1> HIDE DEF usable, base, len, chunk
<1>13. \A x \in base..(base + usable - 1) : x \in mapped
  <2> TAKE x \in base..(base + usable - 1)
  <2>1. x - base \in 0..(usable - 1) /\ base + (x - base) = x
    BY <1>7, <1>12
  <2> QED
    BY <1>12, <2>1
<1>14. /\ \A a \in S :
            /\ a \in Address /\ a \in Nat /\ base <= a /\ a < base + usable
            /\ a + size <= base + usable
            /\ Footprint(a, size) \subseteq mapped /\ Aligned(a, job.req)
       /\ \A a \in Nat :
            /\ base <= a /\ a < base + usable
            /\ a + size <= base + usable /\ Aligned(a, job.req)
            => a \in S
  <2>1. usable \in Nat /\ usable <= usable
    BY <1>7, <1>12
  <2> QED
    BY <1>2, <1>3, <1>7, <1>13, <2>1, StartFactsOf DEF size
<1> HIDE DEF S
<1>15. /\ UnknownHits \in SUBSET Address
       /\ \A a \in UnknownHits :
             /\ a \in Nat /\ Inside(a, chunk) /\ Footprint(a, size) \subseteq mapped
             /\ Aligned(a, job.req)
             /\ RefineMatch(job.req, BytesAt(a, size), OldAt(chunk, a))
  <2>1. \A a \in S : Inside(a, chunk)
    BY <1>4, <1>7, <1>11, <1>12, <1>14
  <2> QED
    BY <1>8, <1>14, <2>1
<1>16. ASSUME NEW a \in Nat, Inside(a, chunk), Extent(chunk) \subseteq mapped,
              Aligned(a, job.req), RefineMatch(job.req, BytesAt(a, size), OldAt(chunk, a))
       PROVE  a \in UnknownHits
  <2>1. base <= a /\ a + size <= base + len
    BY <1>11, <1>16
  <2>2. usable = len
    <3>1. SUFFICES ASSUME usable < len PROVE FALSE
      BY <1>7, <1>12
    <3>2. base + usable \in base..(base + len - 1)
      BY <1>7, <1>12, <3>1
    <3> QED
      BY <1>10, <1>12, <1>16, <3>1, <3>2
  <2>3. a \in S
    BY <1>4, <1>7, <1>14, <1>16, <2>1, <2>2
  <2> QED
    BY <1>8, <1>16, <2>3
<1>17. f \in [UnknownHits -> Seq(Byte)]
  <2>1. ASSUME NEW a \in UnknownHits
        PROVE  BytesAt(a, size) \in Seq(Byte)
    <3>1. a \in Nat /\ Footprint(a, size) \subseteq Address
      BY <1>2, <1>15
    <3> QED
      BY <1>2, <1>4, <3>1, BytesRead
  <2> QED
    BY <2>1
<1>18. \A a \in UnknownHits : f[a] = BytesAt(a, size)
  OBVIOUS
<1> DEFINE j == AddFound(job, f)
           n == [j EXCEPT !.next = job.next + 1]
<1> HIDE DEF f
<1>19. /\ j \in JobType /\ j.phase = job.phase /\ Steady(job, j)
       /\ SamePlace(job, j) /\ SameChunks(job, j) /\ SameTodo(job, j)
       /\ j.count = job.count + Cardinality(UnknownHits)
       /\ DOMAIN j.found = DOMAIN job.found \cup UnknownHits
       /\ \A a \in DOMAIN j.found :
             j.found[a] = IF a \in DOMAIN job.found THEN job.found[a] ELSE f[a]
  <2>1. job \in JobType /\ UnknownHits \in SUBSET Address
    BY <1>2, <1>15
  <2> DEFINE hits == UnknownHits
             k == job
  <2>2. k \in JobType /\ hits \in SUBSET Address /\ f \in [hits -> Seq(Byte)]
    BY <1>17, <2>1
  <2> HIDE DEF hits, k
  <2>3. LET m == AddFound(k, f)
        IN  /\ m \in JobType /\ m.phase = k.phase /\ Steady(k, m)
            /\ SamePlace(k, m) /\ SameChunks(k, m) /\ SameTodo(k, m)
            /\ m.count = k.count + Cardinality(hits)
            /\ DOMAIN m.found = DOMAIN k.found \cup hits
            /\ \A a \in DOMAIN m.found :
                  m.found[a] = IF a \in DOMAIN k.found THEN k.found[a] ELSE f[a]
    BY <2>2, AddFacts
  <2> QED
    BY <2>3 DEF hits, k
<1>20. job' = Limited([j EXCEPT !.next = @ + 1])
  BY <1>9
<1> HIDE DEF j
<1>21. j.next = job.next /\ job.next + 1 \in Nat \ {0}
  BY <1>3, <1>19 DEF SameTodo
<1>22. job' = Limited(n)
  BY <1>20, <1>21
<1>23. /\ n \in JobType /\ n.phase = "running" /\ Steady(job, n)
       /\ SamePlace(job, n) /\ SameChunks(job, n)
       /\ n.next = job.next + 1 /\ n.todo = job.todo
       /\ n.count = j.count /\ n.found = j.found /\ n.req = job.req
  BY <1>1, <1>19, <1>21 DEF JobType, Steady, SamePlace, SameChunks, SameTodo
<1> HIDE DEF n
<1>24. job' = Over("failed") \/ (job' = n /\ n.count <= n.req.options.max_candidates)
  <2>1. n.count \in Nat /\ n.req.options.max_candidates \in Nat
    BY <1>23, ItemSizes DEF JobType
  <2> QED
    BY <1>22, <2>1 DEF Limited
<1>25. \A a \in DOMAIN n.found :
          n.found[a] = IF a \in DOMAIN job.found THEN job.found[a] ELSE BytesAt(a, size)
  BY <1>18, <1>19, <1>23
<1>26. \/ job' = Over("failed")
       \/ /\ job' \in JobType /\ job'.phase = "running" /\ Steady(job, job')
          /\ SamePlace(job, job') /\ SameChunks(job, job')
          /\ job'.next = job.next + 1 /\ job'.todo = job.todo
          /\ job'.count = job.count + Cardinality(UnknownHits)
          /\ job'.count <= job.req.options.max_candidates
          /\ DOMAIN job'.found = DOMAIN job.found \cup UnknownHits
          /\ \A a \in DOMAIN job'.found :
                job'.found[a] = IF a \in DOMAIN job.found THEN job.found[a]
                                ELSE BytesAt(a, size)
  BY <1>19, <1>23, <1>24, <1>25
<1>27. UNCHANGED <<memory, mapped, pokes, result>>
  BY Zenon DEF RefineChunk
<1> QED
  BY <1>1, <1>3, <1>4, <1>5, <1>6, <1>15, <1>16, <1>26, <1>27 DEF chunk

\* What a write or a free of the target does to a job.
LEMMA TouchFacts ==
    ASSUME Typed, Live, NEW addresses, Touch(addresses)
    PROVE  /\ job' \in JobType /\ job'.phase = job.phase
           /\ job'.kind = job.kind /\ job'.req = job.req /\ job'.selected = job.selected
           /\ job'.old = job.old /\ job'.before = job.before /\ job'.end = job.end
           /\ job'.stable = job.stable \ addresses
           /\ SamePlace(job, job') /\ SameFound(job, job')
           /\ SameChunks(job, job') /\ SameTodo(job, job')
<1>1. job \in JobType
  BY DEF Typed
<1>2. job' = [job EXCEPT !.stable = job.stable \ addresses]
  BY DEF Touch, Live
<1> QED
  BY <1>1, <1>2 DEF JobType, SamePlace, SameFound, SameChunks, SameTodo

\* A step of the target.
TargetStep ==
    \/ \E a \in mapped, b \in Byte :
          /\ memory' = [memory EXCEPT ![a] = b]
          /\ Touch({a}) /\ UNCHANGED <<mapped, result>>
    \/ \E gone \in SUBSET mapped :
          /\ mapped' = mapped \ gone
          /\ \E a \in Address : gone = {b \in mapped : b \div Page = a \div Page}
          /\ Touch(gone) /\ UNCHANGED <<memory, result>>

\* Writes and frees are steps of that form.
LEMMA TargetSteps ==
    ASSUME Typed, \E a \in Address : ProgramWrites(a) \/ ProgramFrees(a)
    PROVE  TargetStep /\ pokes' \in 0..MaxPokes
<1>1. pokes \in 0..MaxPokes
  BY DEF Typed
<1>2. PICK a \in Address : ProgramWrites(a) \/ ProgramFrees(a)
  OBVIOUS
<1>3. CASE ProgramWrites(a)
  <2>1. /\ pokes < MaxPokes /\ pokes' = pokes + 1 /\ a \in mapped
        /\ Touch({a}) /\ UNCHANGED <<mapped, result>>
    BY <1>3 DEF ProgramWrites
  <2>2. PICK b \in Byte : memory' = [memory EXCEPT ![a] = b]
    BY <1>3 DEF ProgramWrites
  <2>3. TargetStep
    BY <2>1, <2>2 DEF TargetStep
  <2> QED
    BY <1>1, <2>1, <2>3, EngineAssumption
<1>4. CASE ProgramFrees(a)
  <2> DEFINE gone == {b \in mapped : b \div Page = a \div Page}
  <2>1. gone \in SUBSET mapped
    OBVIOUS
  <2>2. /\ pokes < MaxPokes /\ pokes' = pokes + 1 /\ mapped' = mapped \ gone
        /\ Touch(gone) /\ UNCHANGED <<memory, result>>
    BY <1>4 DEF ProgramFrees
  <2>3. \E b \in Address : gone = {c \in mapped : c \div Page = b \div Page}
    OBVIOUS
  <2> HIDE DEF gone
  <2>4. TargetStep
    BY <2>1, <2>2, <2>3 DEF TargetStep
  <2> QED
    BY <1>1, <2>2, <2>4, EngineAssumption
<1> QED
  BY <1>2, <1>3, <1>4

\* Types, place and result.
Shape == Typed /\ Placed /\ Ended

\* A job that has just been started.
Begun(j, req) ==
    /\ j.phase = "running" /\ j.req = req
    /\ j.selected = Selected(req.options) /\ j.regions = Selected(req.options)
    /\ j.region = NoRegion /\ j.offset = 0 /\ j.left = req.options.budget /\ j.skipped = {}
    /\ j.chunks = <<>> /\ j.bytes = 0 /\ j.next = 1
    /\ j.old = result.values /\ j.todo = DOMAIN result.values
    /\ j.found = Empty /\ j.count = 0 /\ j.stable = mapped

\* The steps of a job: begun, completed or stopped.
FirstStep ==
    /\ result'.kind = "none" /\ result'.values = Empty /\ result'.chunks = <<>>
    /\ UNCHANGED <<memory, mapped, pokes>>
    /\ \/ job' = Over("failed")
       \/ \E req \in ValidRequests :
             /\ job' \in JobType /\ Begun(job', req)
             /\ job'.kind \in {"scan", "capture"}
             /\ job'.kind = "capture" => req.type # "aob"
\* A refinement begins with the values of the result, or with its chunks.
RefineStep ==
    /\ job.phase = "done"
    /\ UNCHANGED <<memory, mapped, pokes, result>>
    /\ \/ job' = Over("failed")
       \/ \E req \in ValidRequests :
             /\ job' \in JobType /\ Begun(job', req)
             /\ req.type = result.type /\ job'.before = job.end
             /\ \/ job'.kind = "refine" /\ result.kind # "snapshot"
                \/ /\ job'.kind = "refine_unknown" /\ result.kind = "snapshot"
                   /\ req.type # "aob"

\* Starting, ending and stopping in that form.
LEMMA FirstSteps ==
    ASSUME Typed, NEW req \in Requests, FirstScan(req)
    PROVE  FirstStep
<1> DEFINE kind == IF req.mode = "unknown_initial" THEN "capture" ELSE "scan"
           ok == req.mode \notin RelativeModes
<1>1. /\ req \in ValidRequests
      /\ result' = [NoResult EXCEPT !.type = req.type]
      /\ Start(kind, req, NoEnd, ok)
      /\ UNCHANGED <<memory, mapped, pokes>>
  BY DEF FirstScan
<1>2. kind \in Kinds /\ kind \in {"scan", "capture"}
  BY DEF Kinds
<1>3. kind = "capture" => req.type # "aob"
  BY <1>1 DEF ValidRequests, Valid
<1>4. NoEnd \in EndType
  BY DEF NoEnd, EndType
<1>5. result'.kind = "none" /\ result'.values = Empty /\ result'.chunks = <<>>
  BY <1>1 DEF NoResult
<1> HIDE DEF kind, ok
<1>6. CASE ok
  <2>1. Start(kind, req, NoEnd, TRUE)
    BY <1>1, <1>6
  <2>2. job' \in JobType /\ Begun(job', req) /\ job'.kind = kind
    BY <1>1, <1>2, <1>4, <2>1, StartFacts DEF Begun
  <2> QED
    BY <1>1, <1>2, <1>3, <1>5, <2>2 DEF FirstStep
<1>7. CASE ~ok
  <2>1. job' = Over("failed")
    BY <1>1, <1>7 DEF Start
  <2> QED
    BY <1>1, <1>5, <2>1 DEF FirstStep
<1> QED
  BY <1>6, <1>7

\* Refining a result.
LEMMA RefineSteps ==
    ASSUME Typed, NEW req \in Requests, RefineScan(req)
    PROVE  RefineStep
<1>1. /\ job.phase = "done" /\ req \in ValidRequests /\ req.type = result.type
      /\ UNCHANGED <<memory, mapped, pokes, result>>
  BY DEF RefineScan
<1>2. job.end \in EndType
  BY <1>1 DEF Typed, Live, JobType
<1>3. CASE job' = Over("failed")
  BY <1>1, <1>3 DEF RefineStep
<1>4. CASE result.kind = "snapshot" /\ job' # Over("failed")
  <2> DEFINE ok == req.mode \in RelativeModes
  <2>1. Start("refine_unknown", req, job.end, ok)
    BY <1>4 DEF RefineScan
  <2>2. ok
    <3> HIDE DEF ok
    <3> QED
      BY <1>4, <2>1 DEF Start
  <2>3. Start("refine_unknown", req, job.end, TRUE)
    <3>1. ok = TRUE
      BY <2>2
    <3> HIDE DEF ok
    <3> QED
      BY <2>1, <3>1
  <2>4. "refine_unknown" \in Kinds
    BY DEF Kinds
  <2>5. job' \in JobType /\ Begun(job', req) /\ job'.kind = "refine_unknown"
        /\ job'.before = job.end
    BY <1>1, <1>2, <2>3, <2>4, StartFacts DEF Begun
  <2>6. req.type # "aob"
    BY <1>1, <2>2 DEF ValidRequests, Valid, RelativeModes
  <2> QED
    BY <1>1, <1>4, <2>5, <2>6 DEF RefineStep
<1>5. CASE result.kind # "snapshot" /\ job' # Over("failed")
  <2> DEFINE ok == req.mode # "unknown_initial"
  <2>1. Start("refine", req, job.end, ok)
    BY <1>5 DEF RefineScan
  <2>2. ok
    <3> HIDE DEF ok
    <3> QED
      BY <1>5, <2>1 DEF Start
  <2>3. Start("refine", req, job.end, TRUE)
    <3>1. ok = TRUE
      BY <2>2
    <3> HIDE DEF ok
    <3> QED
      BY <2>1, <3>1
  <2>4. "refine" \in Kinds
    BY DEF Kinds
  <2>5. job' \in JobType /\ Begun(job', req) /\ job'.kind = "refine"
        /\ job'.before = job.end
    BY <1>1, <1>2, <2>3, <2>4, StartFacts DEF Begun
  <2> QED
    BY <1>1, <1>5, <2>5 DEF RefineStep
<1> QED
  BY <1>3, <1>4, <1>5

\* The end of a job.
FinishStep ==
    /\ job.phase = "running"
    /\ job' \in JobType /\ job'.phase = "done" /\ Steady(job, job')
    /\ SamePlace(job, job') /\ SameFound(job, job') /\ SameTodo(job, job')
    /\ job'.end = [memory |-> memory, stable |-> job.stable,
                   regions |-> job.selected \ job.skipped]
    /\ result'.kind = (IF job.kind = "capture" THEN "snapshot" ELSE "candidates")
    /\ result'.type = job.req.type /\ result'.values = job.found
    /\ UNCHANGED <<memory, mapped, pokes>>
    /\ \/ /\ job.kind \in {"scan", "capture"} /\ job.regions = {} /\ job.region = NoRegion
          /\ result'.chunks = job.chunks
       \/ /\ \/ job.kind = "refine" /\ job.todo = {}
             \/ job.kind = "refine_unknown" /\ job.next > Len(result.chunks)
          /\ job.count <= job.req.options.max_candidates
          /\ result'.chunks = <<>>

\* A job that ends without a result.
StopStep ==
    /\ job.phase = "running" /\ job' \in {Over("failed"), Over("cancelled")}
    /\ UNCHANGED <<memory, mapped, pokes, result>>

\* The end of a scan or of a refinement, whose limit may still fail it.
LEMMA FinishSteps ==
    ASSUME Typed, FinishFirst \/ FinishRefine
    PROVE  FinishStep \/ StopStep
<1>1. CASE FinishFirst
  <2>1. /\ job.phase = "running" /\ job.kind \in {"scan", "capture"} /\ job.region = NoRegion
        /\ job.regions = {} /\ Finish(job.found, job.chunks)
    BY <1>1 DEF FinishFirst, Choosing, Running
  <2> QED
    BY <2>1, FinishFacts DEF FinishStep, Live
<1>2. CASE FinishRefine
  <2>1. /\ job.phase = "running"
        /\ \/ job.kind = "refine" /\ job.todo = {}
           \/ job.kind = "refine_unknown" /\ job.next > Len(result.chunks)
    BY <1>2 DEF FinishRefine, Running
  <2>2. CASE job.count > job.req.options.max_candidates
    BY <1>2, <2>1, <2>2 DEF FinishRefine, StopStep
  <2>3. CASE ~(job.count > job.req.options.max_candidates)
    <3>1. Finish(job.found, <<>>)
      BY <1>2, <2>3 DEF FinishRefine
    <3>2. job.count <= job.req.options.max_candidates
      <4>1. job \in JobType
        BY <2>1 DEF Typed, Live
      <4>2. job.count \in Nat /\ job.req \in ValidRequests
        BY <4>1 DEF JobType
      <4>3. job.req.options.max_candidates \in Nat
        BY <4>2, ItemSizes
      <4> QED
        BY <2>3, <4>2, <4>3
    <3> DEFINE values == job.found
               chunks == <<>>
    <3>3. Finish(values, chunks)
      BY <3>1
    <3> HIDE DEF values, chunks
    <3>4. /\ job' \in JobType /\ job'.phase = "done" /\ Steady(job, job')
          /\ SamePlace(job, job') /\ SameFound(job, job') /\ SameTodo(job, job')
          /\ job'.end = [memory |-> memory, stable |-> job.stable,
                         regions |-> job.selected \ job.skipped]
          /\ result'.kind = (IF job.kind = "capture" THEN "snapshot" ELSE "candidates")
          /\ result'.type = job.req.type
          /\ result'.values = values /\ result'.chunks = chunks
          /\ UNCHANGED <<memory, mapped, pokes>>
      BY <2>1, <3>3, FinishFacts DEF Live
    <3> QED
      BY <2>1, <3>2, <3>4 DEF FinishStep, values, chunks
  <2> QED
    BY <2>2, <2>3
<1> QED
  BY <1>1, <1>2

\* The kinds of steps there are.
LEMMA StepCases ==
    ASSUME Typed, [Next]_vars
    PROVE  \/ UNCHANGED vars
           \/ TargetStep /\ pokes' \in 0..MaxPokes
           \/ FirstStep \/ RefineStep \/ StopStep \/ FinishStep
           \/ TakeRegion \/ SkipRegion \/ ScanChunk \/ CaptureChunk
           \/ RefineGroup \/ RefineChunk
<1>1. CASE \E a \in Address : ProgramWrites(a) \/ ProgramFrees(a)
  BY <1>1, TargetSteps
<1>2. CASE \E req \in Requests : FirstScan(req) \/ RefineScan(req)
  BY <1>2, FirstSteps, RefineSteps
<1>3. CASE Cancel
  BY <1>3 DEF Cancel, StopStep
<1>4. CASE WorkerStep
  BY <1>4, FinishSteps DEF WorkerStep
<1>5. CASE UNCHANGED vars
  BY <1>5
<1> QED
  BY <1>1, <1>2, <1>3, <1>4, <1>5 DEF Next

\* Nothing runs and nothing is found at first.
LEMMA InitShape == Init => Shape
<1> SUFFICES ASSUME Init PROVE Shape
  OBVIOUS
<1>1. job.phase = "idle"
  BY DEF Init, Over
<1>2. mapped \in SUBSET Address /\ memory \in [Address -> Byte] /\ pokes \in 0..MaxPokes
  BY EngineAssumption DEF Init
<1>3. result.kind = "none" /\ result.values = Empty /\ result.chunks = <<>>
  BY DEF Init, NoResult
<1>4. Empty \in CandidateSet /\ DOMAIN Empty = {}
  BY DEF Empty, CandidateSet
<1> QED
  BY <1>1, <1>2, <1>3, <1>4 DEF Shape, Typed, Placed, Ended, Live, Numeric

\* A value read for an item of a numeric type is an item.
LEMMA NumericRead ==
    ASSUME memory \in [Address -> Byte], NEW req \in ValidRequests, NEW a \in Nat,
           Footprint(a, ItemSize(req)) \subseteq Address, req.type # "aob"
    PROVE  BytesAt(a, ItemSize(req)) \in Item
<1>1. ItemSize(req) = ValueSize /\ ValueSize \in Nat
  BY ItemSizes, EngineAssumption
<1> QED
  BY <1>1, BytesRead DEF Item

\* Types, place and result after each step.
LEMMA TypedNext ==
    ASSUME Shape, [Next]_vars
    PROVE  Typed'
<1> USE DEF Shape
<1>0. Typed
  OBVIOUS
<1>1. CASE UNCHANGED vars
  BY <1>1 DEF vars, Typed, Live, Numeric
<1>2. CASE TargetStep /\ pokes' \in 0..MaxPokes
  <2>1. memory' \in [Address -> Byte] /\ mapped' \in SUBSET Address /\ mapped' \subseteq mapped
    BY <1>0, <1>2 DEF Typed, TargetStep
  <2>2. result' = result
    BY <1>2 DEF TargetStep
  <2>3. PICK addresses : Touch(addresses) /\ (mapped \ addresses) \subseteq mapped'
    BY <1>2 DEF TargetStep
  <2>4. CASE Live
    <3>1. /\ job' \in JobType /\ job'.phase = job.phase
          /\ job'.stable = job.stable \ addresses
          /\ job'.req = job.req /\ job'.found = job.found
      BY <1>0, <2>3, <2>4, TouchFacts DEF SameFound
    <3> QED
      BY <1>0, <1>2, <2>1, <2>2, <2>3, <2>4, <3>1 DEF Typed, Live, Numeric
  <2>5. CASE ~Live
    <3>1. job' = job
      BY <2>3, <2>5 DEF Touch, Live
    <3> QED
      BY <1>0, <1>2, <2>1, <2>2, <2>5, <3>1 DEF Typed, Live, Numeric
  <2> QED
    BY <2>4, <2>5
<1>3. CASE FirstStep
  <2>1. Empty \in CandidateSet /\ DOMAIN Empty = {}
    BY DEF Empty, CandidateSet
  <2>2. /\ result'.kind \in {"none", "candidates", "snapshot"}
        /\ result'.values \in CandidateSet /\ result'.chunks \in Seq(Chunk)
        /\ Numeric(result'.type, result'.values)
    BY <1>3, <2>1 DEF FirstStep, Numeric
  <2>3. CASE job' = Over("failed")
    BY <1>0, <1>3, <2>2, <2>3, OverFacts DEF FirstStep, Typed, Live, Numeric
  <2>4. CASE job' # Over("failed")
    <3>1. PICK req \in ValidRequests : job' \in JobType /\ Begun(job', req)
      BY <1>3, <2>4 DEF FirstStep
    <3> QED
      BY <1>0, <1>3, <2>1, <2>2, <3>1 DEF FirstStep, Typed, Live, Numeric, Begun
  <2> QED
    BY <2>3, <2>4
<1>4. CASE RefineStep
  <2>1. DOMAIN Empty = {}
    BY DEF Empty
  <2>2. CASE job' = Over("failed")
    BY <1>0, <1>4, <2>2, OverFacts DEF RefineStep, Typed, Live, Numeric
  <2>3. CASE job' # Over("failed")
    <3>1. PICK req \in ValidRequests : job' \in JobType /\ Begun(job', req)
      BY <1>4, <2>3 DEF RefineStep
    <3> QED
      BY <1>0, <1>4, <2>1, <3>1 DEF RefineStep, Typed, Live, Numeric, Begun
  <2> QED
    BY <2>2, <2>3
<1>5. CASE StopStep
  <2>1. job'.phase \in {"failed", "cancelled"}
    BY <1>5, OverFacts DEF StopStep
  <2> QED
    BY <1>0, <1>5, <2>1 DEF StopStep, Typed, Live, Numeric
<1>6. CASE FinishStep
  <2>1. job \in JobType /\ job.found \in CandidateSet /\ job.chunks \in Seq(Chunk)
        /\ job.req \in ValidRequests
    BY <1>0, <1>6 DEF FinishStep, Typed, Live, JobType
  <2>2. /\ result'.values \in CandidateSet /\ result'.chunks \in Seq(Chunk)
        /\ result'.kind \in {"none", "candidates", "snapshot"}
        /\ result'.type = job.req.type /\ result'.values = job.found
    <3>1. result'.chunks = job.chunks \/ result'.chunks = <<>>
      BY <1>6 DEF FinishStep
    <3>2. <<>> \in Seq(Chunk)
      OBVIOUS
    <3>3. result'.chunks \in Seq(Chunk)
      BY <2>1, <3>1, <3>2
    <3>4. result'.type = job.req.type /\ result'.values = job.found
          /\ result'.kind = (IF job.kind = "capture" THEN "snapshot" ELSE "candidates")
      BY <1>6 DEF FinishStep
    <3> QED
      BY <2>1, <3>3, <3>4
  <2>3. /\ job'.req = job.req /\ job'.stable = job.stable /\ job'.found = job.found
        /\ job' \in JobType /\ job'.phase = "done"
        /\ UNCHANGED <<memory, mapped, pokes>>
    BY <1>6 DEF FinishStep, Steady, SameFound
  <2>4. Numeric(job.req.type, job.found) /\ job.stable \subseteq mapped
    BY <1>0, <1>6 DEF FinishStep, Typed, Live
  <2> QED
    BY <1>0, <2>2, <2>3, <2>4 DEF Typed, Live, Numeric
<1>7. CASE TakeRegion \/ SkipRegion
  <2>1. /\ job.phase = "running"
        /\ job' \in JobType /\ job'.phase = "running" /\ Steady(job, job')
        /\ SameFound(job, job')
        /\ UNCHANGED <<memory, mapped, pokes, result>>
    BY <1>7, TakeFacts, SkipFacts
  <2> QED
    BY <1>0, <2>1 DEF Typed, Live, Numeric, Steady, SameFound
<1>8. CASE ScanChunk
  <2>1. /\ job.phase = "running"
        /\ UNCHANGED <<memory, mapped, pokes, result>>
        /\ \A a \in Hits : a \in Nat /\ Footprint(a, ItemSize(job.req)) \subseteq mapped
        /\ \/ job' = Over("failed")
           \/ /\ job' \in JobType /\ job'.phase = "running" /\ Steady(job, job')
              /\ DOMAIN job'.found = DOMAIN job.found \cup Hits
              /\ \A a \in DOMAIN job'.found :
                    job'.found[a] = IF a \in DOMAIN job.found THEN job.found[a]
                                    ELSE BytesAt(a, ItemSize(job.req))
    BY <1>0, <1>8, ScanFacts
  <2>2. CASE job' = Over("failed")
    BY <1>0, <2>1, <2>2, OverFacts DEF Typed, Live, Numeric
  <2>3. CASE job' # Over("failed")
    <3>1. /\ job \in JobType /\ Numeric(job.req.type, job.found) /\ job.stable \subseteq mapped
          /\ memory \in [Address -> Byte] /\ mapped \subseteq Address /\ job.req \in ValidRequests
      BY <1>0, <2>1 DEF Typed, Live, JobType
    <3>2. job.req.type # "aob" => \A a \in Hits : BytesAt(a, ItemSize(job.req)) \in Item
      BY <2>1, <3>1, NumericRead
    <3>3. Numeric(job.req.type, job'.found)
      BY <2>1, <2>3, <3>1, <3>2 DEF Numeric
    <3>4. job'.req = job.req /\ job'.stable = job.stable
      BY <2>1, <2>3 DEF Steady
    <3> QED
      BY <1>0, <2>1, <2>3, <3>1, <3>3, <3>4 DEF Typed, Live, Numeric
  <2> QED
    BY <2>2, <2>3
<1>9. CASE CaptureChunk
  <2>1. /\ job.phase = "running"
        /\ job' \in JobType /\ job'.phase = "running" /\ Steady(job, job')
        /\ SameFound(job, job')
        /\ UNCHANGED <<memory, mapped, pokes, result>>
    BY <1>9, CaptureFacts
  <2> QED
    BY <1>0, <2>1 DEF Typed, Live, Numeric, Steady, SameFound
<1>10. CASE RefineGroup
  <2>1. /\ job.phase = "running"
        /\ UNCHANGED <<memory, mapped, pokes, result>>
        /\ \A a \in KeptOf : a \in Nat /\ Footprint(a, ItemSize(job.req)) \subseteq Address
        /\ job' \in JobType /\ job'.phase = "running" /\ Steady(job, job')
        /\ DOMAIN job'.found = DOMAIN job.found \cup KeptOf
        /\ \A a \in DOMAIN job'.found :
              job'.found[a] = IF a \in KeptOf THEN BytesAt(a, ItemSize(job.req))
                              ELSE job.found[a]
    BY <1>0, <1>10, GroupReadFacts
  <2>2. /\ job \in JobType /\ Numeric(job.req.type, job.found) /\ job.stable \subseteq mapped
        /\ memory \in [Address -> Byte] /\ job.req \in ValidRequests
    BY <1>0, <2>1 DEF Typed, Live, JobType
  <2>3. job.req.type # "aob" => \A a \in KeptOf : BytesAt(a, ItemSize(job.req)) \in Item
    BY <2>1, <2>2, NumericRead
  <2>4. Numeric(job.req.type, job'.found)
    BY <2>1, <2>2, <2>3 DEF Numeric
  <2>5. job'.req = job.req /\ job'.stable = job.stable
    BY <2>1 DEF Steady
  <2> QED
    BY <1>0, <2>1, <2>2, <2>4, <2>5 DEF Typed, Live, Numeric
<1>11. CASE RefineChunk
  <2>1. /\ job.phase = "running" /\ job.req.type # "aob"
        /\ UNCHANGED <<memory, mapped, pokes, result>>
        /\ \A a \in UnknownHits : a \in Nat /\ Footprint(a, ValueSize) \subseteq mapped
        /\ \/ job' = Over("failed")
           \/ /\ job' \in JobType /\ job'.phase = "running" /\ Steady(job, job')
              /\ DOMAIN job'.found = DOMAIN job.found \cup UnknownHits
              /\ \A a \in DOMAIN job'.found :
                    job'.found[a] = IF a \in DOMAIN job.found THEN job.found[a]
                                    ELSE BytesAt(a, ValueSize)
    BY <1>0, <1>11, RefineChunkFacts
  <2>2. CASE job' = Over("failed")
    BY <1>0, <2>1, <2>2, OverFacts DEF Typed, Live, Numeric
  <2>3. CASE job' # Over("failed")
    <3>1. /\ job \in JobType /\ Numeric(job.req.type, job.found) /\ job.stable \subseteq mapped
          /\ memory \in [Address -> Byte] /\ mapped \subseteq Address /\ job.req \in ValidRequests
      BY <1>0, <2>1 DEF Typed, Live, JobType
    <3>2. ItemSize(job.req) = ValueSize
      BY <2>1, <3>1, ItemSizes
    <3>3. \A a \in UnknownHits : BytesAt(a, ValueSize) \in Item
      BY <2>1, <3>1, <3>2, NumericRead
    <3>4. Numeric(job.req.type, job'.found)
      BY <2>1, <2>3, <3>1, <3>3 DEF Numeric
    <3>5. job'.req = job.req /\ job'.stable = job.stable
      BY <2>1, <2>3 DEF Steady
    <3> QED
      BY <1>0, <2>1, <2>3, <3>1, <3>4, <3>5 DEF Typed, Live, Numeric
  <2> QED
    BY <2>2, <2>3
<1> QED
  BY <1>0, <1>1, <1>2, <1>3, <1>4, <1>5, <1>6, <1>7, <1>8, <1>9, <1>10, <1>11, StepCases

\* The place among the regions.
LEMMA PlacedNext ==
    ASSUME Shape, [Next]_vars
    PROVE  Placed'
<1> USE DEF Shape
<1>0. Typed /\ Placed
  OBVIOUS
<1>1. CASE UNCHANGED vars
  BY <1>0, <1>1 DEF vars, Placed, Live, Taken
<1>2. CASE TargetStep /\ pokes' \in 0..MaxPokes
  <2>1. PICK addresses : Touch(addresses)
    BY <1>2 DEF TargetStep
  <2>2. CASE Live
    <3>1. /\ job'.phase = job.phase /\ job'.kind = job.kind /\ job'.req = job.req
          /\ job'.selected = job.selected
          /\ SamePlace(job, job') /\ SameFound(job, job')
      BY <1>0, <2>1, <2>2, TouchFacts
    <3> QED
      BY <1>0, <2>2, <3>1 DEF Placed, Live, Taken, SamePlace, SameFound
  <2>3. CASE ~Live
    <3>1. job' = job
      BY <2>1, <2>3 DEF Touch, Live
    <3> QED
      BY <2>3, <3>1 DEF Placed, Live
  <2> QED
    BY <2>2, <2>3
<1>3. CASE FirstStep \/ RefineStep
  <2>1. CASE job' = Over("failed")
    BY <2>1, OverFacts DEF Placed, Live
  <2>2. CASE job' # Over("failed")
    <3>1. PICK req \in ValidRequests :
            /\ job' \in JobType /\ Begun(job', req)
            /\ job'.kind \in {"capture", "refine_unknown"} => req.type # "aob"
      BY <1>3, <2>2 DEF FirstStep, RefineStep
    <3>2. /\ Selected(req.options) \subseteq Region
          /\ \A r \in Selected(req.options) : Span(r) \subseteq mapped
          /\ Apart(Selected(req.options))
      BY <3>1, ItemSizes, SelectedApart
    <3>3. mapped \subseteq Address
      BY <1>0 DEF Typed
    <3> QED
      BY <3>1, <3>2, <3>3 DEF Placed, Live, Begun
  <2> QED
    BY <2>1, <2>2
<1>4. CASE StopStep
  <2>1. job'.phase \in {"failed", "cancelled"}
    BY <1>4, OverFacts DEF StopStep
  <2> QED
    BY <2>1 DEF Placed, Live
<1>5. CASE FinishStep
  <2>1. /\ job.phase = "running" /\ Steady(job, job')
        /\ SamePlace(job, job') /\ SameFound(job, job')
    BY <1>5 DEF FinishStep
  <2> QED
    BY <1>0, <2>1 DEF Placed, Live, Taken, Steady, SamePlace, SameFound
<1>6. CASE TakeRegion
  <2>1. PICK r \in job.regions :
          /\ job.phase = "running" /\ job.region = NoRegion /\ job.offset = 0
          /\ r \in Region /\ r # NoRegion
          /\ job'.phase = "running" /\ Steady(job, job')
          /\ SameFound(job, job')
          /\ job'.regions = job.regions \ {r} /\ job'.region = r
          /\ job'.offset = 0 /\ job'.skipped = job.skipped
    BY <1>0, <1>6, TakeFacts
  <2>2. r.size \in Nat \ {0}
    BY <2>1 DEF Region
  <2> QED
    BY <1>0, <2>1, <2>2 DEF Placed, Live, Taken, Steady, SameFound
<1>7. CASE SkipRegion
  <2>1. PICK r \in job.regions :
          /\ job.phase = "running" /\ job.kind = "capture" /\ job.region = NoRegion
          /\ job'.phase = "running" /\ Steady(job, job')
          /\ SameFound(job, job')
          /\ job'.regions = job.regions \ {r} /\ job'.skipped = job.skipped \cup {r}
          /\ job'.region = NoRegion /\ job'.offset = job.offset
    BY <1>0, <1>7, SkipFacts
  <2> QED
    BY <1>0, <2>1 DEF Placed, Live, Taken, Steady, SameFound
<1>8. CASE ScanChunk
  <2>1. CASE job' = Over("failed")
    BY <2>1, OverFacts DEF Placed, Live
  <2>2. CASE job' # Over("failed")
    <3>1. /\ job.phase = "running" /\ job.kind = "scan" /\ job.region # NoRegion
          /\ Steady(job, job')
          /\ job'.regions = job.regions /\ job'.skipped = job.skipped
          /\ \/ /\ job.offset + ChunkPrimary < job.region.size
                /\ job'.region = job.region /\ job'.offset = job.offset + ChunkPrimary
             \/ /\ job'.region = NoRegion /\ job'.offset = 0
      BY <1>0, <1>8, <2>2, ScanFacts
    <3> QED
      BY <1>0, <3>1 DEF Placed, Live, Taken, Steady
  <2> QED
    BY <2>1, <2>2
<1>9. CASE CaptureChunk
  <2>1. /\ job.phase = "running" /\ job.kind = "capture" /\ job.region # NoRegion
        /\ Steady(job, job') /\ SameFound(job, job')
        /\ job'.regions = job.regions /\ job'.skipped = job.skipped
        /\ \/ /\ job.offset + ChunkPrimary < job.region.size
              /\ job'.region = job.region /\ job'.offset = job.offset + ChunkPrimary
           \/ /\ job'.region = NoRegion /\ job'.offset = 0
    BY <1>0, <1>9, CaptureFacts
  <2> QED
    BY <1>0, <2>1 DEF Placed, Live, Taken, Steady, SameFound
<1>10. CASE RefineGroup
  <2>1. /\ job.phase = "running" /\ job.kind = "refine"
        /\ Steady(job, job') /\ SamePlace(job, job')
    BY <1>0, <1>10, GroupReadFacts
  <2> QED
    BY <1>0, <2>1 DEF Placed, Live, Taken, Steady, SamePlace
<1>11. CASE RefineChunk
  <2>1. CASE job' = Over("failed")
    BY <2>1, OverFacts DEF Placed, Live
  <2>2. CASE job' # Over("failed")
    <3>1. /\ job.phase = "running" /\ job.kind = "refine_unknown"
          /\ Steady(job, job') /\ SamePlace(job, job')
      BY <1>0, <1>11, <2>2, RefineChunkFacts
    <3> QED
      BY <1>0, <3>1 DEF Placed, Live, Taken, Steady, SamePlace
  <2> QED
    BY <2>1, <2>2
<1> QED
  BY <1>0, <1>1, <1>2, <1>3, <1>4, <1>5, <1>6, <1>7, <1>8, <1>9, <1>10, <1>11, StepCases

\* The published result.
LEMMA EndedNext ==
    ASSUME Shape, [Next]_vars
    PROVE  Ended'
<1> USE DEF Shape
<1>0. Typed /\ Placed /\ Ended
  OBVIOUS
<1>1. CASE UNCHANGED vars
  BY <1>0, <1>1 DEF vars, Ended
<1>2. CASE TargetStep /\ pokes' \in 0..MaxPokes
  <2>1. PICK addresses : Touch(addresses) /\ result' = result
    BY <1>2 DEF TargetStep
  <2>2. CASE Live
    <3>1. /\ job'.phase = job.phase /\ job'.kind = job.kind /\ job'.req = job.req
          /\ SamePlace(job, job') /\ SameFound(job, job') /\ SameTodo(job, job')
      BY <1>0, <2>1, <2>2, TouchFacts
    <3> QED
      BY <1>0, <2>1, <2>2, <3>1 DEF Ended, SamePlace, SameFound, SameTodo
  <2>3. CASE ~Live
    <3>1. job' = job
      BY <2>1, <2>3 DEF Touch, Live
    <3> QED
      BY <2>3, <3>1 DEF Ended, Live
  <2> QED
    BY <2>2, <2>3
<1>3. CASE FinishStep
  <2>1. job'.kind = job.kind /\ job'.req = job.req /\ job'.found = job.found
        /\ job'.regions = job.regions /\ job'.region = job.region /\ job'.todo = job.todo
    BY <1>3 DEF FinishStep, Steady, SamePlace, SameFound, SameTodo
  <2> QED
    BY <1>3, <2>1 DEF FinishStep, Ended
<1>4. CASE FirstStep \/ RefineStep
  <2>1. job'.phase # "done"
    BY <1>4, OverFacts DEF FirstStep, RefineStep, Begun
  <2> QED
    BY <2>1 DEF Ended
<1>5. CASE StopStep
  BY <1>5, OverFacts DEF StopStep, Ended
<1>6. CASE TakeRegion \/ SkipRegion \/ ScanChunk \/ CaptureChunk \/ RefineGroup \/ RefineChunk
  <2>1. job'.phase # "done"
    BY <1>0, <1>6, TakeFacts, SkipFacts, ScanFacts, CaptureFacts, GroupReadFacts,
       RefineChunkFacts, OverFacts
  <2> QED
    BY <2>1 DEF Ended
<1> QED
  BY <1>0, <1>1, <1>2, <1>3, <1>4, <1>5, <1>6, StepCases

\* Together they are inductive.
LEMMA ShapeNext == Shape /\ [Next]_vars => Shape'
  BY TypedNext, PlacedNext, EndedNext DEF Shape

\* The type invariant the runs check.
LEMMA ShapeTypes ==
    ASSUME Shape
    PROVE  TypeOK
<1>1. Typed /\ Placed
  BY DEF Shape
<1>2. \A s \in Seq(Chunk) : Chunks(s)
  <2>1. \A s \in Seq(Chunk) : \A i \in DOMAIN s : s[i] \in Chunk
    OBVIOUS
  <2>2. \A c \in Chunk : c.base \in Address /\ c.raw \in Seq(Byte)
    BY DEF Chunk
  <2> QED
    BY <2>1, <2>2 DEF Chunks
<1>3. \A f \in CandidateSet : Candidates(f)
  BY CandidateFacts DEF Candidates
<1>4. ASSUME Live
      PROVE  /\ job.req \in Requests
             /\ job.kind \in {"scan", "capture", "refine", "refine_unknown"}
             /\ job.regions \cup job.skipped \subseteq job.selected
             /\ job.stable \subseteq mapped
             /\ job.left \in Nat /\ job.bytes \in Nat /\ job.count \in Nat
             /\ Candidates(job.found) /\ Candidates(job.old) /\ Chunks(job.chunks)
  <2>1. job \in JobType /\ job.stable \subseteq mapped
    BY <1>1, <1>4 DEF Typed
  <2>2. /\ job.req \in ValidRequests /\ job.kind \in Kinds
        /\ job.left \in Nat /\ job.bytes \in Nat /\ job.count \in Nat
        /\ job.found \in CandidateSet /\ job.old \in CandidateSet /\ job.chunks \in Seq(Chunk)
    BY <2>1 DEF JobType
  <2>3. job.regions \cup job.skipped \subseteq job.selected
    BY <1>1, <1>4 DEF Placed
  <2> QED
    BY <1>2, <1>3, <2>1, <2>2, <2>3 DEF ValidRequests, Kinds
<1>5. /\ memory \in [Address -> Byte] /\ mapped \subseteq Address /\ pokes \in 0..MaxPokes
      /\ job.phase \in {"idle", "running", "done", "failed", "cancelled"}
      /\ result.kind \in {"none", "candidates", "snapshot"}
      /\ Candidates(result.values) /\ Chunks(result.chunks)
  BY <1>1, <1>2, <1>3 DEF Typed
<1> QED
  BY <1>4, <1>5 DEF TypeOK, Live

\* What a step of the target leaves of what a job may rely on.
LEMMA TargetFacts ==
    ASSUME Typed, TargetStep
    PROVE  /\ mapped' \subseteq mapped /\ result' = result
           /\ job'.phase = job.phase
           /\ Live => /\ job'.kind = job.kind /\ job'.req = job.req
                      /\ job'.selected = job.selected /\ job'.old = job.old
                      /\ job'.before = job.before /\ job'.end = job.end
                      /\ SamePlace(job, job') /\ SameFound(job, job')
                      /\ SameChunks(job, job') /\ SameTodo(job, job')
                      /\ job'.stable \subseteq job.stable
                      /\ \A x \in job'.stable : memory'[x] = memory[x]
<1>1. memory \in [Address -> Byte]
  BY DEF Typed
<1>2. PICK addresses :
        /\ Touch(addresses) /\ result' = result /\ mapped' \subseteq mapped
        /\ \A x \in Address \ addresses : memory'[x] = memory[x]
  BY <1>1 DEF TargetStep
<1>3. CASE Live
  <2>1. /\ job' \in JobType /\ job'.phase = job.phase
        /\ job'.kind = job.kind /\ job'.req = job.req /\ job'.selected = job.selected
        /\ job'.old = job.old /\ job'.before = job.before /\ job'.end = job.end
        /\ job'.stable = job.stable \ addresses
        /\ SamePlace(job, job') /\ SameFound(job, job')
        /\ SameChunks(job, job') /\ SameTodo(job, job')
    BY <1>2, <1>3, TouchFacts
  <2>2. job.stable \subseteq Address
    BY <1>3 DEF Typed, JobType
  <2> QED
    BY <1>2, <2>1, <2>2
<1>4. CASE ~Live
  <2>1. job' = job
    BY <1>2, <1>4 DEF Touch, Live
  <2> QED
    BY <1>2, <1>4, <2>1
<1> QED
  BY <1>3, <1>4

\* Bytes no one touched.
LEMMA SameBytes ==
    ASSUME NEW a \in Nat, NEW n \in Nat, NEW S, Footprint(a, n) \subseteq S,
           \A x \in S : memory'[x] = memory[x]
    PROVE  BytesAt(a, n)' = BytesAt(a, n)
<1>1. \A i \in 1..n : a + i - 1 \in Footprint(a, n)
  BY DEF Footprint
<1>2. \A i \in 1..n : memory'[a + i - 1] = memory[a + i - 1]
  BY <1>1
<1> QED
  BY <1>2 DEF BytesAt

\* Types of a job, its regions, and items in them.
LEMMA JobParts ==
    ASSUME Typed, Live
    PROVE  /\ job.req \in ValidRequests /\ Size \in Nat \ {0}
           /\ job.req.type # "aob" => Size = ValueSize
           /\ job.selected \subseteq Region /\ job.found \in CandidateSet
           /\ DOMAIN job.found \subseteq Address /\ DOMAIN job.found \subseteq Nat
           /\ job.count \in Nat /\ job.offset \in Nat /\ job.next \in Nat \ {0}
           /\ job.todo \in SUBSET Address /\ job.old \in CandidateSet
           /\ job.chunks \in Seq(Chunk) /\ result.chunks \in Seq(Chunk)
           /\ job.stable \subseteq mapped /\ mapped \subseteq Address /\ Address \subseteq Nat
           /\ memory \in [Address -> Byte]
<1>1. job \in JobType /\ Address \subseteq Nat
  BY EngineAssumption DEF Typed
<1>2. job.req \in ValidRequests /\ job.found \in CandidateSet
  BY <1>1 DEF JobType
<1>3. DOMAIN job.found \subseteq Address
  BY <1>2, CandidateFacts
<1> QED
  BY <1>1, <1>2, <1>3, ItemSizes DEF Typed, JobType, Size

\* The addresses of a region.
LEMMA SpanOf ==
    ASSUME NEW r \in Region
    PROVE  /\ r.base \in Nat /\ r.size \in Nat \ {0} /\ r # NoRegion
           /\ \A x : x \in Span(r) <=> x \in Nat /\ r.base <= x /\ x < r.base + r.size
<1>1. r.base \in Nat /\ r.size \in Nat \ {0}
  BY DEF Region
<1>2. r # NoRegion
  BY <1>1 DEF NoRegion
<1> QED
  BY <1>1, <1>2 DEF Span

\* An item lies in a region if its two ends do.
LEMMA FootprintIn ==
    ASSUME NEW r \in Region, NEW a \in Nat, NEW n \in Nat \ {0}
    PROVE  Footprint(a, n) \subseteq Span(r) <=> r.base <= a /\ a + n <= r.base + r.size
<1>1. r.base \in Nat /\ r.size \in Nat \ {0}
  BY SpanOf
<1>2. \A x : x \in Span(r) <=> x \in Nat /\ r.base <= x /\ x < r.base + r.size
  BY SpanOf
<1>3. \A x : x \in Footprint(a, n) <=> x \in Nat /\ a <= x /\ x < a + n
  BY DEF Footprint
<1>4. ASSUME Footprint(a, n) \subseteq Span(r)
      PROVE  r.base <= a /\ a + n <= r.base + r.size
  <2>1. a \in Footprint(a, n) /\ a + n - 1 \in Footprint(a, n)
    BY <1>3
  <2>2. a \in Span(r) /\ a + n - 1 \in Span(r)
    BY <1>4, <2>1
  <2>3. r.base <= a /\ a + n - 1 < r.base + r.size
    BY <1>2, <2>2
  <2> QED
    BY <1>1, <2>3
<1>5. ASSUME r.base <= a, a + n <= r.base + r.size
      PROVE  Footprint(a, n) \subseteq Span(r)
  <2>1. ASSUME NEW x \in Nat, a <= x, x < a + n
        PROVE  r.base <= x /\ x < r.base + r.size
    BY <1>1, <1>5, <2>1
  <2> QED
    BY <1>2, <1>3, <2>1
<1> QED
  BY <1>4, <1>5

\* Items of regions that do not meet have different addresses.
LEMMA RegionOfItem ==
    ASSUME NEW R \in SUBSET Region, Apart(R), NEW r \in R, NEW s \in R,
           NEW a \in Nat, NEW n \in Nat \ {0},
           Footprint(a, n) \subseteq Span(r), Footprint(a, n) \subseteq Span(s)
    PROVE  r = s
<1>1. a \in Footprint(a, n)
  BY DEF Footprint
<1> QED
  BY <1>1 DEF Apart

\* No scan runs at first.
LEMMA InitScanned == Init => Scanned
  BY DEF Init, Over, Scanned, Live

\* The step that starts a region leaves what has been passed as it is.
LEMMA TakenAfterTake ==
    ASSUME Shape, TakeRegion
    PROVE  \E r \in job.regions :
              /\ Taken' = Taken \cup {r} /\ r \notin Taken /\ r \in Region
              /\ \A s \in Taken : \A a : Passed(s, a) /\ Passed(s, a)'
              /\ \A a \in Nat, n \in Nat \ {0} :
                    Footprint(a, n) \subseteq Span(r) => ~Passed(r, a)'
<1>1. Typed /\ Placed
  BY DEF Shape
<1>2. PICK r \in job.regions :
        /\ job.phase = "running" /\ job.region = NoRegion /\ job.offset = 0
        /\ r \in Region /\ r # NoRegion
        /\ Steady(job, job')
        /\ job'.regions = job.regions \ {r} /\ job'.region = r
        /\ job'.offset = 0 /\ job'.skipped = job.skipped
  BY <1>1, TakeFacts
<1>3. /\ job.regions \cup job.skipped \subseteq job.selected
      /\ job.regions \cap job.skipped = {} /\ job.selected \subseteq Region
  BY <1>1, <1>2 DEF Placed, Live, Typed, JobType
<1>4. Taken' = Taken \cup {r} /\ r \notin Taken
  BY <1>2, <1>3 DEF Taken, Steady
<1>5. \A s \in Taken : s \in Region /\ s # NoRegion /\ s # r
  BY <1>3, <1>4, SpanOf DEF Taken
<1>6. \A s \in Taken : \A a : Passed(s, a) /\ Passed(s, a)'
  BY <1>2, <1>5 DEF Passed
<1>7. ASSUME NEW a \in Nat, NEW n \in Nat \ {0}, Footprint(a, n) \subseteq Span(r)
      PROVE  ~Passed(r, a)'
  <2>1. r.base <= a /\ r.base \in Nat
    BY <1>2, <1>7, FootprintIn, SpanOf
  <2> QED
    BY <1>2, <2>1 DEF Passed
<1> QED
  BY <1>2, <1>4, <1>6, <1>7

\* What a chunk adds to what has been passed: the items that begin in its first part.
LEMMA PassedAfterChunk ==
    ASSUME Shape, Live, job.region # NoRegion, job.region \in Taken,
           job'.regions = job.regions, job'.skipped = job.skipped,
           job'.selected = job.selected,
           \/ /\ job.offset + ChunkPrimary < job.region.size
              /\ job'.region = job.region /\ job'.offset = job.offset + ChunkPrimary
           \/ /\ ChunkBase + ChunkPrimary = job.region.base + job.region.size
              /\ job'.region = NoRegion /\ job'.offset = 0
    PROVE  /\ Taken' = Taken
           /\ \A s \in Taken : s # job.region =>
                 \A a : Passed(s, a) /\ Passed(s, a)'
           /\ \A r \in Taken : r = job.region =>
                 \A a \in Nat, n \in Nat \ {0} : Footprint(a, n) \subseteq Span(r) =>
                    /\ Passed(r, a) <=> a < ChunkBase
                    /\ Passed(r, a)' <=> a < ChunkBase + ChunkPrimary
<1> DEFINE end == job.region.base + job.region.size
<1>1. Typed /\ Placed
  BY DEF Shape
<1>2. Taken' = Taken
  BY DEF Taken
<1>3. \A s \in Taken : s \in Region /\ s # NoRegion
  <2>1. job.selected \subseteq Region
    BY <1>1, JobParts
  <2> QED
    BY <2>1, SpanOf DEF Taken
<1>4. ASSUME NEW s \in Taken, s # job.region
      PROVE  \A a : Passed(s, a) /\ Passed(s, a)'
  BY <1>3, <1>4 DEF Passed
<1>5. /\ ChunkBase = job.region.base + job.offset /\ ChunkBase \in Nat
      /\ ChunkPrimary \in Nat \ {0} /\ job.region \in Region
      /\ job.region.base \in Nat /\ job.offset \in Nat /\ job.region.size \in Nat
  BY <1>1, ChunkFacts, JobParts
<1>6. ASSUME NEW r \in Taken, r = job.region,
             NEW a \in Nat, NEW n \in Nat \ {0}, Footprint(a, n) \subseteq Span(r)
      PROVE  /\ Passed(r, a) <=> a < ChunkBase
             /\ Passed(r, a)' <=> a < ChunkBase + ChunkPrimary
  <2>1. Passed(r, a) <=> a < ChunkBase
    BY <1>5, <1>6 DEF Passed
  <2>2. a + n <= end
    BY <1>5, <1>6, FootprintIn
  <2>3. CASE job'.region = job.region /\ job'.offset = job.offset + ChunkPrimary
    <3>1. job'.region.base + job'.offset = ChunkBase + ChunkPrimary
      BY <1>5, <2>3
    <3>2. Passed(r, a)' <=> (r = job'.region => a < job'.region.base + job'.offset)
      BY DEF Passed
    <3> QED
      BY <1>6, <2>1, <2>3, <3>1, <3>2
  <2>4. CASE job'.region = NoRegion /\ ChunkBase + ChunkPrimary = end
    <3>1. a < ChunkBase + ChunkPrimary
      <4> HIDE DEF end
      <4> QED
        BY <1>5, <2>2, <2>4
    <3>2. Passed(r, a)'
      BY <1>3, <2>4 DEF Passed
    <3> QED
      BY <2>1, <3>1, <3>2
  <2> QED
    BY <2>3, <2>4
<1> QED
  BY <1>2, <1>4, <1>6

\* A chunk finds no address a second time.
LEMMA HitsNew ==
    ASSUME Shape, Scanned, ScanChunk
    PROVE  Hits \cap DOMAIN job.found = {}
<1>1. Typed /\ Placed
  BY DEF Shape
<1>2. Live /\ job.kind = "scan" /\ job.region # NoRegion
  BY <1>1, ScanFacts DEF Live
<1>3. job.region \in Taken /\ Apart(job.selected)
  BY <1>1, <1>2 DEF Placed
<1>4. /\ job.selected \in SUBSET Region /\ Size \in Nat \ {0} /\ job.offset \in Nat
  BY <1>1, <1>2, JobParts
<1> SUFFICES ASSUME NEW a \in Hits, a \in DOMAIN job.found
             PROVE  FALSE
  OBVIOUS
<1>5. /\ a \in Nat /\ ChunkBase <= a /\ a + Size <= job.region.base + job.region.size
  BY <1>1, ScanFacts DEF Size
<1>6. PICK r \in Taken : Footprint(a, Size) \subseteq Span(r) /\ Passed(r, a)
  BY <1>2 DEF Scanned
<1>7. /\ ChunkBase = job.region.base + job.offset /\ ChunkBase \in Nat
      /\ job.region \in Region /\ job.region.base \in Nat
  BY <1>1, <1>2, ChunkFacts
<1>8. Footprint(a, Size) \subseteq Span(job.region)
  <2>1. job.region.base <= a
    BY <1>4, <1>5, <1>7
  <2> QED
    BY <1>4, <1>5, <1>7, <2>1, FootprintIn
<1>9. r = job.region
  <2>1. r \in job.selected /\ job.region \in job.selected
    BY <1>3, <1>6 DEF Taken
  <2> QED
    BY <1>3, <1>4, <1>5, <1>6, <1>8, <2>1, RegionOfItem
<1>10. a < ChunkBase
  BY <1>6, <1>7, <1>9 DEF Passed
<1> QED
  BY <1>5, <1>7, <1>10

\* A scan has found what it has passed: induction over its steps.
LEMMA ScannedNext ==
    ASSUME Shape, Scanned, [Next]_vars
    PROVE  Scanned'
<1>0. Typed /\ Placed
  BY DEF Shape
<1>1. CASE UNCHANGED vars
  <2>1. memory' = memory /\ mapped' = mapped /\ job' = job
    BY <1>1 DEF vars
  <2>2. Live' = Live /\ Taken' = Taken /\ Size' = Size
    BY <2>1 DEF Live, Taken, Size
  <2>3. \A a : Untouched(a)' = Untouched(a) /\ BytesAt(a, Size)' = BytesAt(a, Size)
    BY <2>1, <2>2 DEF Untouched, BytesAt
  <2>4. \A r, a : Passed(r, a)' = Passed(r, a)
    BY <2>1 DEF Passed
  <2> QED
    BY <2>1, <2>2, <2>3, <2>4 DEF Scanned
<1>2. CASE TargetStep /\ pokes' \in 0..MaxPokes
  <2> SUFFICES ASSUME Live, job.kind = "scan"
               PROVE  Scanned'
    BY <1>0, <1>2, TargetFacts DEF Scanned, Live
  <2>1. /\ mapped' \subseteq mapped
        /\ job'.phase = job.phase /\ job'.kind = job.kind /\ job'.req = job.req
        /\ job'.selected = job.selected
        /\ SamePlace(job, job') /\ SameFound(job, job')
        /\ job'.stable \subseteq job.stable
        /\ \A x \in job'.stable : memory'[x] = memory[x]
    BY <1>0, <1>2, TargetFacts
  <2>2. Size' = Size /\ Taken' = Taken /\ job'.found = job.found
    BY <2>1 DEF Size, Taken, SamePlace, SameFound
  <2>3. \A r, a : Passed(r, a)' <=> Passed(r, a)
    BY <2>1 DEF Passed, SamePlace
  <2>4. Size \in Nat /\ DOMAIN job.found \subseteq Nat /\ Address \subseteq Nat
    BY <1>0, JobParts
  <2>5. \A a \in Nat : Untouched(a)' => Untouched(a) /\ BytesAt(a, Size)' = BytesAt(a, Size)
    <3> TAKE a \in Nat
    <3> HAVE Untouched(a)'
    <3>1. Footprint(a, Size) \subseteq job'.stable
      BY <2>2 DEF Untouched
    <3>2. Untouched(a)
      BY <2>1, <3>1 DEF Untouched
    <3>3. BytesAt(a, Size)' = BytesAt(a, Size)
      <4> DEFINE n == Size
                 S == job'.stable
      <4>1. n \in Nat /\ Footprint(a, n) \subseteq S /\ \A x \in S : memory'[x] = memory[x]
        BY <2>1, <2>4, <3>1
      <4>2. \A i \in 1..n : memory'[a + i - 1] = memory[a + i - 1]
        <5> HIDE DEF n, S
        <5> QED
          BY <4>1 DEF Footprint
      <4>3. [i \in 1..n |-> memory'[a + i - 1]] = [i \in 1..n |-> memory[a + i - 1]]
        <5> HIDE DEF n
        <5> QED
          BY <4>2
      <4> QED
        BY <2>2, <4>3 DEF BytesAt
    <3> QED
      BY <3>2, <3>3
  <2>6. ASSUME NEW a \in DOMAIN job'.found
        PROVE  /\ Aligned(a, job'.req)
               /\ FirstMatch(job'.req, job'.found[a])
               /\ Untouched(a)' => job'.found[a] = BytesAt(a, Size)'
               /\ \E r \in Taken' : Footprint(a, Size') \subseteq Span(r) /\ Passed(r, a)'
    <3>1. a \in DOMAIN job.found /\ a \in Nat
      BY <2>2, <2>4, <2>6
    <3>2. /\ Aligned(a, job.req)
          /\ FirstMatch(job.req, job.found[a])
          /\ Untouched(a) => job.found[a] = BytesAt(a, Size)
          /\ \E r \in Taken : Footprint(a, Size) \subseteq Span(r) /\ Passed(r, a)
      BY <3>1 DEF Scanned
    <3> QED
      BY <2>1, <2>2, <2>3, <2>5, <3>1, <3>2
  <2>7. ASSUME NEW r \in Taken', NEW a \in Address,
               Footprint(a, Size') \subseteq Span(r), Passed(r, a)',
               Span(r) \subseteq mapped', Untouched(a)',
               Aligned(a, job'.req), FirstMatch(job'.req, BytesAt(a, Size)')
        PROVE  a \in DOMAIN job'.found
    <3>1. /\ r \in Taken /\ Footprint(a, Size) \subseteq Span(r) /\ Passed(r, a)
          /\ Span(r) \subseteq mapped /\ Aligned(a, job.req)
      BY <2>1, <2>2, <2>3, <2>7
    <3>2. Untouched(a) /\ BytesAt(a, Size)' = BytesAt(a, Size)
      BY <2>4, <2>5, <2>7
    <3>3. FirstMatch(job.req, BytesAt(a, Size))
      BY <2>1, <2>7, <3>2
    <3>4. a \in DOMAIN job.found
      BY <3>1, <3>2, <3>3 DEF Scanned
    <3> QED
      BY <2>2, <3>4
  <2> QED
    BY <2>6, <2>7 DEF Scanned
<1>3. CASE FirstStep \/ RefineStep
  <2> SUFFICES ASSUME Live', job'.kind = "scan"
               PROVE  Scanned'
    BY DEF Scanned
  <2>1. PICK req \in ValidRequests : Begun(job', req)
    BY <1>3, OverFacts DEF FirstStep, RefineStep, Live
  <2>2. DOMAIN job'.found = {} /\ Taken' = {}
    BY <2>1 DEF Begun, Empty, Taken
  <2> QED
    BY <2>2 DEF Scanned
<1>4. CASE StopStep
  BY <1>4, OverFacts DEF StopStep, Scanned, Live
<1>5. CASE FinishStep
  <2>1. /\ job.phase = "running" /\ Steady(job, job')
        /\ SamePlace(job, job') /\ SameFound(job, job')
        /\ UNCHANGED <<memory, mapped>>
    BY <1>5 DEF FinishStep
  <2>2. job'.kind = job.kind /\ job'.found = job.found /\ job'.req = job.req
        /\ Size' = Size /\ Taken' = Taken
    BY <2>1 DEF Size, Taken, Steady, SamePlace, SameFound
  <2>3. /\ \A r, a : Passed(r, a)' <=> Passed(r, a)
        /\ \A a : Untouched(a)' <=> Untouched(a)
        /\ \A a : BytesAt(a, Size)' = BytesAt(a, Size)
    BY <2>1, <2>2 DEF Passed, Untouched, BytesAt, Steady, SamePlace
  <2> QED
    BY <2>1, <2>2, <2>3 DEF Scanned, Live
<1>6. CASE TakeRegion
  <2> SUFFICES ASSUME job.kind = "scan"
               PROVE  Scanned'
    BY <1>0, <1>6, TakeFacts DEF Scanned, Steady
  <2>1. /\ Live /\ Steady(job, job') /\ SameFound(job, job')
        /\ UNCHANGED <<memory, mapped>>
    BY <1>0, <1>6, TakeFacts DEF Live
  <2>2. PICK r \in job.regions :
          /\ Taken' = Taken \cup {r} /\ r \notin Taken
          /\ \A s \in Taken : \A a : Passed(s, a) /\ Passed(s, a)'
          /\ \A a \in Nat, n \in Nat \ {0} :
                Footprint(a, n) \subseteq Span(r) => ~Passed(r, a)'
    BY <1>6, TakenAfterTake
  <2>3. Size' = Size /\ job'.found = job.found /\ job'.req = job.req
        /\ \A a, n : BytesAt(a, n)' = BytesAt(a, n)
    BY <2>1 DEF Size, Steady, SameFound, BytesAt
  <2>4. \A a : Untouched(a)' <=> Untouched(a)
    BY <2>1, <2>3 DEF Untouched, Steady
  <2>5. Size \in Nat \ {0} /\ Address \subseteq Nat
    BY <1>0, <2>1, JobParts
  <2>6. ASSUME NEW a \in DOMAIN job'.found
        PROVE  /\ Aligned(a, job'.req)
               /\ FirstMatch(job'.req, job'.found[a])
               /\ Untouched(a)' => job'.found[a] = BytesAt(a, Size)'
               /\ \E s \in Taken' : Footprint(a, Size') \subseteq Span(s) /\ Passed(s, a)'
    <3>1. /\ Aligned(a, job.req)
          /\ FirstMatch(job.req, job.found[a])
          /\ Untouched(a) => job.found[a] = BytesAt(a, Size)
          /\ \E s \in Taken : Footprint(a, Size) \subseteq Span(s) /\ Passed(s, a)
      BY <2>1, <2>3, <2>6 DEF Scanned
    <3>2. BytesAt(a, Size)' = BytesAt(a, Size)
      BY <2>1, <2>3 DEF BytesAt
    <3> QED
      BY <2>2, <2>3, <2>4, <3>1, <3>2
  <2>7. ASSUME NEW s \in Taken', NEW a \in Address,
               Footprint(a, Size') \subseteq Span(s), Passed(s, a)',
               Span(s) \subseteq mapped', Untouched(a)',
               Aligned(a, job'.req), FirstMatch(job'.req, BytesAt(a, Size)')
        PROVE  a \in DOMAIN job'.found
    <3>1. s # r
      BY <2>2, <2>3, <2>5, <2>7
    <3>2. s \in Taken /\ Passed(s, a)
      BY <2>2, <2>7, <3>1
    <3>3. BytesAt(a, Size)' = BytesAt(a, Size)
      BY <2>1, <2>3 DEF BytesAt
    <3>4. a \in DOMAIN job.found
      BY <2>1, <2>3, <2>4, <2>7, <3>2, <3>3 DEF Scanned
    <3> QED
      BY <2>3, <3>4
  <2> QED
    BY <2>6, <2>7 DEF Scanned
<1>7. CASE SkipRegion \/ CaptureChunk \/ RefineGroup
  <2>1. job'.kind # "scan"
    BY <1>0, <1>7, SkipFacts, CaptureFacts, GroupReadFacts DEF Steady
  <2> QED
    BY <2>1 DEF Scanned
<1>8. CASE RefineChunk
  <2>1. ~Live' \/ job'.kind # "scan"
    BY <1>0, <1>8, RefineChunkFacts, OverFacts DEF Steady, Live
  <2> QED
    BY <2>1 DEF Scanned
<1>9. CASE ScanChunk
  <2> SUFFICES ASSUME job' # Over("failed")
               PROVE  Scanned'
    BY OverFacts DEF Scanned, Live
  <2> DEFINE end == job.region.base + job.region.size
  <2>1. /\ job.phase = "running" /\ job.kind = "scan" /\ job.region # NoRegion
        /\ Hits \in SUBSET Address
        /\ \A a \in Hits :
              /\ a \in Nat /\ ChunkBase <= a /\ a < ChunkBase + ChunkPrimary
              /\ a + Size <= end
              /\ Aligned(a, job.req) /\ FirstMatch(job.req, BytesAt(a, Size))
        /\ \A a \in Nat :
              /\ ChunkBase <= a /\ a < ChunkBase + ChunkPrimary /\ a + Size <= end
              /\ Span(job.region) \subseteq mapped
              /\ Aligned(a, job.req) /\ FirstMatch(job.req, BytesAt(a, Size))
              => a \in Hits
        /\ UNCHANGED <<memory, mapped>>
    BY <1>0, <1>9, ScanFacts DEF Size
  <2>2. /\ Steady(job, job')
        /\ job'.regions = job.regions /\ job'.skipped = job.skipped
        /\ \/ /\ job.offset + ChunkPrimary < job.region.size
              /\ job'.region = job.region /\ job'.offset = job.offset + ChunkPrimary
           \/ /\ ChunkBase + ChunkPrimary = end
              /\ job'.region = NoRegion /\ job'.offset = 0
        /\ DOMAIN job'.found = DOMAIN job.found \cup Hits
        /\ \A a \in DOMAIN job'.found :
              job'.found[a] = IF a \in DOMAIN job.found THEN job.found[a]
                              ELSE BytesAt(a, Size)
    BY <1>0, <1>9, ScanFacts DEF Size
  <2>3. Live /\ job.region \in Taken
    BY <1>0, <2>1 DEF Placed, Live
  <2>4. /\ Taken' = Taken
        /\ \A s \in Taken : s # job.region => \A a : Passed(s, a) /\ Passed(s, a)'
        /\ \A r \in Taken : r = job.region =>
              \A a \in Nat, n \in Nat \ {0} : Footprint(a, n) \subseteq Span(r) =>
                 /\ Passed(r, a) <=> a < ChunkBase
                 /\ Passed(r, a)' <=> a < ChunkBase + ChunkPrimary
    <3>1. job'.selected = job.selected
      BY <2>2 DEF Steady
    <3> QED
      BY <2>1, <2>2, <2>3, <3>1, PassedAfterChunk
  <2>5. Size' = Size /\ job'.req = job.req
        /\ \A a : BytesAt(a, Size)' = BytesAt(a, Size)
    BY <2>1, <2>2 DEF Size, Steady, BytesAt
  <2>6. \A a : Untouched(a)' <=> Untouched(a)
    BY <2>2, <2>5 DEF Untouched, Steady
  <2>7. /\ Size \in Nat \ {0} /\ Address \subseteq Nat /\ job.region \in Region
        /\ ChunkBase \in Nat /\ ChunkPrimary \in Nat
        /\ job.region.base \in Nat /\ job.offset \in Nat
        /\ ChunkBase = job.region.base + job.offset /\ DOMAIN job.found \subseteq Nat
    BY <1>0, <2>1, <2>3, JobParts, ChunkFacts
  <2>8. ASSUME NEW a \in DOMAIN job'.found
        PROVE  /\ Aligned(a, job'.req)
               /\ FirstMatch(job'.req, job'.found[a])
               /\ Untouched(a)' => job'.found[a] = BytesAt(a, Size)'
               /\ \E r \in Taken' : Footprint(a, Size') \subseteq Span(r) /\ Passed(r, a)'
    <3>1. CASE a \in DOMAIN job.found
      <4>1. PICK r \in Taken : Footprint(a, Size) \subseteq Span(r) /\ Passed(r, a)
        BY <2>1, <2>3, <3>1 DEF Scanned
      <4>2. /\ Aligned(a, job.req)
            /\ FirstMatch(job.req, job.found[a])
            /\ Untouched(a) => job.found[a] = BytesAt(a, Size)
        BY <2>1, <2>3, <3>1 DEF Scanned
      <4>3. Passed(r, a)'
        <5>1. CASE r # job.region
          BY <2>4, <5>1
        <5>2. CASE r = job.region
          <6>1. a \in Nat /\ a < ChunkBase
            BY <2>4, <2>7, <3>1, <4>1, <5>2
          <6>2. a < ChunkBase + ChunkPrimary
            BY <2>7, <6>1
          <6> QED
            BY <2>4, <2>7, <4>1, <5>2, <6>1, <6>2
        <5> QED
          BY <5>1, <5>2
      <4>4. job'.found[a] = job.found[a]
        BY <2>2, <3>1
      <4> QED
        BY <2>4, <2>5, <2>6, <4>1, <4>2, <4>3, <4>4
    <3>2. CASE a \notin DOMAIN job.found
      <4>1. a \in Hits /\ job'.found[a] = BytesAt(a, Size)
        BY <2>2, <2>8, <3>2
      <4>2. /\ a \in Nat /\ ChunkBase <= a /\ a < ChunkBase + ChunkPrimary /\ a + Size <= end
            /\ Aligned(a, job.req) /\ FirstMatch(job.req, BytesAt(a, Size))
        BY <2>1, <4>1
      <4>3. Footprint(a, Size) \subseteq Span(job.region)
        <5>1. job.region.base <= a
          BY <2>7, <4>2
        <5> QED
          BY <2>7, <4>2, <5>1, FootprintIn
      <4>4. PICK r \in Taken : r = job.region
        BY <2>3
      <4>5. Passed(r, a)'
        BY <2>4, <2>7, <4>2, <4>3, <4>4
      <4> QED
        BY <2>4, <2>5, <4>1, <4>2, <4>3, <4>4, <4>5
    <3> QED
      BY <3>1, <3>2
  <2>9. ASSUME NEW r \in Taken', NEW a \in Address,
               Footprint(a, Size') \subseteq Span(r), Passed(r, a)',
               Span(r) \subseteq mapped', Untouched(a)',
               Aligned(a, job'.req), FirstMatch(job'.req, BytesAt(a, Size)')
        PROVE  a \in DOMAIN job'.found
    <3>1. /\ r \in Taken /\ a \in Nat /\ Footprint(a, Size) \subseteq Span(r)
          /\ Span(r) \subseteq mapped /\ Untouched(a)
          /\ Aligned(a, job.req) /\ FirstMatch(job.req, BytesAt(a, Size))
      BY <2>1, <2>4, <2>5, <2>6, <2>7, <2>9
    <3>2. CASE Passed(r, a)
      <4>1. a \in DOMAIN job.found
        BY <2>1, <2>3, <3>1, <3>2 DEF Scanned
      <4> QED
        BY <2>2, <4>1
    <3>3. CASE ~Passed(r, a)
      <4>1. r = job.region
        BY <2>4, <3>1, <3>3
      <4>2. ~(a < ChunkBase) /\ a < ChunkBase + ChunkPrimary
        BY <2>4, <2>7, <2>9, <3>1, <3>3, <4>1
      <4>3. a + Size <= end
        BY <2>7, <3>1, <4>1, FootprintIn
      <4>4. a \in Hits
        BY <2>1, <2>7, <3>1, <4>1, <4>2, <4>3
      <4> QED
        BY <2>2, <4>4
    <3> QED
      BY <3>2, <3>3
  <2> QED
    BY <2>8, <2>9 DEF Scanned
<1> QED
  BY <1>0, <1>1, <1>2, <1>3, <1>4, <1>5, <1>6, <1>7, <1>8, <1>9, StepCases

\* The items of a chunk lie in the region it was read from.
LEMMA ChunkItems ==
    ASSUME NEW c \in Chunk, NEW a \in Nat, Inside(a, c)
    PROVE  Footprint(a, ValueSize) \subseteq Extent(c)
<1>1. c.base \in Nat /\ Len(c.raw) \in Nat /\ ValueSize \in Nat \ {0}
  <2>1. c.base \in Address /\ c.raw \in Seq(Byte)
    BY DEF Chunk
  <2>2. \A s \in Seq(Byte) : Len(s) \in Nat
    OBVIOUS
  <2> QED
    BY <2>1, <2>2, EngineAssumption
<1>2. c.base <= a /\ a + ValueSize <= c.base + Len(c.raw)
  BY DEF Inside
<1>3. ASSUME NEW x \in a..(a + ValueSize - 1)
      PROVE  x \in c.base..(c.base + Len(c.raw) - 1)
  <2> DEFINE n == Len(c.raw)
             b == c.base
  <2>1. x \in b..(b + n - 1)
    <3>1. b \in Nat /\ n \in Nat /\ b <= a /\ a + ValueSize <= b + n
      BY <1>1, <1>2
    <3> HIDE DEF n, b
    <3> QED
      BY <1>1, <3>1
  <2> QED
    BY <2>1
<1> QED
  BY <1>3 DEF Footprint, Extent

\* No capture runs at first.
LEMMA InitCaptured == Init => Captured
  BY DEF Init, Over, Captured

\* A capture holds what it has passed: induction over its steps.
LEMMA CapturedNext ==
    ASSUME Shape, Captured, [Next]_vars
    PROVE  Captured'
<1>0. Typed /\ Placed
  BY DEF Shape
<1>1. CASE UNCHANGED vars
  BY <1>1 DEF vars, Captured, Taken, Stored, Passed
<1>2. CASE TargetStep /\ pokes' \in 0..MaxPokes
  <2> SUFFICES ASSUME job.phase = "running", job.kind = "capture"
               PROVE  Captured'
    BY <1>0, <1>2, TargetFacts DEF Captured, Live
  <2>1. /\ mapped' \subseteq mapped
        /\ job'.selected = job.selected
        /\ SamePlace(job, job') /\ SameChunks(job, job')
        /\ job'.stable \subseteq job.stable
        /\ \A x \in job'.stable : memory'[x] = memory[x]
    BY <1>0, <1>2, TargetFacts DEF Live
  <2>2. Taken' = Taken /\ job'.chunks = job.chunks
    BY <2>1 DEF Taken, SamePlace, SameChunks
  <2>3. \A r, a : Passed(r, a)' <=> Passed(r, a)
    BY <2>1 DEF Passed, SamePlace
  <2>4. \A c : Stored(c) => Stored(c)'
    BY <2>1, <2>2, <2>3 DEF Stored
  <2> QED
    BY <2>1, <2>2, <2>3, <2>4 DEF Captured
<1>3. CASE FirstStep \/ RefineStep
  <2> SUFFICES ASSUME Live', job'.kind = "capture"
               PROVE  Captured'
    BY DEF Captured, Live
  <2>1. PICK req \in ValidRequests : Begun(job', req)
    BY <1>3, OverFacts DEF FirstStep, RefineStep, Live
  <2>2. Range(job'.chunks) = {} /\ Len(job'.chunks) = 0 /\ Taken' = {}
    BY <2>1 DEF Begun, Range, Taken
  <2> QED
    BY <2>2 DEF Captured, ChunksApart
<1>4. CASE StopStep \/ FinishStep \/ ScanChunk \/ RefineGroup \/ RefineChunk
  <2>1. job'.phase # "running" \/ job'.kind # "capture"
    BY <1>0, <1>4, OverFacts, ScanFacts, GroupReadFacts, RefineChunkFacts
       DEF StopStep, FinishStep, Steady
  <2> QED
    BY <2>1 DEF Captured
<1>5. CASE TakeRegion
  <2> SUFFICES ASSUME job.kind = "capture"
               PROVE  Captured'
    BY <1>0, <1>5, TakeFacts DEF Captured, Steady
  <2>1. /\ job.phase = "running" /\ Live /\ Steady(job, job') /\ SameChunks(job, job')
        /\ UNCHANGED <<memory, mapped>>
    BY <1>0, <1>5, TakeFacts DEF Live
  <2>2. PICK r \in job.regions :
          /\ Taken' = Taken \cup {r} /\ r \notin Taken
          /\ \A s \in Taken : \A a : Passed(s, a) /\ Passed(s, a)'
          /\ \A a \in Nat, n \in Nat \ {0} :
                Footprint(a, n) \subseteq Span(r) => ~Passed(r, a)'
    BY <1>5, TakenAfterTake
  <2>3. \A c : Stored(c) => Stored(c)'
    BY <2>1, <2>2 DEF Stored, Steady
  <2>4. job'.chunks = job.chunks /\ ValueSize \in Nat \ {0}
    BY <2>1, EngineAssumption DEF SameChunks
  <2>5. ASSUME NEW s \in Taken', NEW a \in Nat,
               Footprint(a, ValueSize) \subseteq Span(s), Passed(s, a)', Span(s) \subseteq mapped'
        PROVE  Has(job.chunks, a)
    <3>1. s \in Taken
      BY <2>2, <2>4, <2>5
    <3> QED
      BY <2>1, <2>2, <2>5, <3>1 DEF Captured
  <2> QED
    BY <2>1, <2>3, <2>4, <2>5 DEF Captured
<1>6. CASE SkipRegion
  <2>1. PICK r \in job.regions :
          /\ job.phase = "running" /\ job.kind = "capture" /\ job.region = NoRegion
          /\ Steady(job, job') /\ SameChunks(job, job')
          /\ job'.regions = job.regions \ {r} /\ job'.skipped = job.skipped \cup {r}
          /\ job'.region = NoRegion /\ job'.offset = job.offset
          /\ UNCHANGED <<memory, mapped>>
    BY <1>0, <1>6, SkipFacts
  <2>2. Taken' = Taken
    BY <2>1 DEF Taken, Steady
  <2>3. \A s, a : Passed(s, a)' <=> Passed(s, a)
    BY <2>1 DEF Passed
  <2>4. \A c : Stored(c) => Stored(c)'
    BY <2>1, <2>2, <2>3 DEF Stored, Steady
  <2>5. job'.chunks = job.chunks
    BY <2>1 DEF SameChunks
  <2> QED
    BY <2>1, <2>2, <2>3, <2>4, <2>5 DEF Captured
<1>7. CASE CaptureChunk
  <2> DEFINE end == job.region.base + job.region.size
             count == ReadInto(ChunkBase, ChunkRead)
  <2>0. PICK new : new = NewChunk
    OBVIOUS
  <2>1. /\ job.phase = "running" /\ job.kind = "capture" /\ job.region # NoRegion
        /\ Steady(job, job')
        /\ job'.regions = job.regions /\ job'.skipped = job.skipped
        /\ \/ /\ job.offset + ChunkPrimary < job.region.size
              /\ job'.region = job.region /\ job'.offset = job.offset + ChunkPrimary
           \/ /\ ChunkBase + ChunkPrimary = end
              /\ job'.region = NoRegion /\ job'.offset = 0
        /\ UNCHANGED <<memory, mapped>>
    BY <1>0, <1>7, CaptureFacts
  <2>2. /\ count > 0 => /\ new \in Chunk /\ new.base = ChunkBase
                        /\ Len(new.raw) = count
                        /\ \A i \in 1..count : new.raw[i] = memory[ChunkBase + i - 1]
        /\ job'.chunks = IF count > 0 THEN Append(job.chunks, new) ELSE job.chunks
    BY <1>0, <1>7, <2>0, CaptureFacts
  <2>3. Live /\ job.region \in Taken /\ Apart(job.selected) /\ job.req.type # "aob"
    BY <1>0, <2>1 DEF Placed, Live
  <2>4. PICK here \in Taken : here = job.region
    BY <2>3
  <2>5. /\ Taken' = Taken
        /\ \A s \in Taken : s # here => \A a : Passed(s, a) /\ Passed(s, a)'
        /\ \A a \in Nat : Footprint(a, ValueSize) \subseteq Span(here) =>
              /\ Passed(here, a) <=> a < ChunkBase
              /\ Passed(here, a)' <=> a < ChunkBase + ChunkPrimary
    <3>1. job'.selected = job.selected /\ ValueSize \in Nat \ {0}
      BY <2>1, EngineAssumption DEF Steady
    <3> QED
      BY <2>1, <2>3, <2>4, <3>1, PassedAfterChunk
  <2>6. /\ here \in Region /\ here.base \in Nat /\ here.size \in Nat \ {0}
        /\ ChunkBase \in Nat /\ ChunkPrimary \in Nat \ {0} /\ ChunkRead \in Nat
        /\ here.base <= ChunkBase /\ ChunkBase + ChunkRead <= end
        /\ ChunkPrimary <= ChunkRead
        /\ ChunkRead < ChunkPrimary + ValueSize
        /\ ChunkBase + ChunkPrimary + ValueSize - 1 <= ChunkBase + ChunkRead
              \/ ChunkBase + ChunkRead = end
        /\ count \in 0..ChunkRead
        /\ count < ChunkRead => ChunkBase + count \notin mapped
    <3>1. ItemSize(job.req) = ValueSize /\ job.offset \in Nat
      BY <1>0, <2>3, JobParts DEF Size
    <3>2. ChunkBase = here.base + job.offset /\ here.base \in Nat
      BY <1>0, <2>1, <2>3, <2>4, ChunkFacts
    <3>3. here.base <= ChunkBase
      BY <3>1, <3>2
    <3> QED
      BY <1>0, <2>1, <2>3, <2>4, <3>1, <3>3, ChunkFacts
  <2>7. end \in Nat /\ end = here.base + here.size /\ ValueSize \in Nat \ {0}
    BY <2>4, <2>6, EngineAssumption
  <2>8. job.chunks \in Seq(Chunk) /\ job.selected \in SUBSET Region /\ Taken \subseteq job.selected
        /\ job.stable \subseteq mapped
    BY <1>0, <2>3, JobParts DEF Taken
  <2> HIDE DEF end, count
  <2>9. ASSUME NEW c \in Chunk, Stored(c)
        PROVE  /\ \A a \in Nat : Inside(a, c) => ~(Inside(a, new) /\ count > 0)
               /\ Stored(c)'
    <3>1. PICK r \in Taken : /\ Extent(c) \subseteq Span(r)
                             /\ \A a \in Nat : Inside(a, c) => Passed(r, a)
      BY <2>9 DEF Stored
    <3>2. ASSUME NEW a \in Nat, Inside(a, c)
          PROVE  ~(Inside(a, new) /\ count > 0) /\ Passed(r, a)'
      <4>1. Footprint(a, ValueSize) \subseteq Span(r) /\ Passed(r, a)
        BY <3>1, <3>2, ChunkItems
      <4>2. CASE r = here
        <5>1. a < ChunkBase
          BY <2>5, <4>1, <4>2
        <5>2. Passed(here, a)'
          BY <2>5, <2>6, <4>1, <4>2, <5>1
        <5>3. Inside(a, new) /\ count > 0 => ChunkBase <= a
          BY <2>2 DEF Inside
        <5> QED
          BY <2>6, <4>2, <5>1, <5>2, <5>3
      <4>3. CASE r # here
        <5>1. Passed(r, a)'
          BY <2>5, <4>3
        <5>2. SUFFICES ASSUME Inside(a, new), count > 0 PROVE FALSE
          BY <5>1
        <5>3. ChunkBase <= a /\ a + ValueSize <= ChunkBase + count
          BY <2>2, <5>2 DEF Inside
        <5>4. here.base <= a /\ a + ValueSize <= here.base + here.size
          BY <2>6, <2>7, <5>3
        <5>5. Footprint(a, ValueSize) \subseteq Span(here)
          BY <2>6, <2>7, <5>4, FootprintIn
        <5>6. r \in job.selected /\ here \in job.selected
          BY <2>8
        <5> QED
          BY <2>3, <2>7, <2>8, <4>1, <4>3, <5>5, <5>6, RegionOfItem
      <4> QED
        BY <4>2, <4>3
    <3>3. \A x \in Extent(c) \cap job'.stable : c.raw[x - c.base + 1] = memory'[x]
      BY <2>1, <2>9 DEF Stored, Steady
    <3>4. Stored(c)'
      BY <2>5, <3>1, <3>2, <3>3 DEF Stored
    <3> QED
      BY <3>2, <3>4
  <2>10. \A c \in Range(job.chunks) : c \in Chunk /\ Stored(c)
    BY <2>1, <2>8 DEF Captured, Range
  <2>11. ASSUME NEW r \in Taken, NEW a \in Nat,
                Footprint(a, ValueSize) \subseteq Span(r), Passed(r, a)', Span(r) \subseteq mapped
         PROVE  Has(job.chunks, a) \/ (count > 0 /\ Inside(a, new))
    <3>1. CASE Passed(r, a)
      BY <2>1, <2>11, <3>1 DEF Captured
    <3>2. CASE ~Passed(r, a)
      <4>1. r = here
        BY <2>5, <3>2
      <4>2. ~(a < ChunkBase) /\ a < ChunkBase + ChunkPrimary
        BY <2>5, <2>11, <3>2, <4>1
      <4>3. a + ValueSize <= end
        BY <2>6, <2>7, <2>11, <4>1, FootprintIn
      <4>4. count = ChunkRead
        <5>1. SUFFICES ASSUME count < ChunkRead PROVE FALSE
          BY <2>6
        <5>2. here.base <= ChunkBase + count /\ ChunkBase + count < here.base + here.size
              /\ ChunkBase + count \in Nat
          BY <2>6, <2>7, <5>1
        <5>3. ChunkBase + count \in Span(here)
          BY <2>6, <5>2, SpanOf
        <5> QED
          BY <2>6, <2>11, <4>1, <5>1, <5>3
      <4>5. ChunkBase <= a /\ a + ValueSize <= ChunkBase + count /\ count > 0
        BY <2>6, <2>7, <4>2, <4>3, <4>4
      <4> QED
        BY <2>2, <4>5 DEF Inside
    <3> QED
      BY <3>1, <3>2
  <2>12. CASE count > 0
    <3>1. job'.chunks = Append(job.chunks, new) /\ new \in Chunk
      BY <2>2, <2>12
    <3>2. /\ Len(job'.chunks) = Len(job.chunks) + 1 /\ Len(job.chunks) \in Nat
          /\ \A i \in 1..Len(job.chunks) : job'.chunks[i] = job.chunks[i]
          /\ job'.chunks[Len(job.chunks) + 1] = new
      BY <2>8, <3>1
    <3>3. Range(job'.chunks) = Range(job.chunks) \cup {new}
      BY <2>8, <3>1 DEF Range
    <3>4. Stored(new)'
      <4>1. Extent(new) = ChunkBase..(ChunkBase + count - 1)
        BY <2>2, <2>12 DEF Extent
      <4>2. \A x \in Extent(new) : x \in Nat /\ here.base <= x /\ x < here.base + here.size
        BY <2>6, <2>7, <4>1
      <4>3. Extent(new) \subseteq Span(here)
        BY <2>6, <4>2, SpanOf
      <4>4. ASSUME NEW a \in Nat, Inside(a, new)
            PROVE  Passed(here, a)'
        <5>1. a + ValueSize <= ChunkBase + count
          BY <2>2, <2>12, <4>4 DEF Inside
        <5>2. a < ChunkBase + ChunkPrimary
          BY <2>6, <2>7, <5>1
        <5>3. Footprint(a, ValueSize) \subseteq Span(here)
          BY <2>2, <2>12, <3>1, <4>3, <4>4, ChunkItems
        <5> QED
          BY <2>5, <5>2, <5>3
      <4>5. ASSUME NEW x \in Extent(new)
            PROVE  new.raw[x - new.base + 1] = memory'[x]
        <5>00. count \in Nat /\ ChunkBase \in Nat
          BY <2>6
        <5>0. x \in Nat /\ count \in Nat /\ ChunkBase <= x /\ x < ChunkBase + count
          BY <4>1, <5>00
        <5>1. /\ x - ChunkBase + 1 \in 1..count
              /\ ChunkBase + ((x - ChunkBase) + 1) - 1 = x
          BY <2>6, <5>0
        <5>2. new.raw[x - ChunkBase + 1] = memory[ChunkBase + ((x - ChunkBase) + 1) - 1]
          BY <2>2, <2>12, <5>1
        <5>3. new.raw[x - ChunkBase + 1] = memory[x]
          BY <5>1, <5>2
        <5> QED
          BY <2>1, <2>2, <2>12, <5>3
      <4> QED
        BY <2>5, <4>3, <4>4, <4>5 DEF Stored
    <3>5. ChunksApart(job'.chunks)
      <4> SUFFICES ASSUME NEW i \in 1..Len(job'.chunks), NEW j \in 1..Len(job'.chunks),
                          NEW a \in Nat,
                          Inside(a, job'.chunks[i]), Inside(a, job'.chunks[j])
                   PROVE  i = j
        BY DEF ChunksApart
      <4>1. \A k \in 1..Len(job.chunks) : ~(Inside(a, job.chunks[k]) /\ Inside(a, new))
        <5>1. \A k \in 1..Len(job.chunks) : job.chunks[k] \in Range(job.chunks)
          BY <2>8 DEF Range
        <5> QED
          BY <2>9, <2>10, <2>12, <5>1
      <4>2. CASE i \in 1..Len(job.chunks) /\ j \in 1..Len(job.chunks)
        BY <2>1, <3>2, <4>2 DEF Captured, ChunksApart
      <4>3. CASE i = Len(job.chunks) + 1 /\ j \in 1..Len(job.chunks)
        BY <3>2, <4>1, <4>3
      <4>4. CASE j = Len(job.chunks) + 1 /\ i \in 1..Len(job.chunks)
        BY <3>2, <4>1, <4>4
      <4>5. \A k \in 1..Len(job'.chunks) : k \in 1..Len(job.chunks) \/ k = Len(job.chunks) + 1
        <5>1. \A n \in Nat : \A k \in 1..(n + 1) : k \in 1..n \/ k = n + 1
          OBVIOUS
        <5> QED
          BY <3>2, <5>1
      <4>6. CASE i = Len(job.chunks) + 1 /\ j = Len(job.chunks) + 1
        BY <4>6
      <4> QED
        BY <4>2, <4>3, <4>4, <4>5, <4>6
    <3>6. \A c \in Range(job'.chunks) : Stored(c)'
      BY <2>9, <2>10, <3>3, <3>4
    <3>7. \A r \in Taken' : \A a \in Nat :
              Footprint(a, ValueSize) \subseteq Span(r) /\ Passed(r, a)' /\ Span(r) \subseteq mapped'
              => Has(job'.chunks, a)
      BY <2>1, <2>5, <2>11, <3>3 DEF Has
    <3> QED
      BY <3>5, <3>6, <3>7 DEF Captured
  <2>13. CASE ~(count > 0)
    <3>1. job'.chunks = job.chunks
      BY <2>2, <2>13
    <3>2. \A c \in Range(job'.chunks) : Stored(c)'
      BY <2>9, <2>10, <3>1
    <3>3. ChunksApart(job'.chunks)
      BY <2>1, <3>1 DEF Captured
    <3>4. \A r \in Taken' : \A a \in Nat :
              Footprint(a, ValueSize) \subseteq Span(r) /\ Passed(r, a)' /\ Span(r) \subseteq mapped'
              => Has(job'.chunks, a)
      BY <2>1, <2>5, <2>11, <2>13, <3>1
    <3> QED
      BY <3>2, <3>3, <3>4 DEF Captured
  <2> QED
    BY <2>12, <2>13
<1> QED
  BY <1>0, <1>1, <1>2, <1>3, <1>4, <1>5, <1>6, <1>7, StepCases

\* One read or one choice of a region: it fails, or the job goes on.
WorkStep == \/ TakeRegion \/ SkipRegion \/ ScanChunk \/ CaptureChunk
            \/ RefineGroup \/ RefineChunk

\* It stays the same job.
LEMMA WorkSteps ==
    ASSUME Shape, WorkStep
    PROVE  /\ job.phase = "running" /\ Live
           /\ UNCHANGED <<memory, mapped, pokes, result>>
           /\ \/ job' = Over("failed") /\ job'.phase = "failed"
              \/ job'.phase = "running" /\ Steady(job, job') /\ job' \in JobType
<1>0. Typed /\ Placed
  BY DEF Shape
<1>1. CASE TakeRegion
  BY <1>0, <1>1, TakeFacts DEF Live
<1>2. CASE SkipRegion
  BY <1>0, <1>2, SkipFacts DEF Live
<1>3. CASE ScanChunk
  BY <1>0, <1>3, ScanFacts, OverFacts DEF Live
<1>4. CASE CaptureChunk
  BY <1>0, <1>4, CaptureFacts DEF Live
<1>5. CASE RefineGroup
  BY <1>0, <1>5, GroupReadFacts DEF Live
<1>6. CASE RefineChunk
  BY <1>0, <1>6, RefineChunkFacts, OverFacts DEF Live
<1> QED
  BY <1>1, <1>2, <1>3, <1>4, <1>5, <1>6 DEF WorkStep

\* A snapshot promises less, never more, when memory is freed.
LEMMA SnapshotStays ==
    ASSUME NEW e, NEW chunks, Snapshot(e, chunks), mapped' \subseteq mapped
    PROVE  Snapshot(e, chunks)'
<1>1. \A c : Held(e, c) => Held(e, c)'
  BY DEF Held
<1>2. /\ Apart(e.regions) /\ ChunksApart(chunks)
      /\ \A c \in Range(chunks) : Held(e, c)'
      /\ \A r \in e.regions : \A a \in Nat :
            Footprint(a, ValueSize) \subseteq Span(r) /\ Span(r) \subseteq mapped'
               => Has(chunks, a)
  BY <1>1 DEF Snapshot
<1> QED
  BY <1>2 DEF Snapshot

\* A snapshot outlives the capture, until its refinement ends.
LEMMA InitKept == Init => Kept
  BY DEF Init, Over, Kept, Done

\* The snapshot of a finished capture is that of its chunks.
LEMMA KeptNext ==
    ASSUME Shape, Captured, Kept, [Next]_vars
    PROVE  Kept'
<1>0. Typed /\ Placed /\ Ended
  BY DEF Shape
<1>1. CASE UNCHANGED vars
  BY <1>1 DEF vars, Kept, Done, Snapshot, Held
<1>2. CASE TargetStep /\ pokes' \in 0..MaxPokes
  <2>1. mapped' \subseteq mapped /\ result' = result /\ job'.phase = job.phase
    BY <1>0, <1>2, TargetFacts
  <2>2. SUFFICES ASSUME Live PROVE Kept'
    BY <2>1 DEF Kept, Done, Live
  <2>3. job'.kind = job.kind /\ job'.before = job.before /\ job'.end = job.end
    BY <1>0, <1>2, <2>2, TargetFacts
  <2>4. PICK e : e = job.end
    OBVIOUS
  <2>5. PICK b : b = job.before
    OBVIOUS
  <2>6. PICK chunks : chunks = result.chunks
    OBVIOUS
  <2>7. Snapshot(e, chunks) => Snapshot(e, chunks)'
    BY <2>1, SnapshotStays
  <2>8. Snapshot(b, chunks) => Snapshot(b, chunks)'
    BY <2>1, SnapshotStays
  <2>9. Done("capture") => Snapshot(e, chunks)
    BY <2>4, <2>6 DEF Kept
  <2>10. job.phase = "running" /\ job.kind = "refine_unknown" => Snapshot(b, chunks)
    BY <2>5, <2>6 DEF Kept
  <2>11. e = job'.end /\ b = job'.before /\ chunks = result'.chunks
    BY <2>1, <2>3, <2>4, <2>5, <2>6
  <2>12. (Done("capture"))' => (Snapshot(e, chunks))'
    BY <2>1, <2>3, <2>7, <2>9 DEF Done
  <2>13. job'.phase = "running" /\ job'.kind = "refine_unknown" => (Snapshot(b, chunks))'
    BY <2>1, <2>3, <2>8, <2>10
  <2> QED
    BY <2>11, <2>12, <2>13 DEF Kept
<1>3. CASE FirstStep
  <2>1. \/ job'.phase = "failed"
        \/ job'.phase = "running" /\ job'.kind \in {"scan", "capture"}
    BY <1>3, OverFacts DEF FirstStep, Begun
  <2> QED
    BY <2>1 DEF Kept, Done
<1>4. CASE RefineStep
  <2>1. CASE job' = Over("failed")
    BY <2>1, OverFacts DEF Kept, Done
  <2>2. CASE job' # Over("failed")
    <3>1. /\ job.phase = "done" /\ UNCHANGED <<memory, mapped, result>>
          /\ job'.phase = "running" /\ job'.before = job.end
          /\ job'.kind = "refine_unknown" => result.kind = "snapshot"
      BY <1>4, <2>2 DEF RefineStep, Begun
    <3>2. result.kind = "snapshot" => job.kind = "capture"
      BY <1>0, <3>1 DEF Ended
    <3>3. SUFFICES ASSUME job'.kind = "refine_unknown"
                   PROVE  Snapshot(job.before, result.chunks)'
      BY <3>1 DEF Kept, Done
    <3>4. PICK e : e = job.end
      OBVIOUS
    <3>5. PICK chunks : chunks = result.chunks
      OBVIOUS
    <3>6. Snapshot(e, chunks)
      BY <3>1, <3>2, <3>3, <3>4, <3>5 DEF Kept, Done
    <3>7. Snapshot(e, chunks)'
      BY <3>1, <3>6, SnapshotStays
    <3>8. e = job'.before /\ chunks = result'.chunks
      BY <3>1, <3>4, <3>5
    <3> QED
      BY <3>7, <3>8
  <2> QED
    BY <2>1, <2>2
<1>5. CASE StopStep
  BY <1>5, OverFacts DEF StopStep, Kept, Done
<1>6. CASE FinishStep
  <2>1. SUFFICES ASSUME job.kind = "capture" PROVE Kept'
    BY <1>6 DEF FinishStep, Steady, Kept, Done
  <2>2. /\ job.phase = "running" /\ Live /\ job.regions = {} /\ job.region = NoRegion
        /\ result'.chunks = job.chunks /\ job'.phase = "done"
        /\ UNCHANGED <<memory, mapped>>
        /\ job'.end = [memory |-> memory, stable |-> job.stable,
                       regions |-> job.selected \ job.skipped]
    BY <1>6, <2>1 DEF FinishStep, Live
  <2>3. /\ job'.end.memory = memory /\ job'.end.stable = job.stable
        /\ job'.end.regions = job.selected \ job.skipped
    BY <2>2
  <2>4. PICK e : e = job'.end
    OBVIOUS
  <2>5. PICK chunks : chunks = job.chunks
    OBVIOUS
  <2>6. e.regions = Taken /\ Taken \subseteq job.selected
    BY <2>2, <2>3, <2>4 DEF Taken
  <2>7. Apart(job.selected) /\ job.selected \subseteq Region
    BY <1>0, <2>2, JobParts DEF Placed
  <2>8. \A r \in Taken : \A a : Passed(r, a)
    BY <2>2, <2>6, <2>7, SpanOf DEF Passed
  <2>9. /\ ChunksApart(chunks) /\ \A c \in Range(chunks) : Stored(c)
        /\ \A r \in Taken : \A a \in Nat :
              Footprint(a, ValueSize) \subseteq Span(r) /\ Passed(r, a) /\ Span(r) \subseteq mapped
              => Has(chunks, a)
    BY <2>1, <2>2, <2>5 DEF Captured
  <2>10. \A c : Stored(c) => Held(e, c)
    BY <2>3, <2>4, <2>6 DEF Stored, Held
  <2>11. Apart(e.regions)
    BY <2>6, <2>7 DEF Apart
  <2>12. Snapshot(e, chunks)
    BY <2>6, <2>8, <2>9, <2>10, <2>11 DEF Snapshot
  <2>13. Snapshot(e, chunks)'
    BY <2>2, <2>12, SnapshotStays
  <2>14. e = job'.end /\ chunks = result'.chunks
    BY <2>2, <2>4, <2>5
  <2> QED
    BY <2>2, <2>13, <2>14 DEF Kept, Done
<1>7. CASE WorkStep
  <2>1. /\ job.phase = "running" /\ UNCHANGED <<mapped, result>>
        /\ \/ job'.phase = "failed"
           \/ job'.phase = "running" /\ job'.kind = job.kind /\ job'.before = job.before
    BY <1>7, WorkSteps DEF Steady
  <2>2. SUFFICES ASSUME job'.phase = "running", job'.kind = "refine_unknown"
                 PROVE  Snapshot(job.before, result.chunks)'
    BY <2>1 DEF Kept, Done
  <2>3. PICK e : e = job.before
    OBVIOUS
  <2>4. PICK chunks : chunks = result.chunks
    OBVIOUS
  <2>5. Snapshot(e, chunks)
    BY <2>1, <2>2, <2>3, <2>4 DEF Kept
  <2>6. Snapshot(e, chunks)'
    BY <2>1, <2>5, SnapshotStays
  <2>7. e = job'.before /\ chunks = result'.chunks
    BY <2>1, <2>2, <2>3, <2>4
  <2> QED
    BY <2>6, <2>7
<1> QED
  BY <1>0, <1>1, <1>2, <1>3, <1>4, <1>5, <1>6, <1>7, StepCases DEF WorkStep

-----------------------------------------------------------------------------
\* Memory goes in whole pages: a hole between two mapped addresses is a page long.
LEMMA InitHoles == Init => Holes
<1> SUFFICES ASSUME Init, NEW b \in mapped, NEW c \in mapped, NEW x \in b..c,
                    x \notin mapped
             PROVE  \E y \in 0..x : /\ x < y + Page
                                    /\ (y..(y + Page - 1)) \cap mapped = {}
  BY DEF Holes
<1>1. mapped = UNION {Span(r) : r \in Regions}
  BY DEF Init
<1>2. PICK r \in Regions : b \in Span(r)
  BY <1>1
<1>3. PICK s \in Regions : c \in Span(s)
  BY <1>1
<1>4. r \in Region /\ s \in Region
  BY EngineAssumption
<1>5. x \notin Span(r) /\ x \notin Span(s)
  BY <1>1
<1>6. /\ r.base \in Nat /\ r.size \in Nat /\ s.base \in Nat /\ s.size \in Nat
      /\ b \in Nat /\ c \in Nat /\ r.base <= b /\ c < s.base + s.size
  BY <1>2, <1>3, <1>4, SpanOf
<1>7. x \in Nat /\ b <= x /\ x <= c
  BY <1>6
<1>8. ~(r.base <= x /\ x < r.base + r.size) /\ ~(s.base <= x /\ x < s.base + s.size)
  BY <1>4, <1>5, <1>7, SpanOf
<1>9. x \in (r.base + r.size)..(s.base - 1)
  <2>1. x >= r.base + r.size
    BY <1>6, <1>7, <1>8
  <2>2. x < s.base
    BY <1>6, <1>7, <1>8
  <2> QED
    BY <1>6, <1>7, <2>1, <2>2
<1>10. \A r1, s1 \in Regions : \A x1 \in (r1.base + r1.size)..(s1.base - 1) :
          x1 \in mapped \/ \E y \in 0..x1 : /\ x1 < y + Page
                                            /\ (y..(y + Page - 1)) \cap mapped = {}
  BY <1>1, PageAssumption
<1> QED
  BY <1>9, <1>10

\* What is freed is a page, and leaves a hole of a page at least.
LEMMA HolesNext ==
    ASSUME Shape, Holes, [Next]_vars
    PROVE  Holes'
<1>0. Typed /\ Page \in Nat \ {0} /\ mapped \in SUBSET Nat
  BY EngineAssumption DEF Shape, Typed
<1>1. CASE UNCHANGED mapped
  BY <1>1 DEF Holes
<1>2. CASE TargetStep
  <2>1. CASE UNCHANGED mapped
    BY <1>1, <2>1
  <2>2. CASE ~UNCHANGED mapped
    <3>1. PICK at \in Address : mapped' = mapped \ {b \in mapped : b \div Page = at \div Page}
      BY <1>2, <2>2 DEF TargetStep
    <3> SUFFICES ASSUME NEW b \in mapped', NEW c \in mapped', NEW x \in b..c,
                        x \notin mapped'
                 PROVE  \E y \in 0..x : /\ x < y + Page
                                        /\ (y..(y + Page - 1)) \cap mapped' = {}
      BY DEF Holes
    <3>2. mapped' \subseteq mapped /\ b \in Nat /\ c \in Nat /\ x \in Nat
      BY <1>0, <3>1
    <3>3. CASE x \notin mapped
      BY <3>2, <3>3 DEF Holes
    <3>4. CASE x \in mapped
      <4>1. x \div Page = at \div Page
        BY <3>1, <3>4
      <4> DEFINE q == x \div Page
                 y == Page * q
      <4>2. q \in Nat /\ y \in Nat /\ y <= x /\ x < y + Page
        BY <1>0, <3>2
      <4>3. \A z \in y..(y + Page - 1) : z \div Page = q
        BY <1>0, <4>2
      <4>4. (y..(y + Page - 1)) \cap mapped' = {}
        BY <3>1, <4>1, <4>3
      <4> QED
        BY <3>2, <4>2, <4>4
    <3> QED
      BY <3>3, <3>4
  <2> QED
    BY <2>1, <2>2
<1>3. UNCHANGED mapped \/ TargetStep
  BY <1>0, StepCases, WorkSteps DEF vars, FirstStep, RefineStep, StopStep, FinishStep, WorkStep
<1> QED
  BY <1>1, <1>2, <1>3

\* A group of candidates that are all still mapped is read to its end: between two
\* neighbours of a group there is no room for a hole of a page.
LEMMA GroupWhole ==
    ASSUME mapped \in SUBSET Address, Holes, NEW todo \in SUBSET Address, todo # {},
           NEW size \in Nat \ {0}, \A a \in todo : Footprint(a, size) \subseteq mapped
    PROVE  LET group == Group(todo, size)
               base == Min(group)
           IN  \A a \in group :
                   a + size - base <= ReadInto(base, Max(group) + size - base)
<1> DEFINE group == Group(todo, size)
           base == Min(group)
           top == Max(group)
           n == top + size - base
           count == ReadInto(base, n)
<1>1. /\ group \subseteq todo /\ top \in group /\ base \in group
      /\ base \in Nat /\ n \in Nat /\ base + n = top + size /\ base = Min(todo)
      /\ \A a \in group : base <= a /\ a <= top
      /\ \A a \in todo : base <= a
  BY GroupFacts
<1>2. /\ count \in 0..n
      /\ count < n => base + count \notin mapped
  BY <1>1, ReadIntoType
<1>3. Address \subseteq Nat /\ Page \in Nat \ {0} /\ GapLimit \in Nat /\ GapLimit <= Page
  BY EngineAssumption, PageAssumption
<1>4. \A a \in todo : a \in Nat
  BY <1>3
<1>5. top \in Nat /\ top \in todo /\ base \in todo
  BY <1>1, <1>4
<1>6. \A b \in todo : b # base /\ b <= top =>
          \E c \in todo : c < b /\ b - c <= GapLimit
  <2>1. top \in Group(todo, size)
    BY <1>1
  <2> QED
    BY <1>1, <2>1 DEF Group
<1> HIDE DEF count, n, top, base, group
<1>7. count = n
  <2> SUFFICES ASSUME count < n PROVE FALSE
    BY <1>1, <1>2
  <2> DEFINE x == base + count
  <2>1. x \in Nat /\ base <= x /\ x < top + size /\ x \notin mapped
    BY <1>1, <1>2
  <2>2. \A a \in todo, z \in Nat : a <= z /\ z < a + size => z \in mapped
    BY <1>4 DEF Footprint
  <2>3. base \in mapped /\ top + size - 1 \in mapped
    BY <1>1, <1>5, <2>2
  <2>4. \A a \in todo : a \in mapped
    BY <1>4, <2>2
  <2>5. x \in base..(top + size - 1)
    BY <1>1, <1>5, <2>1
  <2>6. PICK y \in 0..x : x < y + Page /\ (y..(y + Page - 1)) \cap mapped = {}
    BY <2>1, <2>3, <2>5 DEF Holes
  <2>7. y \in Nat /\ y <= x /\ \A z \in Nat : y <= z /\ z < y + Page => z \notin mapped
    BY <1>3, <2>1, <2>6
  <2>8. top > x
    BY <1>5, <2>1, <2>2
  <2> DEFINE later == {t \in todo : t > x}
  <2>9. later \in SUBSET Nat /\ later # {}
    BY <1>4, <1>5, <2>8
  <2> HIDE DEF x
  <2>10. PICK t \in later : \A s \in later : t <= s
    BY <2>9, LeastNat
  <2>11. t \in todo /\ t > x /\ t \in Nat /\ t <= top
    BY <1>5, <2>8, <2>9, <2>10
  <2>12. t # base
    BY <1>1, <2>1, <2>11
  <2>13. PICK c \in todo : c < t /\ t - c <= GapLimit
    BY <1>6, <2>11, <2>12
  <2>14. c \in Nat /\ c <= x
    <3>1. c \in Nat
      BY <1>4
    <3>2. c > x => t <= c
      BY <2>10
    <3> QED
      BY <2>1, <2>11, <2>13, <3>1, <3>2
  <2>15. c < y
    BY <2>4, <2>6, <2>7, <2>14, <1>3, <2>1
  <2>16. t >= y + Page
    BY <1>3, <2>1, <2>4, <2>7, <2>11
  <2> QED
    BY <1>3, <2>7, <2>11, <2>13, <2>14, <2>15, <2>16
<1>8. \A a \in group : a + size - base <= count
  <2> TAKE a \in group
  <2>1. a \in Nat /\ a <= top
    BY <1>1, <1>4
  <2> QED
    BY <1>1, <1>5, <1>7, <2>1 DEF n
<1> QED
  BY <1>8 DEF count, n, top, base, group

\* A refinement has decided what it has taken off its list.
LEMMA InitRefined == Init => Refined
  BY DEF Init, Over, Refined, Live

\* Refinement of candidates: induction over its groups.
LEMMA RefinedNext ==
    ASSUME Shape, Holes, Refined, [Next]_vars
    PROVE  Refined'
<1>0. Typed /\ Placed
  BY DEF Shape
<1>1. CASE UNCHANGED vars
  BY <1>1 DEF vars, Refined, Live, Untouched, Size, BytesAt
<1>2. CASE TargetStep /\ pokes' \in 0..MaxPokes
  <2>0. job'.phase = job.phase
    BY <1>0, <1>2, TargetFacts
  <2> SUFFICES ASSUME Live, job.kind = "refine"
               PROVE  Refined'
    BY <1>0, <1>2, <2>0, TargetFacts DEF Refined, Live
  <2>1. /\ mapped' \subseteq mapped
        /\ job'.kind = job.kind /\ job'.req = job.req /\ job'.old = job.old
        /\ job'.found = job.found /\ job'.todo = job.todo
        /\ job'.stable \subseteq job.stable
        /\ \A x \in job'.stable : memory'[x] = memory[x]
    BY <1>0, <1>2, TargetFacts DEF SameFound, SameTodo
  <2>2. Size' = Size /\ Size \in Nat /\ job.old \in CandidateSet /\ Address \subseteq Nat
    BY <1>0, <2>1, JobParts DEF Size
  <2>3. \A a \in DOMAIN job.old : a \in Nat
    BY <2>2, CandidateFacts
  <2>4. \A a \in Nat : Untouched(a)' =>
            Untouched(a) /\ BytesAt(a, Size)' = BytesAt(a, Size)
    <3> TAKE a \in Nat
    <3>1. PICK size \in Nat : size = Size
      BY <2>2
    <3>2. Untouched(a)' => Footprint(a, size) \subseteq job'.stable
      BY <2>2, <3>1 DEF Untouched
    <3>3. Footprint(a, size) \subseteq job'.stable => BytesAt(a, size)' = BytesAt(a, size)
      BY <2>1, SameBytes
    <3>4. Footprint(a, size) \subseteq job'.stable => Untouched(a)
      BY <2>1, <3>1 DEF Untouched
    <3>5. BytesAt(a, Size)' = BytesAt(a, size)'
      BY <2>2, <3>1 DEF BytesAt
    <3> QED
      BY <3>1, <3>2, <3>3, <3>4, <3>5
  <2>5. /\ job.todo \subseteq DOMAIN job.old /\ DOMAIN job.found \subseteq DOMAIN job.old
        /\ job.todo \cap DOMAIN job.found = {}
        /\ Numeric(job.req.type, job.old)
        /\ (\A a \in DOMAIN job.old : Footprint(a, Size) \subseteq mapped) =>
              \A a \in DOMAIN job.old \ job.todo :
                  Untouched(a) =>
                      (a \in DOMAIN job.found
                          <=> RefineMatch(job.req, BytesAt(a, Size), job.old[a]))
    BY DEF Refined
  <2>6. Numeric(job'.req.type, job'.old)
    BY <2>1, <2>5 DEF Numeric
  <2>7. ASSUME \A a \in DOMAIN job.old : Footprint(a, Size) \subseteq mapped',
               NEW a \in DOMAIN job.old \ job.todo, Untouched(a)'
        PROVE  a \in DOMAIN job.found
                  <=> RefineMatch(job.req, BytesAt(a, Size)', job.old[a])
    <3>1. Untouched(a) /\ BytesAt(a, Size)' = BytesAt(a, Size)
      BY <2>3, <2>4, <2>7
    <3>2. a \in DOMAIN job.found <=> RefineMatch(job.req, BytesAt(a, Size), job.old[a])
      BY <2>1, <2>5, <2>7, <3>1
    <3> QED
      BY <3>1, <3>2
  <2> QED
    BY <2>1, <2>2, <2>5, <2>6, <2>7 DEF Refined
<1>3. CASE FirstStep
  <2>1. job'.phase = "failed" \/ job'.kind \in {"scan", "capture"}
    BY <1>3, OverFacts DEF FirstStep
  <2> QED
    BY <2>1 DEF Refined, Live
<1>4. CASE RefineStep
  <2>1. CASE job' = Over("failed")
    BY <2>1, OverFacts DEF Refined, Live
  <2>2. CASE job' # Over("failed")
    <3>1. PICK req \in ValidRequests : Begun(job', req) /\ req.type = result.type
      BY <1>4, <2>2 DEF RefineStep
    <3>2. /\ job'.old = result.values /\ job'.todo = DOMAIN result.values
          /\ DOMAIN job'.found = {} /\ job'.req.type = result.type
      BY <3>1 DEF Begun, Empty
    <3>3. Numeric(job'.req.type, job'.old)
      BY <1>0, <3>2 DEF Typed
    <3> QED
      BY <3>2, <3>3 DEF Refined
  <2> QED
    BY <2>1, <2>2
<1>5. CASE StopStep
  BY <1>5, OverFacts DEF StopStep, Refined, Live
<1>6. CASE FinishStep
  <2>1. /\ Live /\ job'.kind = job.kind /\ job'.req = job.req /\ job'.old = job.old
        /\ job'.stable = job.stable /\ job'.found = job.found /\ job'.todo = job.todo
        /\ UNCHANGED <<memory, mapped>>
    BY <1>6 DEF FinishStep, Steady, SameFound, SameTodo, Live
  <2> QED
    BY <2>1 DEF Refined, Untouched, Size, BytesAt
<1>7. CASE TakeRegion \/ SkipRegion \/ ScanChunk \/ CaptureChunk \/ RefineChunk
  <2>1. job'.phase = "failed" \/ job'.kind # "refine"
    BY <1>0, <1>7, TakeFacts, SkipFacts, ScanFacts, CaptureFacts, RefineChunkFacts, OverFacts
       DEF Steady
  <2> QED
    BY <2>1 DEF Refined, Live
<1>8. CASE RefineGroup
  <2> DEFINE size == ItemSize(job.req)
             group == Group(job.todo, size)
  <2>1. /\ job.phase = "running" /\ job.kind = "refine" /\ job.todo # {} /\ Live
        /\ KeptOf \subseteq group /\ group \subseteq job.todo
        /\ \A a \in KeptOf : RefineMatch(job.req, BytesAt(a, size), job.old[a])
        /\ job'.kind = job.kind /\ job'.req = job.req /\ job'.old = job.old
        /\ job'.stable = job.stable
        /\ job'.todo = job.todo \ group
        /\ DOMAIN job'.found = DOMAIN job.found \cup KeptOf
        /\ UNCHANGED <<memory, mapped>>
    BY <1>0, <1>8, GroupReadFacts DEF Steady, Live
  <2>2. /\ job.todo \subseteq DOMAIN job.old /\ DOMAIN job.found \subseteq DOMAIN job.old
        /\ job.todo \cap DOMAIN job.found = {}
        /\ Numeric(job.req.type, job.old)
        /\ (\A a \in DOMAIN job.old : Footprint(a, size) \subseteq mapped) =>
              \A a \in DOMAIN job.old \ job.todo :
                  Untouched(a) =>
                      (a \in DOMAIN job.found
                          <=> RefineMatch(job.req, BytesAt(a, size), job.old[a]))
    BY <2>1 DEF Refined, Size
  <2>3. size \in Nat \ {0} /\ job.todo \in SUBSET Address /\ mapped \in SUBSET Address
    BY <1>0, <2>1, JobParts DEF Size
  <2>4. ASSUME \A a \in DOMAIN job.old : Footprint(a, size) \subseteq mapped, NEW a \in group,
               RefineMatch(job.req, BytesAt(a, size), job.old[a])
        PROVE  a \in KeptOf
    <3>1. \A b \in job.todo : Footprint(b, size) \subseteq mapped
      BY <2>2, <2>4
    <3>2. a + size - Min(group) <= ReadInto(Min(group), Max(group) + size - Min(group))
      BY <2>1, <2>3, <3>1, GroupWhole
    <3> QED
      BY <2>4, <3>2 DEF KeptOf
  <2>6. \A a : Untouched(a)' <=> Untouched(a)
    BY <2>1 DEF Untouched, Size
  <2>7. \A a : BytesAt(a, Size)' = BytesAt(a, size)
    BY <2>1 DEF BytesAt, Size
  <2>8. Numeric(job'.req.type, job'.old)
    BY <2>1, <2>2 DEF Numeric
  <2>9. Size' = size
    BY <2>1 DEF Size
  <2> HIDE DEF size, group
  <2>10. ASSUME \A a \in DOMAIN job.old : Footprint(a, size) \subseteq mapped,
                NEW a \in DOMAIN job.old \ job'.todo, Untouched(a)
         PROVE  a \in DOMAIN job'.found
                   <=> RefineMatch(job.req, BytesAt(a, size), job.old[a])
    <3>1. CASE a \in group
      BY <2>1, <2>2, <2>4, <2>10, <3>1
    <3>2. CASE a \notin group
      BY <2>1, <2>2, <2>10, <3>2
    <3> QED
      BY <3>1, <3>2
  <2> QED
    BY <2>1, <2>2, <2>6, <2>7, <2>8, <2>9, <2>10 DEF Refined
<1> QED
  BY <1>0, <1>1, <1>2, <1>3, <1>4, <1>5, <1>6, <1>7, <1>8, StepCases

\* No refinement runs at first.
LEMMA InitUnknown == Init => UnknownRefined /\ UnknownEnded
  BY DEF Init, Over, UnknownRefined, UnknownEnded, Done

\* A step of the target leaves what is still untouched as it was.
LEMMA TargetUntouched ==
    ASSUME Typed, Live, TargetStep, NEW a \in Nat, Untouched(a)'
    PROVE  Untouched(a) /\ BytesAt(a, Size)' = BytesAt(a, Size)
<1>1. /\ job'.req = job.req /\ job'.stable \subseteq job.stable
      /\ \A x \in job'.stable : memory'[x] = memory[x]
  BY TargetFacts
<1>2. Size' = Size /\ Size \in Nat
  BY <1>1, JobParts DEF Size
<1>3. PICK size \in Nat : size = Size
  BY <1>2
<1>4. Footprint(a, size) \subseteq job'.stable
  BY <1>2, <1>3 DEF Untouched
<1>5. BytesAt(a, size)' = BytesAt(a, size)
  BY <1>1, <1>4, SameBytes
<1>6. Untouched(a)
  BY <1>1, <1>3, <1>4 DEF Untouched
<1>7. BytesAt(a, Size)' = BytesAt(a, size)'
  BY <1>2, <1>3 DEF BytesAt
<1> QED
  BY <1>3, <1>5, <1>6, <1>7

\* Chunks share no item: what a chunk finds was not found before.
LEMMA UnknownHitsNew ==
    ASSUME Shape, Kept, UnknownRefined, RefineChunk
    PROVE  /\ UnknownHits \cap DOMAIN job.found = {}
           /\ \A a \in Nat, i \in 1..Len(result.chunks) :
                 i < job.next /\ Inside(a, result.chunks[i]) =>
                     ~Inside(a, result.chunks[job.next])
<1>1. /\ job.phase = "running" /\ job.kind = "refine_unknown"
      /\ job.next \in 1..Len(result.chunks)
      /\ \A a \in UnknownHits : a \in Nat /\ Inside(a, result.chunks[job.next])
  BY RefineChunkFacts DEF Shape
<1>2. ChunksApart(result.chunks)
  BY <1>1 DEF Kept, Snapshot
<1>3. job.next \in Nat
  BY <1>1
<1>4. \A a \in Nat, i \in 1..Len(result.chunks) :
          i < job.next /\ Inside(a, result.chunks[i]) =>
              ~Inside(a, result.chunks[job.next])
  BY <1>1, <1>2, <1>3 DEF ChunksApart
<1>5. \A a \in DOMAIN job.found : \E i \in 1..Len(result.chunks) :
          i < job.next /\ Inside(a, result.chunks[i])
  BY <1>1 DEF UnknownRefined
<1> QED
  BY <1>1, <1>4, <1>5

\* A refinement of a capture has decided the chunks it has compared.
LEMMA UnknownRefinedNext ==
    ASSUME Shape, Kept, UnknownRefined, [Next]_vars
    PROVE  UnknownRefined'
<1>0. Typed /\ Placed
  BY DEF Shape
<1>1. CASE UNCHANGED vars
  BY <1>1 DEF vars, UnknownRefined, Untouched, Size, BytesAt
<1>2. CASE TargetStep /\ pokes' \in 0..MaxPokes
  <2>0. job'.phase = job.phase /\ result' = result /\ mapped' \subseteq mapped
    BY <1>0, <1>2, TargetFacts
  <2> SUFFICES ASSUME job.phase = "running", Live, job.kind = "refine_unknown"
               PROVE  UnknownRefined'
    BY <1>0, <1>2, <2>0, TargetFacts DEF UnknownRefined, Live
  <2>1. job'.req = job.req /\ job'.found = job.found /\ job'.next = job.next
    BY <1>0, <1>2, TargetFacts DEF SameFound, SameTodo
  <2>2. \A a \in DOMAIN job.found :
            /\ Aligned(a, job.req)
            /\ \E i \in 1..Len(result.chunks) : i < job.next /\ Inside(a, result.chunks[i])
    BY DEF UnknownRefined
  <2>3. ASSUME NEW i \in 1..Len(result.chunks), NEW a \in Nat,
               i < job.next, Inside(a, result.chunks[i]),
               Extent(result.chunks[i]) \subseteq mapped',
               Untouched(a)', Aligned(a, job.req)
        PROVE  a \in DOMAIN job.found
                  <=> RefineMatch(job.req, BytesAt(a, Size)', OldAt(result.chunks[i], a))
    <3>1. Untouched(a) /\ BytesAt(a, Size)' = BytesAt(a, Size)
      BY <1>0, <1>2, <2>3, TargetUntouched
    <3>2. a \in DOMAIN job.found
             <=> RefineMatch(job.req, BytesAt(a, Size), OldAt(result.chunks[i], a))
      BY <2>0, <2>3, <3>1 DEF UnknownRefined
    <3> QED
      BY <3>1, <3>2
  <2> QED
    BY <2>0, <2>1, <2>2, <2>3 DEF UnknownRefined
<1>3. CASE FirstStep \/ StopStep \/ FinishStep
  <2>1. job'.phase # "running" \/ job'.kind # "refine_unknown"
    BY <1>3, OverFacts DEF FirstStep, StopStep, FinishStep
  <2> QED
    BY <2>1 DEF UnknownRefined
<1>4. CASE RefineStep
  <2>1. job'.phase # "running" \/ (DOMAIN job'.found = {} /\ job'.next = 1)
    BY <1>4, OverFacts DEF RefineStep, Begun, Empty
  <2>2. \A i \in 1..Len(result'.chunks) : ~(i < 1)
    OBVIOUS
  <2> QED
    BY <2>1, <2>2 DEF UnknownRefined
<1>5. CASE TakeRegion \/ SkipRegion \/ ScanChunk \/ CaptureChunk \/ RefineGroup
  <2>1. job'.phase = "failed" \/ job'.kind # "refine_unknown"
    BY <1>0, <1>5, TakeFacts, SkipFacts, ScanFacts, CaptureFacts, GroupReadFacts, OverFacts
       DEF Steady
  <2> QED
    BY <2>1 DEF UnknownRefined
<1>6. CASE RefineChunk
  <2> SUFFICES ASSUME job'.phase = "running"
               PROVE  UnknownRefined'
    BY DEF UnknownRefined
  <2>1. /\ job.phase = "running" /\ job.kind = "refine_unknown" /\ Live
        /\ job.next \in 1..Len(result.chunks)
        /\ job'.req = job.req /\ job'.stable = job.stable /\ job'.next = job.next + 1
        /\ DOMAIN job'.found = DOMAIN job.found \cup UnknownHits
        /\ UNCHANGED <<memory, mapped, result>>
    BY <1>0, <1>6, RefineChunkFacts, OverFacts DEF Steady, Live
  <2>2. \A a \in UnknownHits :
           /\ a \in Nat /\ Inside(a, result.chunks[job.next]) /\ Aligned(a, job.req)
           /\ RefineMatch(job.req, BytesAt(a, ValueSize), OldAt(result.chunks[job.next], a))
    BY <1>0, <1>6, RefineChunkFacts
  <2>3. \A a \in Nat :
           /\ Inside(a, result.chunks[job.next]) /\ Extent(result.chunks[job.next]) \subseteq mapped
           /\ Aligned(a, job.req)
           /\ RefineMatch(job.req, BytesAt(a, ValueSize), OldAt(result.chunks[job.next], a))
           => a \in UnknownHits
    BY <1>0, <1>6, RefineChunkFacts
  <2>4. Size = ValueSize /\ DOMAIN job.found \subseteq Nat /\ job.next \in Nat
    <3>1. job.req.type # "aob"
      BY <1>0, <1>6, RefineChunkFacts
    <3> QED
      BY <1>0, <2>1, <3>1, JobParts
  <2>5. /\ UnknownHits \cap DOMAIN job.found = {}
        /\ \A a \in Nat, i \in 1..Len(result.chunks) :
              i < job.next /\ Inside(a, result.chunks[i]) =>
                  ~Inside(a, result.chunks[job.next])
    BY <1>6, UnknownHitsNew
  <2>6. \A a \in DOMAIN job.found :
            /\ Aligned(a, job.req)
            /\ \E i \in 1..Len(result.chunks) : i < job.next /\ Inside(a, result.chunks[i])
    BY <2>1 DEF UnknownRefined
  <2>7. \A a \in DOMAIN job'.found :
            /\ Aligned(a, job.req)
            /\ \E i \in 1..Len(result.chunks) : i < job.next + 1 /\ Inside(a, result.chunks[i])
    <3>1. \A i \in 1..Len(result.chunks) : i < job.next => i < job.next + 1
      BY <2>4
    <3>2. job.next < job.next + 1
      BY <2>4
    <3> QED
      BY <2>1, <2>2, <2>6, <3>1, <3>2
  <2>8. ASSUME NEW i \in 1..Len(result.chunks), NEW a \in Nat,
               i < job.next + 1, Inside(a, result.chunks[i]),
               Extent(result.chunks[i]) \subseteq mapped,
               Untouched(a), Aligned(a, job.req)
        PROVE  a \in DOMAIN job'.found
                  <=> RefineMatch(job.req, BytesAt(a, ValueSize), OldAt(result.chunks[i], a))
    <3>1. i < job.next \/ i = job.next
      BY <2>4, <2>8
    <3>2. CASE i < job.next
      <4>1. a \notin UnknownHits
        BY <2>2, <2>5, <2>8, <3>2
      <4>2. a \in DOMAIN job.found
               <=> RefineMatch(job.req, BytesAt(a, ValueSize), OldAt(result.chunks[i], a))
        BY <2>1, <2>4, <2>8, <3>2 DEF UnknownRefined
      <4> QED
        BY <2>1, <4>1, <4>2
    <3>3. CASE i = job.next
      <4>1. a \notin DOMAIN job.found
        BY <2>5, <2>6, <2>8, <3>3
      <4>2. a \in UnknownHits
               <=> RefineMatch(job.req, BytesAt(a, ValueSize), OldAt(result.chunks[i], a))
        BY <2>2, <2>3, <2>8, <3>3
      <4> QED
        BY <2>1, <4>1, <4>2
    <3> QED
      BY <3>1, <3>2, <3>3
  <2>9. \A a : (Untouched(a)' <=> Untouched(a)) /\ BytesAt(a, Size)' = BytesAt(a, ValueSize)
    BY <2>1, <2>4 DEF Untouched, BytesAt, Size
  <2> QED
    BY <2>1, <2>7, <2>8, <2>9 DEF UnknownRefined
<1> QED
  BY <1>0, <1>1, <1>2, <1>3, <1>4, <1>5, <1>6, StepCases

\* What a chunk holds for untouched memory is what memory held at the end.
LEMMA OldIsWas ==
    ASSUME Typed, Live, job.req.type # "aob", NEW c \in Chunk, Held(job.before, c),
           NEW a \in Nat, Inside(a, c), Footprint(a, Size) \subseteq job.before.stable
    PROVE  OldAt(c, a) = Was(a) /\ OldAt(c, a) \in Item
<1>1. Size = ValueSize /\ ValueSize \in Nat \ {0}
  BY JobParts, EngineAssumption
<1> DEFINE b == c.base
           n == Len(c.raw)
<1>2. b \in Nat /\ n \in Nat /\ c.raw \in Seq(Byte)
  <2>1. c.base \in Address /\ c.raw \in Seq(Byte)
    BY DEF Chunk
  <2>2. \A s \in Seq(Byte) : Len(s) \in Nat
    OBVIOUS
  <2> QED
    BY <2>1, <2>2, EngineAssumption
<1>3. b <= a /\ a + ValueSize <= b + n
  BY DEF Inside
<1>4. \A x \in Extent(c) \cap job.before.stable : c.raw[x - b + 1] = job.before.memory[x]
  BY DEF Held
<1>5. Footprint(a, ValueSize) \subseteq Extent(c)
  BY ChunkItems
<1> HIDE DEF b, n
<1> DEFINE first == a - b + 1
<1>6. /\ first \in 1..(n + 1) /\ first \in Nat \ {0}
      /\ a - b + ValueSize \in Nat /\ a - b + ValueSize <= n
      /\ (a - b + ValueSize) - first + 1 = ValueSize
  BY <1>1, <1>2, <1>3
<1>7. ASSUME NEW i \in 1..ValueSize
      PROVE  /\ first + i - 1 \in 1..n
             /\ c.raw[first + i - 1] = job.before.memory[a + i - 1]
  <2>1. i \in Nat /\ 1 <= i /\ i <= ValueSize
    BY <1>1
  <2>2. first + i - 1 \in 1..n /\ (a + i - 1) - b + 1 = first + i - 1
    BY <1>1, <1>2, <1>3, <2>1
  <2>3. a + i - 1 \in Footprint(a, ValueSize)
    BY <1>1, <2>1 DEF Footprint
  <2>4. c.raw[(a + i - 1) - b + 1] = job.before.memory[a + i - 1]
    BY <1>1, <1>4, <1>5, <2>3
  <2> QED
    BY <2>2, <2>4
<1>8. OldAt(c, a) = [i \in 1..ValueSize |-> c.raw[first + i - 1]]
  <2> DEFINE last == a - b + ValueSize
             s == SubSeq(c.raw, first, last)
  <2>0. last \in Nat /\ last <= n /\ last - first + 1 = ValueSize /\ n = Len(c.raw)
    BY <1>6 DEF n
  <2>1. OldAt(c, a) = s
    BY DEF OldAt, b
  <2> HIDE DEF first, last
  <2>2. /\ s \in Seq(Byte) /\ Len(s) = ValueSize
        /\ \A i \in 1..ValueSize : s[i] = c.raw[first + i - 1]
    <3>1. /\ first \in Nat /\ 1 <= first /\ first <= last + 1 /\ last <= Len(c.raw)
          /\ last \in Nat
      BY <1>1, <1>6, <2>0
    <3>2. Len(s) = last - first + 1
      BY <1>2, <3>1
    <3>3. \A i \in 1..(last - first + 1) : s[i] = c.raw[first + i - 1]
      BY <1>2, <3>1
    <3>4. s \in Seq(Byte)
      BY <1>2, <3>1
    <3> QED
      BY <2>0, <3>2, <3>3, <3>4
  <2> HIDE DEF s
  <2>3. s = [i \in 1..Len(s) |-> s[i]]
    BY <2>2
  <2> QED
    BY <2>1, <2>2, <2>3
<1>9. OldAt(c, a) = [i \in 1..ValueSize |-> job.before.memory[a + i - 1]]
  BY <1>7, <1>8
<1>10. OldAt(c, a) \in Item
  <2>1. n = Len(c.raw)
    BY DEF n
  <2>2. \A k \in 1..n : c.raw[k] \in Byte
    BY <1>2, <2>1
  <2> QED
    BY <1>7, <1>8, <2>2 DEF Item
<1> QED
  BY <1>1, <1>9, <1>10 DEF Was

\* What the chunks say of an address, once all of them have been compared.
LEMMA AllCompared ==
    ASSUME Shape, Kept, UnknownRefined, job.phase = "running", job.kind = "refine_unknown",
           job.next > Len(result.chunks)
    PROVE  /\ \A a \in DOMAIN job.found :
                 Around(a, job.before.regions) # {} /\ Aligned(a, job.req)
           /\ \A a \in Address :
                 /\ Untouched(a) /\ Footprint(a, Size) \subseteq job.before.stable
                 /\ StillMapped(a, job.before.regions) /\ Aligned(a, job.req)
                 => (a \in DOMAIN job.found
                        <=> Expected(job.req, BytesAt(a, Size), Was(a)))
<1>0. Typed /\ Placed /\ Live
  BY DEF Shape, Live
<1>1. job.req.type # "aob"
  BY <1>0 DEF Placed
<1>2. /\ Size = ValueSize /\ ValueSize \in Nat \ {0} /\ job.req \in ValidRequests
      /\ DOMAIN job.found \subseteq Nat /\ result.chunks \in Seq(Chunk)
      /\ job.stable \subseteq Address /\ Address \subseteq Nat /\ job.next \in Nat
      /\ memory \in [Address -> Byte]
  BY <1>0, <1>1, JobParts, EngineAssumption
<1>3. /\ Apart(job.before.regions) /\ job.before.regions \in SUBSET Region
      /\ \A c \in Range(result.chunks) : Held(job.before, c)
      /\ \A r \in job.before.regions : \A a \in Nat :
            Footprint(a, ValueSize) \subseteq Span(r) /\ Span(r) \subseteq mapped
               => Has(result.chunks, a)
  <2>1. Snapshot(job.before, result.chunks)
    BY DEF Kept
  <2>2. job.before \in EndType
    BY <1>0 DEF Typed, JobType
  <2>3. job.before.regions \in SUBSET Region
    BY <2>2 DEF EndType
  <2> QED
    BY <2>1, <2>3 DEF Snapshot
<1>4. \A i \in 1..Len(result.chunks) :
         /\ i < job.next /\ result.chunks[i] \in Chunk
         /\ result.chunks[i] \in Range(result.chunks)
  <2>1. Len(result.chunks) \in Nat
    BY <1>2
  <2>2. \A i \in 1..Len(result.chunks) : i < job.next
    BY <1>2, <2>1
  <2> QED
    BY <1>2, <2>2 DEF Range
<1>5. \A c \in Range(result.chunks) : \E i \in 1..Len(result.chunks) : c = result.chunks[i]
  BY <1>2 DEF Range
<1>6. ASSUME NEW i \in 1..Len(result.chunks), NEW a \in Nat, Inside(a, result.chunks[i])
      PROVE  \E r \in job.before.regions :
                /\ Extent(result.chunks[i]) \subseteq Span(r)
                /\ Footprint(a, ValueSize) \subseteq Span(r)
  <2>1. Footprint(a, ValueSize) \subseteq Extent(result.chunks[i])
    BY <1>4, <1>6, ChunkItems
  <2> QED
    BY <1>3, <1>4, <2>1 DEF Held
<1>7. ASSUME NEW a \in DOMAIN job.found
      PROVE  Around(a, job.before.regions) # {} /\ Aligned(a, job.req)
  <2>1. Aligned(a, job.req) /\ \E i \in 1..Len(result.chunks) : Inside(a, result.chunks[i])
    BY DEF UnknownRefined
  <2> QED
    BY <1>2, <1>6, <2>1 DEF Around
<1>8. ASSUME NEW a \in Address, Untouched(a), Footprint(a, Size) \subseteq job.before.stable,
             StillMapped(a, job.before.regions), Aligned(a, job.req)
      PROVE  a \in DOMAIN job.found <=> Expected(job.req, BytesAt(a, Size), Was(a))
  <2>1. PICK r \in job.before.regions :
            Footprint(a, ValueSize) \subseteq Span(r) /\ Span(r) \subseteq mapped
    BY <1>2, <1>8 DEF StillMapped, Around
  <2>2. a \in Nat
    BY <1>2
  <2>3. PICK i \in 1..Len(result.chunks) : Inside(a, result.chunks[i])
    <3>1. Has(result.chunks, a)
      BY <1>3, <2>1, <2>2
    <3> QED
      BY <1>5, <3>1 DEF Has
  <2>4. PICK c \in Chunk : c = result.chunks[i]
    BY <1>4
  <2>5. Extent(c) \subseteq mapped
    <3>1. PICK s \in job.before.regions :
              Extent(c) \subseteq Span(s) /\ Footprint(a, ValueSize) \subseteq Span(s)
      BY <1>6, <2>2, <2>3, <2>4
    <3>2. s = r
      BY <1>2, <1>3, <2>1, <2>2, <3>1, RegionOfItem
    <3> QED
      BY <2>1, <3>1, <3>2
  <2>6. a \in DOMAIN job.found <=> RefineMatch(job.req, BytesAt(a, Size), OldAt(c, a))
    BY <1>4, <1>8, <2>2, <2>3, <2>4, <2>5 DEF UnknownRefined
  <2>7. OldAt(c, a) = Was(a) /\ OldAt(c, a) \in Item
    <3>1. Held(job.before, c) /\ Inside(a, c)
      BY <1>3, <1>4, <2>3, <2>4
    <3> QED
      BY <1>0, <1>1, <1>8, <2>2, <3>1, OldIsWas
  <2>8. BytesAt(a, Size) \in Item
    <3>1. Footprint(a, ItemSize(job.req)) \subseteq Address
      BY <1>2, <1>8 DEF Untouched, Size
    <3> QED
      BY <1>1, <1>2, <2>2, <3>1, NumericRead DEF Size
  <2>9. RefineMatch(job.req, BytesAt(a, Size), Was(a))
           <=> Expected(job.req, BytesAt(a, Size), Was(a))
    BY <1>2, <2>7, <2>8, ModesMean
  <2> QED
    BY <2>6, <2>7, <2>9
<1> QED
  BY <1>7, <1>8

\* And its result says so from then on.
LEMMA UnknownEndedNext ==
    ASSUME Shape, Kept, UnknownRefined, UnknownEnded, [Next]_vars
    PROVE  UnknownEnded'
<1>0. Typed /\ Placed
  BY DEF Shape
<1>1. CASE UNCHANGED vars
  BY <1>1 DEF vars, UnknownEnded, Done, Untouched, Size, BytesAt, Was, Around, StillMapped
<1>2. CASE TargetStep /\ pokes' \in 0..MaxPokes
  <2>0. job'.phase = job.phase /\ mapped' \subseteq mapped
    BY <1>0, <1>2, TargetFacts
  <2> SUFFICES ASSUME job.phase = "done", Live, job.kind = "refine_unknown"
               PROVE  UnknownEnded'
    BY <1>0, <1>2, <2>0, TargetFacts DEF UnknownEnded, Done, Live
  <2>1. job'.req = job.req /\ job'.found = job.found /\ job'.before = job.before
    BY <1>0, <1>2, TargetFacts DEF SameFound
  <2>2. /\ \A a \in DOMAIN job.found :
              Around(a, job.before.regions) # {} /\ Aligned(a, job.req)
        /\ \A a \in Address :
              /\ Untouched(a) /\ Footprint(a, Size) \subseteq job.before.stable
              /\ StillMapped(a, job.before.regions) /\ Aligned(a, job.req)
              => (a \in DOMAIN job.found
                     <=> Expected(job.req, BytesAt(a, Size), Was(a)))
    BY DEF UnknownEnded, Done
  <2>3. Size' = Size /\ Address \subseteq Nat
    BY <2>1, EngineAssumption DEF Size
  <2>4. PICK b : b = job.before
    OBVIOUS
  <2>5. \A a : /\ Around(a, b.regions)' = Around(a, b.regions)
               /\ StillMapped(a, b.regions)' => StillMapped(a, b.regions)
               /\ Was(a)' = Was(a)
    BY <2>0, <2>1, <2>3 DEF Around, StillMapped, Was
  <2>6. ASSUME NEW a \in Address, Untouched(a)', Footprint(a, Size) \subseteq b.stable,
               StillMapped(a, b.regions)', Aligned(a, job.req)
        PROVE  a \in DOMAIN job.found <=> Expected(job.req, BytesAt(a, Size)', Was(a))
    <3>1. a \in Nat
      BY <2>3
    <3>2. Untouched(a) /\ BytesAt(a, Size)' = BytesAt(a, Size)
      BY <1>0, <1>2, <2>6, <3>1, TargetUntouched
    <3>3. StillMapped(a, job.before.regions)
      BY <2>4, <2>5, <2>6
    <3>4. a \in DOMAIN job.found <=> Expected(job.req, BytesAt(a, Size), Was(a))
      BY <2>2, <2>4, <2>6, <3>2, <3>3
    <3> QED
      BY <3>2, <3>4
  <2>7. \A a \in DOMAIN job'.found : Around(a, b.regions)' # {} /\ Aligned(a, job'.req)
    BY <2>1, <2>2, <2>4, <2>5
  <2>8. \A a \in Address :
            /\ Untouched(a)' /\ Footprint(a, Size') \subseteq b.stable
            /\ StillMapped(a, b.regions)' /\ Aligned(a, job'.req)
            => (a \in DOMAIN job'.found <=> Expected(job'.req, BytesAt(a, Size)', Was(a)'))
    BY <2>1, <2>3, <2>5, <2>6
  <2>9. b = job'.before
    BY <2>1, <2>4
  <2> QED
    BY <2>7, <2>8, <2>9 DEF UnknownEnded
<1>3. CASE FirstStep \/ StopStep \/ RefineStep \/ WorkStep
  <2>1. job'.phase # "done"
    BY <1>3, OverFacts, WorkSteps DEF FirstStep, StopStep, RefineStep, Begun
  <2> QED
    BY <2>1 DEF UnknownEnded, Done
<1>4. CASE FinishStep
  <2> SUFFICES ASSUME job.kind = "refine_unknown"
               PROVE  UnknownEnded'
    BY <1>4 DEF UnknownEnded, Done, FinishStep, Steady
  <2>1. /\ job.phase = "running" /\ job.next > Len(result.chunks)
        /\ job'.req = job.req /\ job'.found = job.found /\ job'.before = job.before
        /\ job'.stable = job.stable /\ UNCHANGED <<memory, mapped>>
    BY <1>4 DEF FinishStep, Steady, SameFound
  <2>2. /\ \A a \in DOMAIN job.found :
                 Around(a, job.before.regions) # {} /\ Aligned(a, job.req)
        /\ \A a \in Address :
              /\ Untouched(a) /\ Footprint(a, Size) \subseteq job.before.stable
              /\ StillMapped(a, job.before.regions) /\ Aligned(a, job.req)
              => (a \in DOMAIN job.found
                     <=> Expected(job.req, BytesAt(a, Size), Was(a)))
    BY <2>1, AllCompared
  <2> QED
    BY <2>1, <2>2 DEF UnknownEnded, Untouched, Size, BytesAt, Was, Around, StillMapped
<1> QED
  BY <1>0, <1>1, <1>2, <1>3, <1>4, StepCases DEF WorkStep

-----------------------------------------------------------------------------
\* The count of candidates.
LEMMA FiniteAddresses ==
    \A S \in SUBSET Address : IsFiniteSet(S) /\ Cardinality(S) \in Nat
<1>1. IsFiniteSet(Address)
  BY EngineAssumption
<1>2. \A S \in SUBSET Address : IsFiniteSet(S)
  BY <1>1, FS_Subset
<1> QED
  BY <1>2, FS_CardinalityType

\* A union of candidates found apart.
LEMMA Grows ==
    ASSUME NEW S \in SUBSET Address, NEW T \in SUBSET Address, S \cap T = {}
    PROVE  Cardinality(S \cup T) = Cardinality(S) + Cardinality(T)
<1>1. IsFiniteSet(S) /\ IsFiniteSet(T) /\ Cardinality(S) \in Nat /\ Cardinality(T) \in Nat
  BY FiniteAddresses
<1>2. Cardinality(S \cup T) = Cardinality(S) + Cardinality(T) - Cardinality(S \cap T)
  BY <1>1, FS_Union
<1>3. Cardinality(S \cap T) = 0
  BY FS_EmptySet
<1> QED
  BY <1>1, <1>2, <1>3

\* The counter is the number of candidates: nothing is found twice.
LEMMA InitCounted == Init => Counted
  BY DEF Init, Over, Counted, Live

\* What is found is new, so the counter grows as the candidates do.
LEMMA CountedNext ==
    ASSUME Shape, Scanned, Kept, Refined, UnknownRefined, Counted, [Next]_vars
    PROVE  Counted'
<1>0. Typed /\ Placed
  BY DEF Shape
<1>1. CASE UNCHANGED vars
  BY <1>1 DEF vars, Counted, Live
<1>2. CASE TargetStep /\ pokes' \in 0..MaxPokes
  BY <1>0, <1>2, TargetFacts DEF Counted, Live, SameFound
<1>3. CASE FirstStep \/ RefineStep
  <2> SUFFICES ASSUME Live'
               PROVE  Counted'
    BY DEF Counted
  <2>1. PICK req \in ValidRequests : Begun(job', req)
    BY <1>3, OverFacts DEF FirstStep, RefineStep, Live
  <2>2. job'.found = Empty /\ job'.count = 0 /\ job'.req = req
    BY <2>1 DEF Begun
  <2>3. DOMAIN job'.found = {} /\ job'.count = 0 /\ job'.req.options.max_candidates \in Nat
    BY <2>2, ItemSizes DEF Empty
  <2>4. Cardinality(DOMAIN job'.found) = 0
    BY <2>3, FS_EmptySet
  <2>5. job'.count <= job'.req.options.max_candidates
    BY <2>3
  <2> QED
    BY <2>3, <2>4, <2>5 DEF Counted
<1>4. CASE StopStep
  BY <1>4, OverFacts DEF StopStep, Counted, Live
<1>5. CASE FinishStep
  <2>1. /\ job.phase = "running" /\ Live /\ job'.req = job.req /\ job'.kind = job.kind
        /\ job'.found = job.found /\ job'.count = job.count
        /\ job.kind = "refine" => job.count <= job.req.options.max_candidates
    BY <1>5 DEF FinishStep, Steady, SameFound, Live
  <2> QED
    BY <2>1 DEF Counted
<1>6. CASE TakeRegion \/ SkipRegion \/ CaptureChunk
  <2>1. /\ job.phase = "running" /\ Live /\ job'.req = job.req /\ job'.kind = job.kind
        /\ job'.phase = "running" /\ job'.found = job.found /\ job'.count = job.count
    BY <1>0, <1>6, TakeFacts, SkipFacts, CaptureFacts DEF Steady, SameFound, Live
  <2> QED
    BY <2>1 DEF Counted
<1>7. CASE ScanChunk
  <2> SUFFICES ASSUME Live'
               PROVE  Counted'
    BY DEF Counted
  <2>1. /\ job.phase = "running" /\ Live /\ job'.req = job.req
        /\ Hits \in SUBSET Address
        /\ job'.count = job.count + Cardinality(Hits)
        /\ job'.count <= job.req.options.max_candidates
        /\ DOMAIN job'.found = DOMAIN job.found \cup Hits
    BY <1>0, <1>7, ScanFacts, OverFacts DEF Steady, Live
  <2>2. DOMAIN job.found \cap Hits = {} /\ DOMAIN job.found \in SUBSET Address
    BY <1>0, <1>7, <2>1, HitsNew, JobParts
  <2>3. Cardinality(DOMAIN job'.found) = Cardinality(DOMAIN job.found) + Cardinality(Hits)
    BY <2>1, <2>2, Grows
  <2> QED
    BY <2>1, <2>3 DEF Counted
<1>8. CASE RefineGroup
  <2>1. /\ job.phase = "running" /\ Live /\ job.kind = "refine" /\ job'.kind = "refine"
        /\ job'.phase = "running"
        /\ KeptOf \subseteq job.todo
        /\ job'.count = job.count + Cardinality(KeptOf)
        /\ DOMAIN job'.found = DOMAIN job.found \cup KeptOf
    BY <1>0, <1>8, GroupReadFacts DEF Steady, Live
  <2>2. /\ DOMAIN job.found \cap KeptOf = {} /\ DOMAIN job.found \in SUBSET Address
        /\ KeptOf \in SUBSET Address
    BY <1>0, <2>1, JobParts DEF Refined
  <2>3. Cardinality(DOMAIN job'.found) = Cardinality(DOMAIN job.found) + Cardinality(KeptOf)
    BY <2>1, <2>2, Grows
  <2> QED
    BY <2>1, <2>3 DEF Counted
<1>9. CASE RefineChunk
  <2> SUFFICES ASSUME Live'
               PROVE  Counted'
    BY DEF Counted
  <2>1. /\ job.phase = "running" /\ Live /\ job'.req = job.req
        /\ UnknownHits \in SUBSET Address
        /\ job'.count = job.count + Cardinality(UnknownHits)
        /\ job'.count <= job.req.options.max_candidates
        /\ DOMAIN job'.found = DOMAIN job.found \cup UnknownHits
    BY <1>0, <1>9, RefineChunkFacts, OverFacts DEF Steady, Live
  <2>2. DOMAIN job.found \cap UnknownHits = {} /\ DOMAIN job.found \in SUBSET Address
    BY <1>0, <1>9, <2>1, UnknownHitsNew, JobParts
  <2>3. Cardinality(DOMAIN job'.found) = Cardinality(DOMAIN job.found) + Cardinality(UnknownHits)
    BY <2>1, <2>2, Grows
  <2> QED
    BY <2>1, <2>3 DEF Counted
<1> QED
  BY <1>0, <1>1, <1>2, <1>3, <1>4, <1>5, <1>6, <1>7, <1>8, <1>9, StepCases

\* Regions apart have only so many bytes, and one more region adds its size.
LEMMA BytesOf ==
    ASSUME NEW R \in SUBSET Region, Apart(R), \A r \in R : Span(r) \subseteq Address,
           NEW S \in SUBSET R
    PROVE  /\ Bytes(S) \in Nat /\ Bytes({}) = 0
           /\ \A r \in R \ S : Bytes(S \cup {r}) = Bytes(S) + r.size
<1>1. ASSUME NEW T \in SUBSET R
      PROVE  IsFiniteSet(Cells(T)) /\ Cardinality(Cells(T)) \in Nat
  <2> DEFINE cells == Cells(T)
             f == [p \in cells |-> p[2]]
  <2>1. \A p \in cells : p[1] \in T /\ p[2] \in Span(p[1]) /\ p = <<p[1], p[2]>>
    BY DEF Cells
  <2>2. \A p \in cells : p[2] \in Address
    BY <2>1
  <2>3. \A p, q \in cells : p[2] = q[2] => p = q
    <3> SUFFICES ASSUME NEW p \in cells, NEW q \in cells, p[2] = q[2]
                 PROVE  p = q
      OBVIOUS
    <3>1. p[1] = q[1]
      BY <2>1 DEF Apart
    <3> QED
      BY <2>1, <3>1
  <2> HIDE DEF cells
  <2>4. f \in Injection(cells, Address)
    BY <2>2, <2>3 DEF Injection, IsInjective
  <2>5. IsFiniteSet(cells)
    BY <2>4, FS_Injection, EngineAssumption
  <2> QED
    BY <2>5, FS_CardinalityType DEF cells
<1>2. Bytes(S) \in Nat
  BY <1>1 DEF Bytes
<1>3. Bytes({}) = 0
  <2>1. Cells({}) = {}
    BY DEF Cells
  <2> QED
    BY <2>1, FS_EmptySet DEF Bytes
<1>4. ASSUME NEW r \in R \ S
      PROVE  Bytes(S \cup {r}) = Bytes(S) + r.size
  <2>1. r \in Region /\ r.base \in Nat /\ r.size \in Nat \ {0}
    BY SpanOf
  <2>2. IsFiniteSet(Span(r)) /\ Cardinality(Span(r)) = r.size
    <3> DEFINE b == r.base
               n == r.size
    <3>1. Span(r) = b..(b + n - 1) /\ b \in Nat /\ n \in Nat \ {0}
      BY <2>1 DEF Span
    <3> HIDE DEF b, n
    <3>2. /\ b \in Int /\ b + n - 1 \in Int /\ ~(b > b + n - 1)
          /\ (b + n - 1) - b + 1 = n
      BY <3>1
    <3>3. IsFiniteSet(b..(b + n - 1)) /\ Cardinality(b..(b + n - 1)) = n
      BY <3>2, FS_Interval
    <3>4. IsFiniteSet(Span(r)) /\ Cardinality(Span(r)) = n
      BY <3>1, <3>3
    <3> QED
      BY <3>4 DEF n
  <2>3. IsFiniteSet({r}) /\ Cardinality({r}) = 1
    BY FS_Singleton
  <2> DEFINE own == {r} \X Span(r)
  <2>4. IsFiniteSet(own) /\ Cardinality(own) = 1 * r.size
    BY <2>2, <2>3, FS_Product
  <2>5. Cells(S \cup {r}) = Cells(S) \cup own
    BY DEF Cells
  <2>6. Cells(S) \cap own = {}
    BY DEF Cells
  <2>7. IsFiniteSet(Cells(S)) /\ Cardinality(Cells(S)) \in Nat
    BY <1>1
  <2> HIDE DEF own
  <2>8. Cardinality(Cells(S) \cup own)
            = Cardinality(Cells(S)) + Cardinality(own) - Cardinality(Cells(S) \cap own)
    BY <2>4, <2>7, FS_Union
  <2>9. Cardinality(Cells(S) \cap own) = 0
    BY <2>6, FS_EmptySet
  <2>10. Cardinality(own) = r.size /\ r.size \in Nat
    BY <2>1, <2>4
  <2>11. Cardinality(Cells(S) \cup own) = Cardinality(Cells(S)) + r.size
    BY <2>7, <2>8, <2>9, <2>10
  <2> QED
    BY <2>5, <2>11 DEF Bytes
<1> QED
  BY <1>2, <1>3, <1>4

\* Of two regions at most one goes first.
LEMMA FirstOnce ==
    ASSUME NEW r \in Region, NEW s \in Region, First(r, s)
    PROVE  ~First(s, r)
<1>1. r.base \in Nat /\ s.base \in Nat /\ Priority(r) \in Nat /\ Priority(s) \in Nat
  BY DEF Region, Priority
<1> QED
  BY <1>1 DEF First, Precedes

\* Budget left and bytes taken are the budget, and what was skipped did not fit.
LEMMA InitPaid == Init => Paid
  BY DEF Init, Over, Paid, Live

\* Taking a region pays for it, and skipping one records that nothing was left.
LEMMA PaidNext ==
    ASSUME Shape, Paid, [Next]_vars
    PROVE  Paid'
<1>0. Typed /\ Placed
  BY DEF Shape
<1>1. CASE UNCHANGED vars
  BY <1>1 DEF vars, Paid, Live, Taken
<1>2. CASE TargetStep /\ pokes' \in 0..MaxPokes
  <2> SUFFICES ASSUME Live, job.kind = "capture"
               PROVE  Paid'
    BY <1>0, <1>2, TargetFacts DEF Paid, Live
  <2>1. /\ job'.req = job.req /\ job'.selected = job.selected /\ job'.regions = job.regions
        /\ job'.left = job.left /\ job'.skipped = job.skipped
    BY <1>0, <1>2, TargetFacts DEF SamePlace
  <2> QED
    BY <2>1 DEF Paid, Taken
<1>3. CASE FirstStep \/ RefineStep
  <2> SUFFICES ASSUME Live'
               PROVE  Paid'
    BY DEF Paid
  <2>1. PICK req \in ValidRequests : Begun(job', req)
    BY <1>3, OverFacts DEF FirstStep, RefineStep, Live
  <2>2. /\ job'.req = req /\ job'.left = req.options.budget /\ job'.skipped = {}
        /\ Taken' = {} /\ req.options.budget \in Nat
    BY <2>1, ItemSizes DEF Begun, Taken
  <2>3. Bytes({}) = 0
    <3>1. Cells({}) = {}
      BY DEF Cells
    <3> QED
      BY <3>1, FS_EmptySet DEF Bytes
  <2>5. job'.left + Bytes(Taken') = job'.req.options.budget
    BY <2>2, <2>3
  <2> QED
    BY <2>2, <2>5 DEF Paid
<1>4. CASE StopStep
  BY <1>4, OverFacts DEF StopStep, Paid, Live
<1>5. CASE FinishStep
  <2>1. /\ Live /\ job'.kind = job.kind /\ job'.req = job.req /\ job'.selected = job.selected
        /\ job'.regions = job.regions /\ job'.left = job.left /\ job'.skipped = job.skipped
    BY <1>5 DEF FinishStep, Steady, SamePlace, Live
  <2> QED
    BY <2>1 DEF Paid, Taken
<1>6. CASE ScanChunk \/ RefineGroup \/ RefineChunk
  <2>1. job'.phase = "failed" \/ job'.kind # "capture"
    BY <1>0, <1>6, ScanFacts, GroupReadFacts, RefineChunkFacts, OverFacts DEF Steady
  <2> QED
    BY <2>1 DEF Paid, Live
<1>7. CASE CaptureChunk
  <2>1. /\ job.phase = "running" /\ Live /\ job'.kind = job.kind /\ job'.req = job.req
        /\ job'.selected = job.selected
        /\ job'.regions = job.regions /\ job'.left = job.left /\ job'.skipped = job.skipped
    BY <1>0, <1>7, CaptureFacts DEF Steady, Live
  <2> QED
    BY <2>1 DEF Paid, Taken
<1>8. ASSUME TakeRegion \/ SkipRegion, Live, job.kind = "capture"
      PROVE  /\ Apart(job.selected) /\ \A r \in job.selected : Span(r) \subseteq Address
             /\ job.selected \in SUBSET Region
             /\ Taken \subseteq job.selected /\ job.regions \subseteq job.selected
             /\ job.skipped \subseteq job.selected
             /\ job.regions \cap (Taken \cup job.skipped) = {}
             /\ job.left \in Nat /\ job.req.options.budget \in Nat /\ Bytes(Taken) \in Nat
             /\ \A r \in job.selected : r.size \in Nat
             /\ job.left + Bytes(Taken) = job.req.options.budget
             /\ \A s \in job.regions : \A t \in Taken \cup job.skipped : First(t, s)
             /\ \A s \in job.skipped :
                   Bytes({r \in Taken : First(r, s)}) + s.size > job.req.options.budget
  <2>1. /\ Apart(job.selected) /\ \A r \in job.selected : Span(r) \subseteq Address
        /\ job.regions \subseteq job.selected /\ job.skipped \subseteq job.selected
        /\ job.regions \cap job.skipped = {}
    BY <1>0, <1>8 DEF Placed
  <2>2. job.selected \in SUBSET Region /\ job.left \in Nat /\ job.req \in ValidRequests
    BY <1>0, <1>8 DEF Typed, JobType
  <2>3. Taken \subseteq job.selected /\ job.regions \cap Taken = {}
    BY DEF Taken
  <2>4. Bytes(Taken) \in Nat
    BY <2>1, <2>2, <2>3, BytesOf
  <2>5. job.req.options.budget \in Nat
    BY <2>2, ItemSizes
  <2>6. \A r \in job.selected : r.size \in Nat
    BY <2>2, SpanOf
  <2> QED
    BY <1>8, <2>1, <2>2, <2>3, <2>4, <2>5, <2>6 DEF Paid
<1>9. CASE TakeRegion
  <2> SUFFICES ASSUME job.kind = "capture"
               PROVE  Paid'
    BY <1>0, <1>9, TakeFacts DEF Paid, Steady
  <2>1. PICK r \in job.regions :
          /\ Live /\ IsNext(r) /\ RegionFits(r)
          /\ job'.req = job.req /\ job'.selected = job.selected
          /\ job'.regions = job.regions \ {r} /\ job'.skipped = job.skipped
          /\ job'.left = job.left - r.size
    BY <1>0, <1>9, TakeFacts DEF Steady, Live
  <2>2. r \in job.selected /\ r \in Region /\ r \notin Taken /\ r \notin job.skipped
    BY <1>8, <1>9, <2>1
  <2>3. Taken' = Taken \cup {r}
    BY <2>1, <2>2 DEF Taken
  <2>4. Bytes(Taken \cup {r}) = Bytes(Taken) + r.size
    BY <1>8, <1>9, <2>1, <2>2, BytesOf
  <2>5. job'.left + Bytes(Taken') = job'.req.options.budget
    BY <1>8, <1>9, <2>1, <2>2, <2>3, <2>4
  <2>6. \A s \in job.regions \ {r} : First(r, s)
    BY <2>1 DEF IsNext, First
  <2>7. \A s \in job'.regions : \A t \in Taken' \cup job'.skipped : First(t, s)
    BY <1>8, <1>9, <2>1, <2>3, <2>6
  <2>8. \A s \in job.skipped : {q \in Taken' : First(q, s)} = {q \in Taken : First(q, s)}
    <3> TAKE s \in job.skipped
    <3>1. First(s, r) /\ s \in Region
      BY <1>8, <1>9, <2>1
    <3>2. ~First(r, s)
      BY <2>2, <3>1, FirstOnce
    <3> QED
      BY <2>3, <3>2
  <2>9. \A s \in job'.skipped :
            Bytes({q \in Taken' : First(q, s)}) + s.size > job'.req.options.budget
    BY <1>8, <1>9, <2>1, <2>8
  <2> QED
    BY <2>5, <2>7, <2>9 DEF Paid
<1>10. CASE SkipRegion
  <2> SUFFICES ASSUME job.kind = "capture"
               PROVE  Paid'
    BY <1>0, <1>10, SkipFacts DEF Paid, Steady
  <2>1. PICK r \in job.regions :
          /\ Live /\ IsNext(r) /\ ~RegionFits(r)
          /\ job'.req = job.req /\ job'.selected = job.selected
          /\ job'.regions = job.regions \ {r} /\ job'.skipped = job.skipped \cup {r}
          /\ job'.left = job.left
    BY <1>0, <1>10, SkipFacts DEF Steady, Live
  <2>2. Taken' = Taken
    BY <2>1 DEF Taken
  <2>3. r.size > job.left
    <3>1. r.size \in Nat /\ job.left \in Nat
      BY <1>8, <1>10, <2>1
    <3> QED
      BY <2>1, <3>1 DEF RegionFits
  <2>4. \A s \in job.regions \ {r} : First(r, s)
    BY <2>1 DEF IsNext, First
  <2>5. \A s \in job'.regions : \A t \in Taken' \cup job'.skipped : First(t, s)
    BY <1>8, <1>10, <2>1, <2>2, <2>4
  <2>6. {q \in Taken : First(q, r)} = Taken
    BY <1>8, <1>10, <2>1
  <2>7. Bytes(Taken) + r.size > job.req.options.budget
    <3>1. /\ r.size \in Nat /\ job.left \in Nat /\ Bytes(Taken) \in Nat
          /\ job.left + Bytes(Taken) = job.req.options.budget
      BY <1>8, <1>10, <2>1
    <3> QED
      BY <2>3, <3>1
  <2>8. \A s \in job'.skipped :
            Bytes({q \in Taken' : First(q, s)}) + s.size > job'.req.options.budget
    <3>1. \A s \in job.skipped :
              Bytes({q \in Taken : First(q, s)}) + s.size > job.req.options.budget
      BY <1>8, <1>10, <2>1
    <3>2. Bytes({q \in Taken : First(q, r)}) + r.size > job.req.options.budget
      BY <2>6, <2>7
    <3>3. \A s \in job.skipped \cup {r} :
              Bytes({q \in Taken : First(q, s)}) + s.size > job.req.options.budget
      BY <3>1, <3>2
    <3> QED
      BY <2>1, <2>2, <3>3
  <2>9. job'.left + Bytes(Taken') = job'.req.options.budget
    BY <1>8, <1>10, <2>1, <2>2
  <2> QED
    BY <2>5, <2>8, <2>9 DEF Paid
<1> QED
  BY <1>0, <1>1, <1>2, <1>3, <1>4, <1>5, <1>6, <1>7, <1>9, <1>10, StepCases

\* The inductive invariant of the engine.
EngineInv ==
    /\ Shape /\ Scanned /\ Captured /\ Kept /\ Holes
    /\ Refined /\ UnknownRefined /\ UnknownEnded /\ Counted /\ Paid

\* It holds at first and every step keeps it.
LEMMA EngineInvariant == Spec => []EngineInv
<1>1. Init => EngineInv
  BY InitShape, InitScanned, InitCaptured, InitKept, InitHoles, InitRefined, InitUnknown,
     InitCounted, InitPaid DEF EngineInv
<1>2. EngineInv /\ [Next]_vars => EngineInv'
  BY ShapeNext, ScannedNext, CapturedNext, KeptNext, HolesNext, RefinedNext,
     UnknownRefinedNext, UnknownEndedNext, CountedNext, PaidNext DEF EngineInv
<1> QED
  BY <1>1, <1>2, PTL DEF Spec

\* Every state of the engine has the types of TypeOK: the locals of the worker stay
\* well typed through start_scan, refine_scan, every read, failure and cancellation.
THEOREM EngineTypes == Spec => []TypeOK
<1>1. EngineInv => TypeOK
  BY ShapeTypes DEF EngineInv
<1> QED
  BY <1>1, EngineInvariant, PTL

\* The counter behind max_candidates equals the number of candidates at every moment,
\* although the chunks that are read overlap, and a job that ends has not exceeded it.
THEOREM CountsOnce == Spec => []CountExact
<1>1. EngineInv => CountExact
  BY DEF EngineInv, Counted, CountExact, Live
<1> QED
  BY <1>1, EngineInvariant, PTL

\* A first scan that ends has found each aligned matching item of each selected region
\* that is still mapped, across all chunk boundaries, and nothing else: _scan_regions
\* against the definition of a match, for every chunk size, item size and alignment.
THEOREM ScanFinds == Spec => []ScanFindsExactly
<1>1. EngineInv => ScanFindsExactly
  <2> SUFFICES ASSUME EngineInv, Done("scan")
               PROVE  ScanFindsExactly
    BY DEF ScanFindsExactly
  <2>1. Typed /\ Placed /\ Ended /\ Live /\ job.phase = "done" /\ job.kind = "scan"
    BY DEF EngineInv, Shape, Done, Live
  <2>2. result.values = job.found /\ job.regions = {} /\ job.region = NoRegion
    BY <2>1 DEF Ended
  <2>3. Taken = job.selected
    BY <2>1, <2>2 DEF Taken, Placed
  <2>4. \A r \in job.selected : \A a : Passed(r, a)
    <3>1. job.selected \subseteq Region
      BY <2>1, JobParts
    <3> QED
      BY <2>2, <3>1, SpanOf DEF Passed
  <2>5. /\ \A a \in DOMAIN job.found :
              /\ Aligned(a, job.req)
              /\ FirstMatch(job.req, job.found[a])
              /\ Untouched(a) => job.found[a] = BytesAt(a, Size)
              /\ \E r \in job.selected : Footprint(a, Size) \subseteq Span(r)
        /\ \A r \in job.selected : \A a \in Address :
              /\ Footprint(a, Size) \subseteq Span(r)
              /\ Span(r) \subseteq mapped /\ Untouched(a)
              /\ Aligned(a, job.req) /\ FirstMatch(job.req, BytesAt(a, Size))
              => a \in DOMAIN job.found
    BY <2>1, <2>3, <2>4 DEF EngineInv, Scanned
  <2>6. ASSUME NEW a \in DOMAIN job.found
        PROVE  /\ Around(a, job.selected) # {} /\ Aligned(a, job.req)
               /\ Untouched(a) => /\ FirstMatch(job.req, BytesAt(a, Size))
                                  /\ job.found[a] = BytesAt(a, Size)
    <3>1. Around(a, job.selected) # {}
      BY <2>5 DEF Around
    <3> QED
      BY <2>5, <3>1
  <2>7. ASSUME NEW a \in Address, Untouched(a), StillMapped(a, job.selected),
               Aligned(a, job.req), FirstMatch(job.req, BytesAt(a, Size))
        PROVE  a \in DOMAIN job.found
    BY <2>5, <2>7 DEF StillMapped, Around
  <2> QED
    BY <2>2, <2>6, <2>7 DEF ScanFindsExactly
<1> QED
  BY <1>1, EngineInvariant, PTL

\* A capture takes no more bytes than its budget and skips a region only if it does not
\* fit beside the regions that go before it, for every budget and any regions.
THEOREM CapturePays == Spec => []CaptureSpendsBudget
<1>1. EngineInv => CaptureSpendsBudget
  <2> SUFFICES ASSUME EngineInv, Done("capture")
               PROVE  CaptureSpendsBudget
    BY DEF CaptureSpendsBudget
  <2>1. Typed /\ Placed /\ Ended /\ Live /\ Paid /\ job.phase = "done" /\ job.kind = "capture"
    BY DEF EngineInv, Shape, Done, Live
  <2>2. Taken = job.selected \ job.skipped
    BY <2>1 DEF Taken, Ended
  <2>3. job.left \in Nat /\ job.selected \in SUBSET Region /\ job.req \in ValidRequests
    BY <2>1 DEF Typed, JobType
  <2>4. Bytes(Taken) \in Nat
    <3>1. Taken \in SUBSET job.selected
      BY DEF Taken
    <3> QED
      BY <2>1, <2>3, <3>1, BytesOf DEF Placed
  <2>5. job.req.options.budget \in Nat
    BY <2>3, ItemSizes
  <2>6. /\ job.left + Bytes(Taken) = job.req.options.budget
        /\ \A s \in job.skipped :
              Bytes({r \in Taken : First(r, s)}) + s.size > job.req.options.budget
    BY <2>1 DEF Paid
  <2>7. Bytes(Taken) <= job.req.options.budget
    BY <2>3, <2>4, <2>5, <2>6
  <2> QED
    BY <2>2, <2>6, <2>7 DEF CaptureSpendsBudget, First
<1> QED
  BY <1>1, EngineInvariant, PTL

\* A refinement decides each untouched candidate by its own old and new value, as the
\* mode means it: reading candidates in groups over gaps loses none of them, because the
\* gap limit is no longer than a page.
THEOREM RefineIsLocal == Spec => []RefineDecides
<1>1. EngineInv => RefineDecides
  <2> SUFFICES ASSUME EngineInv, Done("refine")
               PROVE  RefineDecides
    BY DEF RefineDecides
  <2>1. Typed /\ Placed /\ Ended /\ Live /\ Refined /\ job.phase = "done" /\ job.kind = "refine"
    BY DEF EngineInv, Shape, Done, Live
  <2>2. result.values = job.found /\ job.todo = {}
    BY <2>1 DEF Ended
  <2>3. /\ DOMAIN job.found \subseteq DOMAIN job.old /\ Numeric(job.req.type, job.old)
        /\ (\A a \in DOMAIN job.old : Footprint(a, Size) \subseteq mapped) =>
              \A a \in DOMAIN job.old :
                  Untouched(a) =>
                      (a \in DOMAIN job.found
                          <=> RefineMatch(job.req, BytesAt(a, Size), job.old[a]))
    BY <2>1, <2>2 DEF Refined
  <2>4. /\ job.req \in ValidRequests /\ job.stable \subseteq Address /\ Address \subseteq Nat
        /\ memory \in [Address -> Byte] /\ job.old \in CandidateSet
    BY <2>1, JobParts
  <2>5. ASSUME NEW a \in DOMAIN job.old, Untouched(a)
        PROVE  RefineMatch(job.req, BytesAt(a, Size), job.old[a])
                  <=> Expected(job.req, BytesAt(a, Size), job.old[a])
    <3>1. a \in Nat
      BY <2>4, CandidateFacts
    <3>2. Footprint(a, ItemSize(job.req)) \subseteq Address
      BY <2>4, <2>5 DEF Untouched, Size
    <3>3. job.req.type # "aob" => BytesAt(a, Size) \in Item
      BY <2>4, <3>1, <3>2, NumericRead DEF Size
    <3>4. job.req.type # "aob" => job.old[a] \in Item
      BY <2>3 DEF Numeric
    <3> QED
      BY <2>4, <3>3, <3>4, ModesMean
  <2> QED
    BY <2>2, <2>3, <2>5 DEF RefineDecides
<1> QED
  BY <1>1, EngineInvariant, PTL

\* The first refinement of a capture decides each untouched item of the captured regions
\* by what memory held when the capture ended: chunking loses and invents none.
THEOREM UnknownIsLocal == Spec => []UnknownDecides
<1>1. EngineInv => UnknownDecides
  <2> SUFFICES ASSUME EngineInv, Done("refine_unknown")
               PROVE  UnknownDecides
    BY DEF UnknownDecides
  <2>1. result.values = job.found
    BY DEF EngineInv, Shape, Ended, Done
  <2>2. /\ \A a \in DOMAIN job.found :
              Around(a, job.before.regions) # {} /\ Aligned(a, job.req)
        /\ \A a \in Address :
              /\ Untouched(a) /\ Footprint(a, Size) \subseteq job.before.stable
              /\ StillMapped(a, job.before.regions) /\ Aligned(a, job.req)
              => (a \in DOMAIN job.found
                     <=> Expected(job.req, BytesAt(a, Size), Was(a)))
    BY DEF EngineInv, UnknownEnded
  <2> QED
    BY <2>1, <2>2 DEF UnknownDecides, Was
<1> QED
  BY <1>1, EngineInvariant, PTL
=============================================================================
