--------------------------- MODULE TensorViewProofs ---------------------------
(***************************************************************************)
(* What holds of views, for any storage, any bounds and any chain of       *)
(* operations: no operation reaches an element that its tensor does not    *)
(* have (ViewsStayInside), and view keeps the order of the elements and is *)
(* refused only when no strides could (OrderIsKept).                       *)
(*                                                                         *)
(* An index vector is the digits of a number (Digit), which is where its   *)
(* element stands in row-major order, so that the elements of a tensor are *)
(* the places of its index vectors (AddressesAreElements).  The strided    *)
(* views are one operation: an index of the view corresponds to one of the *)
(* tensor (Derives), which then has to be in range (DerivedWithin).  view  *)
(* is the loop of computeStride: after each turn the dimensions it has     *)
(* left behind count the same elements as those of the new sizes that it   *)
(* has filled, and those of the current chunk count in steps of one number *)
(* (Found, TurnFinds).                                                     *)
(***************************************************************************)
EXTENDS TensorView, SequenceLemmas, SequenceTheorems, FiniteSetTheorems, TLAPS

-----------------------------------------------------------------------------
\* Numbers.  The provers know these facts, but do not find them in a formula
\* that has other products.

LEMMA Quotient ==
    ASSUME NEW q \in Nat, NEW a \in Nat \ {0}
    PROVE  /\ q \div a \in Nat /\ q % a \in Nat /\ q % a < a
           /\ q = a * (q \div a) + (q % a)
  OBVIOUS

LEMMA QuotientIs ==
    ASSUME NEW a \in Nat \ {0}, NEW x \in Nat, NEW r \in Nat, r < a
    PROVE  (a * x + r) \div a = x /\ (a * x + r) % a = r
  OBVIOUS

LEMMA ProductOfNats ==
    ASSUME NEW a \in Nat, NEW b \in Nat
    PROVE  /\ a * b \in Nat /\ a * b = b * a /\ (a # 0 /\ b # 0 => a * b # 0)
           /\ (b # 0 => a <= a * b)
  OBVIOUS

LEMMA Times ==
    ASSUME NEW a \in Int, NEW b \in Int, NEW c \in Int
    PROVE  /\ a * b \in Int /\ a * b = b * a /\ (a * b) * c = a * (b * c)
           /\ a * (b + c) = a * b + a * c /\ (a + b) * c = a * c + b * c
           /\ a * (b - c) = a * b - a * c
  OBVIOUS

LEMMA LessTimes ==
    ASSUME NEW a \in Nat, NEW b \in Nat, NEW x \in Nat, NEW y \in Nat, x < b, y < a
    PROVE  a * x + y < a * b
  OBVIOUS

\* Dividing twice, and by a product.
LEMMA QuotientOfQuotient ==
    ASSUME NEW k \in Nat, NEW a \in Nat \ {0}, NEW b \in Nat \ {0}
    PROVE  (k \div a) \div b = k \div (a * b)
<1>1. PICK q, r : q = k \div a /\ r = k % a
  OBVIOUS
<1>2. q \in Nat /\ r \in Nat /\ r < a /\ k = a * q + r
  BY <1>1, Quotient
<1>3. PICK p, s : p = q \div b /\ s = q % b
  OBVIOUS
<1>4. p \in Nat /\ s \in Nat /\ s < b /\ q = b * p + s
  BY <1>2, <1>3, Quotient
<1>5. a * s + r < a * b /\ a * s + r \in Nat /\ a * b \in Nat \ {0}
  BY <1>2, <1>4, LessTimes, ProductOfNats
<1>6. k = (a * b) * p + (a * s + r)
  <2>1. a * q = a * (b * p) + a * s
    BY <1>2, <1>4, Times
  <2>2. a * (b * p) = (a * b) * p
    BY <1>4, Times
  <2>. QED  BY <1>2, <1>4, <1>5, <2>1, <2>2
<1>7. k \div (a * b) = p
  BY <1>4, <1>5, <1>6, QuotientIs
<1>. QED  BY <1>1, <1>3, <1>7

\* The remainder of a product, by the remainders of its factors.
LEMMA RemainderOfProduct ==
    ASSUME NEW q \in Nat, NEW a \in Nat \ {0}, NEW b \in Nat \ {0}
    PROVE  q % (a * b) = (q % a) + a * ((q \div a) % b)
<1>1. PICK x, r : x = q \div a /\ r = q % a
  OBVIOUS
<1>2. x \in Nat /\ r \in Nat /\ r < a /\ q = a * x + r
  BY <1>1, Quotient
<1>3. PICK y, s : y = x \div b /\ s = x % b
  OBVIOUS
<1>4. y \in Nat /\ s \in Nat /\ s < b /\ x = b * y + s
  BY <1>2, <1>3, Quotient
<1>5. a * s + r < a * b /\ a * s + r \in Nat /\ a * b \in Nat \ {0} /\ a * s \in Nat
  BY <1>2, <1>4, LessTimes, ProductOfNats
<1>6. q = (a * b) * y + (a * s + r)
  <2>1. a * x = a * (b * y) + a * s
    BY <1>2, <1>4, Times
  <2>2. a * (b * y) = (a * b) * y
    BY <1>4, Times
  <2>. QED  BY <1>2, <1>4, <1>5, <2>1, <2>2
<1>7. q % (a * b) = a * s + r
  BY <1>4, <1>5, <1>6, QuotientIs
<1>. QED  BY <1>1, <1>2, <1>3, <1>5, <1>7

\* Adding a multiple of a product to a number leaves its digit.
LEMMA DigitOfSum ==
    ASSUME NEW k \in Nat, NEW m \in Nat, NEW a \in Nat \ {0}, NEW b \in Nat \ {0}
    PROVE  ((k + m * (b * a)) \div a) % b = (k \div a) % b
<1>1. PICK x, r : x = k \div a /\ r = k % a
  OBVIOUS
<1>2. x \in Nat /\ r \in Nat /\ r < a /\ k = a * x + r
  BY <1>1, Quotient
<1>3. PICK y, s : y = x \div b /\ s = x % b
  OBVIOUS
<1>4. y \in Nat /\ s \in Nat /\ s < b /\ x = b * y + s
  BY <1>2, <1>3, Quotient
<1>5. m * b \in Nat /\ m * (b * a) = a * (m * b) /\ b * m = m * b
  <2>1. m * (b * a) = (m * b) * a /\ (m * b) * a = a * (m * b)
    BY Times
  <2>. QED  BY <2>1, ProductOfNats
<1>6. k + m * (b * a) = a * (x + m * b) + r
  <2>1. a * (x + m * b) = a * x + a * (m * b)
    BY <1>2, <1>5, Times
  <2>. QED  BY <1>2, <1>5, <2>1, ProductOfNats
<1>7. (k + m * (b * a)) \div a = x + m * b
  BY <1>2, <1>5, <1>6, QuotientIs
<1>8. x + m * b = b * (y + m) + s
  BY <1>4, <1>5, Times
<1>9. (x + m * b) % b = s
  BY <1>4, <1>8, QuotientIs
<1>. QED  BY <1>1, <1>3, <1>7, <1>9

\* The same of numbers that differ by such a multiple.
Beyond(j, k, c) == \E m \in Nat : j = k + m * c

LEMMA DigitBeyond ==
    ASSUME NEW k \in Nat, NEW j, NEW a \in Nat \ {0}, NEW b \in Nat \ {0}, Beyond(j, k, b * a)
    PROVE  (j \div a) % b = (k \div a) % b
<1>1. PICK m \in Nat : j = k + m * (b * a)
  BY DEF Beyond
<1>2. ((k + m * (b * a)) \div a) % b = (k \div a) % b
  BY DigitOfSum
<1>. QED  BY <1>1, <1>2, Zenon

-----------------------------------------------------------------------------
\* Sums and products.  Their recursions have a solution, which CHOOSE takes.

LEMMA TotalEquation ==
    ASSUME NEW terms, NEW g,
           g = [d \in 0..Len(terms) |-> IF d = 0 THEN 0 ELSE g[d - 1] + terms[d]]
    PROVE  \E h : /\ h = [d \in 0..Len(terms) |-> IF d = 0 THEN 0 ELSE h[d - 1] + terms[d]]
                  /\ Total(terms) = h[Len(terms)]
  BY Zenon DEF Total

LEMMA NumelEquation ==
    ASSUME NEW sizes, NEW g,
           g = [d \in 0..Len(sizes) |-> IF d = 0 THEN 1 ELSE g[d - 1] * sizes[d]]
    PROVE  \E h : /\ h = [d \in 0..Len(sizes) |-> IF d = 0 THEN 1 ELSE h[d - 1] * sizes[d]]
                  /\ Numel(sizes) = h[Len(sizes)]
  BY Zenon DEF Numel

\* Sequences of n numbers, and the sums, and products, of the first of them.
Terms(n) == [1..n -> Int]
IsRunningTotal(p, f, n, c) ==
    p \in [0..n -> Int] /\ p[0] = c /\ \A d \in 1..n : p[d] = p[d - 1] + f[d]
IsRunningNumel(p, f, n) ==
    p \in [0..n -> Int] /\ p[0] = 1 /\ \A d \in 1..n : p[d] = p[d - 1] * f[d]

LEMMA RunningTotal ==
    ASSUME NEW n \in Nat, NEW f \in Terms(n)
    PROVE  \E p : IsRunningTotal(p, f, n, 0) /\ Total(f) = p[n]
<1>1. Len(f) = n /\ f \in [1..n -> Int]
  BY DEF Terms
<1>. DEFINE step == [d \in 1..n |-> [x \in Int |-> x + f[d]]]
<1>2. PICK g \in [0..n -> Int] : Iterates(g, 0, step, n)
  <2>1. step \in [1..n -> [Int -> Int]] /\ 0 \in Int
    BY <1>1
  <2>. HIDE DEF step
  <2>. QED  BY <2>1, Recursion, Zenon
<1>3. g = [d \in 0..n |-> IF d = 0 THEN 0 ELSE g[d - 1] + f[d]]
  <2>1. ASSUME NEW d \in 0..n
        PROVE  g[d] = IF d = 0 THEN 0 ELSE g[d - 1] + f[d]
    <3>1. CASE d = 0
      BY <1>2, <3>1 DEF Iterates
    <3>2. CASE d # 0
      <4>1. d \in 1..n /\ g[d - 1] \in Int
        BY <1>2, <3>2
      <4>. QED  BY <1>2, <3>2, <4>1 DEF Iterates
    <3>. QED  BY <3>1, <3>2
  <2>. QED  BY <1>2, <2>1
<1>4. PICK h : /\ h = [d \in 0..n |-> IF d = 0 THEN 0 ELSE h[d - 1] + f[d]]
               /\ Total(f) = h[n]
  BY <1>1, <1>3, TotalEquation
<1>5. h[0] = 0 /\ \A d \in 1..n : h[d] = h[d - 1] + f[d]
  BY <1>4
<1>. DEFINE S == {k \in Nat : k <= n => h[k] \in Int}
<1>6. Nat \subseteq S
  <2>1. 0 \in S
    BY <1>5
  <2>2. ASSUME NEW k \in Nat, k \in S  PROVE  k + 1 \in S
    BY <1>1, <1>5, <2>2
  <2>. HIDE DEF S
  <2>. QED  BY <2>1, <2>2, SetInduction
<1>7. h \in [0..n -> Int]
  <2>1. \A k \in 0..n : h[k] \in Int
    BY <1>6
  <2>. QED  BY <1>4, <2>1
<1>. QED  BY <1>4, <1>5, <1>7 DEF IsRunningTotal

LEMMA RunningNumel ==
    ASSUME NEW n \in Nat, NEW f \in Terms(n)
    PROVE  \E p : IsRunningNumel(p, f, n) /\ Numel(f) = p[n]
<1>1. Len(f) = n /\ f \in [1..n -> Int]
  BY DEF Terms
<1>. DEFINE step == [d \in 1..n |-> [x \in Int |-> x * f[d]]]
<1>2. PICK g \in [0..n -> Int] : Iterates(g, 1, step, n)
  <2>1. step \in [1..n -> [Int -> Int]] /\ 1 \in Int
    BY <1>1
  <2>. HIDE DEF step
  <2>. QED  BY <2>1, Recursion, Zenon
<1>3. g = [d \in 0..n |-> IF d = 0 THEN 1 ELSE g[d - 1] * f[d]]
  <2>1. ASSUME NEW d \in 0..n
        PROVE  g[d] = IF d = 0 THEN 1 ELSE g[d - 1] * f[d]
    <3>1. CASE d = 0
      BY <1>2, <3>1 DEF Iterates
    <3>2. CASE d # 0
      <4>1. d \in 1..n /\ g[d - 1] \in Int
        BY <1>2, <3>2
      <4>. QED  BY <1>2, <3>2, <4>1 DEF Iterates
    <3>. QED  BY <3>1, <3>2
  <2>. QED  BY <1>2, <2>1
<1>4. PICK h : /\ h = [d \in 0..n |-> IF d = 0 THEN 1 ELSE h[d - 1] * f[d]]
               /\ Numel(f) = h[n]
  BY <1>1, <1>3, NumelEquation
<1>5. h[0] = 1 /\ \A d \in 1..n : h[d] = h[d - 1] * f[d]
  BY <1>4
<1>. DEFINE S == {k \in Nat : k <= n => h[k] \in Int}
<1>6. Nat \subseteq S
  <2>1. 0 \in S
    BY <1>5
  <2>2. ASSUME NEW k \in Nat, k \in S  PROVE  k + 1 \in S
    BY <1>1, <1>5, <2>2
  <2>. HIDE DEF S
  <2>. QED  BY <2>1, <2>2, SetInduction
<1>7. h \in [0..n -> Int]
  <2>1. \A k \in 0..n : h[k] \in Int
    BY <1>6
  <2>. QED  BY <1>4, <2>1
<1>. QED  BY <1>4, <1>5, <1>7 DEF IsRunningNumel

-----------------------------------------------------------------------------
\* Sums of parts of a sequence, and what they satisfy.
PartSum(f, a, b) == Total(SubSeq(f, a + 1, b))

LEMMA SubTerms ==
    ASSUME NEW n \in Nat, NEW f \in Terms(n), NEW a \in 0..n, NEW b \in a..n
    PROVE  /\ SubSeq(f, a + 1, b) = [i \in 1..b - a |-> f[i + a]]
           /\ SubSeq(f, a + 1, b) \in Terms(b - a)
<1>1. f \in Seq(Int) /\ Len(f) = n /\ f \in [1..n -> Int]
  BY DEF Terms
<1>2. a + 1 \in 1..Len(f) + 1 /\ b \in (a + 1) - 1..Len(f)
  BY <1>1
<1>. DEFINE g == SubSeq(f, a + 1, b)
<1>3. /\ g \in Seq(Int) /\ Len(g) = b - (a + 1) + 1
      /\ \A i \in 1..b - (a + 1) + 1 : g[i] = f[(a + 1) + i - 1]
  BY <1>1, <1>2, SubSeqProperties
<1>4. b - (a + 1) + 1 = b - a /\ \A i \in 1..b - a : (a + 1) + i - 1 = i + a
  OBVIOUS
<1>. HIDE DEF g
<1>5. g = [i \in 1..Len(g) |-> g[i]]
  BY <1>3
<1>6. g = [i \in 1..b - a |-> f[i + a]]
  BY <1>3, <1>4, <1>5
<1>7. \A i \in 1..b - a : f[i + a] \in Int
  BY <1>1
<1>. QED  BY <1>6, <1>7 DEF g, Terms

LEMMA SameTotal ==
    ASSUME NEW n \in Nat, NEW f \in Terms(n), NEW c \in Int, NEW p, IsRunningTotal(p, f, n, c)
    PROVE  Total(f) = p[n] - c
<1>1. PICK q : IsRunningTotal(q, f, n, 0) /\ Total(f) = q[n]
  BY RunningTotal, Zenon
<1>. DEFINE S == {k \in Nat : k <= n => q[k] = p[k] - c}
<1>2. Nat \subseteq S
  <2>1. 0 \in S
    BY <1>1 DEF IsRunningTotal
  <2>2. ASSUME NEW k \in Nat, k \in S  PROVE  k + 1 \in S
    <3>1. SUFFICES ASSUME k + 1 <= n  PROVE  q[k + 1] = p[k + 1] - c
      OBVIOUS
    <3>2. q[k] = p[k] - c /\ k + 1 \in 1..n /\ (k + 1) - 1 = k
      BY <2>2, <3>1
    <3>3. q[k + 1] = q[k] + f[k + 1] /\ p[k + 1] = p[k] + f[k + 1]
      BY <1>1, <3>2 DEF IsRunningTotal
    <3>4. p[k] \in Int /\ f[k + 1] \in Int
      BY <3>1, <3>2 DEF IsRunningTotal, Terms
    <3>. QED  BY <3>2, <3>3, <3>4
  <2>. HIDE DEF S
  <2>. QED  BY <2>1, <2>2, SetInduction
<1>. QED  BY <1>1, <1>2

IsPrefixSum(p, f, n) ==
    /\ IsRunningTotal(p, f, n, 0) /\ Total(f) = p[n]
    /\ \A a \in 0..n : \A b \in a..n : PartSum(f, a, b) = p[b] - p[a]

LEMMA PrefixSum ==
    ASSUME NEW n \in Nat, NEW f \in Terms(n)
    PROVE  \E p : IsPrefixSum(p, f, n)
<1>1. PICK p : IsRunningTotal(p, f, n, 0) /\ Total(f) = p[n]
  BY RunningTotal, Zenon
<1>2. ASSUME NEW a \in 0..n, NEW b \in a..n  PROVE  PartSum(f, a, b) = p[b] - p[a]
  <2>. DEFINE g == SubSeq(f, a + 1, b)
              q == [i \in 0..b - a |-> p[i + a]]
  <2>1. g = [i \in 1..b - a |-> f[i + a]] /\ g \in Terms(b - a)
    BY SubTerms, Zenon
  <2>2. /\ b - a \in Nat /\ q \in [0..b - a -> Int] /\ q[0] = p[a] /\ p[a] \in Int
        /\ q[b - a] = p[b]
    BY <1>1 DEF IsRunningTotal
  <2>3. ASSUME NEW i \in 1..b - a  PROVE  q[i] = q[i - 1] + g[i]
    <3>1. i + a \in 1..n /\ (i + a) - 1 = (i - 1) + a /\ i - 1 \in 0..b - a /\ i \in 0..b - a
      OBVIOUS
    <3>2. p[i + a] = p[(i - 1) + a] + f[i + a]
      BY <1>1, <3>1 DEF IsRunningTotal
    <3>3. g[i] = f[i + a]
      BY <2>1
    <3>. QED  BY <3>1, <3>2, <3>3
  <2>. HIDE DEF g, q
  <2>4. IsRunningTotal(q, g, b - a, p[a])
    BY <2>2, <2>3 DEF IsRunningTotal
  <2>5. Total(g) = q[b - a] - p[a]
    BY <2>1, <2>2, <2>4, SameTotal
  <2>. QED  BY <2>2, <2>5 DEF PartSum, g
<1>. QED  BY <1>1, <1>2 DEF IsPrefixSum

LEMMA SumType ==
    ASSUME NEW n \in Nat, NEW f \in Terms(n), NEW a \in 0..n, NEW b \in a..n
    PROVE  PartSum(f, a, b) \in Int /\ PartSum(f, 0, n) = Total(f) /\ Total(f) \in Int
           /\ PartSum(f, a, a) = 0
<1>1. PICK p : IsPrefixSum(p, f, n)
  BY PrefixSum, Zenon
<1>2. p \in [0..n -> Int] /\ p[0] = 0 /\ Total(f) = p[n]
  BY <1>1 DEF IsPrefixSum, IsRunningTotal
<1>3. 0 \in 0..n /\ n \in 0..n /\ b \in 0..n /\ a \in a..n
  OBVIOUS
<1>4. PartSum(f, a, b) = p[b] - p[a] /\ PartSum(f, 0, n) = p[n] - p[0] /\ PartSum(f, a, a) = p[a] - p[a]
  BY <1>1, <1>3 DEF IsPrefixSum
<1>. QED  BY <1>2, <1>3, <1>4

LEMMA SumSplit ==
    ASSUME NEW n \in Nat, NEW f \in Terms(n), NEW a \in 0..n, NEW b \in a..n, NEW c \in b..n
    PROVE  PartSum(f, a, c) = PartSum(f, a, b) + PartSum(f, b, c)
<1>1. PICK p : IsPrefixSum(p, f, n)
  BY PrefixSum, Zenon
<1>2. p \in [0..n -> Int]
  BY <1>1 DEF IsPrefixSum, IsRunningTotal
<1>3. b \in 0..n /\ c \in 0..n /\ c \in a..n
  OBVIOUS
<1>4. PartSum(f, a, b) = p[b] - p[a] /\ PartSum(f, b, c) = p[c] - p[b] /\ PartSum(f, a, c) = p[c] - p[a]
  BY <1>1, <1>3 DEF IsPrefixSum
<1>. QED  BY <1>2, <1>3, <1>4

LEMMA SumLast ==
    ASSUME NEW n \in Nat, NEW f \in Terms(n), NEW a \in 0..n, NEW b \in a + 1..n
    PROVE  PartSum(f, a, b) = PartSum(f, a, b - 1) + f[b]
<1>1. PICK p : IsPrefixSum(p, f, n)
  BY PrefixSum, Zenon
<1>2. p \in [0..n -> Int] /\ f \in [1..n -> Int] /\ \A d \in 1..n : p[d] = p[d - 1] + f[d]
  BY <1>1 DEF IsPrefixSum, IsRunningTotal, Terms
<1>3. b \in 1..n /\ b \in a..n /\ b - 1 \in a..n /\ b - 1 \in 0..n /\ b \in 0..n
  OBVIOUS
<1>4. PartSum(f, a, b) = p[b] - p[a] /\ PartSum(f, a, b - 1) = p[b - 1] - p[a]
  BY <1>1, <1>3 DEF IsPrefixSum
<1>5. p[b] = p[b - 1] + f[b] /\ f[b] \in Int /\ p[b - 1] \in Int /\ p[a] \in Int
  BY <1>2, <1>3
<1>. QED  BY <1>4, <1>5

LEMMA SumOne ==
    ASSUME NEW n \in Nat, NEW f \in Terms(n), NEW a \in 1..n
    PROVE  PartSum(f, a - 1, a) = f[a]
<1>1. a - 1 \in 0..n /\ a \in (a - 1) + 1..n /\ a - 1 \in (a - 1)..n
  OBVIOUS
<1>2. PartSum(f, a - 1, a) = PartSum(f, a - 1, a - 1) + f[a] /\ PartSum(f, a - 1, a - 1) = 0
  BY <1>1, SumLast, SumType
<1>. QED  BY <1>2 DEF Terms

\* Equal terms have equal sums, terms that are 0 have the sum 0, and terms can
\* be added before the sums are taken.
Agree(f, g, a, b) == \A d \in a + 1..b : f[d] = g[d]
Zeros(f, a, b) == \A d \in a + 1..b : f[d] = 0
AddsUp(h, f, g, n) == \A d \in 1..n : h[d] = f[d] + g[d]
OnlyAt(f, i, j, n) == \A d \in 1..n : d # i /\ d # j => f[d] = 0

LEMMA SumOfEquals ==
    ASSUME NEW n \in Nat, NEW f \in Terms(n), NEW m \in Nat, NEW g \in Terms(m),
           NEW a \in 0..n, NEW b \in a..n, b <= m, Agree(f, g, a, b)
    PROVE  PartSum(f, a, b) = PartSum(g, a, b)
<1>1. SubSeq(f, a + 1, b) = [i \in 1..b - a |-> f[i + a]]
  BY SubTerms, Zenon
<1>2. SubSeq(g, a + 1, b) = [i \in 1..b - a |-> g[i + a]]
  <2>1. a \in 0..m /\ b \in a..m
    OBVIOUS
  <2>. QED  BY <2>1, SubTerms, Zenon
<1>3. \A i \in 1..b - a : f[i + a] = g[i + a]
  BY DEF Agree
<1>. QED  BY <1>1, <1>2, <1>3 DEF PartSum

LEMMA SumOfZeros ==
    ASSUME NEW n \in Nat, NEW f \in Terms(n), NEW a \in 0..n, NEW b \in a..n, Zeros(f, a, b)
    PROVE  PartSum(f, a, b) = 0
<1>. DEFINE S == {k \in Nat : a + k <= b => PartSum(f, a, a + k) = 0}
<1>1. Nat \subseteq S
  <2>1. 0 \in S
    BY SumType
  <2>2. ASSUME NEW k \in Nat, k \in S  PROVE  k + 1 \in S
    <3>1. SUFFICES ASSUME a + (k + 1) <= b  PROVE  PartSum(f, a, a + (k + 1)) = 0
      OBVIOUS
    <3>2. PICK c \in a + 1..b : c = a + (k + 1) /\ c - 1 = a + k
      BY <3>1
    <3>3. PartSum(f, a, c) = PartSum(f, a, c - 1) + f[c]
      BY <3>2, SumLast
    <3>4. PartSum(f, a, a + k) = 0 /\ f[c] = 0
      BY <2>2, <3>1, <3>2 DEF Zeros
    <3>. QED  BY <3>2, <3>3, <3>4
  <2>. HIDE DEF S
  <2>. QED  BY <2>1, <2>2, SetInduction
<1>2. b - a \in S
  BY <1>1
<1>. QED  BY <1>2

LEMMA TotalOfSums ==
    ASSUME NEW n \in Nat, NEW f \in Terms(n), NEW g \in Terms(n), NEW h \in Terms(n),
           AddsUp(h, f, g, n)
    PROVE  Total(h) = Total(f) + Total(g)
<1>1. PICK p : IsRunningTotal(p, f, n, 0) /\ Total(f) = p[n]
  BY RunningTotal, Zenon
<1>2. PICK q : IsRunningTotal(q, g, n, 0) /\ Total(g) = q[n]
  BY RunningTotal, Zenon
<1>. DEFINE r == [d \in 0..n |-> p[d] + q[d]]
<1>3. r \in [0..n -> Int] /\ r[0] = 0 /\ r[n] = p[n] + q[n]
  BY <1>1, <1>2 DEF IsRunningTotal
<1>4. ASSUME NEW d \in 1..n  PROVE  r[d] = r[d - 1] + h[d]
  <2>1. d - 1 \in 0..n /\ d \in 0..n
    OBVIOUS
  <2>2. p[d] = p[d - 1] + f[d] /\ q[d] = q[d - 1] + g[d] /\ h[d] = f[d] + g[d]
    BY <1>1, <1>2 DEF IsRunningTotal, AddsUp
  <2>3. p[d - 1] \in Int /\ q[d - 1] \in Int /\ f[d] \in Int /\ g[d] \in Int
    BY <1>1, <1>2, <2>1 DEF IsRunningTotal, Terms
  <2>. QED  BY <2>1, <2>2, <2>3
<1>. HIDE DEF r
<1>5. IsRunningTotal(r, h, n, 0)
  BY <1>3, <1>4 DEF IsRunningTotal
<1>6. Total(h) = r[n] - 0
  BY <1>5, SameTotal
<1>. QED  BY <1>1, <1>2, <1>3, <1>6 DEF IsRunningTotal

\* The sum of terms that are 0 but for one, and but for two.
LEMMA TotalOfOne ==
    ASSUME NEW n \in Nat, NEW f \in Terms(n), NEW i \in 1..n, OnlyAt(f, i, i, n)
    PROVE  Total(f) = f[i]
<1>1. /\ i - 1 \in 0..n /\ i \in i - 1..n /\ 0 \in 0..n /\ i \in 0..n /\ n \in i..n
      /\ i - 1 \in 0..n /\ i \in 0..n
  OBVIOUS
<1>2. PartSum(f, 0, n) = PartSum(f, 0, i) + PartSum(f, i, n)
      /\ PartSum(f, 0, i) = PartSum(f, 0, i - 1) + PartSum(f, i - 1, i)
  BY <1>1, SumSplit
<1>3. PartSum(f, 0, i - 1) = 0 /\ PartSum(f, i, n) = 0
  <2>1. Zeros(f, 0, i - 1) /\ Zeros(f, i, n)
    BY DEF Zeros, OnlyAt
  <2>2. 0 \in 0..n /\ i - 1 \in 0..n /\ i \in 0..n /\ n \in i..n
    BY <1>1
  <2>3. i - 1 \in 0..i - 1
    OBVIOUS
  <2>4. PartSum(f, 0, i - 1) = 0
    BY <2>1, <2>2, <2>3, SumOfZeros
  <2>5. PartSum(f, i, n) = 0
    BY <2>1, <2>2, SumOfZeros
  <2>. QED  BY <2>4, <2>5
<1>4. PartSum(f, i - 1, i) = f[i] /\ f[i] \in Int
  BY SumOne DEF Terms
<1>5. Total(f) = PartSum(f, 0, n)
  BY SumType
<1>. QED  BY <1>2, <1>3, <1>4, <1>5

LEMMA TotalOfZeros ==
    ASSUME NEW n \in Nat, NEW f \in Terms(n), Zeros(f, 0, n)
    PROVE  Total(f) = 0
<1>1. 0 \in 0..n /\ n \in 0..n
  OBVIOUS
<1>. QED  BY <1>1, SumOfZeros, SumType

LEMMA TotalOfTwo ==
    ASSUME NEW n \in Nat, NEW f \in Terms(n), NEW i \in 1..n, NEW j \in 1..n, i # j,
           OnlyAt(f, i, j, n)
    PROVE  Total(f) = f[i] + f[j]
<1>. DEFINE g == [d \in 1..n |-> IF d = i THEN f[i] ELSE 0]
            h == [d \in 1..n |-> IF d = j THEN f[j] ELSE 0]
<1>1. g \in Terms(n) /\ h \in Terms(n) /\ g[i] = f[i] /\ h[j] = f[j]
      /\ OnlyAt(g, i, i, n) /\ OnlyAt(h, j, j, n)
  BY DEF Terms, OnlyAt
<1>2. AddsUp(f, g, h, n)
  BY DEF AddsUp, OnlyAt, Terms
<1>. HIDE DEF g, h
<1>3. Total(f) = Total(g) + Total(h)
  BY <1>1, <1>2, TotalOfSums
<1>4. Total(g) = g[i] /\ Total(h) = h[j]
  BY <1>1, TotalOfOne
<1>. QED  BY <1>1, <1>3, <1>4

-----------------------------------------------------------------------------
\* Products of parts of a sequence of sizes, and what they satisfy.
Sizes(n) == [1..n -> Nat]
Part(s, a, b) == Numel(SubSeq(s, a + 1, b))

LEMMA SizesAreTerms ==
    ASSUME NEW n \in Nat, NEW s \in Sizes(n)
    PROVE  s \in Terms(n)
  BY DEF Sizes, Terms

LEMMA RunningUnique ==
    ASSUME NEW n \in Nat, NEW s, NEW p, NEW q, IsRunningNumel(p, s, n), IsRunningNumel(q, s, n)
    PROVE  \A k \in 0..n : p[k] = q[k]
<1>. DEFINE S == {k \in Nat : k <= n => p[k] = q[k]}
<1>1. Nat \subseteq S
  <2>1. 0 \in S
    BY DEF IsRunningNumel
  <2>2. ASSUME NEW k \in Nat, k \in S  PROVE  k + 1 \in S
    <3>1. SUFFICES ASSUME k + 1 <= n  PROVE  p[k + 1] = q[k + 1]
      OBVIOUS
    <3>2. k + 1 \in 1..n /\ (k + 1) - 1 = k /\ p[k] = q[k]
      BY <2>2, <3>1
    <3>3. p[k + 1] = p[k] * s[k + 1] /\ q[k + 1] = q[k] * s[k + 1]
      BY <3>2 DEF IsRunningNumel
    <3>. QED  BY <3>2, <3>3
  <2>. HIDE DEF S
  <2>. QED  BY <2>1, <2>2, SetInduction
<1>. QED  BY <1>1

\* The product of the dimensions after a, up to each of them.
LEMMA RunningPart ==
    ASSUME NEW n \in Nat, NEW s \in Terms(n), NEW a \in 0..n
    PROVE  \E p : IsRunningNumel(p, SubSeq(s, a + 1, n), n - a)
                  /\ \A b \in a..n : Part(s, a, b) = p[b - a]
<1>. DEFINE g == SubSeq(s, a + 1, n)
<1>1. g = [i \in 1..n - a |-> s[i + a]] /\ g \in Terms(n - a) /\ n - a \in Nat
  <2>1. n \in a..n
    OBVIOUS
  <2>. QED  BY <2>1, SubTerms
<1>. HIDE DEF g
<1>2. PICK p : IsRunningNumel(p, g, n - a)
  BY <1>1, RunningNumel, Zenon
<1>3. ASSUME NEW b \in a..n  PROVE  Part(s, a, b) = p[b - a]
  <2>. DEFINE h == SubSeq(s, a + 1, b)
  <2>1. h = [i \in 1..b - a |-> s[i + a]] /\ h \in Terms(b - a) /\ b - a \in Nat
    BY SubTerms
  <2>. HIDE DEF h
  <2>2. PICK q : IsRunningNumel(q, h, b - a) /\ Numel(h) = q[b - a]
    BY <2>1, RunningNumel, Zenon
  <2>. DEFINE r == [i \in 0..b - a |-> p[i]]
  <2>3. IsRunningNumel(r, h, b - a) /\ r[b - a] = p[b - a]
    <3>1. r \in [0..b - a -> Int] /\ r[0] = 1 /\ r[b - a] = p[b - a]
      BY <1>2 DEF IsRunningNumel
    <3>2. ASSUME NEW d \in 1..b - a  PROVE  r[d] = r[d - 1] * h[d]
      <4>1. d \in 1..n - a /\ h[d] = g[d] /\ d - 1 \in 0..b - a /\ d \in 0..b - a
        BY <1>1, <2>1
      <4>. QED  BY <1>2, <4>1 DEF IsRunningNumel
    <3>. HIDE DEF r
    <3>. QED  BY <3>1, <3>2 DEF IsRunningNumel
  <2>. HIDE DEF r
  <2>4. q[b - a] = r[b - a]
    <3>1. b - a \in 0..b - a
      OBVIOUS
    <3>. QED  BY <2>1, <2>2, <2>3, <3>1, RunningUnique
  <2>. QED  BY <2>2, <2>3, <2>4 DEF Part, h
<1>. QED  BY <1>2, <1>3 DEF g

LEMMA PartLast ==
    ASSUME NEW n \in Nat, NEW s \in Terms(n), NEW a \in 0..n, NEW b \in a..n
    PROVE  /\ Part(s, a, b) \in Int
           /\ Part(s, a, a) = 1
           /\ a < b => Part(s, a, b) = Part(s, a, b - 1) * s[b]
<1>1. PICK p : IsRunningNumel(p, SubSeq(s, a + 1, n), n - a)
               /\ \A c \in a..n : Part(s, a, c) = p[c - a]
  BY RunningPart, Zenon
<1>2. Part(s, a, b) = p[b - a] /\ Part(s, a, a) = p[a - a] /\ a - a = 0 /\ b - a \in 0..n - a
  BY <1>1
<1>3. p[0] = 1 /\ p[b - a] \in Int
  BY <1>1, <1>2 DEF IsRunningNumel
<1>4. ASSUME a < b  PROVE  Part(s, a, b) = Part(s, a, b - 1) * s[b]
  <2>1. Part(s, a, b - 1) = p[(b - 1) - a] /\ (b - 1) - a = (b - a) - 1 /\ b - a \in 1..n - a
        /\ (b - a) + a = b
    BY <1>1, <1>4
  <2>2. SubSeq(s, a + 1, n)[b - a] = s[b]
    <3>1. n \in a..n
      OBVIOUS
    <3>2. SubSeq(s, a + 1, n) = [i \in 1..n - a |-> s[i + a]]
      BY <3>1, SubTerms
    <3>. QED  BY <2>1, <3>2
  <2>3. p[b - a] = p[(b - a) - 1] * SubSeq(s, a + 1, n)[b - a]
    BY <1>1, <2>1 DEF IsRunningNumel
  <2>. QED  BY <1>2, <2>1, <2>2, <2>3
<1>. QED  BY <1>2, <1>3, <1>4

LEMMA PartWhole ==
    ASSUME NEW n \in Nat, NEW s \in Terms(n)
    PROVE  Part(s, 0, n) = Numel(s) /\ Numel(s) \in Int
<1>1. s \in [1..n -> Int] /\ 0 \in 0..n /\ n \in 0..n
  BY DEF Terms
<1>2. SubSeq(s, 0 + 1, n) = [i \in 1..n - 0 |-> s[i + 0]]
  BY <1>1, SubTerms
<1>3. SubSeq(s, 0 + 1, n) = s
  <2>1. [i \in 1..n - 0 |-> s[i + 0]] = [i \in 1..n |-> s[i]]
    OBVIOUS
  <2>. QED  BY <1>1, <1>2, <2>1
<1>. QED  BY <1>1, <1>3, PartLast DEF Part

LEMMA PartSplit ==
    ASSUME NEW n \in Nat, NEW s \in Terms(n), NEW a \in 0..n, NEW b \in a..n, NEW c \in b..n
    PROVE  Part(s, a, c) = Part(s, a, b) * Part(s, b, c)
<1>. DEFINE S == {k \in Nat : b + k <= n => Part(s, a, b + k) = Part(s, a, b) * Part(s, b, b + k)}
<1>1. Nat \subseteq S
  <2>1. 0 \in S
    <3>1. b \in 0..n /\ b \in b..n /\ b + 0 = b
      OBVIOUS
    <3>2. Part(s, b, b) = 1 /\ Part(s, a, b) \in Int
      BY <3>1, PartLast
    <3>. QED  BY <3>1, <3>2
  <2>2. ASSUME NEW k \in Nat, k \in S  PROVE  k + 1 \in S
    <3>1. SUFFICES ASSUME b + (k + 1) <= n
                   PROVE  Part(s, a, b + (k + 1)) = Part(s, a, b) * Part(s, b, b + (k + 1))
      OBVIOUS
    <3>2. PICK e \in b + 1..n : e = b + (k + 1) /\ e - 1 = b + k
      BY <3>1
    <3>3. /\ e \in a..n /\ e \in b..n /\ a < e /\ b < e /\ b \in 0..n /\ e - 1 \in b..n
      BY <3>2
    <3>4. Part(s, a, e) = Part(s, a, e - 1) * s[e] /\ Part(s, b, e) = Part(s, b, e - 1) * s[e]
      BY <3>3, PartLast
    <3>5. Part(s, a, e - 1) = Part(s, a, b) * Part(s, b, e - 1)
      BY <2>2, <3>1, <3>2
    <3>6. Part(s, a, b) \in Int /\ Part(s, b, e - 1) \in Int /\ s[e] \in Int
      <4>1. s[e] \in Int
        BY <3>3 DEF Terms
      <4>. QED  BY <3>3, <4>1, PartLast
    <3>7. Part(s, a, e) = Part(s, a, b) * Part(s, b, e)
      BY <3>4, <3>5, <3>6, Times
    <3>. QED  BY <3>2, <3>7
  <2>. HIDE DEF S
  <2>. QED  BY <2>1, <2>2, SetInduction
<1>2. c - b \in S /\ b + (c - b) = c
  BY <1>1
<1>. QED  BY <1>2

LEMMA PartOne ==
    ASSUME NEW n \in Nat, NEW s \in Terms(n), NEW a \in 1..n
    PROVE  Part(s, a - 1, a) = s[a]
<1>1. a - 1 \in 0..n /\ a \in (a - 1)..n /\ a - 1 < a /\ a - 1 \in (a - 1)..n
  OBVIOUS
<1>2. Part(s, a - 1, a) = Part(s, a - 1, a - 1) * s[a] /\ Part(s, a - 1, a - 1) = 1
  BY <1>1, PartLast
<1>. QED  BY <1>2 DEF Terms

\* The first factor of a product.
LEMMA PartFirst ==
    ASSUME NEW n \in Nat, NEW s \in Terms(n), NEW a \in 1..n, NEW b \in a..n
    PROVE  Part(s, a - 1, b) = s[a] * Part(s, a, b)
<1>1. a - 1 \in 0..n /\ a \in (a - 1)..n
  OBVIOUS
<1>. QED  BY <1>1, PartSplit, PartOne

LEMMA PartOfSizes ==
    ASSUME NEW n \in Nat, NEW s \in Sizes(n), NEW a \in 0..n, NEW b \in a..n
    PROVE  Part(s, a, b) \in Nat
<1>. DEFINE S == {k \in Nat : a + k <= n => Part(s, a, a + k) \in Nat}
<1>0. s \in Terms(n) /\ s \in [1..n -> Nat]
  BY SizesAreTerms DEF Sizes
<1>1. Nat \subseteq S
  <2>1. 0 \in S
    <3>1. a \in a..n /\ a + 0 = a
      OBVIOUS
    <3>. QED  BY <1>0, <3>1, PartLast
  <2>2. ASSUME NEW k \in Nat, k \in S  PROVE  k + 1 \in S
    <3>1. SUFFICES ASSUME a + (k + 1) <= n  PROVE  Part(s, a, a + (k + 1)) \in Nat
      OBVIOUS
    <3>2. PICK e \in a + 1..n : e = a + (k + 1) /\ e - 1 = a + k
      BY <3>1
    <3>3. e \in a..n /\ a < e /\ s[e] \in Nat
      BY <1>0, <3>2
    <3>4. Part(s, a, e) = Part(s, a, e - 1) * s[e]
      BY <1>0, <3>3, PartLast
    <3>5. Part(s, a, e - 1) \in Nat
      BY <2>2, <3>1, <3>2
    <3>. QED  BY <3>2, <3>3, <3>4, <3>5, ProductOfNats
  <2>. HIDE DEF S
  <2>. QED  BY <2>1, <2>2, SetInduction
<1>2. b - a \in S /\ a + (b - a) = b
  BY <1>1
<1>. QED  BY <1>2

\* A product is 0 just when one of its factors is.
LEMMA PartOfNone ==
    ASSUME NEW n \in Nat, NEW s \in Sizes(n), NEW a \in 0..n, NEW b \in a..n,
           NEW d \in a + 1..b, s[d] = 0
    PROVE  Part(s, a, b) = 0
<1>0. s \in Terms(n)
  BY SizesAreTerms
<1>1. /\ d \in a..n /\ d \in 0..n /\ b \in d..n /\ a < d /\ d - 1 \in a..n
  OBVIOUS
<1>2. Part(s, a, b) = Part(s, a, d) * Part(s, d, b) /\ Part(s, a, d) = Part(s, a, d - 1) * s[d]
  BY <1>0, <1>1, PartSplit, PartLast
<1>3. Part(s, a, d - 1) \in Nat /\ Part(s, d, b) \in Nat
  BY <1>1, PartOfSizes
<1>. QED  BY <1>2, <1>3

NonEmpty(s, a, b) == \A d \in a + 1..b : s[d] # 0

LEMMA PartOfSome ==
    ASSUME NEW n \in Nat, NEW s \in Sizes(n), NEW a \in 0..n, NEW b \in a..n, NonEmpty(s, a, b)
    PROVE  Part(s, a, b) \in Nat \ {0}
<1>. DEFINE S == {k \in Nat : a + k <= b => Part(s, a, a + k) \in Nat \ {0}}
<1>0. s \in Terms(n) /\ s \in [1..n -> Nat]
  BY SizesAreTerms DEF Sizes
<1>1. Nat \subseteq S
  <2>1. 0 \in S
    <3>1. a \in a..n /\ a + 0 = a
      OBVIOUS
    <3>2. Part(s, a, a) = 1
      BY <1>0, <3>1, PartLast
    <3>. QED  BY <3>1, <3>2
  <2>2. ASSUME NEW k \in Nat, k \in S  PROVE  k + 1 \in S
    <3>1. SUFFICES ASSUME a + (k + 1) <= b  PROVE  Part(s, a, a + (k + 1)) \in Nat \ {0}
      OBVIOUS
    <3>2. PICK e \in a + 1..b : e = a + (k + 1) /\ e - 1 = a + k
      BY <3>1
    <3>3. e \in a..n /\ a < e /\ s[e] \in Nat /\ s[e] # 0
      BY <1>0, <3>2 DEF NonEmpty
    <3>4. Part(s, a, e) = Part(s, a, e - 1) * s[e]
      BY <1>0, <3>3, PartLast
    <3>5. Part(s, a, e - 1) \in Nat \ {0}
      BY <2>2, <3>1, <3>2
    <3>. QED  BY <3>2, <3>3, <3>4, <3>5, ProductOfNats
  <2>. HIDE DEF S
  <2>. QED  BY <2>1, <2>2, SetInduction
<1>2. b - a \in S /\ a + (b - a) = b
  BY <1>1
<1>. QED  BY <1>2

\* The digit of a number at a dimension, when an index vector is read as the
\* digits of a number, and the terms that make up the address of an element.
FullSizes(n) == [1..n -> Nat \ {0}]
Digit(s, n, d, k) == (k \div Part(s, d, n)) % s[d]
Moves(s, n, strides, k) == [d \in 1..n |-> Digit(s, n, d, k) * strides[d]]

LEMMA FullParts ==
    ASSUME NEW n \in Nat, NEW s \in FullSizes(n)
    PROVE  /\ s \in Sizes(n) /\ s \in Terms(n)
           /\ \A a \in 0..n : \A b \in a..n : Part(s, a, b) \in Nat \ {0}
<1>1. s \in Sizes(n)
  BY DEF Sizes, FullSizes
<1>2. ASSUME NEW a \in 0..n, NEW b \in a..n  PROVE  Part(s, a, b) \in Nat \ {0}
  <2>1. NonEmpty(s, a, b)
    BY DEF NonEmpty, FullSizes
  <2>. QED  BY <1>1, <2>1, PartOfSome
<1>. QED  BY <1>1, <1>2, SizesAreTerms

LEMMA DigitType ==
    ASSUME NEW n \in Nat, NEW s \in FullSizes(n), NEW d \in 1..n, NEW k \in Nat
    PROVE  Digit(s, n, d, k) \in Nat /\ Digit(s, n, d, k) < s[d] /\ s[d] \in Nat \ {0}
<1>1. d \in 0..n /\ n \in d..n
  OBVIOUS
<1>2. Part(s, d, n) \in Nat \ {0} /\ s[d] \in Nat \ {0}
  BY <1>1, FullParts DEF FullSizes
<1>3. k \div Part(s, d, n) \in Nat
  BY <1>2, Quotient
<1>. QED  BY <1>2, <1>3, Quotient DEF Digit

LEMMA MovesType ==
    ASSUME NEW n \in Nat, NEW s \in FullSizes(n), NEW strides \in Terms(n), NEW k \in Nat
    PROVE  Moves(s, n, strides, k) \in Terms(n)
<1>1. ASSUME NEW d \in 1..n  PROVE  Digit(s, n, d, k) * strides[d] \in Int
  BY DigitType DEF Terms
<1>. QED  BY <1>1 DEF Moves, Terms

LEMMA QuotientOfLess ==
    ASSUME NEW k \in Nat, NEW a \in Nat \ {0}, k < a
    PROVE  k \div a = 0 /\ k % a = k
  OBVIOUS

\* The digits of a number before the dimension that it has no part in.
LEMMA LeadingDigits ==
    ASSUME NEW n \in Nat, NEW s \in FullSizes(n), NEW w \in 0..n, NEW k \in Nat,
           k < Part(s, w, n), NEW d \in 1..w
    PROVE  Digit(s, n, d, k) = 0
<1>1. w \in d..n /\ d \in 0..n /\ n \in w..n /\ n \in d..n
  OBVIOUS
<1>2. Part(s, d, n) = Part(s, d, w) * Part(s, w, n)
  BY <1>1, FullParts, PartSplit
<1>3. Part(s, d, n) \in Nat \ {0} /\ Part(s, d, w) \in Nat \ {0} /\ Part(s, w, n) \in Nat \ {0}
  BY <1>1, FullParts
<1>4. k < Part(s, d, n)
  <2>1. Part(s, w, n) <= Part(s, w, n) * Part(s, d, w)
    BY <1>3, ProductOfNats
  <2>2. Part(s, d, w) * Part(s, w, n) = Part(s, w, n) * Part(s, d, w)
    BY <1>3, ProductOfNats
  <2>. QED  BY <1>2, <1>3, <2>1, <2>2
<1>5. k \div Part(s, d, n) = 0
  BY <1>3, <1>4, QuotientOfLess
<1>6. s[d] \in Nat \ {0} /\ 0 < s[d]
  BY DEF FullSizes
<1>. QED  BY <1>5, <1>6, QuotientOfLess DEF Digit

\* Adding a multiple of what a dimension counts.
LEMMA DigitsOfSum ==
    ASSUME NEW n \in Nat, NEW s \in FullSizes(n), NEW w \in 1..n,
           NEW r \in Nat, r < Part(s, w, n), NEW q \in Nat, q < s[w],
           NEW k, k = r + q * Part(s, w, n)
    PROVE  /\ k \in Nat /\ k < Part(s, w - 1, n)
           /\ Digit(s, n, w, k) = q
           /\ \A d \in w + 1..n : Digit(s, n, d, k) = Digit(s, n, d, r)
           /\ \A d \in 1..w - 1 : Digit(s, n, d, k) = 0
<1>1. /\ w \in 0..n /\ n \in w..n /\ w - 1 \in 0..n /\ n \in (w - 1)..n
  OBVIOUS
<1>2. Part(s, w, n) \in Nat \ {0} /\ s[w] \in Nat \ {0} /\ s \in Terms(n) /\ s \in Sizes(n)
  BY <1>1, FullParts DEF FullSizes
<1>. DEFINE P == Part(s, w, n)
<1>3. Part(s, w - 1, n) = P * s[w]
  <2>1. Part(s, w - 1, n) = s[w] * P
    BY <1>1, <1>2, PartFirst
  <2>. QED  BY <1>2, <2>1, ProductOfNats
<1>4. q * P = P * q /\ P * q \in Nat /\ k = P * q + r
  BY <1>2, ProductOfNats
<1>5. k \in Nat /\ k < Part(s, w - 1, n)
  <2>. HIDE DEF P
  <2>. QED  BY <1>2, <1>3, <1>4, LessTimes DEF P
<1>6. Digit(s, n, w, k) = q
  <2>1. k \div P = q
    BY <1>2, <1>4, QuotientIs
  <2>2. q % s[w] = q
    BY <1>2, QuotientOfLess
  <2>. QED  BY <2>1, <2>2 DEF Digit
<1>7. ASSUME NEW d \in w + 1..n  PROVE  Digit(s, n, d, k) = Digit(s, n, d, r)
  <2>1. /\ d - 1 \in w..n /\ n \in (d - 1)..n /\ d \in 1..n /\ n \in d..n /\ d \in 0..n
        /\ d - 1 \in 0..n
    OBVIOUS
  <2>2. P = Part(s, w, d - 1) * Part(s, d - 1, n) /\ Part(s, d - 1, n) = s[d] * Part(s, d, n)
    BY <1>1, <1>2, <2>1, PartSplit, PartFirst
  <2>3. /\ Part(s, w, d - 1) \in Nat \ {0} /\ Part(s, d, n) \in Nat \ {0} /\ s[d] \in Nat \ {0}
    BY <1>1, <2>1, FullParts DEF FullSizes
  <2>. DEFINE m == q * Part(s, w, d - 1)
  <2>4. m \in Nat
    BY <2>3, ProductOfNats
  <2>5. q * P = m * (s[d] * Part(s, d, n))
    <3>1. s[d] * Part(s, d, n) \in Nat
      BY <2>3, ProductOfNats
    <3>. QED  BY <2>2, <2>3, <3>1, Times
  <2>. HIDE DEF P, m
  <2>6. k = r + m * (s[d] * Part(s, d, n))
    <3>1. k = r + q * P
      BY <1>4
    <3>. QED  BY <2>5, <3>1, Zenon
  <2>7. PICK a \in Nat \ {0}, b \in Nat \ {0} : a = Part(s, d, n) /\ b = s[d]
    BY <2>3
  <2>8. k = r + m * (b * a)
    BY <2>6, <2>7, Zenon
  <2>9. (k \div a) % b = (r \div a) % b
    <3>1. Beyond(k, r, b * a)
      BY <2>4, <2>8, Zenon DEF Beyond
    <3>. QED  BY <2>7, <3>1, DigitBeyond
  <2>10. Digit(s, n, d, k) = (k \div a) % b /\ Digit(s, n, d, r) = (r \div a) % b
    BY <2>7, Zenon DEF Digit
  <2>. QED  BY <2>9, <2>10, Zenon
<1>8. ASSUME NEW d \in 1..w - 1  PROVE  Digit(s, n, d, k) = 0
  BY <1>1, <1>5, LeadingDigits
<1>. QED  BY <1>5, <1>6, <1>7, <1>8

\* Index vectors, and that every one of them is the digits of a number.
Indices1(s, n) == {x \in Sizes(n) : \A d \in 1..n : x[d] < s[d]}

HasDigits(k, s, n, x, a) == \A d \in a + 1..n : Digit(s, n, d, k) = x[d]

LEMMA DigitsReach ==
    ASSUME NEW n \in Nat, NEW s \in FullSizes(n), NEW x \in Indices1(s, n)
    PROVE  \E k \in 0..Part(s, 0, n) - 1 : HasDigits(k, s, n, x, 0)
<1>. DEFINE S == {j \in Nat : j <= n => \E k \in 0..Part(s, n - j, n) - 1 : HasDigits(k, s, n, x, n - j)}
<1>1. Nat \subseteq S
  <2>1. 0 \in S
    <3>1. n \in 0..n /\ n \in n..n /\ n - 0 = n
      OBVIOUS
    <3>2. Part(s, n, n) = 1
      BY <3>1, FullParts, PartLast
    <3>3. HasDigits(0, s, n, x, n)
      BY DEF HasDigits
    <3>. QED  BY <3>1, <3>2, <3>3
  <2>2. ASSUME NEW j \in Nat, j \in S  PROVE  j + 1 \in S
    <3>1. SUFFICES ASSUME j + 1 <= n
                   PROVE  \E k \in 0..Part(s, n - (j + 1), n) - 1 : HasDigits(k, s, n, x, n - (j + 1))
      OBVIOUS
    <3>2. PICK w \in 1..n : w = n - j /\ w - 1 = n - (j + 1)
      BY <3>1
    <3>3. PICK r \in 0..Part(s, w, n) - 1 : HasDigits(r, s, n, x, w)
      BY <2>2, <3>1, <3>2
    <3>4. Part(s, w, n) \in Nat \ {0} /\ Part(s, w - 1, n) \in Nat \ {0}
      <4>1. w \in 0..n /\ n \in w..n /\ w - 1 \in 0..n /\ n \in (w - 1)..n
        OBVIOUS
      <4>. QED  BY <4>1, FullParts
    <3>5. r \in Nat /\ r < Part(s, w, n) /\ x[w] \in Nat /\ x[w] < s[w]
      BY <3>3, <3>4 DEF Indices1, Sizes
    <3>. DEFINE k == r + x[w] * Part(s, w, n)
    <3>6. /\ k \in Nat /\ k < Part(s, w - 1, n)
          /\ Digit(s, n, w, k) = x[w]
          /\ \A d \in w + 1..n : Digit(s, n, d, k) = Digit(s, n, d, r)
      <4>1. PICK q, kk : q \in Nat /\ q = x[w] /\ kk = r + q * Part(s, w, n) /\ kk = k
        BY <3>5
      <4>. HIDE DEF k
      <4>. QED  BY <3>5, <4>1, DigitsOfSum
    <3>. HIDE DEF k
    <3>7. HasDigits(k, s, n, x, w - 1)
      BY <3>3, <3>6 DEF HasDigits
    <3>. QED  BY <3>2, <3>4, <3>6, <3>7
  <2>. HIDE DEF S
  <2>. QED  BY <2>1, <2>2, SetInduction
<1>2. n \in S /\ n - n = 0
  BY <1>1
<1>. QED  BY <1>2

\* The address of the element with an index vector, from the offset.
Products(x, strides, n) == [d \in 1..n |-> x[d] * strides[d]]

IsTensor(t) ==
    \E n \in Nat : t \in [sizes : Sizes(n), strides : Terms(n), offset : Int]

Rank(t) == Len(t.sizes)
At(t, k) == t.offset + Total(Moves(t.sizes, Rank(t), t.strides, k))
Where(t, x) == t.offset + Total(Products(x, t.strides, Rank(t)))

LEMMA TensorType ==
    ASSUME NEW t, IsTensor(t)
    PROVE  /\ Rank(t) \in Nat /\ t.sizes \in Sizes(Rank(t)) /\ t.strides \in Terms(Rank(t))
           /\ DOMAIN t.sizes = 1..Rank(t) /\ t.offset \in Int
           /\ Numel(t.sizes) \in Nat /\ Part(t.sizes, 0, Rank(t)) = Numel(t.sizes)
<1>1. PICK n \in Nat : t \in [sizes : Sizes(n), strides : Terms(n), offset : Int]
  BY DEF IsTensor
<1>2. Rank(t) = n /\ DOMAIN t.sizes = 1..n
  BY <1>1 DEF Rank, Sizes
<1>3. 0 \in 0..n /\ n \in 0..n /\ t.sizes \in Sizes(n)
  BY <1>1
<1>4. Part(t.sizes, 0, n) \in Nat /\ Part(t.sizes, 0, n) = Numel(t.sizes)
  BY <1>3, PartOfSizes, PartWhole, SizesAreTerms
<1>. QED  BY <1>1, <1>2, <1>4

\* A tensor without elements has a dimension of size 0.
LEMMA FullTensor ==
    ASSUME NEW t, IsTensor(t), Numel(t.sizes) # 0
    PROVE  t.sizes \in FullSizes(Rank(t))
<1>. DEFINE n == Rank(t)
<1>1. n \in Nat /\ t.sizes \in Sizes(n) /\ Part(t.sizes, 0, n) # 0
  BY TensorType
<1>. HIDE DEF n
<1>2. ASSUME NEW d \in 1..n  PROVE  t.sizes[d] # 0
  <2>1. 0 \in 0..n /\ n \in 0..n /\ d \in 0 + 1..n
    BY <1>1
  <2>. QED  BY <1>1, <2>1, PartOfNone
<1>. QED  BY <1>1, <1>2 DEF n, Sizes, FullSizes

LEMMA AddressesAt ==
    ASSUME NEW t, IsTensor(t)
    PROVE  Addresses(t) = [k \in 1..Numel(t.sizes) |-> At(t, k - 1)]
<1>1. DOMAIN t.sizes = 1..Rank(t) /\ Len(t.sizes) = Rank(t)
  BY TensorType DEF Rank
<1>2. \A k : Moves(t.sizes, Rank(t), t.strides, k)
             = [d \in DOMAIN t.sizes |->
                  ((k \div Numel(SubSeq(t.sizes, d + 1, Len(t.sizes)))) % t.sizes[d]) * t.strides[d]]
  BY <1>1, Zenon DEF Moves, Digit, Part
<1>. QED  BY <1>2, Zenon DEF Addresses, At

Elements(t) == {Where(t, x) : x \in Indices1(t.sizes, Rank(t))}

LEMMA AddressesAreElements ==
    ASSUME NEW t, IsTensor(t)
    PROVE  ToSet(Addresses(t)) = Elements(t)
<1>. DEFINE n == Rank(t)
            s == t.sizes
<1>0. /\ n \in Nat /\ s \in Sizes(n) /\ t.strides \in Terms(n) /\ Part(s, 0, n) = Numel(s)
      /\ Numel(s) \in Nat /\ 0 \in 0..n /\ n \in 0..n
  BY TensorType
<1>1. ToSet(Addresses(t)) = {At(t, k - 1) : k \in 1..Numel(s)}
  BY AddressesAt DEF ToSet
<1>. HIDE DEF n, s
<1>2. CASE Numel(s) = 0
  <2>1. Indices1(s, n) = {}
    <3>1. SUFFICES ASSUME NEW x \in Indices1(s, n)  PROVE  FALSE
      OBVIOUS
    <3>2. NonEmpty(s, 0, n)
      BY <1>0 DEF NonEmpty, Indices1, Sizes
    <3>. QED  BY <1>0, <1>2, <3>2, PartOfSome
  <2>. QED  BY <1>1, <1>2, <2>1 DEF Elements, n, s
<1>3. CASE Numel(s) # 0
  <2>0. s \in FullSizes(n)
    BY <1>3, FullTensor DEF n, s
  <2>1. ASSUME NEW k \in 1..Numel(s)  PROVE  At(t, k - 1) \in Elements(t)
    <3>. DEFINE x == [d \in 1..n |-> Digit(s, n, d, k - 1)]
    <3>1. x \in Indices1(s, n)
      <4>1. k - 1 \in Nat
        BY <1>0
      <4>2. \A d \in 1..n : Digit(s, n, d, k - 1) \in Nat /\ Digit(s, n, d, k - 1) < s[d]
        BY <1>0, <2>0, <4>1, DigitType
      <4>. QED  BY <4>2 DEF Indices1, Sizes
    <3>2. Products(x, t.strides, n) = Moves(s, n, t.strides, k - 1)
      BY DEF Products, Moves
    <3>. HIDE DEF x
    <3>3. At(t, k - 1) = Where(t, x)
      BY <3>2 DEF At, Where, n, s
    <3>. QED  BY <3>1, <3>3 DEF Elements, n, s
  <2>2. ASSUME NEW x \in Indices1(s, n)  PROVE  \E k \in 1..Numel(s) : Where(t, x) = At(t, k - 1)
    <3>1. PICK k \in 0..Numel(s) - 1 : HasDigits(k, s, n, x, 0)
      BY <1>0, <2>0, DigitsReach
    <3>2. Products(x, t.strides, n) = Moves(s, n, t.strides, k)
      BY <3>1 DEF Products, Moves, HasDigits
    <3>3. Where(t, x) = At(t, k)
      BY <3>2 DEF At, Where, n, s
    <3>4. PICK j \in 1..Numel(s) : k = j - 1
      BY <1>0
    <3>. QED  BY <3>3, <3>4
  <2>. QED  BY <1>1, <2>1, <2>2 DEF Elements, n, s
<1>. QED  BY <1>0, <1>2, <1>3

\* A sum that is arranged in rows and columns: its terms can be added in
\* either order.
RowSums(C, f, n) == \A d \in 1..n : Total(C[d]) = f[d]
ColumnSums(C, g, m, n) == \A e \in 1..m : Total([d \in 1..n |-> C[d][e]]) = g[e]
Tables(n, m) == [1..n -> Terms(m)]

LEMMA RowsAndColumns ==
    ASSUME NEW n \in Nat, NEW m \in Nat, NEW f \in Terms(n), NEW g \in Terms(m),
           NEW C \in Tables(n, m), RowSums(C, f, n), ColumnSums(C, g, m, n)
    PROVE  Total(f) = Total(g)
<1>. DEFINE Column(k, e) == [d \in 1..k |-> C[d][e]]
            Columns(k) == [e \in 1..m |-> Total(Column(k, e))]
            S == {k \in Nat : k <= n => PartSum(f, 0, k) = Total(Columns(k))}
<1>0. \A d \in 1..n : C[d] \in Terms(m) /\ \A e \in 1..m : C[d][e] \in Int
  BY DEF Tables, Terms
<1>1. ASSUME NEW k \in 0..n, NEW e \in 1..m
      PROVE  /\ Column(k, e) \in Terms(k) /\ Total(Column(k, e)) \in Int
  <2>1. Column(k, e) \in Terms(k)
    BY <1>0 DEF Terms
  <2>. HIDE DEF Column
  <2>2. 0 \in 0..k /\ k \in 0..k /\ k \in Nat
    OBVIOUS
  <2>. QED  BY <2>1, <2>2, SumType
<1>2. ASSUME NEW k \in 0..n  PROVE  Columns(k) \in Terms(m)
  <2>. HIDE DEF Column
  <2>. QED  BY <1>1 DEF Terms
<1>3. 0 \in S
  <2>1. \A e \in 1..m : Total(Column(0, e)) = 0
    <3>1. ASSUME NEW e \in 1..m  PROVE  Total(Column(0, e)) = 0
      <4>1. 0 \in 0..n
        OBVIOUS
      <4>2. Column(0, e) \in Terms(0)
        BY <1>1, <4>1
      <4>. HIDE DEF Column
      <4>3. Zeros(Column(0, e), 0, 0)
        BY DEF Zeros
      <4>. QED  BY <4>2, <4>3, TotalOfZeros
    <3>. QED  BY <3>1
  <2>2. Zeros(Columns(0), 0, m)
    <3>. HIDE DEF Column
    <3>. QED  BY <2>1 DEF Zeros
  <2>3. 0 \in 0..n
    OBVIOUS
  <2>4. Columns(0) \in Terms(m)
    BY <1>2, <2>3
  <2>. HIDE DEF Columns
  <2>5. Total(Columns(0)) = 0
    BY <2>2, <2>4, TotalOfZeros
  <2>6. PartSum(f, 0, 0) = 0
    BY <2>3, SumType
  <2>. QED  BY <2>5, <2>6
<1>4. ASSUME NEW k \in Nat, k \in S  PROVE  k + 1 \in S
  <2>1. SUFFICES ASSUME k + 1 <= n  PROVE  PartSum(f, 0, k + 1) = Total(Columns(k + 1))
    OBVIOUS
  <2>2. PICK j \in 1..n : j = k + 1 /\ j - 1 = k
    BY <2>1
  <2>3. j \in 0 + 1..n /\ j \in 0..n /\ k \in 0..n /\ 0 \in 0..n /\ j \in Nat
    BY <2>2
  <2>4. PartSum(f, 0, j) = PartSum(f, 0, j - 1) + f[j]
    BY <2>3, SumLast
  <2>5. ASSUME NEW e \in 1..m  PROVE  Total(Column(j, e)) = Total(Column(k, e)) + C[j][e]
    <3>1. Column(j, e) \in Terms(j) /\ Column(k, e) \in Terms(k)
      BY <1>1, <2>3
    <3>2. Agree(Column(j, e), Column(k, e), 0, k) /\ Column(j, e)[j] = C[j][e]
      BY <2>2 DEF Agree
    <3>. HIDE DEF Column
    <3>3. PartSum(Column(j, e), 0, j) = PartSum(Column(j, e), 0, j - 1) + Column(j, e)[j]
      <4>1. j \in 0 + 1..j /\ 0 \in 0..j
        BY <2>3
      <4>. QED  BY <2>3, <3>1, <4>1, SumLast
    <3>4. PartSum(Column(j, e), 0, k) = PartSum(Column(k, e), 0, k)
      <4>1. k \in 0..j /\ k <= k /\ 0 \in 0..j
        BY <2>2, <2>3
      <4>. QED  BY <2>3, <3>1, <3>2, <4>1, SumOfEquals
    <3>5. /\ PartSum(Column(j, e), 0, j) = Total(Column(j, e))
          /\ PartSum(Column(k, e), 0, k) = Total(Column(k, e))
      <4>1. 0 \in 0..j /\ j \in 0..j /\ 0 \in 0..k /\ k \in 0..k
        BY <2>3
      <4>. QED  BY <2>3, <3>1, <4>1, SumType
    <3>. QED  BY <2>2, <3>2, <3>3, <3>4, <3>5
  <2>6. AddsUp(Columns(j), Columns(k), C[j], m)
    <3>. HIDE DEF Column
    <3>. QED  BY <2>5 DEF AddsUp
  <2>7. Columns(j) \in Terms(m) /\ Columns(k) \in Terms(m) /\ C[j] \in Terms(m)
    BY <1>0, <1>2, <2>3
  <2>8. Total(C[j]) = f[j]
    BY DEF RowSums
  <2>9. PartSum(f, 0, k) = Total(Columns(k))
    BY <2>1, <1>4
  <2>. HIDE DEF Columns
  <2>10. Total(Columns(j)) = Total(Columns(k)) + Total(C[j])
    BY <2>6, <2>7, TotalOfSums
  <2>. QED  BY <2>2, <2>4, <2>8, <2>9, <2>10
<1>5. n \in S
  <2>. HIDE DEF S
  <2>. QED  BY <1>3, <1>4, SetInduction
<1>6. Columns(n) = g
  <2>1. \A e \in 1..m : Total(Column(n, e)) = g[e]
    BY DEF ColumnSums
  <2>. HIDE DEF Column
  <2>. QED  BY <2>1 DEF Terms
<1>. HIDE DEF Columns
<1>7. PartSum(f, 0, n) = Total(f)
  <2>1. 0 \in 0..n /\ n \in 0..n
    OBVIOUS
  <2>. QED  BY <2>1, SumType
<1>. QED  BY <1>5, <1>6, <1>7

-----------------------------------------------------------------------------
\* What a list of some dimensions in their order is.
Ordered(kept, dims) ==
    /\ kept \in [1..Cardinality(dims) -> dims]
    /\ \A i, j \in 1..Cardinality(dims) : i < j => kept[i] < kept[j]
    /\ \A d \in dims : \E i \in 1..Cardinality(dims) : kept[i] = d

\* One more dimension, after all others.
LEMMA OrderedAppend ==
    ASSUME NEW n \in Nat, NEW dims \in SUBSET (1..n), IsFiniteSet(dims), NEW kept, Ordered(kept, dims)
    PROVE  \E new : Ordered(new, dims \cup {n + 1})
<1>. DEFINE c == Cardinality(dims)
            new == [i \in 1..c + 1 |-> IF i = c + 1 THEN n + 1 ELSE kept[i]]
<1>1. c \in Nat
  BY FS_CardinalityType
<1>2. Cardinality(dims \cup {n + 1}) = c + 1
  BY FS_AddElement
<1>3. /\ kept \in [1..c -> dims]
      /\ \A i, j \in 1..c : i < j => kept[i] < kept[j]
      /\ \A d \in dims : \E i \in 1..c : kept[i] = d
  BY DEF Ordered
<1>. HIDE DEF c
<1>4. new \in [1..c + 1 -> dims \cup {n + 1}]
  BY <1>1, <1>3
<1>5. ASSUME NEW i \in 1..c + 1, NEW j \in 1..c + 1, i < j  PROVE  new[i] < new[j]
  <2>0. i \in 1..c /\ i # c + 1
    BY <1>1, <1>5
  <2>1. new[i] = kept[i] /\ kept[i] \in dims /\ kept[i] \in 1..n
    BY <1>3, <2>0
  <2>2. CASE j = c + 1
    <3>1. new[j] = n + 1
      BY <1>1, <2>2
    <3>. QED  BY <2>1, <3>1
  <2>3. CASE j # c + 1
    <3>1. j \in 1..c /\ new[j] = kept[j]
      BY <1>1, <2>3
    <3>. QED  BY <1>3, <1>5, <2>0, <2>1, <3>1
  <2>. QED  BY <2>2, <2>3
<1>6. ASSUME NEW d \in dims \cup {n + 1}  PROVE  \E i \in 1..c + 1 : new[i] = d
  <2>1. CASE d = n + 1
    BY <1>1, <2>1
  <2>2. CASE d \in dims
    <3>1. PICK i \in 1..c : kept[i] = d
      BY <1>3, <2>2
    <3>. QED  BY <1>1, <3>1
  <2>. QED  BY <2>1, <2>2
<1>. HIDE DEF new
<1>7. Ordered(new, dims \cup {n + 1})
  BY <1>2, <1>4, <1>5, <1>6 DEF Ordered
<1>. QED  BY <1>7

\* Some dimensions can be listed in their order, each of them once.
LEMMA AscendingFacts ==
    ASSUME NEW n \in Nat, NEW dims \in SUBSET (1..n)
    PROVE  /\ Cardinality(dims) \in Nat /\ Cardinality(dims) <= n
           /\ Ordered(Ascending(dims), dims)
<1>. DEFINE S == {m \in Nat : \A D \in SUBSET (1..m) : \E kept : Ordered(kept, D)}
<1>0. ASSUME NEW m \in Nat, NEW D \in SUBSET (1..m)
      PROVE  IsFiniteSet(D) /\ Cardinality(D) \in Nat /\ Cardinality(D) <= m
  <2>1. IsFiniteSet(1..m) /\ Cardinality(1..m) = m
    BY FS_Interval
  <2>. QED  BY <1>0, <2>1, FS_Subset, FS_CardinalityType
<1>1. 0 \in S
  <2>1. ASSUME NEW D \in SUBSET (1..0)  PROVE  Ordered(<<>>, D)
    <3>1. D = {}
      OBVIOUS
    <3>2. Cardinality(D) = 0
      BY <3>1, FS_EmptySet
    <3>. QED  BY <3>1, <3>2 DEF Ordered
  <2>. QED  BY <2>1
<1>2. ASSUME NEW m \in Nat, m \in S  PROVE  m + 1 \in S
  <2>1. ASSUME NEW D \in SUBSET (1..m + 1)  PROVE  \E kept : Ordered(kept, D)
    <3>1. CASE m + 1 \notin D
      <4>1. D \in SUBSET (1..m)
        BY <3>1
      <4>. QED  BY <1>2, <4>1
    <3>2. CASE m + 1 \in D
      <4>1. D \ {m + 1} \in SUBSET (1..m) /\ (D \ {m + 1}) \cup {m + 1} = D
        BY <3>2
      <4>2. PICK kept : Ordered(kept, D \ {m + 1})
        BY <1>2, <4>1
      <4>. QED  BY <1>0, <4>1, <4>2, OrderedAppend
    <3>. QED  BY <3>1, <3>2
  <2>. QED  BY <2>1
<1>3. n \in S
  <2>. HIDE DEF S
  <2>. QED  BY <1>1, <1>2, SetInduction
<1>4. PICK kept : Ordered(kept, dims)
  BY <1>3
<1>. DEFINE c == Cardinality(dims)
            Increasing(f) == \A i, j \in DOMAIN f : i < j => f[i] < f[j]
<1>5. c \in Nat
  BY <1>0
<1>6. ASSUME NEW f \in Bijection(1..c, dims), Increasing(f)  PROVE  Ordered(f, dims)
  BY <1>6 DEF Bijection, Surjection, Ordered
<1>7. kept \in Bijection(1..c, dims) /\ Increasing(kept)
  <2>1. ASSUME NEW i \in 1..c, NEW j \in 1..c, kept[i] = kept[j]  PROVE  i = j
    <3>1. kept[i] \in 1..n /\ kept[j] \in 1..n
      BY <1>4 DEF Ordered
    <3>2. ~(i < j) /\ ~(j < i)
      BY <1>4, <2>1, <3>1 DEF Ordered
    <3>. QED  BY <1>5, <3>2
  <2>. QED  BY <1>4, <2>1 DEF Ordered, Bijection, Injection, Surjection, IsInjective
<1>8. Ascending(dims) \in Bijection(1..c, dims) /\ Increasing(Ascending(dims))
  BY <1>7, Zenon DEF Ascending
<1>. QED  BY <1>0, <1>6, <1>8

LEMMA BoundedSequence ==
    ASSUME NEW S, NEW n \in Nat
    PROVE  \A s : s \in BoundedSeq(S, n) <=> s \in Seq(S) /\ Len(s) <= n
<1>1. ASSUME NEW s, s \in BoundedSeq(S, n)  PROVE  s \in Seq(S) /\ Len(s) <= n
  <2>1. PICK m \in 0..n : s \in [1..m -> S]
    BY <1>1 DEF BoundedSeq, SeqOf
  <2>. QED  BY <2>1
<1>2. ASSUME NEW s \in Seq(S), Len(s) <= n  PROVE  s \in BoundedSeq(S, n)
  <2>1. s \in [1..Len(s) -> S] /\ Len(s) \in 0..n
    BY <1>2
  <2>. QED  BY <2>1 DEF BoundedSeq, SeqOf
<1>. QED  BY <1>1, <1>2

-----------------------------------------------------------------------------
\* Dimensions of one tensor that correspond to dimensions of another: "to" and
\* "from" name them, and are 0 where there is none.
Correspond(to, from, n, m) ==
    /\ to \in [1..n -> 0..m] /\ from \in [1..m -> 0..n]
    /\ \A d \in 1..n, e \in 1..m : to[d] = e <=> from[e] = d

Carried(f, g, to, from, n, m) ==
    /\ \A d \in 1..n : f[d] = IF to[d] = 0 THEN 0 ELSE g[to[d]]
    /\ \A e \in 1..m : from[e] = 0 => g[e] = 0

\* Sums over corresponding dimensions are equal.
LEMMA CarriedSum ==
    ASSUME NEW n \in Nat, NEW m \in Nat, NEW to, NEW from, Correspond(to, from, n, m),
           NEW f \in Terms(n), NEW g \in Terms(m), Carried(f, g, to, from, n, m)
    PROVE  Total(f) = Total(g)
<1>. DEFINE C == [d \in 1..n |-> [e \in 1..m |-> IF to[d] = e THEN f[d] ELSE 0]]
<1>1. \A d \in 1..n : f[d] \in Int
  BY DEF Terms
<1>2. /\ to \in [1..n -> 0..m] /\ from \in [1..m -> 0..n]
      /\ \A d \in 1..n, e \in 1..m : to[d] = e <=> from[e] = d
  BY DEF Correspond
<1>3. C \in Tables(n, m)
  BY <1>1 DEF Tables, Terms
<1>4. ASSUME NEW d \in 1..n  PROVE  Total(C[d]) = f[d]
  <2>1. C[d] \in Terms(m) /\ \A e \in 1..m : C[d][e] = IF to[d] = e THEN f[d] ELSE 0
    BY <1>1 DEF Terms
  <2>. HIDE DEF C
  <2>2. CASE to[d] = 0
    <3>1. Zeros(C[d], 0, m) /\ f[d] = 0
      BY <2>1, <2>2 DEF Zeros, Carried
    <3>. QED  BY <2>1, <3>1, TotalOfZeros
  <2>3. CASE to[d] # 0
    <3>1. PICK e \in 1..m : e = to[d]
      BY <1>2, <2>3
    <3>2. OnlyAt(C[d], e, e, m) /\ C[d][e] = f[d]
      BY <2>1, <3>1 DEF OnlyAt
    <3>. QED  BY <2>1, <3>2, TotalOfOne
  <2>. QED  BY <2>2, <2>3
<1>5. ASSUME NEW e \in 1..m  PROVE  Total([d \in 1..n |-> C[d][e]]) = g[e]
  <2>. DEFINE col == [d \in 1..n |-> C[d][e]]
  <2>1. col \in Terms(n) /\ \A d \in 1..n : col[d] = IF to[d] = e THEN f[d] ELSE 0
    BY <1>1 DEF Terms
  <2>. HIDE DEF C, col
  <2>2. CASE from[e] = 0
    <3>1. Zeros(col, 0, n) /\ g[e] = 0
      BY <1>2, <2>1, <2>2 DEF Zeros, Carried
    <3>. QED  BY <2>1, <3>1, TotalOfZeros DEF col
  <2>3. CASE from[e] # 0
    <3>1. PICK d \in 1..n : d = from[e]
      BY <1>2, <2>3
    <3>2. to[d] = e /\ e # 0
      BY <1>2, <3>1
    <3>3. OnlyAt(col, d, d, n)
      BY <1>2, <2>1, <3>1 DEF OnlyAt
    <3>4. col[d] = f[d] /\ f[d] = g[e]
      BY <2>1, <3>2 DEF Carried
    <3>5. Total(col) = col[d]
      BY <2>1, <3>3, TotalOfOne
    <3>. QED  BY <3>4, <3>5 DEF col
  <2>. QED  BY <2>2, <2>3
<1>. HIDE DEF C
<1>6. RowSums(C, f, n) /\ ColumnSums(C, g, m, n)
  BY <1>4, <1>5 DEF RowSums, ColumnSums
<1>. QED  BY <1>3, <1>6, RowsAndColumns

\* The value of a list of numbers at a position, or 0 where there is none.
Picked(s, i) == IF i = 0 THEN 0 ELSE s[i]

\* Tensor u is derived from tensor t: the index in dimension d of t is first[d]
\* plus "step[d]" times the index in dimension to[d] of u, plus the one in
\* dimension beside[d]; and strides and offset of u go along with that.
Source(t, first, step, to, beside, y) ==
    [d \in 1..Rank(t) |-> first[d] + step[d] * Picked(y, to[d]) + Picked(y, beside[d])]

Derives(u, t, first, step, to, from, beside, whence) ==
    /\ Correspond(to, from, Rank(t), Rank(u)) /\ Correspond(beside, whence, Rank(t), Rank(u))
    /\ first \in Sizes(Rank(t)) /\ step \in Sizes(Rank(t))
    /\ u.offset = t.offset + Total(Products(first, t.strides, Rank(t)))
    /\ \A e \in 1..Rank(u) :
          u.sizes[e] <= 1 \/ u.strides[e] = (IF from[e] = 0 THEN 0 ELSE step[from[e]] * t.strides[from[e]])
                                             + Picked(t.strides, whence[e])

LEMMA ProductsType ==
    ASSUME NEW n \in Nat, NEW x \in Terms(n), NEW s \in Terms(n)
    PROVE  Products(x, s, n) \in Terms(n)
  BY DEF Products, Terms

\* Then the elements of u are where t has its own.
LEMMA DerivedElement ==
    ASSUME NEW t, IsTensor(t), NEW u, IsTensor(u), NEW first, NEW step, NEW to, NEW from,
           NEW beside, NEW whence, Derives(u, t, first, step, to, from, beside, whence),
           NEW y \in Indices1(u.sizes, Rank(u))
    PROVE  Where(t, Source(t, first, step, to, beside, y)) = Where(u, y)
<1>. DEFINE n == Rank(t)
            m == Rank(u)
            s == t.strides
            x == Source(t, first, step, to, beside, y)
            f0 == Products(first, s, n)
            f1 == [d \in 1..n |-> (step[d] * Picked(y, to[d])) * s[d]]
            f2 == [d \in 1..n |-> Picked(y, beside[d]) * s[d]]
            f12 == [d \in 1..n |-> f1[d] + f2[d]]
            g1 == [e \in 1..m |-> IF from[e] = 0 THEN 0 ELSE (step[from[e]] * y[e]) * s[from[e]]]
            g2 == [e \in 1..m |-> y[e] * Picked(s, whence[e])]
<1>1. /\ n \in Nat /\ m \in Nat /\ s \in Terms(n) /\ u.strides \in Terms(m) /\ t.offset \in Int
      /\ u.offset \in Int /\ u.sizes \in Sizes(m)
  BY TensorType
<1>2. /\ first \in [1..n -> Nat] /\ step \in [1..n -> Nat] /\ s \in [1..n -> Int]
      /\ y \in [1..m -> Nat] /\ \A e \in 1..m : y[e] < u.sizes[e]
  BY <1>1 DEF Derives, Sizes, Terms, Indices1
<1>3. /\ to \in [1..n -> 0..m] /\ from \in [1..m -> 0..n] /\ beside \in [1..n -> 0..m]
      /\ whence \in [1..m -> 0..n]
  BY DEF Derives, Correspond
<1>. HIDE DEF n, m, s
<1>4. /\ \A d \in 1..n : step[d] \in Int /\ Picked(y, to[d]) \in Int /\ Picked(y, beside[d]) \in Int /\ s[d] \in Int
      /\ \A d \in 1..n : first[d] \in Int
      /\ \A e \in 1..m : y[e] \in Int /\ Picked(s, whence[e]) \in Int
      /\ \A e \in 1..m : from[e] # 0 => step[from[e]] \in Int /\ s[from[e]] \in Int
  <2>1. ASSUME NEW i \in 0..m  PROVE  Picked(y, i) \in Int
    <3>1. i # 0 => i \in 1..m
      BY <1>1
    <3>. QED  BY <1>2, <3>1 DEF Picked
  <2>2. ASSUME NEW i \in 0..n  PROVE  Picked(s, i) \in Int
    <3>1. i # 0 => i \in 1..n
      BY <1>1
    <3>. QED  BY <1>2, <3>1 DEF Picked
  <2>3. \A d \in 1..n : to[d] \in 0..m /\ beside[d] \in 0..m
    BY <1>3
  <2>4. \A e \in 1..m : from[e] \in 0..n /\ whence[e] \in 0..n /\ (from[e] # 0 => from[e] \in 1..n)
    BY <1>1, <1>3
  <2>5. \A d \in 1..n : step[d] \in Int /\ s[d] \in Int /\ first[d] \in Int
    BY <1>2
  <2>6. \A e \in 1..m : y[e] \in Int
    BY <1>2
  <2>. QED  BY <2>1, <2>2, <2>3, <2>4, <2>5, <2>6
<1>5. /\ f0 \in Terms(n) /\ f1 \in Terms(n) /\ f2 \in Terms(n) /\ f12 \in Terms(n)
      /\ g1 \in Terms(m) /\ g2 \in Terms(m)
  <2>0. \A a, b \in Int : a * b \in Int /\ a + b \in Int
    OBVIOUS
  <2>1. f0 \in Terms(n)
    BY <1>4, <2>0 DEF Terms, Products
  <2>2. f1 \in Terms(n)
    <3>1. \A d \in 1..n : step[d] * Picked(y, to[d]) \in Int
      BY <1>4, <2>0
    <3>. QED  BY <1>4, <2>0, <3>1 DEF Terms
  <2>3. f2 \in Terms(n)
    BY <1>4, <2>0 DEF Terms
  <2>4. f12 \in Terms(n)
    <3>. HIDE DEF f1, f2
    <3>. QED  BY <2>0, <2>2, <2>3 DEF Terms
  <2>5. g1 \in Terms(m)
    <3>1. ASSUME NEW e \in 1..m, from[e] # 0  PROVE  (step[from[e]] * y[e]) * s[from[e]] \in Int
      <4>1. step[from[e]] * y[e] \in Int
        BY <1>4, <2>0, <3>1
      <4>. QED  BY <1>4, <2>0, <3>1, <4>1
    <3>. QED  BY <3>1 DEF Terms
  <2>6. g2 \in Terms(m)
    BY <1>4, <2>0 DEF Terms
  <2>. QED  BY <2>1, <2>2, <2>3, <2>4, <2>5, <2>6
<1>6. x \in Terms(n) /\ Products(x, s, n) \in Terms(n) /\ Products(y, u.strides, m) \in Terms(m)
  <2>1. x = [d \in 1..n |-> first[d] + step[d] * Picked(y, to[d]) + Picked(y, beside[d])]
    BY DEF Source, n
  <2>2. x \in Terms(n)
    BY <1>4, <2>1, Times DEF Terms
  <2>3. y \in Terms(m)
    BY <1>2 DEF Terms
  <2>. HIDE DEF x
  <2>. QED  BY <1>1, <2>2, <2>3, ProductsType
<1>7. AddsUp(Products(x, s, n), f0, f12, n)
  <2>1. ASSUME NEW d \in 1..n  PROVE  x[d] * s[d] = first[d] * s[d] + (f1[d] + f2[d])
    <3>1. x[d] = first[d] + step[d] * Picked(y, to[d]) + Picked(y, beside[d])
      BY DEF Source, n
    <3>2. ASSUME NEW a \in Int, NEW b \in Int, NEW c \in Int, NEW z \in Int
          PROVE  (a + b + c) * z = a * z + (b * z + c * z)
      OBVIOUS
    <3>3. step[d] * Picked(y, to[d]) \in Int
      BY <1>4, Times
    <3>. HIDE DEF x
    <3>. QED  BY <1>4, <3>1, <3>2, <3>3
  <2>. HIDE DEF x, f1, f2
  <2>. QED  BY <2>1 DEF AddsUp, Products
<1>8. AddsUp(f12, f1, f2, n)
  BY DEF AddsUp
<1>9. Carried(f1, g1, to, from, n, m)
  <2>1. ASSUME NEW d \in 1..n  PROVE  f1[d] = IF to[d] = 0 THEN 0 ELSE g1[to[d]]
    <3>1. CASE to[d] = 0
      BY <1>4, <3>1 DEF Picked
    <3>2. CASE to[d] # 0
      <4>1. PICK e \in 1..m : e = to[d]
        BY <1>3, <3>2
      <4>2. from[e] = d /\ d # 0
        BY <4>1 DEF Derives, Correspond, n, m
      <4>. QED  BY <3>2, <4>1, <4>2 DEF Picked
    <3>. QED  BY <3>1, <3>2
  <2>. QED  BY <2>1 DEF Carried
<1>10. Carried(f2, g2, beside, whence, n, m)
  <2>1. ASSUME NEW d \in 1..n  PROVE  f2[d] = IF beside[d] = 0 THEN 0 ELSE g2[beside[d]]
    <3>1. CASE beside[d] = 0
      BY <1>4, <3>1 DEF Picked
    <3>2. CASE beside[d] # 0
      <4>1. PICK e \in 1..m : e = beside[d]
        BY <1>3, <3>2
      <4>2. whence[e] = d /\ d # 0
        BY <4>1 DEF Derives, Correspond, n, m
      <4>. QED  BY <3>2, <4>1, <4>2 DEF Picked
    <3>. QED  BY <3>1, <3>2
  <2>2. ASSUME NEW e \in 1..m, whence[e] = 0  PROVE  g2[e] = 0
    BY <1>4, <2>2 DEF Picked
  <2>. QED  BY <2>1, <2>2 DEF Carried
<1>11. AddsUp(Products(y, u.strides, m), g1, g2, m)
  <2>1. ASSUME NEW e \in 1..m  PROVE  y[e] * u.strides[e] = g1[e] + g2[e]
    <3>1. CASE u.sizes[e] <= 1
      <4>1. y[e] = 0 /\ u.strides[e] \in Int
        BY <1>1, <1>2, <3>1 DEF Sizes, Terms
      <4>2. \A z \in Int : 0 * z = 0 /\ z * 0 = 0
        OBVIOUS
      <4>3. g1[e] = 0 /\ g2[e] = 0
        BY <1>4, <4>1, <4>2
      <4>. QED  BY <4>1, <4>2, <4>3
    <3>2. CASE ~(u.sizes[e] <= 1)
      <4>1. u.strides[e] = (IF from[e] = 0 THEN 0 ELSE step[from[e]] * s[from[e]])
                             + Picked(s, whence[e])
        BY <3>2 DEF Derives, m, s
      <4>2. CASE from[e] = 0
        <5>1. u.strides[e] = Picked(s, whence[e])
          BY <1>4, <4>1, <4>2
        <5>2. y[e] * Picked(s, whence[e]) \in Int
          BY <1>4, Times
        <5>. QED  BY <4>2, <5>1, <5>2
      <4>3. CASE from[e] # 0
        <5>1. ASSUME NEW a \in Int, NEW b \in Int, NEW c \in Int, NEW z \in Int
              PROVE  a * (b * c + z) = (b * a) * c + a * z
          BY Times
        <5>. QED  BY <1>4, <4>1, <4>3, <5>1
      <4>. QED  BY <4>2, <4>3
    <3>. QED  BY <3>1, <3>2
  <2>. HIDE DEF g1, g2
  <2>. QED  BY <2>1 DEF AddsUp, Products
<1>. HIDE DEF x, f0, f1, f2, f12, g1, g2
<1>12. Total(Products(x, s, n)) = Total(f0) + Total(f12) /\ Total(f12) = Total(f1) + Total(f2)
  BY <1>1, <1>5, <1>6, <1>7, <1>8, TotalOfSums
<1>13. Total(f1) = Total(g1) /\ Total(f2) = Total(g2)
  <2>1. Correspond(to, from, n, m) /\ Correspond(beside, whence, n, m)
    BY DEF Derives, n, m
  <2>. QED  BY <1>1, <1>5, <1>9, <1>10, <2>1, CarriedSum
<1>14. Total(Products(y, u.strides, m)) = Total(g1) + Total(g2)
  BY <1>1, <1>5, <1>6, <1>11, TotalOfSums
<1>15. u.offset = t.offset + Total(f0)
  BY DEF Derives, f0, n, s
<1>16. Total(f0) \in Int /\ Total(g1) \in Int /\ Total(g2) \in Int
  <2>1. 0 \in 0..n /\ n \in 0..n /\ 0 \in 0..m /\ m \in 0..m
    BY <1>1
  <2>. QED  BY <1>1, <1>5, <2>1, SumType
<1>17. Total(Products(x, s, n)) = Total(f0) + (Total(g1) + Total(g2))
  BY <1>12, <1>13
<1>. QED  BY <1>1, <1>14, <1>15, <1>16, <1>17 DEF Where, n, m, s, x

-----------------------------------------------------------------------------
\* What chains of operations keep: a tensor has as many strides as sizes, none
\* of them negative, and its elements are in the storage.
IsView(t) == \E n \in Nat : t \in [sizes : Sizes(n), strides : Sizes(n), offset : Nat]

ViewInv ==
    /\ IsView(tensor)
    /\ Elements(tensor) \subseteq 0..StorageSize - 1
    /\ Numel(tensor.sizes) <= MaxNumel

Within(u, t) == Elements(u) \subseteq Elements(t)

LEMMA ViewType ==
    ASSUME NEW t, IsView(t)
    PROVE  /\ IsTensor(t) /\ t.strides \in Sizes(Rank(t)) /\ t.offset \in Nat
           /\ t = [sizes |-> t.sizes, strides |-> t.strides, offset |-> t.offset]
<1>1. PICK n \in Nat : t \in [sizes : Sizes(n), strides : Sizes(n), offset : Nat]
  BY DEF IsView
<1>2. t \in [sizes : Sizes(n), strides : Terms(n), offset : Int]
  BY <1>1, SizesAreTerms
<1>3. IsTensor(t)
  BY <1>1, <1>2 DEF IsTensor
<1>4. Rank(t) = n
  BY <1>1 DEF Rank, Sizes
<1>. QED  BY <1>1, <1>3, <1>4

LEMMA MakeView ==
    ASSUME NEW n \in Nat, NEW sizes \in Sizes(n), NEW strides \in Sizes(n), NEW offset \in Nat
    PROVE  LET u == [sizes |-> sizes, strides |-> strides, offset |-> offset]
           IN  IsView(u) /\ IsTensor(u) /\ Rank(u) = n
<1>. DEFINE u == [sizes |-> sizes, strides |-> strides, offset |-> offset]
<1>1. IsView(u) /\ Rank(u) = n
  BY DEF IsView, Rank, Sizes
<1>. HIDE DEF u
<1>2. IsTensor(u)
  BY <1>1, ViewType
<1>. QED  BY <1>1, <1>2 DEF u

\* The indices that u's indices correspond to exist.
InRange(u, t, first, step, to, beside) ==
    \A y \in Indices1(u.sizes, Rank(u)) : \A d \in 1..Rank(t) :
        first[d] + step[d] * Picked(y, to[d]) + Picked(y, beside[d]) < t.sizes[d]

LEMMA DerivedWithin ==
    ASSUME NEW t, IsView(t), NEW u, IsView(u), NEW first, NEW step, NEW to, NEW from,
           NEW beside, NEW whence, Derives(u, t, first, step, to, from, beside, whence),
           InRange(u, t, first, step, to, beside)
    PROVE  Within(u, t)
<1>. DEFINE n == Rank(t)
            m == Rank(u)
<1>1. IsTensor(t) /\ IsTensor(u) /\ n \in Nat /\ m \in Nat
  BY ViewType, TensorType
<1>. HIDE DEF n, m
<1>2. ASSUME NEW y \in Indices1(u.sizes, m)  PROVE  Where(u, y) \in Elements(t)
  <2>. DEFINE x == Source(t, first, step, to, beside, y)
  <2>1. /\ first \in [1..n -> Nat] /\ step \in [1..n -> Nat] /\ y \in [1..m -> Nat]
        /\ to \in [1..n -> 0..m] /\ beside \in [1..n -> 0..m]
    BY DEF Derives, Correspond, Sizes, Indices1, n, m
  <2>2. ASSUME NEW i \in 0..m  PROVE  Picked(y, i) \in Nat
    <3>1. i # 0 => i \in 1..m
      BY <1>1
    <3>. QED  BY <2>1, <3>1 DEF Picked
  <2>3. ASSUME NEW d \in 1..n  PROVE  x[d] \in Nat /\ x[d] < t.sizes[d]
    <3>1. x[d] = first[d] + step[d] * Picked(y, to[d]) + Picked(y, beside[d])
      BY DEF Source, n
    <3>2. first[d] \in Nat /\ step[d] \in Nat /\ Picked(y, to[d]) \in Nat /\ Picked(y, beside[d]) \in Nat
      BY <2>1, <2>2
    <3>3. step[d] * Picked(y, to[d]) \in Nat
      BY <3>2, ProductOfNats
    <3>4. first[d] + step[d] * Picked(y, to[d]) + Picked(y, beside[d]) < t.sizes[d]
      BY DEF InRange, n, m
    <3>. HIDE DEF x
    <3>. QED  BY <3>1, <3>2, <3>3, <3>4
  <2>4. x \in Indices1(t.sizes, n)
    <3>1. x = [d \in 1..n |-> x[d]]
      BY DEF Source, n
    <3>. HIDE DEF x
    <3>. QED  BY <2>3, <3>1 DEF Indices1, Sizes
  <2>5. Where(t, x) = Where(u, y)
    <3>1. y \in Indices1(u.sizes, Rank(u))
      BY DEF m
    <3>2. Where(t, Source(t, first, step, to, beside, y)) = Where(u, y)
      <4>. HIDE DEF x
      <4>. QED  BY <1>1, <3>1, DerivedElement
    <3>. QED  BY <3>2
  <2>. HIDE DEF x
  <2>. QED  BY <2>4, <2>5 DEF Elements, n
<1>. QED  BY <1>2 DEF Within, Elements, m

\* A view whose elements are those of the tensor fits into the storage, so
\* that as_strided accepts it.
LEMMA AsStridedStays ==
    ASSUME ViewInv, NEW u, IsView(u), Within(u, tensor), AsStrided(u.sizes, u.strides, u.offset)
    PROVE  /\ tensor' = u /\ IsView(u) /\ Numel(u.sizes) <= MaxNumel
           /\ Elements(u) \subseteq Elements(tensor)
<1>. DEFINE n == Rank(u)
            needed == StorageNeeded(u.sizes, u.strides)
<1>1. /\ n \in Nat /\ u.sizes \in Sizes(n) /\ u.strides \in Sizes(n) /\ u.offset \in Nat
      /\ DOMAIN u.sizes = 1..n
      /\ u = [sizes |-> u.sizes, strides |-> u.strides, offset |-> u.offset]
  BY ViewType, TensorType
<1>2. /\ Numel(u.sizes) <= MaxNumel
      /\ tensor' = IF (needed > 0 /\ u.offset + needed > StorageSize) \/ u.offset < 0
                   THEN Refused
                   ELSE [sizes |-> u.sizes, strides |-> u.strides, offset |-> u.offset]
  BY DEF AsStrided
<1>. HIDE DEF n
<1>3. needed > 0 => u.offset + needed <= StorageSize
  <2>1. CASE \E d \in 1..n : u.sizes[d] = 0
    BY <1>1, <2>1 DEF StorageNeeded
  <2>2. CASE ~\E d \in 1..n : u.sizes[d] = 0
    <3>. DEFINE y == [d \in 1..n |-> u.sizes[d] - 1]
    <3>1. \A d \in 1..n : u.sizes[d] \in Nat /\ u.sizes[d] # 0 /\ u.strides[d] \in Nat
      BY <1>1, <2>2 DEF Sizes
    <3>2. y \in Indices1(u.sizes, n)
      BY <3>1 DEF Indices1, Sizes
    <3>3. [d \in DOMAIN u.sizes |-> u.strides[d] * (u.sizes[d] - 1)] = Products(y, u.strides, n)
      <4>1. ASSUME NEW d \in 1..n  PROVE  u.strides[d] * (u.sizes[d] - 1) = y[d] * u.strides[d]
        <5>1. u.strides[d] \in Int /\ u.sizes[d] - 1 \in Int
          BY <3>1
        <5>. QED  BY <5>1, Times
      <4>. QED  BY <1>1, <4>1 DEF Products
    <3>4. needed = 1 + Total(Products(y, u.strides, n))
      BY <1>1, <2>2, <3>3 DEF StorageNeeded
    <3>5. Where(u, y) = u.offset + Total(Products(y, u.strides, n))
      BY DEF Where, n
    <3>6. Where(u, y) \in 0..StorageSize - 1
      <4>. HIDE DEF y
      <4>. QED  BY <3>2 DEF Within, Elements, ViewInv, n
    <3>7. Total(Products(y, u.strides, n)) \in Int
      <4>1. y \in Terms(n) /\ u.strides \in Terms(n) /\ 0 \in 0..n /\ n \in 0..n
        BY <1>1, <3>1 DEF Terms, Sizes
      <4>. HIDE DEF y
      <4>. QED  BY <1>1, <4>1, ProductsType, SumType
    <3>. HIDE DEF y, needed
    <3>. QED  BY <1>1, <3>4, <3>5, <3>6, <3>7, BoundsAssumption
  <2>. QED  BY <2>1, <2>2
<1>4. ~(needed > 0 /\ u.offset + needed > StorageSize)
  <2>1. CASE \E d \in 1..n : u.sizes[d] = 0
    BY <1>1, <2>1 DEF StorageNeeded
  <2>2. CASE ~\E d \in 1..n : u.sizes[d] = 0
    <3>1. needed \in Int
      <4>1. needed = 1 + Total([d \in DOMAIN u.sizes |-> u.strides[d] * (u.sizes[d] - 1)])
        BY <1>1, <2>2 DEF StorageNeeded
      <4>2. [d \in DOMAIN u.sizes |-> u.strides[d] * (u.sizes[d] - 1)] \in Terms(n)
        <5>1. \A d \in 1..n : u.sizes[d] - 1 \in Int /\ u.strides[d] \in Int
          BY <1>1 DEF Sizes
        <5>. QED  BY <1>1, <5>1, Times DEF Terms
      <4>3. 0 \in 0..n /\ n \in 0..n
        BY <1>1
      <4>. HIDE DEF needed
      <4>. QED  BY <1>1, <4>1, <4>2, <4>3, SumType
    <3>. HIDE DEF needed
    <3>. QED  BY <1>1, <1>3, <3>1, BoundsAssumption
  <2>. QED  BY <2>1, <2>2
<1>5. tensor' = u
  <2>1. ~(u.offset < 0)
    BY <1>1
  <2>. HIDE DEF needed
  <2>. QED  BY <1>1, <1>2, <1>4, <2>1
<1>. QED  BY <1>2, <1>5 DEF Within

-----------------------------------------------------------------------------
\* Lists as functions: one element less, one more, and one more at the end.
LEMMA Removed ==
    ASSUME NEW n \in Nat, NEW s \in Sizes(n), NEW d \in 1..n
    PROVE  /\ RemoveAt(s, d) = [e \in 1..n - 1 |-> s[IF e < d THEN e ELSE e + 1]]
           /\ RemoveAt(s, d) \in Sizes(n - 1)
<1>1. s \in Seq(Nat) /\ Len(s) = n /\ s \in [1..n -> Nat]
  BY DEF Sizes
<1>. DEFINE r == RemoveAt(s, d)
<1>2. /\ r \in Seq(Nat) /\ Len(r) = n - 1
      /\ \A e \in 1..n - 1 : r[e] = IF e < d THEN s[e] ELSE s[e + 1]
  BY <1>1, RemoveAtFacts
<1>. HIDE DEF r
<1>3. r \in [1..n - 1 -> Nat]
  BY <1>2
<1>4. \A e \in 1..n - 1 : r[e] = s[IF e < d THEN e ELSE e + 1]
  BY <1>2
<1>5. r = [e \in 1..n - 1 |-> s[IF e < d THEN e ELSE e + 1]]
  BY <1>3, <1>4
<1>. QED  BY <1>3, <1>5 DEF r, Sizes

LEMMA Inserted ==
    ASSUME NEW n \in Nat, NEW s \in Sizes(n), NEW d \in 1..n + 1, NEW x \in Nat
    PROVE  /\ InsertAt(s, d, x) =
                [e \in 1..n + 1 |-> IF e < d THEN s[e] ELSE IF e = d THEN x ELSE s[e - 1]]
           /\ InsertAt(s, d, x) \in Sizes(n + 1)
<1>1. s \in Seq(Nat) /\ Len(s) = n /\ s \in [1..n -> Nat]
  BY DEF Sizes
<1>. DEFINE a == SubSeq(s, 1, d - 1)
            b == SubSeq(s, d, n)
            r == (a \o <<x>>) \o b
<1>2. /\ a \in Seq(Nat) /\ Len(a) = d - 1 /\ \A e \in 1..d - 1 : a[e] = s[e]
  <2>1. 1 \in 1..Len(s) + 1 /\ d - 1 \in 1 - 1..Len(s)
    BY <1>1
  <2>2. /\ a \in Seq(Nat) /\ Len(a) = (d - 1) - 1 + 1
        /\ \A e \in 1..(d - 1) - 1 + 1 : a[e] = s[1 + e - 1]
    BY <1>1, <2>1, SubSeqProperties
  <2>. HIDE DEF a
  <2>. QED  BY <2>2
<1>3. /\ b \in Seq(Nat) /\ Len(b) = n - d + 1 /\ \A e \in 1..n - d + 1 : b[e] = s[d + e - 1]
  <2>1. d \in 1..Len(s) + 1 /\ n \in d - 1..Len(s)
    BY <1>1
  <2>. QED  BY <1>1, <2>1, SubSeqProperties
<1>. HIDE DEF a, b
<1>4. /\ a \o <<x>> \in Seq(Nat) /\ Len(a \o <<x>>) = d
      /\ \A e \in 1..d : (a \o <<x>>)[e] = IF e <= d - 1 THEN a[e] ELSE x
  BY <1>2
<1>5. /\ r \in Seq(Nat) /\ Len(r) = n + 1
      /\ \A e \in 1..n + 1 : r[e] = IF e <= d THEN (a \o <<x>>)[e] ELSE b[e - d]
  <2>. DEFINE c == a \o <<x>>
  <2>1. c \in Seq(Nat) /\ Len(c) = d
    BY <1>4
  <2>. HIDE DEF c
  <2>2. /\ c \o b \in Seq(Nat) /\ Len(c \o b) = Len(c) + Len(b)
        /\ \A e \in 1..Len(c) + Len(b) : (c \o b)[e] = IF e <= Len(c) THEN c[e] ELSE b[e - Len(c)]
    BY <1>3, <2>1, ConcatProperties
  <2>3. Len(c) + Len(b) = n + 1
    BY <1>3, <2>1
  <2>. QED  BY <2>1, <2>2, <2>3 DEF c
<1>6. r = InsertAt(s, d, x)
  BY <1>1 DEF InsertAt, a, b
<1>. HIDE DEF r
<1>7. ASSUME NEW e \in 1..n + 1
      PROVE  r[e] = IF e < d THEN s[e] ELSE IF e = d THEN x ELSE s[e - 1]
  <2>1. CASE e < d
    <3>1. e <= d /\ e \in 1..d /\ e <= d - 1 /\ e \in 1..d - 1
      BY <2>1
    <3>. QED  BY <1>2, <1>4, <1>5, <2>1, <3>1
  <2>2. CASE e = d
    <3>1. e <= d /\ e \in 1..d /\ ~(e <= d - 1)
      BY <2>2
    <3>. QED  BY <1>4, <1>5, <2>2, <3>1
  <2>3. CASE e > d
    <3>1. PICK f \in 1..n - d + 1 : f = e - d /\ d + f - 1 = e - 1
      BY <2>3
    <3>2. r[e] = b[f]
      BY <1>5, <2>3, <3>1
    <3>3. b[f] = s[e - 1]
      BY <1>3, <3>1
    <3>4. ~(e < d) /\ e # d
      BY <2>3
    <3>. QED  BY <3>2, <3>3, <3>4
  <2>. QED  BY <2>1, <2>2, <2>3
<1>8. r \in [1..n + 1 -> Nat]
  BY <1>5
<1>9. r = [e \in 1..n + 1 |-> IF e < d THEN s[e] ELSE IF e = d THEN x ELSE s[e - 1]]
  BY <1>7, <1>8
<1>. QED  BY <1>6, <1>8, <1>9 DEF Sizes

LEMMA Appended ==
    ASSUME NEW n \in Nat, NEW s \in Sizes(n), NEW x \in Nat
    PROVE  /\ Append(s, x) = [e \in 1..n + 1 |-> IF e = n + 1 THEN x ELSE s[e]]
           /\ Append(s, x) \in Sizes(n + 1)
<1>1. s \in Seq(Nat) /\ Len(s) = n /\ s \in [1..n -> Nat]
  BY DEF Sizes
<1>2. /\ Append(s, x) \in Seq(Nat) /\ Len(Append(s, x)) = n + 1
      /\ \A e \in 1..n : Append(s, x)[e] = s[e]
      /\ Append(s, x)[n + 1] = x
  BY <1>1, AppendProperties
<1>. DEFINE r == Append(s, x)
<1>. HIDE DEF r
<1>3. r \in [1..n + 1 -> Nat] /\ \A e \in 1..n + 1 : r[e] = IF e = n + 1 THEN x ELSE s[e]
  <2>1. r \in Seq(Nat) /\ Len(r) = n + 1 /\ r[n + 1] = x /\ \A e \in 1..n : r[e] = s[e]
    BY <1>2 DEF r
  <2>2. \A e \in 1..n + 1 : e # n + 1 => e \in 1..n
    OBVIOUS
  <2>. QED  BY <2>1, <2>2
<1>4. r = [e \in 1..n + 1 |-> IF e = n + 1 THEN x ELSE s[e]]
  BY <1>3
<1>. QED  BY <1>3, <1>4 DEF r, Sizes

-----------------------------------------------------------------------------
\* Operations that only leave out, reorder or repeat dimensions.
None(n) == [d \in 1..n |-> 0]
Ones(n) == [d \in 1..n |-> 1]

LEMMA NothingBeside ==
    ASSUME NEW n \in Nat, NEW m \in Nat
    PROVE  Correspond(None(n), None(m), n, m) /\ None(n) \in Sizes(n) /\ Ones(n) \in Sizes(n)
  BY DEF Correspond, None, Ones, Sizes

LEMMA NoFirst ==
    ASSUME NEW n \in Nat, NEW s \in Terms(n)
    PROVE  Total(Products(None(n), s, n)) = 0
<1>1. \A d \in 1..n : s[d] \in Int /\ 0 * s[d] = 0
  BY DEF Terms
<1>2. Products(None(n), s, n) \in Terms(n) /\ Zeros(Products(None(n), s, n), 0, n)
  BY <1>1 DEF None, Terms, Zeros, Products
<1>. QED  BY <1>2, TotalOfZeros

Regroups(u, t, to, from) ==
    /\ Correspond(to, from, Rank(t), Rank(u))
    /\ u.offset = t.offset
    /\ \A e \in 1..Rank(u) : u.sizes[e] <= 1 \/ u.strides[e] = Picked(t.strides, from[e])
    /\ \A d \in 1..Rank(t) : IF to[d] = 0 THEN t.sizes[d] # 0 ELSE u.sizes[to[d]] <= t.sizes[d]

LEMMA RegroupedWithin ==
    ASSUME NEW t, IsView(t), NEW u, IsView(u), NEW to, NEW from, Regroups(u, t, to, from)
    PROVE  Within(u, t)
<1>. DEFINE n == Rank(t)
            m == Rank(u)
<1>1. /\ IsTensor(t) /\ IsTensor(u) /\ n \in Nat /\ m \in Nat /\ t.offset \in Int
      /\ t.strides \in Sizes(n) /\ u.strides \in Sizes(m) /\ t.sizes \in Sizes(n) /\ u.sizes \in Sizes(m)
  BY ViewType, TensorType
<1>. HIDE DEF n, m
<1>2. to \in [1..n -> 0..m] /\ from \in [1..m -> 0..n]
  BY DEF Regroups, Correspond, n, m
<1>3. Derives(u, t, None(n), Ones(n), to, from, None(n), None(m))
  <2>1. u.offset = t.offset + Total(Products(None(n), t.strides, n))
    <3>1. Total(Products(None(n), t.strides, n)) = 0
      BY <1>1, NoFirst, SizesAreTerms
    <3>. QED  BY <1>1, <3>1 DEF Regroups
  <2>2. ASSUME NEW e \in 1..m
        PROVE  u.sizes[e] <= 1 \/ u.strides[e] = (IF from[e] = 0 THEN 0 ELSE Ones(n)[from[e]] * t.strides[from[e]])
                                                  + Picked(t.strides, None(m)[e])
    <3>1. None(m)[e] = 0 /\ Picked(t.strides, 0) = 0
      BY DEF None, Picked
    <3>2. u.sizes[e] <= 1 \/ u.strides[e] = Picked(t.strides, from[e])
      BY DEF Regroups, m
    <3>3. CASE from[e] = 0
      BY <3>1, <3>2, <3>3 DEF Picked
    <3>4. CASE from[e] # 0
      <4>1. from[e] \in 1..n
        BY <1>1, <1>2, <3>4
      <4>2. Ones(n)[from[e]] = 1 /\ t.strides[from[e]] \in Nat
        BY <1>1, <4>1 DEF Ones, Sizes
      <4>3. Ones(n)[from[e]] * t.strides[from[e]] + 0 = t.strides[from[e]]
        BY <4>2
      <4>. QED  BY <3>1, <3>2, <3>4, <4>3 DEF Picked
    <3>. QED  BY <3>3, <3>4
  <2>3. Correspond(to, from, n, m)
    BY DEF Regroups, n, m
  <2>. QED  BY <1>1, <2>1, <2>2, <2>3, NothingBeside DEF Derives, n, m
<1>4. InRange(u, t, None(n), Ones(n), to, None(n))
  <2>1. SUFFICES ASSUME NEW y \in Indices1(u.sizes, m), NEW d \in 1..n
                 PROVE  None(n)[d] + Ones(n)[d] * Picked(y, to[d]) + Picked(y, None(n)[d]) < t.sizes[d]
    BY DEF InRange, n, m
  <2>2. None(n)[d] = 0 /\ Ones(n)[d] = 1 /\ Picked(y, 0) = 0
    BY DEF None, Ones, Picked
  <2>3. CASE to[d] = 0
    <3>1. t.sizes[d] # 0 /\ t.sizes[d] \in Nat
      BY <1>1, <2>3 DEF Regroups, n, Sizes
    <3>. QED  BY <2>2, <2>3, <3>1
  <2>4. CASE to[d] # 0
    <3>1. to[d] \in 1..m
      BY <1>1, <1>2, <2>4
    <3>2. y[to[d]] \in Nat /\ y[to[d]] < u.sizes[to[d]] /\ u.sizes[to[d]] \in Nat /\ t.sizes[d] \in Nat
      BY <1>1, <3>1 DEF Indices1, Sizes
    <3>3. u.sizes[to[d]] <= t.sizes[d]
      BY <2>4 DEF Regroups, n
    <3>4. Picked(y, to[d]) = y[to[d]]
      BY <2>4 DEF Picked
    <3>. QED  BY <2>2, <3>2, <3>3, <3>4
  <2>. QED  BY <2>3, <2>4
<1>. QED  BY <1>3, <1>4, DerivedWithin

-----------------------------------------------------------------------------
\* The operations, one by one: the result is a tensor whose elements are
\* elements of the one it was made of.
Stays(old, new) ==
    IsView(new) /\ Numel(new.sizes) <= MaxNumel /\ Elements(new) \subseteq Elements(old)

LEMMA ViewFacts ==
    ASSUME ViewInv
    PROVE  LET n == Rank(tensor)
           IN  /\ n \in Nat /\ Dims = 1..n /\ Len(tensor.sizes) = n
               /\ IsView(tensor) /\ IsTensor(tensor)
               /\ tensor.sizes \in Sizes(n) /\ tensor.strides \in Sizes(n)
               /\ tensor.offset \in Nat
               /\ \A d \in 1..n : Size(d) \in Nat /\ Stride(d) \in Nat
<1>1. IsView(tensor) /\ IsTensor(tensor)
  BY ViewType DEF ViewInv
<1>2. /\ Rank(tensor) \in Nat /\ Dims = 1..Rank(tensor)
      /\ tensor.sizes \in Sizes(Rank(tensor)) /\ tensor.strides \in Sizes(Rank(tensor))
      /\ tensor.offset \in Nat
  BY <1>1, ViewType, TensorType DEF Dims
<1>. QED  BY <1>1, <1>2 DEF Rank, Size, Stride, Sizes

LEMMA FullDims ==
    ASSUME ViewInv, Numel(tensor.sizes) > 0, NEW d \in 1..Rank(tensor)
    PROVE  Size(d) \in Nat \ {0}
<1>1. tensor.sizes \in FullSizes(Rank(tensor))
  BY ViewFacts, FullTensor
<1>. QED  BY <1>1 DEF FullSizes, Size

\* A strided view that regroups the dimensions.
LEMMA RegroupedStays ==
    ASSUME ViewInv, NEW m \in Nat, NEW sizes \in Sizes(m), NEW strides \in Sizes(m),
           AsStrided(sizes, strides, tensor.offset),
           NEW to, NEW from, Correspond(to, from, Rank(tensor), m),
           \A e \in 1..m : sizes[e] <= 1 \/ strides[e] = Picked(tensor.strides, from[e]),
           \A d \in 1..Rank(tensor) : to[d] = 0 \/ sizes[to[d]] <= Size(d)
    PROVE  Stays(tensor, tensor')
<1>. DEFINE u == [sizes |-> sizes, strides |-> strides, offset |-> tensor.offset]
<1>1. /\ IsView(u) /\ Rank(u) = m /\ u.sizes = sizes /\ u.strides = strides
      /\ u.offset = tensor.offset
  BY ViewFacts, MakeView
<1>2. Numel(tensor.sizes) > 0
  BY DEF AsStrided
<1>. HIDE DEF u
<1>3. Regroups(u, tensor, to, from)
  <2>1. \A d \in 1..Rank(tensor) : tensor.sizes[d] # 0
    BY <1>2, FullDims DEF Size
  <2>. QED  BY <1>1, <2>1 DEF Regroups, Size
<1>4. Within(u, tensor)
  BY <1>1, <1>3, ViewFacts, RegroupedWithin
<1>5. AsStrided(u.sizes, u.strides, u.offset)
  BY <1>1
<1>. QED  BY <1>1, <1>4, <1>5, AsStridedStays DEF Stays

LEMMA PermuteStays ==
    ASSUME ViewInv, NEW dims \in Bijection(Dims, Dims), Permute(dims)
    PROVE  Stays(tensor, tensor')
<1>. DEFINE n == Rank(tensor)
            sizes == [d \in Dims |-> Size(dims[d])]
            strides == [d \in Dims |-> Stride(dims[d])]
<1>1. /\ n \in Nat /\ Dims = 1..n /\ \A d \in 1..n : Size(d) \in Nat /\ Stride(d) \in Nat
  BY ViewFacts
<1>. HIDE DEF n
<1>2. dims \in [1..n -> 1..n] /\ \A d \in 1..n : \E e \in 1..n : dims[e] = d
  BY <1>1 DEF Bijection, Injection, Surjection
<1>3. \A d, e \in 1..n : dims[d] = dims[e] => d = e
  BY <1>1 DEF Bijection, Injection, IsInjective
<1>4. PICK to \in [1..n -> 1..n] : \A d \in 1..n : dims[to[d]] = d
  <2>. DEFINE f == [d \in 1..n |-> CHOOSE e \in 1..n : dims[e] = d]
  <2>1. \A d \in 1..n : f[d] \in 1..n /\ dims[f[d]] = d
    BY <1>2
  <2>2. f \in [1..n -> 1..n]
    BY <2>1
  <2>. QED  BY <2>1, <2>2
<1>5. Correspond(to, dims, n, n)
  <2>1. to \in [1..n -> 0..n] /\ dims \in [1..n -> 0..n]
    <3>1. 1..n \subseteq 0..n
      BY <1>1
    <3>. QED  BY <1>2, <1>4, <3>1
  <2>2. ASSUME NEW d \in 1..n, NEW e \in 1..n  PROVE  to[d] = e <=> dims[e] = d
    BY <1>3, <1>4
  <2>. QED  BY <2>1, <2>2 DEF Correspond
<1>6. sizes \in Sizes(n) /\ strides \in Sizes(n)
  BY <1>1, <1>2 DEF Sizes
<1>7. \A e \in 1..n : strides[e] = Picked(tensor.strides, dims[e])
  BY <1>1, <1>2 DEF Picked, Stride
<1>8. \A d \in 1..n : sizes[to[d]] <= Size(d)
  BY <1>1, <1>4
<1>9. AsStrided(sizes, strides, tensor.offset)
  BY DEF Permute
<1>. HIDE DEF sizes, strides
<1>. QED  BY <1>1, <1>5, <1>6, <1>7, <1>8, <1>9, RegroupedStays DEF n

LEMMA TransposeStays ==
    ASSUME ViewInv, NEW d1 \in Dims, NEW d2 \in Dims, Transpose(d1, d2)
    PROVE  Stays(tensor, tensor')
<1>. DEFINE n == Rank(tensor)
            swapped(s) == [s EXCEPT ![d1] = s[d2], ![d2] = s[d1]]
            to == [d \in 1..n |-> IF d = d1 THEN d2 ELSE IF d = d2 THEN d1 ELSE d]
<1>1. /\ n \in Nat /\ Dims = 1..n /\ tensor.sizes \in Sizes(n) /\ tensor.strides \in Sizes(n)
  BY ViewFacts
<1>. HIDE DEF n
<1>2. d1 \in 1..n /\ d2 \in 1..n
  BY <1>1
<1>3. Correspond(to, to, n, n)
  BY <1>1, <1>2 DEF Correspond
<1>4. ASSUME NEW s \in Sizes(n)
      PROVE  swapped(s) \in Sizes(n) /\ \A d \in 1..n : swapped(s)[d] = s[to[d]]
  <2>1. s \in [1..n -> Nat]
    BY <1>4 DEF Sizes
  <2>2. swapped(s) \in [1..n -> Nat]
    BY <1>2, <2>1
  <2>3. \A d \in 1..n : swapped(s)[d] = s[to[d]]
    BY <1>2, <2>1
  <2>. QED  BY <2>2, <2>3 DEF Sizes
<1>5. AsStrided(swapped(tensor.sizes), swapped(tensor.strides), tensor.offset)
  BY DEF Transpose
<1>7. \A d \in 1..n : to[d] \in 1..n /\ to[to[d]] = d /\ to[d] # 0
  BY <1>1, <1>2
<1>6. \A e \in 1..n : swapped(tensor.strides)[e] = Picked(tensor.strides, to[e])
  <2>1. \A e \in 1..n : swapped(tensor.strides)[e] = tensor.strides[to[e]]
    BY <1>1, <1>4
  <2>. HIDE DEF swapped, to
  <2>. QED  BY <1>7, <2>1 DEF Picked
<1>8. \A d \in 1..n : swapped(tensor.sizes)[to[d]] <= Size(d)
  <2>. HIDE DEF to
  <2>1. ASSUME NEW d \in 1..n  PROVE  swapped(tensor.sizes)[to[d]] = Size(d) /\ Size(d) \in Nat
    <3>1. swapped(tensor.sizes)[to[d]] = tensor.sizes[to[to[d]]]
      <4>1. \A e \in 1..n : swapped(tensor.sizes)[e] = tensor.sizes[to[e]]
        BY <1>1, <1>4
      <4>. HIDE DEF swapped
      <4>. QED  BY <1>7, <4>1
    <3>. QED  BY <1>1, <1>7, <3>1 DEF Size, Sizes
  <2>2. \A x \in Nat : x <= x
    OBVIOUS
  <2>. QED  BY <2>1, <2>2
<1>9. swapped(tensor.sizes) \in Sizes(n) /\ swapped(tensor.strides) \in Sizes(n)
  BY <1>1, <1>4
<1>. HIDE DEF swapped, to
<1>. QED  BY <1>1, <1>3, <1>5, <1>6, <1>8, <1>9, RegroupedStays DEF n

LEMMA SqueezeStays ==
    ASSUME ViewInv, NEW dims, Squeeze(dims)
    PROVE  Stays(tensor, tensor')
<1>. DEFINE n == Rank(tensor)
            D == {d \in Dims : d \notin dims \/ Size(d) # 1}
            kept == Ascending(D)
            m == Cardinality(D)
            sizes == [i \in DOMAIN kept |-> Size(kept[i])]
            strides == [i \in DOMAIN kept |-> Stride(kept[i])]
<1>1. /\ n \in Nat /\ Dims = 1..n /\ \A d \in 1..n : Size(d) \in Nat /\ Stride(d) \in Nat
  BY ViewFacts
<1>2. D \in SUBSET (1..n)
  BY <1>1
<1>3. m \in Nat /\ Ordered(kept, D)
  BY <1>1, <1>2, AscendingFacts
<1>4. AsStrided(sizes, strides, tensor.offset)
  BY DEF Squeeze
<1>. HIDE DEF n, kept, m
<1>5. /\ kept \in [1..m -> D] /\ kept \in [1..m -> 1..n] /\ DOMAIN kept = 1..m
      /\ \A i, j \in 1..m : i < j => kept[i] < kept[j]
      /\ \A d \in D : \E i \in 1..m : kept[i] = d
  <2>1. kept \in [1..m -> D]
    BY <1>3 DEF Ordered, m
  <2>. QED  BY <1>2, <1>3, <2>1 DEF Ordered, m
<1>. HIDE DEF D
<1>6. \A i, j \in 1..m : kept[i] = kept[j] => i = j
  <2>1. SUFFICES ASSUME NEW i \in 1..m, NEW j \in 1..m, kept[i] = kept[j], i # j  PROVE  FALSE
    OBVIOUS
  <2>2. kept[i] \in 1..n /\ kept[j] \in 1..n
    BY <1>5
  <2>. QED  BY <1>3, <1>5, <2>1, <2>2
<1>. DEFINE to == [d \in 1..n |-> IF d \in D THEN CHOOSE i \in 1..m : kept[i] = d ELSE 0]
<1>7. ASSUME NEW d \in 1..n
      PROVE  IF d \in D THEN to[d] \in 1..m /\ kept[to[d]] = d ELSE to[d] = 0
  BY <1>5
<1>. HIDE DEF to
<1>8. Correspond(to, kept, n, m)
  <2>1. to \in [1..n -> 0..m]
    <3>1. \A d \in 1..n : to[d] \in 0..m
      BY <1>3, <1>7
    <3>. QED  BY <3>1 DEF to
  <2>2. kept \in [1..m -> 0..n]
    BY <1>1, <1>5
  <2>3. ASSUME NEW d \in 1..n, NEW e \in 1..m  PROVE  to[d] = e <=> kept[e] = d
    <3>1. kept[e] \in D /\ e # 0
      BY <1>3, <1>5
    <3>. QED  BY <1>6, <1>7, <3>1
  <2>. QED  BY <2>1, <2>2, <2>3 DEF Correspond
<1>9. sizes \in Sizes(m) /\ strides \in Sizes(m)
  BY <1>1, <1>5 DEF Sizes
<1>10. \A e \in 1..m : strides[e] = Picked(tensor.strides, kept[e])
  <2>1. ASSUME NEW e \in 1..m  PROVE  strides[e] = Picked(tensor.strides, kept[e])
    <3>1. kept[e] # 0 /\ strides[e] = Stride(kept[e])
      BY <1>5
    <3>. QED  BY <3>1 DEF Picked, Stride
  <2>. QED  BY <2>1
<1>11. \A d \in 1..n : to[d] = 0 \/ sizes[to[d]] <= Size(d)
  <2>1. ASSUME NEW d \in 1..n, to[d] # 0  PROVE  sizes[to[d]] <= Size(d)
    <3>1. to[d] \in 1..m /\ kept[to[d]] = d
      BY <1>7, <2>1
    <3>2. sizes[to[d]] = Size(d)
      BY <1>5, <3>1
    <3>3. Size(d) \in Nat
      BY <1>1
    <3>. QED  BY <3>2, <3>3
  <2>. QED  BY <2>1
<1>. HIDE DEF sizes, strides
<1>. QED  BY <1>1, <1>3, <1>4, <1>8, <1>9, <1>10, <1>11, RegroupedStays DEF n

LEMMA UnsqueezeStays ==
    ASSUME ViewInv, NEW d \in 1..Len(tensor.sizes) + 1, Unsqueeze(d)
    PROVE  Stays(tensor, tensor')
<1>. DEFINE n == Rank(tensor)
            s == IF d \in Dims THEN Size(d) * Stride(d) ELSE 1
            sizes == InsertAt(tensor.sizes, d, 1)
            strides == InsertAt(tensor.strides, d, s)
            to == [e \in 1..n |-> IF e < d THEN e ELSE e + 1]
            from == [e \in 1..n + 1 |-> IF e < d THEN e ELSE IF e = d THEN 0 ELSE e - 1]
<1>1. /\ n \in Nat /\ Dims = 1..n /\ tensor.sizes \in Sizes(n) /\ tensor.strides \in Sizes(n)
      /\ d \in 1..n + 1
      /\ \A e \in 1..n : Size(e) \in Nat /\ Stride(e) \in Nat
  BY ViewFacts
<1>. HIDE DEF n
<1>2. s \in Nat
  BY <1>1, ProductOfNats
<1>3. AsStrided(sizes, strides, tensor.offset)
  BY DEF Unsqueeze
<1>. HIDE DEF s
<1>4. /\ sizes = [e \in 1..n + 1 |-> IF e < d THEN tensor.sizes[e] ELSE IF e = d THEN 1 ELSE tensor.sizes[e - 1]]
      /\ strides = [e \in 1..n + 1 |-> IF e < d THEN tensor.strides[e] ELSE IF e = d THEN s ELSE tensor.strides[e - 1]]
      /\ sizes \in Sizes(n + 1) /\ strides \in Sizes(n + 1)
  <2>1. 1 \in Nat
    OBVIOUS
  <2>2. /\ sizes = [e \in 1..n + 1 |-> IF e < d THEN tensor.sizes[e] ELSE IF e = d THEN 1 ELSE tensor.sizes[e - 1]]
        /\ sizes \in Sizes(n + 1)
    BY <1>1, <2>1, Inserted
  <2>3. /\ strides = [e \in 1..n + 1 |-> IF e < d THEN tensor.strides[e] ELSE IF e = d THEN s ELSE tensor.strides[e - 1]]
        /\ strides \in Sizes(n + 1)
    BY <1>1, <1>2, Inserted
  <2>. QED  BY <2>2, <2>3
<1>. HIDE DEF sizes, strides
<1>5. Correspond(to, from, n, n + 1)
  <2>1. to \in [1..n -> 0..n + 1] /\ from \in [1..n + 1 -> 0..n]
    BY <1>1
  <2>2. ASSUME NEW e \in 1..n, NEW f \in 1..n + 1  PROVE  to[e] = f <=> from[f] = e
    BY <1>1
  <2>. QED  BY <2>1, <2>2 DEF Correspond
<1>6. \A e \in 1..n + 1 : sizes[e] <= 1 \/ strides[e] = Picked(tensor.strides, from[e])
  BY <1>1, <1>4 DEF Picked
<1>7. \A e \in 1..n : to[e] = 0 \/ sizes[to[e]] <= Size(e)
  <2>1. ASSUME NEW e \in 1..n  PROVE  sizes[to[e]] = Size(e)
    BY <1>1, <1>4 DEF Size
  <2>. QED  BY <1>1, <2>1
<1>8. n + 1 \in Nat
  BY <1>1
<1>. HIDE DEF to, from
<1>. QED  BY <1>1, <1>3, <1>4, <1>5, <1>6, <1>7, <1>8, RegroupedStays DEF n

LEMMA UnfoldScalarStays ==
    ASSUME ViewInv, NEW size \in Nat, UnfoldScalar(size)
    PROVE  Stays(tensor, tensor')
<1>1. Rank(tensor) \in Nat /\ Dims = 1..Rank(tensor)
  BY ViewFacts
<1>2. Rank(tensor) = 0
  BY <1>1 DEF UnfoldScalar
<1>3. <<size>> \in Sizes(1) /\ <<1>> \in Sizes(1) /\ 1 \in Nat
  BY DEF Sizes
<1>4. AsStrided(<<size>>, <<1>>, tensor.offset) /\ \A e \in 1..1 : <<size>>[e] <= 1
  BY DEF UnfoldScalar
<1>5. Correspond(None(0), None(1), 0, 1)
  BY NothingBeside
<1>6. \A d \in 1..0 : FALSE
  OBVIOUS
<1>. QED  BY <1>2, <1>3, <1>4, <1>5, <1>6, RegroupedStays

\* The strides of an expanded tensor, by the equation that defines them.
OwnSize(t, lead, i) == IF i > lead THEN t.sizes[i - lead] ELSE 1

ExpandedSizes(t, size) ==
    [i \in DOMAIN size |->
        IF size[i] = -1 THEN OwnSize(t, Len(size) - Len(t.sizes), i) ELSE size[i]]

ExpandedStride(t, size, sizes, h, i) ==
    IF sizes[i] # OwnSize(t, Len(size) - Len(t.sizes), i) \/ t.sizes = <<>> THEN 0
    ELSE IF i > Len(size) - Len(t.sizes) THEN t.strides[i - (Len(size) - Len(t.sizes))]
    ELSE sizes[i + 1] * h[i + 1]

AreExpandedStrides(h, t, size, sizes) ==
    h = [i \in DOMAIN size |-> ExpandedStride(t, size, sizes, h, i)]

LEMMA ExpandEquation ==
    ASSUME NEW t, NEW size, NEW sizes, sizes = ExpandedSizes(t, size), NEW h,
           AreExpandedStrides(h, t, size, sizes)
    PROVE  \E g : /\ AreExpandedStrides(g, t, size, sizes)
                  /\ InferExpandGeometry(t, size) = [sizes |-> sizes, strides |-> g]
  BY ZenonT(60) DEF InferExpandGeometry, ExpandedStride, ExpandedSizes, OwnSize, AreExpandedStrides

LEMMA ExpandShape ==
    ASSUME NEW t, IsView(t), NEW m \in Nat, NEW size \in [1..m -> Int], CanExpand(t, size),
           \A i \in 1..m : size[i] \in Nat \cup {-1}
    PROVE  LET lead == m - Rank(t)
               g == InferExpandGeometry(t, size)
           IN  /\ lead \in Nat /\ g.sizes \in Sizes(m) /\ g.strides \in Sizes(m)
               /\ \A i \in 1..m : g.sizes[i] =
                     IF size[i] = -1 THEN OwnSize(t, lead, i) ELSE size[i]
               /\ \A i \in 1..m : g.sizes[i] # OwnSize(t, lead, i) => g.strides[i] = 0
               /\ \A i \in lead + 1..m :
                     /\ g.sizes[i] = t.sizes[i - lead] \/ t.sizes[i - lead] = 1
                     /\ g.sizes[i] = t.sizes[i - lead] => g.strides[i] = t.strides[i - lead]
<1>. DEFINE n == Rank(t)
            lead == m - n
            sizes == ExpandedSizes(t, size)
            g == InferExpandGeometry(t, size)
<1>1. /\ n \in Nat /\ Len(t.sizes) = n /\ t.sizes \in Sizes(n) /\ t.strides \in Sizes(n)
      /\ DOMAIN t.sizes = 1..n
  BY ViewType, TensorType DEF Rank
<1>2. Len(size) = m /\ DOMAIN size = 1..m
  OBVIOUS
<1>. HIDE DEF n
<1>3. lead \in Nat
  BY <1>1, <1>2 DEF CanExpand
<1>4. ASSUME NEW i \in 1..m  PROVE  OwnSize(t, lead, i) \in Nat
  <2>1. i > lead => i - lead \in 1..n
    BY <1>1, <1>3
  <2>. QED  BY <1>1, <2>1 DEF OwnSize, Sizes
<1>5. /\ sizes = [i \in 1..m |-> IF size[i] = -1 THEN OwnSize(t, lead, i) ELSE size[i]]
      /\ sizes \in Sizes(m)
  <2>1. sizes = [i \in 1..m |-> IF size[i] = -1 THEN OwnSize(t, lead, i) ELSE size[i]]
    BY <1>1, <1>2, Zenon DEF ExpandedSizes
  <2>2. \A i \in 1..m : (IF size[i] = -1 THEN OwnSize(t, lead, i) ELSE size[i]) \in Nat
    BY <1>4
  <2>. QED  BY <2>1, <2>2 DEF Sizes
<1>. HIDE DEF sizes
<1>. DEFINE next(i, x) == IF sizes[i] # OwnSize(t, lead, i) \/ n = 0 THEN 0
                          ELSE IF i > lead THEN t.strides[i - lead] ELSE sizes[i + 1] * x
<1>6. ASSUME NEW i \in 1..m, NEW x \in Nat  PROVE  next(i, x) \in Nat
  <2>1. CASE sizes[i] # OwnSize(t, lead, i) \/ n = 0
    BY <2>1
  <2>2. CASE ~(sizes[i] # OwnSize(t, lead, i) \/ n = 0) /\ i > lead
    <3>1. i - lead \in 1..n
      BY <1>1, <1>3, <2>2
    <3>. QED  BY <1>1, <2>2, <3>1 DEF Sizes
  <2>3. CASE ~(sizes[i] # OwnSize(t, lead, i) \/ n = 0) /\ ~(i > lead)
    <3>1. i + 1 \in 1..m
      BY <1>1, <1>3, <2>3
    <3>2. sizes[i + 1] \in Nat
      BY <1>5, <3>1 DEF Sizes
    <3>. QED  BY <2>3, <3>2, ProductOfNats
  <2>. QED  BY <2>1, <2>2, <2>3
<1>7. ASSUME NEW h, NEW i \in 1..m
      PROVE  ExpandedStride(t, size, sizes, h, i) = next(i, h[i + 1])
  <2>1. t.sizes = <<>> <=> n = 0
    BY <1>1 DEF Sizes
  <2>. QED  BY <1>1, <1>2, <2>1, Zenon DEF ExpandedStride
<1>. HIDE DEF next
<1>8. PICK h : /\ h = [i \in 1..m |-> ExpandedStride(t, size, sizes, h, i)]
               /\ g = [sizes |-> sizes, strides |-> h]
  <2>. DEFINE step == [j \in 1..m |-> [x \in Nat |-> next(m + 1 - j, x)]]
  <2>1. PICK f \in [0..m -> Nat] : Iterates(f, 0, step, m)
    <3>1. step \in [1..m -> [Nat -> Nat]]
      <4>1. \A j \in 1..m : m + 1 - j \in 1..m
        OBVIOUS
      <4>. QED  BY <1>6, <4>1
    <3>. HIDE DEF step
    <3>2. 0 \in Nat
      OBVIOUS
    <3>. QED  BY <3>1, <3>2, Recursion, Zenon
  <2>. DEFINE h == [i \in 1..m |-> f[m + 1 - i]]
  <2>2. ASSUME NEW i \in 1..m  PROVE  h[i] = ExpandedStride(t, size, sizes, h, i)
    <3>1. PICK j \in 1..m : j = m + 1 - i /\ m + 1 - j = i /\ j - 1 = m - i /\ j - 1 \in 0..m
      OBVIOUS
    <3>2. h[i] = next(i, f[j - 1])
      BY <2>1, <3>1 DEF Iterates
    <3>3. CASE i = m
      <4>1. next(i, f[j - 1]) = next(i, h[i + 1])
        BY <1>1, <3>3 DEF next
      <4>. HIDE DEF h
      <4>. QED  BY <1>7, <3>2, <4>1
    <3>4. CASE i # m
      <4>1. i + 1 \in 1..m /\ m + 1 - (i + 1) = j - 1
        BY <3>1, <3>4
      <4>2. h[i + 1] = f[j - 1]
        BY <4>1
      <4>. HIDE DEF h
      <4>. QED  BY <1>7, <3>2, <4>2
    <3>. QED  BY <3>3, <3>4
  <2>3. AreExpandedStrides(h, t, size, sizes)
    <3>1. h = [i \in 1..m |-> h[i]]
      OBVIOUS
    <3>. HIDE DEF h
    <3>. QED  BY <1>2, <2>2, <3>1 DEF AreExpandedStrides
  <2>. HIDE DEF h
  <2>4. sizes = ExpandedSizes(t, size)
    BY DEF sizes
  <2>5. PICK k : /\ AreExpandedStrides(k, t, size, sizes)
                 /\ InferExpandGeometry(t, size) = [sizes |-> sizes, strides |-> k]
    <3>. HIDE DEF step, g
    <3>. QED  BY <2>3, <2>4, ExpandEquation
  <2>. QED  BY <1>2, <2>5 DEF AreExpandedStrides
<1>. HIDE DEF g
<1>9. \A i \in 1..m : h[i] = next(i, h[i + 1])
  BY <1>7, <1>8
<1>10. h \in [1..m -> Nat]
  <2>. DEFINE S == {j \in Nat : j < m => h[m - j] \in Nat}
  <2>1. 0 \in S
    <3>1. SUFFICES ASSUME 0 < m  PROVE  h[m] \in Nat
      OBVIOUS
    <3>2. m \in 1..m /\ h[m] = next(m, h[m + 1])
      BY <1>9, <3>1
    <3>3. next(m, h[m + 1]) = next(m, 0)
      BY <1>1 DEF next
    <3>. QED  BY <1>6, <3>2, <3>3
  <2>2. ASSUME NEW j \in Nat, j \in S  PROVE  j + 1 \in S
    <3>1. SUFFICES ASSUME j + 1 < m  PROVE  h[m - (j + 1)] \in Nat
      OBVIOUS
    <3>2. PICK i \in 1..m : i = m - (j + 1) /\ i + 1 = m - j
      BY <3>1
    <3>3. h[i + 1] \in Nat
      BY <2>2, <3>1, <3>2
    <3>. QED  BY <1>6, <1>9, <3>2, <3>3
  <2>. HIDE DEF S
  <2>3. Nat \subseteq S
    BY <2>1, <2>2, SetInduction
  <2>4. ASSUME NEW i \in 1..m  PROVE  h[i] \in Nat
    <3>1. m - i \in S /\ m - i < m /\ m - (m - i) = i
      BY <2>3
    <3>. QED  BY <3>1 DEF S
  <2>. QED  BY <1>8, <2>4
<1>11. g.sizes = sizes /\ g.strides = h
  BY <1>8
<1>12. \A i \in 1..m : g.sizes[i] # OwnSize(t, lead, i) => g.strides[i] = 0
  BY <1>9, <1>11 DEF next
<1>13. ASSUME NEW i \in lead + 1..m
       PROVE  /\ g.sizes[i] = t.sizes[i - lead] \/ t.sizes[i - lead] = 1
              /\ g.sizes[i] = t.sizes[i - lead] => g.strides[i] = t.strides[i - lead]
  <2>1. i \in 1..m /\ i > lead /\ ~(i <= lead) /\ n # 0
    BY <1>1, <1>3
  <2>2. OwnSize(t, lead, i) = t.sizes[i - lead]
    BY <2>1 DEF OwnSize
  <2>3. size[i] \in {-1, t.sizes[i - lead]} \/ t.sizes[i - lead] = 1
    BY <1>1, <1>2, <2>1 DEF CanExpand
  <2>4. sizes[i] = IF size[i] = -1 THEN OwnSize(t, lead, i) ELSE size[i]
    BY <1>5, <2>1
  <2>. QED  BY <1>9, <1>11, <2>1, <2>2, <2>3, <2>4 DEF next
<1>14. g.sizes \in Sizes(m) /\ g.strides \in Sizes(m)
  BY <1>5, <1>10, <1>11 DEF Sizes
<1>15. \A i \in 1..m : g.sizes[i] = IF size[i] = -1 THEN OwnSize(t, lead, i) ELSE size[i]
  BY <1>5, <1>11
<1>. QED  BY <1>3, <1>12, <1>13, <1>14, <1>15 DEF n, g

LEMMA ExpandStays ==
    ASSUME ViewInv, NEW m \in Nat, NEW size \in [1..m -> Int], Expand(size),
           \A i \in 1..m : size[i] \in Nat \cup {-1}
    PROVE  Stays(tensor, tensor')
<1>. DEFINE n == Rank(tensor)
            lead == m - n
            g == InferExpandGeometry(tensor, size)
            to == [d \in 1..n |-> IF g.sizes[d + lead] = tensor.sizes[d] THEN d + lead ELSE 0]
            from == [i \in 1..m |->
                       IF i > lead /\ g.sizes[i] = tensor.sizes[i - lead] THEN i - lead ELSE 0]
<1>1. /\ n \in Nat /\ Dims = 1..n /\ tensor.sizes \in Sizes(n) /\ tensor.strides \in Sizes(n)
      /\ IsView(tensor)
      /\ \A d \in 1..n : Size(d) \in Nat /\ Stride(d) \in Nat
  BY ViewFacts
<1>2. CanExpand(tensor, size) /\ AsStrided(g.sizes, g.strides, tensor.offset)
  BY DEF Expand
<1>3. /\ lead \in Nat /\ g.sizes \in Sizes(m) /\ g.strides \in Sizes(m)
      /\ \A i \in 1..m : g.sizes[i] # OwnSize(tensor, lead, i) => g.strides[i] = 0
      /\ \A i \in lead + 1..m :
            /\ g.sizes[i] = tensor.sizes[i - lead] \/ tensor.sizes[i - lead] = 1
            /\ g.sizes[i] = tensor.sizes[i - lead] => g.strides[i] = tensor.strides[i - lead]
  <2>1. IsView(tensor) /\ CanExpand(tensor, size)
    BY <1>1, <1>2
  <2>. HIDE DEF g
  <2>. QED  BY <2>1, ExpandShape DEF g
<1>. HIDE DEF n, g
<1>4. Correspond(to, from, n, m)
  <2>1. to \in [1..n -> 0..m] /\ from \in [1..m -> 0..n]
    BY <1>1, <1>3
  <2>2. ASSUME NEW d \in 1..n, NEW i \in 1..m  PROVE  to[d] = i <=> from[i] = d
    <3>1. to[d] = i <=> g.sizes[d + lead] = tensor.sizes[d] /\ i = d + lead
      <4>1. to[d] = IF g.sizes[d + lead] = tensor.sizes[d] THEN d + lead ELSE 0
        OBVIOUS
      <4>2. d + lead # 0 /\ i # 0
        BY <1>1, <1>3
      <4>. HIDE DEF to, from, lead
      <4>. QED  BY <4>1, <4>2
    <3>2. CASE i = d + lead
      <4>1. i > lead /\ i - lead = d /\ d # 0
        BY <1>1, <1>3, <3>2
      <4>2. from[i] = d <=> g.sizes[i] = tensor.sizes[d]
        BY <4>1
      <4>. QED  BY <3>1, <3>2, <4>2
    <3>3. CASE i # d + lead
      <4>1. i - lead # d /\ d # 0
        BY <1>1, <1>3, <3>3
      <4>2. from[i] # d
        BY <4>1
      <4>. QED  BY <3>1, <3>3, <4>2
    <3>. QED  BY <3>2, <3>3
  <2>. QED  BY <2>1, <2>2 DEF Correspond
<1>5. ASSUME NEW i \in 1..m
      PROVE  g.sizes[i] <= 1 \/ g.strides[i] = Picked(tensor.strides, from[i])
  <2>0. g.sizes[i] \in Nat
    BY <1>3 DEF Sizes
  <2>1. CASE i > lead /\ g.sizes[i] = tensor.sizes[i - lead]
    <3>1. i \in lead + 1..m /\ i - lead # 0
      BY <1>1, <1>3, <2>1
    <3>. QED  BY <1>3, <2>1, <3>1 DEF Picked
  <2>2. CASE i > lead /\ g.sizes[i] # tensor.sizes[i - lead]
    <3>1. g.strides[i] = 0
      BY <1>3, <2>2 DEF OwnSize
    <3>. QED  BY <2>2, <3>1 DEF Picked
  <2>3. CASE ~(i > lead)
    <3>1. g.sizes[i] # 1 => g.strides[i] = 0
      BY <1>3, <2>3 DEF OwnSize
    <3>. QED  BY <2>0, <2>3, <3>1 DEF Picked
  <2>. QED  BY <2>1, <2>2, <2>3
<1>6. ASSUME NEW d \in 1..n  PROVE  to[d] = 0 \/ g.sizes[to[d]] <= Size(d)
  <2>1. Size(d) \in Nat /\ Size(d) = tensor.sizes[d]
    BY <1>1 DEF Size
  <2>. QED  BY <2>1
<1>. HIDE DEF to, from
<1>. QED  BY <1>2, <1>3, <1>4, <1>5, <1>6, RegroupedStays DEF n

-----------------------------------------------------------------------------
\* Operations that take part of a dimension, walk it in steps, or take two at
\* once.  The first index is 0 but for one dimension.
First(d, x, n) == [e \in 1..n |-> IF e = d THEN x ELSE 0]
Step(d, x, n) == [e \in 1..n |-> IF e = d THEN x ELSE 1]

LEMMA FirstFacts ==
    ASSUME NEW n \in Nat, NEW s \in Sizes(n), NEW d \in 1..n, NEW x \in Nat
    PROVE  /\ First(d, x, n) \in Sizes(n) /\ Step(d, x, n) \in Sizes(n)
           /\ Total(Products(First(d, x, n), s, n)) = x * s[d]
           /\ x * s[d] \in Nat
<1>. DEFINE f == Products(First(d, x, n), s, n)
<1>1. First(d, x, n) \in Sizes(n) /\ Step(d, x, n) \in Sizes(n)
  BY DEF First, Step, Sizes
<1>2. \A e \in 1..n : s[e] \in Nat /\ 0 * s[e] = 0
  BY DEF Sizes
<1>3. x * s[d] \in Nat
  BY <1>2, ProductOfNats
<1>4. f \in Terms(n)
  <2>1. First(d, x, n) \in Terms(n) /\ s \in Terms(n)
    BY <1>1, SizesAreTerms
  <2>. QED  BY <2>1, ProductsType
<1>5. f[d] = x * s[d] /\ OnlyAt(f, d, d, n)
  BY <1>2 DEF Products, First, OnlyAt
<1>. HIDE DEF f
<1>6. Total(f) = f[d]
  BY <1>4, <1>5, TotalOfOne
<1>. QED  BY <1>1, <1>3, <1>5, <1>6 DEF f

DerivedStrides(sizes, strides, m, step, from, whence) ==
    \A e \in 1..m : sizes[e] <= 1
       \/ strides[e] = (IF from[e] = 0 THEN 0 ELSE step[from[e]] * Stride(from[e]))
                         + Picked(tensor.strides, whence[e])
DerivedRange(sizes, m, first, step, to, beside) ==
    \A y \in Indices1(sizes, m) : \A d \in 1..Rank(tensor) :
        first[d] + step[d] * Picked(y, to[d]) + Picked(y, beside[d]) < Size(d)

LEMMA DerivedStays ==
    ASSUME ViewInv, NEW m \in Nat, NEW sizes \in Sizes(m), NEW strides \in Sizes(m),
           NEW first \in Sizes(Rank(tensor)), NEW step \in Sizes(Rank(tensor)), NEW offset \in Nat,
           AsStrided(sizes, strides, offset),
           offset = tensor.offset + Total(Products(first, tensor.strides, Rank(tensor))),
           NEW to, NEW from, Correspond(to, from, Rank(tensor), m),
           NEW beside, NEW whence, Correspond(beside, whence, Rank(tensor), m),
           DerivedStrides(sizes, strides, m, step, from, whence),
           DerivedRange(sizes, m, first, step, to, beside)
    PROVE  Stays(tensor, tensor')
<1>. DEFINE u == [sizes |-> sizes, strides |-> strides, offset |-> offset]
<1>1. /\ IsView(u) /\ Rank(u) = m /\ u.sizes = sizes /\ u.strides = strides
      /\ u.offset = offset
  BY MakeView
<1>. HIDE DEF u
<1>2. Derives(u, tensor, first, step, to, from, beside, whence)
  BY <1>1, Zenon DEF Derives, DerivedStrides, Stride
<1>3. InRange(u, tensor, first, step, to, beside)
  BY <1>1 DEF InRange, DerivedRange, Size
<1>4. Within(u, tensor)
  BY <1>1, <1>2, <1>3, ViewFacts, DerivedWithin
<1>5. AsStrided(u.sizes, u.strides, u.offset)
  BY <1>1
<1>. QED  BY <1>1, <1>4, <1>5, AsStridedStays DEF Stays

LEMMA FirstOffset ==
    ASSUME ViewInv, NEW d \in Dims, NEW x \in Nat
    PROVE  /\ First(d, x, Rank(tensor)) \in Sizes(Rank(tensor))
           /\ tensor.offset + x * Stride(d) \in Nat
           /\ tensor.offset + x * Stride(d) =
                 tensor.offset + Total(Products(First(d, x, Rank(tensor)), tensor.strides, Rank(tensor)))
<1>1. /\ Rank(tensor) \in Nat /\ Dims = 1..Rank(tensor) /\ tensor.strides \in Sizes(Rank(tensor))
      /\ d \in 1..Rank(tensor) /\ tensor.offset \in Nat
  BY ViewFacts
<1>2. /\ First(d, x, Rank(tensor)) \in Sizes(Rank(tensor))
      /\ x * Stride(d) \in Nat
      /\ Total(Products(First(d, x, Rank(tensor)), tensor.strides, Rank(tensor))) = x * Stride(d)
  BY <1>1, FirstFacts DEF Stride
<1>. QED  BY <1>1, <1>2

LEMMA SelectStays ==
    ASSUME ViewInv, NEW d \in Dims, NEW index \in Int, Select(d, index)
    PROVE  Stays(tensor, tensor')
<1>. DEFINE n == Rank(tensor)
            x == index % Size(d)
            sizes == RemoveAt(tensor.sizes, d)
            strides == RemoveAt(tensor.strides, d)
            offset == tensor.offset + x * Stride(d)
            to == [e \in 1..n |-> IF e < d THEN e ELSE IF e = d THEN 0 ELSE e - 1]
            from == [e \in 1..n - 1 |-> IF e < d THEN e ELSE e + 1]
<1>1. /\ n \in Nat /\ Dims = 1..n /\ tensor.sizes \in Sizes(n) /\ tensor.strides \in Sizes(n)
      /\ d \in 1..n /\ tensor.offset \in Nat
      /\ \A e \in 1..n : Size(e) \in Nat /\ Stride(e) \in Nat
  BY ViewFacts
<1>2. AsStrided(sizes, strides, offset)
  BY DEF Select
<1>3. Size(d) \in Nat \ {0} /\ x \in Nat /\ x < Size(d)
  <2>1. Size(d) \in Nat \ {0}
    BY <1>1, <1>2, FullDims DEF AsStrided
  <2>. QED  BY <2>1
<1>. HIDE DEF n, x
<1>4. n - 1 \in Nat
  BY <1>1
<1>5. /\ sizes = [e \in 1..n - 1 |-> tensor.sizes[IF e < d THEN e ELSE e + 1]]
      /\ strides = [e \in 1..n - 1 |-> tensor.strides[IF e < d THEN e ELSE e + 1]]
      /\ sizes \in Sizes(n - 1) /\ strides \in Sizes(n - 1)
  BY <1>1, Removed
<1>. HIDE DEF sizes, strides
<1>6. /\ First(d, x, n) \in Sizes(n) /\ Ones(n) \in Sizes(n)
      /\ offset = tensor.offset + Total(Products(First(d, x, n), tensor.strides, n))
      /\ offset \in Nat
  <2>. HIDE DEF offset
  <2>. QED  BY <1>1, <1>3, NothingBeside, FirstOffset DEF offset, n
<1>. HIDE DEF offset
<1>7. Correspond(to, from, n, n - 1)
  <2>1. to \in [1..n -> 0..n - 1] /\ from \in [1..n - 1 -> 0..n]
    BY <1>1
  <2>2. ASSUME NEW e \in 1..n, NEW f \in 1..n - 1  PROVE  to[e] = f <=> from[f] = e
    BY <1>1
  <2>. QED  BY <2>1, <2>2 DEF Correspond
<1>8. Correspond(None(n), None(n - 1), n, n - 1)
  BY <1>1, <1>4, NothingBeside
<1>9. ASSUME NEW e \in 1..n - 1
      PROVE  strides[e] = (IF from[e] = 0 THEN 0 ELSE Ones(n)[from[e]] * Stride(from[e]))
                             + Picked(tensor.strides, None(n - 1)[e])
  <2>1. from[e] \in 1..n /\ from[e] # 0 /\ strides[e] = Stride(from[e])
    BY <1>1, <1>5 DEF Stride
  <2>2. Picked(tensor.strides, None(n - 1)[e]) = 0
    BY DEF Picked, None
  <2>. HIDE DEF from
  <2>3. Ones(n)[from[e]] = 1 /\ Stride(from[e]) \in Nat
    BY <1>1, <2>1 DEF Ones
  <2>. QED  BY <2>1, <2>2, <2>3
<1>10. ASSUME NEW y \in Indices1(sizes, n - 1), NEW e \in 1..n
       PROVE  First(d, x, n)[e] + Ones(n)[e] * Picked(y, to[e]) + Picked(y, None(n)[e]) < Size(e)
  <2>1. Picked(y, None(n)[e]) = 0 /\ Ones(n)[e] = 1
    BY DEF Picked, None, Ones
  <2>2. CASE e = d
    <3>1. Picked(y, to[e]) = 0 /\ First(d, x, n)[e] = x
      BY <2>2 DEF Picked, First
    <3>. QED  BY <1>3, <2>1, <2>2, <3>1
  <2>3. CASE e # d
    <3>1. PICK f \in 1..n - 1 : f = to[e] /\ f # 0 /\ from[f] = e
      BY <1>1, <2>3
    <3>2. sizes[f] = Size(e) /\ y[f] \in Nat /\ y[f] < sizes[f]
      <4>1. sizes[f] = Size(e)
        BY <1>5, <3>1 DEF Size
      <4>. QED  BY <4>1 DEF Indices1, Sizes
    <3>3. Picked(y, to[e]) = y[f] /\ First(d, x, n)[e] = 0
      BY <2>3, <3>1 DEF Picked, First
    <3>. QED  BY <1>1, <2>1, <3>2, <3>3
  <2>. QED  BY <2>2, <2>3
<1>. HIDE DEF to, from
<1>11. DerivedStrides(sizes, strides, n - 1, Ones(n), from, None(n - 1))
  BY <1>9 DEF DerivedStrides
<1>12. DerivedRange(sizes, n - 1, First(d, x, n), Ones(n), to, None(n))
  BY <1>10 DEF DerivedRange, n
<1>. QED  BY <1>1, <1>2, <1>4, <1>5, <1>6, <1>7, <1>8, <1>11, <1>12, DerivedStays DEF n

LEMMA MinMaxOfTwo ==
    ASSUME NEW a \in Int, NEW b \in Int
    PROVE  /\ Max({a, b}) = IF a >= b THEN a ELSE b
           /\ Min({a, b}) = IF a <= b THEN a ELSE b
<1>1. \E x \in {a, b} : \A y \in {a, b} : x >= y
  OBVIOUS
<1>2. \E x \in {a, b} : \A y \in {a, b} : x <= y
  OBVIOUS
<1>3. Max({a, b}) \in {a, b} /\ \A y \in {a, b} : Max({a, b}) >= y
  BY <1>1 DEF Max
<1>4. Min({a, b}) \in {a, b} /\ \A y \in {a, b} : Min({a, b}) <= y
  BY <1>2 DEF Min
<1>. QED  BY <1>3, <1>4

\* A walk in steps stays below the number it was divided from.
LEMMA StepsWithin ==
    ASSUME NEW a \in Nat, NEW step \in Nat \ {0}, NEW y \in Nat
    PROVE  /\ (a + step - 1) \div step \in Nat /\ a \div step + 1 \in Nat
           /\ y < (a + step - 1) \div step => step * y < a
           /\ y < a \div step + 1 => step * y <= a
<1>1. ASSUME NEW c \in Nat, NEW q \in Nat, q = c \div step, y + 1 <= q  PROVE  step * y + step <= c
  <2>1. c = step * q + (c % step) /\ (c % step) \in Nat
    BY <1>1, Quotient
  <2>2. q = (y + 1) + (q - (y + 1)) /\ q - (y + 1) \in Nat
    BY <1>1
  <2>3. step * q = step * (y + 1) + step * (q - (y + 1)) /\ step * (q - (y + 1)) \in Nat
    BY <2>2, Times, ProductOfNats
  <2>4. step * (y + 1) = step * y + step /\ step * y \in Nat
    BY Times, ProductOfNats
  <2>. QED  BY <2>1, <2>3, <2>4
<1>2. (a + step - 1) \div step \in Nat /\ a \div step \in Nat
  <2>1. a + step - 1 \in Nat
    OBVIOUS
  <2>. QED  BY <2>1, Quotient
<1>3. ASSUME y < (a + step - 1) \div step  PROVE  step * y < a
  <2>1. PICK c \in Nat : c = a + step - 1
    OBVIOUS
  <2>2. PICK q \in Nat : q = c \div step
    BY <1>2, <2>1
  <2>3. y + 1 <= q
    BY <1>3, <2>1, <2>2
  <2>4. step * y + step <= c /\ step * y \in Nat
    BY <1>1, <2>2, <2>3, ProductOfNats
  <2>. QED  BY <2>1, <2>4
<1>4. ASSUME y < a \div step + 1  PROVE  step * y <= a
  <2>1. PICK q \in Nat : q = a \div step
    BY <1>2
  <2>2. a = step * q + (a % step) /\ (a % step) \in Nat
    BY <2>1, Quotient
  <2>3. q = y + (q - y) /\ q - y \in Nat
    BY <1>4, <2>1
  <2>4. step * q = step * y + step * (q - y) /\ step * (q - y) \in Nat /\ step * y \in Nat
    BY <2>3, Times, ProductOfNats
  <2>. QED  BY <2>2, <2>4
<1>. QED  BY <1>2, <1>3, <1>4

Same(n, m) == [e \in 1..m |-> IF e <= n THEN e ELSE 0]

LEMMA SameDims ==
    ASSUME NEW n \in Nat, NEW m \in Nat, n <= m
    PROVE  Correspond(Same(n, n), Same(n, m), n, m)
  BY DEF Correspond, Same

LEMMA SliceStays ==
    ASSUME ViewInv, NEW d \in Dims, NEW start \in Int, NEW end \in Int, NEW step \in Nat \ {0},
           Slice(d, start, end, step)
    PROVE  Stays(tensor, tensor')
<1>. DEFINE n == Rank(tensor)
            wrap(i) == IF i < 0 THEN i + Size(d) ELSE i
            first == Min({Max({wrap(start), 0}), Size(d)})
            last == Min({Max({wrap(end), first}), Size(d)})
            q == (last - first + step - 1) \div step
            sizes == [tensor.sizes EXCEPT ![d] = q]
            strides == [tensor.strides EXCEPT ![d] = @ * step]
            offset == tensor.offset + first * Stride(d)
            same == Same(n, n)
<1>1. /\ n \in Nat /\ Dims = 1..n /\ tensor.sizes \in Sizes(n) /\ tensor.strides \in Sizes(n)
      /\ d \in 1..n /\ tensor.offset \in Nat
      /\ \A e \in 1..n : Size(e) \in Nat /\ Stride(e) \in Nat
  BY ViewFacts
<1>2. AsStrided(sizes, strides, offset)
  BY DEF Slice
<1>. HIDE DEF q, sizes, strides, offset, same
<1>3. /\ first \in Nat /\ last \in Nat /\ first <= last /\ last <= Size(d)
  <2>0. Size(d) \in Nat
    BY <1>1
  <2>1. PICK a \in Int : a = wrap(start)
    BY <2>0
  <2>2. PICK b \in Int : b = wrap(end)
    BY <2>0
  <2>. HIDE DEF wrap
  <2>3. PICK c \in Int : c = Max({a, 0}) /\ c = IF a >= 0 THEN a ELSE 0
    BY MinMaxOfTwo
  <2>4. first = IF c <= Size(d) THEN c ELSE Size(d)
    BY <2>0, <2>1, <2>3, MinMaxOfTwo
  <2>5. first \in Nat /\ first <= Size(d)
    <3>. HIDE DEF first
    <3>. QED  BY <2>0, <2>3, <2>4
  <2>. HIDE DEF first
  <2>6. PICK e \in Int : e = Max({b, first}) /\ e = IF b >= first THEN b ELSE first
    BY <2>5, MinMaxOfTwo
  <2>7. last = IF e <= Size(d) THEN e ELSE Size(d)
    <3>1. last = Min({e, Size(d)})
      BY <2>2, <2>6
    <3>. HIDE DEF last
    <3>. QED  BY <2>0, <3>1, MinMaxOfTwo
  <2>. HIDE DEF last
  <2>. QED  BY <2>0, <2>5, <2>6, <2>7
<1>. HIDE DEF n, first, last
<1>4. PICK a \in Nat : a = last - first
  BY <1>3
<1>5. q \in Nat /\ \A y \in Nat : y < q => first + step * y < Size(d)
  <2>1. q = (a + step - 1) \div step
    BY <1>4 DEF q
  <2>. HIDE DEF q
  <2>2. q \in Nat
    BY <2>1, StepsWithin
  <2>3. ASSUME NEW y \in Nat, y < q  PROVE  first + step * y < Size(d)
    <3>1. step * y < a /\ step * y \in Nat
      BY <2>1, <2>3, StepsWithin, ProductOfNats
    <3>2. Size(d) \in Nat
      BY <1>1
    <3>. QED  BY <1>3, <1>4, <3>1, <3>2
  <2>. QED  BY <2>2, <2>3
<1>. HIDE DEF q
<1>6. /\ sizes = [e \in 1..n |-> IF e = d THEN q ELSE Size(e)] /\ sizes \in Sizes(n)
  BY <1>1, <1>5 DEF Sizes, Size, sizes
<1>7. /\ strides = [e \in 1..n |-> IF e = d THEN Stride(d) * step ELSE Stride(e)]
      /\ strides \in Sizes(n)
  <2>1. Stride(d) * step \in Nat
    BY <1>1, ProductOfNats
  <2>2. strides = [e \in 1..n |-> IF e = d THEN Stride(d) * step ELSE Stride(e)]
    BY <1>1 DEF Sizes, Stride, strides
  <2>. QED  BY <1>1, <2>1, <2>2 DEF Sizes
<1>8. /\ First(d, first, n) \in Sizes(n) /\ Step(d, step, n) \in Sizes(n)
      /\ offset = tensor.offset + Total(Products(First(d, first, n), tensor.strides, n))
      /\ offset \in Nat
  <2>1. PICK x \in Nat : x = first
    BY <1>3
  <2>2. Step(d, step, n) \in Sizes(n)
    BY <1>1, FirstFacts
  <2>. QED  BY <1>1, <2>1, <2>2, FirstOffset DEF offset, n
<1>9. Correspond(same, same, n, n) /\ Correspond(None(n), None(n), n, n)
  <2>1. n <= n
    BY <1>1
  <2>. QED  BY <1>1, <2>1, SameDims, NothingBeside DEF same
<1>10. \A e \in 1..n : same[e] = e /\ e # 0
  BY <1>1 DEF Same, same
<1>11. DerivedStrides(sizes, strides, n, Step(d, step, n), same, None(n))
  <2>1. ASSUME NEW e \in 1..n
        PROVE  strides[e] = Step(d, step, n)[e] * Stride(e) + 0
    <3>1. Stride(e) \in Nat
      BY <1>1
    <3>2. CASE e = d
      BY <1>7, <3>1, <3>2, ProductOfNats DEF Step
    <3>3. CASE e # d
      BY <1>7, <3>1, <3>3 DEF Step
    <3>. QED  BY <3>2, <3>3
  <2>2. \A e \in 1..n : Picked(tensor.strides, None(n)[e]) = 0
    BY DEF Picked, None
  <2>. QED  BY <1>10, <2>1, <2>2 DEF DerivedStrides
<1>12. DerivedRange(sizes, n, First(d, first, n), Step(d, step, n), same, None(n))
  <2>1. SUFFICES ASSUME NEW y \in Indices1(sizes, n), NEW e \in 1..n
                 PROVE  First(d, first, n)[e] + Step(d, step, n)[e] * Picked(y, same[e])
                          + Picked(y, None(n)[e]) < Size(e)
    BY DEF DerivedRange, n
  <2>2. Picked(y, None(n)[e]) = 0 /\ Picked(y, same[e]) = y[e]
    BY <1>10 DEF Picked, None
  <2>3. y[e] \in Nat /\ y[e] < sizes[e] /\ Size(e) \in Nat
    BY <1>1 DEF Indices1, Sizes
  <2>4. CASE e = d
    <3>1. First(d, first, n)[e] = first /\ Step(d, step, n)[e] = step /\ sizes[e] = q
      BY <1>6, <2>4 DEF First, Step
    <3>2. first + step * y[e] < Size(e) /\ step * y[e] \in Nat
      BY <1>5, <2>3, <2>4, <3>1, ProductOfNats
    <3>. QED  BY <1>3, <2>2, <3>1, <3>2
  <2>5. CASE e # d
    <3>1. First(d, first, n)[e] = 0 /\ Step(d, step, n)[e] = 1 /\ sizes[e] = Size(e)
      BY <1>6, <2>5 DEF First, Step
    <3>. QED  BY <2>2, <2>3, <3>1
  <2>. QED  BY <2>4, <2>5
<1>. QED  BY <1>1, <1>2, <1>6, <1>7, <1>8, <1>9, <1>11, <1>12, DerivedStays DEF n

LEMMA UnfoldStays ==
    ASSUME ViewInv, NEW d \in Dims, NEW size \in Nat, NEW step \in Nat \ {0},
           Unfold(d, size, step)
    PROVE  Stays(tensor, tensor')
<1>. DEFINE n == Rank(tensor)
            q == (Size(d) - size) \div step + 1
            walked == [tensor.sizes EXCEPT ![d] = (@ - size) \div step + 1]
            paced == [tensor.strides EXCEPT ![d] = @ * step]
            sizes == Append(walked, size)
            strides == Append(paced, Stride(d))
            beside == First(d, n + 1, n)
            whence == First(n + 1, d, n + 1)
<1>1. /\ n \in Nat /\ Dims = 1..n /\ tensor.sizes \in Sizes(n) /\ tensor.strides \in Sizes(n)
      /\ d \in 1..n /\ tensor.offset \in Nat
      /\ \A e \in 1..n : Size(e) \in Nat /\ Stride(e) \in Nat
  BY ViewFacts
<1>2. AsStrided(sizes, strides, tensor.offset) /\ size <= Size(d)
  BY DEF Unfold
<1>. HIDE DEF n
<1>3. PICK a \in Nat : a = Size(d) - size
  BY <1>1, <1>2
<1>4. q \in Nat /\ \A y \in Nat : y < q => step * y <= a
  BY <1>3, StepsWithin
<1>. HIDE DEF q
<1>5. walked \in Sizes(n) /\ walked = [e \in 1..n |-> IF e = d THEN q ELSE Size(e)]
  BY <1>1, <1>4 DEF Sizes, Size, q
<1>6. paced \in Sizes(n) /\ paced = [e \in 1..n |-> IF e = d THEN Stride(d) * step ELSE Stride(e)]
  <2>1. Stride(d) * step \in Nat
    BY <1>1, ProductOfNats
  <2>2. paced = [e \in 1..n |-> IF e = d THEN Stride(d) * step ELSE Stride(e)]
    BY <1>1 DEF Sizes, Stride
  <2>. QED  BY <1>1, <2>1, <2>2 DEF Sizes
<1>. HIDE DEF walked, paced
<1>7. /\ sizes = [e \in 1..n + 1 |-> IF e = n + 1 THEN size ELSE walked[e]]
      /\ strides = [e \in 1..n + 1 |-> IF e = n + 1 THEN Stride(d) ELSE paced[e]]
      /\ sizes \in Sizes(n + 1) /\ strides \in Sizes(n + 1)
  <2>1. /\ sizes = [e \in 1..n + 1 |-> IF e = n + 1 THEN size ELSE walked[e]]
        /\ sizes \in Sizes(n + 1)
    <3>1. walked \in Sizes(n) /\ n \in Nat
      BY <1>1, <1>5
    <3>. QED  BY <3>1, Appended, Zenon
  <2>2. /\ strides = [e \in 1..n + 1 |-> IF e = n + 1 THEN Stride(d) ELSE paced[e]]
        /\ strides \in Sizes(n + 1)
    <3>1. paced \in Sizes(n) /\ n \in Nat /\ Stride(d) \in Nat
      BY <1>1, <1>6
    <3>. QED  BY <3>1, Appended, Zenon
  <2>. QED  BY <2>1, <2>2
<1>. HIDE DEF sizes, strides
<1>8. /\ None(n) \in Sizes(n) /\ Step(d, step, n) \in Sizes(n) /\ n + 1 \in Nat
      /\ tensor.offset = tensor.offset + Total(Products(None(n), tensor.strides, n))
  <2>1. Total(Products(None(n), tensor.strides, n)) = 0
    BY <1>1, NoFirst, SizesAreTerms
  <2>2. Step(d, step, n) \in Sizes(n)
    BY <1>1, FirstFacts
  <2>. QED  BY <1>1, <2>1, <2>2, NothingBeside
<1>9. Correspond(Same(n, n), Same(n, n + 1), n, n + 1) /\ Correspond(beside, whence, n, n + 1)
  <2>1. Correspond(Same(n, n), Same(n, n + 1), n, n + 1)
    BY <1>1, SameDims
  <2>2. Correspond(beside, whence, n, n + 1)
    <3>1. beside \in [1..n -> 0..n + 1] /\ whence \in [1..n + 1 -> 0..n]
      BY <1>1 DEF First
    <3>2. ASSUME NEW e \in 1..n, NEW f \in 1..n + 1  PROVE  beside[e] = f <=> whence[f] = e
      BY <1>1 DEF First
    <3>. QED  BY <3>1, <3>2 DEF Correspond
  <2>. QED  BY <2>1, <2>2
<1>10. DerivedStrides(sizes, strides, n + 1, Step(d, step, n), Same(n, n + 1), whence)
  <2>1. SUFFICES ASSUME NEW e \in 1..n + 1
                 PROVE  strides[e] = (IF Same(n, n + 1)[e] = 0 THEN 0
                                      ELSE Step(d, step, n)[Same(n, n + 1)[e]] * Stride(Same(n, n + 1)[e]))
                                       + Picked(tensor.strides, whence[e])
    BY DEF DerivedStrides
  <2>2. CASE e = n + 1
    <3>1. Same(n, n + 1)[e] = 0 /\ Picked(tensor.strides, whence[e]) = Stride(d)
      BY <1>1, <2>2 DEF Same, First, Picked, Stride
    <3>. QED  BY <1>1, <1>7, <2>2, <3>1
  <2>3. CASE e # n + 1
    <3>1. e \in 1..n /\ Same(n, n + 1)[e] = e /\ e # 0 /\ Picked(tensor.strides, whence[e]) = 0
      BY <1>1, <2>3 DEF Same, First, Picked
    <3>2. strides[e] = paced[e] /\ Stride(e) \in Nat
      BY <1>1, <1>7, <2>3, <3>1
    <3>3. CASE e = d
      BY <1>6, <3>1, <3>2, <3>3, ProductOfNats DEF Step
    <3>4. CASE e # d
      BY <1>6, <3>1, <3>2, <3>4 DEF Step
    <3>. QED  BY <3>3, <3>4
  <2>. QED  BY <2>2, <2>3
<1>11. DerivedRange(sizes, n + 1, None(n), Step(d, step, n), Same(n, n), beside)
  <2>1. SUFFICES ASSUME NEW y \in Indices1(sizes, n + 1), NEW e \in 1..n
                 PROVE  None(n)[e] + Step(d, step, n)[e] * Picked(y, Same(n, n)[e])
                          + Picked(y, beside[e]) < Size(e)
    BY DEF DerivedRange, n
  <2>2. /\ e \in 1..n + 1 /\ n + 1 \in 1..n + 1 /\ e # n + 1 /\ e # 0 /\ n + 1 # 0
    BY <1>1
  <2>3. /\ None(n)[e] = 0 /\ Picked(y, Same(n, n)[e]) = y[e]
    BY <1>1, <2>2 DEF None, Picked, Same
  <2>4. /\ y[e] \in Nat /\ y[e] < sizes[e] /\ y[n + 1] \in Nat /\ y[n + 1] < sizes[n + 1]
        /\ Size(e) \in Nat
    BY <1>1, <2>2 DEF Indices1, Sizes
  <2>5. sizes[e] = walked[e] /\ sizes[n + 1] = size
    BY <1>7, <2>2
  <2>6. CASE e = d
    <3>1. Step(d, step, n)[e] = step /\ Picked(y, beside[e]) = y[n + 1] /\ walked[e] = q
      BY <1>5, <2>2, <2>6 DEF First, Step, Picked
    <3>2. step * y[e] <= a /\ step * y[e] \in Nat
      BY <1>4, <2>4, <2>5, <3>1, ProductOfNats
    <3>. QED  BY <1>3, <2>3, <2>4, <2>5, <2>6, <3>1, <3>2
  <2>7. CASE e # d
    <3>1. Step(d, step, n)[e] = 1 /\ Picked(y, beside[e]) = 0 /\ walked[e] = Size(e)
      BY <1>5, <2>7 DEF First, Step, Picked
    <3>. QED  BY <2>3, <2>4, <2>5, <3>1
  <2>. QED  BY <2>6, <2>7
<1>. HIDE DEF beside, whence
<1>. QED  BY <1>1, <1>2, <1>7, <1>8, <1>9, <1>10, <1>11, DerivedStays DEF n

\* Two dimensions less, the others in their order.
Without(k1, k2, n) ==
    [e \in 1..n - 2 |-> IF e < k1 THEN e ELSE IF e + 1 < k2 THEN e + 1 ELSE e + 2]

LEMMA RemovedTwo ==
    ASSUME NEW n \in Nat, NEW s \in Sizes(n), NEW k1 \in 1..n, NEW k2 \in 1..n, k1 < k2
    PROVE  /\ n - 2 \in Nat
           /\ Without(k1, k2, n) \in [1..n - 2 -> 1..n]
           /\ RemoveAt(RemoveAt(s, k2), k1) = [e \in 1..n - 2 |-> s[Without(k1, k2, n)[e]]]
           /\ RemoveAt(RemoveAt(s, k2), k1) \in Sizes(n - 2)
<1>. DEFINE r == RemoveAt(s, k2)
<1>1. r = [e \in 1..n - 1 |-> s[IF e < k2 THEN e ELSE e + 1]] /\ r \in Sizes(n - 1)
  BY Removed
<1>. HIDE DEF r
<1>2. n - 1 \in Nat /\ k1 \in 1..n - 1 /\ n - 1 - 1 = n - 2 /\ n - 2 \in Nat
  OBVIOUS
<1>3. /\ RemoveAt(r, k1) = [e \in 1..n - 1 - 1 |-> r[IF e < k1 THEN e ELSE e + 1]]
      /\ RemoveAt(r, k1) \in Sizes(n - 1 - 1)
  BY <1>1, <1>2, Removed
<1>4. Without(k1, k2, n) \in [1..n - 2 -> 1..n]
  BY DEF Without
<1>5. ASSUME NEW e \in 1..n - 2
      PROVE  r[IF e < k1 THEN e ELSE e + 1] = s[Without(k1, k2, n)[e]]
  BY <1>1 DEF Without
<1>6. RemoveAt(r, k1) = [e \in 1..n - 2 |-> s[Without(k1, k2, n)[e]]]
  BY <1>2, <1>3, <1>5
<1>. QED  BY <1>2, <1>3, <1>4, <1>6 DEF r

IsBack(back, kept, k1, k2, n) ==
    /\ back \in [1..n -> 0..n - 2] /\ back[k1] = 0 /\ back[k2] = 0
    /\ \A d \in 1..n, e \in 1..n - 2 : back[d] = e <=> kept[e] = d
    /\ \A d \in 1..n : d # k1 /\ d # k2 => back[d] \in 1..n - 2 /\ kept[back[d]] = d

LEMMA WithoutTwo ==
    ASSUME NEW n \in Nat, NEW k1 \in 1..n, NEW k2 \in 1..n, k1 < k2
    PROVE  \E back : IsBack(back, Without(k1, k2, n), k1, k2, n)
<1>. DEFINE back == [d \in 1..n |-> IF d = k1 \/ d = k2 THEN 0 ELSE IF d < k1 THEN d
                                    ELSE IF d < k2 THEN d - 1 ELSE d - 2]
<1>1. back \in [1..n -> 0..n - 2] /\ back[k1] = 0 /\ back[k2] = 0
  OBVIOUS
<1>2. ASSUME NEW d \in 1..n, NEW e \in 1..n - 2  PROVE back[d] = e <=> Without(k1, k2, n)[e] = d
  BY DEF Without
<1>3. ASSUME NEW d \in 1..n, d # k1, d # k2
      PROVE  back[d] \in 1..n - 2 /\ Without(k1, k2, n)[back[d]] = d
  <2>1. back[d] \in 1..n - 2
    BY <1>3
  <2>. QED  BY <1>2, <2>1
<1>. HIDE DEF back
<1>4. IsBack(back, Without(k1, k2, n), k1, k2, n)
  BY <1>1, <1>2, <1>3 DEF IsBack
<1>. QED  BY <1>4

LEMMA DiagonalStays ==
    ASSUME ViewInv, NEW offset \in Int, NEW d1 \in Dims, NEW d2 \in Dims, d1 # d2,
           Diagonal(offset, d1, d2)
    PROVE  Stays(tensor, tensor')
<1>. DEFINE n == Rank(tensor)
            m == n - 1
            size == IF offset >= 0 THEN Max({Min({Size(d1), Size(d2) - offset}), 0})
                    ELSE Max({Min({Size(d1) + offset, Size(d2)}), 0})
            without(s) == RemoveAt(RemoveAt(s, Max({d1, d2})), Min({d1, d2}))
            sizes == Append(without(tensor.sizes), size)
            strides == Append(without(tensor.strides), Stride(d1) + Stride(d2))
            x == IF size = 0 THEN 0 ELSE IF offset >= 0 THEN offset ELSE -offset
            fd == IF offset >= 0 THEN d2 ELSE d1
<1>1. /\ n \in Nat /\ Dims = 1..n /\ tensor.sizes \in Sizes(n) /\ tensor.strides \in Sizes(n)
      /\ d1 \in 1..n /\ d2 \in 1..n /\ tensor.offset \in Nat
      /\ \A e \in 1..n : Size(e) \in Nat /\ Stride(e) \in Nat
  BY ViewFacts
<1>. HIDE DEF n
<1>2. PICK k1 \in 1..n, k2 \in 1..n : /\ k1 < k2 /\ {k1, k2} = {d1, d2}
                                      /\ Min({d1, d2}) = k1 /\ Max({d1, d2}) = k2
  <2>1. CASE d1 < d2
    <3>1. d1 \in Int /\ d2 \in Int /\ d1 <= d2 /\ ~(d1 >= d2)
      BY <1>1, <2>1
    <3>2. Min({d1, d2}) = d1 /\ Max({d1, d2}) = d2
      BY <3>1, MinMaxOfTwo
    <3>. QED  BY <1>1, <2>1, <3>2
  <2>2. CASE ~(d1 < d2)
    <3>1. d2 < d1 /\ d1 \in Int /\ d2 \in Int
      BY <1>1, <2>2
    <3>2. Min({d1, d2}) = d2 /\ Max({d1, d2}) = d1
      BY <3>1, MinMaxOfTwo
    <3>3. {d2, d1} = {d1, d2}
      OBVIOUS
    <3>. QED  BY <1>1, <3>1, <3>2, <3>3
  <2>. QED  BY <2>1, <2>2
<1>. DEFINE kept == Without(k1, k2, n)
<1>3. /\ n - 2 \in Nat /\ kept \in [1..n - 2 -> 1..n]
      /\ without(tensor.sizes) = [e \in 1..n - 2 |-> Size(kept[e])]
      /\ without(tensor.strides) = [e \in 1..n - 2 |-> Stride(kept[e])]
      /\ without(tensor.sizes) \in Sizes(n - 2) /\ without(tensor.strides) \in Sizes(n - 2)
  <2>1. ASSUME NEW s \in Sizes(n)
        PROVE  /\ n - 2 \in Nat /\ kept \in [1..n - 2 -> 1..n]
               /\ without(s) = [e \in 1..n - 2 |-> s[kept[e]]] /\ without(s) \in Sizes(n - 2)
    <3>1. without(s) = RemoveAt(RemoveAt(s, k2), k1)
      BY <1>2
    <3>. HIDE DEF without, size, sizes, strides, m, x, fd
    <3>2. n \in Nat /\ k1 < k2
      BY <1>1, <1>2
    <3>3. /\ n - 2 \in Nat /\ kept \in [1..n - 2 -> 1..n]
          /\ RemoveAt(RemoveAt(s, k2), k1) = [e \in 1..n - 2 |-> s[kept[e]]]
          /\ RemoveAt(RemoveAt(s, k2), k1) \in Sizes(n - 2)
      BY <2>1, <3>2, RemovedTwo, Zenon
    <3>. QED  BY <3>1, <3>3
  <2>. HIDE DEF without, kept
  <2>. QED  BY <1>1, <2>1 DEF Size, Stride
<1>4. PICK back : IsBack(back, kept, k1, k2, n)
  BY <1>1, <1>2, WithoutTwo, Zenon
<1>. HIDE DEF kept
<1>5. /\ size \in Nat
      /\ \A y \in Nat : y < size /\ offset >= 0 => y < Size(d1) /\ y + offset < Size(d2)
      /\ \A y \in Nat : y < size /\ offset < 0 => y - offset < Size(d1) /\ y < Size(d2)
  <2>0. Size(d1) \in Int /\ Size(d2) \in Int
    BY <1>1
  <2>1. CASE offset >= 0
    <3>1. PICK a \in Int : a = Size(d2) - offset
      BY <2>0
    <3>2. PICK b \in Int : b = Min({Size(d1), a}) /\ b = IF Size(d1) <= a THEN Size(d1) ELSE a
      BY <2>0, MinMaxOfTwo
    <3>3. size = Max({b, 0})
      BY <2>1, <3>1, <3>2
    <3>4. size = IF b >= 0 THEN b ELSE 0
      <4>. HIDE DEF size
      <4>. QED  BY <3>3, MinMaxOfTwo
    <3>. HIDE DEF size
    <3>. QED  BY <2>0, <2>1, <3>1, <3>2, <3>4
  <2>2. CASE ~(offset >= 0)
    <3>1. PICK a \in Int : a = Size(d1) + offset
      BY <2>0
    <3>2. PICK b \in Int : b = Min({a, Size(d2)}) /\ b = IF a <= Size(d2) THEN a ELSE Size(d2)
      BY <2>0, MinMaxOfTwo
    <3>3. size = Max({b, 0})
      BY <2>2, <3>1, <3>2
    <3>4. size = IF b >= 0 THEN b ELSE 0
      <4>. HIDE DEF size
      <4>. QED  BY <3>3, MinMaxOfTwo
    <3>. HIDE DEF size
    <3>. QED  BY <2>0, <2>2, <3>1, <3>2, <3>4
  <2>. QED  BY <2>1, <2>2
<1>6. AsStrided(sizes, strides, tensor.offset + x * Stride(fd))
  <2>1. x * Stride(fd) = IF size = 0 THEN 0 ELSE IF offset >= 0 THEN offset * Stride(d2)
                         ELSE -offset * Stride(d1)
    <3>1. Stride(d1) \in Int /\ Stride(d2) \in Int
      BY <1>1
    <3>. HIDE DEF size
    <3>. QED  BY <3>1
  <2>. HIDE DEF x, fd
  <2>. QED  BY <2>1 DEF Diagonal
<1>7. x \in Nat /\ fd \in Dims
  <2>. HIDE DEF size
  <2>. QED  OBVIOUS
<1>. HIDE DEF size, without
<1>8. /\ sizes = [e \in 1..m |-> IF e = m THEN size ELSE Size(kept[e])] /\ sizes \in Sizes(m)
      /\ strides = [e \in 1..m |-> IF e = m THEN Stride(d1) + Stride(d2) ELSE Stride(kept[e])]
      /\ strides \in Sizes(m) /\ m \in Nat
  <2>1. n - 2 \in Nat /\ n - 2 + 1 = m
    BY <1>1, <1>3
  <2>2. PICK a \in Sizes(n - 2) : a = without(tensor.sizes)
    BY <1>3
  <2>3. PICK b \in Sizes(n - 2) : b = without(tensor.strides)
    BY <1>3
  <2>4. /\ sizes = [e \in 1..n - 2 + 1 |-> IF e = n - 2 + 1 THEN size ELSE a[e]]
        /\ sizes \in Sizes(n - 2 + 1)
    <3>1. Append(a, size) = [e \in 1..n - 2 + 1 |-> IF e = n - 2 + 1 THEN size ELSE a[e]]
          /\ Append(a, size) \in Sizes(n - 2 + 1)
      BY <1>5, <2>1, Appended, Zenon
    <3>. QED  BY <2>2, <3>1
  <2>5. PICK c \in Nat : c = Stride(d1) + Stride(d2)
    BY <1>1
  <2>6. /\ strides = [e \in 1..n - 2 + 1 |-> IF e = n - 2 + 1 THEN c ELSE b[e]]
        /\ strides \in Sizes(n - 2 + 1)
    <3>1. Append(b, c) = [e \in 1..n - 2 + 1 |-> IF e = n - 2 + 1 THEN c ELSE b[e]]
          /\ Append(b, c) \in Sizes(n - 2 + 1)
      BY <2>1, Appended, Zenon
    <3>. QED  BY <2>3, <2>5, <3>1
  <2>7. \A e \in 1..m : e # m => e \in 1..n - 2
    BY <1>1, <2>1
  <2>8. \A e \in 1..m : e # m => a[e] = Size(kept[e]) /\ b[e] = Stride(kept[e])
    BY <1>3, <2>2, <2>3, <2>7
  <2>. HIDE DEF sizes, strides, m
  <2>9. /\ sizes = [e \in 1..m |-> IF e = m THEN size ELSE a[e]] /\ sizes \in Sizes(m)
        /\ strides = [e \in 1..m |-> IF e = m THEN c ELSE b[e]] /\ strides \in Sizes(m)
    BY <2>1, <2>4, <2>6
  <2>10. /\ sizes = [e \in 1..m |-> IF e = m THEN size ELSE Size(kept[e])]
         /\ strides = [e \in 1..m |-> IF e = m THEN Stride(d1) + Stride(d2) ELSE Stride(kept[e])]
    BY <2>5, <2>8, <2>9
  <2>11. m \in Nat
    BY <1>1, <2>1
  <2>. QED  BY <2>9, <2>10, <2>11
<1>. HIDE DEF sizes, strides, x, fd
<1>. DEFINE to == [d \in 1..n |-> IF d = d1 THEN m ELSE IF d = d2 THEN 0 ELSE back[d]]
            from == [e \in 1..m |-> IF e = m THEN d1 ELSE kept[e]]
            beside == [d \in 1..n |-> IF d = d2 THEN m ELSE 0]
            whence == [e \in 1..m |-> IF e = m THEN d2 ELSE 0]
<1>9. m \in 1..m /\ \A e \in 1..m : e # m => e \in 1..n - 2 /\ kept[e] \in 1..n /\ kept[e] # d1 /\ kept[e] # d2
  <2>1. m \in 1..m /\ \A e \in 1..m : e # m => e \in 1..n - 2
    <3>1. n \in Nat /\ n >= 2
      BY <1>1, <1>3
    <3>. QED  BY <3>1
  <2>2. ASSUME NEW e \in 1..n - 2  PROVE  kept[e] \in 1..n /\ kept[e] # k1 /\ kept[e] # k2
    <3>1. e # 0
      BY <1>3
    <3>. QED  BY <1>2, <1>3, <1>4, <3>1 DEF IsBack
  <2>. QED  BY <1>2, <2>1, <2>2
<1>10. \A d \in 1..n : d # d1 /\ d # d2 => back[d] \in 1..n - 2 /\ kept[back[d]] = d /\ back[d] \in 1..m /\ back[d] # m
  <2>1. \A e \in 1..n - 2 : e \in 1..m /\ e # m
    BY <1>1, <1>3
  <2>2. ASSUME NEW d \in 1..n, d # d1, d # d2
        PROVE  back[d] \in 1..n - 2 /\ kept[back[d]] = d
    <3>1. d # k1 /\ d # k2
      BY <1>2, <2>2
    <3>. HIDE DEF m
    <3>. QED  BY <1>4, <3>1 DEF IsBack
  <2>. HIDE DEF m
  <2>. QED  BY <2>1, <2>2
<1>11. Correspond(to, from, n, m)
  <2>1. to \in [1..n -> 0..m] /\ from \in [1..m -> 0..n]
    <3>1. 1..n \subseteq 0..n /\ 1..m \subseteq 0..m /\ m \in 0..m /\ 0 \in 0..m
      <4>1. m \in 1..m /\ n \in Nat
        BY <1>1, <1>9
      <4>. HIDE DEF m
      <4>. QED  BY <4>1
    <3>. HIDE DEF m
    <3>2. \A d \in 1..n : d # d1 /\ d # d2 => back[d] \in 0..m
      BY <1>10, <3>1
    <3>3. \A e \in 1..m : e # m => kept[e] \in 0..n
      BY <1>9, <3>1
    <3>4. d1 \in 0..n
      BY <1>1, <3>1
    <3>. QED  BY <3>1, <3>2, <3>3, <3>4
  <2>2. ASSUME NEW d \in 1..n, NEW e \in 1..m  PROVE  to[d] = e <=> from[e] = d
    <3>1. e # 0
      BY <1>8
    <3>. HIDE DEF m
    <3>2. CASE e = m
      BY <1>9, <1>10, <3>1, <3>2
    <3>3. CASE e # m
      BY <1>4, <1>9, <1>10, <3>1, <3>3 DEF IsBack
    <3>. QED  BY <3>2, <3>3
  <2>. QED  BY <2>1, <2>2 DEF Correspond
<1>12. Correspond(beside, whence, n, m)
  <2>1. beside \in [1..n -> 0..m] /\ whence \in [1..m -> 0..n]
    BY <1>1, <1>8
  <2>2. ASSUME NEW d \in 1..n, NEW e \in 1..m  PROVE  beside[d] = e <=> whence[e] = d
    <3>1. e # 0 /\ d # 0
      BY <1>1, <1>8
    <3>. QED  BY <3>1
  <2>. QED  BY <2>1, <2>2 DEF Correspond
<1>. HIDE DEF m
<1>13. DerivedStrides(sizes, strides, m, Ones(n), from, whence)
  <2>1. SUFFICES ASSUME NEW e \in 1..m
                 PROVE  strides[e] = (IF from[e] = 0 THEN 0 ELSE Ones(n)[from[e]] * Stride(from[e]))
                                       + Picked(tensor.strides, whence[e])
    BY DEF DerivedStrides
  <2>2. from[e] \in 1..n /\ from[e] # 0 /\ from[e] = IF e = m THEN d1 ELSE kept[e]
    <3>1. from[e] \in 1..n
      BY <1>1, <1>9
    <3>2. from[e] = IF e = m THEN d1 ELSE kept[e]
      BY <1>9
    <3>3. 0 \notin 1..n
      BY <1>1
    <3>. HIDE DEF from
    <3>. QED  BY <3>1, <3>2, <3>3
  <2>. HIDE DEF from
  <2>3. Ones(n)[from[e]] = 1 /\ Stride(from[e]) \in Nat
    BY <1>1, <2>2 DEF Ones
  <2>4. Picked(tensor.strides, whence[e]) = IF e = m THEN Stride(d2) ELSE 0
    BY <1>1 DEF Picked, Stride
  <2>5. Stride(d2) \in Nat
    BY <1>1
  <2>. QED  BY <1>8, <2>2, <2>3, <2>4, <2>5
<1>14. DerivedRange(sizes, m, First(fd, x, n), Ones(n), to, beside)
  <2>1. SUFFICES ASSUME NEW y \in Indices1(sizes, m), NEW d \in 1..n
                 PROVE  First(fd, x, n)[d] + Ones(n)[d] * Picked(y, to[d]) + Picked(y, beside[d]) < Size(d)
    BY DEF DerivedRange, n
  <2>2. \A e \in 1..m : y[e] \in Nat /\ y[e] < sizes[e]
    BY DEF Indices1, Sizes
  <2>3. /\ First(fd, x, n)[d] = (IF d = fd THEN x ELSE 0) /\ Ones(n)[d] = 1
        /\ Picked(y, to[d]) = (IF d = d1 THEN y[m] ELSE IF d = d2 THEN 0 ELSE y[back[d]])
        /\ Picked(y, beside[d]) = (IF d = d2 THEN y[m] ELSE 0)
    <3>1. m # 0 /\ (d # d1 /\ d # d2 => back[d] # 0)
      BY <1>8, <1>9, <1>10
    <3>2. First(fd, x, n)[d] = (IF d = fd THEN x ELSE 0) /\ Ones(n)[d] = 1
      BY DEF First, Ones
    <3>3. Picked(y, to[d]) = (IF d = d1 THEN y[m] ELSE IF d = d2 THEN 0 ELSE y[back[d]])
      BY <3>1 DEF Picked
    <3>4. Picked(y, beside[d]) = (IF d = d2 THEN y[m] ELSE 0)
      BY <3>1 DEF Picked
    <3>. QED  BY <3>2, <3>3, <3>4
  <2>4. y[m] \in Nat /\ y[m] < size /\ size # 0 /\ Size(d) \in Nat
    <3>1. y[m] \in Nat /\ y[m] < sizes[m]
      BY <1>9, <2>2
    <3>2. sizes[m] = size
      BY <1>8, <1>9
    <3>3. size \in Nat /\ Size(d) \in Nat
      BY <1>1, <1>5
    <3>. HIDE DEF m, size
    <3>. QED  BY <3>1, <3>2, <3>3
  <2>5. x = (IF offset >= 0 THEN offset ELSE -offset) /\ fd = (IF offset >= 0 THEN d2 ELSE d1)
    BY <2>4 DEF x, fd
  <2>6. CASE d # d1 /\ d # d2
    <3>1. y[back[d]] \in Nat /\ y[back[d]] < sizes[back[d]] /\ sizes[back[d]] = Size(d)
      BY <1>8, <1>10, <2>2, <2>6
    <3>2. d # fd
      BY <2>5, <2>6
    <3>. QED  BY <2>3, <2>4, <2>6, <3>1, <3>2
  <2>7. CASE d = d1
    BY <1>5, <2>3, <2>4, <2>5, <2>7
  <2>8. CASE d = d2
    BY <1>5, <2>3, <2>4, <2>5, <2>8
  <2>. QED  BY <2>6, <2>7, <2>8
<1>15. /\ First(fd, x, n) \in Sizes(n) /\ Ones(n) \in Sizes(n)
       /\ tensor.offset + x * Stride(fd) \in Nat
       /\ tensor.offset + x * Stride(fd) =
             tensor.offset + Total(Products(First(fd, x, n), tensor.strides, n))
  BY <1>1, <1>7, NothingBeside, FirstOffset DEF n
<1>. HIDE DEF to, from, beside, whence
<1>. QED  BY <1>1, <1>6, <1>8, <1>11, <1>12, <1>13, <1>14, <1>15, DerivedStays DEF n

-----------------------------------------------------------------------------
\* view.  Dimensions a + 1 to b are contiguous with each other when together
\* they count in steps of one number.
Dense(s, n, strides, base, a, b) ==
    \A k \in Nat : PartSum(Moves(s, n, strides, k), a, b) =
                      base * ((k \div Part(s, b, n)) % Part(s, a, b))

LEMMA DenseNone ==
    ASSUME NEW n \in Nat, NEW s \in FullSizes(n), NEW strides \in Terms(n), NEW base \in Int,
           NEW b \in 0..n
    PROVE  Dense(s, n, strides, base, b, b)
<1>1. n \in b..n /\ b \in b..n
  OBVIOUS
<1>2. Part(s, b, b) = 1 /\ Part(s, b, n) \in Nat \ {0}
  BY <1>1, FullParts, PartLast
<1>3. ASSUME NEW k \in Nat
      PROVE  PartSum(Moves(s, n, strides, k), b, b) = base * ((k \div Part(s, b, n)) % Part(s, b, b))
  <2>1. PartSum(Moves(s, n, strides, k), b, b) = 0
    <3>1. PICK f \in Terms(n) : f = Moves(s, n, strides, k)
      BY MovesType
    <3>. QED  BY <1>1, <3>1, SumType
  <2>2. PICK q \in Nat : q = k \div Part(s, b, n)
    BY <1>2, Quotient
  <2>3. q % 1 = 0 /\ base * 0 = 0
    OBVIOUS
  <2>. QED  BY <1>2, <2>1, <2>2, <2>3
<1>. QED  BY <1>3 DEF Dense

LEMMA DenseMore ==
    ASSUME NEW n \in Nat, NEW s \in FullSizes(n), NEW strides \in Terms(n), NEW base \in Int,
           NEW b \in 1..n, NEW a \in 1..b, Dense(s, n, strides, base, a, b),
           s[a] = 1 \/ strides[a] = Part(s, a, b) * base
    PROVE  Dense(s, n, strides, base, a - 1, b)
<1>1. /\ a \in 0..n /\ b \in a..n /\ n \in b..n /\ b \in 0..n /\ a - 1 \in 0..n /\ b \in (a - 1)..n
      /\ a \in 1..n /\ a \in (a - 1)..n
  OBVIOUS
<1>2. PICK P \in Nat \ {0} : P = Part(s, b, n)
  BY <1>1, FullParts
<1>3. PICK N \in Nat \ {0} : N = Part(s, a, b)
  BY <1>1, FullParts
<1>4. PICK z \in Nat \ {0} : z = s[a]
  BY <1>1 DEF FullSizes
<1>5. PICK u \in Int : u = strides[a]
  BY <1>1 DEF Terms
<1>6. Part(s, a, n) = P * N /\ Part(s, a - 1, b) = N * z
  <2>1. Part(s, a, n) = N * P
    BY <1>1, <1>2, <1>3, FullParts, PartSplit
  <2>2. Part(s, a - 1, b) = z * N
    BY <1>1, <1>3, <1>4, FullParts, PartFirst
  <2>. QED  BY <2>1, <2>2, ProductOfNats
<1>7. ASSUME NEW k \in Nat
      PROVE  PartSum(Moves(s, n, strides, k), a - 1, b) =
                base * ((k \div Part(s, b, n)) % Part(s, a - 1, b))
  <2>1. PICK f \in Terms(n) : f = Moves(s, n, strides, k)
    BY MovesType
  <2>2. PICK q \in Nat : q = k \div P
    BY Quotient
  <2>3. PICK x \in Nat : x = (q \div N) % z
    BY Quotient
  <2>4. PICK y \in Nat : y = q % N
    BY Quotient
  <2>5. f[a] = x * u
    <3>1. f[a] = ((k \div (P * N)) % z) * u
      BY <1>1, <1>4, <1>5, <1>6, <2>1 DEF Moves, Digit
    <3>2. k \div (P * N) = q \div N
      BY <2>2, QuotientOfQuotient
    <3>. QED  BY <2>3, <3>1, <3>2
  <2>6. PartSum(f, a, b) = base * y
    BY <1>2, <1>3, <2>1, <2>2, <2>4 DEF Dense
  <2>7. PartSum(f, a - 1, b) = x * u + base * y
    <3>1. PartSum(f, a - 1, b) = PartSum(f, a - 1, a) + PartSum(f, a, b)
      BY <1>1, SumSplit
    <3>2. PartSum(f, a - 1, a) = f[a]
      BY <1>1, SumOne
    <3>. QED  BY <2>5, <2>6, <3>1, <3>2
  <2>8. q % (N * z) = y + N * x
    BY <2>3, <2>4, RemainderOfProduct
  <2>9. x * u + base * y = base * (y + N * x)
    <3>1. CASE z = 1
      <4>1. x = 0
        <5>1. q \div N \in Nat
          BY Quotient
        <5>2. \A c \in Nat : c % 1 = 0
          OBVIOUS
        <5>. QED  BY <2>3, <3>1, <5>1, <5>2
      <4>. QED  BY <4>1
    <3>2. CASE z # 1
      <4>1. u = N * base
        BY <1>3, <1>4, <1>5, <3>2
      <4>2. x * (N * base) = base * (N * x)
        <5>1. x * (N * base) = (x * N) * base /\ x * N = N * x /\ N * x \in Int
          BY Times
        <5>2. (N * x) * base = base * (N * x)
          BY <5>1, Times
        <5>. QED  BY <5>1, <5>2
      <4>3. base * (y + N * x) = base * y + base * (N * x) /\ base * y \in Int /\ base * (N * x) \in Int
        <5>1. N * x \in Int
          BY Times
        <5>. QED  BY <5>1, Times
      <4>. QED  BY <4>1, <4>2, <4>3
    <3>. QED  BY <3>1, <3>2
  <2>. QED  BY <1>2, <1>6, <2>1, <2>2, <2>7, <2>8, <2>9
<1>. QED  BY <1>7 DEF Dense

LEMMA DenseBlock ==
    ASSUME NEW n \in Nat, NEW s \in FullSizes(n), NEW strides \in Terms(n), NEW base \in Int,
           NEW b \in 0..n, NEW a \in 0..b,
           \A w \in a + 1..b : strides[w] = Part(s, w, b) * base
    PROVE  Dense(s, n, strides, base, a, b)
<1>. DEFINE S == {j \in Nat : j <= b - a => Dense(s, n, strides, base, b - j, b)}
<1>1. 0 \in S
  BY DenseNone
<1>2. ASSUME NEW j \in Nat, j \in S  PROVE  j + 1 \in S
  <2>1. SUFFICES ASSUME j + 1 <= b - a  PROVE  Dense(s, n, strides, base, b - (j + 1), b)
    OBVIOUS
  <2>2. PICK w \in 1..b : w = b - j /\ w - 1 = b - (j + 1) /\ w \in a + 1..b /\ b \in 1..n
    BY <2>1
  <2>3. Dense(s, n, strides, base, w, b) /\ strides[w] = Part(s, w, b) * base
    BY <1>2, <2>1, <2>2
  <2>4. Dense(s, n, strides, base, w - 1, b)
    BY <2>2, <2>3, DenseMore
  <2>. QED  BY <2>2, <2>4
<1>. HIDE DEF S
<1>3. Nat \subseteq S
  BY <1>1, <1>2, SetInduction
<1>4. b - a \in S /\ b - (b - a) = a
  BY <1>3
<1>. QED  BY <1>4 DEF S

\* The elements that two lists of dimensions count are at the same places.
SameSums(s, n, st, e, new, m, u, v) ==
    \A k \in Nat : PartSum(Moves(s, n, st, k), e, n) = PartSum(Moves(new, m, u, k), v, m)

LEMMA SameSumsMore ==
    ASSUME NEW n \in Nat, NEW s \in FullSizes(n), NEW st \in Terms(n),
           NEW m \in Nat, NEW new \in FullSizes(m), NEW u \in Terms(m), NEW base \in Int,
           NEW e \in 0..n, NEW a \in 0..e, NEW v \in 0..m, NEW w \in 0..v,
           Part(s, e, n) = Part(new, v, m), Part(s, a, e) = Part(new, w, v),
           SameSums(s, n, st, e, new, m, u, v),
           Dense(s, n, st, base, a, e), Dense(new, m, u, base, w, v)
    PROVE  SameSums(s, n, st, a, new, m, u, w) /\ Part(s, a, n) = Part(new, w, m)
<1>1. /\ a \in 0..n /\ e \in a..n /\ n \in e..n /\ w \in 0..m /\ v \in w..m /\ m \in v..m
  OBVIOUS
<1>2. ASSUME NEW k \in Nat
      PROVE  PartSum(Moves(s, n, st, k), a, n) = PartSum(Moves(new, m, u, k), w, m)
  <2>1. PICK f \in Terms(n) : f = Moves(s, n, st, k)
    BY MovesType
  <2>2. PICK g \in Terms(m) : g = Moves(new, m, u, k)
    BY MovesType
  <2>3. PartSum(f, a, e) = PartSum(g, w, v)
    BY <2>1, <2>2 DEF Dense
  <2>4. PartSum(f, e, n) = PartSum(g, v, m)
    BY <2>1, <2>2 DEF SameSums
  <2>5. /\ PartSum(f, a, n) = PartSum(f, a, e) + PartSum(f, e, n)
        /\ PartSum(g, w, m) = PartSum(g, w, v) + PartSum(g, v, m)
    BY <1>1, SumSplit
  <2>. QED  BY <2>1, <2>2, <2>3, <2>4, <2>5
<1>3. Part(s, a, n) = Part(s, a, e) * Part(s, e, n) /\ Part(new, w, m) = Part(new, w, v) * Part(new, v, m)
  BY <1>1, FullParts, PartSplit
<1>. QED  BY <1>2, <1>3 DEF SameSums

LEMMA MovesAgree ==
    ASSUME NEW m \in Nat, NEW new \in FullSizes(m), NEW u \in Terms(m), NEW x \in Terms(m),
           NEW v \in 0..m, Agree(u, x, v, m), NEW k \in Nat
    PROVE  PartSum(Moves(new, m, u, k), v, m) = PartSum(Moves(new, m, x, k), v, m)
<1>1. PICK f \in Terms(m) : f = Moves(new, m, u, k)
  BY MovesType
<1>2. PICK g \in Terms(m) : g = Moves(new, m, x, k)
  BY MovesType
<1>3. Agree(f, g, v, m)
  BY <1>1, <1>2 DEF Agree, Moves
<1>4. m \in v..m /\ m <= m
  OBVIOUS
<1>. QED  BY <1>1, <1>2, <1>3, <1>4, SumOfEquals

\* The digits of a multiple of what the dimensions after w count.
LEMMA TrailingDigits ==
    ASSUME NEW n \in Nat, NEW s \in FullSizes(n), NEW w \in 0..n, NEW r \in Nat,
           NEW d \in w + 1..n
    PROVE  Digit(s, n, d, r * Part(s, w, n)) = 0
<1>1. /\ d - 1 \in w..n /\ n \in (d - 1)..n /\ d \in 1..n /\ n \in d..n /\ d \in 0..n
      /\ d - 1 \in 0..n /\ n \in w..n
  OBVIOUS
<1>2. PICK a \in Nat \ {0} : a = Part(s, d, n)
  BY <1>1, FullParts
<1>3. PICK b \in Nat \ {0} : b = s[d]
  BY <1>1 DEF FullSizes
<1>4. PICK c \in Nat : c = Part(s, w, d - 1)
  BY <1>1, FullParts
<1>5. Part(s, w, n) = c * (b * a)
  <2>1. Part(s, w, n) = Part(s, w, d - 1) * Part(s, d - 1, n) /\ Part(s, d - 1, n) = s[d] * Part(s, d, n)
    BY <1>1, FullParts, PartSplit, PartFirst
  <2>. QED  BY <1>2, <1>3, <1>4, <2>1
<1>6. PICK x \in Nat : x = r * c
  BY ProductOfNats
<1>7. r * Part(s, w, n) = x * (b * a)
  <2>1. b * a \in Int
    BY Times
  <2>2. r * (c * (b * a)) = (r * c) * (b * a)
    BY <2>1, Times
  <2>. QED  BY <1>5, <1>6, <2>2
<1>8. PICK y \in Nat : y = x * (b * a)
  BY ProductOfNats
<1>9. (y \div a) % b = 0
  <2>1. ((0 + x * (b * a)) \div a) % b = (0 \div a) % b
    BY DigitOfSum
  <2>2. 0 \div a = 0 /\ 0 % b = 0
    OBVIOUS
  <2>3. 0 + x * (b * a) = y
    BY <1>8
  <2>. QED  BY <2>1, <2>2, <2>3
<1>. QED  BY <1>2, <1>3, <1>7, <1>8, <1>9 DEF Digit

\* Where the elements are that contiguous dimensions count, the others at 0.
LEMMA DenseAt ==
    ASSUME NEW n \in Nat, NEW s \in FullSizes(n), NEW strides \in Terms(n), NEW base \in Int,
           NEW e \in 0..n, NEW a \in 0..e, Dense(s, n, strides, base, a, e),
           NEW r \in Nat, r < Part(s, a, e)
    PROVE  Total(Moves(s, n, strides, r * Part(s, e, n))) = base * r
<1>1. a \in 0..n /\ e \in a..n /\ n \in e..n /\ n \in a..n /\ 0 \in 0..n /\ n \in 0..n /\ a \in 0..n /\ a \in 0..n
      /\ e \in 0..n
  OBVIOUS
<1>2. PICK P \in Nat \ {0} : P = Part(s, e, n)
  BY <1>1, FullParts
<1>3. PICK N \in Nat \ {0} : N = Part(s, a, e)
  BY <1>1, FullParts
<1>4. PICK k \in Nat : k = r * P /\ k = P * r + 0 /\ k < N * P
  <2>1. r * P \in Nat /\ r * P = P * r
    BY ProductOfNats
  <2>2. P * r + 0 < P * N
    BY <1>3, LessTimes
  <2>3. P * N = N * P
    BY ProductOfNats
  <2>. QED  BY <2>1, <2>2, <2>3
<1>5. PICK f \in Terms(n) : f = Moves(s, n, strides, k)
  BY MovesType
<1>6. \A d \in 1..n : strides[d] \in Int /\ 0 * strides[d] = 0
  BY DEF Terms
<1>7. Zeros(f, 0, a)
  <2>1. k < Part(s, a, n)
    BY <1>1, <1>2, <1>3, <1>4, FullParts, PartSplit
  <2>2. ASSUME NEW d \in 0 + 1..a  PROVE  f[d] = 0
    <3>1. d \in 1..a /\ d \in 1..n
      OBVIOUS
    <3>2. Digit(s, n, d, k) = 0
      BY <1>1, <2>1, <3>1, LeadingDigits
    <3>. QED  BY <1>5, <1>6, <3>1, <3>2 DEF Moves
  <2>. QED  BY <2>2 DEF Zeros
<1>8. Zeros(f, e, n)
  <2>1. ASSUME NEW d \in e + 1..n  PROVE  f[d] = 0
    <3>1. d \in 1..n
      OBVIOUS
    <3>2. Digit(s, n, d, k) = 0
      BY <1>1, <1>2, <1>4, TrailingDigits
    <3>. QED  BY <1>5, <1>6, <3>1, <3>2 DEF Moves
  <2>. QED  BY <2>1 DEF Zeros
<1>9. PartSum(f, a, e) = base * r
  <2>1. PartSum(f, a, e) = base * ((k \div P) % N)
    BY <1>2, <1>3, <1>5 DEF Dense
  <2>2. k \div P = r
    BY <1>4, QuotientIs
  <2>3. r % N = r
    BY <1>3, QuotientOfLess
  <2>. QED  BY <2>1, <2>2, <2>3
<1>10. PartSum(f, 0, a) = 0 /\ PartSum(f, e, n) = 0
  BY <1>1, <1>7, <1>8, SumOfZeros
<1>11. Total(f) = PartSum(f, 0, a) + (PartSum(f, a, e) + PartSum(f, e, n))
  BY <1>1, SumSplit, SumType
<1>12. base * r \in Int
  BY Times
<1>. QED  BY <1>2, <1>4, <1>5, <1>9, <1>10, <1>11, <1>12

\* Steps in a dimension, from an element further in.
LEMMA StepsOf ==
    ASSUME NEW n \in Nat, NEW s \in FullSizes(n), NEW strides \in Terms(n), NEW w \in 1..n,
           NEW r \in Nat, r < Part(s, w, n), NEW q \in Nat, q < s[w]
    PROVE  Total(Moves(s, n, strides, r + q * Part(s, w, n))) =
              Total(Moves(s, n, strides, r)) + q * strides[w]
<1>0. w \in 0..n /\ n \in w..n
  OBVIOUS
<1>1. PICK k : k = r + q * Part(s, w, n)
  OBVIOUS
<1>2. /\ k \in Nat
      /\ Digit(s, n, w, k) = q
      /\ \A d \in w + 1..n : Digit(s, n, d, k) = Digit(s, n, d, r)
      /\ \A d \in 1..w - 1 : Digit(s, n, d, k) = 0
  BY <1>1, DigitsOfSum
<1>3. \A d \in 1..w : Digit(s, n, d, r) = 0
  BY <1>0, LeadingDigits
<1>4. PICK h \in Terms(n) : h = Moves(s, n, strides, k)
  BY <1>2, MovesType
<1>5. PICK f \in Terms(n) : f = Moves(s, n, strides, r)
  BY MovesType
<1>. DEFINE g == [d \in 1..n |-> IF d = w THEN q * strides[w] ELSE 0]
<1>6. /\ \A d \in 1..n : strides[d] \in Int /\ 0 * strides[d] = 0
      /\ strides[w] \in Int /\ q * strides[w] \in Int
  <2>1. \A d \in 1..n : strides[d] \in Int
    BY DEF Terms
  <2>. QED  BY <2>1, Times
<1>7. g \in Terms(n) /\ OnlyAt(g, w, w, n) /\ g[w] = q * strides[w]
  BY <1>6 DEF Terms, OnlyAt
<1>8. AddsUp(h, f, g, n)
  <2>1. ASSUME NEW d \in 1..n  PROVE  h[d] = f[d] + g[d]
    <3>1. /\ h[d] = Digit(s, n, d, k) * strides[d] /\ f[d] = Digit(s, n, d, r) * strides[d]
          /\ f[d] \in Int
      BY <1>4, <1>5 DEF Moves, Terms
    <3>2. CASE d = w
      BY <1>2, <1>3, <1>6, <3>1, <3>2
    <3>3. CASE d # w
      <4>1. Digit(s, n, d, k) = Digit(s, n, d, r)
        <5>1. d \in w + 1..n \/ d \in 1..w - 1
          BY <3>3
        <5>2. d \in 1..w - 1 => d \in 1..w
          OBVIOUS
        <5>. QED  BY <1>2, <1>3, <5>1, <5>2
      <4>. QED  BY <3>1, <3>3, <4>1
    <3>. QED  BY <3>2, <3>3
  <2>. HIDE DEF g
  <2>. QED  BY <2>1 DEF AddsUp
<1>. HIDE DEF g
<1>9. Total(h) = Total(f) + Total(g) /\ Total(g) = g[w]
  BY <1>7, <1>8, TotalOfSums, TotalOfOne
<1>. QED  BY <1>1, <1>4, <1>5, <1>7, <1>9

LEMMA TotalAtZero ==
    ASSUME NEW n \in Nat, NEW s \in FullSizes(n), NEW strides \in Terms(n)
    PROVE  Total(Moves(s, n, strides, 0)) = 0
<1>1. n \in 0..n /\ n \in n..n
  OBVIOUS
<1>2. Part(s, n, n) = 1
  BY <1>1, FullParts, PartLast
<1>3. \A d \in 1..n : Digit(s, n, d, 0) = 0
  BY <1>1, <1>2, LeadingDigits
<1>4. PICK f \in Terms(n) : f = Moves(s, n, strides, 0)
  BY MovesType
<1>5. \A d \in 1..n : strides[d] \in Int /\ 0 * strides[d] = 0
  BY DEF Terms
<1>6. Zeros(f, 0, n)
  BY <1>3, <1>4, <1>5 DEF Zeros, Moves
<1>. QED  BY <1>4, <1>6, TotalOfZeros

LEMMA StepOf ==
    ASSUME NEW n \in Nat, NEW s \in FullSizes(n), NEW strides \in Terms(n), NEW w \in 1..n,
           s[w] # 1
    PROVE  Total(Moves(s, n, strides, Part(s, w, n))) = strides[w]
<1>1. w \in 0..n /\ n \in w..n
  OBVIOUS
<1>2. PICK P \in Nat \ {0} : P = Part(s, w, n)
  BY <1>1, FullParts
<1>3. 1 < s[w] /\ 0 < P
  <2>1. s[w] \in Nat \ {0}
    BY DEF FullSizes
  <2>. QED  BY <2>1
<1>4. strides[w] \in Int
  BY DEF Terms
<1>5. Total(Moves(s, n, strides, 0 + 1 * P)) = Total(Moves(s, n, strides, 0)) + 1 * strides[w]
  BY <1>2, <1>3, StepsOf
<1>6. 0 + 1 * P = P
  OBVIOUS
<1>7. Total(Moves(s, n, strides, P)) = 0 + 1 * strides[w]
  BY <1>5, <1>6, TotalAtZero
<1>. QED  BY <1>2, <1>4, <1>7

\* Strides with which a tensor of other sizes has its elements at the same
\* places, one by one.
Follow(s, n, st, new, m, u) ==
    \A k \in 0..Part(s, 0, n) - 1 : Total(Moves(s, n, st, k)) = Total(Moves(new, m, u, k))

\* A dimension of the new sizes that spans two chunks: no strides will do.
LEMMA NoneFollow ==
    ASSUME NEW n \in Nat, NEW s \in FullSizes(n), NEW st \in Terms(n),
           NEW m \in Nat, NEW new \in FullSizes(m), NEW u \in Terms(m), NEW base \in Int,
           Part(s, 0, n) = Part(new, 0, m),
           NEW e \in 0..n, NEW a \in 0..e, NEW v \in 0..m, NEW w \in 1..v,
           Part(s, e, n) = Part(new, v, m), Dense(s, n, st, base, a, e),
           Part(new, w, v) < Part(s, a, e), Part(s, a, e) < Part(new, w - 1, v),
           a # 0 => s[a] # 1 /\ st[a] # Part(s, a, e) * base,
           Follow(s, n, st, new, m, u)
    PROVE  FALSE
<1>1. /\ a \in 0..n /\ e \in a..n /\ n \in e..n /\ n \in a..n /\ 0 \in 0..n /\ n \in 0..n
      /\ w \in 0..m /\ w \in 1..m /\ v \in w..m /\ m \in v..m /\ w - 1 \in 0..m /\ v \in (w - 1)..m
      /\ 0 \in 0..m /\ w - 1 \in 0..m /\ m \in (w - 1)..m /\ m \in w..m /\ a \in 0..n
  OBVIOUS
<1>2. PICK P \in Nat \ {0} : P = Part(s, e, n) /\ P = Part(new, v, m)
  BY <1>1, FullParts
<1>3. PICK N \in Nat \ {0} : N = Part(s, a, e)
  BY <1>1, FullParts
<1>4. PICK f \in Nat \ {0} : f = Part(new, w, v) /\ f < N
  BY <1>1, <1>3, FullParts
<1>5. PICK z \in Nat \ {0} : z = new[w]
  BY <1>1 DEF FullSizes
<1>6. N < f * z
  <2>1. Part(new, w - 1, v) = z * f
    BY <1>1, <1>4, <1>5, FullParts, PartFirst
  <2>. QED  BY <1>3, <2>1, ProductOfNats
<1>7. PICK F \in Nat \ {0} : F = Part(new, w, m) /\ F = f * P /\ F = P * f
  <2>1. Part(new, w, m) = f * P
    BY <1>1, <1>2, <1>4, FullParts, PartSplit
  <2>2. f * P \in Nat \ {0} /\ f * P = P * f
    BY ProductOfNats
  <2>. QED  BY <2>1, <2>2
<1>8. PICK T \in Nat \ {0} : T = Part(s, 0, n) /\ T = Part(new, 0, m)
  BY <1>1, FullParts
<1>9. PICK A \in Nat \ {0} : A = Part(s, a, n) /\ A = N * P /\ A = P * N
  <2>1. Part(s, a, n) = N * P
    BY <1>1, <1>2, <1>3, FullParts, PartSplit
  <2>2. N * P \in Nat \ {0} /\ N * P = P * N
    BY ProductOfNats
  <2>. QED  BY <2>1, <2>2
<1>10. A < T
  <2>1. PICK c \in Nat \ {0} : c = Part(new, 0, w - 1)
    BY <1>1, FullParts
  <2>2. Part(new, w - 1, m) = z * F
    <3>1. Part(new, w - 1, m) = new[w] * Part(new, w, m)
      BY <1>1, FullParts, PartFirst
    <3>. QED  BY <1>5, <1>7, <3>1
  <2>3. T = c * (z * F)
    BY <1>1, <1>8, <2>1, <2>2, FullParts, PartSplit
  <2>4. P * N + 0 < P * (f * z)
    <3>1. f * z \in Nat
      BY ProductOfNats
    <3>. QED  BY <1>6, <3>1, LessTimes
  <2>5. P * (f * z) = z * F
    BY <1>7, Times
  <2>6. z * F <= (z * F) * c /\ (z * F) * c = c * (z * F) /\ z * F \in Nat
    BY ProductOfNats
  <2>. QED  BY <1>9, <2>3, <2>4, <2>5, <2>6
<1>11. ASSUME NEW r \in Nat, r < N  PROVE  Total(Moves(new, m, u, P * r)) = base * r
  <2>1. PICK k \in Nat : k = P * r /\ k = r * P
    BY ProductOfNats
  <2>2. k < A
    <3>1. P * r + 0 < P * N
      BY <1>11, LessTimes
    <3>. QED  BY <1>9, <2>1, <3>1
  <2>3. Total(Moves(s, n, st, k)) = base * r
    BY <1>2, <1>3, <1>11, <2>1, DenseAt
  <2>4. k \in 0..T - 1
    BY <1>10, <2>2
  <2>. QED  BY <1>8, <2>1, <2>3, <2>4 DEF Follow
<1>12. u[w] = base * f
  <2>1. z # 1
    BY <1>4, <1>6
  <2>2. Total(Moves(new, m, u, F)) = u[w]
    <3>1. w \in 1..m /\ new[w] # 1
      BY <1>1, <1>5, <2>1
    <3>2. Total(Moves(new, m, u, Part(new, w, m))) = u[w]
      BY <3>1, StepOf
    <3>. QED  BY <1>7, <3>2
  <2>3. Total(Moves(new, m, u, P * f)) = base * f
    BY <1>4, <1>11
  <2>. QED  BY <1>7, <2>2, <2>3
<1>13. Total(Moves(new, m, u, A)) = base * N
  <2>1. PICK q \in Nat : q = N \div f
    BY Quotient
  <2>2. PICK r \in Nat : r < f /\ N = f * q + r
    <3>1. (N % f) \in Nat /\ (N % f) < f /\ N = f * (N \div f) + (N % f)
      BY Quotient
    <3>. QED  BY <2>1, <3>1
  <2>3. q < z
    <3>1. SUFFICES ASSUME z <= q  PROVE  FALSE
      OBVIOUS
    <3>2. PICK y \in Nat : q = z + y
      BY <3>1
    <3>3. f * q = f * z + f * y /\ f * y \in Nat /\ f * z \in Nat
      BY <3>2, Times, ProductOfNats
    <3>. QED  BY <1>6, <2>2, <3>3
  <2>4. PICK k \in Nat : k = P * r /\ k < F
    <3>1. P * r + 0 < P * f /\ P * r \in Nat
      BY <2>2, LessTimes, ProductOfNats
    <3>. QED  BY <1>7, <3>1
  <2>5. A = k + q * F
    <3>1. P * (f * q + r) = P * (f * q) + P * r
      <4>1. f * q \in Int
        BY Times
      <4>. QED  BY <4>1, Times
    <3>2. P * (f * q) = q * F
      <4>1. P * (f * q) = (P * f) * q /\ F * q = q * F
        BY Times
      <4>. QED  BY <1>7, <4>1
    <3>3. q * F \in Int
      BY Times
    <3>. QED  BY <1>9, <2>2, <2>4, <3>1, <3>2, <3>3
  <2>6. Total(Moves(new, m, u, k + q * F)) = Total(Moves(new, m, u, k)) + q * u[w]
    <3>1. k < Part(new, w, m) /\ q < new[w] /\ w \in 1..m
      BY <1>1, <1>5, <1>7, <2>3, <2>4
    <3>2. Total(Moves(new, m, u, k + q * Part(new, w, m))) = Total(Moves(new, m, u, k)) + q * u[w]
      BY <3>1, StepsOf
    <3>. QED  BY <1>7, <3>2
  <2>7. Total(Moves(new, m, u, k)) = base * r
    BY <1>4, <1>11, <2>2, <2>4
  <2>8. base * r + q * (base * f) = base * N
    <3>1. base * (f * q + r) = base * (f * q) + base * r /\ base * r \in Int /\ base * (f * q) \in Int
      <4>1. f * q \in Int
        BY Times
      <4>. QED  BY <4>1, Times
    <3>2. q * (base * f) = base * (f * q)
      <4>1. base * f \in Int
        BY Times
      <4>2. q * (base * f) = (base * f) * q /\ (base * f) * q = base * (f * q)
        BY <4>1, Times
      <4>. QED  BY <4>2
    <3>. QED  BY <2>2, <3>1, <3>2
  <2>. QED  BY <1>12, <2>5, <2>6, <2>7, <2>8
<1>14. Total(Moves(s, n, st, A)) = base * N
  <2>1. A \in 0..T - 1
    BY <1>10
  <2>. QED  BY <1>8, <1>13, <2>1 DEF Follow
<1>15. a # 0
  <2>1. Part(s, a, n) < Part(s, 0, n) /\ T \in Nat /\ Part(s, 0, n) = T
    BY <1>8, <1>9, <1>10
  <2>2. Part(s, a, n) # Part(s, 0, n)
    BY <2>1
  <2>. QED  BY <2>2
<1>16. a \in 1..n /\ s[a] # 1 /\ st[a] # N * base /\ st[a] \in Int
  BY <1>1, <1>3, <1>15 DEF Terms
<1>17. Total(Moves(s, n, st, A)) = st[a]
  <2>1. Total(Moves(s, n, st, Part(s, a, n))) = st[a]
    BY <1>16, StepOf
  <2>. QED  BY <1>9, <2>1
<1>18. base * N = N * base
  BY Times
<1>. QED  BY <1>14, <1>16, <1>17, <1>18

\* The largest of some numbers up to a bound.
LEMMA LargestUpTo ==
    ASSUME NEW v \in Nat, NEW T \in SUBSET (0..v), T # {}
    PROVE  Max(T) \in T /\ \A y \in T : y <= Max(T)
<1>. DEFINE R == {i \in Nat : i <= v /\ v - i \in T}
<1>1. R \in SUBSET Nat /\ R # {}
  <2>1. PICK y \in T : TRUE
    OBVIOUS
  <2>2. v - y \in R
    BY <2>1
  <2>. QED  BY <2>2
<1>2. PICK i \in R : \A j \in R : i <= j
  BY <1>1, NatMin
<1>3. v - i \in T /\ i \in Nat
  BY <1>2
<1>4. ASSUME NEW y \in T  PROVE  v - i >= y
  <2>1. v - y \in R /\ y \in Nat
    BY DEF R
  <2>2. i <= v - y
    BY <1>2, <2>1
  <2>. QED  BY <1>3, <2>1, <2>2
<1>5. \E x \in T : \A y \in T : x >= y
  BY <1>3, <1>4
<1>6. Max(T) \in T /\ \A y \in T : Max(T) >= y
  BY <1>5 DEF Max
<1>7. \A y \in T : y \in Int
  OBVIOUS
<1>. QED  BY <1>6, <1>7

LEMMA StopOfFill ==
    ASSUME NEW m \in Nat, NEW new \in FullSizes(m), NEW v \in 0..m, NEW numel \in Nat
    PROVE  LET stop == FillStop(new, v, numel)
           IN  /\ stop \in 0..v
               /\ stop # 0 => Part(new, stop, v) >= numel /\ new[stop] # 1
               /\ \A w \in 1..v : Part(new, w, v) >= numel /\ new[w] # 1 => w <= stop
<1>. DEFINE T == {w \in 0..v : w = 0 \/ (Part(new, w, v) >= numel /\ new[w] # 1)}
            stop == FillStop(new, v, numel)
<1>1. stop = Max(T)
  BY DEF FillStop, Part
<1>2. T \in SUBSET (0..v) /\ T # {} /\ v \in Nat
  <2>1. 0 \in T
    OBVIOUS
  <2>. QED  BY <2>1
<1>. HIDE DEF stop
<1>3. stop \in T /\ \A y \in T : y <= stop
  <2>. HIDE DEF T
  <2>. QED  BY <1>1, <1>2, LargestUpTo
<1>4. \A w \in 1..v : Part(new, w, v) >= numel /\ new[w] # 1 => w <= stop
  <2>1. \A w \in 1..v : w \in 0..v
    OBVIOUS
  <2>. QED  BY <1>3, <2>1
<1>. QED  BY <1>3, <1>4 DEF stop

\* A chunk that is not filled exactly leaves the rest of the new sizes too
\* small, or one of them spans its end.
LEMMA FillMisses ==
    ASSUME NEW m \in Nat, NEW new \in FullSizes(m), NEW v \in 0..m, NEW numel \in Nat \ {0},
           Part(new, FillStop(new, v, numel), v) # numel
    PROVE  \/ Part(new, 0, v) < numel
           \/ \E w \in 1..v : Part(new, w, v) < numel /\ numel < Part(new, w - 1, v)
<1>. DEFINE stop == FillStop(new, v, numel)
<1>1. /\ stop \in 0..v
      /\ stop # 0 => Part(new, stop, v) >= numel /\ new[stop] # 1
      /\ \A w \in 1..v : Part(new, w, v) >= numel /\ new[w] # 1 => w <= stop
  BY StopOfFill
<1>2. ASSUME NEW w \in 0..v  PROVE  Part(new, w, v) \in Nat \ {0}
  <2>1. w \in 0..m /\ v \in w..m
    OBVIOUS
  <2>. QED  BY <2>1, FullParts
<1>3. Part(new, stop, v) # numel
  OBVIOUS
<1>. HIDE DEF stop
<1>4. CASE Part(new, stop, v) < numel
  <2>1. stop = 0
    BY <1>1, <1>2, <1>4
  <2>. QED  BY <1>4, <2>1
<1>5. CASE ~(Part(new, stop, v) < numel)
  <2>. DEFINE T == {w \in 0..v : Part(new, w, v) > numel}
  <2>1. stop \in T
    BY <1>1, <1>2, <1>3, <1>5
  <2>2. T \in SUBSET (0..v) /\ T # {} /\ v \in Nat
    BY <2>1
  <2>3. PICK x \in T : \A y \in T : y <= x
    <3>. HIDE DEF T
    <3>. QED  BY <2>2, LargestUpTo
  <2>4. x # v
    <3>1. v \in 0..m /\ v \in v..m
      OBVIOUS
    <3>2. Part(new, v, v) = 1
      BY <3>1, FullParts, PartLast
    <3>. QED  BY <2>3, <3>2
  <2>5. PICK w \in 1..v : w = x + 1 /\ w - 1 = x /\ w \in 0..v /\ w \in 1..m
    BY <2>3, <2>4
  <2>6. ~(Part(new, w, v) > numel)
    <3>1. w \notin T
      BY <2>3, <2>5
    <3>. QED  BY <2>5, <3>1
  <2>7. Part(new, w, v) # numel
    <3>1. SUFFICES ASSUME Part(new, w, v) = numel  PROVE  FALSE
      OBVIOUS
    <3>2. ~(w <= stop)
      BY <1>1, <2>1, <2>3, <2>5
    <3>3. new[w] = 1
      BY <1>1, <3>1, <3>2
    <3>4. Part(new, w - 1, v) = new[w] * Part(new, w, v)
      <4>1. w \in 1..m /\ v \in w..m
        BY <2>5
      <4>. QED  BY <4>1, FullParts, PartFirst
    <3>5. Part(new, x, v) > numel
      BY <2>3
    <3>. QED  BY <2>5, <3>1, <3>3, <3>4, <3>5
  <2>8. Part(new, w, v) < numel
    BY <1>2, <2>5, <2>6, <2>7
  <2>9. numel < Part(new, w - 1, v)
    BY <1>2, <2>3, <2>5
  <2>. QED  BY <2>8, <2>9
<1>. QED  BY <1>4, <1>5

\* The states of the loop, and what it has found out when dimensions 1 to a
\* of the old sizes are left: those after e and after c.view have the same
\* elements, and those from a + 1 to e are the current chunk.
States(m) == [fits : BOOLEAN, view : 0..m, base : Nat, numel : Nat, strides : Sizes(m)]

InChunk(c, s, n, st, new, m, a, e) ==
    /\ e \in a..n
    /\ Part(s, e, n) = Part(new, c.view, m)
    /\ SameSums(s, n, st, e, new, m, c.strides, c.view)
    /\ c.numel = Part(s, a, e)
    /\ Dense(s, n, st, c.base, a, e)
    /\ a # 0 => s[a] = 1 \/ st[a] = c.numel * c.base
    /\ a = 0 => e = 0 /\ (c.view = 0 \/ new[c.view] # 1)

NoneFollows(s, n, st, new, m) == \A u \in Terms(m) : ~Follow(s, n, st, new, m, u)

Found(c, s, n, st, new, m, a) ==
    IF c.fits THEN \E e \in 0..n : InChunk(c, s, n, st, new, m, a, e)
    ELSE NoneFollows(s, n, st, new, m)

\* One turn, case by case.
Filled(new, stop, c) ==
    [w \in DOMAIN new |-> IF w \in stop + 1..c.view THEN Part(new, w, c.view) * c.base
                          ELSE c.strides[w]]

Turned(c, new, st, d, numel, ends, stop) ==
    IF ~c.fits \/ (ends /\ Part(new, stop, c.view) # numel) THEN [c EXCEPT !.fits = FALSE]
    ELSE IF ~ends THEN [c EXCEPT !.numel = numel]
    ELSE [fits |-> TRUE, view |-> stop, base |-> IF d = 1 THEN c.base ELSE st[d - 1],
          numel |-> 1, strides |-> Filled(new, stop, c)]

Ends(s, st, d, c, numel) == d = 1 \/ (s[d - 1] # 1 /\ st[d - 1] # numel * c.base)

LEMMA Turn ==
    ASSUME NEW s, NEW st, NEW new, NEW d, NEW c
    PROVE  LET numel == c.numel * s[d]
           IN  ChunkStep(s, st, new, d, c) =
                 Turned(c, new, st, d, numel, Ends(s, st, d, c, numel), FillStop(new, c.view, numel))
  BY Zenon DEF ChunkStep, Filled, Part, Turned, Ends

LEMMA FilledType ==
    ASSUME NEW m \in Nat, NEW new \in FullSizes(m), NEW c \in States(m), NEW stop \in 0..c.view
    PROVE  /\ Filled(new, stop, c) \in Sizes(m)
           /\ Filled(new, stop, c) = [w \in 1..m |->
                 IF w \in stop + 1..c.view THEN Part(new, w, c.view) * c.base ELSE c.strides[w]]
<1>1. c.view \in 0..m /\ c.base \in Nat /\ c.strides \in Sizes(m) /\ DOMAIN new = 1..m
  BY DEF States, FullSizes
<1>2. Filled(new, stop, c) = [w \in 1..m |->
         IF w \in stop + 1..c.view THEN Part(new, w, c.view) * c.base ELSE c.strides[w]]
  BY <1>1 DEF Filled
<1>3. ASSUME NEW w \in 1..m
      PROVE  (IF w \in stop + 1..c.view THEN Part(new, w, c.view) * c.base ELSE c.strides[w]) \in Nat
  <2>1. CASE w \in stop + 1..c.view
    <3>1. w \in 0..m /\ c.view \in w..m
      BY <1>1, <2>1
    <3>2. Part(new, w, c.view) \in Nat
      BY <3>1, FullParts
    <3>. QED  BY <1>1, <2>1, <3>2, ProductOfNats
  <2>2. CASE w \notin stop + 1..c.view
    BY <1>1, <2>2 DEF Sizes
  <2>. QED  BY <2>1, <2>2
<1>. QED  BY <1>2, <1>3 DEF Sizes

LEMMA TurnType ==
    ASSUME NEW n \in Nat, NEW s \in FullSizes(n), NEW st \in Sizes(n), NEW m \in Nat,
           NEW new \in FullSizes(m), NEW d \in 1..n, NEW c \in States(m)
    PROVE  ChunkStep(s, st, new, d, c) \in States(m)
<1>1. /\ c.view \in 0..m /\ c.base \in Nat /\ c.strides \in Sizes(m) /\ c.numel \in Nat
  BY DEF States
<1>2. PICK numel \in Nat : numel = c.numel * s[d]
  <2>1. s[d] \in Nat
    BY DEF FullSizes
  <2>. QED  BY <1>1, <2>1, ProductOfNats
<1>3. PICK stop \in 0..c.view : stop = FillStop(new, c.view, numel)
  BY <1>1, StopOfFill
<1>4. PICK ends \in BOOLEAN : ends = Ends(s, st, d, c, numel)
  BY DEF Ends
<1>5. ChunkStep(s, st, new, d, c) = Turned(c, new, st, d, numel, ends, stop)
  BY <1>2, <1>3, <1>4, Turn, Zenon
<1>6. Filled(new, stop, c) \in Sizes(m) /\ stop \in 0..m
  BY <1>1, FilledType
<1>7. (IF d = 1 THEN c.base ELSE st[d - 1]) \in Nat
  <2>1. d # 1 => d - 1 \in 1..n
    OBVIOUS
  <2>. QED  BY <1>1, <2>1 DEF Sizes
<1>8. [c EXCEPT !.fits = FALSE] \in States(m) /\ [c EXCEPT !.numel = numel] \in States(m)
  BY DEF States
<1>9. [fits |-> TRUE, view |-> stop, base |-> IF d = 1 THEN c.base ELSE st[d - 1],
       numel |-> 1, strides |-> Filled(new, stop, c)] \in States(m)
  BY <1>6, <1>7 DEF States
<1>. QED  BY <1>5, <1>8, <1>9 DEF Turned

LEMMA TurnFinds ==
    ASSUME NEW n \in Nat, NEW s \in FullSizes(n), NEW st \in Sizes(n), NEW m \in Nat,
           NEW new \in FullSizes(m), Part(s, 0, n) = Part(new, 0, m),
           NEW d \in 1..n, NEW c \in States(m), Found(c, s, n, st, new, m, d)
    PROVE  Found(ChunkStep(s, st, new, d, c), s, n, st, new, m, d - 1)
<1>. DEFINE a == d - 1
<1>0. st \in Terms(n) /\ s \in Terms(n) /\ new \in Terms(m) /\ s \in Sizes(n) /\ new \in Sizes(m)
  BY SizesAreTerms, FullParts
<1>1. /\ c.view \in 0..m /\ c.base \in Nat /\ c.base \in Int /\ c.strides \in Sizes(m) /\ c.numel \in Nat
      /\ c.strides \in Terms(m) /\ c.fits \in BOOLEAN
  BY SizesAreTerms DEF States
<1>2. PICK numel \in Nat : numel = c.numel * s[d]
  <2>1. s[d] \in Nat
    BY DEF FullSizes
  <2>. QED  BY <1>1, <2>1, ProductOfNats
<1>3. PICK stop \in 0..c.view :
         /\ stop = FillStop(new, c.view, numel)
         /\ stop # 0 => new[stop] # 1
  BY <1>1, StopOfFill
<1>4. PICK ends \in BOOLEAN : ends = Ends(s, st, d, c, numel)
  BY DEF Ends
<1>5. ChunkStep(s, st, new, d, c) = Turned(c, new, st, d, numel, ends, stop)
  BY <1>2, <1>3, <1>4, Turn, Zenon
<1>6. CASE ~c.fits
  <2>1. NoneFollows(s, n, st, new, m)
    BY <1>6 DEF Found
  <2>2. Turned(c, new, st, d, numel, ends, stop) = [c EXCEPT !.fits = FALSE]
    BY <1>6 DEF Turned
  <2>3. ~[c EXCEPT !.fits = FALSE].fits
    BY DEF States
  <2>. QED  BY <1>5, <2>1, <2>2, <2>3 DEF Found
<1>7. CASE c.fits
  <2>1. PICK e \in 0..n : InChunk(c, s, n, st, new, m, d, e)
    BY <1>7 DEF Found
  <2>2. /\ e \in d..n /\ e \in 1..n /\ d \in 1..e /\ a \in 0..e /\ a \in 0..n /\ e \in a..n /\ d \in 0..n
        /\ d \in 1..n
    BY <2>1 DEF InChunk
  <2>3. /\ Part(s, e, n) = Part(new, c.view, m)
        /\ SameSums(s, n, st, e, new, m, c.strides, c.view)
        /\ c.numel = Part(s, d, e)
        /\ Dense(s, n, st, c.base, d, e)
        /\ s[d] = 1 \/ st[d] = c.numel * c.base
    BY <2>1 DEF InChunk
  <2>4. numel = Part(s, a, e) /\ numel \in Nat \ {0}
    <3>1. Part(s, a, e) = s[d] * Part(s, d, e) /\ Part(s, a, e) \in Nat \ {0}
      BY <1>0, <2>2, PartFirst, FullParts
    <3>2. s[d] \in Nat
      BY DEF FullSizes
    <3>. QED  BY <1>1, <1>2, <2>3, <3>1, <3>2, ProductOfNats
  <2>5. Dense(s, n, st, c.base, a, e)
    BY <1>0, <1>1, <2>2, <2>3, DenseMore
  <2>6. ends <=> (a = 0 \/ (s[a] # 1 /\ st[a] # numel * c.base))
    <3>1. d - 1 = a /\ (d = 1 <=> a = 0)
      OBVIOUS
    <3>. HIDE DEF a
    <3>2. Ends(s, st, d, c, numel) <=> (a = 0 \/ (s[a] # 1 /\ st[a] # numel * c.base))
      BY <3>1, Zenon DEF Ends
    <3>. QED  BY <1>4, <3>2, Zenon
  <2>. HIDE DEF a
  <2>7. CASE ends /\ Part(new, stop, c.view) # numel
    <3>1. Turned(c, new, st, d, numel, ends, stop) = [c EXCEPT !.fits = FALSE]
      BY <2>7 DEF Turned
    <3>2. ~[c EXCEPT !.fits = FALSE].fits
      BY DEF States
    <3>3. ASSUME NEW u \in Terms(m), Follow(s, n, st, new, m, u)  PROVE  FALSE
      <4>1. \/ Part(new, 0, c.view) < numel
            \/ \E w \in 1..c.view : Part(new, w, c.view) < numel /\ numel < Part(new, w - 1, c.view)
        BY <1>1, <1>3, <2>4, <2>7, FillMisses
      <4>2. CASE Part(new, 0, c.view) < numel
        <5>1. /\ c.view \in 0..m /\ m \in c.view..m /\ 0 \in 0..m /\ 0 \in 0..n /\ n \in e..n /\ e \in 0..n
              /\ m \in 0..m /\ a \in 0..n /\ n \in a..n /\ e \in a..n /\ n \in 0..n
          BY <1>1, <2>2
        <5>2. PICK P \in Nat \ {0} : P = Part(s, e, n) /\ P = Part(new, c.view, m)
          BY <2>3, <5>1, FullParts
        <5>3. PICK q \in Nat \ {0} : q = Part(new, 0, c.view) /\ q < numel
          BY <4>2, <5>1, FullParts
        <5>4. Part(new, 0, m) = q * P
          BY <1>0, <5>1, <5>2, <5>3, PartSplit
        <5>5. Part(s, a, n) = numel * P
          <6>1. Part(s, a, n) = Part(s, a, e) * Part(s, e, n)
            BY <1>0, <5>1, PartSplit
          <6>. QED  BY <2>4, <5>2, <6>1
        <5>6. PICK x \in Nat \ {0} : x = Part(s, 0, a)
          BY <5>1, FullParts
        <5>7. Part(s, 0, n) = x * (numel * P)
          BY <1>0, <5>1, <5>5, <5>6, PartSplit
        <5>8. q * P < numel * P /\ numel * P \in Nat
          <6>1. P * q + 0 < P * numel /\ P * q = q * P /\ P * numel = numel * P /\ numel * P \in Nat /\ P * q \in Nat
            BY <2>4, <5>3, LessTimes, ProductOfNats
          <6>. QED  BY <6>1
        <5>9. numel * P <= (numel * P) * x /\ (numel * P) * x = x * (numel * P)
          BY <5>8, ProductOfNats
        <5>10. q * P \in Nat /\ x * (numel * P) \in Nat
          BY <5>8, ProductOfNats
        <5>11. q * P = x * (numel * P)
          BY <5>4, <5>7
        <5>. QED  BY <5>8, <5>9, <5>10, <5>11
      <4>3. CASE \E w \in 1..c.view : Part(new, w, c.view) < numel /\ numel < Part(new, w - 1, c.view)
        <5>1. PICK w \in 1..c.view : Part(new, w, c.view) < Part(s, a, e) /\ Part(s, a, e) < Part(new, w - 1, c.view)
          BY <2>4, <4>3
        <5>2. a # 0 => s[a] # 1 /\ st[a] # Part(s, a, e) * c.base
          BY <2>4, <2>6, <2>7
        <5>. QED  BY <1>0, <1>1, <2>2, <2>3, <2>5, <3>3, <5>1, <5>2, NoneFollow
      <4>. QED  BY <4>1, <4>2, <4>3
    <3>. QED  BY <1>5, <3>1, <3>2, <3>3 DEF Found, NoneFollows, a
  <2>8. CASE ~ends
    <3>1. PICK c2 : c2 = [c EXCEPT !.numel = numel] /\ c2 = Turned(c, new, st, d, numel, ends, stop)
      BY <1>7, <2>8 DEF Turned
    <3>2. c2.fits /\ c2.view = c.view /\ c2.base = c.base /\ c2.numel = numel /\ c2.strides = c.strides
      BY <1>7, <3>1 DEF States
    <3>3. InChunk(c2, s, n, st, new, m, a, e)
      BY <2>2, <2>3, <2>4, <2>5, <2>6, <2>8, <3>2 DEF InChunk
    <3>. QED  BY <1>5, <3>1, <3>2, <3>3 DEF Found, a
  <2>9. CASE ends /\ ~(Part(new, stop, c.view) # numel)
    <3>. DEFINE u == Filled(new, stop, c)
    <3>1. PICK c2 : /\ c2 = [fits |-> TRUE, view |-> stop, base |-> IF d = 1 THEN c.base ELSE st[d - 1],
                             numel |-> 1, strides |-> u]
                    /\ c2 = Turned(c, new, st, d, numel, ends, stop)
      BY <1>7, <2>9 DEF Turned
    <3>2. /\ u \in Sizes(m) /\ u \in Terms(m)
          /\ u = [w \in 1..m |-> IF w \in stop + 1..c.view THEN Part(new, w, c.view) * c.base ELSE c.strides[w]]
      <4>1. /\ u \in Sizes(m)
            /\ u = [w \in 1..m |-> IF w \in stop + 1..c.view THEN Part(new, w, c.view) * c.base ELSE c.strides[w]]
        BY FilledType
      <4>. HIDE DEF u
      <4>. QED  BY <4>1, SizesAreTerms
    <3>. HIDE DEF u
    <3>3. c2.fits /\ c2.view = stop /\ c2.numel = 1 /\ c2.strides = u /\ c2.base = IF d = 1 THEN c.base ELSE st[d - 1]
      BY <3>1
    <3>4. stop \in 0..m /\ Part(new, stop, c.view) = Part(s, a, e)
      BY <1>1, <2>4, <2>9
    <3>5. Dense(new, m, u, c.base, stop, c.view)
      <4>1. \A w \in stop + 1..c.view : u[w] = Part(new, w, c.view) * c.base
        <5>1. \A w \in stop + 1..c.view : w \in 1..m
          BY <1>1, <3>4
        <5>. QED  BY <3>2, <5>1
      <4>. QED  BY <1>1, <3>2, <4>1, DenseBlock
    <3>6. SameSums(s, n, st, e, new, m, u, c.view)
      <4>1. Agree(c.strides, u, c.view, m)
        <5>1. \A w \in c.view + 1..m : w \in 1..m /\ w \notin stop + 1..c.view
          BY <1>1
        <5>. QED  BY <3>2, <5>1 DEF Agree
      <4>2. \A k \in Nat : PartSum(Moves(new, m, c.strides, k), c.view, m) = PartSum(Moves(new, m, u, k), c.view, m)
        BY <1>1, <3>2, <4>1, MovesAgree
      <4>. QED  BY <2>3, <4>2 DEF SameSums
    <3>7. SameSums(s, n, st, a, new, m, u, stop) /\ Part(s, a, n) = Part(new, stop, m)
      <4>1. /\ c.view \in 0..m /\ stop \in 0..c.view /\ e \in 0..n /\ a \in 0..e /\ c.base \in Int
            /\ st \in Terms(n) /\ u \in Terms(m)
        BY <1>0, <1>1, <2>2, <3>2
      <4>2. Part(s, e, n) = Part(new, c.view, m) /\ Part(s, a, e) = Part(new, stop, c.view)
        BY <2>3, <3>4
      <4>3. Dense(s, n, st, c.base, a, e)
        BY <2>5
      <4>. QED  BY <3>5, <3>6, <4>1, <4>2, <4>3, SameSumsMore
    <3>8. c2.base \in Int /\ (a # 0 => c2.base = st[a] /\ st[a] \in Int)
      <4>1. a # 0 => a \in 1..n /\ d # 1
        BY <2>2 DEF a
      <4>2. a = 0 => d = 1
        BY DEF a
      <4>3. c2.base = IF a = 0 THEN c.base ELSE st[a]
        BY <3>3, <4>1, <4>2 DEF a
      <4>4. a # 0 => st[a] \in Int
        BY <1>0, <4>1 DEF Terms
      <4>. QED  BY <1>1, <4>3, <4>4
    <3>9. Dense(s, n, st, c2.base, a, a) /\ Part(s, a, a) = 1 /\ a \in a..n
      <4>1. a \in a..n
        BY <2>2
      <4>. QED  BY <1>0, <2>2, <3>8, <4>1, DenseNone, PartLast
    <3>10. a # 0 => st[a] = 1 * c2.base
      BY <3>8
    <3>11. InChunk(c2, s, n, st, new, m, a, a)
      BY <1>3, <3>3, <3>7, <3>9, <3>10 DEF InChunk
    <3>. QED  BY <1>5, <2>2, <3>1, <3>3, <3>11 DEF Found, a
  <2>. QED  BY <2>7, <2>8, <2>9
<1>. QED  BY <1>1, <1>6, <1>7

-----------------------------------------------------------------------------
\* The loop, from its first turn to its last.
StartOf(st, new) ==
    [fits |-> TRUE, view |-> Len(new), base |-> Last(st), numel |-> 1,
     strides |-> [d \in DOMAIN new |-> 0]]

AreTurns(g, s, st, new) ==
    g = [i \in 0..Len(s) |->
           IF i = 0 THEN StartOf(st, new)
           ELSE ChunkStep(s, st, new, Len(s) + 1 - i, g[i - 1])]

Strides(s, st, new, end) ==
    IF s = <<>> THEN [d \in DOMAIN new |-> 1]
    ELSE IF Numel(s) = 0 THEN IF s = new THEN st ELSE RowMajor(new)
    ELSE IF end.fits /\ end.view = 0 THEN end.strides
    ELSE Refused

LEMMA LoopEquation ==
    ASSUME NEW s, NEW st, NEW new, NEW h, AreTurns(h, s, st, new)
    PROVE  \E g : /\ AreTurns(g, s, st, new)
                  /\ ComputeStride(s, st, new) = Strides(s, st, new, g[Len(s)])
  BY Zenon DEF ComputeStride, AreTurns, StartOf, Strides

LEMMA StartType ==
    ASSUME NEW n \in Nat \ {0}, NEW st \in Sizes(n), NEW m \in Nat, NEW new \in FullSizes(m)
    PROVE  /\ StartOf(st, new) \in States(m) /\ st[n] \in Nat
           /\ StartOf(st, new) = [fits |-> TRUE, view |-> m, base |-> st[n], numel |-> 1,
                                  strides |-> [d \in 1..m |-> 0]]
<1>1. Len(new) = m /\ DOMAIN new = 1..m /\ Len(st) = n
  BY DEF FullSizes, Sizes
<1>2. Last(st) = st[n] /\ st[n] \in Nat
  <2>1. n \in 1..n
    OBVIOUS
  <2>. QED  BY <1>1, <2>1 DEF Last, Sizes
<1>. DEFINE zeros == [d \in 1..m |-> 0]
<1>3. StartOf(st, new) = [fits |-> TRUE, view |-> m, base |-> st[n], numel |-> 1, strides |-> zeros]
  BY <1>1, <1>2 DEF StartOf
<1>4. zeros \in Sizes(m)
  BY DEF Sizes
<1>. HIDE DEF zeros
<1>5. StartOf(st, new) \in States(m)
  BY <1>2, <1>3, <1>4 DEF States
<1>. QED  BY <1>2, <1>3, <1>5 DEF zeros

LEMMA StartFacts ==
    ASSUME NEW n \in Nat \ {0}, NEW s \in FullSizes(n), NEW st \in Sizes(n), NEW m \in Nat,
           NEW new \in FullSizes(m), Part(s, 0, n) = Part(new, 0, m)
    PROVE  StartOf(st, new) \in States(m) /\ Found(StartOf(st, new), s, n, st, new, m, n)
<1>. DEFINE zeros == [d \in 1..m |-> 0]
<1>2. st[n] \in Nat
  BY StartType
<1>3. /\ StartOf(st, new) \in States(m)
      /\ StartOf(st, new) = [fits |-> TRUE, view |-> m, base |-> st[n], numel |-> 1, strides |-> zeros]
  BY StartType
<1>4. zeros \in Sizes(m) /\ zeros \in Terms(m)
  BY DEF Sizes, Terms
<1>. HIDE DEF zeros
<1>5. PICK c : c = StartOf(st, new) /\ c.fits = TRUE /\ c.view = m /\ c.base = st[n] /\ c.numel = 1
                /\ c.strides = zeros
  BY <1>3
<1>6. c \in States(m)
  BY <1>3, <1>5
<1>7. st \in Terms(n) /\ n \in 0..n /\ m \in 0..m /\ n \in n..n /\ m \in m..m /\ s \in Terms(n) /\ new \in Terms(m)
  BY SizesAreTerms, FullParts
<1>8. Part(s, n, n) = 1 /\ Part(new, m, m) = 1
  BY <1>7, PartLast
<1>9. SameSums(s, n, st, n, new, m, zeros, m)
  <2>1. ASSUME NEW k \in Nat
        PROVE  PartSum(Moves(s, n, st, k), n, n) = PartSum(Moves(new, m, zeros, k), m, m)
    <3>1. PICK f \in Terms(n) : f = Moves(s, n, st, k)
      BY <1>7, MovesType
    <3>2. PICK g \in Terms(m) : g = Moves(new, m, zeros, k)
      BY <1>4, MovesType
    <3>3. PartSum(f, n, n) = 0 /\ PartSum(g, m, m) = 0
      BY <1>7, SumType
    <3>. QED  BY <3>1, <3>2, <3>3
  <2>. QED  BY <2>1 DEF SameSums
<1>10. Dense(s, n, st, st[n], n, n)
  <2>1. st[n] \in Int
    BY <1>2
  <2>. QED  BY <1>7, <2>1, DenseNone
<1>11. st[n] = 1 * st[n]
  BY <1>2
<1>12. InChunk(c, s, n, st, new, m, n, n)
  BY <1>5, <1>7, <1>8, <1>9, <1>10, <1>11 DEF InChunk
<1>. QED  BY <1>5, <1>6, <1>7, <1>12 DEF Found

\* The turns of the loop, whose states have the types of the variables.
LEMMA TurnsOfLoop ==
    ASSUME NEW n \in Nat \ {0}, NEW s \in FullSizes(n), NEW st \in Sizes(n), NEW m \in Nat,
           NEW new \in FullSizes(m)
    PROVE  \E g : /\ \A i \in 0..n : g[i] \in States(m)
                  /\ g[0] = StartOf(st, new)
                  /\ \A i \in 1..n : g[i] = ChunkStep(s, st, new, n + 1 - i, g[i - 1])
                  /\ ComputeStride(s, st, new) =
                        IF g[n].fits /\ g[n].view = 0 THEN g[n].strides ELSE Refused
<1>1. Len(s) = n /\ s # <<>>
  BY DEF FullSizes
<1>2. Numel(s) # 0
  <2>1. s \in Sizes(n) /\ 0 \in 0..n /\ n \in 0..n
    BY FullParts
  <2>2. Part(s, 0, n) = Numel(s) /\ Part(s, 0, n) \in Nat \ {0}
    BY <2>1, FullParts, PartWhole
  <2>. QED  BY <2>2
<1>. DEFINE step == [i \in 1..n |-> [c \in States(m) |-> ChunkStep(s, st, new, n + 1 - i, c)]]
<1>3. PICK h \in [0..n -> States(m)] : Iterates(h, StartOf(st, new), step, n)
  <2>1. step \in [1..n -> [States(m) -> States(m)]]
    <3>1. ASSUME NEW i \in 1..n, NEW c \in States(m)
          PROVE  ChunkStep(s, st, new, n + 1 - i, c) \in States(m)
      <4>1. n + 1 - i \in 1..n
        OBVIOUS
      <4>. QED  BY <4>1, TurnType
    <3>. QED  BY <3>1
  <2>2. StartOf(st, new) \in States(m) /\ n \in Nat
    BY StartType
  <2>. HIDE DEF step
  <2>. QED  BY <2>1, <2>2, Recursion, Zenon
<1>4. AreTurns(h, s, st, new)
  <2>1. ASSUME NEW i \in 0..n
        PROVE  h[i] = IF i = 0 THEN StartOf(st, new) ELSE ChunkStep(s, st, new, n + 1 - i, h[i - 1])
    <3>1. CASE i = 0
      BY <1>3, <3>1 DEF Iterates
    <3>2. CASE i # 0
      <4>1. i \in 1..n /\ i - 1 \in 0..n
        BY <3>2
      <4>2. h[i - 1] \in States(m)
        BY <1>3, <4>1
      <4>3. h[i] = step[i][h[i - 1]]
        BY <1>3, <4>1 DEF Iterates
      <4>. QED  BY <3>2, <4>1, <4>2, <4>3
    <3>. QED  BY <3>1, <3>2
  <2>. QED  BY <1>1, <1>3, <2>1 DEF AreTurns
<1>. HIDE DEF step
<1>5. PICK g : AreTurns(g, s, st, new) /\ ComputeStride(s, st, new) = Strides(s, st, new, g[Len(s)])
  BY <1>4, LoopEquation, Zenon
<1>6. g[0] = StartOf(st, new) /\ \A i \in 1..n : g[i] = ChunkStep(s, st, new, n + 1 - i, g[i - 1])
  <2>. DEFINE F(i) == IF i = 0 THEN StartOf(st, new) ELSE ChunkStep(s, st, new, n + 1 - i, g[i - 1])
  <2>1. g = [i \in 0..n |-> F(i)]
    BY <1>1, <1>5, Zenon DEF AreTurns
  <2>2. \A i \in 0..n : g[i] = F(i)
    <3>. HIDE DEF F
    <3>. QED  BY <2>1
  <2>3. 0 \in 0..n /\ \A i \in 1..n : i \in 0..n /\ i # 0
    OBVIOUS
  <2>. QED  BY <2>2, <2>3
<1>. DEFINE T == {i \in Nat : i <= n => g[i] \in States(m)}
<1>7. 0 \in T
  BY <1>6, StartType
<1>8. ASSUME NEW i \in Nat, i \in T  PROVE  i + 1 \in T
  <2>1. SUFFICES ASSUME i + 1 <= n  PROVE  g[i + 1] \in States(m)
    OBVIOUS
  <2>2. PICK d \in 1..n : d = n + 1 - (i + 1)
    BY <2>1
  <2>3. g[i] \in States(m) /\ i + 1 \in 1..n /\ (i + 1) - 1 = i
    BY <1>8, <2>1
  <2>4. g[i + 1] = ChunkStep(s, st, new, d, g[i])
    BY <1>6, <2>2, <2>3
  <2>. QED  BY <2>3, <2>4, TurnType
<1>. HIDE DEF T
<1>9. Nat \subseteq T
  BY <1>7, <1>8, SetInduction
<1>10. \A i \in 0..n : g[i] \in States(m)
  BY <1>9 DEF T
<1>11. ComputeStride(s, st, new) = IF g[n].fits /\ g[n].view = 0 THEN g[n].strides ELSE Refused
  BY <1>1, <1>2, <1>5 DEF Strides
<1>. QED  BY <1>6, <1>10, <1>11

\* What computeStride returns is a list of strides, or nullopt.
LEMMA ComputedType ==
    ASSUME NEW n \in Nat, NEW s \in FullSizes(n), NEW st \in Sizes(n), NEW m \in Nat,
           NEW new \in FullSizes(m), ComputeStride(s, st, new) # Refused
    PROVE  ComputeStride(s, st, new) \in Sizes(m)
<1>1. CASE n = 0
  <2>1. s = <<>> /\ DOMAIN new = 1..m
    BY <1>1 DEF FullSizes
  <2>2. ComputeStride(s, st, new) = [d \in 1..m |-> 1]
    BY <2>1, Zenon DEF ComputeStride
  <2>. QED  BY <2>2 DEF Sizes
<1>2. CASE n # 0
  <2>1. n \in Nat \ {0} /\ n \in 0..n
    BY <1>2
  <2>2. PICK g : /\ \A i \in 0..n : g[i] \in States(m)
                 /\ ComputeStride(s, st, new) =
                       IF g[n].fits /\ g[n].view = 0 THEN g[n].strides ELSE Refused
    BY <2>1, TurnsOfLoop
  <2>3. g[n] \in States(m)
    BY <2>1, <2>2
  <2>4. g[n].strides \in Sizes(m)
    BY <2>3 DEF States
  <2>. QED  BY <2>2, <2>4
<1>. QED  BY <1>1, <1>2

\* Strides that computeStride finds count the elements in their order; when it
\* finds none, there are none.
LEMMA ViewOfFull ==
    ASSUME NEW n \in Nat \ {0}, NEW s \in FullSizes(n), NEW st \in Sizes(n), NEW m \in Nat,
           NEW new \in FullSizes(m), Part(s, 0, n) = Part(new, 0, m)
    PROVE  LET c == ComputeStride(s, st, new)
           IN  \/ c \in Sizes(m) /\ SameSums(s, n, st, 0, new, m, c, 0)
               \/ c = Refused /\ NoneFollows(s, n, st, new, m)
<1>1. PICK g : /\ \A i \in 0..n : g[i] \in States(m)
               /\ g[0] = StartOf(st, new)
               /\ \A i \in 1..n : g[i] = ChunkStep(s, st, new, n + 1 - i, g[i - 1])
               /\ ComputeStride(s, st, new) =
                     IF g[n].fits /\ g[n].view = 0 THEN g[n].strides ELSE Refused
  BY TurnsOfLoop
<1>. DEFINE T == {i \in Nat : i <= n => Found(g[i], s, n, st, new, m, n - i)}
<1>7. 0 \in T
  <2>1. n - 0 = n
    OBVIOUS
  <2>. QED  BY <1>1, <2>1, StartFacts
<1>8. ASSUME NEW i \in Nat, i \in T  PROVE  i + 1 \in T
  <2>1. SUFFICES ASSUME i + 1 <= n  PROVE  Found(g[i + 1], s, n, st, new, m, n - (i + 1))
    OBVIOUS
  <2>2. PICK d \in 1..n : d = n - i /\ d - 1 = n - (i + 1) /\ n + 1 - (i + 1) = d
    BY <2>1
  <2>3. PICK c \in States(m) : c = g[i] /\ Found(c, s, n, st, new, m, d)
    <3>1. i \in 0..n
      BY <2>1
    <3>. QED  BY <1>1, <1>8, <2>1, <2>2, <3>1
  <2>4. g[i + 1] = ChunkStep(s, st, new, d, c)
    <3>1. i + 1 \in 1..n /\ (i + 1) - 1 = i
      BY <2>1
    <3>. QED  BY <1>1, <2>2, <2>3, <3>1
  <2>5. Found(ChunkStep(s, st, new, d, c), s, n, st, new, m, d - 1)
    BY <2>3, TurnFinds
  <2>. QED  BY <2>2, <2>4, <2>5
<1>. HIDE DEF T
<1>9. n \in T
  BY <1>7, <1>8, SetInduction
<1>10. PICK end \in States(m) : end = g[n] /\ Found(end, s, n, st, new, m, 0)
  <2>1. n - n = 0 /\ n <= n /\ n \in 0..n
    OBVIOUS
  <2>. QED  BY <1>1, <1>9, <2>1 DEF T
<1>11. ComputeStride(s, st, new) = IF end.fits /\ end.view = 0 THEN end.strides ELSE Refused
  BY <1>1, <1>10
<1>12. CASE ~end.fits
  BY <1>10, <1>11, <1>12 DEF Found
<1>13. CASE end.fits
  <2>1. PICK e \in 0..n : InChunk(end, s, n, st, new, m, 0, e)
    BY <1>10, <1>13 DEF Found
  <2>2. /\ e = 0 /\ (end.view = 0 \/ new[end.view] # 1)
        /\ Part(s, 0, n) = Part(new, end.view, m)
        /\ SameSums(s, n, st, 0, new, m, end.strides, end.view)
    BY <2>1 DEF InChunk
  <2>3. PICK v \in 0..m : v = end.view
    BY DEF States
  <2>4. v = 0
    <3>1. SUFFICES ASSUME v # 0  PROVE  FALSE
      OBVIOUS
    <3>2. v \in 1..m /\ v - 1 \in 0..m /\ 0 \in 0..m /\ v \in 0..m /\ m \in v..m /\ v - 1 \in 0..v - 1 /\ v \in (v - 1)..m
          /\ m \in 0..m /\ v \in 1..v /\ m \in (v - 1)..m /\ v - 1 \in 0..m
      BY <3>1
    <3>3. PICK P \in Nat \ {0} : P = Part(new, v, m)
      BY <3>2, FullParts
    <3>4. PICK q \in Nat \ {0} : q = Part(new, 0, v)
      BY <3>2, FullParts
    <3>5. Part(new, 0, m) = q * P
      BY <3>2, <3>3, <3>4, FullParts, PartSplit
    <3>6. q = 1
      <4>1. q * P = P
        BY <2>2, <2>3, <3>3, <3>5
      <4>2. q # 1 => P * 1 + 0 < P * q /\ P * q = q * P
        BY LessTimes, ProductOfNats
      <4>. QED  BY <4>1, <4>2
    <3>7. PICK z \in Nat \ {0} : z = new[v]
      BY <3>2 DEF FullSizes
    <3>8. PICK p \in Nat \ {0} : p = Part(new, 0, v - 1)
      <4>1. 0 \in 0..m /\ v - 1 \in 0..m
        BY <3>2
      <4>. QED  BY <4>1, FullParts
    <3>9. q = p * z
      <4>1. Part(new, 0, v) = Part(new, 0, v - 1) * Part(new, v - 1, v)
        BY <3>2, FullParts, PartSplit
      <4>2. Part(new, v - 1, v) = new[v]
        BY <3>2, FullParts, PartOne
      <4>. QED  BY <3>4, <3>7, <3>8, <4>1, <4>2
    <3>10. z <= z * p /\ z * p = p * z
      BY ProductOfNats
    <3>11. z = 1
      BY <3>6, <3>9, <3>10
    <3>. QED  BY <2>2, <2>3, <3>1, <3>7, <3>11
  <2>. QED  BY <1>11, <1>13, <2>2, <2>3, <2>4 DEF States
<1>. QED  BY <1>12, <1>13

\* Strides of a tensor without gaps.
LEMMA RowMajorType ==
    ASSUME NEW m \in Nat, NEW new \in Sizes(m)
    PROVE  /\ RowMajor(new) \in Sizes(m)
           /\ new \in FullSizes(m) => \A d \in 1..m : RowMajor(new)[d] = Part(new, d, m)
<1>1. Len(new) = m /\ DOMAIN new = 1..m
  BY DEF Sizes
<1>. DEFINE inner(d) == [e \in 1..m - d |-> Max({new[d + e], 1})]
<1>2. RowMajor(new) = [d \in 1..m |-> Numel(inner(d))]
  BY <1>1 DEF RowMajor
<1>3. ASSUME NEW d \in 1..m, NEW e \in 1..m - d
      PROVE  Max({new[d + e], 1}) \in Nat /\ (new[d + e] # 0 => Max({new[d + e], 1}) = new[d + e])
  <2>1. d + e \in 1..m
    OBVIOUS
  <2>2. PICK a \in Nat : a = new[d + e]
    BY <2>1 DEF Sizes
  <2>3. a \in Int /\ 1 \in Int
    BY <2>2
  <2>4. Max({a, 1}) = IF a >= 1 THEN a ELSE 1
    BY <2>3, MinMaxOfTwo
  <2>. QED  BY <2>2, <2>4
<1>4. ASSUME NEW d \in 1..m  PROVE  Numel(inner(d)) \in Nat
  <2>1. m - d \in Nat /\ inner(d) \in Sizes(m - d)
    BY <1>3 DEF Sizes
  <2>. HIDE DEF inner
  <2>2. PICK r \in Nat : r = m - d /\ inner(d) \in Sizes(r)
    BY <2>1
  <2>3. 0 \in 0..r /\ r \in 0..r
    OBVIOUS
  <2>4. Part(inner(d), 0, r) = Numel(inner(d)) /\ Part(inner(d), 0, r) \in Nat
    BY <2>2, <2>3, SizesAreTerms, PartWhole, PartOfSizes
  <2>. QED  BY <2>4
<1>5. ASSUME new \in FullSizes(m), NEW d \in 1..m  PROVE  Numel(inner(d)) = Part(new, d, m)
  <2>1. SubSeq(new, d + 1, m) = [i \in 1..m - d |-> new[i + d]]
    <3>1. d \in 0..m /\ m \in d..m /\ new \in Terms(m)
      BY SizesAreTerms
    <3>. QED  BY <3>1, SubTerms, Zenon
  <2>2. \A e \in 1..m - d : Max({new[d + e], 1}) = new[e + d]
    <3>1. \A e \in 1..m - d : d + e \in 1..m /\ d + e = e + d
      OBVIOUS
    <3>2. \A e \in 1..m - d : new[d + e] # 0
      BY <1>5, <3>1 DEF FullSizes
    <3>3. \A e \in 1..m - d : Max({new[d + e], 1}) = new[d + e]
      BY <1>3, <3>2
    <3>. QED  BY <3>1, <3>3
  <2>3. inner(d) = [e \in 1..m - d |-> new[e + d]]
    BY <2>2
  <2>. QED  BY <2>1, <2>3 DEF Part
<1>. HIDE DEF inner
<1>. QED  BY <1>2, <1>4, <1>5 DEF Sizes

Viewed(t, new, x) == [t EXCEPT !.sizes = new, !.strides = x]

LEMMA ViewedType ==
    ASSUME NEW t, IsTensor(t), NEW m \in Nat, NEW new \in Sizes(m), NEW x \in Terms(m)
    PROVE  LET u == Viewed(t, new, x)
           IN  /\ u = [sizes |-> new, strides |-> x, offset |-> t.offset]
               /\ IsTensor(u) /\ Rank(u) = m
<1>. DEFINE u == Viewed(t, new, x)
<1>1. PICK n \in Nat : t \in [sizes : Sizes(n), strides : Terms(n), offset : Int]
  BY DEF IsTensor
<1>2. u = [sizes |-> new, strides |-> x, offset |-> t.offset] /\ t.offset \in Int
  <2>1. PICK v : v = [t EXCEPT !.sizes = new]
    OBVIOUS
  <2>2. v = [sizes |-> new, strides |-> t.strides, offset |-> t.offset] /\ t.offset \in Int
    BY <1>1, <2>1
  <2>3. u = [v EXCEPT !.strides = x]
    BY <2>1, Zenon DEF Viewed
  <2>. HIDE DEF u
  <2>. QED  BY <2>2, <2>3
<1>. HIDE DEF u
<1>3. IsTensor(u)
  BY <1>2 DEF IsTensor
<1>4. Rank(u) = m
  BY <1>2 DEF Rank, Sizes
<1>. QED  BY <1>2, <1>3, <1>4 DEF u

LEMMA SameAddresses ==
    ASSUME NEW t, IsTensor(t), NEW m \in Nat, NEW new \in Sizes(m),
           Numel(new) = Numel(t.sizes), NEW x \in Terms(m)
    PROVE  Addresses(Viewed(t, new, x)) = Addresses(t)
              <=> Follow(t.sizes, Rank(t), t.strides, new, m, x)
<1>. DEFINE u == Viewed(t, new, x)
            n == Rank(t)
            N == Numel(t.sizes)
<1>1. IsTensor(u) /\ Rank(u) = m /\ u.sizes = new /\ u.strides = x /\ u.offset = t.offset
  BY ViewedType
<1>2. /\ n \in Nat /\ t.sizes \in Sizes(n) /\ t.strides \in Terms(n) /\ t.offset \in Int
      /\ N \in Nat /\ Part(t.sizes, 0, n) = N
  BY TensorType
<1>. HIDE DEF u, n, N
<1>3. /\ Addresses(u) = [k \in 1..N |-> At(u, k - 1)]
      /\ Addresses(t) = [k \in 1..N |-> At(t, k - 1)]
  BY <1>1, AddressesAt DEF N
<1>4. ASSUME NEW k \in 0..N - 1
      PROVE  At(u, k) = At(t, k) <=> Total(Moves(t.sizes, n, t.strides, k)) = Total(Moves(new, m, x, k))
  <2>1. N # 0 /\ k \in Nat
    BY <1>2
  <2>2. t.sizes \in FullSizes(n) /\ new \in FullSizes(m)
    BY <1>1, <2>1, FullTensor DEF n, N
  <2>3. PICK f \in Terms(n) : f = Moves(t.sizes, n, t.strides, k)
    BY <1>2, <2>1, <2>2, MovesType
  <2>4. PICK g \in Terms(m) : g = Moves(new, m, x, k)
    BY <2>1, <2>2, MovesType
  <2>5. Total(f) \in Int /\ Total(g) \in Int
    <3>1. 0 \in 0..n /\ n \in 0..n /\ 0 \in 0..m /\ m \in 0..m
      BY <1>2
    <3>. QED  BY <1>2, <3>1, SumType
  <2>6. At(u, k) = t.offset + Total(g) /\ At(t, k) = t.offset + Total(f)
    BY <1>1, <2>3, <2>4 DEF At, n
  <2>. QED  BY <1>2, <2>3, <2>4, <2>5, <2>6
<1>5. Addresses(u) = Addresses(t) <=> \A k \in 0..N - 1 : At(u, k) = At(t, k)
  <2>1. ASSUME Addresses(u) = Addresses(t), NEW k \in 0..N - 1  PROVE  At(u, k) = At(t, k)
    <3>1. PICK j \in 1..N : j - 1 = k
      <4>1. k + 1 \in 1..N /\ (k + 1) - 1 = k
        BY <1>2
      <4>. QED  BY <4>1
    <3>2. Addresses(u)[j] = Addresses(t)[j]
      BY <2>1
    <3>. QED  BY <1>3, <3>1, <3>2
  <2>2. ASSUME \A k \in 0..N - 1 : At(u, k) = At(t, k)  PROVE  Addresses(u) = Addresses(t)
    <3>1. \A j \in 1..N : j - 1 \in 0..N - 1
      BY <1>2
    <3>2. \A j \in 1..N : At(u, j - 1) = At(t, j - 1)
      BY <2>2, <3>1
    <3>. QED  BY <1>3, <3>2
  <2>. QED  BY <2>1, <2>2
<1>. QED  BY <1>2, <1>4, <1>5 DEF Follow, u, n

LEMMA NotRefused ==
    ASSUME NEW m \in Nat, NEW c \in Sizes(m)
    PROVE  c # Refused
<1>1. c \in Seq(Int)
  BY DEF Sizes
<1>. QED  BY <1>1, RefusedAssumption

\* What view does, and when it is refused.
LEMMA ViewOf ==
    ASSUME NEW t, IsView(t), NEW m \in Nat, NEW new \in Sizes(m), Numel(new) = Numel(t.sizes)
    PROVE  LET c == ComputeStride(t.sizes, t.strides, new)
           IN  \/ c \in Sizes(m) /\ Addresses(Viewed(t, new, c)) = Addresses(t)
               \/ /\ c = Refused
                  /\ \A x \in Terms(m) : Addresses(Viewed(t, new, x)) # Addresses(t)
<1>. DEFINE n == Rank(t)
            s == t.sizes
            st == t.strides
            N == Numel(t.sizes)
            c == ComputeStride(s, st, new)
<1>1. /\ n \in Nat /\ s \in Sizes(n) /\ st \in Sizes(n) /\ st \in Terms(n) /\ N \in Nat
      /\ Part(s, 0, n) = N /\ IsTensor(t) /\ Len(s) = n
  BY ViewType, TensorType DEF Rank
<1>2. ASSUME NEW x \in Terms(m)
      PROVE  Addresses(Viewed(t, new, x)) = Addresses(t) <=> Follow(s, n, st, new, m, x)
  BY <1>1, SameAddresses
<1>3. Part(new, 0, m) = N /\ new \in Terms(m)
  BY PartWhole, SizesAreTerms
<1>4. N = Numel(s) /\ s = t.sizes /\ st = t.strides
  OBVIOUS
<1>. HIDE DEF n, s, st, N
<1>5. SUFFICES \/ c \in Sizes(m) /\ Follow(s, n, st, new, m, c)
               \/ c = Refused /\ NoneFollows(s, n, st, new, m)
  BY <1>2, <1>4, SizesAreTerms DEF NoneFollows
<1>6. c = IF s = <<>> THEN [d \in DOMAIN new |-> 1]
          ELSE IF Numel(s) = 0 THEN IF s = new THEN st ELSE RowMajor(new)
          ELSE c
  BY DEF ComputeStride
<1>. HIDE DEF c
<1>7. CASE N = 0
  <2>1. s # <<>>
    <3>1. SUFFICES ASSUME s = <<>>  PROVE  FALSE
      OBVIOUS
    <3>2. n = 0
      BY <1>1, <3>1
    <3>3. 0 \in 0..0 /\ Part(s, 0, 0) = 1
      BY <1>1, <3>2, SizesAreTerms, PartLast
    <3>. QED  BY <1>1, <1>7, <3>2, <3>3
  <2>2. (c = st /\ s = new) \/ c = RowMajor(new)
    BY <1>4, <1>6, <1>7, <2>1
  <2>3. s = new => m = n
    BY <1>1 DEF Sizes
  <2>4. c \in Sizes(m)
    BY <1>1, <2>2, <2>3, RowMajorType
  <2>5. Follow(s, n, st, new, m, c)
    BY <1>1, <1>7 DEF Follow
  <2>. QED  BY <2>4, <2>5
<1>8. CASE N # 0
  <2>1. s \in FullSizes(n) /\ new \in FullSizes(m)
    <3>1. s \in FullSizes(n)
      BY <1>1, <1>4, <1>8, FullTensor DEF n
    <3>2. ASSUME NEW d \in 1..m  PROVE  new[d] # 0
      <4>1. 0 \in 0..m /\ m \in 0..m /\ d \in 0 + 1..m
        OBVIOUS
      <4>. QED  BY <1>3, <1>8, <4>1, PartOfNone
    <3>. QED  BY <3>1, <3>2 DEF Sizes, FullSizes
  <2>2. CASE n = 0
    <3>1. s = <<>>
      BY <1>1, <2>2
    <3>2. c = [d \in DOMAIN new |-> 1] /\ c \in Sizes(m)
      BY <1>6, <3>1 DEF Sizes
    <3>3. N = 1
      <4>1. 0 \in 0..0 /\ Part(s, 0, 0) = 1
        BY <1>1, <2>2, SizesAreTerms, PartLast
      <4>. QED  BY <1>1, <2>2, <4>1
    <3>4. Total(Moves(s, n, st, 0)) = 0 /\ Total(Moves(new, m, c, 0)) = 0
      BY <1>1, <2>1, <3>2, SizesAreTerms, TotalAtZero
    <3>5. \A k \in 0..1 - 1 : k = 0
      OBVIOUS
    <3>. QED  BY <1>1, <3>2, <3>3, <3>4, <3>5 DEF Follow
  <2>3. CASE n # 0
    <3>1. \/ c \in Sizes(m) /\ SameSums(s, n, st, 0, new, m, c, 0)
          \/ c = Refused /\ NoneFollows(s, n, st, new, m)
      <4>1. n \in Nat \ {0} /\ Part(s, 0, n) = Part(new, 0, m)
        BY <1>1, <1>3, <2>3
      <4>. QED  BY <1>1, <2>1, <4>1, ViewOfFull DEF c
    <3>2. ASSUME c \in Sizes(m), SameSums(s, n, st, 0, new, m, c, 0)
          PROVE  Follow(s, n, st, new, m, c)
      <4>1. ASSUME NEW k \in 0..N - 1
            PROVE  Total(Moves(s, n, st, k)) = Total(Moves(new, m, c, k))
        <5>1. k \in Nat /\ 0 \in 0..n /\ n \in 0..n /\ 0 \in 0..m /\ m \in 0..m
          BY <1>1
        <5>2. PICK f \in Terms(n) : f = Moves(s, n, st, k)
          BY <1>1, <2>1, <5>1, MovesType
        <5>3. PICK g \in Terms(m) : g = Moves(new, m, c, k)
          BY <2>1, <3>2, <5>1, SizesAreTerms, MovesType
        <5>4. PartSum(f, 0, n) = Total(f) /\ PartSum(g, 0, m) = Total(g)
          BY <1>1, <5>1, SumType
        <5>5. PartSum(f, 0, n) = PartSum(g, 0, m)
          BY <3>2, <5>1, <5>2, <5>3 DEF SameSums
        <5>. QED  BY <5>2, <5>3, <5>4, <5>5
      <4>. QED  BY <1>1, <4>1 DEF Follow
    <3>. QED  BY <3>1, <3>2
  <2>. QED  BY <2>2, <2>3
<1>. QED  BY <1>7, <1>8

-----------------------------------------------------------------------------
\* A size that is left open.
LEMMA PartOfEquals ==
    ASSUME NEW m \in Nat, NEW f \in Terms(m), NEW g \in Terms(m), NEW a \in 0..m, NEW b \in a..m,
           Agree(f, g, a, b)
    PROVE  Part(f, a, b) = Part(g, a, b)
<1>1. /\ SubSeq(f, a + 1, b) = [i \in 1..b - a |-> f[i + a]]
      /\ SubSeq(g, a + 1, b) = [i \in 1..b - a |-> g[i + a]]
  BY SubTerms, Zenon
<1>2. \A i \in 1..b - a : f[i + a] = g[i + a]
  BY DEF Agree
<1>. QED  BY <1>1, <1>2 DEF Part

LEMMA OneReplaced ==
    ASSUME NEW m \in Nat, NEW f \in Terms(m), NEW g \in Terms(m), NEW o \in 1..m, f[o] = 1,
           \A d \in 1..m : d # o => f[d] = g[d]
    PROVE  Numel(g) = g[o] * Numel(f)
<1>1. /\ 0 \in 0..m /\ o - 1 \in 0..m /\ o \in 0..m /\ o - 1 \in 0..m /\ m \in (o - 1)..m /\ m \in o..m
      /\ o \in (o - 1)..m /\ m \in 0..m
  OBVIOUS
<1>2. Agree(f, g, 0, o - 1) /\ Agree(f, g, o, m)
  <2>1. \A d \in 0 + 1..o - 1 : d \in 1..m /\ d # o
    OBVIOUS
  <2>2. \A d \in o + 1..m : d \in 1..m /\ d # o
    OBVIOUS
  <2>. QED  BY <2>1, <2>2 DEF Agree
<1>3. PICK A \in Int : A = Part(f, 0, o - 1) /\ A = Part(g, 0, o - 1)
  <2>1. Part(f, 0, o - 1) = Part(g, 0, o - 1) /\ Part(f, 0, o - 1) \in Int
    BY <1>1, <1>2, PartOfEquals, PartLast
  <2>. QED  BY <2>1
<1>4. PICK B \in Int : B = Part(f, o, m) /\ B = Part(g, o, m)
  <2>1. Part(f, o, m) = Part(g, o, m) /\ Part(f, o, m) \in Int
    BY <1>1, <1>2, PartOfEquals, PartLast
  <2>. QED  BY <2>1
<1>5. PICK q \in Int : q = g[o]
  BY DEF Terms
<1>6. Numel(f) = A * B
  <2>1. Part(f, 0, m) = Part(f, 0, o - 1) * Part(f, o - 1, m)
    BY <1>1, PartSplit
  <2>2. Part(f, o - 1, m) = f[o] * Part(f, o, m)
    BY <1>1, PartFirst
  <2>3. Part(f, o - 1, m) = B
    BY <1>4, <2>2
  <2>. QED  BY <1>3, <2>1, <2>3, PartWhole
<1>7. Numel(g) = A * (q * B)
  <2>1. Part(g, 0, m) = Part(g, 0, o - 1) * Part(g, o - 1, m)
    BY <1>1, PartSplit
  <2>2. Part(g, o - 1, m) = g[o] * Part(g, o, m)
    BY <1>1, PartFirst
  <2>3. Part(g, o - 1, m) = q * B
    BY <1>4, <1>5, <2>2
  <2>. QED  BY <1>3, <2>1, <2>3, PartWhole
<1>8. A * (q * B) = q * (A * B)
  <2>1. (A * q) * B = A * (q * B) /\ A * q = q * A /\ (q * A) * B = q * (A * B)
    BY Times
  <2>. QED  BY <2>1
<1>. QED  BY <1>5, <1>6, <1>7, <1>8

\* What infer_size accepts has the elements asked for.
LEMMA Inferred ==
    ASSUME NEW shape \in Requests, NEW numel \in Nat, InferSize(shape, numel) # Refused
    PROVE  \E m \in Nat : InferSize(shape, numel) \in Sizes(m) /\ Numel(InferSize(shape, numel)) = numel
<1>. DEFINE m == Len(shape)
            open == {d \in DOMAIN shape : shape[d] = -1}
            k == [d \in DOMAIN shape |-> IF d \in open THEN 1 ELSE shape[d]]
            known == Numel(k)
            full == [d \in DOMAIN shape |-> IF d \in open THEN numel \div known ELSE shape[d]]
            r == InferSize(shape, numel)
<1>1. r = IF open = {} /\ numel = known THEN shape
          ELSE IF Cardinality(open) = 1 /\ known > 0 /\ numel % known = 0 THEN full ELSE Refused
  BY Zenon DEF InferSize
<1>2. /\ m \in Nat /\ DOMAIN shape = 1..m /\ shape = [d \in 1..m |-> shape[d]]
      /\ \A d \in 1..m : shape[d] \in Nat \cup {-1}
  <2>1. shape \in Seq({-1} \cup 0..MaxNumel)
    BY BoundsAssumption, BoundedSequence DEF Requests
  <2>. QED  BY <2>1, BoundsAssumption
<1>. HIDE DEF m
<1>3. \A d \in 1..m : d \notin open => shape[d] \in Nat
  BY <1>2
<1>4. open \subseteq 1..m
  BY <1>2
<1>5. k \in Sizes(m) /\ k \in Terms(m)
  <2>1. k \in Sizes(m)
    BY <1>2, <1>3 DEF Sizes
  <2>. HIDE DEF k
  <2>. QED  BY <1>2, <2>1, SizesAreTerms
<1>6. known \in Nat
  <2>1. 0 \in 0..m /\ m \in 0..m
    BY <1>2
  <2>. QED  BY <1>2, <1>5, <2>1, PartWhole, PartOfSizes
<1>7. CASE open = {} /\ numel = known
  <2>1. k = shape
    BY <1>2, <1>7
  <2>. QED  BY <1>1, <1>2, <1>5, <1>7, <2>1
<1>8. CASE ~(open = {} /\ numel = known)
  <2>1. r = full /\ Cardinality(open) = 1 /\ known > 0 /\ numel % known = 0
    <3>. HIDE DEF full, known, open, r
    <3>. QED  BY <1>1, <1>8 DEF r
  <2>2. PICK o : open = {o}
    <3>. HIDE DEF open
    <3>1. IsFiniteSet(open)
      <4>1. IsFiniteSet(1..m)
        <5>1. 1 \in Int /\ m \in Int
          BY <1>2
        <5>. QED  BY <5>1, FS_Interval
      <4>. QED  BY <1>4, <4>1, FS_Subset
    <3>. QED  BY <2>1, <3>1, FS_Singleton
  <2>3. o \in 1..m /\ o \in open
    BY <1>4, <2>2
  <2>4. PICK q \in Nat : q = numel \div known /\ numel = known * q
    <3>1. PICK K \in Nat \ {0} : K = known
      BY <1>6, <2>1
    <3>. HIDE DEF known
    <3>2. numel \div K \in Nat /\ numel = K * (numel \div K) + (numel % K) /\ numel % K = 0
      BY <2>1, <3>1, Quotient
    <3>3. K * (numel \div K) \in Nat
      BY <3>2, ProductOfNats
    <3>4. numel = K * (numel \div K)
      BY <3>2, <3>3
    <3>. QED  BY <3>1, <3>2, <3>4
  <2>5. full \in Sizes(m) /\ full \in Terms(m)
    <3>1. full = [d \in 1..m |-> IF d \in open THEN q ELSE shape[d]]
      BY <1>2, <2>4
    <3>2. full \in Sizes(m)
      <4>. HIDE DEF full, open
      <4>. QED  BY <1>3, <3>1 DEF Sizes
    <3>. HIDE DEF full
    <3>. QED  BY <1>2, <3>2, SizesAreTerms
  <2>6. k[o] = 1 /\ full[o] = q /\ \A d \in 1..m : d # o => k[d] = full[d]
    <3>1. \A d \in 1..m : d # o => d \notin open
      BY <2>2
    <3>. HIDE DEF open, known
    <3>. QED  BY <1>2, <2>3, <2>4, <3>1
  <2>7. Numel(full) = q * known
    <3>. HIDE DEF full, k
    <3>. QED  BY <1>2, <1>5, <2>3, <2>5, <2>6, OneReplaced
  <2>8. q * known = known * q
    BY <1>6, ProductOfNats
  <2>. HIDE DEF full, known
  <2>. QED  BY <1>2, <2>1, <2>4, <2>5, <2>7, <2>8
<1>. QED  BY <1>7, <1>8

LEMMA InferredFacts ==
    ASSUME ViewInv, NEW size \in InferredSizes[Numel(tensor.sizes)]
    PROVE  /\ IsView(tensor)
           /\ \E m \in Nat : size \in Sizes(m) /\ Numel(size) = Numel(tensor.sizes)
<1>1. PICK N \in 0..MaxNumel : N = Numel(tensor.sizes)
  <2>1. IsTensor(tensor)
    BY ViewFacts
  <2>. QED  BY <2>1, TensorType, BoundsAssumption DEF ViewInv
<1>2. size \in {InferSize(shape, N) : shape \in Requests} \ {Refused}
  BY <1>1 DEF InferredSizes
<1>3. PICK shape \in Requests : size = InferSize(shape, N) /\ size # Refused
  BY <1>2
<1>. QED  BY <1>1, <1>3, Inferred DEF ViewInv

LEMMA ViewStays ==
    ASSUME ViewInv, NEW size \in InferredSizes[Numel(tensor.sizes)], View(size)
    PROVE  Stays(tensor, tensor')
<1>1. PICK m \in Nat : size \in Sizes(m) /\ Numel(size) = Numel(tensor.sizes)
  BY InferredFacts
<1>. DEFINE c == ComputeStride(tensor.sizes, tensor.strides, size)
<1>2. c # Refused /\ tensor' = Viewed(tensor, size, c)
  BY DEF View, Viewed
<1>3. c \in Sizes(m) /\ Addresses(Viewed(tensor, size, c)) = Addresses(tensor)
  BY <1>1, <1>2, InferredFacts, ViewOf
<1>. HIDE DEF c
<1>4. IsTensor(tensor) /\ tensor.offset \in Nat
  BY ViewFacts
<1>5. tensor' = [sizes |-> size, strides |-> c, offset |-> tensor.offset]
  BY <1>1, <1>2, <1>3, <1>4, SizesAreTerms, ViewedType
<1>6. IsView(tensor') /\ IsTensor(tensor')
  BY <1>1, <1>3, <1>4, <1>5, MakeView
<1>7. Elements(tensor') = Elements(tensor)
  BY <1>2, <1>3, <1>4, <1>6, AddressesAreElements
<1>8. Numel(tensor'.sizes) = Numel(tensor.sizes)
  BY <1>1, <1>5
<1>. QED  BY <1>6, <1>7, <1>8 DEF Stays, ViewInv

\* The first tensor has all of the storage.
LEMMA FirstView ==
    ASSUME Init
    PROVE  ViewInv
<1>1. PICK sizes \in Requests :
         /\ Numel(sizes) = StorageSize /\ \A d \in DOMAIN sizes : sizes[d] > 0
         /\ tensor = [sizes |-> sizes, strides |-> RowMajor(sizes), offset |-> 0]
  BY DEF Init
<1>. DEFINE m == Len(sizes)
            x == RowMajor(sizes)
<1>2. m \in Nat /\ sizes \in FullSizes(m)
  <2>1. sizes \in Seq({-1} \cup 0..MaxNumel)
    BY BoundsAssumption, BoundedSequence DEF Requests
  <2>2. \A d \in 1..m : sizes[d] \in Nat \ {0}
    BY <1>1, <2>1, BoundsAssumption
  <2>. QED  BY <2>1, <2>2 DEF FullSizes
<1>. HIDE DEF m
<1>3. sizes \in Sizes(m) /\ sizes \in Terms(m) /\ x \in Sizes(m) /\ x \in Terms(m)
      /\ \A d \in 1..m : x[d] = Part(sizes, d, m)
  <2>1. sizes \in Sizes(m) /\ sizes \in Terms(m)
    BY <1>2, FullParts
  <2>2. x \in Sizes(m) /\ \A d \in 1..m : x[d] = Part(sizes, d, m)
    BY <1>2, <2>1, RowMajorType
  <2>. HIDE DEF x
  <2>. QED  BY <1>2, <2>1, <2>2, SizesAreTerms
<1>4. IsView(tensor) /\ IsTensor(tensor) /\ Rank(tensor) = m
  <2>1. 0 \in Nat
    OBVIOUS
  <2>. HIDE DEF x
  <2>. QED  BY <1>1, <1>2, <1>3, <2>1, MakeView DEF x
<1>. HIDE DEF x
<1>5. tensor.sizes = sizes /\ tensor.strides = x /\ tensor.offset = 0
  BY <1>1 DEF x
<1>6. PICK N \in Nat \ {0} : N = StorageSize /\ N = Numel(sizes) /\ N = Part(sizes, 0, m)
  BY <1>1, <1>2, <1>3, BoundsAssumption, PartWhole
<1>7. Dense(sizes, m, x, 1, 0, m)
  <2>1. \A w \in 0 + 1..m : x[w] = Part(sizes, w, m) * 1
    <3>1. ASSUME NEW w \in 1..m  PROVE  Part(sizes, w, m) = Part(sizes, w, m) * 1
      <4>1. w \in 0..m /\ m \in w..m
        BY <1>2
      <4>2. Part(sizes, w, m) \in Nat
        BY <1>2, <4>1, FullParts
      <4>. QED  BY <4>2
    <3>. QED  BY <1>3, <3>1
  <2>2. m \in 0..m /\ 0 \in 0..m /\ 1 \in Int
    BY <1>2
  <2>. QED  BY <1>2, <1>3, <2>1, <2>2, DenseBlock
<1>8. ASSUME NEW k \in 1..N  PROVE  At(tensor, k - 1) \in 0..StorageSize - 1
  <2>1. k - 1 \in Nat /\ 0 \in 0..m /\ m \in 0..m /\ m \in m..m
    BY <1>2
  <2>2. PICK f \in Terms(m) : f = Moves(sizes, m, x, k - 1)
    BY <1>2, <1>3, <2>1, MovesType
  <2>3. Part(sizes, m, m) = 1
    BY <1>2, <1>3, <2>1, PartLast
  <2>4. PartSum(f, 0, m) = 1 * (((k - 1) \div Part(sizes, m, m)) % Part(sizes, 0, m))
    BY <1>7, <2>1, <2>2 DEF Dense
  <2>5. PartSum(f, 0, m) = ((k - 1) \div 1) % N
    <3>1. PartSum(f, 0, m) = 1 * (((k - 1) \div 1) % N)
      BY <1>6, <2>3, <2>4
    <3>2. ((k - 1) \div 1) \in Nat
      BY <2>1, Quotient
    <3>3. (((k - 1) \div 1) % N) \in Nat
      BY <3>2, Quotient
    <3>. QED  BY <3>1, <3>3
  <2>6. PartSum(f, 0, m) \in 0..N - 1
    <3>1. PICK q \in Nat : q = (k - 1) \div 1
      BY <2>1, Quotient
    <3>2. q % N \in Nat /\ q % N < N
      BY Quotient
    <3>. QED  BY <2>5, <3>1, <3>2
  <2>7. Total(f) = PartSum(f, 0, m)
    BY <1>2, <2>1, SumType
  <2>8. At(tensor, k - 1) = 0 + Total(f)
    BY <1>4, <1>5, <2>2 DEF At
  <2>. QED  BY <1>6, <2>6, <2>7, <2>8
<1>9. Elements(tensor) \subseteq 0..StorageSize - 1
  <2>1. Addresses(tensor) = [k \in 1..N |-> At(tensor, k - 1)]
    BY <1>4, <1>5, <1>6, AddressesAt
  <2>2. ToSet(Addresses(tensor)) \subseteq 0..StorageSize - 1
    BY <1>8, <2>1 DEF ToSet
  <2>. QED  BY <1>4, <2>2, AddressesAreElements
<1>10. Numel(tensor.sizes) <= MaxNumel
  BY <1>5, <1>6, BoundsAssumption
<1>. QED  BY <1>4, <1>9, <1>10 DEF ViewInv

LEMMA EachStays ==
    ASSUME ViewInv, Next
    PROVE  Stays(tensor, tensor')
<1>1. Dims = 1..Rank(tensor) /\ Len(tensor.sizes) = Rank(tensor) /\ Rank(tensor) \in Nat
  BY ViewFacts
<1>2. ASSUME NEW size \in InferredSizes[Numel(tensor.sizes)], View(size)
      PROVE  Stays(tensor, tensor')
  BY <1>2, ViewStays
<1>3. ASSUME NEW size \in Requests, Expand(size)  PROVE  Stays(tensor, tensor')
  <2>1. size \in Seq({-1} \cup 0..MaxNumel)
    BY BoundsAssumption, BoundedSequence DEF Requests
  <2>2. PICK m \in Nat : /\ size \in [1..m -> Int]
                         /\ \A i \in 1..m : size[i] \in Nat \cup {-1}
    BY <2>1, BoundsAssumption
  <2>. QED  BY <1>3, <2>2, ExpandStays
<1>4. ASSUME NEW dims \in Bijection(Dims, Dims), Permute(dims)  PROVE  Stays(tensor, tensor')
  BY <1>4, PermuteStays
<1>5. ASSUME NEW d1 \in Dims, NEW d2 \in Dims, d1 # d2, Transpose(d1, d2)
      PROVE  Stays(tensor, tensor')
  BY <1>5, TransposeStays
<1>6. ASSUME NEW d \in Dims, NEW index \in Indices, Select(d, index)  PROVE  Stays(tensor, tensor')
  <2>1. index \in Int
    BY BoundsAssumption DEF Indices
  <2>. QED  BY <1>6, <2>1, SelectStays
<1>7. ASSUME NEW d \in Dims, NEW start \in Indices, NEW end \in Indices, NEW step \in Steps,
             Slice(d, start, end, step)
      PROVE  Stays(tensor, tensor')
  <2>1. start \in Int /\ end \in Int /\ step \in Nat \ {0}
    BY BoundsAssumption DEF Indices, Steps
  <2>. QED  BY <1>7, <2>1, SliceStays
<1>8. ASSUME NEW dims \in {Dims} \cup {{d} : d \in Dims}, Squeeze(dims)
      PROVE  Stays(tensor, tensor')
  BY <1>8, SqueezeStays
<1>9. ASSUME NEW d \in 1..Len(tensor.sizes) + 1, Unsqueeze(d)  PROVE  Stays(tensor, tensor')
  BY <1>1, <1>9, UnsqueezeStays
<1>10. ASSUME NEW d \in Dims, NEW size \in 0..MaxIndex, NEW step \in Steps, Unfold(d, size, step)
       PROVE  Stays(tensor, tensor')
  <2>1. size \in Nat /\ step \in Nat \ {0}
    BY BoundsAssumption DEF Steps
  <2>. QED  BY <1>10, <2>1, UnfoldStays
<1>11. ASSUME NEW size \in 0..MaxIndex, UnfoldScalar(size)  PROVE  Stays(tensor, tensor')
  <2>1. size \in Nat
    BY BoundsAssumption
  <2>. QED  BY <1>11, <2>1, UnfoldScalarStays
<1>12. ASSUME NEW offset \in Indices, NEW d1 \in Dims, NEW d2 \in Dims, d1 # d2,
              Diagonal(offset, d1, d2)
       PROVE  Stays(tensor, tensor')
  <2>1. offset \in Int
    BY BoundsAssumption DEF Indices
  <2>. QED  BY <1>12, <2>1, DiagonalStays
<1>. QED
  BY <1>2, <1>3, <1>4, <1>5, <1>6, <1>7, <1>8, <1>9, <1>10, <1>11, <1>12 DEF Next

\* Whatever chain of operations made it, a tensor has sizes, strides and an
\* offset that are not negative, and its elements lie in the storage: the
\* operations compute strides and offsets that as_strided need not refuse.
THEOREM ViewInvariance == Spec => []ViewInv
<1>1. Init => ViewInv
  BY FirstView
<1>2. ViewInv /\ [Next]_tensor => ViewInv'
  <2>1. ASSUME ViewInv, Next  PROVE  ViewInv'
    <3>1. Stays(tensor, tensor')
      BY <2>1, EachStays
    <3>. QED  BY <2>1, <3>1 DEF Stays, ViewInv
  <2>2. ASSUME ViewInv, tensor' = tensor  PROVE  ViewInv'
    BY <2>2 DEF ViewInv
  <2>. QED  BY <2>1, <2>2
<1>. QED  BY <1>1, <1>2, PTL DEF Spec

LEMMA ViewIsNoError ==
    ASSUME NEW t, IsView(t)
    PROVE  t # Refused
<1>1. PICK n \in Nat : t \in [sizes : Sizes(n), strides : Sizes(n), offset : Nat]
  BY DEF IsView
<1>2. Sizes(n) \subseteq Seq(Int)
  BY DEF Sizes
<1>3. t \in [sizes : Seq(Int), strides : Seq(Int), offset : Int]
  BY <1>1, <1>2
<1>. QED  BY <1>3, RefusedAssumption

\* No operation reaches an element that its tensor does not have: as_strided,
\* which checks only that the result lies in the storage, is called with
\* results that lie in the tensor, and its check never fires.
THEOREM ViewsStayInside == Spec => ElementsOfSelf
<1>. DEFINE A == tensor' # tensor =>
                   /\ tensor' # Refused
                   /\ tensor'.strides \in [DOMAIN tensor'.sizes -> Nat]
                   /\ ToSet(Addresses(tensor')) \subseteq ToSet(Addresses(tensor))
<1>1. ViewInv /\ [Next]_tensor => A
  <2>1. SUFFICES ASSUME ViewInv, Next  PROVE  A
    OBVIOUS
  <2>2. Stays(tensor, tensor') /\ IsView(tensor') /\ Elements(tensor') \subseteq Elements(tensor)
    BY <2>1, EachStays DEF Stays
  <2>3. IsTensor(tensor) /\ IsTensor(tensor')
    BY <2>1, <2>2, ViewFacts, ViewType
  <2>4. ToSet(Addresses(tensor')) \subseteq ToSet(Addresses(tensor))
    BY <2>2, <2>3, AddressesAreElements
  <2>5. tensor'.strides \in [DOMAIN tensor'.sizes -> Nat]
    BY <2>2, <2>3, ViewType, TensorType DEF Sizes
  <2>6. tensor' # Refused
    BY <2>2, ViewIsNoError
  <2>. QED  BY <2>4, <2>5, <2>6
<1>. QED  BY <1>1, ViewInvariance, PTL DEF Spec, ElementsOfSelf

\* The strides of OnlyStrides are strides that could follow the elements.
LEMMA OnlyStridesType ==
    ASSUME ViewInv, NEW m \in Nat, NEW size \in Sizes(m), Numel(size) = Numel(tensor.sizes),
           Numel(size) # 0
    PROVE  OnlyStrides(Addresses(tensor), size) \in Terms(m)
<1>. DEFINE own == Addresses(tensor)
            N == Numel(size)
<1>1. N \in Nat \ {0} /\ N = Part(size, 0, m) /\ size \in Terms(m) /\ 0 \in 0..m /\ m \in 0..m
  <2>1. 0 \in 0..m /\ m \in 0..m /\ size \in Terms(m)
    BY SizesAreTerms
  <2>. QED  BY <2>1, PartWhole, PartOfSizes
<1>2. IsTensor(tensor)
  BY ViewFacts
<1>3. own = [k \in 1..N |-> At(tensor, k - 1)]
  BY <1>2, AddressesAt
<1>4. Len(size) = m /\ DOMAIN size = 1..m
  BY DEF Sizes
<1>. HIDE DEF own, N
<1>5. ASSUME NEW k \in 1..N  PROVE  own[k] \in Int
  <2>1. own[k] \in Elements(tensor)
    <3>1. own[k] \in ToSet(own)
      BY <1>3 DEF ToSet
    <3>. QED  BY <1>2, <3>1, AddressesAreElements DEF own
  <2>. QED  BY <2>1, BoundsAssumption DEF ViewInv
<1>6. ASSUME NEW d \in 1..m, size[d] # 1  PROVE  1 + Part(size, d, m) \in 1..N
  <2>1. d \in 0..m /\ m \in d..m /\ d - 1 \in 0..m /\ d - 1 \in 0..m /\ m \in (d - 1)..m
    OBVIOUS
  <2>2. \A e \in 1..m : size[e] # 0
    <3>1. ASSUME NEW e \in 1..m, size[e] = 0  PROVE  FALSE
      <4>1. e \in 0 + 1..m
        OBVIOUS
      <4>. QED  BY <1>1, <3>1, <4>1, PartOfNone
    <3>. QED  BY <3>1
  <2>3. size \in FullSizes(m)
    BY <2>2 DEF Sizes, FullSizes
  <2>4. PICK P \in Nat \ {0} : P = Part(size, d, m)
    BY <2>1, <2>3, FullParts
  <2>5. PICK q \in Nat \ {0} : q = Part(size, 0, d - 1)
    <3>1. d - 1 \in 0..m
      OBVIOUS
    <3>. QED  BY <1>1, <2>3, <3>1, FullParts
  <2>6. PICK z \in Nat \ {0} : z = size[d] /\ z # 1
    BY <1>6, <2>3 DEF FullSizes
  <2>7. N = q * (z * P)
    <3>1. N = Part(size, 0, d - 1) * Part(size, d - 1, m)
      BY <1>1, <2>1, PartSplit
    <3>2. Part(size, d - 1, m) = size[d] * Part(size, d, m)
      BY <1>1, <2>1, PartFirst
    <3>3. Part(size, d - 1, m) = z * P
      BY <2>4, <2>6, <3>2
    <3>. QED  BY <2>5, <3>1, <3>3
  <2>8. P < z * P /\ z * P \in Nat
    <3>1. P * 1 + 0 < P * z /\ P * z = z * P /\ z * P \in Nat
      BY <2>6, LessTimes, ProductOfNats
    <3>. QED  BY <3>1
  <2>9. z * P <= (z * P) * q /\ (z * P) * q = q * (z * P)
    BY <2>8, ProductOfNats
  <2>. QED  BY <1>1, <2>4, <2>7, <2>8, <2>9
<1>7. ASSUME NEW d \in 1..m
      PROVE  (IF size[d] = 1 THEN 0 ELSE own[1 + Part(size, d, m)] - own[1]) \in Int
  <2>1. CASE size[d] = 1
    BY <2>1
  <2>2. CASE size[d] # 1
    <3>1. 1 + Part(size, d, m) \in 1..N /\ 1 \in 1..N
      BY <1>1, <1>6, <2>2
    <3>2. own[1 + Part(size, d, m)] \in Int /\ own[1] \in Int
      BY <1>5, <3>1
    <3>. QED  BY <2>2, <3>2
  <2>. QED  BY <2>1, <2>2
<1>8. OnlyStrides(own, size)
        = [d \in 1..m |-> IF size[d] = 1 THEN 0 ELSE own[1 + Part(size, d, m)] - own[1]]
  BY <1>4, Zenon DEF OnlyStrides, Part
<1>. QED  BY <1>7, <1>8 DEF Terms, own

\* view visits the elements in the order of its tensor, and is refused only
\* when no strides could: for whatever tensor the operations have made, and
\* whatever sizes infer_size has accepted.
LEMMA OrderKept == ViewInv => ViewKeepsOrder
<1>1. SUFFICES ASSUME ViewInv  PROVE  ViewKeepsOrder
  OBVIOUS
<1>. DEFINE own == Addresses(tensor)
            Follows(size, strides) == Addresses([tensor EXCEPT !.sizes = size, !.strides = strides]) = own
            c(size) == ComputeStride(tensor.sizes, tensor.strides, size)
<1>2. ASSUME NEW size \in InferredSizes[Numel(tensor.sizes)]
      PROVE  IF c(size) # Refused THEN Follows(size, c(size)) ELSE ~Follows(size, OnlyStrides(own, size))
  <2>1. PICK m \in Nat : size \in Sizes(m) /\ Numel(size) = Numel(tensor.sizes)
    BY <1>1, InferredFacts
  <2>2. IsView(tensor) /\ IsTensor(tensor)
    BY <1>1, ViewFacts
  <2>3. \A x : Follows(size, x) <=> Addresses(Viewed(tensor, size, x)) = own
    BY Zenon DEF Viewed
  <2>4. \/ c(size) \in Sizes(m) /\ Follows(size, c(size))
        \/ c(size) = Refused /\ \A x \in Terms(m) : ~Follows(size, x)
    <3>1. \/ c(size) \in Sizes(m) /\ Addresses(Viewed(tensor, size, c(size))) = own
          \/ c(size) = Refused /\ \A x \in Terms(m) : Addresses(Viewed(tensor, size, x)) # own
      BY <2>1, <2>2, ViewOf
    <3>. HIDE DEF c, own, Follows
    <3>. QED  BY <2>3, <3>1
  <2>. HIDE DEF c, own, Follows
  <2>5. CASE c(size) \in Sizes(m) /\ Follows(size, c(size))
    BY <2>1, <2>5, NotRefused
  <2>6. CASE c(size) = Refused /\ \A x \in Terms(m) : ~Follows(size, x)
    <3>1. Numel(size) # 0
      <4>1. SUFFICES ASSUME Numel(size) = 0  PROVE  FALSE
        OBVIOUS
      <4>2. Follow(tensor.sizes, Rank(tensor), tensor.strides, size, m, size)
        <5>1. Part(tensor.sizes, 0, Rank(tensor)) = 0
          BY <2>1, <2>2, <4>1, TensorType
        <5>. QED  BY <5>1 DEF Follow
      <4>3. size \in Terms(m)
        BY <2>1, SizesAreTerms
      <4>4. Addresses(Viewed(tensor, size, size)) = Addresses(tensor)
        BY <2>1, <2>2, <4>2, <4>3, SameAddresses
      <4>. QED  BY <2>3, <2>6, <4>3, <4>4 DEF own
    <3>2. OnlyStrides(own, size) \in Terms(m)
      BY <1>1, <2>1, <3>1, OnlyStridesType DEF own
    <3>. QED  BY <2>6, <3>2
  <2>. QED  BY <2>4, <2>5, <2>6
<1>. QED  BY <1>2, Zenon DEF ViewKeepsOrder

THEOREM OrderIsKept == Spec => []ViewKeepsOrder
<1>1. Spec => []ViewInv
  BY ViewInvariance
<1>2. ViewInv => ViewKeepsOrder
  BY OrderKept
<1>. QED  BY <1>1, <1>2, PTL
=============================================================================
