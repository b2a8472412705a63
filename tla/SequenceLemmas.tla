---------------------------- MODULE SequenceLemmas ----------------------------
(***************************************************************************)
(* Facts about sequences that the proofs of several components use.        *)
(***************************************************************************)
EXTENDS Integers, SequencesExt, SequenceTheorems, WellFoundedInduction, TLAPS

\* What erasing one element of a list does, stated by position.
LEMMA RemoveAtFacts ==
    ASSUME NEW S, NEW q \in Seq(S), NEW i \in 1..Len(q)
    PROVE  /\ RemoveAt(q, i) \in Seq(S)
           /\ Len(RemoveAt(q, i)) = Len(q) - 1
           /\ \A j \in 1..Len(q) - 1 :
                 RemoveAt(q, i)[j] = IF j < i THEN q[j] ELSE q[j + 1]
<1> DEFINE a == SubSeq(q, 1, i - 1)
           b == SubSeq(q, i + 1, Len(q))
<1>1. /\ a \in Seq(S) /\ Len(a) = i - 1
      /\ \A j \in 1..i - 1 : a[j] = q[j]
  BY SubSeqProperties
<1>2. /\ b \in Seq(S) /\ Len(b) = Len(q) - i
      /\ \A j \in 1..Len(q) - i : b[j] = q[i + j]
  BY SubSeqProperties
<1>3. /\ a \o b \in Seq(S) /\ Len(a \o b) = Len(a) + Len(b)
      /\ \A j \in 1..Len(a) + Len(b) :
            (a \o b)[j] = IF j <= Len(a) THEN a[j] ELSE b[j - Len(a)]
  BY <1>1, <1>2, ConcatProperties
<1> HIDE DEF a, b
<1>4. RemoveAt(q, i) = a \o b
  BY DEF RemoveAt, a, b
<1>5. ASSUME NEW j \in 1..Len(q) - 1
      PROVE  (a \o b)[j] = IF j < i THEN q[j] ELSE q[j + 1]
  <2>1. CASE j < i
    BY <2>1, <1>1, <1>2, <1>3
  <2>2. CASE ~(j < i)
    <3>1. j - Len(a) \in 1..Len(q) - i /\ i + (j - Len(a)) = j + 1
      BY <2>2, <1>1
    <3>2. (a \o b)[j] = b[j - Len(a)]
      BY <2>2, <1>1, <1>2, <1>3
    <3>3. b[j - Len(a)] = q[i + (j - Len(a))]
      BY <3>1, <1>2
    <3> QED
      BY <2>2, <3>1, <3>2, <3>3
  <2> QED
    BY <2>1, <2>2
<1>6. Len(a \o b) = Len(q) - 1
  BY <1>1, <1>2, <1>3
<1>7. \A j \in 1..Len(q) - 1 : RemoveAt(q, i)[j] = IF j < i THEN q[j] ELSE q[j + 1]
  BY <1>4, <1>5, Zenon
<1> QED
  BY <1>3, <1>4, <1>6, <1>7

\* The same by the set of the elements and the absence of duplicates.
LEMMA RemoveAtElements ==
    ASSUME NEW S, NEW q \in Seq(S), NEW i \in 1..Len(q), IsInjective(q)
    PROVE  /\ RemoveAt(q, i) \in Seq(S)
           /\ ToSet(RemoveAt(q, i)) = ToSet(q) \ {q[i]}
           /\ IsInjective(RemoveAt(q, i))
<1> DEFINE new == RemoveAt(q, i)
           old(j) == IF j < i THEN j ELSE j + 1
<1>1. /\ new \in Seq(S)
      /\ DOMAIN new = 1..Len(q) - 1 /\ DOMAIN q = 1..Len(q) /\ Len(q) \in Nat
      /\ \A j \in 1..Len(q) - 1 : new[j] = IF j < i THEN q[j] ELSE q[j + 1]
  BY RemoveAtFacts, LenProperties
<1> HIDE DEF new
<1>2. ASSUME NEW j \in DOMAIN new
      PROVE  old(j) \in DOMAIN q /\ old(j) # i /\ new[j] = q[old(j)]
  BY <1>1
<1>3. ASSUME NEW k \in DOMAIN q, k # i
      PROVE  \E j \in DOMAIN new : new[j] = q[k]
  <2>1. CASE k < i
    BY <2>1, <1>1
  <2>2. CASE k > i
    <3>1. k - 1 \in DOMAIN new /\ ~(k - 1 < i) /\ (k - 1) + 1 = k
      BY <2>2, <1>1
    <3> QED
      BY <3>1, <1>1
  <2> QED
    BY <2>1, <2>2, <1>1, <1>3
<1>4. ToSet(new) = ToSet(q) \ {q[i]}
  <2>1. ASSUME NEW j \in DOMAIN new PROVE new[j] \in ToSet(q) \ {q[i]}
    BY <1>1, <1>2 DEF ToSet, IsInjective
  <2>2. ASSUME NEW k \in DOMAIN q, q[k] # q[i] PROVE q[k] \in ToSet(new)
    BY <2>2, <1>3 DEF ToSet
  <2> QED
    BY <2>1, <2>2 DEF ToSet
<1>5. IsInjective(new)
  <2> SUFFICES ASSUME NEW j \in DOMAIN new, NEW k \in DOMAIN new, new[j] = new[k]
               PROVE  j = k
    BY DEF IsInjective
  <2>1. old(j) = old(k)
    BY <1>2, Zenon DEF IsInjective
  <2> QED
    BY <2>1, <1>1
<1> QED
  BY <1>1, <1>4, <1>5 DEF new

\* Appending a new element, by the set of the elements.
LEMMA AppendElements ==
    ASSUME NEW S, NEW q \in Seq(S), NEW x \in S, IsInjective(q), x \notin ToSet(q)
    PROVE  /\ Append(q, x) \in Seq(S) /\ Len(Append(q, x)) = Len(q) + 1
           /\ ToSet(Append(q, x)) = ToSet(q) \cup {x}
           /\ IsInjective(Append(q, x))
<1> DEFINE new == Append(q, x)
<1>1. /\ new \in Seq(S) /\ Len(new) = Len(q) + 1
      /\ \A j \in 1..Len(q) : new[j] = q[j]
      /\ new[Len(q) + 1] = x
  BY AppendProperties
<1> HIDE DEF new
<1>2. /\ DOMAIN new = 1..Len(q) + 1 /\ DOMAIN q = 1..Len(q) /\ Len(q) \in Nat
  BY <1>1, LenProperties
<1>3. ToSet(new) = ToSet(q) \cup {x}
  <2>1. ASSUME NEW j \in DOMAIN new PROVE new[j] \in ToSet(q) \cup {x}
    <3>1. j = Len(q) + 1 \/ j \in 1..Len(q)
      BY <1>2
    <3> QED
      BY <3>1, <1>1, <1>2 DEF ToSet
  <2>2. ASSUME NEW k \in DOMAIN q PROVE k \in DOMAIN new /\ new[k] = q[k]
    BY <1>1, <1>2
  <2>3. Len(q) + 1 \in DOMAIN new
    BY <1>2
  <2> QED
    BY <1>1, <2>1, <2>2, <2>3 DEF ToSet
<1>4. IsInjective(new)
  <2> SUFFICES ASSUME NEW j \in DOMAIN new, NEW k \in DOMAIN new, new[j] = new[k]
               PROVE  j = k
    BY DEF IsInjective
  <2>1. \A m \in 1..Len(q) : new[m] = q[m] /\ new[m] # x
    BY <1>1, <1>2 DEF ToSet
  <2>2. CASE j \in 1..Len(q) /\ k \in 1..Len(q)
    BY <2>1, <2>2, <1>2 DEF IsInjective
  <2>3. CASE j = Len(q) + 1 \/ k = Len(q) + 1
    <3>1. \A m \in DOMAIN new : new[m] = x => m = Len(q) + 1
      BY <1>2, <2>1
    <3> QED
      BY <1>1, <2>3, <3>1
  <2> QED
    BY <1>2, <2>2, <2>3
<1> QED
  BY <1>1, <1>3, <1>4 DEF new

\* What pushing to the front of a list does, stated by position.
LEMMA ConsFacts ==
    ASSUME NEW S, NEW e \in S, NEW q \in Seq(S)
    PROVE  /\ Cons(e, q) \in Seq(S)
           /\ Len(Cons(e, q)) = Len(q) + 1
           /\ Cons(e, q)[1] = e
           /\ \A i \in 2..Len(q) + 1 : Cons(e, q)[i] = q[i - 1]
           /\ Head(Cons(e, q)) = e
           /\ Cons(e, q) # <<>>
<1>1. <<e>> \in Seq(S) /\ Len(<<e>>) = 1 /\ <<e>>[1] = e
  OBVIOUS
<1>2. /\ Cons(e, q) \in Seq(S)
      /\ Len(Cons(e, q)) = Len(q) + 1
      /\ \A i \in 1..Len(q) + 1 :
            Cons(e, q)[i] = IF i <= 1 THEN <<e>>[i] ELSE q[i - 1]
  BY <1>1, ConcatProperties DEF Cons
<1>3. Cons(e, q)[1] = e /\ \A i \in 2..Len(q) + 1 : Cons(e, q)[i] = q[i - 1]
  BY <1>1, <1>2
<1>4. Cons(e, q) # <<>>
  BY <1>2
<1> QED
  BY <1>2, <1>3, <1>4

\* The same by the set of the elements and the absence of duplicates.
LEMMA ConsElements ==
    ASSUME NEW S, NEW e \in S, NEW q \in Seq(S)
    PROVE  /\ Cons(e, q) \in Seq(S) /\ Cons(e, q) # <<>> /\ Head(Cons(e, q)) = e
           /\ ToSet(Cons(e, q)) = ToSet(q) \cup {e}
           /\ e \notin ToSet(q) /\ IsInjective(q) => IsInjective(Cons(e, q))
<1> DEFINE new == Cons(e, q)
<1>1. /\ new \in Seq(S) /\ new # <<>> /\ Head(new) = e
      /\ DOMAIN new = 1..Len(q) + 1 /\ DOMAIN q = 1..Len(q) /\ Len(q) \in Nat
      /\ new[1] = e /\ \A i \in 2..Len(q) + 1 : new[i] = q[i - 1]
  BY ConsFacts, LenProperties
<1> HIDE DEF new
<1>2. ASSUME NEW i \in DOMAIN new, i # 1
      PROVE  i - 1 \in DOMAIN q /\ new[i] = q[i - 1]
  BY <1>1, <1>2
<1>3. ASSUME NEW i \in DOMAIN q
      PROVE  i + 1 \in DOMAIN new /\ new[i + 1] = q[i]
  <2>1. i + 1 \in 2..Len(q) + 1 /\ (i + 1) - 1 = i
    BY <1>1
  <2> QED
    BY <2>1, <1>1
<1>4. ToSet(new) = ToSet(q) \cup {e}
  <2>1. ASSUME NEW i \in DOMAIN new PROVE new[i] \in ToSet(q) \cup {e}
    BY <1>1, <1>2 DEF ToSet
  <2>2. ASSUME NEW i \in DOMAIN q PROVE q[i] \in ToSet(new)
    BY <1>3 DEF ToSet
  <2>3. e \in ToSet(new)
    BY <1>1 DEF ToSet
  <2> QED
    BY <2>1, <2>2, <2>3 DEF ToSet
<1>5. ASSUME e \notin ToSet(q), IsInjective(q) PROVE IsInjective(new)
  <2> SUFFICES ASSUME NEW i \in DOMAIN new, NEW j \in DOMAIN new, new[i] = new[j]
               PROVE  i = j
    BY DEF IsInjective
  <2>1. CASE i = 1 \/ j = 1
    BY <2>1, <1>1, <1>2, <1>5 DEF ToSet
  <2>2. CASE i # 1 /\ j # 1
    <3>1. i - 1 = j - 1
      BY <2>2, <1>2, <1>5 DEF IsInjective
    <3> QED
      BY <3>1, <1>1
  <2> QED
    BY <2>1, <2>2
<1> QED
  BY <1>1, <1>4, <1>5 DEF new

\* And for dropping the first element.
LEMMA TailElements ==
    ASSUME NEW S, NEW q \in Seq(S), q # <<>>, IsInjective(q)
    PROVE  /\ Tail(q) \in Seq(S) /\ Head(q) \in S /\ Head(q) \in ToSet(q)
           /\ ToSet(Tail(q)) = ToSet(q) \ {Head(q)}
           /\ IsInjective(Tail(q))
<1> DEFINE new == Tail(q)
<1>1. /\ new \in Seq(S) /\ DOMAIN q = 1..Len(q) /\ Len(q) \in Nat \ {0}
      /\ DOMAIN new = 1..Len(q) - 1 /\ Head(q) = q[1] /\ Head(q) \in S
      /\ \A i \in 1..Len(q) - 1 : new[i] = q[i + 1]
  BY HeadTailProperties, LenProperties, EmptySeq
<1> HIDE DEF new
<1>2. ASSUME NEW i \in DOMAIN new
      PROVE  i + 1 \in DOMAIN q /\ i + 1 # 1 /\ new[i] = q[i + 1]
  BY <1>1
<1>3. ASSUME NEW i \in DOMAIN q, i # 1
      PROVE  i - 1 \in DOMAIN new /\ new[i - 1] = q[i]
  <2>1. i - 1 \in 1..Len(q) - 1 /\ (i - 1) + 1 = i
    BY <1>1, <1>3
  <2> QED
    BY <2>1, <1>1
<1>4. 1 \in DOMAIN q
  BY <1>1
<1>5. ToSet(new) = ToSet(q) \ {q[1]}
  <2>1. ASSUME NEW i \in DOMAIN new PROVE new[i] \in ToSet(q) \ {q[1]}
    BY <1>2, <1>4 DEF ToSet, IsInjective
  <2>2. ASSUME NEW i \in DOMAIN q, q[i] # q[1] PROVE q[i] \in ToSet(new)
    BY <1>3, <2>2 DEF ToSet
  <2> QED
    BY <2>1, <2>2 DEF ToSet
<1>6. IsInjective(new)
  <2> SUFFICES ASSUME NEW i \in DOMAIN new, NEW j \in DOMAIN new, new[i] = new[j]
               PROVE  i = j
    BY DEF IsInjective
  <2>1. i + 1 = j + 1
    BY <1>2 DEF IsInjective
  <2> QED
    BY <2>1, <1>1
<1> QED
  BY <1>1, <1>4, <1>5, <1>6 DEF new, ToSet

-----------------------------------------------------------------------------
\* The least of some numbers.
LEMMA NatMin ==
    ASSUME NEW T \in SUBSET Nat, T # {}
    PROVE  \E n \in T : \A m \in T : n <= m
<1>1. PICK R : R = OpToRel(<, Nat)
    OBVIOUS
<1>2. IsWellFoundedOn(R, Nat)
    BY <1>1, NatLessThanWellFounded
<1>3. PICK n \in T : \A m \in T : ~ (<<m, n>> \in R)
    BY <1>2, WFMin
<1>4. R = {ss \in Nat \X Nat : ss[1] < ss[2]}
    BY <1>1 DEF OpToRel
<1>5. ASSUME NEW m \in Nat, NEW k \in Nat, m < k PROVE <<m, k>> \in R
    <2>1. <<m, k>>[1] < <<m, k>>[2] /\ <<m, k>> \in Nat \X Nat
        BY <1>5
    <2>. QED
        BY <1>4, <2>1
<1>6. ASSUME NEW m \in T PROVE n <= m
    <2>1. m \in Nat /\ n \in Nat
        OBVIOUS
    <2>2. ~ (m < n)
        BY <1>3, <1>5, <2>1
    <2>. QED
        BY <2>1, <2>2
<1>. QED
    BY <1>6

\* Induction, over the numbers of a set.
LEMMA SetInduction ==
    ASSUME NEW S, 0 \in S, \A n \in Nat : n \in S => n + 1 \in S
    PROVE Nat \subseteq S
<1>. SUFFICES ASSUME Nat \ S # {} PROVE FALSE
    OBVIOUS
<1>1. PICK n \in Nat \ S : \A m \in Nat \ S : n <= m
    BY NatMin
<1>. QED
   BY <1>1

\* A function is defined by recursion over numbers when each of its values is
\* computed from the one before by a function.
Iterates(g, b, step, m) == g[0] = b /\ \A d \in 1..m : g[d] = step[d][g[d - 1]]

LEMMA Recursion ==
    ASSUME NEW D, NEW b \in D, NEW m \in Nat, NEW step \in [1..m -> [D -> D]]
    PROVE  \E g \in [0..m -> D] : Iterates(g, b, step, m)
<1>. DEFINE Upto(g, k) == /\ g \in [0..k -> D] /\ g[0] = b
                          /\ \A d \in 1..k : g[d] = step[d][g[d - 1]]
            S == {k \in Nat : k <= m => \E g : Upto(g, k)}
<1>1. 0 \in S
  <2>. DEFINE g == [d \in 0..0 |-> b]
  <2>1. Upto(g, 0)
    OBVIOUS
  <2>. HIDE DEF Upto
  <2>. QED  BY <2>1
<1>2. ASSUME NEW k \in Nat, k \in S  PROVE  k + 1 \in S
  <2>1. SUFFICES ASSUME k + 1 <= m  PROVE  \E h : Upto(h, k + 1)
    OBVIOUS
  <2>2. k <= m
    BY <2>1
  <2>3. PICK g : Upto(g, k)
    BY <1>2, <2>2
  <2>4. PICK x \in D : x = step[k + 1][g[k]]
    BY <2>1, <2>3
  <2>. DEFINE h == [d \in 0..k + 1 |-> IF d = k + 1 THEN x ELSE g[d]]
  <2>5. h \in [0..k + 1 -> D] /\ h[0] = b
    BY <2>3
  <2>6. ASSUME NEW d \in 1..k + 1  PROVE  h[d] = step[d][h[d - 1]]
    <3>1. d - 1 \in 0..k /\ h[d - 1] = g[d - 1]
      OBVIOUS
    <3>2. CASE d = k + 1
      <4>1. h[d] = x /\ d - 1 = k
        BY <3>2
      <4>. QED  BY <2>4, <3>1, <3>2, <4>1
    <3>3. CASE d # k + 1
      <4>1. d \in 1..k /\ h[d] = g[d]
        BY <3>3
      <4>. QED  BY <2>3, <3>1, <4>1
    <3>. QED  BY <3>2, <3>3
  <2>. HIDE DEF h
  <2>. QED  BY <2>5, <2>6
<1>3. m \in S
  <2>. HIDE DEF S
  <2>. QED  BY <1>1, <1>2, SetInduction
<1>. QED  BY <1>3 DEF Iterates
=============================================================================
