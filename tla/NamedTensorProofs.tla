-------------------------- MODULE NamedTensorProofs --------------------------
(***************************************************************************)
(* What holds of tensors with names, however many names and dimensions     *)
(* there are.  Two lists of names unify to the least common refinement: a  *)
(* name of the longer list is found in its own list by counting from the   *)
(* end (PaddedName), and a name that two lists share has one position      *)
(* (Aligned).  A tensor is aligned by the rules: the walk from the right   *)
(* places each dimension at the last position that any placing allows      *)
(* (WalkIsLatest).  And the chains of operations keep NamesInv, that a     *)
(* tensor has one name for each size and none twice, one lemma for each    *)
(* operation.  They also keep names with their dimensions: each dimension  *)
(* of a result is traced to the one that it has its name from (Inherits),  *)
(* if the tensor has one of that name, and what is known of that dimension *)
(* (Kept) is then known of every one that has its name, since no name      *)
(* occurs twice (InheritedNames).                                          *)
(***************************************************************************)
EXTENDS NamedTensor, TensorViewProofs

\* The name at a position of the longer list's, for lists of either length.
LEMMA PaddedName ==
    ASSUME NEW list \in Seq(Dimname), NEW size \in Nat, Len(list) <= size, NEW i \in 1..size
    PROVE  /\ Padded(list, size, i) \in Dimname
           /\ Padded(list, size, i) # Wildcard =>
                 /\ i - (size - Len(list)) \in DOMAIN list
                 /\ Padded(list, size, i) = list[i - (size - Len(list))]
<1>1. CASE i > size - Len(list)
  <2>1. i - (size - Len(list)) \in 1..Len(list)
    BY <1>1
  <2>2. DOMAIN list = 1..Len(list) /\ list[i - (size - Len(list))] \in Dimname
    BY <2>1
  <2>. QED  BY <1>1, <2>1, <2>2 DEF Padded
<1>2. CASE ~(i > size - Len(list))
  BY <1>2 DEF Padded, Dimname
<1>. QED  BY <1>1, <1>2

\* In a list without a name twice a name has one position.
LEMMA OnePosition ==
    ASSUME NEW list \in Seq(Dimname), Distinct(list), NEW size \in Nat, Len(list) <= size,
           NEW i \in 1..size, NEW j \in 1..size,
           Padded(list, size, i) = Padded(list, size, j), Padded(list, size, i) # Wildcard
    PROVE  i = j
<1>1. /\ i - (size - Len(list)) \in DOMAIN list
      /\ Padded(list, size, i) = list[i - (size - Len(list))]
  BY PaddedName
<1>2. /\ j - (size - Len(list)) \in DOMAIN list
      /\ Padded(list, size, j) = list[j - (size - Len(list))]
  BY PaddedName
<1>3. i - (size - Len(list)) = j - (size - Len(list))
  BY <1>1, <1>2 DEF Distinct
<1>. QED  BY <1>3

\* What is no wildcard comes from the list itself.
LEMMA PaddedIsInList ==
    ASSUME NEW list \in Seq(Dimname), NEW size \in Nat, Len(list) <= size, NEW i \in 1..size,
           Padded(list, size, i) # Wildcard
    PROVE  HasName(list, Padded(list, size, i))
BY PaddedName DEF HasName

\* The longer of two lengths is one of them and no less than either.
LEMMA LongerIsLonger ==
    ASSUME NEW m \in Nat, NEW n \in Nat
    PROVE  Longer(m, n) \in Nat /\ m <= Longer(m, n) /\ n <= Longer(m, n)
              /\ Longer(m, n) \in {m, n}
BY DEF Longer

\* Two lists that unify_from_right unifies have no name at different positions.
LEMMA Aligned ==
    ASSUME NEW list \in Seq(Dimname), NEW other \in Seq(Dimname),
           Distinct(list), Distinct(other), UnifiesFromRight(list, other),
           NEW i \in 1..Longer(Len(list), Len(other)), NEW j \in 1..Longer(Len(list), Len(other)),
           Padded(list, Longer(Len(list), Len(other)), i)
              = Padded(other, Longer(Len(list), Len(other)), j),
           Padded(list, Longer(Len(list), Len(other)), i) # Wildcard
    PROVE  i = j
<1>. DEFINE size == Longer(Len(list), Len(other))
            a(k) == Padded(list, size, k)
            b(k) == Padded(other, size, k)
<1>1. size \in Nat /\ Len(list) <= size /\ Len(other) <= size
  BY LongerIsLonger
<1>2. HasName(other, a(i))
  BY <1>1, PaddedIsInList
<1>3. Matches(a(i), b(i)) /\ (b(i) = Wildcard => ~Misaligned(a(i), other))
  BY DEF UnifiesFromRight
<1>4. b(i) = a(i)
  BY <1>2, <1>3 DEF Matches, Misaligned
<1>5. b(i) = b(j) /\ b(i) # Wildcard
  BY <1>4
<1>6. i \in 1..size /\ j \in 1..size
  OBVIOUS
<1>. HIDE DEF size
<1>. QED  BY <1>1, <1>5, <1>6, OnePosition

\* No name occurs twice in what unify_from_right makes of two lists in which
\* none does, so that the operations that store it unvalidated may do so.
THEOREM UnifiedIsDistinct ==
    ASSUME NEW list \in Seq(Dimname), NEW other \in Seq(Dimname),
           Distinct(list), Distinct(other), UnifiesFromRight(list, other)
    PROVE  Distinct(UnifyFromRight(list, other))
<1>. DEFINE size == Longer(Len(list), Len(other))
            a(k) == Padded(list, size, k)
            b(k) == Padded(other, size, k)
            unified == UnifyFromRight(list, other)
<1>1. size \in Nat /\ Len(list) <= size /\ Len(other) <= size
  BY LongerIsLonger
<1>2. /\ DOMAIN unified = 1..size
      /\ \A k \in 1..size : unified[k] = Unify(a(k), b(k))
  BY DEF UnifyFromRight
<1>3. SUFFICES ASSUME NEW i \in 1..size, NEW j \in 1..size,
                      unified[i] = unified[j], unified[i] # Wildcard
               PROVE  i = j
  BY <1>2 DEF Distinct
<1>4. unified[i] \in {a(i), b(i)} /\ unified[j] \in {a(j), b(j)}
  BY <1>2 DEF Unify
<1>5. CASE unified[i] = a(i) /\ unified[j] = a(j)
  BY <1>1, <1>3, <1>5, OnePosition
<1>6. CASE unified[i] = b(i) /\ unified[j] = b(j)
  BY <1>1, <1>3, <1>6, OnePosition
<1>7. CASE unified[i] = a(i) /\ unified[j] = b(j)
  BY <1>3, <1>7, Aligned
<1>8. CASE unified[i] = b(i) /\ unified[j] = a(j)
  BY <1>3, <1>8, Aligned
<1>. QED  BY <1>4, <1>5, <1>6, <1>7, <1>8

\* TensorNames of a whole list has that list's names, each with the list.
LEMMA WrappedName ==
    ASSUME NEW list \in Seq(Dimname)
    PROVE  LET tn == TensorNames(list, Len(list))
           IN  /\ Len(tn) = Len(list)
               /\ \A i \in 1..Len(list) : tn[i] = [name |-> list[i], origin |-> list]
<1>1. TensorNames(list, Len(list)) \in Seq([name : Dimname, origin : Seq(Dimname)])
  BY DEF TensorNames
<1>. QED  BY <1>1 DEF TensorNames

\* Where two lists of x and y names, lined up at the end of s positions, meet.
LEMMA CommonPositions ==
    ASSUME NEW x \in Nat, NEW y \in Nat, NEW s \in Nat, x <= s, y <= s, s \in {x, y},
           NEW c \in Nat, c = x + y - s, NEW i \in 1..c
    PROVE  /\ x - c + i \in 1..x /\ s - c + i > s - x /\ (s - c + i) - (s - x) = x - c + i
           /\ y - c + i \in 1..y /\ s - c + i > s - y /\ (s - c + i) - (s - y) = y - c + i
<1>1. CASE s = x
  <2>1. c = y
    BY <1>1
  <2>. QED  BY <1>1, <2>1
<1>2. CASE s = y
  <2>1. c = x
    BY <1>2
  <2>. QED  BY <1>2, <2>1
<1>. QED  BY <1>1, <1>2

\* The two names that unifyFromRightInplace compares, as unify_from_right lines
\* them up.
LEMMA ComparedNames ==
    ASSUME NEW list \in Seq(Dimname), NEW other \in Seq(Dimname)
    PROVE  LET tn == TensorNames(list, Len(list))
               on == TensorNames(other, Len(other))
               size == Longer(Len(list), Len(other))
               common == Len(list) + Len(other) - size
           IN  UnifiesInplace(tn, on) <=>
                 \A p \in size - common + 1..size :
                    TensorNamesMatch([name |-> Padded(list, size, p), origin |-> list],
                                     [name |-> Padded(other, size, p), origin |-> other])
<1>. DEFINE tn == TensorNames(list, Len(list))
            on == TensorNames(other, Len(other))
            size == Longer(Len(list), Len(other))
            common == Len(list) + Len(other) - size
            match(p) == TensorNamesMatch([name |-> Padded(list, size, p), origin |-> list],
                                         [name |-> Padded(other, size, p), origin |-> other])
<1>0. Len(list) \in Nat /\ Len(other) \in Nat
  OBVIOUS
<1>1. size \in Nat /\ Len(list) <= size /\ Len(other) <= size /\ size \in {Len(list), Len(other)}
  BY <1>0, LongerIsLonger
<1>2. /\ Len(tn) = Len(list) /\ Len(on) = Len(other)
      /\ \A i \in 1..Len(list) : tn[i] = [name |-> list[i], origin |-> list]
      /\ \A i \in 1..Len(other) : on[i] = [name |-> other[i], origin |-> other]
  BY WrappedName
<1>3. common \in Nat /\ common <= Len(list) /\ common <= Len(other)
  BY <1>1
<1>4. UnifiesInplace(tn, on) <=>
        \A i \in 1..common : TensorNamesMatch(tn[Len(list) - common + i], on[Len(other) - common + i])
  BY <1>2 DEF UnifiesInplace
<1>5. ASSUME NEW i \in 1..common
      PROVE  TensorNamesMatch(tn[Len(list) - common + i], on[Len(other) - common + i])
                <=> match(size - common + i)
  <2>. DEFINE p == size - common + i
              n == Len(list) - common + i
              m == Len(other) - common + i
  <2>1. /\ n \in 1..Len(list) /\ p > size - Len(list) /\ p - (size - Len(list)) = n
        /\ m \in 1..Len(other) /\ p > size - Len(other) /\ p - (size - Len(other)) = m
    <3>1. common = Len(list) + Len(other) - size
      OBVIOUS
    <3>. HIDE DEF common, size
    <3>. QED  BY <1>0, <1>1, <1>3, <3>1, CommonPositions
  <2>2. Padded(list, size, p) = list[n] /\ Padded(other, size, p) = other[m]
    BY <2>1 DEF Padded
  <2>3. /\ tn[n] = [name |-> list[n], origin |-> list]
        /\ on[m] = [name |-> other[m], origin |-> other]
    BY <1>2, <2>1
  <2>. QED  BY <2>2, <2>3
<1>6. (\A i \in 1..common : match(size - common + i)) <=> (\A p \in size - common + 1..size : match(p))
  <2>1. ASSUME \A i \in 1..common : match(size - common + i), NEW p \in size - common + 1..size
        PROVE  match(p)
    <3>1. p - (size - common) \in 1..common /\ size - common + (p - (size - common)) = p
      BY <1>1, <1>3
    <3>. HIDE DEF match
    <3>. QED  BY <2>1, <3>1
  <2>2. ASSUME \A p \in size - common + 1..size : match(p), NEW i \in 1..common
        PROVE  match(size - common + i)
    <3>1. size - common + i \in size - common + 1..size
      BY <1>1, <1>3
    <3>. HIDE DEF match
    <3>. QED  BY <2>2, <3>1
  <2>. HIDE DEF match
  <2>. QED  BY <2>1, <2>2
<1>. HIDE DEF match, tn, on, common, size
<1>7. UnifiesInplace(tn, on) <=> \A p \in size - common + 1..size : match(p)
  BY <1>4, <1>5, <1>6
<1>. QED  BY <1>7 DEF match, tn, on, common, size

\* When names match from the right wherever both lists have one, a name that
\* meets a wildcard, or nothing, is nowhere in the other list.
LEMMA NoOtherPosition ==
    ASSUME NEW list \in Seq(Dimname), NEW other \in Seq(Dimname), Distinct(list),
           NEW size \in Nat, Len(list) <= size, Len(other) <= size, size \in {Len(list), Len(other)},
           NEW lead \in Nat, lead = size - (Len(list) + Len(other) - size),
           \A p \in lead + 1..size :
              /\ Matches(Padded(list, size, p), Padded(other, size, p))
              /\ Padded(list, size, p) # Wildcard /\ Padded(other, size, p) = Wildcard
                   => ~HasName(other, Padded(list, size, p))
              /\ Padded(list, size, p) = Wildcard /\ Padded(other, size, p) # Wildcard
                   => ~HasName(list, Padded(other, size, p)),
           NEW i \in 1..size, Padded(other, size, i) = Wildcard
    PROVE  ~Misaligned(Padded(list, size, i), other)
<1>. DEFINE a(p) == Padded(list, size, p)
            b(p) == Padded(other, size, p)
<1>1. SUFFICES ASSUME a(i) # Wildcard, NEW k \in DOMAIN other, other[k] = a(i)
               PROVE  FALSE
  BY DEF Misaligned, HasName
<1>2. Len(list) \in Nat /\ Len(other) \in Nat /\ k \in 1..Len(other)
  OBVIOUS
<1>3. i - (size - Len(list)) \in 1..Len(list)
  BY <1>1, <1>2, PaddedName
<1>4. HasName(other, a(i)) /\ HasName(list, a(i))
  BY <1>1, PaddedIsInList DEF HasName
<1>5. i \notin lead + 1..size
  BY <1>1, <1>4
<1>6. size = Len(list) /\ lead = size - Len(other)
  <2>1. i >= 1 /\ i <= size /\ i < lead + 1
    BY <1>5
  <2>2. CASE size = Len(list)
    BY <1>2, <2>2
  <2>3. CASE size = Len(other)
    <3>1. lead = size - Len(list)
      BY <1>2, <2>3
    <3>. QED  BY <1>2, <1>3, <2>1, <3>1
  <2>. QED  BY <2>2, <2>3
<1>. DEFINE q == k + lead
<1>7. q \in lead + 1..size /\ q \in 1..size /\ q - (size - Len(other)) = k /\ q > size - Len(other)
  BY <1>2, <1>6
<1>8. b(q) = a(i)
  BY <1>1, <1>7 DEF Padded
<1>9. a(q) = a(i)
  BY <1>1, <1>4, <1>7, <1>8 DEF Matches
<1>. HIDE DEF q
<1>10. q = i
  BY <1>1, <1>7, <1>9, OnePosition
<1>. QED  BY <1>5, <1>7, <1>10

\* unify_from_right and TensorNames accept the same pairs of lists, although
\* only the one looks at the names of the longer list that have no partner: one
\* that is elsewhere in the shorter list meets a wildcard there.
THEOREM ImplementationsAgree ==
    ASSUME NEW list \in Seq(Dimname), NEW other \in Seq(Dimname),
           Distinct(list), Distinct(other)
    PROVE  UnifiesFromRight(list, other) <=>
              UnifiesInplace(TensorNames(list, Len(list)), TensorNames(other, Len(other)))
<1>. DEFINE size == Longer(Len(list), Len(other))
            common == Len(list) + Len(other) - size
            a(p) == Padded(list, size, p)
            b(p) == Padded(other, size, p)
            match(p) == TensorNamesMatch([name |-> a(p), origin |-> list],
                                         [name |-> b(p), origin |-> other])
<1>0. Len(list) \in Nat /\ Len(other) \in Nat
  OBVIOUS
<1>1. size \in Nat /\ Len(list) <= size /\ Len(other) <= size /\ size \in {Len(list), Len(other)}
  BY <1>0, LongerIsLonger
<1>2. common \in Nat /\ common <= Len(list) /\ common <= Len(other)
  BY <1>1
<1>3. UnifiesInplace(TensorNames(list, Len(list)), TensorNames(other, Len(other)))
        <=> \A p \in size - common + 1..size : match(p)
  BY ComparedNames
<1>4. ASSUME NEW p \in 1..size
      PROVE  match(p) <=> /\ Matches(a(p), b(p))
                          /\ a(p) # Wildcard /\ b(p) = Wildcard => ~HasName(other, a(p))
                          /\ a(p) = Wildcard /\ b(p) # Wildcard => ~HasName(list, b(p))
  BY DEF TensorNamesMatch
<1>5. ASSUME UnifiesFromRight(list, other), NEW p \in size - common + 1..size
      PROVE  match(p)
  <2>1. p \in 1..size
    BY <1>1, <1>2
  <2>. QED  BY <1>4, <1>5, <2>1 DEF UnifiesFromRight, Misaligned
<1>6. ASSUME \A p \in size - common + 1..size : match(p)
      PROVE  UnifiesFromRight(list, other)
  <2>. DEFINE lead == size - common
  <2>1. \A p \in lead + 1..size :
          /\ p \in 1..size
          /\ Matches(a(p), b(p)) /\ Matches(b(p), a(p))
          /\ a(p) # Wildcard /\ b(p) = Wildcard => ~HasName(other, a(p))
          /\ a(p) = Wildcard /\ b(p) # Wildcard => ~HasName(list, b(p))
    <3>1. ASSUME NEW p \in lead + 1..size  PROVE  p \in 1..size
      BY <1>0, <1>1, <1>2
    <3>. QED  BY <1>4, <1>6, <3>1 DEF Matches
  <2>2. lead \in Nat /\ lead = size - (Len(list) + Len(other) - size)
                    /\ lead = size - (Len(other) + Len(list) - size)
    BY <1>0, <1>1, <1>2
  <2>. HIDE DEF lead, common, size, match
  <2>3. ASSUME NEW i \in 1..size, b(i) = Wildcard  PROVE  ~Misaligned(a(i), other)
    BY <1>1, <2>1, <2>2, <2>3, NoOtherPosition
  <2>4. ASSUME NEW i \in 1..size, a(i) = Wildcard  PROVE  ~Misaligned(b(i), list)
    BY <1>1, <2>1, <2>2, <2>4, NoOtherPosition
  <2>5. ASSUME NEW i \in 1..size
        PROVE  /\ Matches(a(i), b(i))
               /\ a(i) = Wildcard \/ b(i) = Wildcard
                    => ~Misaligned(a(i), other) /\ ~Misaligned(b(i), list)
    <3>1. CASE a(i) = Wildcard \/ b(i) = Wildcard
      BY <2>3, <2>4, <3>1 DEF Matches, Misaligned
    <3>2. CASE a(i) # Wildcard /\ b(i) # Wildcard
      <4>1. i \in lead + 1..size
        BY <1>0, <1>1, <2>2, <3>2 DEF Padded
      <4>. QED  BY <2>1, <3>2, <4>1
    <3>. QED  BY <3>1, <3>2
  <2>. QED  BY <2>5 DEF UnifiesFromRight, size
<1>. QED  BY <1>3, <1>5, <1>6

-----------------------------------------------------------------------------
\* The lists of names of the model.
LEMMA NameListsFacts ==
    /\ \A list : list \in NameLists <=>
          list \in Seq(Dimname) /\ Len(list) <= MaxDims /\ Distinct(list)
    /\ \A n \in 0..MaxDims : \A list :
          list \in ListsOf[n] <=> list \in Seq(Dimname) /\ Len(list) = n /\ Distinct(list)
<1>1. \A list : list \in BoundedSeq(Dimname, MaxDims) <=> list \in Seq(Dimname) /\ Len(list) <= MaxDims
  BY BoundsAssumption, BoundedSequence
<1>2. \A list : list \in NameLists <=>
         list \in Seq(Dimname) /\ Len(list) <= MaxDims /\ Distinct(list)
  BY <1>1 DEF NameLists
<1>3. ASSUME NEW n \in 0..MaxDims, NEW list
      PROVE  list \in ListsOf[n] <=> list \in Seq(Dimname) /\ Len(list) = n /\ Distinct(list)
  <2>1. list \in ListsOf[n] <=> list \in NameLists /\ Len(list) = n
    BY DEF ListsOf
  <2>2. n \in Nat /\ n <= MaxDims
    BY BoundsAssumption
  <2>. QED  BY <1>2, <2>1, <2>2
<1>. QED  BY <1>2, <1>3

\* What two lists unify to, as a list.
LEMMA UnifiedFacts ==
    ASSUME NEW list \in Seq(Dimname), NEW other \in Seq(Dimname)
    PROVE  LET size == Longer(Len(list), Len(other))
               unified == UnifyFromRight(list, other)
           IN  /\ unified \in Seq(Dimname) /\ Len(unified) = size /\ DOMAIN unified = 1..size
               /\ \A i \in 1..size : unified[i] = Unify(Padded(list, size, i), Padded(other, size, i))
<1>. DEFINE size == Longer(Len(list), Len(other))
            unified == UnifyFromRight(list, other)
<1>1. size \in Nat /\ Len(list) <= size /\ Len(other) <= size
  BY LongerIsLonger
<1>2. unified = [i \in 1..size |-> Unify(Padded(list, size, i), Padded(other, size, i))]
  BY DEF UnifyFromRight
<1>. HIDE DEF size, unified
<1>3. ASSUME NEW i \in 1..size
      PROVE  Unify(Padded(list, size, i), Padded(other, size, i)) \in Dimname
  BY <1>1, PaddedName DEF Unify
<1>4. unified \in [1..size -> Dimname]
  BY <1>2, <1>3
<1>5. unified \in Seq(Dimname) /\ Len(unified) = size /\ DOMAIN unified = 1..size
  BY <1>1, <1>4
<1>6. \A i \in 1..size : unified[i] = Unify(Padded(list, size, i), Padded(other, size, i))
  BY <1>2
<1>. QED  BY <1>5, <1>6 DEF size, unified

\* A list of the full length is not padded.
LEMMA FullLength ==
    ASSUME NEW list \in Seq(Dimname), NEW i \in 1..Len(list)
    PROVE  Padded(list, Len(list), i) = list[i]
BY DEF Padded

\* A refinement of a refinement is one.
LEMMA RefinesTransitive ==
    ASSUME NEW fine \in Seq(Dimname), NEW mid \in Seq(Dimname), NEW list \in Seq(Dimname),
           Len(mid) = Len(fine), Refines(fine, mid), Refines(mid, list)
    PROVE  Refines(fine, list)
<1>1. SUFFICES ASSUME NEW i \in DOMAIN fine
               PROVE  Padded(list, Len(fine), i) \in {fine[i], Wildcard}
  BY DEF Refines
<1>2. DOMAIN fine = 1..Len(fine) /\ DOMAIN mid = DOMAIN fine
  OBVIOUS
<1>3. Padded(mid, Len(mid), i) = mid[i]
  BY <1>2, FullLength
<1>4. Padded(mid, Len(fine), i) \in {fine[i], Wildcard}
  BY DEF Refines
<1>5. Padded(list, Len(mid), i) \in {mid[i], Wildcard}
  BY <1>2 DEF Refines
<1>. QED  BY <1>3, <1>4, <1>5

\* Two lists with a common refinement in which no name occurs twice unify.
LEMMA CommonUnifies ==
    ASSUME NEW list \in Seq(Dimname), NEW other \in Seq(Dimname), NEW fine \in Seq(Dimname),
           Len(fine) = Longer(Len(list), Len(other)), Distinct(fine),
           Refines(fine, list), Refines(fine, other)
    PROVE  /\ UnifiesFromRight(list, other)
           /\ Refines(fine, UnifyFromRight(list, other))
<1>. DEFINE size == Longer(Len(list), Len(other))
            a(k) == Padded(list, size, k)
            b(k) == Padded(other, size, k)
            unified == UnifyFromRight(list, other)
<1>1. /\ size \in Nat /\ Len(list) <= size /\ Len(other) <= size /\ DOMAIN fine = 1..size
  BY LongerIsLonger
<1>2. ASSUME NEW i \in 1..size
      PROVE  a(i) \in {fine[i], Wildcard} /\ b(i) \in {fine[i], Wildcard}
  BY <1>1 DEF Refines
<1>. HIDE DEF size
<1>3. ASSUME NEW s \in Seq(Dimname), NEW t \in Seq(Dimname), Len(s) <= size, Len(t) <= size,
             \A k \in 1..size : Padded(s, size, k) \in {fine[k], Wildcard},
             \A k \in 1..size : Padded(t, size, k) \in {fine[k], Wildcard},
             NEW i \in 1..size, Padded(t, size, i) = Wildcard
      PROVE  ~Misaligned(Padded(s, size, i), t)
  <2>1. SUFFICES ASSUME Padded(s, size, i) # Wildcard, NEW k \in DOMAIN t, t[k] = Padded(s, size, i)
                 PROVE  FALSE
    BY DEF Misaligned, HasName
  <2>. DEFINE p == k + (size - Len(t))
  <2>2. p \in 1..size /\ p > size - Len(t) /\ p - (size - Len(t)) = k
    BY <1>1, <1>3
  <2>3. Padded(t, size, p) = t[k]
    BY <2>2 DEF Padded
  <2>. HIDE DEF p
  <2>4. fine[p] = t[k] /\ fine[i] = t[k] /\ t[k] # Wildcard
    BY <1>3, <2>1, <2>2, <2>3
  <2>5. p = i
    BY <1>1, <2>2, <2>4 DEF Distinct
  <2>. QED  BY <1>3, <2>1, <2>3, <2>5
<1>4. ASSUME NEW i \in 1..size
      PROVE  /\ Matches(a(i), b(i))
             /\ a(i) = Wildcard \/ b(i) = Wildcard => ~Misaligned(a(i), other) /\ ~Misaligned(b(i), list)
  <2>1. Matches(a(i), b(i))
    BY <1>2 DEF Matches
  <2>2. b(i) = Wildcard => ~Misaligned(a(i), other)
    BY <1>1, <1>2, <1>3
  <2>3. a(i) = Wildcard => ~Misaligned(b(i), list)
    BY <1>1, <1>2, <1>3
  <2>. QED  BY <2>1, <2>2, <2>3 DEF Misaligned
<1>5. UnifiesFromRight(list, other)
  BY <1>4 DEF UnifiesFromRight, size
<1>6. /\ unified \in Seq(Dimname) /\ Len(unified) = size
      /\ \A i \in 1..size : unified[i] = Unify(a(i), b(i))
  BY UnifiedFacts DEF size
<1>. HIDE DEF unified
<1>7. ASSUME NEW i \in DOMAIN fine  PROVE  Padded(unified, Len(fine), i) \in {fine[i], Wildcard}
  <2>1. i \in 1..size /\ Len(fine) = Len(unified)
    BY <1>1, <1>6 DEF size
  <2>2. Padded(unified, Len(fine), i) = unified[i]
    BY <1>6, <2>1, FullLength
  <2>. QED  BY <1>2, <1>6, <2>1, <2>2 DEF Unify
<1>8. Refines(fine, unified)
  BY <1>7 DEF Refines
<1>. QED  BY <1>5, <1>8 DEF unified

\* What lists unify to is a refinement of both.
LEMMA UnifiedRefines ==
    ASSUME NEW list \in Seq(Dimname), NEW other \in Seq(Dimname), UnifiesFromRight(list, other)
    PROVE  /\ Refines(UnifyFromRight(list, other), list)
           /\ Refines(UnifyFromRight(list, other), other)
<1>. DEFINE size == Longer(Len(list), Len(other))
            a(k) == Padded(list, size, k)
            b(k) == Padded(other, size, k)
            unified == UnifyFromRight(list, other)
<1>1. /\ Len(unified) = size /\ DOMAIN unified = 1..size
      /\ \A i \in 1..size : unified[i] = Unify(a(i), b(i))
  BY UnifiedFacts
<1>2. \A i \in 1..size : Matches(a(i), b(i))
  BY DEF UnifiesFromRight
<1>. HIDE DEF size
<1>3. \A i \in 1..size : a(i) \in {unified[i], Wildcard} /\ b(i) \in {unified[i], Wildcard}
  BY <1>1, <1>2 DEF Matches, Unify
<1>. QED  BY <1>1, <1>3 DEF Refines

\* unify_from_right, TensorNames and common refinements agree on which lists
\* match, and on what they unify to.
THEOREM UnifiedIsLeast ==
    ASSUME NEW list \in NameLists, NEW other \in NameLists
    PROVE  LET common == CommonRefinements(list, other)
               unified == UnifyFromRight(list, other)
           IN  /\ UnifiesFromRight(list, other) <=> common # {}
               /\ UnifiesFromRight(list, other) =>
                     unified \in common /\ \A fine \in common : Refines(fine, unified)
<1>. DEFINE size == Longer(Len(list), Len(other))
            common == CommonRefinements(list, other)
            unified == UnifyFromRight(list, other)
<1>1. /\ list \in Seq(Dimname) /\ Len(list) <= MaxDims /\ Distinct(list)
      /\ other \in Seq(Dimname) /\ Len(other) <= MaxDims /\ Distinct(other)
  BY NameListsFacts
<1>2. size \in 0..MaxDims
  <2>1. Len(list) \in Nat /\ Len(other) \in Nat
    BY <1>1
  <2>2. size \in {Len(list), Len(other)}
    BY <2>1, LongerIsLonger
  <2>. QED  BY <1>1, <2>1, <2>2, BoundsAssumption
<1>3. \A fine : fine \in common <=>
          /\ fine \in Seq(Dimname) /\ Len(fine) = size /\ Distinct(fine)
          /\ Refines(fine, list) /\ Refines(fine, other)
  BY <1>2, NameListsFacts DEF CommonRefinements
<1>4. ASSUME NEW fine \in common
      PROVE  UnifiesFromRight(list, other) /\ Refines(fine, unified)
  BY <1>1, <1>3, <1>4, CommonUnifies
<1>5. ASSUME UnifiesFromRight(list, other)  PROVE  unified \in common
  <2>1. unified \in Seq(Dimname) /\ Len(unified) = size
    BY <1>1, UnifiedFacts
  <2>2. Distinct(unified)
    BY <1>1, <1>5, UnifiedIsDistinct
  <2>3. Refines(unified, list) /\ Refines(unified, other)
    BY <1>1, <1>5, UnifiedRefines
  <2>. QED  BY <1>3, <2>1, <2>2, <2>3
<1>. HIDE DEF common, unified
<1>6. /\ UnifiesFromRight(list, other) <=> common # {}
      /\ UnifiesFromRight(list, other) =>
            unified \in common /\ \A fine \in common : Refines(fine, unified)
  BY <1>4, <1>5
<1>. QED  BY <1>6 DEF common, unified

\* Unifying is associative, for lists of one length.
LEMMA UnifyIsAssociative ==
    ASSUME NEW a \in Seq(Dimname), NEW b \in Seq(Dimname), NEW c \in Seq(Dimname),
           Len(b) = Len(a), Len(c) = Len(a)
    PROVE  UnifyFromRight(UnifyFromRight(a, b), c) = UnifyFromRight(a, UnifyFromRight(b, c))
<1>. DEFINE n == Len(a)
            ab == UnifyFromRight(a, b)
            bc == UnifyFromRight(b, c)
<1>1. n \in Nat /\ Longer(n, n) = n
  BY DEF Longer
<1>2. ASSUME NEW s \in Seq(Dimname), NEW t \in Seq(Dimname), Len(s) = n, Len(t) = n
      PROVE  /\ UnifyFromRight(s, t) \in Seq(Dimname) /\ Len(UnifyFromRight(s, t)) = n
             /\ UnifyFromRight(s, t) = [i \in 1..n |-> Unify(s[i], t[i])]
  <2>1. UnifyFromRight(s, t) \in Seq(Dimname) /\ Len(UnifyFromRight(s, t)) = n
    BY <1>1, <1>2, UnifiedFacts
  <2>2. UnifyFromRight(s, t) = [i \in 1..n |-> Unify(Padded(s, n, i), Padded(t, n, i))]
    BY <1>1, <1>2 DEF UnifyFromRight
  <2>3. \A i \in 1..n : Padded(s, n, i) = s[i] /\ Padded(t, n, i) = t[i]
    BY <1>2, FullLength
  <2>. QED  BY <2>1, <2>2, <2>3
<1>. HIDE DEF n
<1>3. Len(a) = n /\ Len(b) = n /\ Len(c) = n
  BY DEF n
<1>4. /\ ab \in Seq(Dimname) /\ Len(ab) = n /\ ab = [i \in 1..n |-> Unify(a[i], b[i])]
      /\ bc \in Seq(Dimname) /\ Len(bc) = n /\ bc = [i \in 1..n |-> Unify(b[i], c[i])]
  BY <1>2, <1>3
<1>. HIDE DEF ab, bc
<1>5. /\ UnifyFromRight(ab, c) = [i \in 1..n |-> Unify(ab[i], c[i])]
      /\ UnifyFromRight(a, bc) = [i \in 1..n |-> Unify(a[i], bc[i])]
  <2>1. ab \in Seq(Dimname) /\ Len(ab) = n /\ bc \in Seq(Dimname) /\ Len(bc) = n
    BY <1>4
  <2>. QED  BY <1>2, <1>3, <2>1
<1>6. \A i \in 1..n : Unify(ab[i], c[i]) = Unify(a[i], bc[i])
  BY <1>4 DEF Unify
<1>. QED  BY <1>5, <1>6 DEF ab, bc

\* Which of three lists of one length are unified first makes no difference to
\* whether they match.
LEMMA MatchingIsAssociative ==
    ASSUME NEW a \in NameLists, NEW b \in NameLists, NEW c \in NameLists,
           Len(b) = Len(a), Len(c) = Len(a)
    PROVE  UnifiesFromRight(a, b) /\ UnifiesFromRight(UnifyFromRight(a, b), c)
              <=> UnifiesFromRight(b, c) /\ UnifiesFromRight(a, UnifyFromRight(b, c))
<1>. DEFINE n == Len(a)
<1>1. n \in Nat /\ Longer(n, n) = n /\ n <= MaxDims /\ Len(a) = n
  BY NameListsFacts DEF Longer
<1>. HIDE DEF n
<1>. DEFINE Of(list) == list \in Seq(Dimname) /\ Len(list) = n /\ Distinct(list)
<1>2. Of(a) /\ Of(b) /\ Of(c)
  BY <1>1, NameListsFacts
<1>3. ASSUME NEW s, NEW t, Of(s), Of(t), UnifiesFromRight(s, t)
      PROVE  /\ Of(UnifyFromRight(s, t))
             /\ Refines(UnifyFromRight(s, t), s) /\ Refines(UnifyFromRight(s, t), t)
  BY <1>1, <1>3, UnifiedFacts, UnifiedIsDistinct, UnifiedRefines
<1>4. ASSUME NEW s, NEW t, NEW fine, Of(s), Of(t), Of(fine), Refines(fine, s), Refines(fine, t)
      PROVE  UnifiesFromRight(s, t) /\ Refines(fine, UnifyFromRight(s, t))
  BY <1>1, <1>4, CommonUnifies
<1>5. ASSUME NEW s, NEW t, NEW fine, Of(s), Of(t), Of(fine), UnifiesFromRight(s, t),
             Refines(fine, UnifyFromRight(s, t))
      PROVE  Refines(fine, s) /\ Refines(fine, t)
  BY <1>3, <1>5, RefinesTransitive
<1>. HIDE DEF Of
<1>6. ASSUME UnifiesFromRight(a, b), UnifiesFromRight(UnifyFromRight(a, b), c)
      PROVE  UnifiesFromRight(b, c) /\ UnifiesFromRight(a, UnifyFromRight(b, c))
  <2>. DEFINE ab == UnifyFromRight(a, b)
              fine == UnifyFromRight(ab, c)
  <2>1. Of(ab)
    BY <1>2, <1>3, <1>6
  <2>2. Of(fine) /\ Refines(fine, ab) /\ Refines(fine, c)
    BY <1>2, <1>3, <1>6, <2>1
  <2>3. Refines(fine, a) /\ Refines(fine, b)
    BY <1>2, <1>5, <1>6, <2>2
  <2>. HIDE DEF fine
  <2>4. UnifiesFromRight(b, c) /\ Refines(fine, UnifyFromRight(b, c))
    BY <1>2, <1>4, <2>2, <2>3
  <2>5. Of(UnifyFromRight(b, c))
    BY <1>2, <1>3, <2>4
  <2>. QED  BY <1>2, <1>4, <2>2, <2>3, <2>4, <2>5
<1>7. ASSUME UnifiesFromRight(b, c), UnifiesFromRight(a, UnifyFromRight(b, c))
      PROVE  UnifiesFromRight(a, b) /\ UnifiesFromRight(UnifyFromRight(a, b), c)
  <2>. DEFINE bc == UnifyFromRight(b, c)
              fine == UnifyFromRight(a, bc)
  <2>1. Of(bc)
    BY <1>2, <1>3, <1>7
  <2>2. Of(fine) /\ Refines(fine, a) /\ Refines(fine, bc)
    BY <1>2, <1>3, <1>7, <2>1
  <2>3. Refines(fine, b) /\ Refines(fine, c)
    BY <1>2, <1>5, <1>7, <2>2
  <2>. HIDE DEF fine
  <2>4. UnifiesFromRight(a, b) /\ Refines(fine, UnifyFromRight(a, b))
    BY <1>2, <1>4, <2>2, <2>3
  <2>5. Of(UnifyFromRight(a, b))
    BY <1>2, <1>3, <2>4
  <2>. QED  BY <1>2, <1>4, <2>2, <2>3, <2>4, <2>5
<1>. QED  BY <1>6, <1>7

\* Two lists of names match as TensorNames.h explains it.
THEOREM MatchingIsRefinement ==
    names \in NameLists => UnifyIsLeastRefinement
<1>. SUFFICES ASSUME names \in NameLists  PROVE  UnifyIsLeastRefinement
  OBVIOUS
<1>1. names \in Seq(Dimname) /\ Len(names) \in 0..MaxDims /\ Distinct(names)
  BY NameListsFacts, BoundsAssumption
<1>2. ASSUME NEW other \in NameLists
      PROVE  LET common == CommonRefinements(names, other)
                 unified == UnifyFromRight(names, other)
             IN  /\ UnifiesFromRight(names, other) <=> common # {}
                 /\ UnifiesFromRight(names, other) =>
                       unified \in common /\ \A fine \in common : Refines(fine, unified)
                 /\ UnifiesFromRight(names, other) <=>
                       UnifiesInplace(TensorNames(names, Len(names)), TensorNames(other, Len(other)))
  <2>1. other \in Seq(Dimname) /\ Distinct(other)
    BY NameListsFacts
  <2>. QED  BY <1>1, <2>1, UnifiedIsLeast, ImplementationsAgree
<1>3. ASSUME NEW b \in ListsOf[Len(names)], NEW c \in ListsOf[Len(names)]
      PROVE  LET ab == UnifyFromRight(names, b)
                 bc == UnifyFromRight(b, c)
             IN  /\ UnifiesFromRight(names, b) /\ UnifiesFromRight(ab, c)
                    <=> UnifiesFromRight(b, c) /\ UnifiesFromRight(names, bc)
                 /\ UnifyFromRight(ab, c) = UnifyFromRight(names, bc)
  <2>1. /\ b \in NameLists /\ b \in Seq(Dimname) /\ Len(b) = Len(names)
        /\ c \in NameLists /\ c \in Seq(Dimname) /\ Len(c) = Len(names)
    BY <1>1, NameListsFacts
  <2>. QED  BY <1>1, <2>1, MatchingIsAssociative, UnifyIsAssociative
<1>. QED  BY <1>2, <1>3 DEF UnifyIsLeastRefinement

-----------------------------------------------------------------------------
\* What is left to place after one more name of "aligned".
Placed(aligned, k, d) ==
    IF d > 0 /\ names[d] = aligned[Len(aligned) - k + 1] THEN d - 1 ELSE d

\* A function is what its recursive definition in ToPlace says if it satisfies
\* the equation.
LEMMA ToPlaceEquation ==
    ASSUME NEW aligned, NEW f,
           f = [k \in 0..Len(aligned) |-> IF k = 0 THEN Len(names) ELSE Placed(aligned, k, f[k - 1])]
    PROVE  ToPlace(aligned) = [k \in 0..Len(aligned) |->
              IF k = 0 THEN Len(names) ELSE Placed(aligned, k, ToPlace(aligned)[k - 1])]
BY Zenon DEF ToPlace, Placed

\* How the walk through both lists goes: at each name one dimension is placed,
\* or none.
LEMMA ToPlaceFacts ==
    ASSUME names \in Seq(Dimname), NEW aligned \in Seq(Dimname)
    PROVE  /\ ToPlace(aligned) \in [0..Len(aligned) -> 0..Len(names)]
           /\ ToPlace(aligned)[0] = Len(names)
           /\ \A k \in 1..Len(aligned) :
                 ToPlace(aligned)[k] = Placed(aligned, k, ToPlace(aligned)[k - 1])
<1>. DEFINE n == Len(names)
            m == Len(aligned)
            left == ToPlace(aligned)
            Walk(f, k) == /\ f \in [0..k -> 0..n] /\ f[0] = n
                          /\ \A i \in 1..k : f[i] = Placed(aligned, i, f[i - 1])
            S == {k \in Nat : \E f : Walk(f, k)}
<1>0. n \in Nat /\ m \in Nat
  OBVIOUS
<1>. HIDE DEF n, m
<1>1. 0 \in S
  <2>. DEFINE f == [k \in 0..0 |-> n]
  <2>1. Walk(f, 0)
    BY <1>0
  <2>. QED  BY <2>1
<1>2. ASSUME NEW k \in Nat, k \in S  PROVE  k + 1 \in S
  <2>1. PICK f : Walk(f, k)
    BY <1>2
  <2>. DEFINE g == [i \in 0..k + 1 |-> IF i = k + 1 THEN Placed(aligned, k + 1, f[k]) ELSE f[i]]
  <2>2. f[k] \in 0..n /\ Placed(aligned, k + 1, f[k]) \in 0..n
    BY <1>0, <2>1 DEF Placed
  <2>. HIDE DEF Placed
  <2>3. g \in [0..k + 1 -> 0..n] /\ g[0] = n
    BY <2>1, <2>2
  <2>4. ASSUME NEW i \in 1..k + 1  PROVE  g[i] = Placed(aligned, i, g[i - 1])
    <3>1. i - 1 \in 0..k /\ g[i - 1] = f[i - 1]
      OBVIOUS
    <3>2. CASE i = k + 1
      <4>1. g[i] = Placed(aligned, k + 1, f[k]) /\ i - 1 = k
        BY <3>2
      <4>. QED  BY <3>1, <3>2, <4>1
    <3>3. CASE i # k + 1
      <4>1. i \in 1..k /\ g[i] = f[i]
        BY <3>3
      <4>. QED  BY <2>1, <3>1, <4>1
    <3>. QED  BY <3>2, <3>3
  <2>. HIDE DEF g
  <2>5. \E h : Walk(h, k + 1)
    BY <2>3, <2>4
  <2>. HIDE DEF Walk
  <2>. QED  BY <2>5
<1>3. m \in S
  <2>. HIDE DEF S
  <2>. QED  BY <1>0, <1>1, <1>2, SetInduction
<1>4. PICK f : Walk(f, m)
  BY <1>3
<1>5. f = [k \in 0..m |-> IF k = 0 THEN n ELSE Placed(aligned, k, f[k - 1])]
  BY <1>0, <1>4
<1>6. left = [k \in 0..m |-> IF k = 0 THEN n ELSE Placed(aligned, k, left[k - 1])]
  BY <1>5, ToPlaceEquation DEF n, m
<1>. HIDE DEF left
<1>7. left[0] = n /\ \A k \in 1..m : left[k] = Placed(aligned, k, left[k - 1])
  BY <1>0, <1>6
<1>. DEFINE T == {k \in Nat : k <= m => left[k] \in 0..n}
<1>8. m \in Nat /\ Nat \subseteq T
  <2>1. 0 \in T
    BY <1>0, <1>7
  <2>2. ASSUME NEW k \in Nat, k \in T  PROVE  k + 1 \in T
    <3>1. SUFFICES ASSUME k + 1 <= m  PROVE  left[k + 1] \in 0..n
      OBVIOUS
    <3>2. left[k] \in 0..n /\ k + 1 \in 1..m /\ k + 1 - 1 = k
      BY <1>0, <2>2, <3>1
    <3>3. left[k + 1] = Placed(aligned, k + 1, left[k])
      BY <1>7, <3>2
    <3>. QED  BY <1>0, <3>2, <3>3 DEF Placed
  <2>. HIDE DEF T
  <2>. QED  BY <1>0, <2>1, <2>2, SetInduction
<1>9. left \in [0..m -> 0..n]
  <2>1. ASSUME NEW k \in 0..m  PROVE  left[k] \in 0..n
    BY <1>0, <1>8
  <2>. QED  BY <1>6, <2>1
<1>. QED  BY <1>7, <1>9 DEF left, n, m

\* The walk only goes towards the front, a dimension at a time.
LEMMA ToPlaceDescends ==
    ASSUME names \in Seq(Dimname), NEW aligned \in Seq(Dimname)
    PROVE  LET left == ToPlace(aligned)
           IN  /\ \A j, k \in 0..Len(aligned) : j <= k => left[k] <= left[j]
               /\ \A k \in 0..Len(aligned) : left[k] >= Len(names) - k
<1>. DEFINE n == Len(names)
            m == Len(aligned)
            left == ToPlace(aligned)
            Below(k) == \A j \in 0..m : j <= k => left[k] <= left[j]
            S == {k \in Nat : k <= m => left[k] >= n - k /\ Below(k)}
<1>0. /\ n \in Nat /\ m \in Nat /\ left[0] = n
      /\ \A j \in 0..m : left[j] \in 0..n
      /\ \A j \in 1..m : left[j] = Placed(aligned, j, left[j - 1])
  <2>1. left \in [0..m -> 0..n] /\ left[0] = n
    BY ToPlaceFacts
  <2>2. \A j \in 1..m : left[j] = Placed(aligned, j, left[j - 1])
    BY ToPlaceFacts
  <2>3. n \in Nat /\ m \in Nat
    OBVIOUS
  <2>. HIDE DEF left, n, m
  <2>4. \A j \in 0..m : left[j] \in 0..n
    BY <2>1, <2>3
  <2>. QED  BY <2>1, <2>2, <2>3, <2>4
<1>1. /\ n \in Nat /\ m \in Nat /\ left[0] = n
      /\ \A k \in 0..m : left[k] \in 0..n
      /\ \A k \in 1..m : left[k] \in {left[k - 1], left[k - 1] - 1}
  <2>1. \A k, d : Placed(aligned, k, d) \in {d, d - 1}
    BY DEF Placed
  <2>. HIDE DEF left
  <2>. QED  BY <1>0, <2>1
<1>. HIDE DEF n, m, left
<1>2. 0 \in S
  BY <1>1
<1>3. ASSUME NEW k \in Nat, k \in S  PROVE  k + 1 \in S
  <2>1. SUFFICES ASSUME k + 1 <= m  PROVE  left[k + 1] >= n - (k + 1) /\ Below(k + 1)
    OBVIOUS
  <2>2. /\ k \in 0..m /\ k + 1 \in 1..m /\ k + 1 - 1 = k
        /\ left[k] >= n - k /\ Below(k)
    BY <1>1, <1>3, <2>1
  <2>3. left[k] \in 0..n /\ left[k + 1] \in {left[k], left[k] - 1}
    BY <1>1, <2>2
  <2>4. ASSUME NEW j \in 0..m, j <= k + 1  PROVE  left[k + 1] <= left[j]
    <3>1. CASE j = k + 1
      BY <1>1, <3>1
    <3>2. CASE j <= k
      <4>1. left[k] <= left[j] /\ left[j] \in 0..n
        BY <1>1, <2>2, <3>2
      <4>. QED  BY <1>1, <2>3, <4>1
    <3>. QED  BY <2>4, <3>1, <3>2
  <2>. QED  BY <1>1, <2>2, <2>3, <2>4
<1>4. Nat \subseteq S
  <2>. HIDE DEF S
  <2>. QED  BY <1>2, <1>3, SetInduction
<1>5. /\ \A j, k \in 0..m : j <= k => left[k] <= left[j]
      /\ \A k \in 0..m : left[k] >= n - k
  BY <1>1, <1>4
<1>. QED  BY <1>5 DEF n, m, left

\* The dimension that the walk places at a position has the name of that
\* position.
LEMMA PlacedAtFacts ==
    ASSUME names \in Seq(Dimname), NEW aligned \in Seq(Dimname), NEW i \in 1..Len(aligned),
           PlacedAt(aligned, i) # 0
    PROVE  LET d == PlacedAt(aligned, i)
               k == Len(aligned) - i
           IN  /\ d \in 1..Len(names) /\ k \in 0..Len(aligned) /\ k + 1 \in 1..Len(aligned)
               /\ ToPlace(aligned)[k] = d /\ ToPlace(aligned)[k + 1] = d - 1
               /\ names[d] = aligned[i]
<1>. DEFINE n == Len(names)
            m == Len(aligned)
            left == ToPlace(aligned)
            k == m - i
<1>1. /\ n \in Nat /\ m \in Nat
      /\ \A j \in 0..m : left[j] \in 0..n
      /\ \A j \in 1..m : left[j] = Placed(aligned, j, left[j - 1])
  BY ToPlaceFacts
<1>2. PlacedAt(aligned, i) = IF left[m - i + 1] = left[m - i] THEN 0 ELSE left[m - i]
  BY DEF PlacedAt
<1>. HIDE DEF left
<1>3. k \in 0..m /\ k + 1 \in 1..m /\ (k + 1) - 1 = k /\ m - (k + 1) + 1 = i
  BY <1>1
<1>4. left[k + 1] = Placed(aligned, k + 1, left[k]) /\ left[k] \in 0..n
  BY <1>1, <1>3
<1>5. left[k + 1] # left[k] /\ PlacedAt(aligned, i) = left[k]
  BY <1>2
<1>6. left[k] > 0 /\ names[left[k]] = aligned[m - (k + 1) + 1] /\ left[k + 1] = left[k] - 1
  BY <1>4, <1>5 DEF Placed
<1>7. names[left[k]] = aligned[i] /\ left[k] \in 1..n
  BY <1>1, <1>3, <1>4, <1>6
<1>. QED  BY <1>3, <1>5, <1>6, <1>7 DEF left

\* A walk that comes to the front has placed every dimension.
LEMMA WalkPlacesAll ==
    ASSUME names \in Seq(Dimname), NEW aligned \in Seq(Dimname),
           ToPlace(aligned)[Len(aligned)] = 0, NEW d \in 1..Len(names)
    PROVE  \E i \in 1..Len(aligned) : PlacedAt(aligned, i) = d
<1>. DEFINE n == Len(names)
            m == Len(aligned)
            left == ToPlace(aligned)
            T == {k \in 0..m : left[k] < d}
<1>1. /\ n \in Nat /\ m \in Nat /\ left[0] = n /\ left[m] = 0
      /\ \A j \in 0..m : left[j] \in 0..n
      /\ \A j \in 1..m : left[j] = Placed(aligned, j, left[j - 1])
  BY ToPlaceFacts
<1>. HIDE DEF left
<1>2. m \in T /\ T \in SUBSET Nat
  BY <1>1
<1>3. PICK k \in T : \A j \in T : k <= j
  <2>. HIDE DEF T
  <2>. QED  BY <1>2, NatMin
<1>4. k \in 1..m /\ k - 1 \in 0..m /\ k - 1 \notin T
  BY <1>1, <1>3
<1>5. left[k - 1] \in 0..n /\ left[k - 1] >= d /\ left[k] < d /\ left[k] \in 0..n
  BY <1>1, <1>3, <1>4
<1>6. left[k - 1] = d /\ left[k] # d
  <2>1. left[k] = Placed(aligned, k, left[k - 1])
    BY <1>1, <1>4
  <2>. QED  BY <1>5, <2>1 DEF Placed
<1>. DEFINE i == m - k + 1
<1>7. i \in 1..m /\ m - i + 1 = k /\ m - i = k - 1
  BY <1>1, <1>4
<1>8. PlacedAt(aligned, i) = IF left[m - i + 1] = left[m - i] THEN 0 ELSE left[m - i]
  BY DEF PlacedAt, left
<1>. HIDE DEF i
<1>9. PlacedAt(aligned, i) = d
  BY <1>6, <1>7, <1>8
<1>. QED  BY <1>7, <1>9

\* No placing of the dimensions in their order is ahead of the walk, which
\* takes the last position that fits.
LEMMA WalkIsLatest ==
    ASSUME names \in Seq(Dimname), NEW aligned \in Seq(Dimname),
           NEW at \in [1..Len(names) -> 1..Len(aligned)],
           \A d, e \in 1..Len(names) : d < e => at[d] < at[e],
           \A d \in 1..Len(names) : aligned[at[d]] = names[d]
    PROVE  \A k \in 0..Len(aligned), d \in 1..Len(names) :
              at[d] > Len(aligned) - k => ToPlace(aligned)[k] < d
<1>. DEFINE n == Len(names)
            m == Len(aligned)
            left == ToPlace(aligned)
            Behind(k) == \A d \in 1..n : at[d] > m - k => left[k] < d
            S == {k \in Nat : k <= m => Behind(k)}
<1>1. /\ n \in Nat /\ m \in Nat /\ left[0] = n
      /\ \A j \in 0..m : left[j] \in 0..n
      /\ \A j \in 1..m : left[j] = Placed(aligned, j, left[j - 1])
  BY ToPlaceFacts
<1>2. /\ at \in [1..n -> 1..m]
      /\ \A d, e \in 1..n : d < e => at[d] < at[e]
      /\ \A d \in 1..n : aligned[at[d]] = names[d]
  OBVIOUS
<1>3. \A k, d : Placed(aligned, k, d) =
          IF d > 0 /\ names[d] = aligned[m - k + 1] THEN d - 1 ELSE d
  BY DEF Placed
<1>. HIDE DEF n, m, left
<1>4. 0 \in S
  BY <1>1, <1>2
<1>5. ASSUME NEW k \in Nat, k \in S  PROVE  k + 1 \in S
  <2>1. SUFFICES ASSUME k + 1 <= m, NEW d \in 1..n, at[d] > m - (k + 1)  PROVE  left[k + 1] < d
    OBVIOUS
  <2>2. k \in 0..m /\ k + 1 \in 1..m /\ k + 1 - 1 = k /\ Behind(k)
    BY <1>1, <1>5, <2>1
  <2>3. /\ left[k] \in 0..n
        /\ left[k + 1] = IF left[k] > 0 /\ names[left[k]] = aligned[m - (k + 1) + 1]
                         THEN left[k] - 1 ELSE left[k]
    BY <1>1, <1>3, <2>2
  <2>4. at[d] \in 1..m /\ d \in Int
    BY <1>1, <1>2
  <2>5. CASE at[d] > m - k
    BY <2>2, <2>3, <2>4, <2>5
  <2>6. CASE at[d] = m - k
    <3>1. left[k] <= d
      <4>1. SUFFICES ASSUME left[k] > d  PROVE  FALSE
        BY <2>3, <2>4
      <4>2. PICK e \in 1..n : e = left[k] /\ e > d
        BY <1>1, <2>3, <2>4, <4>1
      <4>3. at[e] > at[d] /\ at[e] \in 1..m
        BY <1>2, <4>2
      <4>4. at[e] > m - k
        BY <1>1, <2>2, <2>4, <2>6, <4>3
      <4>5. left[k] < e
        BY <2>2, <4>4
      <4>. QED  BY <2>3, <4>2, <4>5
    <3>2. m - (k + 1) + 1 = at[d] /\ aligned[at[d]] = names[d]
      BY <1>1, <1>2, <2>6
    <3>. QED  BY <2>3, <2>4, <3>1, <3>2
  <2>. QED  BY <1>1, <2>1, <2>4, <2>5, <2>6
<1>6. Nat \subseteq S
  <2>. HIDE DEF S
  <2>. QED  BY <1>4, <1>5, SetInduction
<1>7. \A k \in 0..m, d \in 1..n : at[d] > m - k => left[k] < d
  BY <1>1, <1>6
<1>. QED  BY <1>7 DEF n, m, left

\* Tensors can be aligned as the "[Alignment rules]" say.
THEOREM AligningFollowsRules ==
    names \in NameLists => AlignsByTheRules
<1>. SUFFICES ASSUME names \in NameLists, NEW aligned \in NameLists
              PROVE  Aligns(aligned) <=>
                       \E at \in [NamedDims -> DOMAIN aligned] :
                          /\ \A d, e \in NamedDims : d < e => at[d] < at[e]
                          /\ \A d \in NamedDims :
                                /\ aligned[at[d]] = names[d]
                                /\ names[d] = Wildcard => Len(names) - d = Len(aligned) - at[d]
  BY DEF AlignsByTheRules
<1>. DEFINE n == Len(names)
            m == Len(aligned)
            left == ToPlace(aligned)
            Rules(at) == /\ \A d, e \in 1..n : d < e => at[d] < at[e]
                         /\ \A d \in 1..n :
                               /\ aligned[at[d]] = names[d]
                               /\ names[d] = Wildcard => n - d = m - at[d]
<1>1. /\ names \in Seq(Dimname) /\ NamedDims = 1..n /\ n \in Nat
      /\ aligned \in Seq(Dimname) /\ DOMAIN aligned = 1..m /\ m \in Nat
  BY NameListsFacts DEF NamedDims
<1>2. /\ \A j, k \in 0..m : j <= k => left[k] <= left[j]
      /\ \A k \in 0..m : left[k] >= n - k
  BY <1>1, ToPlaceDescends
<1>3. /\ left[0] = n
      /\ \A j \in 0..m : left[j] \in 0..n
  BY <1>1, ToPlaceFacts
<1>4. ASSUME NEW i \in 1..m, PlacedAt(aligned, i) # 0
      PROVE  /\ PlacedAt(aligned, i) \in 1..n /\ m - i \in 0..m
             /\ left[m - i] = PlacedAt(aligned, i) /\ names[PlacedAt(aligned, i)] = aligned[i]
  BY <1>1, <1>4, PlacedAtFacts
<1>5. Aligns(aligned) <=>
        /\ left[m] = 0
        /\ \A i \in 1..m : PlacedAt(aligned, i) # 0 /\ names[PlacedAt(aligned, i)] = Wildcard
              => n - PlacedAt(aligned, i) = m - i
  BY <1>1 DEF Aligns
<1>6. ASSUME Aligns(aligned)  PROVE  \E at \in [1..n -> 1..m] : Rules(at)
  <2>1. \A d \in 1..n : \E i \in 1..m : PlacedAt(aligned, i) = d
    BY <1>1, <1>5, <1>6, WalkPlacesAll
  <2>. DEFINE at == [d \in 1..n |-> CHOOSE i \in 1..m : PlacedAt(aligned, i) = d]
  <2>2. \A d \in 1..n : at[d] \in 1..m /\ PlacedAt(aligned, at[d]) = d
    BY <2>1
  <2>3. at \in [1..n -> 1..m]
    BY <2>2
  <2>. HIDE DEF at, left
  <2>4. ASSUME NEW d \in 1..n
        PROVE  /\ aligned[at[d]] = names[d] /\ m - at[d] \in 0..m /\ left[m - at[d]] = d
               /\ names[d] = Wildcard => n - d = m - at[d]
    <3>1. at[d] \in 1..m /\ PlacedAt(aligned, at[d]) = d /\ d # 0
      BY <1>1, <2>2
    <3>. QED  BY <1>4, <1>5, <1>6, <3>1
  <2>5. ASSUME NEW d \in 1..n, NEW e \in 1..n, d < e  PROVE  at[d] < at[e]
    <3>1. SUFFICES ASSUME at[e] <= at[d]  PROVE  FALSE
      BY <2>2
    <3>2. m - at[d] <= m - at[e] /\ m - at[d] \in 0..m /\ m - at[e] \in 0..m
      BY <1>1, <2>2, <2>4, <3>1
    <3>3. left[m - at[e]] <= left[m - at[d]]
      BY <1>2, <3>2
    <3>. QED  BY <1>1, <2>4, <2>5, <3>3
  <2>6. Rules(at)
    BY <2>4, <2>5
  <2>. HIDE DEF Rules
  <2>. QED  BY <2>3, <2>6
<1>7. ASSUME NEW at \in [1..n -> 1..m], Rules(at)  PROVE  Aligns(aligned)
  <2>1. \A k \in 0..m, d \in 1..n : at[d] > m - k => left[k] < d
    BY <1>1, <1>7, WalkIsLatest
  <2>. HIDE DEF left
  <2>2. left[m] = 0
    <3>1. left[m] \in 0..n
      BY <1>1, <1>3
    <3>2. SUFFICES ASSUME n > 0  PROVE  FALSE \/ left[m] = 0
      BY <1>1, <3>1
    <3>3. at[1] > m - m /\ 1 \in 1..n /\ m \in 0..m
      BY <1>1, <3>2
    <3>4. left[m] < 1
      BY <2>1, <3>3
    <3>. QED  BY <3>1, <3>4
  <2>3. ASSUME NEW i \in 1..m, PlacedAt(aligned, i) # 0, names[PlacedAt(aligned, i)] = Wildcard
        PROVE  n - PlacedAt(aligned, i) = m - i
    <3>1. PICK d \in 1..n : d = PlacedAt(aligned, i)
      BY <1>4, <2>3
    <3>2. m - i \in 0..m /\ left[m - i] = d /\ names[d] = Wildcard
      BY <1>4, <2>3, <3>1
    <3>3. n - d = m - at[d] /\ at[d] \in 1..m
      BY <1>7, <3>2
    <3>4. left[m - i] >= n - (m - i)
      BY <1>2, <3>2
    <3>5. ~(at[d] > m - (m - i))
      BY <1>1, <2>1, <3>2
    <3>. QED  BY <1>1, <3>1, <3>2, <3>3, <3>4, <3>5
  <2>. QED  BY <1>5, <2>2, <2>3
<1>8. Aligns(aligned) <=> \E at \in [1..n -> 1..m] : Rules(at)
  <2>. HIDE DEF Rules
  <2>. QED  BY <1>6, <1>7
<1>. QED  BY <1>1, <1>8

-----------------------------------------------------------------------------
\* The inductive invariant of chains of named operations: the tensor has as
\* many names as sizes, and none of them twice.
NamesInv ==
    /\ tensor = [sizes |-> tensor.sizes, strides |-> tensor.strides, offset |-> tensor.offset]
    /\ tensor.sizes \in [NamedDims -> {tensor.sizes[d] : d \in NamedDims}]
    /\ names \in Seq(Dimname) /\ Len(names) <= MaxDims
    /\ Distinct(names) \/ last = "mixed"

LEMMA InvFacts ==
    ASSUME NamesInv
    PROVE  /\ Len(names) \in 0..MaxDims /\ Len(names) \in Nat /\ MaxDims \in Nat
           /\ NamedDims = 1..Len(names) /\ DOMAIN names = 1..Len(names)
           /\ names \in Seq(Dimname) /\ \A d \in 1..Len(names) : names[d] \in Dimname
           /\ DOMAIN tensor.sizes = 1..Len(names) /\ Len(tensor.sizes) = Len(names)
           /\ tensor.sizes \in Seq({tensor.sizes[d] : d \in NamedDims})
<1>1. /\ Len(names) \in 0..MaxDims /\ Len(names) \in Nat /\ MaxDims \in Nat
      /\ NamedDims = 1..Len(names) /\ names \in Seq(Dimname)
      /\ \A d \in 1..Len(names) : names[d] \in Dimname
  BY BoundsAssumption DEF NamesInv, NamedDims
<1>. DEFINE S == {tensor.sizes[d] : d \in NamedDims}
            n == Len(names)
<1>2. tensor.sizes \in [1..n -> S] /\ n \in Nat
  BY <1>1 DEF NamesInv
<1>. HIDE DEF S, n
<1>3. tensor.sizes \in Seq(S) /\ Len(tensor.sizes) = n /\ DOMAIN tensor.sizes = 1..n
  BY <1>2
<1>. QED  BY <1>1, <1>3 DEF S, n, NamedDims

LEMMA IntervalSize ==
    ASSUME NEW n \in Nat
    PROVE  IsFiniteSet(1..n) /\ Cardinality(1..n) = n
<1>1. 1 \in Int /\ n \in Int /\ (1 > n => n = 0)
  OBVIOUS
<1>. QED  BY <1>1, FS_Interval

\* What a step has to give to keep the invariant.
LEMMA InvStep ==
    ASSUME NEW k \in 0..MaxDims, NEW sizes, NEW strides, NEW offset, NEW S, NEW list,
           tensor' = [sizes |-> sizes, strides |-> strides, offset |-> offset],
           sizes \in [1..k -> S], names' = list, list \in Seq(Dimname), Len(list) = k,
           Distinct(list) \/ last' = "mixed"
    PROVE  NamesInv'
<1>1. /\ tensor'.sizes = sizes /\ tensor'.strides = strides /\ tensor'.offset = offset
  OBVIOUS
<1>2. k \in Nat /\ k <= MaxDims
  BY BoundsAssumption
<1>3. DOMAIN list = 1..k
  BY <1>2
<1>4. sizes \in [1..k -> {sizes[d] : d \in 1..k}]
  OBVIOUS
<1>. QED  BY <1>1, <1>2, <1>3, <1>4 DEF NamesInv, NamedDims

\* What the operations on sizes and strides leave of the tensor.
LEMMA StridedResult ==
    ASSUME NEW sizes, NEW strides, NEW offset, AsStrided(sizes, strides, offset), tensor' # Refused
    PROVE  /\ tensor' = [sizes |-> sizes, strides |-> strides, offset |-> offset]
           /\ Len(sizes) <= MaxDims
BY DEF AsStrided

LEMMA ViewResult ==
    ASSUME NamesInv, NEW sizes, View(sizes)
    PROVE  \E strides, offset : tensor' = [sizes |-> sizes, strides |-> strides, offset |-> offset]
<1>. DEFINE strides == ComputeStride(tensor.sizes, tensor.strides, sizes)
<1>1. tensor = [sizes |-> tensor.sizes, strides |-> tensor.strides, offset |-> tensor.offset]
  BY DEF NamesInv
<1>2. tensor' = [tensor EXCEPT !.sizes = sizes, !.strides = strides]
  BY DEF View
<1>. HIDE DEF strides
<1>3. tensor' = [sizes |-> sizes, strides |-> strides, offset |-> tensor.offset]
  BY <1>1, <1>2
<1>. QED  BY <1>3

LEMMA FreshResult ==
    ASSUME NEW sizes, Fresh(sizes)
    PROVE  /\ \E strides, offset : tensor' = [sizes |-> sizes, strides |-> strides, offset |-> offset]
           /\ Len(sizes) <= MaxDims
BY DEF Fresh

\* The names that remain when some dimensions are left out.
LEMMA NamesExceptFacts ==
    ASSUME NamesInv, NEW excluded
    PROVE  LET k == Cardinality(NamedDims \ excluded)
           IN  /\ k \in 0..MaxDims /\ DOMAIN Ascending(NamedDims \ excluded) = 1..k
               /\ Ascending(NamedDims \ excluded) \in Seq(NamedDims)
               /\ NamesExcept(excluded) \in Seq(Dimname) /\ Len(NamesExcept(excluded)) = k
               /\ Distinct(names) => Distinct(NamesExcept(excluded))
<1>. DEFINE dims == NamedDims \ excluded
            k == Cardinality(dims)
            kept == Ascending(dims)
            list == NamesExcept(excluded)
<1>1. dims \in SUBSET (1..Len(names)) /\ Len(names) \in Nat /\ Len(names) <= MaxDims /\ MaxDims \in Nat
  BY InvFacts
<1>2. k \in Nat /\ k <= Len(names) /\ Ordered(kept, dims)
  <2>. HIDE DEF dims
  <2>. QED  BY <1>1, AscendingFacts
<1>3. list = [i \in DOMAIN kept |-> names[kept[i]]]
  BY DEF NamesExcept
<1>. HIDE DEF k, kept, list
<1>4. /\ kept \in [1..k -> dims] /\ \A i, j \in 1..k : i < j => kept[i] < kept[j]
  BY <1>2 DEF Ordered, k
<1>5. k \in 0..MaxDims /\ DOMAIN kept = 1..k /\ kept \in [1..k -> NamedDims]
  BY <1>1, <1>2, <1>4
<1>6. /\ kept \in Seq(NamedDims) /\ list \in [1..k -> Dimname]
      /\ \A i \in 1..k : kept[i] \in NamedDims /\ list[i] = names[kept[i]]
  <2>1. \A d \in NamedDims : names[d] \in Dimname
    BY InvFacts
  <2>. HIDE DEF dims
  <2>. QED  BY <1>2, <1>3, <1>5, <2>1
<1>7. list \in Seq(Dimname) /\ Len(list) = k /\ DOMAIN list = 1..k
  BY <1>2, <1>6
<1>8. ASSUME Distinct(names), NEW i \in 1..k, NEW j \in 1..k, list[i] = list[j], list[i] # Wildcard
      PROVE  i = j
  <2>1. kept[i] = kept[j]
    BY <1>6, <1>8 DEF Distinct, NamedDims
  <2>2. kept[i] \in 1..Len(names) /\ kept[j] \in 1..Len(names)
    BY <1>1, <1>4
  <2>3. ~(i < j) /\ ~(j < i)
    BY <1>4, <2>1, <2>2
  <2>. QED  BY <1>2, <2>3
<1>9. Distinct(names) => Distinct(list)
  BY <1>7, <1>8 DEF Distinct
<1>. QED  BY <1>5, <1>6, <1>7, <1>9 DEF k, kept, list

\* Names of new leading dimensions.
LEMMA PaddedList ==
    ASSUME NEW list \in Seq(Dimname), NEW k \in Nat, Len(list) <= k
    PROVE  /\ [i \in 1..k |-> Padded(list, k, i)] \in Seq(Dimname)
           /\ Len([i \in 1..k |-> Padded(list, k, i)]) = k
           /\ Distinct(list) => Distinct([i \in 1..k |-> Padded(list, k, i)])
<1>. DEFINE new == [i \in 1..k |-> Padded(list, k, i)]
<1>1. \A i \in 1..k : Padded(list, k, i) \in Dimname
  BY PaddedName
<1>2. new \in [1..k -> Dimname] /\ \A i \in 1..k : new[i] = Padded(list, k, i)
  BY <1>1
<1>. HIDE DEF new
<1>3. new \in Seq(Dimname) /\ Len(new) = k /\ DOMAIN new = 1..k
  BY <1>2
<1>4. ASSUME Distinct(list), NEW i \in 1..k, NEW j \in 1..k, new[i] = new[j], new[i] # Wildcard
      PROVE  i = j
  BY <1>2, <1>4, OnePosition
<1>5. Distinct(list) => Distinct(new)
  BY <1>3, <1>4 DEF Distinct
<1>. QED  BY <1>3, <1>5 DEF new

LEMMA LargerSeq ==
    ASSUME NEW S, NEW T, S \subseteq T, NEW s \in Seq(S)
    PROVE  s \in Seq(T)
<1>1. s \in [1..Len(s) -> T] /\ Len(s) \in Nat
  OBVIOUS
<1>. QED  BY <1>1

LEMMA ConcatFacts ==
    ASSUME NEW S, NEW s \in Seq(S), NEW t \in Seq(S)
    PROVE  s \o t \in Seq(S) /\ Len(s \o t) = Len(s) + Len(t)
OBVIOUS

LEMMA ShortLists ==
    ASSUME NEW S, NEW x \in S
    PROVE  /\ <<>> \in Seq(S) /\ Len(<<>>) = 0
           /\ <<x>> \in Seq(S) /\ Len(<<x>>) = 1
OBVIOUS

\* A list of n elements with some of them replaced by another list.
Spliced(s, n, first, final, x) == SubSeq(s, 1, first - 1) \o x \o SubSeq(s, final + 1, n)

LEMMA ReplacedFacts ==
    ASSUME NEW S, NEW s \in Seq(S), NEW x \in Seq(S),
           NEW n \in Nat, Len(s) = n, NEW first \in 1..n + 1, NEW final \in first - 1..n,
           NEW k, k = first - 1 + Len(x) + (n - final)
    PROVE  Spliced(s, n, first, final, x) \in [1..k -> S]
<1>. DEFINE a == SubSeq(s, 1, first - 1)
            b == SubSeq(s, final + 1, n)
<1>1. a \in Seq(S) /\ Len(a) = first - 1
  OBVIOUS
<1>2. b \in Seq(S) /\ Len(b) = n - final
  OBVIOUS
<1>. HIDE DEF a, b
<1>. DEFINE c == a \o x
<1>3. c \in Seq(S) /\ Len(c) = Len(a) + Len(x)
  BY <1>1, ConcatFacts
<1>. HIDE DEF c
<1>4. c \o b \in Seq(S) /\ Len(c \o b) = Len(c) + Len(b)
  BY <1>2, <1>3, ConcatFacts
<1>5. Len(c) + Len(b) = k
  BY <1>1, <1>2, <1>3
<1>6. Spliced(s, n, first, final, x) = c \o b
  BY DEF Spliced, a, b, c
<1>. HIDE DEF c
<1>. DEFINE e == c \o b
<1>7. e \in Seq(S) /\ Len(e) = k
  BY <1>4, <1>5
<1>. HIDE DEF e
<1>8. e \in [1..k -> S]
  BY <1>7
<1>. QED  BY <1>6, <1>8 DEF e

-----------------------------------------------------------------------------
\* The operations keep the invariant, one lemma for each.
LEMMA RenameKeeps ==
    ASSUME NamesInv, NEW list \in ListsOf[Len(names)], Rename(list) \/ RefineNames(list)
    PROVE  NamesInv'
<1>1. list \in Seq(Dimname) /\ Len(list) = Len(names) /\ Distinct(list)
  BY InvFacts, NameListsFacts
<1>2. tensor' = tensor /\ names' = list
  BY DEF Rename, RefineNames
<1>3. DOMAIN list = DOMAIN names
  BY <1>1, InvFacts
<1>. QED  BY <1>1, <1>2, <1>3 DEF NamesInv, NamedDims

LEMMA TransposeKeeps ==
    ASSUME NamesInv, NEW d1 \in NamedDims, NEW d2 \in NamedDims, NamedTranspose(d1, d2),
           last # "mixed", tensor' # Refused
    PROVE  NamesInv'
<1>. DEFINE n == Len(names)
            S == {tensor.sizes[d] : d \in NamedDims}
            list == [names EXCEPT ![d1] = names[d2], ![d2] = names[d1]]
            sizes == [tensor.sizes EXCEPT ![d1] = tensor.sizes[d2], ![d2] = tensor.sizes[d1]]
            strides == [tensor.strides EXCEPT ![d1] = tensor.strides[d2], ![d2] = tensor.strides[d1]]
<1>1. /\ n \in 0..MaxDims /\ n \in Nat /\ d1 \in 1..n /\ d2 \in 1..n
      /\ names \in [1..n -> Dimname] /\ tensor.sizes \in [1..n -> S] /\ Distinct(names)
  <2>1. /\ n \in 0..MaxDims /\ n \in Nat /\ NamedDims = 1..n /\ names \in Seq(Dimname)
    BY InvFacts
  <2>2. names \in [1..n -> Dimname]
    BY <2>1
  <2>. QED  BY <2>1, <2>2 DEF NamesInv
<1>2. names' = list /\ AsStrided(sizes, strides, tensor.offset)
  BY DEF NamedTranspose, Transpose
<1>. HIDE DEF n, S, strides
<1>3. sizes \in [1..n -> S] /\ list \in [1..n -> Dimname]
  BY <1>1
<1>4. list \in Seq(Dimname) /\ Len(list) = n
  BY <1>1, <1>3
<1>5. Distinct(list)
  BY <1>1 DEF Distinct
<1>. HIDE DEF sizes, list
<1>6. tensor' = [sizes |-> sizes, strides |-> strides, offset |-> tensor.offset]
  BY <1>2, StridedResult
<1>. QED  BY <1>1, <1>2, <1>3, <1>4, <1>5, <1>6, InvStep

LEMMA SelectKeeps ==
    ASSUME NamesInv, NEW d \in NamedDims, NamedSelect(d), last # "mixed", tensor' # Refused
    PROVE  NamesInv'
<1>. DEFINE n == Len(names)
            S == {tensor.sizes[e] : e \in NamedDims}
            sizes == RemoveAt(tensor.sizes, d)
            strides == RemoveAt(tensor.strides, d)
            offset == tensor.offset + (0 % Size(d)) * Stride(d)
<1>1. /\ n \in Nat /\ d \in 1..n /\ NamedDims = 1..n /\ Distinct(names)
      /\ tensor.sizes \in Seq(S) /\ Len(tensor.sizes) = n
  BY InvFacts DEF NamesInv
<1>2. names' = NamesExcept({d}) /\ AsStrided(sizes, strides, offset)
  BY DEF NamedSelect, Select
<1>3. sizes \in Seq(S) /\ Len(sizes) = n - 1
  <2>. HIDE DEF n, S
  <2>. QED  BY <1>1, RemoveAtFacts
<1>4. Cardinality(NamedDims \ {d}) = n - 1
  <2>1. IsFiniteSet(1..n) /\ Cardinality(1..n) = n
    BY <1>1, IntervalSize
  <2>. HIDE DEF n
  <2>2. IsFiniteSet(NamedDims) /\ Cardinality(NamedDims) = n
    BY <1>1, <2>1, Zenon
  <2>. QED  BY <2>2, FS_RemoveElement, Zenon
<1>. HIDE DEF n, S, sizes, strides, offset
<1>5. /\ n - 1 \in 0..MaxDims
      /\ NamesExcept({d}) \in Seq(Dimname) /\ Len(NamesExcept({d})) = n - 1
      /\ Distinct(NamesExcept({d}))
  BY <1>1, <1>4, NamesExceptFacts
<1>6. sizes \in [1..n - 1 -> S]
  BY <1>3
<1>7. tensor' = [sizes |-> sizes, strides |-> strides, offset |-> offset]
  BY <1>2, StridedResult
<1>. QED  BY <1>2, <1>5, <1>6, <1>7, InvStep

LEMMA SliceKeeps ==
    ASSUME NamesInv, NEW d \in NamedDims, NamedSlice(d), last # "mixed", tensor' # Refused
    PROVE  NamesInv'
<1>1. PICK size, strides, offset :
        /\ names' = names
        /\ AsStrided([tensor.sizes EXCEPT ![d] = size], strides, offset)
  BY DEF NamedSlice, Slice
<1>. DEFINE n == Len(names)
            sizes == [tensor.sizes EXCEPT ![d] = size]
            S == {tensor.sizes[e] : e \in NamedDims} \cup {size}
<1>2. /\ n \in 0..MaxDims /\ Distinct(names) /\ names \in Seq(Dimname)
      /\ sizes \in [1..n -> S]
  BY InvFacts DEF NamesInv
<1>. HIDE DEF sizes, S
<1>3. tensor' = [sizes |-> sizes, strides |-> strides, offset |-> offset]
  BY <1>1, StridedResult DEF sizes
<1>. QED  BY <1>1, <1>2, <1>3, InvStep

\* squeeze of some dimensions, when the names of those that go are left out.
LEMMA SqueezeKeeps ==
    ASSUME NamesInv, NEW dims, NEW gone, Squeeze(dims), last # "mixed", tensor' # Refused,
           {d \in Dims : d \notin dims \/ Size(d) # 1} = NamedDims \ gone,
           names' = NamesExcept(gone) \/ (gone \cap NamedDims = {} /\ names' = Unnamed(Len(names)))
    PROVE  NamesInv'
<1>. DEFINE k == Cardinality(NamedDims \ gone)
            kept == Ascending(NamedDims \ gone)
            S == {tensor.sizes[d] : d \in NamedDims}
            sizes == [i \in DOMAIN kept |-> tensor.sizes[kept[i]]]
            strides == [i \in DOMAIN kept |-> tensor.strides[kept[i]]]
<1>1. AsStrided(sizes, strides, tensor.offset)
  BY DEF Squeeze, Size, Stride
<1>2. /\ k \in 0..MaxDims /\ DOMAIN kept = 1..k /\ kept \in Seq(NamedDims)
      /\ NamesExcept(gone) \in Seq(Dimname) /\ Len(NamesExcept(gone)) = k
      /\ Distinct(NamesExcept(gone))
  BY NamesExceptFacts DEF NamesInv
<1>. HIDE DEF k, kept
<1>3. sizes \in [1..k -> S]
  BY <1>2
<1>. HIDE DEF S, sizes, strides
<1>4. tensor' = [sizes |-> sizes, strides |-> strides, offset |-> tensor.offset]
  BY <1>1, StridedResult
<1>5. CASE names' = NamesExcept(gone)
  BY <1>2, <1>3, <1>4, <1>5, InvStep
<1>6. CASE gone \cap NamedDims = {} /\ names' = Unnamed(Len(names))
  <2>. DEFINE n == Len(names)
              list == Unnamed(n)
  <2>1. n \in Nat /\ NamedDims = 1..n
    BY InvFacts
  <2>2. k = n
    <3>1. NamedDims \ gone = 1..n
      BY <1>6, <2>1
    <3>. HIDE DEF n
    <3>. QED  BY <2>1, <3>1, IntervalSize DEF k
  <2>3. /\ list \in [1..n -> Dimname] /\ \A i \in 1..n : list[i] = Wildcard
    BY DEF Unnamed, Dimname
  <2>4. list \in Seq(Dimname) /\ Len(list) = n /\ DOMAIN list = 1..n
    BY <2>1, <2>3
  <2>5. Distinct(list)
    BY <2>3, <2>4 DEF Distinct
  <2>. HIDE DEF n, list
  <2>6. names' = list
    BY <1>6 DEF n, list
  <2>. QED  BY <1>2, <1>3, <1>4, <2>2, <2>4, <2>5, <2>6, InvStep
<1>. QED  BY <1>5, <1>6

LEMMA NamedSqueezeKeeps ==
    ASSUME NamesInv, NamedSqueezeAll \/ \E d \in NamedDims : NamedSqueeze(d),
           last # "mixed", tensor' # Refused
    PROVE  NamesInv'
<1>1. DOMAIN tensor.sizes = NamedDims
  BY InvFacts
<1>2. CASE NamedSqueezeAll
  <2>. DEFINE gone == {d \in NamedDims : tensor.sizes[d] = 1}
  <2>1. {d \in Dims : d \notin NamedDims \/ Size(d) # 1} = NamedDims \ gone
    BY <1>1 DEF Dims, Size
  <2>2. Squeeze(NamedDims) /\ names' = NamesExcept(gone)
    BY <1>2 DEF NamedSqueezeAll
  <2>. HIDE DEF gone
  <2>. QED  BY <2>1, <2>2, SqueezeKeeps
<1>3. ASSUME NEW d \in NamedDims, NamedSqueeze(d), tensor.sizes[d] = 1  PROVE  NamesInv'
  <2>1. {e \in Dims : e \notin {d} \/ Size(e) # 1} = NamedDims \ {d}
    BY <1>1, <1>3 DEF Dims, Size
  <2>2. Squeeze({d}) /\ names' = NamesExcept({d})
    BY <1>3 DEF NamedSqueeze
  <2>. QED  BY <2>1, <2>2, SqueezeKeeps
<1>4. ASSUME NEW d \in NamedDims, NamedSqueeze(d), tensor.sizes[d] # 1  PROVE  NamesInv'
  <2>1. {e \in Dims : e \notin {d} \/ Size(e) # 1} = NamedDims \ {}
    BY <1>1, <1>4 DEF Dims, Size
  <2>2. Squeeze({d}) /\ names' = Unnamed(Len(names))
    BY <1>4 DEF NamedSqueeze
  <2>. QED  BY <2>1, <2>2, SqueezeKeeps
<1>. QED  BY <1>2, <1>3, <1>4

LEMMA ExpandKeeps ==
    ASSUME NamesInv, NEW size \in BoundedSeq({-1, 2}, MaxDims), NamedExpand(size),
           last # "mixed", tensor' # Refused
    PROVE  NamesInv'
<1>. DEFINE k == Len(size)
            list == [i \in DOMAIN size |-> Padded(names, k, i)]
            sizes == InferExpandGeometry(tensor, size).sizes
            strides == InferExpandGeometry(tensor, size).strides
            S == {sizes[i] : i \in DOMAIN size}
<1>1. size \in Seq({-1, 2}) /\ k <= MaxDims
  BY BoundsAssumption, BoundedSequence
<1>2. k \in 0..MaxDims /\ k \in Nat /\ DOMAIN size = 1..k
  BY <1>1, BoundsAssumption
<1>3. /\ names' = list /\ CanExpand(tensor, size)
      /\ AsStrided(sizes, strides, tensor.offset)
  BY DEF NamedExpand, Expand
<1>4. Len(names) <= k
  <2>1. k - Len(tensor.sizes) >= 0
    BY <1>3 DEF CanExpand
  <2>. HIDE DEF k
  <2>. QED  BY <1>2, <2>1, InvFacts
<1>5. sizes \in [1..k -> S]
  <2>1. DOMAIN sizes = DOMAIN size /\ sizes = [i \in DOMAIN sizes |-> sizes[i]]
    BY DEF InferExpandGeometry
  <2>. HIDE DEF sizes
  <2>. QED  BY <1>2, <2>1
<1>. HIDE DEF sizes, strides, S, k
<1>6. list \in Seq(Dimname) /\ Len(list) = k /\ Distinct(list)
  BY <1>2, <1>4, InvFacts, PaddedList DEF NamesInv
<1>. HIDE DEF list
<1>7. tensor' = [sizes |-> sizes, strides |-> strides, offset |-> tensor.offset]
  BY <1>3, StridedResult
<1>. QED  BY <1>2, <1>3, <1>5, <1>6, <1>7, InvStep

LEMMA FlattenKeeps ==
    ASSUME NamesInv, NEW first \in NamedDims, NEW final \in NamedDims, NEW out \in Dimname,
           Flatten(first, final, out)
    PROVE  NamesInv'
<1>. DEFINE n == Len(names)
            x == Numel(SubSeq(tensor.sizes, first, final))
            sizes == Spliced(tensor.sizes, n, first, final, <<x>>)
            list == Spliced(names, n, first, final, <<out>>)
            S == {tensor.sizes[d] : d \in NamedDims} \cup {x}
            k == first - 1 + 1 + (n - final)
<1>1. /\ first < final /\ names' = list /\ Distinct(list)
      /\ View(sizes) \/ Fresh(sizes)
  <2>1. Len(tensor.sizes) = n
    BY InvFacts
  <2>. QED  BY <2>1 DEF Flatten, Spliced
<1>2. /\ n \in 0..MaxDims /\ NamedDims = 1..n /\ names \in Seq(Dimname)
      /\ Len(tensor.sizes) = n /\ tensor.sizes \in Seq({tensor.sizes[d] : d \in NamedDims})
      /\ n \in Nat /\ MaxDims \in Nat
  BY InvFacts
<1>3. tensor.sizes \in Seq(S) /\ <<x>> \in Seq(S) /\ Len(<<x>>) = 1
  <2>. HIDE DEF n, x
  <2>1. {tensor.sizes[d] : d \in NamedDims} \subseteq S /\ x \in S
    OBVIOUS
  <2>2. tensor.sizes \in Seq(S)
    BY <1>2, <2>1, LargerSeq
  <2>. HIDE DEF S
  <2>. QED  BY <2>1, <2>2
<1>4. first \in 1..n + 1 /\ final \in first - 1..n /\ k \in 0..MaxDims
  BY <1>1, <1>2
<1>5. /\ <<out>> \in Seq(Dimname) /\ Len(names) = n
      /\ k = first - 1 + Len(<<out>>) + (n - final)
      /\ k = first - 1 + Len(<<x>>) + (n - final)
  OBVIOUS
<1>. HIDE DEF x, S, n, k
<1>6. list \in [1..k -> Dimname]
  BY <1>2, <1>4, <1>5, ReplacedFacts
<1>7. sizes \in [1..k -> S]
  BY <1>2, <1>3, <1>4, <1>5, ReplacedFacts
<1>. HIDE DEF sizes, list
<1>8. list \in Seq(Dimname) /\ Len(list) = k
  BY <1>2, <1>4, <1>6
<1>9. PICK strides, offset : tensor' = [sizes |-> sizes, strides |-> strides, offset |-> offset]
  BY <1>1, ViewResult, FreshResult
<1>. QED  BY <1>1, <1>4, <1>7, <1>8, <1>9, InvStep

LEMMA UnflattenKeeps ==
    ASSUME NamesInv, NEW d \in NamedDims, NEW factors \in Factors(tensor.sizes[d]),
           NEW list \in ListsOf[Len(factors)], Unflatten(d, factors, list)
    PROVE  NamesInv'
<1>. DEFINE n == Len(names)
            sizes == Spliced(tensor.sizes, n, d, d, factors)
            new == Spliced(names, n, d, d, list)
            S == {tensor.sizes[e] : e \in NamedDims} \cup (1..StorageSize)
            k == d - 1 + Len(factors) + (n - d)
<1>1. /\ Len(list) = Len(factors) /\ Len(tensor.sizes) + Len(factors) - 1 <= MaxDims
      /\ View(sizes) /\ names' = new /\ Distinct(new)
  <2>1. Len(tensor.sizes) = n
    BY InvFacts
  <2>. QED  BY <2>1 DEF Unflatten, Spliced
<1>2. /\ n \in 0..MaxDims /\ NamedDims = 1..n /\ names \in Seq(Dimname)
      /\ Len(tensor.sizes) = n /\ tensor.sizes \in Seq({tensor.sizes[e] : e \in NamedDims})
      /\ n \in Nat /\ MaxDims \in Nat
  BY InvFacts
<1>3. factors \in Seq(1..StorageSize) /\ Len(factors) <= MaxDims
  BY <1>2, BoundedSequence DEF Factors
<1>4. tensor.sizes \in Seq(S) /\ factors \in Seq(S)
  <2>. HIDE DEF n
  <2>1. {tensor.sizes[e] : e \in NamedDims} \subseteq S /\ 1..StorageSize \subseteq S
    OBVIOUS
  <2>. HIDE DEF S
  <2>. QED  BY <1>2, <1>3, <2>1, LargerSeq
<1>5. d \in 1..n + 1 /\ d \in d - 1..n /\ k \in 0..MaxDims /\ Len(factors) \in Nat
  BY <1>1, <1>2, <1>3
<1>6. list \in Seq(Dimname)
  <2>1. Len(factors) \in 0..MaxDims
    BY <1>2, <1>3, <1>5
  <2>. QED  BY <2>1, NameListsFacts
<1>7. /\ Len(names) = n
       /\ k = d - 1 + Len(factors) + (n - d) /\ k = d - 1 + Len(list) + (n - d)
  BY <1>1
<1>. HIDE DEF S, n, k
<1>8. new \in [1..k -> Dimname]
  BY <1>2, <1>5, <1>6, <1>7, ReplacedFacts
<1>9. sizes \in [1..k -> S]
  BY <1>2, <1>4, <1>5, <1>7, ReplacedFacts
<1>. HIDE DEF sizes, new
<1>10. new \in Seq(Dimname) /\ Len(new) = k
  BY <1>2, <1>5, <1>8
<1>11. PICK strides, offset : tensor' = [sizes |-> sizes, strides |-> strides, offset |-> offset]
  BY <1>1, ViewResult
<1>. QED  BY <1>1, <1>5, <1>9, <1>10, <1>11, InvStep

LEMMA AlignTensorsKeeps ==
    ASSUME NamesInv, NEW list \in NameLists, AlignTensors(list)
    PROVE  NamesInv'
<1>. DEFINE k == Len(list)
            sizes == AlignedSize(list)
            S == {sizes[i] : i \in DOMAIN list}
<1>1. /\ list \in Seq(Dimname) /\ k <= MaxDims /\ Distinct(list) /\ MaxDims \in Nat
  BY InvFacts, NameListsFacts
<1>2. k \in 0..MaxDims /\ DOMAIN list = 1..k
  BY <1>1
<1>3. View(sizes) /\ names' = list
  BY DEF AlignTensors
<1>4. sizes \in [1..k -> S]
  <2>1. sizes = [i \in 1..k |-> sizes[i]]
    BY <1>2 DEF AlignedSize
  <2>. HIDE DEF sizes
  <2>. QED  BY <1>2, <2>1
<1>. HIDE DEF sizes, S, k
<1>5. PICK strides, offset : tensor' = [sizes |-> sizes, strides |-> strides, offset |-> offset]
  BY <1>3, ViewResult
<1>6. Len(list) = k
  BY DEF k
<1>. QED  BY <1>1, <1>2, <1>3, <1>4, <1>5, <1>6, InvStep

\* A tensor rearranged to as many dimensions as it gets names.
LEMMA RearrangeKeeps ==
    ASSUME NEW k \in Nat, NEW S, NEW source \in [1..k -> S], Rearrange(source), tensor' # Refused,
           NEW list \in Seq(Dimname), Len(list) = k, names' = list, Distinct(list)
    PROVE  NamesInv'
<1>. DEFINE sizes == [i \in DOMAIN source |-> IF source[i] = 0 THEN 1 ELSE tensor.sizes[source[i]]]
            strides == [i \in DOMAIN source |-> IF source[i] = 0 THEN 0 ELSE tensor.strides[source[i]]]
            R == {sizes[i] : i \in 1..k}
<1>1. AsStrided(sizes, strides, tensor.offset)
  BY DEF Rearrange
<1>2. sizes \in [1..k -> R]
  OBVIOUS
<1>. HIDE DEF sizes, strides, R
<1>3. /\ tensor' = [sizes |-> sizes, strides |-> strides, offset |-> tensor.offset]
      /\ Len(sizes) <= MaxDims
  BY <1>1, StridedResult
<1>4. k \in 0..MaxDims
  <2>1. Len(sizes) = k
    BY <1>2
  <2>. QED  BY <1>3, <2>1, BoundsAssumption
<1>. QED  BY <1>2, <1>3, <1>4, InvStep

LEMMA AlignToKeeps ==
    ASSUME NEW list \in NameLists, AlignTo(list), tensor' # Refused
    PROVE  NamesInv'
<1>. DEFINE source == [i \in DOMAIN list |-> IF list[i] = Wildcard THEN 0 ELSE PositionOrNone(list[i])]
            S == {source[i] : i \in DOMAIN list}
<1>1. list \in Seq(Dimname) /\ Len(list) \in Nat /\ DOMAIN list = 1..Len(list)
  BY NameListsFacts
<1>2. Rearrange(source) /\ names' = list /\ Distinct(list)
  BY DEF AlignTo
<1>3. source \in [1..Len(list) -> S]
  BY <1>1
<1>. HIDE DEF source, S
<1>. QED  BY <1>1, <1>2, <1>3, RearrangeKeeps

LEMMA AlignToEllipsisKeeps ==
    ASSUME NamesInv, NEW order \in NameLists, NEW ellipsis \in 0..Len(order),
           AlignToEllipsis(order, ellipsis), tensor' # Refused
    PROVE  NamesInv'
<1>. DEFINE m == Len(order)
            mentioned == {PositionOrNone(order[i]) : i \in DOMAIN order}
            dims == NamedDims \ mentioned
            others == Ascending(dims)
            rest == NamesExcept(mentioned)
            c == Cardinality(dims)
            found == [i \in DOMAIN order |-> PositionOrNone(order[i])]
            source == Spliced(found, m, ellipsis + 1, ellipsis, others)
            list == Spliced(order, m, ellipsis + 1, ellipsis, rest)
            S == {found[i] : i \in DOMAIN order} \cup NamedDims
            k == (ellipsis + 1) - 1 + c + (m - ellipsis)
<1>1. order \in Seq(Dimname) /\ m \in Nat /\ DOMAIN order = 1..m
  BY NameListsFacts
<1>2. found \in [1..m -> S]
  BY <1>1
<1>. HIDE DEF found
<1>3. found \in Seq(S) /\ Len(found) = m
  BY <1>1, <1>2
<1>4. /\ Rearrange(source) /\ names' = list /\ Distinct(list)
  <2>1. rest = [i \in DOMAIN others |-> names[others[i]]]
    BY Zenon DEF NamesExcept
  <2>. HIDE DEF rest, others
  <2>2. /\ Rearrange(SubSeq(found, 1, ellipsis) \o others \o SubSeq(found, ellipsis + 1, Len(found)))
        /\ names' = SubSeq(order, 1, ellipsis) \o rest \o SubSeq(order, ellipsis + 1, Len(order))
        /\ Distinct(names')
    BY <2>1, Zenon DEF AlignToEllipsis, others, dims, mentioned, found
  <2>3. (ellipsis + 1) - 1 = ellipsis
    BY <1>1
  <2>. QED  BY <1>3, <2>2, <2>3 DEF Spliced
<1>5. /\ c \in Nat /\ others \in Seq(NamedDims) /\ rest \in Seq(Dimname)
      /\ Len(rest) = c /\ DOMAIN others = 1..c
  <2>. HIDE DEF mentioned
  <2>1. /\ c \in 0..MaxDims /\ DOMAIN others = 1..c /\ others \in Seq(NamedDims)
        /\ rest \in Seq(Dimname) /\ Len(rest) = c
    BY NamesExceptFacts, Zenon
  <2>. HIDE DEF dims, others, rest, c
  <2>2. MaxDims \in Nat
    BY InvFacts
  <2>3. c \in Nat
    BY <2>1, <2>2
  <2>. QED  BY <2>1, <2>3
<1>. HIDE DEF mentioned, dims, others, rest, c
<1>6. others \in Seq(S) /\ Len(others) = c
  <2>1. NamedDims \subseteq S
    OBVIOUS
  <2>. HIDE DEF S
  <2>. QED  BY <1>5, <2>1, LargerSeq
<1>7. /\ ellipsis + 1 \in 1..m + 1 /\ ellipsis \in (ellipsis + 1) - 1..m /\ k \in Nat
      /\ k = (ellipsis + 1) - 1 + Len(others) + (m - ellipsis)
      /\ k = (ellipsis + 1) - 1 + Len(rest) + (m - ellipsis)
      /\ Len(order) = m
  BY <1>1, <1>5, <1>6
<1>. HIDE DEF m, S, k
<1>8. source \in [1..k -> S]
  BY <1>1, <1>3, <1>6, <1>7, ReplacedFacts
<1>9. list \in [1..k -> Dimname]
  BY <1>1, <1>5, <1>7, ReplacedFacts
<1>. HIDE DEF source, list
<1>10. list \in Seq(Dimname) /\ Len(list) = k
  BY <1>7, <1>9
<1>. QED  BY <1>4, <1>7, <1>8, <1>10, RearrangeKeeps

-----------------------------------------------------------------------------
\* Operations whose result has elements of its own.
LEMMA ReduceKeeps ==
    ASSUME NamesInv, NEW dims \in SUBSET NamedDims, NEW keepdim \in BOOLEAN,
           Reduce(dims, keepdim), last # "mixed"
    PROVE  NamesInv'
<1>. DEFINE reduced == IF dims = {} THEN NamedDims ELSE dims
            kept == Ascending(NamedDims \ reduced)
            n == Len(names)
            k == Cardinality(NamedDims \ reduced)
            all == [d \in NamedDims |-> IF d \in reduced THEN 1 ELSE tensor.sizes[d]]
            some == [i \in DOMAIN kept |-> tensor.sizes[kept[i]]]
            left == IF dims = {} THEN <<>> ELSE NamesExcept(dims)
            A == {all[d] : d \in 1..n}
            B == {some[i] : i \in 1..k}
<1>1. \/ Fresh(all) /\ names' = names
      \/ Fresh(some) /\ names' = left
  BY Zenon DEF Reduce
<1>2. /\ n \in 0..MaxDims /\ NamedDims = 1..n /\ names \in Seq(Dimname) /\ Distinct(names)
  BY InvFacts DEF NamesInv
<1>3. /\ k \in 0..MaxDims /\ DOMAIN kept = 1..k
      /\ NamesExcept(reduced) \in Seq(Dimname) /\ Len(NamesExcept(reduced)) = k
      /\ Distinct(NamesExcept(reduced))
  <2>. HIDE DEF reduced
  <2>. QED  BY <1>2, NamesExceptFacts
<1>4. /\ all \in [1..n -> A] /\ some \in [1..k -> B]
  BY <1>2, <1>3
<1>5. left \in Seq(Dimname) /\ Len(left) = k /\ Distinct(left)
  <2>1. CASE dims = {}
    <3>1. k = 0
      BY <2>1, FS_EmptySet
    <3>2. left = <<>>
      BY <2>1
    <3>. HIDE DEF k, left
    <3>. QED  BY <3>1, <3>2 DEF Distinct
  <2>2. CASE dims # {}
    <3>1. left = NamesExcept(reduced)
      BY <2>2
    <3>. HIDE DEF k, left, reduced
    <3>. QED  BY <1>3, <3>1 DEF k
  <2>. QED  BY <2>1, <2>2
<1>. HIDE DEF all, some, left, A, B, k
<1>6. CASE Fresh(all) /\ names' = names
  <2>1. PICK strides, offset : tensor' = [sizes |-> all, strides |-> strides, offset |-> offset]
    BY <1>6, FreshResult
  <2>. QED  BY <1>2, <1>4, <1>6, <2>1, InvStep
<1>7. CASE Fresh(some) /\ names' = left
  <2>1. PICK strides, offset : tensor' = [sizes |-> some, strides |-> strides, offset |-> offset]
    BY <1>7, FreshResult
  <2>. QED  BY <1>3, <1>4, <1>5, <1>7, <2>1, InvStep
<1>. QED  BY <1>1, <1>6, <1>7

\* Operations that store what the names of two tensors unify to.
LEMMA UnifyingKeeps ==
    ASSUME NamesInv, NEW other \in NameLists, last # "mixed",
           Broadcast(other) \/ UpdateInPlace(other) \/ MaskedFill(other) \/ Cat(other)
    PROVE  NamesInv'
<1>. DEFINE n == Len(names)
            m == Len(other)
            size == Longer(n, m)
            list == UnifyFromRight(names, other)
            S == {tensor.sizes[d] : d \in NamedDims}
<1>1. /\ n \in 0..MaxDims /\ n \in Nat /\ NamedDims = 1..n /\ names \in Seq(Dimname)
      /\ MaxDims \in Nat /\ Distinct(names) /\ tensor.sizes \in [1..n -> S]
  BY InvFacts DEF NamesInv
<1>2. other \in Seq(Dimname) /\ Distinct(other) /\ m \in Nat /\ m <= MaxDims
  BY NameListsFacts
<1>3. names' = list /\ Distinct(list)
  <2>1. UnifiesFromRight(names, other) /\ names' = list
    BY DEF Broadcast, UpdateInPlace, MaskedFill, Cat
  <2>. QED  BY <1>1, <1>2, <2>1, UnifiedIsDistinct
<1>4. list \in Seq(Dimname) /\ Len(list) = size
  BY <1>1, <1>2, UnifiedFacts
<1>5. size \in 0..MaxDims /\ (m <= n => size = n)
  BY <1>1, <1>2 DEF Longer
<1>6. CASE Broadcast(other)
  <2>. DEFINE sizes == BroadcastSizes(size)
              R == {sizes[i] : i \in 1..size}
  <2>1. sizes \in [1..size -> R]
    BY DEF BroadcastSizes
  <2>. HIDE DEF sizes, R
  <2>2. PICK strides, offset : tensor' = [sizes |-> sizes, strides |-> strides, offset |-> offset]
    BY <1>6, FreshResult DEF Broadcast, sizes
  <2>. HIDE DEF list, size
  <2>. QED  BY <1>3, <1>4, <1>5, <2>1, <2>2, InvStep
<1>7. CASE UpdateInPlace(other) \/ MaskedFill(other) \/ Cat(other)
  <2>1. m <= n
    BY <1>1, <1>7 DEF UpdateInPlace, MaskedFill, Cat
  <2>2. Len(list) = n
    BY <1>4, <1>5, <2>1
  <2>3. PICK strides, offset :
          tensor' = [sizes |-> tensor.sizes, strides |-> strides, offset |-> offset]
    <3>1. CASE UpdateInPlace(other)
      BY <3>1 DEF UpdateInPlace, NamesInv
    <3>2. CASE MaskedFill(other) \/ Cat(other)
      BY <3>2, FreshResult DEF MaskedFill, Cat
    <3>. QED  BY <1>7, <3>1, <3>2
  <2>. HIDE DEF list, S
  <2>. QED  BY <1>1, <1>3, <1>4, <2>2, <2>3, InvStep
<1>. QED  BY <1>6, <1>7

-----------------------------------------------------------------------------
\* The batches of a list, which are its first names.
LEMMA BatchFacts ==
    ASSUME NEW list \in Seq(Dimname)
    PROVE  LET b == NumBatchDims(list)
               vec == ToDimnameVec(Batch(list))
           IN  /\ b \in Nat /\ b <= Len(list) /\ Len(Batch(list)) = b
               /\ vec \in Seq(Dimname) /\ Len(vec) = b
               /\ \A i \in 1..b : /\ Batch(list)[i] = [name |-> list[i], origin |-> list]
                                 /\ vec[i] = list[i]
               /\ Distinct(list) => Distinct(vec)
<1>. DEFINE b == NumBatchDims(list)
            tn == Batch(list)
            vec == ToDimnameVec(tn)
<1>1. b \in Nat /\ b <= Len(list)
  BY DEF NumBatchDims
<1>2. tn = [i \in 1..b |-> [name |-> list[i], origin |-> list]]
  BY DEF Batch, TensorNames
<1>. HIDE DEF b, tn
<1>3. vec = [i \in 1..b |-> list[i]]
  BY <1>2 DEF ToDimnameVec
<1>. HIDE DEF vec
<1>4. \A i \in 1..b : list[i] \in Dimname
  BY <1>1
<1>5. vec \in [1..b -> Dimname]
  BY <1>3, <1>4
<1>6. vec \in Seq(Dimname) /\ Len(vec) = b /\ DOMAIN vec = 1..b
  BY <1>1, <1>5
<1>7. Len(tn) = b
  <2>1. tn \in [1..b -> {tn[i] : i \in 1..b}]
    BY <1>2
  <2>. QED  BY <1>1, <2>1
<1>8. Distinct(list) => Distinct(vec)
  BY <1>1, <1>3, <1>6 DEF Distinct
<1>. QED  BY <1>1, <1>2, <1>3, <1>6, <1>7, <1>8 DEF b, tn, vec

\* The batches of two lists unify as lists of their own: TensorName looks for a
\* name in the whole list that it is from, which has the batches' names as well.
LEMMA BatchesUnify ==
    ASSUME NEW list \in Seq(Dimname), NEW other \in Seq(Dimname),
           Distinct(list), Distinct(other), UnifiesInplace(Batch(list), Batch(other))
    PROVE  LET batch == UnifyInplace(Batch(list), Batch(other))
           IN  /\ batch \in Seq(Dimname) /\ Distinct(batch)
               /\ Len(batch) = Longer(NumBatchDims(list), NumBatchDims(other))
<1>. DEFINE b == NumBatchDims(list)
            c == NumBatchDims(other)
            x == ToDimnameVec(Batch(list))
            y == ToDimnameVec(Batch(other))
            size == Longer(b, c)
            common == b + c - size
            tx == TensorNames(x, b)
            ty == TensorNames(y, c)
<1>1. /\ b \in Nat /\ b <= Len(list) /\ Len(Batch(list)) = b /\ x \in Seq(Dimname) /\ Len(x) = b
      /\ \A i \in 1..b : Batch(list)[i] = [name |-> list[i], origin |-> list] /\ x[i] = list[i]
      /\ Distinct(x)
  BY BatchFacts
<1>2. /\ c \in Nat /\ c <= Len(other) /\ Len(Batch(other)) = c /\ y \in Seq(Dimname) /\ Len(y) = c
      /\ \A i \in 1..c : Batch(other)[i] = [name |-> other[i], origin |-> other] /\ y[i] = other[i]
      /\ Distinct(y)
  BY BatchFacts
<1>3. /\ size \in Nat /\ common \in Nat
      /\ \A i \in 1..common : b - common + i \in 1..b /\ c - common + i \in 1..c
  <2>1. size \in Nat /\ b <= size /\ c <= size /\ size \in {b, c}
    BY <1>1, <1>2, LongerIsLonger
  <2>. HIDE DEF size, b, c
  <2>. QED  BY <1>1, <1>2, <2>1
<1>4. \A i \in 1..common : TensorNamesMatch(Batch(list)[b - common + i], Batch(other)[c - common + i])
  BY <1>1, <1>2 DEF UnifiesInplace
<1>5. /\ Len(tx) = b /\ \A i \in 1..b : tx[i] = [name |-> x[i], origin |-> x]
      /\ Len(ty) = c /\ \A i \in 1..c : ty[i] = [name |-> y[i], origin |-> y]
  <2>. HIDE DEF x, y, b, c
  <2>. QED  BY <1>1, <1>2, WrappedName
<1>. HIDE DEF b, c, x, y, tx, ty, size, common
<1>6. /\ \A name : HasName(x, name) => HasName(list, name)
      /\ \A name : HasName(y, name) => HasName(other, name)
  <2>1. /\ DOMAIN x = 1..b /\ 1..b \subseteq DOMAIN list
        /\ DOMAIN y = 1..c /\ 1..c \subseteq DOMAIN other
    BY <1>1, <1>2
  <2>. QED  BY <1>1, <1>2, <2>1 DEF HasName
<1>7. ASSUME NEW i \in 1..common  PROVE  TensorNamesMatch(tx[b - common + i], ty[c - common + i])
  <2>1. PICK p \in 1..b, q \in 1..c : p = b - common + i /\ q = c - common + i
    BY <1>3
  <2>2. TensorNamesMatch([name |-> list[p], origin |-> list], [name |-> other[q], origin |-> other])
    BY <1>1, <1>2, <1>4, <2>1
  <2>3. TensorNamesMatch([name |-> x[p], origin |-> x], [name |-> y[q], origin |-> y])
    BY <1>1, <1>2, <1>6, <2>2 DEF TensorNamesMatch
  <2>. QED  BY <1>5, <2>1, <2>3
<1>8. UnifiesInplace(tx, ty)
  BY <1>5, <1>7 DEF UnifiesInplace, common, size
<1>9. UnifiesFromRight(x, y)
  BY <1>1, <1>2, <1>8, ImplementationsAgree DEF tx, ty
<1>. QED  BY <1>1, <1>2, <1>9, UnifiedIsDistinct, UnifiedFacts DEF UnifyInplace, x, y, size, b, c

\* The names of a product: the batches and then "tail", which is a row and a
\* column.
Joined(out, batch, tail, row, column) == out = batch \o row \o column /\ tail = row \o column

Parts(out, batch, tail) ==
    /\ Len(out) = Len(batch) + Len(tail)
    /\ \A i \in 1..Len(batch) : out[i] = batch[i]
    /\ \A i \in 1..Len(tail) : out[Len(batch) + i] = tail[i]

\* A bias may name unnamed dimensions of a product.
Extends(outnames, out) ==
    /\ Len(outnames) = Len(out)
    /\ \A i \in 1..Len(out) : out[i] # Wildcard => outnames[i] = out[i]

\* How many dimensions a matrix or vector adds to a product.
Extent(list) == IF Len(list) < 2 THEN 0 ELSE 1

LEMMA OutnamesFacts ==
    ASSUME NEW batch \in Seq(Dimname), NEW row \in Seq(Dimname), NEW column \in Seq(Dimname),
           NEW out, NEW tail, Joined(out, batch, tail, row, column)
    PROVE  /\ tail \in Seq(Dimname) /\ Len(tail) = Len(row) + Len(column)
           /\ out \in Seq(Dimname) /\ Len(out) = Len(batch) + Len(tail) /\ Parts(out, batch, tail)
<1>. USE DEF Joined
<1>1. /\ batch \o row \in Seq(Dimname) /\ Len(batch \o row) = Len(batch) + Len(row)
      /\ tail \in Seq(Dimname) /\ Len(tail) = Len(row) + Len(column)
  BY ConcatFacts
<1>2. out \in Seq(Dimname) /\ Len(out) = Len(batch \o row) + Len(column)
  BY <1>1, ConcatFacts
<1>3. Len(out) = Len(batch) + Len(tail)
  BY <1>1, <1>2
<1>4. \A i \in 1..Len(batch) : out[i] = batch[i]
  OBVIOUS
<1>5. \A i \in 1..Len(row) + Len(column) : out[Len(batch) + i] = tail[i]
  OBVIOUS
<1>. QED  BY <1>1, <1>2, <1>3, <1>4, <1>5 DEF Parts

LEMMA RowColumnFacts ==
    ASSUME NEW list \in Seq(Dimname)
    PROVE  /\ Row(list) \in Seq(Dimname) /\ Len(Row(list)) = Extent(list)
           /\ Column(list) \in Seq(Dimname) /\ Len(Column(list)) = Extent(list)
           /\ Extent(list) \in {0, 1} /\ (Len(list) < 2 => Extent(list) = 0)
<1>. USE DEF Extent
<1>1. CASE Len(list) < 2
  <2>1. Row(list) = <<>> /\ Column(list) = <<>>
    BY <1>1 DEF Row, Column
  <2>. QED  BY <1>1, <2>1
<1>2. CASE ~(Len(list) < 2)
  <2>1. PICK row, column : row = list[Len(list) - 1] /\ column = list[Len(list)]
    OBVIOUS
  <2>2. Len(list) - 1 \in 1..Len(list) /\ Len(list) \in 1..Len(list)
    BY <1>2
  <2>3. row \in Dimname /\ column \in Dimname
    BY <2>1, <2>2
  <2>4. Row(list) = <<row>> /\ Column(list) = <<column>>
    BY <1>2, <2>1 DEF Row, Column
  <2>. QED  BY <1>2, <2>3, <2>4
<1>. QED  BY <1>1, <1>2

\* A product whose batches are not named like its rows and columns, which may
\* have got more names, has no name twice.
LEMMA PartsDistinct ==
    ASSUME NEW batch \in Seq(Dimname), NEW tail \in Seq(Dimname), NEW out \in Seq(Dimname),
           Distinct(batch), Distinct(tail), Parts(out, batch, tail),
           NEW outnames \in Seq(Dimname), Extends(outnames, out),
           AreDistinct(batch, SubSeq(outnames, Len(batch) + 1, Len(outnames)))
    PROVE  Distinct(out)
<1>. DEFINE m == Len(batch)
            t == Len(tail)
            features == SubSeq(outnames, m + 1, m + t)
<1>. USE DEF Parts, Extends
<1>1. /\ m \in Nat /\ t \in Nat /\ DOMAIN out = 1..m + t
      /\ DOMAIN batch = 1..m /\ DOMAIN tail = 1..t
  OBVIOUS
<1>2. DOMAIN features = 1..t /\ \A i \in 1..t : features[i] = outnames[m + i]
  OBVIOUS
<1>3. AreDistinct(batch, features)
  BY <1>1
<1>. HIDE DEF m, t, features
<1>4. ASSUME NEW i \in 1..m, NEW j \in 1..t, tail[j] # Wildcard  PROVE  batch[i] # tail[j]
  <2>1. m + j \in 1..m + t /\ out[m + j] = tail[j]
    BY <1>1 DEF m, t
  <2>2. features[j] = tail[j]
    BY <1>2, <1>4, <2>1 DEF m, t
  <2>. QED  BY <1>1, <1>2, <1>3, <1>4, <2>2 DEF AreDistinct
<1>5. ASSUME NEW k \in 1..m + t
      PROVE  \/ k \in 1..m /\ out[k] = batch[k]
             \/ \E i \in 1..t : k = m + i /\ out[k] = tail[i]
  <2>1. CASE k \in 1..m
    BY <2>1 DEF m
  <2>2. CASE k \notin 1..m
    <3>1. k - m \in 1..t /\ k = m + (k - m)
      BY <1>1, <2>2
    <3>. QED  BY <3>1 DEF m, t
  <2>. QED  BY <2>1, <2>2
<1>6. ASSUME NEW k \in 1..m + t, NEW l \in 1..m + t, out[k] = out[l], out[k] # Wildcard
      PROVE  k = l
  <2>1. CASE k \in 1..m /\ out[k] = batch[k]
    <3>1. CASE l \in 1..m /\ out[l] = batch[l]
      BY <1>1, <1>6, <2>1, <3>1 DEF Distinct
    <3>2. CASE \E i \in 1..t : l = m + i /\ out[l] = tail[i]
      BY <1>4, <1>6, <2>1, <3>2, ZenonT(60)
    <3>. QED  BY <1>5, <3>1, <3>2
  <2>2. CASE \E i \in 1..t : k = m + i /\ out[k] = tail[i]
    <3>1. CASE l \in 1..m /\ out[l] = batch[l]
      BY <1>4, <1>6, <2>2, <3>1
    <3>2. CASE \E i \in 1..t : l = m + i /\ out[l] = tail[i]
      <4>1. PICK i \in 1..t : k = m + i /\ out[k] = tail[i]
        BY <2>2
      <4>2. PICK j \in 1..t : l = m + j /\ out[l] = tail[j]
        BY <3>2
      <4>3. i = j
        BY <1>1, <1>6, <4>1, <4>2, ZenonT(60) DEF Distinct
      <4>. QED  BY <4>1, <4>2, <4>3
    <3>. QED  BY <1>5, <3>1, <3>2
  <2>. QED  BY <1>5, <2>1, <2>2
<1>. QED  BY <1>1, <1>6 DEF Distinct

\* A product has as many sizes as names.
LEMMA ProductKeeps ==
    ASSUME NamesInv, NEW other \in Seq(Dimname), NEW outnames \in Seq(Dimname), NEW kind,
           Product(other, outnames, kind),
           Len(outnames) = Len(UnifyInplace(Batch(names), Batch(other)))
                              + (Extent(names) + Extent(other)),
           UnifyInplace(Batch(names), Batch(other)) \in Seq(Dimname),
           Distinct(outnames) \/ last' = "mixed"
    PROVE  NamesInv'
<1>. DEFINE batch == UnifyInplace(Batch(names), Batch(other))
            lead == Len(batch) - NumBatchDims(names)
            s1 == [i \in DOMAIN batch |-> IF i > lead THEN tensor.sizes[i - lead] ELSE 1]
            s2 == IF Len(names) < 2 THEN <<>> ELSE <<tensor.sizes[Len(names) - 1]>>
            s3 == IF Len(other) < 2 THEN <<>> ELSE <<1>>
            sizes == s1 \o s2 \o s3
            m == Len(batch)
            S == {s1[i] : i \in 1..m} \cup {tensor.sizes[Len(names) - 1], 1}
            k == Len(outnames)
            r == Extent(names)
            c == Extent(other)
<1>1. names' = outnames /\ Fresh(sizes)
  BY Zenon DEF Product
<1>2. m \in Nat /\ DOMAIN batch = 1..m
  OBVIOUS
<1>3. s1 \in [1..m -> S]
  <2>. HIDE DEF batch, m
  <2>. QED  BY <1>2
<1>4. /\ s2 \in Seq(S) /\ Len(s2) = r /\ s3 \in Seq(S) /\ Len(s3) = c
  <2>1. PICK x : x = tensor.sizes[Len(names) - 1]
    OBVIOUS
  <2>2. x \in S /\ 1 \in S
    BY <2>1
  <2>3. \/ s2 = <<>> /\ r = 0
        \/ s2 = <<x>> /\ r = 1
    BY <2>1 DEF Extent
  <2>4. \/ s3 = <<>> /\ c = 0
        \/ s3 = <<1>> /\ c = 1
    BY DEF Extent
  <2>. HIDE DEF S, s2, s3, r, c
  <2>5. s2 \in Seq(S) /\ Len(s2) = r
    BY <2>2, <2>3, ShortLists, Zenon
  <2>6. s3 \in Seq(S) /\ Len(s3) = c
    BY <2>2, <2>4, ShortLists, Zenon
  <2>. QED  BY <2>5, <2>6
<1>5. k = m + (r + c) /\ r \in Nat /\ c \in Nat
  BY DEF Extent
<1>6. \E strides, offset : tensor' = [sizes |-> sizes, strides |-> strides, offset |-> offset]
  <2>. HIDE DEF sizes
  <2>. QED  BY <1>1, FreshResult
<1>7. Len(sizes) <= MaxDims
  <2>. HIDE DEF sizes
  <2>. QED  BY <1>1, FreshResult
<1>8. Len(outnames) = k
  OBVIOUS
<1>. HIDE DEF batch, m, r, c, S, k, s1, s2, s3
<1>9. s1 \in Seq(S) /\ Len(s1) = m
  BY <1>2, <1>3
<1>10. s1 \o s2 \in Seq(S) /\ Len(s1 \o s2) = Len(s1) + Len(s2)
  BY <1>4, <1>9, ConcatFacts
<1>11. sizes \in Seq(S) /\ Len(sizes) = Len(s1 \o s2) + Len(s3)
  BY <1>4, <1>10, ConcatFacts
<1>. HIDE DEF sizes
<1>12. Len(sizes) = k
  BY <1>2, <1>4, <1>5, <1>9, <1>10, <1>11
<1>13. k \in 0..MaxDims
  BY <1>2, <1>5, <1>7, <1>12, BoundsAssumption
<1>14. sizes \in [1..k -> S]
  BY <1>11, <1>12
<1>. QED  BY <1>1, <1>6, <1>8, <1>13, <1>14, InvStep

LEMMA ExtentsAdd ==
    ASSUME NEW r \in {0, 1}, NEW c \in {0, 1}
    PROVE  r + c \in {0, 1, 2} /\ (r = 0 \/ c = 0 => r + c \in {0, 1})
OBVIOUS

\* What is multiplied has no name twice, and neither have what remains of it.
LEMMA FactorsFacts ==
    ASSUME NamesInv, NEW other \in NameLists, last # "mixed",
           UnifiesInplace(Batch(names), Batch(other))
    PROVE  /\ names \in Seq(Dimname) /\ Distinct(names) /\ Len(names) \in 0..MaxDims
           /\ other \in Seq(Dimname) /\ Distinct(other)
           /\ UnifyInplace(Batch(names), Batch(other)) \in Seq(Dimname)
           /\ Distinct(UnifyInplace(Batch(names), Batch(other)))
<1>1. names \in Seq(Dimname) /\ Distinct(names) /\ Len(names) \in 0..MaxDims
  BY InvFacts DEF NamesInv
<1>2. other \in Seq(Dimname) /\ Distinct(other)
  BY NameListsFacts
<1>. QED  BY <1>1, <1>2, BatchesUnify

\* matmul's names with those that a bias adds to them: none occurs twice, or
\* else the batches are named like the rows or columns.
LEMMA MatmulKeeps ==
    ASSUME NamesInv, NEW other \in NameLists, NEW outnames \in Seq(Dimname), NEW kind,
           last # "mixed", MatmulNamesMatch(names, other), Product(other, outnames, kind),
           Extends(outnames, MatmulOutnames(names, other)),
           Distinct(MatmulOutnames(names, other)) => Distinct(outnames)
    PROVE  NamesInv'
<1>. DEFINE batch == UnifyInplace(Batch(names), Batch(other))
            row == Row(names)
            column == Column(other)
            tail == row \o column
            out == MatmulOutnames(names, other)
<1>1. /\ names \in Seq(Dimname) /\ Distinct(names)
      /\ other \in Seq(Dimname) /\ Distinct(other)
      /\ batch \in Seq(Dimname) /\ Distinct(batch)
  BY FactorsFacts DEF MatmulNamesMatch
<1>2. /\ row \in Seq(Dimname) /\ Len(row) = Extent(names) /\ Extent(names) \in {0, 1}
      /\ column \in Seq(Dimname) /\ Len(column) = Extent(other) /\ Extent(other) \in {0, 1}
      /\ (Len(names) < 2 => Len(row) = 0) /\ (Len(other) < 2 => Len(column) = 0)
  BY <1>1, RowColumnFacts
<1>3. Len(names) >= 2 /\ Len(other) >= 2 => Distinct(tail)
  BY DEF MatmulNamesMatch
<1>4. Joined(out, batch, tail, row, column)
  BY DEF MatmulOutnames, Joined
<1>5. last' # "mixed" => AreDistinct(batch, SubSeq(outnames, Len(batch) + 1, Len(outnames)))
  BY DEF Product
<1>. HIDE DEF batch, row, column, out, tail
<1>6. /\ tail \in Seq(Dimname) /\ Len(tail) = Len(row) + Len(column)
      /\ out \in Seq(Dimname) /\ Len(out) = Len(batch) + Len(tail) /\ Parts(out, batch, tail)
  BY <1>1, <1>2, <1>4, OutnamesFacts, Zenon
<1>7. Distinct(tail)
  <2>1. CASE Len(names) >= 2 /\ Len(other) >= 2
    BY <1>3, <2>1
  <2>2. CASE Len(names) < 2 \/ Len(other) < 2
    <3>0. /\ Len(row) \in {0, 1} /\ Len(column) \in {0, 1}
          /\ Len(row) = 0 \/ Len(column) = 0
          /\ Len(tail) = Len(row) + Len(column)
      BY <1>2, <1>6, <2>2
    <3>1. Len(tail) \in {0, 1}
      BY <3>0, ExtentsAdd, Zenon
    <3>2. DOMAIN tail = 1..Len(tail)
      BY <1>6
    <3>3. \A i, j \in DOMAIN tail : i = j
      BY <3>1, <3>2
    <3>. QED  BY <3>3 DEF Distinct
  <2>. QED  BY <1>1, <2>1, <2>2
<1>8. Distinct(outnames) \/ last' = "mixed"
  <2>1. SUFFICES ASSUME last' # "mixed"  PROVE  Distinct(out)
    BY DEF out
  <2>2. Extends(outnames, out)
    BY DEF out
  <2>. QED  BY <1>1, <1>5, <1>6, <1>7, <2>1, <2>2, PartsDistinct
<1>9. Len(outnames) = Len(batch) + (Extent(names) + Extent(other))
  <2>1. Len(outnames) = Len(out)
    BY DEF out, Extends
  <2>. QED  BY <1>2, <1>6, <2>1
<1>. QED  BY <1>1, <1>8, <1>9, ProductKeeps DEF batch

\* As many names as dimensions are multiplied, when those are at most as many.
LEMMA MatmulLength ==
    ASSUME NamesInv, NEW other \in NameLists, last # "mixed", MatmulNamesMatch(names, other)
    PROVE  /\ MatmulOutnames(names, other) \in Seq(Dimname)
           /\ 2 <= Len(names) /\ Len(other) <= Len(names) =>
                 Len(MatmulOutnames(names, other)) \in 0..MaxDims
<1>. DEFINE batch == UnifyInplace(Batch(names), Batch(other))
            row == Row(names)
            column == Column(other)
            out == MatmulOutnames(names, other)
            tail == row \o column
<1>1. /\ names \in Seq(Dimname) /\ Distinct(names) /\ Len(names) \in 0..MaxDims /\ MaxDims \in Nat
      /\ other \in Seq(Dimname) /\ Distinct(other) /\ batch \in Seq(Dimname)
      /\ UnifiesInplace(Batch(names), Batch(other))
  BY FactorsFacts, BoundsAssumption DEF MatmulNamesMatch
<1>2. Len(batch) = Longer(NumBatchDims(names), NumBatchDims(other))
  BY <1>1, BatchesUnify
<1>3. /\ row \in Seq(Dimname) /\ Len(row) = Extent(names) /\ Extent(names) \in {0, 1}
      /\ column \in Seq(Dimname) /\ Len(column) = Extent(other) /\ Extent(other) \in {0, 1}
      /\ (Len(names) < 2 => Len(row) = 0) /\ (Len(other) < 2 => Len(column) = 0)
  BY <1>1, RowColumnFacts
<1>4. Joined(out, batch, tail, row, column)
  BY DEF MatmulOutnames, Joined
<1>. HIDE DEF batch, row, column, out, tail
<1>5. /\ tail \in Seq(Dimname) /\ Len(tail) = Len(row) + Len(column)
      /\ out \in Seq(Dimname) /\ Len(out) = Len(batch) + Len(tail) /\ Parts(out, batch, tail)
  <2>1. batch \in Seq(Dimname) /\ row \in Seq(Dimname) /\ column \in Seq(Dimname)
    BY <1>1, <1>3
  <2>. QED  BY <1>4, <2>1, OutnamesFacts, Zenon
<1>. DEFINE n == Len(names)
            m == Len(other)
            l == Len(tail)
<1>6. /\ n \in 0..MaxDims /\ n \in Nat /\ m \in Nat /\ MaxDims \in Nat
      /\ Len(batch) = Longer(IF n <= 2 THEN 0 ELSE n - 2, IF m <= 2 THEN 0 ELSE m - 2)
      /\ Len(out) = Len(batch) + l
  BY <1>1, <1>2, <1>5 DEF NumBatchDims
<1>7. l \in {0, 1, 2}
  <2>1. /\ Len(row) \in {0, 1} /\ Len(column) \in {0, 1}
        /\ l = Len(row) + Len(column)
    BY <1>3, <1>5
  <2>. HIDE DEF l
  <2>. QED  BY <2>1, ExtentsAdd, Zenon
<1>. HIDE DEF n, m, l
<1>8. 2 <= n /\ m <= n => Len(out) \in 0..MaxDims
  BY <1>6, <1>7 DEF Longer
<1>. QED  BY <1>5, <1>8 DEF out, n, m

LEMMA AddmmKeeps ==
    ASSUME NamesInv, NEW other \in NameLists, last # "mixed", Addmm(other)
    PROVE  NamesInv'
<1>. DEFINE product == MatmulOutnames(names, other)
            size == Len(product)
<1>0. PICK outnames \in Biased(product) :
         MatmulNamesMatch(names, other) /\ \E kind : Product(other, outnames, kind)
  BY DEF Addmm
<1>1. PICK kind : MatmulNamesMatch(names, other) /\ Product(other, outnames, kind)
  BY <1>0
<1>2. PICK bias \in ListsOf[size] :
         UnifiesFromRight(product, bias) /\ outnames = UnifyFromRight(product, bias)
  BY DEF Biased
<1>3. product \in Seq(Dimname) /\ size \in 0..MaxDims /\ size \in Nat
  <2>1. <<Len(names), Len(other)>> \in {<<2, 2>>, <<2, 1>>, <<3, 3>>}
    BY DEF Addmm
  <2>2. 2 <= Len(names) /\ Len(other) <= Len(names)
    <3>. DEFINE n == Len(names)
                m == Len(other)
    <3>. HIDE DEF n, m
    <3>1. \/ n = 2 /\ m = 2
          \/ n = 2 /\ m = 1
          \/ n = 3 /\ m = 3
      BY <2>1 DEF n, m
    <3>2. 2 <= n /\ m <= n
      BY <3>1
    <3>. QED  BY <3>2 DEF n, m
  <2>3. product \in Seq(Dimname) /\ size \in 0..MaxDims
    BY <1>1, <2>2, MatmulLength
  <2>. QED  BY <2>3
<1>4. bias \in Seq(Dimname) /\ Len(bias) = size /\ Distinct(bias)
  <2>. HIDE DEF size
  <2>. QED  BY <1>2, <1>3, NameListsFacts
<1>. HIDE DEF product
<1>5. /\ outnames \in Seq(Dimname) /\ Len(outnames) = size
      /\ \A i \in 1..size : outnames[i] = Unify(product[i], bias[i])
  <2>1. Longer(Len(product), Len(bias)) = size
    BY <1>3, <1>4 DEF Longer
  <2>2. /\ outnames \in Seq(Dimname) /\ Len(outnames) = size
        /\ \A i \in 1..size : outnames[i] = Unify(Padded(product, size, i), Padded(bias, size, i))
    <3>1. /\ UnifyFromRight(product, bias) \in Seq(Dimname)
          /\ Len(UnifyFromRight(product, bias)) = Longer(Len(product), Len(bias))
          /\ \A i \in 1..Longer(Len(product), Len(bias)) :
                UnifyFromRight(product, bias)[i] =
                   Unify(Padded(product, Longer(Len(product), Len(bias)), i),
                         Padded(bias, Longer(Len(product), Len(bias)), i))
      BY <1>3, <1>4, UnifiedFacts
    <3>. HIDE DEF size
    <3>. QED  BY <1>2, <2>1, <3>1
  <2>3. \A i \in 1..size : Padded(product, size, i) = product[i] /\ Padded(bias, size, i) = bias[i]
    BY <1>3, <1>4, FullLength
  <2>. QED  BY <2>2, <2>3
<1>6. ASSUME NEW i \in 1..size, product[i] # Wildcard  PROVE  outnames[i] = product[i]
  <2>1. Longer(Len(product), Len(bias)) = size
    BY <1>3, <1>4 DEF Longer
  <2>2. Matches(Padded(product, size, i), Padded(bias, size, i))
    BY <1>2, <2>1 DEF UnifiesFromRight
  <2>3. Padded(product, size, i) = product[i] /\ Padded(bias, size, i) = bias[i]
    BY <1>3, <1>4, FullLength
  <2>. QED  BY <1>5, <1>6, <2>2, <2>3 DEF Matches, Unify
<1>7. Distinct(product) => Distinct(outnames)
  BY <1>2, <1>3, <1>4, UnifiedIsDistinct
<1>8. Extends(outnames, product)
  BY <1>5, <1>6 DEF Extends
<1>. QED  BY <1>1, <1>5, <1>7, <1>8, MatmulKeeps DEF product

\* cdist requires the names of its result to be unique.
LEMMA CdistKeeps ==
    ASSUME NamesInv, NEW other \in NameLists, last # "mixed", Cdist(other)
    PROVE  NamesInv'
<1>. DEFINE batch == UnifyInplace(Batch(names), Batch(other))
            row == Row(names)
            column == Row(other)
            out == CdistOutnames(names, other)
            tail == row \o column
<1>1. /\ 2 <= Len(names) /\ 2 <= Len(other) /\ Product(other, out, "copy") /\ Distinct(out)
      /\ UnifiesInplace(Batch(names), Batch(other))
  BY DEF Cdist, CdistNamesMatch
<1>2. /\ names \in Seq(Dimname) /\ other \in Seq(Dimname) /\ batch \in Seq(Dimname)
  BY <1>1, FactorsFacts
<1>3. /\ row \in Seq(Dimname) /\ Len(row) = Extent(names) /\ Extent(names) \in {0, 1}
      /\ column \in Seq(Dimname) /\ Len(column) = Extent(other) /\ Extent(other) \in {0, 1}
      /\ (Len(names) < 2 => Len(row) = 0) /\ (Len(other) < 2 => Len(column) = 0)
  BY <1>2, RowColumnFacts
<1>4. Joined(out, batch, tail, row, column)
  BY DEF CdistOutnames, Joined
<1>. HIDE DEF batch, row, column, out, tail
<1>5. /\ tail \in Seq(Dimname) /\ Len(tail) = Len(row) + Len(column)
      /\ out \in Seq(Dimname) /\ Len(out) = Len(batch) + Len(tail) /\ Parts(out, batch, tail)
  <2>1. batch \in Seq(Dimname) /\ row \in Seq(Dimname) /\ column \in Seq(Dimname)
    BY <1>2, <1>3
  <2>. QED  BY <1>4, <2>1, OutnamesFacts, Zenon
<1>6. Len(out) = Len(batch) + (Extent(names) + Extent(other))
  BY <1>3, <1>5
<1>. QED  BY <1>1, <1>2, <1>5, <1>6, ProductKeeps DEF batch

LEMMA ProductsKeep ==
    ASSUME NamesInv, NEW other \in NameLists, last # "mixed",
           Matmul(other) \/ Addmm(other) \/ Cdist(other)
    PROVE  NamesInv'
<1>1. CASE Matmul(other)
  <2>. DEFINE out == MatmulOutnames(names, other)
  <2>1. MatmulNamesMatch(names, other) /\ Product(other, out, "copy")
    BY <1>1 DEF Matmul
  <2>2. out \in Seq(Dimname)
    BY <2>1, MatmulLength
  <2>3. Extends(out, out)
    BY DEF Extends
  <2>. QED  BY <2>1, <2>2, <2>3, MatmulKeeps
<1>2. CASE Addmm(other)
  BY <1>2, AddmmKeeps
<1>3. CASE Cdist(other)
  BY <1>3, CdistKeeps
<1>. QED  BY <1>1, <1>2, <1>3

-----------------------------------------------------------------------------
LEMMA NamesInvInit == NamedInit => NamesInv
<1>1. SUFFICES ASSUME NamedInit  PROVE  NamesInv
  OBVIOUS
<1>2. PICK sizes \in BoundedSeq(1..StorageSize, MaxDims) :
         tensor = [sizes |-> sizes, strides |-> RowMajor(sizes), offset |-> 0]
  BY <1>1 DEF NamedInit
<1>. DEFINE n == Len(sizes)
            list == Unnamed(n)
<1>3. sizes \in Seq(1..StorageSize) /\ n <= MaxDims /\ n \in Nat /\ DOMAIN sizes = 1..n
  BY BoundsAssumption, BoundedSequence
<1>4. tensor.sizes = sizes /\ names = list
  BY <1>1, <1>2 DEF NamedInit
<1>5. tensor = [sizes |-> tensor.sizes, strides |-> tensor.strides, offset |-> tensor.offset]
  BY <1>2
<1>. HIDE DEF n
<1>6. list \in [1..n -> Dimname] /\ \A i \in 1..n : list[i] = Wildcard
  BY DEF Unnamed, Dimname
<1>7. list \in Seq(Dimname) /\ Len(list) = n /\ DOMAIN list = 1..n
  BY <1>3, <1>6
<1>8. Distinct(list)
  BY <1>6, <1>7 DEF Distinct
<1>9. sizes \in [1..n -> {sizes[d] : d \in 1..n}]
  BY <1>3
<1>. HIDE DEF list
<1>. QED  BY <1>3, <1>4, <1>5, <1>7, <1>8, <1>9 DEF NamesInv, NamedDims

LEMMA NamesInvStep == NamesInv /\ [NamedNext]_namedVars => NamesInv'
<1>1. ASSUME NamesInv, UNCHANGED namedVars  PROVE  NamesInv'
  BY <1>1 DEF NamesInv, NamedDims, namedVars
<1>2. ASSUME NamesInv, NamedNext  PROVE  NamesInv'
  <2>1. last # "mixed" /\ tensor' # Refused
    BY <1>2 DEF NamedNext
  <2>2. CASE \E list \in ListsOf[Len(names)] : Rename(list) \/ RefineNames(list)
    BY <1>2, <2>2, RenameKeeps
  <2>3. CASE \E d1, d2 \in NamedDims : d1 # d2 /\ NamedTranspose(d1, d2)
    BY <1>2, <2>1, <2>3, TransposeKeeps
  <2>4. CASE \E d \in NamedDims : NamedSelect(d) \/ NamedSlice(d) \/ NamedSqueeze(d)
    BY <1>2, <2>1, <2>4, SelectKeeps, SliceKeeps, NamedSqueezeKeeps
  <2>5. CASE NamedSqueezeAll
    BY <1>2, <2>1, <2>5, NamedSqueezeKeeps
  <2>6. CASE \E size \in BoundedSeq({-1, 2}, MaxDims) : NamedExpand(size)
    BY <1>2, <2>1, <2>6, ExpandKeeps
  <2>7. CASE \E first, final \in NamedDims, out \in Dimname : Flatten(first, final, out)
    BY <1>2, <2>7, FlattenKeeps
  <2>8. CASE \E d \in NamedDims : \E sizes \in Factors(tensor.sizes[d]) :
               \E list \in ListsOf[Len(sizes)] : Unflatten(d, sizes, list)
    BY <1>2, <2>8, UnflattenKeeps
  <2>9. CASE \E list \in NameLists : AlignTensors(list) \/ AlignTo(list)
    BY <1>2, <2>1, <2>9, AlignTensorsKeeps, AlignToKeeps
  <2>10. CASE \E order \in NameLists : \E ellipsis \in 0..Len(order) : AlignToEllipsis(order, ellipsis)
    BY <1>2, <2>1, <2>10, AlignToEllipsisKeeps
  <2>11. CASE \E dims \in SUBSET NamedDims, keepdim \in BOOLEAN : Reduce(dims, keepdim)
    BY <1>2, <2>1, <2>11, ReduceKeeps
  <2>12. CASE \E other \in NameLists :
                \/ Broadcast(other) \/ UpdateInPlace(other) \/ MaskedFill(other)
                \/ Cat(other) \/ Matmul(other) \/ Addmm(other) \/ Cdist(other)
    BY <1>2, <2>1, <2>12, UnifyingKeeps, ProductsKeep
  <2>. QED  BY <1>2, <2>2, <2>3, <2>4, <2>5, <2>6, <2>7, <2>8, <2>9, <2>10, <2>11, <2>12 DEF NamedNext
<1>. QED  BY <1>1, <1>2

\* Chains of operations keep a tensor's names beside its sizes.
THEOREM NamesInvariance == NamedSpec => []NamesInv
<1>1. NamedInit => NamesInv
  BY NamesInvInit
<1>2. NamesInv /\ [NamedNext]_namedVars => NamesInv'
  BY NamesInvStep
<1>. QED  BY <1>1, <1>2, PTL DEF NamedSpec

\* "A DimnameList can have no duplicate full names" (NamedTensorUtils.cpp:69),
\* in every tensor that a chain of operations makes, although propagate_names
\* does not validate what it stores: the one exception is a product of batches
\* that are named like its rows or columns.
THEOREM NamesStayUnique ==
    NamedSpec => [](/\ Len(names) = Len(tensor.sizes)
                    /\ Distinct(names) \/ last = "mixed")
<1>1. NamesInv => Len(names) = Len(tensor.sizes) /\ (Distinct(names) \/ last = "mixed")
  BY InvFacts DEF NamesInv
<1>. QED  BY <1>1, NamesInvariance, PTL

\* Whatever its sizes, how the names of a tensor match those of another one is
\* as documented: two lists unify to their least common refinement, and a
\* tensor is aligned by the rules.
THEOREM NamesMatch == NamedSpec => []NamesMatchByTheRules
<1>1. ASSUME NamesInv, last # "mixed"
      PROVE  UnifyIsLeastRefinement /\ AlignsByTheRules
  <2>1. names \in NameLists
    BY <1>1, NameListsFacts DEF NamesInv
  <2>. QED  BY <2>1, MatchingIsRefinement, AligningFollowsRules
<1>2. NamesInv => NamesMatchByTheRules
  BY <1>1 DEF NamesMatchByTheRules
<1>. QED  BY <1>2, NamesInvariance, PTL

-----------------------------------------------------------------------------
\* Tensors with names have no empty dimension.
Whole(t) == \E n \in Nat : t \in [sizes : FullSizes(n), strides : Sizes(n), offset : Nat]

LEMMA WholeFacts ==
    ASSUME NamesInv, Whole(tensor)
    PROVE  LET n == Len(names)
           IN  /\ n \in Nat /\ NamedDims = 1..n /\ Dims = 1..n
               /\ Len(tensor.sizes) = n /\ Rank(tensor) = n
               /\ tensor.sizes \in FullSizes(n) /\ tensor.sizes \in Sizes(n)
               /\ tensor.strides \in Sizes(n) /\ tensor.offset \in Nat
               /\ \A d \in 1..n : tensor.sizes[d] \in Nat \ {0} /\ tensor.strides[d] \in Nat
<1>1. PICK k \in Nat : tensor \in [sizes : FullSizes(k), strides : Sizes(k), offset : Nat]
  BY DEF Whole
<1>2. tensor.sizes \in FullSizes(k) /\ tensor.strides \in Sizes(k) /\ tensor.offset \in Nat
  BY <1>1
<1>3. DOMAIN tensor.sizes = 1..k /\ Len(tensor.sizes) = k
  BY <1>1, <1>2 DEF FullSizes
<1>4. /\ Len(names) \in Nat /\ NamedDims = 1..Len(names) /\ Len(tensor.sizes) = Len(names)
  BY InvFacts
<1>. QED  BY <1>2, <1>3, <1>4 DEF Rank, Dims, FullSizes, Sizes

\* As many sizes, none of them 0, as strides.
LEMMA MakeWhole ==
    ASSUME NEW m \in Nat, NEW sizes \in FullSizes(m), NEW strides \in Sizes(m), NEW offset \in Nat
    PROVE  Whole([sizes |-> sizes, strides |-> strides, offset |-> offset])
BY DEF Whole

\* What a dimension keeps of its size and stride in the dimension that has its
\* name after a step.
Kept(d, e) ==
    \/ last' = "other"
    \/ tensor.sizes[d] = 1
    \/ last' = "view" /\ tensor'.sizes[e] <= tensor.sizes[d]
                      /\ tensor'.strides[e] = tensor.strides[d]
    \/ last' \in {"copy", "biased", "mixed"} /\ tensor'.sizes[e] \in {tensor.sizes[d], 1}
    \/ last' \in {"biased", "mixed"} /\ d = Len(names)

NamesMove ==
    \A d \in DOMAIN names, e \in DOMAIN names' :
        names[d] = names'[e] /\ names[d] # Wildcard => Kept(d, e)

\* A name that is dimension d's, if any.
Origin(d, name) ==
    IF d = 0 THEN name # Wildcard => ~HasName(names, name) ELSE name \in {names[d], Wildcard}

\* Of the m dimensions of the result, the e-th has the name of from[e].
Inherits(from, m, list) ==
    /\ from \in [1..m -> 0..Len(names)]
    /\ DOMAIN list = 1..m
    /\ \A e \in 1..m : Origin(from[e], list[e])

\* It is enough to look at the dimensions that names come from.
LEMMA InheritedNames ==
    ASSUME NamesInv, last # "mixed", NEW m \in Nat, NEW from, Inherits(from, m, names'),
           \A e \in 1..m : from[e] # 0 => Kept(from[e], e)
    PROVE  NamesMove
<1>1. SUFFICES ASSUME NEW d \in DOMAIN names, NEW e \in 1..m,
                      names[d] = names'[e], names[d] # Wildcard
               PROVE  Kept(d, e)
  BY DEF NamesMove, Inherits
<1>2. /\ Distinct(names) /\ DOMAIN names = 1..Len(names) /\ Len(names) \in Nat
  BY InvFacts DEF NamesInv
<1>3. from[e] # 0
  BY <1>1 DEF Inherits, Origin, HasName
<1>4. from[e] \in DOMAIN names /\ names[from[e]] = names[d]
  BY <1>1, <1>2, <1>3 DEF Inherits, Origin
<1>5. from[e] = d
  BY <1>1, <1>2, <1>4 DEF Distinct
<1>. QED  BY <1>3, <1>5

\* A view, and a copy, whose dimensions are traced.
LEMMA ViewMoves ==
    ASSUME NamesInv, last # "mixed", NEW m \in Nat, NEW from, Inherits(from, m, names'),
           last' = "view", NEW sizes \in FullSizes(m), NEW strides \in Sizes(m),
           NEW offset \in Nat, tensor' = [sizes |-> sizes, strides |-> strides, offset |-> offset],
           \A e \in 1..m : from[e] # 0 =>
               \/ tensor.sizes[from[e]] = 1
               \/ sizes[e] <= tensor.sizes[from[e]] /\ strides[e] = tensor.strides[from[e]]
    PROVE  Whole(tensor') /\ NamesMove
<1>1. Whole(tensor')
  BY MakeWhole
<1>2. \A e \in 1..m : from[e] # 0 => Kept(from[e], e)
  BY DEF Kept
<1>. QED  BY <1>1, <1>2, InheritedNames

LEMMA FreshFacts ==
    ASSUME NEW m \in Nat, NEW sizes \in FullSizes(m), Fresh(sizes)
    PROVE  Whole(tensor') /\ tensor'.sizes = sizes
<1>1. sizes \in Sizes(m)
  BY FullParts
<1>2. RowMajor(sizes) \in Sizes(m)
  BY <1>1, RowMajorType
<1>3. tensor' = [sizes |-> sizes, strides |-> RowMajor(sizes), offset |-> 0]
  BY DEF Fresh
<1>4. Whole([sizes |-> sizes, strides |-> RowMajor(sizes), offset |-> 0])
  BY <1>2, MakeWhole
<1>. QED  BY <1>3, <1>4

LEMMA CopyMoves ==
    ASSUME NamesInv, last # "mixed", NEW m \in Nat, NEW from, Inherits(from, m, names'),
           last' = "copy", NEW sizes \in FullSizes(m), Fresh(sizes),
           \A e \in 1..m : from[e] # 0 => sizes[e] \in {tensor.sizes[from[e]], 1}
    PROVE  Whole(tensor') /\ NamesMove
<1>1. Whole(tensor') /\ tensor'.sizes = sizes
  BY FreshFacts
<1>2. \A e \in 1..m : from[e] # 0 => Kept(from[e], e)
  BY <1>1 DEF Kept
<1>. QED  BY <1>1, <1>2, InheritedNames

-----------------------------------------------------------------------------
\* A set of dimensions has one ascending list.
LEMMA OrderedUnique ==
    ASSUME NEW n \in Nat, NEW dims \in SUBSET (1..n), Cardinality(dims) \in Nat,
           NEW f, Ordered(f, dims), NEW g, Ordered(g, dims)
    PROVE  f = g
<1>. DEFINE k == Cardinality(dims)
            T == {e \in 1..k : f[e] # g[e]}
<1>1. /\ k \in Nat /\ f \in [1..k -> dims] /\ g \in [1..k -> dims]
      /\ \A i, j \in 1..k : i < j => f[i] < f[j] /\ g[i] < g[j]
      /\ \A d \in dims : (\E i \in 1..k : f[i] = d) /\ (\E i \in 1..k : g[i] = d)
  <2>1. /\ f \in [1..k -> dims] /\ \A i, j \in 1..k : i < j => f[i] < f[j]
        /\ \A d \in dims : \E i \in 1..k : f[i] = d
    BY DEF Ordered
  <2>2. /\ g \in [1..k -> dims] /\ \A i, j \in 1..k : i < j => g[i] < g[j]
        /\ \A d \in dims : \E i \in 1..k : g[i] = d
    BY DEF Ordered
  <2>. HIDE DEF k
  <2>. QED  BY <2>1, <2>2 DEF k
<1>. HIDE DEF k
<1>2. \A i \in 1..k : f[i] \in dims /\ g[i] \in dims /\ f[i] \in Nat /\ g[i] \in Nat
  <2>1. \A x \in dims : x \in Nat
    OBVIOUS
  <2>2. \A i \in 1..k : f[i] \in dims /\ g[i] \in dims
    BY <1>1
  <2>. QED  BY <2>1, <2>2
<1>3. SUFFICES ASSUME NEW i \in 1..k, f[i] # g[i]  PROVE  FALSE
  <2>1. f = [i \in 1..k |-> f[i]] /\ g = [i \in 1..k |-> g[i]]
    BY <1>1
  <2>. QED  BY <2>1
<1>4. i \in T /\ T \in SUBSET Nat
  BY <1>3
<1>5. PICK e \in T : \A j \in T : e <= j
  BY <1>4, NatMin
<1>6. e \in 1..k /\ f[e] # g[e] /\ \A j \in 1..k : j < e => f[j] = g[j]
  <2>1. e \in 1..k /\ f[e] # g[e]
    BY <1>5
  <2>2. ASSUME NEW j \in 1..k, j < e  PROVE  f[j] = g[j]
    <3>1. j \notin T
      BY <1>1, <1>5, <2>1, <2>2
    <3>. QED  BY <3>1
  <2>. QED  BY <2>1, <2>2
<1>. HIDE DEF T
<1>7. PICK a \in 1..k : f[a] = g[e]
  BY <1>1, <1>2, <1>6
<1>8. PICK b \in 1..k : g[b] = f[e]
  BY <1>1, <1>2, <1>6
<1>9. ~(a < e) /\ a # e /\ ~(b < e) /\ b # e
  <2>1. a < e => g[a] < g[e] /\ f[a] = g[a]
    BY <1>1, <1>6
  <2>2. b < e => f[b] < f[e] /\ f[b] = g[b]
    BY <1>1, <1>6
  <2>3. f[e] \in Nat /\ g[e] \in Nat
    BY <1>2, <1>6
  <2>. QED  BY <1>6, <1>7, <1>8, <2>1, <2>2, <2>3
<1>10. e < a /\ e < b
  BY <1>1, <1>6, <1>9
<1>11. f[e] < g[e] /\ g[e] < f[e]
  BY <1>1, <1>6, <1>7, <1>8, <1>10
<1>. QED  BY <1>2, <1>6, <1>11

Skipping(d, n) == [e \in 1..n - 1 |-> IF e < d THEN e ELSE e + 1]

\* The ascending list of all dimensions but one.
LEMMA AllButOne ==
    ASSUME NEW n \in Nat, NEW d \in 1..n
    PROVE  /\ Ascending(1..n \ {d}) = Skipping(d, n)
           /\ n - 1 \in Nat /\ Skipping(d, n) \in [1..n - 1 -> 1..n]
<1>. DEFINE D == 1..n \ {d}
            skip == Skipping(d, n)
<1>1. IsFiniteSet(1..n) /\ Cardinality(1..n) = n
  BY IntervalSize
<1>2. Cardinality(D) = n - 1
  BY <1>1, FS_RemoveElement, Zenon
<1>3. n - 1 \in Nat /\ D \in SUBSET (1..n)
  OBVIOUS
<1>4. /\ skip \in [1..n - 1 -> D]
      /\ \A i, j \in 1..n - 1 : i < j => skip[i] < skip[j]
  BY DEF Skipping
<1>5. ASSUME NEW x \in D  PROVE  \E i \in 1..n - 1 : skip[i] = x
  <2>1. CASE x < d
    <3>1. x \in 1..n - 1 /\ skip[x] = x
      BY <2>1 DEF Skipping
    <3>. QED  BY <3>1
  <2>2. CASE x > d
    <3>1. x - 1 \in 1..n - 1 /\ skip[x - 1] = x
      BY <2>2 DEF Skipping
    <3>. QED  BY <3>1
  <2>. QED  BY <2>1, <2>2
<1>6. Ordered(skip, D)
  BY <1>2, <1>4, <1>5 DEF Ordered
<1>7. Ordered(Ascending(D), D)
  BY <1>3, AscendingFacts
<1>8. Ascending(D) = skip
  BY <1>2, <1>3, <1>6, <1>7, OrderedUnique
<1>. QED  BY <1>3, <1>4, <1>8

\* What is left of the names, and of other lists, when some dimensions go.
LEMMA KeptNames ==
    ASSUME NamesInv, NEW gone
    PROVE  LET kept == Ascending(NamedDims \ gone)
               k == Cardinality(NamedDims \ gone)
           IN  /\ k \in Nat /\ DOMAIN kept = 1..k
               /\ \A i \in 1..k : kept[i] \in 1..Len(names) /\ kept[i] # 0
               /\ Inherits(kept, k, NamesExcept(gone))
<1>. DEFINE D == NamedDims \ gone
            kept == Ascending(D)
            k == Cardinality(D)
            n == Len(names)
<1>1. n \in Nat /\ NamedDims = 1..n
  BY InvFacts
<1>2. D \in SUBSET (1..n)
  BY <1>1
<1>3. k \in Nat /\ Ordered(kept, D)
  <2>. HIDE DEF D, n
  <2>. QED  BY <1>1, <1>2, AscendingFacts
<1>4. kept \in [1..k -> D]
  BY <1>3 DEF Ordered
<1>5. NamesExcept(gone) = [i \in DOMAIN kept |-> names[kept[i]]]
  BY DEF NamesExcept
<1>. HIDE DEF D, kept, k, n
<1>6. \A i \in 1..k : kept[i] \in 1..n /\ kept[i] # 0
  <2>1. \A x \in D : x \in 1..n /\ x # 0
    BY <1>1, <1>2
  <2>. QED  BY <1>4, <2>1
<1>7. kept \in [1..k -> 0..n] /\ DOMAIN kept = 1..k
  BY <1>1, <1>4, <1>6
<1>8. Inherits(kept, k, NamesExcept(gone))
  BY <1>5, <1>6, <1>7 DEF Inherits, Origin, n
<1>. QED  BY <1>3, <1>6, <1>7, <1>8 DEF k, kept, D, n

\* The operations, one lemma for each: names move with their dimensions.
LEMMA TransposeFollows ==
    ASSUME NamesInv, Whole(tensor), NEW d1 \in NamedDims, NEW d2 \in NamedDims,
           NamedTranspose(d1, d2), last # "mixed", tensor' # Refused
    PROVE  Whole(tensor') /\ NamesMove
<1>. DEFINE n == Len(names)
            from == [e \in 1..n |-> IF e = d2 THEN d1 ELSE IF e = d1 THEN d2 ELSE e]
            list == [names EXCEPT ![d1] = names[d2], ![d2] = names[d1]]
            sizes == [tensor.sizes EXCEPT ![d1] = tensor.sizes[d2], ![d2] = tensor.sizes[d1]]
            strides == [tensor.strides EXCEPT ![d1] = tensor.strides[d2], ![d2] = tensor.strides[d1]]
<1>1. /\ n \in Nat /\ d1 \in 1..n /\ d2 \in 1..n /\ names \in [1..n -> Dimname]
      /\ tensor.sizes \in FullSizes(n) /\ tensor.strides \in Sizes(n) /\ tensor.offset \in Nat
  <2>1. names \in Seq(Dimname)
    BY InvFacts
  <2>2. names \in [1..n -> Dimname]
    BY <2>1
  <2>. QED  BY <2>2, WholeFacts
<1>2. names' = list /\ last' = "view" /\ AsStrided(sizes, strides, tensor.offset)
  BY DEF NamedTranspose, Transpose
<1>3. tensor' = [sizes |-> sizes, strides |-> strides, offset |-> tensor.offset]
  <2>. HIDE DEF sizes, strides
  <2>. QED  BY <1>2, StridedResult
<1>4. sizes \in FullSizes(n) /\ strides \in Sizes(n)
  BY <1>1 DEF FullSizes, Sizes
<1>5. \A e \in 1..n : sizes[e] = tensor.sizes[from[e]] /\ strides[e] = tensor.strides[from[e]]
                         /\ list[e] = names[from[e]] /\ from[e] # 0 /\ sizes[e] \in Nat
  BY <1>1, SMTT(60) DEF FullSizes, Sizes
<1>6. from \in [1..n -> 0..n] /\ DOMAIN list = 1..n
  BY <1>1
<1>. HIDE DEF from, list, sizes, strides
<1>7. Inherits(from, n, names')
  BY <1>2, <1>5, <1>6 DEF Inherits, Origin
<1>8. \A e \in 1..n : sizes[e] <= tensor.sizes[from[e]] /\ strides[e] = tensor.strides[from[e]]
  BY <1>5
<1>. QED  BY <1>1, <1>2, <1>3, <1>4, <1>7, <1>8, ViewMoves

LEMMA SelectFollows ==
    ASSUME NamesInv, Whole(tensor), NEW d \in NamedDims, NamedSelect(d),
           last # "mixed", tensor' # Refused
    PROVE  Whole(tensor') /\ NamesMove
<1>. DEFINE n == Len(names)
            kept == Ascending(NamedDims \ {d})
            k == Cardinality(NamedDims \ {d})
            sizes == RemoveAt(tensor.sizes, d)
            strides == RemoveAt(tensor.strides, d)
            offset == tensor.offset + (0 % Size(d)) * Stride(d)
<1>1. /\ n \in Nat /\ d \in 1..n /\ NamedDims = 1..n
      /\ tensor.sizes \in FullSizes(n) /\ tensor.sizes \in Sizes(n)
      /\ tensor.strides \in Sizes(n) /\ tensor.offset \in Nat
      /\ Size(d) \in Nat \ {0} /\ Stride(d) \in Nat
  BY WholeFacts DEF Size, Stride
<1>2. names' = NamesExcept({d}) /\ last' = "view" /\ AsStrided(sizes, strides, offset)
  BY DEF NamedSelect, Select
<1>3. offset \in Nat
  <2>1. (0 % Size(d)) \in Nat
    BY <1>1
  <2>2. (0 % Size(d)) * Stride(d) \in Nat
    BY <1>1, <2>1, ProductOfNats
  <2>. QED  BY <1>1, <2>2
<1>4. /\ n - 1 \in Nat /\ kept = Skipping(d, n) /\ kept \in [1..n - 1 -> 1..n]
  BY <1>1, AllButOne
<1>5. Inherits(kept, k, names') /\ k \in Nat /\ DOMAIN kept = 1..k
  BY <1>2, KeptNames
<1>6. k = n - 1
  <2>1. IsFiniteSet(1..n) /\ Cardinality(1..n) = n
    BY <1>1, IntervalSize
  <2>. HIDE DEF n
  <2>2. IsFiniteSet(NamedDims) /\ Cardinality(NamedDims) = n
    BY <1>1, <2>1, Zenon
  <2>. QED  BY <2>2, FS_RemoveElement, Zenon
<1>7. /\ sizes = [e \in 1..n - 1 |-> tensor.sizes[kept[e]]]
      /\ strides = [e \in 1..n - 1 |-> tensor.strides[kept[e]]]
  <2>1. \A e \in 1..n - 1 : kept[e] = IF e < d THEN e ELSE e + 1
    BY <1>4 DEF Skipping
  <2>2. /\ sizes = [e \in 1..n - 1 |-> tensor.sizes[IF e < d THEN e ELSE e + 1]]
        /\ strides = [e \in 1..n - 1 |-> tensor.strides[IF e < d THEN e ELSE e + 1]]
    <3>. HIDE DEF n
    <3>. QED  BY <1>1, Removed, ZenonT(60)
  <2>. HIDE DEF kept, sizes, strides
  <2>. QED  BY <2>1, <2>2
<1>8. tensor' = [sizes |-> sizes, strides |-> strides, offset |-> offset]
  <2>. HIDE DEF sizes, strides, offset
  <2>. QED  BY <1>2, StridedResult
<1>. HIDE DEF n, kept, k, sizes, strides, offset
<1>9. sizes \in FullSizes(k) /\ strides \in Sizes(k)
  BY <1>1, <1>4, <1>6, <1>7 DEF FullSizes, Sizes
<1>10. \A e \in 1..k : sizes[e] <= tensor.sizes[kept[e]] /\ strides[e] = tensor.strides[kept[e]]
  <2>1. ASSUME NEW e \in 1..k  PROVE  sizes[e] = tensor.sizes[kept[e]] /\ sizes[e] \in Nat
                                       /\ strides[e] = tensor.strides[kept[e]]
    BY <1>6, <1>7, <1>9 DEF FullSizes
  <2>. QED  BY <2>1
<1>. QED  BY <1>2, <1>3, <1>5, <1>8, <1>9, <1>10, ViewMoves, ZenonT(60)

\* Where the dimensions of the result are those of the tensor.
LEMMA SameNames ==
    ASSUME NamesInv
    PROVE  Inherits([e \in 1..Len(names) |-> e], Len(names), names)
BY InvFacts DEF Inherits, Origin

LEMMA SliceFollows ==
    ASSUME NamesInv, Whole(tensor), NEW d \in NamedDims, NamedSlice(d),
           last # "mixed", tensor' # Refused
    PROVE  Whole(tensor') /\ NamesMove
<1>. DEFINE n == Len(names)
            wrap(i) == IF i < 0 THEN i + Size(d) ELSE i
            first == Min({Max({wrap(0), 0}), Size(d)})
            final == Min({Max({wrap(1), first}), Size(d)})
            size == (final - first + 1 - 1) \div 1
            sizes == [tensor.sizes EXCEPT ![d] = size]
            strides == [tensor.strides EXCEPT ![d] = @ * 1]
            offset == tensor.offset + first * Stride(d)
            from == [e \in 1..n |-> e]
<1>1. /\ n \in Nat /\ d \in 1..n
      /\ tensor.sizes \in FullSizes(n) /\ tensor.strides \in Sizes(n) /\ tensor.offset \in Nat
      /\ \A e \in 1..n : tensor.sizes[e] \in Nat \ {0} /\ tensor.strides[e] \in Nat
      /\ Size(d) = tensor.sizes[d] /\ Stride(d) \in Nat
  BY WholeFacts DEF Size, Stride
<1>2. names' = names /\ last' = "view" /\ AsStrided(sizes, strides, offset)
  BY DEF NamedSlice, Slice
<1>3. first = 0
  <2>1. wrap(0) = 0 /\ Max({0, 0}) = 0
    BY MinMaxOfTwo
  <2>2. Min({0, Size(d)}) = 0
    <3>1. Size(d) \in Int /\ 0 <= Size(d)
      BY <1>1
    <3>. QED  BY <3>1, MinMaxOfTwo
  <2>. HIDE DEF wrap
  <2>. QED  BY <2>1, <2>2
<1>4. final = 1
  <2>1. wrap(1) = 1 /\ Max({1, 0}) = 1
    BY MinMaxOfTwo
  <2>2. Min({1, Size(d)}) = 1
    <3>1. Size(d) \in Int /\ 1 <= Size(d)
      BY <1>1
    <3>. QED  BY <3>1, MinMaxOfTwo
  <2>. HIDE DEF wrap, first
  <2>. QED  BY <1>3, <2>1, <2>2
<1>. HIDE DEF first, final
<1>5. size = 1 /\ offset = tensor.offset
  BY <1>1, <1>3, <1>4
<1>6. tensor' = [sizes |-> sizes, strides |-> strides, offset |-> offset]
  <2>. HIDE DEF sizes, strides, offset
  <2>. QED  BY <1>2, StridedResult
<1>. HIDE DEF size, offset
<1>7. /\ sizes \in FullSizes(n) /\ strides \in Sizes(n)
      /\ \A e \in 1..n : sizes[e] <= tensor.sizes[e] /\ strides[e] = tensor.strides[e]
  BY <1>1, <1>5 DEF FullSizes, Sizes
<1>8. Inherits(from, n, names')
  BY <1>2, SameNames
<1>9. \A e \in 1..n : from[e] = e
  OBVIOUS
<1>. HIDE DEF n, sizes, strides, from
<1>. QED  BY <1>1, <1>2, <1>5, <1>6, <1>7, <1>8, <1>9, ViewMoves

\* A view that leaves out some dimensions.
LEMMA KeptMoves ==
    ASSUME NamesInv, Whole(tensor), last # "mixed", last' = "view", tensor' # Refused,
           NEW gone, NEW k, k = Cardinality(NamedDims \ gone),
           NEW kept, kept = Ascending(NamedDims \ gone), Inherits(kept, k, names'),
           AsStrided([i \in DOMAIN kept |-> tensor.sizes[kept[i]]],
                     [i \in DOMAIN kept |-> tensor.strides[kept[i]]], tensor.offset)
    PROVE  Whole(tensor') /\ NamesMove
<1>. DEFINE sizes == [i \in DOMAIN kept |-> tensor.sizes[kept[i]]]
            strides == [i \in DOMAIN kept |-> tensor.strides[kept[i]]]
            n == Len(names)
<1>2. k \in Nat /\ DOMAIN kept = 1..k /\ \A i \in 1..k : kept[i] \in 1..n
  BY KeptNames
<1>3. /\ tensor.offset \in Nat
      /\ \A d \in 1..n : tensor.sizes[d] \in Nat \ {0} /\ tensor.strides[d] \in Nat
  BY WholeFacts
<1>. HIDE DEF n
<1>5. sizes \in FullSizes(k) /\ strides \in Sizes(k)
  BY <1>2, <1>3 DEF FullSizes, Sizes
<1>6. \A i \in 1..k : sizes[i] <= tensor.sizes[kept[i]] /\ strides[i] = tensor.strides[kept[i]]
  <2>1. \A i \in 1..k : sizes[i] = tensor.sizes[kept[i]] /\ strides[i] = tensor.strides[kept[i]]
    BY <1>2
  <2>2. \A i \in 1..k : sizes[i] \in Nat
    BY <1>5 DEF FullSizes
  <2>. HIDE DEF sizes, strides
  <2>. QED  BY <2>1, <2>2
<1>. HIDE DEF sizes, strides
<1>7. tensor' = [sizes |-> sizes, strides |-> strides, offset |-> tensor.offset]
  BY StridedResult DEF sizes, strides
<1>8. Whole(tensor')
  BY <1>2, <1>3, <1>5, <1>7, MakeWhole
<1>9. \A i \in 1..k : Kept(kept[i], i)
  BY <1>6, <1>7 DEF Kept
<1>. QED  BY <1>2, <1>8, <1>9, InheritedNames

LEMMA SqueezeFollowsNames ==
    ASSUME NamesInv, Whole(tensor), NEW dims, NEW gone, Squeeze(dims), last # "mixed",
           last' = "view", tensor' # Refused,
           {d \in Dims : d \notin dims \/ Size(d) # 1} = NamedDims \ gone,
           names' = NamesExcept(gone) \/ (gone \cap NamedDims = {} /\ names' = Unnamed(Len(names)))
    PROVE  Whole(tensor') /\ NamesMove
<1>. DEFINE n == Len(names)
            k == Cardinality(NamedDims \ gone)
            kept == Ascending(NamedDims \ gone)
<1>1. AsStrided([i \in DOMAIN kept |-> tensor.sizes[kept[i]]],
                [i \in DOMAIN kept |-> tensor.strides[kept[i]]], tensor.offset)
  BY DEF Squeeze, Size, Stride
<1>2. /\ k \in Nat /\ \A i \in 1..k : kept[i] \in 1..n /\ kept[i] # 0
      /\ Inherits(kept, k, NamesExcept(gone))
  BY KeptNames
<1>3. n \in Nat /\ NamedDims = 1..n
  BY WholeFacts
<1>4. Inherits(kept, k, names')
  <2>1. CASE names' = NamesExcept(gone)
    BY <1>2, <2>1
  <2>2. CASE gone \cap NamedDims = {} /\ names' = Unnamed(n)
    <3>1. NamedDims \ gone = 1..n
      BY <1>3, <2>2
    <3>2. k = n
      <4>. HIDE DEF n
      <4>. QED  BY <1>3, <3>1, IntervalSize
    <3>. HIDE DEF k, kept, n
    <3>. QED  BY <1>2, <2>2, <3>2 DEF Inherits, Origin, Unnamed
  <2>. QED  BY <2>1, <2>2
<1>. QED  BY <1>1, <1>4, KeptMoves

LEMMA NamedSqueezeFollows ==
    ASSUME NamesInv, Whole(tensor), NamedSqueezeAll \/ \E d \in NamedDims : NamedSqueeze(d),
           last # "mixed", tensor' # Refused
    PROVE  Whole(tensor') /\ NamesMove
<1>1. DOMAIN tensor.sizes = NamedDims
  BY InvFacts
<1>2. CASE NamedSqueezeAll
  <2>. DEFINE gone == {d \in NamedDims : tensor.sizes[d] = 1}
  <2>1. {d \in Dims : d \notin NamedDims \/ Size(d) # 1} = NamedDims \ gone
    BY <1>1 DEF Dims, Size
  <2>2. Squeeze(NamedDims) /\ names' = NamesExcept(gone) /\ last' = "view"
    BY <1>2 DEF NamedSqueezeAll
  <2>. HIDE DEF gone
  <2>. QED  BY <2>1, <2>2, SqueezeFollowsNames
<1>3. ASSUME NEW d \in NamedDims, NamedSqueeze(d), tensor.sizes[d] = 1
      PROVE  Whole(tensor') /\ NamesMove
  <2>1. {e \in Dims : e \notin {d} \/ Size(e) # 1} = NamedDims \ {d}
    BY <1>1, <1>3 DEF Dims, Size
  <2>2. Squeeze({d}) /\ names' = NamesExcept({d}) /\ last' = "view"
    BY <1>3 DEF NamedSqueeze
  <2>. QED  BY <2>1, <2>2, SqueezeFollowsNames
<1>4. ASSUME NEW d \in NamedDims, NamedSqueeze(d), tensor.sizes[d] # 1
      PROVE  Whole(tensor') /\ NamesMove
  <2>1. {e \in Dims : e \notin {d} \/ Size(e) # 1} = NamedDims \ {}
    BY <1>1, <1>4 DEF Dims, Size
  <2>2. Squeeze({d}) /\ names' = Unnamed(Len(names)) /\ last' = "view"
    BY <1>4 DEF NamedSqueeze
  <2>. QED  BY <2>1, <2>2, SqueezeFollowsNames
<1>. QED  BY <1>2, <1>3, <1>4

LEMMA ExpandFollows ==
    ASSUME NamesInv, Whole(tensor), NEW size \in BoundedSeq({-1, 2}, MaxDims), NamedExpand(size),
           last # "mixed", tensor' # Refused
    PROVE  Whole(tensor') /\ NamesMove
<1>. DEFINE k == Len(size)
            n == Len(names)
            lead == k - n
            list == [i \in DOMAIN size |-> Padded(names, k, i)]
            g == InferExpandGeometry(tensor, size)
            sizes == g.sizes
            strides == g.strides
            from == [i \in 1..k |-> IF i > lead THEN i - lead ELSE 0]
<1>1. size \in Seq({-1, 2})
  BY BoundsAssumption, BoundedSequence
<1>2. k \in Nat /\ DOMAIN size = 1..k /\ size \in [1..k -> Int]
      /\ \A i \in 1..k : size[i] \in {-1, 2} /\ size[i] \in Nat \cup {-1}
  BY <1>1
<1>3. /\ names' = list /\ CanExpand(tensor, size) /\ last' = "view"
      /\ AsStrided(sizes, strides, tensor.offset)
  BY DEF NamedExpand, Expand
<1>4. /\ n \in Nat /\ Rank(tensor) = n /\ IsView(tensor) /\ tensor.offset \in Nat
      /\ \A d \in 1..n : tensor.sizes[d] \in Nat \ {0}
  <2>1. IsView(tensor)
    <3>1. PICK j \in Nat : tensor \in [sizes : FullSizes(j), strides : Sizes(j), offset : Nat]
      BY DEF Whole
    <3>2. FullSizes(j) \subseteq Sizes(j)
      BY <3>1, FullParts
    <3>3. tensor \in [sizes : Sizes(j), strides : Sizes(j), offset : Nat]
      BY <3>1, <3>2
    <3>. QED  BY <3>3 DEF IsView
  <2>. QED  BY <2>1, WholeFacts
<1>. HIDE DEF sizes, strides, n, k
<1>5. /\ lead \in Nat /\ sizes \in Sizes(k) /\ strides \in Sizes(k)
      /\ \A i \in 1..k : sizes[i] = IF size[i] = -1 THEN OwnSize(tensor, lead, i) ELSE size[i]
      /\ \A i \in lead + 1..k :
            /\ sizes[i] = tensor.sizes[i - lead] \/ tensor.sizes[i - lead] = 1
            /\ sizes[i] = tensor.sizes[i - lead] => strides[i] = tensor.strides[i - lead]
  <2>1. /\ lead = k - Rank(tensor) /\ \A i \in 1..k : size[i] \in Nat \cup {-1}
        /\ IsView(tensor) /\ k \in Nat /\ size \in [1..k -> Int] /\ CanExpand(tensor, size)
    BY <1>2, <1>3, <1>4
  <2>. HIDE DEF lead, g
  <2>2. /\ lead \in Nat /\ g.sizes \in Sizes(k) /\ g.strides \in Sizes(k)
        /\ \A i \in 1..k : g.sizes[i] = IF size[i] = -1 THEN OwnSize(tensor, lead, i) ELSE size[i]
        /\ \A i \in lead + 1..k :
              /\ g.sizes[i] = tensor.sizes[i - lead] \/ tensor.sizes[i - lead] = 1
              /\ g.sizes[i] = tensor.sizes[i - lead] => g.strides[i] = tensor.strides[i - lead]
    BY <2>1, ExpandShape DEF g
  <2>. QED  BY <2>2 DEF sizes, strides
<1>6. \A i \in 1..k : sizes[i] \in Nat \ {0}
  <2>1. ASSUME NEW i \in 1..k  PROVE  OwnSize(tensor, lead, i) \in Nat \ {0}
    BY <1>2, <1>4, <1>5 DEF OwnSize
  <2>. QED  BY <1>2, <1>5, <2>1
<1>7. sizes \in FullSizes(k)
  BY <1>5, <1>6 DEF FullSizes, Sizes
<1>8. Inherits(from, k, names')
  <2>1. from \in [1..k -> 0..n]
    BY <1>2, <1>4, <1>5
  <2>2. ASSUME NEW i \in 1..k
        PROVE  IF from[i] = 0 THEN list[i] = Wildcard ELSE list[i] = names[from[i]]
    <3>1. list[i] = Padded(names, k, i)
      BY <1>2
    <3>. HIDE DEF list
    <3>2. CASE i > lead
      BY <1>2, <1>4, <1>5, <3>1, <3>2 DEF Padded, n
    <3>3. CASE ~(i > lead)
      BY <3>1, <3>3 DEF Padded, n
    <3>. QED  BY <3>2, <3>3
  <2>3. DOMAIN list = 1..k
    BY <1>2
  <2>. HIDE DEF from, list
  <2>. QED  BY <1>3, <2>1, <2>2, <2>3 DEF Inherits, Origin, n
<1>9. \A i \in 1..k : from[i] # 0 =>
         \/ tensor.sizes[from[i]] = 1
         \/ sizes[i] <= tensor.sizes[from[i]] /\ strides[i] = tensor.strides[from[i]]
  <2>1. SUFFICES ASSUME NEW i \in 1..k, from[i] # 0
                 PROVE  \/ tensor.sizes[from[i]] = 1
                        \/ sizes[i] <= tensor.sizes[from[i]] /\ strides[i] = tensor.strides[from[i]]
    BY Zenon
  <2>2. i \in lead + 1..k /\ from[i] = i - lead
    BY <1>2, <1>4, <1>5, <2>1
  <2>3. sizes[i] = tensor.sizes[from[i]] => sizes[i] <= tensor.sizes[from[i]]
    BY <1>6
  <2>. HIDE DEF from, lead
  <2>. QED  BY <1>5, <2>2, <2>3
<1>10. tensor' = [sizes |-> sizes, strides |-> strides, offset |-> tensor.offset]
  BY <1>3, StridedResult
<1>. HIDE DEF from
<1>. QED  BY <1>2, <1>3, <1>4, <1>5, <1>7, <1>8, <1>9, <1>10, ViewMoves

-----------------------------------------------------------------------------
\* A view of other sizes.
\* view computes a stride for each of the sizes asked for.
LEMMA ViewWhole ==
    ASSUME NamesInv, Whole(tensor), NEW m \in Nat, NEW sizes \in FullSizes(m), View(sizes)
    PROVE  /\ Whole(tensor')
           /\ \E strides \in Sizes(m) :
                 /\ strides = ComputeStride(tensor.sizes, tensor.strides, sizes)
                 /\ tensor' = [sizes |-> sizes, strides |-> strides, offset |-> tensor.offset]
<1>. DEFINE n == Len(names)
<1>1. /\ n \in Nat /\ tensor.sizes \in FullSizes(n) /\ tensor.strides \in Sizes(n) /\ tensor.offset \in Nat
  BY WholeFacts
<1>2. PICK strides : strides = ComputeStride(tensor.sizes, tensor.strides, sizes) /\ strides # Refused
                       /\ tensor' = [tensor EXCEPT !.sizes = sizes, !.strides = strides]
  BY DEF View
<1>. HIDE DEF n
<1>3. strides \in Sizes(m)
  BY <1>1, <1>2, ComputedType
<1>4. tensor = [sizes |-> tensor.sizes, strides |-> tensor.strides, offset |-> tensor.offset]
  BY DEF NamesInv
<1>5. tensor' = [sizes |-> sizes, strides |-> strides, offset |-> tensor.offset]
  BY <1>2, <1>4
<1>6. Whole(tensor')
  BY <1>1, <1>3, <1>5, MakeWhole
<1>. QED  BY <1>2, <1>3, <1>5, <1>6

LEMMA FullSeq ==
    ASSUME NEW n \in Nat, NEW s \in FullSizes(n)
    PROVE  s \in Seq(Nat \ {0}) /\ Len(s) = n
BY DEF FullSizes

LEMMA FlattenFollows ==
    ASSUME NamesInv, Whole(tensor), NEW first \in NamedDims, NEW final \in NamedDims,
           NEW out, Flatten(first, final, out)
    PROVE  Whole(tensor') /\ NamesMove
<1>. DEFINE n == Len(names)
            x == Numel(SubSeq(tensor.sizes, first, final))
            sizes == Spliced(tensor.sizes, n, first, final, <<x>>)
            k == first - 1 + 1 + (n - final)
<1>1. /\ n \in Nat /\ NamedDims = 1..n /\ Len(tensor.sizes) = n /\ tensor.sizes \in FullSizes(n)
  BY WholeFacts
<1>2. first < final /\ last' = "other" /\ (View(sizes) \/ Fresh(sizes))
  BY <1>1 DEF Flatten, Spliced
<1>3. x \in Nat \ {0}
  <2>1. first - 1 \in 0..n /\ final \in first - 1..n /\ (first - 1) + 1 = first
    BY <1>1, <1>2
  <2>2. Part(tensor.sizes, first - 1, final) \in Nat \ {0}
    BY <1>1, <2>1, FullParts
  <2>. QED  BY <2>1, <2>2 DEF Part
<1>4. <<x>> \in Seq(Nat \ {0}) /\ Len(<<x>>) = 1
  BY <1>3
<1>5. /\ tensor.sizes \in Seq(Nat \ {0}) /\ first \in 1..n + 1 /\ final \in first - 1..n
      /\ k \in Nat /\ k = first - 1 + Len(<<x>>) + (n - final)
  BY <1>1, <1>2, <1>4, FullSeq
<1>. HIDE DEF x, k, n
<1>6. sizes \in [1..k -> Nat \ {0}]
  BY <1>1, <1>4, <1>5, ReplacedFacts, ZenonT(60)
<1>. HIDE DEF sizes
<1>7. sizes \in FullSizes(k)
  BY <1>6 DEF FullSizes
<1>8. Whole(tensor')
  BY <1>2, <1>5, <1>7, ViewWhole, FreshFacts
<1>. QED  BY <1>2, <1>8 DEF NamesMove, Kept

LEMMA UnflattenFollows ==
    ASSUME NamesInv, Whole(tensor), NEW d \in NamedDims, NEW factors \in Factors(tensor.sizes[d]),
           NEW list, Unflatten(d, factors, list)
    PROVE  Whole(tensor') /\ NamesMove
<1>. DEFINE n == Len(names)
            sizes == Spliced(tensor.sizes, n, d, d, factors)
            k == d - 1 + Len(factors) + (n - d)
<1>1. /\ n \in Nat /\ NamedDims = 1..n /\ Len(tensor.sizes) = n /\ tensor.sizes \in FullSizes(n)
  BY WholeFacts
<1>2. View(sizes) /\ last' = "other"
  BY <1>1 DEF Unflatten, Spliced
<1>3. factors \in Seq(1..StorageSize) /\ StorageSize \in Nat
  BY BoundsAssumption, BoundedSequence DEF Factors
<1>4. factors \in Seq(Nat \ {0}) /\ Len(factors) \in Nat
  <2>1. 1..StorageSize \subseteq Nat \ {0}
    BY <1>3
  <2>. QED  BY <1>3, <2>1, LargerSeq
<1>5. /\ tensor.sizes \in Seq(Nat \ {0}) /\ d \in 1..n + 1 /\ d \in d - 1..n /\ k \in Nat
      /\ k = d - 1 + Len(factors) + (n - d)
  BY <1>1, <1>4, FullSeq
<1>. HIDE DEF k, n
<1>6. sizes \in [1..k -> Nat \ {0}]
  BY <1>1, <1>4, <1>5, ReplacedFacts
<1>. HIDE DEF sizes
<1>7. sizes \in FullSizes(k)
  BY <1>6 DEF FullSizes
<1>8. Whole(tensor')
  BY <1>2, <1>5, <1>7, ViewWhole
<1>. QED  BY <1>2, <1>8 DEF NamesMove, Kept

-----------------------------------------------------------------------------
LEMMA RearrangeFollows ==
    ASSUME NamesInv, Whole(tensor), last # "mixed", last' = "view", tensor' # Refused,
           NEW k \in Nat, NEW source, Inherits(source, k, names'), Rearrange(source)
    PROVE  Whole(tensor') /\ NamesMove
<1>. DEFINE n == Len(names)
            sizes == [i \in DOMAIN source |-> IF source[i] = 0 THEN 1 ELSE tensor.sizes[source[i]]]
            strides == [i \in DOMAIN source |-> IF source[i] = 0 THEN 0 ELSE tensor.strides[source[i]]]
<1>1. AsStrided(sizes, strides, tensor.offset)
  BY DEF Rearrange
<1>2. source \in [1..k -> 0..n] /\ n \in Nat
  BY InvFacts DEF Inherits
<1>3. /\ tensor.offset \in Nat
      /\ \A d \in 1..n : tensor.sizes[d] \in Nat \ {0} /\ tensor.strides[d] \in Nat
  BY WholeFacts
<1>. HIDE DEF n
<1>4. ASSUME NEW i \in 1..k
      PROVE  /\ sizes[i] \in Nat \ {0} /\ strides[i] \in Nat
             /\ source[i] # 0 => /\ sizes[i] = tensor.sizes[source[i]]
                                 /\ strides[i] = tensor.strides[source[i]]
  <2>1. /\ sizes[i] = IF source[i] = 0 THEN 1 ELSE tensor.sizes[source[i]]
        /\ strides[i] = IF source[i] = 0 THEN 0 ELSE tensor.strides[source[i]]
    BY <1>2
  <2>. HIDE DEF sizes, strides
  <2>2. source[i] # 0 => source[i] \in 1..n
    BY <1>2
  <2>. QED  BY <1>3, <2>1, <2>2
<1>5. sizes \in FullSizes(k) /\ strides \in Sizes(k)
  BY <1>2, <1>4 DEF FullSizes, Sizes
<1>. HIDE DEF sizes, strides
<1>6. tensor' = [sizes |-> sizes, strides |-> strides, offset |-> tensor.offset]
  BY <1>1, StridedResult
<1>7. Whole(tensor')
  BY <1>3, <1>5, <1>6, MakeWhole
<1>8. \A i \in 1..k : source[i] # 0 => Kept(source[i], i)
  <2>1. ASSUME NEW i \in 1..k, source[i] # 0  PROVE  Kept(source[i], i)
    <3>1. sizes[i] <= tensor.sizes[source[i]] /\ strides[i] = tensor.strides[source[i]]
      BY <1>4, <2>1
    <3>. QED  BY <1>6, <3>1 DEF Kept
  <2>. QED  BY <2>1
<1>. QED  BY <1>7, <1>8, InheritedNames

\* dimname_to_position finds the dimension that a name is of.
LEMMA PositionFacts ==
    ASSUME NamesInv, NEW name
    PROVE  PositionOrNone(name) \in 0..Len(names) /\ Origin(PositionOrNone(name), name)
<1>. DEFINE n == Len(names)
<1>1. n \in Nat /\ NamedDims = 1..n /\ DOMAIN names = 1..n
  BY InvFacts
<1>. HIDE DEF n
<1>2. CASE HasName(names, name)
  <2>1. \E d \in NamedDims : names[d] = name
    BY <1>1, <1>2 DEF HasName
  <2>2. Position(name) \in NamedDims /\ names[Position(name)] = name
    BY <2>1 DEF Position
  <2>3. PositionOrNone(name) \in 1..n /\ names[PositionOrNone(name)] = name
    BY <1>1, <1>2, <2>2 DEF PositionOrNone
  <2>4. PositionOrNone(name) # 0 /\ PositionOrNone(name) \in 0..n
    BY <1>1, <2>3
  <2>. QED  BY <2>3, <2>4 DEF Origin, n
<1>3. CASE ~HasName(names, name)
  BY <1>1, <1>3 DEF PositionOrNone, Origin, n
<1>. QED  BY <1>2, <1>3

LEMMA AlignToFollows ==
    ASSUME NamesInv, Whole(tensor), NEW list \in NameLists, AlignTo(list),
           last # "mixed", tensor' # Refused
    PROVE  Whole(tensor') /\ NamesMove
<1>. DEFINE k == Len(list)
            source == [i \in DOMAIN list |-> IF list[i] = Wildcard THEN 0 ELSE PositionOrNone(list[i])]
<1>1. k \in Nat /\ DOMAIN list = 1..k
  BY NameListsFacts
<1>2. Rearrange(source) /\ names' = list /\ last' = "view"
  BY DEF AlignTo
<1>3. ASSUME NEW i \in 1..k  PROVE  source[i] \in 0..Len(names) /\ Origin(source[i], list[i])
  <2>1. source[i] = IF list[i] = Wildcard THEN 0 ELSE PositionOrNone(list[i])
    BY <1>1
  <2>. HIDE DEF source
  <2>2. CASE list[i] = Wildcard
    BY <2>1, <2>2, InvFacts DEF Origin
  <2>3. CASE list[i] # Wildcard
    BY <2>1, <2>3, PositionFacts
  <2>. QED  BY <2>2, <2>3
<1>4. source \in [1..k -> 0..Len(names)]
  BY <1>1, <1>3
<1>. HIDE DEF source
<1>5. Inherits(source, k, names')
  BY <1>1, <1>2, <1>3, <1>4 DEF Inherits
<1>. QED  BY <1>1, <1>2, <1>5, RearrangeFollows

\* The elements of a list that two lists are joined to.
LEMMA JoinedAt ==
    ASSUME NEW S, NEW s \in Seq(S), NEW t \in Seq(S)
    PROVE  \A i \in 1..Len(s) + Len(t) :
              (s \o t)[i] = IF i <= Len(s) THEN s[i] ELSE t[i - Len(s)]
OBVIOUS

\* A list with another one put in after its first c elements.
LEMMA SplicedAt ==
    ASSUME NEW S, NEW s \in Seq(S), NEW x \in Seq(S), NEW c \in 0..Len(s),
           NEW i \in 1..Len(s) + Len(x)
    PROVE  Spliced(s, Len(s), c + 1, c, x)[i] =
              IF i <= c THEN s[i] ELSE IF i <= c + Len(x) THEN x[i - c] ELSE s[i - Len(x)]
<1>. DEFINE n == Len(s)
            l == Len(x)
            left == SubSeq(s, 1, c)
            right == SubSeq(s, c + 1, n)
<1>1. n \in Nat /\ l \in Nat /\ c \in 0..n
  OBVIOUS
<1>2. left = [j \in 1..c |-> s[j]] /\ left \in Seq(S) /\ Len(left) = c
  BY <1>1
<1>3. right = [j \in 1..n - c |-> s[c + j]] /\ right \in Seq(S) /\ Len(right) = n - c
  BY <1>1
<1>4. Spliced(s, n, c + 1, c, x) = left \o x \o right
  <2>1. (c + 1) - 1 = c
    BY <1>1
  <2>. QED  BY <2>1 DEF Spliced
<1>. HIDE DEF left, right
<1>5. left \o x \in Seq(S) /\ Len(left \o x) = c + l
      /\ \A j \in 1..c + l : (left \o x)[j] = IF j <= c THEN left[j] ELSE x[j - c]
  BY <1>1, <1>2
<1>. HIDE DEF n, l
<1>6. PICK first \in Seq(S) : first = left \o x /\ Len(first) = c + l
  BY <1>5
<1>7. \A j \in 1..n + l : (first \o right)[j] = IF j <= c + l THEN first[j] ELSE right[j - (c + l)]
  <2>1. Len(first) + Len(right) = n + l
    BY <1>1, <1>3, <1>6
  <2>2. \A j \in 1..Len(first) + Len(right) :
           (first \o right)[j] = IF j <= Len(first) THEN first[j] ELSE right[j - Len(first)]
    BY <1>3, JoinedAt
  <2>. HIDE DEF right
  <2>. QED  BY <1>6, <2>1, <2>2
<1>8. CASE i <= c + l
  <2>1. i \in 1..c + l /\ i \in 1..n + l
    BY <1>1, <1>8 DEF n, l
  <2>2. i <= c => left[i] = s[i]
    BY <1>1, <1>2, <2>1
  <2>. QED  BY <1>4, <1>5, <1>6, <1>7, <1>8, <2>1, <2>2 DEF n, l
<1>9. CASE ~(i <= c + l)
  <2>1. /\ i \in 1..n + l /\ i - (c + l) \in 1..n - c /\ c + (i - (c + l)) = i - l /\ ~(i <= c)
    BY <1>1, <1>9 DEF n, l
  <2>2. right[i - (c + l)] = s[i - l]
    BY <1>3, <2>1
  <2>. QED  BY <1>4, <1>6, <1>7, <1>9, <2>1, <2>2 DEF n, l
<1>. QED  BY <1>8, <1>9

LEMMA AlignToEllipsisFollows ==
    ASSUME NamesInv, Whole(tensor), NEW order \in NameLists, NEW ellipsis \in 0..Len(order),
           AlignToEllipsis(order, ellipsis), last # "mixed", tensor' # Refused
    PROVE  Whole(tensor') /\ NamesMove
<1>. DEFINE n == Len(names)
            m == Len(order)
            mentioned == {PositionOrNone(order[i]) : i \in DOMAIN order}
            dims == NamedDims \ mentioned
            others == Ascending(dims)
            rest == NamesExcept(mentioned)
            c == Cardinality(dims)
            found == [i \in DOMAIN order |-> PositionOrNone(order[i])]
            source == Spliced(found, m, ellipsis + 1, ellipsis, others)
            list == Spliced(order, m, ellipsis + 1, ellipsis, rest)
            k == m + c
<1>1. /\ order \in Seq(Dimname) /\ m \in Nat /\ DOMAIN order = 1..m /\ ellipsis \in 0..m
      /\ n \in Nat /\ NamedDims = 1..n
  BY NameListsFacts, InvFacts
<1>2. \A i \in 1..m : found[i] \in 0..n /\ Origin(found[i], order[i])
  BY <1>1, PositionFacts
<1>3. found \in Seq(0..n) /\ Len(found) = m
  <2>1. found \in [1..m -> 0..n]
    BY <1>1, <1>2
  <2>. HIDE DEF found
  <2>. QED  BY <1>1, <2>1
<1>. HIDE DEF found
<1>4. Rearrange(source) /\ names' = list /\ last' = "view"
  <2>1. rest = [i \in DOMAIN others |-> names[others[i]]]
    BY Zenon DEF NamesExcept
  <2>. HIDE DEF rest, others
  <2>2. /\ Rearrange(SubSeq(found, 1, ellipsis) \o others \o SubSeq(found, ellipsis + 1, Len(found)))
        /\ names' = SubSeq(order, 1, ellipsis) \o rest \o SubSeq(order, ellipsis + 1, Len(order))
        /\ last' = "view"
    BY <2>1, Zenon DEF AlignToEllipsis, others, dims, mentioned, found
  <2>3. (ellipsis + 1) - 1 = ellipsis
    BY <1>1
  <2>. QED  BY <1>3, <2>2, <2>3 DEF Spliced
<1>5. /\ c \in Nat /\ DOMAIN others = 1..c /\ rest \in Seq(Dimname) /\ Len(rest) = c
      /\ \A i \in 1..c : others[i] \in 1..n
      /\ Inherits(others, c, rest)
  <2>. HIDE DEF mentioned
  <2>1. rest \in Seq(Dimname) /\ Len(rest) = c
    BY NamesExceptFacts, Zenon
  <2>2. /\ c \in Nat /\ DOMAIN others = 1..c /\ \A i \in 1..c : others[i] \in 1..n
        /\ Inherits(others, c, rest)
    BY KeptNames, Zenon
  <2>. QED  BY <2>1, <2>2
<1>. HIDE DEF mentioned, dims, others, rest, c
<1>6. others \in Seq(0..n) /\ Len(others) = c /\ \A i \in 1..c : Origin(others[i], rest[i])
  <2>1. others \in [1..c -> 0..n] /\ \A i \in 1..c : Origin(others[i], rest[i])
    BY <1>5 DEF Inherits, n
  <2>. QED  BY <1>5, <2>1
<1>. HIDE DEF m, n
<1>7. k \in Nat /\ Len(found) + Len(others) = k /\ Len(order) + Len(rest) = k
      /\ ellipsis \in 0..Len(found) /\ ellipsis \in 0..Len(order)
  BY <1>1, <1>3, <1>5, <1>6 DEF m
<1>. HIDE DEF source, list
<1>8. ASSUME NEW i \in 1..k
      PROVE  /\ source[i] = IF i <= ellipsis THEN found[i] ELSE
                               IF i <= ellipsis + c THEN others[i - ellipsis] ELSE found[i - c]
             /\ list[i] = IF i <= ellipsis THEN order[i] ELSE
                               IF i <= ellipsis + c THEN rest[i - ellipsis] ELSE order[i - c]
  <2>1. i \in 1..Len(found) + Len(others) /\ i \in 1..Len(order) + Len(rest)
    BY <1>7
  <2>2. source[i] = IF i <= ellipsis THEN found[i] ELSE
                       IF i <= ellipsis + c THEN others[i - ellipsis] ELSE found[i - c]
    BY <1>3, <1>6, <1>7, <2>1, SplicedAt DEF source
  <2>3. list[i] = IF i <= ellipsis THEN order[i] ELSE
                     IF i <= ellipsis + c THEN rest[i - ellipsis] ELSE order[i - c]
    BY <1>1, <1>5, <1>7, <2>1, SplicedAt DEF list, m
  <2>. QED  BY <2>2, <2>3
<1>9. \A i \in 1..k : Origin(source[i], list[i])
  <2>1. ASSUME NEW i \in 1..k  PROVE  Origin(source[i], list[i])
    <3>1. CASE i <= ellipsis
      BY <1>1, <1>2, <1>8, <3>1
    <3>2. CASE ~(i <= ellipsis) /\ i <= ellipsis + c
      <4>1. i - ellipsis \in 1..c
        BY <1>1, <1>5, <3>2
      <4>. QED  BY <1>6, <1>8, <3>2, <4>1
    <3>3. CASE ~(i <= ellipsis) /\ ~(i <= ellipsis + c)
      <4>1. i - c \in 1..m
        BY <1>1, <1>5, <3>3 DEF k
      <4>. QED  BY <1>2, <1>8, <3>3, <4>1
    <3>. QED  BY <3>1, <3>2, <3>3
  <2>. QED  BY <2>1
<1>10. source \in [1..k -> 0..n] /\ DOMAIN list = 1..k
  <2>1. /\ ellipsis + 1 \in 1..m + 1 /\ ellipsis \in (ellipsis + 1) - 1..m
        /\ k = (ellipsis + 1) - 1 + Len(others) + (m - ellipsis)
        /\ k = (ellipsis + 1) - 1 + Len(rest) + (m - ellipsis)
    BY <1>1, <1>5, <1>6
  <2>. HIDE DEF k
  <2>2. source \in [1..k -> 0..n]
    BY <1>1, <1>3, <1>6, <2>1, ReplacedFacts DEF source
  <2>3. list \in [1..k -> Dimname]
    BY <1>1, <1>5, <2>1, ReplacedFacts DEF list, m
  <2>. QED  BY <2>2, <2>3
<1>11. Inherits(source, k, names')
  BY <1>4, <1>9, <1>10 DEF Inherits, n
<1>. QED  BY <1>4, <1>7, <1>11, RearrangeFollows

-----------------------------------------------------------------------------
\* The sizes of an aligned tensor: at position i that of the dimension placed
\* there, or 1.
LEMMA AlignedSizeFacts ==
    ASSUME NamesInv, Whole(tensor), NEW list \in Seq(Dimname)
    PROVE  /\ AlignedSize(list) \in FullSizes(Len(list))
           /\ \A i \in 1..Len(list) :
                 /\ PlacedAt(list, i) \in 0..Len(names)
                 /\ AlignedSize(list)[i] = IF PlacedAt(list, i) = 0 THEN 1
                                           ELSE tensor.sizes[PlacedAt(list, i)]
<1>. DEFINE n == Len(names)
            m == Len(list)
            sizes == AlignedSize(list)
<1>1. n \in Nat /\ names \in Seq(Dimname) /\ \A d \in 1..n : tensor.sizes[d] \in Nat \ {0}
  BY WholeFacts, InvFacts
<1>2. sizes = [i \in 1..m |-> IF PlacedAt(list, i) = 0 THEN 1 ELSE tensor.sizes[PlacedAt(list, i)]]
  <2>1. DOMAIN list = 1..m
    OBVIOUS
  <2>. QED  BY <2>1 DEF AlignedSize
<1>3. \A i \in 1..m : PlacedAt(list, i) # 0 => PlacedAt(list, i) \in 1..n
  BY <1>1, PlacedAtFacts
<1>. HIDE DEF n, m, sizes
<1>4. ASSUME NEW i \in 1..m
      PROVE  /\ PlacedAt(list, i) \in 0..n
             /\ sizes[i] = IF PlacedAt(list, i) = 0 THEN 1 ELSE tensor.sizes[PlacedAt(list, i)]
             /\ sizes[i] \in Nat \ {0}
  <2>1. PICK d : d = PlacedAt(list, i)
    OBVIOUS
  <2>2. d \in 0..n /\ (d # 0 => d \in 1..n)
    BY <1>1, <1>3, <2>1
  <2>. QED  BY <1>1, <1>2, <2>1, <2>2
<1>5. sizes \in FullSizes(m)
  BY <1>2, <1>4 DEF FullSizes
<1>. QED  BY <1>4, <1>5 DEF n, m, sizes

\* What is left to place of the tensor and of the list have the same number of
\* elements behind them.
LEMMA AlignedParts ==
    ASSUME NamesInv, Whole(tensor), NEW list \in Seq(Dimname)
    PROVE  \A k \in 0..Len(list) :
              Part(AlignedSize(list), Len(list) - k, Len(list)) =
              Part(tensor.sizes, ToPlace(list)[k], Len(names))
<1>. DEFINE n == Len(names)
            m == Len(list)
            s == tensor.sizes
            new == AlignedSize(list)
            left == ToPlace(list)
            S == {k \in Nat : k <= m => Part(new, m - k, m) = Part(s, left[k], n)}
<1>1. /\ n \in Nat /\ m \in Nat /\ names \in Seq(Dimname) /\ s \in Terms(n) /\ new \in Terms(m)
      /\ left[0] = n /\ \A k \in 0..m : left[k] \in 0..n
  <2>1. n \in Nat /\ m \in Nat /\ names \in Seq(Dimname) /\ s \in FullSizes(n) /\ new \in FullSizes(m)
    BY WholeFacts, InvFacts, AlignedSizeFacts
  <2>2. left[0] = n /\ \A k \in 0..m : left[k] \in 0..n
    BY <2>1, ToPlaceFacts
  <2>. HIDE DEF n, m, s, new
  <2>. QED  BY <2>1, <2>2, FullParts
<1>2. \A i \in 1..m : new[i] = IF PlacedAt(list, i) = 0 THEN 1 ELSE s[PlacedAt(list, i)]
  BY AlignedSizeFacts
<1>3. \A i \in 1..m : PlacedAt(list, i) # 0 =>
         /\ PlacedAt(list, i) \in 1..n /\ left[m - i] = PlacedAt(list, i)
         /\ left[m - i + 1] = PlacedAt(list, i) - 1
  BY <1>1, PlacedAtFacts
<1>4. \A i \in 1..m : PlacedAt(list, i) = 0 => left[m - i + 1] = left[m - i]
  <2>1. ASSUME NEW i \in 1..m, PlacedAt(list, i) = 0  PROVE  left[m - i + 1] = left[m - i]
    <3>1. PlacedAt(list, i) = IF left[m - i + 1] = left[m - i] THEN 0 ELSE left[m - i]
      BY DEF PlacedAt
    <3>2. left[m - i + 1] = Placed(list, m - i + 1, left[m - i])
      <4>1. m - i + 1 \in 1..m /\ (m - i + 1) - 1 = m - i
        BY <1>1
      <4>. QED  BY <1>1, <4>1, ToPlaceFacts
    <3>. HIDE DEF left
    <3>3. ASSUME left[m - i] = 0  PROVE  left[m - i + 1] = left[m - i]
      BY <3>2, <3>3 DEF Placed
    <3>. QED  BY <2>1, <3>1, <3>3
  <2>. QED  BY <2>1
<1>. HIDE DEF n, m, s, new, left
<1>5. 0 \in S
  <2>1. Part(new, m, m) = 1 /\ Part(s, n, n) = 1 /\ m - 0 = m
    BY <1>1, PartLast
  <2>. QED  BY <1>1, <2>1
<1>6. ASSUME NEW k \in Nat, k \in S  PROVE  k + 1 \in S
  <2>1. SUFFICES ASSUME k + 1 <= m  PROVE  Part(new, m - (k + 1), m) = Part(s, left[k + 1], n)
    OBVIOUS
  <2>2. PICK i \in 1..m : i = m - k /\ i - 1 = m - (k + 1) /\ m - i = k /\ m - i + 1 = k + 1
    BY <1>1, <2>1
  <2>3. Part(new, i, m) = Part(s, left[k], n)
    BY <1>1, <1>6, <2>1, <2>2
  <2>4. Part(new, i - 1, m) = new[i] * Part(new, i, m) /\ Part(new, i, m) \in Int
    <3>1. m \in i..m /\ i \in 0..m
      BY <1>1
    <3>. QED  BY <1>1, <3>1, PartFirst, PartLast
  <2>5. CASE PlacedAt(list, i) = 0
    <3>1. new[i] = 1 /\ left[k + 1] = left[k]
      BY <1>2, <1>4, <2>2, <2>5
    <3>. QED  BY <2>2, <2>3, <2>4, <3>1
  <2>6. CASE PlacedAt(list, i) # 0
    <3>1. PICK d \in 1..n : new[i] = s[d] /\ left[k] = d /\ left[k + 1] = d - 1
      BY <1>2, <1>3, <2>2, <2>6
    <3>2. Part(s, d - 1, n) = s[d] * Part(s, d, n)
      <4>1. n \in d..n
        BY <1>1
      <4>. QED  BY <1>1, <4>1, PartFirst
    <3>. QED  BY <2>2, <2>3, <2>4, <3>1, <3>2
  <2>. QED  BY <2>5, <2>6
<1>. HIDE DEF S
<1>7. Nat \subseteq S
  BY <1>5, <1>6, SetInduction
<1>8. ASSUME NEW k \in 0..m  PROVE  Part(new, m - k, m) = Part(s, left[k], n)
  BY <1>1, <1>7 DEF S
<1>. QED  BY <1>8 DEF n, m, s, new, left

\* Strides that visit the same elements are those of the dimensions placed.
LEMMA AlignedStride ==
    ASSUME NamesInv, Whole(tensor), NEW list \in Seq(Dimname), ToPlace(list)[Len(list)] = 0,
           ComputeStride(tensor.sizes, tensor.strides, AlignedSize(list)) # Refused,
           NEW i \in 1..Len(list), NEW d \in 1..Len(names), d = PlacedAt(list, i),
           tensor.sizes[d] # 1
    PROVE  ComputeStride(tensor.sizes, tensor.strides, AlignedSize(list))[i] = tensor.strides[d]
<1>. DEFINE n == Len(names)
            m == Len(list)
            s == tensor.sizes
            st == tensor.strides
            new == AlignedSize(list)
            left == ToPlace(list)
            c == ComputeStride(s, st, new)
<1>1. /\ n \in Nat \ {0} /\ m \in Nat /\ names \in Seq(Dimname) /\ s \in FullSizes(n)
      /\ st \in Sizes(n) /\ new \in FullSizes(m)
  BY WholeFacts, InvFacts, AlignedSizeFacts
<1>2. new[i] = s[d]
  BY AlignedSizeFacts
<1>3. left[m - i] = d /\ left[m] = 0
  <2>1. PlacedAt(list, i) # 0
    BY <1>1
  <2>2. ToPlace(list)[Len(list) - i] = PlacedAt(list, i)
    BY <1>1, <2>1, PlacedAtFacts
  <2>. QED  BY <2>2
<1>4. \A k \in 0..m : Part(new, m - k, m) = Part(s, left[k], n)
  BY AlignedParts
<1>5. i \in 1..m /\ d \in 1..n /\ s[d] # 1 /\ c # Refused
  OBVIOUS
<1>. SUFFICES c[i] = st[d]
  OBVIOUS
<1>. HIDE DEF n, m, s, st, new, left
<1>6. m \in 0..m /\ m - m = 0 /\ m - i \in 0..m /\ m - (m - i) = i
  BY <1>1, <1>5
<1>7. Part(s, 0, n) = Part(new, 0, m) /\ Part(s, d, n) = Part(new, i, m)
  BY <1>3, <1>4, <1>6
<1>8. c \in Sizes(m) /\ SameSums(s, n, st, 0, new, m, c, 0)
  BY <1>1, <1>5, <1>7, ViewOfFull
<1>9. c \in Terms(m) /\ st \in Terms(n)
  <2>. HIDE DEF c
  <2>. QED  BY <1>1, <1>8, SizesAreTerms
<1>. HIDE DEF c
<1>10. PICK k \in Nat : k = Part(s, d, n)
  BY <1>1, <1>5, FullParts
<1>11. Total(Moves(s, n, st, k)) = Total(Moves(new, m, c, k))
  <2>1. PICK f \in Terms(n) : f = Moves(s, n, st, k)
    BY <1>1, <1>9, MovesType
  <2>2. PICK g \in Terms(m) : g = Moves(new, m, c, k)
    BY <1>1, <1>9, MovesType
  <2>3. PartSum(f, 0, n) = Total(f) /\ PartSum(g, 0, m) = Total(g)
    <3>1. 0 \in 0..n /\ n \in 0..n /\ 0 \in 0..m /\ m \in 0..m /\ n \in Nat
      BY <1>1
    <3>. QED  BY <1>1, <3>1, SumType
  <2>. QED  BY <1>8, <2>1, <2>2, <2>3 DEF SameSums
<1>12. Total(Moves(s, n, st, k)) = st[d]
  BY <1>1, <1>5, <1>9, <1>10, StepOf
<1>13. Total(Moves(new, m, c, k)) = c[i]
  BY <1>1, <1>2, <1>5, <1>7, <1>9, <1>10, StepOf
<1>. QED  BY <1>11, <1>12, <1>13

LEMMA AlignTensorsFollows ==
    ASSUME NamesInv, Whole(tensor), NEW list \in NameLists, AlignTensors(list), last # "mixed"
    PROVE  Whole(tensor') /\ NamesMove
<1>. DEFINE n == Len(names)
            m == Len(list)
            from == [i \in 1..m |-> PlacedAt(list, i)]
            sizes == AlignedSize(list)
<1>1. /\ list \in Seq(Dimname) /\ Distinct(list) /\ m \in Nat /\ DOMAIN list = 1..m
      /\ names \in Seq(Dimname) /\ n \in Nat /\ NamedDims = 1..n
  BY NameListsFacts, InvFacts
<1>2. View(sizes) /\ names' = list /\ last' = "view" /\ ToPlace(list)[m] = 0
  BY DEF AlignTensors, Aligns
<1>3. /\ sizes \in FullSizes(m)
      /\ \A i \in 1..m : /\ PlacedAt(list, i) \in 0..n
                         /\ sizes[i] = IF PlacedAt(list, i) = 0 THEN 1
                                       ELSE tensor.sizes[PlacedAt(list, i)]
  BY <1>1, AlignedSizeFacts
<1>. HIDE DEF sizes
<1>4. PICK strides \in Sizes(m) :
         /\ strides = ComputeStride(tensor.sizes, tensor.strides, sizes)
         /\ tensor' = [sizes |-> sizes, strides |-> strides, offset |-> tensor.offset]
  BY <1>1, <1>2, <1>3, ViewWhole
<1>5. Whole(tensor')
  BY <1>1, <1>2, <1>3, ViewWhole
<1>6. ASSUME NEW i \in 1..m  PROVE  Origin(from[i], list[i])
  <2>1. from[i] = PlacedAt(list, i)
    OBVIOUS
  <2>2. CASE PlacedAt(list, i) # 0
    BY <1>1, <2>1, <2>2, PlacedAtFacts DEF Origin
  <2>3. CASE PlacedAt(list, i) = 0
    <3>1. SUFFICES ASSUME list[i] # Wildcard, NEW d \in 1..n, names[d] = list[i]  PROVE  FALSE
      BY <1>1, <2>1, <2>3 DEF Origin, HasName
    <3>2. PICK j \in 1..m : PlacedAt(list, j) = d
      BY <1>1, <1>2, WalkPlacesAll
    <3>3. names[d] = list[j]
      BY <1>1, <3>2, PlacedAtFacts
    <3>4. i = j
      BY <1>1, <3>1, <3>3 DEF Distinct
    <3>. QED  BY <1>1, <2>3, <3>2, <3>4
  <2>. QED  BY <2>2, <2>3
<1>7. ASSUME NEW i \in 1..m, from[i] # 0  PROVE  Kept(from[i], i)
  <2>1. PICK d \in 1..n : d = PlacedAt(list, i) /\ d = from[i] /\ sizes[i] = tensor.sizes[d]
    BY <1>1, <1>3, <1>7
  <2>2. tensor.sizes[d] \in Nat
    BY WholeFacts
  <2>3. ASSUME tensor.sizes[d] # 1  PROVE  strides[i] = tensor.strides[d]
    <3>1. strides # Refused
      BY <1>2, <1>4 DEF View
    <3>. QED  BY <1>1, <1>2, <1>4, <2>1, <2>3, <3>1, AlignedStride DEF sizes
  <2>4. tensor'.sizes[i] <= tensor.sizes[d]
    BY <1>4, <2>1, <2>2
  <2>. QED  BY <1>2, <1>4, <2>1, <2>3, <2>4 DEF Kept
<1>8. from \in [1..m -> 0..n]
  BY <1>3
<1>9. Inherits(from, m, names')
  BY <1>1, <1>2, <1>6, <1>8 DEF Inherits
<1>10. \A i \in 1..m : from[i] # 0 => Kept(from[i], i)
  BY <1>7
<1>. HIDE DEF from
<1>. QED  BY <1>1, <1>5, <1>9, <1>10, InheritedNames

-----------------------------------------------------------------------------
LEMMA ReduceFollows ==
    ASSUME NamesInv, Whole(tensor), NEW dims \in SUBSET NamedDims, NEW keepdim \in BOOLEAN,
           Reduce(dims, keepdim), last # "mixed"
    PROVE  Whole(tensor') /\ NamesMove
<1>. DEFINE reduced == IF dims = {} THEN NamedDims ELSE dims
            kept == Ascending(NamedDims \ reduced)
            n == Len(names)
            k == Cardinality(NamedDims \ reduced)
            all == [d \in NamedDims |-> IF d \in reduced THEN 1 ELSE tensor.sizes[d]]
            some == [i \in DOMAIN kept |-> tensor.sizes[kept[i]]]
            left == IF dims = {} THEN <<>> ELSE NamesExcept(dims)
            same == [e \in 1..n |-> e]
<1>1. /\ last' = "copy"
      /\ \/ Fresh(all) /\ names' = names
         \/ Fresh(some) /\ names' = left
  BY Zenon DEF Reduce
<1>2. /\ n \in Nat /\ NamedDims = 1..n /\ DOMAIN names = 1..n
      /\ \A d \in 1..n : tensor.sizes[d] \in Nat \ {0}
  BY WholeFacts
<1>3. /\ k \in Nat /\ DOMAIN kept = 1..k /\ \A i \in 1..k : kept[i] \in 1..n /\ kept[i] # 0
      /\ Inherits(kept, k, NamesExcept(reduced))
  BY KeptNames, Zenon
<1>4. Inherits(kept, k, left)
  <2>1. CASE dims = {}
    <3>1. k = 0
      BY <2>1, FS_EmptySet
    <3>2. left = <<>>
      BY <2>1
    <3>. HIDE DEF k, left, kept
    <3>3. kept \in [1..0 -> 0..Len(names)] /\ DOMAIN left = 1..0
      BY <1>3, <3>1, <3>2 DEF Inherits
    <3>. QED  BY <3>1, <3>3 DEF Inherits
  <2>2. CASE dims # {}
    BY <1>3, <2>2, Zenon
  <2>. QED  BY <2>1, <2>2
<1>5. CASE Fresh(all) /\ names' = names
  <2>1. all \in FullSizes(n) /\ \A e \in 1..n : all[e] \in {tensor.sizes[e], 1}
    BY <1>2 DEF FullSizes
  <2>2. same \in [1..n -> 0..n] /\ \A e \in 1..n : same[e] = e
    BY <1>2
  <2>. HIDE DEF all, same
  <2>3. Inherits(same, n, names')
    BY <1>2, <1>5, <2>2 DEF Inherits, Origin
  <2>4. \A e \in 1..n : same[e] # 0 => all[e] \in {tensor.sizes[same[e]], 1}
    BY <2>1, <2>2
  <2>. QED  BY <1>1, <1>2, <1>5, <2>1, <2>3, <2>4, CopyMoves
<1>6. CASE Fresh(some) /\ names' = left
  <2>. HIDE DEF kept, k, n, left
  <2>1. some \in FullSizes(k) /\ \A e \in 1..k : some[e] = tensor.sizes[kept[e]]
    BY <1>2, <1>3 DEF FullSizes
  <2>. HIDE DEF some
  <2>2. Inherits(kept, k, names')
    BY <1>4, <1>6
  <2>3. \A e \in 1..k : kept[e] # 0 => some[e] \in {tensor.sizes[kept[e]], 1}
    BY <2>1
  <2>. QED  BY <1>1, <1>3, <1>6, <2>1, <2>2, <2>3, CopyMoves
<1>. QED  BY <1>1, <1>5, <1>6

\* Where the names come from that names unify to: at its position is the
\* dimension, if it has one, that the name is of.
Unified(size) ==
    [e \in 1..size |-> IF Padded(names, size, e) = Wildcard THEN 0 ELSE e - (size - Len(names))]

LEMMA UnifiedOrigins ==
    ASSUME NamesInv, NEW other \in Seq(Dimname), UnifiesFromRight(names, other)
    PROVE  LET size == Longer(Len(names), Len(other))
           IN  Inherits(Unified(size), size, UnifyFromRight(names, other))
<1>. DEFINE n == Len(names)
            size == Longer(n, Len(other))
            list == UnifyFromRight(names, other)
            from == Unified(size)
<1>1. /\ names \in Seq(Dimname) /\ n \in Nat /\ size \in Nat /\ n <= size /\ DOMAIN names = 1..n
  BY InvFacts, LongerIsLonger
<1>2. /\ list \in Seq(Dimname) /\ Len(list) = size
      /\ \A e \in 1..size : list[e] = Unify(Padded(names, size, e), Padded(other, size, e))
  BY <1>1, UnifiedFacts
<1>3. \A e \in 1..size :
         /\ Matches(Padded(names, size, e), Padded(other, size, e))
         /\ Padded(names, size, e) = Wildcard => ~Misaligned(Padded(other, size, e), names)
  BY DEF UnifiesFromRight
<1>. HIDE DEF list, size, n
<1>4. ASSUME NEW e \in 1..size  PROVE  from[e] \in 0..n /\ Origin(from[e], list[e])
  <2>1. from[e] = IF Padded(names, size, e) = Wildcard THEN 0 ELSE e - (size - n)
    BY DEF Unified, n
  <2>. HIDE DEF from
  <2>2. CASE Padded(names, size, e) = Wildcard
    <3>1. list[e] = Padded(other, size, e) /\ from[e] = 0
      BY <1>2, <2>1, <2>2 DEF Unify
    <3>. QED  BY <1>1, <1>3, <2>2, <3>1 DEF Origin, Misaligned
  <2>3. CASE Padded(names, size, e) # Wildcard
    <3>1. e - (size - n) \in 1..n /\ Padded(names, size, e) = names[e - (size - n)]
      BY <1>1, <2>3, PaddedName DEF n
    <3>2. list[e] = Padded(names, size, e)
      BY <1>2, <1>3, <2>3 DEF Matches, Unify
    <3>3. from[e] \in 1..n /\ list[e] = names[from[e]]
      BY <2>1, <2>3, <3>1, <3>2
    <3>. QED  BY <1>1, <3>3 DEF Origin
  <2>. QED  BY <2>2, <2>3
<1>5. from \in [1..size -> 0..n] /\ DOMAIN list = 1..size
  <2>1. from = [e \in 1..size |-> from[e]]
    BY DEF Unified
  <2>2. DOMAIN list = 1..size
    BY <1>2
  <2>. HIDE DEF from
  <2>. QED  BY <1>4, <2>1, <2>2
<1>6. Inherits(from, size, list)
  BY <1>4, <1>5 DEF Inherits, n
<1>. QED  BY <1>6 DEF list, size, n

LEMMA UnifyingFollows ==
    ASSUME NamesInv, Whole(tensor), NEW other \in NameLists, last # "mixed",
           Broadcast(other) \/ UpdateInPlace(other) \/ MaskedFill(other) \/ Cat(other)
    PROVE  Whole(tensor') /\ NamesMove
<1>. DEFINE n == Len(names)
            m == Len(other)
            size == Longer(n, m)
            from == Unified(size)
<1>1. /\ n \in Nat /\ m \in Nat /\ size \in Nat /\ n <= size /\ other \in Seq(Dimname)
      /\ names \in Seq(Dimname) /\ DOMAIN names = 1..n
      /\ (m <= n => size = n) /\ tensor.sizes \in FullSizes(n) /\ Len(tensor.sizes) = n
      /\ \A d \in 1..n : tensor.sizes[d] \in Nat \ {0}
  <2>1. /\ n \in Nat /\ m \in Nat /\ other \in Seq(Dimname)
        /\ names \in Seq(Dimname) /\ DOMAIN names = 1..n
        /\ tensor.sizes \in FullSizes(n) /\ Len(tensor.sizes) = n
        /\ \A d \in 1..n : tensor.sizes[d] \in Nat \ {0}
    BY NameListsFacts, WholeFacts, InvFacts
  <2>2. size \in Nat /\ n <= size
    BY <2>1, LongerIsLonger
  <2>3. m <= n => size = n
    BY <2>1 DEF Longer
  <2>. QED  BY <2>1, <2>2, <2>3
<1>2. CASE UpdateInPlace(other)
  BY <1>2 DEF UpdateInPlace, NamesMove, Kept
<1>3. CASE Broadcast(other) \/ MaskedFill(other) \/ Cat(other)
  <2>1. /\ UnifiesFromRight(names, other) /\ names' = UnifyFromRight(names, other)
        /\ last' = "copy"
    BY <1>3 DEF Broadcast, MaskedFill, Cat
  <2>2. Inherits(from, size, names')
    BY <1>1, <2>1, UnifiedOrigins
  <2>3. \A e \in 1..size : from[e] # 0 =>
           /\ from[e] = e - (size - n) /\ e - (size - n) \in 1..n
    <3>1. ASSUME NEW e \in 1..size, from[e] # 0
          PROVE  from[e] = e - (size - n) /\ e - (size - n) \in 1..n
      <4>1. from[e] = IF Padded(names, size, e) = Wildcard THEN 0 ELSE e - (size - n)
        BY DEF Unified
      <4>. HIDE DEF from
      <4>2. Padded(names, size, e) # Wildcard
        BY <3>1, <4>1
      <4>. HIDE DEF size
      <4>. QED  BY <1>1, <4>1, <4>2, PaddedName
    <3>. QED  BY <3>1
  <2>. HIDE DEF from
  <2>4. CASE Broadcast(other)
    <3>. DEFINE sizes == BroadcastSizes(size)
    <3>1. Fresh(sizes)
      BY <2>4 DEF Broadcast
    <3>2. sizes = [i \in 1..size |-> IF i > size - n THEN tensor.sizes[i - (size - n)] ELSE 1]
      BY <1>1 DEF BroadcastSizes
    <3>. HIDE DEF sizes, size, n
    <3>3. ASSUME NEW i \in 1..size
          PROVE  /\ sizes[i] \in Nat \ {0}
                 /\ i - (size - n) \in 1..n => sizes[i] = tensor.sizes[i - (size - n)]
      <4>1. CASE i > size - n
        <5>1. i - (size - n) \in 1..n
          BY <1>1, <4>1
        <5>. QED  BY <1>1, <3>2, <4>1, <5>1
      <4>2. CASE ~(i > size - n)
        <5>1. i - (size - n) \notin 1..n
          BY <1>1, <4>2
        <5>. QED  BY <3>2, <4>2, <5>1
      <4>. QED  BY <4>1, <4>2
    <3>4. sizes \in FullSizes(size)
      BY <3>2, <3>3 DEF FullSizes
    <3>5. \A e \in 1..size : from[e] # 0 => sizes[e] \in {tensor.sizes[from[e]], 1}
      BY <2>3, <3>3
    <3>. QED  BY <1>1, <2>1, <2>2, <3>1, <3>4, <3>5, CopyMoves
  <2>5. CASE MaskedFill(other) \/ Cat(other)
    <3>1. Fresh(tensor.sizes) /\ m <= n
      BY <1>1, <2>5 DEF MaskedFill, Cat
    <3>2. size = n
      BY <1>1, <3>1
    <3>. HIDE DEF size, n
    <3>3. \A e \in 1..n : e - (n - n) = e
      BY <1>1
    <3>4. \A e \in 1..n : from[e] # 0 => tensor.sizes[e] \in {tensor.sizes[from[e]], 1}
      BY <2>3, <3>2, <3>3
    <3>. QED  BY <1>1, <2>1, <2>2, <3>1, <3>2, <3>4, CopyMoves
  <2>. QED  BY <1>3, <2>4, <2>5
<1>. QED  BY <1>2, <1>3

-----------------------------------------------------------------------------
\* Positions counted from the right, in two lists of which one is as long as m.
LEMMA LinedUp ==
    ASSUME NEW b \in Nat, NEW c \in Nat, NEW m \in {b, c}, b <= m, c <= m, NEW d \in 1..b,
           NEW e, e = (m - b) + d, ~((m - b) + d <= m - c)
    PROVE  LET i == e - (m - b) - (m - c)
           IN  /\ i \in 1..(b + c - m) /\ e - (m - c) \in 1..c
               /\ b - (b + c - m) + i = d /\ c - (b + c - m) + i = e - (m - c)
OBVIOUS

\* A batch of a product has the name of the tensor's batch that it is, or one
\* that the tensor does not have: TensorName looks for it in the whole list.
LEMMA BatchAt ==
    ASSUME NEW list \in Seq(Dimname), NEW other \in Seq(Dimname),
           UnifiesInplace(Batch(list), Batch(other)),
           NEW lead, lead = Longer(NumBatchDims(list), NumBatchDims(other)) - NumBatchDims(list),
           NEW d \in 1..NumBatchDims(list)
    PROVE  LET name == UnifyInplace(Batch(list), Batch(other))[lead + d]
           IN  /\ list[d] # Wildcard => name = list[d]
               /\ list[d] = Wildcard /\ name # Wildcard => ~HasName(list, name)
<1>. DEFINE b == NumBatchDims(list)
            c == NumBatchDims(other)
            x == ToDimnameVec(Batch(list))
            y == ToDimnameVec(Batch(other))
            m == Longer(b, c)
            behind == m - c
            e == lead + d
<1>1. /\ b \in Nat /\ Len(Batch(list)) = b /\ x \in Seq(Dimname) /\ Len(x) = b
      /\ \A i \in 1..b : Batch(list)[i] = [name |-> list[i], origin |-> list] /\ x[i] = list[i]
  BY BatchFacts
<1>2. /\ c \in Nat /\ Len(Batch(other)) = c /\ y \in Seq(Dimname) /\ Len(y) = c
      /\ \A i \in 1..c : Batch(other)[i] = [name |-> other[i], origin |-> other] /\ y[i] = other[i]
  BY BatchFacts
<1>3. m \in Nat /\ b <= m /\ c <= m /\ m \in {b, c} /\ lead = m - b /\ d \in 1..b
  BY <1>1, <1>2, LongerIsLonger
<1>4. \A i \in 1..(b + c - m) : TensorNamesMatch(Batch(list)[b - (b + c - m) + i],
                                               Batch(other)[c - (b + c - m) + i])
  BY <1>1, <1>2 DEF UnifiesInplace
<1>5. \A i \in 1..m : UnifyInplace(Batch(list), Batch(other))[i] = Unify(Padded(x, m, i), Padded(y, m, i))
  <2>. HIDE DEF x, y, b, c
  <2>1. \A i \in 1..m : UnifyFromRight(x, y)[i] = Unify(Padded(x, m, i), Padded(y, m, i))
    <3>1. \A i \in 1..Longer(Len(x), Len(y)) : UnifyFromRight(x, y)[i] =
             Unify(Padded(x, Longer(Len(x), Len(y)), i), Padded(y, Longer(Len(x), Len(y)), i))
      BY <1>1, <1>2, UnifiedFacts
    <3>2. Longer(Len(x), Len(y)) = m
      BY <1>1, <1>2
    <3>. HIDE DEF m
    <3>. QED  BY <3>1, <3>2
  <2>2. UnifyInplace(Batch(list), Batch(other)) = UnifyFromRight(x, y)
    BY DEF UnifyInplace, x, y
  <2>. QED  BY <2>1, <2>2
<1>. HIDE DEF b, c, x, y, m
<1>6. e \in 1..m /\ lead \in Nat /\ e > m - b /\ e - (m - b) = d
  BY <1>1, <1>2, <1>3
<1>. HIDE DEF e
<1>7. Padded(x, m, e) = list[d]
  BY <1>1, <1>3, <1>6 DEF Padded
<1>8. UnifyInplace(Batch(list), Batch(other))[e] = Unify(list[d], Padded(y, m, e))
  BY <1>5, <1>6, <1>7
<1>9. CASE e <= behind
  <2>1. Padded(y, m, e) = Wildcard
    BY <1>2, <1>3, <1>6, <1>9 DEF Padded
  <2>. QED  BY <1>8, <2>1 DEF Unify, e
<1>10. CASE ~(e <= behind)
  <2>1. PICK i \in 1..(b + c - m) : i = e - lead - behind /\ e - behind \in 1..c
            /\ b - (b + c - m) + i = d /\ c - (b + c - m) + i = e - behind
    <3>1. e = (m - b) + d /\ lead = m - b /\ ~((m - b) + d <= m - c)
      BY <1>3, <1>10 DEF e
    <3>2. m \in {b, c} /\ b <= m /\ c <= m /\ b \in Nat /\ c \in Nat /\ d \in 1..b
      BY <1>1, <1>2, <1>3
    <3>. HIDE DEF e, behind
    <3>3. /\ e - (m - b) - (m - c) \in 1..(b + c - m) /\ e - (m - c) \in 1..c
          /\ b - (b + c - m) + (e - (m - b) - (m - c)) = d
          /\ c - (b + c - m) + (e - (m - b) - (m - c)) = e - (m - c)
      BY <3>1, <3>2, LinedUp
    <3>4. behind = m - c
      BY DEF behind
    <3>5. /\ e - lead - behind \in 1..(b + c - m) /\ e - behind \in 1..c
          /\ b - (b + c - m) + (e - lead - behind) = d
          /\ c - (b + c - m) + (e - lead - behind) = e - behind
      BY <3>1, <3>3, <3>4
    <3>. QED  BY <3>5
  <2>2. Padded(y, m, e) = other[e - behind]
    <3>1. Padded(y, m, e) = IF e > behind THEN y[e - behind] ELSE Wildcard
      BY <1>2 DEF Padded
    <3>2. e > behind
      BY <1>2, <1>3, <1>6, <1>10
    <3>3. y[e - behind] = other[e - behind]
      BY <1>2, <2>1
    <3>. QED  BY <3>1, <3>2, <3>3
  <2>3. TensorNamesMatch([name |-> list[d], origin |-> list],
                         [name |-> other[e - behind], origin |-> other])
    BY <1>1, <1>2, <1>3, <1>4, <2>1
  <2>4. /\ Matches(list[d], other[e - behind])
        /\ list[d] = Wildcard /\ other[e - behind] # Wildcard => ~HasName(list, other[e - behind])
    BY <2>3 DEF TensorNamesMatch
  <2>. HIDE DEF behind
  <2>. QED  BY <1>8, <2>2, <2>4 DEF Unify, Matches, e
<1>. QED  BY <1>9, <1>10

\* The elements of three lists, one after the other.
ThreeParts(out, s, t, u) ==
    /\ Len(out) = Len(s) + Len(t) + Len(u)
    /\ \A i \in 1..Len(s) + Len(t) + Len(u) :
          out[i] = IF i <= Len(s) THEN s[i]
                   ELSE IF i <= Len(s) + Len(t) THEN t[i - Len(s)]
                   ELSE u[i - (Len(s) + Len(t))]

LEMMA JoinedThree ==
    ASSUME NEW S, NEW s \in Seq(S), NEW t \in Seq(S), NEW u \in Seq(S)
    PROVE  s \o t \o u \in Seq(S) /\ ThreeParts(s \o t \o u, s, t, u)
<1>1. PICK v \in Seq(S) : v = s \o t /\ Len(v) = Len(s) + Len(t)
  BY ConcatFacts
<1>2. \A i \in 1..Len(s) + Len(t) : v[i] = IF i <= Len(s) THEN s[i] ELSE t[i - Len(s)]
  BY <1>1, JoinedAt
<1>3. v \o u \in Seq(S) /\ Len(v \o u) = Len(v) + Len(u)
  BY ConcatFacts
<1>4. \A i \in 1..Len(v) + Len(u) : (v \o u)[i] = IF i <= Len(v) THEN v[i] ELSE u[i - Len(v)]
  BY JoinedAt
<1>5. Len(s) \in Nat /\ Len(t) \in Nat /\ Len(u) \in Nat
  OBVIOUS
<1>6. ASSUME NEW i \in 1..Len(s) + Len(t) + Len(u)
      PROVE  (v \o u)[i] = IF i <= Len(s) THEN s[i]
                           ELSE IF i <= Len(s) + Len(t) THEN t[i - Len(s)]
                           ELSE u[i - (Len(s) + Len(t))]
  <2>1. (v \o u)[i] = IF i <= Len(s) + Len(t) THEN v[i] ELSE u[i - (Len(s) + Len(t))]
    BY <1>1, <1>4
  <2>2. i <= Len(s) + Len(t) => i \in 1..Len(s) + Len(t)
    BY <1>5
  <2>3. i <= Len(s) => i <= Len(s) + Len(t)
    BY <1>5
  <2>. QED  BY <1>2, <2>1, <2>2, <2>3
<1>. QED  BY <1>1, <1>3, <1>6 DEF ThreeParts

\* The sizes of a product.
LEMMA ProductSizes ==
    ASSUME NamesInv, Whole(tensor), NEW other \in Seq(Dimname), NEW outnames, NEW kind,
           Product(other, outnames, kind),
           UnifyInplace(Batch(names), Batch(other)) \in Seq(Dimname),
           Len(UnifyInplace(Batch(names), Batch(other))) =
              Longer(NumBatchDims(names), NumBatchDims(other))
    PROVE  LET n == Len(names)
               m == Len(UnifyInplace(Batch(names), Batch(other)))
               lead == m - NumBatchDims(names)
               r == Extent(names)
           IN  /\ Whole(tensor') /\ names' = outnames /\ last' \in {kind, "mixed"}
               /\ \A e \in 1..m + r + Extent(other) :
                     /\ e > lead /\ e <= m => tensor'.sizes[e] = tensor.sizes[e - lead]
                     /\ e > m /\ e <= m + r => tensor'.sizes[e] = tensor.sizes[n - 1]
                     /\ e <= lead \/ e > m + r => tensor'.sizes[e] = 1
<1>. DEFINE n == Len(names)
            batch == UnifyInplace(Batch(names), Batch(other))
            b == NumBatchDims(names)
            m == Len(batch)
            lead == m - b
            r == Extent(names)
            c == Extent(other)
            k == m + r + c
            s1 == [i \in DOMAIN batch |-> IF i > lead THEN tensor.sizes[i - lead] ELSE 1]
            s2 == IF n < 2 THEN <<>> ELSE <<tensor.sizes[n - 1]>>
            s3 == IF Len(other) < 2 THEN <<>> ELSE <<1>>
            sizes == s1 \o s2 \o s3
            S == Nat \ {0}
<1>1. names' = outnames /\ last' \in {kind, "mixed"} /\ Fresh(sizes)
  BY Zenon DEF Product
<1>2. /\ n \in Nat /\ \A d \in 1..n : tensor.sizes[d] \in S
      /\ names \in Seq(Dimname)
  BY WholeFacts, InvFacts
<1>3. b \in Nat /\ b <= n /\ m \in Nat /\ b <= m /\ DOMAIN batch = 1..m
  <2>1. b \in Nat /\ b <= n /\ NumBatchDims(other) \in Nat
    BY <1>2, BatchFacts
  <2>2. b <= m
    <3>. HIDE DEF b, batch
    <3>. QED  BY <2>1, LongerIsLonger DEF b, batch
  <2>3. m \in Nat /\ DOMAIN batch = 1..m
    <3>. HIDE DEF batch
    <3>. QED  BY DEF batch
  <2>. QED  BY <2>1, <2>2, <2>3
<1>. HIDE DEF batch, b, m
<1>4. /\ s1 \in Seq(S) /\ Len(s1) = m
      /\ \A e \in 1..m : s1[e] = IF e > lead THEN tensor.sizes[e - lead] ELSE 1
  <2>1. ASSUME NEW e \in 1..m
        PROVE  /\ s1[e] = IF e > lead THEN tensor.sizes[e - lead] ELSE 1
               /\ s1[e] \in S
    <3>1. s1[e] = IF e > lead THEN tensor.sizes[e - lead] ELSE 1
      BY <1>3
    <3>2. e > lead => e - lead \in 1..n
      BY <1>2, <1>3
    <3>. HIDE DEF lead, s1, n
    <3>. QED  BY <1>2, <3>1, <3>2
  <2>2. s1 = [e \in 1..m |-> s1[e]]
    BY <1>3
  <2>. HIDE DEF s1
  <2>3. s1 \in [1..m -> S]
    BY <2>1, <2>2
  <2>. QED  BY <1>3, <2>1, <2>3
<1>5. s2 \in Seq(S) /\ Len(s2) = r /\ (r # 0 => r = 1 /\ s2[1] = tensor.sizes[n - 1])
  <2>1. CASE n < 2
    BY <2>1 DEF Extent
  <2>2. CASE ~(n < 2)
    <3>1. n - 1 \in 1..n
      BY <1>2, <2>2
    <3>2. s2 = <<tensor.sizes[n - 1]>> /\ tensor.sizes[n - 1] \in S
      BY <1>2, <2>2, <3>1
    <3>3. r = 1
      BY <2>2 DEF Extent
    <3>. HIDE DEF s2, S
    <3>. QED  BY <3>2, <3>3, ShortLists
  <2>. QED  BY <2>1, <2>2
<1>6. s3 \in Seq(S) /\ Len(s3) = c /\ (c # 0 => c = 1 /\ s3[1] = 1)
  <2>1. CASE Len(other) < 2
    BY <2>1 DEF Extent
  <2>2. CASE ~(Len(other) < 2)
    BY <2>2 DEF Extent
  <2>. QED  BY <2>1, <2>2
<1>7. r \in {0, 1} /\ c \in {0, 1}
  BY DEF Extent
<1>. HIDE DEF s1, s2, s3, S, r, c
<1>8. /\ sizes \in Seq(S) /\ Len(sizes) = m + r + c
      /\ \A e \in 1..m + r + c :
            sizes[e] = IF e <= m THEN s1[e] ELSE IF e <= m + r THEN s2[e - m] ELSE s3[e - (m + r)]
  <2>1. s1 \in Seq(S) /\ s2 \in Seq(S) /\ s3 \in Seq(S)
    BY <1>4, <1>5, <1>6
  <2>2. sizes \in Seq(S) /\ ThreeParts(sizes, s1, s2, s3)
    BY <2>1, JoinedThree, Zenon
  <2>. HIDE DEF sizes
  <2>. QED  BY <1>4, <1>5, <1>6, <2>2 DEF ThreeParts
<1>. HIDE DEF sizes
<1>9. k \in Nat /\ sizes \in FullSizes(k)
  BY <1>3, <1>7, <1>8 DEF FullSizes, S
<1>. HIDE DEF k
<1>10. Whole(tensor') /\ tensor'.sizes = sizes
  BY <1>1, <1>9, FreshFacts
<1>11. ASSUME NEW e \in 1..m + r + c
       PROVE  /\ e > lead /\ e <= m => sizes[e] = tensor.sizes[e - lead]
              /\ e > m /\ e <= m + r => sizes[e] = tensor.sizes[n - 1]
              /\ e <= lead \/ e > m + r => sizes[e] = 1
  <2>1. CASE e <= m
    <3>1. e \in 1..m /\ ~(e > m) /\ ~(e > m + r)
      BY <1>3, <1>7, <2>1
    <3>. HIDE DEF lead
    <3>2. ~(e > lead /\ e <= lead)
      BY <1>3 DEF lead
    <3>. QED  BY <1>4, <1>8, <2>1, <3>1, <3>2
  <2>2. CASE ~(e <= m) /\ e <= m + r
    <3>1. e - m = 1 /\ r # 0 /\ ~(e > m + r) /\ ~(e <= lead)
      BY <1>3, <1>7, <2>2
    <3>. QED  BY <1>5, <1>8, <2>2, <3>1
  <2>3. CASE ~(e <= m) /\ ~(e <= m + r)
    <3>1. e - (m + r) = 1 /\ c # 0
      BY <1>3, <1>7, <2>3
    <3>. QED  BY <1>6, <1>8, <2>3, <3>1
  <2>. QED  BY <2>1, <2>2, <2>3
<1>. QED  BY <1>1, <1>10, <1>11 DEF n, batch, b, m, r, c

\* The names of a product: those of the batches, of the tensor's rows and of
\* the other's columns, and perhaps some that a bias gives it.
LEMMA ProductFollows ==
    ASSUME NamesInv, Whole(tensor), last # "mixed", NEW other \in NameLists,
           UnifiesInplace(Batch(names), Batch(other)),
           NEW column \in Seq(Dimname), Len(column) = Extent(other),
           NEW product \in Seq(Dimname),
           ThreeParts(product, UnifyInplace(Batch(names), Batch(other)), Row(names), column),
           NEW outnames, DOMAIN outnames = 1..Len(product),
           NEW kind \in {"copy", "biased"}, Product(other, outnames, kind),
           \A e \in 1..Len(product) :
              \/ outnames[e] = product[e]
              \/ kind = "biased" /\ (outnames[e] # Wildcard => ~HasName(product, outnames[e]))
    PROVE  Whole(tensor') /\ NamesMove
<1>. DEFINE n == Len(names)
            batch == UnifyInplace(Batch(names), Batch(other))
            row == Row(names)
            b == NumBatchDims(names)
            m == Len(batch)
            lead == m - b
            r == Extent(names)
            c == Extent(other)
            k == m + r + c
<1>1. /\ n \in Nat /\ names \in Seq(Dimname) /\ DOMAIN names = 1..n /\ Distinct(names)
      /\ other \in Seq(Dimname) /\ Distinct(other) /\ batch \in Seq(Dimname)
      /\ m = Longer(b, NumBatchDims(other))
  <2>1. /\ n \in Nat /\ names \in Seq(Dimname) /\ DOMAIN names = 1..n /\ Distinct(names)
        /\ other \in Seq(Dimname) /\ Distinct(other)
    BY InvFacts, FactorsFacts
  <2>. QED  BY <2>1, BatchesUnify
<1>2. b \in Nat /\ b <= m /\ m \in Nat /\ lead \in Nat /\ b = (IF n <= 2 THEN 0 ELSE n - 2)
  <2>1. b \in Nat /\ NumBatchDims(other) \in Nat /\ b = (IF n <= 2 THEN 0 ELSE n - 2)
    BY <1>1, BatchFacts DEF NumBatchDims
  <2>2. b <= m /\ m \in Nat
    <3>. HIDE DEF b, m
    <3>. QED  BY <1>1, <2>1, LongerIsLonger
  <2>. HIDE DEF b, m
  <2>. QED  BY <2>1, <2>2
<1>3. row \in Seq(Dimname) /\ Len(row) = r /\ r = (IF n < 2 THEN 0 ELSE 1) /\ c \in {0, 1}
  BY <1>1, RowColumnFacts DEF Extent
<1>4. r # 0 => row[1] = names[n - 1]
  <2>1. r # 0 => row = <<names[n - 1]>>
    BY <1>1, <1>3 DEF Row
  <2>. HIDE DEF row
  <2>. QED  BY <2>1
<1>5. \A d \in 1..b : /\ names[d] # Wildcard => batch[lead + d] = names[d]
                      /\ names[d] = Wildcard /\ batch[lead + d] # Wildcard =>
                            ~HasName(names, batch[lead + d])
  BY <1>1, BatchAt
<1>6. /\ Whole(tensor') /\ names' = outnames /\ last' \in {kind, "mixed"}
      /\ \A e \in 1..k :
            /\ e > lead /\ e <= m => tensor'.sizes[e] = tensor.sizes[e - lead]
            /\ e > m /\ e <= m + r => tensor'.sizes[e] = tensor.sizes[n - 1]
            /\ e <= lead \/ e > m + r => tensor'.sizes[e] = 1
  BY <1>1, ProductSizes
<1>. HIDE DEF n, batch, row, b, m, lead, r, c
<1>7. /\ Len(product) = k
      /\ \A e \in 1..k :
            product[e] = IF e <= m THEN batch[e] ELSE IF e <= m + r THEN row[e - m] ELSE column[e - (m + r)]
  <2>1. ThreeParts(product, batch, row, column) /\ Len(column) = c /\ Len(batch) = m
    BY DEF batch, row, c, m
  <2>. QED  BY <1>3, <2>1 DEF ThreeParts
<1>8. k \in Nat /\ r \in {0, 1} /\ DOMAIN product = 1..k
  <2>1. k \in Nat /\ r \in {0, 1}
    BY <1>2, <1>3
  <2>. QED  BY <1>7, <2>1
<1>. HIDE DEF k
<1>9. SUFFICES ASSUME NEW d \in 1..n, NEW e \in 1..k, names[d] = outnames[e], names[d] # Wildcard
               PROVE  Kept(d, e)
  BY <1>1, <1>6, <1>7 DEF NamesMove
<1>10. last' \in {"copy", "biased", "mixed"}
  BY <1>6
<1>11. ASSUME NEW f \in 1..n, names[f] = names[d]  PROVE  f = d
  BY <1>1, <1>9, <1>11 DEF Distinct
<1>12. CASE outnames[e] = product[e]
  <2>1. CASE e <= lead \/ e > m + r
    BY <1>6, <1>10, <2>1 DEF Kept
  <2>2. CASE e > lead /\ e <= m
    <3>0. e - lead \in 1..b /\ lead + (e - lead) = e
      <4>1. e \in Int /\ e > m - b /\ e <= m /\ b \in Nat /\ m \in Nat /\ lead = m - b
        BY <1>2, <1>8, <2>2 DEF lead
      <4>. QED  BY <4>1
    <3>1. PICK f \in 1..b : f = e - lead /\ lead + f = e
      BY <3>0
    <3>2. f \in 1..n /\ product[e] = batch[e]
      BY <1>1, <1>2, <1>7, <2>2, <3>1
    <3>3. HasName(names, batch[e]) /\ batch[e] # Wildcard
      BY <1>1, <1>9, <1>12, <3>2 DEF HasName
    <3>4. names[f] = names[d]
      BY <1>5, <1>9, <1>12, <3>1, <3>2, <3>3
    <3>5. f = d
      BY <1>11, <3>2, <3>4
    <3>. QED  BY <1>6, <1>10, <2>2, <3>1, <3>5 DEF Kept
  <2>3. CASE e > m /\ e <= m + r
    <3>1. e - m = 1 /\ r # 0 /\ ~(e <= m)
      BY <1>2, <1>8, <2>3
    <3>2. n - 1 \in 1..n
      BY <1>1, <1>3, <3>1
    <3>3. product[e] = names[n - 1]
      BY <1>4, <1>7, <2>3, <3>1
    <3>4. n - 1 = d
      BY <1>9, <1>11, <1>12, <3>2, <3>3
    <3>. QED  BY <1>6, <1>10, <2>3, <3>4 DEF Kept
  <2>4. e <= lead \/ (e > lead /\ e <= m) \/ (e > m /\ e <= m + r) \/ e > m + r
    <3>1. lead \in Nat /\ m \in Nat /\ e \in Int /\ r \in Int
      BY <1>2, <1>8
    <3>. QED  BY <3>1
  <2>. QED  BY <2>1, <2>2, <2>3, <2>4
<1>13. CASE outnames[e] # product[e]
  <2>1. kind = "biased" /\ ~HasName(product, names[d])
    BY <1>7, <1>9, <1>13
  <2>2. d = n
    <3>1. SUFFICES ASSUME d # n  PROVE  HasName(product, names[d])
      BY <2>1
    <3>2. CASE d <= b
      <4>1. d \in 1..b /\ lead + d \in 1..k /\ lead + d <= m
        BY <1>2, <1>3, <1>8, <3>2 DEF lead, k
      <4>2. product[lead + d] = names[d]
        BY <1>5, <1>7, <1>9, <4>1
      <4>. QED  BY <1>8, <4>1, <4>2 DEF HasName
    <3>3. CASE d > b
      <4>1. d = n - 1 /\ r = 1
        BY <1>1, <1>2, <1>3, <3>1, <3>3
      <4>2. m + 1 \in 1..k /\ ~(m + 1 <= m) /\ m + 1 <= m + r /\ (m + 1) - m = 1
        BY <1>2, <1>3, <4>1 DEF k
      <4>3. product[m + 1] = names[d]
        BY <1>4, <1>7, <4>1, <4>2
      <4>. QED  BY <1>8, <4>2, <4>3 DEF HasName
    <3>. QED  BY <1>2, <3>2, <3>3
  <2>3. last' \in {"biased", "mixed"}
    BY <1>6, <2>1
  <2>. QED  BY <2>2, <2>3 DEF Kept, n
<1>. QED  BY <1>12, <1>13

\* What a bias adds to the names of a product is not in them yet.
LEMMA BiasAdds ==
    ASSUME NEW product \in Seq(Dimname), Len(product) <= MaxDims, NEW outnames \in Biased(product)
    PROVE  /\ DOMAIN outnames = 1..Len(product)
           /\ \A i \in 1..Len(product) :
                 \/ outnames[i] = product[i]
                 \/ outnames[i] # Wildcard => ~HasName(product, outnames[i])
<1>. DEFINE size == Len(product)
<1>1. PICK bias \in ListsOf[size] :
         UnifiesFromRight(product, bias) /\ outnames = UnifyFromRight(product, bias)
  BY DEF Biased
<1>2. bias \in Seq(Dimname) /\ Len(bias) = size /\ size \in Nat
  <2>1. size \in 0..MaxDims
    BY BoundsAssumption
  <2>. HIDE DEF size
  <2>. QED  BY <1>1, <2>1, NameListsFacts
<1>3. Longer(Len(product), Len(bias)) = size
  BY <1>2 DEF Longer
<1>4. /\ DOMAIN outnames = 1..Longer(Len(product), Len(bias))
      /\ \A i \in 1..Longer(Len(product), Len(bias)) :
            outnames[i] = Unify(Padded(product, Longer(Len(product), Len(bias)), i),
                                Padded(bias, Longer(Len(product), Len(bias)), i))
  BY <1>1, <1>2, UnifiedFacts
<1>5. \A i \in 1..Longer(Len(product), Len(bias)) :
         LET x == Padded(product, Longer(Len(product), Len(bias)), i)
             y == Padded(bias, Longer(Len(product), Len(bias)), i)
         IN  Matches(x, y) /\ (x = Wildcard => ~Misaligned(y, product))
  BY <1>1 DEF UnifiesFromRight
<1>. HIDE DEF size
<1>6. ASSUME NEW i \in 1..size
      PROVE  \/ outnames[i] = product[i]
             \/ outnames[i] # Wildcard => ~HasName(product, outnames[i])
  <2>1. Padded(product, size, i) = product[i] /\ Padded(bias, size, i) = bias[i]
    BY <1>2, FullLength DEF size
  <2>2. /\ outnames[i] = Unify(product[i], bias[i]) /\ Matches(product[i], bias[i])
        /\ product[i] = Wildcard => ~Misaligned(bias[i], product)
    BY <1>3, <1>4, <1>5, <2>1
  <2>. QED  BY <2>2 DEF Unify, Matches, Misaligned
<1>. QED  BY <1>3, <1>4, <1>6 DEF size

LEMMA ProductsFollow ==
    ASSUME NamesInv, Whole(tensor), NEW other \in NameLists, last # "mixed",
           Matmul(other) \/ Addmm(other) \/ Cdist(other)
    PROVE  Whole(tensor') /\ NamesMove
<1>. DEFINE batch == UnifyInplace(Batch(names), Batch(other))
            matmul == MatmulOutnames(names, other)
            cdist == CdistOutnames(names, other)
<1>1. /\ UnifiesInplace(Batch(names), Batch(other)) /\ batch \in Seq(Dimname)
      /\ Matmul(other) \/ Addmm(other) => MatmulNamesMatch(names, other)
  <2>1. Matmul(other) \/ Addmm(other) => MatmulNamesMatch(names, other)
    BY DEF Matmul, Addmm
  <2>2. UnifiesInplace(Batch(names), Batch(other))
    BY <2>1 DEF MatmulNamesMatch, Cdist, CdistNamesMatch
  <2>. QED  BY <2>1, <2>2, FactorsFacts
<1>2. /\ Row(names) \in Seq(Dimname)
      /\ Column(other) \in Seq(Dimname) /\ Len(Column(other)) = Extent(other)
      /\ Row(other) \in Seq(Dimname) /\ Len(Row(other)) = Extent(other)
  <2>1. names \in Seq(Dimname) /\ other \in Seq(Dimname)
    BY <1>1, FactorsFacts
  <2>. QED  BY <2>1, RowColumnFacts
<1>3. /\ matmul \in Seq(Dimname) /\ ThreeParts(matmul, batch, Row(names), Column(other))
      /\ cdist \in Seq(Dimname) /\ ThreeParts(cdist, batch, Row(names), Row(other))
  <2>1. /\ matmul = batch \o Row(names) \o Column(other)
        /\ cdist = batch \o Row(names) \o Row(other)
    BY DEF MatmulOutnames, CdistOutnames
  <2>. HIDE DEF batch, matmul, cdist
  <2>2. /\ batch \o Row(names) \o Column(other) \in Seq(Dimname)
        /\ ThreeParts(batch \o Row(names) \o Column(other), batch, Row(names), Column(other))
        /\ batch \o Row(names) \o Row(other) \in Seq(Dimname)
        /\ ThreeParts(batch \o Row(names) \o Row(other), batch, Row(names), Row(other))
    BY <1>1, <1>2, JoinedThree, Zenon
  <2>. QED  BY <2>1, <2>2, Zenon
<1>4. DOMAIN matmul = 1..Len(matmul) /\ DOMAIN cdist = 1..Len(cdist)
  <2>. HIDE DEF matmul, cdist
  <2>. QED  BY <1>3
<1>5. CASE Matmul(other)
  <2>1. Product(other, matmul, "copy")
    BY <1>5 DEF Matmul
  <2>. HIDE DEF matmul, cdist
  <2>2. /\ Column(other) \in Seq(Dimname) /\ Len(Column(other)) = Extent(other)
        /\ matmul \in Seq(Dimname) /\ ThreeParts(matmul, batch, Row(names), Column(other))
        /\ DOMAIN matmul = 1..Len(matmul)
    BY <1>2, <1>3, <1>4
  <2>. QED  BY <1>1, <2>1, <2>2, ProductFollows
<1>6. CASE Cdist(other)
  <2>1. Product(other, cdist, "copy")
    BY <1>6 DEF Cdist
  <2>. HIDE DEF matmul, cdist
  <2>2. /\ Row(other) \in Seq(Dimname) /\ Len(Row(other)) = Extent(other)
        /\ cdist \in Seq(Dimname) /\ ThreeParts(cdist, batch, Row(names), Row(other))
        /\ DOMAIN cdist = 1..Len(cdist)
    BY <1>2, <1>3, <1>4
  <2>. QED  BY <1>1, <2>1, <2>2, ProductFollows
<1>7. CASE Addmm(other)
  <2>1. /\ <<Len(names), Len(other)>> \in {<<2, 2>>, <<2, 1>>, <<3, 3>>}
        /\ \E outnames \in Biased(matmul) :
              Product(other, outnames, IF outnames = matmul THEN "copy" ELSE "biased")
    BY <1>7 DEF Addmm
  <2>2. PICK outnames \in Biased(matmul) :
           Product(other, outnames, IF outnames = matmul THEN "copy" ELSE "biased")
    BY <2>1
  <2>3. Len(matmul) <= MaxDims
    <3>. DEFINE n == Len(names)
                m == Len(other)
    <3>1. 2 <= n /\ m <= n
      <4>. HIDE DEF n, m
      <4>1. (n = 2 /\ m = 2) \/ (n = 2 /\ m = 1) \/ (n = 3 /\ m = 3)
        BY <2>1 DEF n, m
      <4>. QED  BY <4>1
    <3>2. Len(matmul) \in 0..MaxDims
      BY <1>1, <1>7, <3>1, MatmulLength
    <3>. HIDE DEF matmul
    <3>. QED  BY <3>2
  <2>. HIDE DEF matmul
  <2>4. /\ DOMAIN outnames = 1..Len(matmul)
        /\ \A i \in 1..Len(matmul) :
              \/ outnames[i] = matmul[i]
              \/ outnames[i] # Wildcard => ~HasName(matmul, outnames[i])
    BY <1>3, <2>3, BiasAdds
  <2>5. PICK kind : kind = IF outnames = matmul THEN "copy" ELSE "biased"
    OBVIOUS
  <2>6. kind \in {"copy", "biased"} /\ Product(other, outnames, kind)
    BY <2>2, <2>5
  <2>7. \A i \in 1..Len(matmul) :
           \/ outnames[i] = matmul[i]
           \/ kind = "biased" /\ (outnames[i] # Wildcard => ~HasName(matmul, outnames[i]))
    BY <2>4, <2>5
  <2>8. /\ Column(other) \in Seq(Dimname) /\ Len(Column(other)) = Extent(other)
        /\ matmul \in Seq(Dimname) /\ ThreeParts(matmul, batch, Row(names), Column(other))
        /\ DOMAIN outnames = 1..Len(matmul)
    BY <1>2, <1>3, <2>4
  <2>9. UnifiesInplace(Batch(names), Batch(other))
    BY <1>1
  <2>. QED  BY <2>6, <2>7, <2>8, <2>9, ProductFollows
<1>. QED  BY <1>5, <1>6, <1>7

-----------------------------------------------------------------------------
LEMMA WholeInit == NamedInit => Whole(tensor)
<1>1. SUFFICES ASSUME NamedInit  PROVE  Whole(tensor)
  OBVIOUS
<1>2. PICK sizes \in BoundedSeq(1..StorageSize, MaxDims) :
         tensor = [sizes |-> sizes, strides |-> RowMajor(sizes), offset |-> 0]
  BY <1>1 DEF NamedInit
<1>. DEFINE n == Len(sizes)
<1>3. sizes \in Seq(1..StorageSize) /\ StorageSize \in Nat
  BY BoundsAssumption, BoundedSequence
<1>4. n \in Nat /\ sizes \in FullSizes(n)
  <2>1. n \in Nat /\ sizes \in [1..n -> 1..StorageSize]
    BY <1>3
  <2>2. \A x \in 1..StorageSize : x \in Nat \ {0}
    BY <1>3
  <2>. HIDE DEF n
  <2>. QED  BY <2>1, <2>2 DEF FullSizes
<1>. HIDE DEF n
<1>5. RowMajor(sizes) \in Sizes(n)
  BY <1>4, FullParts, RowMajorType
<1>. QED  BY <1>2, <1>4, <1>5, MakeWhole

LEMMA NamesMoveStep ==
    ASSUME NamesInv, Whole(tensor), NamedNext
    PROVE  Whole(tensor') /\ NamesMove
<1>1. last # "mixed" /\ tensor' # Refused
  BY DEF NamedNext
<1>2. CASE \E list \in ListsOf[Len(names)] : Rename(list) \/ RefineNames(list)
  <2>1. last' = "other" /\ UNCHANGED tensor
    BY <1>2 DEF Rename, RefineNames
  <2>. QED  BY <2>1 DEF NamesMove, Kept
<1>3. CASE \E d1, d2 \in NamedDims : d1 # d2 /\ NamedTranspose(d1, d2)
  BY <1>1, <1>3, TransposeFollows
<1>4. CASE \E d \in NamedDims : NamedSelect(d) \/ NamedSlice(d) \/ NamedSqueeze(d)
  BY <1>1, <1>4, SelectFollows, SliceFollows, NamedSqueezeFollows
<1>5. CASE NamedSqueezeAll
  BY <1>1, <1>5, NamedSqueezeFollows
<1>6. CASE \E size \in BoundedSeq({-1, 2}, MaxDims) : NamedExpand(size)
  BY <1>1, <1>6, ExpandFollows
<1>7. CASE \E first, final \in NamedDims, out \in Dimname : Flatten(first, final, out)
  BY <1>7, FlattenFollows
<1>8. CASE \E d \in NamedDims : \E sizes \in Factors(tensor.sizes[d]) :
             \E list \in ListsOf[Len(sizes)] : Unflatten(d, sizes, list)
  BY <1>8, UnflattenFollows
<1>9. CASE \E list \in NameLists : AlignTensors(list) \/ AlignTo(list)
  BY <1>1, <1>9, AlignTensorsFollows, AlignToFollows
<1>10. CASE \E order \in NameLists : \E ellipsis \in 0..Len(order) : AlignToEllipsis(order, ellipsis)
  BY <1>1, <1>10, AlignToEllipsisFollows
<1>11. CASE \E dims \in SUBSET NamedDims, keepdim \in BOOLEAN : Reduce(dims, keepdim)
  BY <1>1, <1>11, ReduceFollows
<1>12. CASE \E other \in NameLists :
              \/ Broadcast(other) \/ UpdateInPlace(other) \/ MaskedFill(other)
              \/ Cat(other) \/ Matmul(other) \/ Addmm(other) \/ Cdist(other)
  BY <1>1, <1>12, UnifyingFollows, ProductsFollow
<1>. QED  BY <1>2, <1>3, <1>4, <1>5, <1>6, <1>7, <1>8, <1>9, <1>10, <1>11, <1>12 DEF NamedNext

\* A name stays with the elements it stands for: wherever an operation moves a
\* dimension, its name is where its size is, and in a view its stride; and every
\* result has as many names as dimensions and none of them twice, but for products
\* of batches that are named like their rows or columns.
THEOREM NamesStayWithDims == NamedSpec => NamesFollowDims
<1>. DEFINE Inv == NamesInv /\ Whole(tensor)
            Unique == Len(names) = Len(tensor.sizes) /\ (Distinct(names) \/ last = "mixed")
            Result == /\ Len(names') = Len(tensor'.sizes)
                      /\ Distinct(names') \/ last' = "mixed"
                      /\ NamesMove
<1>1. NamedInit => Inv
  BY NamesInvInit, WholeInit
<1>2. Inv /\ [NamedNext]_namedVars => Inv'
  <2>1. ASSUME Inv, UNCHANGED namedVars  PROVE  Whole(tensor')
    BY <2>1 DEF namedVars
  <2>2. ASSUME Inv, NamedNext  PROVE  Whole(tensor')
    BY <2>2, NamesMoveStep
  <2>. QED  BY <2>1, <2>2, NamesInvStep
<1>. HIDE DEF Unique
<1>0. NamesInv => Unique
  BY InvFacts DEF NamesInv, Unique
<1>3. NamesInv' => Unique'
  BY <1>0, PTL
<1>4. Inv /\ [NamedNext]_namedVars => [Result]_namedVars
  <2>1. SUFFICES ASSUME Inv, NamedNext  PROVE  Result
    OBVIOUS
  <2>2. NamesInv'
    BY <2>1, NamesInvStep
  <2>3. Len(names') = Len(tensor'.sizes) /\ (Distinct(names') \/ last' = "mixed")
    BY <1>3, <2>2 DEF Unique
  <2>4. NamesMove
    BY <2>1, NamesMoveStep
  <2>. QED  BY <2>3, <2>4
<1>. QED  BY <1>1, <1>2, <1>4, PTL DEF NamedSpec, NamesFollowDims, NamesMove, Kept
=============================================================================
