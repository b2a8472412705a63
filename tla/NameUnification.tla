--------------------------- MODULE NameUnification ---------------------------
(***************************************************************************)
(* How the names of the dimensions of two tensors are matched.  A list of  *)
(* names has one name per dimension, the wildcard (None) for a dimension   *)
(* without, and no full name twice.  Lists are lined up at their last      *)
(* dimension, as broadcasting lines up sizes.                              *)
(*                                                                         *)
(* There are two implementations, at::unify_from_right for whole lists and *)
(* TensorNames for parts of them.  Each is stated as the condition under   *)
(* which it does not throw and the list that it returns.                   *)
(***************************************************************************)
EXTENDS Integers, Sequences, FiniteSets

CONSTANTS Names,    \* the symbols of full names
          Wildcard  \* Dimname::wildcard()

ASSUME NamesAssumption == Wildcard \notin Names

Dimname == Names \cup {Wildcard}

\* check_unique_names.
Distinct(list) ==
    \A i, j \in DOMAIN list : list[i] = list[j] /\ list[i] # Wildcard => i = j

HasName(list, name) == \E i \in DOMAIN list : list[i] = name

\* Dimname::matches and unify.
Matches(a, b) == a = Wildcard \/ b = Wildcard \/ a = b
Unify(a, b) == IF b = Wildcard THEN a ELSE b

-----------------------------------------------------------------------------
Longer(m, n) == IF m > n THEN m ELSE n

\* The i-th name of a list of "size" names that ends in these.
Padded(list, size, i) ==
    LET lead == size - Len(list) IN IF i > lead THEN list[i - lead] ELSE Wildcard

\* check_for_misalignment.
Misaligned(name, others) == name # Wildcard /\ HasName(others, name)

\* Faulty variant: names are compared position by position only.
UnifiesByPosition(list, other) ==
    LET size == Longer(Len(list), Len(other))
    IN  \A i \in 1..size : Matches(Padded(list, size, i), Padded(other, size, i))

\* unify_from_right: names at the same position match, and one that meets a
\* wildcard has no other position in the other list.
UnifiesFromRight(list, other) ==
    LET size == Longer(Len(list), Len(other))
    IN  \A i \in 1..size :
            LET a == Padded(list, size, i)
                b == Padded(other, size, i)
            IN  /\ Matches(a, b)
                /\ a = Wildcard \/ b = Wildcard => ~Misaligned(a, other) /\ ~Misaligned(b, list)

UnifyFromRight(list, other) ==
    LET size == Longer(Len(list), Len(other))
    IN  [i \in 1..size |-> Unify(Padded(list, size, i), Padded(other, size, i))]

-----------------------------------------------------------------------------
\* TensorNames(list, 0, end): the first names of a list, each with the list it
\* is from.
TensorNames(list, end) == [i \in 1..end |-> [name |-> list[i], origin |-> list]]

ToDimnameVec(tn) == [i \in DOMAIN tn |-> tn[i].name]

\* TensorName::unify: a name that meets a wildcard is not elsewhere in the list
\* the wildcard is from.
TensorNamesMatch(x, y) ==
    /\ Matches(x.name, y.name)
    /\ x.name # Wildcard /\ y.name = Wildcard => ~HasName(y.origin, x.name)
    /\ x.name = Wildcard /\ y.name # Wildcard => ~HasName(x.origin, y.name)

\* TensorNames::unifyFromRightInplace: the names of the longer list before
\* those of the shorter are taken as they are.
UnifiesInplace(tn, other) ==
    LET size == Longer(Len(tn), Len(other))
        common == Len(tn) + Len(other) - size
    IN  \A i \in 1..common : TensorNamesMatch(tn[Len(tn) - common + i],
                                              other[Len(other) - common + i])

\* Whichever of two names is taken, only its name is asked for afterwards.
UnifyInplace(tn, other) == UnifyFromRight(ToDimnameVec(tn), ToDimnameVec(other))

-----------------------------------------------------------------------------
NumBatchDims(list) == IF Len(list) <= 2 THEN 0 ELSE Len(list) - 2

Batch(list) == TensorNames(list, NumBatchDims(list))

\* The rows of a matrix, the columns of another; vectors are contracted away.
Row(list) == IF Len(list) >= 2 THEN <<list[Len(list) - 1]>> ELSE <<>>
Column(list) == IF Len(list) >= 2 THEN <<list[Len(list)]>> ELSE <<>>

\* compute_matmul_outnames, and check_feature_names_are_distinct.
MatmulOutnames(list, other) ==
    UnifyInplace(Batch(list), Batch(other)) \o Row(list) \o Column(other)

MatmulNamesMatch(list, other) ==
    /\ Len(list) >= 1 /\ Len(other) >= 1
    /\ UnifiesInplace(Batch(list), Batch(other))
    /\ Len(list) >= 2 /\ Len(other) >= 2 => Distinct(Row(list) \o Column(other))

\* compute_cdist_outnames, and checkUnique.
CdistOutnames(list, other) ==
    UnifyInplace(Batch(list), Batch(other)) \o Row(list) \o Row(other)

CdistNamesMatch(list, other) ==
    /\ UnifiesInplace(Batch(list), Batch(other))
    /\ Distinct(CdistOutnames(list, other))
=============================================================================
