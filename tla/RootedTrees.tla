----------------------------- MODULE RootedTrees -----------------------------
(***************************************************************************)
(* The rooted trees of aten_trees (rooted_trees.py), of which each becomes *)
(* an attention head, and the tensor contractions of their elementary      *)
(* differentials (elementary_differentials.py).  A tree is the sequence of *)
(* its subtrees, sorted as Python sorts tuples, so that equal trees are    *)
(* equal sequences.                                                        *)
(*                                                                         *)
(* First the generator lists the trees of each order; then a caller makes  *)
(* a tree of its own, node by node, to which the lists and coefficients    *)
(* are compared.                                                           *)
(***************************************************************************)
EXTENDS Naturals, Sequences, FiniteSetsExt, SequencesExt, Combinatorics

CONSTANTS MaxOrder,  \* max_order
          MaxNodes   \* bound on the nodes of the caller's tree

ASSUME OrdersAssumption == MaxNodes \in Nat \ {0} /\ MaxOrder \in Nat /\ MaxNodes <= MaxOrder

VARIABLES
    cache,   \* RootedTreeGenerator._cache, the list of trees of each order
    parent   \* the caller's tree: the parents of its nodes 2, 3, ...; each node
             \* is younger than its parent

treeVars == <<cache, parent>>

-----------------------------------------------------------------------------
\* a.to_tuple() < b.to_tuple().
RECURSIVE Before(_, _)
Before(a, b) ==
    /\ b # <<>>
    /\ \/ a = <<>>
       \/ Before(Head(a), Head(b))
       \/ Head(a) = Head(b) /\ Before(Tail(a), Tail(b))

\* RootedTree(children).
RootedTree(children) == SortSeq(children, LAMBDA a, b : Before(a, b))

RECURSIVE Order(_)
Order(t) == FoldLeft(LAMBDA n, child : n + Order(child), 1, t)

\* Faulty variant: equal subtrees count once.
RECURSIVE SymmetryOfDistinct(_)
SymmetryOfDistinct(t) ==
    FoldSet(LAMBDA child, n : n * SymmetryOfDistinct(child), 1, ToSet(t))

RECURSIVE Symmetry(_)
Symmetry(t) ==
    LET multiplicity(child) == Len(SelectSeq(t, LAMBDA c : c = child))
    IN  FoldSet(LAMBDA child, n :
                   n * factorial[multiplicity(child)] * Symmetry(child)^multiplicity(child),
                1, ToSet(t))

RECURSIVE Density(_)
Density(t) == FoldLeft(LAMBDA n, child : n * Density(child), Order(t), t)

Alpha(t) == factorial[Order(t)] \div (Symmetry(t) * Density(t))

-----------------------------------------------------------------------------
\* Faulty variant: the order among trees of one size is not looked at.
RECURSIVE PartitionsInAnyOrder(_, _)
PartitionsInAnyOrder(total, maxPart) ==
    LET startingWith(size) ==
            LET rests == PartitionsInAnyOrder(total - size, size)
                with(tree) == [k \in DOMAIN rests |-> <<tree>> \o rests[k]]
            IN  FlattenSeq([i \in DOMAIN cache[size] |-> with(cache[size][i])])
        largest == Min({maxPart, total})
    IN  IF total = 0 THEN << <<>> >>
        ELSE FlattenSeq([k \in 1..largest |-> startingWith(largest + 1 - k)])

\* _partitions_to_trees: the lists of trees, the larger ones first, whose orders
\* sum to total.  A list goes on with trees that are not after its first one.
RECURSIVE PartitionsToTrees(_, _)
PartitionsToTrees(total, maxPart) ==
    LET startingWith(size) ==
            LET all == PartitionsToTrees(total - size, size)
                with(tree) ==
                    LET rests == SelectSeq(all, LAMBDA r : r = <<>> \/ ~Before(tree, r[1]))
                    IN  [k \in DOMAIN rests |-> <<tree>> \o rests[k]]
            IN  FlattenSeq([i \in DOMAIN cache[size] |-> with(cache[size][i])])
        largest == Min({maxPart, total})
    IN  IF total = 0 THEN << <<>> >>
        ELSE FlattenSeq([k \in 1..largest |-> startingWith(largest + 1 - k)])

TreesOfOrder(n) ==
    LET partitions == PartitionsToTrees(n - 1, n - 1)
    IN  [i \in DOMAIN partitions |-> RootedTree(partitions[i])]

\* One order more of _generate_all.
Generate ==
    /\ Len(cache) < MaxOrder
    /\ cache' = Append(cache, TreesOfOrder(Len(cache) + 1))
    /\ UNCHANGED parent

-----------------------------------------------------------------------------
\* The tree that the nested calls of RootedTree make for a node.
RECURSIVE TreeAt(_, _)
TreeAt(p, node) ==
    LET children == SetToSeq({i + 1 : i \in {k \in DOMAIN p : p[k] = node}})
    IN  RootedTree([k \in DOMAIN children |-> TreeAt(p, children[k])])

tree == TreeAt(parent, 1)

\* The caller's tree gets a node more.
Plant(node) ==
    /\ Len(cache) = MaxOrder /\ Len(parent) + 1 < MaxNodes
    /\ parent' = Append(parent, node)
    /\ UNCHANGED cache

TreesInit == cache = <<>> /\ parent = <<>>

TreesNext == Generate \/ \E node \in 1..Len(parent) + 1 : Plant(node)

TreesSpec == TreesInit /\ [][TreesNext]_treeVars

-----------------------------------------------------------------------------
\* Faulty variant: a child is taken for the node that was numbered last.
RECURSIVE ProcessNodeByLast(_, _)
ProcessNodeByLast(t, id) ==
    FoldLeft(LAMBDA p, i :
                LET sub == ProcessNodeByLast(t[i], p.last + 1)
                IN  [derivatives |-> p.derivatives \o sub.derivatives,
                     contractions |-> p.contractions \o sub.contractions
                        \o <<[parent |-> id, index |-> i, child |-> sub.last]>>,
                     last |-> sub.last],
             [derivatives |-> <<Len(t)>>, contractions |-> <<>>, last |-> id],
             [i \in DOMAIN t |-> i])

\* process_node of contraction_pattern: the orders of the derivatives at the
\* nodes from number id on, their contractions, and the last number.
RECURSIVE ProcessNode(_, _)
ProcessNode(t, id) ==
    FoldLeft(LAMBDA p, i :
                LET sub == ProcessNode(t[i], p.last + 1)
                IN  [derivatives |-> p.derivatives \o sub.derivatives,
                     contractions |-> p.contractions \o sub.contractions
                        \o <<[parent |-> id, index |-> i, child |-> sub.last - Order(t[i]) + 1]>>,
                     last |-> sub.last],
             [derivatives |-> <<Len(t)>>, contractions |-> <<>>, last |-> id],
             [i \in DOMAIN t |-> i])

ContractionPattern(t) == ProcessNode(t, 0)

-----------------------------------------------------------------------------
\* "Get all rooted trees of the given order" (rooted_trees.py:222), of which the
\* number is a(n) of OEIS A000081 (line 5): whatever tree a caller makes is in
\* the list, and once.
ListsEveryTree ==
    Len(cache) = MaxOrder =>
        Cardinality({i \in DOMAIN cache[Order(tree)] : cache[Order(tree)][i] = tree}) = 1

\* The permutations of the nodes that keep the root and every node's parent, and
\* the ways of numbering a tree's nodes from the root on.
Automorphisms ==
    LET nodes == 1..Len(parent) + 1
        up == <<1>> \o parent
    IN  {perm \in Bijection(nodes, nodes) : \A v \in nodes : perm[up[v]] = up[perm[v]]}

MonotonicLabellings ==
    {p \in [DOMAIN parent -> 1..Len(parent)] :
        (\A k \in DOMAIN p : p[k] <= k) /\ TreeAt(p, 1) = tree}

\* No two heads of a layer have the same tree.  "counts automorphisms"
\* (rooted_trees.py:67), "the number of monotonic labellings" (line 97): the
\* coefficients, computed from subtrees, are what they count, and the division
\* for alpha leaves no remainder.
TreesAreCounted ==
    /\ \A n \in DOMAIN cache : /\ Cardinality(ToSet(cache[n])) = Len(cache[n])
                               /\ \A t \in ToSet(cache[n]) : Order(t) = n
    /\ Symmetry(tree) = Cardinality(Automorphisms)
    /\ Alpha(tree) = Cardinality(MonotonicLabellings)
    /\ Alpha(tree) * Symmetry(tree) * Density(tree) = factorial[Order(tree)]

\* What the nodes with these numbers and contractions have as a tree.
RECURSIVE ContractedTree(_, _)
ContractedTree(contractions, id) ==
    LET own == SelectSeq(contractions, LAMBDA c : c.parent = id)
    IN  RootedTree([k \in DOMAIN own |-> ContractedTree(contractions, own[k].child)])

\* The contractions of the elementary differential are the edges of the tree,
\* although they are numbered on the way back from the subtrees: every index of
\* every derivative but its output is contracted, once, with the output of a
\* node of its own, and what hangs together is the tree.
ContractionsFollowTree ==
    LET p == ContractionPattern(tree)
        slots == {<<c.parent, c.index>> : c \in ToSet(p.contractions)}
    IN  /\ slots = UNION {{<<id, i>> : i \in 1..p.derivatives[id + 1]} : id \in 0..p.last}
        /\ {c.child : c \in ToSet(p.contractions)} = 1..p.last
        /\ Len(p.contractions) = p.last /\ Len(p.derivatives) = Order(tree)
        /\ ContractedTree(p.contractions, 0) = tree
=============================================================================
