----------------------------- MODULE NamedTensor -----------------------------
(***************************************************************************)
(* Tensors with named dimensions: the operations that compute the names of *)
(* their result, beside its sizes and strides.  A behaviour is a chain of  *)
(* operations, each applied to the result of the one before; a call that   *)
(* throws leaves no trace.                                                 *)
(*                                                                         *)
(* propagate_names does not validate what it stores (its default), so that *)
(* each operation has to see to it that no name occurs twice.              *)
(*                                                                         *)
(* Bounds: the sizes of the second operand are those of the first, or 1;   *)
(* a chain goes on from views, not from copies.                            *)
(***************************************************************************)
EXTENDS NameUnification, TensorView

VARIABLES
    names,  \* its names; a tensor without names has wildcards (default_names)
    last    \* history: what the last operation was: a "view" or a "copy" whose
            \* dimensions are those of the tensor, "biased", a product that a
            \* bias gave names, "mixed", a product of batches named like its rows
            \* or columns, or an "other", which may have given names to other
            \* dimensions

namedVars == <<tensor, names, last>>

NamedDims == DOMAIN names

\* The lists of names that tensors have.
NameLists == {list \in BoundedSeq(Dimname, MaxDims) : Distinct(list)}

ListsOf == [n \in 0..MaxDims |-> {list \in NameLists : Len(list) = n}]

Unnamed(n) == [i \in 1..n |-> Wildcard]

\* dimname_to_position, for a name the tensor has.
Position(name) == CHOOSE d \in NamedDims : names[d] = name

NamedInit ==
    /\ \E sizes \in BoundedSeq(1..StorageSize, MaxDims) :
          /\ Numel(sizes) = StorageSize
          /\ tensor = [sizes |-> sizes, strides |-> RowMajor(sizes), offset |-> 0]
    /\ names = Unnamed(Len(tensor.sizes))
    /\ last = "other"

-----------------------------------------------------------------------------
\* A result of its own, without gaps.
Fresh(sizes) ==
    /\ Len(sizes) <= MaxDims /\ Numel(sizes) <= StorageSize
    /\ tensor' = [sizes |-> sizes, strides |-> RowMajor(sizes), offset |-> 0]

\* rename_ and rename.
Rename(list) ==
    /\ Len(list) = Len(names) /\ Distinct(list)
    /\ names' = list
    /\ last' = "other"
    /\ UNCHANGED tensor

\* refine_names: only unnamed dimensions get another name.
RefineNames(list) ==
    /\ Len(list) = Len(names) /\ Distinct(list)
    /\ \A d \in NamedDims : names[d] \in {list[d], Wildcard}
    /\ names' = list
    /\ last' = "other"
    /\ UNCHANGED tensor

NamedTranspose(d1, d2) ==
    /\ Transpose(d1, d2)
    /\ names' = [names EXCEPT ![d1] = names[d2], ![d2] = names[d1]]
    /\ last' = "view"

\* propagate_names_except.
NamesExcept(excluded) ==
    LET kept == Ascending(NamedDims \ excluded)
    IN  [i \in DOMAIN kept |-> names[kept[i]]]

NamedSelect(d) ==
    /\ Select(d, 0)
    /\ names' = NamesExcept({d})
    /\ last' = "view"

NamedSlice(d) ==
    /\ Slice(d, 0, 1, 1)
    /\ names' = names
    /\ last' = "view"

\* squeeze of all dimensions (compute_squeeze_outnames).
NamedSqueezeAll ==
    /\ Squeeze(NamedDims)
    /\ names' = NamesExcept({d \in NamedDims : tensor.sizes[d] = 1})
    /\ last' = "view"

\* squeeze of one.  A dimension of another size than 1 stays, but the names do
\* not: the view that is returned for it is never given any.
NamedSqueeze(d) ==
    /\ Squeeze({d})
    /\ names' = IF tensor.sizes[d] = 1 THEN NamesExcept({d}) ELSE Unnamed(Len(names))
    /\ last' = "view"

\* propagate_names_for_expand.
NamedExpand(size) ==
    /\ Expand(size)
    /\ names' = [i \in DOMAIN size |-> Padded(names, Len(size), i)]
    /\ last' = "view"

-----------------------------------------------------------------------------
\* Dimensions first..final become one with name "out".
Flatten(first, final, out) ==
    LET replaced(s, x) == SubSeq(s, 1, first - 1) \o <<x>> \o SubSeq(s, final + 1, Len(s))
        sizes == replaced(tensor.sizes, Numel(SubSeq(tensor.sizes, first, final)))
        viewable == ComputeStride(tensor.sizes, tensor.strides, sizes) # Refused
    IN  /\ first < final
        /\ IF viewable THEN View(sizes) ELSE Fresh(sizes)
        /\ names' = replaced(names, out) /\ Distinct(names')
        /\ last' = "other"

\* What callers split a dimension into.
Factors(size) == {sizes \in BoundedSeq(1..StorageSize, MaxDims) : Numel(sizes) = size} \ {<<>>}

\* Dimension d becomes several, of these sizes and names.
Unflatten(d, sizes, list) ==
    LET replaced(s, x) == SubSeq(s, 1, d - 1) \o x \o SubSeq(s, d + 1, Len(s))
    IN  /\ Len(list) = Len(sizes) /\ Numel(sizes) = tensor.sizes[d]
        /\ Len(tensor.sizes) + Len(sizes) - 1 <= MaxDims
        /\ View(replaced(tensor.sizes, sizes))
        /\ names' = replaced(names, list) /\ Distinct(names')
        /\ last' = "other"

\* aligned_size walks through both lists from the right.  left[k] dimensions of
\* the tensor are still to be placed after k names of "aligned".
ToPlace(aligned) ==
    LET left[k \in 0..Len(aligned)] ==
            IF k = 0 THEN Len(names)
            ELSE LET d == left[k - 1]
                 IN  IF d > 0 /\ names[d] = aligned[Len(aligned) - k + 1] THEN d - 1 ELSE d
    IN  left

\* The dimension of the tensor that is placed at position i, or 0.
PlacedAt(aligned, i) ==
    LET left == ToPlace(aligned)
        before == left[Len(aligned) - i]
    IN  IF left[Len(aligned) - i + 1] = before THEN 0 ELSE before

\* Faulty variant: an unnamed dimension may move.
AlignsMovingUnnamed(aligned) == ToPlace(aligned)[Len(aligned)] = 0

\* All dimensions are placed, and none without a name has moved.
Aligns(aligned) ==
    /\ ToPlace(aligned)[Len(aligned)] = 0
    /\ \A i \in DOMAIN aligned :
          LET d == PlacedAt(aligned, i)
          IN  d # 0 /\ names[d] = Wildcard => Len(names) - d = Len(aligned) - i

AlignedSize(aligned) ==
    [i \in DOMAIN aligned |->
        LET d == PlacedAt(aligned, i) IN IF d = 0 THEN 1 ELSE tensor.sizes[d]]

\* align_tensors, for the tensor that is not the one of most dimensions.
AlignTensors(aligned) ==
    /\ Len(names) <= Len(aligned) /\ Aligns(aligned)
    /\ View(AlignedSize(aligned))
    /\ names' = aligned
    /\ last' = "view"

\* The strided view whose dimension i is dimension source[i] of the tensor, or
\* a new one of size 1.
Rearrange(source) ==
    AsStrided([i \in DOMAIN source |-> IF source[i] = 0 THEN 1 ELSE tensor.sizes[source[i]]],
                [i \in DOMAIN source |-> IF source[i] = 0 THEN 0 ELSE tensor.strides[source[i]]],
                tensor.offset)

PositionOrNone(name) == IF HasName(names, name) THEN Position(name) ELSE 0

\* align_to(names), and align_as.
AlignTo(list) ==
    /\ \A d \in NamedDims : names[d] # Wildcard /\ HasName(list, names[d])
    /\ Rearrange([i \in DOMAIN list |-> IF list[i] = Wildcard THEN 0 ELSE PositionOrNone(list[i])])
    /\ names' = list /\ Distinct(list)
    /\ last' = "view"

\* Faulty variant: the names after the ellipsis are not shifted.
AlignToUnshifted(order, ellipsis) ==
    LET mentioned == {PositionOrNone(order[i]) : i \in DOMAIN order}
        others == Ascending(NamedDims \ mentioned)
        expanded(s, x) == SubSeq(s, 1, ellipsis) \o x \o SubSeq(s, ellipsis + 1, Len(s))
        found == [i \in DOMAIN order |-> PositionOrNone(order[i])]
    IN  /\ \A i \in DOMAIN order : order[i] # Wildcard
        /\ Rearrange(expanded(found, others))
        /\ names' = order \o [i \in DOMAIN others |-> names[others[i]]]
        /\ Distinct(names')
        /\ last' = "view"

\* align_to with an ellipsis, which stands after "ellipsis" names of "order" for
\* the dimensions that "order" does not mention.
AlignToEllipsis(order, ellipsis) ==
    LET mentioned == {PositionOrNone(order[i]) : i \in DOMAIN order}
        others == Ascending(NamedDims \ mentioned)
        expanded(s, x) == SubSeq(s, 1, ellipsis) \o x \o SubSeq(s, ellipsis + 1, Len(s))
        found == [i \in DOMAIN order |-> PositionOrNone(order[i])]
    IN  /\ \A i \in DOMAIN order : order[i] # Wildcard
        /\ Rearrange(expanded(found, others))
        /\ names' = expanded(order, [i \in DOMAIN others |-> names[others[i]]])
        /\ Distinct(names')
        /\ last' = "view"

-----------------------------------------------------------------------------
\* propagate_names_for_reduction; without dimensions all are reduced.
Reduce(dims, keepdim) ==
    LET reduced == IF dims = {} THEN NamedDims ELSE dims
        kept == Ascending(NamedDims \ reduced)
    IN  /\ IF keepdim
           THEN /\ Fresh([d \in NamedDims |-> IF d \in reduced THEN 1 ELSE tensor.sizes[d]])
                /\ names' = names
           ELSE /\ Fresh([i \in DOMAIN kept |-> tensor.sizes[kept[i]]])
                /\ names' = IF dims = {} THEN <<>> ELSE NamesExcept(dims)
        /\ last' = "copy"

BroadcastSizes(n) ==
    [i \in 1..n |-> LET lead == n - Len(tensor.sizes)
                    IN  IF i > lead THEN tensor.sizes[i - lead] ELSE 1]

\* An operation of TensorIterator on two tensors (compute_names).
Broadcast(other) ==
    /\ UnifiesFromRight(names, other)
    /\ names' = UnifyFromRight(names, other)
    /\ Fresh(BroadcastSizes(Longer(Len(names), Len(other))))
    /\ last' = "copy"

\* add_, copy_ and masked_fill_: what the names unify to is stored when the
\* tensor has none, and has to be what it has otherwise.
UpdateInPlace(other) ==
    /\ Len(other) <= Len(names)
    /\ UnifiesFromRight(names, other)
    /\ names \in {Unnamed(Len(names)), UnifyFromRight(names, other)}
    /\ names' = UnifyFromRight(names, other)
    /\ last' = "other"
    /\ UNCHANGED tensor

\* masked_fill (broadcast_to_outnames), whose mask has no more dimensions.
MaskedFill(mask) ==
    /\ Len(names) >= Len(mask)
    /\ UnifiesFromRight(names, mask)
    /\ names' = UnifyFromRight(names, mask)
    /\ Fresh(tensor.sizes)
    /\ last' = "copy"

\* cat with a tensor that has no elements (compute_cat_outnames).
Cat(other) ==
    /\ Len(names) > 0 /\ Len(other) = Len(names)
    /\ UnifiesFromRight(names, other)
    /\ names' = UnifyFromRight(names, other)
    /\ Fresh(tensor.sizes)
    /\ last' = "copy"

\* are_distinct, which nothing in the code calls.
AreDistinct(batch, features) ==
    \A i \in DOMAIN features, j \in DOMAIN batch :
        features[i] # Wildcard => batch[j] # features[i]

\* What a product of matrices that are "rows" long and have one column leaves:
\* the batches, the rows of the one and the rows or columns of the other.
Product(other, outnames, kind) ==
    LET batch == UnifyInplace(Batch(names), Batch(other))
        features == SubSeq(outnames, Len(batch) + 1, Len(outnames))
        lead == Len(batch) - NumBatchDims(names)
    IN  /\ names' = outnames
        /\ Fresh([i \in DOMAIN batch |-> IF i > lead THEN tensor.sizes[i - lead] ELSE 1]
                   \o (IF Len(names) < 2 THEN <<>> ELSE <<tensor.sizes[Len(names) - 1]>>)
                   \o (IF Len(other) < 2 THEN <<>> ELSE <<1>>))
        /\ last' = IF AreDistinct(batch, features) THEN kind ELSE "mixed"

\* matmul, and bmm.
Matmul(other) ==
    /\ MatmulNamesMatch(names, other)
    /\ Product(other, MatmulOutnames(names, other), "copy")

\* The names that a bias, which has been expanded to a product, may make of it.
Biased(product) ==
    {UnifyFromRight(product, bias) :
        bias \in {bias \in ListsOf[Len(product)] : UnifiesFromRight(product, bias)}}

\* addmm, addmv and baddbmm.
Addmm(other) ==
    LET product == MatmulOutnames(names, other)
    IN  /\ <<Len(names), Len(other)>> \in {<<2, 2>>, <<2, 1>>, <<3, 3>>}
        /\ MatmulNamesMatch(names, other)
        /\ \E outnames \in Biased(product) :
              Product(other, outnames, IF outnames = product THEN "copy" ELSE "biased")

Cdist(other) ==
    /\ Len(names) >= 2 /\ Len(other) >= 2
    /\ CdistNamesMatch(names, other)
    /\ Product(other, CdistOutnames(names, other), "copy")

NamedNext ==
    /\ last \in {"view", "other"}
    /\ \/ \E list \in ListsOf[Len(names)] : Rename(list) \/ RefineNames(list)
       \/ \E d1, d2 \in NamedDims : d1 # d2 /\ NamedTranspose(d1, d2)
       \/ \E d \in NamedDims : NamedSelect(d) \/ NamedSlice(d) \/ NamedSqueeze(d)
       \/ NamedSqueezeAll
       \/ \E size \in BoundedSeq({-1, 2}, MaxDims) : NamedExpand(size)
       \/ \E first, final \in NamedDims, out \in Dimname : Flatten(first, final, out)
       \/ \E d \in NamedDims : \E sizes \in Factors(tensor.sizes[d]) :
             \E list \in ListsOf[Len(sizes)] : Unflatten(d, sizes, list)
       \/ \E list \in NameLists : AlignTensors(list) \/ AlignTo(list)
       \/ \E order \in NameLists : \E ellipsis \in 0..Len(order) : AlignToEllipsis(order, ellipsis)
       \/ \E dims \in SUBSET NamedDims, keepdim \in BOOLEAN : Reduce(dims, keepdim)
       \/ \E other \in NameLists :
             \/ Broadcast(other) \/ UpdateInPlace(other) \/ MaskedFill(other)
             \/ Cat(other) \/ Matmul(other) \/ Addmm(other) \/ Cdist(other)
    /\ tensor' # Refused    \* as_strided throws

NamedSpec == NamedInit /\ [][NamedNext]_namedVars

-----------------------------------------------------------------------------
\* The lists that two lists can be refined to by naming unnamed dimensions, as
\* TensorNames.h:14-27 explains matching.
Refines(fine, list) ==
    \A i \in DOMAIN fine : Padded(list, Len(fine), i) \in {fine[i], Wildcard}

CommonRefinements(list, other) ==
    {fine \in ListsOf[Longer(Len(list), Len(other))] : Refines(fine, list) /\ Refines(fine, other)}

\* "So we need to check tensor.names for the existence of A" (TensorNames.h:26):
\* two lists unify exactly when they have a common refinement without a name
\* twice, and then to the least one.  The two implementations agree ("let's
\* test them both", NamedTensor_test.cpp:147), and tensors may be concatenated
\* in any order.
UnifyIsLeastRefinement ==
    /\ \A other \in NameLists :
          LET common == CommonRefinements(names, other)
              unified == UnifyFromRight(names, other)
          IN  /\ UnifiesFromRight(names, other) <=> common # {}
              /\ UnifiesFromRight(names, other) =>
                    unified \in common /\ \A fine \in common : Refines(fine, unified)
              /\ UnifiesFromRight(names, other) <=>
                    UnifiesInplace(TensorNames(names, Len(names)), TensorNames(other, Len(other)))
    /\ \A b, c \in ListsOf[Len(names)] :
          LET ab == UnifyFromRight(names, b)
              bc == UnifyFromRight(b, c)
          IN  /\ UnifiesFromRight(names, b) /\ UnifiesFromRight(ab, c)
                 <=> UnifiesFromRight(b, c) /\ UnifiesFromRight(names, bc)
              /\ UnifyFromRight(ab, c) = UnifyFromRight(names, bc)

\* "[Alignment rules]" (NamedTensor.cpp:150): a tensor can be aligned exactly
\* when its names are a subsequence of the others in which no unnamed dimension
\* changes its position from the right.
AlignsByTheRules ==
    \A aligned \in NameLists :
        Aligns(aligned) <=>
            \E at \in [NamedDims -> DOMAIN aligned] :
                /\ \A d, e \in NamedDims : d < e => at[d] < at[e]
                /\ \A d \in NamedDims :
                      /\ aligned[at[d]] = names[d]
                      /\ names[d] = Wildcard => Len(names) - d = Len(aligned) - at[d]

\* How names match is as documented.  Sizes have no part in it, so that it is
\* enough to look at tensors of one element.
NamesMatchByTheRules ==
    Numel(tensor.sizes) = 1 /\ last # "mixed" => UnifyIsLeastRefinement /\ AlignsByTheRules

\* "A DimnameList can have no duplicate full names" (NamedTensorUtils.cpp:69),
\* although propagate_names does not look; and a name stays with the elements it
\* stands for: wherever a dimension moves, its name is where its size is, and in
\* a view its stride.  A dimension of size 1 may be expanded, a view may be a
\* slice, a dimension of a copy may be reduced to size 1, a product of batches
\* can end with a batch named like its rows or columns, and a bias may give the
\* name of the dimension that was contracted away to another one.
NamesFollowDims ==
    [][/\ Len(names') = Len(tensor'.sizes)
       /\ Distinct(names') \/ last' = "mixed"
       /\ \A d \in DOMAIN names, e \in DOMAIN names' :
             names[d] = names'[e] /\ names[d] # Wildcard =>
                \/ last' = "other"
                \/ tensor.sizes[d] = 1
                \/ last' = "view" /\ tensor'.sizes[e] <= tensor.sizes[d]
                                  /\ tensor'.strides[e] = tensor.strides[d]
                \/ last' \in {"copy", "biased", "mixed"} /\ tensor'.sizes[e] \in {tensor.sizes[d], 1}
                \/ last' \in {"biased", "mixed"} /\ d = Len(names)]_namedVars
=============================================================================
