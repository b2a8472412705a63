------------------------------ MODULE TensorView ------------------------------
(***************************************************************************)
(* The views of a strided tensor: its sizes, strides and storage offset,   *)
(* and the operations that derive another tensor over the same storage.    *)
(* A behaviour is a chain of such operations, each applied to the result   *)
(* of the one before; a call whose checks fail throws and leaves no trace, *)
(* so only successful calls are actions.  Dimensions count from 1, and the *)
(* wrapping of negative dimensions is left out.  The bounds are: MaxDims,  *)
(* MaxNumel and MaxStride on what a call may produce, MaxIndex on its      *)
(* arguments, and an empty tensor is only viewed, not sliced again.        *)
(***************************************************************************)
EXTENDS Integers, Sequences, SequencesExt

CONSTANTS StorageSize,   \* elements in the storage
          MaxDims,       \* bound on the dimensions of a view
          MaxNumel,      \* bound on the elements of a view
          MaxStride,     \* bound on the strides of a view
          MaxIndex,      \* bound on the indices, offsets and steps callers pass
          Refused        \* a thrown error, or nullopt

ASSUME BoundsAssumption ==
    /\ StorageSize \in Nat \ {0} /\ MaxNumel \in Nat /\ StorageSize <= MaxNumel
    /\ MaxDims \in Nat \ {0} /\ MaxIndex \in Nat /\ MaxStride \in Nat

\* Neither a tensor nor a list of strides is an error.
ASSUME RefusedAssumption ==
    Refused \notin Seq(Int) \cup [sizes : Seq(Int), strides : Seq(Int), offset : Int]

VARIABLE tensor          \* the current view: sizes, strides and offset

\* The product, and the sum, of a sequence of numbers.
Numel(sizes) ==
    LET upTo[d \in 0..Len(sizes)] == IF d = 0 THEN 1 ELSE upTo[d - 1] * sizes[d]
    IN  upTo[Len(sizes)]
Total(terms) ==
    LET upTo[d \in 0..Len(terms)] == IF d = 0 THEN 0 ELSE upTo[d - 1] + terms[d]
    IN  upTo[Len(terms)]

\* What callers pass as sizes: -1 asks for a size to be inferred.
Requests == BoundedSeq({-1} \cup 0..MaxNumel, MaxDims)

-----------------------------------------------------------------------------
\* infer_size: one size may be left open and follows from the number of
\* elements, unless that leaves it a choice.
InferSize(shape, numel) ==
    LET open == {d \in DOMAIN shape : shape[d] = -1}
        known == Numel([d \in DOMAIN shape |-> IF d \in open THEN 1 ELSE shape[d]])
    IN  IF open = {} /\ numel = known THEN shape
        ELSE IF Cardinality(open) = 1 /\ known > 0 /\ numel % known = 0
        THEN [d \in DOMAIN shape |-> IF d \in open THEN numel \div known ELSE shape[d]]
        ELSE Refused

\* The sizes that infer_size makes of the requests.
InferredSizes ==
    [numel \in 0..MaxNumel |-> {InferSize(size, numel) : size \in Requests} \ {Refused}]

\* Strides of a tensor without gaps; an empty dimension counts as one.
RowMajor(sizes) ==
    [d \in DOMAIN sizes |->
        Numel([e \in 1..Len(sizes) - d |-> Max({sizes[d + e], 1})])]

\* The while loop of computeStride: starting at view dimension v, it takes
\* dimensions until they hold numel elements, and those of size 1 after them.
FillStop(newshape, v, numel) ==
    Max({w \in 0..v : \/ w = 0
                      \/ /\ Numel(SubSeq(newshape, w + 1, v)) >= numel
                         /\ newshape[w] # 1})

\* Faulty variant: the old strides are not looked at.
OneChunk(oldshape, oldstride, newshape, d, c) ==
    LET numel == c.numel * oldshape[d]
        ends == d = 1
        stop == FillStop(newshape, c.view, numel)
        filled(w) == Numel(SubSeq(newshape, w + 1, c.view))
    IN  IF ~c.fits \/ (ends /\ filled(stop) # numel) THEN [c EXCEPT !.fits = FALSE]
        ELSE IF ~ends THEN [c EXCEPT !.numel = numel]
        ELSE [fits |-> TRUE,
              view |-> stop,
              base |-> IF d = 1 THEN c.base ELSE oldstride[d - 1],
              numel |-> 1,
              strides |-> [w \in DOMAIN newshape |->
                             IF w \in stop + 1..c.view THEN filled(w) * c.base
                             ELSE c.strides[w]]]

\* Faulty variant: the stride of a dimension of size 1 ends a chunk.
SingletonsCount(oldshape, oldstride, newshape, d, c) ==
    LET numel == c.numel * oldshape[d]
        ends == d = 1 \/ oldstride[d - 1] # numel * c.base
        stop == FillStop(newshape, c.view, numel)
        filled(w) == Numel(SubSeq(newshape, w + 1, c.view))
    IN  IF ~c.fits \/ (ends /\ filled(stop) # numel) THEN [c EXCEPT !.fits = FALSE]
        ELSE IF ~ends THEN [c EXCEPT !.numel = numel]
        ELSE [fits |-> TRUE,
              view |-> stop,
              base |-> IF d = 1 THEN c.base ELSE oldstride[d - 1],
              numel |-> 1,
              strides |-> [w \in DOMAIN newshape |->
                             IF w \in stop + 1..c.view THEN filled(w) * c.base
                             ELSE c.strides[w]]]

\* One turn of the for loop: dimension d joins the chunk of dimensions that
\* are contiguous with each other, and a chunk that ends must be exactly
\* filled by dimensions of the new shape.
ChunkStep(oldshape, oldstride, newshape, d, c) ==
    LET numel == c.numel * oldshape[d]
        ends == d = 1 \/ (oldshape[d - 1] # 1 /\ oldstride[d - 1] # numel * c.base)
        stop == FillStop(newshape, c.view, numel)
        filled(w) == Numel(SubSeq(newshape, w + 1, c.view))
    IN  IF ~c.fits \/ (ends /\ filled(stop) # numel) THEN [c EXCEPT !.fits = FALSE]
        ELSE IF ~ends THEN [c EXCEPT !.numel = numel]
        ELSE [fits |-> TRUE,
              view |-> stop,
              base |-> IF d = 1 THEN c.base ELSE oldstride[d - 1],
              numel |-> 1,
              strides |-> [w \in DOMAIN newshape |->
                             IF w \in stop + 1..c.view THEN filled(w) * c.base
                             ELSE c.strides[w]]]

\* computeStride: the strides with which newshape visits the same elements.
ComputeStride(oldshape, oldstride, newshape) ==
    LET start == [fits |-> TRUE, view |-> Len(newshape), base |-> Last(oldstride),
                  numel |-> 1, strides |-> [d \in DOMAIN newshape |-> 0]]
        after[i \in 0..Len(oldshape)] ==
            IF i = 0 THEN start
            ELSE ChunkStep(oldshape, oldstride, newshape, Len(oldshape) + 1 - i, after[i - 1])
        end == after[Len(oldshape)]
    IN  IF oldshape = <<>> THEN [d \in DOMAIN newshape |-> 1]
        ELSE IF Numel(oldshape) = 0
        THEN IF oldshape = newshape THEN oldstride ELSE RowMajor(newshape)
        ELSE IF end.fits /\ end.view = 0 THEN end.strides
        ELSE Refused

\* Faulty variant: a repeated dimension keeps its stride.
ExpandKeepingStride(t, size) ==
    LET lead == Len(size) - Len(t.sizes)
        own(i) == IF i > lead THEN t.sizes[i - lead] ELSE 1
        sizes == [i \in DOMAIN size |-> IF size[i] = -1 THEN own(i) ELSE size[i]]
        stride[i \in DOMAIN size] ==
            IF t.sizes = <<>> THEN 0
            ELSE IF i > lead THEN t.strides[i - lead]
            ELSE sizes[i + 1] * stride[i + 1]
    IN  [sizes |-> sizes, strides |-> stride]

\* inferExpandGeometry, for sizes its checks accept: a dimension is kept, or
\* had size 1 and repeats its element, or is new and leads the others.
InferExpandGeometry(t, size) ==
    LET lead == Len(size) - Len(t.sizes)
        own(i) == IF i > lead THEN t.sizes[i - lead] ELSE 1
        sizes == [i \in DOMAIN size |-> IF size[i] = -1 THEN own(i) ELSE size[i]]
        stride[i \in DOMAIN size] ==
            IF sizes[i] # own(i) \/ t.sizes = <<>> THEN 0
            ELSE IF i > lead THEN t.strides[i - lead]
            ELSE sizes[i + 1] * stride[i + 1]
    IN  [sizes |-> sizes, strides |-> stride]

CanExpand(t, size) ==
    LET lead == Len(size) - Len(t.sizes)
    IN  /\ lead >= 0
        /\ \A i \in DOMAIN size :
              IF i <= lead THEN size[i] # -1
              ELSE size[i] \in {-1, t.sizes[i - lead]} \/ t.sizes[i - lead] = 1

-----------------------------------------------------------------------------
Init ==
    \E sizes \in Requests :
        /\ Numel(sizes) = StorageSize /\ \A d \in DOMAIN sizes : sizes[d] > 0
        /\ tensor = [sizes |-> sizes, strides |-> RowMajor(sizes), offset |-> 0]

Dims == DOMAIN tensor.sizes
Size(d) == tensor.sizes[d]
Stride(d) == tensor.strides[d]

\* computeStorageSize: one more than the offset of the last element.
StorageNeeded(sizes, strides) ==
    IF \E d \in DOMAIN sizes : sizes[d] = 0 THEN 0
    ELSE 1 + Total([d \in DOMAIN sizes |-> strides[d] * (sizes[d] - 1)])

\* as_strided: a view that does not fit into the storage is refused.  The
\* first three conjuncts are bounds of the model.
AsStrided(sizes, strides, offset) ==
    LET needed == StorageNeeded(sizes, strides)
    IN  /\ Numel(tensor.sizes) > 0
        /\ Len(sizes) <= MaxDims /\ Numel(sizes) <= MaxNumel
        /\ \A d \in DOMAIN strides : strides[d] <= MaxStride
        /\ tensor' = IF (needed > 0 /\ offset + needed > StorageSize) \/ offset < 0
                     THEN Refused
                     ELSE [sizes |-> sizes, strides |-> strides, offset |-> offset]

\* view, after infer_size.  set_ takes the strides as they are.
View(size) ==
    LET strides == ComputeStride(tensor.sizes, tensor.strides, size)
    IN  /\ strides # Refused
        /\ tensor' = [tensor EXCEPT !.sizes = size, !.strides = strides]

Expand(size) ==
    /\ CanExpand(tensor, size)
    /\ LET g == InferExpandGeometry(tensor, size)
       IN  AsStrided(g.sizes, g.strides, tensor.offset)

Permute(dims) ==
    AsStrided([d \in Dims |-> Size(dims[d])], [d \in Dims |-> Stride(dims[d])], tensor.offset)

Transpose(d1, d2) ==
    LET swapped(s) == [s EXCEPT ![d1] = s[d2], ![d2] = s[d1]]
    IN  AsStrided(swapped(tensor.sizes), swapped(tensor.strides), tensor.offset)

Select(d, index) ==
    /\ index \in -Size(d)..Size(d) - 1
    /\ AsStrided(RemoveAt(tensor.sizes, d), RemoveAt(tensor.strides, d),
                 tensor.offset + (index % Size(d)) * Stride(d))

\* Faulty variant: the end is not moved into the dimension.
SliceBeyond(d, start, end, step) ==
    LET wrap(i) == IF i < 0 THEN i + Size(d) ELSE i
        first == Min({Max({wrap(start), 0}), Size(d)})
        last == Max({wrap(end), first})
    IN  AsStrided([tensor.sizes EXCEPT ![d] = (last - first + step - 1) \div step],
                  [tensor.strides EXCEPT ![d] = @ * step],
                  tensor.offset + first * Stride(d))

\* slice, and narrow: start and end count from the end of the dimension when
\* they are negative and are moved into it when they are outside.
Slice(d, start, end, step) ==
    LET wrap(i) == IF i < 0 THEN i + Size(d) ELSE i
        first == Min({Max({wrap(start), 0}), Size(d)})
        last == Min({Max({wrap(end), first}), Size(d)})
    IN  AsStrided([tensor.sizes EXCEPT ![d] = (last - first + step - 1) \div step],
                  [tensor.strides EXCEPT ![d] = @ * step],
                  tensor.offset + first * Stride(d))

\* Some dimensions, in their order.
Ascending(dims) ==
    CHOOSE kept \in Bijection(1..Cardinality(dims), dims) :
        \A i, j \in DOMAIN kept : i < j => kept[i] < kept[j]

\* squeeze of all dimensions, and of one.
Squeeze(dims) ==
    LET kept == Ascending({d \in Dims : d \notin dims \/ Size(d) # 1})
    IN  AsStrided([i \in DOMAIN kept |-> Size(kept[i])],
                  [i \in DOMAIN kept |-> Stride(kept[i])], tensor.offset)

Unsqueeze(d) ==
    AsStrided(InsertAt(tensor.sizes, d, 1),
              InsertAt(tensor.strides, d, IF d \in Dims THEN Size(d) * Stride(d) ELSE 1),
              tensor.offset)

\* unfold: windows of a dimension, in a new last one.
Unfold(d, size, step) ==
    /\ size <= Size(d)
    /\ AsStrided(Append([tensor.sizes EXCEPT ![d] = (@ - size) \div step + 1], size),
                 Append([tensor.strides EXCEPT ![d] = @ * step], Stride(d)),
                 tensor.offset)

UnfoldScalar(size) ==
    /\ Dims = {} /\ size <= 1
    /\ AsStrided(<<size>>, <<1>>, tensor.offset)

\* diagonal: the two dimensions are replaced by one that walks along both.
Diagonal(offset, d1, d2) ==
    LET size == IF offset >= 0 THEN Max({Min({Size(d1), Size(d2) - offset}), 0})
                ELSE Max({Min({Size(d1) + offset, Size(d2)}), 0})
        without(s) == RemoveAt(RemoveAt(s, Max({d1, d2})), Min({d1, d2}))
    IN  AsStrided(Append(without(tensor.sizes), size),
                  Append(without(tensor.strides), Stride(d1) + Stride(d2)),
                  tensor.offset + (IF size = 0 THEN 0
                                   ELSE IF offset >= 0 THEN offset * Stride(d2)
                                   ELSE -offset * Stride(d1)))

Steps == 1..MaxIndex
Indices == -MaxIndex..MaxIndex

Next ==
    /\ tensor # Refused
    /\ \/ \E size \in InferredSizes[Numel(tensor.sizes)] : View(size)
       \/ \E size \in Requests : Expand(size)
       \/ \E dims \in Bijection(Dims, Dims) : Permute(dims)
       \/ \E d1, d2 \in Dims : d1 # d2 /\ Transpose(d1, d2)
       \/ \E d \in Dims, index \in Indices : Select(d, index)
       \/ \E d \in Dims, start, end \in Indices, step \in Steps : Slice(d, start, end, step)
       \/ \E dims \in {Dims} \cup {{d} : d \in Dims} : Squeeze(dims)
       \/ \E d \in 1..Len(tensor.sizes) + 1 : Unsqueeze(d)
       \/ \E d \in Dims, size \in 0..MaxIndex, step \in Steps : Unfold(d, size, step)
       \/ \E size \in 0..MaxIndex : UnfoldScalar(size)
       \/ \E offset \in Indices, d1, d2 \in Dims : d1 # d2 /\ Diagonal(offset, d1, d2)

Spec == Init /\ [][Next]_tensor

-----------------------------------------------------------------------------
\* The addresses of the elements of a tensor, in row-major order.
Addresses(t) ==
    LET inner(d) == Numel(SubSeq(t.sizes, d + 1, Len(t.sizes)))
    IN  [k \in 1..Numel(t.sizes) |->
            t.offset + Total([d \in DOMAIN t.sizes |->
                (((k - 1) \div inner(d)) % t.sizes[d]) * t.strides[d]])]

\* Whatever chain of operations led here, no operation reaches an element that
\* its tensor does not have, although as_strided checks no more than that the
\* result lies in the storage; and that check (Resize.h:72) never fires.
ElementsOfSelf ==
    [][tensor' # tensor =>
          /\ tensor' # Refused
          /\ tensor'.strides \in [DOMAIN tensor'.sizes -> Nat]
          /\ ToSet(Addresses(tensor')) \subseteq ToSet(Addresses(tensor))]_tensor

\* The only strides that can visit the elements in order: in each dimension,
\* the step from the first element to the one whose index there is 1.
OnlyStrides(own, size) ==
    [d \in DOMAIN size |->
        IF size[d] = 1 THEN 0 ELSE own[1 + Numel(SubSeq(size, d + 1, Len(size)))] - own[1]]

\* The strides of computeStride visit the elements in the order of the tensor,
\* whatever chain of operations made it and whatever size is asked for, and
\* view is refused only when no strides could express it ("at least one
\* dimension spans across two contiguous subspaces", TensorShape.cpp:1174).
ViewKeepsOrder ==
    LET own == Addresses(tensor)
        Follows(size, strides) == Addresses([tensor EXCEPT !.sizes = size, !.strides = strides]) = own IN
    \A size \in InferredSizes[Numel(tensor.sizes)] :
        LET strides == ComputeStride(tensor.sizes, tensor.strides, size) IN
        IF strides # Refused THEN Follows(size, strides) ELSE ~Follows(size, OnlyStrides(own, size))
=============================================================================
