---------------------------- MODULE TensorIterator ----------------------------
(***************************************************************************)
(* TensorIterator: how an operation walks over the elements of its         *)
(* operands.  build() broadcasts the shapes, reorders and coalesces the    *)
(* dimensions; the result is walked in ranges by the threads of            *)
(* parallel_for, cut along a dimension for a reduction, or split into      *)
(* parts that 32-bit offsets can address.  The input of an operation is    *)
(* any tensor that a chain of the views of TensorView leads to.            *)
(*                                                                         *)
(* An element has size 1, so strides in bytes are strides; sizes that the  *)
(* code compares with constants (GRAIN_SIZE, 2^31 - 1, 128 bytes, the      *)
(* number of threads) are constants or choices of the model.  Data types,  *)
(* devices, names and channels-last outputs are left out.                  *)
(***************************************************************************)
EXTENDS TensorView

CONSTANTS NumThreads,    \* at::get_num_threads()
          Max32,         \* numeric_limits<int32_t>::max()
          LineSize,      \* elements in 128 bytes
          Undefined,     \* an operand without tensor: build() allocates it
          Idle,          \* no operation runs
          IterNumel,     \* bounds: the inputs iterated over have this many
          IterOffset     \*   elements, start here at most ...

ASSUME IteratorAssumption ==
    /\ NumThreads \in Nat \ {0} /\ Max32 \in Nat \ {0} /\ LineSize \in Nat \ {0}
    /\ IterNumel \subseteq 1..MaxNumel /\ IterOffset \in Nat

VARIABLES
    job,      \* the operation: its operands and how it walks, or Idle
    parts,    \* iterators still to be walked
    visited   \* history: the addresses one element of each operand had

ivars == <<job, parts, visited>>

-----------------------------------------------------------------------------
\* infer_size(a, b): the shape two shapes broadcast to.
FromRight(sizes, n, d) == IF d > n - Len(sizes) THEN sizes[d - (n - Len(sizes))] ELSE 1
Broadcast(a, b) ==
    LET n == Max({Len(a), Len(b)})
        sizeA(d) == FromRight(a, n, d)
        sizeB(d) == FromRight(b, n, d)
    IN  IF \E d \in 1..n : sizeA(d) # sizeB(d) /\ sizeA(d) # 1 /\ sizeB(d) # 1 THEN Refused
        ELSE [d \in 1..n |-> IF sizeA(d) = 1 THEN sizeB(d) ELSE sizeA(d)]

\* is_contiguous, and has_internal_overlap with its three answers.
IsContiguous(t) ==
    \/ Numel(t.sizes) = 0
    \/ \A d \in DOMAIN t.sizes :
          t.sizes[d] # 1 => t.strides[d] = Numel(SubSeq(t.sizes, d + 1, Len(t.sizes)))

HasInternalOverlap(t) ==
    IF IsContiguous(t) THEN "no"
    ELSE IF \E d \in DOMAIN t.strides : t.strides[d] = 0 THEN "yes" ELSE "too hard"

\* Faulty variant: tensors that begin at the same element are the same.
FullByStart(a, b, same) ==
    LET ends(t) == t.offset + Numel(t.sizes)
    IN  IF same THEN "full"
        ELSE IF ~IsContiguous(a) \/ ~IsContiguous(b) THEN "too hard"
        ELSE IF a.offset = b.offset THEN "full"
        ELSE IF a.offset < ends(b) /\ b.offset < ends(a) THEN "partial"
        ELSE "no"

\* get_overlap_status of two tensors over the same storage.
GetOverlapStatus(a, b, same) ==
    LET ends(t) == t.offset + Numel(t.sizes)
    IN  IF same THEN "full"
        ELSE IF ~IsContiguous(a) \/ ~IsContiguous(b) THEN "too hard"
        ELSE IF a.offset = b.offset /\ ends(a) = ends(b) THEN "full"
        ELSE IF a.offset < ends(b) /\ b.offset < ends(a) THEN "partial"
        ELSE "no"

-----------------------------------------------------------------------------
\* An iterator: its shape, and for each operand (the output first) where its
\* data begins and its stride in every dimension.  Dimension 1 moves fastest.
DimsOf(it) == DOMAIN it.shape

\* compute_strides: a dimension that is broadcast, or of size 1, has stride 0.
ComputeStrides(shape, t) ==
    LET lead == Len(shape) - Len(t.sizes)
    IN  [d \in DOMAIN shape |->
            IF d <= lead \/ t.sizes[d - lead] = 1 THEN 0 ELSE t.strides[d - lead]]

\* should_swap: 1 when dim0 should come after dim1, -1 when before it, and 0
\* when no operand can tell.  An operand without strides has no say.
ShouldSwap(ops, reduction, dim0, dim1) ==
    LET says(op) ==
            IF op.strides = <<>> THEN 0
            ELSE LET s0 == op.strides[dim0] s1 == op.strides[dim1]
                 IN  IF reduction /\ op.out /\ (s0 = 0) # (s1 = 0)
                     THEN IF s1 = 0 THEN 1 ELSE -1
                     ELSE IF s0 = 0 \/ s1 = 0 THEN 0
                     ELSE IF s0 <= s1 THEN -1 ELSE 1
        decided == SelectSeq(ops, LAMBDA op : says(op) # 0)
    IN  IF decided = <<>> THEN 0 ELSE says(decided[1])

\* The inner loop of the insertion sort: dim1 moves towards the front, past
\* the dimensions it is ambiguous with, until one has to stay before it.
Insert(ops, reduction, perm, i) ==
    LET compare(dim0, s) ==
            LET c == ShouldSwap(ops, reduction, s.perm[dim0], s.perm[s.dim1])
            IN  IF s.stop \/ c = 0 THEN s
                ELSE IF c < 0 THEN [s EXCEPT !.stop = TRUE]
                ELSE [perm |-> [s.perm EXCEPT ![dim0] = s.perm[s.dim1],
                                              ![s.dim1] = s.perm[dim0]],
                      dim1 |-> dim0, stop |-> FALSE]
        start == [perm |-> perm, dim1 |-> i, stop |-> FALSE]
    IN  FoldRight(compare, [d \in 1..i - 1 |-> d], start).perm

\* reorder_dimensions: ascending strides, reduced dimensions in front.
SortedPerm(it, reduction) ==
    LET n == Len(it.shape)
        reversed == [d \in 1..n |-> n + 1 - d]
    IN  FoldLeft(LAMBDA perm, i : Insert(it.ops, reduction, perm, i), reversed,
                 [i \in 1..n - 1 |-> i + 1])

ReorderDimensions(it, perm) ==
    LET permuted(s) == IF s = <<>> THEN s ELSE [d \in DOMAIN perm |-> s[perm[d]]]
    IN  [it EXCEPT !.shape = permuted(@),
                   !.ops = [k \in DOMAIN @ |-> [@[k] EXCEPT !.strides = permuted(@)]]]

\* allocate_outputs: the strides of a new output follow the order of the
\* dimensions, so that the loops are contiguous in it.
AllocateOutputs(it, perm) ==
    LET compatible == [d \in DimsOf(it) |-> Numel(SubSeq(it.shape, 1, d - 1))]
        inverse(d) == CHOOSE e \in DOMAIN perm : perm[e] = d
        new == [sizes |-> [d \in DimsOf(it) |-> it.shape[inverse(d)]],
                strides |-> [d \in DimsOf(it) |-> compatible[inverse(d)]], offset |-> 0]
    IN  [it EXCEPT !.ops = [k \in DOMAIN @ |->
            IF @[k].tensor = Undefined THEN [@[k] EXCEPT !.tensor = new, !.strides = compatible]
            ELSE @[k]]]

\* Faulty variant: the stride of a dimension of size 1 is kept when it grows.
CoalesceKeepingStride(it) ==
    LET last(s) == Len(s.shape)
        join(s, dim) ==
            IF \/ s.shape[last(s)] = 1 \/ it.shape[dim] = 1
               \/ \A k \in DOMAIN s.ops :
                     s.shape[last(s)] * s.ops[k].strides[last(s)] = it.ops[k].strides[dim]
            THEN [s EXCEPT !.shape[last(s)] = @ * it.shape[dim]]
            ELSE [s EXCEPT
                    !.shape = Append(@, it.shape[dim]),
                    !.ops = [k \in DOMAIN @ |->
                        [@[k] EXCEPT !.strides = Append(@, it.ops[k].strides[dim])]]]
        first == [it EXCEPT !.shape = <<@[1]>>,
                            !.ops = [k \in DOMAIN @ |-> [@[k] EXCEPT !.strides = <<@[1]>>]]]
    IN  IF Len(it.shape) <= 1 THEN it
        ELSE FoldLeft(join, first, [d \in 1..Len(it.shape) - 1 |-> d + 1])

\* coalesce_dimensions: a dimension joins the one before it when every operand
\* walks through both as through one, or when one of them has size 1.
CoalesceDimensions(it) ==
    LET last(s) == Len(s.shape)
        join(s, dim) ==
            IF \/ s.shape[last(s)] = 1 \/ it.shape[dim] = 1
               \/ \A k \in DOMAIN s.ops :
                     s.shape[last(s)] * s.ops[k].strides[last(s)] = it.ops[k].strides[dim]
            THEN [s EXCEPT
                    !.shape[last(s)] = @ * it.shape[dim],
                    !.ops = [k \in DOMAIN @ |->
                        [@[k] EXCEPT !.strides[last(s)] =
                            IF s.shape[last(s)] = 1 THEN it.ops[k].strides[dim] ELSE @]]]
            ELSE [s EXCEPT
                    !.shape = Append(@, it.shape[dim]),
                    !.ops = [k \in DOMAIN @ |->
                        [@[k] EXCEPT !.strides = Append(@, it.ops[k].strides[dim])]]]
        first == [it EXCEPT !.shape = <<@[1]>>,
                            !.ops = [k \in DOMAIN @ |-> [@[k] EXCEPT !.strides = <<@[1]>>]]]
    IN  IF Len(it.shape) <= 1 THEN it
        ELSE FoldLeft(join, first, [d \in 1..Len(it.shape) - 1 |-> d + 1])

\* fast_set_up, when every operand is contiguous and of the same shape.
FastSetUp(it) ==
    LET new == [sizes |-> it.shape, strides |-> RowMajor(it.shape), offset |-> 0]
        flat(op) == [op EXCEPT !.tensor = IF @ = Undefined THEN new ELSE @,
                               !.strides = IF it.shape = <<>> THEN <<>> ELSE <<1>>]
    IN  [it EXCEPT !.shape = IF @ = <<>> THEN <<>> ELSE <<Numel(@)>>,
                   !.ops = [k \in DOMAIN @ |-> flat(@[k])]]

\* compute_shape: the operands are broadcast together.  An output that is
\* only written has no say and is resized, except in a reduction.
Considered(j) ==
    LET out == IF j.out # Undefined /\ (j.reduction \/ j.inplace) THEN <<j.out>> ELSE <<>>
    IN  [k \in DOMAIN (out \o j.inputs) |-> (out \o j.inputs)[k].sizes]

ComputeShape(j) ==
    FoldLeft(LAMBDA shape, sizes :
                IF shape = Refused THEN Refused
                ELSE IF shape = <<>> THEN sizes ELSE Broadcast(shape, sizes),
             <<>>, Considered(j))

\* An output of another shape is resized, or refused when it is also read.
ResizedOutput(j) ==
    LET shape == ComputeShape(j)
    IN  IF j.out = Undefined \/ j.reduction \/ shape = Refused THEN j.out
        ELSE IF j.out.sizes = shape THEN j.out
        ELSE IF j.inplace THEN Refused
        ELSE [j.out EXCEPT !.sizes = shape, !.strides = RowMajor(shape)]

\* Faulty variant: the inputs are not looked at.
CheckOutputOverlap(j) ==
    j.out # Undefined /\ j.checks => HasInternalOverlap(j.out) # "yes"

\* check_mem_overlaps, against the inputs that share the output's storage.
CheckMemOverlaps(j) ==
    j.out # Undefined /\ j.checks =>
        /\ HasInternalOverlap(j.out) # "yes"
        /\ j.shared => GetOverlapStatus(j.out, j.inputs[1], j.inplace) # "partial"

CanBuild(j) ==
    CheckMemOverlaps(j) /\ ComputeShape(j) # Refused /\ ResizedOutput(j) # Refused

\* build.
Build(j) ==
    LET shape == ComputeShape(j)
        out == ResizedOutput(j)
        tensors == <<out>> \o j.inputs
        defined(k) == tensors[k] # Undefined
        fast == /\ ~j.reduction
                /\ Cardinality(ToSet(Considered(j))) = 1
                /\ \A k \in DOMAIN tensors : defined(k) => IsContiguous(tensors[k])
        it == [shape |-> shape, accumulate |-> FALSE, final |-> TRUE,
               ops |-> [k \in DOMAIN tensors |->
                   [tensor |-> tensors[k], out |-> k = 1,
                    data |-> IF defined(k) THEN tensors[k].offset ELSE 0,
                    strides |-> IF defined(k) THEN ComputeStrides(shape, tensors[k]) ELSE <<>>]]]
        perm == SortedPerm(it, j.reduction)
    IN  IF fast THEN FastSetUp(it)
        ELSE CoalesceDimensions(AllocateOutputs(ReorderDimensions(it, perm), perm))

-----------------------------------------------------------------------------
\* DimCounter: the position of a linear offset, the largest block of whole
\* columns from there, and the step over it.
CounterValues(shape, offset) ==
    [d \in DOMAIN shape |-> (offset \div Numel(SubSeq(shape, 1, d - 1))) % shape[d]]

Max2dStep(shape, values, offset, end) ==
    LET step0 == Min({shape[1] - values[1], end - offset})
    IN  <<step0, IF step0 = shape[1] THEN Min({shape[2] - values[2], (end - offset) \div shape[1]})
                 ELSE 1>>

Increment(shape, values, step) ==
    LET first == IF step[2] # 1 THEN 2 ELSE 1
        carry(c, d) ==
            LET value == c.values[d] + c.overflow
            IN  IF d < first \/ c.overflow = 0 THEN c
                ELSE IF value >= shape[d]
                THEN [values |-> [c.values EXCEPT ![d] = value - shape[d]], overflow |-> 1]
                ELSE [values |-> [c.values EXCEPT ![d] = value], overflow |-> 0]
    IN  FoldLeft(carry, [values |-> values, overflow |-> step[first]],
                 [d \in DOMAIN shape |-> d]).values

\* get_data_ptrs: where the operands are at a position.
DataPtrs(it, values) ==
    [k \in DOMAIN it.ops |->
        it.ops[k].data + Total([d \in DimsOf(it) |-> values[d] * it.ops[k].strides[d]])]

\* What a loop over size0 by size1 elements touches, and all of an iterator.
Block(it, values, step) ==
    LET stride(k, d) == IF d <= Len(it.shape) THEN it.ops[k].strides[d] ELSE 0
        base == DataPtrs(it, values)
    IN  [i \in 1..step[1] * step[2] |->
            [k \in DOMAIN it.ops |-> base[k] + ((i - 1) % step[1]) * stride(k, 1)
                                             + ((i - 1) \div step[1]) * stride(k, 2)]]

Elements(it) ==
    [i \in 1..Numel(it.shape) |-> DataPtrs(it, CounterValues(it.shape, i - 1))]

\* narrow, and select_all_keeping_dim, which leaves the shape uncoalesced.
Narrow(it, dim, start, size) ==
    LET cut == [it EXCEPT !.shape = [d \in DOMAIN @ |-> IF d = dim THEN size ELSE @[d]],
                          !.ops = [k \in DOMAIN @ |->
                              [@[k] EXCEPT !.data = @ + it.ops[k].strides[dim] * start]]]
    IN  IF size = 1 THEN CoalesceDimensions(cut) ELSE cut

SelectAllKeepingDim(it, first, indices) ==
    [it EXCEPT
        !.shape = [d \in DimsOf(it) |-> IF d >= first THEN 1 ELSE it.shape[d]],
        !.ops = [k \in DOMAIN @ |-> [@[k] EXCEPT !.data = @ +
            Total([i \in DOMAIN indices |->
                it.ops[k].strides[first + i - 1] * indices[i]])]]]

IsDimReduced(it, d) == it.ops[1].strides[d] = 0 /\ it.shape[d] > 1
NumReduceDims(it) == Cardinality({d \in DimsOf(it) : it.ops[1].strides[d] = 0})

-----------------------------------------------------------------------------
\* can_use_32bit_indexing, get_dim_to_split and split: the half that is walked
\* first is not final, the other one accumulates, when both have the same
\* outputs.
CanUse32BitIndexing(it) ==
    /\ Numel(it.shape) <= Max32
    /\ \A k \in DOMAIN it.ops :
          1 + Total([d \in DimsOf(it) |-> (it.shape[d] - 1) * it.ops[k].strides[d]])
             <= Max32

DimToSplit(it) ==
    LET extent(d) == Max({(it.shape[d] - 1) * it.ops[k].strides[d] : k \in DOMAIN it.ops})
        largest == Max({extent(d) : d \in DimsOf(it)})
    IN  Max({d \in DimsOf(it) : extent(d) = largest})

\* Faulty variant: both halves accumulate into the output.
SplitAccumulating(it, dim) ==
    LET half == it.shape[dim] \div 2
        overlaps == IsDimReduced(it, dim)
        first == Narrow(it, dim, 0, half)
        rest == Narrow(it, dim, half, it.shape[dim] - half)
    IN  <<[first EXCEPT !.final = @ /\ ~overlaps, !.accumulate = @ \/ overlaps],
          [rest EXCEPT !.accumulate = @ \/ overlaps]>>

Split(it, dim) ==
    LET half == it.shape[dim] \div 2
        overlaps == IsDimReduced(it, dim)
        first == Narrow(it, dim, 0, half)
        rest == Narrow(it, dim, half, it.shape[dim] - half)
    IN  <<[first EXCEPT !.final = @ /\ ~overlaps], [rest EXCEPT !.accumulate = @ \/ overlaps]>>

\* Faulty variant: the longest dimension, reduced or not.
FindLongestDim(it) ==
    Max({d \in DimsOf(it) : \A e \in DimsOf(it) : it.shape[e] <= it.shape[d]})

\* find_split_dim: the outermost dimension that has a column for every thread,
\* or else the longest of those that are not reduced.
FindSplitDim(it) ==
    LET n == Len(it.shape)
        outer == {d \in 1..n : \A e \in d..n : ~IsDimReduced(it, e)}
        wide == {d \in outer : it.shape[d] >= NumThreads}
        longest == {d \in outer \cup {n} : \A e \in outer : it.shape[e] <= it.shape[d]}
    IN  IF wide # {} THEN Max(wide) ELSE Max(longest)

\* The ranges parallel_for cuts 0..n-1 into: one for each thread.
Ranges(n) ==
    LET chunk == (n + NumThreads - 1) \div NumThreads
    IN  [i \in 1..(n + chunk - 1) \div chunk |-> <<(i - 1) * chunk, Min({i * chunk, n})>>]

\* round_columns: whole lines of memory, except for the last column.
RoundColumns(range, cols) ==
    [i \in 1..2 |-> IF i = 2 /\ range[2] = cols THEN cols ELSE range[i] - (range[i] % LineSize)]

-----------------------------------------------------------------------------
\* A part of the work, done by one thread: a range of the positions of an
\* iterator, into the output or into the slice of a buffer.
Part(it, range, slice) ==
    [it |-> it, offset |-> range[1], end |-> range[2], slice |-> slice,
     values |-> CounterValues(it.shape, range[1])]

Whole(it) == <<Part(it, <<0, Numel(it.shape)>>, 0)>>

\* for_each: ranges of the positions.
ForEach(it) ==
    [i \in DOMAIN Ranges(Numel(it.shape)) |-> Part(it, Ranges(Numel(it.shape))[i], 0)]

\* two_pass_reduction: the same, each thread into a slice of its own.
TwoPassReduction(it) ==
    [i \in DOMAIN Ranges(Numel(it.shape)) |-> Part(it, Ranges(Numel(it.shape))[i], i)]

\* parallel_dim_reduction and foreach_reduced_elt: columns of one dimension.
Columns(it, round) ==
    LET dim == FindSplitDim(it)
        cols == it.shape[dim]
        ranges == [i \in DOMAIN Ranges(cols) |->
                     IF round /\ it.ops[2].strides[dim] = 1
                     THEN RoundColumns(Ranges(cols)[i], cols) ELSE Ranges(cols)[i]]
        work == SelectSeq(ranges, LAMBDA r : r[1] # r[2])
        narrowed(r) == Narrow(it, dim, r[1], r[2] - r[1])
    IN  [i \in DOMAIN work |-> narrowed(work[i])]

\* The loop of foreach_reduced_elt runs over the dimensions that are kept.
KeptShape(it) == SubSeq(it.shape, NumReduceDims(it) + 1, Len(it.shape))

EachPart(it) ==
    [it |-> it, offset |-> 0, end |-> Numel(KeptShape(it)), slice |-> 0,
     values |-> [d \in DOMAIN KeptShape(it) |-> 0]]

\* How the work of an operation is laid out, when it is large enough for
\* several threads and when it is not.
OneOutput(it) == Numel(it.ops[1].tensor.sizes) = 1

ParallelReduce(it) ==
    LET columns == Columns(it, TRUE)
    IN  IF OneOutput(it) THEN TwoPassReduction(it)
        ELSE [i \in DOMAIN columns |-> Whole(columns[i])[1]]

ForeachReducedElt(it) ==
    LET columns == Columns(it, FALSE)
    IN  IF OneOutput(it) THEN <<EachPart(it)>>
        ELSE [i \in DOMAIN columns |-> EachPart(columns[i])]

Plan(j, it) ==
    IF j.parallel /\ j.walk = "for_each" THEN ForEach(it)
    ELSE IF j.parallel /\ j.walk = "reduce" THEN ParallelReduce(it)
    ELSE IF j.walk = "foreach_reduced_elt"
    THEN IF j.parallel THEN ForeachReducedElt(it) ELSE <<EachPart(it)>>
    ELSE Whole(it)

Start(j) ==
    /\ job = Idle /\ CanBuild(j)
    /\ LET it == Build(j)
       IN  /\ job' = [j EXCEPT !.out = it.ops[1].tensor,
                               !.resized = j.out # ResizedOutput(j)]
           /\ parts' = Plan(j, it)
    /\ visited' = <<>>
    /\ UNCHANGED tensor

\* One call of the loop, for a part of the work.
Visit(addresses, part, call) ==
    visited' = visited \o [i \in DOMAIN addresses |->
        [at |-> addresses[i], slice |-> parts[1].slice, part |-> part, call |-> call,
         accumulate |-> parts[1].it.accumulate, final |-> parts[1].it.final]]

\* serial_for_each: the next block of the first part.
LoopStep ==
    /\ parts # <<>> /\ job.walk \in {"for_each", "reduce"}
    /\ LET p == parts[1]
           step == IF Len(p.it.shape) <= 1 THEN <<p.end - p.offset, 1>>
                   ELSE Max2dStep(p.it.shape, p.values, p.offset, p.end)
           next == p.offset + step[1] * step[2]
       IN  /\ Visit(Block(p.it, p.values, step), Len(parts), p.offset)
           /\ parts' = IF next >= p.end THEN Tail(parts)
                       ELSE [parts EXCEPT ![1] = [p EXCEPT
                               !.offset = next,
                               !.values = Increment(p.it.shape, p.values, step)]]
    /\ UNCHANGED <<tensor, job>>

\* foreach_reduced_elt: the loop gets all the inputs of one output element.
EachStep ==
    /\ parts # <<>> /\ job.walk = "foreach_reduced_elt"
    /\ LET p == parts[1]
           reduced == SelectAllKeepingDim(p.it, NumReduceDims(p.it) + 1, p.values)
       IN  /\ Visit(Elements(reduced), Len(parts), p.offset)
           /\ parts' = IF p.offset + 1 >= p.end THEN Tail(parts)
                       ELSE [parts EXCEPT ![1] = [p EXCEPT
                               !.offset = @ + 1,
                               !.values = Increment(KeptShape(p.it), @, <<1, 1>>)]]
    /\ UNCHANGED <<tensor, job>>

\* SplitUntil32Bit::operator++: an iterator whose offsets are too large for 32
\* bits is split, its first half comes next; one that fits is walked whole.
SplitStep ==
    /\ parts # <<>> /\ job.walk = "split"
    /\ ~CanUse32BitIndexing(parts[1].it)
    /\ LET it == parts[1].it
           halves == Split(it, DimToSplit(it))
       IN  /\ it.shape # <<>> /\ it.shape[Len(it.shape)] >= 2
           /\ parts' = Whole(halves[1]) \o Whole(halves[2]) \o Tail(parts)
    /\ UNCHANGED <<tensor, job, visited>>

KernelStep ==
    /\ parts # <<>> /\ job.walk = "split"
    /\ CanUse32BitIndexing(parts[1].it)
    /\ LET launched == {visited[i].call : i \in DOMAIN visited}
       IN  Visit(Elements(parts[1].it), 0, Cardinality(launched))
    /\ parts' = Tail(parts)
    /\ UNCHANGED <<tensor, job>>

\* The second pass of two_pass_reduction: the slices, of which every thread
\* has one, are reduced into the output.
FinalReduce ==
    /\ job # Idle /\ parts = <<>>
    /\ \E i \in DOMAIN visited : visited[i].slice # 0
    /\ visited' = [i \in DOMAIN SelectSeq(visited, LAMBDA v : v.slice \in 1..NumThreads) |->
                     [SelectSeq(visited, LAMBDA v : v.slice \in 1..NumThreads)[i]
                        EXCEPT !.slice = 0]]
    /\ UNCHANGED <<tensor, job, parts>>

Done == job # Idle /\ parts = <<>> /\ \A i \in DOMAIN visited : visited[i].slice = 0

Finish ==
    /\ Done
    /\ job' = Idle /\ visited' = <<>>
    /\ UNCHANGED <<tensor, parts>>

-----------------------------------------------------------------------------
\* The operations that are tried on an input: with a new output, an output of
\* another layout, in place, and into a window of the input's own storage;
\* with a second input that is broadcast; and reductions of any dimensions.
Dense(sizes) == [sizes |-> sizes, strides |-> RowMajor(sizes), offset |-> 0]

Transposed(sizes) ==
    [sizes |-> sizes, strides |-> Reverse(RowMajor(Reverse(sizes))), offset |-> 0]

Seconds(t) ==
    {<<>>} \cup (IF t.sizes = <<>> THEN {} ELSE
        {<<Dense(Tail(t.sizes))>>, <<Dense([t.sizes EXCEPT ![Len(t.sizes)] = 1])>>,
         <<Dense(<<2>> \o t.sizes)>>})

Windows(t) ==
    {[sizes |-> <<n>>, strides |-> <<1>>, offset |-> o] :
        n \in {0, Numel(t.sizes)}, o \in 0..1}

Job(walk, inputs, out, how) ==
    [walk |-> walk, inputs |-> inputs, out |-> out,
     parallel |-> how.parallel, checks |-> how.checks,
     reduction |-> how.reduction, inplace |-> how.inplace, shared |-> how.shared, resized |-> FALSE]

How(parallel, reduction, inplace, shared) ==
    [parallel |-> parallel, checks |-> TRUE, reduction |-> reduction,
     inplace |-> inplace, shared |-> shared]

Elementwise(t) ==
    {Job(walk, <<t>> \o second, out, How(parallel, FALSE, FALSE, FALSE)) :
        walk \in {"for_each"}, second \in Seconds(t), parallel \in BOOLEAN,
        out \in {Undefined, Transposed(t.sizes)}}
    \cup {Job("for_each", <<t>>, t, How(TRUE, FALSE, TRUE, TRUE))}
    \cup {Job("for_each", <<t>>, w, How(FALSE, FALSE, FALSE, TRUE)) : w \in Windows(t)}
    \cup {Job("split", <<t>>, Undefined, How(FALSE, FALSE, FALSE, FALSE))}

Reductions(t) ==
    {Job(walk, <<t>>, Dense([d \in DOMAIN t.sizes |-> IF d \in mask THEN 1 ELSE t.sizes[d]]),
         How(parallel, TRUE, FALSE, FALSE)) :
        walk \in {"reduce", "foreach_reduced_elt", "split"},
        mask \in SUBSET DOMAIN t.sizes, parallel \in BOOLEAN}

\* The inputs: views of the bounded sizes, and boxes of three dimensions with
\* their dimensions in any order.
Boxes ==
    {[sizes |-> [d \in 1..3 |-> size[p[d]]], strides |-> [d \in 1..3 |-> RowMajor(size)[p[d]]],
      offset |-> 0] : p \in Permutations(1..3), size \in {<<2, 2, 2>>, <<3, 2, 2>>}}

Inputs ==
    (IF Numel(tensor.sizes) \in IterNumel /\ tensor.offset <= IterOffset THEN {tensor} ELSE {})
    \cup (IF tensor = Dense(<<StorageSize>>) THEN Boxes ELSE {})

IterInit == Init /\ job = Idle /\ parts = <<>> /\ visited = <<>>

IterNext ==
    \/ job = Idle /\ Next /\ UNCHANGED ivars
    \/ /\ job = Idle /\ tensor # Refused
       /\ \E t \in Inputs : \E j \in Elementwise(t) \cup Reductions(t) : Start(j)
    \/ LoopStep \/ EachStep \/ SplitStep \/ KernelStep \/ FinalReduce \/ Finish

IterSpec == IterInit /\ [][IterNext]_<<tensor, ivars>>

-----------------------------------------------------------------------------
\* The addresses of an operand at an index of the broadcast shape.
AddressAt(t, shape, k) ==
    LET lead == Len(shape) - Len(t.sizes)
        index(d) == ((k - 1) \div Numel(SubSeq(shape, d + 1, Len(shape)))) % shape[d]
    IN  t.offset + Total([d \in DOMAIN t.sizes |->
            IF t.sizes[d] = 1 THEN 0 ELSE index(lead + d) * t.strides[d]])

\* What an operation has to touch: for every index, the element each operand
\* has there.
Demanded(j) ==
    LET tensors == <<j.out>> \o j.inputs
        shape == ComputeShape(j)
    IN  [k \in 1..Numel(shape) |-> [i \in DOMAIN tensors |-> AddressAt(tensors[i], shape, k)]]

Occurs(s, x) == Cardinality({i \in DOMAIN s : s[i] = x})

\* Every index is visited once, with the elements the operands have there,
\* however the dimensions were reordered and merged and the work was cut.
VisitsEachOnce ==
    job # Idle =>
        LET seen == [i \in DOMAIN visited |-> visited[i].at]
            all == Demanded(job)
        IN  \A x \in ToSet(seen) \cup ToSet(all) :
               IF Done THEN Occurs(seen, x) = Occurs(all, x)
               ELSE Occurs(seen, x) <= Occurs(all, x)

\* No two threads reduce into the same element of an output, and a loop of
\* foreach_reduced_elt gets all the inputs of its output element at once.
ReducersOwnOutputs ==
    job # Idle /\ job.reduction =>
        \A i, k \in DOMAIN visited :
            /\ visited[i].at[1] = visited[k].at[1] /\ visited[i].slice = visited[k].slice
            /\ ~(visited[i].slice = 0 /\ Numel(job.out.sizes) = 1)
            => /\ visited[i].part = visited[k].part
               /\ job.walk = "foreach_reduced_elt" => visited[i].call = visited[k].call

\* "If the kernel should accumulate into the output" and "whether this
\* iterator produces the actual output" (TensorIterator.h:244-252): of the
\* parts that reach an output element, all but the first accumulate and only
\* the last is final.
SplitsAccumulate ==
    Done /\ job.walk = "split" =>
        \A i \in DOMAIN visited :
            LET calls == {visited[k].call : k \in {k \in DOMAIN visited :
                              visited[k].at[1] = visited[i].at[1]}}
            IN  /\ visited[i].accumulate <=> visited[i].call # Min(calls)
                /\ visited[i].final <=> visited[i].call = Max(calls)

\* A reduction that is cut up, among threads or for 32-bit offsets, comes to the
\* value of the whole: each output element has one writer at a time, and the
\* parts that reach it one after the other know which of them they are.
ReductionsSplitSafely == ReducersOwnOutputs /\ SplitsAccumulate

\* The answers about overlap are right, with two exceptions: a dimension of
\* size 1 with stride 0 is taken for an overlap, although MemoryOverlap.h:10
\* says "YES: Absolutely yes memory overlap", and so is an empty tensor that
\* lies within the other one.
SingletonStride(t) == \E d \in DOMAIN t.sizes : t.strides[d] = 0 /\ t.sizes[d] = 1

AnswersHold ==
    job = Idle =>
    LET own == Addresses(tensor)
        answer == HasInternalOverlap(tensor)
    IN  /\ answer = "no" => IsInjective(own)
        /\ answer = "yes" /\ ~SingletonStride(tensor) => ~IsInjective(own)
        /\ \A w \in Windows(tensor) :
              LET status == GetOverlapStatus(w, tensor, FALSE)
                  common == ToSet(Addresses(w)) \cap ToSet(own)
              IN  /\ status = "no" => common = {}
                  /\ status = "partial" /\ Numel(w.sizes) > 0 =>
                        common # {} /\ ToSet(Addresses(w)) # ToSet(own)
                  /\ status = "full" => Addresses(w) = own

\* An operation never writes an element that it reads at another index, so
\* that the order in which the threads walk does not matter: an output in the
\* storage of the input either is the input or stays clear of it.  It is
\* claimed where the overlap of the two can be told, and not of an output that
\* was resized, which happens after the check.
NoPartialOverlap ==
    /\ job # Idle /\ job.shared /\ ~job.resized
    /\ IsContiguous(job.out) /\ IsContiguous(job.inputs[1])
    => \A i, k \in DOMAIN visited : visited[i].at[1] = visited[k].at[2] => i = k

\* What is said of the overlap of tensors is so, and what is done relies on it:
\* the answers of has_internal_overlap and get_overlap_status hold, and no
\* operation whose output they let pass reads what it has overwritten.
OverlapIsTold == AnswersHold /\ NoPartialOverlap
=============================================================================
