--------------------------- MODULE PackedSequence ---------------------------
(***************************************************************************)
(* Sequences of different lengths in one batch: packing a padded batch     *)
(* (native/PackedSequence.cpp), running a stack of recurrent layers over   *)
(* the packed data, forward and in both directions (native/RNN.cpp), and   *)
(* padding the result.  What a cell computes is left symbolic: the hidden  *)
(* state is the initial one with the inputs the cell has seen, in order.   *)
(* Only the element of the data that stands for one step of one sequence   *)
(* is modelled, not its features; dropout and batch_first are left out.    *)
(***************************************************************************)
EXTENDS Naturals, Sequences, SequencesExt

CONSTANTS MaxBatch,    \* bound on the sequences of a batch
          MaxLength,   \* bound on their lengths
          MaxLayers,   \* bound on the layers
          Padding,     \* padding_value
          NoGrad       \* the zero of a gradient

VARIABLES
    stage,          \* how far the batch has come
    time,           \* the size in time of the padded input
    lengths,        \* the lengths of its sequences, in the order of the batch
    bidirectional,
    batchSizes,     \* batch_sizes of the packed sequence
    data,           \* its data; the steps of the sequences, one after the other
    finalHiddens,   \* the final hidden states of each layer, by direction
    output          \* what padding, or the gradient of packing, returns

packVars == <<stage, time, lengths, bidirectional, batchSizes, data, finalHiddens, output>>

Forward == 1
Backward == 2
Directions == {Forward} \cup IF bidirectional THEN {Backward} ELSE {}

\* The input of sequence b at time t, and its hidden state at the beginning.
Input(t, b) == <<"input", t, b>>
InputHidden(layer, dir, b) == <<"hidden", layer, dir, b>>

Cell(x, hidden) == Append(hidden, x)

\* A cell is applied to each row of a slice of the batch.
Cells(inputs, hidden) == [b \in DOMAIN inputs |-> Cell(inputs[b], hidden[b])]

Rows(s, start, end) == SubSeq(s, start + 1, end)
NarrowRows(s, start, length) == SubSeq(s, start + 1, start + length)

-----------------------------------------------------------------------------
\* The lengths that _pack_padded_sequence accepts.
Packable == /\ lengths[Len(lengths)] > 0
            /\ \A i \in 1..Len(lengths) - 1 : lengths[i] >= lengths[i + 1]

\* Block of the padded input: times start..end - 1 of the first n sequences, as
\* far as the input has them.
PaddedBlock(start, end, n) ==
    FlattenSeq([t \in 1..(IF end < time THEN end ELSE time) - start |-> [b \in 1..n |-> Input(start + t, b)]])

\* Faulty variant: the new block begins with the step that was sliced last.
PackOverlapping ==
    FoldLeft(LAMBDA p, i :
        LET l == lengths[Len(lengths) - i]
            n == Len(lengths) - i IN
        IF l > p.prev
        THEN [prev |-> l,
              data |-> p.data \o PaddedBlock(IF p.prev = 0 THEN 0 ELSE p.prev - 1, l, n),
              sizes |-> p.sizes \o [j \in 1..l - p.prev |-> n]]
        ELSE p,
        [prev |-> 0, data |-> <<>>, sizes |-> <<>>],
        [i \in 1..Len(lengths) |-> i - 1])

\* _pack_padded_sequence, from the shortest sequence to the longest: the steps
\* that no shorter sequence has are sliced out as one block.
PackPadded ==
    FoldLeft(LAMBDA p, i :
        LET l == lengths[Len(lengths) - i]
            n == Len(lengths) - i IN
        IF l > p.prev
        THEN [prev |-> l, data |-> p.data \o PaddedBlock(p.prev, l, n),
              sizes |-> p.sizes \o [j \in 1..l - p.prev |-> n]]
        ELSE p,
        [prev |-> 0, data |-> <<>>, sizes |-> <<>>],
        [i \in 1..Len(lengths) |-> i - 1])

\* PackedLayer: the hidden states of the sequences that have ended are sliced
\* off, and put back in the order of the batch at the end.
PackedLayer(input, hidden0) ==
    LET Step(r, size) ==
            LET kept == Rows(r.hidden, 0, size)
                ended == Rows(r.hidden, size, Len(r.hidden))
                hidden == Cells(NarrowRows(input, Len(r.out), size), kept) IN
            [hidden |-> hidden,
             hiddens |-> IF ended = <<>> THEN r.hiddens ELSE Append(r.hiddens, ended),
             out |-> r.out \o hidden]
        run == FoldLeft(Step, [hidden |-> hidden0, hiddens |-> <<>>, out |-> <<>>], batchSizes) IN
    [out |-> run.out, hidden |-> FlattenSeq(Reverse(Append(run.hiddens, run.hidden)))]

\* Faulty variant: the steps that were computed backwards stay in that order.
ReversedLayerKeepingOrder(input, hidden0) ==
    LET Step(r, size) ==
            LET joined == r.hidden \o Rows(hidden0, Len(r.hidden), size)
                hidden == Cells(NarrowRows(input, r.offset - size, size), joined) IN
            [hidden |-> hidden, offset |-> r.offset - size, out |-> Append(r.out, hidden)]
        run == FoldLeft(Step,
                   [hidden |-> Rows(hidden0, 0, Last(batchSizes)), offset |-> Len(input), out |-> <<>>],
                   Reverse(batchSizes)) IN
    [out |-> FlattenSeq(run.out), hidden |-> run.hidden]

\* ReversedPackedLayer: backwards in time, the sequences join with their
\* initial hidden states when their last step is reached.
ReversedPackedLayer(input, hidden0) ==
    LET Step(r, size) ==
            LET joined == r.hidden \o Rows(hidden0, Len(r.hidden), size)
                hidden == Cells(NarrowRows(input, r.offset - size, size), joined) IN
            [hidden |-> hidden, offset |-> r.offset - size, out |-> Append(r.out, hidden)]
        run == FoldLeft(Step,
                   [hidden |-> Rows(hidden0, 0, Last(batchSizes)), offset |-> Len(input), out |-> <<>>],
                   Reverse(batchSizes)) IN
    [out |-> FlattenSeq(Reverse(run.out)), hidden |-> run.hidden]

\* The output of a bidirectional layer has those of both directions side by
\* side.
Joined(fw, rev) == [i \in DOMAIN fw |-> <<fw[i], rev[i]>>]

-----------------------------------------------------------------------------
PackInit ==
    /\ stage = "padded"
    /\ \E n \in 1..MaxBatch : lengths \in [1..n -> 0..MaxLength]
    /\ time \in 1..MaxLength
    /\ bidirectional \in BOOLEAN
    /\ batchSizes = <<>> /\ data = <<>> /\ finalHiddens = <<>> /\ output = <<>>

Pack ==
    /\ stage = "padded"
    /\ IF Packable
       THEN /\ stage' = "packed"
            /\ data' = PackPadded.data /\ batchSizes' = PackPadded.sizes
       ELSE stage' = "refused" /\ UNCHANGED <<data, batchSizes>>
    /\ UNCHANGED <<time, lengths, bidirectional, finalHiddens, output>>

\* The lengths are not compared with the size of the input.  When one is
\* greater the data lacks what the batch sizes promise, and whatever narrows,
\* views or copies the data by them throws.
DataComplete == Len(data) = FoldLeft(+, 0, batchSizes)

ThrowIncomplete ==
    /\ stage = "packed" /\ ~DataComplete
    /\ stage' = "refused"
    /\ UNCHANGED <<time, lengths, bidirectional, batchSizes, data, finalHiddens, output>>

\* apply_layer_stack: the output of a layer is the input of the next.
ApplyLayer ==
    /\ stage = "packed" /\ DataComplete /\ Len(finalHiddens) < MaxLayers
    /\ LET layer == Len(finalHiddens) + 1
           hidden(dir) == [b \in DOMAIN lengths |-> <<InputHidden(layer, dir, b)>>]
           fw == PackedLayer(data, hidden(Forward))
           rev == ReversedPackedLayer(data, hidden(Backward)) IN
       IF bidirectional
       THEN /\ data' = Joined(fw.out, rev.out)
            /\ finalHiddens' = Append(finalHiddens, <<fw.hidden, rev.hidden>>)
       ELSE /\ data' = fw.out
            /\ finalHiddens' = Append(finalHiddens, <<fw.hidden>>)
    /\ UNCHANGED <<stage, time, lengths, bidirectional, batchSizes, output>>

\* _pad_packed_sequence: each run of steps with the same batch size is copied
\* as one block, and the sequences that end with it get their length.
PadPacked(total) ==
    LET steps == Len(batchSizes)
        rows == IF total > 0 THEN total ELSE steps
        blank == [out |-> [t \in 1..rows |-> [b \in 1..batchSizes[1] |-> Padding]],
                  lens |-> <<>>, offset |-> 0, prevSize |-> batchSizes[1], prevI |-> 0]
        Step(r, i) ==
            LET size == IF i < steps THEN batchSizes[i + 1] ELSE 0 IN
            IF size = r.prevSize THEN r
            ELSE [out |-> [t \in 1..rows |->
                             IF t - 1 \in r.prevI..i - 1
                             THEN NarrowRows(data, r.offset + r.prevSize * (t - 1 - r.prevI), r.prevSize)
                                    \o SubSeq(r.out[t], r.prevSize + 1, batchSizes[1])
                             ELSE r.out[t]],
                  lens |-> [j \in 1..r.prevSize - size |-> i] \o r.lens,
                  offset |-> r.offset + r.prevSize * (i - r.prevI),
                  prevSize |-> size, prevI |-> i] IN
    FoldLeft(Step, blank, [i \in 1..steps + 1 |-> i - 1])

Pad(total) ==
    /\ stage = "packed" /\ DataComplete
    /\ IF total > 0 /\ total < Len(batchSizes)
       THEN stage' = "refused" /\ UNCHANGED output
       ELSE stage' = "unpacked" /\ output' = PadPacked(total)
    /\ UNCHANGED <<time, lengths, bidirectional, batchSizes, data, finalHiddens>>

\* _pack_padded_sequence_backward: the gradient of each element of the data,
\* here its position, goes to the place in the input that it came from.
GradInput ==
    LET offset(t) == FoldLeft(+, 0, SubSeq(batchSizes, 1, t - 1)) IN
    [t \in 1..time |-> [b \in DOMAIN lengths |->
        IF t <= Len(batchSizes) /\ b <= batchSizes[t] THEN offset(t) + b ELSE NoGrad]]

PackBackward ==
    /\ stage = "packed" /\ DataComplete /\ finalHiddens = <<>>
    /\ stage' = "gradient" /\ output' = GradInput
    /\ UNCHANGED <<time, lengths, bidirectional, batchSizes, data, finalHiddens>>

PackNext ==
    \/ Pack
    \/ ApplyLayer
    \/ \E total \in 0..MaxLength + 1 : Pad(total)
    \/ PackBackward
    \/ ThrowIncomplete

-----------------------------------------------------------------------------
\* FullLayer and FullBidirectionalLayer over one sequence alone: the outputs
\* of each step and the final hidden state.
FullLayer(inputs, hidden0) ==
    LET hiddens == FoldLeft(LAMBDA hs, x : Append(hs, Cell(x, Last(hs))), <<hidden0>>, inputs) IN
    [out |-> Tail(hiddens), hidden |-> Last(hiddens)]

FullReversed(inputs, hidden0) ==
    LET r == FullLayer(Reverse(inputs), hidden0) IN
    [out |-> Reverse(r.out), hidden |-> r.hidden]

\* The stack of as many layers as have been applied, over sequence b alone.
Alone(b) ==
    FoldLeft(LAMBDA r, layer :
        LET fw == FullLayer(r.out, <<InputHidden(layer, Forward, b)>>)
            rev == FullReversed(r.out, <<InputHidden(layer, Backward, b)>>) IN
        IF bidirectional
        THEN [out |-> Joined(fw.out, rev.out), hiddens |-> Append(r.hiddens, <<fw.hidden, rev.hidden>>)]
        ELSE [out |-> fw.out, hiddens |-> Append(r.hiddens, <<fw.hidden>>)],
        [out |-> [t \in 1..lengths[b] |-> Input(t, b)], hiddens |-> <<>>],
        [layer \in DOMAIN finalHiddens |-> layer])

\* A packed batch is a batch: every sequence comes out, with its length, its
\* outputs and its final hidden states in each layer and direction, as if it
\* had been run alone and unpacked, and padding in the steps it does not have
\* (the comments of RNN.cpp:618 and 673 say how the hidden states are sliced).
SequencesRunAlone ==
    stage = "unpacked" =>
        \A b \in DOMAIN lengths :
            /\ output.lens[b] = lengths[b]
            /\ \A t \in DOMAIN output.out :
                  output.out[t][b] = IF t <= lengths[b] THEN Alone(b).out[t] ELSE Padding
            /\ \A layer \in DOMAIN finalHiddens : \A dir \in Directions :
                  finalHiddens[layer][dir][b] = Alone(b).hiddens[layer][dir]

\* The gradient of packing is that of a selection: each step of the data gives
\* its gradient to the step of the input that it is, and padding gets none.
GradientReturns ==
    stage = "gradient" =>
        \A b \in DOMAIN lengths : \A t \in DOMAIN output :
            IF t <= lengths[b] THEN data[output[t][b]] = Input(t, b) ELSE output[t][b] = NoGrad

\* Packing changes nothing that a sequence of the batch can tell, neither in
\* what the recurrent layers compute of it nor in what its gradient is.
PackingIsTransparent == SequencesRunAlone /\ GradientReturns
=============================================================================
