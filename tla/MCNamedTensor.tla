---------------------------- MODULE MCNamedTensor ----------------------------
(***************************************************************************)
(* The instance of NamedTensor for TLC.                                    *)
(***************************************************************************)
EXTENDS NamedTensor

\* The names of dimensions are interchangeable.
Symmetry == Permutations(Names)

\* No later operation looks at whether the last one was a view.  Nor does one look
\* at the stride of a dimension of size 1, but to give it to another of size 1;
\* and NamesFollowDims says nothing of such dimensions.
Futures ==
    LET strides == [d \in Dims |-> IF tensor.sizes[d] = 1 THEN 0 ELSE tensor.strides[d]]
    IN  <<tensor.sizes, strides, tensor.offset, names, IF last = "view" THEN "other" ELSE last>>

\* A chain of operations ends in a copy, which stays what it is.
Terminating == last \in {"copy", "biased", "mixed"} /\ UNCHANGED namedVars

MCSpec == NamedInit /\ [][NamedNext \/ Terminating]_namedVars
=============================================================================
