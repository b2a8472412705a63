------------------------------ MODULE MCTensors ------------------------------
(***************************************************************************)
(* The instance of what is computed over tensors for TLC: views and the    *)
(* iterator over them, batches of packed sequences, and the trees of       *)
(* elementary differentials.  They share no state: Init chooses which is   *)
(* run.                                                                    *)
(***************************************************************************)
EXTENDS TensorIterator, PackedSequence, RootedTrees

VARIABLE workload

mcvars == <<tensor, ivars, packVars, treeVars, workload>>

MCInit ==
    /\ IterInit /\ PackInit /\ TreesInit
    /\ workload \in {"tensors", "packed", "trees"}
    /\ workload # "tensors" => tensor = Dense(<<StorageSize>>)
    /\ workload # "packed" => lengths = <<1>> /\ time = 1 /\ ~bidirectional

\* A batch that has been refused, padded or differentiated stays what it is, and
\* so does a tree that is large enough.
Terminating ==
    \/ stage \in {"refused", "unpacked", "gradient"} /\ UNCHANGED packVars /\ UNCHANGED treeVars
    \/ Len(parent) + 1 = MaxNodes /\ UNCHANGED treeVars /\ UNCHANGED packVars

MCNext ==
    /\ UNCHANGED workload
    /\ \/ workload = "tensors" /\ IterNext /\ UNCHANGED <<packVars, treeVars>>
       \/ workload = "packed" /\ PackNext /\ UNCHANGED <<tensor, ivars, treeVars>>
       \/ workload = "trees" /\ TreesNext /\ UNCHANGED <<tensor, ivars, packVars>>
       \/ Terminating /\ UNCHANGED <<tensor, ivars>>

MCSpec == MCInit /\ [][MCNext]_mcvars
=============================================================================
