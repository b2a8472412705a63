----------------------------- MODULE MCHandlePool -----------------------------
(***************************************************************************)
(* An instance of HandlePool, of the components of the GPU libraries and   *)
(* of the allocator of pinned memory for TLC.  They share no state but the *)
(* handles, so that each is run alone: Init chooses which.                 *)
(***************************************************************************)
EXTENDS CudnnConv, CuFFTPlanCache, DropoutState, HostAllocator, TLC

CONSTANTS d1, d2

VARIABLE workload

\* The default algorithm needs more than the others on the one device and less
\* on the other.
MCNeed == [a \in Algos \X Devices |-> IF (a[1] = DefaultAlgo) = (a[2] = d1) THEN 2 ELSE 1]

mcvars == <<vars, convVars, fftVars, rnnVars, hostVars, workload>>

MCInit ==
    /\ Init /\ ConvInit /\ FftInit /\ RnnInit /\ HostInit
    /\ workload \in {"handles", "convolutions", "transforms", "dropout", "memory"}

MCNext ==
    /\ UNCHANGED workload
    /\ \/ workload = "handles" /\ Next /\ UNCHANGED <<convVars, fftVars, rnnVars, hostVars>>
       \/ workload = "convolutions" /\ ConvNext /\ UNCHANGED <<fftVars, rnnVars, hostVars>>
       \/ workload = "transforms" /\ FftNext /\ UNCHANGED <<vars, convVars, rnnVars, hostVars>>
       \/ workload = "dropout" /\ RnnNext /\ UNCHANGED <<vars, convVars, fftVars, hostVars>>
       \/ workload = "memory" /\ HostNext /\ UNCHANGED <<vars, convVars, fftVars, rnnVars>>

MCSpec == MCInit /\ [][MCNext]_mcvars

\* Any allocation may be sliced here, so that addresses are interchangeable too.
Symmetry == Permutations(Threads) \cup Permutations(Ptrs)

\* Nobody waits for a copy that recordEvent ignored: no guard reads stray, and no
\* property of this instance says more of it than its type.
View == <<vars, convVars, fftVars, rnnVars, held, blockVars, outstanding, due, lossVars, workload>>
=============================================================================
