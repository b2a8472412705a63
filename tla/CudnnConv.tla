------------------------------- MODULE CudnnConv -------------------------------
(***************************************************************************)
(* A cuDNN convolution chooses its algorithm: from the BenchmarkCache that *)
(* all threads and devices share, from a benchmark, or from a heuristic;   *)
(* and falls back to the default algorithm when there is no memory for the *)
(* workspace.  A thread runs with the handle that the pool of HandlePool   *)
(* has given it.                                                           *)
(*                                                                         *)
(* The geometry of a convolution is a member of Shapes.  cuDNN is taken to *)
(* be 7.5 or later, where getBestAlgorithm does not replace an algorithm.  *)
(***************************************************************************)
EXTENDS HandlePool

CONSTANTS Shapes,         \* what ConvolutionParams says of the tensors
          Algos,          \* the algorithms of cuDNN ...
          Deterministic,  \* ... those that are deterministic
          DefaultAlgo,    \* ... and search::DEFAULT_ALGO
          Need,           \* the workspace an algorithm needs on a device
          Missing,        \* no entry, or no algorithm yet
          MaxActive       \* bound: threads that have a handle at once

ASSUME AlgosAssumption ==
    /\ Deterministic \subseteq Algos /\ DefaultAlgo \in Deterministic
    /\ \A a \in Algos, d \in Devices : Need[<<a, d>>] \in Nat
    /\ Missing \notin [algo : Algos, memory : Nat, device : Devices] /\ MaxActive \in Nat

VARIABLES
    cache,   \* BenchmarkCache::map
    call     \* the convolution each thread runs

convVars == <<cache, call>>

\* ConvolutionParams: the key has no device.
Params == [shape : Shapes, deterministic : BOOLEAN]

NoCall == [pc |-> "idle"]

ConvInit ==
    /\ cache = [p \in Params |-> Missing]
    /\ call = [t \in Threads |-> NoCall]

-----------------------------------------------------------------------------
\* Faulty variant: the key does not say whether the caller is deterministic.
SharedKey(shape, deterministic) == [shape |-> shape, deterministic |-> FALSE]

\* setConvolutionParams.
Key(shape, deterministic) == [shape |-> shape, deterministic |-> deterministic]

\* What is known of an algorithm on a device; "device" is history.
Perf(algo, d) == [algo |-> algo, memory |-> Need[<<algo, d>>], device |-> d]

At(t, pc) == call[t].pc = pc
Goto(t, pc) == call' = [call EXCEPT ![t].pc = pc]
GoWith(t, pc, perf) == call' = [call EXCEPT ![t].pc = pc, ![t].perf = perf]

HandleUsers == {u \in Threads : \E d \in Devices : mine[u][d] # 0}

\* The thread takes its handle and fills in the parameters.  "missed" is
\* history: whether the call found no entry in the cache when it began.
ConvStart(t, d, shape, deterministic, benchmark) ==
    /\ At(t, "idle") /\ Cardinality(HandleUsers \cup {t}) <= MaxActive
    /\ \/ mine[t][d] # 0 /\ UNCHANGED vars
       \/ ReserveAvailable(t, d)
       \/ ReserveNew(t, d)
    /\ LET p == Key(shape, deterministic)
       IN  call' = [call EXCEPT ![t] =
              [pc |-> "find", device |-> d, params |-> p, benchmark |-> benchmark,
               demands |-> deterministic, missed |-> cache[p] = Missing, perf |-> Missing]]
    /\ UNCHANGED cache

\* Faulty variant: who benchmarks does not look into the cache first.
BenchmarkAlways(t) ==
    /\ At(t, "find")
    /\ LET c == call[t] entry == cache[c.params]
       IN  IF c.benchmark THEN Goto(t, "search")
           ELSE IF entry # Missing THEN GoWith(t, "allocate", entry)
           ELSE IF c.params.deterministic
           THEN GoWith(t, "allocate", Perf(DefaultAlgo, c.device))
           ELSE Goto(t, "search")
    /\ UNCHANGED <<vars, cache>>

\* findAlgorithm: an entry of the cache is taken; without one a deterministic
\* call that may not benchmark takes the default.
Find(t) ==
    /\ At(t, "find")
    /\ LET c == call[t] entry == cache[c.params]
       IN  IF entry # Missing THEN GoWith(t, "allocate", entry)
           ELSE IF c.params.deterministic /\ ~c.benchmark
           THEN GoWith(t, "allocate", Perf(DefaultAlgo, c.device))
           ELSE Goto(t, IF c.benchmark THEN "recheck" ELSE "search")
    /\ UNCHANGED <<vars, cache>>

\* Another thread may have benchmarked the algorithm.
Recheck(t) ==
    /\ At(t, "recheck")
    /\ LET entry == cache[call[t].params]
       IN  IF entry # Missing THEN GoWith(t, "allocate", entry) ELSE Goto(t, "search")
    /\ UNCHANGED <<vars, cache>>

\* search::findAlgorithm and getBestAlgorithm, without any lock: cuDNN offers
\* algorithms, of which a deterministic call takes one that is deterministic;
\* the first one may not have run with success.
Search(t) ==
    /\ At(t, "search")
    /\ \E offered \in Algos :
          /\ call[t].params.deterministic => offered \in Deterministic
          /\ GoWith(t, IF call[t].benchmark THEN "insert" ELSE "allocate",
                    Perf(offered, call[t].device))
    /\ UNCHANGED <<vars, cache>>

SearchFails(t) ==
    /\ At(t, "search") /\ ~call[t].params.deterministic
    /\ GoWith(t, "allocate", Perf(DefaultAlgo, call[t].device))
    /\ UNCHANGED <<vars, cache>>

\* No memory for the benchmark, or no deterministic algorithm: an exception.
SearchThrows(t) ==
    /\ At(t, "search") /\ (call[t].benchmark \/ call[t].params.deterministic)
    /\ call' = [call EXCEPT ![t] = NoCall]
    /\ UNCHANGED <<vars, cache>>

InsertFound(t) ==
    /\ At(t, "insert")
    /\ cache' = [cache EXCEPT ![call[t].params] = call[t].perf]
    /\ Goto(t, "allocate")
    /\ UNCHANGED vars

\* chooseAlgorithm: the workspace.
Allocate(t) ==
    /\ call[t].pc \in {"allocate", "retry"}
    /\ Goto(t, "run")
    /\ UNCHANGED <<vars, cache>>

\* Faulty variant: the size is still that of the algorithm that failed.
FallBackKeepingSize(t) ==
    /\ At(t, "allocate") /\ call[t].perf.memory > 0
    /\ GoWith(t, "record", [call[t].perf EXCEPT !.algo = DefaultAlgo, !.device = call[t].device])
    /\ UNCHANGED <<vars, cache>>

\* No memory for it: the default algorithm is chosen, recorded in the cache and
\* tried instead.
FallBack(t) ==
    /\ At(t, "allocate") /\ call[t].perf.memory > 0
    /\ GoWith(t, "record", Perf(DefaultAlgo, call[t].device))
    /\ UNCHANGED <<vars, cache>>

RecordDefault(t) ==
    /\ At(t, "record")
    /\ cache' = [cache EXCEPT ![call[t].params] = call[t].perf]
    /\ Goto(t, "retry")
    /\ UNCHANGED vars

\* No memory for the default either: an exception.
RetryThrows(t) ==
    /\ At(t, "retry") /\ call[t].perf.memory > 0
    /\ call' = [call EXCEPT ![t] = NoCall]
    /\ UNCHANGED <<vars, cache>>

\* cudnnConvolutionForward.
ConvRun(t) ==
    /\ At(t, "run")
    /\ call' = [call EXCEPT ![t] = NoCall]
    /\ UNCHANGED <<vars, cache>>

ThreadExits(t) == At(t, "idle") /\ Release(t) /\ UNCHANGED convVars

ConvNext ==
    \E t \in Threads :
        \/ \E d \in Devices, shape \in Shapes, deterministic, benchmark \in BOOLEAN :
              ConvStart(t, d, shape, deterministic, benchmark)
        \/ Find(t) \/ Recheck(t) \/ Search(t) \/ SearchFails(t) \/ SearchThrows(t)
        \/ InsertFound(t) \/ Allocate(t) \/ FallBack(t) \/ RecordDefault(t)
        \/ RetryThrows(t) \/ ConvRun(t) \/ ThreadExits(t)

ConvSpec == Init /\ ConvInit /\ [][ConvNext]_<<vars, convVars>>

-----------------------------------------------------------------------------
\* A convolution that has to be deterministic runs a deterministic algorithm,
\* whatever the other threads put into the cache they share; and the workspace
\* is large enough for the algorithm, unless another device had a say in its
\* size: the key of the cache has no device.
RunsAsDemanded ==
    \A t \in Threads : At(t, "run") =>
        LET perf == call[t].perf
        IN  /\ call[t].demands => perf.algo \in Deterministic
            /\ perf.device = call[t].device => perf.memory >= Need[<<perf.algo, perf.device>>]

\* "record it in the cache to prevent further OOM errors" (Conv.cpp:770): an
\* entry is only replaced by the default algorithm, or by a call that found no
\* entry when it began and ends its benchmark now.
EntriesStay ==
    [][\A p \in Params : cache[p] # Missing /\ cache'[p] # cache[p] =>
          \/ cache'[p].algo = DefaultAlgo
          \/ \E t \in Threads : At(t, "insert") /\ call[t].params = p /\ call[t].missed]_cache
=============================================================================
