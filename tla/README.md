# A TLA+ model of ATen's run-time machinery

ATen is a tensor library: some thousand source files, most of them numeric kernels. Around the
kernels lies the machinery that this project is about: the dispatcher that finds the kernel of a
call while libraries load and unload, the threads that share a loop, the futures that carry results
between them, the caches of pinned memory, of library handles, algorithms and plans, and the
arithmetic by which one tensor becomes a view of another, operations walk over several tensors at
once, and names follow their dimensions. These parts are small, concurrent or full of corner cases,
and a unit test reaches little of them.

Paths below are relative to `src/aten/src/` (`core/` and `native/` to `src/aten/src/ATen/`).

## 1. Inventory

| Component | State | Operations | Talks to | What is hard | What makes it correct |
|---|---|---|---|---|---|
| Operator kernel table (`core/dispatch/OperatorEntry`, `DispatchTable.h`) | per key a list of kernels, newest first, under `kernelsMutex_`; a two-instance dispatch table | register a kernel, destroy its handle, look up | called by Dispatcher and by every call | lock-free readers, handles destroyed in any order, a registration refused half-way | the table agrees with the lists; no call reaches an unloaded kernel |
| Kernel functions (`core/boxing/KernelFunction.h`) | a functor, or a factory that makes it at the first call, in every copy | make, copy into the table, call, call boxed | the table's instances | first callers race under no lock; copies are replaced while called | the functor a call runs with lives as long as the call |
| Calls and backend fallbacks (`core/dispatch/Dispatcher.h`) | a second two-instance table, shared by all operators | call, register or withdraw a fallback | reads both tables at once | references into tables that others replace; writers wait for readers | the choice of a call stays right and alive; nobody waits for ever |
| Operator schemas and libraries (`Dispatcher.cpp`, `core/op_registration`) | list of definitions with reference counts, lookup table read without the mutex, listeners | load a library (registrar by registrar), fail, unload, find, listen | owns the kernel tables | partial failure, destructors that assert, two steps of an erasure | an operator lives exactly as long as its handles |
| Types (`core/jit_type.h`, `core/type.cpp`) | none | subtyping, unification of a list's elements | schemas, `IValue` | each kind decides alone, with fall-backs; order of the elements | a type is a subtype only of what admits its values |
| Futures (`core/ivalue_inl.h`) | completed flag, value or error, callbacks, mutex, condition variable | wait, markCompleted, addCallback, value | the intra-op pool, the caller's callbacks | lost wake-ups, callbacks under the mutex, callbacks that throw | one outcome; waiters return; callbacks run once |
| Native parallel back end (`ATen/ParallelNative.*`, `Parallel.h`) | number of threads (set once), pool, its queue, each job's error and futures | set_num_threads, parallel_for, parallel_reduce, intraop_launch(_future) | futures; a thread pool | nesting, errors in several tasks, stack frames held by reference, racing to create the pool | each index once; errors arrive; no dangling frame; no cyclic wait |
| Handle pools (`ATen/cuda/detail/DeviceThreadHandles.h`) | created and available handles per device, each thread's window | reserve, release when the thread exits | cuBLAS, cuSPARSE, cuDNN | threads that start and exit in any order | handles are not shared, and no more are created than needed |
| cuDNN convolution algorithms (`native/cudnn/Conv.cpp`) | cache of algorithms per geometry, shared by threads and devices | find, benchmark, fall back when memory is short | handle pools, cuDNN, the CUDA allocator | the benchmark runs outside of the mutex; entries of other demands | a convolution runs what it demands, in a workspace that suffices |
| cuFFT plan cache (`native/cuda/CuFFTPlanCache.h`, `SpectralOps.cu`) | plans by recent use, maximum size | transform, clear, resize | cuFFT | eviction, plans that fail, calls without the mutex | the plans used last are kept; a running plan is alive and alone |
| Dropout state (`native/cudnn/RNN.cpp`) | a buffer, its event and mutex per device | make, lock, use, unlock | streams of several threads | first use and its initialisation on different streams | uses run in order |
| Caching host allocator (`THC/THCCachingHostAllocator.cpp`) | blocks, available set, deque of CUDA events | malloc, free, recordEvent, emptyCache | CUDA streams | the GPU runs on; any CUDA call may fail; copies from views report pointers that are no block's | memory is not handed out while a reported copy uses it; none is lost |
| Views (`native/TensorShape.cpp`, `TensorUtils.cpp`, `ExpandUtils.cpp`) | sizes, strides, storage offset | view, expand, permute, transpose, select, slice, squeeze, unsqueeze, unfold, diagonal | storage | long chains of legal calls, sizes 0 and 1, overlapping elements | a view reaches only elements of its tensor, in the right order |
| TensorIterator, memory overlap (`native/TensorIterator*.cpp`, `MemoryOverlap.cpp`) | operands, merged dimensions, the parts still to do | build, for_each, parallel_reduce, foreach_reduced_elt, split | views; `parallel_for` | broadcasting, merged dimensions, ranges that start in the middle, 32-bit splits, overlap | each index once; one writer per output; the answers on overlap are true |
| Packed sequences, recurrent layers (`native/PackedSequence.cpp`, `RNN.cpp`) | batch sizes, hidden states set aside | pack, its gradient, layers, pad | views | sequences that end and begin at different steps, both directions, stacking | a sequence of a batch gets what it gets alone |
| Named tensors (`ATen/NamedTensorUtils.cpp`, `native/NamedTensor.cpp`, `TensorNames.cpp`) | names beside sizes | rename, refine, align, flatten, unflatten, reductions, broadcasts, products | views, TensorIterator | wildcards, results stored unvalidated, two implementations | no name twice; names follow their dimensions |
| Rooted trees (`src/aten_trees`, Python) | list of the trees of each order | generate, coefficients, contraction pattern | attention layers | a canonical order among trees of different size | every tree once; coefficients count what they say |
| Random generators, Context, inter-op pool, DispatchStub, debug info | flags and engines | | | | *(not modelled: section 8)* |
| TH storages, files, shared-memory allocator | reference-counted files | | other processes | crash of a process | *(not modelled: section 8)* |
| Sparse and quantized tensors; numeric kernels of native, TH, THC, THNN | data | | | numeric | *(not modelled: section 8)* |
| Code generation | none | | | | *(not modelled: section 8)* |

How they interact: a `RegisterOperators` object (a library) holds `OperatorRegistrar`s; each of them
holds a schema handle from Dispatcher and a kernel handle from the operator's OperatorEntry, and
destroys the kernel's first. A call reads the fallback table and, inside that, the operator's table,
and keeps both until its kernel has returned; a writer of either table waits for the calls that hold
the old instance, and copies KernelFunctions from the lists into them. A kernel may build a
TensorIterator over views and walk it with `parallel_for`, whose caller runs task 0 and waits on one
future per other task; the tasks hold the caller's stack frame by reference. A cuDNN kernel takes a
handle from the pool, an algorithm from the cache, and for an RNN the dropout state of its device.
CUDA copies record an event with the host allocator, which asks the event before it hands the memory
out again. Names are computed beside the sizes that the views and the iterator compute. The hazards
behind the properties are listed with their lines in `PROJECT.json`.

## 2. Modules

The order is that of importance: what every operator call relies on comes first.

| Module | What it is | Composes / extends |
|---|---|---|
| `KernelRegistry` | abstract: calls see snapshots, the newest registration wins, code is released only when unreachable | |
| `OperatorEntry` | one operator's kernels and two-instance table | shown to implement `KernelRegistry` |
| `KernelFunctions` | the functors of the kernels in both instances, and first calls | EXTENDS `OperatorEntry` |
| `DispatcherCalls` | calls, and the fallback table | EXTENDS `OperatorEntry` |
| `Dispatcher` | operators, names, listeners, libraries | an operator's kernels are a set here |
| `Future` | `ivalue::Future` | |
| `ParallelNative` | number of threads, pool, loops, launched functions | a future is its completed bit |
| `JitType` | subtyping and unification | |
| `HandlePool` | handles per thread and device | |
| `CudnnConv` | the choice of a convolution's algorithm | EXTENDS `HandlePool`, whose handles it takes |
| `CuFFTPlanCache` | plans, kept by recent use | EXTENDS `HandlePool` (threads and devices) |
| `DropoutState` | the buffer of random numbers of an RNN | EXTENDS `HandlePool` (threads and devices) |
| `PinnedPool` | abstract: memory has one owner and rests until the copies reported for it are done | |
| `HostAllocator` | the caching host allocator beside CUDA streams | shown to implement `PinnedPool` while no block's free has failed |
| `TensorView` | the geometry of views | |
| `TensorIterator` | building an iteration and walking it | EXTENDS `TensorView`: its inputs are what chains of views make |
| `PackedSequence` | packing, recurrent layers, padding | |
| `NameUnification` | matching of two lists of names, in both implementations | |
| `NamedTensor` | the operations that infer names | EXTENDS `NameUnification`, `TensorView` |
| `RootedTrees` | the trees, their coefficients and contractions | |
| `OperatorEntryProofs`, `DispatcherProofs`, `FuturesAndLoopsProofs`, `HandlePoolProofs`, `NamedTensorProofs`, `StreamOrderProofs`, `TensorViewProofs` | the theorems (section 6) | each EXTENDS the modules it is about: `OperatorEntryProofs` also `KernelFunctions` and `DispatcherCalls`, `FuturesAndLoopsProofs` `Future` and `ParallelNative`, `HandlePoolProofs` also `CudnnConv` and `CuFFTPlanCache`, `StreamOrderProofs` `DropoutState` and `HostAllocator`, `NamedTensorProofs` also `NameUnification`, and `TensorViewProofs` for its lemmas |
| `SequenceLemmas` | what `Cons`, `Append` and `RemoveAt` do to the elements of a sequence; induction over numbers, stated of a set; recursion over numbers | used by the proofs |
| `MCOperatorEntry`, `MCDispatcherCalls`, `MCDispatcher`, `MCNamedTensor` | constants and symmetry of the instances | one each |
| `MCFuturesAndLoops` | the instance of `Future`, `ParallelNative` and `JitType` | components that share no state: Init chooses which is run |
| `MCHandlePool` | the instance of `HandlePool`, `CudnnConv`, `CuFFTPlanCache`, `DropoutState` and `HostAllocator` | likewise |
| `MCTensors` | the instance of `TensorIterator` (with `TensorView`), `PackedSequence` and `RootedTrees` | likewise |

Definitions headed "Faulty variant" are plausible bugs. They are used by no specification; each
replaces a definition of the model once, and the property named beside it in `PROJECT.json`
("mutants") must then fail.

What would come next: the shared-memory file of `THAllocator`, once the processes that share it are
known; `plan_caches` growing while one of its caches is in use; the matching of type variables in
`jit_type`.

## 3. How the modules correspond to the code

**OperatorEntry.** `kernels` is `kernels_` together with `catchAllKernels_` (slot `CatchAll`). A
registration pushes to the front, then `dispatchTable_.write` changes one instance, makes it the
foreground, waits, and changes the other. That is two actions, `RegisterKernel` or
`DeregisterKernel` and then `FinishWrite`; the kernels mutex is held from one to the other
(`writer`). `RegisterUndefined` is the path on which `DispatchTable::setKernel` throws *after* the
list was changed: no handle exists and the element stays ("orphan"). `BeginRead` and `EndRead` are
`readDispatchTable`, which holds its instance until the kernel returns. `c10::LeftRight` is not in
the repository; its contract is written down as just described.

**KernelFunctions.** A write copies a KernelFunction from its list into each instance
(`CopyKernel`), so that each copy makes a functor of its own; a refused write restores the instance
from the other one (`CopyInstance`), whose functors it then shares. A call finds its functor, or
finds none and asks the factory (`FindFunctor`); what the factory made is assigned in a later step,
under no lock (`FirstCall`). A functor is destroyed with the last KernelFunction that owns it; the
call holds a raw pointer. `RefuseBoxed` is the exception for a boxed call of a kernel that is
unboxed only.

**DispatcherCalls.** `BeginCall` enters both tables, `Dispatch` is `dispatch_` (`Pick`: the key's
kernel, the fallback of the key, the catch-all), `DispatchFails` its error, `EndCall` the return.
`RejectFallback` is the refused emplace: LeftRight restores the instance and rethrows. `hollow`
marks kernels that were moved from (finding 1). A thread inside a call takes no lock: a kernel that
registers or deregisters would wait for the call it is part of (`Dispatcher.h:176`), which the code
neither prevents nor promises anything about.

**Dispatcher.** A library constructs the registrars of `Plan[l]` one after another. A registrar
finds or adds the schema (`FindSchema`, `AddSchema`, or `RejectSchema`), takes its reference
(`CountReference`) and registers the kernel (`AddKernel`, or `RejectKernel` for the undefined key).
An exception destroys what was constructed, as unloading does. `deregisterSchema_` is
`ReleaseReference`, `RemoveSchema` (the list node) and `EraseName` (the lookup table, read by others
without the mutex). `prepareForDeregistration` asks only whether the dispatch table is empty
(`OperatorEntry.cpp:30`, the guard of `RemoveSchema`); a refused kernel is in no table, so that the
operator it was meant for is removed like any other (section 7).

**Future.** Every thread performs one operation; a stretch under the mutex is one action. `Wait`
sleeps, `WakeSpuriously` is what condition variables may do, `FireCallback`, `CallbackReturns` and
`CallbackThrows` step through `fireCallbacks` with the mutex held, and `Value` is the question a
callback may ask of the future that runs it.

**ParallelNative.** `setting` is `num_intraop_threads` (`NOT_SET`, a positive number, `CONSUMED`),
`pool` the number of its workers. `EnterParallel` stands for the decision of parallel_for (or
parallel_reduce, which sizes its results: `slots`), and the steps after it hand out tasks, run
chunks, catch errors and wait for futures. A thread's `stack` makes nested regions possible. A job
ends as *returned*, *raised* (rethrows), *refused* (the pool has no workers, and throws) or, for a
launched function, *lost* (it threw: section 7).

**JitType.** A type is a record of its kind, its contained types and its details; a tensor's scalar
type stands for the details merged like it. The behaviour is the loop of `unifyTypeList`: each step
unifies the type so far with that of one more element; a list once found to have no type (`Unknown`)
keeps none.

**HandlePool.** `ReserveAvailable` and `ReserveNew` are `reserve`, `Release` the destructor of the
window, under one lock. A thread that exited may be started anew.

**CudnnConv.** One convolution of a thread goes through `ConvStart`, `Find` (the mutex), then
`Search` or `InsertFound` (the benchmark, outside of it, with `Recheck` before), `Allocate`,
`FallBack` and `RecordDefault` when memory is short, and `ConvRun`. What cuDNN finds is any
algorithm that the demands allow, `Need` its workspace on each device. The backward convolutions
choose by copies of the same code.

**CuFFTPlanCache.** `usage` is `_usage_list`, most recent first; `_cache_map` only indexes it.
`FftLock`, `FftEmplace` (`try_emplace_value`, which may throw when the plan cannot be made) and
`FftRun` run under the mutex of the cache, `FftRunOwn` without the cache when its maximum is 0;
`FftClear` and `FftResize` take no mutex, as in the code. `recent` is a history variable.

**DropoutState.** Kernels are numbered as they are queued; `before[d][s]` is what stream `s` has
waited for, `event[d].after` what the event stands for. `GetState` is `get_dropout_state` under the
mutex of the cache, `MakeBuffer` the initialisation, `LockState`, `UseState` and `UnlockState` the
use.

**HostAllocator.** Every method holds the mutex throughout and is one action; what runs beside it
are the streams (`StreamWorks`). An event's `pos` is the number of items its stream has to finish
before it, so a stream's step lowers positions. `processEvents` takes `n` events from the front, and
a failing CUDA call may stop it anywhere: the actions take `n` as a parameter and say which `n` are
possible. `FreeFails` returns early with the error of `processEvents`, `FreeStops` is a failure
within `insertEvents`. `failed`, a history variable, has the blocks in the map whose own free
returned an error. A copy from or to pinned memory is either reported with the pointer that `malloc`
returned (`RecordEvent`, noted in `due`) or, from a view at an offset, with one that is no block's
(`RecordIgnored`, noted in `stray`): `recordEvent` ignores that one and returns success. `Sliced`
says from which allocations the latter are made. `EmptyCache` warns of a failing `cudaFreeHost` and
erases the block all the same: its memory is `leaked`, and if it was the only call nothing
synchronized the device.

**TensorView.** A behaviour is a chain of views, each made from the one before, starting from a
contiguous tensor. Every action computes sizes, strides and offset as the code does and ends in
`AsStrided`, which checks the storage (`native/Resize.h:72`). `ComputeStride` is the loop of
`TensorUtils.cpp`, stated by what the loop takes (`FillStop`) rather than by its counters.

**TensorIterator.** At any point of such a chain an operation may start (`Start`), element-wise or a
reduction, into an output that is the tensor itself, a window of its storage, given, or still to be
made. `Build` is `build` with the fast set-up beside it; `Plan` decides how it is walked, and the
steps that follow carry out ranges of `parallel_for`, parts of a cut reduction and parts of a 32-bit
split, each recording the elements it visits. Elements have size 1, so strides in bytes are strides;
thresholds such as `GRAIN_SIZE` are small constants.

**PackedSequence.** `Pack`, `PackBackward` and `Pad` are the three functions of
`PackedSequence.cpp`; `PackedLayer`, `ReversedPackedLayer`, `FullLayer` and `ApplyLayer` those of
`RNN.cpp`. A cell is symbolic: a hidden state is the sequence of the inputs it has seen. `Alone` is
the layer run on one sequence by itself, unpacked.

**NameUnification, NamedTensor.** Each implementation of unification is the condition under which it
does not throw, and its result. In `NamedTensor` a behaviour is a chain of named operations, which
compute names beside sizes and strides; a call that throws leaves no trace. `last` tells whether the
result was a view, a copy, a product that its bias (or the tensor added to) gave names, or a product
of batches that mixes names (section 7).

**RootedTrees.** A tree is the sequence of its subtrees, sorted as Python sorts nested tuples
(`Before`). `Generate` is a round of `_generate_all`; then a caller makes a tree of its own, node by
node (`Plant`), and the lists, coefficients and contractions are compared with that tree.
`ProcessNode` is the nested function of `contraction_pattern`, with its numbering from the last
number of the subtree.

## 4. The runs

| Run | Instance | Checks |
|---|---|---|
| `operator_entry` | 3 threads; a usable key, the undefined key, the catch-all; 3 registrations, two with a factory and one unboxed only; at most 5 functors; symmetry | `KernelsInForce`, `UnloadSafe`, `FunctorOutlivesCall`, `ImplementsRegistry` |
| `dispatcher_calls` | 3 threads; keys cpu, undefined and none; 1 registration, 2 fallbacks; no symmetry (liveness) | `PickStable`, `RunsOnlyLive`, `FallbackHandleResolves`, `AllReturn` |
| `dispatcher` | 3 libraries that share 2 operators, one with a conflicting schema and one with a refused kernel; each loaded twice; 1 listener | `HandlesOwnOperators`, `ListenersKnow`, `LastReleaseIsClean`, `LoadsEnd` |
| `futures_and_loops` | a future with 4 threads and 3 callbacks, of which one throws and one asks; *or* 2 callers, at most 2 workers, 2 jobs nested in any way, default of 2 threads, 1 or 3 set, ranges of 1 and 3, grain 2; *or* lists of up to 3 types | `WaitersAgree`, `ListIsFrozen`, `WaitersReturn`, `CallbacksRun`; `FrameAlive`, `JobsAnswer`, `NumThreadsFixed`, `AllEnd`; `SubtypingIsSound`, `UnifiedFitsAll` |
| `handle_pool` | 3 threads, 2 devices; *or* convolutions of at most 2 of them at once, two algorithms of which one is deterministic and each needs more on one device; *or* 3 plans on one device, maximum 0 to 2; *or* RNNs on 2 streams, at most 7 kernels; *or* 2 pieces of pinned memory, 2 sizes, 2 streams with 2 items at most, failures and copies at offsets on; symmetry and VIEW | `PoolSafe`; `RunsAsDemanded`, `EntriesStay`; `CacheIsRecent`, `PlanAlive`; `UsesInOrder`; `MemoryIsKept`, `ImplementsPool` |
| `tensors` | storage of 6 elements, 3 dimensions, strides to 3, arguments -2..2, 2 threads, offsets to 4; *or* batches of at most 3 sequences of at most 4 steps, 2 layers; *or* lists of trees to order 8, trees of at most 6 nodes | `ViewKeepsOrder`, `ElementsOfSelf`, `VisitsEachOnce`, `ReductionsSplitSafely`, `OverlapIsTold`; `PackingIsTransparent`; `TreesAreCounted`, `ContractionsFollowTree` |
| `named_tensors` | storage of 6 elements, 3 dimensions, 3 names and the wildcard; symmetry | `NamesMatchByTheRules`, `NamesFollowDims` |
| `dispatcher_calls_functor` | 2 registrations, 2 fallbacks; symmetry | `FunctorSet`, violated: finding 1 |
| `dispatcher_lookup` | as `dispatcher` | `FoundIsRegistered`, violated: finding 2 |
| `host_allocator_reuse` | `HostAllocator` alone, as in `handle_pool` but with reported copies only | `NoReuseInFlight`, violated: finding 3 |
| `parallel_native_reduce` | `ParallelNative` alone, one range of 3, grain 1 | `ResultsFit`, violated: finding 4 |
| `rooted_trees_missing` | lists of trees to order 8, trees of at most 8 nodes | `ListsEveryTree`, violated: finding 5 |

The type invariants that matter are parts of these properties (`HandlesOwnOperators`,
`MemoryIsKept`) or of the inductive invariants of section 6. What the runs show, in one paragraph
each:

- *Dispatch.* In every interleaving of registrations, withdrawals (in any order) and calls, a call
  works on the kernels that were the newest when it entered, and a library gets its registration
  back only when no call can reach its code. A failed registration, at the undefined key or of a
  second fallback, leaves the tables as they were. Calls, which hold both tables, and writers, which
  wait for calls, always go on. A functor in use is owned as long as the call lasts, except where
  two first calls of one copy met (`raced`).
- *Libraries.* However loading, failing and unloading overlap, whoever holds a handle finds the
  operator under its name with its schema, the count is the number of handles, and listeners hear of
  each operator once. Whoever unloads last finds the kernel table empty, also after refused kernels,
  so that the destructor throws nothing and no kernel's handle refers to an erased operator.
- *Futures and loops.* One outcome; waiters return unless a callback throws or asks; the callback
  list does not change while it is fired. Every index is visited once, an exception of a task
  arrives at the caller, no task outlives its frame, and no worker waits for itself.
- *Types.* Subtyping is reflexive and transitive and never admits a value that the supertype does
  not; a list's type admits the values of all its elements, whatever their order.
- *GPU libraries.* Handles are not shared. A convolution that must be deterministic is, although
  calls of other demands write the same cache, and its workspace is that of the algorithm it runs,
  on the device that recorded it. The plan cache is the most recently used plans at every moment; a
  plan in use is lost only to a call without the mutex. RNNs use a device's buffer one after the
  other once its maker has used it.
- *Host memory.* Of the copies reported with the pointer that `malloc` returned: whatever CUDA call
  fails, the damage stays with the block whose own free failed, and while there is none the allocator
  implements the abstract pool. Copies of views at an offset are not waited for (section 7); mixed
  with the others in any order, they do these no harm.
- *Views.* No chain of views reaches an element outside its tensor, although `as_strided` compares
  with the storage only; `view` keeps the order of elements and is refused only when no strides
  could do it. Its resize of the storage (`set_`) is not modelled because `ViewKeepsOrder` shows the
  elements to be the same.
- *Iteration.* However the dimensions of such views are broadcast, reordered, merged, cut and split,
  every index is visited once with the elements it should have, an output has one writer at a time,
  each part knows whether it is the first or last to reach an output, and no operation that passes
  the overlap checks reads what it has overwritten.
- *Sequences.* Each sequence of a batch has the outputs and hidden states it has alone, and each
  element of the gradient goes to the step it came from.
- *Names.* Two lists unify exactly when they have a common refinement, and to the least one, in both
  implementations; aligning obeys its rules; only a product of batches makes a name occur twice or
  leave its dimension.
- *Trees.* No tree is listed twice; symmetry, labellings and contractions are those of the tree.

## 5. Bounds, symmetry and fairness

*Bounds.* A usable key, the undefined key and the catch-all are needed for precedence, for slots
that a write does not touch and for a registration that is refused; three registrations allow a
middle element of a list to be withdrawn. Three threads are a writer, a reader in the old instance
and one in the new. `MaxFunctors` = 5 is more than three threads can have in use. Two fallbacks are
enough for one to be refused by the other, and for the second write, which uses the moved-from copy.
`MaxLoads` = 2 lets a library return after the operator was erased, and `Defs` = 3 nodes let an
erased node be distinguished from the new one. `MaxWork` = 2 and two streams let events complete out
of the order of the deque; two sizes let a cached block be too small. Ranges of 1 and 3 with a grain
of 2 over 1, 2 or 3 threads give ranges that do not divide and jobs that run inline. `MaxHandles`
stands for the library's limit; two convolutions at a time (`MaxActive`) are two that benchmark the
same geometry, the third thread one that comes after both. Three plans for a maximum of up to two
make every eviction happen, and `MaxKernels` = 7 lets each of three threads use the dropout state
twice. In `TensorView`, `MaxDims`, `MaxNumel`, `MaxStride` and `MaxIndex` bound what calls ask for;
six elements are the fewest with two different factors, three dimensions the fewest where a chunk of
dimensions lies between others, and an empty tensor is only viewed again. `IterNumel` and
`IterOffset` say which tensors of the chain operations start on, those with all six elements; to
these come boxes of 2×2×2 and 3×2×2 with their dimensions in any order, where more dimensions are
merged and cut than six elements allow; `Max32` = 4 makes offsets up to 5 too large, so that a split
happens, and `LineSize` = 2 rounds columns. Names are checked over six elements too: over four, any
two dimensions larger than 1 have the same size, and a name that comes to stand for another
dimension goes unnoticed (section 7); a chain of named operations goes on from views, not from copies, whose
names the next operation sees like any other's. Three sequences of up to four steps have blocks of
several steps and two sequences that end together. Lists of trees go to order 8, the first where the
order of tuples and that of sizes disagree; the permutations of the nodes of a tree are counted up
to six nodes, where every coefficient that is not 1 occurs in more than one factor.

*Components side by side.* `MCFuturesAndLoops`, `MCHandlePool` and `MCTensors` hold components that
do not touch each other's state, and let Init choose one (`workload`); the others stay at their
initial state. Interleaving them would multiply states and add no behaviour to any of them.

*Symmetry* is declared for safety runs only, over sets whose members no definition orders and no
constant distinguishes (the threads; of the registrations the two with a factory; the names).
`named_tensors` also has a VIEW that identifies results that only differ in whether the last
operation was a view, or in the stride of a dimension of size 1. No later operation looks at the
first, and the step that made the result was judged when it was taken. Of the second, an index along
such a dimension is always 0, `computeStride` passes over it, and operations give its stride only to
another dimension of size 1, of which `NamesFollowDims` says nothing. Without this part of the VIEW
there are 8744 states instead of 1170; they are the same when these strides are left out.
`handle_pool` has a VIEW without `stray`, which no guard reads and of which its properties say no more
than the type. The addresses of pinned memory are symmetric too: copies at an offset may be of any
allocation there (`Sliced`).

*Deadlock* is checked where threads can always begin something. It is switched off for `dispatcher`
(libraries stop after `MaxLoads`), `futures_and_loops` and
`parallel_native_reduce` (each thread performs one operation, each job is made once, and a broken
firing stops: section 7) and `rooted_trees_missing` (the tree is complete). In `tensors` and
`named_tensors` an end that is meant is a stuttering step of the instance (`Terminating`).

*Fairness* is weak throughout, on what a thread inside an operation does next: operating-system
threads are scheduled, kernels and functions given to loops return, idle workers take tasks. Nobody
is obliged to *begin* a call, a registration or a load. Mutexes are not assumed fair: where a thread
waits for one, either the bound on loads or the single operation of each thread makes the
competition end, so no strong fairness is used. In `DispatcherCalls` no fairness at all is needed of
new calls: a writer waits only for those in the old instance, which gets no new ones.

## 6. Proofs

| Theorem | Says, for any constants that satisfy the assumptions | Also checked by |
|---|---|---|
| `OperatorEntryProofs!Invariance`, `TypeCorrect` | `IInv` holds; types | |
| `…!TableMatches` | outside a write both instances show the front of every list | (part of `KernelsInForce`) |
| `…!HandlesResolve` | a handle's element is in its list, once | (part of `KernelsInForce`) |
| `…!KernelsStayInForce` | `KernelsInForce` | `operator_entry` |
| `…!UnloadSafety` | no call reaches a kernel whose withdrawal has returned | `operator_entry` |
| `…!Refinement` | `Spec => Registry!AbsSpec` | `operator_entry` |
| `…!KernelsKeepEntry` | kernels with functors leave a behaviour of `OperatorEntry` | |
| `…!FunctorsAreKept` | `FunctorOutlivesCall` | `operator_entry` |
| `…!CallsKeepRegistry` | calls and fallbacks leave a behaviour of `OperatorEntry` | |
| `…!CallInvariance` | `AInv` holds | |
| `…!PicksAreStable`, `OnlyLiveKernelsRun`, `FallbackHandlesResolve` | `PickStable`, `RunsOnlyLive`, `FallbackHandleResolves` | `dispatcher_calls` |
| `DispatcherProofs!DispatcherInvariance` | `DispatcherInv` holds | |
| `…!OperatorsLiveAsHandles`, `ListenersHearAll`, `LastHandleIsClean` | `HandlesOwnOperators`, `ListenersKnow`, `LastReleaseIsClean` | `dispatcher` |
| `FuturesAndLoopsProofs!Invariance` | `IInv` holds | |
| `…!OneOutcome`, `FrozenList` | `WaitersAgree`, `ListIsFrozen` | `futures_and_loops` |
| `…!LoopInvariance`, `AnswerInvariance` | `LoopInv` holds; `AnswerInv` beside it | |
| `…!TasksOutlivedByFrame`, `ThreadsNeverChange`, `CallersGetTheirAnswer` | `FrameAlive`, `NumThreadsFixed`, `JobsAnswer` | `futures_and_loops` |
| `HandlePoolProofs!Invariance`, `TypeCorrect` | `IInv` holds; types | |
| `…!HandlesNotShared`, `HighWaterMark`, `PoolSafety` | the parts of `PoolSafe`, and all of it | `handle_pool` |
| `…!ConvInvariance` | `ConvInv` holds | |
| `…!ConvolutionsRunAsDemanded`, `CachedEntriesStay` | `RunsAsDemanded`, `EntriesStay` | `handle_pool` |
| `…!ConvolutionsKeepPool` | convolutions leave a behaviour of `HandlePool` | |
| `…!FftInvariance` | `FInv` holds | |
| `…!MostRecentPlans`, `PlanIsAlive` | `CacheIsRecent`, `PlanAlive` | `handle_pool` |
| `StreamOrderProofs!RnnInvariance` | `DInv` holds | |
| `…!UsesRunInOrder` | `UsesInOrder` | `handle_pool` |
| `…!HostInvariance` | `HostInv` holds | |
| `…!PinnedMemoryIsKept`, `AllocatorImplementsPool` | `MemoryIsKept`, `ImplementsPool` (the refinement of `PinnedPool`) | `handle_pool` |
| `TensorViewProofs!ViewInvariance` | `ViewInv` holds | |
| `…!ViewsStayInside` | `ElementsOfSelf` | `tensors` |
| `…!OrderIsKept` | `ViewKeepsOrder` | `tensors` |
| `NamedTensorProofs!UnifiedIsDistinct`, `ImplementationsAgree` | unifying two lists without a name twice gives one; both implementations accept the same pairs of lists | `named_tensors` (parts of `NamesMatchByTheRules`) |
| `…!UnifiedIsLeast` | lists unify exactly when they have a common refinement, and to the least | likewise |
| `…!MatchingIsRefinement`, `AligningFollowsRules` | `UnifyIsLeastRefinement` and `AlignsByTheRules`, of any tensor with distinct names | likewise |
| `…!NamesInvariance` | `NamesInv` holds | |
| `…!NamesStayUnique` | a tensor has a name for each dimension, none twice unless a product of batches mixed them | `named_tensors` (part of `NamesFollowDims`) |
| `…!NamesMatch` | `NamesMatchByTheRules`, whatever the tensor's sizes | `named_tensors` |
| `…!NamesStayWithDims` | `NamesFollowDims`, whatever the tensor's sizes | `named_tensors` |

*OperatorEntry.* Assumptions: the undefined key is a key, the catch-all slot is none, `None` is no
element of the other sets. `UnloadSafe` alone is not inductive: it says nothing of why the instance
a reader is in still shows the right kernels. The strengthening is `IInv == TypeOK /\ WriterInv /\
ListInv /\ TableInv /\ ReaderInv`: at most one registration is between two states, the writer's
(`WriterInv`); lists hold exactly the registrations made and not withdrawn, each once (`ListInv`);
the foreground is up to date and the background lags in the written slot at most, showing there a
kernel that is not yet released (`TableInv`); and the background has readers only while a writer
waits for them (`ReaderInv`). One lemma per action shows that it is preserved. The lemmas on `Cons`
and `RemoveAt` (`SequenceLemmas`) say which elements the lists keep and that these stay distinct;
they need no induction. The refinement maps stacks to lists, snapshots to the instance that is read,
and `live` to what is not yet released: registering is `Register`, deregistering `Withdraw`,
`FinishWrite` after a withdrawal is `Release` (its guard is what `IInv` and the wait for readers
give), everything else a stutter or a step of a call.

*KernelFunctions.* Calls leave what registering depends on alone (`KernelsKeepEntry`), so that
`IInv` need not be proved again. `FunctorOutlivesCall` says that the functor of a call is owned by a
list or by the table; `CallInv` says by which place. A call is at a place of the table, an instance
and a slot, that is not written while it lasts, since only the background is written and has no
readers (`WrittenUnread`). At a place where no two first calls met, at most one call is making the
functor, while there is none, and any other runs with the functor that is there (`CallOk`).

*DispatcherCalls.* Every step of it is a step of `OperatorEntry` or leaves it alone
(`CallsKeepRegistry`), so that `IInv` need not be proved again. `PickStable` compares the kernel
that runs with what `dispatch_` would pick now, which needs both instances a call holds to stay as
they are. `AInv` adds to it the counterpart of `IInv` for the fallback table (`FallbackInv`; a
fallback is in no list, so it is simpler, but a refused write restores the background) and
`CallHolds`: who runs a kernel is inside of both tables.

*Dispatcher.* Assumptions: the plans are sequences of a name, a schema and a kernel, and `None` is
no library or list node. `HandlesOwnOperators` speaks of the moments when nobody has the mutex;
`DispatcherInv` says what holds in between. Who is counting or erasing has the mutex (`MutexInv`);
an operator is counted as often as it has handles, none only while its first one is made
(`OperatorInv`); a name leads to an operator of the list or to the one being erased (`LookupInv`);
every registrar, and every library between two steps, has the operator it asked for
(`RegistrarsOf`, `CurrentOf`). The count 1 at `deregisterSchema_` then means that the handle being
given back is the only one, so that no registrar, library or kernel refers to what is erased. That
also gives `LastReleaseIsClean`: a kernel in a table belongs to a registrar (`KernelInv`), which would
hold another handle. The counts need that handles are sets which change by one element at a time
(`LibHandles`, `SwapElement`) and that no two registrars of a library have the same one.

*Future.* Assumptions: the sets of threads, callbacks and outcomes do not contain `None`, and no
callback is an outcome. `IInv` adds that who fires holds the mutex of a completed future, that
callbacks not yet reached have not run, and that what a waiter knows is the outcome of a completed
future. `WaitersAgree` is about threads that have returned; only `KnownInv` says why it holds of one
between waking and returning.

*ParallelNative.* Assumptions: numbers of threads are at most one more than there may be workers,
ranges are not empty, and `Nothing` is no integer. None of the three properties is inductive: they
speak of what is left when a call returns. `LoopInv` says where every task is before that. A task is
on one stack or in the queue, once (`KeysInv`), and whatever is there has been handed out and not yet
marked, and its job is still running (`Pending`, in `FrameOk` and `QueuedOk`). When the last future
is awaited no task of the job is pending, so that none outlives the frame whose locals it refers to:
`FrameAlive`. `AnswerInv` adds what the tasks have done. The indices of the chunk of a task that has
called f are hit once, those of one that has not are not hit (`HitsOk`; a step that hits one chunk
leaves the others alone because chunks are disjoint, and they cover the range because the size of a
chunk is rounded up, `DivupFacts`); and once the error flag is set, an exception is stored or a task
that caught one is about to store it (`ErrOk`). At the return every task has called f, and none is
about to store. `NumThreadsFixed` follows from the types of `LoopInv`: a pool exists exactly when the
setting is consumed.

*HandlePool.* Assumption: finitely many threads. "As many handles as threads ever held one at once"
is not inductive; that every handle is in one window or in the pool, counted (`AllAccounted`), is
what makes it so: a handle is created only when the pool is empty, hence when the number of holders
equals the number of handles. `Numbered` makes the new handle differ from the others.

*CudnnConv.* Assumptions: the default algorithm is deterministic, a workspace is a natural number,
and `Missing` is no entry of the cache. `RunsAsDemanded` speaks of the moment of the run, when the
algorithm has often come from another thread. `ConvInv == ConvTypeOK /\ CacheInv /\ CallFits` of each
call adds what carries it there: an entry suits every call that can find it, deterministic if the key
demands it and with the workspace of its algorithm (`CacheInv`), and what a call has chosen suits the
call from then on, also while it is between a fall-back and its record. `EntriesStay` needs of it that
a call only comes to a benchmark's end if it found no entry when it began, though others may have
put one there since.

*CuFFTPlanCache.* `recent` lists every key used, latest first. That the cache is a prefix of it is
inductive only with the keys distinct (`Distinct`): moving a key to the front must move the same one
in both sequences. `PlanAlive` needs that who makes or runs a plan holds the mutex (`HolderInv`),
and that the plan that runs is in the cache unless it was cleared (`RunsInv`). Assumption: the
maximum sizes are natural numbers.

*DropoutState.* `UsesInOrder` speaks of the moment of a use. `DInv` says what carries the order
between two uses: while nobody uses the buffer its event stands for all uses so far, and who uses it
runs after all of them (`Covered`), with the mutex held exactly between lock and unlock
(`StateHeld`) and the buffer made once (`MadeOnce`).

*HostAllocator.* Assumption: finitely many streams, since the events are recorded on the streams of a
set one by one. `MemoryIsKept` tells when memory may be re-used, not why its copies have finished by
then. `HostInv` says why, through `Kept`: a copy that is queued is covered, by the owner, who has the
stream in the block's set, or by an event in the deque that completes after it, and `event_count`
counts these (`Count`, with lemmas on taking events from the front and appending new ones). `Kept` is
stated of any sets, counts and events, so that one lemma (`ProcessingKeeps`) covers the part that
`malloc` and `free` begin with. A failed `free` costs the coverage of its own block only, and what
`cudaFreeHost` failed on has left the map for good (`LossesKnown`). The copies in question are the
reported ones; those that `recordEvent` ignores only move the others' positions, as any work on a
stream does. The refinement is the identity on `held`, `outstanding` and `due`: `malloc` is `Take`,
whose guard (no reported copy is queued) is what `HostInv` gives; `RecordIgnored` is `Work`;
`emptyCache` is `Synchronize` or a stutter.

*TensorView.* Assumptions: the storage is not empty and a tensor may have as many elements as it,
and `Refused` is neither a list of numbers nor a tensor; bounds, storage and chains of views may be of
any size. `ViewInv` says that sizes, strides and offset are not negative, that the elements of the
tensor lie in its storage, and that it has no more of them than the bound. Sums and products are
recursive functions; their equations have a solution (`Recursion`), and by induction over numbers a
product splits anywhere (`PartSplit`) and so does a sum (`SumSplit`). An index vector is then the
digits of the number that says where its element stands, so that the *k*-th element is at the offset
plus digits times strides (`AddressesAreElements`).

The operations that take strided parts are one: an index of the view gives an index of the tensor,
each of whose components is a start, a step times one component, and possibly another component
(`Derives`). If the strides are made accordingly and the indices so obtained are in range
(`DerivedRange`), the view's elements are among the tensor's (`DerivedWithin`); `select`, `slice`,
`unfold`, `diagonal`, `permute`, `expand` and the others each show these two facts of the geometry
they compute. `view` is the loop of `computeStride`. Its invariant (`Found`): the dimensions
left behind and those of the new sizes already filled hold equally many elements, in the same steps
from one to the next; and the dimensions of the current chunk count in steps of one number. A turn keeps
it (`TurnFinds`), so that strides that are found keep the order. A turn that refuses shows that *no*
strides would do (`NoneFollow`): either a dimension of the new sizes straddles the end of a chunk, whose
steps would then have to be the same on both sides, or the chunk at the left is not filled. This also
uses what `infer_size` gives, sizes with as many elements as the tensor (`Inferred`).

*NameUnification, NamedTensor.* The only assumption is that the wildcard is no name; the theorems
hold for lists of any length over any names. Counted from the end, a name has one position in a list
without a name twice, and in two lists that unify the same one (`Aligned`), since `Misaligned` refuses
a name that meets a wildcard and is elsewhere in the other list. That gives a unified list without a
name twice, the agreement of both implementations, and that any common refinement refines the unified
list. `align_to` walks over the dimensions from the right. What its rules demand is that *some* placing
keeps named dimensions at their names and unnamed ones in order at the right; the walk finds it
because it places each dimension at the last position that any placing allows (`WalkIsLatest`, by
induction over the dimensions already placed).

`NamesInv` says that a tensor has one name for each size, and none twice unless `last` is "mixed". One
lemma per operation shows that it is preserved. Most rest on the theorems above (a result unified
from distinct names is distinct) or on names being taken from distinct positions in ascending order
(`Ascending`); a product unifies the names of its batches as lists of their own and then adds a row
and a column, and only there a name may come twice. A refused operation changes nothing. Neither the
sizes nor the bounds of the instance matter to it, so that `NamesMatch` holds of every tensor, where
the run compares tensors of one element.

`NamesFollowDims` needs also that no dimension of a tensor is empty (`Whole`), as the model's
operations leave it. Each dimension of a result is traced to the dimension of the tensor it has its
name from, or to none when the tensor has no such name (`Inherits`). Since no name occurs twice, a
name that is found again is found only there, so that it is enough to show of the dimensions traced
what they keep of size and stride (`InheritedNames`). That is a fact of the geometry for most
operations. `align_to` views the tensor in a shape with new dimensions of size 1 in between: as many
elements lie behind a dimension as did before (`AlignedParts`), so that the strides that `view` finds,
which by the lemmas on `computeStride` keep the order of the elements, are the same (`AlignedStride`).
In a product, a name that comes from the batch of the other tensor is none of this one's (`BatchAt`),
and a name that a bias brings can only be that of the dimension that was summed over
(`ProductFollows`).

*Only model-checked:* every liveness property (`AllReturn`, `LoadsEnd`, `WaitersReturn`,
`CallbacksRun`, `AllEnd`), since the prover treats neither fairness nor ENABLED; and
`TensorIterator`, `PackedSequence`, `JitType` and `RootedTrees`. What a recursive definition computes can be proved where the recursion is over numbers
and written as a function, as in `TensorView`: induction is stated of a set (`SetInduction`), and
`Recursion` gives the function. Types, trees, loop nests and packed layers are built by RECURSIVE
operators and by folds of the library over data, for which the prover has neither an equation nor an
induction that its back ends can instantiate.

## 7. Where code and comments disagree

With a run:

1. **Moved-from fallback** (`core/dispatch/Dispatcher.cpp:122`, `FunctorSet`). The write functor
   moves the kernel out of its capture, but LeftRight applies it to both instances; the second gets
   a kernel without functor. It is called as soon as another write makes that instance the
   foreground.
2. **Erased but found** (`Dispatcher.cpp:113`, `FoundIsRegistered`). The list node is erased before
   the name, and `findSchema` reads names without the mutex.
3. **Re-use in flight** (`THC/THCCachingHostAllocator.cpp:235`, `NoReuseInFlight`). When
   `insertEvents` fails after some events, the streams it has not reached are forgotten, and the
   block becomes available when the recorded events complete.
4. **Results of another size** (`ATen/ParallelNative.h:75`, `ResultsFit`). `parallel_reduce`
   computes the number of tasks once for its vector and once more in `_parallel_run`;
   `set_num_threads` may come between.
5. **Missing trees** (`src/aten_trees/rooted_trees.py:218`, `ListsEveryTree`). A partition is kept
   if its first tree is not before the first of the rest as a tuple, but parts are made by
   decreasing order, so a tree whose larger subtree is the smaller tuple is never listed: 113 of the
   115 trees of order 8, 278 of 286, 678 of 719.

Found on the way, without a run of their own. In dispatch, futures and loops:

- A kernel refused at the undefined key stays in `kernels_` (`OperatorEntry.cpp:48`), so the
  relation documented at `OperatorEntry.h:66` fails for that key (`TableMatchesKernels` leaves it
  out). Unloading the operator later goes through: `prepareForDeregistration` begins with `return
  dispatchTable_.read(...)` (line 29), so that its assertions on `kernels_` and `catchAllKernels_`
  (lines 34 and 35), which would notice the kernel left behind, are never reached.
- Two first calls of a kernel with a factory race: both assign the shared pointer
  (`core/boxing/KernelFunction.h:360`), and one destroys the functor the other runs
  (`FunctorOutlivesCall` exempts `raced`). The copies of a KernelFunction in the two instances make
  functors of their own, and anew after every write of the slot.
- A callback runs under the future's mutex (`core/ivalue_inl.h:296`): asking the same future waits
  for oneself; a callback that throws leaves the waiters asleep and the rest of the list unrun.
  `FiringBroken` names these two cases and the liveness properties exempt them.
- `parallel_for` may decide on several tasks by the default, after which another thread sets one
  thread: the pool then has no workers and throws ("refused"). The same window in `intraop_launch`
  and `intraop_launch_future` (`ParallelNative.cpp:239`, `:256`) is not modelled: `Launch` is one
  step. A function given to
  `intraop_launch_future` that throws never completes its future ("lost").
- `unifyTypeList` depends on the order of the list: a tensor of shape 2×3, None and a tensor of
  shape 2×4 have no type in that order, and one when both tensors come first. `unshapedType`
  (`core/jit_type.h:1168`) keeps the shape of a tensor that may be undefined, contrary to its
  comment.

In the GPU components:

- `THCCachingHostAllocator.cpp:129` says free marks the block first because it "shouldn't fail", but
  line 118 returns early on an unrelated event's error: the block is then lost (`MemoryIsKept`
  exempts it).
- `THCCachingHostAllocator.h:16` asks for `recordEvent` "anytime a pointer from this allocator is
  used" in an asynchronous copy. `native/cuda/Copy.cu:183` calls it with the address of the view's
  first element, and `THCCachingHostAllocator.cpp:151` looks that up among the addresses of blocks: a
  `non_blocking` copy of a pinned view at an offset is queued and forgotten, and its memory is
  re-used in flight although no call failed. With a non-empty `Sliced`, `NoReuseInFlight` fails after
  three steps (`malloc`, `RecordIgnored`, `free`). `host_allocator_reuse` therefore leaves such
  copies out, to show finding 3, and `MemoryIsKept` and `ImplementsPool` speak of the reported ones.
- `emptyCache` erases a block also when `cudaFreeHost` failed (`:219`, a warning): that memory is
  neither cached nor given back (`leaked`).
- The key of the algorithm cache has no device, so a workspace size may come from another one
  (`RunsAsDemanded` exempts it). A benchmark that ends late overwrites the default recorded after an
  out-of-memory error. Before cuDNN 7.5 `getBestAlgorithm` replaces an algorithm but keeps its
  memory and determinism.
- `clear` and `_set_max_size` of the plan cache take no mutex, although `CuFFTPlanCache.h:356` asks
  for one (`PlanAlive` exempts plans so cleared).
- The event of a dropout buffer is made, but not recorded, by the thread that fills it; until that
  thread has used it another one does not wait (`UsesInOrder` exempts it until `settled`). The
  backward functions take the buffer without DropoutState.

In tensors, names and trees:

- `MemoryOverlap.h:10` calls YES "absolutely yes"; `MemoryOverlap.cpp:19` answers YES for a
  dimension of size 1 with stride 0, which overlaps nothing, and line 55 calls an empty tensor
  inside another's range a partial overlap. `check_mem_overlaps` (`native/TensorIterator.cpp:762`)
  runs before `compute_shape` resizes the output.
- `max_2d_step` reads `shape[1]` under the guard `shape.size() >= 1`; `two_pass_reduction` reads the
  number of threads before `parallel_for` reads it again.
- `_pack_padded_sequence` does not compare lengths with the time size of its input; a longer one is
  found by the layers only (`DataComplete`).
- The product of batches named [C, A, B] with a matrix [X, C] stores the names [C, A, C]:
  `are_distinct` (`ATen/NamedTensorUtils.cpp:294`), which would notice, is never called. A bias named
  like the dimension that `addmv` contracts away gives that name to the other one (`:355`). `flatten`
  of one named dimension renames its argument in place (`native/TensorShape.cpp:1050`); `squeeze` of
  a dimension of another size than 1 loses all names (`:961`).
- `copy_` (`native/Copy.cpp:152`) and `masked_fill_` (`native/LegacyDefinitions.cpp:13`) write data
  before `propagate_names` may throw; `bmm_out` computes names after the product. `aligned_size`
  ignores `is_aligning_two_tensors`.
- `attention_tensor_dims` and `TreeDimensionMapper` (`aten_trees`) speak of a bijection and of
  unique dimensions, but use order, depth and symmetry only, so that trees collide, and `head_dim`
  is 0 when the order exceeds the dimension; `get_tree_attention_pattern` never answers
  "hierarchical", since a tree of order n has n − 1 branches. Not modelled.
- `TH/THAllocator.cpp:290` replaces the result of mmap before line 317 compares it with
  `MAP_FAILED`, and line 255 throws without closing the file. Not modelled.

## 8. What is not modelled, and why

- *External, modelled by contract:* `c10::LeftRight`, `c10::ThreadPool`, CUDA streams, events and
  `cudaFreeHost` (which synchronizes the device: `THCCachingHostAllocator.h:11`), cuDNN and cuFFT,
  condition variables, `maybe_wrap_dim` (left out: dimensions count from 1).
- *Left out of modelled parts:* how a dispatch key is computed from arguments (an input of the
  call); checks of options before anything is registered; move-assignment of a registration handle,
  which nothing here does; listeners and kernels that register from inside their own call (they
  would wait for themselves); the templates that box and unbox arguments; classes, interfaces and
  type variables of `jit_type`; the mobile build and thread numbers of the parallel back end; what a
  clear of the plan cache does to a thread inside of `try_emplace_value`, and `plan_caches` growing
  while one of them is referenced; `as_strided` by the user, the copy of `reshape`, sparse and
  mkldnn tensors; data types, devices and channels-last outputs of TensorIterator; dropout and
  quantized parameters of recurrent layers; the parsing and storing of names, and NoNamesGuard; the
  dimensions and masks of attention heads.
- *Parts without a protocol:* value types and schemas, Context and DispatchStub (write-once flags),
  random number generators (one mutex around each draw), thread-local guards, thin CUDA wrappers, TH
  files (single-threaded input and output), code generation.
- *Outside the repository:* the scheduling of OpenMP and TBB; the processes that share a TH file,
  whose reference count, unlinking and crashes (`TH/THAllocator.cpp:472`) are a protocol that
  nothing in `src/` has the other half of.
- *Numeric code:* the kernels of native, TH, THC, THNN and the quantized operators, which are most
  of the repository's lines, compute floating point numbers without shared state; neither tool is
  made for them.
