----------------------------- MODULE HostAllocator -----------------------------
(***************************************************************************)
(* The caching allocator of pinned host memory (THCCachingHostAllocator).  *)
(* Every method holds the allocator's mutex from its first to its last     *)
(* statement, so a call is one action; what runs beside it is the GPU.     *)
(* A CUDA stream works through its items in order.  Its state is how many  *)
(* items are left, and how many of them have to finish before a given copy *)
(* or event has: the item's position, which falls as the stream works.     *)
(* The CUDA runtime is outside the repository; it is modelled from its use *)
(* here: an event is complete when all work queued before it is, and       *)
(* cudaFreeHost synchronizes the device (THCCachingHostAllocator.h:11).    *)
(***************************************************************************)
EXTENDS Naturals, Sequences, FiniteSets, SequencesExt

CONSTANTS Ptrs,      \* addresses cudaHostAlloc can return: all pinnable memory
          HostStreams,   \* CUDA streams
          Sizes,     \* request sizes
          Sliced,    \* allocations that views at an offset are copied from
          MaxWork,   \* bound: items waiting on one stream
          Failures   \* whether calls of the CUDA runtime may fail

ASSUME HostStreamsAssumption == IsFiniteSet(HostStreams)
ASSUME SlicedAssumption == Sliced \subseteq Ptrs
ASSUME RequestSizesAssumption == Sizes \subseteq Nat \ {0}
ASSUME MaxWorkAssumption == MaxWork \in Nat
ASSUME FailuresAssumption == Failures \in BOOLEAN

VARIABLES
    held,         \* pointers that callers of malloc have not freed yet
    blocks,       \* the keys of the map blocks
    size, allocated, eventCount, streams,  \* the fields of Block
    availableBlocks,  \* pointers of the set available
    cudaEvents,   \* the deque cuda_events: [ptr, stream, pos]
    outstanding,  \* items waiting on each stream
    due,          \* due[p][s]: position on s of the last copy reported as using p
    stray,        \* the same of the copies that recordEvent ignored
    leaked,       \* pointers that cudaFreeHost failed to free
    failed        \* history: blocks whose free returned an error

blockVars == <<blocks, size, allocated, eventCount, streams, availableBlocks, cudaEvents>>
gpuVars == <<outstanding, due, stray>>
lossVars == <<leaked, failed>>
hostVars == <<held, blockVars, gpuVars, lossVars>>

HostInit ==
    /\ held = {} /\ blocks = {} /\ availableBlocks = {} /\ cudaEvents = <<>>
    /\ leaked = {} /\ failed = {}
    /\ size = [p \in Ptrs |-> 0]
    /\ allocated = [p \in Ptrs |-> FALSE]
    /\ eventCount = [p \in Ptrs |-> 0]
    /\ streams = [p \in Ptrs |-> {}]
    /\ outstanding = [s \in HostStreams |-> 0]
    /\ due = [p \in Ptrs |-> [s \in HostStreams |-> 0]]
    /\ stray = [p \in Ptrs |-> [s \in HostStreams |-> 0]]

-----------------------------------------------------------------------------
\* processEvents takes completed events from the front of the deque and stops
\* at the first that is not.  Ready(n): the first n can be taken; AllReady(n):
\* they are the ones a run without errors takes.
Ready(n) == \A i \in 1..n : cudaEvents[i].pos = 0
AllReady(n) == Ready(n) /\ (n < Len(cudaEvents) => cudaEvents[n + 1].pos > 0)

Taken(n, p) == Cardinality({i \in 1..n : cudaEvents[i].ptr = p})
CountAfter(n) == [p \in Ptrs |-> eventCount[p] - Taken(n, p)]

\* Faulty variant: a block whose last event was taken is not put back.
AvailableUnchanged(n) == availableBlocks

AvailableAfter(n) ==
    availableBlocks \cup {p \in blocks : /\ Taken(n, p) > 0
                                   /\ eventCount[p] = Taken(n, p)
                                   /\ ~allocated[p]}
EventsAfter(n) == SubSeq(cudaEvents, n + 1, Len(cudaEvents))

\* A query or the destruction of an event fails before the n+1st is taken.
ProcessingFails(n) == Failures /\ Ready(n) /\ n < Len(cudaEvents)

Processed(n) ==
    /\ eventCount' = CountAfter(n)
    /\ availableBlocks' = AvailableAfter(n)
    /\ cudaEvents' = EventsAfter(n)

\* Faulty variant: the block handed out stays in the set of available ones.
MallocStaysAvailable(n, k, p) ==
    /\ AllReady(n)
    /\ p \in {q \in AvailableAfter(n) : size[q] >= k}
    /\ Processed(n)
    /\ allocated' = [allocated EXCEPT ![p] = TRUE]
    /\ held' = held \cup {p}
    /\ UNCHANGED <<blocks, size, streams, gpuVars, lossVars>>

\* malloc: a cached block of the smallest sufficient size; which of several
\* that size is left to their addresses.
Fits(n, k) == {p \in AvailableAfter(n) : size[p] >= k}
MallocCached(n, k, p) ==
    /\ AllReady(n)
    /\ p \in Fits(n, k) /\ \A q \in Fits(n, k) : size[p] <= size[q]
    /\ eventCount' = CountAfter(n) /\ cudaEvents' = EventsAfter(n)
    /\ availableBlocks' = AvailableAfter(n) \ {p}
    /\ allocated' = [allocated EXCEPT ![p] = TRUE]
    /\ held' = held \cup {p}
    /\ UNCHANGED <<blocks, size, streams, gpuVars, lossVars>>

\* malloc, when nothing cached fits: new memory at an address not in use.
MallocNew(n, k, p) ==
    /\ AllReady(n) /\ Fits(n, k) = {}
    /\ p \notin blocks \cup leaked
    /\ Processed(n)
    /\ blocks' = blocks \cup {p}
    /\ size' = [size EXCEPT ![p] = k]
    /\ allocated' = [allocated EXCEPT ![p] = TRUE]
    /\ streams' = [streams EXCEPT ![p] = {}]
    /\ held' = held \cup {p}
    /\ UNCHANGED <<gpuVars, lossVars>>

\* malloc returns an error: from processEvents, or from cudaHostAlloc, which
\* fails when there is no memory left and may fail otherwise.
MallocFails(n, k) ==
    /\ \/ ProcessingFails(n)
       \/ AllReady(n) /\ Fits(n, k) = {} /\ (Failures \/ blocks \cup leaked = Ptrs)
    /\ Processed(n)
    /\ UNCHANGED <<held, blocks, size, allocated, streams, gpuVars, lossVars>>

-----------------------------------------------------------------------------
\* insertEvents records an event on each stream of the moved set, in an order
\* of its own; ss is the part of that order it got through.
NewEvents(p, ss) == [i \in 1..Len(ss) |->
                       [ptr |-> p, stream |-> ss[i], pos |-> outstanding[ss[i]]]]

\* free, after processEvents took n events, with events recorded on ss.  The
\* block stays unavailable as long as it has events; "complete" tells whether
\* insertEvents returned success, without which free returns before that.
FreeWith(n, p, ss, moved, complete) ==
    /\ allocated' = [allocated EXCEPT ![p] = FALSE]
    /\ streams' = [streams EXCEPT ![p] = IF moved THEN {} ELSE @]
    /\ eventCount' = [CountAfter(n) EXCEPT ![p] = @ + Len(ss)]
    /\ cudaEvents' = EventsAfter(n) \o NewEvents(p, ss)
    /\ availableBlocks' = AvailableAfter(n) \cup
                       (IF complete /\ eventCount'[p] = 0 THEN {p} ELSE {})
    /\ held' = held \ {p}
    /\ failed' = IF complete THEN failed ELSE failed \cup {p}
    /\ UNCHANGED <<blocks, size, gpuVars, leaked>>

\* Faulty variants: the events go unrecorded, or the block is put back with
\* its events still outstanding.
FreeWithoutEvents(n, p) ==
    /\ p \in held /\ AllReady(n)
    /\ FreeWith(n, p, <<>>, TRUE, TRUE)

FreeAtOnce(n, p) ==
    /\ p \in held /\ AllReady(n)
    /\ \E ss \in SetToSeqs(streams[p]) :
          /\ allocated' = [allocated EXCEPT ![p] = FALSE]
          /\ streams' = [streams EXCEPT ![p] = {}]
          /\ eventCount' = [CountAfter(n) EXCEPT ![p] = @ + Len(ss)]
          /\ cudaEvents' = EventsAfter(n) \o NewEvents(p, ss)
          /\ availableBlocks' = AvailableAfter(n) \cup {p}
          /\ held' = held \ {p}
          /\ UNCHANGED <<blocks, size, gpuVars, lossVars>>

Free(n, p) ==
    /\ p \in held /\ AllReady(n)
    /\ \E ss \in SetToSeqs(streams[p]) : FreeWith(n, p, ss, TRUE, TRUE)

\* free fails in insertEvents: before the set of streams was moved out of the
\* block, or after some events were recorded.  The deleter drops the error.
FreeStops(n, p) ==
    /\ Failures /\ p \in held /\ AllReady(n)
    /\ \/ FreeWith(n, p, <<>>, FALSE, FALSE)
       \/ \E done \in SUBSET streams[p] :
             /\ done # streams[p]
             /\ \E ss \in SetToSeqs(done) : FreeWith(n, p, ss, TRUE, FALSE)

\* free fails in processEvents, before it looked at the block.
FreeFails(n, p) ==
    /\ p \in held /\ ProcessingFails(n)
    /\ Processed(n)
    /\ held' = held \ {p}
    /\ failed' = failed \cup {p}
    /\ UNCHANGED <<blocks, size, allocated, streams, gpuVars, leaked>>

-----------------------------------------------------------------------------
Events(p) == Cardinality({i \in 1..Len(cudaEvents) : cudaEvents[i].ptr = p})

\* Faulty variant: the deque keeps the events of the blocks that are erased.
EmptyCacheKeepsEvents ==
    /\ blocks' = {p \in blocks : allocated[p]}
    /\ eventCount' = [p \in Ptrs |->
          IF p \in blocks /\ ~allocated[p] THEN eventCount[p] - Events(p) ELSE eventCount[p]]
    /\ availableBlocks' = {}
    /\ UNCHANGED <<held, size, allocated, streams, cudaEvents, gpuVars, lossVars>>

\* emptyCache drops all events and gives back every block without owner.  A
\* block that cudaFreeHost does not free is erased all the same.
EmptyCache ==
    /\ blocks' = {p \in blocks : allocated[p]}
    /\ eventCount' = [p \in Ptrs |->
          IF p \in blocks /\ ~allocated[p] THEN eventCount[p] - Events(p) ELSE eventCount[p]]
    /\ cudaEvents' = <<>>
    /\ availableBlocks' = {}
    /\ \E lost \in SUBSET (blocks \ blocks') :
          /\ lost # {} => Failures
          /\ leaked' = leaked \cup lost
          /\ IF lost = blocks \ blocks' THEN UNCHANGED gpuVars
             ELSE /\ outstanding' = [s \in HostStreams |-> 0]
                  /\ due' = [p \in Ptrs |-> [s \in HostStreams |-> 0]]
                  /\ stray' = [p \in Ptrs |-> [s \in HostStreams |-> 0]]
    /\ size' = [p \in Ptrs |-> IF p \in blocks' THEN size[p] ELSE 0]
    /\ streams' = [p \in Ptrs |-> IF p \in blocks' THEN streams[p] ELSE {}]
    /\ failed' = failed \cap blocks'
    /\ UNCHANGED <<held, allocated>>

\* The owner queues a copy and calls recordEvent for the stream, as
\* copy_kernel_cuda does, while it owns the block: from the pointer that malloc
\* returned ...
RecordEvent(p, s) ==
    /\ p \in held /\ outstanding[s] < MaxWork
    /\ outstanding' = [outstanding EXCEPT ![s] = @ + 1]
    /\ due' = [due EXCEPT ![p][s] = outstanding[s] + 1]
    /\ streams' = [streams EXCEPT ![p] = @ \cup {s}]
    /\ UNCHANGED <<held, blocks, size, allocated, eventCount, availableBlocks, cudaEvents, stray,
                   lossVars>>

\* ... or from a view at an offset, under whose pointer there is no block:
\* recordEvent ignores it and returns success.
RecordIgnored(p, s) ==
    /\ p \in held \cap Sliced /\ outstanding[s] < MaxWork
    /\ outstanding' = [outstanding EXCEPT ![s] = @ + 1]
    /\ stray' = [stray EXCEPT ![p][s] = outstanding[s] + 1]
    /\ UNCHANGED <<held, blockVars, due, lossVars>>

Less(x) == IF x = 0 THEN 0 ELSE x - 1

Nearer(event, s) ==
    [ptr |-> event.ptr, stream |-> event.stream,
     pos |-> IF event.stream = s THEN Less(event.pos) ELSE event.pos]

\* The oldest item of a stream finishes.
StreamWorks(s) ==
    /\ outstanding[s] > 0
    /\ outstanding' = [outstanding EXCEPT ![s] = @ - 1]
    /\ due' = [p \in Ptrs |-> [due[p] EXCEPT ![s] = Less(@)]]
    /\ stray' = [p \in Ptrs |-> [stray[p] EXCEPT ![s] = Less(@)]]
    /\ cudaEvents' = [i \in 1..Len(cudaEvents) |-> Nearer(cudaEvents[i], s)]
    /\ UNCHANGED <<held, blocks, size, allocated, eventCount, streams, availableBlocks, lossVars>>

HostNext ==
    \/ \E n \in 0..Len(cudaEvents) : \E k \in Sizes :
          \/ \E p \in Ptrs : MallocCached(n, k, p) \/ MallocNew(n, k, p)
          \/ MallocFails(n, k)
    \/ \E n \in 0..Len(cudaEvents) : \E p \in Ptrs :
          Free(n, p) \/ FreeStops(n, p) \/ FreeFails(n, p)
    \/ EmptyCache
    \/ \E p \in Ptrs : \E s \in HostStreams : RecordEvent(p, s) \/ RecordIgnored(p, s)
    \/ \E s \in HostStreams : StreamWorks(s)

HostSpec == HostInit /\ [][HostNext]_hostVars

-----------------------------------------------------------------------------
\* Every variable has its type.
HostTypeOK ==
    /\ held \subseteq Ptrs /\ blocks \subseteq Ptrs /\ availableBlocks \subseteq Ptrs
    /\ size \in [Ptrs -> Nat]
    /\ allocated \in [Ptrs -> BOOLEAN]
    /\ eventCount \in [Ptrs -> Nat]
    /\ streams \in [Ptrs -> SUBSET HostStreams]
    /\ cudaEvents \in Seq([ptr : Ptrs, stream : HostStreams, pos : Nat])
    /\ outstanding \in [HostStreams -> Nat]
    /\ due \in [Ptrs -> [HostStreams -> Nat]]
    /\ stray \in [Ptrs -> [HostStreams -> Nat]]
    /\ leaked \subseteq Ptrs

Reusable(p) == p \in availableBlocks \/ p \notin blocks \cup leaked
ReportedInFlight(p) == \E s \in HostStreams : due[p][s] # 0
InFlight(p) == ReportedInFlight(p) \/ \E s \in HostStreams : stray[p][s] # 0

\* The header's promise "The allocation 'ptr' will not be re-used until the
\* event has occurred": memory that malloc may hand out, cached or from the
\* driver, has no copy still queued on any stream.
NoReuseInFlight == \A p \in Ptrs : Reusable(p) => ~InFlight(p)

\* A failing call of the CUDA runtime can break that promise for the block
\* whose free failed, but for no other, however their events are mixed in the
\* deque and whatever fails while they are processed.  This is about copies
\* that were reported with the pointer malloc returned, whatever is queued
\* behind or between them; those of views at an offset are not waited for.
FailureIsLocal == \A p \in Ptrs \ failed : Reusable(p) => ~ReportedInFlight(p)

\* Every variable has its type, and each block has one owner, even after failed
\* calls: what a caller holds is marked allocated, and is not among the blocks
\* the next malloc chooses from; a freed block is available or an event in the
\* deque will make it so, except where its own free failed.  event_count counts
\* the block's events in the deque, and emptyCache may drop the whole deque
\* because an allocated block has none (THCCachingHostAllocator.cpp:209).
OneOwner ==
    /\ HostTypeOK
    /\ \A p \in held : p \in blocks /\ allocated[p]
    /\ \A p \in availableBlocks : p \in blocks /\ ~allocated[p] /\ eventCount[p] = 0
    /\ \A p \in blocks \ (held \cup failed) : p \in availableBlocks \/ Events(p) > 0
    /\ \A p \in Ptrs :
          /\ eventCount[p] = Events(p)
          /\ Events(p) > 0 => p \in blocks /\ ~allocated[p]

\* No block in the map is lost, handed out twice or re-used while a reported
\* copy is in flight, but for those whose own free failed.
MemoryIsKept == OneOwner /\ FailureIsLocal

-----------------------------------------------------------------------------
Pool == INSTANCE PinnedPool WITH Streams <- HostStreams

\* Until a free fails the allocator implements the pool it promises.  Copies
\* that recordEvent ignored are to the pool what kernels are: work on a stream.
ImplementsPool == Pool!Init /\ [][failed' = {} => Pool!Next]_(Pool!vars)
=============================================================================
