------------------------------ MODULE HandlePool ------------------------------
(***************************************************************************)
(* DeviceThreadHandlePool: the handles of a GPU library (cuBLAS, cuDNN),   *)
(* one per thread and device.  A thread keeps the handles it was given in  *)
(* its PoolWindow, a thread local, until it exits; then they go back into  *)
(* the pool.  The handles of a device are numbered in the order in which   *)
(* they are created.                                                       *)
(***************************************************************************)
EXTENDS Integers, Sequences, FiniteSets, SequencesExt

CONSTANTS Threads,    \* threads; one that has exited may be started anew
          Devices,
          MaxHandles  \* bound: handles the GPU library can create per device

ASSUME ThreadsAssumption == IsFiniteSet(Threads)
ASSUME MaxHandlesAssumption == MaxHandles \in Nat

VARIABLES
    created,    \* the size of created_handles[device]
    available,  \* available_handles
    mine,       \* my_handles of each thread, 0 where it has no entry
    peak        \* history: most threads that had a handle of a device at once

vars == <<created, available, mine, peak>>

Init ==
    /\ created = [d \in Devices |-> 0]
    /\ available = [d \in Devices |-> <<>>]
    /\ mine = [t \in Threads |-> [d \in Devices |-> 0]]
    /\ peak = [d \in Devices |-> 0]

Holders(d) == {t \in Threads : mine[t][d] # 0}

-----------------------------------------------------------------------------
CountPeak(d) ==
    peak' = [peak EXCEPT ![d] = IF Cardinality(Holders(d)) + 1 > @
                                THEN Cardinality(Holders(d)) + 1 ELSE @]

\* Faulty variant: the handle given out stays in the pool.
ReserveShared(t, d) ==
    /\ mine[t][d] = 0 /\ available[d] # <<>>
    /\ mine' = [mine EXCEPT ![t][d] = Last(available[d])]
    /\ CountPeak(d)
    /\ UNCHANGED <<created, available>>

\* reserve, for a thread without handle, when the pool has one.
ReserveAvailable(t, d) ==
    /\ mine[t][d] = 0 /\ available[d] # <<>>
    /\ mine' = [mine EXCEPT ![t][d] = available[d][Len(available[d])]]
    /\ available' = [available EXCEPT ![d] = SubSeq(@, 1, Len(@) - 1)]
    /\ CountPeak(d)
    /\ UNCHANGED created

\* reserve, when the pool has none: a handle is created.  When that fails the
\* exception leaves everything as it was.
ReserveNew(t, d) ==
    /\ mine[t][d] = 0 /\ available[d] = <<>>
    /\ created[d] < MaxHandles
    /\ created' = [created EXCEPT ![d] = @ + 1]
    /\ mine' = [mine EXCEPT ![t][d] = created[d] + 1]
    /\ CountPeak(d)
    /\ UNCHANGED available

\* Faulty variant: a thread takes its handles with it.
ReleaseNothing(t) ==
    /\ \E d \in Devices : mine[t][d] # 0
    /\ mine' = [mine EXCEPT ![t] = [d \in Devices |-> 0]]
    /\ UNCHANGED <<created, available, peak>>

\* The thread exits and its PoolWindow is destroyed: all its handles go back,
\* under one lock.
Release(t) ==
    /\ \E d \in Devices : mine[t][d] # 0
    /\ available' = [d \in Devices |->
          IF mine[t][d] # 0 THEN Append(available[d], mine[t][d]) ELSE available[d]]
    /\ mine' = [mine EXCEPT ![t] = [d \in Devices |-> 0]]
    /\ UNCHANGED <<created, peak>>

Next ==
    \E t \in Threads :
        \/ \E d \in Devices : ReserveAvailable(t, d) \/ ReserveNew(t, d)
        \/ Release(t)

Spec == Init /\ [][Next]_vars

-----------------------------------------------------------------------------
\* Every variable has its type.
TypeOK ==
    /\ created \in [Devices -> Nat]
    /\ available \in [Devices -> Seq(Nat \ {0})]
    /\ mine \in [Threads -> [Devices -> Nat]]
    /\ peak \in [Devices -> Nat]

\* "these libraries requires/recommends not to share handles across host
\* threads" (DeviceThreadHandles.h:2): a handle is in one thread's window or
\* once in the pool.
NotShared ==
    \A d \in Devices :
        /\ \A t, u \in Threads : t # u /\ mine[t][d] # 0 => mine[t][d] # mine[u][d]
        /\ \A t \in Threads : \A i \in 1..Len(available[d]) : available[d][i] # mine[t][d]
        /\ \A i, j \in 1..Len(available[d]) :
              available[d][i] = available[d][j] => i = j

\* "The maximum number of handles this process will create for each device is
\* equal to the high-water mark of the number of concurrently active threads
\* that request handles for that device" (DeviceThreadHandles.h:60).
CreatedIsPeak == \A d \in Devices : created[d] = peak[d]

\* What the pool promises of its handles: none is shared, and none is created
\* while another one could be reused.
PoolSafe == NotShared /\ CreatedIsPeak

-----------------------------------------------------------------------------
\* The inductive strengthening: every handle that was created is in one
\* thread's window or in the pool, which is counted here.
AllAccounted ==
    \A d \in Devices : created[d] = Cardinality(Holders(d)) + Len(available[d])

Numbered ==
    \A d \in Devices :
        /\ \A t \in Threads : mine[t][d] \in 0..created[d]
        /\ \A i \in 1..Len(available[d]) : available[d][i] \in 1..created[d]

IInv == TypeOK /\ NotShared /\ Numbered /\ AllAccounted /\ CreatedIsPeak
=============================================================================
