------------------------------ MODULE PinnedPool ------------------------------
(***************************************************************************)
(* What the caching host allocator promises its users                      *)
(* (THCCachingHostAllocator.h): a piece of pinned memory has one owner at  *)
(* a time, and after it was freed it is handed out again only when the     *)
(* copies that its owner had queued on CUDA streams, and reported with the *)
(* pointer to it, have finished.                                           *)
(***************************************************************************)
EXTENDS Naturals

CONSTANTS Ptrs, Streams

VARIABLES held,         \* the pointers that have an owner
          outstanding,  \* work items queued on each stream
          due           \* due[p][s]: items of s up to the last reported copy of p

vars == <<held, outstanding, due>>

Idle(p) == \A s \in Streams : due[p][s] = 0

Init ==
    /\ held = {}
    /\ outstanding = [s \in Streams |-> 0]
    /\ due = [p \in Ptrs |-> [s \in Streams |-> 0]]

Take(p) ==
    /\ p \notin held /\ Idle(p)
    /\ held' = held \cup {p}
    /\ UNCHANGED <<outstanding, due>>

\* The owner queues a copy and gives the memory back, in this order.
Copy(p, s) ==
    /\ p \in held
    /\ outstanding' = [outstanding EXCEPT ![s] = @ + 1]
    /\ due' = [due EXCEPT ![p][s] = outstanding[s] + 1]
    /\ UNCHANGED held

\* Any other work that is queued: a kernel, a copy of other memory, or one
\* that is not reported with the pointer the owner got.
Work(s) ==
    /\ outstanding' = [outstanding EXCEPT ![s] = @ + 1]
    /\ UNCHANGED <<held, due>>

Return(p) ==
    /\ p \in held
    /\ held' = held \ {p}
    /\ UNCHANGED <<outstanding, due>>

\* A stream finishes its oldest item, or the device is synchronized.
Finish(s) ==
    /\ outstanding[s] > 0
    /\ outstanding' = [outstanding EXCEPT ![s] = @ - 1]
    /\ due' = [p \in Ptrs |-> [due[p] EXCEPT ![s] = IF @ = 0 THEN 0 ELSE @ - 1]]
    /\ UNCHANGED held

Synchronize ==
    /\ outstanding' = [s \in Streams |-> 0]
    /\ due' = [p \in Ptrs |-> [s \in Streams |-> 0]]
    /\ UNCHANGED held

Next ==
    \/ \E p \in Ptrs : Take(p) \/ Return(p)
    \/ \E p \in Ptrs : \E s \in Streams : Copy(p, s)
    \/ \E s \in Streams : Work(s) \/ Finish(s)
    \/ Synchronize

PoolSpec == Init /\ [][Next]_vars
=============================================================================
