---------------------------- MODULE CuFFTPlanCache ----------------------------
(***************************************************************************)
(* The cache of cuFFT plans of each device: the most recently used plans,  *)
(* no more than max_size of them.  A transform finds or makes its plan and *)
(* runs it under the mutex of the cache; the functions that clear the      *)
(* cache or change its size take no mutex.                                 *)
(*                                                                         *)
(* _usage_list is the sequence of the keys of its plans; _cache_map, which *)
(* is an index into it, changes in the same steps and is left out.  Each   *)
(* call of the cache is one step: what a clear does to another thread that *)
(* is inside of try_emplace_value at that moment is not modelled.  The     *)
(* caches of all devices exist from the start.                             *)
(***************************************************************************)
EXTENDS HandlePool

CONSTANTS Keys,        \* the values of CuFFTParams
          MaxSizes,    \* what callers set the maximum to ...
          DefaultSize, \* ... CUFFT_DEFAULT_CACHE_SIZE
          FftDevices,  \* bound: the devices that transforms run on; their
                       \*   caches have nothing in common
          Nobody       \* who holds a mutex that is free

ASSUME SizesAssumption ==
    /\ MaxSizes \subseteq Nat /\ DefaultSize \in Nat /\ FftDevices \subseteq Devices
    /\ Nobody \notin Threads

VARIABLES
    usage,    \* _usage_list of each device, the latest first
    maxSize,  \* _max_size
    mutex,    \* who holds the mutex of the cache
    fft,      \* the transform each thread runs
    recent    \* history: all keys that were used since the last clear, the
              \* latest first

fftVars == <<usage, maxSize, mutex, fft, recent>>

\* "plan": the plan of the cache the thread runs; "cleared" is history: a call
\* without the mutex has destroyed it.
NoTransform == [pc |-> "idle"]

FftInit ==
    /\ usage = [d \in Devices |-> <<>>]
    /\ maxSize = [d \in Devices |-> DefaultSize]
    /\ mutex = [d \in Devices |-> Nobody]
    /\ fft = [t \in Threads |-> NoTransform]
    /\ recent = [d \in Devices |-> <<>>]

-----------------------------------------------------------------------------
FftAt(t, pc) == fft[t].pc = pc
FftGoto(t, pc) == fft' = [fft EXCEPT ![t].pc = pc]
FftEnd(t) == fft' = [fft EXCEPT ![t] = NoTransform]

Without(s, key) ==
    IF key \in ToSet(s) THEN RemoveAt(s, CHOOSE i \in DOMAIN s : s[i] = key) ELSE s

ToFront(s, key) == <<key>> \o Without(s, key)

\* _fft_cufft: max_size is read without the mutex.
FftStart(t, d, key) ==
    /\ FftAt(t, "idle")
    /\ fft' = [fft EXCEPT ![t] =
          [pc |-> IF maxSize[d] > 0 THEN "lock" ELSE "own",
           device |-> d, key |-> key, cleared |-> FALSE]]
    /\ UNCHANGED <<usage, maxSize, mutex, recent>>

\* "check again after acquiring the lock"
FftLock(t) ==
    LET d == fft[t].device
    IN  /\ FftAt(t, "lock") /\ mutex[d] = Nobody
        /\ IF maxSize[d] > 0
           THEN mutex' = [mutex EXCEPT ![d] = t] /\ FftGoto(t, "emplace")
           ELSE FftGoto(t, "own") /\ UNCHANGED mutex
        /\ UNCHANGED <<usage, maxSize, recent>>

\* Faulty variant: a plan that is found stays where it is in the list.
FindInPlace(s, key, size) ==
    IF key \in ToSet(s) THEN s
    ELSE <<key>> \o (IF Len(s) >= size THEN Front(s) ELSE s)

\* try_emplace_value: a hit goes to the front; on a miss the last plan makes
\* room for the new one.
TryEmplace(s, key, size) ==
    IF key \in ToSet(s) THEN ToFront(s, key)
    ELSE <<key>> \o (IF Len(s) >= size THEN Front(s) ELSE s)

\* Faulty variant: the mutex is not held while the plan runs.
FftEmplaceUnlocking(t) ==
    LET d == fft[t].device
    IN  /\ FftAt(t, "emplace") /\ maxSize[d] > 0
        /\ usage' = [usage EXCEPT ![d] = TryEmplace(@, fft[t].key, maxSize[d])]
        /\ recent' = [recent EXCEPT ![d] = ToFront(@, fft[t].key)]
        /\ mutex' = [mutex EXCEPT ![d] = Nobody]
        /\ FftGoto(t, "run")
        /\ UNCHANGED maxSize

FftEmplace(t) ==
    LET d == fft[t].device
    IN  /\ FftAt(t, "emplace") /\ maxSize[d] > 0
        /\ usage' = [usage EXCEPT ![d] = TryEmplace(@, fft[t].key, maxSize[d])]
        /\ recent' = [recent EXCEPT ![d] = ToFront(@, fft[t].key)]
        /\ FftGoto(t, "run")
        /\ UNCHANGED <<maxSize, mutex>>

\* The assertion that the maximum is positive, or the constructor of the plan,
\* throws: the last plan may already be gone.
FftEmplaceThrows(t) ==
    LET d == fft[t].device
        full == Len(usage[d]) >= maxSize[d] /\ maxSize[d] > 0
    IN  /\ FftAt(t, "emplace")
        /\ maxSize[d] > 0 => fft[t].key \notin ToSet(usage[d])
        /\ usage' = [usage EXCEPT ![d] = IF full THEN Front(@) ELSE @]
        /\ mutex' = [mutex EXCEPT ![d] = Nobody]
        /\ FftEnd(t)
        /\ UNCHANGED <<maxSize, recent>>

\* _run_cufft is over and the guard is released.
FftRun(t) ==
    /\ FftAt(t, "run")
    /\ mutex' = [mutex EXCEPT ![fft[t].device] = Nobody]
    /\ FftEnd(t)
    /\ UNCHANGED <<usage, maxSize, recent>>

\* A plan outside of the cache.
FftRunOwn(t) ==
    /\ FftAt(t, "own")
    /\ FftEnd(t)
    /\ UNCHANGED <<usage, maxSize, mutex, recent>>

\* The plans of d other than those of "kept" are destroyed, also under a thread
\* that runs one of them.
Destroy(d, kept) ==
    fft' = [t \in Threads |->
        IF FftAt(t, "run") /\ fft[t].device = d /\ fft[t].key \notin ToSet(kept)
        THEN [fft[t] EXCEPT !.cleared = TRUE] ELSE fft[t]]

\* cufft_clear_plan_cache_impl, by any thread: clear.
FftClear(d) ==
    /\ usage' = [usage EXCEPT ![d] = <<>>]
    /\ recent' = [recent EXCEPT ![d] = <<>>]
    /\ Destroy(d, <<>>)
    /\ UNCHANGED <<maxSize, mutex>>

\* cufft_set_plan_cache_max_size_impl: resize drops the plans at the end.
FftResize(d, size) ==
    LET kept == SubSeq(usage[d], 1, IF Len(usage[d]) > size THEN size ELSE Len(usage[d]))
    IN  /\ maxSize' = [maxSize EXCEPT ![d] = size]
        /\ usage' = [usage EXCEPT ![d] = kept]
        /\ Destroy(d, kept)
        /\ UNCHANGED <<mutex, recent>>

FftNext ==
    \/ \E t \in Threads :
          \/ \E d \in FftDevices, key \in Keys : FftStart(t, d, key)
          \/ FftLock(t) \/ FftEmplace(t) \/ FftEmplaceThrows(t) \/ FftRun(t) \/ FftRunOwn(t)
    \/ \E d \in FftDevices : FftClear(d) \/ \E size \in MaxSizes : FftResize(d, size)

FftSpec == FftInit /\ [][FftNext]_fftVars

-----------------------------------------------------------------------------
\* The cache holds the plans that were used most recently, whatever plans
\* failed to be made and however its size was changed, and no more than
\* max_size of them; it is never used for a transform while max_size is 0.
CacheIsRecent ==
    \A d \in Devices :
        /\ IsPrefix(usage[d], recent[d])
        /\ Len(usage[d]) <= maxSize[d]

\* "Please use a mutex when using it AND the value returned from
\* try_emplace_value" (CuFFTPlanCache.h:356): the plan a thread runs is in the
\* cache and no other thread runs a plan of it, unless the plan was cleared
\* away by a call that takes no mutex.
PlanAlive ==
    \A t \in Threads : FftAt(t, "run") =>
        /\ fft[t].cleared \/ fft[t].key \in ToSet(usage[fft[t].device])
        /\ \A u \in Threads \ {t} :
              ~(FftAt(u, "run") /\ fft[u].device = fft[t].device)
=============================================================================
