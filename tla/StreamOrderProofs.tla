--------------------------- MODULE StreamOrderProofs ---------------------------
(***************************************************************************)
(* What the events of CUDA streams keep apart.  For any threads, devices   *)
(* and streams: the uses of a dropout buffer run one after the other       *)
(* (DropoutState).  For any addresses, sizes and streams: pinned memory is *)
(* not lost, handed out twice or re-used while copies are queued that were *)
(* reported with the pointer malloc returned (HostAllocator), and the      *)
(* allocator implements PinnedPool.                                        *)
(***************************************************************************)
EXTENDS DropoutState, HostAllocator, FiniteSetTheorems, SequenceTheorems, TLAPS

Calls == [pc : {"get", "make", "lock", "use", "unlock"}, device : Devices, stream : Streams,
          dropout : BOOLEAN, maker : BOOLEAN]

RnnTypeOK ==
    /\ kernels \in [Devices -> Nat]
    /\ event \in [Devices -> [made : BOOLEAN, recorded : BOOLEAN, after : SUBSET Nat]]
    /\ before \in [Devices -> [Streams -> SUBSET Nat]]
    /\ stateMutex \in [Devices -> Threads \cup {NoThread}]
    /\ cacheMutex \in Threads \cup {NoThread}
    /\ rnn \in [Threads -> {NoRnn} \cup Calls]
    /\ settled \in [Devices -> BOOLEAN]

Holds(t, d) == rnn[t].pc \in {"use", "unlock"} /\ rnn[t].device = d

\* Who is between lock and unlock holds the mutex of the state, and nobody
\* else does.
StateHeld == \A t \in Threads, d \in Devices : Holds(t, d) <=> stateMutex[d] = t

\* A buffer is made once, under the mutex of the cache, and before a call with
\* dropout goes on.
MadeOnce ==
    \A t \in Threads :
        /\ rnn[t].pc = "make" =>
              cacheMutex = t /\ rnn[t].dropout /\ ~event[rnn[t].device].made
        /\ rnn[t].pc \in {"lock", "use", "unlock"} /\ rnn[t].dropout => event[rnn[t].device].made
        /\ rnn[t].pc \in {"lock", "use", "unlock"} /\ rnn[t].maker =>
              rnn[t].dropout /\ 1 \in before[rnn[t].device][rnn[t].stream]
        /\ rnn[t].pc \in {"get", "make"} => ~rnn[t].maker

\* Only a buffer that is made has kernels and a recorded event.
EventGrows ==
    \A d \in Devices :
        /\ ~event[d].made => kernels[d] = 0
        /\ event[d].recorded => event[d].made
        /\ settled[d] => event[d].recorded

\* The uses that the next one has to wait for.
Needed(d) == 1..kernels[d] \ (IF settled[d] THEN {} ELSE {1})

\* While nobody uses the buffer the event stands for all uses; who uses it runs
\* after all of them.
Covered ==
    /\ \A d \in Devices : stateMutex[d] = NoThread =>
          IF event[d].recorded THEN Needed(d) \subseteq event[d].after ELSE Needed(d) = {}
    /\ \A t \in Threads, d \in Devices : Holds(t, d) => Needed(d) \subseteq before[d][rnn[t].stream]

DInv == RnnTypeOK /\ StateHeld /\ MadeOnce /\ EventGrows /\ Covered

-----------------------------------------------------------------------------
LEMMA DInvInit == RnnInit => DInv
<1>. SUFFICES ASSUME RnnInit PROVE DInv
    OBVIOUS
<1>1. /\ \A d \in Devices : /\ kernels[d] = 0 /\ stateMutex[d] = NoThread /\ ~settled[d]
                            /\ event[d] = [made |-> FALSE, recorded |-> FALSE, after |-> {}]
      /\ \A t \in Threads : rnn[t].pc = "idle"
    BY DEF RnnInit, NoRnn
<1>2. RnnTypeOK
    BY DEF RnnInit, RnnTypeOK
<1>3. StateHeld /\ MadeOnce /\ EventGrows
    BY <1>1, KernelsAssumption DEF StateHeld, MadeOnce, EventGrows, Holds
<1>4. \A d \in Devices : Needed(d) = {}
    BY <1>1 DEF Needed
<1>5. Covered
    BY <1>1, <1>4 DEF Covered, Holds
<1>. QED
    BY <1>2, <1>3, <1>5 DEF DInv

\* A thread that is not between lock and unlock, before the step or after it,
\* and leaves the buffers alone.
LEMMA OutsideSteps ==
    ASSUME DInv, NEW t \in Threads, NEW c \in {NoRnn} \cup Calls,
           rnn' = [rnn EXCEPT ![t] = c],
           rnn[t].pc \notin {"use", "unlock"}, c.pc \in {"idle", "get", "make", "lock"},
           c.pc = "make" => cacheMutex' = t /\ c.dropout /\ ~event[c.device].made,
           c.pc = "lock" /\ c.dropout => event[c.device].made,
           c.pc # "idle" => ~c.maker,
           cacheMutex' = cacheMutex \/ cacheMutex \in {NoThread, t},
           cacheMutex' \in Threads \cup {NoThread},
           UNCHANGED <<kernels, event, before, stateMutex, settled>>
    PROVE  DInv'
<1>. USE DEF DInv
<1>1. rnn'[t] = c /\ \A u \in Threads \ {t} : rnn'[u] = rnn[u]
    BY DEF RnnTypeOK
<1>2. RnnTypeOK'
    BY DEF RnnTypeOK
<1>3. \A u \in Threads, d \in Devices : Holds(u, d)' <=> Holds(u, d)
    BY <1>1 DEF Holds
<1>4. StateHeld'
    BY <1>3 DEF StateHeld, RnnTypeOK
<1>5. MadeOnce'
    <2>. SUFFICES ASSUME NEW u \in Threads
                  PROVE  /\ rnn'[u].pc = "make" =>
                               cacheMutex' = u /\ rnn'[u].dropout /\ ~event[rnn'[u].device].made
                         /\ rnn'[u].pc \in {"lock", "use", "unlock"} /\ rnn'[u].dropout =>
                               event[rnn'[u].device].made
                         /\ rnn'[u].pc \in {"lock", "use", "unlock"} /\ rnn'[u].maker =>
                               rnn'[u].dropout /\ 1 \in before[rnn'[u].device][rnn'[u].stream]
                         /\ rnn'[u].pc \in {"get", "make"} => ~rnn'[u].maker
        BY DEF MadeOnce
    <2>1. CASE u = t
        BY <1>1, <2>1
    <2>2. CASE u # t
        BY <1>1, <2>2, KernelsAssumption DEF MadeOnce
    <2>. QED
        BY <2>1, <2>2
<1>6. EventGrows'
    BY DEF EventGrows
<1>7. Covered'
    <2>1. \A d \in Devices : Needed(d)' = Needed(d)
        BY DEF Needed
    <2>2. \A u \in Threads, d \in Devices : Holds(u, d) => rnn'[u] = rnn[u]
        BY <1>1 DEF Holds
    <2>. QED
        BY <1>3, <2>1, <2>2 DEF Covered
<1>. QED
    BY <1>2, <1>4, <1>5, <1>6, <1>7

LEMMA StepRnnStart ==
    ASSUME DInv, NEW t \in Threads, NEW d \in RnnDevices, NEW s \in Streams, NEW dropout \in BOOLEAN,
           RnnStart(t, d, s, dropout)
    PROVE  DInv'
<1>. DEFINE c == [pc |-> "get", device |-> d, stream |-> s, dropout |-> dropout, maker |-> FALSE]
<1>1. /\ c \in Calls /\ c.pc = "get" /\ ~c.maker /\ rnn[t].pc = "idle"
      /\ rnn' = [rnn EXCEPT ![t] = c]
      /\ UNCHANGED <<kernels, event, before, stateMutex, cacheMutex, settled>>
    BY KernelsAssumption DEF RnnStart, RnnAt, Calls
<1>2. cacheMutex' \in Threads \cup {NoThread}
    BY <1>1 DEF DInv, RnnTypeOK
<1>. HIDE DEF c
<1>. QED
    BY <1>1, <1>2, OutsideSteps

LEMMA StepGetState ==
    ASSUME DInv, NEW t \in Threads, GetState(t)
    PROVE  DInv'
<1>. DEFINE make == rnn[t].dropout /\ ~event[rnn[t].device].made
            c == [rnn[t] EXCEPT !.pc = IF make THEN "make" ELSE "lock"]
<1>1. rnn[t] \in Calls /\ rnn[t].pc = "get" /\ ~rnn[t].maker /\ cacheMutex = NoThread
    BY DEF GetState, RnnAt, DInv, RnnTypeOK, MadeOnce, NoRnn
<1>2. /\ c \in Calls /\ c.device = rnn[t].device /\ c.dropout = rnn[t].dropout /\ ~c.maker
      /\ c.pc = IF make THEN "make" ELSE "lock"
    BY <1>1 DEF Calls
<1>3. rnn' = [rnn EXCEPT ![t] = c] /\ UNCHANGED <<kernels, event, before, stateMutex, settled>>
    BY DEF GetState, RnnGoto
<1>4. cacheMutex' = IF make THEN t ELSE cacheMutex
    BY DEF GetState
<1>5. rnn[t].dropout \in BOOLEAN /\ event[rnn[t].device].made \in BOOLEAN
    BY <1>1 DEF DInv, RnnTypeOK, Calls
<1>. HIDE DEF c
<1>. QED
    BY <1>1, <1>2, <1>3, <1>4, <1>5, OutsideSteps

LEMMA StepMakeThrows ==
    ASSUME DInv, NEW t \in Threads, MakeThrows(t)
    PROVE  DInv'
<1>1. rnn[t].pc = "make" /\ cacheMutex = t
    BY DEF MakeThrows, RnnAt, DInv, MadeOnce
<1>2. /\ rnn' = [rnn EXCEPT ![t] = NoRnn] /\ cacheMutex' = NoThread /\ NoRnn.pc = "idle"
      /\ UNCHANGED <<kernels, event, before, stateMutex, settled>>
    BY DEF MakeThrows, NoRnn
<1>. QED
    BY <1>1, <1>2, OutsideSteps

\* What a stream waits for grows by kernels.
LEMMA QueuedType ==
    ASSUME RnnTypeOK, NEW d \in Devices, NEW s \in Streams, NEW more \in SUBSET Nat,
           before' = [before EXCEPT ![d][s] = @ \cup more]
    PROVE  /\ before' \in [Devices -> [Streams -> SUBSET Nat]]
           /\ before'[d][s] = before[d][s] \cup more
           /\ \A c \in Devices, r \in Streams :
                 /\ before[c][r] \subseteq before'[c][r]
                 /\ c # d => before'[c][r] = before[c][r]
<1>1. /\ before \in [Devices -> [Streams -> SUBSET Nat]]
      /\ before' = [before EXCEPT ![d] = [before[d] EXCEPT ![s] = before[d][s] \cup more]]
    BY DEF RnnTypeOK
<1>2. before[d] \in [Streams -> SUBSET Nat]
    BY <1>1
<1>3. before[d][s] \cup more \in SUBSET Nat
    BY <1>2
<1>4. [before[d] EXCEPT ![s] = before[d][s] \cup more] \in [Streams -> SUBSET Nat]
    BY <1>2, <1>3
<1>5. before' \in [Devices -> [Streams -> SUBSET Nat]]
    BY <1>1, <1>4
<1>. QED
    BY <1>1, <1>2, <1>5

\* The kernel that fills the buffer is the first one, and is not needed before
\* its thread has used the buffer.
LEMMA StepMakeBuffer ==
    ASSUME DInv, NEW t \in Threads, MakeBuffer(t)
    PROVE  DInv'
<1>. USE DEF DInv
<1>. DEFINE d == rnn[t].device
            s == rnn[t].stream
<1>1. /\ rnn[t].pc = "make" /\ rnn[t] \in Calls /\ d \in Devices /\ s \in Streams
      /\ cacheMutex = t /\ rnn[t].dropout /\ ~event[d].made /\ stateMutex[d] = NoThread
    BY DEF MakeBuffer, RnnAt, MadeOnce, RnnTypeOK, NoRnn, Calls
<1>2. kernels[d] = 0 /\ ~event[d].recorded /\ ~settled[d]
    BY <1>1 DEF EventGrows
<1>3. /\ kernels' = [kernels EXCEPT ![d] = 1]
      /\ before' = [before EXCEPT ![d][s] = @ \cup {1}]
      /\ event' = [event EXCEPT ![d].made = TRUE]
      /\ cacheMutex' = NoThread
      /\ rnn' = [rnn EXCEPT ![t].pc = "lock", ![t].maker = TRUE]
      /\ UNCHANGED <<stateMutex, settled>>
    BY <1>1, <1>2 DEF MakeBuffer, Queue
<1>4. RnnTypeOK'
    <2>1. rnn' \in [Threads -> {NoRnn} \cup Calls]
        BY <1>1, <1>3 DEF RnnTypeOK, Calls
    <2>2. before' \in [Devices -> [Streams -> SUBSET Nat]]
        <3>1. {1} \in SUBSET Nat
            OBVIOUS
        <3>. QED
            BY <1>1, <1>3, <3>1, QueuedType
    <2>3. event' \in [Devices -> [made : BOOLEAN, recorded : BOOLEAN, after : SUBSET Nat]]
        <3>1. [event[d] EXCEPT !.made = TRUE] \in [made : BOOLEAN, recorded : BOOLEAN, after : SUBSET Nat]
            <4>1. event[d] \in [made : BOOLEAN, recorded : BOOLEAN, after : SUBSET Nat]
                BY <1>1 DEF RnnTypeOK
            <4>. QED
                BY <4>1
        <3>. QED
            BY <1>1, <1>3, <3>1 DEF RnnTypeOK
    <2>4. kernels' \in [Devices -> Nat] /\ cacheMutex' \in Threads \cup {NoThread}
        BY <1>3 DEF RnnTypeOK
    <2>. QED
        BY <1>3, <2>1, <2>2, <2>3, <2>4 DEF RnnTypeOK
<1>5. /\ rnn'[t] \in Calls /\ rnn'[t].pc = "lock" /\ rnn'[t].maker /\ rnn'[t].device = d
      /\ rnn'[t].stream = s /\ rnn'[t].dropout
      /\ \A u \in Threads \ {t} : rnn'[u] = rnn[u]
    BY <1>1, <1>3 DEF RnnTypeOK, Calls
<1>6. /\ event'[d].made /\ ~event'[d].recorded /\ 1 \in before'[d][s] /\ kernels'[d] = 1
      /\ \A c \in Devices : /\ c # d => event'[c] = event[c] /\ kernels'[c] = kernels[c]
                            /\ event[c].made => event'[c].made
                            /\ \A r \in Streams : before[c][r] \subseteq before'[c][r]
    BY <1>1, <1>2, <1>3 DEF RnnTypeOK
<1>7. \A u \in Threads, c \in Devices : Holds(u, c)' <=> Holds(u, c)
    BY <1>1, <1>5 DEF Holds
<1>8. StateHeld'
    BY <1>3, <1>7 DEF StateHeld, RnnTypeOK
<1>9. MadeOnce'
    <2>. SUFFICES ASSUME NEW u \in Threads
                  PROVE  /\ rnn'[u].pc = "make" =>
                               cacheMutex' = u /\ rnn'[u].dropout /\ ~event'[rnn'[u].device].made
                         /\ rnn'[u].pc \in {"lock", "use", "unlock"} /\ rnn'[u].dropout =>
                               event'[rnn'[u].device].made
                         /\ rnn'[u].pc \in {"lock", "use", "unlock"} /\ rnn'[u].maker =>
                               rnn'[u].dropout /\ 1 \in before'[rnn'[u].device][rnn'[u].stream]
                         /\ rnn'[u].pc \in {"get", "make"} => ~rnn'[u].maker
        BY DEF MadeOnce
    <2>1. CASE u = t
        BY <1>5, <1>6, <2>1
    <2>2. CASE u # t
        <3>1. rnn'[u] = rnn[u] /\ rnn[u].pc # "make"
            BY <1>1, <1>5, <2>2 DEF MadeOnce
        <3>2. rnn[u].pc = "idle" \/ (rnn[u].device \in Devices /\ rnn[u].stream \in Streams)
            BY DEF RnnTypeOK, NoRnn, Calls
        <3>. QED
            BY <1>6, <3>1, <3>2 DEF MadeOnce
    <2>. QED
        BY <2>1, <2>2
<1>10. EventGrows'
    BY <1>2, <1>3, <1>6 DEF EventGrows
<1>11. Covered'
    <2>1. \A c \in Devices : Needed(c)' = IF c = d THEN {} ELSE Needed(c)
        BY <1>2, <1>3, <1>6 DEF Needed
    <2>2. \A u \in Threads, c \in Devices : Holds(u, c) => rnn'[u] = rnn[u] /\ rnn[u].stream \in Streams /\ c # d
        BY <1>1, <1>5, KernelsAssumption DEF Holds, StateHeld, RnnTypeOK, NoRnn, Calls
    <2>3. ASSUME NEW c \in Devices, stateMutex'[c] = NoThread
          PROVE  IF event'[c].recorded THEN Needed(c)' \subseteq event'[c].after ELSE Needed(c)' = {}
        <3>1. CASE c = d
            BY <1>6, <2>1, <3>1
        <3>2. CASE c # d
            BY <1>3, <1>6, <2>1, <2>3, <3>2 DEF Covered
        <3>. QED
            BY <3>1, <3>2
    <2>4. ASSUME NEW u \in Threads, NEW c \in Devices, Holds(u, c)'
          PROVE  Needed(c)' \subseteq before'[c][rnn'[u].stream]
        BY <1>6, <1>7, <2>1, <2>2, <2>4 DEF Covered
    <2>. QED
        BY <2>3, <2>4 DEF Covered
<1>. QED
    BY <1>4, <1>8, <1>9, <1>10, <1>11

\* A step of a thread between lock and unlock: the others are on other devices
\* or outside.
LEMMA InsideFacts ==
    ASSUME DInv, NEW t \in Threads, rnn[t].pc \in {"use", "unlock"}
    PROVE  /\ rnn[t] \in Calls /\ rnn[t].device \in Devices /\ rnn[t].stream \in Streams
           /\ stateMutex[rnn[t].device] = t /\ Holds(t, rnn[t].device)
           /\ \A u \in Threads \ {t}, c \in Devices : Holds(u, c) => c # rnn[t].device
<1>1. rnn[t] \in Calls /\ rnn[t].device \in Devices /\ rnn[t].stream \in Streams
    BY DEF DInv, RnnTypeOK, NoRnn, Calls
<1>2. Holds(t, rnn[t].device)
    BY DEF Holds
<1>. QED
    BY <1>1, <1>2 DEF DInv, StateHeld

\* lock: the stream waits for the uses that the event stands for.
LEMMA StepLockState ==
    ASSUME DInv, NEW t \in Threads, LockState(t)
    PROVE  DInv'
<1>. USE DEF DInv
<1>. DEFINE d == rnn[t].device
            s == rnn[t].stream
            more == IF event[d].recorded THEN event[d].after ELSE {}
<1>1. /\ rnn[t].pc = "lock" /\ rnn[t] \in Calls /\ d \in Devices /\ s \in Streams
      /\ stateMutex[d] = NoThread /\ more \in SUBSET Nat
    BY DEF LockState, RnnAt, RnnTypeOK, NoRnn, Calls
<1>2. /\ stateMutex' = [stateMutex EXCEPT ![d] = t]
      /\ rnn' = [rnn EXCEPT ![t].pc = "use"]
      /\ UNCHANGED <<kernels, event, cacheMutex, settled>>
    BY DEF LockState, RnnGoto
<1>3. before' = [before EXCEPT ![d][s] = @ \cup more]
    <2>1. CASE event[d].recorded
        BY <2>1 DEF LockState
    <2>2. CASE ~event[d].recorded
        <3>1. before' = before /\ more = {}
            BY <2>2 DEF LockState
        <3>2. before = [before EXCEPT ![d] = before[d]] /\ before[d] = [before[d] EXCEPT ![s] = before[d][s]]
            BY <1>1 DEF RnnTypeOK
        <3>3. before[d][s] \cup more = before[d][s]
            BY <3>1
        <3>. QED
            BY <3>1, <3>2, <3>3
    <2>. QED
        BY <2>1, <2>2
<1>. HIDE DEF more
<1>4. /\ before' \in [Devices -> [Streams -> SUBSET Nat]]
      /\ before'[d][s] = before[d][s] \cup more
      /\ \A c \in Devices, r \in Streams :
            before[c][r] \subseteq before'[c][r] /\ (c # d => before'[c][r] = before[c][r])
    BY <1>1, <1>3, QueuedType
<1>5. /\ rnn'[t] \in Calls /\ rnn'[t].pc = "use" /\ rnn'[t].device = d /\ rnn'[t].stream = s
      /\ rnn'[t].maker = rnn[t].maker /\ rnn'[t].dropout = rnn[t].dropout
      /\ \A u \in Threads \ {t} : rnn'[u] = rnn[u]
    BY <1>1, <1>2 DEF RnnTypeOK, Calls
<1>6. RnnTypeOK'
    BY <1>1, <1>2, <1>4, <1>5 DEF RnnTypeOK
<1>7. \A u \in Threads, c \in Devices : Holds(u, c) => c # d
    BY <1>1, KernelsAssumption DEF StateHeld
<1>8. \A u \in Threads, c \in Devices : Holds(u, c)' <=> Holds(u, c) \/ (u = t /\ c = d)
    BY <1>1, <1>5 DEF Holds
<1>9. StateHeld'
    <2>1. stateMutex'[d] = t /\ \A c \in Devices \ {d} : stateMutex'[c] = stateMutex[c]
        BY <1>1, <1>2 DEF RnnTypeOK
    <2>. QED
        BY <1>7, <1>8, <2>1 DEF StateHeld
<1>10. MadeOnce'
    <2>. SUFFICES ASSUME NEW u \in Threads
                  PROVE  /\ rnn'[u].pc = "make" =>
                               cacheMutex' = u /\ rnn'[u].dropout /\ ~event'[rnn'[u].device].made
                         /\ rnn'[u].pc \in {"lock", "use", "unlock"} /\ rnn'[u].dropout =>
                               event'[rnn'[u].device].made
                         /\ rnn'[u].pc \in {"lock", "use", "unlock"} /\ rnn'[u].maker =>
                               rnn'[u].dropout /\ 1 \in before'[rnn'[u].device][rnn'[u].stream]
                         /\ rnn'[u].pc \in {"get", "make"} => ~rnn'[u].maker
        BY DEF MadeOnce
    <2>1. CASE u = t
        BY <1>1, <1>2, <1>4, <1>5, <2>1 DEF MadeOnce
    <2>2. CASE u # t
        <3>1. rnn'[u] = rnn[u] /\ cacheMutex' = cacheMutex /\ event' = event
            BY <1>2, <1>5, <2>2
        <3>2. rnn[u].pc = "idle" \/ (rnn[u].device \in Devices /\ rnn[u].stream \in Streams)
            BY DEF RnnTypeOK, NoRnn, Calls
        <3>. QED
            BY <1>4, <3>1, <3>2 DEF MadeOnce
    <2>. QED
        BY <2>1, <2>2
<1>11. EventGrows'
    BY <1>2 DEF EventGrows
<1>12. Covered'
    <2>1. \A c \in Devices : Needed(c)' = Needed(c)
        BY <1>2 DEF Needed
    <2>2. ASSUME NEW c \in Devices, stateMutex'[c] = NoThread
          PROVE  IF event'[c].recorded THEN Needed(c)' \subseteq event'[c].after ELSE Needed(c)' = {}
        <3>1. stateMutex[c] = NoThread
            BY <1>1, <1>2, <2>2, KernelsAssumption DEF RnnTypeOK
        <3>. QED
            BY <1>2, <2>1, <3>1 DEF Covered
    <2>3. ASSUME NEW u \in Threads, NEW c \in Devices, Holds(u, c)'
          PROVE  Needed(c)' \subseteq before'[c][rnn'[u].stream]
        <3>1. CASE Holds(u, c)
            <4>1. rnn'[u] = rnn[u] /\ rnn[u].stream \in Streams
                BY <1>1, <1>5, <3>1 DEF Holds, RnnTypeOK, NoRnn, Calls
            <4>. QED
                BY <1>4, <2>1, <3>1, <4>1 DEF Covered
        <3>2. CASE u = t /\ c = d
            <4>1. Needed(d) \subseteq more
                BY <1>1 DEF Covered, more
            <4>. QED
                BY <1>4, <1>5, <2>1, <3>2, <4>1
        <3>. QED
            BY <1>8, <2>3, <3>1, <3>2
    <2>. QED
        BY <2>2, <2>3 DEF Covered
<1>. QED
    BY <1>6, <1>9, <1>10, <1>11, <1>12

\* A use is queued behind all others on its stream, or fails.
LEMMA StepUse ==
    ASSUME DInv, NEW t \in Threads, UseState(t) \/ UseThrows(t)
    PROVE  DInv'
<1>. USE DEF DInv
<1>0. PICK d \in Devices, s \in Streams : d = rnn[t].device /\ s = rnn[t].stream
    BY InsideFacts DEF UseState, UseThrows, RnnAt
<1>. USE <1>0
<1>. DEFINE k == kernels[d]
<1>1. /\ rnn[t].pc = "use"
      /\ rnn' = [rnn EXCEPT ![t].pc = "unlock"]
      /\ UNCHANGED <<event, stateMutex, cacheMutex, settled>>
    BY DEF UseState, UseThrows, RnnAt, RnnGoto
<1>2. /\ rnn[t] \in Calls /\ d \in Devices /\ s \in Streams /\ stateMutex[d] = t /\ Holds(t, d)
      /\ \A u \in Threads \ {t}, c \in Devices : Holds(u, c) => c # d
    BY <1>1, InsideFacts
<1>3. /\ rnn'[t] \in Calls /\ rnn'[t].pc = "unlock" /\ rnn'[t].device = d /\ rnn'[t].stream = s
      /\ rnn'[t].maker = rnn[t].maker /\ rnn'[t].dropout = rnn[t].dropout
      /\ \A u \in Threads \ {t} : rnn'[u] = rnn[u]
    BY <1>1, <1>2 DEF RnnTypeOK, Calls
<1>4. \A u \in Threads, c \in Devices : Holds(u, c)' <=> Holds(u, c)
    BY <1>1, <1>3 DEF Holds
<1>5. \/ UNCHANGED <<kernels, before>>
      \/ /\ rnn[t].dropout
         /\ kernels' = [kernels EXCEPT ![d] = k + 1]
         /\ before' = [before EXCEPT ![d][s] = @ \cup {k + 1}]
    BY DEF UseState, UseThrows, Queue
<1>6. /\ kernels \in [Devices -> Nat] /\ before \in [Devices -> [Streams -> SUBSET Nat]]
      /\ k \in Nat /\ {k + 1} \in SUBSET Nat
    BY <1>2 DEF RnnTypeOK
<1>7. rnn[t].dropout => event[d].made
    BY <1>1 DEF MadeOnce
<1>8. /\ kernels' \in [Devices -> Nat] /\ before' \in [Devices -> [Streams -> SUBSET Nat]]
      /\ \A c \in Devices : (c # d \/ ~event[c].made) => kernels'[c] = kernels[c]
      /\ \A c \in Devices, r \in Streams : before[c][r] \subseteq before'[c][r]
      /\ 1..kernels'[d] \subseteq 1..k \cup before'[d][s]
    <2>1. CASE UNCHANGED <<kernels, before>>
        BY <1>6, <2>1
    <2>2. CASE /\ rnn[t].dropout
               /\ kernels' = [kernels EXCEPT ![d] = k + 1]
               /\ before' = [before EXCEPT ![d][s] = @ \cup {k + 1}]
        <3>1. /\ before' \in [Devices -> [Streams -> SUBSET Nat]]
              /\ before'[d][s] = before[d][s] \cup {k + 1}
              /\ \A c \in Devices, r \in Streams : before[c][r] \subseteq before'[c][r]
            <4>. HIDE DEF k
            <4>1. d \in Devices /\ s \in Streams /\ {k + 1} \in SUBSET Nat
                BY <1>2, <1>6
            <4>2. before' = [before EXCEPT ![d][s] = @ \cup {k + 1}]
                BY <2>2
            <4>3. RnnTypeOK
                OBVIOUS
            <4>. QED
                BY ONLY <4>1, <4>2, <4>3, QueuedType
        <3>2. kernels' \in [Devices -> Nat] /\ kernels'[d] = k + 1
            BY <1>2, <1>6, <2>2
        <3>3. 1..(k + 1) = 1..k \cup {k + 1}
            <4>. HIDE DEF k
            <4>1. ASSUME NEW i \in 1..(k + 1) PROVE i \in 1..k \cup {k + 1}
                BY <1>6
            <4>2. ASSUME NEW i \in 1..k \cup {k + 1} PROVE i \in 1..(k + 1)
                BY <1>6
            <4>. QED
                BY <4>1, <4>2
        <3>. QED
            BY <1>2, <1>6, <1>7, <2>2, <3>1, <3>2, <3>3
    <2>. QED
        BY <1>5, <2>1, <2>2
<1>9. RnnTypeOK'
    BY <1>1, <1>2, <1>3, <1>8 DEF RnnTypeOK
<1>10. StateHeld'
    BY <1>1, <1>4 DEF StateHeld, RnnTypeOK
<1>11. MadeOnce'
    <2>. SUFFICES ASSUME NEW u \in Threads
                  PROVE  /\ rnn'[u].pc = "make" =>
                               cacheMutex' = u /\ rnn'[u].dropout /\ ~event'[rnn'[u].device].made
                         /\ rnn'[u].pc \in {"lock", "use", "unlock"} /\ rnn'[u].dropout =>
                               event'[rnn'[u].device].made
                         /\ rnn'[u].pc \in {"lock", "use", "unlock"} /\ rnn'[u].maker =>
                               rnn'[u].dropout /\ 1 \in before'[rnn'[u].device][rnn'[u].stream]
                         /\ rnn'[u].pc \in {"get", "make"} => ~rnn'[u].maker
        BY DEF MadeOnce
    <2>1. CASE u = t
        BY <1>1, <1>2, <1>3, <1>8, <2>1 DEF MadeOnce
    <2>2. CASE u # t
        <3>1. rnn'[u] = rnn[u] /\ cacheMutex' = cacheMutex /\ event' = event
            BY <1>1, <1>3, <2>2
        <3>2. rnn[u].pc = "idle" \/ (rnn[u].device \in Devices /\ rnn[u].stream \in Streams)
            BY DEF RnnTypeOK, NoRnn, Calls
        <3>. QED
            BY <1>8, <3>1, <3>2 DEF MadeOnce
    <2>. QED
        BY <2>1, <2>2
<1>12. EventGrows'
    BY <1>1, <1>8 DEF EventGrows
<1>13. Covered'
    <2>1. \A c \in Devices \ {d} : Needed(c)' = Needed(c)
        BY <1>1, <1>8 DEF Needed
    <2>2. Needed(d)' \subseteq Needed(d) \cup before'[d][s]
        BY <1>1, <1>8 DEF Needed
    <2>3. ASSUME NEW c \in Devices, stateMutex'[c] = NoThread
          PROVE  IF event'[c].recorded THEN Needed(c)' \subseteq event'[c].after ELSE Needed(c)' = {}
        <3>1. c # d /\ stateMutex[c] = NoThread
            BY <1>1, <1>2, <2>3, KernelsAssumption
        <3>. QED
            BY <1>1, <2>1, <3>1 DEF Covered
    <2>4. ASSUME NEW u \in Threads, NEW c \in Devices, Holds(u, c)
          PROVE  Needed(c)' \subseteq before'[c][rnn'[u].stream]
        <3>1. rnn'[u].stream = rnn[u].stream /\ rnn[u].stream \in Streams
            <4>1. rnn'[u].stream = rnn[u].stream
                BY <1>3
            <4>2. rnn[u].pc # "idle" /\ rnn[u] \in {NoRnn} \cup Calls
                BY <2>4 DEF Holds, RnnTypeOK
            <4>. QED
                BY <4>1, <4>2 DEF NoRnn, Calls
        <3>2. Needed(c) \subseteq before'[c][rnn'[u].stream]
            BY <1>8, <2>4, <3>1 DEF Covered
        <3>3. CASE u = t
            <4>1. c = d /\ rnn'[u].stream = s
                BY <1>3, <2>4, <3>3 DEF Holds
            <4>2. Needed(d)' \subseteq Needed(d) \cup before'[d][s] /\ Needed(d) \subseteq before'[d][s]
                BY <2>2, <3>2, <4>1
            <4>. QED
                BY <4>1, <4>2
        <3>4. CASE u # t
            BY <1>2, <2>1, <2>4, <3>2, <3>4
        <3>. QED
            BY <3>3, <3>4
    <2>. QED
        BY <1>4, <2>3, <2>4 DEF Covered
<1>. QED
    BY <1>9, <1>10, <1>11, <1>12, <1>13

\* unlock: the event is recorded behind all uses.
LEMMA StepUnlock ==
    ASSUME DInv, NEW t \in Threads, UnlockState(t)
    PROVE  DInv'
<1>. USE DEF DInv
<1>0. PICK d \in Devices, s \in Streams : d = rnn[t].device /\ s = rnn[t].stream
    BY InsideFacts DEF UnlockState, RnnAt
<1>. USE <1>0
<1>. DEFINE e == [event[d] EXCEPT !.recorded = TRUE, !.after = before[d][s]]
<1>1. /\ rnn[t].pc = "unlock"
      /\ event' = IF ~event[d].made THEN event
                  ELSE [event EXCEPT ![d].recorded = TRUE, ![d].after = before[d][s]]
      /\ stateMutex' = [stateMutex EXCEPT ![d] = NoThread]
      /\ settled' = [settled EXCEPT ![d] = settled[d] \/ rnn[t].maker]
      /\ rnn' = [rnn EXCEPT ![t] = NoRnn]
      /\ UNCHANGED <<kernels, before, cacheMutex>>
    BY DEF UnlockState, RnnAt
<1>2. /\ rnn[t] \in Calls /\ d \in Devices /\ s \in Streams /\ stateMutex[d] = t /\ Holds(t, d)
      /\ \A u \in Threads \ {t}, c \in Devices : Holds(u, c) => c # d
    BY <1>1, InsideFacts
<1>3. /\ rnn'[t] = NoRnn /\ \A u \in Threads \ {t} : rnn'[u] = rnn[u]
      /\ NoRnn.pc = "idle"
    BY <1>1 DEF RnnTypeOK, NoRnn
<1>4. /\ before[d][s] \in SUBSET Nat /\ rnn[t].maker \in BOOLEAN
      /\ event \in [Devices -> [made : BOOLEAN, recorded : BOOLEAN, after : SUBSET Nat]]
    BY <1>2 DEF RnnTypeOK, Calls
<1>5. /\ event' \in [Devices -> [made : BOOLEAN, recorded : BOOLEAN, after : SUBSET Nat]]
      /\ \A c \in Devices \ {d} : event'[c] = event[c]
      /\ event'[d].made = event[d].made
      /\ IF event[d].made THEN event'[d].recorded /\ event'[d].after = before[d][s]
         ELSE event'[d] = event[d]
    <2>1. CASE event[d].made
        <3>1. event' = [event EXCEPT ![d] = e]
            BY <1>1, <1>2, <1>4, <2>1
        <3>2. /\ e \in [made : BOOLEAN, recorded : BOOLEAN, after : SUBSET Nat]
              /\ e.made = event[d].made /\ e.recorded /\ e.after = before[d][s]
            BY <1>2, <1>4
        <3>. HIDE DEF e
        <3>. QED
            BY <1>2, <1>4, <2>1, <3>1, <3>2
    <2>2. CASE ~event[d].made
        BY <1>1, <1>4, <2>2
    <2>. QED
        BY <2>1, <2>2
<1>6. /\ settled' \in [Devices -> BOOLEAN] /\ settled'[d] = (settled[d] \/ rnn[t].maker)
      /\ \A c \in Devices \ {d} : settled'[c] = settled[c]
    BY <1>1, <1>2, <1>4 DEF RnnTypeOK
<1>7. RnnTypeOK'
    BY <1>1, <1>2, <1>5, <1>6 DEF RnnTypeOK
<1>8. \A u \in Threads, c \in Devices : Holds(u, c)' <=> Holds(u, c) /\ u # t
    BY <1>3 DEF Holds
<1>9. /\ stateMutex'[d] = NoThread /\ \A c \in Devices \ {d} : stateMutex'[c] = stateMutex[c]
    BY <1>1, <1>2 DEF RnnTypeOK
<1>10. StateHeld'
    <2>. SUFFICES ASSUME NEW u \in Threads, NEW c \in Devices
                  PROVE  Holds(u, c)' <=> stateMutex'[c] = u
        BY DEF StateHeld
    <2>1. CASE c = d
        BY <1>2, <1>8, <1>9, <2>1, KernelsAssumption
    <2>2. CASE c # d
        <3>1. ~Holds(t, c)
            BY <2>2 DEF Holds
        <3>. QED
            BY <1>8, <1>9, <2>2, <3>1 DEF StateHeld
    <2>. QED
        BY <2>1, <2>2
<1>11. MadeOnce'
    <2>. SUFFICES ASSUME NEW u \in Threads, u # t
                  PROVE  /\ rnn'[u].pc = "make" =>
                               cacheMutex' = u /\ rnn'[u].dropout /\ ~event'[rnn'[u].device].made
                         /\ rnn'[u].pc \in {"lock", "use", "unlock"} /\ rnn'[u].dropout =>
                               event'[rnn'[u].device].made
                         /\ rnn'[u].pc \in {"lock", "use", "unlock"} /\ rnn'[u].maker =>
                               rnn'[u].dropout /\ 1 \in before'[rnn'[u].device][rnn'[u].stream]
                         /\ rnn'[u].pc \in {"get", "make"} => ~rnn'[u].maker
        BY <1>3 DEF MadeOnce
    <2>1. rnn'[u] = rnn[u] /\ cacheMutex' = cacheMutex /\ before' = before
        BY <1>1, <1>3
    <2>2. rnn[u].pc = "idle" \/ rnn[u].device \in Devices
        BY DEF RnnTypeOK, NoRnn, Calls
    <2>3. \A c \in Devices : event'[c].made = event[c].made
        BY <1>5
    <2>. QED
        BY <2>1, <2>2, <2>3 DEF MadeOnce
<1>12. rnn[t].maker => event[d].made
    BY <1>1 DEF MadeOnce
<1>13. EventGrows'
    <2>. SUFFICES ASSUME NEW c \in Devices
                  PROVE  /\ ~event'[c].made => kernels'[c] = 0
                         /\ event'[c].recorded => event'[c].made
                         /\ settled'[c] => event'[c].recorded
        BY DEF EventGrows
    <2>1. CASE c = d
        BY <1>1, <1>5, <1>6, <1>12, <2>1 DEF EventGrows
    <2>2. CASE c # d
        BY <1>1, <1>5, <1>6, <2>2 DEF EventGrows
    <2>. QED
        BY <2>1, <2>2
<1>14. Covered'
    <2>1. \A c \in Devices \ {d} : Needed(c)' = Needed(c)
        BY <1>1, <1>6 DEF Needed
    <2>2. Needed(d)' \subseteq before[d][s]
        <3>1. Needed(d) \subseteq before[d][s]
            BY <1>2 DEF Covered
        <3>2. rnn[t].maker => 1 \in before[d][s]
            BY <1>1 DEF MadeOnce
        <3>. QED
            BY <1>1, <1>6, <3>1, <3>2 DEF Needed
    <2>3. ASSUME NEW c \in Devices, stateMutex'[c] = NoThread
          PROVE  IF event'[c].recorded THEN Needed(c)' \subseteq event'[c].after ELSE Needed(c)' = {}
        <3>1. CASE c # d
            BY <1>5, <1>9, <2>1, <2>3, <3>1 DEF Covered
        <3>2. CASE c = d /\ event[d].made
            BY <1>5, <2>2, <3>2
        <3>3. CASE c = d /\ ~event[d].made
            <4>1. kernels[d] = 0 /\ ~event'[d].recorded
                BY <1>2, <1>5, <3>3 DEF EventGrows
            <4>2. Needed(d)' = {}
                BY <1>1, <4>1 DEF Needed
            <4>. QED
                BY <3>3, <4>1, <4>2
        <3>. QED
            BY <3>1, <3>2, <3>3
    <2>4. ASSUME NEW u \in Threads, NEW c \in Devices, Holds(u, c)'
          PROVE  Needed(c)' \subseteq before'[c][rnn'[u].stream]
        <3>1. Holds(u, c) /\ u # t /\ c # d /\ rnn'[u] = rnn[u]
            BY <1>2, <1>3, <1>8, <2>4
        <3>. QED
            BY <1>1, <2>1, <3>1 DEF Covered
    <2>. QED
        BY <2>3, <2>4 DEF Covered
<1>. QED
    BY <1>7, <1>10, <1>11, <1>13, <1>14

-----------------------------------------------------------------------------
\* DInv is an invariant of the buffers of all devices.
THEOREM RnnInvariance == RnnSpec => []DInv
<1>1. DInv /\ [RnnNext]_rnnVars => DInv'
    <2>. SUFFICES ASSUME DInv, [RnnNext]_rnnVars PROVE DInv'
        OBVIOUS
    <2>1. CASE UNCHANGED rnnVars
        BY <2>1 DEF rnnVars, DInv, RnnTypeOK, StateHeld, MadeOnce, EventGrows, Covered, Holds, Needed
    <2>2. CASE RnnNext
        <3>1. ASSUME NEW t \in Threads, NEW d \in RnnDevices, NEW s \in Streams, NEW dropout \in BOOLEAN,
                     RnnStart(t, d, s, dropout)
              PROVE  DInv'
            BY <3>1, StepRnnStart
        <3>2. ASSUME NEW t \in Threads,
                     \/ GetState(t) \/ MakeBuffer(t) \/ MakeThrows(t)
                     \/ LockState(t) \/ UseState(t) \/ UseThrows(t) \/ UnlockState(t)
              PROVE  DInv'
            BY <3>2, StepGetState, StepMakeBuffer, StepMakeThrows, StepLockState, StepUse, StepUnlock
        <3>. QED
            BY <2>2, <3>1, <3>2 DEF RnnNext
    <2>. QED
        BY <2>1, <2>2
<1>. QED
    BY <1>1, DInvInit, PTL DEF RnnSpec

\* DropoutState::lock and unlock keep the uses of a buffer in order, whatever
\* streams and threads they come from and whichever of them throw.
THEOREM UsesRunInOrder == RnnSpec => []UsesInOrder
<1>1. DInv => UsesInOrder
    <2>. SUFFICES ASSUME DInv, NEW t \in Threads, rnn[t].pc = "use"
                  PROVE  Needed(rnn[t].device) \subseteq before[rnn[t].device][rnn[t].stream]
        BY DEF UsesInOrder, RnnAt, Needed
    <2>. QED
        BY InsideFacts DEF DInv, Covered
<1>. QED
    BY <1>1, RnnInvariance, PTL
-----------------------------------------------------------------------------
(***************************************************************************)
(* The allocator of pinned memory.                                         *)
(***************************************************************************)

\* The events of the deque, and how many of a sequence of them are of p.
Items == [ptr : Ptrs, stream : HostStreams, pos : Nat]
Of(q, p) == {i \in 1..Len(q) : q[i].ptr = p}
Count(q, p) == Cardinality(Of(q, p))

\* An event of the sequence q that completes after all copies of p on s.
Covers(q, p, s) ==
    \E i \in 1..Len(q) : q[i].ptr = p /\ q[i].stream = s /\ q[i].pos >= due[p][s]

\* What holds of available blocks a, counts c and events q, in a state and also
\* once processEvents took completed events: counts are right, who has events
\* has no owner, who has neither owner nor events is available, and each copy
\* that was reported and is queued is covered by the owner's set of streams or
\* by an event, but where a free or cudaFreeHost failed.
Kept(a, c, q) ==
    /\ a \subseteq blocks /\ c \in [Ptrs -> Nat] /\ q \in Seq(Items)
    /\ \A p \in a : ~allocated[p] /\ c[p] = 0
    /\ \A p \in blocks \ (held \cup failed) : p \in a \/ c[p] > 0
    /\ \A p \in Ptrs : c[p] = Count(q, p) /\ (c[p] > 0 => p \in blocks /\ ~allocated[p])
    /\ \A p \in Ptrs \ (failed \cup leaked) : \A s \in HostStreams :
          due[p][s] # 0 => (p \in held /\ s \in streams[p]) \/ Covers(q, p, s)

DueQueued == \A p \in Ptrs : \A s \in HostStreams : due[p][s] <= outstanding[s]

\* What cudaFreeHost failed to free has left the map for good, and a free fails
\* only for blocks in it.
LossesKnown == leaked \cap blocks = {} /\ failed \subseteq blocks

HostInv ==
    /\ HostTypeOK
    /\ LossesKnown
    /\ \A p \in held : p \in blocks /\ allocated[p]
    /\ Kept(availableBlocks, eventCount, cudaEvents)
    /\ DueQueued

-----------------------------------------------------------------------------
\* The number of events of p is zero only if there are none.
LEMMA CountIsNat ==
    ASSUME NEW q \in Seq(Items), NEW p
    PROVE  /\ IsFiniteSet(Of(q, p)) /\ Count(q, p) \in Nat
           /\ Count(q, p) = 0 <=> \A i \in 1..Len(q) : q[i].ptr # p
<1>1. IsFiniteSet(1..Len(q))
    BY FS_Interval
<1>2. Of(q, p) \subseteq 1..Len(q)
    BY DEF Of
<1>3. IsFiniteSet(Of(q, p))
    BY <1>1, <1>2, FS_Subset
<1>4. Count(q, p) = 0 <=> Of(q, p) = {}
    BY <1>3, FS_EmptySet DEF Count
<1>. QED
    BY <1>3, <1>4, FS_CardinalityType DEF Count, Of

\* Events of two sequences, one after the other, add up.
LEMMA CountConcat ==
    ASSUME NEW q \in Seq(Items), NEW r \in Seq(Items), NEW p
    PROVE  Count(q \o r, p) = Count(q, p) + Count(r, p)
<1>. DEFINE n == Len(q)
            C == {i + n : i \in Of(r, p)}
            f == [i \in Of(r, p) |-> i + n]
<1>1. n \in Nat /\ Len(r) \in Nat
    OBVIOUS
<1>2. Of(r, p) \subseteq Nat
    BY DEF Of
<1>3. f \in Bijection(Of(r, p), C)
    <2>1. \A i, j \in Of(r, p) : f[i] = f[j] => i = j
        BY <1>1, <1>2
    <2>. QED
        BY <2>1 DEF Bijection, Injection, Surjection, IsInjective
<1>4. IsFiniteSet(C) /\ Cardinality(C) = Count(r, p)
    BY <1>3, CountIsNat, FS_Bijection DEF ExistsBijection, Count
<1>5. Of(q \o r, p) = Of(q, p) \cup C
    <2>1. /\ Len(q \o r) = n + Len(r)
          /\ \A i \in 1..(n + Len(r)) : (q \o r)[i] = IF i <= n THEN q[i] ELSE r[i - n]
        BY <1>1
    <2>2. ASSUME NEW i \in Of(q \o r, p) PROVE i \in Of(q, p) \cup C
        <3>1. CASE i <= n
            BY <2>1, <3>1, <1>1 DEF Of
        <3>2. CASE ~(i <= n)
            <4>1. i \in 1..(n + Len(r)) /\ (q \o r)[i].ptr = p
                BY <2>1 DEF Of
            <4>2. i - n \in Of(r, p)
                BY <2>1, <4>1, <3>2, <1>1 DEF Of
            <4>3. i = (i - n) + n
                BY <4>1, <1>1
            <4>. QED
                BY <4>2, <4>3
        <3>. QED
            BY <3>1, <3>2
    <2>3. ASSUME NEW i \in Of(q, p) PROVE i \in Of(q \o r, p)
        BY <2>1, <1>1 DEF Of
    <2>4. ASSUME NEW i \in Of(r, p) PROVE i + n \in Of(q \o r, p)
        <3>1. i \in 1..Len(r) /\ r[i].ptr = p
            BY DEF Of
        <3>2. i + n \in 1..(n + Len(r)) /\ ~(i + n <= n) /\ (i + n) - n = i
            BY <3>1, <1>1
        <3>. QED
            BY <2>1, <3>1, <3>2 DEF Of
    <2>. QED
        BY <2>2, <2>3, <2>4
<1>6. Of(q, p) \cap C = {}
    BY <1>1, <1>2 DEF Of
<1>7. Cardinality(Of(q, p) \cup C) = Cardinality(Of(q, p)) + Cardinality(C) - 0
    BY <1>4, <1>6, CountIsNat, FS_Union, FS_EmptySet
<1>. QED
    BY <1>4, <1>5, <1>7, CountIsNat DEF Count

\* What is left of a sequence whose first n events were taken.
LEMMA CountTaken ==
    ASSUME HostTypeOK, NEW n \in 0..Len(cudaEvents), NEW p
    PROVE  /\ EventsAfter(n) \in Seq(Items)
           /\ Len(EventsAfter(n)) = Len(cudaEvents) - n
           /\ \A i \in 1..Len(EventsAfter(n)) : EventsAfter(n)[i] = cudaEvents[n + i]
           /\ Taken(n, p) \in Nat /\ Taken(n, p) <= Count(cudaEvents, p)
           /\ Count(EventsAfter(n), p) = Count(cudaEvents, p) - Taken(n, p)
<1>. DEFINE q == cudaEvents
            a == SubSeq(q, 1, n)
            b == EventsAfter(n)
<1>1. q \in Seq(Items) /\ Len(q) \in Nat /\ n \in Nat /\ n <= Len(q)
    BY DEF HostTypeOK, Items
<1>2. /\ a \in Seq(Items) /\ Len(a) = n
      /\ \A i \in 1..n : a[i] = q[i]
    BY <1>1
<1>3. /\ b \in Seq(Items) /\ Len(b) = Len(q) - n
      /\ \A i \in 1..(Len(q) - n) : b[i] = q[n + i]
    BY <1>1 DEF EventsAfter
<1>4. q = a \o b
    <2>1. /\ a \o b \in Seq(Items) /\ Len(a \o b) = Len(q)
          /\ \A i \in 1..Len(q) : (a \o b)[i] = IF i <= n THEN a[i] ELSE b[i - n]
        <3>. HIDE DEF a, b
        <3>. QED
            BY <1>1, <1>2, <1>3, ConcatProperties
    <2>2. ASSUME NEW i \in 1..Len(q) PROVE q[i] = (a \o b)[i]
        <3>. HIDE DEF a, b
        <3>1. CASE i <= n
            BY <1>1, <1>2, <2>1, <3>1
        <3>2. CASE ~(i <= n)
            <4>1. i - n \in 1..(Len(q) - n) /\ n + (i - n) = i
                BY <1>1, <3>2
            <4>. QED
                BY <1>3, <2>1, <3>2, <4>1
        <3>. QED
            BY <3>1, <3>2
    <2>. HIDE DEF a, b
    <2>. QED
        BY <1>1, <2>1, <2>2, SeqEqual
<1>5. Of(a, p) = {i \in 1..n : q[i].ptr = p}
    BY <1>1, <1>2 DEF Of
<1>6. Count(a, p) = Taken(n, p)
    BY <1>5 DEF Count, Taken
<1>. HIDE DEF a, b
<1>7. Count(q, p) = Count(a, p) + Count(b, p)
    BY <1>2, <1>3, <1>4, CountConcat
<1>8. Count(a, p) \in Nat /\ Count(b, p) \in Nat
    BY <1>2, <1>3, CountIsNat
<1>. QED
    BY <1>3, <1>6, <1>7, <1>8 DEF b

\* processEvents keeps what Kept says, whichever completed events it takes.
LEMMA ProcessingKeeps ==
    ASSUME HostInv, NEW n \in 0..Len(cudaEvents), Ready(n)
    PROVE  Kept(AvailableAfter(n), CountAfter(n), EventsAfter(n))
<1>. DEFINE a == AvailableAfter(n)
            c == CountAfter(n)
            q == EventsAfter(n)
<1>1. /\ HostTypeOK /\ Kept(availableBlocks, eventCount, cudaEvents)
      /\ eventCount \in [Ptrs -> Nat] /\ cudaEvents \in Seq(Items) /\ due \in [Ptrs -> [HostStreams -> Nat]]
      /\ blocks \subseteq Ptrs
    BY DEF HostInv, HostTypeOK, Items
<1>2. \A p \in Ptrs : /\ c[p] = eventCount[p] - Taken(n, p)
                      /\ c[p] \in Nat /\ Taken(n, p) \in Nat /\ eventCount[p] \in Nat
                      /\ c[p] = Count(q, p)
    BY <1>1, CountTaken DEF CountAfter, Kept
<1>3. c \in [Ptrs -> Nat]
    BY <1>2 DEF CountAfter
<1>4. q \in Seq(Items)
    BY <1>1, CountTaken
<1>5. a \subseteq blocks
    BY <1>1 DEF AvailableAfter, Kept
<1>6. \A p \in a : ~allocated[p] /\ c[p] = 0
    BY <1>1, <1>2, <1>5 DEF AvailableAfter, Kept
<1>7. ASSUME NEW p \in blocks \ (held \cup failed) PROVE p \in a \/ c[p] > 0
    <2>1. p \in availableBlocks \/ (eventCount[p] > 0 /\ ~allocated[p])
        BY <1>1 DEF Kept
    <2>. QED
        BY <1>1, <1>2, <2>1 DEF AvailableAfter
<1>8. \A p \in Ptrs : c[p] > 0 => p \in blocks /\ ~allocated[p]
    BY <1>1, <1>2 DEF Kept
<1>9. ASSUME NEW p \in Ptrs \ (failed \cup leaked), NEW s \in HostStreams, due[p][s] # 0,
             Covers(cudaEvents, p, s)
      PROVE  Covers(q, p, s)
    <2>1. PICK i \in 1..Len(cudaEvents) :
             cudaEvents[i].ptr = p /\ cudaEvents[i].stream = s /\ cudaEvents[i].pos >= due[p][s]
        BY <1>9 DEF Covers
    <2>2. due[p][s] \in Nat
        BY <1>1
    <2>3. ~(i \in 1..n)
        BY <1>9, <2>1, <2>2 DEF Ready
    <2>4. i - n \in 1..(Len(cudaEvents) - n) /\ n + (i - n) = i
        BY <2>3
    <2>5. i - n \in 1..Len(q) /\ q[i - n] = cudaEvents[i]
        BY <1>1, <2>4, CountTaken
    <2>. QED
        BY <2>1, <2>5 DEF Covers
<1>. QED
    BY <1>1, <1>2, <1>3, <1>4, <1>5, <1>6, <1>7, <1>8, <1>9 DEF Kept

\* The streams of a set, in some order, are that set.
LEMMA OrderOfStreams ==
    ASSUME NEW S \in SUBSET HostStreams, NEW ss \in SetToSeqs(S)
    PROVE  /\ ss \in Seq(HostStreams)
           /\ \A s \in S : \E i \in 1..Len(ss) : ss[i] = s
<1>. DEFINE D == 1..Cardinality(S)
<1>1. IsFiniteSet(S) /\ Cardinality(S) \in Nat
    BY HostStreamsAssumption, FS_Subset, FS_CardinalityType
<1>2. ss \in [D -> S] /\ \A i, j \in D : i # j => ss[i] # ss[j]
    BY DEF SetToSeqs
<1>3. ss \in Injection(D, S)
    BY <1>2 DEF Injection, IsInjective
<1>4. IsFiniteSet(D) /\ Cardinality(D) = Cardinality(S)
    BY <1>1, FS_Interval
<1>5. ss \in Surjection(D, S)
    BY <1>1, <1>3, <1>4, FS_Injection
<1>6. ss \in Seq(HostStreams) /\ Len(ss) = Cardinality(S)
    BY <1>1, <1>2
<1>. QED
    BY <1>5, <1>6 DEF Surjection

\* The parts of HostInv that a run checks follow from it.
LEMMA InvKeepsMemory == HostInv => MemoryIsKept
<1>. SUFFICES ASSUME HostInv PROVE MemoryIsKept
    OBVIOUS
<1>1. /\ HostTypeOK /\ Kept(availableBlocks, eventCount, cudaEvents)
      /\ \A p \in held : p \in blocks /\ allocated[p]
      /\ cudaEvents \in Seq(Items) /\ blocks \subseteq Ptrs /\ eventCount \in [Ptrs -> Nat]
    BY DEF HostInv, HostTypeOK, Items
<1>2. \A p : Events(p) = Count(cudaEvents, p)
    BY DEF Events, Count, Of
<1>3. OneOwner
    BY <1>1, <1>2 DEF OneOwner, Kept
<1>4. ASSUME NEW p \in Ptrs \ failed, Reusable(p), NEW s \in HostStreams
      PROVE  due[p][s] = 0
    <2>0. p \notin leaked
        BY <1>1, <1>4 DEF Reusable, Kept, HostInv, LossesKnown
    <2>1. p \notin held
        BY <1>1, <1>4 DEF Reusable, Kept
    <2>2. Count(cudaEvents, p) = 0
        BY <1>1, <1>4 DEF Reusable, Kept
    <2>3. ~Covers(cudaEvents, p, s)
        BY <1>1, <2>2, CountIsNat DEF Covers
    <2>. QED
        BY <1>1, <2>0, <2>1, <2>3 DEF Kept
<1>5. FailureIsLocal
    BY <1>4 DEF FailureIsLocal, ReportedInFlight
<1>. QED
    BY <1>3, <1>5 DEF MemoryIsKept

\* At the start there is nothing.
LEMMA HostInitInv == HostInit => HostInv
<1>. SUFFICES ASSUME HostInit PROVE HostInv
    OBVIOUS
<1>1. HostTypeOK
    BY DEF HostInit, HostTypeOK
<1>2. ASSUME NEW p \in Ptrs PROVE Count(cudaEvents, p) = 0
    <2>1. cudaEvents = <<>> /\ <<>> \in Seq(Items) /\ Len(<<>>) = 0
        BY DEF HostInit
    <2>2. \A i \in 1..0 : <<>>[i].ptr # p
        OBVIOUS
    <2>. QED
        BY <2>1, <2>2, CountIsNat
<1>3. Kept(availableBlocks, eventCount, cudaEvents)
    BY <1>2 DEF HostInit, Kept
<1>4. DueQueued
    BY DEF HostInit, DueQueued
<1>. QED
    BY <1>1, <1>3, <1>4 DEF HostInv, HostInit, LossesKnown

\* What processing leaves has the types of the variables.
LEMMA ProcessedTypes ==
    ASSUME HostInv, NEW n \in 0..Len(cudaEvents), Ready(n)
    PROVE  /\ AvailableAfter(n) \subseteq Ptrs /\ CountAfter(n) \in [Ptrs -> Nat]
           /\ EventsAfter(n) \in Seq([ptr : Ptrs, stream : HostStreams, pos : Nat])
    BY ProcessingKeeps DEF Kept, HostInv, HostTypeOK, Items

\* A step of malloc that fails only takes events.
LEMMA MallocFailsInv ==
    ASSUME HostInv, NEW n \in 0..Len(cudaEvents), NEW k \in Sizes, MallocFails(n, k)
    PROVE  HostInv'
<1>1. Ready(n)
    BY DEF MallocFails, ProcessingFails, AllReady
<1>2. /\ eventCount' = CountAfter(n) /\ availableBlocks' = AvailableAfter(n)
      /\ cudaEvents' = EventsAfter(n)
      /\ UNCHANGED <<held, blocks, size, allocated, streams, outstanding, due, stray, leaked, failed>>
    BY DEF MallocFails, Processed, gpuVars, lossVars
<1>3. Kept(AvailableAfter(n), CountAfter(n), EventsAfter(n))
    BY <1>1, ProcessingKeeps
<1>4. HostTypeOK'
    BY <1>1, <1>2, ProcessedTypes DEF HostInv, HostTypeOK
<1>5. Kept(availableBlocks, eventCount, cudaEvents)'
    BY <1>2, <1>3 DEF Kept, Covers
<1>. QED
    BY <1>2, <1>4, <1>5 DEF HostInv, DueQueued, LossesKnown

\* Memory that is handed out, cached or new, has no event and no owner.
LEMMA MallocInv ==
    ASSUME HostInv, NEW n \in 0..Len(cudaEvents), NEW k \in Sizes, NEW p \in Ptrs,
           MallocCached(n, k, p) \/ MallocNew(n, k, p)
    PROVE  HostInv'
<1>1. Ready(n)
    BY DEF MallocCached, MallocNew, AllReady
<1>. DEFINE a == AvailableAfter(n)
            c == CountAfter(n)
            q == EventsAfter(n)
<1>2. Kept(a, c, q)
    BY <1>1, ProcessingKeeps
<1>3. /\ eventCount' = c /\ cudaEvents' = q
      /\ allocated' = [allocated EXCEPT ![p] = TRUE]
      /\ held' = held \cup {p}
      /\ availableBlocks' \subseteq a \ {p}
      /\ a \subseteq availableBlocks' \cup {p}
      /\ blocks' = blocks \cup {p}
      /\ UNCHANGED <<outstanding, due, stray, leaked, failed>>
    BY <1>2 DEF MallocCached, MallocNew, Processed, gpuVars, lossVars, Fits, Kept
<1>4. /\ size' \in [Ptrs -> Nat] /\ streams' \in [Ptrs -> SUBSET HostStreams]
      /\ \A r \in Ptrs : r \in held => streams'[r] = streams[r]
    <2>1. /\ size \in [Ptrs -> Nat] /\ streams \in [Ptrs -> SUBSET HostStreams]
          /\ \A r \in Ptrs : r \in held => r \in blocks
        BY DEF HostInv, HostTypeOK
    <2>2. CASE MallocCached(n, k, p)
        BY <2>1, <2>2 DEF MallocCached
    <2>3. CASE MallocNew(n, k, p)
        <3>1. /\ size' = [size EXCEPT ![p] = k] /\ streams' = [streams EXCEPT ![p] = {}]
              /\ p \notin blocks
            BY <2>3 DEF MallocNew
        <3>2. k \in Nat
            BY RequestSizesAssumption
        <3>. QED
            BY <2>1, <3>1, <3>2
    <2>. QED
        BY <2>2, <2>3
<1>. HIDE DEF a, c, q
<1>5. HostTypeOK'
    BY <1>1, <1>3, <1>4, ProcessedTypes DEF HostInv, HostTypeOK, a, c, q
<1>6. \A r \in held' : r \in blocks' /\ allocated'[r]
    BY <1>3 DEF HostInv, HostTypeOK
<1>7. c[p] = 0 /\ p \notin held
    BY <1>2, <1>3 DEF Kept, MallocCached, MallocNew, Fits, HostInv, a
<1>8. Kept(availableBlocks, eventCount, cudaEvents)'
    <2>1. availableBlocks' \subseteq blocks' /\ c \in [Ptrs -> Nat] /\ q \in Seq(Items)
        BY <1>2, <1>3 DEF Kept
    <2>2. \A r \in availableBlocks' : ~allocated'[r] /\ c[r] = 0
        BY <1>2, <1>3 DEF Kept, HostInv, HostTypeOK
    <2>3. \A r \in blocks' \ (held' \cup failed') : r \in availableBlocks' \/ c[r] > 0
        BY <1>2, <1>3 DEF Kept
    <2>4. \A r \in Ptrs : c[r] = Count(q, r) /\ (c[r] > 0 => r \in blocks' /\ ~allocated'[r])
        BY <1>2, <1>3, <1>7 DEF Kept, HostInv, HostTypeOK
    <2>5. \A r \in Ptrs \ (failed \cup leaked) : \A s \in HostStreams :
             due[r][s] # 0 => (r \in held' /\ s \in streams'[r]) \/ Covers(q, r, s)
        BY <1>2, <1>3, <1>4 DEF Kept
    <2>. QED
        BY <1>3, <2>1, <2>2, <2>3, <2>4, <2>5 DEF Kept, Covers
<1>9. LossesKnown'
    <2>1. p \notin leaked
        BY <1>2 DEF MallocCached, MallocNew, Fits, Kept, HostInv, LossesKnown, a
    <2>. QED
        BY <1>3, <2>1 DEF HostInv, LossesKnown
<1>. QED
    BY <1>3, <1>5, <1>6, <1>8, <1>9 DEF HostInv, DueQueued

\* A block that is freed with events recorded on ss, in any order: on all
\* streams that used it, unless the free fails.
LEMMA FreeWithInv ==
    ASSUME HostInv, NEW n \in 0..Len(cudaEvents), NEW p \in held, Ready(n),
           NEW ss \in Seq(HostStreams), NEW moved \in BOOLEAN, NEW complete \in BOOLEAN,
           complete => \A s \in streams[p] : \E i \in 1..Len(ss) : ss[i] = s,
           FreeWith(n, p, ss, moved, complete)
    PROVE  HostInv'
<1>. DEFINE a == AvailableAfter(n)
            c == CountAfter(n)
            q == EventsAfter(n)
            new == NewEvents(p, ss)
<1>1. Kept(a, c, q)
    BY ProcessingKeeps
<1>2. /\ p \in Ptrs /\ p \in blocks /\ allocated[p]
      /\ outstanding \in [HostStreams -> Nat] /\ due \in [Ptrs -> [HostStreams -> Nat]]
      /\ allocated \in [Ptrs -> BOOLEAN] /\ streams \in [Ptrs -> SUBSET HostStreams]
    BY DEF HostInv, HostTypeOK
<1>3. c[p] = 0 /\ p \notin a
    BY <1>1, <1>2 DEF Kept
<1>4. /\ new \in Seq(Items) /\ Len(new) = Len(ss)
      /\ \A i \in 1..Len(ss) : new[i] = [ptr |-> p, stream |-> ss[i], pos |-> outstanding[ss[i]]]
    BY <1>2 DEF NewEvents, Items
<1>5. /\ allocated' = [allocated EXCEPT ![p] = FALSE]
      /\ streams' = [streams EXCEPT ![p] = IF moved THEN {} ELSE @]
      /\ eventCount' = [c EXCEPT ![p] = @ + Len(ss)]
      /\ cudaEvents' = q \o new
      /\ availableBlocks' = a \cup (IF complete /\ eventCount'[p] = 0 THEN {p} ELSE {})
      /\ held' = held \ {p}
      /\ failed' = IF complete THEN failed ELSE failed \cup {p}
      /\ UNCHANGED <<blocks, size, outstanding, due, stray, leaked>>
    BY DEF FreeWith, gpuVars
<1>. HIDE DEF a, c, q, new
<1>6. c \in [Ptrs -> Nat] /\ q \in Seq(Items) /\ Len(ss) \in Nat
    BY <1>1 DEF Kept
<1>7. /\ eventCount' \in [Ptrs -> Nat] /\ eventCount'[p] = Len(ss)
      /\ \A r \in Ptrs \ {p} : eventCount'[r] = c[r]
    BY <1>2, <1>3, <1>5, <1>6
<1>8. /\ q \o new \in Seq(Items) /\ Len(q \o new) = Len(q) + Len(ss)
      /\ \A i \in 1..Len(q) : (q \o new)[i] = q[i]
      /\ \A i \in 1..Len(ss) : (q \o new)[Len(q) + i] = new[i]
    <2>1. /\ q \o new \in Seq(Items) /\ Len(q \o new) = Len(q) + Len(ss)
          /\ \A i \in 1..(Len(q) + Len(ss)) :
                (q \o new)[i] = IF i <= Len(q) THEN q[i] ELSE new[i - Len(q)]
        BY <1>4, <1>6, ConcatProperties
    <2>2. Len(q) \in Nat
        BY <1>6
    <2>3. ASSUME NEW i \in 1..Len(ss) PROVE (q \o new)[Len(q) + i] = new[i]
        <3>1. Len(q) + i \in 1..(Len(q) + Len(ss)) /\ ~(Len(q) + i <= Len(q)) /\ (Len(q) + i) - Len(q) = i
            BY <1>6, <2>2
        <3>. QED
            BY <2>1, <3>1
    <2>4. ASSUME NEW i \in 1..Len(q) PROVE (q \o new)[i] = q[i]
        BY <1>6, <2>1, <2>2
    <2>. QED
        BY <2>1, <2>3, <2>4
<1>9. HostTypeOK'
    <2>1. availableBlocks' \subseteq Ptrs
        BY <1>1, <1>2, <1>5 DEF Kept, HostInv, HostTypeOK
    <2>2. cudaEvents' \in Seq([ptr : Ptrs, stream : HostStreams, pos : Nat])
        BY <1>5, <1>8 DEF Items
    <2>. QED
        BY <1>2, <1>5, <1>7, <2>1, <2>2 DEF HostInv, HostTypeOK
<1>10. \A r \in held' : r \in blocks' /\ allocated'[r]
    BY <1>5 DEF HostInv, HostTypeOK
<1>11. Kept(availableBlocks, eventCount, cudaEvents)'
    <2>1. availableBlocks' \subseteq blocks'
        BY <1>1, <1>2, <1>5 DEF Kept
    <2>2. \A r \in availableBlocks' : ~allocated'[r] /\ eventCount'[r] = 0
        BY <1>1, <1>2, <1>3, <1>5, <1>7 DEF Kept, HostInv, HostTypeOK
    <2>3. \A r \in blocks' \ (held' \cup failed') : r \in availableBlocks' \/ eventCount'[r] > 0
        BY <1>1, <1>2, <1>5, <1>6, <1>7 DEF Kept, HostInv, HostTypeOK
    <2>4. Len(new) = Len(ss) /\ \A i \in 1..Len(ss) : new[i].ptr = p
        <3>1. ASSUME NEW i \in 1..Len(ss) PROVE new[i].ptr = p
            <4>1. new[i] = [ptr |-> p, stream |-> ss[i], pos |-> outstanding[ss[i]]]
                BY <1>4, Zenon
            <4>. QED
                BY <4>1
        <3>. QED
            BY <1>4, <3>1, Zenon
    <2>5. ASSUME NEW r \in Ptrs
          PROVE  eventCount'[r] = Count(q \o new, r) /\ (eventCount'[r] > 0 => r \in blocks' /\ ~allocated'[r])
        <3>1. Count(q \o new, r) = Count(q, r) + Count(new, r) /\ Count(q, r) = c[r]
            BY <1>1, <1>4, <1>6, CountConcat DEF Kept
        <3>2. CASE r = p
            <4>1. Of(new, p) = 1..Len(ss)
                BY <2>4 DEF Of
            <4>2. Cardinality(1..Len(ss)) = Len(ss)
                <5>1. Cardinality(1..Len(ss)) = IF 1 > Len(ss) THEN 0 ELSE Len(ss) - 1 + 1
                    BY <1>6, FS_Interval, Len(ss) \in Int, 1 \in Int
                <5>. QED
                    BY <1>6, <5>1
            <4>3. Count(new, p) = Len(ss)
                BY <4>1, <4>2 DEF Count
            <4>. QED
                BY <1>2, <1>3, <1>5, <1>6, <1>7, <3>1, <3>2, <4>3
        <3>3. CASE r # p
            <4>1. Count(new, r) = 0
                BY <1>4, <2>4, <3>3, CountIsNat
            <4>. QED
                BY <1>1, <1>2, <1>5, <1>6, <1>7, <3>1, <3>3, <4>1 DEF Kept
        <3>. QED
            BY <3>2, <3>3
    <2>6. ASSUME NEW r \in Ptrs \ (failed' \cup leaked'), NEW s \in HostStreams, due[r][s] # 0
          PROVE  (r \in held' /\ s \in streams'[r]) \/ Covers(q \o new, r, s)
        <3>1. (r \in held /\ s \in streams[r]) \/ Covers(q, r, s)
            BY <1>1, <1>5, <2>6 DEF Kept
        <3>2. Covers(q, r, s) => Covers(q \o new, r, s)
            <4>1. \A i \in 1..Len(q) : i \in 1..Len(q \o new)
                BY <1>6, <1>8
            <4>. QED
                BY <1>8, <4>1 DEF Covers
        <3>3. CASE r # p /\ r \in held /\ s \in streams[r]
            BY <1>2, <1>5, <3>3
        <3>4. CASE r = p /\ s \in streams[p]
            <4>1. complete
                BY <1>5, <3>4
            <4>2. PICK i \in 1..Len(ss) : ss[i] = s
                BY <3>4, <4>1
            <4>3. (q \o new)[Len(q) + i] = [ptr |-> p, stream |-> s, pos |-> outstanding[s]]
                BY <1>4, <1>8, <4>2
            <4>4. Len(q) + i \in 1..Len(q \o new)
                BY <1>6, <1>8
            <4>5. outstanding[s] >= due[p][s]
                BY <1>2 DEF HostInv, DueQueued
            <4>. QED
                BY <3>4, <4>3, <4>4, <4>5 DEF Covers
        <3>. QED
            BY <3>1, <3>2, <3>3, <3>4
    <2>. QED
        BY <1>5, <1>7, <1>8, <2>1, <2>2, <2>3, <2>5, <2>6 DEF Kept, Covers
<1>12. LossesKnown'
    BY <1>2, <1>5 DEF HostInv, LossesKnown
<1>. QED
    BY <1>5, <1>9, <1>10, <1>11, <1>12 DEF HostInv, DueQueued

\* free, and free that fails in insertEvents.
LEMMA FreeInv ==
    ASSUME HostInv, NEW n \in 0..Len(cudaEvents), NEW p \in Ptrs, Free(n, p) \/ FreeStops(n, p)
    PROVE  HostInv'
<1>1. p \in held /\ Ready(n) /\ streams[p] \in SUBSET HostStreams
    BY DEF Free, FreeStops, AllReady, HostInv, HostTypeOK
<1>2. CASE Free(n, p)
    <2>1. PICK ss \in SetToSeqs(streams[p]) : FreeWith(n, p, ss, TRUE, TRUE)
        BY <1>2 DEF Free
    <2>2. ss \in Seq(HostStreams) /\ \A s \in streams[p] : \E i \in 1..Len(ss) : ss[i] = s
        BY <1>1, OrderOfStreams
    <2>. QED
        BY <1>1, <2>1, <2>2, FreeWithInv
<1>3. CASE FreeWith(n, p, <<>>, FALSE, FALSE)
    <2>1. <<>> \in Seq(HostStreams)
        OBVIOUS
    <2>. QED
        BY <1>1, <1>3, <2>1, FreeWithInv
<1>4. ASSUME NEW done \in SUBSET streams[p], NEW ss \in SetToSeqs(done),
             FreeWith(n, p, ss, TRUE, FALSE)
      PROVE  HostInv'
    <2>1. ss \in Seq(HostStreams)
        BY <1>1, OrderOfStreams
    <2>. QED
        BY <1>1, <1>4, <2>1, FreeWithInv
<1>. QED
    BY <1>2, <1>3, <1>4 DEF FreeStops

\* free that fails in processEvents: the block is nobody's, and stays allocated.
LEMMA FreeFailsInv ==
    ASSUME HostInv, NEW n \in 0..Len(cudaEvents), NEW p \in Ptrs, FreeFails(n, p)
    PROVE  HostInv'
<1>1. Ready(n)
    BY DEF FreeFails, ProcessingFails
<1>2. /\ eventCount' = CountAfter(n) /\ availableBlocks' = AvailableAfter(n)
      /\ cudaEvents' = EventsAfter(n)
      /\ held' = held \ {p} /\ failed' = failed \cup {p}
      /\ UNCHANGED <<blocks, size, allocated, streams, outstanding, due, stray, leaked>>
    BY DEF FreeFails, Processed, gpuVars
<1>3. Kept(AvailableAfter(n), CountAfter(n), EventsAfter(n))
    BY <1>1, ProcessingKeeps
<1>4. HostTypeOK'
    BY <1>1, <1>2, ProcessedTypes DEF HostInv, HostTypeOK
<1>5. Kept(availableBlocks, eventCount, cudaEvents)'
    BY <1>2, <1>3 DEF Kept, Covers
<1>6. \A r \in held' : r \in blocks' /\ allocated'[r]
    BY <1>2 DEF HostInv
<1>7. LossesKnown'
    BY <1>2 DEF FreeFails, HostInv, LossesKnown
<1>. QED
    BY <1>2, <1>4, <1>5, <1>6, <1>7 DEF HostInv, DueQueued

\* emptyCache gives back memory only after all copies have finished; if it
\* gives back none, what it dropped from the map is leaked, and no event of a
\* block that has an owner was dropped.
LEMMA EmptyCacheInv ==
    ASSUME HostInv, EmptyCache
    PROVE  HostInv'
<1>1. /\ blocks' = {p \in blocks : allocated[p]}
      /\ eventCount' = [p \in Ptrs |->
            IF p \in blocks /\ ~allocated[p] THEN eventCount[p] - Events(p) ELSE eventCount[p]]
      /\ cudaEvents' = <<>> /\ availableBlocks' = {}
      /\ failed' = failed \cap blocks' /\ UNCHANGED <<held, allocated>>
    BY DEF EmptyCache
<1>2. /\ blocks \subseteq Ptrs /\ eventCount \in [Ptrs -> Nat] /\ allocated \in [Ptrs -> BOOLEAN]
      /\ Kept(availableBlocks, eventCount, cudaEvents)
    BY DEF HostInv, HostTypeOK
<1>3. \A p : Events(p) = Count(cudaEvents, p)
    BY DEF Events, Count, Of
<1>4. eventCount' = [p \in Ptrs |-> 0]
    <2>1. \A p \in Ptrs : /\ eventCount[p] = Events(p) /\ eventCount[p] \in Nat
                          /\ eventCount[p] > 0 => p \in blocks /\ ~allocated[p]
        BY <1>2, <1>3 DEF Kept
    <2>. QED
        BY <1>1, <2>1
<1>5. PICK lost \in SUBSET (blocks \ blocks') :
         /\ leaked' = leaked \cup lost
         /\ \/ due' = due /\ outstanding' = outstanding /\ stray' = stray /\ lost = blocks \ blocks'
            \/ /\ outstanding' = [s \in HostStreams |-> 0]
               /\ due' = [p \in Ptrs |-> [s \in HostStreams |-> 0]]
               /\ stray' = [p \in Ptrs |-> [s \in HostStreams |-> 0]]
    BY DEF EmptyCache, gpuVars
<1>6. HostTypeOK'
    <2>1. /\ outstanding' \in [HostStreams -> Nat] /\ due' \in [Ptrs -> [HostStreams -> Nat]]
          /\ stray' \in [Ptrs -> [HostStreams -> Nat]]
        <3>1. /\ outstanding \in [HostStreams -> Nat] /\ due \in [Ptrs -> [HostStreams -> Nat]]
              /\ stray \in [Ptrs -> [HostStreams -> Nat]]
            BY DEF HostInv, HostTypeOK
        <3>2. CASE due' = due /\ outstanding' = outstanding /\ stray' = stray
            BY <3>1, <3>2
        <3>3. CASE /\ outstanding' = [s \in HostStreams |-> 0]
                   /\ due' = [p \in Ptrs |-> [s \in HostStreams |-> 0]]
                   /\ stray' = [p \in Ptrs |-> [s \in HostStreams |-> 0]]
            BY <3>3
        <3>. QED
            BY <1>5, <3>2, <3>3
    <2>2. size' \in [Ptrs -> Nat] /\ streams' \in [Ptrs -> SUBSET HostStreams]
        BY DEF EmptyCache, HostInv, HostTypeOK
    <2>3. /\ held' \subseteq Ptrs /\ blocks' \subseteq Ptrs /\ leaked' \subseteq Ptrs
          /\ availableBlocks' \subseteq Ptrs
        BY <1>1, <1>2, <1>5 DEF HostInv, HostTypeOK
    <2>4. cudaEvents' \in Seq([ptr : Ptrs, stream : HostStreams, pos : Nat])
        BY <1>1
    <2>. QED
        BY <1>1, <1>2, <1>4, <2>1, <2>2, <2>3, <2>4 DEF HostTypeOK
<1>7. \A p \in held' : p \in blocks' /\ allocated'[p]
    BY <1>1 DEF HostInv
<1>8. Kept(availableBlocks, eventCount, cudaEvents)'
    <2>1. <<>> \in Seq(Items) /\ Len(<<>>) = 0
        OBVIOUS
    <2>2. ASSUME NEW p \in Ptrs PROVE Count(<<>>, p) = 0
        <3>1. \A i \in 1..0 : <<>>[i].ptr # p
            OBVIOUS
        <3>. QED
            BY <2>1, <3>1, CountIsNat
    <2>3. ASSUME NEW p \in blocks' \ (held' \cup failed') PROVE FALSE
        <3>1. p \in blocks /\ p \notin held /\ p \notin failed /\ allocated[p]
            BY <1>1, <2>3
        <3>. QED
            BY <1>2, <3>1 DEF Kept
    <2>4. ASSUME NEW p \in Ptrs \ (failed' \cup leaked'), NEW s \in HostStreams, due'[p][s] # 0
          PROVE  p \in held' /\ s \in streams'[p]
        <3>1. due' = due /\ leaked' = leaked \cup (blocks \ blocks')
            BY <1>5, <2>4
        <3>2. p \notin leaked /\ p \notin failed /\ (p \in blocks => p \in blocks' /\ allocated[p])
            BY <1>1, <2>4, <3>1 DEF HostInv, LossesKnown
        <3>3. ~Covers(cudaEvents, p, s)
            <4>1. Count(cudaEvents, p) = 0
                BY <1>2, <3>2 DEF Kept
            <4>. QED
                BY <1>2, <4>1, CountIsNat DEF Covers, Kept
        <3>4. p \in held /\ s \in streams[p]
            BY <1>2, <2>4, <3>1, <3>2, <3>3 DEF Kept
        <3>5. p \in blocks'
            BY <3>2, <3>4 DEF HostInv
        <3>. QED
            BY <1>1, <3>4, <3>5 DEF EmptyCache
    <2>. QED
        BY <1>1, <1>4, <2>1, <2>2, <2>3, <2>4 DEF Kept
<1>9. DueQueued'
    <2>1. CASE due' = due /\ outstanding' = outstanding
        BY <2>1 DEF HostInv, DueQueued
    <2>2. CASE /\ outstanding' = [s \in HostStreams |-> 0]
               /\ due' = [p \in Ptrs |-> [s \in HostStreams |-> 0]]
        BY <2>2 DEF DueQueued
    <2>. QED
        BY <1>5, <2>1, <2>2
<1>10. LossesKnown'
    BY <1>1, <1>5 DEF HostInv, LossesKnown
<1>. QED
    BY <1>6, <1>7, <1>8, <1>9, <1>10 DEF HostInv

\* A copy is queued by the owner and reported: its stream is then in the set.
LEMMA RecordEventInv ==
    ASSUME HostInv, NEW p \in Ptrs, NEW s \in HostStreams, RecordEvent(p, s)
    PROVE  HostInv'
<1>1. /\ p \in held
      /\ outstanding' = [outstanding EXCEPT ![s] = @ + 1]
      /\ due' = [due EXCEPT ![p][s] = outstanding[s] + 1]
      /\ streams' = [streams EXCEPT ![p] = @ \cup {s}]
      /\ UNCHANGED <<held, blocks, size, allocated, eventCount, availableBlocks, cudaEvents, stray,
                     leaked, failed>>
    BY DEF RecordEvent, lossVars
<1>2. /\ outstanding \in [HostStreams -> Nat] /\ due \in [Ptrs -> [HostStreams -> Nat]]
      /\ streams \in [Ptrs -> SUBSET HostStreams]
    BY DEF HostInv, HostTypeOK
<1>3. /\ outstanding' \in [HostStreams -> Nat] /\ due' \in [Ptrs -> [HostStreams -> Nat]]
      /\ streams' \in [Ptrs -> SUBSET HostStreams]
    BY <1>1, <1>2
<1>4. /\ outstanding'[s] = outstanding[s] + 1
      /\ \A v \in HostStreams : v # s => outstanding'[v] = outstanding[v]
      /\ due'[p][s] = outstanding[s] + 1
      /\ \A r \in Ptrs : \A v \in HostStreams : r # p \/ v # s => due'[r][v] = due[r][v]
      /\ s \in streams'[p] /\ \A r \in Ptrs : streams[r] \subseteq streams'[r]
    BY <1>1, <1>2
<1>5. HostTypeOK'
    BY <1>1, <1>3 DEF HostInv, HostTypeOK
<1>6. DueQueued'
    <2>1. ASSUME NEW r \in Ptrs, NEW v \in HostStreams PROVE due'[r][v] <= outstanding'[v]
        <3>1. /\ due[r][v] <= outstanding[v] /\ due[r][v] \in Nat
              /\ outstanding[v] \in Nat /\ outstanding[s] \in Nat
            BY <1>2 DEF HostInv, DueQueued
        <3>. QED
            BY <1>4, <3>1
    <2>. QED
        BY <2>1 DEF DueQueued
<1>7. ASSUME NEW r \in Ptrs \ (failed \cup leaked), NEW v \in HostStreams, due'[r][v] # 0
      PROVE  (r \in held /\ v \in streams'[r]) \/ Covers(cudaEvents, r, v)'
    <2>1. CASE r = p /\ v = s
        BY <1>1, <1>4, <2>1
    <2>2. CASE r # p \/ v # s
        BY <1>1, <1>4, <1>7, <2>2 DEF HostInv, Kept, Covers
    <2>. QED
        BY <2>1, <2>2
<1>8. Kept(availableBlocks, eventCount, cudaEvents)'
    BY <1>1, <1>7 DEF HostInv, Kept, Covers
<1>. QED
    BY <1>1, <1>5, <1>6, <1>8 DEF HostInv, LossesKnown

\* A copy that recordEvent ignores delays reported ones, but is none of them.
LEMMA RecordIgnoredInv ==
    ASSUME HostInv, NEW p \in Ptrs, NEW s \in HostStreams, RecordIgnored(p, s)
    PROVE  HostInv'
<1>1. /\ outstanding' = [outstanding EXCEPT ![s] = @ + 1]
      /\ stray' = [stray EXCEPT ![p][s] = outstanding[s] + 1]
      /\ UNCHANGED <<held, blocks, size, allocated, eventCount, streams, availableBlocks, cudaEvents,
                     due, leaked, failed>>
    BY DEF RecordIgnored, blockVars, lossVars
<1>2. /\ outstanding \in [HostStreams -> Nat] /\ due \in [Ptrs -> [HostStreams -> Nat]]
      /\ stray \in [Ptrs -> [HostStreams -> Nat]]
    BY DEF HostInv, HostTypeOK
<1>3. outstanding' \in [HostStreams -> Nat] /\ stray' \in [Ptrs -> [HostStreams -> Nat]]
    BY <1>1, <1>2
<1>4. HostTypeOK'
    BY <1>1, <1>3 DEF HostInv, HostTypeOK
<1>5. DueQueued'
    <2>1. ASSUME NEW r \in Ptrs, NEW v \in HostStreams PROVE due'[r][v] <= outstanding'[v]
        <3>1. due[r][v] <= outstanding[v] /\ due[r][v] \in Nat /\ outstanding[v] \in Nat
            BY <1>2 DEF HostInv, DueQueued
        <3>2. outstanding'[v] >= outstanding[v] /\ outstanding'[v] \in Nat
            BY <1>1, <1>2
        <3>. QED
            BY <1>1, <3>1, <3>2
    <2>. QED
        BY <2>1 DEF DueQueued
<1>6. Kept(availableBlocks, eventCount, cudaEvents)'
    BY <1>1 DEF HostInv, Kept, Covers
<1>. QED
    BY <1>1, <1>4, <1>5, <1>6 DEF HostInv, LossesKnown

\* A stream that finishes an item comes nearer to its copies and events alike.
LEMMA StreamWorksInv ==
    ASSUME HostInv, NEW s \in HostStreams, StreamWorks(s)
    PROVE  HostInv'
<1>1. /\ outstanding[s] > 0
      /\ outstanding' = [outstanding EXCEPT ![s] = @ - 1]
      /\ due' = [p \in Ptrs |-> [due[p] EXCEPT ![s] = Less(@)]]
      /\ cudaEvents' = [i \in 1..Len(cudaEvents) |-> Nearer(cudaEvents[i], s)]
      /\ stray' = [p \in Ptrs |-> [stray[p] EXCEPT ![s] = Less(@)]]
      /\ UNCHANGED <<held, blocks, size, allocated, eventCount, streams, availableBlocks,
                     leaked, failed>>
    BY DEF StreamWorks, lossVars
<1>2. /\ outstanding \in [HostStreams -> Nat] /\ due \in [Ptrs -> [HostStreams -> Nat]]
      /\ cudaEvents \in Seq(Items) /\ Len(cudaEvents) \in Nat
      /\ stray \in [Ptrs -> [HostStreams -> Nat]]
      /\ \A x \in Nat : Less(x) \in Nat /\ Less(x) <= x /\ (x > 0 => Less(x) = x - 1)
    BY DEF HostInv, HostTypeOK, Items, Less
<1>3. /\ outstanding' \in [HostStreams -> Nat] /\ due' \in [Ptrs -> [HostStreams -> Nat]]
      /\ outstanding'[s] = outstanding[s] - 1
      /\ \A v \in HostStreams : v # s => outstanding'[v] = outstanding[v]
      /\ \A p \in Ptrs : /\ due'[p][s] = Less(due[p][s])
                          /\ \A v \in HostStreams : v # s => due'[p][v] = due[p][v]
    BY <1>1, <1>2
<1>4. ASSUME NEW i \in 1..Len(cudaEvents)
      PROVE  /\ cudaEvents'[i] \in Items
             /\ cudaEvents'[i].ptr = cudaEvents[i].ptr
             /\ cudaEvents'[i].stream = cudaEvents[i].stream
             /\ cudaEvents'[i].pos =
                   IF cudaEvents[i].stream = s THEN Less(cudaEvents[i].pos) ELSE cudaEvents[i].pos
    <2>1. cudaEvents[i] \in Items
        BY <1>2
    <2>2. cudaEvents[i].ptr \in Ptrs /\ cudaEvents[i].stream \in HostStreams /\ cudaEvents[i].pos \in Nat
        BY <2>1 DEF Items
    <2>3. cudaEvents'[i] = Nearer(cudaEvents[i], s) /\ Less(cudaEvents[i].pos) \in Nat
        BY <1>1, <1>2, <2>2
    <2>. QED
        BY <2>2, <2>3 DEF Nearer, Items
<1>5. cudaEvents' \in Seq(Items) /\ Len(cudaEvents') = Len(cudaEvents)
    BY <1>1, <1>2, <1>4
<1>6. \A p : Count(cudaEvents', p) = Count(cudaEvents, p)
    <2>1. ASSUME NEW p PROVE Of(cudaEvents', p) = Of(cudaEvents, p)
        BY <1>4, <1>5 DEF Of
    <2>. QED
        BY <2>1 DEF Count
<1>7. HostTypeOK'
    <2>1. stray' \in [Ptrs -> [HostStreams -> Nat]]
        BY <1>1, <1>2
    <2>. QED
        BY <1>1, <1>3, <1>5, <2>1 DEF HostInv, HostTypeOK, Items
<1>8. DueQueued'
    <2>1. ASSUME NEW p \in Ptrs, NEW v \in HostStreams PROVE due'[p][v] <= outstanding'[v]
        <3>1. due[p][v] <= outstanding[v] /\ due[p][v] \in Nat /\ outstanding[v] \in Nat
            BY <1>2 DEF HostInv, DueQueued
        <3>2. CASE v = s
            BY <1>1, <1>3, <3>1, <3>2 DEF Less
        <3>3. CASE v # s
            BY <1>3, <3>1, <3>3
        <3>. QED
            BY <3>2, <3>3
    <2>. QED
        BY <2>1 DEF DueQueued
<1>9. ASSUME NEW p \in Ptrs \ (failed \cup leaked), NEW v \in HostStreams, due'[p][v] # 0
      PROVE  (p \in held /\ v \in streams[p]) \/ Covers(cudaEvents, p, v)'
    <2>1. due[p][v] \in Nat /\ due[p][v] # 0
        <3>1. p \in Ptrs /\ due[p][v] \in Nat /\ due[p][s] \in Nat
            BY <1>2
        <3>2. CASE v = s
            BY <1>2, <1>3, <1>9, <3>1, <3>2 DEF Less
        <3>3. CASE v # s
            BY <1>3, <1>9, <3>1, <3>3
        <3>. QED
            BY <3>2, <3>3
    <2>2. CASE p \in held /\ v \in streams[p]
        BY <2>2
    <2>3. CASE Covers(cudaEvents, p, v)
        <3>1. PICK i \in 1..Len(cudaEvents) :
                 cudaEvents[i].ptr = p /\ cudaEvents[i].stream = v /\ cudaEvents[i].pos >= due[p][v]
            BY <2>3 DEF Covers
        <3>2. cudaEvents[i].pos \in Nat
            <4>1. cudaEvents[i] \in Items
                BY <1>2
            <4>. QED
                BY <4>1 DEF Items
        <3>3. cudaEvents'[i].pos >= due'[p][v]
            <4>1. CASE v = s
                BY <1>3, <1>4, <2>1, <3>1, <3>2, <4>1 DEF Less
            <4>2. CASE v # s
                BY <1>3, <1>4, <3>1, <4>2
            <4>. QED
                BY <4>1, <4>2
        <3>. QED
            BY <1>4, <1>5, <3>1, <3>3 DEF Covers
    <2>. QED
        BY <2>1, <2>2, <2>3 DEF HostInv, Kept
<1>10. Kept(availableBlocks, eventCount, cudaEvents)'
    BY <1>1, <1>5, <1>6, <1>9 DEF HostInv, Kept
<1>. QED
    BY <1>1, <1>7, <1>8, <1>10 DEF HostInv, LossesKnown

\* Every step of the allocator and of the streams preserves the invariant.
LEMMA HostStepInv == HostInv /\ [HostNext]_hostVars => HostInv'
<1>. SUFFICES ASSUME HostInv, [HostNext]_hostVars PROVE HostInv'
    OBVIOUS
<1>1. ASSUME NEW n \in 0..Len(cudaEvents), NEW k \in Sizes,
             \/ \E p \in Ptrs : MallocCached(n, k, p) \/ MallocNew(n, k, p)
             \/ MallocFails(n, k)
      PROVE  HostInv'
    BY <1>1, MallocInv, MallocFailsInv
<1>2. ASSUME NEW n \in 0..Len(cudaEvents), NEW p \in Ptrs,
             Free(n, p) \/ FreeStops(n, p) \/ FreeFails(n, p)
      PROVE  HostInv'
    BY <1>2, FreeInv, FreeFailsInv
<1>3. CASE EmptyCache
    BY <1>3, EmptyCacheInv
<1>4. ASSUME NEW p \in Ptrs, NEW s \in HostStreams, RecordEvent(p, s)
      PROVE  HostInv'
    BY <1>4, RecordEventInv
<1>5. ASSUME NEW p \in Ptrs, NEW s \in HostStreams, RecordIgnored(p, s)
      PROVE  HostInv'
    BY <1>5, RecordIgnoredInv
<1>6. ASSUME NEW s \in HostStreams, StreamWorks(s)
      PROVE  HostInv'
    BY <1>6, StreamWorksInv
<1>7. CASE UNCHANGED hostVars
    <2>1. Kept(availableBlocks, eventCount, cudaEvents)'
        BY <1>7 DEF HostInv, Kept, Covers, hostVars, blockVars, gpuVars, lossVars
    <2>. QED
        BY <1>7, <2>1 DEF HostInv, HostTypeOK, DueQueued, LossesKnown, hostVars, blockVars, gpuVars,
                          lossVars
<1>. QED
    BY <1>1, <1>2, <1>3, <1>4, <1>5, <1>6, <1>7 DEF HostNext

\* The inductive invariant of the allocator of pinned memory, for any
\* addresses, sizes and any finite set of CUDA streams, with copies that
\* recordEvent notes and copies that it ignores, in any order: each queued copy
\* that was reported is covered by its owner's set of streams or by an event.
THEOREM HostInvariance == HostSpec => []HostInv
<1>. QED
    BY HostInitInv, HostStepInv, PTL DEF HostSpec

\* No block in the map is lost, handed out twice or re-used while a copy that
\* was reported with its pointer is queued, whatever CUDA calls fail, except
\* for the blocks whose own free did.  What cudaFreeHost fails on leaves the map
\* and is not handed out again.  Copies of views at an offset are not reported
\* that way: the theorem says that they harm nothing else.
THEOREM PinnedMemoryIsKept == HostSpec => []MemoryIsKept
<1>. QED
    BY HostInvariance, InvKeepsMemory, PTL

-----------------------------------------------------------------------------
\* While no block's free has failed, each step is one of the abstract pool.
LEMMA StepsImplementPool ==
    ASSUME HostInv, [HostNext]_hostVars, failed' = {}
    PROVE  [Pool!Next]_(Pool!vars)
<1>1. /\ due \in [Ptrs -> [HostStreams -> Nat]] /\ MemoryIsKept
      /\ \A p \in Ptrs : /\ p \in held => p \in blocks /\ allocated[p]
                         /\ p \in blocks => p \in Ptrs
    BY InvKeepsMemory DEF HostInv, HostTypeOK
<1>2. ASSUME NEW n \in 0..Len(cudaEvents), NEW k \in Sizes, NEW p \in Ptrs,
             MallocCached(n, k, p) \/ MallocNew(n, k, p)
      PROVE  Pool!Take(p)
    <2>1. HostInv'
        BY <1>2, MallocInv
    <2>2. Ready(n)
        BY <1>2 DEF MallocCached, MallocNew, AllReady
    <2>3. Kept(AvailableAfter(n), CountAfter(n), EventsAfter(n))
        BY <2>2, ProcessingKeeps
    <2>4. p \in AvailableAfter(n) \/ p \notin blocks
        BY <1>2 DEF MallocCached, MallocNew, Fits
    <2>8. p \notin leaked
        BY <1>2, <2>3 DEF MallocCached, MallocNew, Fits, Kept, HostInv, LossesKnown
    <2>5. p \notin held /\ CountAfter(n)[p] = 0
        <3>1. /\ \A r \in AvailableAfter(n) : ~allocated[r] /\ CountAfter(n)[r] = 0
              /\ CountAfter(n)[p] \in Nat
              /\ CountAfter(n)[p] > 0 => p \in blocks
            BY <2>3 DEF Kept
        <3>2. CASE p \in AvailableAfter(n)
            BY <1>1, <3>1, <3>2
        <3>3. CASE p \notin blocks
            BY <1>1, <3>1, <3>3
        <3>. QED
            BY <2>4, <3>2, <3>3
    <2>6. /\ held' = held \cup {p} /\ UNCHANGED <<outstanding, due, failed>>
        BY <1>2 DEF MallocCached, MallocNew, gpuVars, lossVars
    <2>7. ASSUME NEW s \in HostStreams PROVE due[p][s] = 0
        <3>1. EventsAfter(n) \in Seq(Items) /\ Count(EventsAfter(n), p) = 0
            BY <2>3, <2>5 DEF Kept
        <3>2. ~Covers(EventsAfter(n), p, s)
            BY <3>1, CountIsNat DEF Covers
        <3>. QED
            BY <2>3, <2>5, <2>6, <2>8, <3>2 DEF Kept
    <2>. QED
        BY <2>5, <2>6, <2>7 DEF Pool!Take, Pool!Idle
<1>3. ASSUME NEW n \in 0..Len(cudaEvents), NEW k \in Sizes, MallocFails(n, k)
      PROVE  UNCHANGED Pool!vars
    BY <1>3 DEF MallocFails, gpuVars, Pool!vars
<1>4. ASSUME NEW n \in 0..Len(cudaEvents), NEW p \in Ptrs, Free(n, p)
      PROVE  Pool!Return(p)
    BY <1>4 DEF Free, FreeWith, gpuVars, Pool!Return
<1>5. ASSUME NEW n \in 0..Len(cudaEvents), NEW p \in Ptrs, FreeStops(n, p) \/ FreeFails(n, p)
      PROVE  FALSE
    BY <1>5 DEF FreeStops, FreeFails, FreeWith
<1>6. CASE EmptyCache
    BY <1>6 DEF EmptyCache, gpuVars, Pool!Next, Pool!Synchronize, Pool!vars
<1>7. ASSUME NEW p \in Ptrs, NEW s \in HostStreams, RecordEvent(p, s)
      PROVE  Pool!Copy(p, s)
    BY <1>7 DEF RecordEvent, Pool!Copy
<1>8. ASSUME NEW p \in Ptrs, NEW s \in HostStreams, RecordIgnored(p, s)
      PROVE  Pool!Work(s)
    BY <1>8 DEF RecordIgnored, Pool!Work
<1>9. ASSUME NEW s \in HostStreams, StreamWorks(s)
      PROVE  Pool!Finish(s)
    BY <1>9 DEF StreamWorks, Less, Pool!Finish
<1>10. CASE UNCHANGED hostVars
    BY <1>10 DEF hostVars, gpuVars, Pool!vars
<1>. QED
    BY <1>2, <1>3, <1>4, <1>5, <1>6, <1>7, <1>8, <1>9, <1>10 DEF HostNext, Pool!Next

\* The allocator implements the pool that its header promises to those who
\* report their copies with the pointer malloc returned, while no block's free
\* has failed: also when malloc, cudaFreeHost or the queries of events fail.
\* A copy that recordEvent ignores is to the pool any other work on a stream.
THEOREM AllocatorImplementsPool == HostSpec => ImplementsPool
<1>1. HostInit => Pool!Init
    BY DEF HostInit, Pool!Init
<1>2. HostInv /\ [HostNext]_hostVars => [failed' = {} => Pool!Next]_(Pool!vars)
    BY StepsImplementPool
<1>. QED
    BY <1>1, <1>2, HostInvariance, PTL DEF HostSpec, ImplementsPool
=============================================================================
