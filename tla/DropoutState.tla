----------------------------- MODULE DropoutState -----------------------------
(***************************************************************************)
(* The state of the random numbers that the dropout of a cuDNN RNN uses:   *)
(* one buffer per device, made by the first thread that trains with        *)
(* dropout.  The threads queue kernels that use the buffer on streams of   *)
(* their own; DropoutState::lock and unlock wait for an event of the last  *)
(* use and record it, so that the kernels run one after the other.         *)
(*                                                                         *)
(* Kernels are numbered in the order in which they are queued, the one     *)
(* that fills the buffer is number 1.                                      *)
(***************************************************************************)
EXTENDS HandlePool

CONSTANTS Streams,    \* streams of a device
          RnnDevices, \* bound: the devices the RNNs run on
          NoThread,   \* who holds a mutex that is free
          MaxKernels  \* bound: kernels that use a buffer

ASSUME KernelsAssumption == MaxKernels \in Nat /\ RnnDevices \subseteq Devices /\ NoThread \notin Threads

VARIABLES
    kernels,      \* how many kernels that use the buffer were queued
    event,        \* of each device: whether it is there, and recorded, and the
                  \* kernels that run before it
    before,       \* the kernels that run before the next one of a stream
    stateMutex,   \* DropoutState::mutex
    cacheMutex,   \* state_cache_mut
    rnn,          \* the call of each thread
    settled       \* history: the thread that made the buffer has used it

rnnVars == <<kernels, event, before, stateMutex, cacheMutex, rnn, settled>>

NoRnn == [pc |-> "idle"]

RnnInit ==
    /\ kernels = [d \in Devices |-> 0]
    /\ event = [d \in Devices |-> [made |-> FALSE, recorded |-> FALSE, after |-> {}]]
    /\ before = [d \in Devices |-> [s \in Streams |-> {}]]
    /\ stateMutex = [d \in Devices |-> NoThread]
    /\ cacheMutex = NoThread
    /\ rnn = [t \in Threads |-> NoRnn]
    /\ settled = [d \in Devices |-> FALSE]

-----------------------------------------------------------------------------
RnnAt(t, pc) == rnn[t].pc = pc
RnnGoto(t, pc) == rnn' = [rnn EXCEPT ![t].pc = pc]

\* A kernel that uses the buffer is queued on a stream.
Queue(d, s) ==
    /\ kernels' = [kernels EXCEPT ![d] = @ + 1]
    /\ before' = [before EXCEPT ![d][s] = @ \cup {kernels[d] + 1}]

\* _cudnn_impl calls get_dropout_state: "dropout" when it trains and dropout_p
\* is positive.
RnnStart(t, d, s, dropout) ==
    /\ RnnAt(t, "idle")
    /\ dropout => kernels[d] + Cardinality(Threads) <= MaxKernels
    /\ rnn' = [rnn EXCEPT ![t] =
          [pc |-> "get", device |-> d, stream |-> s, dropout |-> dropout, maker |-> FALSE]]
    /\ UNCHANGED <<kernels, event, before, stateMutex, cacheMutex, settled>>

\* get_dropout_state, under state_cache_mut, which is held on when the buffer
\* has to be made.
GetState(t) ==
    /\ RnnAt(t, "get") /\ cacheMutex = NoThread
    /\ IF rnn[t].dropout /\ ~event[rnn[t].device].made
       THEN RnnGoto(t, "make") /\ cacheMutex' = t
       ELSE RnnGoto(t, "lock") /\ UNCHANGED cacheMutex
    /\ UNCHANGED <<kernels, event, before, stateMutex, settled>>

\* The buffer is made under the mutex of the state, and the event is there but
\* not recorded yet.
MakeBuffer(t) ==
    LET d == rnn[t].device
    IN  /\ RnnAt(t, "make") /\ stateMutex[d] = NoThread
        /\ Queue(d, rnn[t].stream)
        /\ event' = [event EXCEPT ![d].made = TRUE]
        /\ cacheMutex' = NoThread
        /\ rnn' = [rnn EXCEPT ![t].pc = "lock", ![t].maker = TRUE]
        /\ UNCHANGED <<stateMutex, settled>>

MakeThrows(t) ==
    /\ RnnAt(t, "make") /\ stateMutex[rnn[t].device] = NoThread
    /\ cacheMutex' = NoThread
    /\ rnn' = [rnn EXCEPT ![t] = NoRnn]
    /\ UNCHANGED <<kernels, event, before, stateMutex, settled>>

\* DropoutState::lock: the stream waits for the event, if it was recorded.
LockState(t) ==
    LET d == rnn[t].device
    IN  /\ RnnAt(t, "lock") /\ stateMutex[d] = NoThread
        /\ stateMutex' = [stateMutex EXCEPT ![d] = t]
        /\ before' = IF event[d].recorded
                     THEN [before EXCEPT ![d][rnn[t].stream] = @ \cup event[d].after]
                     ELSE before
        /\ RnnGoto(t, "use")
        /\ UNCHANGED <<kernels, event, cacheMutex, settled>>

\* _cudnn_rnn, which uses the buffer only with dropout.
UseState(t) ==
    /\ RnnAt(t, "use")
    /\ IF rnn[t].dropout THEN Queue(rnn[t].device, rnn[t].stream)
       ELSE UNCHANGED <<kernels, before>>
    /\ RnnGoto(t, "unlock")
    /\ UNCHANGED <<event, stateMutex, cacheMutex, settled>>

UseThrows(t) ==
    /\ RnnAt(t, "use")
    /\ RnnGoto(t, "unlock")
    /\ UNCHANGED <<kernels, before, event, stateMutex, cacheMutex, settled>>

\* Faulty variant: the event is only recorded the first time.
UnlockRecordingOnce(t) ==
    LET d == rnn[t].device
    IN  /\ RnnAt(t, "unlock")
        /\ event' = IF ~event[d].made \/ event[d].recorded THEN event
                    ELSE [event EXCEPT ![d].recorded = TRUE,
                                       ![d].after = before[d][rnn[t].stream]]
        /\ stateMutex' = [stateMutex EXCEPT ![d] = NoThread]
        /\ settled' = [settled EXCEPT ![d] = @ \/ rnn[t].maker]
        /\ rnn' = [rnn EXCEPT ![t] = NoRnn]
        /\ UNCHANGED <<kernels, before, cacheMutex>>

\* DropoutState::unlock: the event is recorded on the stream.
UnlockState(t) ==
    LET d == rnn[t].device
    IN  /\ RnnAt(t, "unlock")
        /\ event' = IF ~event[d].made THEN event
                    ELSE [event EXCEPT ![d].recorded = TRUE,
                                       ![d].after = before[d][rnn[t].stream]]
        /\ stateMutex' = [stateMutex EXCEPT ![d] = NoThread]
        /\ settled' = [settled EXCEPT ![d] = @ \/ rnn[t].maker]
        /\ rnn' = [rnn EXCEPT ![t] = NoRnn]
        /\ UNCHANGED <<kernels, before, cacheMutex>>

RnnNext ==
    \E t \in Threads :
        \/ \E d \in RnnDevices, s \in Streams, dropout \in BOOLEAN : RnnStart(t, d, s, dropout)
        \/ GetState(t) \/ MakeBuffer(t) \/ MakeThrows(t)
        \/ LockState(t) \/ UseState(t) \/ UseThrows(t) \/ UnlockState(t)

RnnSpec == RnnInit /\ [][RnnNext]_rnnVars

-----------------------------------------------------------------------------
\* "to make sure all previous uses finish running before this one starts"
\* (RNN.cpp:1132): when a thread queues a use of the buffer, all earlier ones
\* run before it, whatever streams they are on.  The kernel that fills the
\* buffer is an exception until the thread that made it has used it: its event
\* is not recorded, and a thread that comes first does not wait.
UsesInOrder ==
    \A t \in Threads : RnnAt(t, "use") /\ rnn[t].dropout =>
        LET d == rnn[t].device
        IN  1..kernels[d] \ (IF settled[d] THEN {} ELSE {1}) \subseteq before[d][rnn[t].stream]
=============================================================================
