-------------------------------- MODULE Future --------------------------------
(***************************************************************************)
(* c10::ivalue::Future: a value or an error that is set once, threads that *)
(* wait for it on a condition variable, and callbacks that are to run when *)
(* it is there.  Every thread performs one operation.  What a method does  *)
(* between locking and unlocking mutex_ is one action, except where it     *)
(* leaves the mutex or calls back: a waiter sleeps without it, and         *)
(* fireCallbacks runs each callback with it held.  A call of markCompleted *)
(* on a completed future fails its assertion and changes nothing.          *)
(***************************************************************************)
EXTENDS Naturals, Sequences, SequencesExt

CONSTANTS Threads,
          Callbacks,
          Throwing,    \* callbacks that end in an exception
          Asking,      \* callbacks that ask the same future for its value
          Outcomes,    \* values and errors a future can be completed with
          None

ASSUME CallbacksAssumption == Throwing \subseteq Callbacks /\ Asking \subseteq Callbacks
ASSUME NoneAssumption == None \notin Threads \cup Callbacks \cup Outcomes
ASSUME OutcomesAssumption == Callbacks \cap Outcomes = {}

VARIABLES
    mutex,       \* the owner of mutex_, across actions
    completed,   \* completed_
    outcome,     \* value_, or has_error and error
    callbacks,   \* the vector callbacks
    next,        \* the position fireCallbacks has reached in it
    runs,        \* how often each callback was started
    ended,       \* the callbacks that returned or threw
    pc,          \* where each thread is
    arg          \* the callback a thread adds or runs, the result of a waiter

vars == <<mutex, completed, outcome, callbacks, next, runs, ended, pc, arg>>

Init ==
    /\ mutex = None /\ completed = FALSE /\ outcome = None
    /\ callbacks = <<>> /\ next = 1
    /\ runs = [c \in Callbacks |-> 0] /\ ended = {}
    /\ pc = [t \in Threads |-> "idle"]
    /\ arg = [t \in Threads |-> None]

Goto(t, where) == pc' = [pc EXCEPT ![t] = where]

-----------------------------------------------------------------------------
\* wait: with the mutex, a thread either sees the future completed or sleeps.
Wait(t) ==
    /\ pc[t] \in {"idle", "woken"} /\ mutex = None
    /\ Goto(t, IF completed THEN "waited" ELSE "asleep")
    /\ UNCHANGED <<mutex, completed, outcome, callbacks, next, runs, ended, arg>>

\* A condition variable may wake a thread that nobody notified.
WakeSpuriously(t) ==
    /\ pc[t] = "asleep" /\ Goto(t, "woken")
    /\ UNCHANGED <<mutex, completed, outcome, callbacks, next, runs, ended, arg>>

\* value, after wait: the value is returned or the error thrown.
Value(t) ==
    /\ pc[t] = "waited" /\ mutex = None /\ completed
    /\ arg' = [arg EXCEPT ![t] = outcome]
    /\ Goto(t, "done")
    /\ UNCHANGED <<mutex, completed, outcome, callbacks, next, runs, ended>>

\* Faulty variant: the assertion that the future is not completed is missing.
MarkAnyTime(t, o) ==
    /\ pc[t] = "idle" /\ mutex = None
    /\ mutex' = t
    /\ completed' = TRUE /\ outcome' = o
    /\ Goto(t, "firing")
    /\ UNCHANGED <<callbacks, next, runs, ended, arg>>

\* markCompleted with a value or an error, up to fireCallbacks.
MarkCompleted(t, o) ==
    /\ pc[t] = "idle" /\ mutex = None /\ ~completed
    /\ mutex' = t
    /\ completed' = TRUE /\ outcome' = o
    /\ Goto(t, "firing")
    /\ UNCHANGED <<callbacks, next, runs, ended, arg>>

\* fireCallbacks calls the next one.
FireCallback(t) ==
    /\ pc[t] = "firing" /\ next <= Len(callbacks)
    /\ runs' = [runs EXCEPT ![callbacks[next]] = @ + 1]
    /\ next' = next + 1
    /\ arg' = [arg EXCEPT ![t] = callbacks[next]]
    /\ Goto(t, "called")
    /\ UNCHANGED <<mutex, completed, outcome, callbacks, ended>>

\* Faulty variant: only one waiter is notified.
NotifyOne(t) ==
    /\ pc[t] = "firing" /\ next > Len(callbacks)
    /\ callbacks' = <<>> /\ next' = 1
    /\ \/ \E u \in Threads : /\ pc[u] = "asleep"
                             /\ pc' = [pc EXCEPT ![t] = "done", ![u] = "woken"]
       \/ /\ \A u \in Threads : pc[u] # "asleep"
          /\ pc' = [pc EXCEPT ![t] = "done"]
    /\ mutex' = None
    /\ UNCHANGED <<completed, outcome, runs, ended, arg>>

\* All callbacks have returned: the vector is cleared, the waiters are
\* notified and the mutex is released.
FinishMark(t) ==
    /\ pc[t] = "firing" /\ next > Len(callbacks)
    /\ callbacks' = <<>> /\ next' = 1
    /\ pc' = [u \in Threads |->
                IF u = t THEN "done" ELSE IF pc[u] = "asleep" THEN "woken" ELSE pc[u]]
    /\ mutex' = None
    /\ UNCHANGED <<completed, outcome, runs, ended, arg>>

-----------------------------------------------------------------------------
\* Faulty variant: the callback joins the list of a completed future.
AddToList(t, c) ==
    /\ pc[t] = "idle" /\ mutex = None
    /\ runs[c] = 0 /\ c \notin ToSet(callbacks) /\ \A u \in Threads : arg[u] # c
    /\ callbacks' = Append(callbacks, c)
    /\ arg' = [arg EXCEPT ![t] = c]
    /\ Goto(t, "done")
    /\ UNCHANGED <<mutex, completed, outcome, next, runs, ended>>

\* addCallback: before completion the callback joins the list, afterwards the
\* thread leaves the mutex and runs it itself.
AddCallback(t, c) ==
    /\ pc[t] = "idle" /\ mutex = None
    /\ runs[c] = 0 /\ c \notin ToSet(callbacks) /\ \A u \in Threads : arg[u] # c
    /\ arg' = [arg EXCEPT ![t] = c]
    /\ \/ /\ completed
          /\ runs' = [runs EXCEPT ![c] = 1]
          /\ Goto(t, "inline")
          /\ UNCHANGED callbacks
       \/ /\ ~completed
          /\ callbacks' = Append(callbacks, c)
          /\ Goto(t, "done")
          /\ UNCHANGED runs
    /\ UNCHANGED <<mutex, completed, outcome, next, ended>>

\* A callback returns.  One that asks for the value can only do so when it
\* gets the mutex, which inside fireCallbacks its own thread holds.
CallbackReturns(t) ==
    /\ pc[t] \in {"called", "inline"} /\ arg[t] \notin Throwing
    /\ arg[t] \in Asking => mutex = None
    /\ ended' = ended \cup {arg[t]}
    /\ Goto(t, IF pc[t] = "called" THEN "firing" ELSE "done")
    /\ UNCHANGED <<mutex, completed, outcome, callbacks, next, runs, arg>>

\* A callback throws.  The exception leaves markCompleted and releases the
\* mutex: no further callback runs and nobody is notified.
CallbackThrows(t) ==
    /\ pc[t] \in {"called", "inline"} /\ arg[t] \in Throwing
    /\ ended' = ended \cup {arg[t]}
    /\ mutex' = IF pc[t] = "called" THEN None ELSE mutex
    /\ Goto(t, "done")
    /\ UNCHANGED <<completed, outcome, callbacks, next, runs, arg>>

Step(t) ==
    \/ Wait(t) /\ pc[t] # "idle"
    \/ Value(t)
    \/ FireCallback(t) \/ FinishMark(t)
    \/ CallbackReturns(t) \/ CallbackThrows(t)

Next ==
    \E t \in Threads :
        \/ Step(t)
        \/ Wait(t)
        \/ WakeSpuriously(t)
        \/ \E o \in Outcomes : MarkCompleted(t, o)
        \/ \E c \in Callbacks : AddCallback(t, c)

Spec == Init /\ [][Next]_vars

\* A thread inside an operation goes on when it can.  No thread is obliged to
\* start one, and since each performs one only, a free mutex is free for long
\* enough.
FairSpec == Spec /\ \A t \in Threads : WF_vars(Step(t))

-----------------------------------------------------------------------------
\* Every variable has its type.
TypeOK ==
    /\ mutex \in Threads \cup {None}
    /\ completed \in BOOLEAN
    /\ outcome \in Outcomes \cup {None}
    /\ callbacks \in Seq(Callbacks)
    /\ next \in 1..Len(callbacks) + 1
    /\ runs \in [Callbacks -> 0..1]
    /\ ended \subseteq Callbacks
    /\ pc \in [Threads -> {"idle", "asleep", "woken", "waited", "firing",
                           "called", "inline", "done"}]
    /\ arg \in [Threads -> Callbacks \cup Outcomes \cup {None}]

\* Every variable has its type, wait returns only once the future is completed,
\* and all who ask it get the same outcome, whoever else tries to complete it.
WaitersAgree ==
    /\ TypeOK
    /\ \A t \in Threads : pc[t] = "waited" => completed
    /\ \A t \in Threads : arg[t] \in Outcomes => arg[t] = outcome

\* "Once completed_ is set to true, no one can add new callback to the list"
\* (ivalue_inl.h:294): the list stays what it was when the future completed, until
\* all that is in it was started.
ListIsFrozen ==
    [][completed => \/ callbacks' = callbacks
                    \/ callbacks' = <<>> /\ next > Len(callbacks)]_vars

\* What stops fireCallbacks half-way: a callback threw, and the exception left
\* markCompleted; or one asks its own future and waits for the mutex that its
\* thread holds.
FiringBroken ==
    /\ completed
    /\ \/ \E i \in DOMAIN callbacks : i < next /\ callbacks[i] \in Throwing \cap ended
       \/ \E t \in Threads : pc[t] = "called" /\ arg[t] \in Asking

\* A thread that waits returns when the future is completed, whichever threads
\* sleep, wake by themselves or come late, unless a callback breaks the firing.
WaitersReturn ==
    \A t \in Threads :
        completed /\ pc[t] \in {"asleep", "woken"} ~> pc[t] \in {"waited", "done"} \/ FiringBroken

\* "The callbacks will be executed once the future completes"
\* (ivalue_inl.h:263), unless one of those before it breaks the firing.
CallbacksRun ==
    \A c \in Callbacks :
        completed /\ c \in ToSet(callbacks) ~> c \in ended \/ FiringBroken
=============================================================================
