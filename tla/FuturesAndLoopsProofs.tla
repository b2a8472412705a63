------------------------- MODULE FuturesAndLoopsProofs ------------------------
(***************************************************************************)
(* For any threads, callbacks and outcomes: all who ask a future get one   *)
(* outcome, no callback is run twice, and the list of callbacks does not   *)
(* change once the future is completed.                                    *)
(* For any threads, jobs, ranges and grains: no task of a job outlives     *)
(* its call, the number of threads stays once it is set, and a call        *)
(* returns when f was applied once to each index without an error, and     *)
(* otherwise throws what one of the calls of f threw.                      *)
(***************************************************************************)
EXTENDS Future, ParallelNative, SequenceLemmas, SequenceTheorems, TLAPS

\* The thread that fires the callbacks holds the mutex of a completed future.
FiringInv == \A t \in Threads : pc[t] \in {"firing", "called"} => mutex = t /\ completed

\* A callback is in the list once, and those not yet reached have not run.
ListInv ==
    /\ \A i, j \in 1..Len(callbacks) : callbacks[i] = callbacks[j] => i = j
    /\ \A i \in next..Len(callbacks) : runs[callbacks[i]] = 0

\* A thread that runs a callback knows which.
CalledInv == \A t \in Threads : pc[t] \in {"called", "inline"} => arg[t] \in Callbacks

\* What a waiter knows is known of a completed future only.
KnownInv ==
    \A t \in Threads : /\ pc[t] = "waited" => completed
                       /\ arg[t] \in Outcomes => completed /\ arg[t] = outcome

IInv == TypeOK /\ FiringInv /\ ListInv /\ CalledInv /\ KnownInv

-----------------------------------------------------------------------------
LEMMA InitIInv == Init => IInv
<1>. SUFFICES ASSUME Init PROVE IInv
    OBVIOUS
<1>. USE DEF Init
<1>1. TypeOK
    <2>1. callbacks \in Seq(Callbacks) /\ next \in 1..Len(callbacks) + 1 /\ runs \in [Callbacks -> 0..1]
        OBVIOUS
    <2>2. /\ mutex \in Threads \cup {None} /\ completed \in BOOLEAN /\ outcome \in Outcomes \cup {None}
          /\ ended \subseteq Callbacks
          /\ arg \in [Threads -> Callbacks \cup Outcomes \cup {None}]
          /\ pc \in [Threads -> {"idle", "asleep", "woken", "waited", "firing", "called", "inline", "done"}]
        OBVIOUS
    <2>. QED
        BY <2>1, <2>2 DEF TypeOK
<1>2. FiringInv /\ ListInv /\ CalledInv
    BY DEF FiringInv, ListInv, CalledInv
<1>3. KnownInv
    BY NoneAssumption DEF KnownInv
<1>. QED
    BY <1>1, <1>2, <1>3 DEF IInv

\* Waiting, waking and asking change what one thread knows.
LEMMA WaitInv ==
    ASSUME IInv, NEW t \in Threads, Wait(t) \/ WakeSpuriously(t) \/ Value(t)
    PROVE  IInv'
<1>. USE DEF IInv, Wait, WakeSpuriously, Value, Goto
<1>1. TypeOK'
    BY DEF TypeOK
<1>2. FiringInv'
    BY DEF TypeOK, FiringInv
<1>3. ListInv'
    BY DEF ListInv
<1>4. CalledInv'
    BY DEF TypeOK, CalledInv
<1>5. KnownInv'
    BY DEF TypeOK, KnownInv
<1>. QED
    BY <1>1, <1>2, <1>3, <1>4, <1>5

\* Only a future that is not completed is completed: nobody knows an outcome.
LEMMA MarkInv ==
    ASSUME IInv, NEW t \in Threads, NEW o \in Outcomes, MarkCompleted(t, o)
    PROVE  IInv'
<1>. USE DEF IInv, MarkCompleted, Goto
<1>1. TypeOK'
    BY DEF TypeOK
<1>2. FiringInv'
    BY NoneAssumption DEF TypeOK, FiringInv
<1>3. ListInv'
    BY DEF ListInv
<1>4. CalledInv'
    BY DEF TypeOK, CalledInv
<1>5. KnownInv'
    BY DEF TypeOK, KnownInv
<1>. QED
    BY <1>1, <1>2, <1>3, <1>4, <1>5

\* The callback that is fired has not run, and is behind the position after it.
LEMMA FireInv ==
    ASSUME IInv, NEW t \in Threads, FireCallback(t)
    PROVE  IInv'
<1>. USE DEF IInv, FireCallback, Goto
<1>. DEFINE c == callbacks[next]
<1>1. next \in 1..Len(callbacks) /\ c \in Callbacks /\ runs[c] = 0
    BY DEF TypeOK, ListInv
<1>2. TypeOK'
    BY <1>1 DEF TypeOK
<1>3. FiringInv'
    BY DEF TypeOK, FiringInv
<1>4. ListInv'
    <2>1. \A i \in next'..Len(callbacks') : i \in next..Len(callbacks) /\ i # next /\ callbacks[i] # c
        BY <1>1 DEF TypeOK, ListInv
    <2>2. \A i \in next'..Len(callbacks') : runs'[callbacks'[i]] = 0
        BY <1>1, <2>1 DEF TypeOK, ListInv
    <2>. QED
        BY <2>2 DEF ListInv
<1>5. CalledInv'
    BY <1>1 DEF TypeOK, CalledInv
<1>6. KnownInv'
    BY <1>1, OutcomesAssumption DEF TypeOK, KnownInv
<1>. QED
    BY <1>2, <1>3, <1>4, <1>5, <1>6

LEMMA FinishInv ==
    ASSUME IInv, NEW t \in Threads, FinishMark(t)
    PROVE  IInv'
<1>. USE DEF IInv, FinishMark
<1>1. TypeOK'
    BY DEF TypeOK
<1>2. FiringInv'
    BY DEF TypeOK, FiringInv
<1>3. ListInv'
    BY DEF ListInv
<1>4. CalledInv'
    BY DEF TypeOK, CalledInv
<1>5. KnownInv'
    BY DEF TypeOK, KnownInv
<1>. QED
    BY <1>1, <1>2, <1>3, <1>4, <1>5

\* A callback that is added is in no list and has not run.
LEMMA AddInv ==
    ASSUME IInv, NEW t \in Threads, NEW c \in Callbacks, AddCallback(t, c)
    PROVE  IInv'
<1>. USE DEF IInv, AddCallback, Goto
<1>1. \A i \in 1..Len(callbacks) : callbacks[i] # c
    BY DEF TypeOK, ToSet
<1>2. TypeOK'
    <2>1. callbacks' \in Seq(Callbacks) /\ next' \in 1..Len(callbacks') + 1
        BY DEF TypeOK
    <2>2. runs' \in [Callbacks -> 0..1]
        BY DEF TypeOK
    <2>3. /\ pc' \in [Threads -> {"idle", "asleep", "woken", "waited", "firing", "called", "inline", "done"}]
          /\ arg' \in [Threads -> Callbacks \cup Outcomes \cup {None}]
        BY DEF TypeOK
    <2>4. /\ mutex' \in Threads \cup {None} /\ completed' \in BOOLEAN
          /\ outcome' \in Outcomes \cup {None} /\ ended' \subseteq Callbacks
        BY DEF TypeOK
    <2>. QED
        BY <2>1, <2>2, <2>3, <2>4 DEF TypeOK
<1>3. FiringInv'
    BY DEF TypeOK, FiringInv
<1>4. ListInv'
    <2>1. CASE completed
        BY <1>1, <2>1 DEF TypeOK, ListInv
    <2>2. CASE ~completed
        <3>1. callbacks' = Append(callbacks, c) /\ runs' = runs /\ next' = next
            BY <2>2
        <3>2. /\ Len(callbacks') = Len(callbacks) + 1
              /\ \A i \in 1..Len(callbacks) : callbacks'[i] = callbacks[i]
              /\ callbacks'[Len(callbacks) + 1] = c
            BY <3>1 DEF TypeOK
        <3>. QED
            BY <1>1, <3>1, <3>2 DEF TypeOK, ListInv
    <2>. QED
        BY <2>1, <2>2
<1>5. CalledInv'
    BY DEF TypeOK, CalledInv
<1>6. KnownInv'
    BY OutcomesAssumption DEF TypeOK, KnownInv
<1>. QED
    BY <1>2, <1>3, <1>4, <1>5, <1>6

LEMMA CallbackInv ==
    ASSUME IInv, NEW t \in Threads, CallbackReturns(t) \/ CallbackThrows(t)
    PROVE  IInv'
<1>. USE DEF IInv, CallbackReturns, CallbackThrows, Goto
<1>1. TypeOK'
    BY DEF TypeOK, CalledInv
<1>2. FiringInv'
    BY NoneAssumption DEF TypeOK, FiringInv
<1>3. ListInv'
    BY DEF ListInv
<1>4. CalledInv'
    BY DEF TypeOK, CalledInv
<1>5. KnownInv'
    BY DEF TypeOK, KnownInv
<1>. QED
    BY <1>1, <1>2, <1>3, <1>4, <1>5

LEMMA NextIInv == IInv /\ [Next]_vars => IInv'
<1>. SUFFICES ASSUME IInv, [Next]_vars PROVE IInv'
    OBVIOUS
<1>1. CASE UNCHANGED vars
    BY <1>1 DEF IInv, TypeOK, FiringInv, ListInv, CalledInv, KnownInv, vars
<1>2. CASE Next
    <2>. PICK t \in Threads :
            \/ Step(t) \/ Wait(t) \/ WakeSpuriously(t)
            \/ \E o \in Outcomes : MarkCompleted(t, o)
            \/ \E c \in Callbacks : AddCallback(t, c)
        BY <1>2 DEF Next
    <2>1. CASE Step(t)
        BY <2>1, WaitInv, FireInv, FinishInv, CallbackInv DEF Step
    <2>2. CASE Wait(t) \/ WakeSpuriously(t)
        BY <2>2, WaitInv
    <2>3. CASE \E o \in Outcomes : MarkCompleted(t, o)
        BY <2>3, MarkInv
    <2>4. CASE \E c \in Callbacks : AddCallback(t, c)
        BY <2>4, AddInv
    <2>. QED
        BY <2>1, <2>2, <2>3, <2>4
<1>. QED
    BY <1>1, <1>2

-----------------------------------------------------------------------------
\* The inductive invariant of ivalue::Future, of which the types bound the
\* runs of each callback by one.
THEOREM Invariance == Spec => []IInv
    BY InitIInv, NextIInv, PTL DEF Spec

\* wait returns only once the future is completed, all who ask get the same
\* outcome (ivalue_inl.h:216-259), and no callback is started twice.
THEOREM OneOutcome == Spec => []WaitersAgree
<1>1. IInv => WaitersAgree
    BY DEF IInv, KnownInv, WaitersAgree
<1>. QED
    BY <1>1, Invariance, PTL

\* No step adds a callback to the list of a completed future, or takes one out
\* before all have been started (ivalue_inl.h:294).
THEOREM FrozenList == Spec => ListIsFrozen
<1>. DEFINE Frozen == \/ callbacks' = callbacks
                      \/ callbacks' = <<>> /\ next > Len(callbacks)
<1>1. [Next]_vars => [completed => Frozen]_vars
    <2>. SUFFICES ASSUME Next, completed PROVE Frozen
        BY DEF vars
    <2>. QED
        BY DEF Next, Step, Wait, WakeSpuriously, Value, MarkCompleted, FireCallback,
               FinishMark, AddCallback, CallbackReturns, CallbackThrows
<1>. QED
    BY <1>1, PTL DEF Spec, ListIsFrozen

-----------------------------------------------------------------------------

Frames(a) == ToSet(stack[a])
Queued == ToSet(queue)

\* A frame or a queued task by its job and task_id.
Key(f) == <<f.job, f.id>>

Ids == Nat \cup {Nothing}
FrameType == [at : {"enter", "run", "body", "caught", "mark", "func"}, job : Jobs, id : Ids]

LoopTypes ==
    /\ setting \in {NOT_SET, CONSUMED} \cup Settings
    /\ pool \in 0..MaxWorkers \cup {Nothing}
    /\ pool # Nothing <=> setting = CONSUMED
    /\ queue \in Seq(Jobs \X Ids) /\ IsInjective(queue)
    /\ stack \in [Agents -> Seq(FrameType)]
    /\ \A a \in Agents : IsInjective(stack[a])
    /\ region \in [Agents -> BOOLEAN]
    /\ result \in [Jobs -> {"fresh", "running", "launched", "inline",
                           "returned", "raised", "refused", "lost"}]
    /\ range \in [Jobs -> [len : Nat, grain : Nat, slots : Ids]]
    /\ tasks \in [Jobs -> [num : Nat, chunk : Nat]]
    /\ nextTask \in [Jobs -> Nat]
    /\ futures \in [Jobs -> SUBSET Nat]

\* Each task is in one place, a stack or the queue, and each job is executed
\* by at most one thread.
KeysInv ==
    /\ \A a, b \in Agents : \A f \in Frames(a), g \in Frames(b) :
          Key(f) = Key(g) => a = b /\ f = g
    /\ \A a \in Agents : \A f \in Frames(a) : Key(f) \notin Queued

\* Task i of job j has been handed out; task 0 comes last.
Given(j, i) ==
    /\ i \in 0..(tasks[j].num - 1)
    /\ IF i = 0 THEN nextTask[j] = tasks[j].num + 1 ELSE i < nextTask[j]

Pending(j, i) == result[j] = "running" /\ Given(j, i) /\ i \notin futures[j]

\* What is on a stack is still to be waited for.
FrameOk(f) ==
    /\ f.at \in {"enter", "run"} => f.id = Nothing /\ result[f.job] = "running"
    /\ f.at = "enter" => nextTask[f.job] = 0 /\ tasks[f.job].num = 0 /\ range[f.job].len > 0
    /\ f.at = "run" => nextTask[f.job] > 0
    /\ f.at \in {"body", "caught", "mark"} => Pending(f.job, f.id)
    /\ f.at = "func" => f.id = Nothing /\ result[f.job] \in {"launched", "inline"}

\* And so is what is queued.
QueuedOk(q) == IF q[2] = Nothing THEN result[q[1]] = "launched" ELSE Pending(q[1], q[2])

JobOk(j) ==
    /\ nextTask[j] <= tasks[j].num + 1
    /\ \A i \in futures[j] : Given(j, i)
    /\ result[j] = "fresh" => nextTask[j] = 0 /\ tasks[j].num = 0
    /\ nextTask[j] \in 2..tasks[j].num => pool # Nothing /\ pool # 0

LoopInv ==
    /\ LoopTypes /\ KeysInv
    /\ \A a \in Agents : \A f \in Frames(a) : FrameOk(f)
    /\ \A q \in Queued : QueuedOk(q)
    /\ \A j \in Jobs : JobOk(j)

-----------------------------------------------------------------------------
LEMMA DivFacts ==
    ASSUME NEW x \in Nat, NEW y \in Nat \ {0}
    PROVE  x \div y \in Nat /\ (x \div y) * y <= x /\ x < (x \div y) * y + y
    OBVIOUS

\* Rounding up leaves nothing over.
LEMMA DivupFacts ==
    ASSUME NEW x \in Nat \ {0}, NEW y \in Nat \ {0}
    PROVE  Divup(x, y) \in Nat \ {0} /\ x <= Divup(x, y) * y
<1>1. x + y - 1 \in Nat /\ x + y - 1 >= y
    OBVIOUS
<1>2. PICK q : q = (x + y - 1) \div y
    OBVIOUS
<1>3. q \in Nat /\ q * y <= x + y - 1 /\ x + y - 1 < q * y + y
    BY <1>1, <1>2, DivFacts
<1>4. q # 0 /\ q * y \in Nat
    BY <1>1, <1>3
<1>5. x <= q * y
    BY <1>1, <1>3, <1>4
<1>. QED
    BY <1>2, <1>3, <1>4, <1>5 DEF Divup

LEMMA MaxTwo ==
    ASSUME NEW x \in Int, NEW y \in Int
    PROVE  Max({x, y}) = IF x >= y THEN x ELSE y
    BY DEF Max

\* However many threads are shown, there is one, and so are the tasks.
LEMMA ThreadsPositive ==
    ASSUME LoopTypes PROVE NumThreads \in Nat \ {0}
<1>1. CASE setting = NOT_SET
    BY <1>1, LoopsAssumption DEF NumThreads, NOT_SET
<1>2. CASE setting = CONSUMED
    BY <1>2, LoopsAssumption DEF LoopTypes, NumThreads, NOT_SET, CONSUMED
<1>3. CASE setting \in Settings
    BY <1>3, LoopsAssumption DEF NumThreads
<1>. QED
    BY <1>1, <1>2, <1>3 DEF LoopTypes

LEMMA NumTasksFacts ==
    ASSUME LoopTypes, NEW len \in Nat \ {0}, NEW grain \in Nat
    PROVE  /\ NumTasks(len, grain) \in [num : Nat \ {0}, chunk : Nat \ {0}]
           /\ len <= NumTasks(len, grain).num * NumTasks(len, grain).chunk
<1>1. PICK d : d = Divup(len, NumThreads)
    OBVIOUS
<1>2. d \in Nat \ {0}
    BY <1>1, ThreadsPositive, DivupFacts
<1>3. PICK c : c = Max({grain, d})
    OBVIOUS
<1>4. c \in Nat \ {0}
    BY <1>2, <1>3, MaxTwo
<1>5. Divup(len, c) \in Nat \ {0} /\ len <= Divup(len, c) * c
    BY <1>4, DivupFacts
<1>6. NumTasks(len, grain) = IF len < grain THEN [num |-> 1, chunk |-> len]
                             ELSE [num |-> Divup(len, c), chunk |-> c]
    BY <1>1, <1>3 DEF NumTasks
<1>. QED
    BY <1>5, <1>4, <1>6

LEMMA PoolAfterType ==
    ASSUME LoopTypes
    PROVE  PoolAfter \in 0..MaxWorkers /\ (pool # Nothing => PoolAfter = pool)
<1>1. CASE pool # Nothing
    BY <1>1 DEF LoopTypes, PoolAfter
<1>2. CASE pool = Nothing
    BY <1>2, LoopsAssumption DEF LoopTypes, PoolAfter, NumPoolThreads, NOT_SET, CONSUMED
<1>. QED
    BY <1>1, <1>2

\* Submitting a task keeps the number of threads.
LEMMA SubmitFacts ==
    ASSUME LoopTypes, NEW task \in Jobs \X Ids, task \notin Queued, Submit(task)
    PROVE  /\ setting' = CONSUMED /\ pool' = PoolAfter /\ pool' \in 0..MaxWorkers
           /\ pool # Nothing => pool' = pool
           /\ PoolAfter = 0 => queue' = queue
           /\ PoolAfter # 0 => Queued' = Queued \cup {task}
           /\ queue' \in Seq(Jobs \X Ids) /\ IsInjective(queue')
<1>1. setting' = CONSUMED /\ pool' = PoolAfter
      /\ queue' = IF PoolAfter = 0 THEN queue ELSE Append(queue, task)
    BY DEF Submit
<1>2. queue \in Seq(Jobs \X Ids) /\ IsInjective(queue)
    BY DEF LoopTypes
<1>3. /\ Append(queue, task) \in Seq(Jobs \X Ids) /\ IsInjective(Append(queue, task))
      /\ ToSet(Append(queue, task)) = Queued \cup {task}
    BY <1>2, AppendElements DEF Queued
<1>. QED
    BY <1>1, <1>2, <1>3, PoolAfterType DEF Queued

-----------------------------------------------------------------------------
\* What the three stack operations do.
LEMMA PushFacts ==
    ASSUME LoopTypes, NEW a \in Agents, NEW f \in FrameType, f \notin Frames(a), Push(a, f)
    PROVE  /\ stack' \in [Agents -> Seq(FrameType)]
           /\ \A b \in Agents : IsInjective(stack'[b])
           /\ Frames(a)' = Frames(a) \cup {f}
           /\ \A b \in Agents \ {a} : Frames(b)' = Frames(b)
<1>1. stack[a] \in Seq(FrameType) /\ IsInjective(stack[a])
    BY DEF LoopTypes
<1>2. stack' = [stack EXCEPT ![a] = Cons(f, stack[a])]
    BY DEF Push, Cons
<1>3. /\ Cons(f, stack[a]) \in Seq(FrameType) /\ IsInjective(Cons(f, stack[a]))
      /\ ToSet(Cons(f, stack[a])) = Frames(a) \cup {f}
    BY <1>1, ConsElements DEF Frames
<1>. QED
    BY <1>2, <1>3 DEF LoopTypes, Frames

LEMMA TopFacts ==
    ASSUME LoopTypes, NEW a \in Agents, stack[a] # <<>>
    PROVE  /\ Top(a) \in FrameType /\ Top(a) \in Frames(a)
           /\ Tail(stack[a]) \in Seq(FrameType) /\ IsInjective(Tail(stack[a]))
           /\ ToSet(Tail(stack[a])) = Frames(a) \ {Top(a)}
    BY TailElements DEF LoopTypes, Top, Frames

LEMMA PopFacts ==
    ASSUME LoopTypes, NEW a \in Agents, stack[a] # <<>>, Pop(a)
    PROVE  /\ stack' \in [Agents -> Seq(FrameType)]
           /\ \A b \in Agents : IsInjective(stack'[b])
           /\ Frames(a)' = Frames(a) \ {Top(a)}
           /\ \A b \in Agents \ {a} : Frames(b)' = Frames(b)
    BY TopFacts DEF LoopTypes, Frames, Pop

LEMMA ReplaceFacts ==
    ASSUME LoopTypes, NEW a \in Agents, stack[a] # <<>>, NEW f \in FrameType,
           f \notin Frames(a) \ {Top(a)}, ReplaceTop(a, f)
    PROVE  /\ stack' \in [Agents -> Seq(FrameType)]
           /\ \A b \in Agents : IsInjective(stack'[b])
           /\ Frames(a)' = (Frames(a) \ {Top(a)}) \cup {f}
           /\ \A b \in Agents \ {a} : Frames(b)' = Frames(b)
<1>1. PICK q : q = Tail(stack[a])
    OBVIOUS
<1>2. q \in Seq(FrameType) /\ IsInjective(q) /\ ToSet(q) = Frames(a) \ {Top(a)}
    BY <1>1, TopFacts
<1>3. stack' = [stack EXCEPT ![a] = Cons(f, q)]
    BY <1>1 DEF ReplaceTop, Cons
<1>4. /\ Cons(f, q) \in Seq(FrameType) /\ IsInjective(Cons(f, q))
      /\ ToSet(Cons(f, q)) = (Frames(a) \ {Top(a)}) \cup {f}
    BY <1>2, ConsElements
<1>. QED
    BY <1>3, <1>4 DEF LoopTypes, Frames

-----------------------------------------------------------------------------
\* A step for one job leaves what is on the stacks and in the queue for the
\* others right.
LEMMA OtherJobs ==
    ASSUME NEW j, pool # Nothing => pool' = pool,
           \A k \in Jobs \ {j} : /\ result'[k] = result[k] /\ range'[k] = range[k]
                                 /\ tasks'[k] = tasks[k] /\ nextTask'[k] = nextTask[k]
                                 /\ futures'[k] = futures[k]
    PROVE  /\ \A f \in FrameType : f.job # j /\ FrameOk(f) => FrameOk(f)'
           /\ \A q \in Jobs \X Ids : q[1] # j /\ QueuedOk(q) => QueuedOk(q)'
           /\ \A k \in Jobs \ {j} : JobOk(k) => JobOk(k)'
<1>1. \A k \in Jobs \ {j} : \A i : Given(k, i)' = Given(k, i) /\ Pending(k, i)' = Pending(k, i)
    BY DEF Given, Pending
<1>2. \A f \in FrameType : f.job # j /\ FrameOk(f) => FrameOk(f)'
    BY <1>1 DEF FrameOk, FrameType
<1>3. \A q \in Jobs \X Ids : q[1] # j /\ QueuedOk(q) => QueuedOk(q)'
    BY <1>1 DEF QueuedOk
<1>4. \A k \in Jobs \ {j} : JobOk(k) => JobOk(k)'
    BY <1>1 DEF JobOk
<1>. QED
    BY <1>2, <1>3, <1>4

LEMMA InvTypes ==
    ASSUME LoopInv
    PROVE  /\ \A a \in Agents : Frames(a) \subseteq FrameType
           /\ Queued \subseteq Jobs \X Ids
           /\ pool # Nothing => pool \in Nat
    BY DEF LoopInv, LoopTypes, Frames, Queued, ToSet

\* A job that has not begun is nowhere.
LEMMA FreshUnused ==
    ASSUME LoopInv, NEW j \in Jobs, result[j] = "fresh"
    PROVE  /\ \A a \in Agents : \A f \in Frames(a) : f.job # j
           /\ \A q \in Queued : q[1] # j
<1>1. ASSUME NEW a \in Agents, NEW f \in Frames(a), f.job = j PROVE FALSE
    <2>1. FrameOk(f) /\ f \in FrameType
        BY InvTypes DEF LoopInv
    <2>. QED
        BY <1>1, <2>1 DEF FrameOk, FrameType, Pending
<1>2. ASSUME NEW q \in Queued, q[1] = j PROVE FALSE
    BY <1>2 DEF LoopInv, QueuedOk, Pending
<1>. QED
    BY <1>1, <1>2

\* The call that executes a job is there once; beside it there are only tasks
\* that wait to be completed.
LEMMA OtherPlaces ==
    ASSUME LoopInv, NEW a \in Agents, NEW f \in Frames(a), f.id = Nothing
    PROVE  /\ \A b \in Agents : \A g \in Frames(b) :
                 g.job = f.job /\ g # f => g.id # Nothing /\ Pending(g.job, g.id)
           /\ \A q \in Queued : q[1] = f.job => q[2] # Nothing /\ Pending(q[1], q[2])
<1>1. ASSUME NEW b \in Agents, NEW g \in Frames(b), g.job = f.job, g # f
      PROVE  g.id # Nothing /\ Pending(g.job, g.id)
    <2>1. FrameOk(g) /\ g \in FrameType
        BY InvTypes DEF LoopInv
    <2>2. Key(g) # Key(f)
        BY <1>1 DEF LoopInv, KeysInv
    <2>3. g.id # Nothing
        BY <1>1, <2>2 DEF Key
    <2>. QED
        BY <2>1, <2>3 DEF FrameOk, FrameType
<1>2. ASSUME NEW q \in Queued, q[1] = f.job
      PROVE  q[2] # Nothing /\ Pending(q[1], q[2])
    <2>1. q = <<q[1], q[2]>> /\ QueuedOk(q)
        BY InvTypes DEF LoopInv
    <2>2. Key(f) # q
        BY DEF LoopInv, KeysInv
    <2>3. q[2] # Nothing
        BY <1>2, <2>1, <2>2 DEF Key
    <2>. QED
        BY <2>1, <2>3 DEF QueuedOk
<1>. QED
    BY <1>1, <1>2

\* Nothing is executed before the first call.
LEMMA LoopInit == ParInit => LoopInv
<1>. SUFFICES ASSUME ParInit PROVE LoopInv
    OBVIOUS
<1>1. /\ \A a \in Agents : Frames(a) = {} /\ IsInjective(stack[a])
      /\ Queued = {} /\ IsInjective(queue)
    BY DEF ParInit, Frames, Queued, ToSet, IsInjective
<1>2. LoopTypes
    BY <1>1, LoopsAssumption DEF ParInit, LoopTypes, NoRange, NOT_SET, CONSUMED, Ids
<1>3. \A j \in Jobs : JobOk(j)
    BY DEF ParInit, JobOk
<1>. QED
    BY <1>1, <1>2, <1>3 DEF LoopInv, KeysInv

\* The number of threads is set.
LEMMA SetNumThreadsInv ==
    ASSUME LoopInv, NEW c \in Callers, NEW k \in Settings, SetNumThreads(c, k)
    PROVE  LoopInv'
<1>1. /\ setting = NOT_SET /\ setting' = k
      /\ UNCHANGED <<pool, queue, stack, region, result, range, tasks, nextTask, futures>>
    BY DEF SetNumThreads, jobVars
<1>2. LoopTypes'
    BY <1>1, LoopsAssumption DEF LoopInv, LoopTypes, NOT_SET, CONSUMED
<1>3. \A f : FrameOk(f)' = FrameOk(f)
    BY <1>1 DEF FrameOk, Pending, Given
<1>4. \A q : QueuedOk(q)' = QueuedOk(q)
    BY <1>1 DEF QueuedOk, Pending, Given
<1>5. \A j : JobOk(j)' = JobOk(j)
    BY <1>1 DEF JobOk, Given
<1>6. KeysInv'
    BY <1>1 DEF LoopInv, KeysInv, Frames, Queued
<1>. QED
    BY <1>1, <1>2, <1>3, <1>4, <1>5, <1>6 DEF LoopInv, Frames, Queued

\* A job is done without the pool: it was nowhere and it ends at once.
LEMMA RunInlineInv ==
    ASSUME LoopInv, NEW a \in Agents, NEW j \in Jobs, NEW len \in Lens, NEW grain \in Grains,
           RunInline(a, j, len, grain)
    PROVE  LoopInv'
<1>1. /\ result[j] = "fresh"
      /\ range' = [range EXCEPT ![j] = [len |-> len, grain |-> grain, slots |-> Nothing]]
      /\ result' = [result EXCEPT ![j] = "returned"] \/ result' = [result EXCEPT ![j] = "raised"]
      /\ UNCHANGED <<setting, pool, queue, stack, region, tasks, nextTask, futures>>
    BY DEF RunInline, NoRange
<1>2. LoopTypes /\ LoopTypes'
    <2>1. [len |-> len, grain |-> grain, slots |-> Nothing] \in [len : Nat, grain : Nat, slots : Ids]
        BY LoopsAssumption DEF Ids
    <2>. QED
        BY <1>1, <2>1 DEF LoopInv, LoopTypes
<1>3. \A k \in Jobs \ {j} : /\ result'[k] = result[k] /\ range'[k] = range[k]
                            /\ tasks'[k] = tasks[k] /\ nextTask'[k] = nextTask[k]
                            /\ futures'[k] = futures[k]
    BY <1>1, <1>2 DEF LoopTypes
<1>4. \A b \in Agents : Frames(b)' = Frames(b)
    BY <1>1 DEF Frames
<1>5. Queued' = Queued
    BY <1>1 DEF Queued
<1>6. \A b \in Agents : \A f \in Frames(b) : FrameOk(f)'
    BY <1>1, <1>3, FreshUnused, OtherJobs, InvTypes DEF LoopInv
<1>7. \A q \in Queued : QueuedOk(q)'
    BY <1>1, <1>3, FreshUnused, OtherJobs, InvTypes DEF LoopInv
<1>8. \A k \in Jobs : JobOk(k)'
    <2>1. JobOk(j)'
        <3>1. result'[j] # "fresh"
            BY <1>1, <1>2 DEF LoopTypes
        <3>. QED
            BY <1>1, <3>1 DEF LoopInv, JobOk, Given
    <2>. QED
        BY <1>1, <1>3, <2>1, OtherJobs DEF LoopInv
<1>9. KeysInv'
    BY <1>4, <1>5 DEF LoopInv, KeysInv
<1>. QED
    BY <1>2, <1>4, <1>5, <1>6, <1>7, <1>8, <1>9 DEF LoopInv

-----------------------------------------------------------------------------
\* A step of thread a for job j keeps the invariant when what it leaves for
\* job j on the stacks and in the queue is right.
LEMMA StepInv ==
    ASSUME LoopInv, LoopTypes', KeysInv', NEW j \in Jobs, pool # Nothing => pool' = pool,
           \A k \in Jobs \ {j} : /\ result'[k] = result[k] /\ range'[k] = range[k]
                                 /\ tasks'[k] = tasks[k] /\ nextTask'[k] = nextTask[k]
                                 /\ futures'[k] = futures[k],
           \A b \in Agents : \A g \in Frames(b)' :
              IF g.job = j THEN FrameOk(g)' ELSE g \in Frames(b),
           \A q \in Queued' : IF q[1] = j THEN QueuedOk(q)' ELSE q \in Queued,
           JobOk(j)'
    PROVE  LoopInv'
<1>1. \A b \in Agents : \A g \in Frames(b)' : FrameOk(g)'
    <2>1. \A f \in FrameType : f.job # j /\ FrameOk(f) => FrameOk(f)'
        BY OtherJobs
    <2>. QED
        BY <2>1, InvTypes DEF LoopInv
<1>2. \A q \in Queued' : QueuedOk(q)'
    <2>1. \A q \in Jobs \X Ids : q[1] # j /\ QueuedOk(q) => QueuedOk(q)'
        BY OtherJobs
    <2>. QED
        BY <2>1, InvTypes DEF LoopInv
<1>3. \A k \in Jobs : JobOk(k)'
    <2>1. \A k \in Jobs \ {j} : JobOk(k) => JobOk(k)'
        BY OtherJobs
    <2>. QED
        BY <2>1 DEF LoopInv
<1>. QED
    BY <1>1, <1>2, <1>3 DEF LoopInv

\* A frame f in the place of t, or pushed when nothing else has its key.
LEMMA KeysStep ==
    ASSUME KeysInv, NEW a \in Agents, NEW t, NEW f,
           Frames(a)' \subseteq (Frames(a) \ {t}) \cup {f},
           \A b \in Agents \ {a} : Frames(b)' = Frames(b),
           \A b \in Agents : \A g \in Frames(b) : Key(g) = Key(f) => b = a /\ g = t,
           Queued' \subseteq Queued \ {Key(f)}
    PROVE  KeysInv'
<1>1. ASSUME NEW b \in Agents, NEW c \in Agents, NEW g \in Frames(b)', NEW h \in Frames(c)', Key(g) = Key(h)
      PROVE  b = c /\ g = h
    <2>1. (g = f /\ b = a) \/ (g \in Frames(b) /\ ~(b = a /\ g = t))
        OBVIOUS
    <2>2. (h = f /\ c = a) \/ (h \in Frames(c) /\ ~(c = a /\ h = t))
        OBVIOUS
    <2>. QED
        BY <1>1, <2>1, <2>2 DEF KeysInv
<1>2. ASSUME NEW b \in Agents, NEW g \in Frames(b)'
      PROVE  Key(g) \notin Queued'
    <2>1. (g = f /\ b = a) \/ g \in Frames(b)
        OBVIOUS
    <2>. QED
        BY <2>1 DEF KeysInv
<1>3. \A g : Key(g)' = Key(g)
    BY DEF Key
<1>. QED
    BY <1>1, <1>2, <1>3 DEF KeysInv

\* In the place of a frame, or for it alone when it is dropped.
LEMMA ReplaceKeys ==
    ASSUME KeysInv, NEW a \in Agents, NEW t \in Frames(a), NEW f, Key(f) = Key(t),
           Frames(a)' \subseteq (Frames(a) \ {t}) \cup {f},
           \A b \in Agents \ {a} : Frames(b)' = Frames(b), Queued' = Queued
    PROVE  KeysInv'
<1>1. Queued' \subseteq Queued \ {Key(f)}
    BY DEF KeysInv
<1>2. \A b \in Agents : \A g \in Frames(b) : Key(g) = Key(f) => b = a /\ g = t
    BY DEF KeysInv
<1>. QED
    BY <1>1, <1>2, KeysStep

LEMMA PushKeys ==
    ASSUME KeysInv, NEW a \in Agents, NEW f,
           Frames(a)' = Frames(a) \cup {f},
           \A b \in Agents \ {a} : Frames(b)' = Frames(b),
           \A b \in Agents : \A g \in Frames(b) : Key(g) # Key(f),
           Queued' \subseteq Queued \ {Key(f)}
    PROVE  KeysInv'
<1>1. PICK t : t = f
    OBVIOUS
<1>2. Frames(a)' \subseteq (Frames(a) \ {t}) \cup {f}
    BY <1>1
<1>3. \A b \in Agents : \A g \in Frames(b) : Key(g) = Key(f) => b = a /\ g = t
    OBVIOUS
<1>. QED
    BY <1>2, <1>3, KeysStep, ZenonT(60)

\* The frame on top of a stack has a key of its own.
LEMMA TopKey ==
    ASSUME LoopInv, NEW a \in Agents, stack[a] # <<>>
    PROVE  /\ Top(a) \in FrameType /\ Top(a) \in Frames(a) /\ FrameOk(Top(a))
           /\ Top(a).job \in Jobs
           /\ \A b \in Agents : \A g \in Frames(b) : Key(g) = Key(Top(a)) => b = a /\ g = Top(a)
           /\ Key(Top(a)) \notin Queued
<1>1. Top(a) \in FrameType /\ Top(a) \in Frames(a)
    BY TopFacts DEF LoopInv
<1>. QED
    BY <1>1 DEF LoopInv, KeysInv, FrameType

\* A call on several tasks begins.
LEMMA EnterParallelInv ==
    ASSUME LoopInv, NEW a \in Agents, NEW j \in Jobs, NEW len \in Lens, NEW grain \in Grains,
           NEW slots, EnterParallel(a, j, len, grain, slots)
    PROVE  LoopInv'
<1>1. /\ result[j] = "fresh" /\ slots \in {Nothing, NumTasks(len, grain).num}
      /\ result' = [result EXCEPT ![j] = "running"]
      /\ range' = [range EXCEPT ![j] = [len |-> len, grain |-> grain, slots |-> slots]]
      /\ Push(a, Enter(j))
      /\ UNCHANGED <<setting, pool, queue, region, tasks, nextTask, futures>>
    BY DEF EnterParallel
<1>2. PICK f : f = Enter(j)
    OBVIOUS
<1>3. f \in FrameType /\ f.job = j /\ f.id = Nothing /\ f.at = "enter"
    BY <1>2 DEF Enter, FrameType, Ids
<1>4. len \in Nat \ {0} /\ grain \in Nat /\ slots \in Ids
    BY <1>1, LoopsAssumption, NumTasksFacts DEF Ids, LoopInv
<1>5. LoopTypes
    BY DEF LoopInv
<1>6. f \notin Frames(a)
    BY <1>1, <1>3, FreshUnused
<1>7. /\ stack' \in [Agents -> Seq(FrameType)]
      /\ \A b \in Agents : IsInjective(stack'[b])
      /\ Frames(a)' = Frames(a) \cup {f}
      /\ \A b \in Agents \ {a} : Frames(b)' = Frames(b)
    BY <1>1, <1>2, <1>3, <1>5, <1>6, PushFacts
<1>8. LoopTypes'
    BY <1>1, <1>4, <1>5, <1>7 DEF LoopTypes
<1>9. Queued' = Queued
    BY <1>1 DEF Queued
<1>10. KeysInv'
    <2>1. \A b \in Agents : \A g \in Frames(b) : Key(g) # Key(f)
        BY <1>1, <1>3, FreshUnused DEF Key
    <2>2. Queued' \subseteq Queued \ {Key(f)}
        BY <1>1, <1>3, <1>9, FreshUnused DEF Key
    <2>3. KeysInv
        BY DEF LoopInv
    <2>. QED
        BY <1>7, <2>1, <2>2, <2>3, PushKeys
<1>11. FrameOk(f)'
    BY <1>1, <1>3, <1>4, <1>5 DEF FrameOk, LoopInv, LoopTypes, JobOk
<1>12. JobOk(j)'
    BY <1>1, <1>5 DEF LoopInv, LoopTypes, JobOk, Given
<1>13. \A k \in Jobs \ {j} : /\ result'[k] = result[k] /\ range'[k] = range[k]
                             /\ tasks'[k] = tasks[k] /\ nextTask'[k] = nextTask[k]
                             /\ futures'[k] = futures[k]
    BY <1>1, <1>5 DEF LoopTypes
<1>14. \A b \in Agents : \A g \in Frames(b)' : IF g.job = j THEN FrameOk(g)' ELSE g \in Frames(b)
    BY <1>1, <1>3, <1>7, <1>11, FreshUnused
<1>15. \A q \in Queued' : IF q[1] = j THEN QueuedOk(q)' ELSE q \in Queued
    BY <1>1, <1>9, FreshUnused
<1>. QED
    BY <1>1, <1>8, <1>10, <1>12, <1>13, <1>14, <1>15, StepInv

\* _parallel_run takes the place of the call that entered it.
LEMMA StartRunInv ==
    ASSUME LoopInv, NEW a \in Agents, StartRun(a)
    PROVE  LoopInv'
<1>1. PICK t, j : t = Top(a) /\ j = t.job
    OBVIOUS
<1>2. /\ stack[a] # <<>> /\ t.at = "enter"
      /\ tasks' = [tasks EXCEPT ![j] = NumTasks(range[j].len, range[j].grain)]
      /\ nextTask' = [nextTask EXCEPT ![j] = 1]
      /\ ReplaceTop(a, Run(j))
      /\ UNCHANGED <<setting, pool, queue, region, result, range, futures>>
    BY <1>1 DEF StartRun, IsAt
<1>3. /\ t \in FrameType /\ t \in Frames(a) /\ FrameOk(t) /\ j \in Jobs
      /\ \A b \in Agents : \A g \in Frames(b) : Key(g) = Key(t) => b = a /\ g = t
      /\ Key(t) \notin Queued
    BY <1>1, <1>2, TopKey
<1>4. /\ t.id = Nothing /\ result[j] = "running"
      /\ tasks[j].num = 0 /\ range[j].len > 0
    BY <1>1, <1>2, <1>3 DEF FrameOk
<1>5. PICK f : f = Run(j)
    OBVIOUS
<1>6. f \in FrameType /\ f.job = j /\ f.id = Nothing /\ f.at = "run" /\ Key(f) = Key(t)
    BY <1>1, <1>3, <1>4, <1>5 DEF Run, FrameType, Ids, Key
<1>7. LoopTypes
    BY DEF LoopInv
<1>8. /\ stack' \in [Agents -> Seq(FrameType)]
      /\ \A b \in Agents : IsInjective(stack'[b])
      /\ Frames(a)' = (Frames(a) \ {t}) \cup {f}
      /\ \A b \in Agents \ {a} : Frames(b)' = Frames(b)
    <2>1. f \notin Frames(a) \ {t}
        BY <1>3, <1>6
    <2>. QED
        BY <1>1, <1>2, <1>5, <1>6, <1>7, <2>1, ReplaceFacts
<1>9. NumTasks(range[j].len, range[j].grain) \in [num : Nat, chunk : Nat]
    <2>1. range[j].len \in Nat \ {0} /\ range[j].grain \in Nat
        BY <1>3, <1>4, <1>7 DEF LoopTypes
    <2>. QED
        BY <1>7, <2>1, NumTasksFacts
<1>10. LoopTypes'
    BY <1>2, <1>7, <1>8, <1>9 DEF LoopTypes
<1>11. Queued' = Queued
    BY <1>2 DEF Queued
<1>12. KeysInv'
    <2>1. KeysInv
        BY DEF LoopInv
    <2>. QED
        BY <1>3, <1>6, <1>8, <1>11, <2>1, ReplaceKeys
<1>13. \A i : ~Given(j, i)
    BY <1>4 DEF Given
<1>14. /\ \A b \in Agents : \A g \in Frames(b) : g.job = j => g = t
       /\ \A q \in Queued : q[1] # j
    BY <1>1, <1>3, <1>4, <1>13, OtherPlaces DEF Pending
<1>15. nextTask'[j] = 1 /\ tasks'[j].num \in Nat /\ result'[j] = "running" /\ futures'[j] = futures[j]
    BY <1>2, <1>3, <1>4, <1>7, <1>9 DEF LoopTypes
<1>16. FrameOk(f)'
    BY <1>6, <1>15 DEF FrameOk
<1>17. JobOk(j)'
    BY <1>3, <1>13, <1>15 DEF LoopInv, JobOk
<1>18. \A k \in Jobs \ {j} : /\ result'[k] = result[k] /\ range'[k] = range[k]
                             /\ tasks'[k] = tasks[k] /\ nextTask'[k] = nextTask[k]
                             /\ futures'[k] = futures[k]
    BY <1>2, <1>7 DEF LoopTypes
<1>19. \A b \in Agents : \A g \in Frames(b)' : IF g.job = j THEN FrameOk(g)' ELSE g \in Frames(b)
    <2>1. ASSUME NEW b \in Agents, NEW g \in Frames(b)' PROVE g = f \/ g \in Frames(b) \ {t}
        BY <1>3, <1>8, <2>1
    <2>. QED
        BY <1>6, <1>14, <1>16, <2>1
<1>20. \A q \in Queued' : IF q[1] = j THEN QueuedOk(q)' ELSE q \in Queued
    BY <1>11, <1>14
<1>. QED
    BY <1>2, <1>3, <1>10, <1>12, <1>17, <1>18, <1>19, <1>20, StepInv

\* Task i of a job, which has just been given out, is nowhere yet.
LEMMA NewTask ==
    ASSUME LoopInv, NEW j \in Jobs, NEW i \in Nat, ~Pending(j, i)
    PROVE  /\ <<j, i>> \notin Queued
           /\ \A b \in Agents : \A g \in Frames(b) : Key(g) # <<j, i>>
<1>1. i # Nothing
    BY LoopsAssumption
<1>2. <<j, i>> \notin Queued
    BY <1>1 DEF LoopInv, QueuedOk
<1>3. ASSUME NEW b \in Agents, NEW g \in Frames(b), Key(g) = <<j, i>> PROVE FALSE
    <2>1. FrameOk(g) /\ g \in FrameType
        BY InvTypes DEF LoopInv
    <2>2. g.job = j /\ g.id = i
        BY <1>3 DEF Key
    <2>. QED
        BY <1>1, <2>1, <2>2 DEF FrameOk, FrameType
<1>. QED
    BY <1>2, <1>3

\* What a call that executes its job says of the job.
LEMMA RunFrame ==
    ASSUME LoopInv, NEW a \in Agents, IsAt(a, "run")
    PROVE  /\ stack[a] # <<>> /\ Top(a) \in Frames(a) /\ Top(a).id = Nothing
           /\ Top(a).job \in Jobs /\ result[Top(a).job] = "running" /\ FrameOk(Top(a))
           /\ nextTask[Top(a).job] \in Nat \ {0} /\ tasks[Top(a).job].num \in Nat
<1>1. PICK t : t = Top(a)
    OBVIOUS
<1>2. stack[a] # <<>> /\ t.at = "run"
    BY <1>1 DEF IsAt
<1>3. t \in Frames(a) /\ FrameOk(t) /\ t.job \in Jobs
    BY <1>1, <1>2, TopKey
<1>4. t.id = Nothing /\ result[t.job] = "running" /\ nextTask[t.job] > 0
    BY <1>2, <1>3 DEF FrameOk
<1>5. nextTask[t.job] \in Nat /\ tasks[t.job].num \in Nat
    BY <1>3 DEF LoopInv, LoopTypes
<1>. QED
    BY <1>1, <1>2, <1>3, <1>4, <1>5

\* A task goes to the pool.
LEMMA SubmitTaskInv ==
    ASSUME LoopInv, NEW a \in Agents, SubmitTask(a), PoolAfter # 0
    PROVE  LoopInv'
<1>1. PICK j, n : j = Top(a).job /\ n = nextTask[j]
    OBVIOUS
<1>2. /\ IsAt(a, "run") /\ n < tasks[j].num /\ Submit(<<j, n>>)
      /\ nextTask' = [nextTask EXCEPT ![j] = n + 1]
      /\ UNCHANGED <<stack, region, result, range, tasks, futures>>
    BY <1>1 DEF SubmitTask
<1>3. /\ j \in Jobs /\ result[j] = "running" /\ n \in Nat \ {0} /\ tasks[j].num \in Nat
    BY <1>1, <1>2, RunFrame
<1>4. LoopTypes /\ KeysInv /\ JobOk(j)
    BY <1>3 DEF LoopInv
<1>5. ~Pending(j, n)
    BY <1>1, <1>3 DEF Pending, Given
<1>6. <<j, n>> \in Jobs \X Ids /\ <<j, n>> \notin Queued
    BY <1>3, <1>5, NewTask DEF Ids
<1>7. /\ setting' = CONSUMED /\ pool' = PoolAfter /\ pool' \in 0..MaxWorkers
      /\ pool # Nothing => pool' = pool
      /\ Queued' = Queued \cup {<<j, n>>}
      /\ queue' \in Seq(Jobs \X Ids) /\ IsInjective(queue')
    BY <1>2, <1>4, <1>6, SubmitFacts
<1>8. pool' # 0 /\ pool' # Nothing
    BY <1>7, LoopsAssumption
<1>9. LoopTypes'
    <2>1. nextTask' \in [Jobs -> Nat]
        BY <1>1, <1>2, <1>3, <1>4 DEF LoopTypes
    <2>2. pool' \in 0..MaxWorkers \cup {Nothing} /\ (pool' # Nothing <=> setting' = CONSUMED)
        BY <1>7, <1>8
    <2>. QED
        BY <1>2, <1>4, <1>7, <2>1, <2>2 DEF LoopTypes
<1>10. \A b \in Agents : Frames(b)' = Frames(b)
    BY <1>2 DEF Frames
<1>11. KeysInv'
    <2>1. \A b \in Agents : \A g \in Frames(b) : Key(g) # <<j, n>>
        BY <1>3, <1>5, NewTask
    <2>. QED
        BY <1>4, <1>7, <1>10, <2>1 DEF KeysInv
<1>12. nextTask[j] = n /\ nextTask'[j] = n + 1
    BY <1>1, <1>2, <1>3, <1>4 DEF LoopTypes
<1>13. \A i : Given(j, i) => Given(j, i)'
    BY <1>2, <1>3, <1>12 DEF Given
<1>14. \A i : Pending(j, i) => Pending(j, i)'
    BY <1>2, <1>13 DEF Pending
<1>15. Pending(j, n)'
    <2>1. Given(j, n)'
        BY <1>2, <1>3, <1>12 DEF Given
    <2>2. n \notin futures[j]
        BY <1>3, <1>4, <1>12 DEF JobOk, Given
    <2>. QED
        BY <1>2, <1>3, <2>1, <2>2 DEF Pending
<1>16. JobOk(j)'
    BY <1>2, <1>3, <1>4, <1>8, <1>12, <1>13 DEF JobOk
<1>17. \A k \in Jobs \ {j} : /\ result'[k] = result[k] /\ range'[k] = range[k]
                             /\ tasks'[k] = tasks[k] /\ nextTask'[k] = nextTask[k]
                             /\ futures'[k] = futures[k]
    BY <1>2, <1>4 DEF LoopTypes
<1>18. \A b \in Agents : \A g \in Frames(b) : g.job = j => FrameOk(g)'
    <2>1. ASSUME NEW b \in Agents, NEW g \in Frames(b), g.job = j PROVE FrameOk(g)'
        <3>1. FrameOk(g)
            BY DEF LoopInv
        <3>2. g.at # "enter"
            BY <1>3, <1>12, <2>1, <3>1 DEF FrameOk
        <3>. QED
            BY <1>2, <1>3, <1>12, <1>14, <2>1, <3>1, <3>2 DEF FrameOk
    <2>. QED
        BY <2>1
<1>19. \A q \in Queued' : IF q[1] = j THEN QueuedOk(q)' ELSE q \in Queued
    <2>1. ASSUME NEW q \in Queued', q[1] = j PROVE QueuedOk(q)'
        <3>1. CASE q \in Queued
            BY <1>2, <1>14, <2>1, <3>1 DEF LoopInv, QueuedOk
        <3>2. CASE q = <<j, n>>
            BY <1>3, <1>15, <3>2, LoopsAssumption DEF QueuedOk
        <3>. QED
            BY <1>7, <3>1, <3>2
    <2>2. \A q \in Queued' : q[1] # j => q \in Queued
        BY <1>7
    <2>. QED
        BY <2>1, <2>2
<1>. QED
    BY <1>3, <1>7, <1>9, <1>10, <1>11, <1>16, <1>17, <1>18, <1>19, StepInv

\* A pool without workers refuses the first task: no other has been submitted.
LEMMA RefusedInv ==
    ASSUME LoopInv, NEW a \in Agents, SubmitTask(a), PoolAfter = 0
    PROVE  LoopInv'
<1>1. PICK j, n, t : t = Top(a) /\ j = t.job /\ n = nextTask[j]
    OBVIOUS
<1>2. /\ IsAt(a, "run") /\ n < tasks[j].num /\ Submit(<<j, n>>)
      /\ result' = [result EXCEPT ![j] = "refused"] /\ Pop(a)
      /\ UNCHANGED <<nextTask, region, range, tasks, futures>>
    BY <1>1 DEF SubmitTask
<1>3. /\ j \in Jobs /\ result[j] = "running" /\ n \in Nat \ {0} /\ tasks[j].num \in Nat
      /\ stack[a] # <<>> /\ t \in Frames(a) /\ t.id = Nothing
    BY <1>1, <1>2, RunFrame
<1>4. LoopTypes /\ KeysInv /\ JobOk(j)
    BY <1>3 DEF LoopInv
<1>5. \A i : ~Pending(j, i)
    <2>1. n = 1
        BY <1>1, <1>2, <1>3, <1>4, PoolAfterType DEF JobOk
    <2>. QED
        BY <1>1, <1>2, <1>3, <2>1 DEF Pending, Given
<1>6. <<j, n>> \in Jobs \X Ids /\ <<j, n>> \notin Queued
    BY <1>3, <1>5, NewTask DEF Ids
<1>7. /\ setting' = CONSUMED /\ pool' = PoolAfter /\ pool' \in 0..MaxWorkers
      /\ pool # Nothing => pool' = pool
      /\ queue' = queue
    BY <1>2, <1>4, <1>6, SubmitFacts
<1>8. /\ stack' \in [Agents -> Seq(FrameType)]
      /\ \A b \in Agents : IsInjective(stack'[b])
      /\ Frames(a)' = Frames(a) \ {t}
      /\ \A b \in Agents \ {a} : Frames(b)' = Frames(b)
    BY <1>1, <1>2, <1>3, <1>4, PopFacts
<1>9. LoopTypes'
    <2>1. pool' # Nothing
        BY <1>7, LoopsAssumption
    <2>. QED
        BY <1>2, <1>4, <1>7, <1>8, <2>1 DEF LoopTypes
<1>10. Queued' = Queued
    BY <1>7 DEF Queued
<1>11. KeysInv'
    BY <1>3, <1>4, <1>8, <1>10, ReplaceKeys
<1>12. /\ \A b \in Agents : \A g \in Frames(b)' : g \in Frames(b) /\ g.job # j
       /\ \A q \in Queued : q[1] # j
    <2>1. /\ \A b \in Agents : \A g \in Frames(b) : g.job = j => g = t
          /\ \A q \in Queued : q[1] # j
        BY <1>1, <1>3, <1>5, OtherPlaces
    <2>2. ASSUME NEW b \in Agents, NEW g \in Frames(b)' PROVE g \in Frames(b) \ {t}
        <3>1. t \in Frames(b) => b = a
            BY <1>3, <1>4 DEF KeysInv
        <3>. QED
            BY <1>8, <3>1
    <2>. QED
        BY <2>1, <2>2
<1>13. result'[j] = "refused"
    BY <1>2, <1>3, <1>4 DEF LoopTypes
<1>14. JobOk(j)'
    BY <1>2, <1>3, <1>4, <1>7, <1>13 DEF JobOk, Given
<1>15. \A k \in Jobs \ {j} : /\ result'[k] = result[k] /\ range'[k] = range[k]
                             /\ tasks'[k] = tasks[k] /\ nextTask'[k] = nextTask[k]
                             /\ futures'[k] = futures[k]
    BY <1>2, <1>4 DEF LoopTypes
<1>. QED
    BY <1>3, <1>7, <1>9, <1>10, <1>11, <1>12, <1>14, <1>15, StepInv

\* What a thread that begins a task puts on its stack.
LEMMA BeginTaskFacts ==
    ASSUME LoopTypes, NEW a \in Agents, NEW j \in Jobs, NEW i \in Nat, BeginTask(a, j, i),
           \A g \in Frames(a) : Key(g) # <<j, i>>
    PROVE  \E f \in FrameType :
              /\ f.job = j /\ f.id = i /\ f.at \in {"body", "mark"} /\ Key(f) = <<j, i>>
              /\ f.at = "mark" => ~(Start(j, i) < range[j].len)
              /\ stack' \in [Agents -> Seq(FrameType)]
              /\ \A b \in Agents : IsInjective(stack'[b])
              /\ Frames(a)' = Frames(a) \cup {f}
              /\ \A b \in Agents \ {a} : Frames(b)' = Frames(b)
              /\ region' \in [Agents -> BOOLEAN]
<1>1. PICK f : f = Task(IF Start(j, i) < range[j].len THEN "body" ELSE "mark", j, i)
    OBVIOUS
<1>2. /\ f \in FrameType /\ f.job = j /\ f.id = i /\ f.at \in {"body", "mark"} /\ Key(f) = <<j, i>>
      /\ f.at = "mark" => ~(Start(j, i) < range[j].len)
    BY <1>1 DEF Task, FrameType, Ids, Key
<1>3. Push(a, f) /\ f \notin Frames(a)
    BY <1>1, <1>2 DEF BeginTask
<1>4. (Start(j, i) < range[j].len) \in BOOLEAN
    OBVIOUS
<1>5. region' \in [Agents -> BOOLEAN]
    BY <1>4, Zenon DEF LoopTypes, BeginTask
<1>. QED
    BY <1>2, <1>3, <1>5, PushFacts

\* The caller begins the first task.
LEMMA RunFirstInv ==
    ASSUME LoopInv, NEW a \in Agents, RunFirst(a)
    PROVE  LoopInv'
<1>1. PICK j, n : j = Top(a).job /\ n = nextTask[j]
    OBVIOUS
<1>2. /\ IsAt(a, "run") /\ n = tasks[j].num /\ nextTask' = [nextTask EXCEPT ![j] = n + 1]
      /\ BeginTask(a, j, 0)
      /\ UNCHANGED <<setting, pool, queue, result, range, tasks, futures>>
    BY <1>1 DEF RunFirst
<1>3. /\ j \in Jobs /\ result[j] = "running" /\ n \in Nat \ {0} /\ tasks[j].num \in Nat
    BY <1>1, <1>2, RunFrame
<1>4. LoopTypes /\ KeysInv /\ JobOk(j)
    BY <1>3 DEF LoopInv
<1>5. ~Pending(j, 0)
    BY <1>1, <1>2, <1>3 DEF Pending, Given
<1>6. /\ <<j, 0>> \notin Queued
      /\ \A b \in Agents : \A g \in Frames(b) : Key(g) # <<j, 0>>
    BY <1>3, <1>5, NewTask
<1>7. PICK f \in FrameType :
         /\ f.job = j /\ f.id = 0 /\ f.at \in {"body", "mark"} /\ Key(f) = <<j, 0>>
         /\ f.at = "mark" => ~(Start(j, 0) < range[j].len)
         /\ stack' \in [Agents -> Seq(FrameType)]
         /\ \A b \in Agents : IsInjective(stack'[b])
         /\ Frames(a)' = Frames(a) \cup {f}
         /\ \A b \in Agents \ {a} : Frames(b)' = Frames(b)
         /\ region' \in [Agents -> BOOLEAN]
    <2>1. LoopTypes /\ j \in Jobs /\ BeginTask(a, j, 0) /\ \A g \in Frames(a) : Key(g) # <<j, 0>>
        BY <1>2, <1>3, <1>4, <1>6
    <2>. QED
        BY <2>1, BeginTaskFacts
<1>8. LoopTypes'
    <2>1. nextTask' \in [Jobs -> Nat]
        BY <1>2, <1>3, <1>4 DEF LoopTypes
    <2>2. UNCHANGED <<setting, pool, queue, result, range, tasks, futures>>
        BY <1>2
    <2>. QED
        BY <1>4, <1>7, <2>1, <2>2 DEF LoopTypes
<1>9. Queued' = Queued
    BY <1>2 DEF Queued
<1>10. KeysInv'
    BY <1>4, <1>6, <1>7, <1>9, PushKeys
<1>11. nextTask[j] = n /\ nextTask'[j] = n + 1
    BY <1>1, <1>2, <1>3, <1>4 DEF LoopTypes
<1>12. \A i : Given(j, i) => Given(j, i)'
    BY <1>2, <1>3, <1>11 DEF Given
<1>13. \A i : Pending(j, i) => Pending(j, i)'
    BY <1>2, <1>12 DEF Pending
<1>14. Pending(j, 0)'
    <2>1. Given(j, 0)'
        BY <1>2, <1>3, <1>11 DEF Given
    <2>2. 0 \notin futures[j]
        BY <1>2, <1>3, <1>4, <1>11 DEF JobOk, Given
    <2>. QED
        BY <1>2, <1>3, <2>1, <2>2 DEF Pending
<1>15. JobOk(j)'
    BY <1>2, <1>3, <1>4, <1>11, <1>12 DEF JobOk
<1>16. \A k \in Jobs \ {j} : /\ result'[k] = result[k] /\ range'[k] = range[k]
                             /\ tasks'[k] = tasks[k] /\ nextTask'[k] = nextTask[k]
                             /\ futures'[k] = futures[k]
    BY <1>2, <1>4 DEF LoopTypes
<1>17. \A b \in Agents : \A g \in Frames(b)' : IF g.job = j THEN FrameOk(g)' ELSE g \in Frames(b)
    <2>1. ASSUME NEW b \in Agents, NEW g \in Frames(b), g.job = j PROVE FrameOk(g)'
        <3>1. FrameOk(g)
            BY DEF LoopInv
        <3>2. g.at # "enter"
            BY <1>3, <1>11, <2>1, <3>1 DEF FrameOk
        <3>. QED
            BY <1>2, <1>3, <1>11, <1>13, <2>1, <3>1, <3>2 DEF FrameOk
    <2>2. FrameOk(f)'
        BY <1>7, <1>14 DEF FrameOk
    <2>3. \A b \in Agents : \A g \in Frames(b)' : g = f \/ g \in Frames(b)
        BY <1>7
    <2>. QED
        BY <1>7, <2>1, <2>2, <2>3
<1>18. \A q \in Queued' : IF q[1] = j THEN QueuedOk(q)' ELSE q \in Queued
    BY <1>2, <1>9, <1>13 DEF LoopInv, QueuedOk
<1>. QED
    BY <1>2, <1>3, <1>8, <1>10, <1>15, <1>16, <1>17, <1>18, StepInv

\* When only what is executed changes, what is said of a job stays.
LEMMA SameJobs ==
    ASSUME UNCHANGED <<pool, result, range, tasks, nextTask, futures>>
    PROVE  /\ \A f : FrameOk(f)' = FrameOk(f)
           /\ \A q : QueuedOk(q)' = QueuedOk(q)
           /\ \A j : JobOk(j)' = JobOk(j)
           /\ \A j, i : Pending(j, i)' = Pending(j, i)
<1>1. \A j, i : Given(j, i)' = Given(j, i) /\ Pending(j, i)' = Pending(j, i)
    BY DEF Given, Pending
<1>2. \A f : FrameOk(f)' = FrameOk(f)
    BY <1>1 DEF FrameOk
<1>3. \A q : QueuedOk(q)' = QueuedOk(q)
    BY <1>1 DEF QueuedOk
<1>4. \A j : JobOk(j)' = JobOk(j)
    BY <1>1 DEF JobOk
<1>. QED
    BY <1>1, <1>2, <1>3, <1>4

\* A worker takes a task or a function.
LEMMA TakeTaskInv ==
    ASSUME LoopInv, NEW w \in Workers, TakeTask(w)
    PROVE  LoopInv'
<1>1. PICK task : task = Head(queue)
    OBVIOUS
<1>2. /\ queue # <<>> /\ queue' = Tail(queue)
      /\ IF task[2] = Nothing THEN Push(w, Func(task[1])) /\ UNCHANGED region
         ELSE BeginTask(w, task[1], task[2])
      /\ UNCHANGED <<setting, pool, result, range, tasks, nextTask, futures>>
    BY <1>1 DEF TakeTask, jobVars
<1>3. LoopTypes /\ KeysInv /\ w \in Agents
    BY DEF LoopInv, Agents
<1>4. /\ task \in Queued /\ task \in Jobs \X Ids /\ QueuedOk(task)
      /\ queue' \in Seq(Jobs \X Ids) /\ IsInjective(queue')
      /\ Queued' = Queued \ {task}
    <2>1. queue \in Seq(Jobs \X Ids) /\ IsInjective(queue)
        BY <1>3 DEF LoopTypes
    <2>2. /\ task \in Queued /\ task \in Jobs \X Ids
          /\ queue' \in Seq(Jobs \X Ids) /\ IsInjective(queue')
          /\ Queued' = Queued \ {task}
        BY <1>1, <1>2, <2>1, TailElements DEF Queued
    <2>. QED
        BY <2>2 DEF LoopInv
<1>5. PICK j, i : task = <<j, i>> /\ j \in Jobs /\ i \in Ids
    BY <1>4
<1>6. \A b \in Agents : \A g \in Frames(b) : Key(g) # <<j, i>>
    BY <1>3, <1>4, <1>5 DEF KeysInv
<1>7. PICK f \in FrameType :
         /\ f.job = j /\ f.id = i /\ Key(f) = <<j, i>> /\ FrameOk(f)
         /\ stack' \in [Agents -> Seq(FrameType)]
         /\ \A b \in Agents : IsInjective(stack'[b])
         /\ Frames(w)' = Frames(w) \cup {f}
         /\ \A b \in Agents \ {w} : Frames(b)' = Frames(b)
         /\ region' \in [Agents -> BOOLEAN]
    <2>1. CASE i = Nothing
        <3>1. PICK f : f = Func(j)
            OBVIOUS
        <3>2. f \in FrameType /\ f.job = j /\ f.id = i /\ f.at = "func" /\ Key(f) = <<j, i>>
            BY <1>5, <2>1, <3>1 DEF Func, FrameType, Ids, Key
        <3>3. Push(w, f) /\ region' = region
            BY <1>2, <1>5, <2>1, <3>1
        <3>4. f \notin Frames(w)
            BY <1>3, <1>6, <3>2
        <3>5. FrameOk(f)
            BY <1>4, <1>5, <2>1, <3>2 DEF QueuedOk, FrameOk
        <3>6. region' \in [Agents -> BOOLEAN]
            BY <1>3, <3>3 DEF LoopTypes
        <3>. QED
            BY <1>3, <3>2, <3>3, <3>4, <3>5, <3>6, PushFacts
    <2>2. CASE i # Nothing
        <3>1. i \in Nat /\ BeginTask(w, j, i) /\ Pending(j, i)
            BY <1>2, <1>4, <1>5, <2>2 DEF Ids, QueuedOk
        <3>2. PICK f \in FrameType :
                 /\ f.job = j /\ f.id = i /\ f.at \in {"body", "mark"} /\ Key(f) = <<j, i>>
                 /\ stack' \in [Agents -> Seq(FrameType)]
                 /\ \A b \in Agents : IsInjective(stack'[b])
                 /\ Frames(w)' = Frames(w) \cup {f}
                 /\ \A b \in Agents \ {w} : Frames(b)' = Frames(b)
                 /\ region' \in [Agents -> BOOLEAN]
            BY <1>3, <1>5, <1>6, <3>1, BeginTaskFacts
        <3>3. FrameOk(f)
            BY <3>1, <3>2 DEF FrameOk
        <3>. QED
            BY <3>2, <3>3
    <2>. QED
        BY <2>1, <2>2
<1>8. LoopTypes'
    BY <1>2, <1>3, <1>4, <1>7 DEF LoopTypes
<1>9. KeysInv'
    BY <1>3, <1>4, <1>5, <1>6, <1>7, PushKeys
<1>10. \A b \in Agents : \A g \in Frames(b)' : FrameOk(g)'
    <2>1. \A b \in Agents : \A g \in Frames(b)' : g = f \/ g \in Frames(b)
        BY <1>3, <1>7
    <2>. QED
        BY <1>2, <1>7, <2>1, SameJobs DEF LoopInv
<1>11. \A q \in Queued' : QueuedOk(q)'
    BY <1>2, <1>4, SameJobs DEF LoopInv
<1>12. \A k \in Jobs : JobOk(k)'
    BY <1>2, SameJobs DEF LoopInv
<1>. QED
    BY <1>8, <1>9, <1>10, <1>11, <1>12 DEF LoopInv

\* A task goes on to another place of its code.
LEMMA ReplaceTaskInv ==
    ASSUME LoopInv, NEW a \in Agents, stack[a] # <<>>, Top(a).at \in {"body", "caught", "mark"},
           NEW where \in {"caught", "mark"}, ReplaceTop(a, Task(where, Top(a).job, Top(a).id)),
           region' \in [Agents -> BOOLEAN],
           UNCHANGED <<setting, pool, queue, result, range, tasks, nextTask, futures>>
    PROVE  LoopInv'
<1>1. PICK t, f : t = Top(a) /\ f = Task(where, t.job, t.id)
    OBVIOUS
<1>2. /\ t \in FrameType /\ t \in Frames(a) /\ FrameOk(t)
      /\ \A b \in Agents : \A g \in Frames(b) : Key(g) = Key(t) => b = a /\ g = t
    BY <1>1, TopKey
<1>3. f \in FrameType /\ Key(f) = Key(t) /\ f.job = t.job /\ f.id = t.id /\ f.at = where
    BY <1>1, <1>2 DEF Task, FrameType, Key
<1>4. LoopTypes /\ KeysInv
    BY DEF LoopInv
<1>5. /\ stack' \in [Agents -> Seq(FrameType)]
      /\ \A b \in Agents : IsInjective(stack'[b])
      /\ Frames(a)' = (Frames(a) \ {t}) \cup {f}
      /\ \A b \in Agents \ {a} : Frames(b)' = Frames(b)
    <2>1. f \notin Frames(a) \ {t}
        BY <1>2, <1>3
    <2>. QED
        BY <1>1, <1>3, <1>4, <2>1, ReplaceFacts
<1>6. LoopTypes'
    BY <1>4, <1>5 DEF LoopTypes
<1>7. Queued' = Queued
    BY DEF Queued
<1>8. KeysInv'
    BY <1>2, <1>3, <1>4, <1>5, <1>7, ReplaceKeys
<1>9. FrameOk(f)
    BY <1>1, <1>2, <1>3 DEF FrameOk
<1>10. \A b \in Agents : \A g \in Frames(b)' : FrameOk(g)'
    <2>1. \A b \in Agents : \A g \in Frames(b)' : g = f \/ g \in Frames(b)
        BY <1>5
    <2>. QED
        BY <1>9, <2>1, SameJobs DEF LoopInv
<1>11. \A q \in Queued' : QueuedOk(q)'
    BY <1>7, SameJobs DEF LoopInv
<1>12. \A k \in Jobs : JobOk(k)'
    BY SameJobs DEF LoopInv
<1>. QED
    BY <1>6, <1>8, <1>10, <1>11, <1>12 DEF LoopInv

\* f returns or throws, and the first error is stored.
LEMMA EndBodyInv ==
    ASSUME LoopInv, NEW a \in Agents, NEW throws \in BOOLEAN, EndBody(a, throws) \/ StoreError(a)
    PROVE  LoopInv'
<1>1. CASE EndBody(a, throws)
    <2>1. /\ stack[a] # <<>> /\ Top(a).at = "body"
          /\ region' = [region EXCEPT ![a] = FALSE]
          /\ UNCHANGED <<setting, pool, queue, result, range, tasks, nextTask, futures>>
        BY <1>1 DEF EndBody, IsAt
    <2>2. PICK where \in {"caught", "mark"} : ReplaceTop(a, Task(where, Top(a).job, Top(a).id))
        BY <1>1 DEF EndBody
    <2>3. region' \in [Agents -> BOOLEAN]
        BY <2>1 DEF LoopInv, LoopTypes
    <2>. QED
        BY <2>1, <2>2, <2>3, ReplaceTaskInv
<1>2. CASE StoreError(a)
    <2>1. /\ stack[a] # <<>> /\ Top(a).at = "caught"
          /\ ReplaceTop(a, Task("mark", Top(a).job, Top(a).id))
          /\ UNCHANGED <<setting, pool, queue, region, result, range, tasks, nextTask, futures>>
        BY <1>2 DEF StoreError, IsAt
    <2>2. region' \in [Agents -> BOOLEAN]
        BY <2>1 DEF LoopInv, LoopTypes
    <2>. QED
        BY <2>1, <2>2, ReplaceTaskInv
<1>. QED
    BY <1>1, <1>2

\* A task completes its future, which nobody else will.
LEMMA MarkFutureInv ==
    ASSUME LoopInv, NEW a \in Agents, MarkFuture(a)
    PROVE  LoopInv'
<1>1. PICK t, j, i : t = Top(a) /\ j = t.job /\ i = t.id
    OBVIOUS
<1>2. /\ stack[a] # <<>> /\ t.at = "mark"
      /\ futures' = [futures EXCEPT ![j] = @ \cup {i}] /\ Pop(a)
      /\ UNCHANGED <<setting, pool, queue, region, result, range, tasks, nextTask>>
    BY <1>1 DEF MarkFuture, IsAt
<1>3. /\ t \in FrameType /\ t \in Frames(a) /\ FrameOk(t) /\ j \in Jobs
      /\ \A b \in Agents : \A g \in Frames(b) : Key(g) = Key(t) => b = a /\ g = t
      /\ Key(t) \notin Queued /\ Key(t) = <<j, i>>
    BY <1>1, <1>2, TopKey DEF Key
<1>4. Pending(j, i)
    BY <1>1, <1>2, <1>3 DEF FrameOk
<1>5. LoopTypes /\ KeysInv /\ JobOk(j)
    BY <1>3 DEF LoopInv
<1>6. /\ stack' \in [Agents -> Seq(FrameType)]
      /\ \A b \in Agents : IsInjective(stack'[b])
      /\ Frames(a)' = Frames(a) \ {t}
      /\ \A b \in Agents \ {a} : Frames(b)' = Frames(b)
    BY <1>1, <1>2, <1>5, PopFacts
<1>7. i \in Nat /\ futures'[j] = futures[j] \cup {i}
    <2>1. i \in 0..(tasks[j].num - 1) /\ tasks[j].num \in Nat
        BY <1>3, <1>4, <1>5 DEF Pending, Given, LoopTypes
    <2>. QED
        BY <1>2, <1>3, <1>5, <2>1 DEF LoopTypes
<1>8. LoopTypes'
    BY <1>2, <1>5, <1>6, <1>7 DEF LoopTypes
<1>9. Queued' = Queued
    BY <1>2 DEF Queued
<1>10. KeysInv'
    BY <1>3, <1>5, <1>6, <1>9, ReplaceKeys
<1>11. \A k : Given(j, k)' = Given(j, k)
    BY <1>2 DEF Given
<1>12. \A k : k # i /\ Pending(j, k) => Pending(j, k)'
    BY <1>2, <1>7, <1>11 DEF Pending
<1>13. JobOk(j)'
    BY <1>2, <1>4, <1>5, <1>7, <1>11 DEF JobOk, Pending
<1>14. \A k \in Jobs \ {j} : /\ result'[k] = result[k] /\ range'[k] = range[k]
                             /\ tasks'[k] = tasks[k] /\ nextTask'[k] = nextTask[k]
                             /\ futures'[k] = futures[k]
    BY <1>2, <1>5 DEF LoopTypes
<1>15. \A b \in Agents : \A g \in Frames(b)' : IF g.job = j THEN FrameOk(g)' ELSE g \in Frames(b)
    <2>1. ASSUME NEW b \in Agents, NEW g \in Frames(b)' PROVE g \in Frames(b) /\ Key(g) # <<j, i>>
        <3>1. g \in Frames(b) /\ ~(b = a /\ g = t)
            BY <1>6
        <3>. QED
            BY <1>3, <3>1
    <2>2. ASSUME NEW b \in Agents, NEW g \in Frames(b), g.job = j, Key(g) # <<j, i>> PROVE FrameOk(g)'
        <3>1. FrameOk(g) /\ g.id # i
            BY <2>2 DEF LoopInv, Key
        <3>. QED
            BY <1>2, <1>12, <2>2, <3>1 DEF FrameOk
    <2>. QED
        BY <2>1, <2>2
<1>16. \A q \in Queued' : IF q[1] = j THEN QueuedOk(q)' ELSE q \in Queued
    <2>1. ASSUME NEW q \in Queued, q[1] = j PROVE QueuedOk(q)'
        <3>1. QueuedOk(q) /\ q \in Jobs \X Ids
            BY InvTypes DEF LoopInv
        <3>2. q[2] # i
            BY <1>3, <2>1, <3>1
        <3>. QED
            BY <1>2, <1>12, <2>1, <3>1, <3>2 DEF QueuedOk
    <2>. QED
        BY <1>9, <2>1
<1>. QED
    BY <1>2, <1>3, <1>8, <1>10, <1>13, <1>14, <1>15, <1>16, StepInv

\* A job ends: what executed it is dropped, and nothing else of it is left.
LEMMA EndInv ==
    ASSUME LoopInv, NEW a \in Agents, stack[a] # <<>>, Pop(a), Top(a).id = Nothing,
           \A i : ~Pending(Top(a).job, i),
           NEW r \in {"returned", "raised", "refused", "lost"},
           result' = [result EXCEPT ![Top(a).job] = r],
           UNCHANGED <<setting, pool, queue, region, range, tasks, nextTask, futures>>
    PROVE  LoopInv'
<1>1. PICK t, j : t = Top(a) /\ j = t.job
    OBVIOUS
<1>2. /\ t \in FrameType /\ t \in Frames(a) /\ j \in Jobs
      /\ \A b \in Agents : \A g \in Frames(b) : Key(g) = Key(t) => b = a /\ g = t
    BY <1>1, TopKey
<1>3. LoopTypes /\ KeysInv /\ JobOk(j)
    BY <1>2 DEF LoopInv
<1>4. /\ stack' \in [Agents -> Seq(FrameType)]
      /\ \A b \in Agents : IsInjective(stack'[b])
      /\ Frames(a)' = Frames(a) \ {t}
      /\ \A b \in Agents \ {a} : Frames(b)' = Frames(b)
    BY <1>1, <1>3, PopFacts
<1>5. LoopTypes'
    BY <1>1, <1>3, <1>4 DEF LoopTypes
<1>6. Queued' = Queued
    BY DEF Queued
<1>7. KeysInv'
    BY <1>2, <1>3, <1>4, <1>6, ReplaceKeys
<1>8. /\ \A b \in Agents : \A g \in Frames(b)' : g \in Frames(b) /\ g.job # j
      /\ \A q \in Queued : q[1] # j
    <2>1. /\ \A b \in Agents : \A g \in Frames(b) : g.job = j => g = t
          /\ \A q \in Queued : q[1] # j
        BY <1>1, <1>2, OtherPlaces
    <2>2. ASSUME NEW b \in Agents, NEW g \in Frames(b)' PROVE g \in Frames(b) \ {t}
        <3>1. t \in Frames(b) => b = a
            BY <1>2
        <3>. QED
            BY <1>4, <3>1
    <2>. QED
        BY <2>1, <2>2
<1>9. result'[j] = r
    BY <1>1, <1>2, <1>3 DEF LoopTypes
<1>10. JobOk(j)'
    BY <1>3, <1>9 DEF JobOk, Given
<1>11. \A k \in Jobs \ {j} : /\ result'[k] = result[k] /\ range'[k] = range[k]
                             /\ tasks'[k] = tasks[k] /\ nextTask'[k] = nextTask[k]
                             /\ futures'[k] = futures[k]
    BY <1>1, <1>3 DEF LoopTypes
<1>. QED
    BY <1>2, <1>5, <1>6, <1>7, <1>8, <1>10, <1>11, StepInv

\* _parallel_run returns when all its futures are completed.
LEMMA ReturnInv ==
    ASSUME LoopInv, NEW a \in Agents, Return(a)
    PROVE  LoopInv'
<1>1. PICK j : j = Top(a).job
    OBVIOUS
<1>2. /\ IsAt(a, "run") /\ futures[j] = 0..(tasks[j].num - 1) /\ Pop(a)
      /\ UNCHANGED <<setting, pool, queue, region, range, tasks, nextTask, futures>>
    BY <1>1 DEF Return
<1>3. PICK r \in {"returned", "raised", "refused", "lost"} : result' = [result EXCEPT ![j] = r]
    BY <1>1 DEF Return
<1>4. stack[a] # <<>> /\ Top(a).id = Nothing
    BY <1>2, RunFrame
<1>5. \A i : ~Pending(j, i)
    BY <1>2 DEF Pending, Given
<1>. QED
    BY <1>1, <1>2, <1>3, <1>4, <1>5, EndInv

\* A launched function returns or throws.
LEMMA EndFuncInv ==
    ASSUME LoopInv, NEW a \in Agents, NEW throws \in BOOLEAN, EndFunc(a, throws)
    PROVE  LoopInv'
<1>1. PICK t, j : t = Top(a) /\ j = t.job
    OBVIOUS
<1>2. /\ stack[a] # <<>> /\ t.at = "func" /\ Pop(a)
      /\ UNCHANGED <<setting, pool, queue, region, range, tasks, nextTask, futures>>
    BY <1>1 DEF EndFunc, IsAt
<1>3. PICK r \in {"returned", "raised", "refused", "lost"} : result' = [result EXCEPT ![j] = r]
    <2>1. result' = [result EXCEPT ![j] = IF ~throws THEN "returned"
                                          ELSE IF result[j] = "inline" THEN "raised" ELSE "lost"]
        BY <1>1 DEF EndFunc
    <2>2. PICK r : r = IF ~throws THEN "returned" ELSE IF result[j] = "inline" THEN "raised" ELSE "lost"
        OBVIOUS
    <2>. QED
        BY <2>1, <2>2
<1>4. t.id = Nothing /\ result[j] \in {"launched", "inline"}
    BY <1>1, <1>2, TopKey DEF FrameOk
<1>5. \A i : ~Pending(j, i)
    BY <1>4 DEF Pending
<1>. QED
    BY <1>1, <1>2, <1>3, <1>4, <1>5, EndInv

\* A function goes to the pool, or is refused by a pool without workers.
LEMMA LaunchPoolInv ==
    ASSUME LoopInv, NEW a \in Agents, NEW j \in Jobs, result[j] = "fresh",
           Submit(<<j, Nothing>>),
           result' = [result EXCEPT ![j] = IF PoolAfter = 0 THEN "refused" ELSE "launched"],
           UNCHANGED <<stack, region, range, tasks, nextTask, futures>>
    PROVE  LoopInv'
<1>1. PICK task : task = <<j, Nothing>>
    OBVIOUS
<1>2. /\ \A b \in Agents : \A g \in Frames(b) : g.job # j
      /\ \A q \in Queued : q[1] # j
    BY FreshUnused
<1>3. task \in Jobs \X Ids /\ task \notin Queued /\ task[1] = j /\ task[2] = Nothing
    BY <1>1, <1>2 DEF Ids
<1>4. LoopTypes /\ KeysInv /\ JobOk(j)
    BY DEF LoopInv
<1>5. /\ setting' = CONSUMED /\ pool' = PoolAfter /\ pool' \in 0..MaxWorkers
      /\ pool # Nothing => pool' = pool
      /\ PoolAfter = 0 => queue' = queue
      /\ PoolAfter # 0 => Queued' = Queued \cup {task}
      /\ queue' \in Seq(Jobs \X Ids) /\ IsInjective(queue')
    BY <1>1, <1>3, <1>4, SubmitFacts
<1>6. pool' # Nothing
    BY <1>5, LoopsAssumption
<1>7. LoopTypes'
    BY <1>4, <1>5, <1>6 DEF LoopTypes
<1>8. Queued' \subseteq Queued \cup {task} /\ (PoolAfter = 0 => Queued' = Queued)
    BY <1>5 DEF Queued
<1>9. \A b \in Agents : Frames(b)' = Frames(b)
    BY DEF Frames
<1>10. KeysInv'
    <2>1. \A b \in Agents : \A g \in Frames(b) : Key(g) # task
        BY <1>2, <1>3 DEF Key
    <2>. QED
        BY <1>4, <1>8, <1>9, <2>1 DEF KeysInv
<1>11. result'[j] = IF PoolAfter = 0 THEN "refused" ELSE "launched"
    BY <1>4 DEF LoopTypes
<1>12. JobOk(j)'
    BY <1>4, <1>5, <1>11 DEF JobOk, Given
<1>13. \A k \in Jobs \ {j} : /\ result'[k] = result[k] /\ range'[k] = range[k]
                             /\ tasks'[k] = tasks[k] /\ nextTask'[k] = nextTask[k]
                             /\ futures'[k] = futures[k]
    BY <1>4 DEF LoopTypes
<1>14. \A q \in Queued' : IF q[1] = j THEN QueuedOk(q)' ELSE q \in Queued
    <2>1. ASSUME NEW q \in Queued', q[1] = j PROVE QueuedOk(q)'
        <3>1. q = task /\ PoolAfter # 0
            BY <1>2, <1>8, <2>1
        <3>. QED
            BY <1>3, <1>11, <3>1 DEF QueuedOk
    <2>2. \A q \in Queued' : q[1] # j => q \in Queued
        BY <1>3, <1>8
    <2>. QED
        BY <2>1, <2>2
<1>15. \A b \in Agents : \A g \in Frames(b)' : IF g.job = j THEN FrameOk(g)' ELSE g \in Frames(b)
    BY <1>2, <1>9
<1>. QED
    BY <1>5, <1>7, <1>10, <1>12, <1>13, <1>14, <1>15, StepInv

\* A function that is executed at once.
LEMMA LaunchInlineInv ==
    ASSUME LoopInv, NEW a \in Agents, NEW j \in Jobs, result[j] = "fresh", Push(a, Func(j)),
           result' = [result EXCEPT ![j] = "inline"],
           UNCHANGED <<setting, pool, queue, region, range, tasks, nextTask, futures>>
    PROVE  LoopInv'
<1>1. PICK f : f = Func(j)
    OBVIOUS
<1>2. f \in FrameType /\ f.job = j /\ f.id = Nothing /\ f.at = "func"
    BY <1>1 DEF Func, FrameType, Ids
<1>3. /\ \A b \in Agents : \A g \in Frames(b) : g.job # j /\ Key(g) # Key(f)
      /\ \A q \in Queued : q[1] # j
      /\ Key(f) \notin Queued
    BY <1>2, FreshUnused DEF Key
<1>4. LoopTypes /\ KeysInv /\ JobOk(j)
    BY DEF LoopInv
<1>5. /\ stack' \in [Agents -> Seq(FrameType)]
      /\ \A b \in Agents : IsInjective(stack'[b])
      /\ Frames(a)' = Frames(a) \cup {f}
      /\ \A b \in Agents \ {a} : Frames(b)' = Frames(b)
    BY <1>1, <1>2, <1>3, <1>4, PushFacts
<1>6. LoopTypes'
    BY <1>4, <1>5 DEF LoopTypes
<1>7. Queued' = Queued
    BY DEF Queued
<1>8. KeysInv'
    <2>1. Queued' \subseteq Queued \ {Key(f)}
        BY <1>3, <1>7
    <2>. QED
        BY <1>3, <1>4, <1>5, <2>1, PushKeys
<1>9. result'[j] = "inline"
    BY <1>4 DEF LoopTypes
<1>10. FrameOk(f)'
    BY <1>2, <1>9 DEF FrameOk
<1>11. JobOk(j)'
    BY <1>4, <1>9 DEF JobOk, Given
<1>12. \A k \in Jobs \ {j} : /\ result'[k] = result[k] /\ range'[k] = range[k]
                             /\ tasks'[k] = tasks[k] /\ nextTask'[k] = nextTask[k]
                             /\ futures'[k] = futures[k]
    BY <1>4 DEF LoopTypes
<1>13. \A b \in Agents : \A g \in Frames(b)' : IF g.job = j THEN FrameOk(g)' ELSE g \in Frames(b)
    <2>1. \A b \in Agents : \A g \in Frames(b)' : g = f \/ g \in Frames(b)
        BY <1>5
    <2>. QED
        BY <1>2, <1>3, <1>10, <2>1
<1>14. \A q \in Queued' : IF q[1] = j THEN QueuedOk(q)' ELSE q \in Queued
    BY <1>3, <1>7
<1>. QED
    BY <1>6, <1>8, <1>11, <1>12, <1>13, <1>14, StepInv

LEMMA LaunchInv ==
    ASSUME LoopInv, NEW a \in Agents, NEW j \in Jobs, Launch(a, j)
    PROVE  LoopInv'
<1>1. CASE ~InRegion(a) /\ NumThreads > 1
    BY <1>1, LaunchPoolInv DEF Launch
<1>2. CASE ~(~InRegion(a) /\ NumThreads > 1)
    BY <1>2, LaunchInlineInv DEF Launch
<1>. QED
    BY <1>1, <1>2

-----------------------------------------------------------------------------
\* Every step keeps the invariant.
LEMMA LoopStep ==
    ASSUME LoopInv, [ParNext]_parVars
    PROVE  LoopInv'
<1>1. ASSUME NEW c \in Callers, NEW k \in Settings, SetNumThreads(c, k) PROVE LoopInv'
    BY <1>1, SetNumThreadsInv
<1>2. ASSUME NEW w \in Workers, TakeTask(w) PROVE LoopInv'
    BY <1>2, TakeTaskInv
<1>3. ASSUME NEW a \in Agents, ParStep(a) PROVE LoopInv'
    BY <1>3, StartRunInv, SubmitTaskInv, RefusedInv, RunFirstInv, EndBodyInv, EndFuncInv,
       MarkFutureInv, ReturnInv DEF ParStep
<1>4. ASSUME NEW a \in Agents, NEW j \in Jobs, Launch(a, j) PROVE LoopInv'
    BY <1>4, LaunchInv
<1>5. ASSUME NEW a \in Agents, NEW j \in Jobs, NEW len \in Lens, NEW grain \in Grains,
             RunInline(a, j, len, grain)
      PROVE  LoopInv'
    BY <1>5, RunInlineInv
<1>6. ASSUME NEW a \in Agents, NEW j \in Jobs, NEW len \in Lens, NEW grain \in Grains, NEW slots,
             EnterParallel(a, j, len, grain, slots)
      PROVE  LoopInv'
    BY <1>6, EnterParallelInv
<1>7. CASE UNCHANGED parVars
    <2>1. UNCHANGED <<setting, pool, queue, stack, region, result, range, tasks, nextTask, futures>>
        BY <1>7 DEF parVars, jobVars
    <2>2. LoopTypes' /\ KeysInv'
        BY <2>1 DEF LoopInv, LoopTypes, KeysInv, Frames, Queued
    <2>. QED
        BY <2>1, <2>2, SameJobs DEF LoopInv, Frames, Queued
<1>. QED
    BY <1>1, <1>2, <1>3, <1>4, <1>5, <1>6, <1>7 DEF ParNext

\* What threads and the pool hold of the jobs of ParallelNative.cpp is always
\* what their calls still wait for.
THEOREM LoopInvariance == ParSpec => []LoopInv
<1>. QED
    BY LoopInit, LoopStep, PTL DEF ParSpec

\* What the invariant says of the ends of jobs.
LEMMA InvFrameAlive ==
    ASSUME LoopInv PROVE FrameAlive
<1>1. ParTypeOK
    <2>1. \A k \in 1..Len(queue) : queue[k][1] \in Jobs
        <3>1. queue \in Seq(Jobs \X Ids)
            BY DEF LoopInv, LoopTypes
        <3>2. \A k \in 1..Len(queue) : queue[k] \in Jobs \X Ids
            BY <3>1
        <3>. QED
            BY <3>2
    <2>2. ASSUME NEW j \in Jobs
          PROVE  /\ result[j] \in {"fresh", "running", "launched", "inline",
                                   "returned", "raised", "refused", "lost"}
                 /\ futures[j] \subseteq 0..tasks[j].num
                 /\ nextTask[j] \in 0..(tasks[j].num + 1)
        BY DEF LoopInv, LoopTypes, JobOk, Given
    <2>. QED
        BY <2>1, <2>2 DEF LoopInv, LoopTypes, ParTypeOK
<1>2. ASSUME NEW j \in Jobs, Ended(j), NEW k \in 1..Len(queue) PROVE queue[k][1] # j
    <2>1. queue[k] \in Queued
        BY DEF Queued, ToSet
    <2>. QED
        BY <1>2, <2>1 DEF LoopInv, QueuedOk, Pending, Ended
<1>3. ASSUME NEW j \in Jobs, Ended(j), NEW a \in Agents, NEW i \in 1..Len(stack[a]) PROVE stack[a][i].job # j
    <2>1. stack[a][i] \in Frames(a)
        BY DEF Frames, ToSet
    <2>2. FrameOk(stack[a][i]) /\ stack[a][i] \in FrameType
        BY <2>1, InvTypes DEF LoopInv
    <2>. QED
        BY <1>3, <2>2 DEF FrameOk, FrameType, Pending, Ended
<1>. QED
    BY <1>1, <1>2, <1>3 DEF FrameAlive

\* When _parallel_run has left, by whatever path, none of its tasks is queued
\* or running: err_flag, eptr and futures, which they hold by reference, are
\* alive (FrameAlive).
THEOREM TasksOutlivedByFrame == ParSpec => []FrameAlive
<1>. QED
    BY LoopInvariance, InvFrameAlive, PTL

\* The number of threads every part of the program reads, once set, stays,
\* also when the pool takes the setting over (NumThreadsFixed).
THEOREM ThreadsNeverChange == ParSpec => NumThreadsFixed
<1>1. ASSUME LoopInv, [ParNext]_parVars, setting # NOT_SET PROVE NumThreads' = NumThreads
    <2>1. CASE UNCHANGED <<setting, pool>>
        BY <2>1 DEF NumThreads
    <2>2. ASSUME NEW task, Submit(task) PROVE NumThreads' = NumThreads
        <3>1. setting' = CONSUMED /\ pool' = PoolAfter
            BY <2>2 DEF Submit
        <3>2. NumThreads' = PoolAfter + 1
            BY <3>1 DEF NumThreads, CONSUMED, NOT_SET
        <3>3. CASE setting = CONSUMED
            BY <1>1, <3>2, <3>3 DEF LoopInv, LoopTypes, PoolAfter, NumThreads, CONSUMED, NOT_SET
        <3>4. CASE setting \in Settings
            BY <1>1, <3>2, <3>4, LoopsAssumption
            DEF LoopInv, LoopTypes, PoolAfter, NumPoolThreads, NumThreads, CONSUMED, NOT_SET
        <3>. QED
            BY <1>1, <3>3, <3>4 DEF LoopInv, LoopTypes
    <2>3. ASSUME NEW a \in Agents, ParStep(a) PROVE NumThreads' = NumThreads
        <3>1. UNCHANGED <<setting, pool>> \/ \E task : Submit(task)
            BY <2>3 DEF ParStep, StartRun, SubmitTask, RunFirst, EndBody, EndFunc, StoreError,
                        MarkFuture, Return
        <3>. QED
            BY <2>1, <2>2, <3>1
    <2>4. ASSUME NEW a \in Agents, NEW j \in Jobs, Launch(a, j) PROVE NumThreads' = NumThreads
        <3>1. UNCHANGED <<setting, pool>> \/ Submit(<<j, Nothing>>)
            BY <2>4 DEF Launch
        <3>. QED
            BY <2>1, <2>2, <3>1
    <2>5. ASSUME NEW w \in Workers, TakeTask(w) PROVE NumThreads' = NumThreads
        BY <2>1, <2>5 DEF TakeTask
    <2>6. ASSUME NEW a \in Agents, NEW j \in Jobs, NEW len \in Lens, NEW grain \in Grains, NEW slots,
                 RunInline(a, j, len, grain) \/ EnterParallel(a, j, len, grain, slots)
          PROVE  NumThreads' = NumThreads
        BY <2>1, <2>6 DEF RunInline, EnterParallel
    <2>7. ASSUME NEW c \in Callers, NEW k \in Settings, SetNumThreads(c, k) PROVE NumThreads' = NumThreads
        BY <1>1, <2>7 DEF SetNumThreads
    <2>8. CASE UNCHANGED parVars
        BY <2>1, <2>8 DEF parVars
    <2>. QED
        BY <1>1, <2>3, <2>4, <2>5, <2>6, <2>7, <2>8 DEF ParNext
<1>. QED
    BY <1>1, LoopInvariance, PTL DEF ParSpec, NumThreadsFixed

-----------------------------------------------------------------------------
\* The answer of a job.  A frame at a place of the code of a task; a task that
\* has not called f yet; one that has.
On(where, k) == \E a \in Agents : \E f \in Frames(a) : f.at = where /\ Key(f) = k
Waiting(j, i) == <<j, i>> \in Queued \/ On("body", <<j, i>>)
Applied(j, i) == Given(j, i) /\ ~Waiting(j, i)
InChunk(j, i, x) == Start(j, i) <= x /\ x < End(j, i)

AnswerTypes ==
    /\ hits \in [Jobs -> [Indices -> Nat]]
    /\ err \in [Jobs -> BOOLEAN \X Ids]
    /\ threw \in [Jobs -> SUBSET Nat]

Untouched(j) ==
    /\ range[j] = NoRange /\ threw[j] = {} /\ err[j] = <<FALSE, Nothing>>
    /\ \A x \in Indices : hits[j][x] = 0

\* The indices of the chunks of the tasks that have called f are hit, no other.
HitsOk(j) ==
    /\ nextTask[j] = 0 => \A x \in Indices : hits[j][x] = 0
    /\ nextTask[j] > 0 => tasks[j].chunk > 0 /\ range[j].len <= tasks[j].num * tasks[j].chunk
    /\ \A x \in Indices : x >= range[j].len => hits[j][x] = 0
    /\ nextTask[j] > 0 => \A i \in 0..(tasks[j].num - 1) : \A x \in Indices :
          InChunk(j, i, x) => hits[j][x] = IF Applied(j, i) THEN 1 ELSE 0

\* Once the flag is set the exception is stored, or about to be.
ErrOk(j) ==
    /\ threw[j] # {} => err[j][1]
    /\ err[j][1] => err[j][2] # Nothing \/ \E i \in Nat : On("caught", <<j, i>>)
    /\ err[j][2] # Nothing => err[j][2] \in threw[j]
    /\ \A i \in Nat : On("caught", <<j, i>>) => i \in threw[j]

AnswerOk(j) ==
    /\ result[j] \in {"fresh", "launched", "inline"} => Untouched(j)
    /\ result[j] = "running" => HitsOk(j) /\ ErrOk(j)
    /\ result[j] = "returned" =>
          /\ threw[j] = {}
          /\ \A x \in Indices : hits[j][x] = IF x < range[j].len THEN 1 ELSE 0
    /\ result[j] = "raised" /\ range[j] # NoRange => err[j][2] \in threw[j]

AnswerInv == AnswerTypes /\ \A j \in Jobs : AnswerOk(j)

LEMMA MinTwo ==
    ASSUME NEW x \in Int, NEW y \in Int
    PROVE  Min({x, y}) = IF x <= y THEN x ELSE y
    BY DEF Min

LEMMA MulMono ==
    ASSUME NEW i \in Nat, NEW k \in Nat, NEW c \in Nat, i < k
    PROVE  i * c + c <= k * c
    OBVIOUS

LEMMA MulCancel ==
    ASSUME NEW i \in Nat, NEW k \in Nat, NEW c \in Nat, i * c < k * c
    PROVE  i < k
    OBVIOUS

\* The chunks of a range.
LEMMA ChunkMembers ==
    ASSUME LoopTypes, NEW j \in Jobs, NEW i \in Nat, NEW x \in Nat
    PROVE  InChunk(j, i, x) <=>
             /\ i * tasks[j].chunk <= x /\ x < i * tasks[j].chunk + tasks[j].chunk
             /\ x < range[j].len
<1>1. PICK s, c, len : s = i * tasks[j].chunk /\ c = tasks[j].chunk /\ len = range[j].len
    OBVIOUS
<1>2. s \in Nat /\ c \in Nat /\ len \in Nat
    BY <1>1 DEF LoopTypes
<1>3. Start(j, i) = s
    BY <1>1 DEF Start
<1>4. End(j, i) = IF len <= s + c THEN len ELSE s + c
    BY <1>1, <1>2, <1>3, MinTwo DEF End
<1>. QED
    BY <1>1, <1>2, <1>3, <1>4 DEF InChunk

LEMMA ChunksDisjoint ==
    ASSUME LoopTypes, NEW j \in Jobs, NEW i \in Nat, NEW k \in Nat, NEW x \in Nat,
           InChunk(j, i, x), InChunk(j, k, x)
    PROVE  i = k
<1>1. PICK c : c = tasks[j].chunk
    OBVIOUS
<1>2. c \in Nat
    BY <1>1 DEF LoopTypes
<1>3. i * c \in Nat /\ k * c \in Nat
    BY <1>2
<1>4. i * c <= x /\ x < i * c + c /\ k * c <= x /\ x < k * c + c
    BY <1>1, ChunkMembers
<1>5. ~(i < k)
    BY <1>2, <1>3, <1>4, MulMono
<1>6. ~(k < i)
    BY <1>2, <1>3, <1>4, MulMono
<1>. QED
    BY <1>5, <1>6

LEMMA ChunksCover ==
    ASSUME LoopTypes, NEW j \in Jobs, tasks[j].chunk > 0,
           range[j].len <= tasks[j].num * tasks[j].chunk, NEW x \in Nat, x < range[j].len
    PROVE  \E i \in 0..(tasks[j].num - 1) : InChunk(j, i, x)
<1>1. PICK c, n, i : c = tasks[j].chunk /\ n = tasks[j].num /\ i = x \div c
    OBVIOUS
<1>2. c \in Nat \ {0} /\ n \in Nat /\ range[j].len \in Nat
    BY <1>1 DEF LoopTypes
<1>3. i \in Nat /\ i * c <= x /\ x < i * c + c
    BY <1>1, <1>2, DivFacts
<1>4. i * c \in Nat /\ n * c \in Nat /\ i * c < n * c
    BY <1>1, <1>2, <1>3
<1>5. i < n
    BY <1>2, <1>3, <1>4, MulCancel
<1>6. InChunk(j, i, x)
    BY <1>1, <1>3, ChunkMembers
<1>. QED
    BY <1>1, <1>2, <1>3, <1>5, <1>6

\* What the stack operations do to the places of tasks.
LEMMA PushOn ==
    ASSUME NEW a \in Agents, NEW f,
           Frames(a)' = Frames(a) \cup {f}, \A b \in Agents \ {a} : Frames(b)' = Frames(b)
    PROVE  \A w, k : On(w, k)' <=> (On(w, k) \/ (f.at = w /\ Key(f) = k))
<1>1. \A g : Key(g)' = Key(g)
    BY DEF Key
<1>2. \A b \in Agents : \A g : g \in Frames(b)' <=> (g \in Frames(b) \/ (b = a /\ g = f))
    OBVIOUS
<1>. QED
    BY <1>1, <1>2 DEF On

LEMMA ReplaceOn ==
    ASSUME KeysInv, NEW a \in Agents, NEW t \in Frames(a), NEW f, Key(f) = Key(t),
           Frames(a)' = (Frames(a) \ {t}) \cup {f},
           \A b \in Agents \ {a} : Frames(b)' = Frames(b)
    PROVE  \A w, k : On(w, k)' <=> IF k = Key(t) THEN f.at = w ELSE On(w, k)
<1>1. \A g : Key(g)' = Key(g)
    BY DEF Key
<1>2. \A b \in Agents : \A g \in Frames(b) : Key(g) = Key(t) => b = a /\ g = t
    BY DEF KeysInv
<1>3. \A b \in Agents : \A g : g \in Frames(b)' <=> ((b = a /\ g = f) \/ (g \in Frames(b) /\ ~(b = a /\ g = t)))
    BY <1>2
<1>. QED
    BY <1>1, <1>2, <1>3 DEF On

LEMMA PopOn ==
    ASSUME KeysInv, NEW a \in Agents, NEW t \in Frames(a),
           Frames(a)' = Frames(a) \ {t}, \A b \in Agents \ {a} : Frames(b)' = Frames(b)
    PROVE  \A w, k : On(w, k)' <=> (k # Key(t) /\ On(w, k))
<1>1. \A g : Key(g)' = Key(g)
    BY DEF Key
<1>2. \A b \in Agents : \A g \in Frames(b) : Key(g) = Key(t) => b = a /\ g = t
    BY DEF KeysInv
<1>3. \A b \in Agents : \A g : g \in Frames(b)' <=> (g \in Frames(b) /\ ~(b = a /\ g = t))
    BY <1>2
<1>. QED
    BY <1>1, <1>2, <1>3 DEF On

LEMMA TopOn ==
    ASSUME LoopInv, NEW a \in Agents, stack[a] # <<>>
    PROVE  \A w : On(w, Key(Top(a))) <=> w = Top(a).at
<1>1. PICK t : t = Top(a)
    OBVIOUS
<1>2. /\ t \in Frames(a)
      /\ \A b \in Agents : \A g \in Frames(b) : Key(g) = Key(t) => b = a /\ g = t
    BY <1>1, TopKey
<1>. QED
    BY <1>1, <1>2 DEF On

\* A job of which there is no frame and no task.
LEMMA NothingOn ==
    ASSUME LoopInv, NEW j \in Jobs, result[j] = "fresh", NEW i
    PROVE  ~Waiting(j, i) /\ \A w : ~On(w, <<j, i>>)
<1>1. /\ \A a \in Agents : \A f \in Frames(a) : f.job # j
      /\ \A q \in Queued : q[1] # j
    BY FreshUnused
<1>. QED
    BY <1>1 DEF Waiting, On, Key

\* A step that executes no f.
LEMMA AnswerSame ==
    ASSUME LoopInv, AnswerInv, UNCHANGED <<result, range, tasks, hits, err, threw>>,
           \A j \in Jobs : nextTask'[j] = 0 <=> nextTask[j] = 0,
           \A j \in Jobs : nextTask[j] \in Nat /\ nextTask'[j] \in Nat,
           \A j \in Jobs : \A i \in Nat : \A x \in Nat :
              InChunk(j, i, x) => (Applied(j, i)' <=> Applied(j, i)),
           \A j \in Jobs : \A i \in Nat : On("caught", <<j, i>>)' <=> On("caught", <<j, i>>)
    PROVE  AnswerInv'
<1>1. Indices \subseteq Nat
    BY LoopsAssumption DEF Indices
<1>2. \A j \in Jobs : ErrOk(j) => ErrOk(j)'
    BY DEF ErrOk
<1>3. ASSUME NEW j \in Jobs, HitsOk(j) PROVE HitsOk(j)'
    <2>1. \A i, x : InChunk(j, i, x)' <=> InChunk(j, i, x)
        BY DEF InChunk, Start, End
    <2>2. nextTask'[j] > 0 <=> nextTask[j] > 0
        OBVIOUS
    <2>3. tasks[j].num \in Nat
        BY DEF LoopInv, LoopTypes
    <2>4. ASSUME nextTask'[j] > 0, NEW i \in 0..(tasks[j].num - 1), NEW x \in Indices, InChunk(j, i, x)
          PROVE  hits[j][x] = IF Applied(j, i)' THEN 1 ELSE 0
        <3>1. i \in Nat /\ x \in Nat
            BY <1>1, <2>3
        <3>2. Applied(j, i)' <=> Applied(j, i)
            BY <2>4, <3>1
        <3>3. hits[j][x] = IF Applied(j, i) THEN 1 ELSE 0
            BY <1>3, <2>2, <2>4 DEF HitsOk
        <3>. QED
            BY <3>2, <3>3
    <2>. QED
        BY <1>3, <2>1, <2>2, <2>4 DEF HitsOk
<1>4. \A j \in Jobs : AnswerOk(j) => AnswerOk(j)'
    BY <1>2, <1>3 DEF AnswerOk, Untouched
<1>. QED
    BY <1>4 DEF AnswerInv, AnswerTypes

\* A step for job j leaves the answers of the others.
LEMMA AnswerStep ==
    ASSUME LoopInv, AnswerInv, AnswerTypes', NEW j \in Jobs, AnswerOk(j)',
           \A k \in Jobs \ {j} : /\ result'[k] = result[k] /\ range'[k] = range[k]
                                 /\ tasks'[k] = tasks[k] /\ nextTask'[k] = nextTask[k]
                                 /\ hits'[k] = hits[k] /\ err'[k] = err[k] /\ threw'[k] = threw[k],
           \A k \in Jobs \ {j} : \A i \in Nat :
              /\ Waiting(k, i)' <=> Waiting(k, i)
              /\ On("caught", <<k, i>>)' <=> On("caught", <<k, i>>)
    PROVE  AnswerInv'
<1>1. ASSUME NEW k \in Jobs \ {j}, AnswerOk(k) PROVE AnswerOk(k)'
    <2>1. ErrOk(k) => ErrOk(k)'
        BY DEF ErrOk
    <2>2. \A i \in Nat : Applied(k, i)' <=> Applied(k, i)
        BY DEF Applied, Given
    <2>3. \A i, x : InChunk(k, i, x)' <=> InChunk(k, i, x)
        BY DEF InChunk, Start, End
    <2>4. tasks[k].num \in Nat
        BY DEF LoopInv, LoopTypes
    <2>5. ASSUME HitsOk(k) PROVE HitsOk(k)'
        <3>1. ASSUME nextTask[k] > 0, NEW i \in 0..(tasks[k].num - 1), NEW x \in Indices, InChunk(k, i, x)
              PROVE  hits[k][x] = IF Applied(k, i)' THEN 1 ELSE 0
            <4>1. Applied(k, i)' <=> Applied(k, i)
                BY <2>2, <2>4
            <4>2. hits[k][x] = IF Applied(k, i) THEN 1 ELSE 0
                BY <2>5, <3>1 DEF HitsOk
            <4>. QED
                BY <4>1, <4>2
        <3>. QED
            BY <2>3, <2>5, <3>1 DEF HitsOk
    <2>. QED
        BY <1>1, <2>1, <2>5 DEF AnswerOk, Untouched
<1>. QED
    BY <1>1 DEF AnswerInv

\* A task that goes to the pool has not called f, before or after.
LEMMA SubmitTaskAnswer ==
    ASSUME LoopInv, AnswerInv, NEW a \in Agents, SubmitTask(a), PoolAfter # 0
    PROVE  AnswerInv'
<1>1. PICK j, n : j = Top(a).job /\ n = nextTask[j]
    OBVIOUS
<1>2. /\ IsAt(a, "run") /\ n < tasks[j].num /\ Submit(<<j, n>>)
      /\ nextTask' = [nextTask EXCEPT ![j] = n + 1]
      /\ UNCHANGED <<stack, result, range, tasks, hits, err, threw>>
    BY <1>1 DEF SubmitTask
<1>3. /\ j \in Jobs /\ n \in Nat \ {0} /\ tasks[j].num \in Nat
    BY <1>1, <1>2, RunFrame
<1>4. LoopTypes /\ LoopTypes'
    BY SubmitTaskInv DEF LoopInv
<1>5. /\ nextTask[j] = n /\ nextTask'[j] = n + 1
      /\ \A k \in Jobs \ {j} : nextTask'[k] = nextTask[k]
      /\ \A k \in Jobs : nextTask[k] \in Nat /\ nextTask'[k] \in Nat
    BY <1>1, <1>2, <1>3, <1>4 DEF LoopTypes
<1>6. ~Given(j, n)
    BY <1>3, <1>5 DEF Given
<1>7. <<j, n>> \in Jobs \X Ids /\ <<j, n>> \notin Queued
    BY <1>3, <1>6, NewTask DEF Ids, Pending
<1>8. Queued' = Queued \cup {<<j, n>>}
    BY <1>2, <1>4, <1>7, SubmitFacts
<1>9. \A w, k : On(w, k)' <=> On(w, k)
    BY <1>2 DEF On, Frames, Key
<1>10. \A k \in Jobs : \A i \in Nat : Waiting(k, i)' <=> (Waiting(k, i) \/ (k = j /\ i = n))
    BY <1>8, <1>9 DEF Waiting
<1>11. \A k \in Jobs : \A i \in Nat : <<k, i>> # <<j, n>> => (Given(k, i)' <=> Given(k, i))
    BY <1>2, <1>3, <1>5 DEF Given
<1>12. \A k \in Jobs : \A i \in Nat : Applied(k, i)' <=> Applied(k, i)
    BY <1>6, <1>10, <1>11 DEF Applied
<1>13. \A k \in Jobs : nextTask'[k] = 0 <=> nextTask[k] = 0
    BY <1>3, <1>5
<1>. QED
    BY <1>2, <1>5, <1>9, <1>12, <1>13, AnswerSame

\* Nor has the first one when the caller begins it.
LEMMA RunFirstAnswer ==
    ASSUME LoopInv, AnswerInv, NEW a \in Agents, RunFirst(a)
    PROVE  AnswerInv'
<1>1. PICK j, n : j = Top(a).job /\ n = nextTask[j]
    OBVIOUS
<1>2. /\ IsAt(a, "run") /\ n = tasks[j].num /\ nextTask' = [nextTask EXCEPT ![j] = n + 1]
      /\ BeginTask(a, j, 0)
      /\ UNCHANGED <<queue, result, range, tasks, hits, err, threw>>
    BY <1>1 DEF RunFirst
<1>3. /\ j \in Jobs /\ n \in Nat \ {0} /\ tasks[j].num \in Nat
    BY <1>1, <1>2, RunFrame
<1>4. LoopTypes /\ LoopTypes'
    BY RunFirstInv DEF LoopInv
<1>5. /\ nextTask[j] = n /\ nextTask'[j] = n + 1
      /\ \A k \in Jobs \ {j} : nextTask'[k] = nextTask[k]
      /\ \A k \in Jobs : nextTask[k] \in Nat /\ nextTask'[k] \in Nat
    BY <1>1, <1>2, <1>3, <1>4 DEF LoopTypes
<1>6. ~Given(j, 0)
    BY <1>2, <1>3, <1>5 DEF Given
<1>7. \A b \in Agents : \A g \in Frames(b) : Key(g) # <<j, 0>>
    BY <1>3, <1>6, NewTask DEF Pending
<1>8. PICK f \in FrameType :
         /\ f.job = j /\ f.id = 0 /\ f.at \in {"body", "mark"} /\ Key(f) = <<j, 0>>
         /\ f.at = "mark" => ~(Start(j, 0) < range[j].len)
         /\ stack' \in [Agents -> Seq(FrameType)]
         /\ \A b \in Agents : IsInjective(stack'[b])
         /\ Frames(a)' = Frames(a) \cup {f}
         /\ \A b \in Agents \ {a} : Frames(b)' = Frames(b)
         /\ region' \in [Agents -> BOOLEAN]
    BY <1>2, <1>3, <1>4, <1>7, BeginTaskFacts
<1>9. \A w, k : On(w, k)' <=> (On(w, k) \/ (f.at = w /\ Key(f) = k))
    BY <1>8, PushOn
<1>10. \A k : On("caught", k)' <=> On("caught", k)
    BY <1>8, <1>9
<1>11. \A k \in Jobs : \A i \in Nat : <<k, i>> # <<j, 0>> => (Waiting(k, i)' <=> Waiting(k, i))
    BY <1>2, <1>8, <1>9 DEF Waiting, Queued
<1>12. \A k \in Jobs : \A i \in Nat : <<k, i>> # <<j, 0>> => (Given(k, i)' <=> Given(k, i))
    BY <1>2, <1>3, <1>5 DEF Given
<1>13. ASSUME NEW x \in Nat, InChunk(j, 0, x) PROVE Waiting(j, 0)'
    <2>1. f.at = "body"
        <3>1. 0 * tasks[j].chunk <= x /\ x < range[j].len /\ range[j].len \in Nat
            BY <1>3, <1>4, <1>13, ChunkMembers DEF LoopTypes
        <3>2. Start(j, 0) <= x
            BY <3>1 DEF Start
        <3>3. Start(j, 0) = 0
            BY <1>3, <1>4 DEF Start, LoopTypes
        <3>4. Start(j, 0) < range[j].len
            BY <3>1, <3>2, <3>3
        <3>. QED
            BY <1>8, <3>4
    <2>. QED
        BY <1>8, <1>9, <2>1 DEF Waiting
<1>14. \A k \in Jobs : \A i \in Nat : \A x \in Nat :
          InChunk(k, i, x) => (Applied(k, i)' <=> Applied(k, i))
    BY <1>6, <1>11, <1>12, <1>13 DEF Applied
<1>15. \A k \in Jobs : nextTask'[k] = 0 <=> nextTask[k] = 0
    BY <1>3, <1>5
<1>. QED
    BY <1>2, <1>5, <1>10, <1>14, <1>15, AnswerSame

\* A task a worker takes goes from the queue to the call of f.
LEMMA TakeTaskAnswer ==
    ASSUME LoopInv, AnswerInv, NEW w \in Workers, TakeTask(w)
    PROVE  AnswerInv'
<1>1. PICK task : task = Head(queue)
    OBVIOUS
<1>2. /\ queue # <<>> /\ queue' = Tail(queue)
      /\ IF task[2] = Nothing THEN Push(w, Func(task[1])) /\ UNCHANGED region
         ELSE BeginTask(w, task[1], task[2])
      /\ UNCHANGED <<result, range, tasks, nextTask, hits, err, threw>>
    BY <1>1 DEF TakeTask, jobVars
<1>3. LoopTypes /\ KeysInv /\ w \in Agents
    BY DEF LoopInv, Agents
<1>4. /\ task \in Queued /\ task \in Jobs \X Ids /\ Queued' = Queued \ {task}
    <2>1. queue \in Seq(Jobs \X Ids) /\ IsInjective(queue)
        BY <1>3 DEF LoopTypes
    <2>. QED
        BY <1>1, <1>2, <2>1, TailElements DEF Queued
<1>5. PICK j, i : task = <<j, i>> /\ j \in Jobs /\ i \in Ids
    BY <1>4
<1>6. \A b \in Agents : \A g \in Frames(b) : Key(g) # <<j, i>>
    BY <1>3, <1>4, <1>5 DEF KeysInv
<1>7. \A k \in Jobs : \A m \in Nat : Given(k, m)' <=> Given(k, m)
    BY <1>2 DEF Given
<1>8. \A k \in Jobs : nextTask[k] \in Nat /\ nextTask'[k] = nextTask[k]
    BY <1>2, <1>3 DEF LoopTypes
<1>9. CASE i = Nothing
    <2>1. PICK f : f = Func(j)
        OBVIOUS
    <2>2. f \in FrameType /\ f.at = "func" /\ Key(f) = <<j, i>>
        BY <1>5, <1>9, <2>1 DEF Func, FrameType, Ids, Key
    <2>3. Push(w, f) /\ f \notin Frames(w)
        BY <1>2, <1>3, <1>5, <1>6, <1>9, <2>1, <2>2
    <2>4. Frames(w)' = Frames(w) \cup {f} /\ \A b \in Agents \ {w} : Frames(b)' = Frames(b)
        BY <1>3, <2>2, <2>3, PushFacts
    <2>5. \A at, k : On(at, k)' <=> (On(at, k) \/ (f.at = at /\ Key(f) = k))
        BY <1>3, <2>4, PushOn
    <2>6. \A k \in Jobs : \A m \in Nat : <<k, m>> # task
        BY <1>5, <1>9, LoopsAssumption
    <2>7. \A k \in Jobs : \A m \in Nat :
             /\ Waiting(k, m)' <=> Waiting(k, m)
             /\ On("caught", <<k, m>>)' <=> On("caught", <<k, m>>)
        BY <1>4, <2>2, <2>5, <2>6 DEF Waiting
    <2>8. \A k \in Jobs : \A m \in Nat : Applied(k, m)' <=> Applied(k, m)
        BY <1>7, <2>7 DEF Applied
    <2>. QED
        BY <1>2, <1>8, <2>7, <2>8, AnswerSame
<1>10. CASE i # Nothing
    <2>1. i \in Nat /\ BeginTask(w, j, i)
        BY <1>2, <1>5, <1>10 DEF Ids
    <2>2. PICK f \in FrameType :
             /\ f.job = j /\ f.id = i /\ f.at \in {"body", "mark"} /\ Key(f) = <<j, i>>
             /\ f.at = "mark" => ~(Start(j, i) < range[j].len)
             /\ stack' \in [Agents -> Seq(FrameType)]
             /\ \A b \in Agents : IsInjective(stack'[b])
             /\ Frames(w)' = Frames(w) \cup {f}
             /\ \A b \in Agents \ {w} : Frames(b)' = Frames(b)
             /\ region' \in [Agents -> BOOLEAN]
        BY <1>3, <1>5, <1>6, <2>1, BeginTaskFacts
    <2>3. \A at, k : On(at, k)' <=> (On(at, k) \/ (f.at = at /\ Key(f) = k))
        BY <1>3, <2>2, PushOn
    <2>4. \A k : On("caught", k)' <=> On("caught", k)
        BY <2>2, <2>3
    <2>5. \A k \in Jobs : \A m \in Nat : <<k, m>> # task => (Waiting(k, m)' <=> Waiting(k, m))
        BY <1>4, <1>5, <2>2, <2>3 DEF Waiting
    <2>6. Waiting(j, i)
        BY <1>4, <1>5 DEF Waiting
    <2>7. ASSUME NEW x \in Nat, InChunk(j, i, x) PROVE Waiting(j, i)'
        <3>1. i * tasks[j].chunk <= x /\ x < range[j].len /\ range[j].len \in Nat
            BY <1>3, <1>5, <2>1, <2>7, ChunkMembers DEF LoopTypes
        <3>2. i * tasks[j].chunk \in Nat
            BY <1>3, <1>5, <2>1 DEF LoopTypes
        <3>3. f.at = "body"
            BY <2>2, <3>1, <3>2 DEF Start
        <3>. QED
            BY <2>2, <2>3, <3>3 DEF Waiting
    <2>8. \A k \in Jobs : \A m \in Nat : \A x \in Nat :
             InChunk(k, m, x) => (Applied(k, m)' <=> Applied(k, m))
        BY <1>5, <1>7, <2>5, <2>6, <2>7 DEF Applied
    <2>. QED
        BY <1>2, <1>8, <2>4, <2>8, AnswerSame
<1>. QED
    BY <1>9, <1>10

\* A step that moves only frames and tasks of job j.
LEMMA OtherOn ==
    ASSUME NEW j, \A b \in Agents : \A g : g.job # j => (g \in Frames(b)' <=> g \in Frames(b)),
           \A q : q[1] # j => (q \in Queued' <=> q \in Queued)
    PROVE  \A k \in Jobs \ {j} : \A i \in Nat :
              /\ Waiting(k, i)' <=> Waiting(k, i)
              /\ On("caught", <<k, i>>)' <=> On("caught", <<k, i>>)
<1>1. ASSUME NEW k \in Jobs \ {j}, NEW i \in Nat, NEW w PROVE On(w, <<k, i>>)' <=> On(w, <<k, i>>)
    <2>1. \A g : Key(g)' = Key(g)
        BY DEF Key
    <2>2. \A g : Key(g) = <<k, i>> => g.job # j
        BY DEF Key
    <2>. QED
        BY <2>1, <2>2 DEF On
<1>2. ASSUME NEW k \in Jobs \ {j}, NEW i \in Nat PROVE <<k, i>> \in Queued' <=> <<k, i>> \in Queued
    OBVIOUS
<1>. QED
    BY <1>1, <1>2 DEF Waiting

\* A completed future leaves a task that has called f.
LEMMA MarkFutureAnswer ==
    ASSUME LoopInv, AnswerInv, NEW a \in Agents, MarkFuture(a)
    PROVE  AnswerInv'
<1>1. PICK t : t = Top(a)
    OBVIOUS
<1>2. /\ stack[a] # <<>> /\ t.at = "mark" /\ Pop(a)
      /\ UNCHANGED <<queue, result, range, tasks, nextTask, hits, err, threw>>
    BY <1>1 DEF MarkFuture, IsAt
<1>3. /\ t \in Frames(a) /\ Key(t) \notin Queued /\ LoopTypes /\ KeysInv
    BY <1>1, <1>2, TopKey DEF LoopInv
<1>4. \A w, k : On(w, k)' <=> (k # Key(t) /\ On(w, k))
    <2>1. Frames(a)' = Frames(a) \ {t} /\ \A b \in Agents \ {a} : Frames(b)' = Frames(b)
        BY <1>1, <1>2, <1>3, PopFacts
    <2>. QED
        BY <1>3, <2>1, PopOn
<1>5. ~On("body", Key(t)) /\ ~On("caught", Key(t))
    BY <1>1, <1>2, TopOn
<1>6. \A k \in Jobs : \A i \in Nat :
         /\ On("caught", <<k, i>>)' <=> On("caught", <<k, i>>)
         /\ Waiting(k, i)' <=> Waiting(k, i)
    BY <1>2, <1>4, <1>5 DEF Waiting, Queued
<1>7. \A k \in Jobs : \A i \in Nat : Applied(k, i)' <=> Applied(k, i)
    BY <1>2, <1>6 DEF Applied, Given
<1>8. \A k \in Jobs : nextTask[k] \in Nat /\ nextTask'[k] = nextTask[k]
    BY <1>2, <1>3 DEF LoopTypes
<1>. QED
    BY <1>2, <1>6, <1>7, <1>8, AnswerSame

\* A step that leaves all calls.
LEMMA IdleAnswer ==
    ASSUME LoopInv, AnswerInv, UNCHANGED <<queue, stack, jobVars>>
    PROVE  AnswerInv'
<1>1. UNCHANGED <<result, range, tasks, nextTask, hits, err, threw>>
    BY DEF jobVars
<1>2. \A w, k : On(w, k)' <=> On(w, k)
    BY DEF On, Frames, Key
<1>3. \A k, i : Applied(k, i)' <=> Applied(k, i)
    BY <1>1, <1>2 DEF Applied, Waiting, Given, Queued
<1>4. \A k \in Jobs : nextTask[k] \in Nat /\ nextTask'[k] = nextTask[k]
    BY <1>1 DEF LoopInv, LoopTypes
<1>. QED
    BY <1>1, <1>2, <1>3, <1>4, AnswerSame

\* A job that has not begun begins: what it answers is still to come.
LEMMA BeginAnswer ==
    ASSUME LoopInv, AnswerInv, NEW j \in Jobs, result[j] = "fresh",
           NEW r \in {"launched", "inline", "refused"}, result' = [result EXCEPT ![j] = r],
           \A b \in Agents : \A g : g.job # j => (g \in Frames(b)' <=> g \in Frames(b)),
           \A q : q[1] # j => (q \in Queued' <=> q \in Queued),
           UNCHANGED <<range, tasks, nextTask, hits, err, threw>>
    PROVE  AnswerInv'
<1>1. Untouched(j) /\ AnswerTypes
    BY DEF AnswerInv, AnswerOk
<1>2. result'[j] = r /\ \A k \in Jobs \ {j} : result'[k] = result[k]
    BY DEF LoopInv, LoopTypes
<1>3. AnswerOk(j)'
    BY <1>1, <1>2 DEF AnswerOk, Untouched
<1>4. AnswerTypes'
    BY <1>1 DEF AnswerTypes
<1>5. \A k \in Jobs \ {j} : \A i \in Nat :
         /\ Waiting(k, i)' <=> Waiting(k, i)
         /\ On("caught", <<k, i>>)' <=> On("caught", <<k, i>>)
    BY OtherOn
<1>. QED
    BY <1>2, <1>3, <1>4, <1>5, AnswerStep

LEMMA LaunchAnswer ==
    ASSUME LoopInv, AnswerInv, NEW a \in Agents, NEW j \in Jobs, Launch(a, j)
    PROVE  AnswerInv'
<1>1. result[j] = "fresh" /\ UNCHANGED <<range, tasks, nextTask, hits, err, threw>>
    BY DEF Launch
<1>2. LoopTypes
    BY DEF LoopInv
<1>3. CASE ~InRegion(a) /\ NumThreads > 1
    <2>1. /\ Submit(<<j, Nothing>>) /\ UNCHANGED stack
          /\ result' = [result EXCEPT ![j] = IF PoolAfter = 0 THEN "refused" ELSE "launched"]
        BY <1>3 DEF Launch
    <2>2. PICK r \in {"launched", "refused"} : result' = [result EXCEPT ![j] = r]
        BY <2>1
    <2>3. <<j, Nothing>> \in Jobs \X Ids /\ <<j, Nothing>> \notin Queued
        BY <1>1, FreshUnused DEF Ids
    <2>4. Queued' = Queued \/ Queued' = Queued \cup {<<j, Nothing>>}
        BY <1>2, <2>1, <2>3, SubmitFacts DEF Queued
    <2>5. \A q : q[1] # j => (q \in Queued' <=> q \in Queued)
        BY <2>4
    <2>6. \A b \in Agents : Frames(b)' = Frames(b)
        BY <2>1 DEF Frames
    <2>. QED
        BY <1>1, <2>2, <2>5, <2>6, BeginAnswer
<1>4. CASE ~(~InRegion(a) /\ NumThreads > 1)
    <2>1. /\ Push(a, Func(j)) /\ UNCHANGED queue
          /\ result' = [result EXCEPT ![j] = "inline"]
        BY <1>4 DEF Launch
    <2>2. PICK f : f = Func(j)
        OBVIOUS
    <2>3. f \in FrameType /\ f.job = j /\ f \notin Frames(a)
        BY <1>1, <2>2, FreshUnused DEF Func, FrameType, Ids
    <2>4. Frames(a)' = Frames(a) \cup {f} /\ \A b \in Agents \ {a} : Frames(b)' = Frames(b)
        BY <1>2, <2>1, <2>2, <2>3, PushFacts
    <2>5. \A b \in Agents : \A g : g.job # j => (g \in Frames(b)' <=> g \in Frames(b))
        BY <2>3, <2>4
    <2>6. Queued' = Queued
        BY <2>1 DEF Queued
    <2>. QED
        BY <1>1, <2>1, <2>5, <2>6, BeginAnswer
<1>. QED
    BY <1>3, <1>4

\* A job ends, with what its calls of f have left.
LEMMA EndAnswer ==
    ASSUME LoopInv, AnswerInv, NEW a \in Agents, stack[a] # <<>>, Pop(a), Queued' = Queued,
           NEW r \in {"returned", "raised", "refused", "lost"},
           result' = [result EXCEPT ![Top(a).job] = r],
           UNCHANGED <<range, tasks, nextTask, hits, err, threw>>,
           r = "returned" => /\ threw[Top(a).job] = {}
                             /\ \A x \in Indices :
                                   hits[Top(a).job][x] = IF x < range[Top(a).job].len THEN 1 ELSE 0,
           r = "raised" /\ range[Top(a).job] # NoRange => err[Top(a).job][2] \in threw[Top(a).job]
    PROVE  AnswerInv'
<1>1. PICK t, j : t = Top(a) /\ j = t.job
    OBVIOUS
<1>2. t \in Frames(a) /\ j \in Jobs /\ LoopTypes /\ AnswerTypes
    BY <1>1, TopKey DEF LoopInv, AnswerInv
<1>3. result'[j] = r /\ \A k \in Jobs \ {j} : result'[k] = result[k]
    BY <1>1, <1>2 DEF LoopTypes
<1>4. AnswerOk(j)'
    BY <1>1, <1>2, <1>3 DEF AnswerOk
<1>5. AnswerTypes'
    BY <1>2 DEF AnswerTypes
<1>6. Frames(a)' = Frames(a) \ {t} /\ \A b \in Agents \ {a} : Frames(b)' = Frames(b)
    BY <1>1, <1>2, PopFacts
<1>7. \A b \in Agents : \A g : g.job # j => (g \in Frames(b)' <=> g \in Frames(b))
    BY <1>1, <1>6
<1>8. \A k \in Jobs \ {j} : \A i \in Nat :
         /\ Waiting(k, i)' <=> Waiting(k, i)
         /\ On("caught", <<k, i>>)' <=> On("caught", <<k, i>>)
    BY <1>7, OtherOn
<1>. QED
    BY <1>2, <1>3, <1>4, <1>5, <1>8, AnswerStep

\* A launched function has no range.
LEMMA EndFuncAnswer ==
    ASSUME LoopInv, AnswerInv, NEW a \in Agents, NEW throws \in BOOLEAN, EndFunc(a, throws)
    PROVE  AnswerInv'
<1>1. PICK j : j = Top(a).job
    OBVIOUS
<1>2. /\ stack[a] # <<>> /\ Top(a).at = "func" /\ Pop(a)
      /\ UNCHANGED <<queue, range, tasks, nextTask, hits, err, threw>>
    BY <1>1 DEF EndFunc, IsAt
<1>3. PICK r \in {"returned", "raised", "refused", "lost"} : result' = [result EXCEPT ![j] = r]
    <2>1. result' = [result EXCEPT ![j] = IF ~throws THEN "returned"
                                          ELSE IF result[j] = "inline" THEN "raised" ELSE "lost"]
        BY <1>1 DEF EndFunc
    <2>2. PICK r : r = IF ~throws THEN "returned" ELSE IF result[j] = "inline" THEN "raised" ELSE "lost"
        OBVIOUS
    <2>. QED
        BY <2>1, <2>2
<1>4. j \in Jobs /\ result[j] \in {"launched", "inline"}
    BY <1>1, <1>2, TopKey DEF FrameOk
<1>5. Untouched(j)
    BY <1>4 DEF AnswerInv, AnswerOk
<1>6. range[j] = NoRange /\ range[j].len = 0 /\ threw[j] = {}
    BY <1>5 DEF Untouched, NoRange
<1>7. \A x \in Indices : hits[j][x] = IF x < range[j].len THEN 1 ELSE 0
    <2>1. \A x \in Indices : x \in Nat
        BY LoopsAssumption DEF Indices
    <2>. QED
        BY <1>5, <1>6, <2>1 DEF Untouched
<1>8. Queued' = Queued
    BY <1>2 DEF Queued
<1>. QED
    BY <1>1, <1>2, <1>3, <1>6, <1>7, <1>8, EndAnswer

LEMMA RefusedAnswer ==
    ASSUME LoopInv, AnswerInv, NEW a \in Agents, SubmitTask(a), PoolAfter = 0
    PROVE  AnswerInv'
<1>1. /\ IsAt(a, "run") /\ result' = [result EXCEPT ![Top(a).job] = "refused"] /\ Pop(a)
      /\ Submit(<<Top(a).job, nextTask[Top(a).job]>>)
      /\ UNCHANGED <<nextTask, range, tasks, hits, err, threw>>
    BY DEF SubmitTask
<1>2. stack[a] # <<>>
    BY <1>1 DEF IsAt
<1>3. Queued' = Queued
    BY <1>1 DEF Submit, Queued
<1>. QED
    BY <1>1, <1>2, <1>3, EndAnswer

\* f runs on the whole range at once, and its caller gets what it threw.
LEMMA RunInlineAnswer ==
    ASSUME LoopInv, AnswerInv, NEW a \in Agents, NEW j \in Jobs, NEW len \in Lens, NEW grain \in Grains,
           RunInline(a, j, len, grain)
    PROVE  AnswerInv'
<1>1. PICK g, h : /\ g = [len |-> len, grain |-> grain, slots |-> Nothing]
                  /\ h = [x \in Indices |-> IF x < len THEN 1 ELSE 0]
    OBVIOUS
<1>2. /\ result[j] = "fresh"
      /\ range' = [range EXCEPT ![j] = g] /\ hits' = [hits EXCEPT ![j] = h]
      /\ UNCHANGED <<queue, stack, tasks, nextTask>>
    BY <1>1 DEF RunInline
<1>3. LoopTypes /\ AnswerTypes /\ Untouched(j) /\ Indices \subseteq Nat /\ len \in Nat
    BY <1>2, LoopsAssumption DEF LoopInv, AnswerInv, AnswerOk, Indices
<1>4. h \in [Indices -> Nat] /\ g.len = len
    BY <1>1
<1>5. /\ range'[j].len = len /\ hits'[j] = h
      /\ \A k \in Jobs \ {j} : range'[k] = range[k] /\ hits'[k] = hits[k]
      /\ hits' \in [Jobs -> [Indices -> Nat]]
    BY <1>2, <1>3, <1>4 DEF LoopTypes, AnswerTypes
<1>6. \A k \in Jobs \ {j} : \A i \in Nat :
         /\ Waiting(k, i)' <=> Waiting(k, i)
         /\ On("caught", <<k, i>>)' <=> On("caught", <<k, i>>)
    BY <1>2, OtherOn DEF Frames, Queued
<1>7. CASE result' = [result EXCEPT ![j] = "returned"] /\ UNCHANGED <<threw, err>>
    <2>1. result'[j] = "returned" /\ \A k \in Jobs \ {j} : result'[k] = result[k]
        BY <1>3, <1>7 DEF LoopTypes
    <2>2. threw'[j] = {}
        BY <1>3, <1>7 DEF Untouched
    <2>3. AnswerOk(j)'
        BY <1>1, <1>5, <2>1, <2>2 DEF AnswerOk
    <2>4. AnswerTypes'
        BY <1>3, <1>5, <1>7 DEF AnswerTypes
    <2>. QED
        BY <1>2, <1>5, <1>6, <1>7, <2>1, <2>3, <2>4, AnswerStep
<1>8. CASE /\ result' = [result EXCEPT ![j] = "raised"]
           /\ threw' = [threw EXCEPT ![j] = {0}]
           /\ err' = [err EXCEPT ![j] = <<FALSE, 0>>]
    <2>1. result'[j] = "raised" /\ \A k \in Jobs \ {j} : result'[k] = result[k]
        BY <1>3, <1>8 DEF LoopTypes
    <2>2. /\ threw'[j] = {0} /\ err'[j] = <<FALSE, 0>>
          /\ \A k \in Jobs \ {j} : threw'[k] = threw[k] /\ err'[k] = err[k]
        BY <1>3, <1>8 DEF AnswerTypes
    <2>3. AnswerOk(j)'
        BY <2>1, <2>2 DEF AnswerOk
    <2>4. AnswerTypes'
        <3>1. PICK e : e = <<FALSE, 0>>
            OBVIOUS
        <3>2. e \in BOOLEAN \X Ids
            BY <3>1 DEF Ids
        <3>3. err' = [err EXCEPT ![j] = e] /\ threw' = [threw EXCEPT ![j] = {0}]
            BY <1>8, <3>1
        <3>. QED
            BY <1>3, <1>5, <3>2, <3>3 DEF AnswerTypes
    <2>. QED
        BY <1>2, <1>5, <1>6, <2>1, <2>2, <2>3, <2>4, AnswerStep
<1>. QED
    BY <1>7, <1>8 DEF RunInline

\* A call of _parallel_run begins with nothing done and no error.
LEMMA EnterParallelAnswer ==
    ASSUME LoopInv, AnswerInv, NEW a \in Agents, NEW j \in Jobs, NEW len \in Lens, NEW grain \in Grains,
           NEW slots, EnterParallel(a, j, len, grain, slots)
    PROVE  AnswerInv'
<1>1. PICK g, f : g = [len |-> len, grain |-> grain, slots |-> slots] /\ f = Enter(j)
    OBVIOUS
<1>2. /\ result[j] = "fresh" /\ result' = [result EXCEPT ![j] = "running"]
      /\ range' = [range EXCEPT ![j] = g] /\ Push(a, f)
      /\ UNCHANGED <<queue, tasks, nextTask, err, threw, hits>>
    BY <1>1 DEF EnterParallel
<1>3. /\ LoopTypes /\ AnswerTypes /\ Untouched(j) /\ nextTask[j] = 0
    BY <1>2 DEF LoopInv, JobOk, AnswerInv, AnswerOk
<1>4. f \in FrameType /\ f.job = j /\ f.at = "enter" /\ f \notin Frames(a)
    BY <1>1, <1>2, FreshUnused DEF Enter, FrameType, Ids
<1>5. Frames(a)' = Frames(a) \cup {f} /\ \A b \in Agents \ {a} : Frames(b)' = Frames(b)
    BY <1>2, <1>3, <1>4, PushFacts
<1>6. \A i : ~On("caught", <<j, i>>)'
    <2>1. \A w, k : On(w, k)' <=> (On(w, k) \/ (f.at = w /\ Key(f) = k))
        BY <1>5, PushOn
    <2>. QED
        BY <1>2, <1>4, <2>1, NothingOn
<1>7. /\ result'[j] = "running" /\ range'[j] = g
      /\ \A k \in Jobs \ {j} : result'[k] = result[k] /\ range'[k] = range[k]
    BY <1>2, <1>3 DEF LoopTypes
<1>8. HitsOk(j)' /\ ErrOk(j)'
    BY <1>2, <1>3, <1>6 DEF HitsOk, ErrOk, Untouched
<1>9. AnswerOk(j)'
    BY <1>7, <1>8 DEF AnswerOk
<1>10. \A k \in Jobs \ {j} : \A i \in Nat :
         /\ Waiting(k, i)' <=> Waiting(k, i)
         /\ On("caught", <<k, i>>)' <=> On("caught", <<k, i>>)
    <2>1. \A b \in Agents : \A h : h.job # j => (h \in Frames(b)' <=> h \in Frames(b))
        BY <1>4, <1>5
    <2>. QED
        BY <1>2, <2>1, OtherOn DEF Queued
<1>11. AnswerTypes'
    BY <1>2, <1>3 DEF AnswerTypes
<1>. QED
    BY <1>2, <1>7, <1>9, <1>10, <1>11, AnswerStep

\* Its chunks cover the range, and none of its tasks has been given out.
LEMMA StartRunAnswer ==
    ASSUME LoopInv, AnswerInv, NEW a \in Agents, StartRun(a)
    PROVE  AnswerInv'
<1>1. PICK t, j, f, n : /\ t = Top(a) /\ j = t.job /\ f = Run(j)
                        /\ n = NumTasks(range[j].len, range[j].grain)
    OBVIOUS
<1>2. /\ stack[a] # <<>> /\ t.at = "enter" /\ tasks' = [tasks EXCEPT ![j] = n]
      /\ nextTask' = [nextTask EXCEPT ![j] = 1] /\ ReplaceTop(a, f)
      /\ UNCHANGED <<queue, result, range, err, threw, hits>>
    BY <1>1 DEF StartRun, IsAt
<1>3. /\ t \in FrameType /\ t \in Frames(a) /\ FrameOk(t) /\ j \in Jobs
      /\ \A b \in Agents : \A g \in Frames(b) : Key(g) = Key(t) => b = a /\ g = t
    BY <1>1, <1>2, TopKey
<1>4. /\ t.id = Nothing /\ result[j] = "running" /\ range[j].len > 0 /\ nextTask[j] = 0
      /\ LoopTypes /\ KeysInv /\ AnswerTypes /\ HitsOk(j) /\ ErrOk(j)
    BY <1>1, <1>2, <1>3 DEF FrameOk, LoopInv, AnswerInv, AnswerOk
<1>5. f \in FrameType /\ f.job = j /\ f.at = "run" /\ Key(f) = Key(t)
    BY <1>1, <1>3, <1>4 DEF Run, FrameType, Ids, Key
<1>6. Frames(a)' = (Frames(a) \ {t}) \cup {f} /\ \A b \in Agents \ {a} : Frames(b)' = Frames(b)
    <2>1. f \notin Frames(a) \ {t}
        BY <1>3, <1>5
    <2>. QED
        BY <1>1, <1>2, <1>4, <1>5, <2>1, ReplaceFacts
<1>7. \A k : On("caught", k)' <=> On("caught", k)
    <2>1. \A w, k : On(w, k)' <=> IF k = Key(t) THEN f.at = w ELSE On(w, k)
        BY <1>3, <1>4, <1>5, <1>6, ReplaceOn
    <2>2. ~On("caught", Key(t))
        BY <1>1, <1>2, TopOn
    <2>. QED
        BY <1>5, <2>1, <2>2
<1>8. n \in [num : Nat \ {0}, chunk : Nat \ {0}] /\ range[j].len <= n.num * n.chunk
    <2>1. range[j].len \in Nat \ {0} /\ range[j].grain \in Nat
        BY <1>3, <1>4 DEF LoopTypes
    <2>. QED
        BY <1>1, <1>4, <2>1, NumTasksFacts
<1>9. /\ tasks'[j] = n /\ nextTask'[j] = 1
      /\ \A k \in Jobs \ {j} : tasks'[k] = tasks[k] /\ nextTask'[k] = nextTask[k]
    BY <1>2, <1>3, <1>4 DEF LoopTypes
<1>10. \A i \in Nat : ~Given(j, i)'
    BY <1>8, <1>9 DEF Given
<1>11. HitsOk(j)'
    <2>1. \A x \in Indices : hits[j][x] = 0
        BY <1>4 DEF HitsOk
    <2>2. \A i \in 0..(n.num - 1) : ~Applied(j, i)'
        BY <1>8, <1>10 DEF Applied
    <2>. QED
        BY <1>2, <1>8, <1>9, <2>1, <2>2 DEF HitsOk
<1>12. ErrOk(j)'
    BY <1>2, <1>4, <1>7 DEF ErrOk
<1>13. AnswerOk(j)'
    BY <1>2, <1>4, <1>11, <1>12 DEF AnswerOk
<1>14. \A k \in Jobs \ {j} : \A i \in Nat :
         /\ Waiting(k, i)' <=> Waiting(k, i)
         /\ On("caught", <<k, i>>)' <=> On("caught", <<k, i>>)
    <2>1. \A b \in Agents : \A h : h.job # j => (h \in Frames(b)' <=> h \in Frames(b))
        BY <1>1, <1>5, <1>6
    <2>. QED
        BY <1>2, <2>1, OtherOn DEF Queued
<1>15. AnswerTypes'
    BY <1>2, <1>4 DEF AnswerTypes
<1>. QED
    BY <1>2, <1>3, <1>9, <1>13, <1>14, <1>15, AnswerStep

\* What a task goes on with keeps its place in the books.
LEMMA ReplaceTaskOn ==
    ASSUME LoopInv, NEW a \in Agents, stack[a] # <<>>, NEW t, t = Top(a),
           NEW where \in {"caught", "mark"}, ReplaceTop(a, Task(where, t.job, t.id)),
           UNCHANGED queue
    PROVE  /\ \A w, k : On(w, k)' <=> IF k = <<t.job, t.id>> THEN where = w ELSE On(w, k)
           /\ ~Waiting(t.job, t.id)'
           /\ \A k \in Jobs \ {t.job} : \A i \in Nat :
                 /\ Waiting(k, i)' <=> Waiting(k, i)
                 /\ On("caught", <<k, i>>)' <=> On("caught", <<k, i>>)
           /\ \A i \in Nat \ {t.id} : Waiting(t.job, i)' <=> Waiting(t.job, i)
<1>1. PICK f : f = Task(where, t.job, t.id)
    OBVIOUS
<1>2. /\ t \in FrameType /\ t \in Frames(a) /\ Key(t) \notin Queued
      /\ \A b \in Agents : \A g \in Frames(b) : Key(g) = Key(t) => b = a /\ g = t
    BY TopKey
<1>3. f \in FrameType /\ Key(f) = Key(t) /\ f.job = t.job /\ f.at = where /\ Key(t) = <<t.job, t.id>>
    BY <1>1, <1>2 DEF Task, FrameType, Key
<1>4. LoopTypes /\ KeysInv
    BY DEF LoopInv
<1>5. Frames(a)' = (Frames(a) \ {t}) \cup {f} /\ \A b \in Agents \ {a} : Frames(b)' = Frames(b)
    <2>1. f \notin Frames(a) \ {t}
        BY <1>2, <1>3
    <2>. QED
        BY <1>1, <1>3, <1>4, <2>1, ReplaceFacts
<1>6. \A w, k : On(w, k)' <=> IF k = Key(t) THEN where = w ELSE On(w, k)
    BY <1>2, <1>3, <1>4, <1>5, ReplaceOn
<1>7. \A k \in Jobs \ {t.job} : \A i \in Nat :
         /\ Waiting(k, i)' <=> Waiting(k, i)
         /\ On("caught", <<k, i>>)' <=> On("caught", <<k, i>>)
    BY <1>3, <1>6 DEF Waiting, Queued
<1>8. \A i \in Nat \ {t.id} : Waiting(t.job, i)' <=> Waiting(t.job, i)
    BY <1>3, <1>6 DEF Waiting, Queued
<1>9. ~Waiting(t.job, t.id)'
    BY <1>2, <1>3, <1>6 DEF Waiting, Queued
<1>. QED
    BY <1>3, <1>6, <1>7, <1>8, <1>9

\* f has been called on the chunk of the task, which no other task has.
LEMMA EndBodyAnswer ==
    ASSUME LoopInv, AnswerInv, NEW a \in Agents, NEW throws \in BOOLEAN, EndBody(a, throws)
    PROVE  AnswerInv'
<1>1. PICK t, j, i : t = Top(a) /\ j = t.job /\ i = t.id
    OBVIOUS
<1>2. PICK h, e, s, where :
         /\ h = [x \in Indices |-> IF Start(j, i) <= x /\ x < End(j, i) THEN hits[j][x] + 1 ELSE hits[j][x]]
         /\ e = <<err[j][1] \/ throws, err[j][2]>>
         /\ s = IF throws THEN threw[j] \cup {i} ELSE threw[j]
         /\ where = IF throws /\ ~err[j][1] THEN "caught" ELSE "mark"
    OBVIOUS
<1>3. /\ stack[a] # <<>> /\ t.at = "body" /\ ReplaceTop(a, Task(where, j, i))
      /\ hits' = [hits EXCEPT ![j] = h] /\ err' = [err EXCEPT ![j] = e]
      /\ threw' = [threw EXCEPT ![j] = s]
      /\ UNCHANGED <<queue, result, range, tasks, nextTask>>
    BY <1>1, <1>2 DEF EndBody, IsAt
<1>4. /\ t \in FrameType /\ t \in Frames(a) /\ FrameOk(t) /\ j \in Jobs
    BY <1>1, <1>3, TopKey
<1>5. Pending(j, i) /\ LoopTypes /\ KeysInv /\ AnswerTypes /\ AnswerOk(j)
    BY <1>1, <1>3, <1>4 DEF FrameOk, LoopInv, AnswerInv
<1>6. /\ result[j] = "running" /\ Given(j, i) /\ i \in 0..(tasks[j].num - 1)
      /\ tasks[j].num \in Nat /\ i \in Nat /\ HitsOk(j) /\ ErrOk(j)
      /\ nextTask[j] \in Nat /\ nextTask[j] > 0
    <2>1. result[j] = "running" /\ Given(j, i)
        BY <1>5 DEF Pending
    <2>2. i \in 0..(tasks[j].num - 1) /\ tasks[j].num \in Nat /\ nextTask[j] \in Nat
        BY <1>4, <1>5, <2>1 DEF Given, LoopTypes
    <2>3. nextTask[j] > 0
        BY <2>1, <2>2 DEF Given
    <2>. QED
        BY <1>5, <2>1, <2>2, <2>3 DEF AnswerOk
<1>7. /\ hits[j] \in [Indices -> Nat] /\ err[j][1] \in BOOLEAN /\ err[j][2] \in Ids
      /\ threw[j] \subseteq Nat /\ Indices \subseteq Nat
    <2>1. hits[j] \in [Indices -> Nat] /\ err[j] \in BOOLEAN \X Ids /\ threw[j] \subseteq Nat
        BY <1>4, <1>5 DEF AnswerTypes
    <2>2. Indices \subseteq Nat
        BY LoopsAssumption DEF Indices
    <2>. QED
        BY <2>1, <2>2
<1>8. where \in {"caught", "mark"} /\ (where = "caught" <=> throws /\ ~err[j][1])
    BY <1>2
<1>9. /\ \A w, k : On(w, k)' <=> IF k = <<j, i>> THEN where = w ELSE On(w, k)
      /\ ~Waiting(j, i)'
      /\ \A k \in Jobs \ {j} : \A m \in Nat :
            /\ Waiting(k, m)' <=> Waiting(k, m)
            /\ On("caught", <<k, m>>)' <=> On("caught", <<k, m>>)
      /\ \A m \in Nat \ {i} : Waiting(j, m)' <=> Waiting(j, m)
    BY <1>1, <1>3, <1>8, ReplaceTaskOn
<1>10. Waiting(j, i) /\ ~On("caught", <<j, i>>)
    BY <1>1, <1>3, TopOn DEF Waiting, Key
<1>11. /\ h \in [Indices -> Nat] /\ s \subseteq Nat
       /\ \A x \in Indices : h[x] = IF InChunk(j, i, x) THEN hits[j][x] + 1 ELSE hits[j][x]
    BY <1>2, <1>6, <1>7 DEF InChunk
<1>12. /\ hits'[j] = h /\ err'[j] = e /\ threw'[j] = s
       /\ \A k \in Jobs \ {j} : hits'[k] = hits[k] /\ err'[k] = err[k] /\ threw'[k] = threw[k]
    BY <1>3, <1>4, <1>5 DEF AnswerTypes
<1>13. e[1] = (err[j][1] \/ throws) /\ e[2] = err[j][2] /\ e \in BOOLEAN \X Ids
    <2>1. (err[j][1] \/ throws) \in BOOLEAN
        OBVIOUS
    <2>. QED
        BY <1>2, <1>7, <2>1
<1>14. AnswerTypes'
    BY <1>3, <1>5, <1>11, <1>13 DEF AnswerTypes
<1>15. \A m \in Nat : Given(j, m)' <=> Given(j, m)
    BY <1>3 DEF Given
<1>16. Applied(j, i)' /\ \A m \in Nat \ {i} : Applied(j, m)' <=> Applied(j, m)
    BY <1>6, <1>9, <1>15 DEF Applied
<1>17. HitsOk(j)'
    <2>1. \A m, x : InChunk(j, m, x)' <=> InChunk(j, m, x)
        BY <1>3 DEF InChunk, Start, End
    <2>2. ASSUME NEW x \in Indices, x >= range[j].len PROVE h[x] = 0
        <3>1. ~InChunk(j, i, x)
            <4>1. x \in Nat /\ range[j].len \in Nat
                BY <1>4, <1>5, <1>7 DEF LoopTypes
            <4>. QED
                BY <1>4, <1>5, <1>6, <2>2, <4>1, ChunkMembers
        <3>2. hits[j][x] = 0
            BY <1>6, <2>2 DEF HitsOk
        <3>. QED
            BY <1>11, <3>1, <3>2
    <2>3. ASSUME NEW m \in 0..(tasks[j].num - 1), NEW x \in Indices, InChunk(j, m, x)
          PROVE  h[x] = IF Applied(j, m)' THEN 1 ELSE 0
        <3>1. m \in Nat /\ x \in Nat
            BY <1>6, <1>7
        <3>2. hits[j][x] = IF Applied(j, m) THEN 1 ELSE 0
            BY <1>6, <2>3 DEF HitsOk
        <3>3. CASE m = i
            <4>1. hits[j][x] = 0
                BY <1>10, <3>2, <3>3 DEF Applied
            <4>. QED
                BY <1>11, <1>16, <2>3, <3>3, <4>1
        <3>4. CASE m # i
            <4>1. ~InChunk(j, i, x)
                BY <1>4, <1>5, <1>6, <2>3, <3>1, <3>4, ChunksDisjoint
            <4>. QED
                BY <1>11, <1>16, <3>1, <3>2, <3>4, <4>1
        <3>. QED
            BY <3>3, <3>4
    <2>4. nextTask'[j] > 0 /\ nextTask'[j] # 0 /\ UNCHANGED <<tasks, range>>
        BY <1>3, <1>6
    <2>5. tasks[j].chunk > 0 /\ range[j].len <= tasks[j].num * tasks[j].chunk
        BY <1>6 DEF HitsOk
    <2>. QED
        BY <1>12, <2>1, <2>2, <2>3, <2>4, <2>5 DEF HitsOk
<1>18. ErrOk(j)'
    <2>1. s # {} => e[1]
        BY <1>2, <1>6, <1>13 DEF ErrOk
    <2>2. ASSUME e[1] PROVE e[2] # Nothing \/ \E m \in Nat : On("caught", <<j, m>>)'
        <3>1. CASE err[j][1]
            <4>1. err[j][2] # Nothing \/ \E m \in Nat : On("caught", <<j, m>>)
                BY <1>6, <3>1 DEF ErrOk
            <4>2. ASSUME NEW m \in Nat, On("caught", <<j, m>>) PROVE On("caught", <<j, m>>)'
                BY <1>9, <1>10, <4>2
            <4>. QED
                BY <1>13, <4>1, <4>2
        <3>2. CASE ~err[j][1]
            BY <1>6, <1>8, <1>9, <1>13, <2>2, <3>2
        <3>. QED
            BY <3>1, <3>2
    <2>3. e[2] # Nothing => e[2] \in s
        BY <1>2, <1>6, <1>13 DEF ErrOk
    <2>4. ASSUME NEW m \in Nat, On("caught", <<j, m>>)' PROVE m \in s
        <3>1. CASE m = i
            BY <1>2, <1>8, <1>9, <2>4, <3>1
        <3>2. CASE m # i
            <4>1. On("caught", <<j, m>>)
                BY <1>9, <2>4, <3>2
            <4>. QED
                BY <1>2, <1>6, <4>1 DEF ErrOk
        <3>. QED
            BY <3>1, <3>2
    <2>. QED
        BY <1>12, <2>1, <2>2, <2>3, <2>4 DEF ErrOk
<1>19. AnswerOk(j)'
    BY <1>3, <1>6, <1>17, <1>18 DEF AnswerOk
<1>. QED
    BY <1>3, <1>4, <1>9, <1>12, <1>14, <1>19, AnswerStep

\* The task that won the flag stores what it threw.
LEMMA StoreErrorAnswer ==
    ASSUME LoopInv, AnswerInv, NEW a \in Agents, StoreError(a)
    PROVE  AnswerInv'
<1>1. PICK t, j, i, e : t = Top(a) /\ j = t.job /\ i = t.id /\ e = <<err[j][1], i>>
    OBVIOUS
<1>2. /\ stack[a] # <<>> /\ t.at = "caught" /\ ReplaceTop(a, Task("mark", j, i))
      /\ err' = [err EXCEPT ![j] = e]
      /\ UNCHANGED <<queue, result, range, tasks, nextTask, threw, hits>>
    BY <1>1 DEF StoreError, IsAt
<1>3. /\ t \in FrameType /\ FrameOk(t) /\ j \in Jobs /\ Key(t) \notin Queued /\ Key(t) = <<j, i>>
    BY <1>1, <1>2, TopKey DEF Key
<1>4. Pending(j, i) /\ LoopTypes /\ AnswerTypes /\ AnswerOk(j)
    BY <1>1, <1>2, <1>3 DEF FrameOk, LoopInv, AnswerInv
<1>5. i \in Nat /\ result[j] = "running" /\ HitsOk(j) /\ ErrOk(j)
    <2>1. i \in 0..(tasks[j].num - 1) /\ tasks[j].num \in Nat
        BY <1>3, <1>4 DEF Pending, Given, LoopTypes
    <2>2. result[j] = "running"
        BY <1>4 DEF Pending
    <2>. QED
        BY <1>4, <2>1, <2>2 DEF AnswerOk
<1>6. /\ \A w, k : On(w, k)' <=> IF k = <<j, i>> THEN "mark" = w ELSE On(w, k)
      /\ ~Waiting(j, i)'
      /\ \A k \in Jobs \ {j} : \A m \in Nat :
            /\ Waiting(k, m)' <=> Waiting(k, m)
            /\ On("caught", <<k, m>>)' <=> On("caught", <<k, m>>)
      /\ \A m \in Nat \ {i} : Waiting(j, m)' <=> Waiting(j, m)
    BY <1>1, <1>2, ReplaceTaskOn
<1>7. On("caught", <<j, i>>) /\ ~On("body", <<j, i>>)
    BY <1>1, <1>2, <1>3, TopOn
<1>8. \A m \in Nat : Applied(j, m)' <=> Applied(j, m)
    BY <1>2, <1>3, <1>6, <1>7 DEF Applied, Waiting, Given
<1>9. i \in threw[j]
    BY <1>5, <1>7 DEF ErrOk
<1>10. e[1] = err[j][1] /\ e[2] = i /\ e \in BOOLEAN \X Ids
    <2>1. err[j] \in BOOLEAN \X Ids
        BY <1>3, <1>4 DEF AnswerTypes
    <2>2. err[j][1] \in BOOLEAN
        BY <2>1
    <2>. QED
        BY <1>1, <1>5, <2>2 DEF Ids
<1>11. err'[j] = e /\ \A k \in Jobs \ {j} : err'[k] = err[k]
    BY <1>2, <1>3, <1>4 DEF AnswerTypes
<1>12. AnswerTypes'
    BY <1>2, <1>4, <1>10 DEF AnswerTypes
<1>13. ErrOk(j)'
    <2>1. i # Nothing
        BY <1>5, LoopsAssumption
    <2>2. threw[j] # {} => e[1]
        BY <1>5, <1>10 DEF ErrOk
    <2>3. ASSUME NEW m \in Nat, On("caught", <<j, m>>)' PROVE m \in threw[j]
        <3>1. On("caught", <<j, m>>)
            BY <1>6, <2>3
        <3>. QED
            BY <1>5, <3>1 DEF ErrOk
    <2>. QED
        BY <1>2, <1>9, <1>10, <1>11, <2>1, <2>2, <2>3 DEF ErrOk
<1>14. HitsOk(j)'
    <2>1. \A m, x : InChunk(j, m, x)' <=> InChunk(j, m, x)
        BY <1>2 DEF InChunk, Start, End
    <2>2. \A m \in 0..(tasks[j].num - 1) : m \in Nat
        BY <1>3, <1>4 DEF LoopTypes
    <2>3. \A m \in 0..(tasks[j].num - 1) : Applied(j, m)' <=> Applied(j, m)
        BY <1>8, <2>2
    <2>. QED
        BY <1>2, <1>5, <2>1, <2>3 DEF HitsOk
<1>15. AnswerOk(j)'
    BY <1>2, <1>5, <1>13, <1>14 DEF AnswerOk
<1>. QED
    BY <1>2, <1>3, <1>6, <1>11, <1>12, <1>15, AnswerStep

\* When every future is completed every chunk has had its call of f, and no
\* exception is on its way.
LEMMA AllDone ==
    ASSUME LoopInv, AnswerInv, NEW j \in Jobs, result[j] = "running",
           nextTask[j] > tasks[j].num, futures[j] = 0..(tasks[j].num - 1)
    PROVE  /\ \A x \in Indices : hits[j][x] = IF x < range[j].len THEN 1 ELSE 0
           /\ IF err[j][2] = Nothing THEN threw[j] = {} ELSE err[j][2] \in threw[j]
<1>1. LoopTypes /\ JobOk(j) /\ HitsOk(j) /\ ErrOk(j)
    BY DEF LoopInv, AnswerInv, AnswerOk
<1>2. tasks[j].num \in Nat /\ nextTask[j] \in Nat /\ nextTask[j] = tasks[j].num + 1 /\ range[j].len \in Nat
    BY <1>1 DEF LoopTypes, JobOk
<1>3. \A i : ~Pending(j, i)
    BY DEF Pending, Given
<1>4. \A i \in Nat : ~Waiting(j, i) /\ ~On("caught", <<j, i>>)
    <2>1. ASSUME NEW i \in Nat, <<j, i>> \in Queued PROVE FALSE
        <3>1. QueuedOk(<<j, i>>)
            BY <2>1 DEF LoopInv
        <3>2. i # Nothing
            BY LoopsAssumption
        <3>. QED
            BY <1>3, <3>1, <3>2 DEF QueuedOk
    <2>2. ASSUME NEW i \in Nat, On("caught", <<j, i>>) \/ On("body", <<j, i>>) PROVE FALSE
        <3>1. PICK b \in Agents : \E g \in Frames(b) : g.at \in {"caught", "body"} /\ Key(g) = <<j, i>>
            BY <2>2 DEF On
        <3>. PICK g \in Frames(b) : g.at \in {"caught", "body"} /\ Key(g) = <<j, i>>
            BY <3>1
        <3>2. Pending(g.job, g.id) /\ g.job = j
            BY DEF LoopInv, FrameOk, Key
        <3>. QED
            BY <1>3, <3>2
    <2>. QED
        BY <2>1, <2>2 DEF Waiting
<1>5. \A i \in 0..(tasks[j].num - 1) : Applied(j, i)
    <2>1. \A i \in 0..(tasks[j].num - 1) : i \in Nat /\ Given(j, i)
        BY <1>2 DEF Given
    <2>. QED
        BY <1>4, <2>1 DEF Applied
<1>6. ASSUME NEW x \in Indices PROVE hits[j][x] = IF x < range[j].len THEN 1 ELSE 0
    <2>1. x \in Nat
        BY LoopsAssumption DEF Indices
    <2>2. CASE x < range[j].len
        <3>1. tasks[j].chunk > 0 /\ range[j].len <= tasks[j].num * tasks[j].chunk
            BY <1>1, <1>2 DEF HitsOk
        <3>2. PICK i \in 0..(tasks[j].num - 1) : InChunk(j, i, x)
            BY <1>1, <2>1, <2>2, <3>1, ChunksCover
        <3>3. hits[j][x] = IF Applied(j, i) THEN 1 ELSE 0
            BY <1>1, <1>2, <3>2 DEF HitsOk
        <3>. QED
            BY <1>5, <2>2, <3>3
    <2>3. CASE ~(x < range[j].len)
        BY <1>1, <1>2, <2>1, <2>3 DEF HitsOk
    <2>. QED
        BY <2>2, <2>3
<1>7. IF err[j][2] = Nothing THEN threw[j] = {} ELSE err[j][2] \in threw[j]
    BY <1>1, <1>4 DEF ErrOk
<1>. QED
    BY <1>6, <1>7

LEMMA ReturnAnswer ==
    ASSUME LoopInv, AnswerInv, NEW a \in Agents, Return(a)
    PROVE  AnswerInv'
<1>1. PICK j, r : j = Top(a).job /\ r = IF err[j][2] = Nothing THEN "returned" ELSE "raised"
    OBVIOUS
<1>2. /\ IsAt(a, "run") /\ nextTask[j] > tasks[j].num /\ futures[j] = 0..(tasks[j].num - 1) /\ Pop(a)
      /\ result' = [result EXCEPT ![j] = r]
      /\ UNCHANGED <<queue, range, tasks, nextTask, hits, err, threw>>
    BY <1>1 DEF Return
<1>3. stack[a] # <<>> /\ j \in Jobs /\ result[j] = "running"
    BY <1>1, <1>2, RunFrame
<1>4. /\ \A x \in Indices : hits[j][x] = IF x < range[j].len THEN 1 ELSE 0
      /\ IF err[j][2] = Nothing THEN threw[j] = {} ELSE err[j][2] \in threw[j]
    BY <1>2, <1>3, AllDone
<1>5. /\ r \in {"returned", "raised", "refused", "lost"}
      /\ r = "returned" => threw[j] = {}
      /\ r = "raised" => err[j][2] \in threw[j]
    BY <1>1, <1>4
<1>6. Queued' = Queued
    BY <1>2 DEF Queued
<1>. QED
    BY <1>1, <1>2, <1>3, <1>4, <1>5, <1>6, EndAnswer

-----------------------------------------------------------------------------
LEMMA AnswerInit == ParInit => AnswerInv
<1>. SUFFICES ASSUME ParInit PROVE AnswerInv
    OBVIOUS
<1>1. AnswerTypes
    <2>1. PICK e : e = <<FALSE, Nothing>>
        OBVIOUS
    <2>2. e \in BOOLEAN \X Ids
        BY <2>1 DEF Ids
    <2>3. err = [j \in Jobs |-> e]
        BY <2>1 DEF ParInit
    <2>. QED
        BY <2>2, <2>3 DEF ParInit, AnswerTypes
<1>2. \A j \in Jobs : Untouched(j) /\ result[j] = "fresh"
    BY DEF ParInit, Untouched
<1>. QED
    BY <1>1, <1>2 DEF AnswerInv, AnswerOk

LEMMA AnswerNext ==
    ASSUME LoopInv, AnswerInv, [ParNext]_parVars
    PROVE  AnswerInv'
<1>1. ASSUME NEW c \in Callers, NEW k \in Settings, SetNumThreads(c, k) PROVE AnswerInv'
    BY <1>1, IdleAnswer DEF SetNumThreads
<1>2. ASSUME NEW w \in Workers, TakeTask(w) PROVE AnswerInv'
    BY <1>2, TakeTaskAnswer
<1>3. ASSUME NEW a \in Agents, ParStep(a) PROVE AnswerInv'
    BY <1>3, StartRunAnswer, SubmitTaskAnswer, RefusedAnswer, RunFirstAnswer, EndBodyAnswer,
       EndFuncAnswer, StoreErrorAnswer, MarkFutureAnswer, ReturnAnswer DEF ParStep
<1>4. ASSUME NEW a \in Agents, NEW j \in Jobs, Launch(a, j) PROVE AnswerInv'
    BY <1>4, LaunchAnswer
<1>5. ASSUME NEW a \in Agents, NEW j \in Jobs, NEW len \in Lens, NEW grain \in Grains,
             RunInline(a, j, len, grain)
      PROVE  AnswerInv'
    BY <1>5, RunInlineAnswer
<1>6. ASSUME NEW a \in Agents, NEW j \in Jobs, NEW len \in Lens, NEW grain \in Grains, NEW slots,
             EnterParallel(a, j, len, grain, slots)
      PROVE  AnswerInv'
    BY <1>6, EnterParallelAnswer
<1>7. CASE UNCHANGED parVars
    BY <1>7, IdleAnswer DEF parVars
<1>. QED
    BY <1>1, <1>2, <1>3, <1>4, <1>5, <1>6, <1>7 DEF ParNext

\* So is what is known, while a call waits, of the chunks its tasks have done
\* and of their first error.
THEOREM AnswerInvariance == ParSpec => [](LoopInv /\ AnswerInv)
<1>1. ParInit => LoopInv /\ AnswerInv
    BY LoopInit, AnswerInit
<1>2. LoopInv /\ AnswerInv /\ [ParNext]_parVars => (LoopInv /\ AnswerInv)'
    BY LoopStep, AnswerNext
<1>. QED
    BY <1>1, <1>2, PTL DEF ParSpec

\* parallel_for returns to its caller exactly when f was applied once to each
\* index of the range without an error, however many threads shared the chunks,
\* and otherwise throws what one of the calls of f threw (JobsAnswer).
THEOREM CallersGetTheirAnswer == ParSpec => []JobsAnswer
<1>1. ASSUME LoopInv, AnswerInv PROVE JobsAnswer
    <2>1. ASSUME NEW j \in Jobs, result[j] = "returned"
          PROVE  threw[j] = {} /\ \A x \in Indices : hits[j][x] = IF x < range[j].len THEN 1 ELSE 0
        BY <1>1, <2>1 DEF AnswerInv, AnswerOk
    <2>2. ASSUME NEW j \in Jobs, result[j] = "raised", range[j] # NoRange
          PROVE  err[j][2] \in threw[j]
        BY <1>1, <2>2 DEF AnswerInv, AnswerOk
    <2>. QED
        BY <2>1, <2>2 DEF JobsAnswer, EachIndexOnce, ErrorIsRaised
<1>. QED
    BY <1>1, AnswerInvariance, PTL
=============================================================================
